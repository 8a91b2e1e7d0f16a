------------------------------ MODULE Session ------------------------------
(***************************************************************************)
(* The device's session with the control plane: login, login --force and   *)
(* logout (cli/auth.go), which hold the state lock and run one at a time,  *)
(* and the requests of the commands that do not (run, get, broker, whoami: *)
(* cli/http.go, ensureControlPlaneAccess), which refresh the access token  *)
(* meanwhile.  The tokens are in the keystore, the link and the expiry of  *)
(* the access token in the state file.                                     *)
(*                                                                         *)
(* A refresh token is the session it belongs to; an access token is the    *)
(* session and the period it was issued in, and is good for that period.   *)
(* A device's sessions use the same two accounts of the keystore.          *)
(***************************************************************************)
EXTENDS Naturals

CONSTANTS Users,       \* processes that do not hold the state lock
          MaxSessions, \* bound: device codes approved
          MaxPeriods,  \* bound: times that access tokens expire
          Commands,    \* subset of {"login", "force", "logout"}
          Faults       \* subset of {"remote", "store", "save", "kill", "end", "event"}

ASSUME SessionAssumption ==
    /\ {"locked", "nobody"} \cap Users = {}
    /\ MaxSessions \in Nat \ {0} /\ MaxPeriods \in Nat \ {0}
    /\ Commands \subseteq {"login", "force", "logout"}
    /\ Faults \subseteq {"remote", "store", "save", "kill", "end", "event"}

VARIABLES file,     \* the state file: linked, and the period its expiry stands for
          keystore, \* the access and the refresh token, None if absent
          current,  \* processes whose snapshot is the state file
          job,      \* the command that holds the state lock
          user,     \* user[u]: the request u is making, and how the last one ended
          server,   \* sessions approved, those still live, the period
          orphan,   \* history: sessions lost to a failure while live
          alone     \* history: the process that alone took steps since it loaded, without a failure

vars == <<file, keystore, current, job, user, server, orphan, alone>>

None == 0
Sessions == 1 .. MaxSessions
NoToken == <<None, None>>
Locked == "locked"  \* the process that holds the state lock
Nobody == "nobody"
Idle(last) == [at |-> "idle", last |-> last]
JobFree == job.at = "idle"

\* (bug: good for a period more)
TokenLonger(s) == <<s, server.period + 1>>

Token(s) == <<s, server.period>>
Valid(token) == token[1] \in server.live /\ token[2] = server.period
Fresh(snapshot) == snapshot.expiry = server.period

\* The device is linked from the start to the first session, or to none.
Init ==
    /\ \E linked \in BOOLEAN :
         /\ file = [linked |-> linked, expiry |-> IF linked THEN 1 ELSE 0]
         /\ keystore = [access |-> IF linked THEN <<1, 1>> ELSE NoToken,
                        refresh |-> IF linked THEN 1 ELSE None]
         /\ server = [approved |-> IF linked THEN 1 ELSE 0, live |-> IF linked THEN {1} ELSE {}, period |-> 1]
    /\ current = {}
    /\ job = Idle("none")
    /\ user = [u \in Users |-> Idle("none")]
    /\ orphan = {}
    /\ alone = Nobody

Acts(p) == alone' = IF alone = p THEN p ELSE Nobody
Fails == alone' = Nobody

\* A save is refused when another process saved since p loaded.
Saves(p) == p \in current /\ current' = {p}
SaveRefused(p) == (p \notin current \/ "save" \in Faults) /\ UNCHANGED current

-----------------------------------------------------------------------------
(* A refresh, by the process p.                                            *)

\* refreshDeviceSession: the answer is a token, or a refusal if the session
\* is over.
RefreshAnswers == keystore.refresh # None /\ keystore.refresh \in server.live

\* (bug: the new expiry is not recorded)
RefreshesUnrecorded(p, token) ==
    /\ keystore' = [keystore EXCEPT !.access = token]
    /\ Saves(p)
    /\ UNCHANGED file

\* RefreshControlPlane: the token goes to the keystore, then the expiry to
\* the state file; a refused save leaves the new token there.
Refreshes(p, token) ==
    /\ keystore' = [keystore EXCEPT !.access = token]
    /\ Saves(p)
    /\ file' = [file EXCEPT !.expiry = token[2]]

RefreshNotSaved(p, token) ==
    /\ \/ keystore' = [keystore EXCEPT !.access = token] /\ SaveRefused(p)
       \/ "store" \in Faults /\ UNCHANGED <<keystore, current>>
    /\ UNCHANGED file

-----------------------------------------------------------------------------
(* Requests of the processes without the lock.                             *)

Load(u) ==
    /\ user[u].at = "idle"
    /\ file.linked
    /\ user' = [user EXCEPT ![u] = [at |-> "ensure", expiry |-> file.expiry, retry |-> FALSE,
                                    held |-> keystore.refresh \in server.live]]
    /\ current' = current \cup {u}
    /\ alone' = u
    /\ UNCHANGED <<file, keystore, job, server, orphan>>

Sent(r, bearer) == [at |-> "sent", bearer |-> bearer, expiry |-> r.expiry, retry |-> r.retry, held |-> r.held]
Asking(r, retry) == [at |-> "refresh", expiry |-> r.expiry, retry |-> retry, held |-> r.held]
Storing(r, token) == [at |-> "store", token |-> token, expiry |-> r.expiry, retry |-> r.retry, held |-> r.held]

\* ensureControlPlaneAccess: the cached token while it is fresh, else a
\* refresh; the request takes the token that is in the keystore by then.
Ensure(u) ==
    /\ user[u].at = "ensure"
    /\ user' = [user EXCEPT ![u] = IF keystore.access # NoToken /\ Fresh(@)
                                   THEN Sent(@, keystore.access) ELSE Asking(@, FALSE)]
    /\ Acts(u)
    /\ UNCHANGED <<file, keystore, current, job, server, orphan>>

AskRefresh(u) ==
    /\ user[u].at = "refresh"
    /\ \/ RefreshAnswers /\ user' = [user EXCEPT ![u] = Storing(@, Token(keystore.refresh))] /\ Acts(u)
       \/ ~RefreshAnswers /\ user' = [user EXCEPT ![u] = Idle("unauthorized")] /\ Acts(u)
       \/ "remote" \in Faults /\ user' = [user EXCEPT ![u] = Idle("failed")] /\ Fails
    /\ UNCHANGED <<file, keystore, current, job, server, orphan>>

StoreRefresh(u) ==
    /\ user[u].at = "store"
    /\ \/ /\ Refreshes(u, user[u].token)
          /\ user' = [user EXCEPT ![u] = Sent(@, @.token)]
          /\ Acts(u)
       \/ /\ RefreshNotSaved(u, user[u].token)
          /\ user' = [user EXCEPT ![u] = Idle("failed")]
          /\ Fails
    /\ UNCHANGED <<job, server, orphan>>

\* (bug: no request is tried again)
RetriesNever(r) == FALSE

\* After a 401, once, and only if the token that was sent is still the one in
\* the keystore (refreshBearerAfterUnauthorized).
Retries(r) == ~r.retry /\ keystore.access = r.bearer

Answer(u) ==
    /\ user[u].at = "sent"
    /\ \/ /\ user' = [user EXCEPT ![u] = IF Valid(@.bearer) THEN Idle("ok")
                                         ELSE IF Retries(@) THEN Asking(@, TRUE)
                                         ELSE Idle("unauthorized")]
          /\ Acts(u)
       \/ "remote" \in Faults /\ user' = [user EXCEPT ![u] = Idle("failed")] /\ Fails
    /\ UNCHANGED <<file, keystore, current, job, server, orphan>>

\* Without a request: an audit event is saved.
SaveEvent(u) ==
    /\ "event" \in Faults
    /\ user[u].at = "ensure"
    /\ Saves(u)
    /\ Acts(u)
    /\ UNCHANGED <<file, keystore, job, user, server, orphan>>

-----------------------------------------------------------------------------
(* Commands that hold the state lock.                                      *)

Working(at, cmd, session) == [at |-> at, cmd |-> cmd, linked |-> file.linked, session |-> session]

\* Nothing to log out of is success; a first login goes to the device code.
Begin(cmd) ==
    /\ JobFree
    /\ cmd \in Commands
    /\ job' = IF file.linked THEN Working(IF cmd = "login" THEN "refresh" ELSE "remote", cmd, None)
              ELSE IF cmd = "logout" THEN Idle("ok") ELSE Working("code", cmd, None)
    /\ current' = current \cup {Locked}
    /\ alone' = Locked
    /\ UNCHANGED <<file, keystore, user, server, orphan>>

\* login of a linked device refreshes; only a 401 leads on to a device code.
LoginRefreshes ==
    /\ job.at = "refresh"
    /\ \/ RefreshAnswers /\ job' = [job EXCEPT !.at = "store"] /\ Acts(Locked)
       \/ keystore.refresh # None /\ ~RefreshAnswers /\ job' = [job EXCEPT !.at = "code"] /\ Acts(Locked)
       \/ keystore.refresh = None /\ job' = Idle("failed") /\ Acts(Locked)
       \/ "remote" \in Faults /\ job' = Idle("failed") /\ Fails
    /\ UNCHANGED <<file, keystore, current, user, server, orphan>>

LoginStores ==
    /\ job.at = "store"
    /\ \/ Refreshes(Locked, Token(keystore.refresh)) /\ job' = Idle("ok") /\ Acts(Locked)
       \/ RefreshNotSaved(Locked, Token(keystore.refresh)) /\ job' = Idle("failed") /\ Fails
    /\ UNCHANGED <<user, server, orphan>>

\* (bug: the old session is left to expire)
EndsNothing(s) == server

Ends(s) == [server EXCEPT !.live = @ \ {s}]

\* login --force must end the session it replaces; logout tries to.
RemoteLogout ==
    /\ job.at = "remote"
    /\ \/ /\ keystore.refresh # None
          /\ server' = Ends(keystore.refresh)
          /\ job' = [job EXCEPT !.at = IF job.cmd = "force" THEN "code" ELSE "clear"]
          /\ UNCHANGED orphan
          /\ Acts(Locked)
       \/ /\ keystore.refresh = None
          /\ job' = IF job.cmd = "force" THEN Idle("failed") ELSE [job EXCEPT !.at = "clear"]
          /\ UNCHANGED <<server, orphan>>
          /\ Acts(Locked)
       \/ /\ "remote" \in Faults
          /\ job' = IF job.cmd = "force" THEN Idle("failed") ELSE [job EXCEPT !.at = "clear"]
          /\ orphan' = IF job.cmd = "logout" THEN orphan \cup {keystore.refresh} ELSE orphan
          /\ UNCHANGED server
          /\ Fails
    /\ UNCHANGED <<file, keystore, current, user>>

\* startDeviceCode and pollDeviceCodeLogin: approved in the browser, or not.
DeviceCode ==
    /\ job.at = "code"
    /\ \/ /\ server.approved < MaxSessions
          /\ LET new == server.approved + 1 IN
             /\ server' = [server EXCEPT !.approved = new, !.live = @ \cup {new}]
             /\ job' = [job EXCEPT !.at = "link", !.session = new]
          /\ Acts(Locked)
       \/ job' = Idle("failed") /\ UNCHANGED server /\ Fails
    /\ UNCHANGED <<file, keystore, current, user, orphan>>

\* The tokens of the old link are deleted before the new ones are stored.
Cleared == IF job.linked THEN [access |-> NoToken, refresh |-> None] ELSE keystore

\* What the keystore may hold after a login that could not store its tokens: the
\* access token is deleted again, and no deletion is checked.
LinkLeaves == [access : {NoToken, keystore.access, Token(job.session)},
               refresh : {Cleared.refresh, keystore.refresh}]

\* LinkControlPlaneForDevice
LinkTokens ==
    /\ job.at = "link"
    /\ \/ /\ keystore' = [access |-> Token(job.session), refresh |-> job.session]
          /\ job' = [job EXCEPT !.at = "saveLink"]
          /\ orphan' = IF job.linked THEN orphan ELSE orphan \cup {keystore.refresh}
          /\ Acts(Locked)
       \/ /\ "store" \in Faults
          /\ keystore' \in LinkLeaves
          /\ job' = Idle("failed")
          /\ orphan' = orphan \cup {job.session}
          /\ Fails
    /\ UNCHANGED <<file, current, user, server>>

SaveLink ==
    /\ job.at = "saveLink"
    /\ \/ /\ Saves(Locked)
          /\ file' = [linked |-> TRUE, expiry |-> server.period]
          /\ job' = Idle("ok")
          /\ Acts(Locked)
       \/ /\ SaveRefused(Locked)
          /\ job' = Idle("failed")
          /\ UNCHANGED file
          /\ Fails
    /\ UNCHANGED <<keystore, user, server, orphan>>

\* (bug: only the access token is deleted)
AccessDeleted == [keystore EXCEPT !.access = NoToken]

TokensDeleted == [access |-> NoToken, refresh |-> None]

\* ClearControlPlane: the tokens go before the state file that names them, and
\* logout goes on if the keystore does not delete them (deleteControlPlaneTokens).
ClearTokens ==
    /\ job.at = "clear"
    /\ \/ keystore' = TokensDeleted /\ Acts(Locked)
       \/ /\ "store" \in Faults
          /\ keystore' \in [access : {NoToken, keystore.access}, refresh : {None, keystore.refresh}]
          /\ Fails
    /\ job' = [job EXCEPT !.at = "saveClear"]
    /\ UNCHANGED <<file, current, user, server, orphan>>

SaveClear ==
    /\ job.at = "saveClear"
    /\ \/ Saves(Locked) /\ file' = [linked |-> FALSE, expiry |-> 0] /\ job' = Idle("ok") /\ Acts(Locked)
       \/ SaveRefused(Locked) /\ UNCHANGED file /\ job' = Idle("failed") /\ Fails
    /\ UNCHANGED <<keystore, user, server, orphan>>

-----------------------------------------------------------------------------
KillJob ==
    /\ "kill" \in Faults
    /\ ~JobFree
    /\ job' = Idle("killed")
    /\ orphan' = IF job.at = "link" THEN orphan \cup {job.session} ELSE orphan
    /\ Fails
    /\ UNCHANGED <<file, keystore, current, user, server>>

\* Access tokens expire.
Expire ==
    /\ server.period < MaxPeriods
    /\ server' = [server EXCEPT !.period = @ + 1]
    /\ Fails
    /\ UNCHANGED <<file, keystore, current, job, user, orphan>>

\* A session is ended by its expiry or by an administrator.
End(s) ==
    /\ "end" \in Faults
    /\ s \in server.live
    /\ server' = [server EXCEPT !.live = @ \ {s}]
    /\ Fails
    /\ UNCHANGED <<file, keystore, current, job, user, orphan>>

UserStep(u) == Load(u) \/ Ensure(u) \/ AskRefresh(u) \/ StoreRefresh(u) \/ Answer(u)

Next ==
    \/ \E u \in Users : UserStep(u) \/ SaveEvent(u)
    \/ \E cmd \in {"login", "force", "logout"} : Begin(cmd)
    \/ LoginRefreshes \/ LoginStores \/ RemoteLogout \/ DeviceCode \/ LinkTokens \/ SaveLink
    \/ ClearTokens \/ SaveClear \/ KillJob \/ Expire
    \/ \E s \in Sessions : End(s)

Spec == Init /\ [][Next]_vars

-----------------------------------------------------------------------------
(* Properties.                                                             *)

TypeOK ==
    /\ file \in [linked : BOOLEAN, expiry : 0 .. MaxPeriods]
    /\ keystore.refresh \in Sessions \cup {None}
    /\ keystore.access \in (Sessions \X (1 .. MaxPeriods)) \cup {NoToken}
    /\ current \subseteq Users \cup {Locked}
    /\ server.live \subseteq 1 .. server.approved
    /\ alone \in Users \cup {Locked, Nobody}

\* Whatever earlier commands left in the keystore, were refused to save or
\* raced to overwrite, a request made while nothing else happens succeeds if
\* the session is live (ensureControlPlaneAccess, refreshBearerAfterUnauthorized).
AloneItSucceeds ==
    [][ \A u \in Users : user[u].at # "idle" /\ user'[u].at = "idle" /\ alone' = u /\ user[u].held
                           => user'[u].last = "ok" ]_vars

\* Whatever state failures left, a logout that meets none leaves no link and
\* no token.
AloneLogoutCleans ==
    [][ ~JobFree /\ job'.at = "idle" /\ job.cmd = "logout" /\ alone' = Locked
          => job'.last = "ok" /\ ~file'.linked /\ keystore' = [access |-> NoToken, refresh |-> None] ]_vars

\* A request, or a logout, that nothing disturbs does what it is for, whatever
\* others left behind.
AloneItWorks == AloneItSucceeds /\ AloneLogoutCleans

\* No session is live without its refresh token on the device, unless a
\* failure lost it: login --force ends what it displaces
\* (TestLoginForceRevokesDisplacedServerSession).
SessionsHeld == TypeOK /\ (JobFree => server.live \subseteq {keystore.refresh} \cup orphan)
=============================================================================
