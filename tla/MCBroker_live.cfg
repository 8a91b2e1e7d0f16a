\* One request while another process changes the vault, loads fail and the
\* session is renewed.
SPECIFICATION FairSpec
CONSTANTS
  r1 = r1
  r2 = r2
  Request <- OneRequest
  Once = TRUE
  MaxChanges = 1
  Ends = {"runtime"}
  Faults = {"load", "unauthorized"}
PROPERTIES
  BrokerStops
\* The process ends.
CHECK_DEADLOCK FALSE
