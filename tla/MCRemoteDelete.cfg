\* Bulk and single deletes of three records; requests are refused, lost or
\* unanswered, listings fail, and the command is killed anywhere.
SPECIFICATION Spec
CONSTANTS
  Count = 3
  Faults = {"refuse", "request", "answer", "listing", "kill"}
PROPERTIES
  RollbackReportsTruly
  OnlyWhatWasShown
