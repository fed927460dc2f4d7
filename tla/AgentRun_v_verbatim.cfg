SPECIFICATION Spec
CONSTANTS
  Calls = {c, f}
  Folder = {f}
  Artefact = {}
  NoCall = NoCall
  Approvals = {r1}
  NoApproval = NoApproval
  Declines = {}
  Cancels = {}
  Unattended = TRUE
  MaxRetries = 2
  MaxCrashes = 0
INVARIANT ExecutedWasShown
CHECK_DEADLOCK FALSE
