SPECIFICATION RunsSpec
CONSTANTS
  Calls = {f, a}
  Folder = {f}
  Artefact = {a}
  NoCall = NoCall
  Approvals = {r1, r2}
  NoApproval = NoApproval
  Declines = {d}
  Cancels = {k}
  Unattended = FALSE
  MaxRetries = 2
  MaxCrashes = 0
  s1 = s1
  s2 = s2
  Schedulers = {s1, s2}
  Sockets = {}
  UpSchedulers <- BothUp
  Machines = {m1}
  Folders = {f1}
  Host <- OneMachine
  NoFolder = NoFolder
  TaskRetries = 2
  MaxOccurrences = 2
  MaxMoves = 2
INVARIANTS AtMostOneEffectPerApproval ExecutesOnce RefusedNeverRuns
PROPERTIES ScheduledIsSettled LiveGateIsLeft 
CHECK_DEADLOCK FALSE
