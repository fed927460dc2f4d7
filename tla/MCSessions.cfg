SPECIFICATION SessionsSpec
CONSTANTS
  Machines = {m1, m2}
  NoMachine = NoMachine
  Home = m1
  Calls = {chat, job}
  Interactive = {chat}
  Hello = Hello
  MaxSockets = 3
  MaxCalls = 1
  MaxRestarts = 1
  MaxTurns = 2
  MaxShots = 2
  MaxDetours = 1
  MaxReplies = 2
  MaxClauses = 2
INVARIANTS VerdictIsTrue NothingCrossesTurns AtMostOneStaleClip
PROPERTIES LostMachineEndsCall ThinkingIsLeft
CHECK_DEADLOCK FALSE
