SPECIFICATION DeviceSpec
CONSTANTS
  Machines = {m1, m2}
  NoMachine = NoMachine
  Home = m1
  Calls = {turn, job}
  Interactive = {turn}
  Hello = Hello
  MaxSockets = 3
  MaxCalls = 1
  MaxRestarts = 1
INVARIANT DeliveredToOneSocket
CHECK_DEADLOCK FALSE
