SPECIFICATION FairSpecHeld
CONSTANTS
  MaxJobs = 1
  Pids = {p1, p2}
  NoPid = NoPid
  Builtins = {"fg"}
  Typed = {"TSTP"}
  JidBound = 1
PROPERTIES NewsHandled WaitReturns
