SPECIFICATION Spec
CONSTANTS
  MaxJobs = 2
  Pids = {p1, p2}
  NoPid = NoPid
  Builtins = {"fg", "bg"}
  Typed = {"INT", "TSTP"}
  JidBound = 2
SYMMETRY Symmetry
INVARIANTS TypeOK ListedAlive ListedOnce Tracked StoppedIsStopped
PROPERTY BackgroundSpared
