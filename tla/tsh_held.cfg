SPECIFICATION SpecHeld
CONSTANTS
  MaxJobs = 2
  Pids = {p1, p2, p3}
  NoPid = NoPid
  Builtins = {"fg", "bg"}
  Typed = {"TSTP"}
  JidBound = 2
SYMMETRY Symmetry
INVARIANTS AtMostOneFG PromptFree StopsShown
PROPERTY Promise
