SPECIFICATION Spec
CONSTANTS
  MaxJobs = 4
  Pids = {p1, p2, p3, p4, p5}
  NoPid = NoPid
  AddBound = 7
SYMMETRY Symmetry
INVARIANTS JidFindsJob JidsBounded
