SPECIFICATION Spec
CONSTANTS
  Clients = {c1, c2}
  Cells = {a1, a2, a3}
  Nobody = Nobody
  Requested = {1}
  Answered = {1}
SYMMETRY Symmetry
INVARIANTS Descriptors Forwarded LogWhole
