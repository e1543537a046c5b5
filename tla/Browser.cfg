SPECIFICATION Spec
CONSTANTS
  Options = {1, 2, 3}
  Names = {n1, n2}
  Addresses = {a1}
  Places = {p1, p2}
  Other = Other
  Links = {l1, l2}
  MaxOpenings = 2
  MaxPages = 2
  None = None
SYMMETRY Symmetry
INVARIANTS PlaceFits UnpickRestores MarkedWasSaved ButtonComesBack
CHECK_DEADLOCK FALSE
