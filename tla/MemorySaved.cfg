SPECIFICATION Spec
CONSTANTS
  MaxRestaurants = 3
  Dines = {d1}
  MaxAnswers = 1
  Names = {n1, n2, n3}
  Addresses = {a1}
  Places = {p1}
  Inputs <- NamedInputs
  Ops = {"save", "deleteWant"}
  None = None
  Gone = Gone
INVARIANTS SaveConfirmed
CHECK_DEADLOCK FALSE
