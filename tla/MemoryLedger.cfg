SPECIFICATION Spec
CONSTANTS
  MaxRestaurants = 2
  Dines = {d1, d2}
  MaxAnswers = 1
  Names = {n1}
  Addresses = {a1}
  Places = {p1}
  Inputs <- MixedInputs
  Ops = {"create", "save", "update", "delete", "refresh", "edit", "chain", "deleteDine", "deleteWant"}
  None = None
  Gone = Gone
SYMMETRY Symmetry
INVARIANTS CopiesCurrent ListedOnce
PROPERTIES ImplementsLedger OneOfEach
CHECK_DEADLOCK FALSE
