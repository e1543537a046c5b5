SPECIFICATION Spec
CONSTANTS
  Tx = {t1, t2}
  MaxRestaurants = 2
  Dines = {d1}
  Names = {n1}
  Addresses = {a1}
  Places = {p1, p2}
  Inputs <- VariedInputs
  Ops = {"create", "save", "refresh", "deleteDine", "deleteWant"}
  None = None
  Gone = Gone
SYMMETRY Symmetry
INVARIANTS PlacesUnique
PROPERTIES ImplementsLedger PlaceKept DetailsFollowPlace
CHECK_DEADLOCK FALSE
