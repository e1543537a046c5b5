SPECIFICATION Spec
CONSTANTS
  Tx = {t1, t2}
  MaxRestaurants = 1
  Dines = {d1}
  Names = {n1}
  Addresses = {a1}
  Places = {p1}
  Inputs <- PlainInputs
  Ops = {"create", "save", "delete"}
  None = None
  Gone = Gone
PROPERTIES VisitedStays
CHECK_DEADLOCK FALSE
