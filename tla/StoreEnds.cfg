SPECIFICATION FairSpec
CONSTANTS
  Tx = {t1, t2}
  MaxRestaurants = 2
  Dines = {d1}
  Names = {n1}
  Addresses = {a1}
  Places = {p1}
  Inputs <- ApartInputs
  Ops = {"create", "save", "update", "edit", "delete", "deleteDine"}
  None = None
  Gone = Gone
INVARIANTS ReferencesHold NoDeadlock
PROPERTIES EveryRequestEnds OpenItemStays
CHECK_DEADLOCK FALSE
