SPECIFICATION Spec
CONSTANTS
  Options = {1}
  Names = {n1}
  Addresses = {a1}
  Places = {p1}
  Other = Other
  Links = {l1, l2}
  MaxOpenings = 2
  MaxPages = 2
  None = None
PROPERTIES AnswersItsOpening
CHECK_DEADLOCK FALSE
