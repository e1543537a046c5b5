SPECIFICATION Spec
CONSTANTS
  g1 = g1
  g2 = g2
  e1 = e1
  e2 = e2
  e3 = e3
  Browsers = {b1}
  Flows = {f1, f2, f3}
  MaxUsers = 1
  MaxTokens = 1
  Google = {g1, g2}
  Emails = {e1, e2, e3}
  Addresses <- SomeAddresses
  Allowlists <- LinkLists
  MaxStarts = 1
  None = None
  Gone = Gone
SYMMETRY Alike
PROPERTIES RemovalRevokes
CHECK_DEADLOCK FALSE
