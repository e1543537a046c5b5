SPECIFICATION FairSpec
CONSTANTS
  g1 = g1
  g2 = g2
  e1 = e1
  e2 = e2
  e3 = e3
  Browsers = {b1}
  Flows = {f1, f2}
  MaxUsers = 2
  MaxTokens = 2
  Google = {g1, g2}
  Emails = {e1, e2, e3}
  Addresses <- SomeAddresses
  Allowlists <- SomeLists
  MaxStarts = 1
  None = None
  Gone = Gone
INVARIANTS OneUserPerAccount EmailCurrent
PROPERTIES ServedIsAllowed ExpiredGoes
CHECK_DEADLOCK FALSE
