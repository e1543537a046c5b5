SPECIFICATION FairSpec
CONSTANTS
  a = a
  b = b
  g1 = g1
  g2 = g2
  Requests = {r1, r2}
  Dines = {d1, d2}
  People = {a, b}
  Tags = {g1, g2}
  MaxPhotos = 2
  MaxVisitPhotos = 2
  MaxEdits = 2
  MaxRuns = 1
  BatchSize = 1
  MaxRows = 2
  Legacy = 1
  Forms <- SmallForms
  None = None
  Gone = Gone
INVARIANTS TypeOK SetsAsSubmitted PhotosAsSubmitted OnlyNewTagsDeadlock FinalRunHolds
PROPERTIES RunEnds
CHECK_DEADLOCK FALSE
