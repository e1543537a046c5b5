SPECIFICATION Spec
CONSTANTS
  Restaurants = {1, 2, 3}
  Name <- MCName
  City <- MCCity
  Category <- MCCategory
  Mapped <- MCMapped
  People = {1, 2}
  PersonName <- MCPersonName
  MinAggregateRaters = 2
  YearLength = 2
  TopLimit = 2
  Everybody = Everybody
  None = None
  Forms <- MCForms
  MaxDines = 3
  MaxWrites = 2
  DinesPageSize = 2
  TagName <- MCTagName
  EverybodyValue = 11
  Text <- MCText
  Lower <- MCLower
  Collated <- MCCollated
  Params <- MCParams
  SpinMinAverage = 7
  RestedBefore = 4
  TurnSince = 4
  WantToTryLists <- MCLists
INVARIANTS TypeOK LinkFindsDine PageAsCounted PagesPartition ChoicesLeadBack MirrorsPostgres SpinMovesOn TurnIsFair
