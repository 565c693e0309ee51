CONSTANTS
  Sets = 2
  Tag = {0, 1, 2}
  WordCount = 2
  Word = {0, 1}
  LoadPlaces <- MCLoadPlaces
  Stores <- MCStores
SPECIFICATION LiveSpec
INVARIANTS
  TypeOK
  OneCopy
  CleanMatches
PROPERTIES
  PromiseKept
  MemRequestHeld
  RequestServed
CHECK_DEADLOCK TRUE
