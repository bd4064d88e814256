SPECIFICATION FairSpec
CONSTANTS
  p1 = p1
  p2 = p2
  none = none
  NoGroup = none
  MaxKey = 6
  GroupOf <- MCGroupOf
  Limit = 2
  QueryFactor = 1
  SkipLimit = 1
INVARIANTS
  TypeOK
  StableKeysListed
  NothingTwice
PROPERTIES
  EveryListingEnds
