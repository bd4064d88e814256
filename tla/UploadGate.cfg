SPECIFICATION FairSpec
CONSTANTS
  r1 = r1
  r2 = r2
  r3 = r3
  b1 = b1
  b2 = b2
  b3 = b3
  t1 = t1
  t2 = t2
  Reqs <- MCReqs
  Buckets <- MCBuckets
  Tokens <- MCTokens
  TokenOf <- MCTokenOf
  NoReq = NoReq
  NoBucket = NoBucket
  MaxTries = 3
  Delays = {0, 2}
INVARIANTS
  TypeOK
  
PROPERTIES
  EveryUploadEnds
  ImplementsUploadPacing
