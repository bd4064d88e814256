SPECIFICATION FairSpec
CONSTANTS
  r1 = r1
  r2 = r2
  k1 = k1
  u1 = u1
  u2 = u2
  small = small
  large = large
  Reqs <- MCReqs
  Keys <- MCOneKey
  NoReq = NoReq
  Uploads <- MCTwoUploads
  KeyOf <- MCKeyOfTwo
  MaxUploads = 1
  PartNumbers = {1, 2}
  NoPart = NoPart
  Contents <- MCContents
  SizeOf <- MCSizeOf
  Requested <- MCRequested
  NoObject = NoObject
  MaxMessages = 3
  Faults = {"upload", "extra", "db", "refuse", "crash"}
INVARIANTS
  TypeOK
  ListedIsLive
PROPERTIES
  CommitsWhatWasAsked
  
  EveryRequestEnds
