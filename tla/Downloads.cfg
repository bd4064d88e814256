SPECIFICATION FairSpec
CONSTANTS
  r1 = r1
  r2 = r2
  Reqs <- MCReqs
  NoReq = NoReq
  DocumentLimit = 2
  ChunkSize = 2
  EnableChunking = TRUE
  MaxVersion = 2
  SizeOf <- MCSizeOf
  Headers <- MCHeaders
  Unsized <- MCUnsized
  Dests = {d1}
  NoDest = NoDest
  MaxUploads = 2
  MaxDownloads = 2
  MaxTelegram = 2
  Ops = {"get", "range", "copy"}
  Faults = {"broken", "upload"}
CHECK_DEADLOCK FALSE
INVARIANTS
  TypeOK
  SlotsAccounted
  OneReaderPerFile
  NothingMissing
PROPERTIES
  CompleteIsExact
  
