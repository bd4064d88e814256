SPECIFICATION Spec
CONSTANTS
  r1 = r1
  r2 = r2
  k1 = k1
  k2 = k2
  b1 = b1
  b2 = b2
  c1 = c1
  c2 = c2
  Reqs <- MCReqs
  Keys <- MCKeys
  Buckets <- MCBuckets
  Bindings <- MCBindings
  BucketOf <- MCBucketOf
  BindingOf <- MCTwoBindings
  NoReq = NoReq
  NoKey = NoKey
  NoObject = NoObject
  Damaged = Damaged
  PartCounts = {1}
  MaxMessages = 3
  Ops = {"put", "delete"}
  Faults = {"upload"}
INVARIANTS
  MessageAccounting
