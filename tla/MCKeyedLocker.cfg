SPECIFICATION FairSpec
CONSTANTS
  p1 = p1
  p2 = p2
  p3 = p3
  k1 = k1
  k2 = k2
  m1 = m1
  m2 = m2
  m3 = m3
  Procs <- MCProcs
  Keys <- MCKeys
  Mutexes <- MCMutexes
  NoProc = NoProc
  NoKey = NoKey
  NoMutex = NoMutex
INVARIANTS
  TypeOK
  MutualExclusion
  RegistryExact
PROPERTIES
  EveryWaiterEnters
  ImplementsKeyMutex
