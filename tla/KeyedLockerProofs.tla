--------------------------- MODULE KeyedLockerProofs ---------------------------
(***************************************************************************)
(* The keyed locker is a mutex per composite, for any finite set of        *)
(* requests and any sets of composites and structures.  The argument: a    *)
(* request that has not yet counted itself out finds its own structure     *)
(* registered under its composite, because an entry is deleted only when   *)
(* the count is the last one and the count is exact.                       *)
(***************************************************************************)
EXTENDS KeyedLocker, FiniteSetTheorems, TLAPS

\* A request that counts on a structure has named a composite, and a
\* structure is captured from registration to deregistration.
Captured == \A p \in Procs : /\ pc[p] = "idle" <=> key[p] = NoKey
                             /\ pc[p] = "idle" <=> mine[p] = NoMutex

\* The structure a request counts on is the one registered for its composite.
Registered == \A p \in Procs : pc[p] # "idle" => locks[key[p]] = mine[p]

\* One structure serves one composite.
Separate == \A j, k \in Keys : locks[j] = locks[k] /\ locks[j] # NoMutex => j = k

\* m.mu is owned by the request that holds it.
Owned == \A p \in Procs : pc[p] = "holding" => owner[mine[p]] = p

IInv == TypeOK /\ Captured /\ Registered /\ Separate /\ Owned /\ RegistryExact

-------------------------------------------------------------------------------

\* Counting a request in or out changes the size of a set of requests by one,
\* and a count of one leaves no other request (m.refs++ and m.refs--).
LEMMA CountUsers ==
  ASSUME NEW S \in SUBSET Procs, NEW p \in Procs
  PROVE  /\ Cardinality({}) = 0
         /\ Cardinality({p}) = 1
         /\ Cardinality(S) \in Nat
         /\ p \notin S => Cardinality(S \cup {p}) = Cardinality(S) + 1
         /\ p \in S => Cardinality(S \ {p}) = Cardinality(S) - 1
         /\ p \in S /\ Cardinality(S) = 1 => S = {p}
<1>1. IsFiniteSet(S)
  BY ProcsAssumption, FS_Subset
<1>2. Cardinality(S) \in Nat
  BY <1>1, FS_CardinalityType
<1>3. Cardinality({}) = 0 /\ Cardinality({p}) = 1
  BY FS_EmptySet, FS_Singleton
<1>4. p \notin S => Cardinality(S \cup {p}) = Cardinality(S) + 1
  BY <1>1, FS_AddElement
<1>5. p \in S => Cardinality(S \ {p}) = Cardinality(S) - 1
  BY <1>1, FS_RemoveElement
<1>6. ASSUME p \in S, Cardinality(S) = 1 PROVE S = {p}
  <2>1. IsFiniteSet(S \ {p}) /\ Cardinality(S \ {p}) = 0
    BY <1>1, <1>5, <1>6, FS_Subset
  <2>2. S \ {p} = {}
    BY <2>1, FS_EmptySet
  <2>. QED  BY <2>2, <1>6
<1>. QED  BY <1>2, <1>3, <1>4, <1>5, <1>6

\* NewKeyedLocker returns an empty registry.
LEMMA InitInv == Init => IInv
<1>. SUFFICES ASSUME Init PROVE IInv
  OBVIOUS
<1>1. \A m \in Mutexes : Users(m) = {}
  BY MutexAssumption DEF Init, Users
<1>2. Cardinality({}) = 0
  BY FS_EmptySet
<1>3. RegistryExact
  BY <1>1, <1>2, KeysAssumption DEF Init, RegistryExact
<1>. QED
  BY <1>3, ProcsAssumption DEF Init, IInv, TypeOK, Stages, Captured, Registered, Separate, Owned

\* Lock's first critical section preserves the invariant.
LEMMA RegisterInv ==
  ASSUME IInv, NEW p \in Procs, NEW k \in Keys, Register(p, k)
  PROVE  IInv'
<1>. USE KeysAssumption, MutexAssumption, ProcsAssumption
<1>1. PICK m \in Mutexes :
        /\ IF locks[k] = NoMutex
           THEN /\ Fresh(m)
                /\ refs'  = [refs EXCEPT ![m] = 1]
                /\ owner' = [owner EXCEPT ![m] = NoProc]
           ELSE /\ m = locks[k]
                /\ refs' = [refs EXCEPT ![m] = refs[m] + 1]
                /\ owner' = owner
        /\ locks' = [locks EXCEPT ![k] = m]
        /\ mine'  = [mine EXCEPT ![p] = m]
  BY DEF Register
<1>2. /\ pc[p] = "idle"
      /\ pc'  = [pc EXCEPT ![p] = "waiting"]
      /\ key' = [key EXCEPT ![p] = k]
  BY DEF Register
<1>3. TypeOK'
  BY <1>1, <1>2 DEF IInv, TypeOK, Stages
<1>4. Captured'
  BY <1>1, <1>2 DEF IInv, TypeOK, Captured
<1>5. \A q \in Procs : q # p /\ key[q] = k => locks[k] = mine[q] /\ mine[q] # NoMutex
  BY DEF IInv, Captured, Registered
<1>6. Registered'
  BY <1>1, <1>2, <1>5 DEF IInv, TypeOK, Captured, Registered, Stages
<1>7. Separate'
  BY <1>1 DEF IInv, TypeOK, Separate, Fresh
<1>8. Owned'
  <2>. SUFFICES ASSUME NEW q \in Procs, pc'[q] = "holding" PROVE owner'[mine'[q]] = q
    BY DEF Owned
  <2>1. q # p /\ pc[q] = "holding" /\ mine'[q] = mine[q] /\ mine[q] \in Mutexes /\ owner[mine[q]] = q
    BY <1>1, <1>2 DEF IInv, TypeOK, Captured, Owned
  <2>. QED  BY <2>1, <1>1 DEF Fresh, IInv, TypeOK
<1>9. RegistryExact'
  <2>1. \A j \in Keys : locks'[j] # NoMutex <=> \E q \in Procs : key'[q] = j
    BY <1>1, <1>2 DEF IInv, TypeOK, RegistryExact, Captured
  <2>2. ASSUME NEW n \in Mutexes PROVE refs'[n] = Cardinality(Users(n)')
    <3>1. p \notin Users(n)
      BY <1>2 DEF Users, IInv, Captured
    <3>2. CASE n # m
      <4>1. Users(n)' = Users(n)
        BY <3>1, <3>2, <1>1 DEF Users, IInv, TypeOK
      <4>. QED  BY <4>1, <3>2, <1>1 DEF IInv, RegistryExact, TypeOK
    <3>3. CASE n = m
      <4>1. Users(n)' = Users(n) \cup {p}
        BY <3>3, <1>1 DEF Users, IInv, TypeOK
      <4>2. CASE locks[k] = NoMutex
        <5>1. Users(n) = {}
          BY <4>2, <3>3, <1>1 DEF Fresh, Users
        <5>2. Users(n)' = {p}
          BY <4>1, <5>1
        <5>3. Cardinality({p}) = 1
          BY FS_Singleton
        <5>4. refs'[n] = 1
          BY <4>2, <3>3, <1>1 DEF IInv, TypeOK
        <5>. QED  BY <5>2, <5>3, <5>4
      <4>3. CASE locks[k] # NoMutex
        <5>1. Users(n) \in SUBSET Procs
          BY DEF Users
        <5>2. Cardinality(Users(n) \cup {p}) = Cardinality(Users(n)) + 1
          BY <5>1, <3>1, CountUsers
        <5>3. refs'[n] = refs[n] + 1 /\ refs[n] = Cardinality(Users(n))
          BY <4>3, <3>3, <1>1 DEF IInv, TypeOK, RegistryExact
        <5>. QED  BY <4>1, <5>2, <5>3
      <4>. QED  BY <4>2, <4>3
    <3>. QED  BY <3>2, <3>3
  <2>. QED  BY <2>1, <2>2 DEF RegistryExact
<1>. QED  BY <1>3, <1>4, <1>6, <1>7, <1>8, <1>9 DEF IInv

\* The unlock function's second critical section preserves the invariant.
LEMMA DeregisterInv ==
  ASSUME IInv, NEW p \in Procs, Deregister(p)
  PROVE  IInv'
<1>. USE KeysAssumption, MutexAssumption, ProcsAssumption
<1>0. PICK m \in Mutexes, k \in Keys : m = mine[p] /\ k = key[p]
  BY DEF Deregister, IInv, TypeOK, Captured
<1>1. /\ pc[p] = "leaving"
      /\ refs' = [refs EXCEPT ![m] = refs[m] - 1]
      /\ locks' = IF LastUser(m, k) THEN [locks EXCEPT ![k] = NoMutex] ELSE locks
      /\ pc' = [pc EXCEPT ![p] = "idle"]
      /\ key' = [key EXCEPT ![p] = NoKey]
      /\ mine' = [mine EXCEPT ![p] = NoMutex]
      /\ owner' = owner
  BY <1>0 DEF Deregister
<1>2. m = mine[p] /\ k = key[p] /\ locks[k] = m
  BY <1>0, <1>1 DEF IInv, Registered
<1>3. /\ Users(m) \in SUBSET Procs
      /\ p \in Users(m)
      /\ refs[m] = Cardinality(Users(m))
      /\ refs[m] \in Nat
  BY <1>2 DEF Users, IInv, RegistryExact, TypeOK
<1>4. ASSUME refs[m] = 1 PROVE Users(m) = {p}
  <2>1. Cardinality(Users(m)) = 1
    BY <1>3, <1>4
  <2>. QED  BY <2>1, <1>3, CountUsers, Zenon
<1>5. Users(m)' = Users(m) \ {p}
  BY <1>1, <1>2 DEF Users, IInv, TypeOK
<1>6. refs'[m] = Cardinality(Users(m)') /\ refs'[m] \in Nat
  <2>1. Cardinality(Users(m) \ {p}) = Cardinality(Users(m)) - 1
    BY <1>3, CountUsers
  <2>2. Users(m) \ {p} \in SUBSET Procs
    BY <1>3
  <2>3. Cardinality(Users(m) \ {p}) \in Nat
    BY <2>2, CountUsers
  <2>4. refs'[m] = refs[m] - 1
    BY <1>1, <1>2 DEF IInv, TypeOK
  <2>. QED  BY <2>1, <2>3, <2>4, <1>3, <1>5
<1>7. \A q \in Procs : q # p /\ key[q] = k => mine[q] = m
  BY <1>2 DEF IInv, Registered, Captured
<1>8. TypeOK'
  BY <1>1, <1>2, <1>6 DEF IInv, TypeOK, Stages
<1>9. Captured'
  BY <1>1 DEF IInv, TypeOK, Captured
<1>10. Registered'
  <2>. SUFFICES ASSUME NEW q \in Procs, pc'[q] # "idle" PROVE locks'[key'[q]] = mine'[q]
    BY DEF Registered
  <2>1. q # p /\ pc[q] # "idle" /\ key'[q] = key[q] /\ mine'[q] = mine[q]
    BY <1>1 DEF IInv, TypeOK
  <2>2. locks[key[q]] = mine[q] /\ key[q] \in Keys
    BY <2>1 DEF IInv, Registered, Captured, TypeOK
  <2>3. CASE LastUser(m, k)
    <3>1. Users(m) = {p}
      BY <2>3, <1>4 DEF LastUser
    <3>2. key[q] # k
      BY <3>1, <1>7, <2>1 DEF Users
    <3>. QED  BY <3>2, <2>1, <2>2, <2>3, <1>1
  <2>4. CASE ~LastUser(m, k)
    BY <2>1, <2>2, <2>4, <1>1
  <2>. QED  BY <2>3, <2>4
<1>11. Separate'
  BY <1>1, <1>2 DEF IInv, TypeOK, Separate
<1>12. Owned'
  BY <1>1 DEF IInv, TypeOK, Owned
<1>13. RegistryExact'
  <2>1. ASSUME NEW j \in Keys PROVE locks'[j] # NoMutex <=> \E q \in Procs : key'[q] = j
    <3>1. CASE j # k
      <4>1. locks'[j] = locks[j]
        BY <3>1, <1>1
      <4>2. \A q \in Procs : key'[q] = j <=> key[q] = j
        BY <3>1, <1>1, <1>2 DEF IInv, TypeOK
      <4>. QED  BY <4>1, <4>2 DEF IInv, RegistryExact
    <3>2. CASE j = k /\ LastUser(m, k)
      <4>1. Users(m) = {p}
        BY <3>2, <1>4 DEF LastUser
      <4>2. \A q \in Procs : key'[q] # k
        BY <4>1, <1>1, <1>2, <1>7 DEF Users, IInv, TypeOK
      <4>3. locks'[k] = NoMutex
        BY <3>2, <1>1, <1>2 DEF IInv, TypeOK
      <4>. QED  BY <4>2, <4>3, <3>2
    <3>3. CASE j = k /\ ~LastUser(m, k)
      <4>1. refs[m] # 1
        BY <3>3, <1>2 DEF LastUser
      <4>2. PICK q \in Users(m) : q # p
        <5>1. Users(m) # {p}
          BY <4>1, <1>3, CountUsers
        <5>. QED  BY <5>1, <1>3
      <4>3. q \in Procs /\ pc[q] # "idle" /\ locks[key[q]] = m
        BY <4>2, <1>2 DEF Users, IInv, Captured, Registered
      <4>4. key[q] = k
        BY <4>3, <1>2 DEF IInv, Captured, TypeOK, Separate
      <4>. QED  BY <4>2, <4>3, <4>4, <3>3, <1>1, <1>2 DEF IInv, TypeOK
    <3>. QED  BY <3>1, <3>2, <3>3
  <2>2. ASSUME NEW n \in Mutexes PROVE refs'[n] = Cardinality(Users(n)')
    <3>1. CASE n # m
      <4>1. Users(n)' = Users(n)
        BY <3>1, <1>1, <1>2 DEF Users, IInv, TypeOK
      <4>. QED  BY <4>1, <3>1, <1>1 DEF IInv, RegistryExact, TypeOK
    <3>2. CASE n = m
      BY <3>2, <1>6
    <3>. QED  BY <3>1, <3>2
  <2>. QED  BY <2>1, <2>2 DEF RegistryExact
<1>. QED  BY <1>8, <1>9, <1>10, <1>11, <1>12, <1>13 DEF IInv

\* Blocking on and releasing m.mu preserve the invariant.
LEMMA MutexInv ==
  ASSUME IInv, NEW p \in Procs, Acquire(p) \/ Unlock(p)
  PROVE  IInv'
<1>. USE KeysAssumption, MutexAssumption, ProcsAssumption
<1>1. /\ locks' = locks /\ refs' = refs /\ key' = key /\ mine' = mine
      /\ pc[p] # "idle" /\ mine[p] \in Mutexes
  BY DEF Acquire, Unlock, IInv, TypeOK, Captured
<1>2. TypeOK' /\ Captured' /\ Registered' /\ Separate'
  BY <1>1 DEF Acquire, Unlock, IInv, TypeOK, Stages, Captured, Registered, Separate
<1>3. RegistryExact'
  BY <1>1 DEF IInv, RegistryExact, Users
<1>4. ASSUME NEW q \in Procs, pc'[q] = "holding" PROVE owner'[mine'[q]] = q
  <2>1. mine'[q] = mine[q]
    BY <1>1
  <2>2. CASE Acquire(p)
    <3>1. CASE q = p
      BY <3>1, <2>1, <2>2, <1>1 DEF Acquire, IInv, TypeOK
    <3>2. CASE q # p
      <4>1. pc[q] = "holding"
        BY <3>2, <2>2, <1>4 DEF Acquire, IInv, TypeOK
      <4>2. owner[mine[q]] = q /\ mine[q] # mine[p]
        BY <4>1, <2>2 DEF Acquire, IInv, Owned
      <4>. QED  BY <4>2, <2>1, <2>2 DEF Acquire, IInv, TypeOK
    <3>. QED  BY <3>1, <3>2
  <2>3. CASE Unlock(p)
    <3>1. q # p /\ pc[q] = "holding"
      BY <2>3, <1>4 DEF Unlock, IInv, TypeOK
    <3>2. owner[mine[q]] = q /\ owner[mine[p]] = p
      BY <3>1, <2>3 DEF Unlock, IInv, Owned
    <3>. QED  BY <3>1, <3>2, <2>1, <2>3 DEF Unlock, IInv, TypeOK
  <2>. QED  BY <2>2, <2>3
<1>. QED  BY <1>2, <1>3, <1>4 DEF IInv, Owned

\* The strengthening is an invariant of the locker (locks.go:22-43).
THEOREM Inductive == Spec => []IInv
<1>1. IInv /\ [Next]_vars => IInv'
  <2>. SUFFICES ASSUME IInv, [Next]_vars PROVE IInv'
    OBVIOUS
  <2>1. CASE UNCHANGED vars
    BY <2>1 DEF vars, IInv, TypeOK, Captured, Registered, Separate, Owned, RegistryExact, Users
  <2>2. CASE Next
    <3>1. PICK p \in Procs : Step(p)
      BY <2>2 DEF Next
    <3>. QED  BY <3>1, RegisterInv, MutexInv, DeregisterInv DEF Step
  <2>. QED  BY <2>1, <2>2
<1>. QED  BY InitInv, <1>1, PTL DEF Spec

\* Every step keeps the types of the registry, the mutexes and the goroutines.
THEOREM LockerTypes == Spec => []TypeOK
<1>1. IInv => TypeOK
  BY DEF IInv
<1>. QED  BY <1>1, Inductive, PTL

\* No two requests hold the same composite, however entries are deleted and
\* recreated.
THEOREM LockerMutualExclusion == Spec => []MutualExclusion
<1>1. IInv => MutualExclusion
  BY DEF IInv, Captured, Registered, Owned, MutualExclusion
<1>. QED  BY <1>1, Inductive, PTL

\* The registry holds exactly the composites in use, with exact counts.
THEOREM LockerRegistryExact == Spec => []RegistryExact
<1>1. IInv => RegistryExact
  BY DEF IInv
<1>. QED  BY <1>1, Inductive, PTL

\* Every step of the locker is a step of one mutex per composite, or a
\* stutter: Register asks, Acquire enters, Unlock leaves, Deregister is
\* invisible.
THEOREM LockerImplementsKeyMutex == Spec => ImplementsKeyMutex
<1>. USE KeysAssumption, MutexAssumption, ProcsAssumption
<1>1. Init => Abstract!Init
  BY DEF Init, Abstract!Init, wantsBar, holderBar, Inside, TheOne
<1>2. ASSUME IInv, IInv', [Next]_vars
      PROVE  [Abstract!Next]_(Abstract!vars)
  <2>1. CASE UNCHANGED vars
    <3>1. wantsBar' = wantsBar /\ holderBar' = holderBar
      BY <2>1 DEF vars, wantsBar, holderBar, Inside
    <3>. QED  BY <3>1 DEF Abstract!vars
  <2>2. ASSUME NEW p \in Procs, NEW k \in Keys, Register(p, k)
        PROVE  Abstract!Request(p, k)
    <3>1. /\ pc[p] = "idle"
          /\ pc'  = [pc EXCEPT ![p] = "waiting"]
          /\ key' = [key EXCEPT ![p] = k]
      BY <2>2 DEF Register
    <3>2. wantsBar' = [wantsBar EXCEPT ![p] = k] /\ wantsBar[p] = NoKey
      BY <3>1, <1>2 DEF wantsBar, IInv, TypeOK
    <3>3. \A j \in Keys : Inside(j)' = Inside(j)
      BY <3>1, <1>2 DEF IInv, TypeOK, Inside
    <3>4. holderBar' = holderBar
      BY <3>3 DEF holderBar
    <3>. QED  BY <3>2, <3>4 DEF Abstract!Request
  <2>3. ASSUME NEW p \in Procs, Acquire(p)
        PROVE  Abstract!Enter(p, key[p])
    <3>. DEFINE k == key[p]
    <3>1. /\ pc[p] = "waiting" /\ owner[mine[p]] = NoProc
          /\ pc' = [pc EXCEPT ![p] = "holding"]
          /\ key' = key /\ k \in Keys /\ locks[k] = mine[p]
      BY <2>3, <1>2 DEF Acquire, IInv, Captured, Registered, TypeOK
    <3>2. wantsBar' = wantsBar /\ wantsBar[p] = k
      BY <3>1, <1>2 DEF wantsBar, IInv, TypeOK
    <3>3. Inside(k) = {}
      BY <3>1, <1>2 DEF IInv, Registered, Owned, Inside
    <3>4. holderBar[k] = NoProc
      BY <3>1, <3>3 DEF holderBar, TheOne
    <3>5. Inside(k)' = {p}
      BY <3>1, <3>3, <1>2 DEF IInv, TypeOK, Inside
    <3>6. \A j \in Keys : j # k => Inside(j)' = Inside(j)
      BY <3>1, <1>2 DEF IInv, TypeOK, Inside
    <3>7. ASSUME NEW j \in Keys, j # k PROVE holderBar'[j] = holderBar[j]
      BY <3>6, <3>7 DEF holderBar
    <3>8. holderBar'[k] = p
      BY <3>1, <3>5 DEF holderBar, TheOne
    <3>9. holderBar' = [holderBar EXCEPT ![k] = p]
      BY <3>7, <3>8 DEF holderBar
    <3>. QED  BY <3>2, <3>4, <3>9 DEF Abstract!Enter
  <2>4. ASSUME NEW p \in Procs, Unlock(p)
        PROVE  Abstract!Leave(p, key[p])
    <3>. DEFINE k == key[p]
    <3>1. /\ pc[p] = "holding" /\ pc' = [pc EXCEPT ![p] = "leaving"]
          /\ key' = key /\ k \in Keys
      BY <2>4, <1>2 DEF Unlock, IInv, Captured, TypeOK
    <3>2. wantsBar' = [wantsBar EXCEPT ![p] = NoKey]
      BY <3>1, <1>2 DEF wantsBar, IInv, TypeOK
    <3>3. Inside(k) = {p}
      BY <3>1, <1>2 DEF IInv, Captured, Registered, Owned, Inside
    <3>4. holderBar[k] = p
      BY <3>1, <3>3 DEF holderBar, TheOne
    <3>5. Inside(k)' = {}
      BY <3>1, <3>3, <1>2 DEF IInv, TypeOK, Inside
    <3>6. \A j \in Keys : j # k => Inside(j)' = Inside(j)
      BY <3>1, <1>2 DEF IInv, TypeOK, Inside
    <3>7. ASSUME NEW j \in Keys, j # k PROVE holderBar'[j] = holderBar[j]
      BY <3>6, <3>7 DEF holderBar
    <3>8. holderBar'[k] = NoProc
      BY <3>1, <3>5 DEF holderBar, TheOne
    <3>9. holderBar' = [holderBar EXCEPT ![k] = NoProc]
      BY <3>7, <3>8 DEF holderBar
    <3>. QED  BY <3>2, <3>4, <3>9 DEF Abstract!Leave
  <2>5. ASSUME NEW p \in Procs, Deregister(p)
        PROVE  wantsBar' = wantsBar /\ holderBar' = holderBar
    <3>1. /\ pc[p] = "leaving" /\ pc' = [pc EXCEPT ![p] = "idle"]
          /\ key' = [key EXCEPT ![p] = NoKey]
      BY <2>5 DEF Deregister
    <3>2. wantsBar' = wantsBar
      BY <3>1, <1>2 DEF wantsBar, IInv, TypeOK
    <3>3. \A j \in Keys : Inside(j)' = Inside(j)
      BY <3>1, <1>2 DEF IInv, TypeOK, Inside
    <3>4. holderBar' = holderBar
      BY <3>3 DEF holderBar
    <3>. QED  BY <3>2, <3>4
  <2>6. CASE Next
    <3>1. PICK p \in Procs : Step(p)
      BY <2>6 DEF Next
    <3>2. CASE \E k \in Keys : Register(p, k)
      BY <3>2, <2>2 DEF Abstract!Next
    <3>3. CASE Acquire(p)
      <4>1. key[p] \in Keys
        BY <3>3, <1>2 DEF Acquire, IInv, Captured, TypeOK
      <4>. QED  BY <4>1, <3>3, <2>3 DEF Abstract!Next
    <3>4. CASE Unlock(p)
      <4>1. key[p] \in Keys
        BY <3>4, <1>2 DEF Unlock, IInv, Captured, TypeOK
      <4>. QED  BY <4>1, <3>4, <2>4 DEF Abstract!Next
    <3>5. CASE Deregister(p)
      BY <3>5, <2>5 DEF Abstract!vars
    <3>. QED  BY <3>1, <3>2, <3>3, <3>4, <3>5 DEF Step
  <2>. QED  BY <2>1, <2>6, <1>2
<1>. QED  BY <1>1, <1>2, Inductive, PTL DEF Spec, ImplementsKeyMutex, Abstract!Spec

===============================================================================
