------------------------------ MODULE KeyedLocker ------------------------------
(***************************************************************************)
(* store/locks.go: a registry of reference-counted mutexes, one per        *)
(* composite bucket/key.  Lock(bucket, key) finds or creates the entry     *)
(* under the registry's own mutex l.mu, counts itself in, and only then    *)
(* blocks on the entry's mutex; the function it returns unlocks the entry  *)
(* first and counts itself out in a second critical section, deleting an   *)
(* entry nobody counts on any more.                                        *)
(*                                                                         *)
(* Each critical section of l.mu is one action (nothing in it blocks);     *)
(* between the actions any other request may run, which is where a         *)
(* deleted and recreated entry could let two requests hold the same key.   *)
(***************************************************************************)
EXTENDS Naturals, FiniteSets

CONSTANTS Procs, Keys, NoProc, NoKey,
          Mutexes,   \* the keyedMutex structures that can be allocated
          NoMutex    \* the nil pointer

ASSUME ProcsAssumption == IsFiniteSet(Procs) /\ NoProc \notin Procs
ASSUME KeysAssumption  == NoKey \notin Keys
ASSUME MutexAssumption == NoMutex \notin Mutexes

VARIABLES locks,   \* l.locks: the entry registered for each composite
          refs,    \* m.refs of every structure
          owner,   \* who holds m.mu
          pc,      \* where each request is: see Stages
          key,     \* the composite each request asked for
          mine     \* the pointer m each request captured

vars == <<locks, refs, owner, pc, key, mine>>

\* A request is "idle", blocked on m.mu ("waiting"), between Lock and its
\* unlock function ("holding"), or between the two halves of that function
\* ("leaving").
Stages == {"idle", "waiting", "holding", "leaving"}

Init == /\ locks = [k \in Keys |-> NoMutex]
        /\ refs  = [m \in Mutexes |-> 0]
        /\ owner = [m \in Mutexes |-> NoProc]
        /\ pc    = [p \in Procs |-> "idle"]
        /\ key   = [p \in Procs |-> NoKey]
        /\ mine  = [p \in Procs |-> NoMutex]

\* A structure neither registered nor captured by anyone: new memory.
Fresh(m) == /\ \A k \in Keys : locks[k] # m
            /\ \A p \in Procs : mine[p] # m

\* The first critical section of Lock: find or create the entry, count in.
Register(p, k) ==
  /\ pc[p] = "idle"
  /\ \E m \in Mutexes :
       /\ IF locks[k] = NoMutex
          THEN /\ Fresh(m)
               /\ refs'  = [refs EXCEPT ![m] = 1]
               /\ owner' = [owner EXCEPT ![m] = NoProc]
          ELSE /\ m = locks[k]
               /\ refs' = [refs EXCEPT ![m] = refs[m] + 1]
               /\ owner' = owner
       /\ locks' = [locks EXCEPT ![k] = m]
       /\ mine'  = [mine EXCEPT ![p] = m]
  /\ pc'  = [pc EXCEPT ![p] = "waiting"]
  /\ key' = [key EXCEPT ![p] = k]

\* Mutation: m.mu does not exclude.
AcquireAnyway(p) ==
  /\ pc[p] = "waiting"
  /\ owner' = [owner EXCEPT ![mine[p]] = p]
  /\ pc' = [pc EXCEPT ![p] = "holding"]
  /\ UNCHANGED <<locks, refs, key, mine>>

\* Mutation: Lock polls until nobody else counts on the entry.
AcquireWhenAlone(p) ==
  /\ pc[p] = "waiting"
  /\ \/ /\ refs[mine[p]] = 1
        /\ owner' = [owner EXCEPT ![mine[p]] = p]
        /\ pc' = [pc EXCEPT ![p] = "holding"]
        /\ UNCHANGED <<locks, refs, key, mine>>
     \/ refs[mine[p]] # 1 /\ UNCHANGED vars

\* m.mu.Lock() returns.
Acquire(p) ==
  /\ pc[p] = "waiting"
  /\ owner[mine[p]] = NoProc
  /\ owner' = [owner EXCEPT ![mine[p]] = p]
  /\ pc' = [pc EXCEPT ![p] = "holding"]
  /\ UNCHANGED <<locks, refs, key, mine>>

\* The unlock function: m.mu.Unlock().
Unlock(p) ==
  /\ pc[p] = "holding"
  /\ owner' = [owner EXCEPT ![mine[p]] = NoProc]
  /\ pc' = [pc EXCEPT ![p] = "leaving"]
  /\ UNCHANGED <<locks, refs, key, mine>>

\* Mutation: the entry is deleted without looking at the count.
LastUserUncounted(m, k) == locks[k] = m

\* m.refs-- leaves nobody, and the registered entry is still m.
LastUser(m, k) == refs[m] = 1 /\ locks[k] = m

\* Mutation: the entry is never deleted.
CountOut(p) ==
  /\ pc[p] = "leaving"
  /\ refs' = [refs EXCEPT ![mine[p]] = refs[mine[p]] - 1]
  /\ pc'   = [pc EXCEPT ![p] = "idle"]
  /\ key'  = [key EXCEPT ![p] = NoKey]
  /\ mine' = [mine EXCEPT ![p] = NoMutex]
  /\ UNCHANGED <<locks, owner>>

\* Mutation: the count goes out twice.
CountOutTwice(p) ==
  /\ pc[p] = "leaving"
  /\ refs' = [refs EXCEPT ![mine[p]] = refs[mine[p]] - 2]
  /\ locks' = IF locks[key[p]] = mine[p]
              THEN [locks EXCEPT ![key[p]] = NoMutex]
              ELSE locks
  /\ pc'   = [pc EXCEPT ![p] = "idle"]
  /\ key'  = [key EXCEPT ![p] = NoKey]
  /\ mine' = [mine EXCEPT ![p] = NoMutex]
  /\ UNCHANGED owner

\* The unlock function's critical section of l.mu: count out, and delete the
\* entry when nobody counts on it any more.
Deregister(p) ==
  LET m == mine[p] IN
  /\ pc[p] = "leaving"
  /\ refs' = [refs EXCEPT ![m] = refs[m] - 1]
  /\ locks' = IF LastUser(m, key[p])
              THEN [locks EXCEPT ![key[p]] = NoMutex]
              ELSE locks
  /\ pc'   = [pc EXCEPT ![p] = "idle"]
  /\ key'  = [key EXCEPT ![p] = NoKey]
  /\ mine' = [mine EXCEPT ![p] = NoMutex]
  /\ UNCHANGED owner

Step(p) == \/ \E k \in Keys : Register(p, k)
           \/ Acquire(p)
           \/ Unlock(p)
           \/ Deregister(p)

Next == \E p \in Procs : Step(p)

Spec == Init /\ [][Next]_vars

\* A goroutine that can run does; sync.Mutex hands the lock over after a
\* millisecond of starvation, so a waiter that keeps finding the mutex free
\* gets it; a request that is inside leaves (its handler returns).
Fairness == \A p \in Procs : /\ SF_vars(Acquire(p))
                             /\ WF_vars(Unlock(p))
                             /\ WF_vars(Deregister(p))

FairSpec == Spec /\ Fairness

-------------------------------------------------------------------------------
(* Properties                                                              *)

TypeOK == /\ locks \in [Keys -> Mutexes \cup {NoMutex}]
          /\ refs  \in [Mutexes -> Nat]
          /\ owner \in [Mutexes -> Procs \cup {NoProc}]
          /\ pc    \in [Procs -> Stages]
          /\ key   \in [Procs -> Keys \cup {NoKey}]
          /\ mine  \in [Procs -> Mutexes \cup {NoMutex}]

\* Two requests between Lock and its unlock function never hold the same
\* composite, whatever entries were deleted and recreated meanwhile
\* (locks.go:39 deletes an entry that another request may be about to use).
MutualExclusion ==
  \A p, q \in Procs :
    pc[p] = "holding" /\ pc[q] = "holding" /\ key[p] = key[q] => p = q

Users(m) == {p \in Procs : mine[p] = m}

\* The registry neither leaks nor forgets: a composite has an entry exactly
\* while some request counts on it, and the count is the number of those
\* requests (locks.go:31 and 38-41).
RegistryExact ==
  /\ \A k \in Keys : locks[k] # NoMutex <=> \E p \in Procs : key[p] = k
  /\ \A m \in Mutexes : refs[m] = Cardinality(Users(m))

\* Every request that asks for a composite gets it (locks.go:34).
EveryWaiterEnters == \A p \in Procs : pc[p] = "waiting" ~> pc[p] = "holding"

-------------------------------------------------------------------------------
(* The registry of mutexes implements one mutex per composite.  A request  *)
(* that has run m.mu.Unlock() has left, for the abstract mutex.            *)

wantsBar == [p \in Procs |-> IF pc[p] \in {"waiting", "holding"} THEN key[p] ELSE NoKey]

Inside(k) == {p \in Procs : pc[p] = "holding" /\ key[p] = k}

TheOne(S) == IF S = {} THEN NoProc ELSE CHOOSE p \in S : TRUE

holderBar == [k \in Keys |-> TheOne(Inside(k))]

Abstract == INSTANCE KeyMutex WITH wants <- wantsBar, holder <- holderBar

\* Lock and its unlock function behave as one mutex per composite.
ImplementsKeyMutex == Abstract!Spec

===============================================================================
