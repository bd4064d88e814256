------------------------------- MODULE KeyMutex -------------------------------
(***************************************************************************)
(* What the object store asks of its keyed locker: for each composite      *)
(* bucket/key at most one request at a time is inside, a request that has  *)
(* asked never gives up (Lock takes no context, store/locks.go:22), and    *)
(* the locks die with the process.                                         *)
(*                                                                         *)
(* KeyedLocker.tla implements this specification, and ObjectStore.tla and  *)
(* Multipart.tla take their locks from it.                                 *)
(***************************************************************************)

CONSTANTS Procs,   \* requests (goroutines) that take locks
          Keys,    \* composite bucket/key names
          NoProc,  \* nobody holds the lock
          NoKey    \* the request neither holds nor waits for a lock

VARIABLES wants,   \* the key each request waits for or holds
          holder   \* the request inside each key's critical section

vars == <<wants, holder>>

Init == /\ wants = [p \in Procs |-> NoKey]
        /\ holder = [k \in Keys |-> NoProc]

\* A request asks for the lock of k.
Request(p, k) == /\ wants[p] = NoKey
                 /\ wants' = [wants EXCEPT ![p] = k]
                 /\ UNCHANGED holder

\* A request that waits for k finds it free and is inside.
Enter(p, k) == /\ wants[p] = k
               /\ holder[k] = NoProc
               /\ holder' = [holder EXCEPT ![k] = p]
               /\ UNCHANGED wants

\* The unlock function returned by Lock runs.
Leave(p, k) == /\ holder[k] = p
               /\ holder' = [holder EXCEPT ![k] = NoProc]
               /\ wants' = [wants EXCEPT ![p] = NoKey]

\* The process restarts: the locks are in memory only.
Restart == /\ wants' = [p \in Procs |-> NoKey]
           /\ holder' = [k \in Keys |-> NoProc]

Next == \/ \E p \in Procs, k \in Keys : Request(p, k) \/ Enter(p, k) \/ Leave(p, k)
        \/ Restart

Spec == Init /\ [][Next]_vars

===============================================================================
