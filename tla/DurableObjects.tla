----------------------------- MODULE DurableObjects -----------------------------
(***************************************************************************)
(* What a client of the object store may rely on, with Telegram out of     *)
(* sight: each key holds an object, or nothing.  One writer at a time      *)
(* replaces the object of a key, in one step and with complete content.    *)
(* Content goes missing (Damaged) or is removed only while somebody is     *)
(* deleting that very key.  A restart ends every request and loses no      *)
(* object.                                                                 *)
(*                                                                         *)
(* ObjectStore.tla implements this specification as long as no copy is     *)
(* made by repointing metadata.                                            *)
(***************************************************************************)

CONSTANTS Reqs, Keys, Contents,
          Absent,    \* the key names no object
          Damaged,   \* the object is listed and cannot be read back whole
          NoReq, NoKey

VARIABLES object,    \* what each key holds
          writer,    \* the request that may replace the object of a key
          deleting   \* the key each request is deleting

vars == <<object, writer, deleting>>

Init == /\ object = [k \in Keys |-> Absent]
        /\ writer = [k \in Keys |-> NoReq]
        /\ deleting = [r \in Reqs |-> NoKey]

\* A writer comes and goes.
Open(r, k) == /\ writer[k] = NoReq
              /\ writer' = [writer EXCEPT ![k] = r]
              /\ UNCHANGED <<object, deleting>>

Close(r, k) == /\ writer[k] = r
               /\ writer' = [writer EXCEPT ![k] = NoReq]
               /\ UNCHANGED <<object, deleting>>

\* The writer of k replaces its object with complete content.
Store(r, k) == /\ writer[k] = r
               /\ \E c \in Contents : object' = [object EXCEPT ![k] = c]
               /\ UNCHANGED <<writer, deleting>>

\* A delete of k runs: content goes, then the object; it may also give up.
StartDelete(r, k) == /\ object[k] # Absent
                     /\ deleting' = [deleting EXCEPT ![r] = k]
                     /\ UNCHANGED <<object, writer>>

Damage(r, k) == /\ deleting[r] = k
                /\ object[k] # Absent
                /\ object' = [object EXCEPT ![k] = Damaged]
                /\ deleting' \in {deleting, [deleting EXCEPT ![r] = NoKey]}
                /\ UNCHANGED writer

Remove(r, k) == /\ deleting[r] = k
                /\ object' = [object EXCEPT ![k] = Absent]
                /\ deleting' = [deleting EXCEPT ![r] = NoKey]
                /\ UNCHANGED writer

GiveUp(r, k) == /\ deleting[r] = k
                /\ deleting' = [deleting EXCEPT ![r] = NoKey]
                /\ UNCHANGED <<object, writer>>

Restart == /\ writer' = [k \in Keys |-> NoReq]
           /\ deleting' = [r \in Reqs |-> NoKey]
           /\ UNCHANGED object

Next == \/ \E r \in Reqs, k \in Keys :
             \/ Open(r, k) \/ Close(r, k) \/ Store(r, k)
             \/ StartDelete(r, k) \/ Damage(r, k) \/ Remove(r, k) \/ GiveUp(r, k)
        \/ Restart

Spec == Init /\ [][Next]_vars

===============================================================================
