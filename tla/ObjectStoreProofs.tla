--------------------------- MODULE ObjectStoreProofs ---------------------------
(***************************************************************************)
(* The object store for any finite or infinite sets of requests, keys and  *)
(* buckets, any part counts and any bound on the messages.  It implements  *)
(* KeyMutex (its use of the key locks) and, without metadata copies,       *)
(* DurableObjects (what its clients see).                                  *)
(***************************************************************************)
EXTENDS ObjectStore, TLAPS

\* A request that leaves no trace: the effect of Done on every variable.
LEMMA DoneTypes ==
  ASSUME TypeOK, NEW r \in Reqs, Done(r)
  PROVE  /\ pc' \in [Reqs -> Stages]
         /\ key' \in [Reqs -> Keys \cup {NoKey}]
         /\ src' \in [Reqs -> Keys \cup {NoKey}]
         /\ feed' \in [Reqs -> SUBSET Nat]
         /\ chunks' \in [Reqs -> SUBSET Posted]
         /\ prev' \in [Reqs -> SUBSET Posted]
         /\ \A q \in Reqs : /\ pc'[q] # "idle" => key'[q] \in Keys
                            /\ pc'[q] \in {"open", "relink"} => src'[q] \in Keys
BY DEF TypeOK, Done, Goto, Stages

\* Releasing the key lock keeps its type.
LEMMA ReleaseTypes ==
  ASSUME TypeOK, NEW r \in Reqs, Release(r)
  PROVE  holder' \in [Keys -> Reqs \cup {NoReq}]
BY DEF TypeOK, Release

\* Nothing is posted and nobody runs at the start.
LEMMA InitTypes == Init => TypeOK
BY BoundsAssumption DEF Init, TypeOK, Posted, Stages

\* What a client asks for is well typed.
LEMMA AskTypes ==
  ASSUME TypeOK, NEW r \in Reqs, Ask(r)
  PROVE  TypeOK'
<1>1. CASE \E k \in Keys : Reject(r, k)
  BY <1>1 DEF Reject, vars, store, local, TypeOK, Posted
<1>2. ASSUME NEW k \in Keys, NEW n \in PartCounts, Put(r, k, n)
      PROVE  TypeOK'
  <2>1. 1..n \in SUBSET Nat
    BY BoundsAssumption
  <2>. QED  BY <2>1, <1>2 DEF Put, Goto, store, TypeOK, Posted, Stages
<1>3. ASSUME NEW s \in Keys, NEW k \in Keys, Copy(r, s, k)
      PROVE  TypeOK'
  BY <1>3 DEF Copy, Goto, store, TypeOK, Posted, Stages
<1>4. ASSUME NEW k \in Keys, Delete(r, k)
      PROVE  TypeOK'
  BY <1>4 DEF Delete, Goto, store, TypeOK, Posted, Stages
<1>. QED  BY <1>1, <1>2, <1>3, <1>4 DEF Ask

\* Every step of a running request is well typed.
LEMMA StepTypes ==
  ASSUME TypeOK, NEW r \in Reqs, LockKey(r) \/ Relink(r) \/ Advance(r)
  PROVE  TypeOK'
<1>. USE DEF TypeOK, Posted, Stages, Goto, ChunksOf
<1>1. CASE LockKey(r)
  BY <1>1 DEF LockKey
<1>2. CASE Relink(r)
  BY <1>2 DEF Relink
<1>3. CASE UploadChunk(r)
  BY <1>3, BoundsAssumption DEF UploadChunk
<1>4. CASE UploadUnanswered(r)
  BY <1>4, BoundsAssumption DEF UploadUnanswered, local
<1>5. CASE UploadFails(r)
  <2>1. unavailable' \subseteq Buckets
    BY <1>5, BucketsAssumption DEF UploadFails
  <2>. QED  BY <1>5, <2>1, DoneTypes, ReleaseTypes DEF UploadFails, LogUploads
<1>6. CASE BodyFails(r)
  BY <1>6, DoneTypes, ReleaseTypes DEF BodyFails
<1>7. CASE Commit(r)
  BY <1>7 DEF Commit
<1>8. CASE CommitFails(r)
  BY <1>8, DoneTypes, ReleaseTypes DEF CommitFails, LogUploads
<1>9. CASE CleanUp(r)
  BY <1>9 DEF CleanUp, First, Gone, TooOld, Refused
<1>10. CASE Finish(r)
  BY <1>10, DoneTypes, ReleaseTypes DEF Finish
<1>11. CASE OpenSource(r)
  BY <1>11, DoneTypes DEF OpenSource, store
<1>12. CASE Repoint(r)
  BY <1>12 DEF Repoint
<1>13. CASE DeleteChunk(r)
  BY <1>13 DEF DeleteChunk, First, Gone, TooOld
<1>14. CASE DeleteChunkFails(r)
  BY <1>14, DoneTypes DEF DeleteChunkFails, First, Refused
<1>15. CASE DeleteRow(r)
  BY <1>15, DoneTypes DEF DeleteRow
<1>. QED
  BY <1>1, <1>2, <1>3, <1>4, <1>5, <1>6, <1>7, <1>8, <1>9, <1>10, <1>11, <1>12,
     <1>13, <1>14, <1>15 DEF Advance

\* A crash keeps the database and Telegram, and ends every request.
LEMMA CrashTypes ==
  ASSUME TypeOK, Crash
  PROVE  TypeOK'
BY DEF Crash, TypeOK, Posted, Stages

\* The database, the log and the requests only ever name messages Telegram
\* has posted, and every running request names its keys.
THEOREM StoreTypes == Spec => []TypeOK
<1>1. TypeOK /\ [Next]_vars => TypeOK'
  <2>1. TypeOK /\ UNCHANGED vars => TypeOK'
    BY DEF vars, store, local, TypeOK, Posted
  <2>. QED  BY <2>1, AskTypes, StepTypes, CrashTypes DEF Next
<1>. QED  BY InitTypes, <1>1, PTL DEF Spec

-------------------------------------------------------------------------------
(* Locks                                                                   *)

\* Between Lock and its deferred unlock, a request holds the lock of its key.
LocksHeld == \A r \in Reqs : pc[r] \in Locked => holder[key[r]] = r

\* Taking and releasing key locks keeps every holder's lock.
LEMMA LockSteps ==
  ASSUME TypeOK, LocksHeld, [Next]_vars
  PROVE  LocksHeld'
<1>. USE DEF LocksHeld, Locked, TypeOK, Goto
<1>1. CASE UNCHANGED vars
  BY <1>1 DEF vars, store, local
<1>2. CASE Crash
  BY <1>2 DEF Crash
<1>3. ASSUME NEW r \in Reqs, Ask(r) PROVE LocksHeld'
  BY <1>3 DEF Ask, Reject, Put, Copy, Delete, vars, store, local
<1>4. ASSUME NEW r \in Reqs, LockKey(r) PROVE LocksHeld'
  BY <1>4, RequestsAssumption DEF LockKey, Free
<1>5. ASSUME NEW r \in Reqs, Relink(r) PROVE LocksHeld'
  BY <1>5, RequestsAssumption DEF Relink, Free
<1>6. ASSUME NEW r \in Reqs, pc[r] \in Locked, Release(r), Done(r) PROVE LocksHeld'
  BY <1>6 DEF Release, Done
<1>7. ASSUME NEW r \in Reqs, Done(r), holder' = holder PROVE LocksHeld'
  BY <1>7 DEF Done
<1>8. ASSUME NEW r \in Reqs, Advance(r) PROVE LocksHeld'
  <2>1. CASE UploadChunk(r) \/ UploadUnanswered(r) \/ CleanUp(r) \/ DeleteChunk(r)
    BY <2>1 DEF UploadChunk, UploadUnanswered, CleanUp, DeleteChunk, local
  <2>2. CASE UploadFails(r) \/ BodyFails(r) \/ CommitFails(r) \/ Finish(r)
    BY <2>2, <1>6 DEF UploadFails, BodyFails, CommitFails, Finish
  <2>3. CASE Commit(r) \/ Repoint(r)
    BY <2>3 DEF Commit, Repoint
  <2>4. CASE OpenSource(r)
    BY <2>4, <1>7 DEF OpenSource, store
  <2>5. CASE DeleteChunkFails(r) \/ DeleteRow(r)
    BY <2>5, <1>7 DEF DeleteChunkFails, DeleteRow
  <2>. QED  BY <1>8, <2>1, <2>2, <2>3, <2>4, <2>5 DEF Advance
<1>. QED  BY <1>1, <1>2, <1>3, <1>4, <1>5, <1>8 DEF Next

\* A request between Lock and its deferred unlock holds its key, whatever
\* fails in between.
THEOREM StoreLocksHeld == Spec => []LocksHeld
<1>1. Init => LocksHeld
  BY DEF Init, LocksHeld, Locked
<1>. QED  BY <1>1, LockSteps, StoreTypes, PTL DEF Spec

-------------------------------------------------------------------------------
(* Durability                                                              *)

\* No two objects list the same message.
RowsDisjoint ==
  \A j, k \in Keys, m \in Messages : m \in ChunksOf(j) /\ m \in ChunksOf(k) => j = k

\* The messages of an upload under way exist, and nobody else lists them or
\* is about to delete them.
UploadsOwn ==
  \A r \in Reqs :
    /\ pc[r] # "upload" => chunks[r] = {}
    /\ chunks[r] \subseteq live
    /\ \A m \in chunks[r] : /\ \A k \in Keys : m \notin ChunksOf(k)
                            /\ \A q \in Reqs : m \notin prev[q]
                            /\ \A q \in Reqs : m \in chunks[q] => q = r

\* What a request is going to delete is listed by no other key, and after its
\* own commit by no key.
DeletesOwn ==
  \A r \in Reqs :
    /\ pc[r] \notin {"upload", "cleanup", "delete"} => prev[r] = {}
    /\ \A m \in prev[r], k \in Keys : m \in ChunksOf(k) => k = key[r] /\ pc[r] # "cleanup"

\* Nobody repoints metadata.
NoRelink == \A r \in Reqs : pc[r] \notin {"relink", "repoint"}

Ownership == RowsDisjoint /\ UploadsOwn /\ DeletesOwn /\ NoRelink

\* The messages of one object are pieces of the message space.
LEMMA ChunksTypes ==
  ASSUME TypeOK
  PROVE  /\ \A k \in Keys : ChunksOf(k) \subseteq Posted
         /\ Posted \subseteq Messages
         /\ next \notin Posted
         /\ Messages \subseteq Nat
         /\ next <= MaxMessages => next \in Messages
BY BoundsAssumption DEF TypeOK, ChunksOf, Posted, Messages

\* A request that ends gives up its messages, its key and its deletions.
LEMMA DoneOwns ==
  ASSUME TypeOK, Ownership, NEW r \in Reqs, Done(r),
         rows' = rows, live' = live
  PROVE  Ownership'
BY DEF TypeOK, Ownership, RowsDisjoint, UploadsOwn, DeletesOwn, NoRelink, ChunksOf, Done, Goto

\* A delete that removes a row, or fails on a message, ends with less to own.
LEMMA DeleteEndOwns ==
  ASSUME TypeOK, Ownership, NEW r \in Reqs, DeleteChunkFails(r) \/ DeleteRow(r)
  PROVE  Ownership'
<1>. USE DEF TypeOK, Done, Goto, ChunksOf
<1>1. CASE DeleteRow(r)
  <2>1. live' = live
    BY <1>1 DEF DeleteRow
  <2>2. \A k \in Keys : ChunksOf(k)' \subseteq ChunksOf(k)
    BY <1>1 DEF DeleteRow
  <2>3. Done(r)
    BY <1>1 DEF DeleteRow
  <2>. HIDE DEF ChunksOf
  <2>4. RowsDisjoint'
    BY <2>2 DEF Ownership, RowsDisjoint
  <2>5. UploadsOwn'
    BY <2>1, <2>2, <2>3 DEF Ownership, UploadsOwn
  <2>6. DeletesOwn'
    BY <2>2, <2>3 DEF Ownership, DeletesOwn
  <2>7. NoRelink'
    BY <2>3 DEF Ownership, NoRelink
  <2>. QED  BY <2>4, <2>5, <2>6, <2>7 DEF Ownership
<1>2. CASE DeleteChunkFails(r)
  <2>1. PICK m \in prev[r] : live' \in {live, live \ {m}}
    BY <1>2 DEF DeleteChunkFails, Refused
  <2>2. rows' = rows /\ Done(r)
    BY <1>2 DEF DeleteChunkFails
  <2>3. UploadsOwn'
    BY <2>1, <2>2 DEF Ownership, UploadsOwn
  <2>4. RowsDisjoint' /\ DeletesOwn' /\ NoRelink'
    BY <2>2 DEF Ownership, RowsDisjoint, DeletesOwn, NoRelink
  <2>. QED  BY <2>3, <2>4 DEF Ownership
<1>. QED  BY <1>1, <1>2

\* Deleting one message takes it from nobody else.
LEMMA DeletionOwns ==
  ASSUME TypeOK, Ownership, NEW r \in Reqs, CleanUp(r) \/ DeleteChunk(r)
  PROVE  Ownership'
<1>1. PICK m \in prev[r] : /\ live' \in {live, live \ {m}}
                           /\ prev' = [prev EXCEPT ![r] = prev[r] \ {m}]
  BY DEF CleanUp, DeleteChunk, Gone, TooOld, Refused
<1>2. rows' = rows /\ pc' = pc /\ key' = key /\ chunks' = chunks
  BY DEF CleanUp, DeleteChunk
<1>3. RowsDisjoint' /\ NoRelink'
  BY <1>2 DEF Ownership, RowsDisjoint, ChunksOf, NoRelink
<1>4. UploadsOwn'
  BY <1>1, <1>2 DEF TypeOK, Ownership, UploadsOwn, ChunksOf
<1>5. DeletesOwn'
  BY <1>1, <1>2 DEF TypeOK, Ownership, DeletesOwn, ChunksOf
<1>. QED  BY <1>3, <1>4, <1>5 DEF Ownership

\* A new message belongs to nobody else.
LEMMA UploadOwns ==
  ASSUME TypeOK, Ownership, NEW r \in Reqs, UploadChunk(r) \/ UploadUnanswered(r)
  PROVE  Ownership'
<1>1. /\ live' = live \cup {next}
      /\ chunks' = chunks \/ chunks' = [chunks EXCEPT ![r] = chunks[r] \cup {next}]
      /\ rows' = rows /\ pc' = pc /\ key' = key /\ prev' = prev
      /\ pc[r] = "upload"
  BY DEF UploadChunk, UploadUnanswered, local
<1>2. /\ \A k \in Keys : next \notin ChunksOf(k)
      /\ \A q \in Reqs : next \notin prev[q] /\ next \notin chunks[q]
  BY ChunksTypes DEF TypeOK
<1>3. \A k \in Keys : ChunksOf(k)' = ChunksOf(k)
  BY <1>1 DEF ChunksOf
<1>4. RowsDisjoint' /\ NoRelink' /\ DeletesOwn'
  BY <1>1, <1>3 DEF Ownership, RowsDisjoint, NoRelink, DeletesOwn
<1>5. UploadsOwn'
  BY <1>1, <1>2, <1>3 DEF TypeOK, Ownership, UploadsOwn
<1>. QED  BY <1>4, <1>5 DEF Ownership

\* The commit hands the uploaded messages to the row, and leaves the replaced
\* ones to the clean-up alone.
LEMMA CommitOwns ==
  ASSUME TypeOK, Ownership, NEW r \in Reqs, Commit(r)
  PROVE  Ownership'
<1>0. PICK k \in Keys : key[r] = k
  BY DEF Commit, TypeOK
<1>1. /\ pc[r] = "upload" /\ key[r] = k
      /\ rows' = [rows EXCEPT ![k] = chunks[r]]
      /\ chunks' = [chunks EXCEPT ![r] = {}]
      /\ pc' = [pc EXCEPT ![r] = "cleanup"]
      /\ live' = live /\ key' = key /\ prev' = prev
  BY <1>0 DEF Commit, Goto
<1>2. ChunksOf(k)' = chunks[r]
  <2>1. rows'[k] = chunks[r]
    BY <1>1 DEF TypeOK
  <2>2. chunks[r] \in SUBSET Messages
    BY ChunksTypes DEF TypeOK
  <2>. QED  BY <2>1, <2>2, NoObjectAssumption DEF ChunksOf
<1>3. \A j \in Keys : j # k => ChunksOf(j)' = ChunksOf(j)
  BY <1>1 DEF ChunksOf, TypeOK
<1>4. RowsDisjoint'
  <2>. SUFFICES ASSUME NEW i \in Keys, NEW j \in Keys, NEW m \in Messages,
                       m \in ChunksOf(i)', m \in ChunksOf(j)', i # j
                PROVE  FALSE
    BY DEF RowsDisjoint
  <2>1. \A n \in chunks[r] : \A q \in Keys : n \notin ChunksOf(q)
    BY DEF Ownership, UploadsOwn
  <2>2. CASE i = k
    BY <2>1, <2>2, <1>2, <1>3
  <2>3. CASE j = k
    BY <2>1, <2>3, <1>2, <1>3
  <2>4. CASE i # k /\ j # k
    BY <2>4, <1>3 DEF Ownership, RowsDisjoint
  <2>. QED  BY <2>2, <2>3, <2>4
<1>5. UploadsOwn'
  BY <1>1, <1>2, <1>3 DEF TypeOK, Ownership, UploadsOwn
<1>6. DeletesOwn'
  BY <1>1, <1>2, <1>3 DEF TypeOK, Ownership, UploadsOwn, DeletesOwn
<1>7. NoRelink'
  BY <1>1 DEF TypeOK, Ownership, NoRelink
<1>. QED  BY <1>4, <1>5, <1>6, <1>7 DEF Ownership

\* A request starts, opens its source or takes its lock.
LEMMA StartOwns ==
  ASSUME TypeOK, Ownership, "relink" \notin Ops, NEW r \in Reqs,
         Ask(r) \/ OpenSource(r) \/ LockKey(r)
  PROVE  Ownership'
<1>. USE DEF TypeOK, Ownership, RowsDisjoint, UploadsOwn, DeletesOwn, NoRelink, ChunksOf, Goto
<1>1. CASE \E k \in Keys : Reject(r, k)
  <2>1. rows' = rows /\ live' = live /\ pc' = pc /\ key' = key /\ chunks' = chunks /\ prev' = prev
    BY <1>1 DEF Reject, vars, store, local
  <2>. QED  BY <2>1
<1>2. ASSUME NEW k \in Keys, NEW n \in PartCounts, Put(r, k, n) PROVE Ownership'
  <2>1. /\ rows' = rows /\ live' = live /\ chunks' = chunks /\ prev' = prev
        /\ pc' = [pc EXCEPT ![r] = "lock"]
        /\ key' = [key EXCEPT ![r] = k]
        /\ pc[r] = "idle"
    BY <1>2 DEF Put, store
  <2>. QED  BY <2>1
<1>3. ASSUME NEW s \in Keys, NEW k \in Keys, Copy(r, s, k) PROVE Ownership'
  <2>1. /\ rows' = rows /\ live' = live /\ chunks' = chunks /\ prev' = prev
        /\ pc' = [pc EXCEPT ![r] = "open"]
        /\ key' = [key EXCEPT ![r] = k]
        /\ pc[r] = "idle"
    BY <1>3 DEF Copy, store
  <2>. QED  BY <2>1
<1>4. ASSUME NEW k \in Keys, Delete(r, k) PROVE Ownership'
  <2>1. /\ rows' = rows /\ live' = live /\ chunks' = chunks
        /\ pc' = [pc EXCEPT ![r] = "delete"]
        /\ key' = [key EXCEPT ![r] = k]
        /\ prev' = [prev EXCEPT ![r] = ChunksOf(k)]
        /\ pc[r] = "idle"
    BY <1>4 DEF Delete, store
  <2>2. ChunksOf(k) \subseteq Messages
    BY ChunksTypes
  <2>. QED  BY <2>1, <2>2
<1>5. CASE OpenSource(r)
  BY <1>5, DoneOwns DEF OpenSource, store
<1>6. CASE LockKey(r)
  <2>1. /\ rows' = rows /\ live' = live /\ chunks' = chunks /\ key' = key
        /\ pc' = [pc EXCEPT ![r] = "upload"]
        /\ prev' = prev \/ prev' = [prev EXCEPT ![r] = ChunksOf(key[r])]
        /\ pc[r] = "lock" /\ key[r] \in Keys
    BY <1>6 DEF LockKey
  <2>2. ChunksOf(key[r]) \subseteq Messages
    BY <2>1, ChunksTypes
  <2>3. UploadsOwn'
    BY <2>1
  <2>4. DeletesOwn'
    <3>. HIDE DEF ChunksOf
    <3>1. \A k \in Keys : ChunksOf(k)' = ChunksOf(k)
      BY <2>1 DEF ChunksOf
    <3>. QED  BY <2>1, <2>2, <3>1
  <2>. QED  BY <2>1, <2>3, <2>4
<1>. QED  BY <1>1, <1>2, <1>3, <1>4, <1>5, <1>6 DEF Ask

\* Ownership is inductive as long as nobody repoints metadata.
LEMMA OwnershipSteps ==
  ASSUME TypeOK, Ownership, "relink" \notin Ops, [Next]_vars
  PROVE  Ownership'
<1>1. CASE UNCHANGED vars
  BY <1>1 DEF vars, store, local, Ownership, RowsDisjoint, UploadsOwn, DeletesOwn, NoRelink, ChunksOf
<1>2. CASE Crash
  BY <1>2 DEF Crash, Ownership, RowsDisjoint, UploadsOwn, DeletesOwn, NoRelink, ChunksOf
<1>3. ASSUME NEW r \in Reqs, Ask(r) \/ LockKey(r) PROVE Ownership'
  BY <1>3, StartOwns
<1>4. ASSUME NEW r \in Reqs, Relink(r) PROVE FALSE
  BY <1>4 DEF Relink, Ownership, NoRelink
<1>5. ASSUME NEW r \in Reqs, Advance(r) PROVE Ownership'
  <2>1. CASE UploadFails(r) \/ BodyFails(r) \/ CommitFails(r) \/ Finish(r)
    BY <2>1, DoneOwns DEF UploadFails, BodyFails, CommitFails, Finish
  <2>2. CASE Repoint(r)
    BY <2>2 DEF Repoint, Ownership, NoRelink
  <2>. QED
    BY <1>5, <2>1, <2>2, UploadOwns, CommitOwns, DeletionOwns, DeleteEndOwns, StartOwns DEF Advance
<1>. QED  BY <1>1, <1>2, <1>3, <1>4, <1>5 DEF Next

\* Messages have one owner at a time, through failures and crashes, as long as
\* no copy repoints metadata.
THEOREM StoreOwnership ==
  ASSUME "relink" \notin Ops
  PROVE  Spec => []Ownership
<1>1. Init => Ownership
  BY DEF Init, Ownership, RowsDisjoint, UploadsOwn, DeletesOwn, NoRelink, ChunksOf
<1>2. TypeOK /\ Ownership /\ [Next]_vars => Ownership'
  BY OwnershipSteps
<1>. QED  BY <1>1, <1>2, StoreTypes, PTL DEF Spec

-------------------------------------------------------------------------------
(* No object loses content behind its owner's back                         *)

\* Deleting a message hurts at most the object of the key the request names,
\* and only when the request is a DeleteObject.
LEMMA DeletionHurts ==
  ASSUME TypeOK, Ownership, NEW r \in Reqs, CleanUp(r) \/ DeleteChunk(r) \/ DeleteChunkFails(r),
         NEW k \in Keys, ~(pc[r] = "delete" /\ key[r] = k)
  PROVE  rows' = rows /\ (Whole(k)' <=> Whole(k))
<1>1. PICK m \in prev[r] : live' \in {live, live \ {m}}
  BY DEF CleanUp, DeleteChunk, DeleteChunkFails, Gone, TooOld, Refused
<1>2. rows' = rows
  BY DEF CleanUp, DeleteChunk, DeleteChunkFails
<1>3. pc[r] \in {"cleanup", "delete"}
  BY DEF CleanUp, DeleteChunk, DeleteChunkFails
<1>4. m \notin ChunksOf(k)
  BY <1>3 DEF Ownership, DeletesOwn
<1>5. ChunksOf(k)' = ChunksOf(k)
  BY <1>2 DEF ChunksOf
<1>. QED  BY <1>1, <1>2, <1>4, <1>5 DEF Whole

\* The row a commit writes is whole, and is the only one it touches.
LEMMA CommitIsWhole ==
  ASSUME TypeOK, Ownership, NEW r \in Reqs, Commit(r)
  PROVE  /\ key[r] \in Keys
         /\ rows' = [rows EXCEPT ![key[r]] = chunks[r]]
         /\ chunks[r] \in SUBSET Messages
         /\ \A k \in Keys : k = key[r] => Whole(k)'
         /\ \A k \in Keys : k # key[r] => (Whole(k)' <=> Whole(k))
<1>1. key[r] \in Keys /\ rows' = [rows EXCEPT ![key[r]] = chunks[r]] /\ live' = live
  BY DEF Commit, TypeOK
<1>2. chunks[r] \in SUBSET Messages /\ chunks[r] \subseteq live
  BY ChunksTypes DEF TypeOK, Ownership, UploadsOwn
<1>3. ASSUME NEW k \in Keys, k = key[r] PROVE Whole(k)'
  <2>1. rows'[k] = chunks[r]
    BY <1>1, <1>3 DEF TypeOK
  <2>. QED  BY <2>1, <1>1, <1>2 DEF Whole, ChunksOf
<1>4. ASSUME NEW k \in Keys, k # key[r] PROVE Whole(k)' <=> Whole(k)
  BY <1>1, <1>4 DEF Whole, ChunksOf, TypeOK
<1>. QED  BY <1>1, <1>2, <1>3, <1>4

\* A removed row is not a damaged object.
LEMMA RemovalIsWhole ==
  ASSUME TypeOK, NEW r \in Reqs, DeleteRow(r), NEW k \in Keys
  PROVE  /\ k # key[r] \/ rows' = rows => (rows'[k] = rows[k]) /\ (Whole(k)' <=> Whole(k))
         /\ k = key[r] /\ rows' # rows => rows'[k] = NoObject /\ Whole(k)'
BY DEF DeleteRow, Whole, ChunksOf, TypeOK

\* The steps that delete nothing and write no row.
LEMMA QuietSteps ==
  ASSUME TypeOK, Ownership, [Next]_vars,
         \A r \in Reqs : ~Commit(r) /\ ~CleanUp(r) /\ ~DeleteChunk(r) /\ ~DeleteChunkFails(r) /\ ~DeleteRow(r)
  PROVE  rows' = rows /\ live' \in {live, live \cup {next}}
<1>1. CASE UNCHANGED vars
  BY <1>1 DEF vars, store
<1>2. CASE Crash
  BY <1>2 DEF Crash
<1>3. ASSUME NEW r \in Reqs, Ask(r)
      PROVE  rows' = rows /\ live' \in {live, live \cup {next}}
  BY <1>3 DEF Ask, Reject, Put, Copy, Delete, vars, store
<1>4. ASSUME NEW r \in Reqs, LockKey(r) \/ Relink(r) \/ Advance(r)
      PROVE  rows' = rows /\ live' \in {live, live \cup {next}}
  <2>1. ~Relink(r) /\ ~Repoint(r)
    BY DEF Relink, Repoint, Ownership, NoRelink
  <2>2. CASE LockKey(r) \/ UploadChunk(r) \/ UploadUnanswered(r)
    BY <2>2 DEF LockKey, UploadChunk, UploadUnanswered
  <2>3. CASE UploadFails(r) \/ BodyFails(r) \/ CommitFails(r) \/ Finish(r) \/ OpenSource(r)
    BY <2>3 DEF UploadFails, BodyFails, CommitFails, Finish, OpenSource, store
  <2>. QED  BY <1>4, <2>1, <2>2, <2>3 DEF Advance
<1>. QED  BY <1>1, <1>2, <1>3, <1>4 DEF Next

\* No object loses content except to a DeleteObject of its own key: neither
\* failures, crashes nor the clean-up of an overwrite take it, in any
\* interleaving, as long as no copy repoints metadata.
THEOREM StoreNoSilentLoss ==
  ASSUME "relink" \notin Ops
  PROVE  Spec => NoSilentLoss
<1>. DEFINE Keeps == \A k \in Keys : ~Whole(k)' =>
                       /\ rows'[k] = rows[k]
                       /\ ~Whole(k) \/ \E r \in Reqs : pc[r] = "delete" /\ key[r] = k
<1>1. ASSUME TypeOK, Ownership, [Next]_vars PROVE Keeps
  <2>1. ASSUME NEW r \in Reqs, Commit(r) PROVE Keeps
    BY <1>1, <2>1, CommitIsWhole DEF TypeOK
  <2>2. ASSUME NEW r \in Reqs, CleanUp(r) \/ DeleteChunk(r) \/ DeleteChunkFails(r) PROVE Keeps
    <3>1. rows' = rows
      BY <2>2 DEF CleanUp, DeleteChunk, DeleteChunkFails
    <3>. QED  BY <1>1, <2>2, <3>1, DeletionHurts
  <2>3. ASSUME NEW r \in Reqs, DeleteRow(r) PROVE Keeps
    BY <1>1, <2>3, RemovalIsWhole
  <2>4. CASE \A r \in Reqs : ~Commit(r) /\ ~CleanUp(r) /\ ~DeleteChunk(r) /\ ~DeleteChunkFails(r) /\ ~DeleteRow(r)
    BY <1>1, <2>4, QuietSteps DEF Whole, ChunksOf
  <2>. QED  BY <2>1, <2>2, <2>3, <2>4
<1>2. TypeOK /\ Ownership /\ [Next]_vars => [Keeps]_vars
  BY <1>1
<1>. QED  BY <1>2, StoreTypes, StoreOwnership, PTL DEF Spec, NoSilentLoss

-------------------------------------------------------------------------------
(* Clean-up and accounting                                                 *)

\* A step of one upload under its lock does not disturb what another has
\* read, because they hold different keys.
LEMMA ReadSteps ==
  ASSUME TypeOK, LocksHeld, ReplacesWhatItRead, "db_read" \notin Faults, [Next]_vars
  PROVE  ReplacesWhatItRead'
<1>. USE DEF ReplacesWhatItRead, TypeOK, Goto
<1>1. CASE UNCHANGED vars
  BY <1>1 DEF vars, store, local, ChunksOf
<1>2. CASE Crash
  BY <1>2 DEF Crash
<1>3. ASSUME NEW r \in Reqs, Ask(r) PROVE ReplacesWhatItRead'
  BY <1>3 DEF Ask, Reject, Put, Copy, Delete, vars, store, local, ChunksOf
<1>4. ASSUME NEW r \in Reqs, LockKey(r) \/ Relink(r) PROVE ReplacesWhatItRead'
  BY <1>4 DEF LockKey, Relink, ChunksOf
<1>5. ASSUME NEW r \in Reqs, Done(r), rows' = rows PROVE ReplacesWhatItRead'
  BY <1>5 DEF Done, ChunksOf
<1>6. ASSUME NEW r \in Reqs, Commit(r) \/ Repoint(r) PROVE ReplacesWhatItRead'
  <2>1. \A q \in Reqs : q # r /\ pc[q] = "upload" => key[q] # key[r] /\ key[q] \in Keys
    BY <1>6 DEF Commit, Repoint, LocksHeld, Locked
  <2>2. /\ rows' = rows \/ rows' = [rows EXCEPT ![key[r]] = chunks[r]]
        /\ key' = key /\ prev' = prev /\ pc' = [pc EXCEPT ![r] = "cleanup"]
    BY <1>6 DEF Commit, Repoint
  <2>. QED  BY <2>1, <2>2 DEF ChunksOf
<1>7. ASSUME NEW r \in Reqs, DeleteRow(r) PROVE ReplacesWhatItRead'
  <2>1. \A k \in Keys : rows'[k] \in {NoObject, rows[k]}
    BY <1>7 DEF DeleteRow
  <2>2. \A q \in Reqs : pc'[q] = "upload" =>
          pc[q] = "upload" /\ key[q] \in Keys /\ key'[q] = key[q] /\ prev'[q] = prev[q]
    BY <1>7 DEF DeleteRow, Done
  <2>. QED  BY <2>1, <2>2 DEF ChunksOf
<1>8. ASSUME NEW r \in Reqs, Advance(r) PROVE ReplacesWhatItRead'
  <2>1. CASE UploadChunk(r) \/ UploadUnanswered(r) \/ CleanUp(r) \/ DeleteChunk(r)
    BY <2>1 DEF UploadChunk, UploadUnanswered, CleanUp, DeleteChunk, ChunksOf, local
  <2>2. CASE UploadFails(r) \/ BodyFails(r) \/ CommitFails(r) \/ Finish(r) \/ DeleteChunkFails(r)
    BY <2>2, <1>5 DEF UploadFails, BodyFails, CommitFails, Finish, DeleteChunkFails
  <2>3. CASE OpenSource(r)
    BY <2>3, <1>5 DEF OpenSource, store, ChunksOf
  <2>. QED  BY <1>6, <1>7, <1>8, <2>1, <2>2, <2>3 DEF Advance
<1>. QED  BY <1>1, <1>2, <1>3, <1>4, <1>8 DEF Next

\* The clean-up of a PutObject deletes exactly what its commit orphans, or
\* what a concurrent DeleteObject has already unlisted, provided the read of
\* the old row does not fail.
THEOREM StoreReplacesWhatItRead ==
  ASSUME "db_read" \notin Faults
  PROVE  Spec => []ReplacesWhatItRead
<1>1. Init => ReplacesWhatItRead
  BY DEF Init, ReplacesWhatItRead
<1>2. TypeOK /\ LocksHeld /\ ReplacesWhatItRead /\ [Next]_vars => ReplacesWhatItRead'
  BY ReadSteps
<1>. QED  BY <1>1, <1>2, StoreTypes, StoreLocksHeld, PTL DEF Spec

\* With puts only, every request is somewhere in PutObject.
OnlyPuts == \A r \in Reqs : pc[r] \in {"idle", "lock", "upload", "cleanup"} /\ src[r] = NoKey

\* The kinds of failure the log covers, for clients that only put.
Accountable == Ops = {"put"} /\ Faults \subseteq {"upload", "db", "too_old", "refuse"}

\* No request leaves PutObject for anything else.
LEMMA OnlyPutsSteps ==
  ASSUME Accountable, TypeOK, OnlyPuts, [Next]_vars
  PROVE  OnlyPuts'
<1>. USE DEF TypeOK, OnlyPuts, Goto, Done
<1>1. CASE UNCHANGED vars
  BY <1>1 DEF vars, local
<1>2. CASE Crash
  BY <1>2 DEF Crash
<1>3. ASSUME NEW r \in Reqs, Ask(r) PROVE OnlyPuts'
  <2>1. src' = src /\ pc' \in {pc, [pc EXCEPT ![r] = "lock"]}
    BY <1>3 DEF Ask, Reject, Put, Copy, Delete, Accountable, vars, local
  <2>. QED  BY <2>1
<1>4. ASSUME NEW r \in Reqs, LockKey(r) PROVE OnlyPuts'
  BY <1>4 DEF LockKey
<1>5. ASSUME NEW r \in Reqs, Relink(r) PROVE FALSE
  BY <1>5 DEF Relink
<1>6. ASSUME NEW r \in Reqs, Advance(r) PROVE OnlyPuts'
  <2>1. CASE UploadChunk(r) \/ UploadUnanswered(r) \/ CleanUp(r)
    <3>1. pc' = pc /\ src' = src
      BY <2>1 DEF UploadChunk, UploadUnanswered, CleanUp, local
    <3>. QED  BY <3>1
  <2>2. CASE Commit(r)
    BY <2>2 DEF Commit
  <2>3. CASE UploadFails(r) \/ BodyFails(r) \/ CommitFails(r) \/ Finish(r)
    <3>1. Done(r)
      BY <2>3 DEF UploadFails, BodyFails, CommitFails, Finish
    <3>. QED  BY <3>1
  <2>. QED
    BY <1>6, <2>1, <2>2, <2>3
    DEF Advance, OpenSource, Repoint, DeleteChunk, DeleteChunkFails, DeleteRow
<1>. QED  BY <1>1, <1>2, <1>3, <1>4, <1>5, <1>6 DEF Next

\* The four who may answer for a message.
Answers(m) == \/ \E k \in Keys : m \in ChunksOf(k)
              \/ \E r \in Reqs : m \in chunks[r]
              \/ \E r \in Reqs : pc[r] = "cleanup" /\ m \in prev[r]
              \/ m \in logged

LEMMA AccountingIs ==
  /\ MessageAccounting <=> \A m \in live : Answers(m)
  /\ MessageAccounting' <=> (\A m \in live : Answers(m))'
<1>1. MessageAccounting <=> \A m \in live : Answers(m)
  <2>. DEFINE A == UNION {ChunksOf(k) : k \in Keys}
              B == UNION {chunks[r] : r \in Reqs}
              C == UNION {prev[r] : r \in {q \in Reqs : pc[q] = "cleanup"}}
  <2>1. Answered = A \cup B \cup C \cup logged
    BY DEF Answered
  <2>2. \A m : m \in A <=> \E k \in Keys : m \in ChunksOf(k)
    OBVIOUS
  <2>3. \A m : m \in B <=> \E r \in Reqs : m \in chunks[r]
    OBVIOUS
  <2>4. \A m : m \in C <=> \E r \in Reqs : pc[r] = "cleanup" /\ m \in prev[r]
    OBVIOUS
  <2>. HIDE DEF A, B, C
  <2>. QED  BY <2>1, <2>2, <2>3, <2>4 DEF MessageAccounting, Answers
<1>. QED  BY <1>1, PTL

\* Who answers for a message with puts only: the old row's messages pass
\* through the clean-up, the uploads into the row or the log.
LEMMA AccountingSteps ==
  ASSUME Accountable, TypeOK, UploadsOwn, ReplacesWhatItRead, OnlyPuts,
         MessageAccounting, [Next]_vars
  PROVE  MessageAccounting'
<1>0. \A m \in live : Answers(m)
  BY AccountingIs
<1>1. SUFFICES ASSUME NEW m \in live' PROVE Answers(m)'
  BY AccountingIs
<1>. USE DEF TypeOK, Goto, Answers
<1>2. CASE UNCHANGED vars
  BY <1>0, <1>1, <1>2 DEF vars, store, local, ChunksOf
<1>3. ASSUME Crash PROVE FALSE
  BY <1>3 DEF Crash, Accountable
<1>4. ASSUME NEW r \in Reqs, Ask(r) \/ LockKey(r) \/ Relink(r) \/ Advance(r)
      PROVE  Answers(m)'
  <2>1. CASE Ask(r) \/ LockKey(r)
    <3>1. /\ rows' = rows /\ live' = live /\ logged' = logged /\ chunks' = chunks
          /\ \A q \in Reqs : pc[q] = "cleanup" => pc'[q] = pc[q] /\ prev'[q] = prev[q]
      BY <2>1 DEF Ask, Reject, Put, Copy, Delete, LockKey, Accountable, vars, store, local
    <3>. QED  BY <1>0, <1>1, <3>1 DEF ChunksOf
  <2>2. CASE UploadChunk(r)
    BY <1>0, <1>1, <2>2 DEF UploadChunk, ChunksOf
  <2>3. CASE UploadFails(r) \/ CommitFails(r)
    <3>1. /\ rows' = rows /\ live' = live /\ logged' = logged \cup chunks[r] /\ Done(r)
          /\ pc[r] = "upload"
      BY <2>3 DEF UploadFails, CommitFails, LogUploads
    <3>. QED  BY <1>0, <1>1, <3>1 DEF ChunksOf, Done
  <2>4. CASE Commit(r)
    <3>1. /\ pc[r] = "upload" /\ key[r] \in Keys
          /\ rows' = [rows EXCEPT ![key[r]] = chunks[r]]
          /\ chunks' = [chunks EXCEPT ![r] = {}]
          /\ pc' = [pc EXCEPT ![r] = "cleanup"]
          /\ live' = live /\ logged' = logged /\ prev' = prev
      BY <2>4 DEF Commit
    <3>2. ChunksOf(key[r]) \subseteq prev[r]
      BY <3>1 DEF ReplacesWhatItRead
    <3>3. rows'[key[r]] = chunks[r] /\ chunks[r] \in SUBSET Messages
      BY <3>1, ChunksTypes
    <3>4. \A n \in chunks[r] : \E k \in Keys : n \in ChunksOf(k)'
      BY <3>1, <3>3, NoObjectAssumption DEF ChunksOf
    <3>5. \A k \in Keys : k # key[r] => ChunksOf(k)' = ChunksOf(k)
      BY <3>1 DEF ChunksOf
    <3>6. CASE \E k \in Keys : m \in ChunksOf(k)
      BY <3>1, <3>2, <3>5, <3>6
    <3>7. CASE m \in chunks[r]
      BY <3>4, <3>7
    <3>8. CASE \/ \E q \in Reqs : q # r /\ m \in chunks[q]
               \/ \E q \in Reqs : pc[q] = "cleanup" /\ m \in prev[q]
               \/ m \in logged
      BY <3>1, <3>8
    <3>. QED  BY <1>0, <1>1, <3>1, <3>6, <3>7, <3>8
  <2>5. CASE CleanUp(r)
    <3>1. /\ rows' = rows /\ chunks' = chunks /\ pc' = pc /\ live' \subseteq live
          /\ logged \subseteq logged' /\ pc[r] = "cleanup"
      BY <2>5 DEF CleanUp, Gone, TooOld, Refused
    <3>2. PICK d \in prev[r] : /\ prev' = [prev EXCEPT ![r] = prev[r] \ {d}]
                               /\ d \notin live' \/ d \in logged'
      BY <2>5 DEF CleanUp, Gone, TooOld, Refused
    <3>3. m # d \/ m \in logged'
      BY <3>2
    <3>4. \A q \in Reqs : m \in prev[q] /\ m # d => m \in prev'[q]
      BY <3>2
    <3>. QED  BY <1>0, <3>1, <3>3, <3>4 DEF ChunksOf
  <2>6. CASE Finish(r)
    <3>1. /\ rows' = rows /\ live' = live /\ logged' = logged /\ Done(r)
          /\ prev[r] = {} /\ chunks[r] = {}
      BY <2>6 DEF Finish, UploadsOwn
    <3>. QED  BY <1>0, <1>1, <3>1 DEF ChunksOf, Done
  <2>. QED
    BY <1>4, <2>1, <2>2, <2>3, <2>4, <2>5, <2>6
    DEF Advance, OnlyPuts, Accountable, Relink, OpenSource, Repoint, DeleteChunk,
        DeleteChunkFails, DeleteRow, UploadUnanswered, BodyFails
<1>. QED  BY <1>2, <1>3, <1>4 DEF Next

\* With puts only, and whatever uploads, transactions and deletions fail,
\* every message in the channel is listed by an object, in the hands of a
\* request or in the log: no message leaks unseen.
THEOREM StoreMessageAccounting ==
  ASSUME Accountable
  PROVE  Spec => []MessageAccounting
<1>1. Init => OnlyPuts /\ MessageAccounting
  BY DEF Init, OnlyPuts, MessageAccounting, Answered
<1>2. TypeOK /\ OnlyPuts /\ [Next]_vars => OnlyPuts'
  BY OnlyPutsSteps
<1>3. TypeOK /\ Ownership /\ ReplacesWhatItRead /\ OnlyPuts /\ MessageAccounting /\ [Next]_vars
        => MessageAccounting'
  BY AccountingSteps DEF Ownership
<1>4. "relink" \notin Ops /\ "db_read" \notin Faults
  BY DEF Accountable
<1>5. Spec => []Ownership
  BY <1>4, StoreOwnership
<1>6. Spec => []ReplacesWhatItRead
  BY <1>4, StoreReplacesWhatItRead
<1>7. Spec => []OnlyPuts
  BY <1>1, <1>2, StoreTypes, PTL DEF Spec
<1>. QED  BY <1>1, <1>3, <1>5, <1>6, <1>7, StoreTypes, PTL DEF Spec

-------------------------------------------------------------------------------
(* Reports of what an upload leaves behind                                 *)

\* Where no copy uploads again, the body of every upload comes from a client.
BodiesFromClients ==
  \A r \in Reqs : /\ pc[r] # "open"
                  /\ pc[r] \in {"idle", "lock", "upload"} => src[r] = NoKey

\* The two ways in which an upload ends without its commit, when the bodies of
\* clients arrive in full, are a refusal of Telegram and one of the database;
\* a step of anybody else leaves the upload where it is.
LEMMA FailuresReport ==
  ASSUME TypeOK, BodiesFromClients, "body" \notin Faults, "crash" \notin Faults,
         NEW r \in Reqs, pc[r] = "upload", [Next]_vars, pc'[r] = "idle"
  PROVE  chunks[r] \subseteq logged'
<1>1. PICK q \in Reqs : Ask(q) \/ LockKey(q) \/ Relink(q) \/ Advance(q)
  BY DEF Next, Crash, vars, local
<1>2. CASE q # r
  <2>1. ASSUME Done(q) PROVE pc'[r] = pc[r]
    BY <2>1, <1>2 DEF Done, Goto, TypeOK
  <2>2. ASSUME Ask(q) PROVE pc'[r] = pc[r]
    BY <2>2, <1>2 DEF Ask, Reject, Put, Copy, Delete, Goto, vars, local, TypeOK
  <2>3. ASSUME LockKey(q) \/ Relink(q) PROVE pc'[r] = pc[r]
    BY <2>3, <1>2 DEF LockKey, Relink, Goto, TypeOK
  <2>4. ASSUME Advance(q) PROVE pc'[r] = pc[r]
    BY <2>4, <2>1, <1>2
       DEF Advance, UploadChunk, UploadUnanswered, UploadFails, BodyFails, Commit,
           CommitFails, CleanUp, Finish, OpenSource, Repoint, DeleteChunk,
           DeleteChunkFails, DeleteRow, Goto, local, TypeOK
  <2>. QED  BY <1>1, <2>2, <2>3, <2>4
<1>3. CASE q = r
  <2>1. ~Ask(r) /\ ~LockKey(r) /\ ~Relink(r)
    BY DEF Ask, Reject, Put, Copy, Delete, LockKey, Relink, vars, local
  <2>2. ~BodyFails(r)
    BY DEF BodyFails, BodiesFromClients
  <2>3. UploadFails(r) \/ CommitFails(r)
    BY <1>1, <1>3, <2>1, <2>2
       DEF Advance, UploadChunk, UploadUnanswered, Commit, CleanUp, Finish, OpenSource,
           Repoint, DeleteChunk, DeleteChunkFails, DeleteRow, Goto, local, TypeOK
  <2>. QED  BY <2>3 DEF UploadFails, CommitFails, LogUploads
<1>. QED  BY <1>2, <1>3

\* A source is named by copies only, and forgotten when they end.
LEMMA BodiesSteps ==
  ASSUME TypeOK, BodiesFromClients, "reupload" \notin Ops, [Next]_vars
  PROVE  BodiesFromClients'
<1>. USE DEF BodiesFromClients, TypeOK, Goto
<1>1. CASE UNCHANGED vars
  BY <1>1 DEF vars, local
<1>2. CASE Crash
  BY <1>2 DEF Crash
<1>3. ASSUME NEW r \in Reqs, Done(r) PROVE BodiesFromClients'
  BY <1>3 DEF Done
<1>4. ASSUME NEW r \in Reqs, Ask(r) PROVE BodiesFromClients'
  BY <1>4 DEF Ask, Reject, Put, Copy, Delete, vars, local
<1>5. ASSUME NEW r \in Reqs, LockKey(r) \/ Relink(r) PROVE BodiesFromClients'
  BY <1>5 DEF LockKey, Relink
<1>6. ASSUME NEW r \in Reqs, Advance(r) PROVE BodiesFromClients'
  BY <1>6, <1>3
     DEF Advance, UploadChunk, UploadUnanswered, UploadFails, BodyFails, Commit,
         CommitFails, CleanUp, Finish, OpenSource, Repoint, DeleteChunk,
         DeleteChunkFails, DeleteRow, local
<1>. QED  BY <1>1, <1>2, <1>4, <1>5, <1>6 DEF Next

\* An upload that Telegram or the database refuses reports every message it
\* leaves behind, whatever copies, deletions and clean-ups run beside it.  A
\* body that breaks off, a copy whose source cannot be read and a crash report
\* nothing (store.go:1271): these are the hypotheses.
THEOREM StoreFailedPutIsLogged ==
  ASSUME "body" \notin Faults, "crash" \notin Faults, "reupload" \notin Ops
  PROVE  Spec => FailedPutIsLogged
<1>1. Init => BodiesFromClients
  BY DEF Init, BodiesFromClients
<1>2. TypeOK /\ BodiesFromClients /\ [Next]_vars => BodiesFromClients'
  BY BodiesSteps
<1>3. TypeOK /\ BodiesFromClients /\ [Next]_vars =>
        (\A r \in Reqs : pc[r] = "upload" /\ pc'[r] = "idle" => chunks[r] \subseteq logged')
  BY FailuresReport
<1>. QED  BY <1>1, <1>2, <1>3, StoreTypes, PTL DEF Spec, FailedPutIsLogged

-------------------------------------------------------------------------------
(* The key locks                                                           *)

\* A request that ends inside leaves the mutex.
LEMMA DoneLeaves ==
  ASSUME TypeOK, LocksHeld, NEW r \in Reqs, Done(r), pc[r] \in Locked, Release(r)
  PROVE  [Locks!Next]_(Locks!vars)
<1>1. wantsBar' = [wantsBar EXCEPT ![r] = NoKey]
  BY DEF wantsBar, Done, Goto, TypeOK, Stages, Locked
<1>2. PICK k \in Keys : k = key[r]
  BY DEF TypeOK, Locked
<1>3. Locks!Leave(r, k)
  BY <1>1, <1>2 DEF Locks!Leave, LocksHeld, Release
<1>. QED  BY <1>3 DEF Locks!Next

\* A request that ends without ever having asked does nothing to it.
LEMMA DoneOutside ==
  ASSUME TypeOK, NEW r \in Reqs, Done(r), pc[r] \in {"open", "delete"}, holder' = holder
  PROVE  [Locks!Next]_(Locks!vars)
<1>1. wantsBar' = wantsBar
  BY DEF wantsBar, Done, Goto, TypeOK, Stages, Locked
<1>. QED  BY <1>1 DEF Locks!vars

\* A request asks for a lock, or for none.
LEMMA AskLocks ==
  ASSUME TypeOK, NEW r \in Reqs, Ask(r)
  PROVE  [Locks!Next]_(Locks!vars)
<1>. USE DEF TypeOK, Goto, Stages
<1>1. CASE \E k \in Keys : Reject(r, k)
  BY <1>1 DEF Reject, vars, store, local, Locks!vars, wantsBar
<1>2. ASSUME NEW k \in Keys, NEW n \in PartCounts, Put(r, k, n) PROVE Locks!Request(r, k)
  BY <1>2 DEF Put, store, Locks!Request, wantsBar, Locked
<1>3. ASSUME NEW s \in Keys, NEW k \in Keys, Copy(r, s, k)
      PROVE  Locks!Request(r, k) \/ UNCHANGED Locks!vars
  <2>1. /\ key' = [key EXCEPT ![r] = k] /\ holder' = holder /\ pc[r] = "idle"
        /\ pc' \in {[pc EXCEPT ![r] = "relink"], [pc EXCEPT ![r] = "open"]}
    BY <1>3 DEF Copy, store
  <2>2. CASE pc' = [pc EXCEPT ![r] = "relink"]
    BY <2>1, <2>2 DEF Locks!Request, wantsBar, Locked
  <2>3. CASE pc' = [pc EXCEPT ![r] = "open"]
    BY <2>1, <2>3 DEF Locks!vars, wantsBar, Locked
  <2>. QED  BY <2>1, <2>2, <2>3
<1>4. ASSUME NEW k \in Keys, Delete(r, k) PROVE UNCHANGED Locks!vars
  BY <1>4 DEF Delete, store, Locks!vars, wantsBar, Locked
<1>. QED  BY <1>1, <1>2, <1>3, <1>4 DEF Ask, Locks!Next

\* A request takes its lock once, and gives it back on every way out.
LEMMA StepLocks ==
  ASSUME TypeOK, LocksHeld, NEW r \in Reqs, LockKey(r) \/ Relink(r) \/ Advance(r)
  PROVE  [Locks!Next]_(Locks!vars)
<1>1. CASE LockKey(r) \/ Relink(r)
  <2>1. PICK k \in Keys : k = key[r]
    BY <1>1 DEF TypeOK, LockKey, Relink
  <2>2. /\ holder[k] = NoReq /\ holder' = [holder EXCEPT ![k] = r] /\ key' = key
        /\ pc[r] \in {"lock", "relink"}
        /\ \E stage \in Locked : pc' = [pc EXCEPT ![r] = stage]
    BY <1>1, <2>1 DEF LockKey, Relink, Free, Goto, Locked
  <2>3. wantsBar' = wantsBar /\ wantsBar[r] = k
    BY <2>1, <2>2 DEF wantsBar, TypeOK, Stages, Locked
  <2>4. Locks!Enter(r, k)
    BY <2>2, <2>3 DEF Locks!Enter
  <2>. QED  BY <2>4 DEF Locks!Next
<1>2. CASE UploadChunk(r) \/ UploadUnanswered(r) \/ CleanUp(r) \/ DeleteChunk(r)
  <2>1. pc' = pc /\ key' = key /\ holder' = holder
    BY <1>2 DEF UploadChunk, UploadUnanswered, CleanUp, DeleteChunk, local
  <2>2. wantsBar' = wantsBar
    BY <2>1 DEF wantsBar
  <2>. QED  BY <2>1, <2>2 DEF Locks!vars
<1>3. CASE Commit(r) \/ Repoint(r)
  <2>1. /\ key' = key /\ holder' = holder /\ pc[r] \in Locked
        /\ pc' = [pc EXCEPT ![r] = "cleanup"]
    BY <1>3 DEF Commit, Repoint, Goto, Locked
  <2>2. wantsBar' = wantsBar
    BY <2>1 DEF wantsBar, TypeOK, Locked
  <2>. QED  BY <2>1, <2>2 DEF Locks!vars
<1>4. CASE UploadFails(r) \/ BodyFails(r) \/ CommitFails(r) \/ Finish(r)
  <2>1. pc[r] \in Locked /\ Release(r) /\ Done(r)
    BY <1>4 DEF UploadFails, BodyFails, CommitFails, Finish, Locked
  <2>. QED  BY <2>1, DoneLeaves
<1>5. CASE OpenSource(r)
  <2>1. pc[r] = "open" /\ holder' = holder
    BY <1>5 DEF OpenSource, store
  <2>2. CASE Done(r)
    BY <2>1, <2>2, DoneOutside
  <2>3. CASE Goto(r, "lock") /\ key' = key
    <3>1. PICK k \in Keys : k = key[r]
      BY <2>1 DEF TypeOK
    <3>2. Locks!Request(r, k)
      BY <2>1, <2>3, <3>1 DEF Locks!Request, wantsBar, Goto, TypeOK, Stages, Locked
    <3>. QED  BY <3>2 DEF Locks!Next
  <2>. QED  BY <1>5, <2>2, <2>3 DEF OpenSource
<1>6. CASE DeleteChunkFails(r) \/ DeleteRow(r)
  BY <1>6, DoneOutside DEF DeleteChunkFails, DeleteRow
<1>. QED  BY <1>1, <1>2, <1>3, <1>4, <1>5, <1>6 DEF Advance

\* The store uses its locks as a mutex per key: it asks for one at a time,
\* enters when the key is free, and every return leaves exactly what was
\* entered, for all four operations and whatever fails.
THEOREM StoreImplementsKeyMutex == Spec => ImplementsKeyMutex
<1>1. Init => Locks!Init
  BY DEF Init, Locks!Init, wantsBar, Locked
<1>2. TypeOK /\ LocksHeld /\ [Next]_vars => [Locks!Next]_(Locks!vars)
  <2>1. CASE UNCHANGED vars
    BY <2>1 DEF vars, store, local, Locks!vars, wantsBar
  <2>2. ASSUME Crash PROVE Locks!Restart
    BY <2>2 DEF Crash, Locks!Restart, wantsBar, Locked
  <2>. QED  BY <2>1, <2>2, AskLocks, StepLocks DEF Next, Locks!Next
<1>. QED  BY <1>1, <1>2, StoreTypes, StoreLocksHeld, PTL DEF Spec, ImplementsKeyMutex, Locks!Spec

-------------------------------------------------------------------------------
(* The objects clients see                                                 *)

\* What the store shows of one key depends on its row and on whether the row
\* is whole.
Shown(k) == IF rows[k] = NoObject THEN NoObject ELSE IF Whole(k) THEN rows[k] ELSE Damaged

LEMMA ObjectBarIs ==
  /\ objectBar = [k \in Keys |-> Shown(k)]
  /\ objectBar' = [k \in Keys |-> Shown(k)']
BY DEF objectBar, Shown

\* Unchanged rows that stay as whole as they were show the same objects.
LEMMA SameObjects ==
  ASSUME \A k \in Keys : rows'[k] = rows[k] /\ (Whole(k)' <=> Whole(k))
  PROVE  objectBar' = objectBar
BY ObjectBarIs DEF Shown

\* A request that ends inside the lock: the writer of the key goes.
LEMMA DoneCloses ==
  ASSUME TypeOK, LocksHeld, NEW r \in Reqs, Done(r), rows' = rows, live' = live,
         pc[r] \in Locked, Release(r)
  PROVE  [Objects!Next]_(Objects!vars)
<1>1. objectBar' = objectBar
  BY SameObjects DEF Whole, ChunksOf
<1>2. deletingBar' = deletingBar
  BY DEF deletingBar, Done, Goto, TypeOK, Locked
<1>3. PICK k \in Keys : k = key[r]
  BY DEF TypeOK, Locked
<1>4. Objects!Close(r, k)
  BY <1>1, <1>2, <1>3 DEF Objects!Close, LocksHeld, Release
<1>. QED  BY <1>4 DEF Objects!Next

\* Asking, opening and uploading show clients nothing; a delete announces
\* itself.
LEMMA QuietObjects ==
  ASSUME TypeOK, Ownership, NEW r \in Reqs, Ask(r) \/ UploadChunk(r) \/ UploadUnanswered(r)
  PROVE  [Objects!Next]_(Objects!vars)
<1>1. rows' = rows /\ live' \in {live, live \cup {next}} /\ holder' = holder
  BY DEF Ask, Reject, Put, Copy, Delete, UploadChunk, UploadUnanswered, vars, store
<1>2. objectBar' = objectBar
  <2>1. \A k \in Keys : next \notin ChunksOf(k) /\ ChunksOf(k)' = ChunksOf(k)
    BY <1>1, ChunksTypes DEF ChunksOf
  <2>. QED  BY <1>1, <2>1, SameObjects DEF Whole
<1>3. CASE \E k \in Keys : Delete(r, k)
  <2>1. PICK k \in Keys : Delete(r, k)
    BY <1>3
  <2>2. objectBar[k] # NoObject
    BY <2>1, ObjectBarIs, NoObjectAssumption DEF Delete, Shown
  <2>3. deletingBar' = [deletingBar EXCEPT ![r] = k]
    BY <2>1 DEF Delete, deletingBar, Goto, TypeOK, Stages
  <2>4. Objects!StartDelete(r, k)
    BY <1>1, <1>2, <2>2, <2>3 DEF Objects!StartDelete
  <2>. QED  BY <2>4 DEF Objects!Next
<1>4. CASE ~ \E k \in Keys : Delete(r, k)
  <2>1. CASE pc' = pc /\ key' = key
    BY <1>1, <1>2, <2>1 DEF Objects!vars, deletingBar
  <2>2. CASE pc[r] = "idle" /\ \E k \in Keys, stage \in {"lock", "relink", "open"} :
               key' = [key EXCEPT ![r] = k] /\ pc' = [pc EXCEPT ![r] = stage]
    <3>1. deletingBar' = deletingBar
      BY <2>2 DEF deletingBar, TypeOK
    <3>. QED  BY <3>1, <1>1, <1>2 DEF Objects!vars
  <2>3. CASE UploadChunk(r) \/ UploadUnanswered(r)
    BY <2>1, <2>3 DEF UploadChunk, UploadUnanswered, local
  <2>4. CASE Ask(r)
    BY <1>4, <2>4, <2>1, <2>2 DEF Ask, Reject, Put, Copy, Goto, vars, local
  <2>. QED  BY <2>3, <2>4
<1>. QED  BY <1>3, <1>4

\* Deleting a message damages at most the object being deleted.
LEMMA DeletionObjects ==
  ASSUME TypeOK, Ownership, NEW r \in Reqs, CleanUp(r) \/ DeleteChunk(r) \/ DeleteChunkFails(r)
  PROVE  [Objects!Next]_(Objects!vars)
<1>1. rows' = rows /\ holder' = holder
  BY DEF CleanUp, DeleteChunk, DeleteChunkFails
<1>2. CASE CleanUp(r)
  <2>1. objectBar' = objectBar
    BY <1>1, <1>2, DeletionHurts, SameObjects DEF CleanUp
  <2>. QED  BY <1>1, <1>2, <2>1 DEF CleanUp, Objects!vars, deletingBar
<1>3. CASE DeleteChunk(r) \/ DeleteChunkFails(r)
  <2>1. PICK k \in Keys : k = key[r]
    BY <1>3 DEF DeleteChunk, DeleteChunkFails, TypeOK
  <2>2. pc[r] = "delete"
    BY <1>3 DEF DeleteChunk, DeleteChunkFails
  <2>3. deletingBar[r] = k /\ deletingBar' \in {deletingBar, [deletingBar EXCEPT ![r] = NoKey]}
    BY <1>3, <2>1, <2>2 DEF DeleteChunk, DeleteChunkFails, deletingBar, Done, Goto, TypeOK
  <2>4. \A j \in Keys : j # k => Shown(j)' = Shown(j)
    BY <1>3, <2>1, DeletionHurts DEF Shown
  <2>5. Whole(k)' => Whole(k)
    <3>1. live' \subseteq live
      BY <1>3 DEF DeleteChunk, DeleteChunkFails, Gone, TooOld, Refused
    <3>. QED  BY <3>1, <1>1 DEF Whole, ChunksOf
  <2>6. CASE objectBar' = objectBar
    <3>1. Objects!GiveUp(r, k) \/ UNCHANGED Objects!vars
      BY <1>1, <2>3, <2>6 DEF Objects!GiveUp, Objects!vars
    <3>. QED  BY <3>1 DEF Objects!Next
  <2>7. CASE objectBar' # objectBar
    <3>1. Shown(k)' # Shown(k)
      BY <2>4, <2>7, ObjectBarIs
    <3>2. rows[k] # NoObject /\ Shown(k)' = Damaged
      BY <3>1, <1>1, <2>5 DEF Shown
    <3>3. objectBar' = [objectBar EXCEPT ![k] = Damaged] /\ objectBar[k] # NoObject
      BY <3>2, <2>4, ObjectBarIs, NoObjectAssumption DEF Shown
    <3>4. Objects!Damage(r, k)
      BY <1>1, <2>3, <3>3 DEF Objects!Damage
    <3>. QED  BY <3>4 DEF Objects!Next
  <2>. QED  BY <2>6, <2>7
<1>. QED  BY <1>2, <1>3

\* Committing stores complete content under the lock; removing a row ends a
\* delete.
LEMMA RowObjects ==
  ASSUME TypeOK, LocksHeld, Ownership, NEW r \in Reqs, Commit(r) \/ DeleteRow(r)
  PROVE  [Objects!Next]_(Objects!vars)
<1>0. PICK k \in Keys : k = key[r]
  BY DEF Commit, DeleteRow, TypeOK
<1>1. CASE Commit(r)
  <2>1. /\ pc[r] = "upload" /\ holder' = holder /\ key' = key
        /\ pc' = [pc EXCEPT ![r] = "cleanup"]
    BY <1>1 DEF Commit, Goto
  <2>2. holder[k] = r
    BY <1>0, <2>1 DEF LocksHeld, Locked
  <2>3. deletingBar' = deletingBar
    BY <2>1 DEF deletingBar, TypeOK
  <2>4. /\ rows' = [rows EXCEPT ![k] = chunks[r]]
        /\ chunks[r] \in SUBSET Messages
        /\ Whole(k)'
        /\ \A j \in Keys : j # k => (Whole(j)' <=> Whole(j))
    BY <1>0, <1>1, CommitIsWhole
  <2>5. Shown(k)' = chunks[r]
    BY <2>4, NoObjectAssumption DEF Shown, TypeOK
  <2>6. \A j \in Keys : j # k => Shown(j)' = Shown(j)
    BY <2>4 DEF Shown, TypeOK
  <2>7. objectBar' = [objectBar EXCEPT ![k] = chunks[r]]
    BY <2>5, <2>6, ObjectBarIs
  <2>8. Objects!Store(r, k)
    BY <2>1, <2>2, <2>3, <2>4, <2>7 DEF Objects!Store
  <2>. QED  BY <2>8 DEF Objects!Next
<1>2. CASE DeleteRow(r)
  <2>1. /\ pc[r] = "delete" /\ holder' = holder /\ Done(r)
    BY <1>2 DEF DeleteRow
  <2>2. deletingBar[r] = k /\ deletingBar' = [deletingBar EXCEPT ![r] = NoKey]
    BY <1>0, <2>1 DEF deletingBar, Done, Goto, TypeOK
  <2>3. CASE rows' = rows
    <3>1. objectBar' = objectBar
      BY <1>2, <2>3, RemovalIsWhole, SameObjects
    <3>2. Objects!GiveUp(r, k)
      BY <2>1, <2>2, <3>1 DEF Objects!GiveUp
    <3>. QED  BY <3>2 DEF Objects!Next
  <2>4. CASE rows' # rows
    <3>1. Shown(k)' = NoObject /\ \A j \in Keys : j # k => Shown(j)' = Shown(j)
      BY <1>0, <1>2, <2>4, RemovalIsWhole DEF Shown
    <3>2. objectBar' = [objectBar EXCEPT ![k] = NoObject]
      BY <3>1, ObjectBarIs
    <3>3. Objects!Remove(r, k)
      BY <2>1, <2>2, <3>2 DEF Objects!Remove
    <3>. QED  BY <3>3 DEF Objects!Next
  <2>. QED  BY <2>3, <2>4
<1>. QED  BY <1>1, <1>2

\* A lock taken is a writer arriving; an opened source is nothing.
LEMMA StartObjects ==
  ASSUME TypeOK, LocksHeld, Ownership, NEW r \in Reqs, LockKey(r) \/ OpenSource(r)
  PROVE  [Objects!Next]_(Objects!vars)
<1>1. rows' = rows /\ live' = live
  BY DEF LockKey, OpenSource, store
<1>2. objectBar' = objectBar
  BY <1>1, SameObjects DEF Whole, ChunksOf
<1>3. CASE LockKey(r)
  <2>1. PICK k \in Keys : k = key[r]
    BY <1>3 DEF LockKey, TypeOK
  <2>2. /\ holder[k] = NoReq /\ holder' = [holder EXCEPT ![k] = r] /\ key' = key
        /\ pc[r] = "lock" /\ pc' = [pc EXCEPT ![r] = "upload"]
    BY <1>3, <2>1 DEF LockKey, Free, Goto
  <2>3. deletingBar' = deletingBar
    BY <2>2 DEF deletingBar, TypeOK
  <2>4. Objects!Open(r, k)
    BY <1>2, <2>2, <2>3 DEF Objects!Open
  <2>. QED  BY <2>4 DEF Objects!Next
<1>4. CASE OpenSource(r)
  <2>1. pc[r] = "open" /\ holder' = holder
    BY <1>4 DEF OpenSource, store
  <2>2. CASE Done(r)
    <3>1. deletingBar' = deletingBar
      BY <2>1, <2>2 DEF deletingBar, Done, Goto, TypeOK
    <3>. QED  BY <1>2, <2>1, <3>1 DEF Objects!vars
  <2>3. CASE Goto(r, "lock") /\ key' = key
    BY <1>2, <2>1, <2>3 DEF Objects!vars, deletingBar, Goto, TypeOK
  <2>. QED  BY <1>4, <2>2, <2>3 DEF OpenSource
<1>. QED  BY <1>3, <1>4

\* Clients of a store without metadata copies see durable objects: content
\* is replaced in one step and whole, by one writer at a time, and goes
\* missing only under a delete of its own key, through every failure and
\* crash.
THEOREM StoreImplementsDurableObjects ==
  ASSUME "relink" \notin Ops
  PROVE  Spec => ImplementsDurableObjects
<1>1. Init => Objects!Init
  BY DEF Init, Objects!Init, objectBar, deletingBar
<1>2. TypeOK /\ LocksHeld /\ Ownership /\ [Next]_vars => [Objects!Next]_(Objects!vars)
  <2>. SUFFICES ASSUME TypeOK, LocksHeld, Ownership, [Next]_vars
                PROVE  [Objects!Next]_(Objects!vars)
    OBVIOUS
  <2>1. CASE UNCHANGED vars
    <3>1. objectBar' = objectBar
      BY <2>1, SameObjects DEF vars, store, Whole, ChunksOf
    <3>2. pc' = pc /\ key' = key /\ holder' = holder
      BY <2>1 DEF vars, store, local
    <3>3. deletingBar' = deletingBar
      BY <3>2 DEF deletingBar
    <3>. QED  BY <3>1, <3>2, <3>3 DEF Objects!vars
  <2>2. CASE Crash
    <3>1. objectBar' = objectBar
      BY <2>2, SameObjects DEF Crash, Whole, ChunksOf
    <3>2. Objects!Restart
      BY <2>2, <3>1 DEF Crash, Objects!Restart, deletingBar
    <3>. QED  BY <3>2 DEF Objects!Next
  <2>3. ASSUME NEW r \in Reqs, Ask(r) \/ LockKey(r) \/ Relink(r) \/ Advance(r)
        PROVE  [Objects!Next]_(Objects!vars)
    <3>1. ~Relink(r) /\ ~Repoint(r)
      BY DEF Relink, Repoint, Ownership, NoRelink
    <3>2. CASE UploadFails(r) \/ BodyFails(r) \/ CommitFails(r) \/ Finish(r)
      <4>1. pc[r] \in Locked /\ Release(r) /\ Done(r) /\ rows' = rows /\ live' = live
        BY <3>2 DEF UploadFails, BodyFails, CommitFails, Finish, Locked
      <4>. QED  BY <4>1, DoneCloses
    <3>3. CASE Ask(r) \/ UploadChunk(r) \/ UploadUnanswered(r)
      BY <3>3, QuietObjects
    <3>4. CASE CleanUp(r) \/ DeleteChunk(r) \/ DeleteChunkFails(r)
      BY <3>4, DeletionObjects
    <3>5. CASE Commit(r) \/ DeleteRow(r)
      BY <3>5, RowObjects
    <3>6. CASE LockKey(r) \/ OpenSource(r)
      BY <3>6, StartObjects
    <3>. QED  BY <2>3, <3>1, <3>2, <3>3, <3>4, <3>5, <3>6 DEF Advance
  <2>. QED  BY <2>1, <2>2, <2>3 DEF Next
<1>. QED
  BY <1>1, <1>2, StoreTypes, StoreLocksHeld, StoreOwnership, PTL
  DEF Spec, ImplementsDurableObjects, Objects!Spec

===============================================================================
