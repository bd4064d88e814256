------------------------------ MODULE ObjectStore ------------------------------
(***************************************************************************)
(* store/store.go: objects whose content is a list of Telegram messages    *)
(* (chunks) and whose metadata is one row in SQLite.  A write uploads the  *)
(* messages first, commits the row second and deletes the messages of the  *)
(* object it replaced last; a delete removes the messages first and the    *)
(* row last.  Requests interleave between any two calls to Telegram or to  *)
(* the database; Put and Copy hold the destination's key lock, Delete      *)
(* holds none.                                                             *)
(*                                                                         *)
(* One action is one call to Telegram or one database transaction with     *)
(* the code around it.  A row is the set of its messages: message numbers  *)
(* grow in the order the parts are uploaded, so the least one comes        *)
(* first.  A key is a bucket/key pair.  Telegram keeps the messages and    *)
(* SQLite the rows over a crash; locks, the unavailable set and requests   *)
(* are process memory.  Semaphores are off, as with the options at 0.      *)
(***************************************************************************)
EXTENDS Naturals, FiniteSets

CONSTANTS Reqs, Keys, NoReq, NoKey,
          Buckets, BucketOf,   \* the bucket of each key
          Bindings, BindingOf, \* bot token and chat of each bucket
          NoObject,            \* the database has no such row
          Damaged,             \* stands for an object that cannot be read back whole
          PartCounts,          \* how many chunks an upload may be split into
          MaxMessages,         \* bounds the messages Telegram ever numbers
          Ops,                 \* the operations clients ask for
          Faults               \* what may go wrong

AllOps == {"put", "delete", "reupload", "relink"}

\* "upload": Telegram refuses an upload; "db": a metadata transaction fails;
\* "db_read": reading the row about to be replaced fails; "body": the request
\* body breaks off, or is longer than announced; "unanswered": Telegram posts
\* a message and the reply is lost; "too_old": a message is past the age at
\* which bots may delete it; "refuse": Telegram refuses or loses a deletion;
\* "crash": the process dies.
AllFaults == {"upload", "db", "db_read", "body", "unanswered", "too_old", "refuse", "crash"}

ASSUME RequestsAssumption == NoReq \notin Reqs /\ NoKey \notin Keys
ASSUME BucketsAssumption  == BucketOf \in [Keys -> Buckets] /\ BindingOf \in [Buckets -> Bindings]
ASSUME BoundsAssumption   == PartCounts \subseteq Nat /\ MaxMessages \in Nat
Messages == 1..MaxMessages

ASSUME NoObjectAssumption == NoObject # Damaged /\ \A S \in SUBSET Messages : NoObject # S
ASSUME ChoicesAssumption   == Ops \subseteq AllOps /\ Faults \subseteq AllFaults

VARIABLES rows,        \* SQLite: the messages of each key's object, or NoObject
          live,        \* Telegram: the messages that exist
          next,        \* Telegram: the number of the next message
          logged,      \* messages a log line has reported as orphaned
          holder,      \* the keyed locker: who holds each key
          unavailable, \* s.unavailableBuckets
          pc,          \* where each request is: see Stages
          key,         \* the key it writes or deletes
          src,         \* the key it copies from, NoKey for a client's upload
          feed,        \* the body still to be read: part numbers, or source messages
          chunks,      \* the messages of the new row
          prev         \* the messages it still has to delete

store == <<rows, live, next, logged, holder, unavailable>>
local == <<pc, key, src, feed, chunks, prev>>
vars  == <<store, local>>

\* "lock", "relink": waiting for the key lock of a PutObject, of a metadata
\* copy; "open": a copy about to open its source; "upload": PutObject under
\* the lock; "repoint": a metadata copy under the lock; "cleanup": committed,
\* deleting what was replaced; "delete": DeleteObject.
Stages == {"idle", "lock", "relink", "open", "upload", "repoint", "cleanup", "delete"}
Locked == {"upload", "repoint", "cleanup"}

Init == /\ rows = [k \in Keys |-> NoObject]
        /\ live = {} /\ next = 1 /\ logged = {}
        /\ holder = [k \in Keys |-> NoReq]
        /\ unavailable = {}
        /\ pc = [r \in Reqs |-> "idle"]
        /\ key = [r \in Reqs |-> NoKey]
        /\ src = [r \in Reqs |-> NoKey]
        /\ feed = [r \in Reqs |-> {}]
        /\ chunks = [r \in Reqs |-> {}]
        /\ prev = [r \in Reqs |-> {}]

ChunksOf(k) == IF rows[k] = NoObject THEN {} ELSE rows[k]
First(m, S) == m \in S /\ \A x \in S : m <= x
Usable(k)   == BucketOf[k] \notin unavailable      \* HeadBucket
Binding(k)  == BindingOf[BucketOf[k]]

\* Mutation: the key lock does not exclude anybody.
FreeOrBusy(k) == k \in Keys
Free(k)     == holder[k] = NoReq

Goto(r, stage) == pc' = [pc EXCEPT ![r] = stage]

\* The handler returns: its locals are gone.
Done(r) == /\ Goto(r, "idle")
           /\ key' = [key EXCEPT ![r] = NoKey]
           /\ src' = [src EXCEPT ![r] = NoKey]
           /\ feed' = [feed EXCEPT ![r] = {}]
           /\ chunks' = [chunks EXCEPT ![r] = {}]
           /\ prev' = [prev EXCEPT ![r] = {}]

Release(r) == holder' = [holder EXCEPT ![key[r]] = NoReq]

-------------------------------------------------------------------------------
(* PutObject, also as the second half of a copy that uploads again         *)

\* PutObject is called with a body of n chunks; its bucket is usable.
Put(r, k, n) ==
  /\ "put" \in Ops
  /\ pc[r] = "idle"
  /\ Usable(k)
  /\ Goto(r, "lock")
  /\ key' = [key EXCEPT ![r] = k]
  /\ feed' = [feed EXCEPT ![r] = 1..n]
  /\ UNCHANGED <<store, src, chunks, prev>>

\* The key lock is free: take it and read the row about to be replaced.  A
\* failing read leaves previousChunks empty.
LockKey(r) ==
  /\ pc[r] = "lock"
  /\ Free(key[r])
  /\ holder' = [holder EXCEPT ![key[r]] = r]
  /\ \/ prev' = [prev EXCEPT ![r] = ChunksOf(key[r])]
     \/ "db_read" \in Faults /\ prev' = prev
  /\ Goto(r, "upload")
  /\ UNCHANGED <<rows, live, next, logged, unavailable, key, src, feed, chunks>>

\* Read the next part of the body and upload it.  The body of a copy is the
\* download of the source's messages.
UploadChunk(r) ==
  /\ pc[r] = "upload"
  /\ next <= MaxMessages
  /\ \E m \in feed[r] :
       /\ First(m, feed[r])
       /\ src[r] = NoKey \/ m \in live
       /\ feed' = [feed EXCEPT ![r] = feed[r] \ {m}]
  /\ chunks' = [chunks EXCEPT ![r] = chunks[r] \cup {next}]
  /\ live' = live \cup {next}
  /\ next' = next + 1
  /\ UNCHANGED <<rows, logged, holder, unavailable, pc, key, src, prev>>

\* Telegram posts the message but the client never sees the reply and will
\* send it again.
UploadUnanswered(r) ==
  /\ "unanswered" \in Faults
  /\ pc[r] = "upload" /\ feed[r] # {}
  /\ next <= MaxMessages
  /\ live' = live \cup {next}
  /\ next' = next + 1
  /\ UNCHANGED <<rows, logged, holder, unavailable, local>>

\* Mutation: the error path forgets the orphan log.
LogNothing(r) == r \in Reqs /\ UNCHANGED logged

\* The uploads made so far are reported with orphan_upload.
LogUploads(r) == logged' = logged \cup chunks[r]

\* Mutation: the error path returns without the deferred unlock.
UploadFailsLocked(r) ==
  /\ "upload" \in Faults
  /\ pc[r] = "upload" /\ feed[r] # {}
  /\ LogUploads(r)
  /\ Done(r)
  /\ UNCHANGED <<rows, live, next, holder, unavailable>>

\* Telegram refuses: what was uploaded is logged, and a bot that may not post
\* makes the bucket unavailable until the restart.
UploadFails(r) ==
  /\ "upload" \in Faults
  /\ pc[r] = "upload" /\ feed[r] # {}
  /\ LogUploads(r)
  /\ unavailable' \in {unavailable, unavailable \cup {BucketOf[key[r]]}}
  /\ Release(r) /\ Done(r)
  /\ UNCHANGED <<rows, live, next>>

Chunked(r) == Cardinality(feed[r]) + Cardinality(chunks[r]) > 1

\* The body breaks off, the source of a copy cannot be downloaded, or the
\* body of a chunked upload goes on after its announced size.  A single
\* upload has its whole body staged before anything is sent.  Nothing is
\* logged.  With nothing sent yet this is also every earlier refusal: no
\* strategy for the size, an entity too large.
BodyFails(r) ==
  /\ pc[r] = "upload"
  /\ \/ "body" \in Faults /\ (feed[r] # {} \/ src[r] = NoKey)
     \/ src[r] # NoKey /\ \E m \in feed[r] : First(m, feed[r]) /\ m \notin live
  /\ Chunked(r) \/ chunks[r] = {}
  /\ Release(r) /\ Done(r)
  /\ UNCHANGED <<rows, live, next, logged, unavailable>>

\* Mutation: the row is committed before the last part is uploaded.
CommitEarly(r) ==
  /\ pc[r] = "upload" /\ Cardinality(feed[r]) <= 1
  /\ rows' = [rows EXCEPT ![key[r]] = chunks[r] \cup (IF feed[r] = {} THEN {} ELSE {next})]
  /\ chunks' = [chunks EXCEPT ![r] = {}]
  /\ Goto(r, "cleanup")
  /\ UNCHANGED <<live, next, logged, holder, unavailable, key, src, feed, prev>>

\* Mutation: the messages to clean up are read after the commit.
CommitThenRead(r) ==
  /\ pc[r] = "upload" /\ feed[r] = {}
  /\ rows' = [rows EXCEPT ![key[r]] = chunks[r]]
  /\ prev' = [prev EXCEPT ![r] = chunks[r]]
  /\ chunks' = [chunks EXCEPT ![r] = {}]
  /\ Goto(r, "cleanup")
  /\ UNCHANGED <<live, next, logged, holder, unavailable, key, src, feed>>

\* All parts are uploaded: commit the row.
Commit(r) ==
  /\ pc[r] = "upload" /\ feed[r] = {}
  /\ rows' = [rows EXCEPT ![key[r]] = chunks[r]]
  /\ chunks' = [chunks EXCEPT ![r] = {}]
  /\ Goto(r, "cleanup")
  /\ UNCHANGED <<live, next, logged, holder, unavailable, key, src, feed, prev>>

\* Mutation: the transaction that deletes the old chunk rows and inserts the
\* new ones is not rolled back.
CommitFailsHalfway(r) ==
  /\ "db" \in Faults
  /\ pc[r] = "upload" /\ feed[r] = {}
  /\ rows' = [rows EXCEPT ![key[r]] = {}]
  /\ LogUploads(r)
  /\ Release(r) /\ Done(r)
  /\ UNCHANGED <<live, next, unavailable>>

\* The transaction fails and is rolled back: the uploads are logged.
CommitFails(r) ==
  /\ "db" \in Faults
  /\ pc[r] = "upload" /\ feed[r] = {}
  /\ LogUploads(r)
  /\ Release(r) /\ Done(r)
  /\ UNCHANGED <<rows, live, next, unavailable>>

\* deleteMessage for m: it goes (or is gone), it is too old and is logged as
\* left behind, or the call fails, with or without effect.
Gone(m)    == live' = live \ {m} /\ UNCHANGED logged
TooOld(m)  == "too_old" \in Faults /\ m \in live /\ logged' = logged \cup {m} /\ UNCHANGED live
Refused(m) == "refuse" \in Faults /\ live' \in {live, live \ {m}}

\* Mutation: the first failure ends the clean-up.
CleanUpUntilError(r) ==
  /\ pc[r] = "cleanup"
  /\ \E m \in prev[r] :
       /\ First(m, prev[r])
       /\ \/ /\ Gone(m) \/ TooOld(m)
             /\ prev' = [prev EXCEPT ![r] = prev[r] \ {m}]
          \/ /\ Refused(m) /\ logged' = logged \cup {m}
             /\ prev' = [prev EXCEPT ![r] = {}]
  /\ UNCHANGED <<rows, next, holder, unavailable, pc, key, src, feed, chunks>>

\* cleanupReplacedChunks: whatever becomes of one message, go on to the next;
\* a failure is only logged.
CleanUp(r) ==
  /\ pc[r] = "cleanup"
  /\ \E m \in prev[r] :
       /\ First(m, prev[r])
       /\ Gone(m) \/ TooOld(m) \/ (Refused(m) /\ logged' = logged \cup {m})
       /\ prev' = [prev EXCEPT ![r] = prev[r] \ {m}]
  /\ UNCHANGED <<rows, next, holder, unavailable, pc, key, src, feed, chunks>>

\* The write returns and its deferred unlock runs.
Finish(r) ==
  /\ pc[r] = "cleanup" /\ prev[r] = {}
  /\ Release(r) /\ Done(r)
  /\ UNCHANGED <<rows, live, next, logged, unavailable>>

-------------------------------------------------------------------------------
(* CopyObject                                                              *)

\* Both buckets are usable.  The same bot and chat: repoint metadata;
\* anything else: download and upload again.
Copy(r, s, k) ==
  /\ pc[r] = "idle"
  /\ Usable(s) /\ Usable(k)
  /\ \/ Binding(s) = Binding(k) /\ "relink" \in Ops /\ Goto(r, "relink")
     \/ Binding(s) # Binding(k) /\ "reupload" \in Ops /\ Goto(r, "open")
  /\ key' = [key EXCEPT ![r] = k]
  /\ src' = [src EXCEPT ![r] = s]
  /\ UNCHANGED <<store, feed, chunks, prev>>

\* copyObjectReupload: GetObject takes its snapshot of the source, PutObject
\* is called with the reader.
OpenSource(r) ==
  /\ pc[r] = "open"
  /\ \/ /\ rows[src[r]] # NoObject /\ Usable(src[r]) /\ Usable(key[r])
        /\ feed' = [feed EXCEPT ![r] = rows[src[r]]]
        /\ Goto(r, "lock")
        /\ UNCHANGED <<key, src, chunks, prev>>
     \/ /\ rows[src[r]] = NoObject \/ ~Usable(src[r]) \/ ~Usable(key[r]) \/ "db" \in Faults
        /\ Done(r)
  /\ UNCHANGED store

\* copyObjectMetadataOnly: take the destination's lock only and read the
\* source, which may be missing.
Relink(r) ==
  /\ pc[r] = "relink"
  /\ Free(key[r])
  /\ \/ /\ rows[src[r]] # NoObject
        /\ holder' = [holder EXCEPT ![key[r]] = r]
        /\ chunks' = [chunks EXCEPT ![r] = rows[src[r]]]
        /\ Goto(r, "repoint")
     \/ /\ rows[src[r]] = NoObject \/ "db" \in Faults
        /\ holder' = [holder EXCEPT ![key[r]] = r]
        /\ Goto(r, "cleanup")
        /\ UNCHANGED chunks
  /\ UNCHANGED <<rows, live, next, logged, unavailable, key, src, feed, prev>>

\* The destination's row now lists the source's messages; what it listed
\* before is forgotten.
Repoint(r) ==
  /\ pc[r] = "repoint"
  /\ \/ rows' = [rows EXCEPT ![key[r]] = chunks[r]]
     \/ "db" \in Faults /\ UNCHANGED rows
  /\ chunks' = [chunks EXCEPT ![r] = {}]
  /\ Goto(r, "cleanup")
  /\ UNCHANGED <<live, next, logged, holder, unavailable, key, src, feed, prev>>

-------------------------------------------------------------------------------
(* DeleteObject                                                            *)

\* The bucket is usable and the row exists: take its list of messages.  No
\* lock is taken.
Delete(r, k) ==
  /\ "delete" \in Ops
  /\ pc[r] = "idle"
  /\ Usable(k)
  /\ rows[k] # NoObject
  /\ Goto(r, "delete")
  /\ key' = [key EXCEPT ![r] = k]
  /\ prev' = [prev EXCEPT ![r] = rows[k]]
  /\ UNCHANGED <<store, src, feed, chunks>>

\* Delete the next message; a message too old to delete does not stop it.
DeleteChunk(r) ==
  /\ pc[r] = "delete"
  /\ \E m \in prev[r] :
       /\ First(m, prev[r])
       /\ Gone(m) \/ TooOld(m)
       /\ prev' = [prev EXCEPT ![r] = prev[r] \ {m}]
  /\ UNCHANGED <<rows, next, holder, unavailable, pc, key, src, feed, chunks>>

\* A deletion that fails ends the request, with the row left in place.
DeleteChunkFails(r) ==
  /\ pc[r] = "delete"
  /\ \E m \in prev[r] : First(m, prev[r]) /\ Refused(m)
  /\ Done(r)
  /\ UNCHANGED <<rows, next, logged, holder, unavailable>>

\* All messages are gone: remove whatever row the key has now.
DeleteRow(r) ==
  /\ pc[r] = "delete" /\ prev[r] = {}
  /\ \/ rows' = [rows EXCEPT ![key[r]] = NoObject]
     \/ "db" \in Faults /\ UNCHANGED rows
  /\ Done(r)
  /\ UNCHANGED <<live, next, logged, holder, unavailable>>

-------------------------------------------------------------------------------

\* The process dies and starts again.
Crash ==
  /\ "crash" \in Faults
  /\ \E r \in Reqs : pc[r] # "idle"
  /\ holder' = [k \in Keys |-> NoReq]
  /\ unavailable' = {}
  /\ pc' = [r \in Reqs |-> "idle"]
  /\ key' = [r \in Reqs |-> NoKey]
  /\ src' = [r \in Reqs |-> NoKey]
  /\ feed' = [r \in Reqs |-> {}]
  /\ chunks' = [r \in Reqs |-> {}]
  /\ prev' = [r \in Reqs |-> {}]
  /\ UNCHANGED <<rows, live, next, logged>>

\* HeadBucket refuses a request for a bucket that has become unavailable.
Reject(r, k) ==
  /\ pc[r] = "idle"
  /\ ~Usable(k)
  /\ UNCHANGED vars

\* What clients ask for, and what a request does once it has been asked.
Ask(r) == \/ \E k \in Keys : Reject(r, k)
          \/ \E k \in Keys, n \in PartCounts : Put(r, k, n)
          \/ \E s, k \in Keys : Copy(r, s, k)
          \/ \E k \in Keys : Delete(r, k)

Advance(r) == \/ UploadChunk(r) \/ UploadUnanswered(r) \/ UploadFails(r) \/ BodyFails(r)
              \/ Commit(r) \/ CommitFails(r) \/ CleanUp(r) \/ Finish(r)
              \/ OpenSource(r) \/ Repoint(r)
              \/ DeleteChunk(r) \/ DeleteChunkFails(r) \/ DeleteRow(r)

Next == \/ \E r \in Reqs : Ask(r) \/ LockKey(r) \/ Relink(r) \/ Advance(r)
        \/ Crash

Spec == Init /\ [][Next]_vars

\* A goroutine that can run does, and the key lock is starvation free (see
\* KeyedLocker).  Clients need not ask for anything.
Fairness == \A r \in Reqs : /\ WF_vars(Advance(r))
                             /\ SF_vars(LockKey(r))
                             /\ SF_vars(Relink(r))

FairSpec == Spec /\ Fairness

-------------------------------------------------------------------------------
(* Properties                                                              *)

Posted == 1..(next - 1)

\* Types; the database, the requests and the log name only messages Telegram
\* has posted; and a request that runs names the keys it works on.
TypeOK ==
  /\ next \in 1..(MaxMessages + 1)
  /\ rows \in [Keys -> (SUBSET Posted) \cup {NoObject}]
  /\ live \subseteq Posted
  /\ logged \subseteq Posted
  /\ holder \in [Keys -> Reqs \cup {NoReq}]
  /\ unavailable \subseteq Buckets
  /\ pc \in [Reqs -> Stages]
  /\ key \in [Reqs -> Keys \cup {NoKey}]
  /\ src \in [Reqs -> Keys \cup {NoKey}]
  /\ feed \in [Reqs -> SUBSET Nat]
  /\ chunks \in [Reqs -> SUBSET Posted]
  /\ prev \in [Reqs -> SUBSET Posted]
  /\ \A r \in Reqs : /\ pc[r] # "idle" => key[r] \in Keys
                     /\ pc[r] \in {"open", "relink"} => src[r] \in Keys

\* The object of k can be read back whole.
Whole(k) == ChunksOf(k) \subseteq live

\* No object loses content behind its owner's back: a step that leaves a
\* listed object unreadable either found it so, or is a step of a
\* DeleteObject of that very key.  In particular a commit lists only
\* messages that exist, and the clean-up of an overwrite (store.go:1039)
\* never takes a message another object lists.
NoSilentLoss ==
  [][\A k \in Keys : ~Whole(k)' =>
        /\ rows'[k] = rows[k]
        /\ ~Whole(k) \/ \E r \in Reqs : pc[r] = "delete" /\ key[r] = k]_vars

\* The messages somebody still answers for: those of an object, of an upload
\* under way, of a clean-up not yet finished, and those in the log.
Answered == (UNION {ChunksOf(k) : k \in Keys})
            \cup (UNION {chunks[r] : r \in Reqs})
            \cup (UNION {prev[r] : r \in {q \in Reqs : pc[q] = "cleanup"}})
            \cup logged

\* The channel's real messages match what tgnas thinks exists (store.go:965):
\* every message that exists is listed by an object, in the hands of a
\* request, or reported as orphaned.
MessageAccounting == live \subseteq Answered

\* While a PutObject uploads under the key lock, the row it will replace is
\* the one it read (store.go:243-249), unless a DeleteObject, which takes no
\* lock, has removed it: its clean-up deletes exactly what its commit orphans.
ReplacesWhatItRead ==
  \A r \in Reqs : pc[r] = "upload" => ChunksOf(key[r]) \in {prev[r], {}}

\* An upload that fails reports what it leaves behind: "Already uploaded
\* chunks may become orphans and are logged"
\* (docs/superpowers/specs/2026-05-22-go-telegram-s3-design.md:344).
FailedPutIsLogged ==
  [][\A r \in Reqs : pc[r] = "upload" /\ pc'[r] = "idle" => chunks[r] \subseteq logged']_vars

\* Every request that was asked for comes to an end, whatever fails, and
\* however long the key locks are contended.
EveryRequestEnds == \A r \in Reqs : pc[r] # "idle" ~> pc[r] = "idle"

-------------------------------------------------------------------------------
(* The store implements the objects its clients see.                       *)

objectBar == [k \in Keys |-> IF rows[k] = NoObject THEN NoObject
                             ELSE IF Whole(k) THEN rows[k] ELSE Damaged]

deletingBar == [r \in Reqs |-> IF pc[r] = "delete" THEN key[r] ELSE NoKey]

Objects == INSTANCE DurableObjects WITH
             Contents <- SUBSET Messages, Absent <- NoObject,
             object <- objectBar, writer <- holder, deleting <- deletingBar

\* Put, Delete and uploading copies behave as DurableObjects.
ImplementsDurableObjects == Objects!Spec

(* The store uses the keyed locker as a mutex per key: a request names one *)
(* key, enters when it is free, and every way out of the handler leaves.   *)

wantsBar == [r \in Reqs |-> IF pc[r] \in {"lock", "relink"} \cup Locked THEN key[r] ELSE NoKey]

Locks == INSTANCE KeyMutex WITH Procs <- Reqs, NoProc <- NoReq, wants <- wantsBar

\* Lock and unlock calls of Put and Copy follow the mutex (store.go:240, 763).
ImplementsKeyMutex == Locks!Spec

===============================================================================
