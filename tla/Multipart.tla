------------------------------- MODULE Multipart -------------------------------
(***************************************************************************)
(* store/store.go, multipart uploads: sessions in memory, their parts       *)
(* uploaded to Telegram at once and committed as one object by              *)
(* CompleteMultipartUpload.                                                 *)
(*                                                                          *)
(* Every critical section of s.multipartMu is one action, and so is every   *)
(* call to Telegram or SQLite.  UploadPart looks its session up twice,      *)
(* before the uploads and after; Complete copies the parts under the mutex  *)
(* and deletes the session in a later critical section, both under the key  *)
(* lock; Abort and the eviction by Create take no key lock.  An MD5 stands  *)
(* for the bytes, so a part's ETag is its content.  DeleteObject and        *)
(* PutObject on the same keys are in ObjectStore.                           *)
(***************************************************************************)
EXTENDS Naturals, FiniteSets, Sequences, SequencesExt

CONSTANTS Reqs, Keys, NoReq,
          Uploads, KeyOf,   \* upload IDs, each drawn at random for one key
          MaxUploads,       \* maxMultipartUploads
          PartNumbers, NoPart,
          Contents, SizeOf, \* what a part may hold, and in how many chunks
          Requested,        \* the part lists clients send to Complete
          NoObject,
          MaxMessages,      \* bounds the messages Telegram ever numbers
          Faults            \* what may go wrong: see AllFaults

\* "upload": Telegram refuses a chunk or the body breaks off; "extra": the body
\* is longer than announced; "db": the metadata transaction fails; "refuse": a
\* deletion fails; "crash": the process dies.
AllFaults == {"upload", "extra", "db", "refuse", "crash"}

ASSUME UploadsAssumption == KeyOf \in [Uploads -> Keys] /\ NoReq \notin Reqs
ASSUME PartsAssumption   == /\ PartNumbers \subseteq Nat \ {0} /\ NoPart \notin [etag : Contents, chunks : Seq(Nat)]
                            /\ SizeOf \in [Contents -> Nat]
ASSUME RequestedAssumption == Requested \subseteq Seq(PartNumbers \X Contents)
ASSUME BoundsAssumption    == MaxUploads \in Nat /\ MaxMessages \in Nat /\ Faults \subseteq AllFaults

VARIABLES open,    \* s.multipartUploads
          used,    \* upload IDs ever drawn, in the order of their createdAt
          parts,   \* upload.parts of each session
          rows,    \* SQLite: the messages of each key's object in order
          live,    \* Telegram: the messages that exist
          next,    \* Telegram: the number of the next message
          holds,   \* the chunk each message holds
          logged,  \* messages a log line has reported as orphaned
          holder,  \* the keyed locker
          pc, job  \* each request's place and locals

session  == <<open, used, parts>>
telegram == <<live, next, holds>>
vars == <<session, telegram, rows, logged, holder, pc, job>>

\* "part": UploadPart between its two look-ups; "lock": Complete waiting for
\* the key; "commit": it has copied the parts; "cleanup": it has committed.
Stages == {"idle", "part", "lock", "commit", "cleanup"}

Idle == [upload |-> NoPart, number |-> 0, content |-> NoPart, want |-> <<>>, chunks |-> <<>>, prev |-> <<>>]

NoParts == [n \in PartNumbers |-> NoPart]
Messages == 1..MaxMessages

Init == /\ open = {} /\ used = <<>> /\ parts = [u \in Uploads |-> NoParts]
        /\ rows = [k \in Keys |-> NoObject]
        /\ live = {} /\ next = 1 /\ holds = [m \in Messages |-> NoPart]
        /\ logged = {}
        /\ holder = [k \in Keys |-> NoReq]
        /\ pc = [r \in Reqs |-> "idle"]
        /\ job = [r \in Reqs |-> Idle]

IsOpen(u)    == u \in open
Set(r, s, j) == pc' = [pc EXCEPT ![r] = s] /\ job' = [job EXCEPT ![r] = j]
Return(r)    == Set(r, "idle", Idle)
Key(r)       == KeyOf[job[r].upload]
Release(r)   == holder' = [holder EXCEPT ![Key(r)] = NoReq]
PartsOf(u)   == {parts[u][n] : n \in PartNumbers} \ {NoPart}
ChunksOfAll(u) == UNION {ToSet(p.chunks) : p \in PartsOf(u)}

\* A session ends: it and its parts are forgotten.
Forget(us) == /\ open' = open \ us
              /\ parts' = [u \in Uploads |-> IF u \in us THEN NoParts ELSE parts[u]]

-------------------------------------------------------------------------------

\* Mutation: the eviction looks for more sessions than the cap.
CreateUncapped(u) ==
  /\ u \notin ToSet(used)
  /\ used' = Append(used, u)
  /\ open' = open \cup {u}
  /\ UNCHANGED <<parts, logged, telegram, rows, holder, pc, job>>

\* The session of us drawn first.
Oldest(us, drawn) ==
  CHOOSE u \in us : \E i \in DOMAIN drawn : drawn[i] = u /\ \A j \in 1..(i - 1) : drawn[j] \notin us

\* CreateMultipartUpload: one more session, and the oldest is evicted when
\* they are too many.
Create(u) ==
  /\ u \notin ToSet(used)
  /\ used' = Append(used, u)
  /\ IF Cardinality(open) < MaxUploads
     THEN open' = open \cup {u} /\ UNCHANGED <<parts, logged>>
     ELSE LET oldest == Oldest(open \cup {u}, used') IN
          /\ open' = (open \cup {u}) \ {oldest}
          /\ logged' = logged \cup ChunksOfAll(oldest)
          /\ parts' = [parts EXCEPT ![oldest] = NoParts]
  /\ UNCHANGED <<telegram, rows, holder, pc, job>>

\* AbortMultipartUpload.
Abort(u) ==
  /\ IsOpen(u)
  /\ logged' = logged \cup ChunksOfAll(u)
  /\ Forget({u})
  /\ UNCHANGED <<used, telegram, rows, holder, pc, job>>

\* UploadPart finds the session.
StartPart(r, u, n, c) ==
  /\ pc[r] = "idle"
  /\ IsOpen(u)
  /\ Set(r, "part", [Idle EXCEPT !.upload = u, !.number = n, !.content = c])
  /\ UNCHANGED <<session, telegram, rows, logged, holder>>

Sent(r) == Len(job[r].chunks)
AllSent(r) == Sent(r) = SizeOf[job[r].content]

\* The next chunk of the part.
SendChunk(r) ==
  /\ pc[r] = "part" /\ ~AllSent(r)
  /\ next <= MaxMessages
  /\ live' = live \cup {next}
  /\ next' = next + 1
  /\ holds' = [holds EXCEPT ![next] = <<job[r].content, Sent(r) + 1>>]
  /\ job' = [job EXCEPT ![r].chunks = Append(@, next)]
  /\ UNCHANGED <<session, rows, logged, holder, pc>>

\* Telegram refuses a chunk or the body breaks off: the sent ones are logged.
SendFails(r) ==
  /\ "upload" \in Faults
  /\ pc[r] = "part" /\ ~AllSent(r)
  /\ logged' = logged \cup ToSet(job[r].chunks)
  /\ Return(r)
  /\ UNCHANGED <<session, telegram, rows, holder>>

\* The body goes on after its announced size, or the session is gone by now:
\* the part is dropped and nothing is logged.
DropPart(r) ==
  /\ pc[r] = "part" /\ AllSent(r)
  /\ "extra" \in Faults \/ ~IsOpen(job[r].upload)
  /\ Return(r)
  /\ UNCHANGED <<session, telegram, rows, logged, holder>>

\* The session is still there: the part is recorded, what it replaces logged.
RecordPart(r) ==
  LET j == job[r]
      old == parts[j.upload][j.number]
  IN /\ pc[r] = "part" /\ AllSent(r)
     /\ IsOpen(j.upload)
     /\ parts' = [parts EXCEPT ![j.upload][j.number] = [etag |-> j.content, chunks |-> j.chunks]]
     /\ logged' = IF old = NoPart THEN logged ELSE logged \cup ToSet(old.chunks)
     /\ Return(r)
     /\ UNCHANGED <<open, used, telegram, rows, holder>>

\* CompleteMultipartUpload is called.
StartComplete(r, u, want) ==
  /\ pc[r] = "idle"
  /\ u \in ToSet(used)
  /\ Set(r, "lock", [Idle EXCEPT !.upload = u, !.want = want])
  /\ UNCHANGED <<session, telegram, rows, logged, holder>>

Increasing(want) == \A i, j \in DOMAIN want : i < j => want[i][1] < want[j][1]

\* completeParts: each requested part is there with the ETag requested.
Matches(u, want) ==
  /\ want # <<>> /\ Increasing(want)
  /\ \A i \in DOMAIN want : LET p == parts[u][want[i][1]] IN p # NoPart /\ p.etag = want[i][2]

Taken(u, want) == FlattenSeq([i \in DOMAIN want |-> parts[u][want[i][1]].chunks])

RowOf(k) == IF rows[k] = NoObject THEN <<>> ELSE rows[k]

\* Under the key lock: copy the parts, then read the row to be replaced.
TakeParts(r) ==
  LET j == job[r] IN
  /\ pc[r] = "lock"
  /\ holder[Key(r)] = NoReq
  /\ IsOpen(j.upload) /\ Matches(j.upload, j.want)
  /\ holder' = [holder EXCEPT ![Key(r)] = r]
  /\ Set(r, "commit", [j EXCEPT !.chunks = Taken(j.upload, j.want), !.prev = RowOf(Key(r))])
  /\ UNCHANGED <<session, telegram, rows, logged>>

\* Mutation: the error path keeps the key locked.
RefuseLocked(r) ==
  LET j == job[r] IN
  /\ pc[r] = "lock"
  /\ holder[Key(r)] = NoReq
  /\ ~IsOpen(j.upload) \/ ~Matches(j.upload, j.want)
  /\ holder' = [holder EXCEPT ![Key(r)] = r]
  /\ Return(r)
  /\ UNCHANGED <<session, telegram, rows, logged>>

\* No such upload, a part list out of order, or a part that is not there.
RefuseComplete(r) ==
  LET j == job[r] IN
  /\ pc[r] = "lock"
  /\ holder[Key(r)] = NoReq
  /\ ~IsOpen(j.upload) \/ ~Matches(j.upload, j.want)
  /\ Return(r)
  /\ UNCHANGED <<session, telegram, rows, logged, holder>>

\* Mutation: the parts are looked up again when the row is built.
CommitCurrent(r) ==
  /\ pc[r] = "commit"
  /\ \A i \in DOMAIN job[r].want : parts[job[r].upload][job[r].want[i][1]] # NoPart
  /\ rows' = [rows EXCEPT ![Key(r)] = Taken(job[r].upload, job[r].want)]
  /\ pc' = [pc EXCEPT ![r] = "cleanup"]
  /\ UNCHANGED <<session, telegram, logged, holder, job>>

\* The row is written in one transaction.
Commit(r) ==
  /\ pc[r] = "commit"
  /\ rows' = [rows EXCEPT ![Key(r)] = job[r].chunks]
  /\ pc' = [pc EXCEPT ![r] = "cleanup"]
  /\ UNCHANGED <<session, telegram, logged, holder, job>>

\* The transaction fails: the session stays for a retry.
CommitFails(r) ==
  /\ "db" \in Faults
  /\ pc[r] = "commit"
  /\ Release(r) /\ Return(r)
  /\ UNCHANGED <<session, telegram, rows, logged>>

\* cleanupReplacedChunks: a deletion that fails, or comes too late, is logged.
CleanUp(r) ==
  /\ pc[r] = "cleanup" /\ job[r].prev # <<>>
  /\ LET m == Head(job[r].prev) IN
     \/ live' = live \ {m} /\ UNCHANGED logged
     \/ "refuse" \in Faults /\ logged' = logged \cup {m} /\ UNCHANGED live
  /\ job' = [job EXCEPT ![r].prev = Tail(@)]
  /\ UNCHANGED <<session, next, holds, rows, holder, pc>>

\* Mutation: the session outlives its completion.
EndKeepingSession(r) ==
  /\ pc[r] = "cleanup" /\ job[r].prev = <<>>
  /\ Release(r) /\ Return(r)
  /\ UNCHANGED <<session, telegram, rows, logged>>

\* The session is deleted, by whatever name it still has, and Complete returns.
EndSession(r) ==
  /\ pc[r] = "cleanup" /\ job[r].prev = <<>>
  /\ Forget({job[r].upload})
  /\ Release(r) /\ Return(r)
  /\ UNCHANGED <<used, telegram, rows, logged>>

\* The process dies and starts again: sessions were in memory only.
Crash ==
  /\ "crash" \in Faults
  /\ Forget(Uploads)
  /\ holder' = [k \in Keys |-> NoReq]
  /\ pc' = [r \in Reqs |-> "idle"]
  /\ job' = [r \in Reqs |-> Idle]
  /\ UNCHANGED <<used, telegram, rows, logged>>

Advance(r) == \/ SendChunk(r) \/ SendFails(r) \/ DropPart(r) \/ RecordPart(r)
              \/ Commit(r) \/ CommitFails(r) \/ CleanUp(r) \/ EndSession(r)

Locking(r) == TakeParts(r) \/ RefuseComplete(r)

Next == \/ \E u \in Uploads : Create(u) \/ Abort(u)
        \/ \E r \in Reqs :
             \/ \E u \in Uploads, n \in PartNumbers, c \in Contents : StartPart(r, u, n, c)
             \/ \E u \in Uploads, want \in Requested : StartComplete(r, u, want)
             \/ Advance(r) \/ Locking(r)
        \/ Crash

Spec == Init /\ [][Next]_vars

FairSpec == Spec /\ \A r \in Reqs : WF_vars(Advance(r)) /\ SF_vars(Locking(r))

-------------------------------------------------------------------------------
(* Properties                                                              *)

Chunks == Contents \X Nat

\* Types; sessions, rows and the log name only messages Telegram has posted.
TypeOK ==
  /\ next \in 1..(MaxMessages + 1)
  /\ open \subseteq ToSet(used) /\ used \in Seq(Uploads) /\ IsInjective(used)
  /\ Cardinality(open) <= MaxUploads
  /\ \A u \in Uploads : \A p \in PartsOf(u) : p.etag \in Contents /\ ToSet(p.chunks) \subseteq 1..(next - 1)
  /\ \A k \in Keys : ToSet(RowOf(k)) \subseteq 1..(next - 1)
  /\ live \cup logged \subseteq 1..(next - 1)
  /\ holder \in [Keys -> Reqs \cup {NoReq}]
  /\ pc \in [Reqs -> Stages]
  /\ \A m \in Messages : IF m < next THEN holds[m] \in Chunks ELSE holds[m] = NoPart

\* Every message an object lists exists: the clean-up after a completion never
\* deletes what it has just committed, which it would if one upload could be
\* completed twice (store.go:494-526).
ListedIsLive == \A k \in Keys : ToSet(RowOf(k)) \subseteq live

Body(c) == [i \in 1..SizeOf[c] |-> <<c, i>>]
Asked(want) == FlattenSeq([i \in DOMAIN want |-> Body(want[i][2])])

\* A completion makes the object the concatenation of the contents whose
\* ETags the client listed, in that order, whatever parts are uploaded again,
\* aborted or evicted between the look-up and the commit (store.go:499-520).
CommitsWhatWasAsked ==
  [][\A r \in Reqs : pc[r] = "commit" /\ pc'[r] = "cleanup" =>
       [i \in DOMAIN rows'[Key(r)] |-> holds[rows'[Key(r)][i]]] = Asked(job[r].want)]_vars

\* Every UploadPart and CompleteMultipartUpload comes to an end.
EveryRequestEnds == \A r \in Reqs : pc[r] # "idle" ~> pc[r] = "idle"

Listed(m) == \E k \in Keys : m \in ToSet(RowOf(k))

\* A message an object lists is called an orphan in the log only by an abort or
\* an eviction that comes between the commit of its completion and the end of
\* the session (store.go:516-528, 315-331, 530-549): "Previously uploaded
\* Telegram chunks become orphaned and are logged"
\* (2026-05-25-tgnas-s3-multipart-upload-design.md:68) is otherwise true.
FalseOrphansAreRaces ==
  [][\A m \in logged' \ logged : Listed(m)' =>
       \E r \in Reqs : pc[r] = "cleanup" /\ m \in ToSet(job[r].chunks)]_vars

===============================================================================
