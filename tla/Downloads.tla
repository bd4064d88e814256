------------------------------- MODULE Downloads -------------------------------
(***************************************************************************)
(* Reading objects: GetObject of store/store.go, the GET handler of        *)
(* s3api/server.go, the download half of telegram/client.go, and the copy  *)
(* that reads one object while it writes another.                          *)
(*                                                                         *)
(* A request is two goroutines.  The producer downloads the selected       *)
(* chunks one after the other into a pipe; the consumer is the handler     *)
(* that writes the response, or PutObject, which has an upload slot and a  *)
(* key lock to take before it reads.  A chunk holds a Telegram slot and    *)
(* the lock of its file until the consumer has read it.                    *)
(*                                                                         *)
(* One object is read.  Its versions are numbered, and version v of size   *)
(* SizeOf[v] is cut into ChunkPlan(SizeOf[v]); other requests overwrite    *)
(* and delete it at any time.                                              *)
(***************************************************************************)
EXTENDS Chunks

CONSTANTS Reqs, NoReq,
          MaxVersion, SizeOf,  \* the versions the object goes through
          Headers,             \* the Range headers clients send
          Dests, NoDest,       \* the keys that copies write
          MaxUploads, MaxDownloads, MaxTelegram,  \* the semaphores
          Unsized,             \* files for which getFile gives no file_size
          Ops,                 \* "get", "range", "copy"
          Faults               \* "broken": a download breaks off half way;
                               \* "upload": a copy cannot upload a chunk

Versions == 1..MaxVersion
NoVersion == 0

ASSUME RequestsAssumption   == NoReq \notin Reqs /\ NoDest \notin Dests
ASSUME ReqsFinite           == IsFiniteSet(Reqs)
ASSUME VersionsAssumption   == MaxVersion \in Nat \ {0} /\ SizeOf \in [Versions -> Nat]
ASSUME HeadersAssumption    == \A h \in Headers : IsHeader(h)
ASSUME SemaphoresAssumption == {MaxUploads, MaxDownloads, MaxTelegram} \subseteq Nat \ {0}

VARIABLES last, row,  \* the newest version so far; the version there is, or NoVersion
          cons, prod, \* where the two goroutines of each request are
          op,         \* "get", or "copy"
          ver,        \* the version GetObject found
          range,      \* the range asked for
          todo,       \* the chunks still to be downloaded
          body,       \* the positions the consumer has been given
          dest,       \* the key a copy writes
          over,       \* the requests whose context has ended
          outcome,    \* what came of the request: "complete", "aborted"
          uploads, downloads, telegram, \* tokens taken from each semaphore
          fileHolder, keyHolder         \* downloadLocker and locker

external == <<last, row>>
request  == <<op, ver, range, dest>>
stream   == <<todo, body>>
tokens   == <<uploads, downloads, telegram>>
locks    == <<fileHolder, keyHolder>>
vars     == <<external, cons, prod, request, stream, over, outcome, tokens, locks>>

File(v, c) == <<v, c.offset>>
Files      == UNION {{File(v, c) : c \in ChunkPlan(SizeOf[v])} : v \in Versions}
NoRange    == ByteRange(0, -1)
Whole(v)   == ByteRange(0, SizeOf[v] - 1)

\* "snapshot": between HeadObject and GetObject; "slot": waiting for a download slot;
\* "upload", "key": a copy waiting to write; "read": reading the pipe;
\* "closed": has returned and closed its end.
ConsStages == {"idle", "snapshot", "slot", "upload", "key", "read", "closed"}

\* "next": between two chunks; "lock": has a Telegram slot and waits for the
\* file; "fetch": getFile and the wait for the file; "pipe": the chunk is open.
ProdStages == {"none", "next", "lock", "fetch", "pipe", "eof", "failed"}
Ended      == {"none", "eof", "failed"}

Init == /\ last = 1 /\ row = 1
        /\ cons = [r \in Reqs |-> "idle"] /\ prod = [r \in Reqs |-> "none"]
        /\ op = [r \in Reqs |-> "get"]
        /\ ver = [r \in Reqs |-> NoVersion]
        /\ range = [r \in Reqs |-> NoRange]
        /\ todo = [r \in Reqs |-> {}] /\ body = [r \in Reqs |-> {}]
        /\ dest = [r \in Reqs |-> NoDest]
        /\ over = {}
        /\ outcome = [r \in Reqs |-> "none"]
        /\ uploads = 0 /\ downloads = 0 /\ telegram = 0
        /\ fileHolder = [f \in Files |-> NoReq]
        /\ keyHolder = [d \in Dests |-> NoReq]

ConsTo(r, stage) == cons' = [cons EXCEPT ![r] = stage]
ProdTo(r, stage) == prod' = [prod EXCEPT ![r] = stage]

\* Its client is gone, or its reader is closed, which cancels the download.
Over(r) == r \in over \/ cons[r] = "closed"

\* The chunk the producer is at, in the order of part numbers, and its file.
Next1(c, S) == c \in S /\ \A d \in S : c.offset <= d.offset
At(r)       == CHOOSE c \in todo[r] : Next1(c, todo[r])
FileOf(r)   == File(ver[r], At(r))

-------------------------------------------------------------------------------
(* The object                                                              *)

\* Another request overwrites or deletes the object.
Overwrite == /\ last < MaxVersion
             /\ last' = last + 1 /\ row' = last + 1
             /\ UNCHANGED <<cons, prod, request, stream, over, outcome, tokens, locks>>

Delete == /\ row # NoVersion
          /\ row' = NoVersion
          /\ UNCHANGED <<last, cons, prod, request, stream, over, outcome, tokens, locks>>

-------------------------------------------------------------------------------
(* The consumer                                                            *)

Begin(r, o, h, d) ==
  /\ cons[r] = "idle"
  /\ op' = [op EXCEPT ![r] = o]
  /\ range' = [range EXCEPT ![r] = h]
  /\ dest' = [dest EXCEPT ![r] = d]
  /\ UNCHANGED <<external, prod, body, over, outcome, tokens, locks>>

\* GetObject reads the row and its chunks in one transaction and selects.
Open(r, asked) ==
  /\ row # NoVersion
  /\ todo' = [todo EXCEPT ![r] = Selected(ChunkPlan(SizeOf[row]), asked)]
  /\ ver' = [ver EXCEPT ![r] = row]
  /\ ConsTo(r, "slot")

\* A GET without a Range header; a copy of the object to a bucket of another
\* chat.  One that finds no row ends with NoSuchKey.
Get(r)     == "get" \in Ops /\ Open(r, Whole(row)) /\ Begin(r, "get", Whole(row), NoDest)
Copy(r, d) == "copy" \in Ops /\ Open(r, Whole(row)) /\ Begin(r, "copy", Whole(row), d)

\* A GET with one: HeadObject gives the size the header is read against.
GetRange(r, h) ==
  /\ "range" \in Ops
  /\ row # NoVersion
  /\ RangeAccepted(h, SizeOf[row])
  /\ Begin(r, "get", RangeOf(h, SizeOf[row]), NoDest)
  /\ ConsTo(r, "snapshot")
  /\ UNCHANGED <<ver, todo>>

Snapshot(r) ==
  /\ cons[r] = "snapshot"
  /\ Open(r, range[r])
  /\ UNCHANGED <<external, prod, op, range, body, dest, over, outcome, tokens, locks>>

\* A download slot: start the producer.  A copy calls PutObject with the pipe.
TakeDownload(r) ==
  /\ cons[r] = "slot"
  /\ downloads < MaxDownloads
  /\ downloads' = downloads + 1
  /\ ConsTo(r, IF op[r] = "copy" THEN "upload" ELSE "read")
  /\ ProdTo(r, "next")
  /\ UNCHANGED <<external, request, stream, over, outcome, uploads, telegram, locks>>

\* The handler returns and closes the pipe.
Close(r, result) ==
  /\ ConsTo(r, "closed")
  /\ outcome' = [outcome EXCEPT ![r] = result]
  /\ op' = [op EXCEPT ![r] = "get"]
  /\ range' = [range EXCEPT ![r] = NoRange]
  /\ body' = [body EXCEPT ![r] = {}]
  /\ dest' = [dest EXCEPT ![r] = NoDest]
  /\ over' = over \ {r}
  /\ UNCHANGED <<external, prod, ver, todo, downloads, telegram, fileHolder>>

\* The end of the context ends the waits for a slot, and not those for a key.
GiveUp(r) ==
  /\ \/ cons[r] \in {"slot", "upload"} /\ r \in over
     \/ cons[r] = "snapshot" /\ (r \in over \/ row = NoVersion)
  /\ Close(r, "aborted")
  /\ UNCHANGED <<uploads, keyHolder>>

TakeUpload(r) ==
  /\ cons[r] = "upload"
  /\ uploads < MaxUploads
  /\ uploads' = uploads + 1
  /\ ConsTo(r, "key")
  /\ UNCHANGED <<external, prod, request, stream, over, outcome, downloads, telegram, locks>>

LockKey(r) ==
  /\ cons[r] = "key"
  /\ keyHolder[dest[r]] = NoReq
  /\ keyHolder' = [keyHolder EXCEPT ![dest[r]] = r]
  /\ ConsTo(r, "read")
  /\ UNCHANGED <<external, prod, request, stream, over, outcome, tokens, fileHolder>>

\* A copy also gives back its key and its upload slot.
Return(r, result) ==
  /\ cons[r] = "read"
  /\ IF op[r] = "copy"
     THEN uploads' = uploads - 1 /\ keyHolder' = [keyHolder EXCEPT ![dest[r]] = NoReq]
     ELSE UNCHANGED <<uploads, keyHolder>>
  /\ Close(r, result)

\* Mutation: whatever has arrived when the pipe ends is taken for the object.
ReadAllShort(r) ==
  /\ prod[r] \in {"eof", "failed"}
  /\ Return(r, IF prod[r] = "eof" THEN "complete" ELSE "aborted")

\* The pipe has ended.  The response, or the copy, is complete if it has as
\* many bytes as the handler has announced, or as PutObject was told.
ReadAll(r) ==
  /\ prod[r] \in {"eof", "failed"}
  /\ Return(r, IF prod[r] = "eof" /\ Cardinality(body[r]) = LengthOf(range[r])
               THEN "complete" ELSE "aborted")

\* Its client has gone away: the response cannot be written.
StopWriting(r) == op[r] = "get" /\ r \in over /\ Return(r, "aborted")

\* A copy cannot upload what it has read, one chunk at the least.
UploadFails(r) ==
  /\ op[r] = "copy" /\ cons[r] = "read"
  /\ \E c \in ChunkPlan(SizeOf[ver[r]]) : c.offset = 0 /\ c.size <= Cardinality(body[r])
  /\ "upload" \in Faults \/ r \in over
  /\ Return(r, "aborted")

\* Both goroutines are gone.
Leave(r) ==
  /\ cons[r] = "closed" /\ prod[r] \in Ended
  /\ ConsTo(r, "idle") /\ ProdTo(r, "none")
  /\ ver' = [ver EXCEPT ![r] = NoVersion]
  /\ todo' = [todo EXCEPT ![r] = {}]
  /\ outcome' = [outcome EXCEPT ![r] = "none"]
  /\ UNCHANGED <<external, op, range, dest, body, over, tokens, locks>>

\* The client goes away: the context of the request ends.
Disconnect(r) ==
  /\ cons[r] \notin {"idle", "closed"} /\ r \notin over
  /\ over' = over \cup {r}
  /\ UNCHANGED <<external, cons, prod, request, stream, outcome, tokens, locks>>

-------------------------------------------------------------------------------
(* The producer                                                            *)

\* It gives back its download slot and closes the pipe.
StopProducing(r, stage) == ProdTo(r, stage) /\ downloads' = downloads - 1

EndOfObject(r) ==
  /\ prod[r] = "next" /\ todo[r] = {}
  /\ StopProducing(r, "eof")
  /\ UNCHANGED <<external, cons, request, stream, over, outcome, uploads, telegram, locks>>

\* downloadChunk: a slot, then the lock of the file, then getFile.
TakeTelegram(r) ==
  /\ prod[r] = "next" /\ todo[r] # {}
  /\ telegram < MaxTelegram
  /\ telegram' = telegram + 1
  /\ ProdTo(r, "lock")
  /\ UNCHANGED <<external, cons, request, stream, over, outcome, uploads, downloads, locks>>

StopWaiting(r) ==
  /\ prod[r] = "next" /\ todo[r] # {} /\ Over(r)
  /\ StopProducing(r, "failed")
  /\ UNCHANGED <<external, cons, request, stream, over, outcome, uploads, telegram, locks>>

\* Mutation: the readers of a file do not wait for each other.
LockNothing(r) ==
  /\ prod[r] = "lock"
  /\ fileHolder' = [fileHolder EXCEPT ![FileOf(r)] = r]
  /\ ProdTo(r, "fetch")
  /\ UNCHANGED <<external, cons, request, stream, over, outcome, tokens, keyHolder>>

LockFile(r) ==
  /\ prod[r] = "lock"
  /\ fileHolder[FileOf(r)] = NoReq
  /\ fileHolder' = [fileHolder EXCEPT ![FileOf(r)] = r]
  /\ ProdTo(r, "fetch")
  /\ UNCHANGED <<external, cons, request, stream, over, outcome, tokens, keyHolder>>

\* getFile; the file is on the disk of the Bot API server, or being written.
Fetch(r) ==
  /\ prod[r] = "fetch"
  /\ ProdTo(r, "pipe")
  /\ UNCHANGED <<external, cons, request, stream, over, outcome, tokens, locks>>

\* The reader of a chunk is closed: the lock of the file, then the slot.
CloseChunk(r) == /\ fileHolder' = [fileHolder EXCEPT ![FileOf(r)] = NoReq]
                 /\ telegram' = telegram - 1

\* Mutation: the failed chunk keeps its file and its slot.
FetchFailsHolding(r) ==
  /\ prod[r] = "fetch"
  /\ StopProducing(r, "failed")
  /\ UNCHANGED <<external, cons, request, stream, over, outcome, uploads, telegram, locks>>

\* getFile fails, or the wait times out or is cancelled.
FetchFails(r) ==
  /\ prod[r] = "fetch"
  /\ CloseChunk(r)
  /\ StopProducing(r, "failed")
  /\ UNCHANGED <<external, cons, request, stream, over, outcome, uploads, keyHolder>>

\* The first n bytes of the file the producer has open go through the pipe.
Streaming(r) == prod[r] = "pipe" /\ cons[r] = "read"
Pass(r, n)   == /\ body' = [body EXCEPT ![r] = @ \cup Delivered(At(r), range[r], n)]
                /\ CloseChunk(r)

\* Mutation: the file is read as soon as getFile has answered.
ReadableNow(r) == 0..At(r).size

\* How much of it there is to read.  waitForLocalFileSize waits until it has
\* the size getFile gave; without one the server may still be writing it.
Readable(r) == IF FileOf(r) \in Unsized THEN 0..At(r).size ELSE {At(r).size}

Deliver(r) ==
  /\ Streaming(r)
  /\ \E n \in Readable(r) : Pass(r, n)
  /\ todo' = [todo EXCEPT ![r] = @ \ {At(r)}]
  /\ ProdTo(r, "next")
  /\ UNCHANGED <<external, cons, request, over, outcome, uploads, downloads, keyHolder>>

\* The connection breaks off.
Breaks(r) ==
  /\ Streaming(r)
  /\ "broken" \in Faults \/ Over(r)
  /\ \E n \in 0..At(r).size : Pass(r, n)
  /\ StopProducing(r, "failed")
  /\ UNCHANGED <<external, cons, request, todo, over, outcome, uploads, keyHolder>>

\* Mutation: the handler returns and leaves its end of the pipe open.
WriteFailsNever(r) == prod[r] = "pipe" /\ UNCHANGED vars

\* The consumer has closed its end.
WriteFails(r) ==
  /\ prod[r] = "pipe" /\ cons[r] = "closed"
  /\ CloseChunk(r)
  /\ StopProducing(r, "failed")
  /\ UNCHANGED <<external, cons, request, stream, over, outcome, uploads, keyHolder>>

-------------------------------------------------------------------------------
Ask(r) == Get(r) \/ (\E h \in Headers : GetRange(r, h)) \/ (\E d \in Dests : Copy(r, d))

\* What the two goroutines do unless something fails.
Run(r)  == \/ Snapshot(r) \/ GiveUp(r) \/ TakeDownload(r) \/ TakeUpload(r) \/ LockKey(r)
           \/ ReadAll(r) \/ Leave(r)
Work(r) == \/ EndOfObject(r) \/ TakeTelegram(r) \/ StopWaiting(r) \/ LockFile(r)
           \/ Fetch(r) \/ FetchFails(r) \/ Deliver(r) \/ WriteFails(r)

Fail(r) == StopWriting(r) \/ UploadFails(r) \/ Breaks(r)

Next == \/ Overwrite \/ Delete
        \/ \E r \in Reqs : Ask(r) \/ Disconnect(r) \/ Run(r) \/ Work(r) \/ Fail(r)

Spec == Init /\ [][Next]_vars

\* Goroutines run on, the wait of a getFile is bounded, and a client reads its
\* response or goes away.  Channels and mutexes hand over in turn, so whoever
\* waits for one that is given back again and again gets it: strong fairness.
Fairness == \A r \in Reqs : SF_vars(Run(r)) /\ SF_vars(Work(r))

FairSpec == Spec /\ Fairness

-------------------------------------------------------------------------------
(* Properties                                                              *)

\* Who has a token of which semaphore, and a key.
Uploading    == {r \in Reqs : op[r] = "copy" /\ cons[r] \in {"key", "read"}}
KeyOwner(r)  == op[r] = "copy" /\ cons[r] = "read"
Downloading  == {r \in Reqs : prod[r] \notin Ended}
OnTelegram   == {r \in Reqs : prod[r] \in {"lock", "fetch", "pipe"}}
Opening(r)   == prod[r] \in {"fetch", "pipe"}

TypeOK ==
  /\ last \in Versions /\ row \in Versions \cup {NoVersion}
  /\ cons \in [Reqs -> ConsStages] /\ prod \in [Reqs -> ProdStages]
  /\ op \in [Reqs -> {"get", "copy"}]
  /\ ver \in [Reqs -> Versions \cup {NoVersion}]
  /\ range \in [Reqs -> [start : Nat, end : Int]]
  /\ dest \in [Reqs -> Dests \cup {NoDest}]
  /\ \A r \in Reqs : /\ body[r] \subseteq range[r].start..range[r].end
                     /\ ver[r] # NoVersion => todo[r] \subseteq ChunkPlan(SizeOf[ver[r]])
                     /\ r \in OnTelegram => ver[r] # NoVersion /\ todo[r] # {}
  /\ over \subseteq Reqs
  /\ outcome \in [Reqs -> {"none", "complete", "aborted"}]
  /\ fileHolder \in [Files -> Reqs \cup {NoReq}]
  /\ keyHolder \in [Dests -> Reqs \cup {NoReq}]

\* Every slot of the three semaphores, every file and every key that is taken
\* is taken by a request that is still at work with it, whatever failed, broke
\* off or was cancelled on the way (the defers of store.go:663-703 and the
\* releases of downloadChunk, 1452-1462): no path of a download leaks one.
SlotsAccounted ==
  /\ uploads = Cardinality(Uploading) /\ uploads <= MaxUploads
  /\ downloads = Cardinality(Downloading) /\ downloads <= MaxDownloads
  /\ telegram = Cardinality(OnTelegram) /\ telegram <= MaxTelegram
  /\ \A f \in Files : fileHolder[f] # NoReq => Opening(fileHolder[f]) /\ FileOf(fileHolder[f]) = f
  /\ \A d \in Dests : keyHolder[d] # NoReq => KeyOwner(keyHolder[d]) /\ dest[keyHolder[d]] = d

\* No two requests fetch or read the same Telegram file at a time: "a second
\* concurrent request only proceeds once the first has fully finished
\* streaming and closed" (store.go:1442-1452).
OneReaderPerFile ==
  \A a, b \in Reqs : a # b /\ Opening(a) /\ Opening(b) => FileOf(a) # FileOf(b)

\* What a response that ends well has delivered is what its Content-Range and
\* ETag say, all of it and of one version, although the object may have been
\* replaced after the size was looked up (server.go:598-626) or while it was
\* streamed (store.go:632-706); and a copy that ends well is of one version.
CompleteIsExact ==
  [][\A r \in Reqs : Return(r, "complete") => body[r] = range[r].start..range[r].end]_vars

\* A pipe that ends without an error has carried every byte asked for that the
\* version has, nothing cut off at a chunk's edge and no file read before the
\* Bot API server had written it (client.go:152-163), unless the server never
\* told the size of one of its files.
NothingMissing ==
  \A r \in Reqs :
    /\ prod[r] = "eof" /\ cons[r] # "closed"
    /\ \A c \in ChunkPlan(SizeOf[ver[r]]) : File(ver[r], c) \notin Unsized
    => range[r].start..Lesser(range[r].end, SizeOf[ver[r]] - 1) \subseteq body[r]

\* Two copies wait for each other: a has opened its source and cannot write,
\* for b has the upload slot or the key it needs; b cannot read, for a has the
\* file or the Telegram slot it needs.  Neither wait for a lock ends with the
\* request's context.
CannotWrite(a, b) == /\ prod[a] = "pipe" /\ KeyOwner(b)
                     /\ \/ cons[a] = "upload" /\ uploads = MaxUploads
                        \/ cons[a] = "key" /\ keyHolder[dest[a]] = b
CannotRead(b, a)  == \/ prod[b] = "lock" /\ fileHolder[FileOf(b)] = a
                     \/ prod[b] = "next" /\ todo[b] # {} /\ telegram = MaxTelegram
Crossed == \E a, b \in Reqs : a # b /\ CannotWrite(a, b) /\ CannotRead(b, a)

\* Every download and every copy ends, although a copy holds a download slot,
\* a Telegram slot and the lock of a file while it waits for an upload slot and
\* a key (store.go:795-813): the crossed wait above is the only way to hang.
EndsUnlessCrossed ==
  \A r \in Reqs : cons[r] # "idle" ~> cons[r] = "idle" \/ Crossed
===============================================================================
