---------------------------- MODULE DownloadsProofs ----------------------------
(***************************************************************************)
(* Chunks and ranges for objects of any size, any limits and any header;   *)
(* then downloads for any number of requests and versions, any sizes,      *)
(* headers and capacities of the semaphores, with every fault.             *)
(***************************************************************************)
EXTENDS Downloads, FiniteSetTheorems, WellFoundedInduction, TLAPS

-------------------------------------------------------------------------------
(* Chunks and ranges                                                       *)

\* Division with a remainder that is less than the divisor.
LEMMA Quotient ==
  ASSUME NEW n \in Nat, NEW d \in Nat \ {0}
  PROVE  /\ n \div d \in Nat
         /\ d * (n \div d) <= n
         /\ n < d * (n \div d) + d
BY SMT

\* The index of a chunk and the size of the object say where it begins.
LEMMA ChunkAt ==
  ASSUME NEW size \in Nat, size # 0, ~Single(size),
         NEW i \in 0..((size - 1) \div ChunkSize)
  PROVE  /\ ChunkSize * i \in Nat
         /\ ChunkSize * i < size
<1>1. /\ i \in Nat /\ size - 1 \in Nat
  BY ChunksAssumption, Quotient
<1>2. ChunkSize * i <= ChunkSize * ((size - 1) \div ChunkSize)
  BY <1>1, ChunksAssumption, Quotient, i <= (size - 1) \div ChunkSize
<1>3. ChunkSize * ((size - 1) \div ChunkSize) <= size - 1
  BY <1>1, ChunksAssumption, Quotient
<1>. QED  BY <1>1, <1>2, <1>3, ChunksAssumption

\* A chunk of a plan is not empty and lies within the object; no chunk of an
\* object above the limit is larger than ChunkSize.
THEOREM ChunkBounds ==
  ASSUME NEW size \in Nat, NEW c \in ChunkPlan(size)
  PROVE  /\ c = Chunk(c.offset, c.size)
         /\ c.offset \in Nat /\ c.size \in Nat \ {0}
         /\ c.offset + c.size <= size
         /\ ~Single(size) => c.size <= ChunkSize
<1>0. size # 0
  BY DEF ChunkPlan
<1>1. CASE Single(size)
  BY <1>0, <1>1 DEF ChunkPlan, Chunk
<1>2. CASE ~Single(size)
  <2>1. PICK i \in 0..((size - 1) \div ChunkSize) :
          c = Chunk(ChunkSize * i, Lesser(ChunkSize, size - ChunkSize * i))
    BY <1>0, <1>2 DEF ChunkPlan
  <2>2. ChunkSize * i \in Nat /\ ChunkSize * i < size
    BY <1>0, <1>2, ChunkAt
  <2>. QED  BY <1>2, <2>1, <2>2, ChunksAssumption DEF Chunk, Lesser
<1>. QED  BY <1>1, <1>2

\* Every byte of an object is in a chunk: nothing is left out by the loop of
\* putChunked.
THEOREM ChunksCover ==
  ASSUME NEW size \in Nat, NEW p \in 0..(size - 1)
  PROVE  \E c \in ChunkPlan(size) : p \in c.offset..EndOf(c)
<1>0. size # 0
  OBVIOUS
<1>1. CASE Single(size)
  <2>1. Chunk(0, size) \in ChunkPlan(size)
    BY <1>0, <1>1 DEF ChunkPlan
  <2>2. p \in Chunk(0, size).offset..EndOf(Chunk(0, size))
    BY DEF Chunk, EndOf
  <2>. QED  BY <2>1, <2>2
<1>2. CASE ~Single(size)
  <2>. DEFINE i == p \div ChunkSize
              c == Chunk(ChunkSize * i, Lesser(ChunkSize, size - ChunkSize * i))
  <2>1. /\ i \in Nat /\ ChunkSize * i <= p /\ p < ChunkSize * i + ChunkSize
    BY ChunksAssumption, Quotient
  <2>2. i \in 0..((size - 1) \div ChunkSize)
    <3>1. /\ (size - 1) \div ChunkSize \in Nat
          /\ size - 1 < ChunkSize * ((size - 1) \div ChunkSize) + ChunkSize
      BY <1>0, ChunksAssumption, Quotient
    <3>2. ChunkSize * i < ChunkSize * ((size - 1) \div ChunkSize + 1)
      BY <2>1, <3>1, ChunksAssumption
    <3>3. i < (size - 1) \div ChunkSize + 1
      BY <2>1, <3>1, <3>2, ChunksAssumption
    <3>. QED  BY <2>1, <3>1, <3>3
  <2>3. c \in ChunkPlan(size)
    BY <1>0, <1>2, <2>2 DEF ChunkPlan
  <2>4. p \in c.offset..EndOf(c)
    BY <1>0, <1>2, <2>1, <2>2, ChunksAssumption, ChunkAt DEF Chunk, EndOf, Lesser
  <2>. QED  BY <2>3, <2>4
<1>. QED  BY <1>1, <1>2

\* No byte is in two chunks: the object is not longer when it is read back.
THEOREM ChunksDisjoint ==
  ASSUME NEW size \in Nat, NEW c \in ChunkPlan(size), NEW d \in ChunkPlan(size),
         NEW p \in Int, p \in c.offset..EndOf(c), p \in d.offset..EndOf(d)
  PROVE  c = d
<1>0. size # 0
  BY DEF ChunkPlan
<1>1. CASE Single(size)
  BY <1>0, <1>1 DEF ChunkPlan
<1>2. CASE ~Single(size)
  <2>1. PICK i \in 0..((size - 1) \div ChunkSize) :
          c = Chunk(ChunkSize * i, Lesser(ChunkSize, size - ChunkSize * i))
    BY <1>0, <1>2 DEF ChunkPlan
  <2>2. PICK j \in 0..((size - 1) \div ChunkSize) :
          d = Chunk(ChunkSize * j, Lesser(ChunkSize, size - ChunkSize * j))
    BY <1>0, <1>2 DEF ChunkPlan
  <2>3. /\ i \in Nat /\ j \in Nat /\ ChunkSize * i \in Nat /\ ChunkSize * j \in Nat
        /\ ChunkSize * i < size /\ ChunkSize * j < size
    BY <1>0, <1>2, ChunkAt, ChunksAssumption, Quotient
  <2>4. /\ ChunkSize * i <= p /\ p < ChunkSize * i + ChunkSize
        /\ ChunkSize * j <= p /\ p < ChunkSize * j + ChunkSize
    BY <2>1, <2>2, <2>3, ChunksAssumption DEF Chunk, EndOf, Lesser
  <2>5. ChunkSize * i < ChunkSize * (j + 1) /\ ChunkSize * j < ChunkSize * (i + 1)
    BY <2>3, <2>4, ChunksAssumption
  <2>6. i = j
    BY <2>3, <2>5, ChunksAssumption
  <2>. QED  BY <2>1, <2>2, <2>6
<1>. QED  BY <1>1, <1>2

-------------------------------------------------------------------------------
(* The bytes a header asks for, of those there are.                        *)
Wanted(h, size) ==
  {p \in 0..(size - 1) : \/ h.form = "from-to" /\ h.first <= p /\ p <= h.last
                         \/ h.form = "from" /\ h.first <= p
                         \/ h.form = "suffix" /\ p >= size - h.count}

\* The range ParseRange makes of a header it accepts is not empty, lies within
\* the object and is what the header asks for.
THEOREM RangeIsWanted ==
  ASSUME NEW size \in Nat, NEW h, IsHeader(h), RangeAccepted(h, size)
  PROVE  /\ RangeOf(h, size) \in [start : Nat, end : Nat]
         /\ RangeOf(h, size).start <= RangeOf(h, size).end
         /\ RangeOf(h, size).end < size
         /\ RangeOf(h, size).start..RangeOf(h, size).end = Wanted(h, size)
<1>. USE DEF IsHeader, RangeAccepted, RangeOf, ByteRange, Lesser, Wanted
<1>1. CASE h.form = "suffix"
  BY <1>1
<1>2. CASE h.form = "from"
  BY <1>2
<1>3. CASE h.form = "from-to"
  BY <1>3
<1>. QED  BY <1>1, <1>2, <1>3

\* It refuses a header that asks for nothing there is.
THEOREM RefusedIsUnsatisfiable ==
  ASSUME NEW size \in Nat, NEW h, IsHeader(h), ~RangeAccepted(h, size)
  PROVE  Wanted(h, size) = {}
BY DEF IsHeader, RangeAccepted, Wanted

\* What one chunk of which the first n bytes are there delivers: the bytes of
\* the range among them.
LEMMA ChunkDelivers ==
  ASSUME NEW c \in [offset : Nat, size : Nat \ {0}], NEW span \in [start : Nat, end : Int],
         Overlaps(c, span), NEW n \in 0..c.size
  PROVE  Delivered(c, span, n) = (c.offset..(c.offset + n - 1)) \cap (span.start..span.end)
BY DEF Overlaps, Delivered, Skip, Take, Lesser, Greater, EndOf

\* GetObject delivers exactly the bytes of the range that the object has.
THEOREM SelectionIsExact ==
  ASSUME NEW size \in Nat, NEW span \in [start : Nat, end : Int]
  PROVE  UNION {Delivered(c, span, c.size) : c \in Selected(ChunkPlan(size), span)}
           = span.start..Lesser(span.end, size - 1)
<1>. DEFINE S == Selected(ChunkPlan(size), span)
            T == span.start..Lesser(span.end, size - 1)
<1>1. ASSUME NEW c \in ChunkPlan(size)
      PROVE  c \in [offset : Nat, size : Nat \ {0}] /\ EndOf(c) \in 0..(size - 1)
  BY ChunkBounds DEF Chunk, EndOf
<1>2. ASSUME NEW c \in S
      PROVE  Delivered(c, span, c.size) = (c.offset..EndOf(c)) \cap (span.start..span.end)
  BY <1>1, ChunkDelivers DEF Selected, EndOf
<1>3. ASSUME NEW p \in T
      PROVE  \E c \in S : p \in Delivered(c, span, c.size)
  <2>1. p \in 0..(size - 1) /\ p \in span.start..span.end
    BY DEF Lesser
  <2>2. PICK c \in ChunkPlan(size) : p \in c.offset..EndOf(c)
    BY <2>1, ChunksCover
  <2>3. c \in S
    BY <1>1, <2>1, <2>2 DEF Selected, Overlaps, EndOf
  <2>. QED  BY <1>2, <2>1, <2>2, <2>3
<1>4. ASSUME NEW c \in S, NEW p \in Delivered(c, span, c.size)
      PROVE  p \in T
  <2>1. p \in c.offset..EndOf(c) /\ p \in span.start..span.end
    BY <1>2
  <2>2. c \in [offset : Nat, size : Nat \ {0}] /\ EndOf(c) \in 0..(size - 1)
    BY <1>1 DEF Selected
  <2>. QED  BY <2>1, <2>2 DEF Lesser
<1>. QED  BY <1>3, <1>4

-------------------------------------------------------------------------------
(* The chunk a producer is at                                              *)

\* Offsets are numbers, and some of them is the least.
LEMMA LeastNat ==
  ASSUME NEW T \in SUBSET Nat, T # {}
  PROVE  \E x \in T : \A y \in T : x <= y
<1>. DEFINE R == OpToRel(<, Nat)
<1>1. \E x \in T : \A y \in T : <<y, x>> \notin R
  <2>1. IsWellFoundedOn(R, Nat)
    BY NatLessThanWellFounded, Zenon
  <2>. HIDE DEF R
  <2>. QED  BY <2>1, WFMin
<1>2. \A x, y \in Nat : <<y, x>> \notin R => x <= y
  BY DEF OpToRel
<1>. QED  BY <1>1, <1>2

\* A selection is made from the chunks of the object.
LEMMA SelectedChunks == \A S, span : Selected(S, span) \subseteq S
BY DEF Selected

\* While there are chunks to download, At is one of them.
LEMMA AtInTodo ==
  ASSUME NEW r \in Reqs, ver[r] \in Versions,
         todo[r] \subseteq ChunkPlan(SizeOf[ver[r]]), todo[r] # {}
  PROVE  /\ At(r) \in todo[r]
         /\ At(r) \in [offset : Nat, size : Nat \ {0}]
         /\ FileOf(r) \in Files
<1>1. SizeOf[ver[r]] \in Nat
  BY VersionsAssumption
<1>2. \A c \in todo[r] : c \in [offset : Nat, size : Nat \ {0}]
  BY <1>1, ChunkBounds DEF Chunk
<1>3. PICK n \in {c.offset : c \in todo[r]} : \A m \in {c.offset : c \in todo[r]} : n <= m
  <2>1. {c.offset : c \in todo[r]} \in SUBSET Nat /\ {c.offset : c \in todo[r]} # {}
    BY <1>2
  <2>. QED  BY <2>1, LeastNat
<1>4. PICK c \in todo[r] : c.offset = n
  BY <1>3
<1>5. \E d : Next1(d, todo[r])
  BY <1>3, <1>4 DEF Next1
<1>6. At(r) \in todo[r]
  BY <1>5 DEF At, Next1
<1>. QED  BY <1>2, <1>6 DEF FileOf, Files

-------------------------------------------------------------------------------
(* Types                                                                   *)

AllChunks == UNION {ChunkPlan(SizeOf[v]) : v \in Versions}

\* What the two goroutines of a request have, by where they are.
Stage(r) ==
  /\ cons[r] \in {"idle", "snapshot", "slot"} => prod[r] = "none"
  /\ cons[r] \in {"upload", "key", "read"} => prod[r] # "none"
  /\ cons[r] \in {"slot", "upload", "key", "read"} \/ prod[r] # "none" => ver[r] \in Versions
  /\ cons[r] \in {"slot", "upload", "key", "read"} =>
       todo[r] \subseteq Selected(ChunkPlan(SizeOf[ver[r]]), range[r])
  /\ cons[r] # "read" => body[r] = {}
  /\ cons[r] \in {"upload", "key"} => op[r] = "copy"
  /\ op[r] = "copy" => dest[r] \in Dests

Types == /\ TypeOK
         /\ todo \in [Reqs -> SUBSET AllChunks]
         /\ body \in [Reqs -> SUBSET Int]
         /\ \A r \in Reqs : Stage(r)

LEMMA InitTypes == Init => Types
<1>. SUFFICES ASSUME Init PROVE Types
  OBVIOUS
<1>1. 1 \in Versions
  BY VersionsAssumption DEF Versions
<1>2. NoRange \in [start : Nat, end : Int]
  BY DEF NoRange, ByteRange
<1>3. TypeOK
  BY <1>1, <1>2 DEF Init, TypeOK, ConsStages, ProdStages, NoVersion, OnTelegram
<1>. QED  BY <1>3 DEF Init, Types, Stage

\* The asked for span of a whole version.
LEMMA WholeType ==
  ASSUME NEW v \in Versions
  PROVE  Whole(v) \in [start : Nat, end : Int]
BY VersionsAssumption DEF Whole, ByteRange

LEMMA OpenTypes ==
  ASSUME Types, NEW r \in Reqs, cons[r] = "idle",
         NEW o \in {"get", "copy"}, NEW d \in Dests \cup {NoDest}, o = "copy" => d \in Dests,
         Open(r, Whole(row)), Begin(r, o, Whole(row), d)
  PROVE  Types'
<1>. USE DEF Types
<1>1. row \in Versions /\ Whole(row) \in [start : Nat, end : Int]
  BY WholeType DEF TypeOK, Open
<1>2. Selected(ChunkPlan(SizeOf[row]), Whole(row)) \subseteq ChunkPlan(SizeOf[row])
  BY SelectedChunks
<1>3. Selected(ChunkPlan(SizeOf[row]), Whole(row)) \in SUBSET AllChunks
  BY <1>1, <1>2 DEF AllChunks
<1>. USE DEF Open, Begin, ConsTo, external, tokens, locks
<1>4. todo' \in [Reqs -> SUBSET AllChunks] /\ body' \in [Reqs -> SUBSET Int]
  BY <1>3
<1>5. \A q \in Reqs : Stage(q)'
  BY <1>1 DEF Stage, TypeOK
<1>6. TypeOK'
  BY <1>1, <1>2 DEF TypeOK, Stage, ConsStages, OnTelegram, NoVersion
<1>. QED  BY <1>4, <1>5, <1>6

\* Beginning a request.
LEMMA AskTypes ==
  ASSUME Types, NEW r \in Reqs, Ask(r)
  PROVE  Types'
<1>1. CASE Get(r)
  BY <1>1, OpenTypes DEF Get, Begin
<1>2. ASSUME NEW d \in Dests, Copy(r, d)
      PROVE  Types'
  BY <1>2, OpenTypes DEF Copy, Begin
<1>3. ASSUME NEW h \in Headers, GetRange(r, h)
      PROVE  Types'
  <2>1. row \in Versions /\ IsHeader(h)
    BY <1>3, HeadersAssumption DEF GetRange, Types, TypeOK
  <2>2. RangeOf(h, SizeOf[row]) \in [start : Nat, end : Int]
    <3>1. SizeOf[row] \in Nat /\ RangeAccepted(h, SizeOf[row])
      BY <1>3, <2>1, VersionsAssumption DEF GetRange
    <3>2. RangeOf(h, SizeOf[row]) \in [start : Nat, end : Nat]
      BY <2>1, <3>1, RangeIsWanted
    <3>. QED  BY <3>2
  <2>. USE <1>3 DEF GetRange, Begin, ConsTo, external, tokens, locks, Types
  <2>3. \A q \in Reqs : Stage(q)'
    BY DEF Stage, TypeOK
  <2>4. TypeOK'
    BY <2>2 DEF TypeOK, Stage, ConsStages, OnTelegram
  <2>. QED  BY <2>3, <2>4
<1>. QED  BY <1>1, <1>2, <1>3 DEF Ask

\* The end of a handler: it has been asked something, and leaves no trace.
LEMMA CloseTypes ==
  ASSUME Types, NEW r \in Reqs, NEW result \in {"complete", "aborted"},
         cons[r] \in {"snapshot", "slot", "upload", "read"}, Close(r, result),
         keyHolder' \in [Dests -> Reqs \cup {NoReq}]
  PROVE  Types'
<1>. USE DEF Types, Close, ConsTo, external
<1>1. NoRange \in [start : Nat, end : Int]
  BY DEF NoRange, ByteRange
<1>2. body' \in [Reqs -> SUBSET Int] /\ todo' \in [Reqs -> SUBSET AllChunks]
  OBVIOUS
<1>3. \A q \in Reqs : Stage(q)'
  BY DEF Stage, TypeOK
<1>4. TypeOK'
  BY <1>1 DEF TypeOK, ConsStages, OnTelegram
<1>. QED  BY <1>2, <1>3, <1>4

LEMMA ReturnTypes ==
  ASSUME Types, NEW r \in Reqs, NEW result \in {"complete", "aborted"}, Return(r, result)
  PROVE  Types'
<1>1. keyHolder' \in [Dests -> Reqs \cup {NoReq}]
  BY DEF Return, Types, TypeOK
<1>. QED  BY <1>1, CloseTypes DEF Return

\* The steps of the consumer.
LEMMA RunTypes ==
  ASSUME Types, NEW r \in Reqs, Run(r)
  PROVE  Types'
<1>. USE DEF Types, ConsTo, ProdTo, external, request, stream, tokens, locks
<1>1. CASE Snapshot(r)
  <2>. USE <1>1 DEF Snapshot, Open
  <2>1. row \in Versions
    BY DEF TypeOK
  <2>2. Selected(ChunkPlan(SizeOf[row]), range[r]) \subseteq ChunkPlan(SizeOf[row])
    BY SelectedChunks
  <2>3. todo' \in [Reqs -> SUBSET AllChunks] /\ body' \in [Reqs -> SUBSET Int]
    BY <2>1, <2>2 DEF AllChunks
  <2>4. \A q \in Reqs : Stage(q)'
    BY <2>1 DEF Stage, TypeOK
  <2>5. TypeOK'
    BY <2>1, <2>2 DEF TypeOK, Stage, ConsStages, OnTelegram, NoVersion
  <2>. QED  BY <2>3, <2>4, <2>5
<1>2. CASE GiveUp(r)
  BY <1>2, CloseTypes DEF GiveUp, TypeOK
<1>3. CASE TakeDownload(r)
  <2>. USE <1>3 DEF TakeDownload
  <2>1. \A q \in Reqs : Stage(q)'
    BY DEF Stage, TypeOK
  <2>2. TypeOK'
    BY DEF TypeOK, Stage, ConsStages, ProdStages, OnTelegram
  <2>. QED  BY <2>1, <2>2
<1>4. CASE TakeUpload(r)
  <2>. USE <1>4 DEF TakeUpload
  <2>1. \A q \in Reqs : Stage(q)'
    BY DEF Stage, TypeOK
  <2>2. TypeOK'
    BY DEF TypeOK, ConsStages, OnTelegram
  <2>. QED  BY <2>1, <2>2
<1>5. CASE LockKey(r)
  <2>. USE <1>5 DEF LockKey
  <2>1. \A q \in Reqs : Stage(q)'
    BY DEF Stage, TypeOK
  <2>2. TypeOK'
    BY DEF TypeOK, ConsStages, OnTelegram
  <2>. QED  BY <2>1, <2>2
<1>6. CASE ReadAll(r)
  BY <1>6, ReturnTypes DEF ReadAll
<1>7. CASE Leave(r)
  <2>. USE <1>7 DEF Leave
  <2>1. todo' \in [Reqs -> SUBSET AllChunks]
    OBVIOUS
  <2>2. \A q \in Reqs : Stage(q)'
    BY DEF Stage, TypeOK
  <2>3. TypeOK'
    BY DEF TypeOK, ConsStages, ProdStages, OnTelegram
  <2>. QED  BY <2>1, <2>2, <2>3
<1>. QED  BY <1>1, <1>2, <1>3, <1>4, <1>5, <1>6, <1>7 DEF Run

\* A producer that changes its place only, or lets go of what it has.
LEMMA ProducerTypes ==
  ASSUME Types, NEW r \in Reqs, prod[r] # "none",
         NEW stage \in ProdStages \ {"none"}, ProdTo(r, stage),
         stage \in {"lock", "fetch", "pipe"} => prod[r] \in {"lock", "fetch", "pipe"} \/ todo[r] # {},
         UNCHANGED <<external, cons, request, stream, over, outcome, keyHolder>>,
         fileHolder' \in [Files -> Reqs \cup {NoReq}]
  PROVE  Types'
<1>. USE DEF Types, ProdTo, external, request, stream
<1>1. \A q \in Reqs : Stage(q)'
  BY DEF Stage, TypeOK
<1>2. TypeOK'
  BY DEF TypeOK, Stage, ConsStages, ProdStages, OnTelegram, NoVersion, Versions
<1>. QED  BY <1>1, <1>2

\* A chunk in the pipe delivers nothing that was not asked for.
LEMMA PassTypes ==
  ASSUME Types, NEW r \in Reqs, Streaming(r), NEW n \in 0..At(r).size, Pass(r, n)
  PROVE  /\ body' \in [Reqs -> SUBSET Int]
         /\ body'[r] \subseteq range[r].start..range[r].end
         /\ \A q \in Reqs \ {r} : body'[q] = body[q]
         /\ fileHolder' \in [Files -> Reqs \cup {NoReq}]
         /\ ver[r] \in Versions
<1>. USE DEF Types
<1>1. /\ ver[r] \in Versions /\ todo[r] # {}
      /\ todo[r] \subseteq Selected(ChunkPlan(SizeOf[ver[r]]), range[r])
      /\ range[r] \in [start : Nat, end : Int]
      /\ body[r] \subseteq range[r].start..range[r].end
  BY DEF TypeOK, Stage, Streaming, OnTelegram
<1>2. /\ At(r) \in todo[r] /\ At(r) \in [offset : Nat, size : Nat \ {0}]
  BY <1>1, AtInTodo, SelectedChunks
<1>3. Overlaps(At(r), range[r])
  BY <1>1, <1>2 DEF Selected
<1>4. Delivered(At(r), range[r], n) \subseteq range[r].start..range[r].end
  BY <1>1, <1>2, <1>3, ChunkDelivers
<1>5. Delivered(At(r), range[r], n) \subseteq Int
  BY <1>1, <1>4
<1>6. body' \in [Reqs -> SUBSET Int] /\ body'[r] = body[r] \cup Delivered(At(r), range[r], n)
  BY <1>5 DEF Pass
<1>. QED  BY <1>1, <1>4, <1>6 DEF Pass, CloseChunk, TypeOK

\* The steps of the producer.
LEMMA WorkTypes ==
  ASSUME Types, NEW r \in Reqs, Work(r) \/ Breaks(r)
  PROVE  Types'
<1>1. CASE EndOfObject(r)
  BY <1>1, ProducerTypes DEF EndOfObject, StopProducing, ProdStages, locks, Types, TypeOK
<1>2. CASE TakeTelegram(r)
  BY <1>2, ProducerTypes DEF TakeTelegram, ProdStages, locks, Types, TypeOK
<1>3. CASE StopWaiting(r)
  BY <1>3, ProducerTypes DEF StopWaiting, StopProducing, ProdStages, locks, Types, TypeOK
<1>4. CASE LockFile(r)
  BY <1>4, ProducerTypes DEF LockFile, ProdStages, Types, TypeOK
<1>5. CASE Fetch(r)
  BY <1>5, ProducerTypes DEF Fetch, ProdStages, locks, Types, TypeOK
<1>6. CASE FetchFails(r)
  BY <1>6, ProducerTypes DEF FetchFails, CloseChunk, StopProducing, ProdStages, Types, TypeOK
<1>7. CASE Deliver(r)
  <2>. USE DEF Types
  <2>1. PICK n \in Readable(r) : Pass(r, n)
    BY <1>7 DEF Deliver
  <2>2. n \in 0..At(r).size
    <3>1. ver[r] \in Versions /\ todo[r] # {} /\ todo[r] \subseteq ChunkPlan(SizeOf[ver[r]])
      BY <1>7, SelectedChunks DEF Deliver, Streaming, TypeOK, Stage, OnTelegram
    <3>2. At(r).size \in Nat
      BY <3>1, AtInTodo
    <3>. QED  BY <2>1, <3>2 DEF Readable
  <2>3. /\ body' \in [Reqs -> SUBSET Int]
        /\ body'[r] \subseteq range[r].start..range[r].end
        /\ \A q \in Reqs \ {r} : body'[q] = body[q]
        /\ fileHolder' \in [Files -> Reqs \cup {NoReq}]
        /\ ver[r] \in Versions
    BY <1>7, <2>1, <2>2, PassTypes DEF Deliver
  <2>. USE <1>7 DEF Deliver, Streaming, ProdTo, external, request
  <2>4. todo' \in [Reqs -> SUBSET AllChunks]
    OBVIOUS
  <2>5. \A q \in Reqs : Stage(q)'
    BY <2>3 DEF Stage, TypeOK
  <2>6. TypeOK'
    BY <2>3 DEF TypeOK, Stage, ProdStages, OnTelegram
  <2>. QED  BY <2>3, <2>4, <2>5, <2>6
<1>8. CASE WriteFails(r)
  BY <1>8, ProducerTypes DEF WriteFails, CloseChunk, StopProducing, ProdStages, Types, TypeOK
<1>9. CASE Breaks(r)
  <2>. USE DEF Types
  <2>1. PICK n \in 0..At(r).size : Pass(r, n)
    BY <1>9 DEF Breaks
  <2>2. /\ body' \in [Reqs -> SUBSET Int]
        /\ body'[r] \subseteq range[r].start..range[r].end
        /\ \A q \in Reqs \ {r} : body'[q] = body[q]
        /\ fileHolder' \in [Files -> Reqs \cup {NoReq}]
        /\ ver[r] \in Versions
    BY <1>9, <2>1, PassTypes DEF Breaks
  <2>. USE <1>9 DEF Breaks, Streaming, StopProducing, ProdTo, external, request
  <2>3. \A q \in Reqs : Stage(q)'
    BY <2>2 DEF Stage, TypeOK
  <2>4. TypeOK'
    BY <2>2 DEF TypeOK, Stage, ProdStages, OnTelegram
  <2>. QED  BY <2>2, <2>3, <2>4
<1>. QED  BY <1>1, <1>2, <1>3, <1>4, <1>5, <1>6, <1>7, <1>8, <1>9 DEF Work

LEMMA NextTypes == Types /\ [Next]_vars => Types'
<1>. SUFFICES ASSUME Types, [Next]_vars PROVE Types'
  OBVIOUS
<1>1. CASE Overwrite
  <2>1. last' \in Versions /\ row' \in Versions
    BY <1>1, VersionsAssumption DEF Overwrite, Types, TypeOK, Versions
  <2>. QED  BY <1>1, <2>1 DEF Overwrite, Types, TypeOK, Stage, request, stream, tokens, locks, OnTelegram
<1>2. CASE Delete
  BY <1>2 DEF Delete, Types, TypeOK, Stage, request, stream, tokens, locks, OnTelegram
<1>3. ASSUME NEW r \in Reqs, Disconnect(r)
      PROVE  Types'
  BY <1>3 DEF Disconnect, Types, TypeOK, Stage, external, request, stream, tokens, locks, OnTelegram
<1>4. ASSUME NEW r \in Reqs, StopWriting(r) \/ UploadFails(r)
      PROVE  Types'
  BY <1>4, ReturnTypes DEF StopWriting, UploadFails
<1>5. CASE UNCHANGED vars
  BY <1>5 DEF vars, Types, TypeOK, Stage, external, request, stream, tokens, locks, OnTelegram
<1>. QED  BY <1>1, <1>2, <1>3, <1>4, <1>5, AskTypes, RunTypes, WorkTypes DEF Next, Fail

\* Every step keeps the types, and what has been delivered is of the range.
THEOREM DownloadTypes == Spec => []TypeOK
<1>1. Types => TypeOK
  BY DEF Types
<1>. QED  BY <1>1, InitTypes, NextTypes, PTL DEF Spec

-------------------------------------------------------------------------------
(* Slots and locks                                                         *)

\* The four parts of SlotsAccounted, and that whoever has opened a file or
\* owns a key has its lock: the invariant that keeps them.
UploadsHeld ==
  /\ uploads = Cardinality(Uploading) /\ uploads <= MaxUploads
  /\ \A d \in Dests : keyHolder[d] # NoReq => KeyOwner(keyHolder[d]) /\ dest[keyHolder[d]] = d
  /\ \A r \in Reqs : KeyOwner(r) => keyHolder[dest[r]] = r
DownloadsHeld == downloads = Cardinality(Downloading) /\ downloads <= MaxDownloads
TelegramHeld  == telegram = Cardinality(OnTelegram) /\ telegram <= MaxTelegram
FilesHeld ==
  /\ \A f \in Files : fileHolder[f] # NoReq => Opening(fileHolder[f]) /\ FileOf(fileHolder[f]) = f
  /\ \A r \in Reqs : Opening(r) => fileHolder[FileOf(r)] = r

\* One request more or less in a set of requests.
LEMMA OneMore ==
  ASSUME NEW S \in SUBSET Reqs, NEW r \in Reqs, r \notin S
  PROVE  Cardinality(S) \in Nat /\ Cardinality(S \cup {r}) = Cardinality(S) + 1
BY ReqsFinite, FS_Subset, FS_AddElement, FS_CardinalityType

LEMMA OneLess ==
  ASSUME NEW S \in SUBSET Reqs, NEW r \in S
  PROVE  Cardinality(S) \in Nat /\ Cardinality(S \ {r}) = Cardinality(S) - 1
BY ReqsFinite, FS_Subset, FS_RemoveElement, FS_CardinalityType

LEMMA InitHeld == Init => UploadsHeld /\ DownloadsHeld /\ TelegramHeld /\ FilesHeld
<1>. SUFFICES ASSUME Init PROVE UploadsHeld /\ DownloadsHeld /\ TelegramHeld /\ FilesHeld
  OBVIOUS
<1>1. Uploading = {} /\ Downloading = {} /\ OnTelegram = {}
  BY DEF Init, Uploading, Downloading, OnTelegram, Ended
<1>2. Cardinality({}) = 0
  BY FS_EmptySet
<1>. QED  BY <1>1, <1>2, SemaphoresAssumption
       DEF Init, UploadsHeld, DownloadsHeld, TelegramHeld, FilesHeld, KeyOwner, Opening

\* A step that does not touch the writers of copies.
LEMMA UploadsFrame ==
  ASSUME Types, UploadsHeld, UNCHANGED <<uploads, keyHolder>>,
         \A q \in Reqs : /\ (q \in Uploading)' <=> q \in Uploading
                         /\ KeyOwner(q)' <=> KeyOwner(q)
                         /\ KeyOwner(q) => dest'[q] = dest[q]
  PROVE  UploadsHeld'
<1>1. Uploading' = Uploading
  BY DEF Uploading
<1>2. \A d \in Dests : keyHolder[d] \in Reqs \cup {NoReq}
  BY DEF Types, TypeOK
<1>. QED  BY <1>1, <1>2 DEF UploadsHeld

LEMMA NextUploads ==
  ASSUME Types, UploadsHeld, [Next]_vars
  PROVE  UploadsHeld'
<1>. USE DEF Types
<1>1. ASSUME NEW r \in Reqs, TakeUpload(r)
      PROVE  UploadsHeld'
  <2>. USE <1>1 DEF TakeUpload, ConsTo, request, locks
  <2>1. r \notin Uploading /\ op[r] = "copy" /\ Uploading \in SUBSET Reqs
    BY DEF Uploading, Stage
  <2>2. Uploading' = Uploading \cup {r}
    BY <2>1 DEF Uploading, TypeOK
  <2>3. \A q \in Reqs : KeyOwner(q)' <=> KeyOwner(q)
    BY DEF KeyOwner, TypeOK
  <2>4. uploads' = Cardinality(Uploading') /\ uploads' <= MaxUploads
    BY <2>1, <2>2, OneMore, SemaphoresAssumption DEF UploadsHeld
  <2>. QED  BY <2>3, <2>4 DEF UploadsHeld, TypeOK
<1>2. ASSUME NEW r \in Reqs, LockKey(r)
      PROVE  UploadsHeld'
  <2>. USE <1>2 DEF LockKey, ConsTo, request, tokens
  <2>1. op[r] = "copy" /\ dest[r] \in Dests
    BY DEF Stage
  <2>2. Uploading' = Uploading
    BY <2>1 DEF Uploading, TypeOK
  <2>3. \A q \in Reqs : KeyOwner(q)' <=> KeyOwner(q) \/ q = r
    BY <2>1 DEF KeyOwner, TypeOK
  <2>4. \A q \in Reqs : KeyOwner(q) => dest[q] \in Dests /\ dest[q] # dest[r]
    BY RequestsAssumption DEF UploadsHeld, KeyOwner, Stage
  <2>. QED  BY <2>1, <2>2, <2>3, <2>4 DEF UploadsHeld, TypeOK
<1>3. ASSUME NEW r \in Reqs, NEW result, Return(r, result)
      PROVE  UploadsHeld'
  <2>. USE <1>3 DEF Return, Close, ConsTo
  <2>1. CASE op[r] = "copy"
    <3>1. r \in Uploading /\ Uploading \in SUBSET Reqs
      BY <2>1 DEF Uploading
    <3>2. Uploading' = Uploading \ {r}
      BY <2>1 DEF Uploading, TypeOK
    <3>3. \A q \in Reqs : KeyOwner(q)' <=> KeyOwner(q) /\ q # r
      BY <2>1 DEF KeyOwner, TypeOK
    <3>4. \A q \in Reqs : KeyOwner(q) /\ q # r => dest'[q] = dest[q] /\ dest[q] # dest[r] /\ dest[q] \in Dests
      BY <2>1 DEF UploadsHeld, KeyOwner, Stage, TypeOK
    <3>5. uploads' = Cardinality(Uploading') /\ uploads' <= MaxUploads
      BY <2>1, <3>1, <3>2, OneLess, SemaphoresAssumption DEF UploadsHeld
    <3>6. KeyOwner(r) /\ dest[r] \in Dests
      BY <2>1 DEF KeyOwner, Stage
    <3>. QED  BY <2>1, <3>3, <3>4, <3>5, <3>6, RequestsAssumption DEF UploadsHeld, TypeOK
  <2>2. CASE op[r] # "copy"
    BY <2>2, UploadsFrame DEF Uploading, KeyOwner, TypeOK
  <2>. QED  BY <2>1, <2>2
<1>4. ASSUME NEW r \in Reqs, Ask(r)
      PROVE  UploadsHeld'
  <2>1. /\ UNCHANGED <<uploads, keyHolder>> /\ cons[r] = "idle" /\ cons'[r] \in {"snapshot", "slot"}
        /\ \A q \in Reqs \ {r} : cons'[q] = cons[q] /\ op'[q] = op[q] /\ dest'[q] = dest[q]
    BY <1>4 DEF Ask, Get, GetRange, Copy, Open, Begin, ConsTo, tokens, locks, TypeOK
  <2>. QED  BY <2>1, UploadsFrame DEF Uploading, KeyOwner
<1>5. ASSUME NEW r \in Reqs, Snapshot(r) \/ TakeDownload(r) \/ Leave(r)
      PROVE  UploadsHeld'
  <2>1. /\ UNCHANGED <<uploads, keyHolder, op, dest>>
        /\ cons[r] \in {"snapshot", "slot", "closed"}
        /\ cons'[r] \in {"slot", "upload", "idle"} \/ op[r] = "get"
        /\ \A q \in Reqs \ {r} : cons'[q] = cons[q]
    BY <1>5 DEF Snapshot, TakeDownload, Leave, Open, ConsTo, request, tokens, locks, TypeOK
  <2>. QED  BY <2>1, UploadsFrame DEF Uploading, KeyOwner
<1>6. ASSUME NEW r \in Reqs, GiveUp(r)
      PROVE  UploadsHeld'
  <2>1. /\ UNCHANGED <<uploads, keyHolder>>
        /\ cons[r] \in {"snapshot", "slot", "upload"} /\ cons'[r] = "closed"
        /\ \A q \in Reqs \ {r} : cons'[q] = cons[q] /\ op'[q] = op[q] /\ dest'[q] = dest[q]
    BY <1>6 DEF GiveUp, Close, ConsTo, TypeOK
  <2>. QED  BY <2>1, UploadsFrame DEF Uploading, KeyOwner
<1>7. ASSUME UNCHANGED <<cons, op, dest, uploads, keyHolder>>
      PROVE  UploadsHeld'
  BY <1>7, UploadsFrame DEF Uploading, KeyOwner
<1>8. ASSUME NEW r \in Reqs, Work(r) \/ Breaks(r) \/ Disconnect(r)
      PROVE  UNCHANGED <<cons, op, dest, uploads, keyHolder>>
  BY <1>8 DEF Work, EndOfObject, TakeTelegram, StopWaiting, LockFile, Fetch, FetchFails, Deliver, WriteFails,
              Breaks, Disconnect, request, tokens, locks
<1>9. Overwrite \/ Delete \/ UNCHANGED vars => UNCHANGED <<cons, op, dest, uploads, keyHolder>>
  BY DEF Overwrite, Delete, vars, request, tokens, locks
<1>. QED  BY <1>1, <1>2, <1>3, <1>4, <1>5, <1>6, <1>7, <1>8, <1>9
       DEF Next, Run, Fail, ReadAll, StopWriting, UploadFails

\* What each step does to the producers.
LEMMA Producers ==
  ASSUME Types, [Next]_vars
  PROVE  \/ UNCHANGED <<prod, downloads, telegram, fileHolder>>
         \/ \E r \in Reqs : TakeDownload(r) \/ Leave(r) \/ Work(r) \/ Breaks(r)
<1>1. ASSUME NEW r \in Reqs, Ask(r) \/ Snapshot(r) \/ TakeUpload(r) \/ LockKey(r) \/ Disconnect(r)
      PROVE  UNCHANGED <<prod, downloads, telegram, fileHolder>>
  BY <1>1 DEF Ask, Get, GetRange, Copy, Begin, Snapshot, TakeUpload, LockKey, Disconnect, tokens, locks
<1>2. ASSUME NEW r \in Reqs, GiveUp(r) \/ ReadAll(r) \/ Fail(r)
      PROVE  UNCHANGED <<prod, downloads, telegram, fileHolder>> \/ Breaks(r)
  BY <1>2 DEF GiveUp, ReadAll, Fail, StopWriting, UploadFails, Return, Close
<1>3. Overwrite \/ Delete \/ UNCHANGED vars => UNCHANGED <<prod, downloads, telegram, fileHolder>>
  BY DEF Overwrite, Delete, vars, tokens, locks
<1>. QED  BY <1>1, <1>2, <1>3 DEF Next, Run

LEMMA NextDownloads ==
  ASSUME Types, DownloadsHeld, [Next]_vars
  PROVE  DownloadsHeld'
<1>. USE DEF Types
<1>0. Downloading \in SUBSET Reqs
  BY DEF Downloading
<1>1. ASSUME NEW r \in Reqs, TakeDownload(r)
      PROVE  DownloadsHeld'
  <2>. USE <1>1 DEF TakeDownload, ProdTo
  <2>1. r \notin Downloading
    BY DEF Downloading, Stage, Ended
  <2>2. Downloading' = Downloading \cup {r}
    BY DEF Downloading, Ended, TypeOK
  <2>. QED  BY <1>0, <2>1, <2>2, OneMore, SemaphoresAssumption DEF DownloadsHeld
<1>2. ASSUME NEW r \in Reqs, NEW stage \in {"eof", "failed"}, prod[r] \notin Ended, StopProducing(r, stage)
      PROVE  DownloadsHeld'
  <2>. USE <1>2 DEF StopProducing, ProdTo
  <2>1. r \in Downloading
    BY DEF Downloading
  <2>2. Downloading' = Downloading \ {r}
    BY DEF Downloading, Ended, TypeOK
  <2>. QED  BY <1>0, <2>1, <2>2, OneLess, SemaphoresAssumption DEF DownloadsHeld
<1>3. ASSUME UNCHANGED downloads, \A q \in Reqs : prod'[q] \in Ended <=> prod[q] \in Ended
      PROVE  DownloadsHeld'
  <2>1. Downloading' = Downloading
    BY <1>3 DEF Downloading
  <2>. QED  BY <1>3, <2>1 DEF DownloadsHeld
<1>4. ASSUME NEW r \in Reqs, EndOfObject(r) \/ StopWaiting(r) \/ FetchFails(r) \/ WriteFails(r) \/ Breaks(r)
      PROVE  DownloadsHeld'
  <2>1. prod[r] \notin Ended /\ \E stage \in {"eof", "failed"} : StopProducing(r, stage)
    BY <1>4 DEF EndOfObject, StopWaiting, FetchFails, WriteFails, Breaks, Streaming, Ended
  <2>. QED  BY <1>2, <2>1
<1>5. ASSUME NEW r \in Reqs, TakeTelegram(r) \/ LockFile(r) \/ Fetch(r) \/ Deliver(r) \/ Leave(r)
      PROVE  DownloadsHeld'
  <2>1. UNCHANGED downloads /\ \A q \in Reqs : prod'[q] \in Ended <=> prod[q] \in Ended
    BY <1>5 DEF TakeTelegram, LockFile, Fetch, Deliver, Leave, Streaming, ProdTo, tokens, Ended, TypeOK
  <2>. QED  BY <1>3, <2>1
<1>. QED  BY <1>1, <1>3, <1>4, <1>5, Producers DEF Work

LEMMA NextTelegram ==
  ASSUME Types, TelegramHeld, [Next]_vars
  PROVE  TelegramHeld'
<1>. USE DEF Types
<1>0. OnTelegram \in SUBSET Reqs
  BY DEF OnTelegram
<1>1. ASSUME NEW r \in Reqs, TakeTelegram(r)
      PROVE  TelegramHeld'
  <2>. USE <1>1 DEF TakeTelegram, ProdTo
  <2>1. r \notin OnTelegram
    BY DEF OnTelegram
  <2>2. OnTelegram' = OnTelegram \cup {r}
    BY DEF OnTelegram, TypeOK
  <2>. QED  BY <1>0, <2>1, <2>2, OneMore, SemaphoresAssumption DEF TelegramHeld
<1>2. ASSUME NEW r \in Reqs, r \in OnTelegram, CloseChunk(r),
             NEW stage \in {"next", "eof", "failed"}, ProdTo(r, stage)
      PROVE  TelegramHeld'
  <2>1. OnTelegram' = OnTelegram \ {r}
    BY <1>2 DEF OnTelegram, ProdTo, TypeOK
  <2>. QED  BY <1>0, <1>2, <2>1, OneLess, SemaphoresAssumption DEF TelegramHeld, CloseChunk
<1>3. ASSUME UNCHANGED telegram, OnTelegram' = OnTelegram
      PROVE  TelegramHeld'
  BY <1>3 DEF TelegramHeld
<1>4. ASSUME NEW r \in Reqs, FetchFails(r) \/ WriteFails(r) \/ Breaks(r) \/ Deliver(r)
      PROVE  TelegramHeld'
  <2>1. /\ r \in OnTelegram /\ CloseChunk(r)
        /\ \E stage \in {"next", "eof", "failed"} : ProdTo(r, stage)
    BY <1>4 DEF FetchFails, WriteFails, Breaks, Deliver, Streaming, Pass, StopProducing, OnTelegram
  <2>. QED  BY <1>2, <2>1
<1>5. ASSUME NEW r \in Reqs,
             TakeDownload(r) \/ Leave(r) \/ EndOfObject(r) \/ StopWaiting(r) \/ LockFile(r) \/ Fetch(r)
      PROVE  TelegramHeld'
  <2>1. UNCHANGED telegram /\ \A q \in Reqs : (q \in OnTelegram)' <=> q \in OnTelegram
    BY <1>5 DEF TakeDownload, Leave, EndOfObject, StopWaiting, LockFile, Fetch, StopProducing, ProdTo, tokens,
                OnTelegram, Ended, Stage, TypeOK
  <2>. QED  BY <1>3, <2>1 DEF OnTelegram
<1>6. ASSUME UNCHANGED <<prod, telegram>>
      PROVE  TelegramHeld'
  BY <1>3, <1>6 DEF OnTelegram
<1>. QED  BY <1>1, <1>4, <1>5, <1>6, Producers DEF Work

\* The file of a request depends on what it still has to download only.
LEMMA SameFile ==
  ASSUME NEW q \in Reqs, todo'[q] = todo[q], ver'[q] = ver[q]
  PROVE  FileOf(q)' = FileOf(q)
BY DEF FileOf, File, At, Next1

\* Two requests that have a file open have the locks of two files.
LEMMA OpenedFile ==
  ASSUME Types, NEW r \in Reqs, r \in OnTelegram
  PROVE  FileOf(r) \in Files
BY SelectedChunks, AtInTodo DEF Types, TypeOK, Stage, OnTelegram

\* Only the producer itself changes what it has open.
LEMMA FilesFrame ==
  ASSUME Types, FilesHeld, UNCHANGED fileHolder,
         \A q \in Reqs : Opening(q)' <=> Opening(q),
         \A q \in Reqs : Opening(q) => todo'[q] = todo[q] /\ ver'[q] = ver[q]
  PROVE  FilesHeld'
<1>1. \A q \in Reqs : Opening(q) => FileOf(q)' = FileOf(q)
  BY SameFile
<1>2. \A f \in Files : fileHolder[f] # NoReq => fileHolder[f] \in Reqs
  BY DEF Types, TypeOK
<1>. QED  BY <1>1, <1>2 DEF FilesHeld

LEMMA NextFiles ==
  ASSUME Types, FilesHeld, [Next]_vars
  PROVE  FilesHeld'
<1>. USE DEF Types
<1>0. \A f \in Files : fileHolder[f] \in Reqs \cup {NoReq}
  BY DEF TypeOK
<1>1. ASSUME NEW r \in Reqs, LockFile(r)
      PROVE  FilesHeld'
  <2>. USE <1>1 DEF LockFile, ProdTo, request, stream
  <2>1. \A q \in Reqs : FileOf(q)' = FileOf(q)
    BY SameFile
  <2>2. FileOf(r) \in Files
    BY OpenedFile DEF OnTelegram
  <2>3. fileHolder'[FileOf(r)] = r /\ \A f \in Files \ {FileOf(r)} : fileHolder'[f] = fileHolder[f]
    BY <2>2 DEF TypeOK
  <2>4. Opening(r)' /\ \A q \in Reqs \ {r} : Opening(q)' <=> Opening(q)
    BY DEF Opening, TypeOK
  <2>5. \A q \in Reqs \ {r} : Opening(q) => FileOf(q) \in Files /\ FileOf(q) # FileOf(r)
    BY OpenedFile, RequestsAssumption DEF FilesHeld, Opening, OnTelegram
  <2>6. ~Opening(r)
    BY DEF Opening
  <2>. QED  BY <1>0, <2>1, <2>2, <2>3, <2>4, <2>5, <2>6 DEF FilesHeld
<1>2. ASSUME NEW r \in Reqs, Opening(r), CloseChunk(r), ~Opening(r)',
             \A q \in Reqs \ {r} : /\ prod'[q] = prod[q]
                                   /\ todo'[q] = todo[q] /\ ver'[q] = ver[q]
      PROVE  FilesHeld'
  <2>1. \A q \in Reqs \ {r} : FileOf(q)' = FileOf(q) /\ (Opening(q)' <=> Opening(q))
    BY <1>2, SameFile DEF Opening
  <2>2. FileOf(r) \in Files
    BY <1>2, OpenedFile DEF Opening, OnTelegram
  <2>3. fileHolder'[FileOf(r)] = NoReq /\ \A f \in Files \ {FileOf(r)} : fileHolder'[f] = fileHolder[f]
    BY <1>2, <2>2 DEF CloseChunk, TypeOK
  <2>4. fileHolder[FileOf(r)] = r
    BY <1>2 DEF FilesHeld
  <2>5. \A q \in Reqs \ {r} : Opening(q) => FileOf(q) \in Files /\ FileOf(q) # FileOf(r)
    BY <2>4, OpenedFile DEF FilesHeld, Opening, OnTelegram
  <2>6. \A f \in Files \ {FileOf(r)} : fileHolder[f] # r
    BY RequestsAssumption DEF FilesHeld
  <2>. QED  BY <1>0, <1>2, <2>1, <2>3, <2>5, <2>6 DEF FilesHeld
<1>3. ASSUME NEW r \in Reqs, FetchFails(r) \/ WriteFails(r) \/ Breaks(r) \/ Deliver(r)
      PROVE  FilesHeld'
  <2>1. /\ Opening(r) /\ CloseChunk(r) /\ ~Opening(r)'
        /\ \A q \in Reqs \ {r} : prod'[q] = prod[q] /\ todo'[q] = todo[q] /\ ver'[q] = ver[q]
    BY <1>3 DEF FetchFails, WriteFails, Breaks, Deliver, Streaming, Pass, StopProducing, ProdTo, Opening,
                request, stream, TypeOK
  <2>. QED  BY <1>2, <2>1
<1>4. ASSUME NEW r \in Reqs,
             TakeDownload(r) \/ EndOfObject(r) \/ TakeTelegram(r) \/ StopWaiting(r) \/ Fetch(r) \/ Leave(r)
      PROVE  FilesHeld'
  <2>1. /\ UNCHANGED fileHolder
        /\ \A q \in Reqs : Opening(q)' <=> Opening(q)
        /\ \A q \in Reqs : Opening(q) => todo'[q] = todo[q] /\ ver'[q] = ver[q]
    BY <1>4 DEF TakeDownload, EndOfObject, TakeTelegram, StopWaiting, Fetch, Leave, StopProducing, ProdTo, Opening,
                Ended, request, stream, locks, Stage, TypeOK
  <2>. QED  BY <2>1, FilesFrame
<1>5. ASSUME UNCHANGED <<prod, fileHolder>>,
             \A q \in Reqs : Opening(q) => todo'[q] = todo[q] /\ ver'[q] = ver[q]
      PROVE  FilesHeld'
  BY <1>5, FilesFrame DEF Opening
<1>6. ASSUME NEW r \in Reqs, Ask(r) \/ Snapshot(r)
      PROVE  FilesHeld'
  <2>1. UNCHANGED <<prod, fileHolder>> /\ ~Opening(r)
    BY <1>6 DEF Ask, Get, GetRange, Copy, Begin, Snapshot, locks, Opening, Stage
  <2>2. \A q \in Reqs \ {r} : todo'[q] = todo[q] /\ ver'[q] = ver[q]
    BY <1>6 DEF Ask, Get, GetRange, Copy, Open, Begin, Snapshot, TypeOK
  <2>. QED  BY <1>5, <2>1, <2>2
<1>7. ASSUME UNCHANGED <<prod, fileHolder, todo, ver>>
      PROVE  FilesHeld'
  BY <1>5, <1>7
<1>8. ASSUME NEW r \in Reqs, GiveUp(r) \/ ReadAll(r) \/ StopWriting(r) \/ UploadFails(r)
                             \/ TakeUpload(r) \/ LockKey(r) \/ Disconnect(r)
      PROVE  UNCHANGED <<prod, fileHolder, todo, ver>>
  BY <1>8 DEF GiveUp, ReadAll, StopWriting, UploadFails, Return, Close, TakeUpload, LockKey, Disconnect,
              request, stream, locks
<1>9. Overwrite \/ Delete \/ UNCHANGED vars => UNCHANGED <<prod, fileHolder, todo, ver>>
  BY DEF Overwrite, Delete, vars, request, stream, locks
<1>. QED  BY <1>1, <1>3, <1>4, <1>6, <1>7, <1>8, <1>9 DEF Next, Run, Work, Fail

Held == Types /\ UploadsHeld /\ DownloadsHeld /\ TelegramHeld /\ FilesHeld

\* No path of a download or a copy leaks a slot, a file or a key.
THEOREM DownloadSlots == Spec => []SlotsAccounted
<1>1. Held => SlotsAccounted
  BY DEF Held, SlotsAccounted, UploadsHeld, DownloadsHeld, TelegramHeld, FilesHeld
<1>2. Held /\ [Next]_vars => Held'
  BY NextTypes, NextUploads, NextDownloads, NextTelegram, NextFiles DEF Held
<1>. QED  BY <1>1, <1>2, InitTypes, InitHeld, PTL DEF Spec, Held

\* A Telegram file is fetched and read by one request at a time.
THEOREM DownloadsExclusive == Spec => []OneReaderPerFile
<1>1. Held => OneReaderPerFile
  BY DEF Held, OneReaderPerFile, FilesHeld
<1>2. Held /\ [Next]_vars => Held'
  BY NextTypes, NextUploads, NextDownloads, NextTelegram, NextFiles DEF Held
<1>. QED  BY <1>1, <1>2, InitTypes, InitHeld, PTL DEF Spec, Held

-------------------------------------------------------------------------------
(* What is delivered                                                       *)

Sized(v) == \A c \in ChunkPlan(SizeOf[v]) : File(v, c) \notin Unsized

\* Until something fails, each selected chunk is still to be downloaded or
\* all of it has been delivered.
Kept(r) ==
  /\ cons[r] = "slot" => todo[r] = Selected(ChunkPlan(SizeOf[ver[r]]), range[r])
  /\ cons[r] # "closed" /\ prod[r] \notin {"none", "failed"} /\ Sized(ver[r]) =>
       \A c \in Selected(ChunkPlan(SizeOf[ver[r]]), range[r]) :
         c \in todo[r] \/ Delivered(c, range[r], c.size) \subseteq body[r]
  /\ prod[r] = "eof" => todo[r] = {}

\* The steps of the others, and those that move nothing.
LEMMA KeptFrame ==
  ASSUME NEW q \in Reqs, Kept(q), cons'[q] = cons[q], prod'[q] = prod[q], ver'[q] = ver[q],
         range'[q] = range[q], todo'[q] = todo[q], body'[q] = body[q]
  PROVE  Kept(q)'
BY DEF Kept, Sized

\* The steps of the request itself.
LEMMA KeptRun ==
  ASSUME Types, NEW r \in Reqs, Kept(r),
         Ask(r) \/ Disconnect(r) \/ Run(r) \/ StopWriting(r) \/ UploadFails(r)
  PROVE  Kept(r)'
<1>. USE DEF Types, ConsTo, ProdTo, external, request, stream, tokens, locks
<1>1. CASE Ask(r) \/ Snapshot(r)
  <2>1. prod[r] = "none" /\ prod'[r] = "none"
    BY <1>1 DEF Ask, Get, GetRange, Copy, Begin, Snapshot, Stage
  <2>2. cons'[r] = "slot" => todo'[r] = Selected(ChunkPlan(SizeOf[ver'[r]]), range'[r])
    BY <1>1 DEF Ask, Get, GetRange, Copy, Begin, Snapshot, Open, TypeOK
  <2>. QED  BY <2>1, <2>2 DEF Kept
<1>2. CASE TakeDownload(r)
  <2>1. /\ ver'[r] = ver[r] /\ range'[r] = range[r] /\ todo'[r] = todo[r]
        /\ cons'[r] # "slot" /\ prod'[r] = "next"
        /\ todo[r] = Selected(ChunkPlan(SizeOf[ver[r]]), range[r])
    BY <1>2 DEF TakeDownload, Kept, TypeOK
  <2>. QED  BY <2>1 DEF Kept, Sized
<1>3. CASE TakeUpload(r) \/ LockKey(r)
  <2>1. /\ ver'[r] = ver[r] /\ range'[r] = range[r] /\ todo'[r] = todo[r] /\ body'[r] = body[r]
        /\ cons[r] # "closed" /\ cons'[r] # "slot" /\ prod'[r] = prod[r]
    BY <1>3 DEF TakeUpload, LockKey, TypeOK
  <2>. QED  BY <2>1 DEF Kept, Sized
<1>4. ASSUME NEW result, Close(r, result)
      PROVE  Kept(r)'
  BY <1>4 DEF Close, Kept, TypeOK
<1>5. CASE Leave(r)
  BY <1>5 DEF Leave, Kept, TypeOK
<1>6. CASE Disconnect(r)
  BY <1>6, KeptFrame DEF Disconnect
<1>. QED  BY <1>1, <1>2, <1>3, <1>4, <1>5, <1>6
       DEF Run, GiveUp, ReadAll, StopWriting, UploadFails, Return

\* A chunk that has been read to the end of its file is all there.
LEMMA KeptDeliver ==
  ASSUME Types, NEW r \in Reqs, Kept(r), Deliver(r)
  PROVE  Kept(r)'
<1>. USE DEF Types, Deliver, Streaming, ProdTo, external, request
<1>1. /\ ver'[r] = ver[r] /\ range'[r] = range[r] /\ cons'[r] = "read" /\ prod'[r] = "next"
      /\ todo'[r] = todo[r] \ {At(r)}
  BY DEF TypeOK
<1>2. PICK n \in Readable(r) : Pass(r, n)
  OBVIOUS
<1>3. body'[r] = body[r] \cup Delivered(At(r), range[r], n)
  BY <1>2 DEF Pass
<1>4. Sized(ver[r]) => n = At(r).size
  <2>1. At(r) \in ChunkPlan(SizeOf[ver[r]])
    BY AtInTodo, SelectedChunks DEF TypeOK, Stage, OnTelegram
  <2>. QED  BY <1>2, <2>1 DEF Sized, Readable, FileOf
<1>5. Sized(ver[r])' <=> Sized(ver[r])
  BY <1>1 DEF Sized
<1>6. ASSUME Sized(ver[r]), NEW c \in Selected(ChunkPlan(SizeOf[ver[r]]), range[r])
      PROVE  c \in todo'[r] \/ Delivered(c, range[r], c.size) \subseteq body'[r]
  <2>1. c \in todo[r] \/ Delivered(c, range[r], c.size) \subseteq body[r]
    BY <1>6 DEF Kept
  <2>. QED  BY <1>1, <1>3, <1>4, <1>6, <2>1
<1>. QED  BY <1>1, <1>5, <1>6 DEF Kept

LEMMA KeptWork ==
  ASSUME Types, NEW r \in Reqs, Kept(r), Work(r) \/ Breaks(r)
  PROVE  Kept(r)'
<1>. USE DEF Types, ProdTo, StopProducing, external, request, stream, tokens, locks
<1>1. CASE EndOfObject(r)
  <2>1. /\ ver'[r] = ver[r] /\ range'[r] = range[r] /\ todo'[r] = todo[r] /\ body'[r] = body[r]
        /\ cons'[r] = cons[r] /\ prod'[r] = "eof" /\ prod[r] = "next" /\ todo[r] = {}
    BY <1>1 DEF EndOfObject, TypeOK
  <2>. QED  BY <2>1 DEF Kept, Sized
<1>2. CASE TakeTelegram(r) \/ LockFile(r) \/ Fetch(r)
  <2>1. /\ ver'[r] = ver[r] /\ range'[r] = range[r] /\ todo'[r] = todo[r] /\ body'[r] = body[r]
        /\ cons'[r] = cons[r] /\ prod'[r] \in {"lock", "fetch", "pipe"} /\ prod[r] \in {"next", "lock", "fetch"}
    BY <1>2 DEF TakeTelegram, LockFile, Fetch, TypeOK
  <2>. QED  BY <2>1 DEF Kept, Sized
<1>3. CASE StopWaiting(r) \/ FetchFails(r) \/ WriteFails(r) \/ Breaks(r)
  <2>1. /\ prod'[r] = "failed" /\ cons'[r] # "slot"
    BY <1>3 DEF StopWaiting, FetchFails, WriteFails, Breaks, Streaming, TypeOK, Stage
  <2>. QED  BY <2>1 DEF Kept
<1>. QED  BY <1>1, <1>2, <1>3, KeptDeliver DEF Work

LEMMA NextKept ==
  ASSUME Types, \A q \in Reqs : Kept(q), [Next]_vars
  PROVE  \A q \in Reqs : Kept(q)'
<1>1. ASSUME UNCHANGED <<cons, prod, ver, range, todo, body>>
      PROVE  \A q \in Reqs : Kept(q)'
  BY <1>1, KeptFrame
<1>2. Overwrite \/ Delete \/ UNCHANGED vars => UNCHANGED <<cons, prod, ver, range, todo, body>>
  BY DEF Overwrite, Delete, vars, request, stream
<1>3. ASSUME NEW r \in Reqs, Ask(r) \/ Disconnect(r) \/ Run(r) \/ Work(r) \/ Fail(r),
             NEW q \in Reqs \ {r}
      PROVE  Kept(q)'
  <2>. USE DEF Types, TypeOK, ConsTo, ProdTo, external, request, stream
  <2>1. CASE Ask(r) \/ Disconnect(r) \/ Snapshot(r)
    BY <2>1, KeptFrame DEF Ask, Get, GetRange, Copy, Begin, Open, Snapshot, Disconnect
  <2>2. CASE TakeDownload(r) \/ TakeUpload(r) \/ LockKey(r) \/ Leave(r)
    BY <2>2, KeptFrame DEF TakeDownload, TakeUpload, LockKey, Leave
  <2>3. ASSUME NEW result, Close(r, result)
        PROVE  Kept(q)'
    BY <2>3, KeptFrame DEF Close
  <2>4. CASE Work(r) \/ Breaks(r)
    BY <2>4, KeptFrame DEF Work, EndOfObject, TakeTelegram, StopWaiting, LockFile, Fetch, FetchFails, Deliver,
                           WriteFails, Breaks, Pass, StopProducing
  <2>. QED  BY <1>3, <2>1, <2>2, <2>3, <2>4
         DEF Run, Fail, GiveUp, ReadAll, StopWriting, UploadFails, Return
<1>. QED  BY <1>1, <1>2, <1>3, KeptRun, KeptWork DEF Next, Fail

\* A pipe that ends without an error has carried all there is of the range.
THEOREM DownloadsWhole == Spec => []NothingMissing
<1>. DEFINE KInv == Types /\ \A r \in Reqs : Kept(r)
<1>1. Init => \A r \in Reqs : Kept(r)
  BY DEF Init, Kept
<1>2. KInv /\ [Next]_vars => KInv'
  BY NextTypes, NextKept
<1>3. KInv => NothingMissing
  <2>. SUFFICES ASSUME KInv, NEW r \in Reqs, prod[r] = "eof", cons[r] # "closed", Sized(ver[r])
                PROVE  range[r].start..Lesser(range[r].end, SizeOf[ver[r]] - 1) \subseteq body[r]
    BY DEF NothingMissing, Sized
  <2>1. SizeOf[ver[r]] \in Nat /\ range[r] \in [start : Nat, end : Int]
    BY VersionsAssumption DEF Types, TypeOK, Stage
  <2>2. \A c \in Selected(ChunkPlan(SizeOf[ver[r]]), range[r]) : Delivered(c, range[r], c.size) \subseteq body[r]
    BY DEF Kept
  <2>. QED  BY <2>1, <2>2, SelectionIsExact
<1>. QED  BY <1>1, <1>2, <1>3, InitTypes, PTL DEF Spec

-------------------------------------------------------------------------------
(* What a response says                                                    *)

\* Only the handler that has read its whole pipe completes a response.
LEMMA CompletedBy ==
  ASSUME Types, [Next]_vars, NEW r \in Reqs, Return(r, "complete")
  PROVE  Cardinality(body[r]) = LengthOf(range[r])
<1>. USE DEF Types, ConsTo
<1>1. cons[r] = "read" /\ cons'[r] = "closed" /\ outcome'[r] = "complete"
  BY DEF Return, Close, TypeOK
<1>2. ASSUME NEW q \in Reqs, NEW result, Close(q, result)
      PROVE  q = r /\ result = "complete"
  BY <1>1, <1>2 DEF Close, TypeOK
<1>3. ASSUME NEW q \in Reqs, Ask(q) \/ Disconnect(q) \/ Snapshot(q) \/ Work(q) \/ Breaks(q)
      PROVE  FALSE
  BY <1>1, <1>3 DEF Ask, Get, GetRange, Copy, Begin, Open, Disconnect, Snapshot, Work, EndOfObject, TakeTelegram,
                    StopWaiting, LockFile, Fetch, FetchFails, Deliver, WriteFails, Breaks, TypeOK
<1>4. ASSUME NEW q \in Reqs, TakeDownload(q) \/ TakeUpload(q) \/ LockKey(q) \/ Leave(q)
      PROVE  FALSE
  BY <1>1, <1>4 DEF TakeDownload, TakeUpload, LockKey, Leave, TypeOK
<1>5. ~Overwrite /\ ~Delete /\ ~UNCHANGED vars
  BY <1>1 DEF Overwrite, Delete, vars
<1>6. ASSUME NEW q \in Reqs, GiveUp(q) \/ StopWriting(q) \/ UploadFails(q)
      PROVE  FALSE
  BY <1>2, <1>6 DEF GiveUp, StopWriting, UploadFails, Return
<1>7. PICK q \in Reqs : ReadAll(q)
  BY <1>3, <1>4, <1>5, <1>6 DEF Next, Run, Fail
<1>. QED  BY <1>2, <1>7 DEF ReadAll, Return

\* A response that ends well has delivered what was announced, nothing else
\* and nothing less.
THEOREM ResponsesExact == Spec => CompleteIsExact
<1>1. ASSUME Types, [Next]_vars, NEW r \in Reqs, Return(r, "complete")
      PROVE  body[r] = range[r].start..range[r].end
  <2>. DEFINE asked == range[r].start..range[r].end
  <2>1. range[r].start \in Nat /\ range[r].end \in Int /\ body[r] \subseteq asked
    BY <1>1 DEF Types, TypeOK
  <2>2. IsFiniteSet(asked) /\ Cardinality(asked) = LengthOf(range[r])
    <3>1. \A a \in Nat, b \in Int :
            IsFiniteSet(a..b) /\ Cardinality(a..b) = LengthOf(ByteRange(a, b))
      BY FS_Interval DEF LengthOf, ByteRange
    <3>2. LengthOf(range[r]) = LengthOf(ByteRange(range[r].start, range[r].end))
      BY DEF LengthOf, ByteRange
    <3>. QED  BY <2>1, <3>1, <3>2
  <2>3. Cardinality(body[r]) = Cardinality(asked)
    BY <1>1, <2>2, CompletedBy
  <2>. QED  BY <2>1, <2>2, <2>3, FS_Subset
<1>2. Types /\ [Next]_vars => [\A r \in Reqs : Return(r, "complete") => body[r] = range[r].start..range[r].end]_vars
  BY <1>1
<1>. QED  BY <1>2, InitTypes, NextTypes, PTL DEF Spec, CompleteIsExact

===============================================================================
