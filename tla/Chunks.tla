-------------------------------- MODULE Chunks --------------------------------
(***************************************************************************)
(* How an object is cut into Telegram files and how a range of it is put   *)
(* together again: the plan of an upload (store/upload_strategy.go and     *)
(* putChunked), ParseRange and SelectChunksForRange (store/range.go).      *)
(* Positions in an object are numbered from 0.                             *)
(***************************************************************************)
EXTENDS Integers, FiniteSets

CONSTANTS DocumentLimit, \* the largest document Telegram takes, 0 for no limit
          ChunkSize,     \* the size of the chunks of a larger object
          EnableChunking

ASSUME ChunksAssumption == /\ DocumentLimit \in Nat /\ ChunkSize \in Nat \ {0}
                           /\ EnableChunking \in BOOLEAN

Lesser(a, b)  == IF a <= b THEN a ELSE b
Greater(a, b) == IF a >= b THEN a ELSE b

-------------------------------------------------------------------------------
(* Uploading                                                               *)

Chunk(offset, size) == [offset |-> offset, size |-> size]

\* resolveDocument: one document up to the limit, chunks above it.
Single(size)   == DocumentLimit = 0 \/ size <= DocumentLimit
Accepted(size) == Single(size) \/ EnableChunking

\* The chunks an object of this size is uploaded in: none, one, or pieces of
\* ChunkSize with a shorter last one.
ChunkPlan(size) ==
  IF size = 0 THEN {}
  ELSE IF Single(size) THEN {Chunk(0, size)}
  ELSE {Chunk(ChunkSize * i, Lesser(ChunkSize, size - ChunkSize * i)) : i \in 0..((size - 1) \div ChunkSize)}

-------------------------------------------------------------------------------
(* Reading                                                                 *)

ByteRange(first, last)  == [start |-> first, end |-> last]
LengthOf(range)     == IF range.start < 0 \/ range.end < range.start THEN 0
                       ELSE range.end - range.start + 1

\* What a Range header may ask for; "bad" is every other text.
FromTo(a, b) == [form |-> "from-to", first |-> a, last |-> b]
From(a)      == [form |-> "from", first |-> a]
Suffix(n)    == [form |-> "suffix", count |-> n]
Bad          == [form |-> "bad"]

IsHeader(h) == \/ h.form = "from-to" /\ h.first \in Nat /\ h.last \in Nat
               \/ h.form = "from" /\ h.first \in Nat
               \/ h.form = "suffix" /\ h.count \in Nat
               \/ h.form = "bad"

\* ParseRange: does it accept the header for an object of this size, and the
\* range it makes of it?
RangeAccepted(h, size) ==
  /\ size > 0
  /\ \/ h.form = "suffix" /\ h.count > 0
     \/ h.form = "from" /\ h.first < size
     \/ h.form = "from-to" /\ h.first < size /\ h.first <= h.last

RangeOf(h, size) ==
  IF h.form = "suffix" THEN ByteRange(size - Lesser(h.count, size), size - 1)
  ELSE IF h.form = "from" THEN ByteRange(h.first, size - 1)
  ELSE ByteRange(h.first, Lesser(h.last, size - 1))

\* SelectChunksForRange: the chunks that overlap the range, and what to skip
\* and to take of each.
EndOf(c)                == c.offset + c.size - 1
Overlaps(c, range)      == c.size > 0 /\ EndOf(c) >= range.start /\ c.offset <= range.end
Selected(chunks, range) == {c \in chunks : Overlaps(c, range)}
Skip(c, range)          == Greater(c.offset, range.start) - c.offset

Take(c, range)          == Lesser(EndOf(c), range.end) - Greater(c.offset, range.start) + 1

\* Mutation: a selected chunk is delivered whole.
DeliveredWhole(c, range, n) == c.offset..(c.offset + n - 1)

\* The positions of the object a selected chunk delivers when its file holds
\* its first n bytes.
Delivered(c, range, n) ==
  {i \in c.offset..(c.offset + n - 1) :
     i - c.offset >= Skip(c, range) /\ i - c.offset < Skip(c, range) + Take(c, range)}

===============================================================================
