---------------------------- MODULE MultipartProofs ----------------------------
(***************************************************************************)
(* Multipart uploads for any number of requests, sessions, keys, parts and *)
(* contents, any cap and any bound on the messages, with every fault.      *)
(***************************************************************************)
EXTENDS Multipart, FiniteSetTheorems, WellFoundedInduction, TLAPS

-------------------------------------------------------------------------------
(* FlattenSeq                                                              *)

\* Counting up from zero reaches every number.
LEMMA Counting ==
  ASSUME NEW T \in SUBSET Nat, 0 \in T, \A n \in T : n + 1 \in T
  PROVE  T = Nat
<1>. DEFINE R == OpToRel(<, Nat)
            M == Nat \ T
<1>1. SUFFICES ASSUME M # {} PROVE FALSE
  OBVIOUS
<1>2. PICK x \in M : \A y \in M : <<y, x>> \notin R
  <2>1. IsWellFoundedOn(R, Nat)
    BY NatLessThanWellFounded, Zenon
  <2>. HIDE DEF R
  <2>. QED  BY <1>1, <2>1, WFMin
<1>. HIDE DEF R
<1>3. x \in Nat /\ x \notin T
  OBVIOUS
<1>7. x - 1 \in Nat /\ x - 1 < x /\ (x - 1) + 1 = x
  <2>1. x # 0
    BY <1>3
  <2>. QED  BY <1>3, <2>1
<1>4. <<x - 1, x>> \in R
  BY <1>3, <1>7 DEF R, OpToRel
<1>5. x - 1 \in T
  BY <1>2, <1>7, <1>4
<1>6. (x - 1) + 1 \in T
  BY <1>5
<1>. QED  BY <1>3, <1>6, <1>7

\* Joining the first n of the sequences of s, step by step.
Joins(s, n, g) == g = [i \in 1..n |-> IF i = 1 THEN s[i] ELSE g[i - 1] \o s[i]]

\* What each step does.
LEMMA JoinsStep ==
  \A s, n, g : Joins(s, n, g) => \A i \in 1..n : g[i] = IF i = 1 THEN s[i] ELSE g[i - 1] \o s[i]
<1>. TAKE s, n, g
<1>. HAVE Joins(s, n, g)
<1>. TAKE i \in 1..n
<1>. DEFINE F == [k \in 1..n |-> IF k = 1 THEN s[k] ELSE g[k - 1] \o s[k]]
<1>1. F[i] = IF i = 1 THEN s[i] ELSE g[i - 1] \o s[i]
  OBVIOUS
<1>2. g = F
  BY Zenon DEF Joins
<1>. HIDE DEF F
<1>. QED  BY <1>1, <1>2

\* The steps exist, and each is as long as the elements it joins allow.
LEMMA JoinsExist ==
  ASSUME NEW s, NEW n \in Nat
  PROVE  \E g : Joins(s, n, g)
<1>. DEFINE T == {k \in Nat : \E g : Joins(s, k, g)}
<1>1. 0 \in T
  <2>1. Joins(s, 0, <<>>)
    BY DEF Joins
  <2>. QED  BY <2>1
<1>2. ASSUME NEW k \in T PROVE k + 1 \in T
  <2>1. PICK g : Joins(s, k, g)
    OBVIOUS
  <2>. DEFINE joined == IF k = 0 THEN s[1] ELSE g[k] \o s[k + 1]
              h == [i \in 1..(k + 1) |-> IF i = k + 1 THEN joined ELSE g[i]]
  <2>2. ASSUME NEW i \in 1..(k + 1)
        PROVE  h[i] = IF i = 1 THEN s[i] ELSE h[i - 1] \o s[i]
    <3>1. CASE i = k + 1
      <4>1. CASE k = 0
        BY <3>1, <4>1
      <4>2. CASE k # 0
        <5>1. i # 1 /\ i - 1 = k /\ k \in 1..(k + 1) /\ k # k + 1
          BY <3>1, <4>2
        <5>. QED  BY <3>1, <4>2, <5>1
      <4>. QED  BY <4>1, <4>2
    <3>2. CASE i # k + 1
      <4>1. i \in 1..k /\ h[i] = g[i]
        BY <3>2
      <4>2. g[i] = IF i = 1 THEN s[i] ELSE g[i - 1] \o s[i]
        BY <2>1, <4>1 DEF Joins
      <4>3. i # 1 => i - 1 \in 1..(k + 1) /\ i - 1 # k + 1
        BY <4>1
      <4>. QED  BY <4>1, <4>2, <4>3
    <3>. QED  BY <3>1, <3>2
  <2>3. Joins(s, k + 1, h)
    <3>. HIDE DEF h
    <3>1. h = [i \in 1..(k + 1) |-> h[i]]
      BY DEF h
    <3>2. [i \in 1..(k + 1) |-> h[i]] = [i \in 1..(k + 1) |-> IF i = 1 THEN s[i] ELSE h[i - 1] \o s[i]]
      BY <2>2, Zenon
    <3>. QED  BY <3>1, <3>2, Zenon DEF Joins
  <2>. QED  BY <2>3
<1>. HIDE DEF T
<1>3. T \in SUBSET Nat
  BY DEF T
<1>4. T = Nat
  BY <1>1, <1>2, <1>3, Counting, Zenon
<1>. QED  BY <1>4 DEF T

\* FlattenSeq is the last of these steps.
LEMMA FlattenJoins ==
  ASSUME NEW s, Len(s) \in Nat \ {0}
  PROVE  \E g : Joins(s, Len(s), g) /\ FlattenSeq(s) = g[Len(s)]
<1>. DEFINE G == CHOOSE h : h = [i \in 1..Len(s) |-> IF i = 1 THEN s[i] ELSE h[i-1] \o s[i]]
<1>1. \E h : h = [i \in 1..Len(s) |-> IF i = 1 THEN s[i] ELSE h[i-1] \o s[i]]
  BY JoinsExist, Zenon DEF Joins
<1>2. G = [i \in 1..Len(s) |-> IF i = 1 THEN s[i] ELSE G[i-1] \o s[i]]
  BY <1>1, Zenon
<1>3. FlattenSeq(s) = G[Len(s)]
  BY Zenon DEF FlattenSeq
<1>. QED  BY <1>2, <1>3, Zenon DEF Joins

\* What f makes of the elements of x.
Each(f, x) == [j \in 1..Len(x) |-> f[x[j]]]

\* A sequence of sequences over a set is flattened to one over that set, and
\* what is done to every element first can as well be done afterwards.
LEMMA FlattenMaps ==
  ASSUME NEW A, NEW s \in Seq(Seq(A)), NEW B, NEW f \in [A -> B],
         NEW t \in Seq(Seq(B)), Len(t) = Len(s),
         \A i \in 1..Len(s) : t[i] = Each(f, s[i])
  PROVE  /\ FlattenSeq(s) \in Seq(A)
         /\ FlattenSeq(t) = Each(f, FlattenSeq(s))
<1>1. CASE Len(s) = 0
  <2>1. s = <<>> /\ t = <<>>
    BY <1>1
  <2>2. FlattenSeq(s) = <<>> /\ FlattenSeq(t) = <<>>
    BY <1>1, <2>1 DEF FlattenSeq
  <2>. QED  BY <2>2 DEF Each
<1>2. CASE Len(s) # 0
  <2>0. Len(s) \in Nat \ {0} /\ Len(t) \in Nat \ {0}
    BY <1>2
  <2>1. PICK g : Joins(s, Len(s), g) /\ FlattenSeq(s) = g[Len(s)]
    BY <2>0, FlattenJoins
  <2>2. PICK h : Joins(t, Len(s), h) /\ FlattenSeq(t) = h[Len(s)]
    BY <2>0, FlattenJoins, Len(t) = Len(s), Zenon
  <2>9. /\ \A i \in 1..Len(s) : g[i] = IF i = 1 THEN s[i] ELSE g[i - 1] \o s[i]
        /\ \A i \in 1..Len(s) : h[i] = IF i = 1 THEN t[i] ELSE h[i - 1] \o t[i]
    <3>1. Joins(s, Len(s), g) => \A i \in 1..Len(s) : g[i] = IF i = 1 THEN s[i] ELSE g[i - 1] \o s[i]
      BY ONLY JoinsStep, SMT
    <3>2. Joins(t, Len(s), h) => \A i \in 1..Len(s) : h[i] = IF i = 1 THEN t[i] ELSE h[i - 1] \o t[i]
      BY ONLY JoinsStep, SMT
    <3>3. Joins(s, Len(s), g)
      BY <2>1
    <3>4. Joins(t, Len(s), h)
      BY <2>2
    <3>. QED  BY <3>1, <3>2, <3>3, <3>4
  <2>. DEFINE T == {k \in Nat : k \in 1..Len(s) => g[k] \in Seq(A) /\ h[k] = Each(f, g[k])}
  <2>3. 0 \in T
    OBVIOUS
  <2>4. ASSUME NEW k \in T PROVE k + 1 \in T
    <3>1. SUFFICES ASSUME k + 1 \in 1..Len(s)
                   PROVE  g[k + 1] \in Seq(A) /\ h[k + 1] = Each(f, g[k + 1])
      OBVIOUS
    <3>2. /\ g[k + 1] = IF k + 1 = 1 THEN s[k + 1] ELSE g[k + 1 - 1] \o s[k + 1]
          /\ h[k + 1] = IF k + 1 = 1 THEN t[k + 1] ELSE h[k + 1 - 1] \o t[k + 1]
      BY <2>9, <3>1
    <3>3. s[k + 1] \in Seq(A) /\ t[k + 1] = Each(f, s[k + 1])
      BY <3>1
    <3>4. CASE k = 0
      BY <3>2, <3>3, <3>4
    <3>5. CASE k # 0
      <4>1. k \in 1..Len(s) /\ k + 1 # 1 /\ k + 1 - 1 = k
        BY <3>1, <3>5
      <4>2. g[k] \in Seq(A) /\ h[k] = Each(f, g[k])
        BY <4>1
      <4>3. g[k + 1] = g[k] \o s[k + 1] /\ h[k + 1] = h[k] \o t[k + 1]
        BY <3>2, <4>1
      <4>. DEFINE a == g[k]
                  b == s[k + 1]
      <4>4. \A x \in Seq(A), y \in Seq(A) :
              /\ x \o y \in Seq(A)
              /\ Each(f, x) \o Each(f, y) = Each(f, x \o y)
        BY SMTT(30) DEF Each
      <4>5. a \in Seq(A) /\ b \in Seq(A) /\ g[k + 1] = a \o b
        BY <3>3, <4>2, <4>3
      <4>6. h[k + 1] = Each(f, a) \o Each(f, b)
        BY <3>3, <4>2, <4>3
      <4>. HIDE DEF a, b
      <4>. QED  BY <4>4, <4>5, <4>6
    <3>. QED  BY <3>4, <3>5
  <2>. HIDE DEF T
  <2>5. T \in SUBSET Nat
    BY DEF T
  <2>6. T = Nat
    BY <2>3, <2>4, <2>5, Counting, Zenon
  <2>7. Len(s) \in T /\ Len(s) \in 1..Len(s)
    BY <2>0, <2>6
  <2>8. g[Len(s)] \in Seq(A) /\ h[Len(s)] = Each(f, g[Len(s)])
    BY <2>7 DEF T
  <2>. QED  BY <2>1, <2>2, <2>8
<1>. QED  BY <1>1, <1>2

\* A sequence of sequences is flattened to their elements.
LEMMA FlattenIn ==
  ASSUME NEW A, NEW s \in Seq(Seq(A))
  PROVE  FlattenSeq(s) \in Seq(A)
<1>. DEFINE f == [x \in A |-> x]
            t == [i \in 1..Len(s) |-> Each(f, s[i])]
<1>1. f \in [A -> A]
  OBVIOUS
<1>2. t \in Seq(Seq(A)) /\ Len(t) = Len(s)
  <2>1. \A i \in 1..Len(s) : s[i] \in Seq(A)
    OBVIOUS
  <2>2. \A x \in Seq(A) : Each(f, x) \in Seq(A)
    BY DEF Each
  <2>3. \A i \in 1..Len(s) : Each(f, s[i]) \in Seq(A)
    BY <2>1, <2>2
  <2>. HIDE DEF f
  <2>. QED  BY <2>3
<1>3. \A i \in 1..Len(s) : t[i] = Each(f, s[i])
  OBVIOUS
<1>. HIDE DEF f, t
<1>. QED  BY <1>1, <1>2, <1>3, FlattenMaps

\* The elements of a sequence that grows at its end or loses its first.
LEMMA Elements ==
  ASSUME NEW A
  PROVE  /\ ToSet(<<>>) = {}
         /\ \A s \in Seq(A) : ToSet(s) \subseteq A /\ s \in Seq(ToSet(s))
         /\ \A s \in Seq(A) : \A x : ToSet(Append(s, x)) = ToSet(s) \cup {x}
         /\ \A s \in Seq(A) : s # <<>> => /\ Tail(s) \in Seq(A) /\ Head(s) \in ToSet(s)
                                          /\ ToSet(Tail(s)) \subseteq ToSet(s)
<1>1. ToSet(<<>>) = {}
  BY DEF ToSet
<1>2. \A s \in Seq(A) : ToSet(s) \subseteq A /\ s \in Seq(ToSet(s))
  BY DEF ToSet
<1>3. ASSUME NEW s \in Seq(A), NEW x
      PROVE  ToSet(Append(s, x)) = ToSet(s) \cup {x}
  <2>1. /\ \A i \in 1..Len(s) : Append(s, x)[i] = s[i]
        /\ Append(s, x)[Len(s) + 1] = x
        /\ DOMAIN Append(s, x) = 1..(Len(s) + 1) /\ DOMAIN s = 1..Len(s)
    OBVIOUS
  <2>2. \A i \in 1..(Len(s) + 1) : i \in 1..Len(s) \/ i = Len(s) + 1
    OBVIOUS
  <2>3. Len(s) \in Nat
    OBVIOUS
  <2>. QED  BY <2>1, <2>2, <2>3 DEF ToSet
<1>4. ASSUME NEW s \in Seq(A), s # <<>>
      PROVE  /\ Tail(s) \in Seq(A) /\ Head(s) \in ToSet(s)
             /\ ToSet(Tail(s)) \subseteq ToSet(s)
  BY <1>4 DEF ToSet
<1>. QED  BY <1>1, <1>2, <1>3, <1>4

-------------------------------------------------------------------------------
(* Types                                                                   *)

Part == [etag : Contents, chunks : Seq(Messages)]

Job == [upload : Uploads \cup {NoPart}, number : PartNumbers \cup {0}, content : Contents \cup {NoPart},
        want : Seq(PartNumbers \X Contents), chunks : Seq(Messages), prev : Seq(Messages)]

\* What each variable is.
Types ==
  /\ next \in 1..(MaxMessages + 1)
  /\ open \subseteq ToSet(used) /\ used \in Seq(Uploads)
  /\ parts \in [Uploads -> [PartNumbers -> {NoPart} \cup Part]]
  /\ rows \in [Keys -> {NoObject} \cup Seq(Messages)]
  /\ live \subseteq 1..(next - 1) /\ logged \subseteq Messages
  /\ holds \in [Messages -> Chunks \cup {NoPart}]
  /\ \A m \in Messages : IF m < next THEN holds[m] \in Chunks ELSE holds[m] = NoPart
  /\ holder \in [Keys -> Reqs \cup {NoReq}]
  /\ pc \in [Reqs -> Stages]
  /\ job \in [Reqs -> Job]
  /\ \A r \in Reqs : /\ pc[r] # "idle" => job[r].upload \in Uploads
                     /\ pc[r] = "part" => job[r].number \in PartNumbers /\ job[r].content \in Contents

\* Every session was drawn once, and there are no more than the cap.
Sessions == IsInjective(used) /\ IsFiniteSet(open) /\ Cardinality(open) <= MaxUploads

Working(r) == pc[r] \in {"part", "commit", "cleanup"}

\* A message is used by a session: a part of it names it, or a request that is
\* uploading a part or completing.
Uses(u, m) == m \in ChunksOfAll(u) \/ \E r \in Reqs : Working(r) /\ job[r].upload = u /\ m \in ToSet(job[r].chunks)

ListedAt(k, m) == m \in ToSet(RowOf(k))

\* What rows, sessions and requests name exists.
InUseLive == /\ \A k \in Keys, m \in Messages : ListedAt(k, m) => m \in live
             /\ \A u \in Uploads, m \in Messages : Uses(u, m) => m \in live
             /\ \A r \in Reqs : ToSet(job[r].prev) \subseteq 1..(next - 1)

\* The job of a request that is not running.
LEMMA IdleJob == Idle \in Job
BY DEF Idle, Job

\* A request that returns.
LEMMA ReturnTypes ==
  ASSUME Types, NEW r \in Reqs, Return(r)
  PROVE  /\ pc' \in [Reqs -> Stages] /\ job' \in [Reqs -> Job]
         /\ \A q \in Reqs : /\ pc'[q] # "idle" => job'[q].upload \in Uploads
                            /\ pc'[q] = "part" => job'[q].number \in PartNumbers /\ job'[q].content \in Contents
BY IdleJob DEF Types, Return, Set, Stages

\* Releasing the key lock.
LEMMA ReleaseTypes ==
  ASSUME Types, NEW r \in Reqs, Release(r)
  PROVE  holder' \in [Keys -> Reqs \cup {NoReq}]
BY DEF Types, Release

\* Forgetting sessions.
LEMMA ForgetTypes ==
  ASSUME Types, NEW us, Forget(us)
  PROVE  /\ open' \subseteq open
         /\ parts' \in [Uploads -> [PartNumbers -> {NoPart} \cup Part]]
         /\ \A u \in Uploads : ChunksOfAll(u)' \subseteq ChunksOfAll(u)
         /\ \A u \in Uploads \cap us : ChunksOfAll(u)' = {}
BY DEF Types, Forget, NoParts, ChunksOfAll, PartsOf

\* The messages of a session are messages.
LEMMA SessionChunks ==
  ASSUME Types, NEW u \in Uploads
  PROVE  /\ ChunksOfAll(u) \subseteq Messages
         /\ \A n \in PartNumbers : parts[u][n] # NoPart =>
              parts[u][n] \in Part /\ ToSet(parts[u][n].chunks) \subseteq ChunksOfAll(u)
         /\ \A m \in ChunksOfAll(u) : \E n \in PartNumbers :
              parts[u][n] # NoPart /\ m \in ToSet(parts[u][n].chunks)
<1>1. \A n \in PartNumbers : parts[u][n] \in {NoPart} \cup Part
  BY DEF Types
<1>2. \A n \in PartNumbers : parts[u][n] # NoPart =>
        parts[u][n] \in Part /\ ToSet(parts[u][n].chunks) \subseteq Messages
  BY <1>1, Elements DEF Part
<1>. QED  BY <1>1, <1>2 DEF ChunksOfAll, PartsOf

\* The row of a key is a sequence of messages.
LEMMA RowTypes ==
  ASSUME Types, NEW k \in Keys
  PROVE  RowOf(k) \in Seq(Messages) /\ ToSet(RowOf(k)) \subseteq Messages
<1>1. RowOf(k) \in Seq(Messages)
  BY DEF Types, RowOf
<1>. QED  BY <1>1, Elements

\* The parts taken for a completion.
LEMMA TakenTypes ==
  ASSUME Types, NEW u \in Uploads, NEW want \in Seq(PartNumbers \X Contents), Matches(u, want)
  PROVE  /\ Taken(u, want) \in Seq(Messages)
         /\ ToSet(Taken(u, want)) \subseteq ChunksOfAll(u)
<1>. DEFINE s == [i \in DOMAIN want |-> parts[u][want[i][1]].chunks]
<1>1. ASSUME NEW i \in 1..Len(want)
      PROVE  parts[u][want[i][1]].chunks \in Seq(ChunksOfAll(u))
  <2>1. want[i] \in PartNumbers \X Contents /\ i \in DOMAIN want
    OBVIOUS
  <2>2. want[i][1] \in PartNumbers /\ parts[u][want[i][1]] # NoPart
    BY <2>1 DEF Matches
  <2>3. /\ parts[u][want[i][1]].chunks \in Seq(Messages)
        /\ ToSet(parts[u][want[i][1]].chunks) \subseteq ChunksOfAll(u)
    BY <2>2, SessionChunks DEF Part
  <2>4. parts[u][want[i][1]].chunks \in Seq(ToSet(parts[u][want[i][1]].chunks))
    BY <2>3, Elements
  <2>5. \A B : \A A \in SUBSET B : Seq(A) \subseteq Seq(B)
    OBVIOUS
  <2>. QED  BY <2>3, <2>4, <2>5
<1>2. s \in Seq(Seq(ChunksOfAll(u)))
  <2>1. DOMAIN want = 1..Len(want) /\ Len(want) \in Nat
    OBVIOUS
  <2>. QED  BY <1>1, <2>1
<1>3. Taken(u, want) \in Seq(ChunksOfAll(u))
  BY <1>2, FlattenIn DEF Taken
<1>4. ChunksOfAll(u) \subseteq Messages
  BY SessionChunks
<1>. HIDE DEF s
<1>5. \A B : \A A \in SUBSET B : Seq(A) \subseteq Seq(B)
  OBVIOUS
<1>. QED  BY <1>3, <1>4, <1>5, Elements

LEMMA InitTypes == Init => Types /\ Sessions
<1>. HAVE Init
<1>1. Types
  BY BoundsAssumption, IdleJob, Elements DEF Init, Types, NoParts, Stages, Messages
<1>2. Cardinality({}) = 0 /\ IsFiniteSet({})
  BY FS_EmptySet
<1>3. Sessions
  BY <1>2, BoundsAssumption DEF Init, Sessions, IsInjective
<1>. QED  BY <1>1, <1>3

\* What is sent is a message.
LEMMA SendTypes ==
  ASSUME Types, NEW r \in Reqs, SendChunk(r)
  PROVE  Types'
<1>. DEFINE j == job[r]
<1>0. next \in Messages /\ next + 1 \in 1..(MaxMessages + 1) /\ next' = next + 1
  BY BoundsAssumption DEF Types, SendChunk, Messages
<1>1. live' \subseteq 1..(next' - 1)
  BY <1>0 DEF Types, SendChunk
<1>2. /\ j \in Job /\ j.content \in Contents /\ j.upload \in Uploads /\ j.number \in PartNumbers
      /\ Sent(r) + 1 \in Nat
  BY DEF SendChunk, Types, Sent, Job
<1>3. /\ holds' \in [Messages -> Chunks \cup {NoPart}]
      /\ \A m \in Messages : IF m < next' THEN holds'[m] \in Chunks ELSE holds'[m] = NoPart
  <2>1. <<j.content, Sent(r) + 1>> \in Chunks
    BY <1>2 DEF Chunks
  <2>2. holds' = [holds EXCEPT ![next] = <<j.content, Sent(r) + 1>>]
    BY DEF SendChunk
  <2>3. holds' \in [Messages -> Chunks \cup {NoPart}] /\ holds'[next] \in Chunks
    BY <1>0, <2>1, <2>2 DEF Types
  <2>4. ASSUME NEW m \in Messages
        PROVE  IF m < next' THEN holds'[m] \in Chunks ELSE holds'[m] = NoPart
    <3>1. CASE m = next
      BY <1>0, <2>3, <3>1 DEF Messages
    <3>2. CASE m # next
      <4>1. holds'[m] = holds[m]
        BY <1>0, <2>2, <3>2 DEF Types
      <4>2. m \in Nat /\ next \in Nat
        BY <1>0 DEF Messages
      <4>3. m < next' <=> m < next
        BY <1>0, <3>2, <4>2
      <4>. QED  BY <4>1, <4>3 DEF Types
    <3>. QED  BY <3>1, <3>2
  <2>. QED  BY <2>3, <2>4
<1>4. /\ job' \in [Reqs -> Job]
      /\ \A q \in Reqs : /\ pc'[q] # "idle" => job'[q].upload \in Uploads
                         /\ pc'[q] = "part" => job'[q].number \in PartNumbers /\ job'[q].content \in Contents
  <2>1. Append(j.chunks, next) \in Seq(Messages)
    BY <1>0, <1>2 DEF Job
  <2>2. [j EXCEPT !.chunks = Append(@, next)] \in Job
    BY <1>2, <2>1 DEF Job
  <2>3. job' = [job EXCEPT ![r] = [j EXCEPT !.chunks = Append(@, next)]]
    BY DEF SendChunk, Types
  <2>4. /\ [j EXCEPT !.chunks = Append(@, next)].upload = j.upload
        /\ [j EXCEPT !.chunks = Append(@, next)].number = j.number
        /\ [j EXCEPT !.chunks = Append(@, next)].content = j.content
    BY <1>2 DEF Job
  <2>. DEFINE n == [j EXCEPT !.chunks = Append(@, next)]
  <2>. HIDE DEF n, j
  <2>5. job' = [job EXCEPT ![r] = n] /\ n \in Job /\ pc' = pc
    BY <2>2, <2>3 DEF SendChunk, n
  <2>6. n.upload \in Uploads /\ n.number \in PartNumbers /\ n.content \in Contents
    BY <1>2, <2>4 DEF n
  <2>. QED  BY <2>5, <2>6 DEF Types
<1>. QED  BY <1>0, <1>1, <1>3, <1>4 DEF Types, SendChunk, session


\* Some number of a set is the least.
LEMMA Least ==
  ASSUME NEW T \in SUBSET Nat, T # {}
  PROVE  \E x \in T : \A y \in T : x <= y
<1>. DEFINE R == OpToRel(<, Nat)
<1>1. \E x \in T : \A y \in T : <<y, x>> \notin R
  <2>1. IsWellFoundedOn(R, Nat)
    BY NatLessThanWellFounded, Zenon
  <2>. HIDE DEF R
  <2>. QED  BY <2>1, WFMin
<1>2. \A x, y \in Nat : <<y, x>> \notin R => x <= y
  BY DEF OpToRel
<1>. QED  BY <1>1, <1>2

\* Of sessions that were all drawn, one was drawn first.
LEMMA OldestIs ==
  ASSUME NEW drawn \in Seq(Uploads), NEW us \in SUBSET ToSet(drawn), us # {}
  PROVE  Oldest(us, drawn) \in us
<1>. DEFINE T == {i \in 1..Len(drawn) : drawn[i] \in us}
<1>1. T \in SUBSET Nat /\ T # {}
  <2>1. PICK u \in us : TRUE
    OBVIOUS
  <2>2. PICK i \in 1..Len(drawn) : drawn[i] = u
    BY <2>1 DEF ToSet
  <2>. QED  BY <2>1, <2>2
<1>2. PICK i \in T : \A j \in T : i <= j
  BY <1>1, Least
<1>3. \A j \in 1..(i - 1) : drawn[j] \notin us
  <2>1. ASSUME NEW j \in 1..(i - 1), drawn[j] \in us
        PROVE  FALSE
    <3>1. i \in 1..Len(drawn) /\ Len(drawn) \in Nat
      BY <1>2
    <3>2. j \in T /\ ~(i <= j)
      BY <2>1, <3>1
    <3>. QED  BY <1>2, <3>2
  <2>. QED  BY <2>1
<1>4. drawn[i] \in us /\ i \in DOMAIN drawn
  BY <1>2
<1>5. \E u \in us : \E k \in DOMAIN drawn : drawn[k] = u /\ \A j \in 1..(k - 1) : drawn[j] \notin us
  BY <1>3, <1>4
<1>. QED  BY <1>5, Zenon DEF Oldest

\* What Create does to the sessions.
LEMMA Created ==
  ASSUME Types, NEW u \in Uploads, Create(u)
  PROVE  /\ used' \in Seq(Uploads) /\ ToSet(used') = ToSet(used) \cup {u}
         /\ \/ Cardinality(open) < MaxUploads /\ open' = open \cup {u} /\ UNCHANGED <<parts, logged>>
            \/ \E o \in open \cup {u} : /\ ~(Cardinality(open) < MaxUploads)
                                         /\ open' = (open \cup {u}) \ {o}
                                         /\ logged' = logged \cup ChunksOfAll(o)
                                         /\ parts' = [parts EXCEPT ![o] = NoParts]
         /\ u \notin open /\ open \cup {u} \subseteq Uploads
         /\ UNCHANGED <<telegram, rows, holder, pc, job>>
<1>1. used' \in Seq(Uploads) /\ ToSet(used') = ToSet(used) \cup {u}
  BY Elements DEF Create, Types
<1>2. ToSet(used') \subseteq Uploads /\ u \notin open /\ open \cup {u} \subseteq ToSet(used')
  BY <1>1, Elements DEF Types, Create
<1>3. Oldest(open \cup {u}, used') \in open \cup {u}
  BY <1>1, <1>2, OldestIs
<1>. QED  BY <1>1, <1>2, <1>3 DEF Create

\* No session is drawn twice, and there are never too many.
LEMMA SessionsStep == Types /\ Sessions /\ [Next]_vars => Sessions'
<1>. SUFFICES ASSUME Types, Sessions, [Next]_vars PROVE Sessions'
  OBVIOUS
<1>1. ASSUME NEW u \in Uploads, Create(u)
      PROVE  Sessions'
  <2>1. IsInjective(used')
    <3>1. /\ used \in Seq(Uploads) /\ used' = Append(used, u) /\ IsInjective(used)
          /\ \A i \in 1..Len(used) : used[i] # u
      BY <1>1 DEF Create, Types, Sessions, ToSet
    <3>. QED  BY <3>1 DEF IsInjective
  <2>2. /\ IsFiniteSet(open \cup {u}) /\ Cardinality(open \cup {u}) = Cardinality(open) + 1
        /\ Cardinality(open) \in Nat
    BY <1>1, Created, FS_AddElement, FS_CardinalityType DEF Sessions
  <2>3. CASE open' = open \cup {u} /\ Cardinality(open) < MaxUploads
    BY <2>1, <2>2, <2>3, BoundsAssumption DEF Sessions
  <2>4. ASSUME NEW o \in open \cup {u}, open' = (open \cup {u}) \ {o}
        PROVE  Sessions'
    <3>1. IsFiniteSet(open') /\ Cardinality(open') = Cardinality(open)
      BY <2>2, <2>4, FS_RemoveElement
    <3>. QED  BY <2>1, <3>1 DEF Sessions
  <2>. QED  BY <1>1, <2>3, <2>4, Created
<1>2. ASSUME used' = used, open' \subseteq open
      PROVE  Sessions'
  BY <1>2, FS_Subset, BoundsAssumption, FS_CardinalityType DEF Sessions
<1>3. ASSUME NEW u \in Uploads, Abort(u)
      PROVE  used' = used /\ open' \subseteq open
  BY <1>3 DEF Abort, Forget
<1>4. ASSUME NEW r \in Reqs, Advance(r) \/ Locking(r)
      PROVE  used' = used /\ open' \subseteq open
  BY <1>4 DEF Advance, Locking, SendChunk, SendFails, DropPart, RecordPart, Commit, CommitFails, CleanUp,
              EndSession, TakeParts, RefuseComplete, Forget, session
<1>5. ASSUME Crash
      PROVE  used' = used /\ open' \subseteq open
  BY <1>5 DEF Crash, Forget
<1>6. ASSUME NEW r \in Reqs, NEW u, NEW n, NEW c, NEW want, StartPart(r, u, n, c) \/ StartComplete(r, u, want)
      PROVE  used' = used /\ open' \subseteq open
  BY <1>6 DEF StartPart, StartComplete, session
<1>7. CASE UNCHANGED vars
  BY <1>2, <1>7 DEF vars, session
<1>. QED  BY <1>1, <1>2, <1>3, <1>4, <1>5, <1>6, <1>7 DEF Next

\* A request whose job is another one, and still a job.
LEMMA SetTypes ==
  ASSUME Types, NEW r \in Reqs, NEW s \in Stages, NEW j \in Job, Set(r, s, j), j.upload \in Uploads,
         s = "part" => j.number \in PartNumbers /\ j.content \in Contents
  PROVE  /\ pc' \in [Reqs -> Stages] /\ job' \in [Reqs -> Job]
         /\ \A q \in Reqs : /\ pc'[q] # "idle" => job'[q].upload \in Uploads
                            /\ pc'[q] = "part" => job'[q].number \in PartNumbers /\ job'[q].content \in Contents
BY DEF Types, Set

\* Steps keep the types.
LEMMA TypesStep == Types /\ [Next]_vars => Types'
<1>. SUFFICES ASSUME Types, [Next]_vars PROVE Types'
  OBVIOUS
<1>1. ASSUME NEW u \in Uploads, Create(u)
      PROVE  Types'
  <2>1. /\ used' \in Seq(Uploads) /\ ToSet(used') = ToSet(used) \cup {u}
        /\ UNCHANGED <<telegram, rows, holder, pc, job>> /\ open' \subseteq open \cup {u}
    BY <1>1, Created
  <2>2. parts' \in [Uploads -> [PartNumbers -> {NoPart} \cup Part]] /\ logged' \subseteq Messages
    <3>1. CASE UNCHANGED <<parts, logged>>
      BY <3>1 DEF Types
    <3>2. ASSUME NEW o \in open \cup {u}, logged' = logged \cup ChunksOfAll(o),
                 parts' = [parts EXCEPT ![o] = NoParts]
          PROVE  /\ parts' \in [Uploads -> [PartNumbers -> {NoPart} \cup Part]]
                 /\ logged' \subseteq Messages
      <4>1. o \in Uploads /\ ChunksOfAll(o) \subseteq Messages
        BY <1>1, Created, SessionChunks
      <4>2. NoParts \in [PartNumbers -> {NoPart} \cup Part]
        BY DEF NoParts
      <4>. QED  BY <3>2, <4>1, <4>2 DEF Types
    <3>. QED  BY <1>1, <3>1, <3>2, Created
  <2>. QED  BY <2>1, <2>2 DEF Types, telegram
<1>2. ASSUME NEW u \in Uploads, Abort(u)
      PROVE  Types'
  BY <1>2, ForgetTypes, SessionChunks DEF Abort, Types, telegram
<1>3. ASSUME NEW r \in Reqs, NEW u \in Uploads, NEW n \in PartNumbers, NEW c \in Contents, StartPart(r, u, n, c)
      PROVE  Types'
  <2>. DEFINE j == [Idle EXCEPT !.upload = u, !.number = n, !.content = c]
  <2>1. j \in Job /\ j.upload \in Uploads /\ j.number \in PartNumbers /\ j.content \in Contents
    BY IdleJob DEF Job
  <2>2. Set(r, "part", j) /\ "part" \in Stages
    BY <1>3 DEF StartPart, Stages
  <2>. HIDE DEF j
  <2>3. /\ pc' \in [Reqs -> Stages] /\ job' \in [Reqs -> Job]
        /\ \A q \in Reqs : /\ pc'[q] # "idle" => job'[q].upload \in Uploads
                           /\ pc'[q] = "part" => job'[q].number \in PartNumbers /\ job'[q].content \in Contents
    BY <2>1, <2>2, SetTypes
  <2>. QED  BY <1>3, <2>3 DEF StartPart, Types, session, telegram
<1>4. ASSUME NEW r \in Reqs, NEW u \in Uploads, NEW want \in Requested, StartComplete(r, u, want)
      PROVE  Types'
  <2>. DEFINE j == [Idle EXCEPT !.upload = u, !.want = want]
  <2>1. j \in Job /\ j.upload \in Uploads
    BY IdleJob, RequestedAssumption DEF Job
  <2>2. Set(r, "lock", j) /\ "lock" \in Stages
    BY <1>4 DEF StartComplete, Stages
  <2>. HIDE DEF j
  <2>3. /\ pc' \in [Reqs -> Stages] /\ job' \in [Reqs -> Job]
        /\ \A q \in Reqs : /\ pc'[q] # "idle" => job'[q].upload \in Uploads
                           /\ pc'[q] = "part" => job'[q].number \in PartNumbers /\ job'[q].content \in Contents
    BY <2>1, <2>2, SetTypes
  <2>. QED  BY <1>4, <2>3 DEF StartComplete, Types, session, telegram
<1>5. ASSUME NEW r \in Reqs, SendChunk(r)
      PROVE  Types'
  BY <1>5, SendTypes
<1>6. ASSUME NEW r \in Reqs, SendFails(r)
      PROVE  Types'
  <2>1. ToSet(job[r].chunks) \subseteq Messages
    BY Elements DEF Types, Job
  <2>. QED  BY <1>6, <2>1, ReturnTypes DEF SendFails, Types, session, telegram
<1>7. ASSUME NEW r \in Reqs, DropPart(r)
      PROVE  Types'
  BY <1>7, ReturnTypes DEF DropPart, Types, session, telegram
<1>8. ASSUME NEW r \in Reqs, RecordPart(r)
      PROVE  Types'
  <2>. DEFINE j == job[r]
              p == [etag |-> j.content, chunks |-> j.chunks]
  <2>1. /\ j \in Job /\ j.upload \in Uploads /\ j.number \in PartNumbers /\ p \in Part
    BY <1>8 DEF RecordPart, Types, Job, Part
  <2>2. parts' = [parts EXCEPT ![j.upload][j.number] = p]
    BY <1>8 DEF RecordPart
  <2>3. logged' \subseteq Messages
    <3>1. CASE parts[j.upload][j.number] = NoPart
      BY <1>8, <3>1 DEF RecordPart, Types
    <3>2. CASE parts[j.upload][j.number] # NoPart
      <4>1. ToSet(parts[j.upload][j.number].chunks) \subseteq Messages
        BY <2>1, <3>2, SessionChunks
      <4>. QED  BY <1>8, <3>2, <4>1 DEF RecordPart, Types
    <3>. QED  BY <3>1, <3>2
  <2>. HIDE DEF j, p
  <2>4. parts' \in [Uploads -> [PartNumbers -> {NoPart} \cup Part]]
    BY <2>1, <2>2 DEF Types
  <2>. QED  BY <1>8, <2>3, <2>4, ReturnTypes DEF RecordPart, Types, telegram
<1>9. ASSUME NEW r \in Reqs, TakeParts(r)
      PROVE  Types'
  <2>. DEFINE j == [job[r] EXCEPT !.chunks = Taken(job[r].upload, job[r].want), !.prev = RowOf(Key(r))]
  <2>1. job[r] \in Job /\ job[r].upload \in Uploads /\ Key(r) \in Keys
    BY <1>9, UploadsAssumption DEF TakeParts, Types, Key
  <2>2. Taken(job[r].upload, job[r].want) \in Seq(Messages)
    BY <1>9, <2>1, TakenTypes DEF TakeParts, Job
  <2>3. RowOf(Key(r)) \in Seq(Messages)
    BY <2>1, RowTypes
  <2>4. j \in Job /\ j.upload \in Uploads
    BY <2>1, <2>2, <2>3 DEF Job
  <2>5. Set(r, "commit", j) /\ "commit" \in Stages
    BY <1>9 DEF TakeParts, Stages
  <2>. HIDE DEF j
  <2>6. /\ pc' \in [Reqs -> Stages] /\ job' \in [Reqs -> Job]
        /\ \A q \in Reqs : /\ pc'[q] # "idle" => job'[q].upload \in Uploads
                           /\ pc'[q] = "part" => job'[q].number \in PartNumbers /\ job'[q].content \in Contents
    BY <2>4, <2>5, SetTypes
  <2>7. holder' \in [Keys -> Reqs \cup {NoReq}]
    BY <1>9, <2>1 DEF TakeParts, Types
  <2>. QED  BY <1>9, <2>6, <2>7 DEF TakeParts, Types, session, telegram
<1>10. ASSUME NEW r \in Reqs, RefuseComplete(r)
       PROVE  Types'
  BY <1>10, ReturnTypes DEF RefuseComplete, Types, session, telegram
<1>11. ASSUME NEW r \in Reqs, Commit(r)
       PROVE  Types'
  <2>1. job[r].chunks \in Seq(Messages)
    BY DEF Types, Job
  <2>2. rows' \in [Keys -> {NoObject} \cup Seq(Messages)]
    BY <1>11, <2>1 DEF Commit, Types
  <2>3. pc' \in [Reqs -> Stages] /\ \A q \in Reqs : pc'[q] # "idle" => pc[q] # "idle"
    BY <1>11 DEF Commit, Types, Stages
  <2>4. \A q \in Reqs : pc'[q] = "part" => pc[q] = "part"
    BY <1>11 DEF Commit, Types
  <2>. QED  BY <1>11, <2>2, <2>3, <2>4 DEF Commit, Types, session, telegram
<1>12. ASSUME NEW r \in Reqs, CommitFails(r)
       PROVE  Types'
  BY <1>12, ReturnTypes, ReleaseTypes DEF CommitFails, Types, session, telegram
<1>13. ASSUME NEW r \in Reqs, CleanUp(r)
       PROVE  Types'
  <2>1. job[r] \in Job /\ job[r].prev \in Seq(Messages) /\ job[r].prev # <<>>
    BY <1>13 DEF CleanUp, Types, Job
  <2>2. Tail(job[r].prev) \in Seq(Messages) /\ Head(job[r].prev) \in Messages
    BY <2>1, Elements
  <2>. DEFINE j == [job[r] EXCEPT !.prev = Tail(@)]
  <2>3. /\ j \in Job /\ j.upload = job[r].upload /\ j.number = job[r].number /\ j.content = job[r].content
        /\ job' = [job EXCEPT ![r] = j]
    BY <1>13, <2>1, <2>2 DEF CleanUp, Types, Job
  <2>. HIDE DEF j
  <2>4. /\ job' \in [Reqs -> Job]
        /\ \A q \in Reqs : job'[q].upload = job[q].upload /\ job'[q].number = job[q].number
                           /\ job'[q].content = job[q].content
    BY <2>3 DEF Types
  <2>5. live' \subseteq live /\ logged' \subseteq Messages
    BY <1>13, <2>2 DEF CleanUp, Types
  <2>. QED  BY <1>13, <2>4, <2>5 DEF CleanUp, Types, session
<1>14. ASSUME NEW r \in Reqs, EndSession(r)
       PROVE  Types'
  BY <1>14, ReturnTypes, ReleaseTypes, ForgetTypes DEF EndSession, Types, telegram
<1>15. ASSUME Crash
       PROVE  Types'
  BY <1>15, ForgetTypes, IdleJob DEF Crash, Types, telegram, Stages
<1>16. CASE UNCHANGED vars
  BY <1>16 DEF vars, session, telegram, Types
<1>. QED  BY <1>1, <1>2, <1>3, <1>4, <1>5, <1>6, <1>7, <1>8, <1>9, <1>10, <1>11, <1>12, <1>13, <1>14,
             <1>15, <1>16 DEF Next, Advance, Locking

-------------------------------------------------------------------------------
(* Which messages are in use, and by whom                                  *)

\* Between the look-up of the parts and the end of the session the key is locked.
LocksHeld == \A r \in Reqs : pc[r] \in {"commit", "cleanup"} => holder[Key(r)] = r

\* The row a completion will replace is the one it has read.
PrevIsRow == \A r \in Reqs : pc[r] = "commit" => job[r].prev = RowOf(Key(r))

\* A message is in use by one session.
OneOwner == \A u, v \in Uploads, m \in Messages : Uses(u, m) /\ Uses(v, m) => u = v

\* A message that a row names is in use by a session only while a completion
\* that has committed it ends.
ListedEnds == \A k \in Keys, u \in Uploads, m \in Messages : ListedAt(k, m) /\ Uses(u, m) =>
  /\ KeyOf[u] = k
  /\ \E r \in Reqs : pc[r] = "cleanup" /\ job[r].upload = u /\ m \in ToSet(job[r].chunks)

\* No two rows share a message.
RowsApart == \A k, l \in Keys, m \in Messages : ListedAt(k, m) /\ ListedAt(l, m) => k = l

\* What a completion deletes is in nobody's use.
Replaced == \A r \in Reqs, m \in Messages : pc[r] = "cleanup" /\ m \in ToSet(job[r].prev) =>
  (\A k \in Keys : ~ListedAt(k, m)) /\ (\A u \in Uploads : ~Uses(u, m))

UsedElsewhere(r, m) == \/ \E k \in Keys : ListedAt(k, m)
                       \/ \E u \in Uploads : m \in ChunksOfAll(u)
                       \/ \E q \in Reqs \ {r} : Working(q) /\ m \in ToSet(job[q].chunks)

\* What an unfinished part has sent is its own.
OwnParts == \A r \in Reqs, m \in Messages : pc[r] = "part" /\ m \in ToSet(job[r].chunks) => ~UsedElsewhere(r, m)

Usage == LocksHeld /\ PrevIsRow /\ OneOwner /\ ListedEnds /\ RowsApart /\ Replaced /\ OwnParts /\ InUseLive

\* A step that posts, deletes and commits nothing: sessions lose parts, and
\* requests begin or end.
Quiet ==
  /\ UNCHANGED <<rows, live, next, holds>>
  /\ \A u \in Uploads : /\ ChunksOfAll(u)' \subseteq ChunksOfAll(u)
                        /\ \A n \in PartNumbers : parts'[u][n] \in {parts[u][n], NoPart}
  /\ \A q \in Reqs : \/ pc'[q] = pc[q] /\ job'[q] = job[q]
                     \/ ~Working(q)' /\ job'[q].prev = <<>>
                     \/ pc'[q] = "part" /\ job'[q].chunks = <<>> /\ job'[q].prev = <<>>
  /\ \A q \in Reqs : pc'[q] \in {"commit", "cleanup"} => holder'[Key(q)] = holder[Key(q)]

\* A request that returns changes nothing for the others.
LEMMA Returns ==
  ASSUME Types, NEW r \in Reqs, Return(r)
  PROVE  \A q \in Reqs : \/ q # r /\ pc'[q] = pc[q] /\ job'[q] = job[q]
                         \/ q = r /\ ~Working(q)' /\ job'[q].prev = <<>>
BY DEF Types, Return, Set, Idle, Working

\* Sessions that are forgotten lose their parts.
LEMMA Forgets ==
  ASSUME Types, NEW us, Forget(us)
  PROVE  \A u \in Uploads : /\ ChunksOfAll(u)' \subseteq ChunksOfAll(u)
                            /\ \A n \in PartNumbers : parts'[u][n] \in {parts[u][n], NoPart}
BY ForgetTypes DEF Forget, Types, NoParts

\* The key of a request is a key.
LEMMA KeyTypes ==
  ASSUME Types, NEW r \in Reqs, pc[r] # "idle"
  PROVE  Key(r) \in Keys /\ job[r].upload \in Uploads /\ KeyOf[job[r].upload] = Key(r)
BY UploadsAssumption DEF Types, Key

\* Releasing the lock of one key leaves it to those who hold others.
LEMMA Releases ==
  ASSUME Types, LocksHeld, NEW r \in Reqs, pc[r] \in {"commit", "cleanup"}, Release(r), Return(r)
  PROVE  \A q \in Reqs : pc'[q] \in {"commit", "cleanup"} => holder'[Key(q)] = holder[Key(q)]
<1>. SUFFICES ASSUME NEW q \in Reqs, pc'[q] \in {"commit", "cleanup"}
              PROVE  holder'[Key(q)] = holder[Key(q)]
  OBVIOUS
<1>1. q # r /\ pc[q] \in {"commit", "cleanup"}
  BY Returns DEF Working
<1>2. holder[Key(q)] = q /\ holder[Key(r)] = r
  BY <1>1 DEF LocksHeld
<1>3. Key(q) # Key(r)
  BY <1>1, <1>2
<1>4. Key(q) \in Keys
  BY <1>1, KeyTypes
<1>. QED  BY <1>3, <1>4 DEF Release, Types

\* The quiet steps.
LEMMA QuietSteps ==
  ASSUME Types, LocksHeld
  PROVE  /\ \A u \in Uploads : Create(u) \/ Abort(u) => Quiet
         /\ \A r \in Reqs :
              /\ \A u \in Uploads, n \in PartNumbers, c \in Contents : StartPart(r, u, n, c) => Quiet
              /\ \A u \in Uploads, want \in Requested : StartComplete(r, u, want) => Quiet
              /\ SendFails(r) \/ DropPart(r) \/ RefuseComplete(r) \/ CommitFails(r) \/ EndSession(r) => Quiet
         /\ Crash \/ UNCHANGED vars => Quiet
<1>. DEFINE Kept == \A u \in Uploads : /\ ChunksOfAll(u)' \subseteq ChunksOfAll(u)
                                       /\ \A n \in PartNumbers : parts'[u][n] \in {parts[u][n], NoPart}
<1>0. parts' = parts => Kept
  BY DEF ChunksOfAll, PartsOf
<1>. HIDE DEF Kept
<1>1. ASSUME NEW u \in Uploads, Create(u)
      PROVE  Quiet
  <2>1. UNCHANGED <<telegram, rows, holder, pc, job>>
    BY <1>1, Created
  <2>2. Kept
    <3>1. ASSUME NEW o \in open \cup {u}, parts' = [parts EXCEPT ![o] = NoParts]
          PROVE  Kept
      BY <3>1 DEF Kept, Types, NoParts, ChunksOfAll, PartsOf
    <3>. QED  BY <1>0, <1>1, <3>1, Created
  <2>. QED  BY <2>1, <2>2 DEF Quiet, Kept, telegram, Key
<1>2. ASSUME NEW u \in Uploads, Abort(u)
      PROVE  Quiet
  BY <1>2, Forgets DEF Abort, Quiet, telegram, Key
<1>3. ASSUME NEW r \in Reqs, NEW u, NEW n, NEW c, StartPart(r, u, n, c)
      PROVE  Quiet
  <2>1. \A q \in Reqs : \/ q # r /\ pc'[q] = pc[q] /\ job'[q] = job[q]
                        \/ q = r /\ pc'[q] = "part" /\ job'[q].chunks = <<>> /\ job'[q].prev = <<>>
    BY <1>3 DEF StartPart, Set, Types, Idle
  <2>. QED  BY <1>0, <1>3, <2>1 DEF StartPart, Quiet, Kept, session, telegram, Key
<1>4. ASSUME NEW r \in Reqs, NEW u, NEW want, StartComplete(r, u, want)
      PROVE  Quiet
  <2>1. \A q \in Reqs : \/ q # r /\ pc'[q] = pc[q] /\ job'[q] = job[q]
                        \/ q = r /\ pc'[q] = "lock" /\ job'[q].prev = <<>>
    BY <1>4 DEF StartComplete, Set, Types, Idle
  <2>. QED  BY <1>0, <1>4, <2>1 DEF StartComplete, Quiet, Kept, session, telegram, Key, Working
<1>5. ASSUME NEW r \in Reqs, SendFails(r) \/ DropPart(r) \/ RefuseComplete(r)
      PROVE  Quiet
  <2>1. Return(r) /\ UNCHANGED <<parts, telegram, rows, holder>>
    BY <1>5 DEF SendFails, DropPart, RefuseComplete, session
  <2>. QED  BY <1>0, <2>1, Returns DEF Quiet, Kept, telegram, Key, Working
<1>6. ASSUME NEW r \in Reqs, CommitFails(r) \/ EndSession(r)
      PROVE  Quiet
  <2>1. Release(r) /\ Return(r) /\ pc[r] \in {"commit", "cleanup"} /\ UNCHANGED <<telegram, rows>>
    BY <1>6 DEF CommitFails, EndSession
  <2>2. Kept
    BY <1>0, <1>6, Forgets DEF CommitFails, EndSession, session, Kept
  <2>. QED  BY <2>1, <2>2, Returns, Releases DEF Quiet, Kept, telegram
<1>7. ASSUME Crash
      PROVE  Quiet
  BY <1>7, Forgets DEF Crash, Quiet, telegram, Working, Idle
<1>8. ASSUME UNCHANGED vars
      PROVE  Quiet
  BY <1>0, <1>8 DEF vars, session, telegram, Quiet, Kept, Key
<1>. QED  BY <1>1, <1>2, <1>3, <1>4, <1>5, <1>6, <1>7, <1>8

\* A quiet step brings no message into use.
LEMMA QuietUses ==
  ASSUME Types, Quiet
  PROVE  /\ \A u \in Uploads : \A m : Uses(u, m)' => Uses(u, m)
         /\ \A k \in Keys : RowOf(k)' = RowOf(k)
         /\ \A k \in Keys : \A m : ListedAt(k, m)' <=> ListedAt(k, m)
         /\ \A q \in Reqs : \A m : Working(q)' /\ m \in ToSet(job'[q].chunks) =>
              pc'[q] = pc[q] /\ job'[q] = job[q]
         /\ \A q \in Reqs : pc'[q] \in {"commit", "cleanup"} => pc'[q] = pc[q] /\ job'[q] = job[q]
<1>1. ToSet(<<>>) = {}
  BY DEF ToSet
<1>2. \A q \in Reqs : \A m : Working(q)' /\ m \in ToSet(job'[q].chunks) => pc'[q] = pc[q] /\ job'[q] = job[q]
  BY <1>1 DEF Quiet
<1>3. \A q \in Reqs : pc'[q] \in {"commit", "cleanup"} => pc'[q] = pc[q] /\ job'[q] = job[q]
  BY DEF Quiet, Working
<1>4. \A k \in Keys : RowOf(k)' = RowOf(k)
  BY DEF Quiet, RowOf
<1>5. \A u \in Uploads : \A m : Uses(u, m)' => Uses(u, m)
  BY <1>2 DEF Quiet, Uses, Working
<1>. QED  BY <1>2, <1>3, <1>4, <1>5 DEF ListedAt

\* So it keeps what is said of their use.
LEMMA QuietKeeps ==
  ASSUME Types, Usage, Quiet
  PROVE  /\ LocksHeld' /\ PrevIsRow' /\ OneOwner' /\ RowsApart' /\ Replaced' /\ OwnParts' /\ InUseLive'
         /\ (\A r \in Reqs : pc[r] = "cleanup" => pc'[r] = "cleanup" /\ job'[r] = job[r]) => ListedEnds'
<1>1. /\ \A u \in Uploads : \A m : Uses(u, m)' => Uses(u, m)
      /\ \A k \in Keys : RowOf(k)' = RowOf(k)
      /\ \A k \in Keys : \A m : ListedAt(k, m)' <=> ListedAt(k, m)
      /\ \A q \in Reqs : \A m : Working(q)' /\ m \in ToSet(job'[q].chunks) =>
           pc'[q] = pc[q] /\ job'[q] = job[q]
      /\ \A q \in Reqs : pc'[q] \in {"commit", "cleanup"} => pc'[q] = pc[q] /\ job'[q] = job[q]
  BY QuietUses
<1>2. LocksHeld'
  BY <1>1 DEF Usage, Quiet, LocksHeld, Key
<1>3. PrevIsRow'
  <2>1. ASSUME NEW r \in Reqs, pc'[r] = "commit"
        PROVE  job'[r].prev = RowOf(Key(r))'
    <3>1. pc[r] = "commit" /\ job'[r] = job[r]
      BY <1>1, <2>1
    <3>2. Key(r) \in Keys /\ Key(r)' = Key(r)
      BY <3>1, KeyTypes DEF Key
    <3>3. RowOf(Key(r))' = RowOf(Key(r))
      BY <3>2 DEF RowOf, Quiet
    <3>. QED  BY <3>1, <3>3 DEF Usage, PrevIsRow
  <2>. QED  BY <2>1 DEF PrevIsRow
<1>4. OneOwner' /\ RowsApart'
  BY <1>1 DEF Usage, OneOwner, RowsApart
<1>5. Replaced'
  BY <1>1 DEF Usage, Replaced
<1>6. OwnParts'
  <2>1. ASSUME NEW r \in Reqs, NEW m \in Messages, pc'[r] = "part", m \in ToSet(job'[r].chunks), UsedElsewhere(r, m)'
        PROVE  FALSE
    <3>1. pc[r] = "part" /\ m \in ToSet(job[r].chunks)
      BY <1>1, <2>1 DEF Working
    <3>2. UsedElsewhere(r, m)
      BY <1>1, <2>1 DEF UsedElsewhere, Working, Quiet
    <3>. QED  BY <3>1, <3>2 DEF Usage, OwnParts
  <2>. QED  BY <2>1 DEF OwnParts
<1>7. InUseLive'
  <2>1. \A q \in Reqs : ToSet(job'[q].prev) \subseteq 1..(next' - 1)
    <3>1. ToSet(<<>>) = {}
      BY DEF ToSet
    <3>2. \A q \in Reqs : job'[q] = job[q] \/ job'[q].prev = <<>>
      BY DEF Quiet
    <3>. QED  BY <3>1, <3>2 DEF Usage, InUseLive, Quiet
  <2>. QED  BY <1>1, <2>1 DEF Usage, InUseLive, Quiet
<1>8. ASSUME \A r \in Reqs : pc[r] = "cleanup" => pc'[r] = "cleanup" /\ job'[r] = job[r]
      PROVE  ListedEnds'
  BY <1>1, <1>8 DEF Usage, ListedEnds
<1>. QED  BY <1>2, <1>3, <1>4, <1>5, <1>6, <1>7, <1>8

\* The end of a session: what it has committed is in no session's use any more.
LEMMA EndSessionKeeps ==
  ASSUME Types, Usage, NEW r \in Reqs, EndSession(r)
  PROVE  Usage'
<1>1. Quiet
  BY QuietSteps DEF Usage
<1>2. SUFFICES ListedEnds'
  BY <1>1, QuietKeeps DEF Usage
<1>3. SUFFICES ASSUME NEW k \in Keys, NEW u \in Uploads, NEW m \in Messages, ListedAt(k, m)', Uses(u, m)'
               PROVE  /\ KeyOf[u] = k
                      /\ \E q \in Reqs : pc'[q] = "cleanup" /\ job'[q].upload = u /\ m \in ToSet(job'[q].chunks)
  BY DEF ListedEnds
<1>4. ListedAt(k, m) /\ Uses(u, m)
  BY <1>1, <1>3, QuietUses
<1>5. KeyOf[u] = k
  BY <1>4 DEF Usage, ListedEnds
<1>6. PICK q \in Reqs : pc[q] = "cleanup" /\ job[q].upload = u /\ m \in ToSet(job[q].chunks)
  BY <1>4 DEF Usage, ListedEnds
<1>7. \A p \in Reqs : \/ p # r /\ pc'[p] = pc[p] /\ job'[p] = job[p]
                      \/ p = r /\ ~Working(p)'
  BY Returns DEF EndSession
<1>8. CASE q # r
  BY <1>5, <1>6, <1>7, <1>8
<1>9. CASE q = r
  <2>1. ChunksOfAll(u)' = {}
    BY <1>6, <1>9, ForgetTypes DEF EndSession
  <2>2. PICK p \in Reqs : Working(p)' /\ job'[p].upload = u /\ m \in ToSet(job'[p].chunks)
    BY <1>3, <2>1 DEF Uses
  <2>3. p # r /\ Working(p) /\ job[p].upload = u /\ m \in ToSet(job[p].chunks)
    BY <1>7, <2>2 DEF Working
  <2>4. pc[p] # "part"
    BY <1>4, <2>3 DEF Usage, OwnParts, UsedElsewhere
  <2>5. holder[Key(p)] = p /\ holder[Key(r)] = r
    BY <1>6, <1>9, <2>3, <2>4 DEF Usage, LocksHeld, Working
  <2>6. Key(p) = Key(r)
    BY <1>6, <1>9, <2>3 DEF Key
  <2>. QED  BY <2>3, <2>5, <2>6
<1>. QED  BY <1>8, <1>9

\* After a crash no session uses any message.
LEMMA CrashKeeps ==
  ASSUME Types, Usage, Crash
  PROVE  Usage'
<1>1. Quiet
  BY QuietSteps DEF Usage
<1>2. \A u \in Uploads : \A m : ~Uses(u, m)'
  BY ForgetTypes DEF Crash, Uses, Working
<1>3. ListedEnds'
  BY <1>2 DEF ListedEnds
<1>. QED  BY <1>1, <1>3, QuietKeeps DEF Usage

\* A message that has just been posted is in nobody's use but the part's.
LEMMA SendKeeps ==
  ASSUME Types, Types', Usage, NEW r \in Reqs, SendChunk(r)
  PROVE  Usage'
<1>. DEFINE v == job[r].upload
<1>0. /\ next \in Messages /\ next \notin live /\ pc[r] = "part" /\ v \in Uploads
      /\ \A k \in Keys : ~ListedAt(k, next)
      /\ \A u \in Uploads : ~Uses(u, next)
      /\ \A q \in Reqs : next \notin ToSet(job[q].prev)
  <2>1. next \in Messages /\ next \notin 1..(next - 1) /\ pc[r] = "part"
    BY BoundsAssumption DEF SendChunk, Types, Messages
  <2>. QED  BY <2>1 DEF Types, Usage, InUseLive
<1>1. job[r].chunks \in Seq(Messages)
  BY DEF Types, Job
<1>2. /\ \A q \in Reqs : /\ pc'[q] = pc[q] /\ job'[q].upload = job[q].upload /\ job'[q].prev = job[q].prev
                         /\ job'[q].want = job[q].want
                         /\ q # r => job'[q].chunks = job[q].chunks
      /\ ToSet(job'[r].chunks) = ToSet(job[r].chunks) \cup {next}
  <2>1. job' = [job EXCEPT ![r].chunks = Append(@, next)] /\ pc' = pc
    BY DEF SendChunk
  <2>2. job'[r].chunks = Append(job[r].chunks, next)
    BY <2>1 DEF Types, Job
  <2>. QED  BY <1>1, <2>1, <2>2, Elements DEF Types, Job
<1>3. /\ UNCHANGED <<parts, rows, holder>> /\ live' = live \cup {next} /\ next' = next + 1
      /\ \A k \in Keys : RowOf(k)' = RowOf(k)
  BY DEF SendChunk, session, RowOf
<1>4. \A u \in Uploads : ChunksOfAll(u)' = ChunksOfAll(u)
  BY <1>3 DEF ChunksOfAll, PartsOf
<1>5. \A u \in Uploads : \A m : Uses(u, m)' <=> Uses(u, m) \/ (u = v /\ m = next)
  BY <1>0, <1>2, <1>4 DEF Uses, Working
<1>6. \A k \in Keys : \A m : ListedAt(k, m)' <=> ListedAt(k, m)
  BY <1>3 DEF ListedAt
<1>. HIDE DEF v
<1>7. LocksHeld'
  BY <1>2, <1>3 DEF Usage, LocksHeld, Key
<1>8. PrevIsRow'
  BY <1>2, <1>3, KeyTypes DEF Usage, PrevIsRow, Key
<1>9. OneOwner'
  BY <1>0, <1>5 DEF Usage, OneOwner
<1>10. ListedEnds'
  <2>1. ASSUME NEW k \in Keys, NEW u \in Uploads, NEW m \in Messages, ListedAt(k, m)', Uses(u, m)'
        PROVE  /\ KeyOf[u] = k
               /\ \E q \in Reqs : pc'[q] = "cleanup" /\ job'[q].upload = u /\ m \in ToSet(job'[q].chunks)
    <3>1. ListedAt(k, m) /\ Uses(u, m)
      BY <1>0, <1>5, <1>6, <2>1
    <3>2. /\ KeyOf[u] = k
          /\ \E q \in Reqs : pc[q] = "cleanup" /\ job[q].upload = u /\ m \in ToSet(job[q].chunks)
      BY <3>1 DEF Usage, ListedEnds
    <3>. QED  BY <1>0, <1>2, <3>2
  <2>. QED  BY <2>1 DEF ListedEnds
<1>11. RowsApart'
  BY <1>6 DEF Usage, RowsApart
<1>12. Replaced'
  BY <1>0, <1>2, <1>5, <1>6 DEF Usage, Replaced
<1>13. OwnParts'
  <2>1. ASSUME NEW q \in Reqs, NEW m \in Messages, pc'[q] = "part", m \in ToSet(job'[q].chunks), UsedElsewhere(q, m)'
        PROVE  FALSE
    <3>1. CASE m = next
      <4>1. q = r
        <5>1. SUFFICES ASSUME q # r PROVE FALSE
          OBVIOUS
        <5>2. Working(q) /\ m \in ToSet(job[q].chunks) /\ job[q].upload \in Uploads
          BY <1>2, <2>1, <5>1, KeyTypes DEF Working
        <5>3. Uses(job[q].upload, next)
          BY <3>1, <5>2 DEF Uses
        <5>. QED  BY <1>0, <5>2, <5>3
      <4>2. PICK p \in Reqs \ {r} : Working(p) /\ next \in ToSet(job[p].chunks)
        BY <1>0, <1>2, <1>4, <1>6, <2>1, <3>1, <4>1 DEF UsedElsewhere, Uses, Working
      <4>3. job[p].upload \in Uploads
        BY <4>2, KeyTypes DEF Working
      <4>4. Uses(job[p].upload, next)
        BY <4>2 DEF Uses
      <4>. QED  BY <1>0, <4>3, <4>4
    <3>2. CASE m # next
      <4>1. pc[q] = "part" /\ m \in ToSet(job[q].chunks)
        BY <1>2, <2>1, <3>2
      <4>2. UsedElsewhere(q, m)
        BY <1>2, <1>4, <1>6, <2>1, <3>2 DEF UsedElsewhere, Working
      <4>. QED  BY <4>1, <4>2 DEF Usage, OwnParts
    <3>. QED  BY <3>1, <3>2
  <2>. QED  BY <2>1 DEF OwnParts
<1>14. InUseLive'
  <2>1. \A q \in Reqs : ToSet(job'[q].prev) \subseteq 1..(next' - 1)
    <3>1. 1..(next - 1) \subseteq 1..(next' - 1)
      BY <1>3 DEF Types
    <3>. QED  BY <1>2, <3>1 DEF Usage, InUseLive
  <2>. QED  BY <1>3, <1>5, <1>6, <2>1 DEF Usage, InUseLive
<1>. QED  BY <1>7, <1>8, <1>9, <1>10, <1>11, <1>12, <1>13, <1>14 DEF Usage

\* A part that is recorded stays in the use of its session.
LEMMA RecordKeeps ==
  ASSUME Types, Types', Usage, NEW r \in Reqs, RecordPart(r)
  PROVE  Usage'
<1>. DEFINE v == job[r].upload
            C == ToSet(job[r].chunks)
<1>1. \A q \in Reqs : \/ q # r /\ pc'[q] = pc[q] /\ job'[q] = job[q]
                      \/ q = r /\ pc'[q] = "idle" /\ job'[q].prev = <<>>
  BY DEF RecordPart, Return, Set, Types, Idle
<1>2. UNCHANGED <<rows, holder, live, next>> /\ pc[r] = "part" /\ v \in Uploads
  BY DEF RecordPart, telegram, Types
<1>3. \A u \in Uploads : \A m : m \in ChunksOfAll(u)' => m \in ChunksOfAll(u) \/ (u = v /\ m \in C)
  <2>. DEFINE p == [etag |-> job[r].content, chunks |-> job[r].chunks]
              w == job[r].number
  <2>1. parts' = [parts EXCEPT ![v][w] = p]
    BY DEF RecordPart
  <2>2. p.chunks = job[r].chunks
    OBVIOUS
  <2>. HIDE DEF p, v, w
  <2>3. ASSUME NEW u \in Uploads, NEW m, m \in ChunksOfAll(u)'
        PROVE  m \in ChunksOfAll(u) \/ (u = v /\ m \in C)
    <3>1. PICK n \in PartNumbers : parts'[u][n] # NoPart /\ m \in ToSet(parts'[u][n].chunks)
      BY <2>3 DEF ChunksOfAll, PartsOf
    <3>2. parts'[u][n] = parts[u][n] \/ (u = v /\ parts'[u][n] = p)
      BY <1>2, <2>1 DEF Types
    <3>. QED  BY <2>2, <3>1, <3>2 DEF ChunksOfAll, PartsOf
  <2>. QED  BY <2>3
<1>4. \A k \in Keys : RowOf(k)' = RowOf(k)
  BY <1>2 DEF RowOf
<1>5. \A k \in Keys : \A m : ListedAt(k, m)' <=> ListedAt(k, m)
  BY <1>4 DEF ListedAt
<1>6. \A u \in Uploads : \A m : Uses(u, m)' => Uses(u, m)
  BY <1>1, <1>2, <1>3 DEF Uses, Working
<1>. HIDE DEF v
<1>7. LocksHeld' /\ PrevIsRow'
  BY <1>1, <1>2, <1>4, KeyTypes DEF Usage, LocksHeld, PrevIsRow, Key
<1>8. OneOwner' /\ RowsApart'
  BY <1>5, <1>6 DEF Usage, OneOwner, RowsApart
<1>9. ListedEnds'
  <2>1. \A q \in Reqs : pc[q] = "cleanup" => pc'[q] = "cleanup" /\ job'[q] = job[q]
    BY <1>1, <1>2
  <2>. QED  BY <1>5, <1>6, <2>1 DEF Usage, ListedEnds
<1>10. Replaced'
  <2>1. \A q \in Reqs : pc'[q] = "cleanup" => pc[q] = "cleanup" /\ job'[q] = job[q]
    BY <1>1
  <2>. QED  BY <1>5, <1>6, <2>1 DEF Usage, Replaced
<1>11. OwnParts'
  <2>1. ASSUME NEW q \in Reqs, NEW m \in Messages, pc'[q] = "part", m \in ToSet(job'[q].chunks), UsedElsewhere(q, m)'
        PROVE  FALSE
    <3>1. q # r /\ pc[q] = "part" /\ m \in ToSet(job[q].chunks)
      BY <1>1, <2>1
    <3>2. UsedElsewhere(q, m)
      BY <1>1, <1>2, <1>3, <1>5, <2>1, <3>1 DEF UsedElsewhere, Working
    <3>. QED  BY <3>1, <3>2 DEF Usage, OwnParts
  <2>. QED  BY <2>1 DEF OwnParts
<1>12. InUseLive'
  <2>1. \A q \in Reqs : ToSet(job'[q].prev) \subseteq 1..(next' - 1)
    <3>1. ToSet(<<>>) = {}
      BY DEF ToSet
    <3>. QED  BY <1>1, <1>2, <3>1 DEF Usage, InUseLive
  <2>. QED  BY <1>2, <1>5, <1>6, <2>1 DEF Usage, InUseLive
<1>. QED  BY <1>7, <1>8, <1>9, <1>10, <1>11, <1>12 DEF Usage

\* The parts a completion takes are in its session's use already.
LEMMA TakeKeeps ==
  ASSUME Types, Types', Usage, NEW r \in Reqs, TakeParts(r)
  PROVE  Usage'
<1>. DEFINE v == job[r].upload
<1>0. pc[r] = "lock" /\ v \in Uploads /\ Key(r) \in Keys /\ holder[Key(r)] = NoReq /\ r # NoReq
  BY KeyTypes, UploadsAssumption DEF TakeParts
<1>1. /\ job[r] \in Job /\ job[r].want \in Seq(PartNumbers \X Contents)
      /\ ToSet(Taken(v, job[r].want)) \subseteq ChunksOfAll(v)
  <2>1. job[r] \in Job /\ job[r].want \in Seq(PartNumbers \X Contents)
    BY DEF Types, Job
  <2>. QED  BY <1>0, <2>1, TakenTypes DEF TakeParts
<1>2. /\ \A q \in Reqs : q # r => pc'[q] = pc[q] /\ job'[q] = job[q]
      /\ pc'[r] = "commit" /\ job'[r].upload = v
      /\ ToSet(job'[r].chunks) \subseteq ChunksOfAll(v)
      /\ job'[r].prev = RowOf(Key(r))
  <2>. DEFINE j == [job[r] EXCEPT !.chunks = Taken(job[r].upload, job[r].want), !.prev = RowOf(Key(r))]
  <2>1. Set(r, "commit", j)
    BY DEF TakeParts
  <2>2. j.upload = v /\ j.chunks = Taken(v, job[r].want) /\ j.prev = RowOf(Key(r))
    BY <1>1 DEF Job
  <2>. HIDE DEF j
  <2>3. /\ \A q \in Reqs : q # r => pc'[q] = pc[q] /\ job'[q] = job[q]
        /\ pc'[r] = "commit" /\ job'[r] = j
    BY <2>1 DEF Set, Types
  <2>. QED  BY <1>1, <2>2, <2>3
<1>3. UNCHANGED <<parts, rows, live, next>> /\ holder' = [holder EXCEPT ![Key(r)] = r]
  BY DEF TakeParts, session, telegram
<1>4. /\ \A k \in Keys : RowOf(k)' = RowOf(k)
      /\ \A u \in Uploads : ChunksOfAll(u)' = ChunksOfAll(u)
  BY <1>3 DEF RowOf, ChunksOfAll, PartsOf
<1>5. \A k \in Keys : \A m : ListedAt(k, m)' <=> ListedAt(k, m)
  BY <1>4 DEF ListedAt
<1>6. \A u \in Uploads : \A m : Uses(u, m)' => Uses(u, m)
  BY <1>2, <1>4 DEF Uses, Working
<1>. HIDE DEF v
<1>7. LocksHeld'
  <2>1. ASSUME NEW q \in Reqs, pc'[q] \in {"commit", "cleanup"}
        PROVE  holder'[Key(q)'] = q
    <3>1. CASE q = r
      <4>1. Key(q)' = Key(r)
        BY <1>2, <3>1 DEF Key, v
      <4>. QED  BY <1>0, <1>3, <3>1, <4>1 DEF Types
    <3>2. CASE q # r
      <4>1. pc[q] \in {"commit", "cleanup"} /\ Key(q)' = Key(q) /\ q # NoReq
        BY <1>2, <2>1, <3>2, UploadsAssumption DEF Key
      <4>2. holder[Key(q)] = q /\ Key(q) \in Keys
        BY <4>1, KeyTypes DEF Usage, LocksHeld
      <4>3. Key(q) # Key(r)
        BY <1>0, <4>1, <4>2
      <4>. QED  BY <1>3, <4>1, <4>2, <4>3 DEF Types
    <3>. QED  BY <3>1, <3>2
  <2>. QED  BY <2>1 DEF LocksHeld
<1>8. PrevIsRow'
  <2>1. ASSUME NEW q \in Reqs, pc'[q] = "commit"
        PROVE  job'[q].prev = RowOf(Key(q))'
    <3>1. CASE q = r
      <4>1. Key(q)' = Key(r)
        BY <1>2, <3>1 DEF Key, v
      <4>2. RowOf(Key(q))' = RowOf(Key(r))
        BY <1>3, <4>1 DEF RowOf
      <4>. QED  BY <1>2, <3>1, <4>2
    <3>2. CASE q # r
      <4>1. pc[q] = "commit" /\ job'[q] = job[q]
        BY <1>2, <2>1, <3>2
      <4>2. RowOf(Key(q))' = RowOf(Key(q))
        BY <1>3, <4>1 DEF RowOf, Key
      <4>. QED  BY <4>1, <4>2 DEF Usage, PrevIsRow
    <3>. QED  BY <3>1, <3>2
  <2>. QED  BY <2>1 DEF PrevIsRow
<1>9. OneOwner' /\ RowsApart'
  BY <1>5, <1>6 DEF Usage, OneOwner, RowsApart
<1>10. ListedEnds'
  <2>1. \A q \in Reqs : pc[q] = "cleanup" => pc'[q] = "cleanup" /\ job'[q] = job[q]
    BY <1>0, <1>2
  <2>. QED  BY <1>5, <1>6, <2>1 DEF Usage, ListedEnds
<1>11. Replaced'
  <2>1. \A q \in Reqs : pc'[q] = "cleanup" => pc[q] = "cleanup" /\ job'[q] = job[q]
    BY <1>2
  <2>. QED  BY <1>5, <1>6, <2>1 DEF Usage, Replaced
<1>12. OwnParts'
  <2>1. ASSUME NEW q \in Reqs, NEW m \in Messages, pc'[q] = "part", m \in ToSet(job'[q].chunks), UsedElsewhere(q, m)'
        PROVE  FALSE
    <3>1. q # r /\ pc[q] = "part" /\ m \in ToSet(job[q].chunks)
      BY <1>2, <2>1
    <3>2. UsedElsewhere(q, m)
      BY <1>0, <1>2, <1>4, <1>5, <2>1, <3>1 DEF UsedElsewhere, Working
    <3>. QED  BY <3>1, <3>2 DEF Usage, OwnParts
  <2>. QED  BY <2>1 DEF OwnParts
<1>13. InUseLive'
  <2>1. \A q \in Reqs : ToSet(job'[q].prev) \subseteq 1..(next' - 1)
    <3>1. ToSet(RowOf(Key(r))) \subseteq 1..(next - 1)
      BY <1>0, RowTypes DEF Usage, InUseLive, ListedAt, Types
    <3>. QED  BY <1>2, <1>3, <3>1 DEF Usage, InUseLive
  <2>. QED  BY <1>3, <1>5, <1>6, <2>1 DEF Usage, InUseLive
<1>. QED  BY <1>7, <1>8, <1>9, <1>10, <1>11, <1>12, <1>13 DEF Usage

\* The row that is committed names what only its session uses, and the row it
\* replaces is in nobody's use.
LEMMA CommitKeeps ==
  ASSUME Types, Types', Usage, NEW r \in Reqs, Commit(r)
  PROVE  Usage'
<1>. DEFINE v == job[r].upload
            l == Key(r)
            C == ToSet(job[r].chunks)
<1>0. /\ pc[r] = "commit" /\ v \in Uploads /\ l \in Keys /\ KeyOf[v] = l /\ holder[l] = r
      /\ job[r].chunks \in Seq(Messages) /\ C \subseteq Messages
      /\ job[r].prev = RowOf(l)
  <2>1. pc[r] = "commit" /\ job[r].chunks \in Seq(Messages)
    BY DEF Commit, Types, Job
  <2>. QED  BY <2>1, KeyTypes, Elements DEF Usage, LocksHeld, PrevIsRow
<1>1. \A q \in Reqs : /\ q # r => pc'[q] = pc[q]
                      /\ q = r => pc'[q] = "cleanup"
  BY DEF Commit, Types
<1>2. UNCHANGED <<parts, live, next, holder, job>> /\ rows' = [rows EXCEPT ![l] = job[r].chunks]
  BY DEF Commit, session, telegram
<1>3. \A u \in Uploads : \A m : Uses(u, m)' <=> Uses(u, m)
  BY <1>0, <1>1, <1>2 DEF Uses, Working, ChunksOfAll, PartsOf
<1>4. /\ \A k \in Keys : k # l => RowOf(k)' = RowOf(k)
      /\ \A k \in Keys : k = l => ToSet(RowOf(k)') \subseteq C
  <2>1. ToSet(<<>>) = {}
    BY DEF ToSet
  <2>2. /\ \A k \in Keys : k # l => rows'[k] = rows[k]
        /\ \A k \in Keys : k = l => rows'[k] = job[r].chunks
    BY <1>0, <1>2 DEF Types
  <2>. QED  BY <2>1, <2>2 DEF RowOf
<1>5. \A k \in Keys : \A m : ListedAt(k, m)' => (k # l /\ ListedAt(k, m)) \/ (k = l /\ m \in C)
  BY <1>4 DEF ListedAt
<1>6. \A m \in C : Uses(v, m)
  BY <1>0 DEF Uses, Working
<1>7. \A k \in Keys, m \in C : k # l => ~ListedAt(k, m)
  BY <1>0, <1>6 DEF Usage, ListedEnds
<1>8. \A q \in Reqs : pc[q] = "cleanup" => Key(q) # l
  BY <1>0 DEF Usage, LocksHeld
<1>. HIDE DEF v, l, C
<1>9. LocksHeld'
  BY <1>1, <1>2, <1>0 DEF Usage, LocksHeld, Key, l
<1>10. PrevIsRow'
  <2>1. ASSUME NEW q \in Reqs, pc'[q] = "commit"
        PROVE  job'[q].prev = RowOf(Key(q))'
    <3>1. q # r /\ pc[q] = "commit" /\ job'[q] = job[q]
      BY <1>1, <1>2, <2>1
    <3>2. Key(q) # l /\ Key(q) \in Keys
      BY <1>0, <3>1, KeyTypes DEF Usage, LocksHeld
    <3>3. RowOf(Key(q))' = RowOf(Key(q))
      BY <1>2, <3>1, <3>2 DEF RowOf, Key, Types
    <3>. QED  BY <3>1, <3>3 DEF Usage, PrevIsRow
  <2>. QED  BY <2>1 DEF PrevIsRow
<1>11. OneOwner'
  BY <1>3 DEF Usage, OneOwner
<1>12. ListedEnds'
  <2>1. ASSUME NEW k \in Keys, NEW u \in Uploads, NEW m \in Messages, ListedAt(k, m)', Uses(u, m)'
        PROVE  /\ KeyOf[u] = k
               /\ \E q \in Reqs : pc'[q] = "cleanup" /\ job'[q].upload = u /\ m \in ToSet(job'[q].chunks)
    <3>1. Uses(u, m)
      BY <1>3, <2>1
    <3>2. CASE k # l
      <4>1. ListedAt(k, m)
        BY <1>5, <2>1, <3>2
      <4>2. KeyOf[u] = k
        BY <3>1, <4>1 DEF Usage, ListedEnds
      <4>3. PICK q \in Reqs : pc[q] = "cleanup" /\ job[q].upload = u /\ m \in ToSet(job[q].chunks)
        BY <3>1, <4>1 DEF Usage, ListedEnds
      <4>4. q # r
        BY <1>0, <4>3
      <4>. QED  BY <1>1, <1>2, <4>2, <4>3, <4>4
    <3>3. CASE k = l
      <4>1. m \in C
        BY <1>5, <2>1, <3>3
      <4>2. u = v
        BY <1>0, <1>6, <3>1, <4>1 DEF Usage, OneOwner
      <4>. QED  BY <1>0, <1>1, <1>2, <3>3, <4>1, <4>2 DEF v, C
    <3>. QED  BY <3>2, <3>3
  <2>. QED  BY <2>1 DEF ListedEnds
<1>13. RowsApart'
  <2>1. ASSUME NEW j \in Keys, NEW k \in Keys, NEW m \in Messages, ListedAt(j, m)', ListedAt(k, m)'
        PROVE  j = k
    BY <1>5, <1>7, <2>1 DEF Usage, RowsApart
  <2>. QED  BY <2>1 DEF RowsApart
<1>14. Replaced'
  <2>1. ASSUME NEW q \in Reqs, NEW m \in Messages, pc'[q] = "cleanup", m \in ToSet(job'[q].prev)
        PROVE  (\A k \in Keys : ~ListedAt(k, m)') /\ (\A u \in Uploads : ~Uses(u, m)')
    <3>1. CASE q = r
      <4>1. ListedAt(l, m)
        BY <1>0, <1>2, <2>1, <3>1 DEF ListedAt
      <4>2. \A u \in Uploads : ~Uses(u, m)
        <5>1. ASSUME NEW u \in Uploads, Uses(u, m) PROVE FALSE
          <6>1. KeyOf[u] = l
            BY <1>0, <4>1, <5>1 DEF Usage, ListedEnds
          <6>2. PICK p \in Reqs : pc[p] = "cleanup" /\ job[p].upload = u
            BY <1>0, <4>1, <5>1 DEF Usage, ListedEnds
          <6>. QED  BY <1>8, <6>1, <6>2 DEF Key
        <5>. QED  BY <5>1
      <4>3. m \notin C
        BY <1>0, <1>6, <4>2
      <4>4. \A k \in Keys : k # l => ~ListedAt(k, m)
        BY <1>0, <4>1 DEF Usage, RowsApart
      <4>. QED  BY <1>3, <1>5, <4>2, <4>3, <4>4
    <3>2. CASE q # r
      <4>1. /\ \A k \in Keys : ~ListedAt(k, m)
            /\ \A u \in Uploads : ~Uses(u, m)
        BY <1>1, <1>2, <2>1, <3>2 DEF Usage, Replaced
      <4>2. m \notin C
        BY <1>0, <1>6, <4>1
      <4>. QED  BY <1>3, <1>5, <4>1, <4>2
    <3>. QED  BY <3>1, <3>2
  <2>. QED  BY <2>1 DEF Replaced
<1>15. OwnParts'
  <2>1. ASSUME NEW q \in Reqs, NEW m \in Messages, pc'[q] = "part", m \in ToSet(job'[q].chunks), UsedElsewhere(q, m)'
        PROVE  FALSE
    <3>1. q # r /\ pc[q] = "part" /\ m \in ToSet(job[q].chunks)
      BY <1>1, <1>2, <2>1
    <3>2. m \in C => UsedElsewhere(q, m)
      BY <1>0, <3>1 DEF UsedElsewhere, Working, C
    <3>3. UsedElsewhere(q, m)
      BY <1>0, <1>1, <1>2, <1>5, <2>1, <3>2 DEF UsedElsewhere, Working, ChunksOfAll, PartsOf
    <3>. QED  BY <3>1, <3>3 DEF Usage, OwnParts
  <2>. QED  BY <2>1 DEF OwnParts
<1>16. InUseLive'
  BY <1>0, <1>2, <1>3, <1>5, <1>6 DEF Usage, InUseLive
<1>. QED  BY <1>9, <1>10, <1>11, <1>12, <1>13, <1>14, <1>15, <1>16 DEF Usage

\* What is deleted was in nobody's use.
LEMMA CleanUpKeeps ==
  ASSUME Types, Types', Usage, NEW r \in Reqs, CleanUp(r)
  PROVE  Usage'
<1>. DEFINE x == Head(job[r].prev)
<1>0. /\ pc[r] = "cleanup" /\ job[r] \in Job /\ x \in ToSet(job[r].prev) /\ x \in Messages
      /\ ToSet(Tail(job[r].prev)) \subseteq ToSet(job[r].prev)
  <2>1. pc[r] = "cleanup" /\ job[r] \in Job /\ job[r].prev \in Seq(Messages) /\ job[r].prev # <<>>
    BY DEF CleanUp, Types, Job
  <2>. QED  BY <2>1, Elements
<1>1. \A q \in Reqs : /\ pc'[q] = pc[q] /\ job'[q].upload = job[q].upload /\ job'[q].chunks = job[q].chunks
                      /\ ToSet(job'[q].prev) \subseteq ToSet(job[q].prev)
                      /\ pc[q] # "cleanup" => job'[q] = job[q]
  <2>1. job' = [job EXCEPT ![r] = [job[r] EXCEPT !.prev = Tail(@)]] /\ pc' = pc
    BY DEF CleanUp, Types
  <2>2. job'[r].prev = Tail(job[r].prev) /\ job'[r].chunks = job[r].chunks /\ job'[r].upload = job[r].upload
    BY <1>0, <2>1 DEF Types, Job
  <2>. QED  BY <1>0, <2>1, <2>2 DEF Types
<1>2. UNCHANGED <<parts, next, rows, holder>> /\ live \ {x} \subseteq live'
  BY DEF CleanUp, session
<1>3. /\ \A k \in Keys : RowOf(k)' = RowOf(k)
      /\ \A u \in Uploads : ChunksOfAll(u)' = ChunksOfAll(u)
  BY <1>2 DEF RowOf, ChunksOfAll, PartsOf
<1>4. \A k \in Keys : \A m : ListedAt(k, m)' <=> ListedAt(k, m)
  BY <1>3 DEF ListedAt
<1>5. \A u \in Uploads : \A m : Uses(u, m)' <=> Uses(u, m)
  BY <1>1, <1>3 DEF Uses, Working
<1>6. (\A k \in Keys : ~ListedAt(k, x)) /\ (\A u \in Uploads : ~Uses(u, x))
  BY <1>0 DEF Usage, Replaced
<1>. HIDE DEF x
<1>7. LocksHeld' /\ PrevIsRow'
  <2>1. \A q \in Reqs : Key(q)' = Key(q)
    BY <1>1 DEF Key
  <2>2. LocksHeld'
    BY <1>1, <1>2, <2>1 DEF Usage, LocksHeld
  <2>3. \A q \in Reqs : pc[q] = "commit" => RowOf(Key(q))' = RowOf(Key(q))
    BY <1>2, <2>1 DEF RowOf
  <2>. QED  BY <1>1, <2>2, <2>3 DEF Usage, PrevIsRow
<1>8. OneOwner' /\ RowsApart'
  BY <1>4, <1>5 DEF Usage, OneOwner, RowsApart
<1>9. ListedEnds'
  BY <1>1, <1>4, <1>5 DEF Usage, ListedEnds
<1>10. Replaced'
  BY <1>1, <1>4, <1>5 DEF Usage, Replaced
<1>11. OwnParts'
  BY <1>1, <1>3, <1>4 DEF Usage, OwnParts, UsedElsewhere, Working
<1>12. InUseLive'
  <2>1. \A q \in Reqs : ToSet(job'[q].prev) \subseteq 1..(next' - 1)
    BY <1>1, <1>2 DEF Usage, InUseLive
  <2>2. \A k \in Keys, m \in Messages : ListedAt(k, m)' => m \in live'
    BY <1>2, <1>4, <1>6 DEF Usage, InUseLive
  <2>3. \A u \in Uploads, m \in Messages : Uses(u, m)' => m \in live'
    BY <1>2, <1>5, <1>6 DEF Usage, InUseLive
  <2>. QED  BY <2>1, <2>2, <2>3 DEF InUseLive
<1>. QED  BY <1>7, <1>8, <1>9, <1>10, <1>11, <1>12 DEF Usage

LEMMA InitUsage == Init => Usage
<1>. HAVE Init
<1>1. ToSet(<<>>) = {}
  BY DEF ToSet
<1>2. \A k \in Keys : \A m : ~ListedAt(k, m)
  BY <1>1 DEF Init, ListedAt, RowOf
<1>3. \A u \in Uploads : \A m : ~Uses(u, m)
  BY DEF Init, Uses, Working, ChunksOfAll, PartsOf, NoParts
<1>4. \A r \in Reqs : pc[r] = "idle" /\ ToSet(job[r].prev) = {}
  BY <1>1 DEF Init, Idle
<1>. QED  BY <1>2, <1>3, <1>4 DEF Usage, LocksHeld, PrevIsRow, OneOwner, ListedEnds, RowsApart, Replaced,
                                  OwnParts, InUseLive

LEMMA UsageStep == Types /\ Types' /\ Usage /\ [Next]_vars => Usage'
<1>. SUFFICES ASSUME Types, Types', Usage, [Next]_vars PROVE Usage'
  OBVIOUS
<1>. DEFINE Calm == \A r \in Reqs : pc[r] = "cleanup" => pc'[r] = "cleanup" /\ job'[r] = job[r]
<1>0. Quiet /\ Calm => Usage'
  BY QuietKeeps DEF Usage
<1>1. ASSUME NEW u \in Uploads, Create(u) \/ Abort(u)
      PROVE  Quiet /\ Calm
  BY <1>1, QuietSteps DEF Usage, Create, Abort
<1>2. ASSUME NEW r \in Reqs, NEW u \in Uploads, NEW n \in PartNumbers, NEW c \in Contents, StartPart(r, u, n, c)
      PROVE  Quiet /\ Calm
  <2>1. Quiet
    BY <1>2, QuietSteps DEF Usage
  <2>2. Calm
    BY <1>2 DEF StartPart, Set, Types
  <2>. QED  BY <2>1, <2>2
<1>3. ASSUME NEW r \in Reqs, NEW u \in Uploads, NEW want \in Requested, StartComplete(r, u, want)
      PROVE  Quiet /\ Calm
  <2>1. Quiet
    BY <1>3, QuietSteps DEF Usage
  <2>2. Calm
    BY <1>3 DEF StartComplete, Set, Types
  <2>. QED  BY <2>1, <2>2
<1>4. ASSUME NEW r \in Reqs, SendFails(r) \/ DropPart(r) \/ RefuseComplete(r) \/ CommitFails(r)
      PROVE  Quiet /\ Calm
  <2>1. Quiet
    BY <1>4, QuietSteps DEF Usage
  <2>2. Return(r) /\ pc[r] # "cleanup"
    BY <1>4 DEF SendFails, DropPart, RefuseComplete, CommitFails
  <2>. QED  BY <2>1, <2>2, Returns
<1>5. CASE UNCHANGED vars
  <2>1. Quiet
    BY <1>5, QuietSteps DEF Usage
  <2>2. Calm
    BY <1>5 DEF vars
  <2>. QED  BY <1>0, <2>1, <2>2
<1>. HIDE DEF Calm
<1>. QED  BY <1>0, <1>1, <1>2, <1>3, <1>4, <1>5, SendKeeps, RecordKeeps, TakeKeeps, CommitKeeps, CleanUpKeeps,
             EndSessionKeeps, CrashKeeps DEF Next, Advance, Locking

-------------------------------------------------------------------------------
(* The log                                                                 *)

\* What the log reports was posted.
LoggedPosted == logged \subseteq 1..(next - 1)

\* A step that logs messages leaves the rows alone, and the messages are in use
\* by a session or about to be deleted.
LEMMA LogsOnly ==
  ASSUME Types, [Next]_vars, NEW m \in logged' \ logged
  PROVE  /\ rows' = rows
         /\ \/ \E u \in Uploads : Uses(u, m)
            \/ \E r \in Reqs : pc[r] = "cleanup" /\ m \in ToSet(job[r].prev)
<1>. DEFINE Goal == /\ rows' = rows
                    /\ \/ \E u \in Uploads : Uses(u, m)
                       \/ \E r \in Reqs : pc[r] = "cleanup" /\ m \in ToSet(job[r].prev)
<1>1. ASSUME NEW u \in Uploads, Create(u)
      PROVE  Goal
  <2>1. rows' = rows /\ open \cup {u} \subseteq Uploads
    BY <1>1, Created
  <2>2. PICK o \in open \cup {u} : logged' = logged \cup ChunksOfAll(o)
    BY <1>1, Created
  <2>. QED  BY <2>1, <2>2 DEF Uses
<1>2. ASSUME NEW u \in Uploads, Abort(u)
      PROVE  Goal
  BY <1>2 DEF Abort, Uses
<1>3. ASSUME NEW r \in Reqs, SendFails(r)
      PROVE  Goal
  <2>1. Working(r) /\ m \in ToSet(job[r].chunks) /\ job[r].upload \in Uploads
    BY <1>3 DEF SendFails, Working, Types
  <2>. QED  BY <1>3, <2>1 DEF SendFails, Uses
<1>4. ASSUME NEW r \in Reqs, RecordPart(r)
      PROVE  Goal
  <2>. DEFINE old == parts[job[r].upload][job[r].number]
  <2>1. job[r].upload \in Uploads /\ job[r].number \in PartNumbers
    BY <1>4 DEF RecordPart, Types
  <2>2. old # NoPart /\ m \in ToSet(old.chunks)
    BY <1>4 DEF RecordPart
  <2>3. m \in ChunksOfAll(job[r].upload)
    BY <2>1, <2>2, SessionChunks
  <2>. QED  BY <1>4, <2>1, <2>3 DEF RecordPart, Uses
<1>5. ASSUME NEW r \in Reqs, CleanUp(r)
      PROVE  Goal
  <2>1. job[r].prev \in Seq(Messages) /\ job[r].prev # <<>> /\ m = Head(job[r].prev)
    BY <1>5 DEF CleanUp, Types, Job
  <2>2. m \in ToSet(job[r].prev)
    BY <2>1, Elements
  <2>. QED  BY <1>5, <2>2 DEF CleanUp
<1>6. ASSUME NEW r \in Reqs, SendChunk(r) \/ DropPart(r) \/ Commit(r) \/ CommitFails(r) \/ EndSession(r) \/ Locking(r)
      PROVE  FALSE
  BY <1>6 DEF SendChunk, DropPart, Commit, CommitFails, EndSession, Locking, TakeParts, RefuseComplete
<1>7. ASSUME NEW r \in Reqs, NEW u, NEW n, NEW c, NEW want, StartPart(r, u, n, c) \/ StartComplete(r, u, want)
      PROVE  FALSE
  BY <1>7 DEF StartPart, StartComplete
<1>8. ~Crash /\ ~(UNCHANGED vars)
  BY DEF Crash, vars
<1>. HIDE DEF Goal
<1>9. Goal
  BY <1>1, <1>2, <1>3, <1>4, <1>5, <1>6, <1>7, <1>8 DEF Next, Advance
<1>. QED  BY <1>9 DEF Goal

LEMMA LoggedStep == Types /\ Types' /\ Usage /\ LoggedPosted /\ [Next]_vars => LoggedPosted'
<1>. SUFFICES ASSUME Types, Types', Usage, LoggedPosted, [Next]_vars, NEW m \in logged'
              PROVE  m \in 1..(next' - 1)
  BY DEF LoggedPosted
<1>1. next' \in Nat /\ next <= next'
  <2>1. next' = next \/ next' = next + 1
    BY DEF Next, vars, Create, Abort, StartPart, StartComplete, Advance, SendChunk, SendFails, DropPart, RecordPart,
           Commit, CommitFails, CleanUp, EndSession, Locking, TakeParts, RefuseComplete, Crash, telegram
  <2>. QED  BY <2>1 DEF Types
<1>2. m \in 1..(next - 1)
  <2>1. CASE m \in logged
    BY <2>1 DEF LoggedPosted
  <2>2. CASE m \notin logged
    <3>1. m \in Messages
      BY DEF Types
    <3>. QED  BY <2>2, <3>1, LogsOnly DEF Usage, InUseLive, Types
  <2>. QED  BY <2>1, <2>2
<1>3. next \in Nat
  BY DEF Types
<1>4. \A a, b \in Nat : a <= b => 1..(a - 1) \subseteq 1..(b - 1)
  OBVIOUS
<1>. QED  BY <1>1, <1>2, <1>3, <1>4, Zenon

-------------------------------------------------------------------------------
(* What the messages hold                                                  *)

\* A recorded part holds the content of its ETag.
PartsHold == \A u \in Uploads, n \in PartNumbers :
  parts[u][n] # NoPart => Each(holds, parts[u][n].chunks) = Body(parts[u][n].etag)

\* An unfinished part has sent the first chunks of its content.
Sending == \A r \in Reqs : pc[r] = "part" =>
  /\ Len(job[r].chunks) <= SizeOf[job[r].content]
  /\ \A i \in 1..Len(job[r].chunks) : holds[job[r].chunks[i]] = <<job[r].content, i>>

\* A completion about to commit has the contents it was asked for.
Assembled == \A r \in Reqs : pc[r] = "commit" => Each(holds, job[r].chunks) = Asked(job[r].want)

Content == PartsHold /\ Sending /\ Assembled

\* The sizes of contents are numbers.
LEMMA Sizes == \A c \in Contents : SizeOf[c] \in Nat
BY PartsAssumption

\* A message that is posted changes nothing for those posted before.
LEMMA SendContent ==
  ASSUME Types, Types', Usage, Content, NEW r \in Reqs, SendChunk(r)
  PROVE  Content'
<1>. DEFINE j == job[r]
<1>0. /\ next \in Messages /\ next \notin live /\ pc[r] = "part" /\ job[r] \in Job /\ job[r].content \in Contents
      /\ Len(job[r].chunks) < SizeOf[job[r].content]
  <2>1. next \in Messages /\ next \notin 1..(next - 1) /\ pc[r] = "part"
    BY BoundsAssumption DEF SendChunk, Types, Messages
  <2>2. job[r] \in Job /\ job[r].content \in Contents /\ Len(job[r].chunks) \in Nat
    BY <2>1 DEF Types, Job
  <2>3. Len(job[r].chunks) <= SizeOf[job[r].content] /\ Len(job[r].chunks) # SizeOf[job[r].content]
    BY <2>1 DEF Content, Sending, SendChunk, AllSent, Sent
  <2>. QED  BY <2>1, <2>2, <2>3, Sizes DEF Types
<1>1. /\ \A m \in Messages : m # next => holds'[m] = holds[m]
      /\ holds'[next] = <<job[r].content, Len(job[r].chunks) + 1>>
  BY <1>0 DEF SendChunk, Types, Sent
<1>2. \A u \in Uploads : \A m : Uses(u, m) => m # next
  BY <1>0 DEF Usage, InUseLive
<1>3. \A s \in Seq(Messages) : next \notin ToSet(s) => Each(holds', s) = Each(holds, s)
  BY <1>1 DEF Each, ToSet
<1>4. PartsHold'
  <2>1. ASSUME NEW u \in Uploads, NEW n \in PartNumbers, parts[u][n] # NoPart
        PROVE  Each(holds', parts[u][n].chunks) = Each(holds, parts[u][n].chunks)
    <3>1. parts[u][n].chunks \in Seq(Messages) /\ ToSet(parts[u][n].chunks) \subseteq ChunksOfAll(u)
      BY <2>1, SessionChunks DEF Part
    <3>2. next \notin ToSet(parts[u][n].chunks)
      BY <1>2, <3>1 DEF Uses
    <3>. QED  BY <1>3, <3>1, <3>2
  <2>2. parts' = parts
    BY DEF SendChunk, session
  <2>. QED  BY <2>1, <2>2 DEF Content, PartsHold
<1>5. /\ \A q \in Reqs : pc'[q] = pc[q] /\ (q # r => job'[q] = job[q])
      /\ job'[r].chunks = Append(job[r].chunks, next) /\ job'[r].content = job[r].content
  <2>1. job' = [job EXCEPT ![r].chunks = Append(@, next)] /\ pc' = pc
    BY DEF SendChunk
  <2>. QED  BY <2>1 DEF Types, Job
<1>6. \A q \in Reqs : Working(q) /\ job[q].chunks \in Seq(Messages) => next \notin ToSet(job[q].chunks)
  <2>1. ASSUME NEW q \in Reqs, Working(q), next \in ToSet(job[q].chunks)
        PROVE  FALSE
    <3>1. job[q].upload \in Uploads
      BY <2>1 DEF Working, Types
    <3>2. Uses(job[q].upload, next)
      BY <2>1 DEF Uses
    <3>. QED  BY <1>2, <3>1, <3>2
  <2>. QED  BY <2>1
<1>7. Sending'
  <2>1. ASSUME NEW q \in Reqs, pc'[q] = "part", q # r
        PROVE  /\ Len(job'[q].chunks) <= SizeOf[job'[q].content]
               /\ \A i \in 1..Len(job'[q].chunks) : holds'[job'[q].chunks[i]] = <<job'[q].content, i>>
    <3>1. job'[q] = job[q] /\ pc[q] = "part" /\ job[q].chunks \in Seq(Messages)
      BY <1>5, <2>1 DEF Types, Job
    <3>2. next \notin ToSet(job[q].chunks)
      BY <1>6, <3>1 DEF Working
    <3>3. \A i \in 1..Len(job[q].chunks) : job[q].chunks[i] \in Messages /\ job[q].chunks[i] # next
      BY <3>1, <3>2 DEF ToSet
    <3>. QED  BY <1>1, <3>1, <3>3 DEF Content, Sending
  <2>2. /\ Len(job'[r].chunks) <= SizeOf[job'[r].content]
        /\ \A i \in 1..Len(job'[r].chunks) : holds'[job'[r].chunks[i]] = <<job'[r].content, i>>
    <3>. DEFINE s == job[r].chunks
                c == job[r].content
    <3>1. s \in Seq(Messages) /\ next \notin ToSet(s) /\ SizeOf[c] \in Nat
      BY <1>0, <1>6, Sizes DEF Job, Working
    <3>2. \A i \in 1..Len(s) : holds[s[i]] = <<c, i>> /\ s[i] \in Messages /\ s[i] # next
      <4>1. \A i \in 1..Len(s) : s[i] \in Messages /\ s[i] # next
        BY <3>1 DEF ToSet
      <4>. QED  BY <1>0, <4>1 DEF Content, Sending
    <3>3. Len(s) < SizeOf[c] /\ holds'[next] = <<c, Len(s) + 1>>
      BY <1>0, <1>1
    <3>4. job'[r].chunks = Append(s, next) /\ job'[r].content = c
      BY <1>5
    <3>. HIDE DEF s, c
    <3>5. \A i \in 1..Len(Append(s, next)) : holds'[Append(s, next)[i]] = <<c, i>>
      <4>1. \A i \in 1..(Len(s) + 1) : Append(s, next)[i] = IF i = Len(s) + 1 THEN next ELSE s[i]
        BY <3>1
      <4>2. Len(Append(s, next)) = Len(s) + 1 /\ Len(s) \in Nat
        BY <3>1
      <4>3. ASSUME NEW i \in 1..(Len(s) + 1)
            PROVE  holds'[Append(s, next)[i]] = <<c, i>>
        <5>1. CASE i = Len(s) + 1
          BY <3>3, <4>1, <5>1
        <5>2. CASE i # Len(s) + 1
          <6>1. i \in 1..Len(s)
            BY <4>2, <5>2
          <6>2. Append(s, next)[i] = s[i]
            BY <4>1, <5>2
          <6>3. holds[s[i]] = <<c, i>> /\ s[i] \in Messages /\ s[i] # next
            BY <3>2, <6>1
          <6>. QED  BY <1>1, <6>2, <6>3
        <5>. QED  BY <5>1, <5>2
      <4>. QED  BY <4>2, <4>3
    <3>6. Len(Append(s, next)) <= SizeOf[c]
      BY <3>1, <3>3
    <3>. QED  BY <3>4, <3>5, <3>6
  <2>. QED  BY <2>1, <2>2 DEF Sending
<1>8. Assembled'
  <2>1. ASSUME NEW q \in Reqs, pc'[q] = "commit"
        PROVE  Each(holds', job'[q].chunks) = Asked(job'[q].want)
    <3>1. job'[q] = job[q] /\ pc[q] = "commit" /\ job[q].chunks \in Seq(Messages)
      BY <1>0, <1>5, <2>1 DEF Types, Job
    <3>2. next \notin ToSet(job[q].chunks)
      BY <1>6, <3>1 DEF Working
    <3>. QED  BY <1>3, <3>1, <3>2 DEF Content, Assembled
  <2>. QED  BY <2>1 DEF Assembled
<1>. QED  BY <1>4, <1>7, <1>8 DEF Content

\* A part whose chunks are all sent holds its content.
LEMMA RecordContent ==
  ASSUME Types, Types', Content, NEW r \in Reqs, RecordPart(r)
  PROVE  Content'
<1>. DEFINE p == [etag |-> job[r].content, chunks |-> job[r].chunks]
            v == job[r].upload
            w == job[r].number
<1>1. Each(holds, job[r].chunks) = Body(job[r].content)
  <2>1. pc[r] = "part" /\ Len(job[r].chunks) = SizeOf[job[r].content]
    BY DEF RecordPart, AllSent, Sent
  <2>. QED  BY <2>1 DEF Content, Sending, Each, Body
<1>2. holds' = holds /\ parts' = [parts EXCEPT ![v][w] = p] /\ Return(r)
  BY DEF RecordPart, telegram
<1>3. p.chunks = job[r].chunks /\ p.etag = job[r].content
  OBVIOUS
<1>. HIDE DEF p, v, w
<1>4. \A u \in Uploads, n \in PartNumbers : parts'[u][n] = parts[u][n] \/ parts'[u][n] = p
  BY <1>2 DEF Types
<1>5. PartsHold'
  BY <1>1, <1>2, <1>3, <1>4 DEF Content, PartsHold
<1>6. \A q \in Reqs : Working(q)' => pc'[q] = pc[q] /\ job'[q] = job[q]
  BY <1>2, Returns
<1>. QED  BY <1>2, <1>5, <1>6 DEF Content, Sending, Assembled, Working

\* The parts that match a list hold what it asks for.
LEMMA TakeContent ==
  ASSUME Types, Types', Content, NEW r \in Reqs, TakeParts(r)
  PROVE  Content'
<1>. DEFINE v == job[r].upload
            want == job[r].want
            j == [job[r] EXCEPT !.chunks = Taken(job[r].upload, job[r].want), !.prev = RowOf(Key(r))]
            s == [i \in DOMAIN want |-> parts[v][want[i][1]].chunks]
            t == [i \in DOMAIN want |-> Body(want[i][2])]
            B == Chunks \cup {NoPart}
<1>1. job[r] \in Job /\ v \in Uploads /\ want \in Seq(PartNumbers \X Contents) /\ Matches(v, want)
  BY DEF TakeParts, Types, Job
<1>2. ASSUME NEW i \in 1..Len(want)
      PROVE  /\ parts[v][want[i][1]].chunks \in Seq(Messages)
             /\ Body(want[i][2]) \in Seq(B)
             /\ Body(want[i][2]) = Each(holds, parts[v][want[i][1]].chunks)
  <2>1. want[i] \in PartNumbers \X Contents /\ i \in DOMAIN want
    BY <1>1
  <2>2. /\ want[i][1] \in PartNumbers /\ want[i][2] \in Contents /\ parts[v][want[i][1]] # NoPart
        /\ parts[v][want[i][1]].etag = want[i][2]
    BY <1>1, <2>1 DEF Matches
  <2>3. parts[v][want[i][1]].chunks \in Seq(Messages)
    BY <1>1, <2>2, SessionChunks DEF Part
  <2>4. Body(want[i][2]) = Each(holds, parts[v][want[i][1]].chunks)
    BY <1>1, <2>2 DEF Content, PartsHold
  <2>5. Body(want[i][2]) \in Seq(B)
    BY <2>2, Sizes DEF Body, Chunks
  <2>. QED  BY <2>3, <2>4, <2>5
<1>3. /\ s \in Seq(Seq(Messages)) /\ t \in Seq(Seq(B)) /\ Len(t) = Len(s)
      /\ \A i \in 1..Len(s) : t[i] = Each(holds, s[i])
  <2>1. DOMAIN want = 1..Len(want) /\ Len(want) \in Nat
    BY <1>1
  <2>2. s \in Seq(Seq(Messages)) /\ t \in Seq(Seq(B)) /\ Len(t) = Len(want) /\ Len(s) = Len(want)
    <3>. HIDE DEF B, want
    <3>. QED  BY <1>2, <2>1
  <2>3. \A i \in 1..Len(want) : t[i] = Body(want[i][2]) /\ s[i] = parts[v][want[i][1]].chunks
    BY <2>1
  <2>. HIDE DEF s, t, B
  <2>. QED  BY <1>2, <2>2, <2>3
<1>4. holds \in [Messages -> B]
  BY DEF Types
<1>5. FlattenSeq(s) = Taken(v, want) /\ FlattenSeq(t) = Asked(want)
  BY DEF Taken, Asked
<1>. HIDE DEF s, t, B
<1>6. Each(holds, Taken(v, want)) = Asked(want)
  BY <1>3, <1>4, <1>5, FlattenMaps
<1>7. j.chunks = Taken(v, want) /\ j.want = want
  BY <1>1 DEF Job
<1>8. Set(r, "commit", j) /\ UNCHANGED <<parts, holds>>
  BY DEF TakeParts, session, telegram
<1>. HIDE DEF j, v, want
<1>9. /\ \A q \in Reqs : q # r => pc'[q] = pc[q] /\ job'[q] = job[q]
      /\ pc'[r] = "commit" /\ job'[r] = j
  BY <1>8 DEF Set, Types
<1>10. PartsHold'
  BY <1>8 DEF Content, PartsHold
<1>11. Sending'
  BY <1>8, <1>9 DEF Content, Sending
<1>12. Assembled'
  BY <1>6, <1>7, <1>8, <1>9 DEF Content, Assembled
<1>. QED  BY <1>10, <1>11, <1>12 DEF Content

\* Quiet steps change no content.
LEMMA QuietContent ==
  ASSUME Types, Types', Content, Quiet
  PROVE  Content'
<1>1. PartsHold'
  BY DEF Quiet, Content, PartsHold
<1>2. Sending'
  <2>1. ASSUME NEW q \in Reqs, pc'[q] = "part"
        PROVE  /\ Len(job'[q].chunks) <= SizeOf[job'[q].content]
               /\ \A i \in 1..Len(job'[q].chunks) : holds'[job'[q].chunks[i]] = <<job'[q].content, i>>
    <3>1. CASE pc'[q] = pc[q] /\ job'[q] = job[q]
      BY <2>1, <3>1 DEF Quiet, Content, Sending
    <3>2. CASE job'[q].chunks = <<>>
      <4>1. SizeOf[job'[q].content] \in Nat
        BY <2>1, Sizes DEF Types
      <4>. QED  BY <3>2, <4>1
    <3>. QED  BY <2>1, <3>1, <3>2 DEF Quiet, Working
  <2>. QED  BY <2>1 DEF Sending
<1>3. Assembled'
  <2>1. \A q \in Reqs : pc'[q] = "commit" => pc[q] = "commit" /\ job'[q] = job[q]
    BY QuietUses
  <2>. QED  BY <2>1 DEF Quiet, Content, Assembled
<1>. QED  BY <1>1, <1>2, <1>3 DEF Content

\* Committing and cleaning up change none either.
LEMMA DoneContent ==
  ASSUME Types, Types', Content, NEW r \in Reqs, Commit(r) \/ CleanUp(r)
  PROVE  Content'
<1>1. UNCHANGED <<parts, holds>>
  BY DEF Commit, CleanUp, session, telegram
<1>2. \A q \in Reqs : pc'[q] \in {"part", "commit"} => pc'[q] = pc[q] /\ job'[q] = job[q]
  BY DEF Commit, CleanUp, Types
<1>. QED  BY <1>1, <1>2 DEF Content, PartsHold, Sending, Assembled

LEMMA ContentStep == Types /\ Types' /\ Usage /\ Content /\ [Next]_vars => Content'
<1>. SUFFICES ASSUME Types, Types', Usage, Content, [Next]_vars PROVE Content'
  OBVIOUS
<1>1. Quiet => Content'
  BY QuietContent
<1>2. LocksHeld
  BY DEF Usage
<1>. QED  BY <1>1, <1>2, QuietSteps, SendContent, RecordContent, TakeContent, DoneContent DEF Next, Advance, Locking

-------------------------------------------------------------------------------
(* Theorems                                                                *)

\* The inductive invariant.
IInv == Types /\ Sessions /\ Usage /\ LoggedPosted /\ Content

LEMMA IInvHolds == Spec => []IInv
<1>1. Init => IInv
  <2>1. Init => LoggedPosted
    BY DEF Init, LoggedPosted
  <2>2. Init => Content
    BY DEF Init, Content, PartsHold, Sending, Assembled, NoParts
  <2>. QED  BY <2>1, <2>2, InitTypes, InitUsage DEF IInv
<1>2. IInv /\ [Next]_vars => IInv'
  BY TypesStep, SessionsStep, UsageStep, LoggedStep, ContentStep DEF IInv
<1>. QED  BY <1>1, <1>2, PTL DEF Spec

\* In every reachable state sessions, parts, rows and the log are well formed:
\* there are never more sessions than the cap, and nothing is named that
\* Telegram has not posted (store.go:285-331).
THEOREM MultipartTypes == Spec => []TypeOK
<1>1. IInv => TypeOK
  <2>. SUFFICES ASSUME IInv PROVE TypeOK
    OBVIOUS
  <2>. USE DEF IInv
  <2>1. ASSUME NEW u \in Uploads, NEW p \in PartsOf(u)
        PROVE  p.etag \in Contents /\ ToSet(p.chunks) \subseteq 1..(next - 1)
    <3>1. PICK n \in PartNumbers : parts[u][n] = p /\ p # NoPart
      BY DEF PartsOf
    <3>2. p \in Part /\ ToSet(p.chunks) \subseteq ChunksOfAll(u) /\ ChunksOfAll(u) \subseteq Messages
      BY <3>1, SessionChunks
    <3>. QED  BY <3>2 DEF Part, Usage, InUseLive, Uses, Types
  <2>2. \A k \in Keys : ToSet(RowOf(k)) \subseteq 1..(next - 1)
    BY RowTypes DEF Usage, InUseLive, ListedAt, Types
  <2>. QED  BY <2>1, <2>2 DEF TypeOK, Types, Sessions, LoggedPosted
<1>. QED  BY <1>1, IInvHolds, PTL

\* Every message that an object lists exists: no clean-up, of however many
\* completions, deletes what an object names (store.go:494-526).
THEOREM ListedLive == Spec => []ListedIsLive
<1>1. IInv => ListedIsLive
  BY RowTypes DEF IInv, ListedIsLive, Usage, InUseLive, ListedAt
<1>. QED  BY <1>1, IInvHolds, PTL

\* A completion commits the concatenation of the contents whose ETags it was
\* asked for, whatever happens to the session meanwhile (store.go:499-520).
THEOREM CompletesAsAsked == Spec => CommitsWhatWasAsked
<1>1. ASSUME IInv, [Next]_vars, NEW r \in Reqs, pc[r] = "commit", pc'[r] = "cleanup"
      PROVE  [i \in DOMAIN rows'[Key(r)] |-> holds[rows'[Key(r)][i]]] = Asked(job[r].want)
  <2>1. ~Quiet
    BY <1>1 DEF Quiet, Working
  <2>2. ASSUME NEW q \in Reqs, SendChunk(q) \/ RecordPart(q) \/ TakeParts(q) \/ CleanUp(q)
        PROVE  FALSE
    BY <1>1, <2>2 DEF SendChunk, RecordPart, TakeParts, CleanUp, Return, Set, IInv, Types
  <2>3. ASSUME NEW q \in Reqs, Commit(q)
        PROVE  q = r
    BY <1>1, <2>3 DEF Commit, IInv, Types
  <2>4. Commit(r)
    BY <1>1, <2>1, <2>2, <2>3, QuietSteps DEF IInv, Usage, Next, Advance, Locking
  <2>5. Key(r) \in Keys /\ job[r].chunks \in Seq(Messages)
    BY <1>1, KeyTypes DEF IInv, Types, Job
  <2>6. rows'[Key(r)] = job[r].chunks
    <3>1. rows' = [rows EXCEPT ![Key(r)] = job[r].chunks]
      BY <2>4 DEF Commit
    <3>2. DOMAIN rows = Keys
      BY <1>1 DEF IInv, Types
    <3>. QED  BY <2>5, <3>1, <3>2
  <2>7. Each(holds, job[r].chunks) = Asked(job[r].want)
    BY <1>1 DEF IInv, Content, Assembled
  <2>. QED  BY <2>5, <2>6, <2>7 DEF Each
<1>2. IInv /\ [Next]_vars => [\A r \in Reqs : pc[r] = "commit" /\ pc'[r] = "cleanup" =>
          [i \in DOMAIN rows'[Key(r)] |-> holds[rows'[Key(r)][i]]] = Asked(job[r].want)]_vars
  BY <1>1
<1>. QED  BY <1>2, IInvHolds, PTL DEF Spec, CommitsWhatWasAsked

\* The log calls a listed message an orphan only while the completion that has
\* committed it ends its session (store.go:315-331, 516-549).
THEOREM FalseOrphans == Spec => FalseOrphansAreRaces
<1>1. ASSUME IInv, [Next]_vars, NEW m \in logged' \ logged, Listed(m)'
      PROVE  \E r \in Reqs : pc[r] = "cleanup" /\ m \in ToSet(job[r].chunks)
  <2>1. /\ rows' = rows
        /\ \/ \E u \in Uploads : Uses(u, m)
           \/ \E r \in Reqs : pc[r] = "cleanup" /\ m \in ToSet(job[r].prev)
    BY <1>1, LogsOnly DEF IInv
  <2>2. PICK k \in Keys : ListedAt(k, m)
    BY <1>1, <2>1 DEF Listed, ListedAt, RowOf
  <2>3. m \in Messages
    BY <1>1, <2>2, RowTypes DEF IInv, ListedAt
  <2>4. PICK u \in Uploads : Uses(u, m)
    BY <1>1, <2>1, <2>2, <2>3 DEF IInv, Usage, Replaced
  <2>. QED  BY <1>1, <2>2, <2>3, <2>4 DEF IInv, Usage, ListedEnds
<1>2. IInv /\ [Next]_vars => [\A m \in logged' \ logged : Listed(m)' =>
          \E r \in Reqs : pc[r] = "cleanup" /\ m \in ToSet(job[r].chunks)]_vars
  BY <1>1
<1>. QED  BY <1>2, IInvHolds, PTL DEF Spec, FalseOrphansAreRaces

===============================================================================
