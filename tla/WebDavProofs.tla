------------------------------ MODULE WebDavProofs ------------------------------
(***************************************************************************)
(* WebDAV for any number of requests, any names, paths and contents.       *)
(***************************************************************************)
EXTENDS WebDav, FiniteSetTheorems, WellFoundedInduction, TLAPS

-------------------------------------------------------------------------------
(* Keys and their order                                                    *)

\* Counting up from zero reaches every number.
LEMMA Counting ==
  ASSUME NEW T \in SUBSET Nat, 0 \in T, \A n \in T : n + 1 \in T
  PROVE  T = Nat
<1>. DEFINE R == OpToRel(<, Nat)
            M == Nat \ T
<1>1. SUFFICES ASSUME M # {} PROVE FALSE
  OBVIOUS
<1>2. PICK x \in M : \A y \in M : <<y, x>> \notin R
  <2>1. IsWellFoundedOn(R, Nat)
    BY NatLessThanWellFounded, Zenon
  <2>. HIDE DEF R
  <2>. QED  BY <1>1, <2>1, WFMin
<1>. HIDE DEF R
<1>3. x \in Nat /\ x \notin T
  OBVIOUS
<1>4. x - 1 \in Nat /\ x - 1 < x /\ (x - 1) + 1 = x
  <2>1. x # 0
    BY <1>3
  <2>. QED  BY <1>3, <2>1
<1>5. <<x - 1, x>> \in R
  BY <1>3, <1>4 DEF R, OpToRel
<1>6. x - 1 \in T
  BY <1>2, <1>4, <1>5
<1>7. (x - 1) + 1 \in T
  BY <1>6
<1>. QED  BY <1>3, <1>4, <1>7

\* What the path of a key is made of: names, and at its end perhaps the empty
\* name of a marker.
IsKey(key) == /\ key \in Seq(Names \cup {0}) /\ key # <<>>
              /\ \A i \in 1..Len(key) : key[i] = 0 => i = Len(key)

\* A strict prefix, name by name.
LEMMA PrefixByName ==
  ASSUME NEW A, NEW s \in Seq(A), NEW t \in Seq(A)
  PROVE  IsStrictPrefix(s, t) <=> Len(s) < Len(t) /\ \A i \in 1..Len(s) : s[i] = t[i]
<1>1. ASSUME Len(s) <= Len(t)
      PROVE  SubSeq(s, 1, Len(s)) = s /\ SubSeq(t, 1, Len(s)) = [i \in 1..Len(s) |-> t[i]]
  BY <1>1
<1>2. s = [i \in 1..Len(s) |-> s[i]] /\ DOMAIN s = 1..Len(s) /\ Len(s) \in Nat /\ Len(t) \in Nat
  OBVIOUS
<1>3. ASSUME IsStrictPrefix(s, t)
      PROVE  Len(s) < Len(t) /\ \A i \in 1..Len(s) : s[i] = t[i]
  <2>1. Len(s) <= Len(t) /\ s # t /\ s = [i \in 1..Len(s) |-> t[i]]
    BY <1>1, <1>3 DEF IsStrictPrefix, IsPrefix
  <2>2. \A i \in 1..Len(s) : s[i] = t[i]
    BY <2>1
  <2>3. Len(s) # Len(t)
    BY <2>1, <2>2
  <2>. QED  BY <2>1, <2>2, <2>3, <1>2
<1>4. ASSUME Len(s) < Len(t), \A i \in 1..Len(s) : s[i] = t[i]
      PROVE  IsStrictPrefix(s, t)
  <2>1. [i \in 1..Len(s) |-> t[i]] = [i \in 1..Len(s) |-> s[i]]
    BY <1>4
  <2>2. SubSeq(s, 1, Len(s)) = SubSeq(t, 1, Len(s))
    BY <1>1, <1>2, <1>4, <2>1
  <2>. QED  BY <1>2, <1>4, <2>2 DEF IsStrictPrefix, IsPrefix
<1>. QED  BY <1>3, <1>4

\* The order of the keys is strict.
LEMMA BeforeIsStrict ==
  /\ \A a \in Seq(Nat) : ~Before(a, a)
  /\ \A a, b, c \in Seq(Nat) : Before(a, b) /\ Before(b, c) => Before(a, c)
<1>. DEFINE Pre(s, t)     == Len(s) < Len(t) /\ \A i \in 1..Len(s) : s[i] = t[i]
            At(s, t, i)   == i \in 1..Len(s) /\ i \in 1..Len(t) /\ s[i] < t[i] /\ \A j \in 1..(i - 1) : s[j] = t[j]
<1>1. \A s, t \in Seq(Nat) : Before(s, t) <=> Pre(s, t) \/ \E i \in Nat : At(s, t, i)
  <2>. TAKE s, t \in Seq(Nat)
  <2>1. DOMAIN s = 1..Len(s) /\ DOMAIN t = 1..Len(t)
    OBVIOUS
  <2>2. IsStrictPrefix(s, t) <=> Pre(s, t)
    BY PrefixByName
  <2>3. (\E i \in DOMAIN s \cap DOMAIN t : s[i] < t[i] /\ \A j \in 1..(i - 1) : s[j] = t[j]) <=> \E i \in Nat : At(s, t, i)
    <3>1. \A i : i \in DOMAIN s \cap DOMAIN t <=> i \in Nat /\ i \in 1..Len(s) /\ i \in 1..Len(t)
      BY <2>1
    <3>. QED  BY <3>1, Zenon
  <2>. HIDE DEF Pre, At
  <2>. QED  BY <2>2, <2>3, Zenon DEF Before
<1>2. ASSUME NEW a \in Seq(Nat) PROVE ~Before(a, a)
  BY <1>1
<1>3. ASSUME NEW a \in Seq(Nat), NEW b \in Seq(Nat), NEW c \in Seq(Nat), Before(a, b), Before(b, c)
      PROVE  Before(a, c)
  <2>0. Len(a) \in Nat /\ Len(b) \in Nat /\ Len(c) \in Nat
    OBVIOUS
  <2>1. CASE Pre(a, b) /\ Pre(b, c)
    <3>1. Pre(a, c)
      <4>1. Len(a) < Len(c) /\ \A i \in 1..Len(a) : i \in 1..Len(b)
        BY <2>0, <2>1
      <4>2. \A i \in 1..Len(a) : a[i] = b[i] /\ b[i] = c[i]
        BY <2>1, <4>1
      <4>. QED  BY <4>1, <4>2
    <3>. QED  BY <1>1, <3>1
  <2>2. ASSUME Pre(a, b), NEW i \in Nat, At(b, c, i) PROVE Before(a, c)
    <3>1. CASE i <= Len(a)
      <4>1. At(a, c, i)
        BY <2>2, <3>1
      <4>. HIDE DEF Pre, At
      <4>. QED  BY <1>1, <4>1
    <3>2. CASE i > Len(a)
      <4>1. Pre(a, c)
        BY <2>2, <3>2
      <4>. HIDE DEF Pre, At
      <4>. QED  BY <1>1, <4>1
    <3>. QED  BY <3>1, <3>2
  <2>3. ASSUME NEW i \in Nat, At(a, b, i), Pre(b, c) PROVE Before(a, c)
    <3>1. At(a, c, i)
      BY <2>3
    <3>. HIDE DEF Pre, At
    <3>. QED  BY <1>1, <3>1
  <2>4. ASSUME NEW i \in Nat, NEW j \in Nat, At(a, b, i), At(b, c, j) PROVE Before(a, c)
    <3>1. CASE i <= j
      <4>1. i \in 1..Len(a) /\ i \in 1..Len(c)
        BY <2>0, <2>4, <3>1
      <4>2. \A k \in 1..(i - 1) : k \in 1..(j - 1)
        BY <3>1
      <4>3. \A k \in 1..(i - 1) : a[k] = b[k] /\ b[k] = c[k]
        BY <2>4, <4>2
      <4>4. a[i] < b[i] /\ (b[i] = c[i] \/ b[i] < c[i]) /\ a[i] \in Nat /\ b[i] \in Nat /\ c[i] \in Nat
        <5>1. i = j \/ i \in 1..(j - 1)
          BY <2>4, <3>1
        <5>2. a[i] \in Nat /\ b[i] \in Nat /\ c[i] \in Nat
          <6>1. i \in 1..Len(b)
            BY <2>4
          <6>. HIDE DEF At, Pre
          <6>. QED  BY <4>1, <6>1
        <5>3. a[i] < b[i]
          BY <2>4
        <5>4. b[i] = c[i] \/ b[i] < c[i]
          BY <2>4, <5>1
        <5>. QED  BY <5>2, <5>3, <5>4
      <4>5. At(a, c, i)
        BY <4>1, <4>3, <4>4
      <4>. HIDE DEF Pre, At
      <4>. QED  BY <1>1, <4>5
    <3>2. CASE j < i
      <4>1. At(a, c, j)
        BY <2>4, <3>2
      <4>. HIDE DEF Pre, At
      <4>. QED  BY <1>1, <4>1
    <3>. QED  BY <3>1, <3>2
  <2>5. (Pre(a, b) \/ \E i \in Nat : At(a, b, i)) /\ (Pre(b, c) \/ \E i \in Nat : At(b, c, i))
    BY <1>1, <1>3
  <2>. HIDE DEF Pre, At
  <2>. QED  BY <2>1, <2>2, <2>3, <2>4, <2>5
<1>. QED  BY <1>2, <1>3

\* Some key of a finite set is the last in their order.
LEMMA LastExists ==
  ASSUME NEW T, IsFiniteSet(T), T # {}, T \subseteq Seq(Nat)
  PROVE  LastOf(T) \in T
<1>. DEFINE HasLast(S) == \E key \in S : \A other \in S : ~Before(key, other)
            N == {n \in Nat : \A S \in SUBSET T : Cardinality(S) = n /\ S # {} => HasLast(S)}
<1>1. 0 \in N
  <2>1. \A S \in SUBSET T : Cardinality(S) = 0 => S = {}
    BY FS_Subset, FS_EmptySet
  <2>. QED  BY <2>1
<1>2. ASSUME NEW n \in N PROVE n + 1 \in N
  <2>1. SUFFICES ASSUME NEW S \in SUBSET T, Cardinality(S) = n + 1, S # {}
                 PROVE  HasLast(S)
    <3>. HIDE DEF HasLast
    <3>. QED  OBVIOUS
  <2>2. PICK x : x \in S
    BY <2>1
  <2>3. IsFiniteSet(S) /\ S \ {x} \in SUBSET T
    BY FS_Subset
  <2>4. Cardinality(S \ {x}) = n
    <3>1. Cardinality(S \ {x}) = Cardinality(S) - 1
      BY <2>2, <2>3, FS_RemoveElement
    <3>. QED  BY <3>1, <2>1
  <2>5. CASE S \ {x} = {}
    <3>1. \A other \in S : other = x
      BY <2>5
    <3>. QED  BY <2>2, <3>1, BeforeIsStrict
  <2>6. CASE S \ {x} # {}
    <3>1. PICK m \in S \ {x} : \A other \in S \ {x} : ~Before(m, other)
      BY <2>3, <2>4, <2>6
    <3>2. x \in Seq(Nat) /\ m \in Seq(Nat) /\ S \subseteq Seq(Nat) /\ m \in S
      BY <2>2, <3>1
    <3>3. CASE Before(m, x)
      <4>1. \A other \in S : ~Before(x, other)
        BY <3>1, <3>2, <3>3, BeforeIsStrict
      <4>. QED  BY <2>2, <4>1
    <3>4. CASE ~Before(m, x)
      <4>1. \A other \in S : ~Before(m, other)
        BY <3>1, <3>4
      <4>. QED  BY <3>2, <4>1
    <3>. QED  BY <3>3, <3>4
  <2>. QED  BY <2>5, <2>6
<1>. HIDE DEF N
<1>3. N \in SUBSET Nat
  BY DEF N
<1>4. N = Nat
  BY <1>1, <1>2, <1>3, Counting, Zenon
<1>5. Cardinality(T) \in Nat
  BY FS_CardinalityType
<1>6. HasLast(T)
  BY <1>4, <1>5 DEF N
<1>. QED  BY <1>6, Zenon DEF LastOf

-------------------------------------------------------------------------------
(* The fold of copyPrefixInTx                                              *)

Start(r) == [rows |-> r, hit |-> FALSE]

\* The fold over the sets in D of keys read from r.
Folded(r, src, dst, D, g) ==
  g = [s \in D |-> IF s = {} THEN Start(r)
                   ELSE CopyOne(src, dst, r, g[s \ {LastOf(s)}], LastOf(s))]

\* What each step does.
LEMMA FoldedStep ==
  ASSUME NEW r, NEW src, NEW dst, NEW D, NEW g, Folded(r, src, dst, D, g), NEW s \in D
  PROVE  g[s] = IF s = {} THEN Start(r) ELSE CopyOne(src, dst, r, g[s \ {LastOf(s)}], LastOf(s))
<1>. DEFINE F == [t \in D |-> IF t = {} THEN Start(r)
                              ELSE CopyOne(src, dst, r, g[t \ {LastOf(t)}], LastOf(t))]
<1>1. F[s] = IF s = {} THEN Start(r) ELSE CopyOne(src, dst, r, g[s \ {LastOf(s)}], LastOf(s))
  OBVIOUS
<1>2. g = F
  BY Zenon DEF Folded
<1>. HIDE DEF F
<1>. QED  BY <1>1, <1>2, Zenon

\* The fold over a finite set of keys exists.
LEMMA FoldExists ==
  ASSUME NEW r, NEW src, NEW dst, NEW S, IsFiniteSet(S), S \subseteq Seq(Nat)
  PROVE  \E g : Folded(r, src, dst, SUBSET S, g)
<1>. DEFINE Upto(n) == {s \in SUBSET S : Cardinality(s) <= n}
            N == {n \in Nat : \E g : Folded(r, src, dst, Upto(n), g)}
            After(g, s) == IF s = {} THEN Start(r) ELSE CopyOne(src, dst, r, g[s \ {LastOf(s)}], LastOf(s))
<1>0. \A s \in SUBSET S : IsFiniteSet(s) /\ Cardinality(s) \in Nat
  BY FS_Subset, FS_CardinalityType
<1>6. \A s \in SUBSET S : s # {} => /\ LastOf(s) \in s /\ s \ {LastOf(s)} \in SUBSET S
                                    /\ Cardinality(s \ {LastOf(s)}) = Cardinality(s) - 1
  <2>1. SUFFICES ASSUME NEW s \in SUBSET S, s # {}
                 PROVE  /\ LastOf(s) \in s /\ s \ {LastOf(s)} \in SUBSET S
                        /\ Cardinality(s \ {LastOf(s)}) = Cardinality(s) - 1
    BY Zenon
  <2>2. LastOf(s) \in s
    BY <1>0, <2>1, LastExists
  <2>. QED  BY <1>0, <2>2, FS_RemoveElement
<1>1. 0 \in N
  <2>. DEFINE g == [s \in Upto(0) |-> Start(r)]
  <2>1. \A s \in Upto(0) : s = {}
    BY <1>0, FS_EmptySet
  <2>2. Folded(r, src, dst, Upto(0), g)
    BY <2>1, Zenon DEF Folded
  <2>. QED  BY <2>2
<1>2. ASSUME NEW n \in N PROVE n + 1 \in N
  <2>1. PICK g : Folded(r, src, dst, Upto(n), g)
    OBVIOUS
  <2>. DEFINE h == [s \in Upto(n + 1) |-> After(g, s)]
  <2>2. \A s \in Upto(n) : g[s] = After(g, s)
    <3>. TAKE s \in Upto(n)
    <3>. HIDE DEF Upto
    <3>. QED  BY <2>1, FoldedStep
  <2>3. \A s \in Upto(n) : s \in Upto(n + 1) /\ h[s] = g[s]
    <3>1. \A s \in Upto(n) : s \in Upto(n + 1)
      BY <1>0
    <3>. HIDE DEF Upto, After
    <3>. QED  BY <2>2, <3>1
  <2>4. ASSUME NEW s \in Upto(n + 1)
        PROVE  h[s] = After(h, s)
    <3>1. h[s] = After(g, s)
      OBVIOUS
    <3>2. CASE s = {}
      BY <3>1, <3>2
    <3>3. CASE s # {}
      <4>1. s \ {LastOf(s)} \in Upto(n)
        <5>1. Cardinality(s) \in Nat /\ Cardinality(s) <= n + 1 /\ s \in SUBSET S /\ n \in Nat
          BY <1>0
        <5>2. s \ {LastOf(s)} \in SUBSET S /\ Cardinality(s \ {LastOf(s)}) = Cardinality(s) - 1
          BY <1>6, <3>3, <5>1
        <5>3. Cardinality(s) - 1 <= n
          BY <5>1
        <5>. QED  BY <5>2, <5>3
      <4>2. h[s \ {LastOf(s)}] = g[s \ {LastOf(s)}]
        BY <2>3, <4>1, Zenon
      <4>. HIDE DEF h
      <4>. QED  BY <3>1, <4>2, Zenon
    <3>. QED  BY <3>2, <3>3
  <2>5. Folded(r, src, dst, Upto(n + 1), h)
    <3>1. h = [s \in Upto(n + 1) |-> h[s]]
      BY Zenon
    <3>. HIDE DEF h, Upto
    <3>2. [s \in Upto(n + 1) |-> h[s]] = [s \in Upto(n + 1) |-> After(h, s)]
      BY <2>4, Zenon
    <3>. QED  BY <3>1, <3>2, Zenon DEF Folded
  <2>6. n + 1 \in Nat
    OBVIOUS
  <2>. HIDE DEF h, Upto
  <2>. QED  BY <2>5, <2>6, Zenon
<1>. HIDE DEF N
<1>3. N \in SUBSET Nat
  BY DEF N
<1>4. N = Nat
  BY <1>1, <1>2, <1>3, Counting, Zenon
<1>5. PICK g : Folded(r, src, dst, Upto(Cardinality(S)), g)
  BY <1>0, <1>4 DEF N
<1>7. Upto(Cardinality(S)) = SUBSET S
  <2>1. \A s \in SUBSET S : Cardinality(s) <= Cardinality(S)
    BY FS_Subset
  <2>. QED  BY <2>1
<1>. QED  BY <1>5, <1>7

\* CopyPrefix is the last step of the fold.
LEMMA CopyPrefixFolds ==
  ASSUME NEW r, NEW src, NEW dst, IsFiniteSet(Under(r, src)), Under(r, src) \subseteq Seq(Nat)
  PROVE  \E g : /\ Folded(r, src, dst, SUBSET Under(r, src), g)
                /\ CopyPrefix(r, src, dst) = g[Under(r, src)]
<1>. DEFINE S == Under(r, src)
            G == CHOOSE g : g = [s \in SUBSET S |-> IF s = {} THEN [rows |-> r, hit |-> FALSE]
                                                   ELSE CopyOne(src, dst, r, g[s \ {LastOf(s)}], LastOf(s))]
<1>1. \E g : g = [s \in SUBSET S |-> IF s = {} THEN [rows |-> r, hit |-> FALSE]
                                    ELSE CopyOne(src, dst, r, g[s \ {LastOf(s)}], LastOf(s))]
  <2>1. \E g : Folded(r, src, dst, SUBSET Under(r, src), g)
    BY FoldExists
  <2>. QED  BY <2>1, Zenon DEF Folded, Start
<1>2. G = [s \in SUBSET S |-> IF s = {} THEN [rows |-> r, hit |-> FALSE]
                              ELSE CopyOne(src, dst, r, G[s \ {LastOf(s)}], LastOf(s))]
  BY <1>1, Zenon
<1>3. CopyPrefix(r, src, dst) = G[S]
  BY Zenon DEF CopyPrefix, MapThenFoldSet
<1>. QED  BY <1>2, <1>3, Zenon DEF Folded, Start

\* Where copyPrefixInTx writes a key.
To(src, dst, key)  == dst \o Rest(src, key)
Tos(src, dst, keys) == {To(src, dst, key) : key \in keys}

RowsOf(V) == [meta : V, chunks : V]

\* No two keys are written to the same place, and none to where another one
\* is read from.
Separate(src, dst, keys) ==
  \A x, y \in keys : (To(src, dst, x) = To(src, dst, y) \/ To(src, dst, y) = x) => x = y

\* What the fold has made of r when it has gone through the keys in s.
Copied(V, r, src, dst, s, acc) ==
  /\ acc = [rows |-> acc.rows, hit |-> acc.hit]
  /\ acc.rows \in [DOMAIN r \cup Tos(src, dst, s) -> RowsOf(V)]
  /\ \A k \in DOMAIN r : k \notin Tos(src, dst, s) => acc.rows[k] = r[k]
  /\ acc.hit \in BOOLEAN
  /\ ~acc.hit => \A k \in Tos(src, dst, s) : k \notin DOMAIN r
  /\ Separate(src, dst, Under(r, src)) => \A x \in s : acc.rows[To(src, dst, x)] = r[x]

\* One row written.
LEMMA WrittenIn ==
  ASSUME NEW R, NEW D, NEW r \in [D -> R], NEW key, NEW row \in R
  PROVE  Written(r, key, row) \in [D \cup {key} -> R]
BY DEF Written

\* One step of the fold.
LEMMA CopyOneStep ==
  ASSUME NEW V, NEW r, NEW D, r \in [D -> RowsOf(V)], NEW src, NEW dst,
         NEW s \in SUBSET Under(r, src), NEW x \in s,
         NEW acc, Copied(V, r, src, dst, s \ {x}, acc)
  PROVE  Copied(V, r, src, dst, s, CopyOne(src, dst, r, acc, x))
<1>. DEFINE to   == To(src, dst, x)
            rest == Tos(src, dst, s \ {x})
            row  == Row(r[x].meta, acc.rows[x].chunks)
            new  == Written(acc.rows, to, row)
            hit  == acc.hit \/ to \in DOMAIN acc.rows
<1>1. CopyOne(src, dst, r, acc, x) = [rows |-> new, hit |-> hit]
  BY DEF CopyOne, To
<1>2. DOMAIN r = D /\ x \in D
  BY DEF Under
<1>3. Tos(src, dst, s) = rest \cup {to}
  BY DEF Tos
<1>4. acc.rows \in [D \cup rest -> RowsOf(V)] /\ DOMAIN acc.rows = D \cup rest
  BY <1>2 DEF Copied
<1>5. acc.rows[x] \in RowsOf(V) /\ r[x] \in RowsOf(V)
  BY <1>2, <1>4
<1>6. row \in RowsOf(V)
  BY <1>5 DEF RowsOf, Row
<1>. HIDE DEF to, rest, row
<1>7. /\ new \in [D \cup rest \cup {to} -> RowsOf(V)]
      /\ new[to] = row
      /\ \A k \in D \cup rest : k # to => new[k] = acc.rows[k]
  <2>. DEFINE old == acc.rows
              E   == D \cup rest
  <2>1. old \in [E -> RowsOf(V)]
    BY <1>4
  <2>2. DOMAIN old = E
    BY <1>4
  <2>. HIDE DEF old, E
  <2>3. Written(old, to, row) \in [E \cup {to} -> RowsOf(V)]
    BY <1>6, <2>1, WrittenIn
  <2>4. Written(old, to, row)[to] = row
    BY DEF Written
  <2>5. \A k \in E : k # to => Written(old, to, row)[k] = old[k]
    BY <2>2 DEF Written
  <2>. QED  BY <2>3, <2>4, <2>5 DEF old, E
<1>. HIDE DEF new
<1>8. new \in [DOMAIN r \cup Tos(src, dst, s) -> RowsOf(V)]
  BY <1>2, <1>3, <1>7
<1>9. \A k \in DOMAIN r : k \notin Tos(src, dst, s) => new[k] = r[k]
  <2>1. \A k \in DOMAIN r : k \notin rest => acc.rows[k] = r[k]
    BY DEF Copied, rest
  <2>. QED  BY <1>2, <1>3, <1>7, <2>1
<1>10. ~hit => \A k \in Tos(src, dst, s) : k \notin DOMAIN r
  <2>1. ~acc.hit => \A k \in rest : k \notin DOMAIN r
    BY DEF Copied, rest
  <2>. QED  BY <1>2, <1>3, <1>4, <2>1
<1>11. ASSUME Separate(src, dst, Under(r, src)), NEW y \in s
       PROVE  new[To(src, dst, y)] = r[y]
  <2>1. \A z \in s : z \in Under(r, src)
    OBVIOUS
  <2>2. CASE y = x
    <3>1. x \notin rest
      BY <1>11, <2>1 DEF rest, Tos, Separate
    <3>2. acc.rows[x] = r[x]
      BY <1>2, <3>1 DEF Copied, rest
    <3>3. r[x] = Row(r[x].meta, r[x].chunks)
      BY <1>5 DEF RowsOf, Row
    <3>. QED  BY <1>7, <2>2, <3>2, <3>3 DEF row, to
  <2>3. CASE y # x
    <3>1. To(src, dst, y) # to
      BY <1>11, <2>1, <2>3 DEF Separate, to
    <3>2. To(src, dst, y) \in rest
      BY <2>3 DEF rest, Tos
    <3>3. acc.rows[To(src, dst, y)] = r[y]
      BY <1>11, <2>3 DEF Copied
    <3>. QED  BY <1>7, <3>1, <3>2, <3>3
  <2>. QED  BY <2>2, <2>3
<1>12. hit \in BOOLEAN
  BY DEF Copied
<1>. HIDE DEF hit
<1>. QED  BY <1>1, <1>8, <1>9, <1>10, <1>11, <1>12 DEF Copied

\* What copyPrefixInTx does.
LEMMA CopyPrefixCopies ==
  ASSUME NEW V, NEW r, NEW D \in SUBSET Seq(Nat), IsFiniteSet(D), r \in [D -> RowsOf(V)],
         NEW src, NEW dst
  PROVE  Copied(V, r, src, dst, Under(r, src), CopyPrefix(r, src, dst))
<1>. DEFINE S == Under(r, src)
<1>1. S \subseteq D /\ IsFiniteSet(S) /\ DOMAIN r = D
  BY FS_Subset DEF Under
<1>2. PICK g : Folded(r, src, dst, SUBSET S, g) /\ CopyPrefix(r, src, dst) = g[S]
  <2>1. S \subseteq Seq(Nat)
    BY <1>1
  <2>. QED  BY <1>1, <2>1, CopyPrefixFolds
<1>10. \A s \in SUBSET S : g[s] = IF s = {} THEN Start(r)
                                  ELSE CopyOne(src, dst, r, g[s \ {LastOf(s)}], LastOf(s))
  <2>. DEFINE P == SUBSET S
  <2>1. Folded(r, src, dst, P, g)
    BY <1>2
  <2>. HIDE DEF P
  <2>2. \A s \in P : g[s] = IF s = {} THEN Start(r)
                            ELSE CopyOne(src, dst, r, g[s \ {LastOf(s)}], LastOf(s))
    <3>. TAKE s \in P
    <3>. QED  BY <2>1, FoldedStep
  <2>. QED  BY <2>2 DEF P
<1>. DEFINE N == {n \in Nat : \A s \in SUBSET S : Cardinality(s) = n => Copied(V, r, src, dst, s, g[s])}
<1>3. \A s \in SUBSET S : IsFiniteSet(s) /\ Cardinality(s) \in Nat
  BY <1>1, FS_Subset, FS_CardinalityType
<1>4. 0 \in N
  <2>1. \A s \in SUBSET S : Cardinality(s) = 0 => s = {}
    BY <1>3, FS_EmptySet
  <2>2. {} \in SUBSET S /\ g[{}] = Start(r)
    BY <1>10
  <2>3. Copied(V, r, src, dst, {}, Start(r))
    <3>1. DOMAIN r \cup Tos(src, dst, {}) = D /\ Tos(src, dst, {}) = {}
      BY <1>1 DEF Tos
    <3>. QED  BY <3>1 DEF Copied, Start
  <2>. QED  BY <2>1, <2>2, <2>3
<1>5. ASSUME NEW n \in N PROVE n + 1 \in N
  <2>1. SUFFICES ASSUME NEW s \in SUBSET S, Cardinality(s) = n + 1
                 PROVE  Copied(V, r, src, dst, s, g[s])
    <3>1. n + 1 \in Nat
      OBVIOUS
    <3>. QED  BY <3>1, Zenon
  <2>. DEFINE x == LastOf(s)
  <2>2. s # {} /\ IsFiniteSet(s)
    BY <1>3, <2>1, FS_EmptySet
  <2>3. x \in s
    BY <1>1, <2>2, LastExists
  <2>4. s \ {x} \in SUBSET S /\ Cardinality(s \ {x}) = n
    <3>1. Cardinality(s \ {x}) = Cardinality(s) - 1
      BY <2>2, <2>3, FS_RemoveElement
    <3>. QED  BY <3>1, <2>1
  <2>5. Copied(V, r, src, dst, s \ {x}, g[s \ {x}])
    BY <2>4
  <2>6. g[s] = CopyOne(src, dst, r, g[s \ {x}], x)
    BY <1>10, <2>2, Zenon
  <2>. HIDE DEF x
  <2>7. Copied(V, r, src, dst, s, CopyOne(src, dst, r, g[s \ {x}], x))
    BY <2>3, <2>5, CopyOneStep
  <2>. QED  BY <2>6, <2>7
<1>. HIDE DEF N
<1>6. N \in SUBSET Nat
  BY DEF N
<1>7. N = Nat
  BY <1>4, <1>5, <1>6, Counting, Zenon
<1>8. S \in SUBSET S /\ Cardinality(S) \in N
  BY <1>3, <1>7
<1>9. Copied(V, r, src, dst, S, g[S])
  BY <1>8 DEF N
<1>. QED  BY <1>2, <1>9

-------------------------------------------------------------------------------
(* Where keys go                                                           *)

\* Names that differ do not differ in case only.
CaseApart == \A m, n \in Names : FoldOf[m] = FoldOf[n] => m = n

\* With such names LIKE 'dir/%' finds what is in the collection.
LEMMA MatchesPrefix ==
  ASSUME CaseApart, NEW dir \in Seq(Names), NEW key, IsKey(key)
  PROVE  Matches(dir, key) <=> IsStrictPrefix(dir, key)
<1>1. key \in Seq(Names \cup {0}) /\ dir \in Seq(Names \cup {0}) /\ Len(key) \in Nat /\ Len(dir) \in Nat /\ DOMAIN dir = 1..Len(dir)
  BY DEF IsKey
<1>2. IsStrictPrefix(dir, key) <=> Len(dir) < Len(key) /\ \A i \in 1..Len(dir) : dir[i] = key[i]
  BY <1>1, PrefixByName
<1>3. ASSUME Len(dir) < Len(key), NEW i \in 1..Len(dir)
      PROVE  (key[i] # 0 /\ FoldOf[key[i]] = FoldOf[dir[i]]) <=> dir[i] = key[i]
  <2>1. i \in 1..Len(key) /\ i # Len(key)
    BY <1>1, <1>3
  <2>2. key[i] # 0
    BY <2>1 DEF IsKey
  <2>3. key[i] \in Names /\ dir[i] \in Names
    BY <1>1, <1>3, <2>1, <2>2
  <2>. QED  BY <2>2, <2>3 DEF CaseApart
<1>. QED  BY <1>1, <1>2, <1>3 DEF Matches

\* What a key in the collection becomes, name by name.
Relocated(src, dst, key, to) ==
  /\ Len(to) = Len(dst) + (Len(key) - Len(src))
  /\ \A i \in 1..Len(dst) : to[i] = dst[i]
  /\ \A i \in 1..(Len(key) - Len(src)) : to[Len(dst) + i] = key[Len(src) + i]

LEMMA ToByName ==
  ASSUME NEW A, NEW src \in Seq(A), NEW dst \in Seq(A), NEW key \in Seq(A), IsStrictPrefix(src, key)
  PROVE  /\ To(src, dst, key) \in Seq(A)
         /\ Relocated(src, dst, key, To(src, dst, key))
<1>. DEFINE rest == SubSeq(key, Len(src) + 1, Len(key))
<1>1. Len(src) < Len(key) /\ Len(src) \in Nat /\ Len(key) \in Nat /\ Len(dst) \in Nat
  BY PrefixByName
<1>2. To(src, dst, key) = dst \o rest
  BY DEF To, Rest
<1>3. rest \in Seq(A) /\ Len(rest) = Len(key) - Len(src)
      /\ \A i \in 1..(Len(key) - Len(src)) : rest[i] = key[Len(src) + i]
  BY <1>1
<1>. HIDE DEF rest
<1>4. /\ dst \o rest \in Seq(A) /\ Len(dst \o rest) = Len(dst) + (Len(key) - Len(src))
      /\ \A i \in 1..Len(dst) : (dst \o rest)[i] = dst[i]
      /\ \A i \in 1..(Len(key) - Len(src)) : (dst \o rest)[Len(dst) + i] = rest[i]
  <2>. DEFINE n == Len(key) - Len(src)
  <2>1. n \in Nat /\ Len(rest) = n /\ rest \in Seq(A)
    BY <1>1, <1>3
  <2>. HIDE DEF n
  <2>2. dst \o rest \in Seq(A) /\ Len(dst \o rest) = Len(dst) + n
    <3>1. dst \o rest \in Seq(A)
      BY <2>1
    <3>2. Len(dst \o rest) = Len(dst) + Len(rest)
      <4>1. \A a, b \in Seq(A) : Len(a \o b) = Len(a) + Len(b)
        OBVIOUS
      <4>. QED  BY <2>1, <4>1, Zenon
    <3>. QED  BY <2>1, <3>1, <3>2
  <2>3. \A i \in 1..Len(dst) : (dst \o rest)[i] = dst[i]
    BY <2>1
  <2>4. ASSUME NEW i \in 1..n PROVE (dst \o rest)[Len(dst) + i] = rest[i]
    <3>1. Len(dst) + i \in 1..(Len(dst) + n) /\ Len(dst) + i > Len(dst) /\ (Len(dst) + i) - Len(dst) = i
      BY <1>1, <2>1
    <3>. QED  BY <1>1, <2>1, <3>1
  <2>. QED  BY <2>2, <2>3, <2>4 DEF n
<1>5. \A i \in 1..(Len(key) - Len(src)) : (dst \o rest)[Len(dst) + i] = key[Len(src) + i]
  BY <1>3, <1>4
<1>. QED  BY <1>2, <1>4, <1>5, Zenon DEF Relocated

\* What a key that LIKE finds becomes is a key.
LEMMA ToIsKey ==
  ASSUME NEW src \in Seq(Names), NEW dst \in Seq(Names), NEW key, IsKey(key)
  PROVE  IsKey(To(src, dst, key))
<1>. DEFINE A == Names \cup {0}
<1>1. key \in Seq(A) /\ src \in Seq(A) /\ dst \in Seq(A) /\ 0 \notin Names
  BY NamesAssumption DEF IsKey
<1>2. \A i \in 1..Len(dst) : dst[i] \in Names
  OBVIOUS
<1>3. CASE IsStrictPrefix(src, key)
  <2>. DEFINE to == To(src, dst, key)
              n  == Len(key) - Len(src)
  <2>1. /\ to \in Seq(A) /\ Len(to) = Len(dst) + n
        /\ \A i \in 1..Len(dst) : to[i] = dst[i]
        /\ \A i \in 1..n : to[Len(dst) + i] = key[Len(src) + i]
    <3>1. To(src, dst, key) \in Seq(A) /\ Relocated(src, dst, key, To(src, dst, key))
      BY <1>1, <1>3, ToByName, Zenon
    <3>. QED  BY <3>1 DEF Relocated
  <2>2. n \in Nat \ {0} /\ Len(dst) \in Nat /\ Len(src) \in Nat /\ Len(key) \in Nat /\ Len(key) = Len(src) + n
    BY <1>1, <1>3, PrefixByName
  <2>. HIDE DEF to, n
  <2>3. ASSUME NEW i \in 1..Len(to), to[i] = 0
        PROVE  i = Len(to)
    <3>1. i > Len(dst)
      <4>1. i \in 1..Len(dst) => to[i] = dst[i] /\ dst[i] \in Names
        BY <1>2, <2>1
      <4>2. i \notin 1..Len(dst)
        BY <1>1, <2>3, <4>1
      <4>. QED  BY <2>1, <2>2, <4>2
    <3>2. PICK j \in 1..n : i = Len(dst) + j
      <4>1. i - Len(dst) \in 1..n /\ i = Len(dst) + (i - Len(dst))
        BY <2>1, <2>2, <3>1
      <4>. QED  BY <4>1
    <3>3. key[Len(src) + j] = 0 /\ Len(src) + j \in 1..Len(key)
      BY <2>1, <2>2, <2>3, <3>2
    <3>4. Len(src) + j = Len(key)
      BY <3>3 DEF IsKey
    <3>. QED  BY <2>1, <2>2, <3>2, <3>4
  <2>4. to # <<>>
    BY <2>1, <2>2
  <2>. QED  BY <2>1, <2>3, <2>4 DEF IsKey, to
<1>4. CASE ~IsStrictPrefix(src, key)
  <2>1. To(src, dst, key) = dst \o key
    BY <1>4 DEF To, Rest
  <2>2. dst \o key \in Seq(A) /\ Len(dst \o key) = Len(dst) + Len(key) /\ Len(dst) \in Nat /\ Len(key) \in Nat \ {0}
    BY <1>1 DEF IsKey
  <2>3. ASSUME NEW i \in 1..(Len(dst) + Len(key)), (dst \o key)[i] = 0
        PROVE  i = Len(dst) + Len(key)
    <3>1. i > Len(dst)
      BY <1>1, <1>2, <2>2, <2>3
    <3>2. (dst \o key)[i] = key[i - Len(dst)] /\ i - Len(dst) \in 1..Len(key)
      BY <1>1, <2>2, <3>1
    <3>3. i - Len(dst) = Len(key)
      BY <2>3, <3>2 DEF IsKey
    <3>. QED  BY <2>2, <3>3
  <2>4. dst \o key # <<>>
    BY <2>2
  <2>. QED  BY <2>1, <2>2, <2>3, <2>4 DEF IsKey
<1>. QED  BY <1>3, <1>4

\* Collections of which neither is inside the other.
Beside(src, dst) == ~IsStrictPrefix(src, dst) /\ ~IsStrictPrefix(dst, src)

\* Nothing goes back to where it comes from.
LEMMA GoesAway ==
  ASSUME NEW A, NEW src \in Seq(A), NEW dst \in Seq(A), NEW key \in Seq(A),
         IsStrictPrefix(src, key), Beside(src, dst), IsStrictPrefix(src, To(src, dst, key))
  PROVE  src = dst
<1>. DEFINE to == To(src, dst, key)
<1>1. to \in Seq(A) /\ \A i \in 1..Len(dst) : to[i] = dst[i]
  BY ToByName DEF Relocated
<1>. HIDE DEF to
<1>2. \A i \in 1..Len(src) : src[i] = to[i]
  BY <1>1, PrefixByName DEF to
<1>3. Len(src) \in Nat /\ Len(dst) \in Nat
  OBVIOUS
<1>4. CASE Len(dst) < Len(src)
  <2>1. \A i \in 1..Len(dst) : i \in 1..Len(src) /\ dst[i] = src[i]
    BY <1>1, <1>2, <1>3, <1>4
  <2>. QED  BY <1>4, <2>1, PrefixByName DEF Beside
<1>5. CASE Len(src) <= Len(dst)
  <2>1. \A i \in 1..Len(src) : i \in 1..Len(dst) /\ src[i] = dst[i]
    BY <1>1, <1>2, <1>3, <1>5
  <2>2. CASE Len(src) < Len(dst)
    BY <2>1, <2>2, PrefixByName DEF Beside
  <2>3. CASE Len(src) = Len(dst)
    BY <2>1, <2>3
  <2>. QED  BY <1>3, <1>5, <2>2, <2>3
<1>. QED  BY <1>3, <1>4, <1>5

\* So the keys of a collection are copied apart from each other.
LEMMA KeysAreSeparate ==
  ASSUME NEW A, NEW src \in Seq(A), NEW dst \in Seq(A), Beside(src, dst),
         NEW K \in SUBSET Seq(A), \A key \in K : IsStrictPrefix(src, key)
  PROVE  Separate(src, dst, K)
<1>1. SUFFICES ASSUME NEW x \in K, NEW y \in K, To(src, dst, x) = To(src, dst, y) \/ To(src, dst, y) = x
               PROVE  x = y
  BY DEF Separate
<1>2. IsStrictPrefix(src, x) /\ IsStrictPrefix(src, y) /\ x \in Seq(A) /\ y \in Seq(A)
  OBVIOUS
<1>3. /\ Len(src) < Len(x) /\ \A i \in 1..Len(src) : src[i] = x[i]
      /\ Len(src) < Len(y) /\ \A i \in 1..Len(src) : src[i] = y[i]
  BY <1>2, PrefixByName
<1>4. Relocated(src, dst, x, To(src, dst, x)) /\ Relocated(src, dst, y, To(src, dst, y))
  BY <1>2, ToByName, Zenon
<1>5. PICK p, q : p = To(src, dst, x) /\ q = To(src, dst, y)
  OBVIOUS
<1>10. Relocated(src, dst, x, p) /\ Relocated(src, dst, y, q)
  BY <1>4, <1>5
<1>6. Len(src) \in Nat /\ Len(dst) \in Nat /\ Len(x) \in Nat /\ Len(y) \in Nat
  BY <1>2
<1>7. ASSUME Len(x) = Len(y), \A i \in 1..(Len(y) - Len(src)) : x[Len(src) + i] = y[Len(src) + i]
      PROVE  x = y
  <2>1. ASSUME NEW i \in 1..Len(x) PROVE x[i] = y[i]
    <3>1. CASE i <= Len(src)
      BY <1>3, <1>6, <3>1
    <3>2. CASE i > Len(src)
      <4>1. i - Len(src) \in 1..(Len(y) - Len(src)) /\ Len(src) + (i - Len(src)) = i
        BY <1>6, <1>7, <3>2
      <4>. QED  BY <1>7, <4>1
    <3>. QED  BY <1>6, <3>1, <3>2
  <2>. QED  BY <1>2, <1>7, <2>1
<1>8. CASE To(src, dst, x) = To(src, dst, y)
  <2>1. Len(x) = Len(y)
    BY <1>5, <1>6, <1>8, <1>10 DEF Relocated
  <2>2. \A i \in 1..(Len(y) - Len(src)) : x[Len(src) + i] = y[Len(src) + i]
    BY <1>5, <1>8, <1>10, <2>1 DEF Relocated
  <2>. QED  BY <1>7, <2>1, <2>2
<1>9. CASE To(src, dst, y) = x
  <2>1. src = dst
    BY <1>2, <1>9, GoesAway
  <2>2. Len(x) = Len(y)
    BY <1>5, <1>6, <1>9, <1>10, <2>1 DEF Relocated
  <2>3. \A i \in 1..(Len(y) - Len(src)) : x[Len(src) + i] = y[Len(src) + i]
    BY <1>5, <1>9, <1>10, <2>1 DEF Relocated
  <2>. QED  BY <1>7, <2>2, <2>3
<1>. QED  BY <1>1, <1>8, <1>9

-------------------------------------------------------------------------------
(* Types                                                                   *)

PathSet == [names : Seq(Names), slash : BOOLEAN]
Job     == [verb : {"", "put", "lock", "mkcol", "delete", "copy", "move"},
            src : PathSet, dst : PathSet, tree : BOOLEAN, overwrite : BOOLEAN]

\* Rows under keys, of bodies numbered below n.
RowsFit(r, n) == /\ IsFiniteSet(DOMAIN r) /\ \A key \in DOMAIN r : IsKey(key)
                 /\ r \in [DOMAIN r -> RowsOf(0..(n - 1))]

\* What a request knows at each stage.
JobFits(stage, j) ==
  /\ stage = "idle" <=> j = Idle
  /\ stage # "idle" => j.verb # ""
  /\ stage \in {"put", "parent", "marker", "target", "transfer"} => j.dst.names # <<>>
  /\ stage = "put" => ~j.dst.slash
  /\ stage \in {"remove", "target", "transfer"} => j.src.names # <<>>
  /\ stage \in {"target", "transfer"} => /\ ~j.tree => ~j.src.slash
                                         /\ \E t \in Transfers : t[1] = j.src /\ t[2] = j.dst
  /\ stage = "transfer" => ~Forbidden(j)

JobsFit == /\ pc \in [Reqs -> Stages] /\ job \in [Reqs -> Job]
           /\ \A r \in Reqs : JobFits(pc[r], job[r])

IInv == /\ next \in 1..(MaxContents + 1)
        /\ RowsFit(rows, next)
        /\ JobsFit

\* The paths requests name.
LEMMA Paths ==
  /\ \A file \in Files \cup Dirs : file \in Seq(Names) /\ file # <<>>
  /\ \A p \in Targets : p \in PathSet /\ p.names # <<>>
  /\ \A t \in Transfers : /\ t[1] \in PathSet /\ t[1].names # <<>>
                          /\ t[2] \in PathSet /\ t[2].names # <<>>
<1>1. \A t \in Transfers : /\ t[1] \in Targets \cup {u[1] : u \in Transfers} \cup {u[2] : u \in Transfers}
                           /\ t[2] \in Targets \cup {u[1] : u \in Transfers} \cup {u[2] : u \in Transfers}
  OBVIOUS
<1>2. \A p \in Targets \cup {t[1] : t \in Transfers} \cup {t[2] : t \in Transfers} :
        p \in PathSet /\ p.names # <<>>
  BY PathsAssumption DEF PathSet
<1>3. \A file \in Files \cup Dirs : file \in Seq(Names) /\ file # <<>>
  BY PathsAssumption
<1>. QED  BY <1>1, <1>2, <1>3

\* The keys of a path.
LEMMA PathKeys ==
  ASSUME NEW names \in Seq(Names), names # <<>>
  PROVE  IsKey(names) /\ IsKey(Marker(names))
<1>1. 0 \notin Names
  BY NamesAssumption
<1>2. IsKey(names)
  BY <1>1 DEF IsKey
<1>3. /\ Append(names, 0) \in Seq(Names \cup {0}) /\ Append(names, 0) # <<>> /\ Len(Append(names, 0)) = Len(names) + 1
      /\ \A i \in 1..Len(names) : Append(names, 0)[i] = names[i] /\ names[i] \in Names
  OBVIOUS
<1>4. \A i \in 1..(Len(names) + 1) : i \in 1..Len(names) \/ i = Len(names) + 1
  OBVIOUS
<1>. QED  BY <1>1, <1>2, <1>3, <1>4 DEF IsKey, Marker

\* One row more.
LEMMA WrittenFits ==
  ASSUME NEW r, NEW n, RowsFit(r, n), NEW key, IsKey(key), NEW row \in RowsOf(0..(n - 1))
  PROVE  RowsFit(Written(r, key, row), n)
<1>1. DOMAIN Written(r, key, row) = DOMAIN r \cup {key}
  BY DEF Written
<1>2. IsFiniteSet(DOMAIN r \cup {key})
  BY FS_AddElement DEF RowsFit
<1>3. Written(r, key, row) \in [DOMAIN r \cup {key} -> RowsOf(0..(n - 1))]
  BY DEF RowsFit, Written
<1>. QED  BY <1>1, <1>2, <1>3 DEF RowsFit

\* Rows less.
LEMMA WithoutFits ==
  ASSUME NEW r, NEW n, RowsFit(r, n), NEW keys
  PROVE  RowsFit(Without(r, keys), n)
<1>1. DOMAIN Without(r, keys) = DOMAIN r \ keys
  BY DEF Without, Restrict
<1>2. IsFiniteSet(DOMAIN r \ keys)
  BY FS_Subset DEF RowsFit
<1>3. Without(r, keys) \in [DOMAIN r \ keys -> RowsOf(0..(n - 1))]
  BY DEF RowsFit, Without, Restrict
<1>. QED  BY <1>1, <1>2, <1>3 DEF RowsFit

\* The rows of a collection copied.
LEMMA CopyFits ==
  ASSUME NEW r, NEW n, RowsFit(r, n), NEW src \in Seq(Names), NEW dst \in Seq(Names)
  PROVE  /\ Copied(0..(n - 1), r, src, dst, Under(r, src), CopyPrefix(r, src, dst))
         /\ RowsFit(CopyPrefix(r, src, dst).rows, n)
<1>. DEFINE V   == 0..(n - 1)
            S   == Under(r, src)
            out == CopyPrefix(r, src, dst)
<1>1. DOMAIN r \in SUBSET Seq(Nat)
  <2>1. Names \cup {0} \subseteq Nat
    BY NamesAssumption
  <2>2. \A key \in DOMAIN r : key \in Seq(Names \cup {0})
    BY DEF RowsFit, IsKey
  <2>. QED  BY <2>1, <2>2
<1>2. Copied(V, r, src, dst, S, out)
  <2>1. IsFiniteSet(DOMAIN r) /\ r \in [DOMAIN r -> RowsOf(V)]
    BY DEF RowsFit
  <2>. HIDE DEF V
  <2>. QED  BY <1>1, <2>1, CopyPrefixCopies
<1>3. DOMAIN out.rows = DOMAIN r \cup Tos(src, dst, S) /\ out.rows \in [DOMAIN out.rows -> RowsOf(V)]
  <2>. HIDE DEF V, out, S
  <2>. QED  BY <1>2 DEF Copied
<1>4. IsFiniteSet(DOMAIN r \cup Tos(src, dst, S))
  <2>1. IsFiniteSet(S)
    BY FS_Subset DEF RowsFit, Under
  <2>2. IsFiniteSet(Tos(src, dst, S))
    <3>. HIDE DEF S
    <3>. DEFINE f == [key \in S |-> To(src, dst, key)]
    <3>1. f \in [S -> Tos(src, dst, S)] /\ \A to \in Tos(src, dst, S) : \E key \in S : f[key] = to
      BY DEF Tos
    <3>2. f \in Surjection(S, Tos(src, dst, S))
      <4>. HIDE DEF f
      <4>. QED  BY <3>1 DEF Surjection
    <3>. QED  BY <2>1, <3>2, FS_Surjection
  <2>. QED  BY <2>2, FS_Union DEF RowsFit
<1>5. \A key \in Tos(src, dst, S) : IsKey(key)
  <2>1. \A key \in S : IsKey(key)
    BY DEF RowsFit, Under
  <2>. HIDE DEF S
  <2>. QED  BY <2>1, ToIsKey DEF Tos
<1>. HIDE DEF S, out
<1>6. RowsFit(out.rows, n)
  BY <1>3, <1>4, <1>5 DEF RowsFit
<1>. QED  BY <1>2, <1>6 DEF S, out

\* What the transaction of a collection leaves, by verb.
LEMMA TransferTreeFits ==
  ASSUME NEW j \in Job, RowsFit(rows, next)
  PROVE  LET src == j.src.names
             dst == j.dst.names
             out == CopyPrefix(rows, src, dst)
         IN /\ Copied(0..(next - 1), rows, src, dst, Under(rows, src), out)
            /\ TransferTree(j).hit = out.hit
            /\ TransferTree(j).rows = IF j.verb = "move" THEN DeletePrefix(out.rows, src) ELSE out.rows
            /\ RowsFit(TransferTree(j).rows, next)
<1>. DEFINE src == j.src.names
            dst == j.dst.names
            out == CopyPrefix(rows, src, dst)
<1>1. src \in Seq(Names) /\ dst \in Seq(Names)
  BY DEF Job, PathSet
<1>2. Copied(0..(next - 1), rows, src, dst, Under(rows, src), out) /\ RowsFit(out.rows, next)
  <2>. HIDE DEF src, dst
  <2>. QED  BY <1>1, CopyFits
<1>3. out = [rows |-> out.rows, hit |-> out.hit]
  BY <1>2, Zenon DEF Copied
<1>4. CASE j.verb = "move"
  <2>1. TransferTree(j) = [out EXCEPT !.rows = DeletePrefix(@, src)]
    BY <1>4 DEF TransferTree, MovePrefix
  <2>. HIDE DEF out, src
  <2>2. TransferTree(j).hit = out.hit /\ TransferTree(j).rows = DeletePrefix(out.rows, src)
    BY <1>3, <2>1
  <2>3. RowsFit(DeletePrefix(out.rows, src), next)
    BY <1>2, WithoutFits DEF DeletePrefix
  <2>. QED  BY <1>2, <1>4, <2>2, <2>3 DEF out, src
<1>5. CASE j.verb # "move"
  BY <1>2, <1>5 DEF TransferTree
<1>. QED  BY <1>4, <1>5

\* A request that goes on, or returns.
LEMMA GotoFits ==
  ASSUME JobsFit, NEW r \in Reqs, NEW stage \in Stages, NEW j \in Job, JobFits(stage, j), Goto(r, stage, j)
  PROVE  JobsFit'
<1>1. pc' \in [Reqs -> Stages] /\ job' \in [Reqs -> Job]
  BY DEF JobsFit, Goto
<1>2. \A q \in Reqs : JobFits(pc'[q], job'[q])
  BY DEF JobsFit, Goto
<1>. QED  BY <1>1, <1>2 DEF JobsFit

LEMMA ReturnFits ==
  ASSUME JobsFit, NEW r \in Reqs, Return(r)
  PROVE  JobsFit'
<1>1. Idle \in Job /\ JobFits("idle", Idle) /\ "idle" \in Stages
  BY DEF Idle, Job, PathSet, Path, JobFits, Stages
<1>. QED  BY <1>1, GotoFits DEF Return

LEMMA InitIInv == Init => IInv
<1>. HAVE Init
<1>1. RowsFit(rows, next)
  <2>1. DOMAIN NoRows = {} /\ NoRows \in [{} -> RowsOf(0..0)]
    BY DEF NoRows
  <2>. QED  BY <2>1, FS_EmptySet DEF Init, RowsFit
<1>2. Idle \in Job /\ JobFits("idle", Idle) /\ "idle" \in Stages
  BY DEF Idle, Job, PathSet, Path, JobFits, Stages
<1>3. JobsFit
  BY <1>2 DEF Init, JobsFit
<1>. QED  BY <1>1, <1>3, PathsAssumption DEF Init, IInv

\* The locals of a request that starts.
LEMMA Starts == Idle \in Job /\ Idle.verb = ""
BY DEF Idle, Job, PathSet, Path

\* A request that has looked up something for the first time.
LEMMA LookUpFits ==
  ASSUME JobsFit, NEW r \in Reqs,
         \/ \E file \in Files, verb \in {"put", "lock"} : Put(r, file, verb)
         \/ \E dir \in Dirs : Mkcol(r, dir)
         \/ \E p \in Targets : Delete(r, p)
         \/ \E verb \in {"copy", "move"}, t \in Transfers, overwrite \in BOOLEAN :
              Transfer(r, verb, t[1], t[2], overwrite)
  PROVE  JobsFit'
<1>1. ASSUME NEW file \in Files, NEW verb \in {"put", "lock"}, Put(r, file, verb)
      PROVE  JobsFit'
  <2>. DEFINE j == [Idle EXCEPT !.verb = verb, !.dst = Path(file, FALSE)]
  <2>1. file \in Seq(Names) /\ file # <<>>
    BY Paths
  <2>2. j \in Job /\ j.verb = verb /\ j.dst.names = file /\ ~j.dst.slash
    <3>1. Path(file, FALSE) \in PathSet /\ Path(file, FALSE).names = file /\ ~Path(file, FALSE).slash
      BY <2>1 DEF PathSet, Path
    <3>2. verb \in {"put", "lock", "mkcol"} /\ Path(file, FALSE) \in PathSet
      BY <3>1
    <3>3. j \in Job /\ j.verb = verb /\ j.dst = Path(file, FALSE)
      BY <3>2, Starts DEF Job
    <3>. HIDE DEF j
    <3>. QED  BY <3>1, <3>3
  <2>3. JobFits("put", j)
    <3>1. j # Idle
      BY <2>2, Starts
    <3>. HIDE DEF j
    <3>. QED  BY <2>1, <2>2, <3>1 DEF JobFits
  <2>. QED  BY <1>1, <2>2, <2>3, GotoFits DEF Put, Stages
<1>2. ASSUME NEW dir \in Dirs, Mkcol(r, dir)
      PROVE  JobsFit'
  <2>. DEFINE j == [Idle EXCEPT !.verb = "mkcol", !.dst = Path(dir, TRUE)]
  <2>1. dir \in Seq(Names) /\ dir # <<>>
    BY Paths
  <2>2. j \in Job /\ j.verb = "mkcol" /\ j.dst.names = dir
    <3>1. Path(dir, TRUE) \in PathSet /\ Path(dir, TRUE).names = dir
      BY <2>1 DEF PathSet, Path
    <3>2. j \in Job /\ j.verb = "mkcol" /\ j.dst = Path(dir, TRUE)
      BY <3>1, Starts DEF Job
    <3>. HIDE DEF j
    <3>. QED  BY <3>1, <3>2
  <2>3. JobFits("parent", j)
    <3>1. j # Idle
      BY <2>2, Starts
    <3>. HIDE DEF j
    <3>. QED  BY <2>1, <2>2, <3>1 DEF JobFits
  <2>. QED  BY <1>2, <2>2, <2>3, GotoFits DEF Mkcol, Stages
<1>3. ASSUME NEW p \in Targets, Delete(r, p)
      PROVE  JobsFit'
  <2>. DEFINE j == [Idle EXCEPT !.verb = "delete", !.src = p, !.tree = IsTree(p)]
  <2>1. p \in PathSet /\ p.names # <<>> /\ IsTree(p) \in BOOLEAN
    BY Paths DEF IsTree, HasObject, HasCollection
  <2>2. j \in Job /\ j.verb = "delete" /\ j.src = p
    BY <2>1, Starts DEF Job
  <2>3. JobFits("remove", j)
    <3>1. j # Idle
      BY <2>2, Starts
    <3>. HIDE DEF j
    <3>. QED  BY <2>1, <2>2, <3>1 DEF JobFits
  <2>. QED  BY <1>3, <2>2, <2>3, GotoFits DEF Delete, Stages
<1>4. ASSUME NEW verb \in {"copy", "move"}, NEW t \in Transfers, NEW overwrite \in BOOLEAN,
             Transfer(r, verb, t[1], t[2], overwrite)
      PROVE  JobsFit'
  <2>. DEFINE j == [verb |-> verb, src |-> t[1], dst |-> t[2], tree |-> IsTree(t[1]), overwrite |-> overwrite]
  <2>1. /\ t[1] \in PathSet /\ t[1].names # <<>> /\ t[2] \in PathSet /\ t[2].names # <<>>
        /\ IsTree(t[1]) \in BOOLEAN /\ (~IsTree(t[1]) => ~t[1].slash)
    BY Paths DEF IsTree, HasObject, HasCollection
  <2>2. j \in Job /\ j.verb = verb /\ j.src = t[1] /\ j.dst = t[2] /\ j.tree = IsTree(t[1])
    BY <2>1 DEF Job
  <2>3. JobFits("target", j)
    <3>1. j # Idle
      BY <2>2, Starts
    <3>. HIDE DEF j
    <3>. QED  BY <2>1, <2>2, <3>1 DEF JobFits
  <2>. QED  BY <1>4, <2>2, <2>3, GotoFits DEF Transfer, Stages
<1>. QED  BY <1>1, <1>2, <1>3, <1>4

\* A request that decides on what it has found.
LEMMA DecideFits ==
  ASSUME JobsFit, NEW r \in Reqs, FindParent(r) \/ CheckTarget(r)
  PROVE  JobsFit'
<1>1. job[r] \in Job /\ JobFits(pc[r], job[r])
  BY DEF JobsFit
<1>2. CASE FindParent(r)
  <2>1. JobFits("marker", job[r])
    BY <1>1, <1>2 DEF FindParent, JobFits
  <2>. QED  BY <1>1, <1>2, <2>1, GotoFits, ReturnFits DEF FindParent, Stages
<1>3. CASE CheckTarget(r)
  <2>1. ~Forbidden(job[r]) => JobFits("transfer", job[r])
    BY <1>1, <1>3 DEF CheckTarget, JobFits
  <2>. QED  BY <1>1, <1>3, <2>1, GotoFits, ReturnFits DEF CheckTarget, Stages
<1>. QED  BY <1>2, <1>3

\* The rows a request writes or removes.
LEMMA RowsStayFit ==
  ASSUME IInv, NEW r \in Reqs,
         Write(r) \/ WriteMarker(r) \/ RemoveRows(r) \/ CommitTree(r) \/ CommitObject(r)
  PROVE  next' \in 1..(MaxContents + 1) /\ RowsFit(rows', next')
<1>1. job[r] \in Job /\ JobFits(pc[r], job[r]) /\ RowsFit(rows, next) /\ next \in 1..(MaxContents + 1)
      /\ MaxContents \in Nat
  BY PathsAssumption DEF IInv, JobsFit
<1>2. job[r].dst.names \in Seq(Names) /\ job[r].src.names \in Seq(Names)
  BY <1>1 DEF Job, PathSet
<1>3. job[r].dst.names # <<>> => IsKey(job[r].dst.names) /\ IsKey(Key(job[r].dst))
  BY <1>2, PathKeys DEF Key
<1>4. \A n \in 0..(next - 1) : Row(n, n) \in RowsOf(0..(next - 1))
  BY DEF Row, RowsOf
<1>5. CASE Write(r)
  <2>. DEFINE key  == job[r].dst.names
              body == IF job[r].verb = "put" THEN next ELSE 0
  <2>1. CASE UNCHANGED <<rows, next>>
    BY <1>1, <2>1
  <2>2. CASE next <= MaxContents /\ rows' = Written(rows, key, Row(body, body))
             /\ next' = IF body = 0 THEN next ELSE next + 1
    <3>1. next' \in 1..(MaxContents + 1) /\ body \in 0..(next' - 1) /\ next <= next'
      BY <1>1, <2>2
    <3>2. RowsFit(rows, next')
      <4>1. 0..(next - 1) \subseteq 0..(next' - 1)
        <5>1. \A a, b \in Nat : a <= b => 0..(a - 1) \subseteq 0..(b - 1)
          OBVIOUS
        <5>2. next \in Nat /\ next' \in Nat
          BY <1>1, <3>1
        <5>. QED  BY <3>1, <5>1, <5>2, Zenon
      <4>2. RowsOf(0..(next - 1)) \subseteq RowsOf(0..(next' - 1))
        BY <4>1 DEF RowsOf
      <4>. QED  BY <1>1, <4>2 DEF RowsFit
    <3>3. Row(body, body) \in RowsOf(0..(next' - 1))
      BY <3>1 DEF Row, RowsOf
    <3>4. IsKey(key)
      BY <1>1, <1>3, <1>5 DEF Write, JobFits
    <3>. HIDE DEF body, key
    <3>. QED  BY <2>2, <3>1, <3>2, <3>3, <3>4, WrittenFits
  <2>. QED  BY <1>5, <2>1, <2>2 DEF Write
<1>6. CASE WriteMarker(r)
  <2>1. IsKey(Key(job[r].dst)) /\ Row(0, 0) \in RowsOf(0..(next - 1))
    <3>1. 0 \in 0..(next - 1)
      BY <1>1
    <3>. QED  BY <1>1, <1>3, <1>4, <1>6, <3>1 DEF WriteMarker, JobFits
  <2>. QED  BY <1>1, <1>6, <2>1, WrittenFits DEF WriteMarker
<1>7. CASE RemoveRows(r)
  BY <1>1, <1>7, WithoutFits DEF RemoveRows, DeletePrefix
<1>8. CASE CommitTree(r)
  <2>1. RowsFit(TransferTree(job[r]).rows, next)
    BY <1>1, TransferTreeFits
  <2>. QED  BY <1>1, <1>8, <2>1 DEF CommitTree
<1>9. CASE CommitObject(r)
  <2>. DEFINE src == Key(job[r].src)
              dst == Key(job[r].dst)
  <2>1. IsKey(dst)
    BY <1>1, <1>3, <1>9 DEF CommitObject, JobFits
  <2>2. HasObject(src) => rows[src] \in RowsOf(0..(next - 1))
    BY <1>1 DEF RowsFit, HasObject
  <2>. HIDE DEF src, dst
  <2>3. HasObject(src) => RowsFit(CopyObject(rows, src, dst), next) /\ RowsFit(MoveObject(rows, src, dst), next)
    BY <1>1, <2>1, <2>2, WrittenFits, WithoutFits DEF CopyObject, MoveObject
  <2>4. next' = next /\ (rows' = rows \/ (HasObject(src) /\ rows' \in {CopyObject(rows, src, dst), MoveObject(rows, src, dst)}))
    BY <1>9 DEF CommitObject, src, dst
  <2>. QED  BY <1>1, <2>3, <2>4
<1>. QED  BY <1>5, <1>6, <1>7, <1>8, <1>9

LEMMA NextIInv == IInv /\ [Next]_vars => IInv'
<1>. HAVE IInv /\ [Next]_vars
<1>1. CASE UNCHANGED vars
  BY <1>1 DEF vars, IInv, JobsFit
<1>2. ASSUME NEW r \in Reqs,
             \/ \E file \in Files, verb \in {"put", "lock"} : Put(r, file, verb)
             \/ \E dir \in Dirs : Mkcol(r, dir)
             \/ \E p \in Targets : Delete(r, p)
             \/ \E verb \in {"copy", "move"}, t \in Transfers, overwrite \in BOOLEAN :
                  Transfer(r, verb, t[1], t[2], overwrite)
             \/ FindParent(r) \/ CheckTarget(r)
      PROVE  IInv'
  <2>1. UNCHANGED <<rows, next>>
    BY <1>2 DEF Put, Mkcol, Delete, Transfer, FindParent, CheckTarget
  <2>2. JobsFit'
    BY <1>2, LookUpFits, DecideFits DEF IInv
  <2>. QED  BY <2>1, <2>2 DEF IInv
<1>3. ASSUME NEW r \in Reqs,
             Write(r) \/ WriteMarker(r) \/ RemoveRows(r) \/ CommitTree(r) \/ CommitObject(r)
      PROVE  IInv'
  <2>1. next' \in 1..(MaxContents + 1) /\ RowsFit(rows', next')
    BY <1>3, RowsStayFit
  <2>2. Return(r)
    BY <1>3 DEF Write, WriteMarker, RemoveRows, CommitTree, CommitObject
  <2>3. JobsFit'
    BY <2>2, ReturnFits DEF IInv
  <2>. QED  BY <2>1, <2>3 DEF IInv
<1>. QED  BY <1>1, <1>2, <1>3 DEF Next

\* The types of the rows follow.
LEMMA TypesFollow == IInv => TypeOK
<1>. HAVE IInv
<1>1. ASSUME NEW key \in DOMAIN rows
      PROVE  /\ key # <<>> /\ \A i \in DOMAIN key : key[i] \in Names \/ (key[i] = 0 /\ i = Len(key))
             /\ rows[key].meta \in 0..(next - 1) /\ rows[key].chunks \in 0..(next - 1)
  <2>1. IsKey(key) /\ rows[key] \in RowsOf(0..(next - 1))
    BY DEF IInv, RowsFit
  <2>2. \A i \in DOMAIN key : i \in 1..Len(key) /\ key[i] \in Names \cup {0}
    BY <2>1 DEF IsKey
  <2>. QED  BY <2>1, <2>2 DEF IsKey, RowsOf
<1>2. pc \in [Reqs -> Stages] /\ next \in 1..(MaxContents + 1) /\ \A r \in Reqs : pc[r] = "idle" <=> job[r] = Idle
  BY DEF IInv, JobsFit, JobFits
<1>. QED  BY <1>1, <1>2 DEF TypeOK

\* Types: every row is under a key that a path can name and describes bodies
\* that were written, and the locals of a request fit its stage, whatever the
\* paths and however their names compare.
THEOREM WebDavTypes == Spec => []TypeOK
<1>. QED  BY InitIInv, NextIInv, TypesFollow, PTL DEF Spec

-------------------------------------------------------------------------------
(* What a transaction does to a collection                                 *)

\* No COPY or MOVE takes a collection to one that it is inside.
NoneInside == \A t \in Transfers : ~IsStrictPrefix(t[2].names, t[1].names)

\* What CommitTree leaves, unless it is rolled back.
LEMMA TreeEffect ==
  ASSUME IInv, NEW r \in Reqs, CommitTree(r), rows' # rows
  PROVE  LET src == job[r].src.names
             dst == job[r].dst.names
         IN \E out : /\ Copied(0..(next - 1), rows, src, dst, Under(rows, src), out)
                     /\ ~out.hit \/ job[r].overwrite
                     /\ rows' = IF job[r].verb = "move" THEN Without(out.rows, Under(out.rows, src)) ELSE out.rows
<1>. DEFINE src == job[r].src.names
            dst == job[r].dst.names
            out == CopyPrefix(rows, src, dst)
            res == TransferTree(job[r])
<1>1. job[r] \in Job /\ RowsFit(rows, next)
  BY DEF IInv, JobsFit
<1>2. /\ Copied(0..(next - 1), rows, src, dst, Under(rows, src), out)
      /\ res.hit = out.hit
      /\ res.rows = IF job[r].verb = "move" THEN DeletePrefix(out.rows, src) ELSE out.rows
  BY <1>1, TransferTreeFits
<1>3. rows' = IF res.hit /\ ~job[r].overwrite THEN rows ELSE res.rows
  BY DEF CommitTree
<1>. HIDE DEF out, res, src, dst
<1>4. ~out.hit \/ job[r].overwrite
  BY <1>2, <1>3
<1>5. rows' = IF job[r].verb = "move" THEN Without(out.rows, Under(out.rows, src)) ELSE out.rows
  BY <1>2, <1>3, <1>4 DEF DeletePrefix
<1>. QED  BY <1>2, <1>4, <1>5 DEF src, dst

\* What a request removes or copies with a collection is what it names.
LEMMA TreeKeys ==
  ASSUME CaseApart, IInv, NEW r \in Reqs, job[r].tree, NEW key, IsKey(key), Matches(job[r].src.names, key)
  PROVE  /\ Named(job[r], key)
         /\ Arrival(job[r], key) = To(job[r].src.names, job[r].dst.names, key)
<1>1. job[r].src.names \in Seq(Names)
  BY DEF IInv, JobsFit, Job, PathSet
<1>2. IsStrictPrefix(job[r].src.names, key)
  BY <1>1, MatchesPrefix
<1>. QED  BY <1>2 DEF Named, Arrival, To

\* A collection is copied and moved beside itself.
LEMMA TreeBeside ==
  ASSUME CaseApart, NoneInside, IInv, NEW r \in Reqs, CommitTree(r)
  PROVE  LET src == job[r].src.names
             dst == job[r].dst.names
         IN /\ src \in Seq(Names \cup {0}) /\ dst \in Seq(Names \cup {0})
            /\ Beside(src, dst) /\ (job[r].verb = "move" => src # dst)
            /\ Separate(src, dst, Under(rows, src))
<1>. DEFINE src == job[r].src.names
            dst == job[r].dst.names
            S   == Under(rows, src)
            A   == Names \cup {0}
<1>1. job[r] \in Job /\ JobFits("transfer", job[r]) /\ job[r].tree
  BY DEF IInv, JobsFit, CommitTree
<1>2. src \in Seq(Names) /\ dst \in Seq(Names)
  BY <1>1 DEF Job, PathSet
<1>3. src \in Seq(A) /\ dst \in Seq(A)
  BY <1>2
<1>4. Beside(src, dst) /\ (job[r].verb = "move" => src # dst)
  <2>1. ~Forbidden(job[r])
    BY <1>1 DEF JobFits
  <2>2. PICK t \in Transfers : t[1] = job[r].src /\ t[2] = job[r].dst
    BY <1>1 DEF JobFits
  <2>3. ~IsStrictPrefix(dst, src)
    BY <2>2 DEF NoneInside
  <2>. QED  BY <1>1, <2>1, <2>3 DEF Forbidden, Beside
<1>5. S \in SUBSET Seq(A) /\ \A key \in S : IsStrictPrefix(src, key)
  <2>1. \A key \in S : IsKey(key) /\ Matches(src, key)
    BY DEF IInv, RowsFit, Under
  <2>. HIDE DEF S, src
  <2>. QED  BY <1>2, <2>1, MatchesPrefix DEF IsKey
<1>6. Separate(src, dst, S)
  <2>. HIDE DEF S, src, dst, A
  <2>. QED  BY <1>3, <1>4, <1>5, KeysAreSeparate
<1>. QED  BY <1>3, <1>4, <1>6

-------------------------------------------------------------------------------
(* Coherence                                                               *)

LEMMA CoherentStep ==
  ASSUME CaseApart, NoneInside, IInv, RowsCoherent, [Next]_vars
  PROVE  RowsCoherent'
<1>1. SUFFICES ASSUME rows' # rows PROVE RowsCoherent'
  BY DEF RowsCoherent
<1>2. PICK r \in Reqs : Write(r) \/ WriteMarker(r) \/ RemoveRows(r) \/ CommitTree(r) \/ CommitObject(r)
  BY <1>1 DEF Next, vars, Put, Mkcol, Delete, Transfer, FindParent, CheckTarget
<1>3. \A n : Row(n, n).meta = Row(n, n).chunks
  BY DEF Row
<1>4. CASE Write(r)
  BY <1>1, <1>3, <1>4 DEF Write, RowsCoherent, Written
<1>5. CASE WriteMarker(r)
  BY <1>3, <1>5 DEF WriteMarker, RowsCoherent, Written
<1>6. CASE RemoveRows(r)
  BY <1>6 DEF RemoveRows, RowsCoherent, DeletePrefix, Without, Restrict
<1>7. CASE CommitObject(r)
  BY <1>1, <1>7 DEF CommitObject, RowsCoherent, HasObject, CopyObject, MoveObject, Written, Without, Restrict
<1>8. CASE CommitTree(r)
  <2>. DEFINE src == job[r].src.names
              dst == job[r].dst.names
              S   == Under(rows, src)
  <2>1. PICK out : /\ Copied(0..(next - 1), rows, src, dst, S, out)
                   /\ rows' = IF job[r].verb = "move" THEN Without(out.rows, Under(out.rows, src)) ELSE out.rows
    BY <1>1, <1>8, TreeEffect
  <2>2. Separate(src, dst, S) /\ S \subseteq DOMAIN rows
    BY <1>8, TreeBeside DEF Under
  <2>. HIDE DEF src, dst, S
  <2>3. \A x \in S : out.rows[To(src, dst, x)].meta = out.rows[To(src, dst, x)].chunks
    BY <2>1, <2>2 DEF Copied, RowsCoherent, S
  <2>4. \A key \in DOMAIN out.rows : out.rows[key].meta = out.rows[key].chunks
    <3>1. DOMAIN out.rows = DOMAIN rows \cup Tos(src, dst, S)
      BY <2>1 DEF Copied
    <3>2. \A key \in Tos(src, dst, S) : out.rows[key].meta = out.rows[key].chunks
      BY <2>3 DEF Tos
    <3>3. \A key \in DOMAIN rows : key \notin Tos(src, dst, S) => out.rows[key].meta = out.rows[key].chunks
      BY <2>1 DEF Copied, RowsCoherent
    <3>. QED  BY <3>1, <3>2, <3>3
  <2>5. \A key \in DOMAIN rows' : key \in DOMAIN out.rows /\ rows'[key] = out.rows[key]
    BY <2>1 DEF Without, Restrict
  <2>. QED  BY <2>4, <2>5 DEF RowsCoherent
<1>. QED  BY <1>2, <1>4, <1>5, <1>6, <1>7, <1>8

\* Every object row describes the chunks it has, for names that do not differ
\* in case only and as long as no COPY or MOVE takes a collection to one that
\* it is inside: then copyPrefixInTx can write a row that it has yet to read,
\* and gives it the size of one object and the chunks of another.
THEOREM RowsDescribeTheirChunks ==
  ASSUME CaseApart, NoneInside
  PROVE  Spec => []RowsCoherent
<1>1. Init => IInv /\ RowsCoherent
  <2>1. Init => RowsCoherent
    BY DEF Init, NoRows, RowsCoherent
  <2>. QED  BY <2>1, InitIInv
<1>2. IInv /\ RowsCoherent /\ [Next]_vars => IInv' /\ RowsCoherent'
  BY CoherentStep, NextIInv
<1>. QED  BY <1>1, <1>2, PTL DEF Spec

-------------------------------------------------------------------------------
(* What is replaced and what goes away                                     *)

\* An object is replaced only by a write to it, or by a COPY or MOVE onto it
\* that may overwrite, whenever the destination appeared, for names that do
\* not differ in case only.
THEOREM OverwriteIsAsked ==
  ASSUME CaseApart
  PROVE  Spec => OverwriteHonoured
<1>. DEFINE A == \A key \in DOMAIN rows \cap DOMAIN rows' : rows'[key] # rows[key] => \E r \in Reqs :
                   \/ (Ends(r, "put") \/ Ends(r, "marker")) /\ Key(job[r].dst) = key
                   \/ /\ Ends(r, "transfer") /\ job[r].overwrite
                      /\ \E k \in DOMAIN rows : Named(job[r], k) /\ Arrival(job[r], k) = key
<1>1. ASSUME IInv, [Next]_vars PROVE A
  <2>1. SUFFICES ASSUME NEW key \in DOMAIN rows \cap DOMAIN rows', rows'[key] # rows[key]
                 PROVE  \E r \in Reqs :
                          \/ (Ends(r, "put") \/ Ends(r, "marker")) /\ Key(job[r].dst) = key
                          \/ /\ Ends(r, "transfer") /\ job[r].overwrite
                             /\ \E k \in DOMAIN rows : Named(job[r], k) /\ Arrival(job[r], k) = key
    BY DEF A
  <2>2. rows' # rows
    BY <2>1
  <2>3. PICK r \in Reqs : Write(r) \/ WriteMarker(r) \/ RemoveRows(r) \/ CommitTree(r) \/ CommitObject(r)
    BY <1>1, <2>2 DEF Next, vars, Put, Mkcol, Delete, Transfer, FindParent, CheckTarget
  <2>4. pc \in [Reqs -> Stages] /\ JobFits(pc[r], job[r]) /\ job[r] \in Job
    BY <1>1 DEF IInv, JobsFit
  <2>5. pc'[r] = "idle"
    BY <2>3, <2>4 DEF Write, WriteMarker, RemoveRows, CommitTree, CommitObject, Return, Goto
  <2>6. CASE Write(r)
    <3>1. Ends(r, "put") /\ Key(job[r].dst) = job[r].dst.names
      BY <2>4, <2>5, <2>6 DEF Write, Ends, Key, JobFits
    <3>2. key = job[r].dst.names
      BY <2>1, <2>2, <2>6 DEF Write, Written
    <3>. QED  BY <3>1, <3>2
  <2>7. CASE WriteMarker(r)
    <3>1. Ends(r, "marker")
      BY <2>5, <2>7 DEF WriteMarker, Ends
    <3>2. key = Key(job[r].dst)
      BY <2>1, <2>7 DEF WriteMarker, Written
    <3>. QED  BY <3>1, <3>2
  <2>8. CASE RemoveRows(r)
    BY <2>1, <2>8 DEF RemoveRows, DeletePrefix, Without, Restrict
  <2>9. CASE CommitObject(r)
    <3>1. Ends(r, "transfer") /\ ~job[r].tree /\ ~job[r].src.slash
      BY <2>4, <2>5, <2>9 DEF CommitObject, Ends, JobFits
    <3>2. key = Key(job[r].dst) /\ HasObject(Key(job[r].src)) /\ job[r].overwrite
      BY <2>1, <2>2, <2>9 DEF CommitObject, HasObject, CopyObject, MoveObject, Written, Without, Restrict
    <3>3. job[r].src.names \in DOMAIN rows /\ Named(job[r], job[r].src.names)
          /\ Arrival(job[r], job[r].src.names) = key
      BY <3>1, <3>2 DEF HasObject, Key, Named, Arrival
    <3>. QED  BY <3>1, <3>2, <3>3
  <2>10. CASE CommitTree(r)
    <3>. DEFINE src == job[r].src.names
                dst == job[r].dst.names
                S   == Under(rows, src)
    <3>1. PICK out : /\ Copied(0..(next - 1), rows, src, dst, S, out)
                     /\ ~out.hit \/ job[r].overwrite
                     /\ rows' = IF job[r].verb = "move" THEN Without(out.rows, Under(out.rows, src)) ELSE out.rows
      BY <1>1, <2>2, <2>10, TreeEffect
    <3>2. rows'[key] = out.rows[key]
      BY <2>1, <3>1 DEF Without, Restrict
    <3>3. key \in Tos(src, dst, S)
      BY <2>1, <3>1, <3>2 DEF Copied
    <3>4. job[r].overwrite
      BY <2>1, <3>1, <3>3 DEF Copied
    <3>5. PICK x \in S : key = To(src, dst, x)
      BY <3>3 DEF Tos
    <3>6. x \in DOMAIN rows /\ IsKey(x) /\ Matches(src, x)
      BY <1>1 DEF IInv, RowsFit, Under
    <3>7. Ends(r, "transfer") /\ job[r].tree
      BY <2>5, <2>10 DEF CommitTree, Ends
    <3>8. Named(job[r], x) /\ Arrival(job[r], x) = key
      BY <1>1, <3>5, <3>6, <3>7, TreeKeys
    <3>. QED  BY <3>4, <3>6, <3>7, <3>8
  <2>. QED  BY <2>3, <2>6, <2>7, <2>8, <2>9, <2>10
<1>2. IInv /\ [Next]_vars => [A]_vars
  BY <1>1
<1>. QED  BY InitIInv, NextIInv, <1>2, PTL DEF Spec, OverwriteHonoured

\* A row goes away only when a DELETE names it, or when a MOVE names it and
\* leaves the same object at its destination, for names that do not differ in
\* case only and as long as no MOVE takes a collection to one that it is
\* inside: the run webdav_rename_loss shows the first at work, and with the
\* second movePrefixInTx deletes what it has just put under its source.
THEOREM NothingIsLost ==
  ASSUME CaseApart, NoneInside
  PROVE  Spec => NothingLost
<1>. DEFINE A == \A key \in DOMAIN rows \ DOMAIN rows' : \E r \in Reqs :
                   \/ Ends(r, "remove") /\ Named(job[r], key)
                   \/ /\ Ends(r, "transfer") /\ job[r].verb = "move" /\ Named(job[r], key)
                      /\ Arrival(job[r], key) \in DOMAIN rows'
                      /\ rows'[Arrival(job[r], key)] = rows[key]
<1>1. ASSUME IInv, [Next]_vars PROVE A
  <2>1. SUFFICES ASSUME NEW key \in DOMAIN rows \ DOMAIN rows'
                 PROVE  \E r \in Reqs :
                          \/ Ends(r, "remove") /\ Named(job[r], key)
                          \/ /\ Ends(r, "transfer") /\ job[r].verb = "move" /\ Named(job[r], key)
                             /\ Arrival(job[r], key) \in DOMAIN rows'
                             /\ rows'[Arrival(job[r], key)] = rows[key]
    BY DEF A
  <2>2. rows' # rows
    BY <2>1
  <2>3. PICK r \in Reqs : Write(r) \/ WriteMarker(r) \/ RemoveRows(r) \/ CommitTree(r) \/ CommitObject(r)
    BY <1>1, <2>2 DEF Next, vars, Put, Mkcol, Delete, Transfer, FindParent, CheckTarget
  <2>4. pc \in [Reqs -> Stages] /\ JobFits(pc[r], job[r]) /\ job[r] \in Job /\ IsKey(key)
    BY <1>1, <2>1 DEF IInv, JobsFit, RowsFit
  <2>5. pc'[r] = "idle"
    BY <2>3, <2>4 DEF Write, WriteMarker, RemoveRows, CommitTree, CommitObject, Return, Goto
  <2>6. CASE Write(r) \/ WriteMarker(r)
    BY <2>1, <2>2, <2>6 DEF Write, WriteMarker, Written
  <2>7. CASE RemoveRows(r)
    <3>1. Ends(r, "remove")
      BY <2>5, <2>7 DEF RemoveRows, Ends
    <3>2. CASE job[r].tree
      <4>1. Matches(job[r].src.names, key)
        BY <2>1, <2>7, <3>2 DEF RemoveRows, DeletePrefix, Under, Without, Restrict
      <4>. QED  BY <1>1, <2>4, <3>1, <3>2, <4>1, TreeKeys
    <3>3. CASE ~job[r].tree
      <4>1. key = job[r].src.names
        BY <2>1, <2>7, <3>3 DEF RemoveRows, Without, Restrict
      <4>. QED  BY <3>1, <3>3, <4>1 DEF Named
    <3>. QED  BY <3>2, <3>3
  <2>8. CASE CommitObject(r)
    <3>. DEFINE src == Key(job[r].src)
                dst == Key(job[r].dst)
    <3>1. Ends(r, "transfer") /\ ~job[r].tree /\ ~job[r].src.slash /\ ~Forbidden(job[r])
      BY <2>4, <2>5, <2>8 DEF CommitObject, Ends, JobFits
    <3>2. job[r].verb = "move" /\ rows' = MoveObject(rows, src, dst)
      BY <2>1, <2>2, <2>8 DEF CommitObject, CopyObject, Written
    <3>3. src # dst
      BY <3>1, <3>2 DEF Forbidden
    <3>. HIDE DEF src, dst
    <3>4. key = src
      BY <2>1, <3>2 DEF MoveObject, CopyObject, Written, Without, Restrict
    <3>5. dst \in DOMAIN rows' /\ rows'[dst] = rows[src]
      BY <3>2, <3>3 DEF MoveObject, CopyObject, Written, Without, Restrict
    <3>6. Named(job[r], key) /\ Arrival(job[r], key) = dst
      BY <3>1, <3>4 DEF Named, Arrival, Key, src, dst
    <3>. QED  BY <3>1, <3>2, <3>4, <3>5, <3>6
  <2>9. CASE CommitTree(r)
    <3>. DEFINE src == job[r].src.names
                dst == job[r].dst.names
                S   == Under(rows, src)
                to  == To(src, dst, key)
    <3>1. PICK out : /\ Copied(0..(next - 1), rows, src, dst, S, out)
                     /\ rows' = IF job[r].verb = "move" THEN Without(out.rows, Under(out.rows, src)) ELSE out.rows
      BY <1>1, <2>2, <2>9, TreeEffect
    <3>2. DOMAIN out.rows = DOMAIN rows \cup Tos(src, dst, S)
      BY <3>1 DEF Copied
    <3>3. Ends(r, "transfer") /\ job[r].tree
      BY <2>5, <2>9 DEF CommitTree, Ends
    <3>4. job[r].verb = "move" /\ Matches(src, key)
      <4>. HIDE DEF src, dst, S
      <4>. QED  BY <2>1, <3>1, <3>2 DEF Without, Restrict, Under
    <3>5. key \in S
      BY <2>1, <3>4 DEF Under
    <3>6. Named(job[r], key) /\ Arrival(job[r], key) = to
      BY <1>1, <2>4, <3>3, <3>4, TreeKeys
    <3>7. /\ src \in Seq(Names \cup {0}) /\ dst \in Seq(Names \cup {0}) /\ key \in Seq(Names \cup {0})
          /\ Beside(src, dst) /\ src # dst /\ Separate(src, dst, S)
      BY <1>1, <2>4, <2>9, <3>4, TreeBeside DEF IsKey
    <3>8. src \in Seq(Names) /\ dst \in Seq(Names)
      BY <2>4 DEF Job, PathSet
    <3>9. ~Matches(src, to)
      <4>. HIDE DEF src, dst
      <4>1. IsKey(to)
        BY <2>4, <3>8, ToIsKey
      <4>2. IsStrictPrefix(src, key)
        BY <2>4, <3>4, <3>8, MatchesPrefix
      <4>3. ~IsStrictPrefix(src, to)
        BY <3>7, <4>2, GoesAway
      <4>. QED  BY <3>8, <4>1, <4>3, MatchesPrefix
    <3>. HIDE DEF src, dst, S
    <3>10. to \in DOMAIN out.rows /\ out.rows[to] = rows[key]
      <4>1. to \in Tos(src, dst, S)
        BY <3>5 DEF Tos
      <4>2. out.rows[To(src, dst, key)] = rows[key]
        BY <3>1, <3>5, <3>7 DEF Copied, S
      <4>. QED  BY <3>2, <4>1, <4>2
    <3>. HIDE DEF to
    <3>11. to \in DOMAIN rows' /\ rows'[to] = out.rows[to]
      BY <3>1, <3>4, <3>9, <3>10 DEF Without, Restrict, Under
    <3>. QED  BY <3>3, <3>4, <3>6, <3>10, <3>11
  <2>. QED  BY <2>3, <2>6, <2>7, <2>8, <2>9
<1>2. IInv /\ [Next]_vars => [A]_vars
  BY <1>1
<1>. QED  BY InitIInv, NextIInv, <1>2, PTL DEF Spec, NothingLost
================================================================================
