----------------------------- MODULE ListingProofs -----------------------------
(***************************************************************************)
(* Listing for any number of keys, any common prefixes and any sizes of    *)
(* pages and queries, whatever rows come and go between the queries.       *)
(***************************************************************************)
EXTENDS Listing, FiniteSetTheorems, WellFoundedInduction, TLAPS

-------------------------------------------------------------------------------
(* Queries                                                                 *)

\* Some number of a set is the least.
LEMMA Least ==
  ASSUME NEW T \in SUBSET Nat, T # {}
  PROVE  \E x \in T : \A y \in T : x <= y
<1>. DEFINE R == OpToRel(<, Nat)
<1>1. \E x \in T : \A y \in T : <<y, x>> \notin R
  <2>1. IsWellFoundedOn(R, Nat)
    BY NatLessThanWellFounded, Zenon
  <2>. HIDE DEF R
  <2>. QED  BY <2>1, WFMin
<1>2. \A x, y \in Nat : <<y, x>> \notin R => x <= y
  BY DEF OpToRel
<1>. QED  BY <1>1, <1>2

\* The first and the last of some keys.
LEMMA Ends ==
  ASSUME NEW S \in SUBSET Keys, S # {}
  PROVE  /\ Min(S) \in S /\ \A y \in S : Min(S) <= y
         /\ Max(S) \in S /\ \A y \in S : y <= Max(S)
<1>. USE SizesAssumption DEF Keys
<1>1. \E x \in S : \A y \in S : x <= y
  BY Least
<1>2. \E x \in S : \A y \in S : x >= y
  <2>. DEFINE B == {m \in 0..MaxKey : \A y \in S : y <= m}
  <2>1. B \in SUBSET Nat /\ MaxKey \in B
    OBVIOUS
  <2>2. PICK n \in B : \A m \in B : n <= m
    BY <2>1, Least
  <2>3. n \in S
    <3>1. SUFFICES ASSUME n \notin S PROVE FALSE
      OBVIOUS
    <3>2. PICK y \in S : TRUE
      OBVIOUS
    <3>3. n \in 1..MaxKey
      BY <2>2, <3>2
    <3>4. \A x \in S : x <= n - 1
      <4>. TAKE x \in S
      <4>1. x \in Nat /\ x <= n /\ x # n
        BY <2>2, <3>1
      <4>. QED  BY <3>3, <4>1
    <3>5. n - 1 \in B
      BY <3>3, <3>4
    <3>. QED  BY <2>2, <3>3, <3>5
  <2>. QED  BY <2>2, <2>3
<1>. QED  BY <1>1, <1>2, Zenon DEF Min, Max

\* A query returns keys after the token; with a key, all there are before it;
\* and if it returns fewer than it was asked for, all there are.
LEMMA Queried ==
  ASSUME keys \subseteq Keys, NEW a \in Nat, NEW n \in Nat \ {0}
  PROVE  /\ Query(a, n) \in SUBSET Keys /\ Query(a, n) \subseteq keys
         /\ \A k \in Query(a, n) : k > a
         /\ \A j \in Query(a, n), k \in keys : a < k /\ k <= j => k \in Query(a, n)
         /\ Query(a, n) = {} => \A k \in keys : k <= a
         /\ Cardinality(Query(a, n)) < n => \A k \in keys : k > a => k \in Query(a, n)
<1>. DEFINE later == {k \in keys : k > a}
            before(k) == {j \in later : j < k}
<1>0. later \subseteq Keys /\ later \subseteq Nat
  <2>1. later \subseteq keys
    OBVIOUS
  <2>2. Keys \subseteq Nat
    BY SizesAssumption DEF Keys
  <2>. QED  BY <2>1, <2>2
<1>1. ASSUME NEW T, T \subseteq Keys
      PROVE  IsFiniteSet(T) /\ Cardinality(T) \in Nat
  <2>1. IsFiniteSet(Keys)
    BY FS_Interval, SizesAssumption DEF Keys
  <2>. QED  BY <1>1, <2>1, FS_Subset, FS_CardinalityType
<1>2. Query(a, n) = {k \in later : Cardinality(before(k)) < n}
  BY DEF Query
<1>3. ASSUME NEW j \in later, NEW k \in later, k <= j
      PROVE  Cardinality(before(k)) <= Cardinality(before(j))
  <2>1. \A i \in later : i < k => i < j
    BY <1>0, <1>3
  <2>2. before(k) \subseteq before(j) /\ before(j) \subseteq Keys
    BY <1>0, <2>1
  <2>. QED  BY <1>1, <2>2, FS_Subset
<1>4. \A k \in later : Cardinality(before(k)) \in Nat
  <2>. TAKE k \in later
  <2>1. before(k) \subseteq Keys
    BY <1>0
  <2>. QED  BY <1>1, <2>1
<1>5. ASSUME NEW j \in Query(a, n), NEW k \in keys, a < k, k <= j
      PROVE  k \in Query(a, n)
  <2>1. j \in later /\ k \in later /\ Cardinality(before(j)) < n
    BY <1>2, <1>5
  <2>2. Cardinality(before(k)) < n
    BY <1>3, <1>4, <1>5, <2>1
  <2>. QED  BY <1>2, <2>1, <2>2
<1>6. ASSUME NEW k \in keys, k > a, k \notin Query(a, n)
      PROVE  Query(a, n) # {} /\ Cardinality(Query(a, n)) >= n
  <2>. DEFINE T == later \ Query(a, n)
  <2>1. T \in SUBSET Nat /\ T # {}
    BY <1>0, <1>6
  <2>2. PICK m \in T : \A y \in T : m <= y
    BY <2>1, Least
  <2>3. before(m) \subseteq Query(a, n)
    <3>. SUFFICES ASSUME NEW i \in later, i < m PROVE i \in Query(a, n)
      OBVIOUS
    <3>1. i \in Nat /\ m \in Nat
      BY <1>0
    <3>. QED  BY <2>2, <3>1
  <2>4. Cardinality(before(m)) >= n
    BY <1>2, <1>4, <2>2
  <2>5. Query(a, n) \subseteq Keys
    BY <1>0, <1>2
  <2>6. Cardinality(before(m)) <= Cardinality(Query(a, n))
    BY <1>1, <2>3, <2>5, FS_Subset
  <2>7. Cardinality(Query(a, n)) \in Nat
    BY <1>1, <2>5
  <2>8. Query(a, n) # {}
    BY <1>4, <2>4, <2>6, FS_EmptySet
  <2>. QED  BY <1>4, <2>4, <2>6, <2>7, <2>8
<1>7. Query(a, n) = {} => \A k \in keys : k <= a
  <2>1. \A k \in keys : k > a \/ k <= a
    BY SizesAssumption DEF Keys
  <2>. QED  BY <1>6, <2>1
<1>8. Cardinality(Query(a, n)) < n => \A k \in keys : k > a => k \in Query(a, n)
  <2>1. Query(a, n) \subseteq Keys
    BY <1>0, <1>2
  <2>2. Cardinality(Query(a, n)) \in Nat
    BY <1>1, <2>1
  <2>. QED  BY <1>6, <2>2
<1>9. Query(a, n) \in SUBSET Keys /\ Query(a, n) \subseteq keys /\ \A k \in Query(a, n) : k > a
  BY <1>2
<1>. QED  BY <1>5, <1>7, <1>8, <1>9

-------------------------------------------------------------------------------
(* Types                                                                   *)

\* While a batch is read the page has room; a skip is past the group of the
\* last key, which the page has.
Types ==
  /\ TypeOK
  /\ pc # "done" => Limit > 0
  /\ pc = "fetch" => Cardinality(page) < Limit
  /\ pc = "skip" => token \in Keys /\ GroupOf[token] # NoGroup /\ Entry(token) \in page

LEMMA PagesFinite ==
  ASSUME NEW S, S \subseteq Entries
  PROVE  IsFiniteSet(S) /\ Cardinality(S) \in Nat
<1>1. IsFiniteSet(Keys)
  BY FS_Interval, SizesAssumption DEF Keys
<1>2. IsFiniteSet(Entries)
  <2>. DEFINE f == [k \in Keys |-> Entry(k)]
  <2>1. f \in Surjection(Keys, Entries)
    BY DEF Surjection, Entries
  <2>. HIDE DEF f
  <2>. QED  BY <1>1, <2>1, FS_Surjection
<1>. QED  BY <1>2, FS_Subset, FS_CardinalityType

LEMMA BatchSizeType == TypeOK => BatchSize \in Nat \ {0}
<1>. SUFFICES ASSUME TypeOK PROVE BatchSize \in Nat \ {0}
  OBVIOUS
<1>. DEFINE n == (Limit - Cardinality(page)) * QueryFactor + 1
<1>1. n \in Int
  BY SizesAssumption, PagesFinite DEF TypeOK
<1>2. BatchSize = IF n < 2 THEN 2 ELSE n
  BY DEF BatchSize
<1>. HIDE DEF n
<1>. QED  BY <1>1, <1>2

\* What one turn of the loop of ListObjects reads and where it stops.
Batch     == Query(token, BatchSize)
Full      == StopAt(Batch) # {}
LastOf    == IF Full THEN Min(StopAt(Batch)) ELSE IF Batch = {} THEN token ELSE Max(Batch)

LEMMA FetchStep ==
  ASSUME Types, Fetch
  PROVE  /\ pc = "fetch" /\ page' = PageAt(Batch, LastOf) /\ token' = LastOf
         /\ pc' = IF Full THEN IF GroupOf[LastOf] # NoGroup THEN "skip" ELSE "probe"
                  ELSE IF Cardinality(Batch) < BatchSize THEN "probe" ELSE "fetch"
         /\ UNCHANGED <<keys, shown, stable, born>>
         /\ Batch \in SUBSET Keys /\ Batch \subseteq keys
         /\ \A k \in Batch : k > token
         /\ token <= LastOf /\ LastOf \in 0..MaxKey
         /\ Batch # {} => LastOf \in Batch
         /\ Full => Batch # {}
         /\ \A k \in keys : token < k /\ k <= LastOf => k \in Batch
         /\ Cardinality(Batch) < BatchSize /\ ~Full => \A k \in keys : k <= LastOf
<1>. USE DEF Types
<1>1. /\ keys \subseteq Keys /\ token \in 0..MaxKey /\ BatchSize \in Nat \ {0} /\ Keys \subseteq Nat
  BY BatchSizeType, SizesAssumption DEF TypeOK, Keys
<1>2. token \in Nat
  BY <1>1, SizesAssumption
<1>3. /\ Batch \in SUBSET Keys /\ Batch \subseteq keys
      /\ \A k \in Batch : k > token
      /\ \A j \in Batch, k \in keys : token < k /\ k <= j => k \in Batch
      /\ Batch = {} => \A k \in keys : k <= token
      /\ Cardinality(Batch) < BatchSize => \A k \in keys : k > token => k \in Batch
  BY <1>1, <1>2, Queried DEF Batch
<1>4. StopAt(Batch) \subseteq Batch
  BY DEF StopAt
<1>5. /\ Batch # {} => LastOf \in Batch
      /\ Batch = {} => LastOf = token
      /\ ~Full => \A k \in Batch : k <= LastOf
      /\ Full => Batch # {}
  BY <1>3, <1>4, Ends DEF LastOf, Full
<1>. HIDE DEF Types
<1>6. token <= LastOf /\ LastOf \in 0..MaxKey
  <2>1. CASE Batch = {}
    BY <1>1, <1>2, <1>5, <2>1
  <2>2. CASE Batch # {}
    <3>1. LastOf \in Keys /\ LastOf > token
      BY <1>3, <1>5, <2>2
    <3>. QED  BY <1>2, <3>1, SizesAssumption DEF Keys
  <2>. QED  BY <2>1, <2>2
<1>6a. LastOf \in Nat
  BY <1>6, SizesAssumption
<1>7. \A k \in keys : token < k /\ k <= LastOf => k \in Batch
  <2>. TAKE k \in keys
  <2>0. k \in Nat
    BY <1>1
  <2>1. CASE Batch = {}
    BY <1>2, <1>5, <2>0, <2>1
  <2>2. CASE Batch # {}
    BY <1>3, <1>5, <2>2
  <2>. QED  BY <2>1, <2>2
<1>8. Cardinality(Batch) < BatchSize /\ ~Full => \A k \in keys : k <= LastOf
  <2>. SUFFICES ASSUME Cardinality(Batch) < BatchSize, ~Full, NEW k \in keys PROVE k <= LastOf
    OBVIOUS
  <2>0. k \in Nat
    BY <1>1
  <2>1. CASE k > token
    BY <1>3, <1>5, <2>1
  <2>2. CASE ~(k > token)
    BY <1>2, <1>6, <1>6a, <2>0, <2>2
  <2>. QED  BY <2>1, <2>2
<1>9. /\ pc = "fetch" /\ page' = PageAt(Batch, LastOf) /\ token' = LastOf
      /\ pc' = IF Full THEN IF GroupOf[LastOf] # NoGroup THEN "skip" ELSE "probe"
               ELSE IF Cardinality(Batch) < BatchSize THEN "probe" ELSE "fetch"
      /\ UNCHANGED <<keys, shown, stable, born>>
  BY DEF Fetch, Batch, Full, LastOf
<1>. QED  BY <1>3, <1>5, <1>6, <1>7, <1>8, <1>9

\* A page under its limit has room for one more entry.
LEMMA OneMore ==
  ASSUME NEW S, S \subseteq Entries, Cardinality(S) < Limit, NEW e \in Entries
  PROVE  Cardinality(S \cup {e}) <= Limit
<1>1. IsFiniteSet(S) /\ Cardinality(S) \in Nat
  BY PagesFinite
<1>2. Cardinality(S \cup {e}) = IF e \in S THEN Cardinality(S) ELSE Cardinality(S) + 1
  BY <1>1, FS_AddElement
<1>. QED  BY <1>1, <1>2, SizesAssumption

\* The page a turn of the loop leaves: full if it stopped there, else with room.
LEMMA FetchedPage ==
  ASSUME Types, Fetch
  PROVE  /\ page' \subseteq Entries
         /\ page' = page \cup {Entry(k) : k \in {i \in Batch : i <= LastOf}}
         /\ Cardinality(page') <= Limit
         /\ ~Full => Cardinality(page') < Limit
<1>. USE FetchStep
<1>1. page \subseteq Entries /\ Cardinality(page) < Limit /\ Limit \in Nat
  BY SizesAssumption DEF Types, TypeOK
<1>2. /\ Batch \in SUBSET Keys /\ page' = PageAt(Batch, LastOf)
      /\ Batch # {} => LastOf \in Batch
      /\ Full => Batch # {}
  OBVIOUS
<1>3. Keys \subseteq Nat
  BY SizesAssumption DEF Keys
<1>4. ASSUME NEW k PROVE PageAt(Batch, k) \subseteq Entries
  BY <1>1, <1>2 DEF PageAt, Entries
<1>5. ASSUME NEW k \in Batch, k \notin StopAt(Batch)
      PROVE  Cardinality(PageAt(Batch, k)) < Limit
  <2>1. Cardinality(PageAt(Batch, k)) \in Nat
    BY <1>4, PagesFinite
  <2>2. ~(Cardinality(PageAt(Batch, k)) >= Limit)
    BY <1>5 DEF StopAt
  <2>. QED  BY <1>1, <2>1, <2>2
<1>6. CASE ~Full
  <2>1. CASE Batch = {}
    <3>1. page' = page
      BY <1>2, <2>1 DEF PageAt
    <3>. QED  BY <1>1, <1>2, <2>1, <3>1, <1>6, PagesFinite
  <2>2. CASE Batch # {}
    <3>1. LastOf \in Batch /\ LastOf \notin StopAt(Batch)
      BY <1>2, <1>6, <2>2 DEF Full
    <3>2. Cardinality(page') < Limit
      BY <1>2, <1>5, <3>1
    <3>3. page' \subseteq Entries
      BY <1>2, <1>4
    <3>4. Cardinality(page') \in Nat
      BY <3>3, PagesFinite
    <3>. QED  BY <1>1, <1>2, <3>2, <3>3, <3>4 DEF PageAt
  <2>. QED  BY <2>1, <2>2
<1>7. CASE Full
  <2>. DEFINE earlier == {i \in Batch : i < LastOf}
              P == page \cup {Entry(j) : j \in earlier}
  <2>1. LastOf \in Batch /\ LastOf \in Keys
    BY <1>2, <1>7
  <2>2. page' = P \cup {Entry(LastOf)}
    <3>1. LastOf \in Nat /\ \A i \in Batch : i \in Nat
      BY <1>2, <1>3, <2>1
    <3>2. \A i \in Batch : i <= LastOf <=> i < LastOf \/ i = LastOf
      BY <3>1
    <3>3. {i \in Batch : i <= LastOf} = earlier \cup {LastOf}
      BY <2>1, <3>2
    <3>. QED  BY <1>2, <3>3 DEF PageAt
  <2>3. P \subseteq Entries /\ Entry(LastOf) \in Entries
    BY <1>1, <1>2, <2>1 DEF Entries
  <2>4. Cardinality(P) < Limit
    <3>1. CASE earlier = {}
      BY <1>1, <3>1
    <3>2. CASE earlier # {}
      <4>1. earlier \in SUBSET Keys
        BY <1>2
      <4>. DEFINE m == Max(earlier)
      <4>2. m \in earlier /\ \A i \in earlier : i <= m
        BY <3>2, <4>1, Ends
      <4>. HIDE DEF m
      <4>0. LastOf \in Nat /\ \A i \in Batch : i \in Nat
        BY <1>2, <1>3, <2>1
      <4>3. earlier = {i \in Batch : i <= m}
        <5>1. m < LastOf /\ m \in Nat
          BY <4>0, <4>2
        <5>2. \A i \in Batch : i < LastOf => i <= m
          BY <4>2
        <5>3. \A i \in Batch : i <= m => i < LastOf
          BY <4>0, <5>1
        <5>. QED  BY <5>2, <5>3
      <4>4. P = PageAt(Batch, m)
        BY <4>3 DEF PageAt
      <4>5. m \notin StopAt(Batch)
        <5>1. StopAt(Batch) \in SUBSET Keys /\ StopAt(Batch) # {} /\ LastOf = Min(StopAt(Batch))
          BY <1>2, <1>7 DEF StopAt, Full, LastOf
        <5>2. \A i \in StopAt(Batch) : LastOf <= i
          BY <5>1, Ends
        <5>. QED  BY <4>0, <4>2, <5>2
      <4>. QED  BY <1>5, <4>2, <4>4, <4>5
    <3>. QED  BY <3>1, <3>2
  <2>5. Cardinality(page') <= Limit
    BY <2>2, <2>3, <2>4, OneMore
  <2>6. page' \subseteq Entries
    BY <2>2, <2>3
  <2>. QED  BY <1>2, <1>7, <2>5, <2>6 DEF PageAt
<1>. QED  BY <1>6, <1>7

\* What one turn of advanceContinuationPastPrefix reads.
After     == Query(token, SkipLimit)
Others    == {k \in After : GroupOf[k] # GroupOf[token]}

\* It goes on to keys of the same group only; if it meets another, the group
\* has no more keys after the new token.
LEMMA SkipStep ==
  ASSUME Types, Skip
  PROVE  /\ pc = "skip" /\ token \in Keys /\ token' \in Keys /\ token <= token'
         /\ GroupOf[token] # NoGroup /\ GroupOf[token'] = GroupOf[token]
         /\ Entry(token) \in page
         /\ \A k \in keys : token < k /\ k <= token' => GroupOf[k] = GroupOf[token]
         /\ \/ /\ EndPage(TRUE)
               /\ \A k \in keys : token' < k => GroupOf[k] # GroupOf[token]
            \/ /\ UNCHANGED <<page, shown>>
               /\ \/ pc' = "skip"
                  \/ pc' = "probe" /\ \A k \in keys : k <= token'
         /\ UNCHANGED <<keys, stable, born>>
<1>. DEFINE same == {k \in After : \A j \in Others : k < j}
<1>1. /\ pc = "skip" /\ token' = IF same = {} THEN token ELSE Max(same)
      /\ IF Others # {} THEN EndPage(TRUE)
         ELSE /\ pc' = IF Cardinality(After) < SkipLimit THEN "probe" ELSE "skip"
              /\ UNCHANGED <<page, shown>>
      /\ UNCHANGED <<keys, stable, born>>
  BY DEF Skip, After, Others
<1>2. /\ token \in Keys /\ GroupOf[token] # NoGroup /\ Entry(token) \in page
      /\ keys \subseteq Keys /\ Keys \subseteq Nat /\ token \in Nat
  BY <1>1, SizesAssumption DEF Types, TypeOK, Keys
<1>3. /\ After \in SUBSET Keys /\ After \subseteq keys
      /\ \A k \in After : k > token
      /\ \A j \in After, k \in keys : token < k /\ k <= j => k \in After
      /\ Cardinality(After) < SkipLimit => \A k \in keys : k > token => k \in After
  BY <1>2, SizesAssumption, Queried DEF After
<1>4. Others \subseteq After /\ same \in SUBSET Keys
  BY <1>3 DEF Others
<1>5. ASSUME NEW k \in same PROVE GroupOf[k] = GroupOf[token]
  <2>1. k \in After /\ k \in Nat /\ \A j \in Others : k < j
    BY <1>2, <1>3, <1>5
  <2>2. k \notin Others
    BY <2>1
  <2>. QED  BY <2>1, <2>2 DEF Others
<1>6. /\ same # {} => token' \in same /\ \A k \in same : k <= token'
      /\ same = {} => token' = token
  BY <1>1, <1>4, Ends
<1>. HIDE DEF same
<1>7. token' \in Keys /\ token' \in Nat /\ token <= token' /\ GroupOf[token'] = GroupOf[token]
  <2>1. CASE same = {}
    BY <1>2, <1>6, <2>1
  <2>2. CASE same # {}
    <3>1. token' \in same
      BY <1>6, <2>2
    <3>2. token' \in After
      BY <3>1 DEF same
    <3>. QED  BY <1>2, <1>3, <1>5, <3>1, <3>2
  <2>. QED  BY <2>1, <2>2
<1>8. ASSUME NEW k \in keys, token < k, k <= token'
      PROVE  GroupOf[k] = GroupOf[token]
  <2>1. same # {}
    BY <1>2, <1>6, <1>8
  <2>2. token' \in After /\ \A j \in Others : token' < j
    BY <1>6, <2>1 DEF same
  <2>3. k \in After
    BY <1>3, <1>8, <2>2
  <2>4. \A j \in Others : k < j
    BY <1>2, <1>3, <1>4, <1>7, <1>8, <2>2
  <2>5. k \in same
    BY <2>3, <2>4 DEF same
  <2>. QED  BY <1>5, <2>5
<1>9. CASE Others # {}
  <2>. DEFINE o == Min(Others)
  <2>1. o \in Others /\ \A j \in Others : o <= j
    BY <1>3, <1>4, <1>9, Ends
  <2>. HIDE DEF o
  <2>2. o \in After /\ o \in Keys /\ o \in Nat /\ o > token /\ GroupOf[o] # GroupOf[token]
    BY <1>2, <1>3, <2>1 DEF Others
  <2>3. ASSUME NEW k \in keys, token' < k, GroupOf[k] = GroupOf[token] PROVE FALSE
    <3>0. k \in Nat /\ k \in Keys /\ token < k
      BY <1>2, <1>7, <2>3
    <3>1. CASE k < o
      <4>1. k \in After
        BY <1>3, <2>2, <3>0, <3>1
      <4>2. \A j \in Others : k < j
        BY <1>2, <1>3, <1>4, <2>1, <2>2, <3>0, <3>1
      <4>3. k \in same
        BY <4>1, <4>2 DEF same
      <4>4. k <= token'
        BY <1>6, <4>3
      <4>. QED  BY <1>7, <2>3, <3>0, <4>4
    <3>2. CASE ~(k < o)
      <4>1. o \in token..k
        BY <1>2, <2>2, <3>0, <3>2
      <4>2. GroupOf[o] = GroupOf[token]
        BY <1>2, <2>3, <3>0, <4>1, GroupsAssumption
      <4>. QED  BY <2>2, <4>2
    <3>. QED  BY <3>1, <3>2
  <2>. QED  BY <1>1, <1>2, <1>7, <1>8, <1>9, <2>3
<1>10. CASE Others = {}
  <2>1. ASSUME Cardinality(After) < SkipLimit, NEW k \in keys PROVE k <= token'
    <3>0. k \in Nat
      BY <1>2
    <3>1. CASE k > token
      <4>1. k \in same
        BY <1>3, <1>10, <2>1, <3>1 DEF same
      <4>. QED  BY <1>6, <4>1
    <3>2. CASE ~(k > token)
      BY <1>2, <1>7, <3>0, <3>2
    <3>. QED  BY <3>1, <3>2
  <2>2. pc' = "skip" \/ (pc' = "probe" /\ \A k \in keys : k <= token')
    BY <1>1, <1>10, <2>1
  <2>. QED  BY <1>1, <1>2, <1>7, <1>8, <1>10, <2>2
<1>. QED  BY <1>9, <1>10

\* The last query: without a row after the token there is no further page.
LEMMA ProbeStep ==
  ASSUME Types, Probe
  PROVE  /\ pc = "probe" /\ shown' = shown \cup page /\ page' = {} /\ token' = token
         /\ pc' \in {"fetch", "done"}
         /\ pc' = "done" => page = {} \/ \A k \in keys : k <= token
         /\ UNCHANGED <<keys, stable, born>>
<1>1. keys \subseteq Keys /\ token \in Nat
  BY SizesAssumption DEF Types, TypeOK
<1>2. Query(token, 1) = {} => \A k \in keys : k <= token
  BY <1>1, Queried
<1>. QED  BY <1>2 DEF Probe, EndPage

LEMMA TypesInit == Init => Types
<1>1. Cardinality({}) = 0
  BY FS_EmptySet
<1>. QED  BY <1>1, SizesAssumption DEF Init, Types, TypeOK, Keys

LEMMA TypesStep == Types /\ [Next]_vars => Types'
<1>. SUFFICES ASSUME Types, [Next]_vars PROVE Types'
  OBVIOUS
<1>0. /\ keys \subseteq Keys /\ stable \subseteq keys /\ born \subseteq Keys
      /\ page \subseteq Entries /\ shown \subseteq Entries
      /\ Cardinality({}) = 0 /\ Limit \in Nat /\ Keys \subseteq 0..MaxKey
  BY FS_EmptySet, SizesAssumption DEF Types, TypeOK, Keys
<1>1. CASE Fetch
  <2>1. /\ page' \subseteq Entries /\ Cardinality(page') <= Limit
        /\ ~Full => Cardinality(page') < Limit
        /\ page' = page \cup {Entry(k) : k \in {i \in Batch : i <= LastOf}}
    BY <1>1, FetchedPage
  <2>2. /\ pc = "fetch" /\ token' = LastOf
        /\ pc' = IF Full THEN IF GroupOf[LastOf] # NoGroup THEN "skip" ELSE "probe"
                 ELSE IF Cardinality(Batch) < BatchSize THEN "probe" ELSE "fetch"
        /\ UNCHANGED <<keys, shown, stable, born>>
        /\ Batch \in SUBSET Keys /\ LastOf \in 0..MaxKey
        /\ (Batch # {} => LastOf \in Batch) /\ (Full => Batch # {})
    BY <1>1, FetchStep
  <2>3. Limit > 0
    BY <2>2 DEF Types
  <2>4. pc' = "skip" => token' \in Keys /\ GroupOf[token'] # NoGroup /\ Entry(token') \in page'
    <3>1. SUFFICES ASSUME pc' = "skip" PROVE token' \in Keys /\ GroupOf[token'] # NoGroup /\ Entry(token') \in page'
      OBVIOUS
    <3>2. LastOf \in Batch /\ GroupOf[LastOf] # NoGroup
      BY <2>2, <3>1
    <3>3. LastOf \in Nat
      BY <2>2, SizesAssumption
    <3>. QED  BY <2>1, <2>2, <3>2, <3>3
  <2>5. pc' = "fetch" => Cardinality(page') < Limit
    BY <2>1, <2>2
  <2>6. pc' \in {"fetch", "skip", "probe", "done"}
    BY <2>2
  <2>. QED  BY <1>0, <2>1, <2>2, <2>3, <2>4, <2>5, <2>6 DEF Types, TypeOK
<1>2. CASE Skip
  <2>1. /\ pc = "skip" /\ token' \in Keys /\ GroupOf[token'] = GroupOf[token] /\ GroupOf[token] # NoGroup
        /\ Entry(token) \in page
        /\ EndPage(TRUE) \/ (UNCHANGED <<page, shown>> /\ pc' \in {"skip", "probe"})
        /\ UNCHANGED <<keys, stable, born>>
    BY <1>2, SkipStep
  <2>2. Limit > 0 /\ Cardinality(page) <= Limit
    BY <2>1 DEF Types, TypeOK
  <2>3. Entry(token') = Entry(token)
    BY <2>1 DEF Entry
  <2>4. CASE EndPage(TRUE)
    <3>1. shown' \subseteq Entries /\ page' = {} /\ pc' = "fetch"
      BY <1>0, <2>4 DEF EndPage
    <3>. QED  BY <1>0, <2>1, <2>2, <3>1 DEF Types, TypeOK
  <2>5. CASE UNCHANGED <<page, shown>> /\ pc' \in {"skip", "probe"}
    BY <1>0, <2>1, <2>2, <2>3, <2>5 DEF Types, TypeOK
  <2>. QED  BY <2>1, <2>4, <2>5
<1>3. CASE Probe
  <2>1. /\ pc = "probe" /\ shown' = shown \cup page /\ page' = {} /\ token' = token
        /\ pc' \in {"fetch", "done"} /\ UNCHANGED <<keys, stable, born>>
    BY <1>3, ProbeStep
  <2>2. Limit > 0
    BY <2>1 DEF Types
  <2>3. shown' \subseteq Entries
    BY <1>0, <2>1
  <2>. QED  BY <1>0, <2>1, <2>2, <2>3 DEF Types, TypeOK
<1>4. CASE \E k \in Keys : Insert(k)
  BY <1>0, <1>4 DEF Insert, client, Types, TypeOK
<1>5. CASE \E k \in Keys : Remove(k)
  BY <1>0, <1>5 DEF Remove, client, Types, TypeOK
<1>6. CASE UNCHANGED vars
  BY <1>6 DEF vars, client, Types, TypeOK
<1>. QED  BY <1>1, <1>2, <1>3, <1>4, <1>5, <1>6 DEF Next, List

LEMMA AlwaysTypes == Spec => []Types
  BY TypesInit, TypesStep, PTL DEF Spec

\* A page has at most max-keys entries, whatever the queries return.
THEOREM ListingTypes == Spec => []TypeOK
<1>1. Types => TypeOK
  BY DEF Types
<1>. QED  BY AlwaysTypes, <1>1, PTL

-------------------------------------------------------------------------------
(* Completeness                                                            *)

\* The keys up to the token that were there all the time are listed; before
\* the listing ends there are none after it.
Listed ==
  /\ \A k \in stable : k <= token => Entry(k) \in page \cup shown
  /\ pc = "probe" /\ page = {} => \A k \in stable : k <= token
  /\ StableKeysListed

LEMMA ListedInit == Init => Listed
  BY SizesAssumption DEF Init, Listed, StableKeysListed, Keys

LEMMA ListedStep == Types /\ Listed /\ [Next]_vars => Listed'
<1>. SUFFICES ASSUME Types, Listed, [Next]_vars PROVE Listed'
  OBVIOUS
<1>0. stable \subseteq keys /\ stable \subseteq Nat /\ token \in Nat
  BY SizesAssumption DEF Types, TypeOK, Keys
<1>1. CASE Fetch
  <2>1. /\ page' = page \cup {Entry(k) : k \in {i \in Batch : i <= LastOf}}
        /\ UNCHANGED <<keys, shown, stable>> /\ token' = LastOf
        /\ pc' = IF Full THEN IF GroupOf[LastOf] # NoGroup THEN "skip" ELSE "probe"
                 ELSE IF Cardinality(Batch) < BatchSize THEN "probe" ELSE "fetch"
        /\ (Batch # {} => LastOf \in Batch) /\ (Full => Batch # {})
        /\ \A k \in keys : token < k /\ k <= LastOf => k \in Batch
        /\ Cardinality(Batch) < BatchSize /\ ~Full => \A k \in keys : k <= LastOf
        /\ LastOf \in 0..MaxKey
    BY <1>1, FetchStep, FetchedPage
  <2>2. ASSUME NEW k \in stable, k <= LastOf PROVE Entry(k) \in page' \cup shown'
    <3>1. CASE k <= token
      BY <2>1, <3>1 DEF Listed
    <3>2. CASE ~(k <= token)
      BY <1>0, <2>1, <2>2, <3>2
    <3>. QED  BY <3>1, <3>2
  <2>3. ASSUME pc' = "probe", page' = {}, NEW k \in stable PROVE k <= LastOf
    <3>1. ~Full
      <4>1. SUFFICES ASSUME Full PROVE FALSE
        OBVIOUS
      <4>2. LastOf \in Batch /\ LastOf \in Nat
        BY <2>1, <4>1, SizesAssumption
      <4>3. Entry(LastOf) \in page'
        BY <2>1, <4>2
      <4>. QED  BY <2>3, <4>3
    <3>. QED  BY <1>0, <2>1, <2>3, <3>1
  <2>4. pc' # "done"
    BY <2>1
  <2>. QED  BY <2>1, <2>2, <2>3, <2>4 DEF Listed, StableKeysListed
<1>2. CASE Skip
  <2>1. /\ token <= token' /\ GroupOf[token] # NoGroup /\ Entry(token) \in page
        /\ \A k \in keys : token < k /\ k <= token' => GroupOf[k] = GroupOf[token]
        /\ EndPage(TRUE) \/ (UNCHANGED <<page, shown>> /\ pc' \in {"skip", "probe"})
        /\ UNCHANGED <<keys, stable>>
    BY <1>2, SkipStep
  <2>2. page' \cup shown' = page \cup shown /\ pc' # "done" /\ ~(pc' = "probe" /\ page' = {})
    BY <2>1 DEF EndPage
  <2>3. ASSUME NEW k \in stable, k <= token' PROVE Entry(k) \in page \cup shown
    <3>1. CASE k <= token
      BY <3>1 DEF Listed
    <3>2. CASE ~(k <= token)
      <4>1. GroupOf[k] = GroupOf[token]
        BY <1>0, <2>1, <2>3, <3>2
      <4>2. Entry(k) = Entry(token)
        BY <2>1, <4>1 DEF Entry
      <4>. QED  BY <2>1, <4>2
    <3>. QED  BY <3>1, <3>2
  <2>. QED  BY <2>1, <2>2, <2>3 DEF Listed, StableKeysListed
<1>3. CASE Probe
  <2>1. /\ pc = "probe" /\ shown' = shown \cup page /\ page' = {} /\ token' = token
        /\ pc' \in {"fetch", "done"}
        /\ pc' = "done" => page = {} \/ \A k \in keys : k <= token
        /\ UNCHANGED <<keys, stable, born>>
    BY <1>3, ProbeStep
  <2>2. pc' = "done" => \A k \in stable : k <= token
    BY <1>0, <2>1 DEF Listed
  <2>3. \A k \in stable : k <= token => Entry(k) \in shown'
    BY <2>1 DEF Listed
  <2>. QED  BY <2>1, <2>2, <2>3 DEF Listed, StableKeysListed
<1>4. CASE \E k \in Keys : Insert(k)
  BY <1>4 DEF Insert, client, Listed, StableKeysListed
<1>5. CASE \E k \in Keys : Remove(k)
  BY <1>5 DEF Remove, client, Listed, StableKeysListed
<1>6. CASE UNCHANGED vars
  BY <1>6 DEF vars, client, Listed, StableKeysListed
<1>. QED  BY <1>1, <1>2, <1>3, <1>4, <1>5, <1>6 DEF Next, List

\* A complete listing names every key that was there all the time, whatever is
\* inserted and removed between its queries and however they cut the rows.
THEOREM ListingComplete == Spec => []StableKeysListed
<1>1. Spec => []Listed
  BY AlwaysTypes, ListedInit, ListedStep, PTL DEF Spec
<1>2. Listed => StableKeysListed
  BY DEF Listed
<1>. QED  BY <1>1, <1>2, PTL

-------------------------------------------------------------------------------
(* Nothing twice                                                           *)

\* The keys of an entry are neighbours: one before a token and one after it
\* have the group of the token.
LEMMA Contiguous ==
  ASSUME NEW j \in Keys, NEW t \in Nat, NEW k \in Keys, j <= t, t < k, Entry(j) = Entry(k)
  PROVE  GroupOf[k] # NoGroup /\ Entry(k) \in Groups /\ GroupOf[k] = Entry(k) /\ GroupOf[t] = GroupOf[k]
<1>1. j \in Nat /\ k \in Nat /\ j < k
  BY SizesAssumption DEF Keys
<1>2. ASSUME NEW i \in Keys, GroupOf[i] # NoGroup PROVE GroupOf[i] \in Groups /\ GroupOf[i] \notin Keys
  BY <1>2, EntriesAssumption DEF Groups
<1>3. GroupOf[k] # NoGroup /\ GroupOf[j] = GroupOf[k]
  BY <1>1, <1>2 DEF Entry
<1>4. t \in j..k
  BY <1>1
<1>5. GroupOf[t] = GroupOf[j]
  BY <1>1, <1>3, <1>4, GroupsAssumption
<1>. QED  BY <1>2, <1>3, <1>5 DEF Entry

\* Every entry has a key up to the token.  An old key after the token is on no
\* page that was sent, and when the handler looks for more, not on this one.
Fresh ==
  /\ \A e \in page \cup shown : \E j \in Keys : j <= token /\ Entry(j) = e
  /\ \A k \in keys \ born : k > token => Entry(k) \notin shown
  /\ pc = "probe" => \A k \in keys \ born : k > token => Entry(k) \notin page
  /\ NothingTwice

LEMMA FreshInit == Init => Fresh
  BY SizesAssumption DEF Init, Fresh, NothingTwice, Keys

LEMMA FreshStep == Types /\ Fresh /\ [Next]_vars => Fresh'
<1>. SUFFICES ASSUME Types, Fresh, [Next]_vars PROVE Fresh'
  OBVIOUS
<1>0. keys \subseteq Keys /\ Keys \subseteq Nat /\ token \in Nat
  BY SizesAssumption DEF Types, TypeOK, Keys
<1>1. CASE Fetch
  <2>1. /\ page' = page \cup {Entry(k) : k \in {i \in Batch : i <= LastOf}}
        /\ UNCHANGED <<keys, shown, stable, born>> /\ token' = LastOf
        /\ pc' = IF Full THEN IF GroupOf[LastOf] # NoGroup THEN "skip" ELSE "probe"
                 ELSE IF Cardinality(Batch) < BatchSize THEN "probe" ELSE "fetch"
        /\ Batch \in SUBSET Keys /\ Batch \subseteq keys /\ (\A k \in Batch : k > token)
        /\ token <= LastOf /\ LastOf \in 0..MaxKey
        /\ (Batch # {} => LastOf \in Batch) /\ (Full => Batch # {})
        /\ Cardinality(Batch) < BatchSize /\ ~Full => \A k \in keys : k <= LastOf
    BY <1>1, FetchStep, FetchedPage
  <2>2. LastOf \in Nat
    BY <2>1, SizesAssumption
  <2>3. ASSUME NEW e \in page' \cup shown' PROVE \E j \in Keys : j <= LastOf /\ Entry(j) = e
    <3>1. CASE e \in page \cup shown
      <4>1. PICK j \in Keys : j <= token /\ Entry(j) = e
        BY <3>1 DEF Fresh
      <4>. QED  BY <1>0, <2>1, <2>2, <4>1
    <3>2. CASE e \notin page \cup shown
      BY <2>1, <2>3, <3>2
    <3>. QED  BY <3>1, <3>2
  <2>4. \A k \in keys \ born : k > LastOf => Entry(k) \notin shown
    BY <1>0, <2>1, <2>2 DEF Fresh
  <2>5. ASSUME pc' = "probe", NEW k \in keys \ born, k > LastOf PROVE Entry(k) \notin page'
    <3>1. Full /\ GroupOf[LastOf] = NoGroup
      BY <1>0, <2>1, <2>2, <2>5
    <3>2. SUFFICES ASSUME Entry(k) \in page' PROVE FALSE
      OBVIOUS
    <3>3. PICK j \in Keys : j <= LastOf /\ Entry(j) = Entry(k)
      BY <2>3, <3>2
    <3>4. GroupOf[LastOf] = GroupOf[k] /\ GroupOf[k] # NoGroup
      BY <1>0, <2>2, <2>5, <3>3, Contiguous
    <3>. QED  BY <3>1, <3>4
  <2>6. ASSUME NEW e \in page' \cap shown' PROVE e \in Groups /\ \E k \in born : GroupOf[k] = e
    <3>1. CASE e \in page
      BY <2>1, <2>6, <3>1 DEF Fresh, NothingTwice
    <3>2. CASE e \notin page
      <4>1. PICK k \in Batch : Entry(k) = e
        BY <2>1, <2>6, <3>2
      <4>2. e \in shown /\ k \in Keys /\ k \in keys /\ k > token
        BY <2>1, <2>6
      <4>3. k \in born
        BY <4>1, <4>2 DEF Fresh
      <4>4. PICK j \in Keys : j <= token /\ Entry(j) = e
        BY <4>2 DEF Fresh
      <4>5. e \in Groups /\ GroupOf[k] = e
        BY <1>0, <4>1, <4>2, <4>4, Contiguous
      <4>. QED  BY <4>3, <4>5
    <3>. QED  BY <3>1, <3>2
  <2>7. NothingTwice'
    BY <2>1, <2>6 DEF NothingTwice
  <2>. QED  BY <2>1, <2>3, <2>4, <2>5, <2>7 DEF Fresh
<1>2. CASE Skip
  <2>1. /\ token \in Keys /\ token' \in Keys /\ token <= token' /\ GroupOf[token] # NoGroup
        /\ \/ /\ EndPage(TRUE)
              /\ \A k \in keys : token' < k => GroupOf[k] # GroupOf[token]
           \/ /\ UNCHANGED <<page, shown>>
              /\ (pc' = "skip" \/ (pc' = "probe" /\ \A k \in keys : k <= token'))
        /\ UNCHANGED <<keys, stable, born>>
    BY <1>2, SkipStep
  <2>2. token' \in Nat /\ page' \cup shown' = page \cup shown
    BY <1>0, <2>1 DEF EndPage
  <2>3. ASSUME NEW e \in page' \cup shown' PROVE \E j \in Keys : j <= token' /\ Entry(j) = e
    <3>1. PICK j \in Keys : j <= token /\ Entry(j) = e
      BY <2>2, <2>3 DEF Fresh
    <3>. QED  BY <1>0, <2>1, <2>2, <3>1
  <2>4. \A k \in keys \ born : k > token' => k > token /\ Entry(k) \notin shown
    BY <1>0, <2>1, <2>2 DEF Fresh
  <2>5. CASE EndPage(TRUE) /\ \A k \in keys : token' < k => GroupOf[k] # GroupOf[token]
    <3>1. page' = {} /\ pc' = "fetch" /\ shown' = shown \cup page
      BY <2>5 DEF EndPage
    <3>2. ASSUME NEW k \in keys \ born, k > token', Entry(k) \in page PROVE FALSE
      <4>1. PICK j \in Keys : j <= token /\ Entry(j) = Entry(k)
        BY <3>2 DEF Fresh
      <4>2. GroupOf[token] = GroupOf[k]
        BY <1>0, <2>4, <3>2, <4>1, Contiguous
      <4>. QED  BY <1>0, <2>2, <2>5, <3>2, <4>2
    <3>. QED  BY <2>1, <2>3, <2>4, <3>1, <3>2 DEF Fresh, NothingTwice
  <2>6. CASE UNCHANGED <<page, shown>> /\ (pc' = "skip" \/ (pc' = "probe" /\ \A k \in keys : k <= token'))
    <3>1. pc' = "probe" => \A k \in keys : ~(k > token')
      BY <1>0, <2>2, <2>6
    <3>. QED  BY <2>1, <2>3, <2>4, <2>6, <3>1 DEF Fresh, NothingTwice
  <2>. QED  BY <2>1, <2>5, <2>6
<1>3. CASE Probe
  BY <1>3, ProbeStep DEF Fresh, NothingTwice
<1>4. CASE \E k \in Keys : Insert(k)
  BY <1>4 DEF Insert, client, Fresh, NothingTwice
<1>5. CASE \E k \in Keys : Remove(k)
  BY <1>5 DEF Remove, client, Fresh, NothingTwice
<1>6. CASE UNCHANGED vars
  BY <1>6 DEF vars, client, Fresh, NothingTwice
<1>. QED  BY <1>1, <1>2, <1>3, <1>4, <1>5, <1>6 DEF Next, List

\* No entry is on two pages, but for a common prefix that a new key brings back.
THEOREM ListingNothingTwice == Spec => []NothingTwice
<1>1. Spec => []Fresh
  BY AlwaysTypes, FreshInit, FreshStep, PTL DEF Spec
<1>2. Fresh => NothingTwice
  BY DEF Fresh
<1>. QED  BY <1>1, <1>2, PTL

===============================================================================
