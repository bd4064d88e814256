-------------------------------- MODULE Listing --------------------------------
(***************************************************************************)
(* ListObjectsV2: s3api/server.go pages through store.ListObjects, which   *)
(* pages through the rows of SQLite.  A page is put together from several  *)
(* queries, each a transaction of its own, while other requests insert and *)
(* remove rows; the client sends the last key of a page back as its        *)
(* continuation token.                                                     *)
(*                                                                         *)
(* Keys are those with the requested prefix, numbered in the order of      *)
(* SQLite.  The delimiter gathers some in a group, a common prefix: keys   *)
(* that start with the same characters are neighbours in that order.       *)
(***************************************************************************)
EXTENDS Naturals, FiniteSets, FiniteSetsExt

CONSTANTS MaxKey,
          GroupOf, NoGroup,  \* the common prefix of each key
          Limit,             \* max-keys
          QueryFactor,       \* rows asked for per entry still wanted, 4 in the code
          SkipLimit          \* rows asked for to get past a group, 32 in the code

Keys == 1..MaxKey

ASSUME SizesAssumption == /\ MaxKey \in Nat /\ Limit \in Nat
                          /\ QueryFactor \in Nat \ {0} /\ SkipLimit \in Nat \ {0}
ASSUME GroupsAssumption ==
  \A i, j \in Keys : i < j /\ GroupOf[i] = GroupOf[j] /\ GroupOf[i] # NoGroup
                     => \A m \in i..j : GroupOf[m] = GroupOf[i]

VARIABLES keys,   \* SQLite: the rows there are
          pc,     \* "fetch" a batch, "skip" the rest of a group, "probe" for more, "done"
          token,  \* the last key of this page so far, and the next page's token
          page,   \* the entries of this page
          shown,  \* the entries of the pages before
          stable, \* history: the keys there from the beginning to now
          born    \* history: the keys inserted since the beginning

client == <<pc, token, page, shown>>
vars   == <<keys, client, stable, born>>

\* An entry is a key listed in Contents, or a group in CommonPrefixes.
Entry(k)  == IF GroupOf[k] = NoGroup THEN k ELSE GroupOf[k]
Groups    == {GroupOf[k] : k \in Keys} \ {NoGroup}
Entries   == {Entry(k) : k \in Keys}

\* Keys are numbers, groups are not: an entry is the one or the other.
ASSUME EntriesAssumption == Groups \cap Keys = {}

\* With max-keys 0 nothing is read and nothing more is promised.
Init == /\ keys \in SUBSET Keys
        /\ pc = IF Limit = 0 THEN "done" ELSE "fetch"
        /\ token = 0 /\ page = {} /\ shown = {}
        /\ stable = keys /\ born = {}

-------------------------------------------------------------------------------

\* metadata.ListObjects: the first n rows after a key.
Query(after, n) ==
  LET later == {k \in keys : k > after}
  IN {k \in later : Cardinality({j \in later : j < k}) < n}

BatchSize == LET n == (Limit - Cardinality(page)) * QueryFactor + 1
             IN IF n < 2 THEN 2 ELSE n

\* What the page holds after the batch up to k.
PageAt(batch, k) == page \cup {Entry(j) : j \in {i \in batch : i <= k}}

\* Mutation: a page may reach one entry further than its limit.
StopAtLate(batch) == {k \in batch : Cardinality(PageAt(batch, k)) > Limit}

\* The rows of a batch that fill the page; the first of them ends it.
StopAt(batch) == {k \in batch : Cardinality(PageAt(batch, k)) >= Limit}

\* Mutation: the token stays at the row that opened the last group.
FetchTokenBehind ==
  LET batch == Query(token, BatchSize)
      full  == StopAt(batch) # {}
      last  == IF full THEN Min(StopAt(batch)) ELSE IF batch = {} THEN token ELSE Max(batch)
      opens == {k \in batch : k <= last /\ Entry(k) \notin page
                              /\ \A j \in batch : Entry(j) = Entry(k) => k <= j}
  IN /\ pc = "fetch"
     /\ page' = PageAt(batch, last)
     /\ token' = IF opens = {} THEN token ELSE Max(opens)
     /\ pc' = IF full THEN IF GroupOf[last] # NoGroup THEN "skip" ELSE "probe"
              ELSE IF Cardinality(batch) < BatchSize THEN "probe"
              ELSE "fetch"
     /\ UNCHANGED <<keys, shown, stable, born>>

\* One turn of the loop: read a batch and list its rows until the page is
\* full.  A group that fills the page is skipped first.
Fetch ==
  LET batch == Query(token, BatchSize)
      full  == StopAt(batch) # {}
      last  == IF full THEN Min(StopAt(batch)) ELSE IF batch = {} THEN token ELSE Max(batch)
  IN /\ pc = "fetch"
     /\ page' = PageAt(batch, last)
     /\ token' = last
     /\ pc' = IF full THEN IF GroupOf[last] # NoGroup THEN "skip" ELSE "probe"
              ELSE IF Cardinality(batch) < BatchSize THEN "probe"
              ELSE "fetch"
     /\ UNCHANGED <<keys, shown, stable, born>>

\* The page goes to the client, which asks for the next one if there is one.
EndPage(truncated) ==
  /\ shown' = shown \cup page
  /\ page' = {}
  /\ pc' = IF truncated THEN "fetch" ELSE "done"

\* Mutation: the first row of the next group is skipped with the last one's.
SkipTooFar ==
  LET batch == Query(token, SkipLimit)
      other == {k \in batch : GroupOf[k] # GroupOf[token]}
  IN /\ pc = "skip"
     /\ token' = IF other # {} THEN Min(other) ELSE IF batch = {} THEN token ELSE Max(batch)
     /\ IF other # {} THEN EndPage(TRUE)
        ELSE /\ pc' = IF Cardinality(batch) < SkipLimit THEN "probe" ELSE "skip"
             /\ UNCHANGED <<page, shown>>
     /\ UNCHANGED <<keys, stable, born>>

\* Mutation: the page ends without getting past its last group.
SkipNothing == /\ pc = "skip"
               /\ EndPage(TRUE)
               /\ UNCHANGED <<keys, token, stable, born>>

\* advanceContinuationPastPrefix: one turn of its loop.  A row outside the
\* group ends the page, with more to come; so does the end of the rows, with
\* a last look.
Skip ==
  LET batch == Query(token, SkipLimit)
      other == {k \in batch : GroupOf[k] # GroupOf[token]}
      same  == {k \in batch : \A j \in other : k < j}
  IN /\ pc = "skip"
     /\ token' = IF same = {} THEN token ELSE Max(same)
     /\ IF other # {} THEN EndPage(TRUE)
        ELSE /\ pc' = IF Cardinality(batch) < SkipLimit THEN "probe" ELSE "skip"
             /\ UNCHANGED <<page, shown>>
     /\ UNCHANGED <<keys, stable, born>>

\* Is there a row after the last one?  An empty page does not look.
Probe ==
  /\ pc = "probe"
  /\ EndPage(page # {} /\ Query(token, 1) # {})
  /\ UNCHANGED <<keys, token, stable, born>>

\* Other requests insert and remove rows.
Insert(k) == /\ keys' = keys \cup {k}
             /\ born' = born \cup ({k} \ keys)
             /\ UNCHANGED <<client, stable>>

Remove(k) == /\ keys' = keys \ {k}
             /\ stable' = stable \ {k}
             /\ UNCHANGED <<client, born>>

List == Fetch \/ Skip \/ Probe

Next == List \/ \E k \in Keys : Insert(k) \/ Remove(k)

Spec == Init /\ [][Next]_vars

\* The handler runs, and the client asks for page after page; the other
\* requests may go on for ever.
FairSpec == Spec /\ WF_vars(List)

-------------------------------------------------------------------------------
(* Properties                                                              *)

\* Types; a page never has more than max-keys entries.
TypeOK == /\ keys \subseteq Keys /\ stable \subseteq keys /\ born \subseteq Keys
          /\ pc \in {"fetch", "skip", "probe", "done"}
          /\ token \in 0..MaxKey
          /\ page \subseteq Entries /\ shown \subseteq Entries
          /\ Cardinality(page) <= Limit

\* A complete listing names every key that was there all the time, by itself
\* or by its common prefix, whatever was inserted and removed between the
\* queries (store.go:832-911 and the token of server.go:428-434).
StableKeysListed == pc = "done" /\ Limit > 0 => \A k \in stable : Entry(k) \in shown

\* No entry appears on two pages, except a common prefix that got a new key
\* after the page that listed it (store.go:931-957 skips the keys it had).
NothingTwice ==
  \A e \in page \cap shown : e \in Groups /\ \E k \in born : GroupOf[k] = e

\* Every listing ends, even while keys keep coming and going: each query
\* starts after the one before.
EveryListingEnds == <>(pc = "done")

===============================================================================
