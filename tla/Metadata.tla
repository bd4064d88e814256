-------------------------------- MODULE Metadata --------------------------------
(***************************************************************************)
(* metadata/sqlite.go: what one transaction does to the object rows of a   *)
(* bucket.  The rows are a function from the keys that exist.              *)
(*                                                                         *)
(* A key is a path: the sequence of the names between its slashes, in the  *)
(* order of SQLite, with 0 for the empty name after a trailing slash.  The *)
(* prefix "dir/" of the transactions on collections is the path of dir.    *)
(***************************************************************************)
EXTENDS Naturals, Sequences, SequencesExt, Functions

CONSTANTS Names,   \* the names of files and collections
          FoldOf   \* what SQLite's LIKE sees of a name: it folds ASCII case

ASSUME NamesAssumption == Names \subseteq Nat \ {0} /\ FoldOf \in [Names -> Names]

Marker(dir) == Append(dir, 0)

NoRows == <<>>

\* meta stands for the size and the hashes of an object, chunks for its
\* object_chunks.
Row(meta, chunks) == [meta |-> meta, chunks |-> chunks]

\* Mutation: the pattern loses its trailing slash, and matches one name less.
MatchesLess(dir, key) ==
  /\ Len(dir) < Len(key)
  /\ \A i \in 1..(Len(dir) - 1) : key[i] # 0 /\ FoldOf[key[i]] = FoldOf[dir[i]]

\* key LIKE 'dir/%'.
Matches(dir, key) ==
  /\ Len(dir) < Len(key)
  /\ \A i \in DOMAIN dir : key[i] # 0 /\ FoldOf[key[i]] = FoldOf[dir[i]]

Under(rows, dir) == {key \in DOMAIN rows : Matches(dir, key)}

\* strings.TrimPrefix(key, "dir/"), which does not fold case.
Rest(dir, key) == IF IsStrictPrefix(dir, key) THEN SubSeq(key, Len(dir) + 1, Len(key)) ELSE key

\* The order of the keys' bytes.
Before(a, b) == \/ IsStrictPrefix(a, b)
                \/ \E i \in DOMAIN a \cap DOMAIN b : a[i] < b[i] /\ \A j \in 1..(i - 1) : a[j] = b[j]

\* putObjectInTx and deleteObjectInTx.
Written(rows, key, row) == [k \in DOMAIN rows \cup {key} |-> IF k = key THEN row ELSE rows[k]]
Without(rows, keys)     == Restrict(rows, DOMAIN rows \ keys)

CopyObject(rows, src, dst) == Written(rows, dst, rows[src])
MoveObject(rows, src, dst) == Without(CopyObject(rows, src, dst), {src})

\* copyPrefixInTx goes through the rows it has read in the order of their
\* keys.  It writes what it has read of the object row with the chunks the
\* source has by then, and notes a destination that exists by then.
CopyOne(src, dst, rows, acc, key) ==
  LET to == dst \o Rest(src, key)
  IN [rows |-> Written(acc.rows, to, Row(rows[key].meta, acc.rows[key].chunks)),
      hit  |-> acc.hit \/ to \in DOMAIN acc.rows]

LastOf(keys) == CHOOSE key \in keys : \A other \in keys : ~Before(key, other)

CopyPrefix(rows, src, dst) ==
  MapThenFoldSet(LAMBDA key, acc : CopyOne(src, dst, rows, acc, key),
                 [rows |-> rows, hit |-> FALSE],
                 LAMBDA key : key,
                 LastOf,
                 Under(rows, src))

DeletePrefix(rows, dir) == Without(rows, Under(rows, dir))

\* Copy, then delete what the prefix matches by now.
MovePrefix(rows, src, dst) ==
  LET copied == CopyPrefix(rows, src, dst)
  IN [copied EXCEPT !.rows = DeletePrefix(@, src)]

================================================================================
