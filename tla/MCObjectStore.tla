---------------------------- MODULE MCObjectStore ----------------------------
(* Two requests and two keys; k1 and k2 are in buckets of different chats  *)
(* or, with MCOneBinding, of the same chat.                                *)
EXTENDS ObjectStore, TLC

CONSTANTS r1, r2, k1, k2, b1, b2, c1, c2

MCReqs == {r1, r2}
MCKeys == {k1, k2}
MCBuckets == {b1, b2}
MCBindings == {c1, c2}
MCBucketOf == k1 :> b1 @@ k2 :> b2
MCTwoBindings == b1 :> c1 @@ b2 :> c2
MCOneBinding == b1 :> c1 @@ b2 :> c1

MCSymmetry == Permutations(MCReqs)
=============================================================================
