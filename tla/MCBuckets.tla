------------------------------- MODULE MCBuckets -------------------------------
(* Three buckets, two of them in the same chat.                             *)
EXTENDS Buckets, TLC

CONSTANTS n1, n2, n3, c1, c2

MCNames == {n1, n2, n3}
MCChats == {c1, c2}
MCChatOf == n1 :> c1 @@ n2 :> c1 @@ n3 :> c2
MCSymmetry == Permutations({n1, n2})
===============================================================================
