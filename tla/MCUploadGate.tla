------------------------------ MODULE MCUploadGate ------------------------------
(* Three uploads to three buckets, two of which share a bot token.         *)
EXTENDS UploadGate, TLC

CONSTANTS r1, r2, r3, b1, b2, b3, t1, t2

MCReqs == {r1, r2, r3}
MCBuckets == {b1, b2, b3}
MCTokens == {t1, t2}
MCTokenOf == b1 :> t1 @@ b2 :> t1 @@ b3 :> t2
=================================================================================
