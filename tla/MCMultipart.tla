------------------------------ MODULE MCMultipart ------------------------------
(* Two uploads to one key, small parts of one chunk and large ones of two. *)
EXTENDS Multipart, TLC

CONSTANTS r1, r2, k1, u1, u2, small, large

MCReqs == {r1, r2}
MCOneKey == {k1}
MCTwoUploads == {u1, u2}
MCContents == {small, large}
MCKeyOfTwo == u1 :> k1 @@ u2 :> k1
MCSizeOf == small :> 1 @@ large :> 2
MCRequested == {<<<<1, small>>>>, <<<<1, small>>, <<2, large>>>>, <<<<2, large>>, <<1, small>>>>}
================================================================================
