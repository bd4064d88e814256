------------------------------ MODULE MCDownloads ------------------------------
(* Two requests for an object that is three bytes in two chunks and then,   *)
(* overwritten, two bytes in one.                                           *)
EXTENDS Downloads

CONSTANTS r1, r2

MCReqs == {r1, r2}
MCSizeOf == <<3, 2>>
MCHeaders == {FromTo(1, 2)}
MCUnsized == {<<1, 2>>}
===============================================================================
