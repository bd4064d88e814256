-------------------------------- MODULE MCListing --------------------------------
(* Six keys: a common prefix of three keys, which fills a batch, one of two,  *)
(* and a key by itself.                                                       *)
EXTENDS Listing

CONSTANTS p1, p2, none

MCGroupOf == <<p1, p1, p1, p2, p2, none>>

===================================================================================
