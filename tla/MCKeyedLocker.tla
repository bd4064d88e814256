---------------------------- MODULE MCKeyedLocker ----------------------------
(* Three requests, two composites, and as many structures as requests can  *)
(* hold at once.                                                           *)
EXTENDS KeyedLocker, TLC

CONSTANTS p1, p2, p3, m1, m2, m3, k1, k2

MCProcs == {p1, p2, p3}
MCKeys == {k1, k2}
MCMutexes == {m1, m2, m3}
=============================================================================
