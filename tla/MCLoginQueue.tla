---------------------------- MODULE MCLoginQueue ----------------------------
(* LoginQueue for TLC: one account that connects again while it is         *)
(* connected, and two, alike, that connect once at a time.                 *)
EXTENDS LoginQueue, TLC
CONSTANTS a1, a2, a3, k0, k1, k2
MCAccount == {a1, a2, a3}
MCSession == {<<a1, k1>>, <<a1, k2>>, <<a2, k0>>, <<a3, k0>>}
MCOwner == [s \in MCSession |-> s[1]]
Nobody == {}
Symmetry == Permutations({a2, a3}) \cup Permutations({k1, k2})
=============================================================================
