----------------------------- MODULE MCAzureStore ----------------------------
(* Two instances of the beacon and the purge command on one database.       *)
EXTENDS AzureStore, TLC

CONSTANTS b, s1, s2, i1, high, f1, alice, w1, w2, p1

Sym == Permutations({w1, w2}) \cup Permutations({s1, s2})
=============================================================================
