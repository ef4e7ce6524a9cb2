------------------------------ MODULE MCOrigin ------------------------------
(* Origin on small instances, for TLC. *)
EXTENDS Origin, TLC

CONSTANTS r1, r2, alice, bob, old, new

TwoRequests == {r1, r2}
TwoUsers == {alice, bob}
BothHosts == {old, new}
Interchangeable == Permutations(TwoRequests) \cup Permutations(TwoUsers)
=============================================================================
