----------------------------- MODULE MCGenerator -----------------------------
(* Two simulated requests and what may come between them. *)
EXTENDS Generator, TLC

CONSTANTS r1, r2, r3, r4

MCRequests == {r1, r2, r3, r4}

MCSymmetry == Permutations(MCRequests)
==============================================================================
