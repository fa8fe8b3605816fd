----------------------------- MODULE MCSlabPool -----------------------------
(* Three threads on a two-slot pool: exhaustion, reuse and drops overlap.   *)
EXTENDS SlabPool, TLC

CONSTANTS h1, h2, h3, b1, b2, blank

MCHolders == {h1, h2, h3}
MCBytes == {b1, b2}
MCSymmetry == Permutations(MCHolders) \cup Permutations(MCBytes)
=============================================================================
