-------------------------- MODULE MCDelayScheduler --------------------------
(* Three deadlines, channels of one and two entries: every full-channel     *)
(* case and every reuse of a key occurs.                                    *)
EXTENDS DelayScheduler, TLC

CONSTANTS t1, t2, t3, nokey

MCIds == {t1, t2, t3}
MCSymmetry == Permutations(MCIds)
=============================================================================
