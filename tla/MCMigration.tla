---------------------------- MODULE MCMigration ----------------------------
(* Two calls, to different targets, and two messages.                       *)
EXTENDS Migration

CONSTANTS a1, a2, m1, m2, none

MCAttempts == {a1, a2}
MCMsgs == {m1, m2}
=============================================================================
