------------------------------ MODULE MCReload ------------------------------
(* Three schemas, the third one or two migrations away, two reloads and two  *)
(* messages.                                                                 *)
EXTENDS Reload
CONSTANTS s1, s2, s3, m1, m2, r1, r2
McSchemas == {s1, s2, s3}
McEdges == {<<s1, s2>>, <<s2, s3>>, <<s1, s3>>}
McMsgs == {m1, m2}
McCalls == {r1, r2}
\* Neither calls nor messages are told apart.
McSymmetry == Permutations(McMsgs) \cup Permutations(McCalls)
=============================================================================
