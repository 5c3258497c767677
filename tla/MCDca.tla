------------------------------- MODULE MCDca -------------------------------
(***************************************************************************)
(* Dca on small instances.                                                 *)
(***************************************************************************)
EXTENDS DcaProps, TLC

CONSTANTS s1, s2, d1, d2, m1, m2, p1, p2

Sym == Permutations({s1, s2}) \cup Permutations({d1, d2})

=============================================================================
