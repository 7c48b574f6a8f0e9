---------------------------- MODULE MCBootstrap ----------------------------
(* Two builders on one service collection and one without. *)
EXTENDS Bootstrap, TLC

CONSTANTS t1, t2, b1, b2, b3, s1

MCServicesOf == [b \in Builders |-> IF b = b3 THEN NoServices ELSE s1]
Symmetry == Permutations({t1, t2}) \cup Permutations({b1, b2})
=============================================================================
