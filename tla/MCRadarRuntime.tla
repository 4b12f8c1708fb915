--------------------------- MODULE MCRadarRuntime ---------------------------
(* RadarRuntime on small instances. *)
EXTENDS RadarRuntime, TLC

CONSTANTS t1, t2, u1, u2, o1, o2, k1, k2, k3

\* u1 and u2 are urgent.  o1 has the payload of u1.
Priorities == [e \in Envelope |-> IF e \in {u1, u2} THEN 0 ELSE IF e = o1 THEN 2 ELSE 3]
Keys == [e \in Envelope |-> CASE e \in {u1, o1} -> k1 [] e = u2 -> k2 [] OTHER -> k3]

Symmetry == Permutations(Thread)
=============================================================================
