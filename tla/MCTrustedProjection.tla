------------------------ MODULE MCTrustedProjection ------------------------
(* TrustedProjection on small instances. *)
EXTENDS TrustedProjection, TLC

CONSTANTS g0, g1, g2, d1, e1, r1, r2, t1, t2, t3

\* g0 <- g1 <- g2; d1 forks off at g0 and e1 at g1.
Ancestry == {<<c, c>> : c \in Commit}
                \cup {<<a, b>> \in {g0, g1} \X Commit : a # b /\ (a = g0 \/ b \in {g2, e1})}
\* The first lane starts at g0 and may fork; the second has nothing new.
Anchors == [l \in 1..NLanes |-> IF l = 1 THEN g0 ELSE g1]
\* e1 repeats the id of g0.
Ids == [c \in Commit |-> IF c = e1 THEN g0 ELSE c]
NoIds == [l \in 1..NLanes |-> {}]

\* A move of the control branch takes one of the faults.
Moderate == main + faults <= MaxFaults

Symmetry == Permutations(Run)
=============================================================================
