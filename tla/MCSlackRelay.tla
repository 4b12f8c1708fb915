---------------------------- MODULE MCSlackRelay ----------------------------
(* SlackRelay on small instances. *)
EXTENDS SlackRelay, TLC

CONSTANTS p1, p2, n1, n2, x1, v1, v2, v3, o1, o2, m1, m2

\* The alias moves from one endpoint to the other, or is claimed by both, or
\* one claims the id of the other.
Configs == {n1 :> {x1} @@ n2 :> {}, n1 :> {} @@ n2 :> {x1},
            n1 :> {x1} @@ n2 :> {x1}, n1 :> {n2} @@ n2 :> {x1},
            n2 :> {x1}}

\* v2 is another event under the operation of v1, v3 under its message id.
Written == v1 :> x1 @@ v2 :> n2 @@ v3 :> x1
Operations == v1 :> o1 @@ v2 :> o1 @@ v3 :> o2
Messages == v1 :> m1 @@ v2 :> m2 @@ v3 :> m1

Symmetry == Permutations(Process)
=============================================================================
