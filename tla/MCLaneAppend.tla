---------------------------- MODULE MCLaneAppend ----------------------------
(* LaneAppend on small instances. *)
EXTENDS LaneAppend, TLC

CONSTANTS w1, w2, n1, n2, g1, g2, g3, m1, m2, x1, x2, x3

\* x1 starts the thread under id m1, x3 is another message of that id, and x2
\* follows it.
Ids == [x \in Content |-> IF x = x2 THEN m2 ELSE m1]
Prevs == [x \in Content |-> IF x = x2 THEN m1 ELSE NoId]
\* x1 and x2 come through the branch check, x3 does not.
Branches == [x \in Content |-> IF x = x3 THEN Undeclared ELSE n1]
\* All come through the branch check.
AllChecked == [x \in Content |-> IF x = x3 THEN n2 ELSE n1]

Symmetry == Permutations(Writer) \cup Permutations(Commit)
=============================================================================
