------------------------ MODULE MCProjectionJournal ------------------------
(* ProjectionJournal on a small instance: one lane is enough to make claims *)
(* race, because lanes share no state of the journal.                       *)
EXTENDS ProjectionJournal, TLC

CONSTANTS l1, s1, s2, p1, p2, b1, b2, b3, c1, c2

\* Shas, cuts, paths and batch ids are opaque to the journal: it compares them
\* for equality and nothing else.
Symmetry == Permutations(BatchId) \cup Permutations(Sha)
                \cup Permutations(Path) \cup Permutations(Cut)
=============================================================================
