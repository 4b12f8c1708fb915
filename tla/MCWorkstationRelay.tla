------------------------- MODULE MCWorkstationRelay -------------------------
(* WorkstationRelay on small instances. *)
EXTENDS WorkstationRelay, TLC

CONSTANTS r1, r2, t1, t2, v1, v2, v3, e1, e2, e3, i1, i2, h1, h2

\* v1 and v2 look alike.
Titles == [c \in Conversation |-> IF c = v3 THEN h2 ELSE h1]
\* e3 is another envelope under the id of e1.
Ids == [e \in Envelope |-> IF e = e2 THEN i2 ELSE i1]
SameTarget == [e \in Envelope |-> v1]

\* Either the user moves freely around one call, or less around two.
MCInit ==
    /\ Init
    /\ \/ moves = 0 /\ starts = MaxStarts - 1
       \/ moves = MaxMoves - 2 /\ starts = 0

\* An acknowledgement takes one of the moves.  One that nobody reads changes
\* nothing, and one that was there before might as well be written just before
\* it is read.
MCNext ==
    /\ Next
    /\ moves' + Len(acks') <= MaxMoves
    /\ acks' # acks => \E r \in Run : At(r, "ack") /\ AckSeen(r)' # AckSeen(r)

MCSpec == MCInit /\ [][MCNext]_vars

Symmetry == Permutations(Run) \cup Permutations(Tab) \cup Permutations({e1, e3})
=============================================================================
