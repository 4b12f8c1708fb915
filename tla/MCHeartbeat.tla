---------------------------- MODULE MCHeartbeat ----------------------------
(* Heartbeat on small instances. *)
EXTENDS Heartbeat, TLC

CONSTANTS s1, s2, o1, o2

\* Either the operators may work on the letters, or letters are counted, or
\* schedulers are killed.
MCInit ==
    /\ Init
    /\ \/ elapsed = MaxTime /\ letters = <<>> /\ kills = MaxKills /\ verdicts = 0
       \/ elapsed = MaxSetBack /\ letters = <<>> /\ kills = MaxKills /\ verdicts = MaxVerdicts
       \/ elapsed = MaxSetBack /\ Len(letters) = MaxLetters /\ kills = 0 /\ verdicts = MaxVerdicts
MCSpec == MCInit /\ [][Next]_vars

Symmetry == Permutations(Scheduler) \cup Permutations(Operator)
=============================================================================
