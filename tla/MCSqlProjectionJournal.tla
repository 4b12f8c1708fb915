----------------------- MODULE MCSqlProjectionJournal -----------------------
(* SqlProjectionJournal on small instances. *)
EXTENDS SqlProjectionJournal, TLC

CONSTANTS l1, l2, s1, s2, p1, b1, b2, c1, c2, t1, t2, m1, x1, x2

OneId == [x \in Content |-> m1]
\* The lanes carry different contents that declare one message id.
Colliding == [l \in Lane |-> [p \in Path |-> IF l = l1 THEN x1 ELSE x2]]

Targets == {claim[b].target : b \in {x \in BatchId : status[x] # "FREE"}}

\* One lane may go from head to head and back, under changing control cuts and
\* past its leases; two lanes without a head share one target and one control
\* cut, have it before they are claimed, and have less time.
Workload ==
    /\ seed[l1] # Unseeded => (seed[l1] = NoHead <=> seed[l2] # Unseeded)
    /\ seed[l2] # Unseeded =>
          /\ seed[l2] = NoHead
          /\ \A h, g \in Targets : h = g
          /\ \A l, k \in Lane : cut[l] # NoCut /\ cut[k] # NoCut => cut[l] = cut[k]
          /\ (\E t \in Txn : Running(t)) \/ clock > 0 \/ Targets # {} =>
                \A l \in Lane : cut[l] # NoCut
          /\ clock < MaxTime

Symmetry == Permutations(BatchId) \cup Permutations(Txn) \cup Permutations(Cut)
                \cup Permutations(Sha)
=============================================================================
