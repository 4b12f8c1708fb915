---------------------- MODULE ProjectionJournalProofs ----------------------
(* Theorems about ProjectionJournal, for every set of lanes, batches, paths, *)
(* heads and control cuts, every lease length and any clock.                 *)
EXTENDS ProjectionJournal, TLAPS

\* Every variable of the journal has its type in every reachable state.
THEOREM TypeCorrect == Spec => []TypeOK
<1>1. Init => TypeOK
  BY DistinctSentinels DEF Init, TypeOK, Base, FileState
<1>2. TypeOK /\ [Next]_vars => TypeOK'
  <2> SUFFICES ASSUME TypeOK, [Next]_vars PROVE TypeOK'
    OBVIOUS
  <2> USE DEF TypeOK, Base
  <2>1. ASSUME NEW l \in Lane, NEW h \in Base, SeedLane(l, h) PROVE TypeOK'
    BY <2>1 DEF SeedLane
  <2>2. ASSUME NEW l \in Lane, NEW c \in Cut, SetControlCut(l, c) PROVE TypeOK'
    BY <2>2 DEF SetControlCut
  <2>3. ASSUME NEW l \in Lane, NEW e \in Base, NEW t \in Sha, NEW c \in Cut,
               NEW ps \in SUBSET Path, NEW b \in BatchId, NEW now \in Reading,
               NEW lease \in Lease, ClaimBatch(l, e, t, c, ps, b, now, lease)
        PROVE TypeOK'
    <3>1. now + lease \in Nat
      BY LeasesPositive DEF Reading
    <3>2. [lane |-> l, expected |-> e, target |-> t, cut |-> c,
           lease |-> now + lease] \in Claim
      BY <3>1 DEF Claim
    <3>3. claim' \in [BatchId -> Claim \cup {NoClaim}]
      BY <2>3, <3>2 DEF ClaimBatch, CanClaim
    <3>4. files' \in [BatchId -> [Path -> FileState]]
      BY <2>3 DEF ClaimBatch, CanClaim, FileState
    <3>5. QED
      BY <2>3, <3>3, <3>4 DEF ClaimBatch, CanClaim
  <2>4. ASSUME NEW b \in BatchId, NEW p \in Path, NEW r \in Result,
               RecordFileResult(b, p, r)
        PROVE TypeOK'
    <3>1. files' \in [BatchId -> [Path -> FileState]]
      BY <2>4 DEF RecordFileResult, FileState
    <3>2. QED
      BY <2>4, <3>1 DEF RecordFileResult
  <2>5. ASSUME NEW b \in BatchId, NEW now \in Reading, FinalizeBatch(b, now)
        PROVE TypeOK'
    <3>1. claim[b] \in Claim
      BY <2>5 DEF FinalizeBatch, CanFinalize, NewHead, Current, Issued
    <3>2. claim[b].lane \in Lane /\ claim[b].target \in Sha
      BY <3>1 DEF Claim
    <3>3. history' \in [Lane -> Seq(BatchId)]
      BY <2>5, <3>2 DEF FinalizeBatch, CanFinalize, NewHead
    <3>4. QED
      BY <2>5, <3>2, <3>3 DEF FinalizeBatch, CanFinalize, NewHead
  <2>6. ASSUME NEW b \in BatchId, FinalizeAgain(b) PROVE TypeOK'
    BY <2>6 DEF FinalizeAgain
  <2>7. CASE Tick
    BY <2>7 DEF Tick
  <2>8. CASE UNCHANGED vars
    BY <2>8 DEF vars
  <2>9. QED
    BY <2>1, <2>2, <2>3, <2>4, <2>5, <2>6, <2>7, <2>8 DEF Next
<1>3. QED
  BY <1>1, <1>2, PTL DEF Spec

-----------------------------------------------------------------------------

\* What the safety invariants need to be inductive: they hold together, and a
\* complete batch is one that was issued.
CompleteAreIssued == complete \subseteq Issued

SafetyInv ==
    /\ TypeOK
    /\ CompleteAreIssued
    /\ CurrentClaimHasCurrentBase
    /\ FinalizedOnceAndResolved
    /\ HeadsFormOneChain

\* The claim of an issued batch is a well-formed record.
LEMMA IssuedClaim ==
    ASSUME TypeOK, NEW b \in BatchId, claim[b] # NoClaim
    PROVE  /\ claim[b] \in Claim
           /\ claim[b].lane \in Lane
           /\ claim[b].expected \in Base
           /\ claim[b].target \in Sha
           /\ claim[b].lease \in Nat
BY DEF TypeOK, Claim

\* A lane nobody seeded has no claim and no history: claim_batch never invents
\* a cursor.
LEMMA UnseededIsBlank ==
    ASSUME SafetyInv, NEW l \in Lane, projected[l] = Unseeded
    PROVE  active[l] = NoBatch /\ history[l] = <<>> /\ seed[l] = Unseeded
<1> USE DEF SafetyInv, TypeOK
<1>1. active[l] = NoBatch
  <2>1. SUFFICES ASSUME active[l] # NoBatch PROVE FALSE
    OBVIOUS
  <2>2. active[l] \in Issued /\ claim[active[l]].expected = Unseeded
    BY <2>1 DEF CurrentClaimHasCurrentBase
  <2>3. QED
    BY <2>2, IssuedClaim, DistinctSentinels DEF Issued, Base
<1>2. Len(history[l]) = 0
  <2>1. SUFFICES ASSUME Len(history[l]) # 0 PROVE FALSE
    OBVIOUS
  <2> DEFINE n == Len(history[l])
  <2>2. history[l] \in Seq(BatchId) /\ n \in Nat /\ n \in 1..n
    BY <2>1
  <2>3. history[l][n] \in BatchId /\ claim[history[l][n]] # NoClaim
    BY <2>2 DEF FinalizedOnceAndResolved, CompleteAreIssued, Issued
  <2>4. claim[history[l][n]].target = Unseeded
    BY <2>1, <2>2 DEF HeadsFormOneChain, HeadBefore
  <2>5. QED
    BY <2>3, <2>4, IssuedClaim, DistinctSentinels
<1>3. history[l] = <<>>
  BY <1>2
<1>4. seed[l] = Unseeded
  BY <1>2 DEF HeadsFormOneChain, HeadBefore
<1>5. QED
  BY <1>1, <1>3, <1>4

\* A journal without lanes satisfies the invariant.
LEMMA SafetyInit == Init => SafetyInv
<1> SUFFICES ASSUME Init PROVE SafetyInv
  OBVIOUS
<1> USE DEF Init
<1>1. TypeOK
  BY DistinctSentinels DEF TypeOK, Base, FileState
<1>2. CompleteAreIssued
  BY DEF CompleteAreIssued
<1>3. CurrentClaimHasCurrentBase
  BY DEF CurrentClaimHasCurrentBase
<1>4. FinalizedOnceAndResolved
  BY DEF FinalizedOnceAndResolved
<1>5. HeadsFormOneChain
  <2> SUFFICES ASSUME NEW l \in Lane
               PROVE  /\ 1..Len(history[l]) = {}
                      /\ projected[l] = HeadBefore(l, Len(history[l]) + 1)
    BY DEF HeadsFormOneChain
  <2>1. Len(history[l]) = 0
    <3>1. Len(<<>>) = 0
      OBVIOUS
    <3>2. history[l] = <<>>
      OBVIOUS
    <3>3. QED
      BY <3>1, <3>2
  <2>2. Len(history[l]) + 1 = 1
    BY <2>1
  <2>3. HeadBefore(l, 1) = projected[l]
    BY DEF HeadBefore
  <2>4. QED
    BY <2>1, <2>2, <2>3
<1>6. QED
  BY <1>1, <1>2, <1>3, <1>4, <1>5 DEF SafetyInv

\* Steps that issue no claim and finalize nothing keep every part.
LEMMA SafetySeed ==
    ASSUME SafetyInv, TypeOK', NEW l \in Lane, NEW h \in Base, SeedLane(l, h)
    PROVE  SafetyInv'
<1> USE DEF SafetyInv, SeedLane, TypeOK
<1>1. active[l] = NoBatch /\ history[l] = <<>>
  BY UnseededIsBlank
<1>2. CompleteAreIssued'
  BY DEF CompleteAreIssued, Issued
<1>3. CurrentClaimHasCurrentBase'
  BY <1>1 DEF CurrentClaimHasCurrentBase, Issued
<1>4. FinalizedOnceAndResolved'
  BY DEF FinalizedOnceAndResolved, Resolved
<1>5. HeadsFormOneChain'
  BY <1>1 DEF HeadsFormOneChain, HeadBefore
<1>6. QED
  BY <1>2, <1>3, <1>4, <1>5

\* claim_batch keeps the invariant: a new claim stands on the head of its lane.
LEMMA SafetyClaim ==
    ASSUME SafetyInv, TypeOK', NEW l \in Lane, NEW e \in Base, NEW t \in Sha,
           NEW c \in Cut, NEW ps \in SUBSET Path, NEW b \in BatchId,
           NEW now \in Reading, NEW lease \in Lease,
           ClaimBatch(l, e, t, c, ps, b, now, lease)
    PROVE  SafetyInv'
<1> USE DEF SafetyInv, ClaimBatch, CanClaim, TypeOK
<1>1. b \notin complete /\ claim'[b] \in Claim /\ claim'[b] # NoClaim
      /\ claim'[b].lane = l /\ claim'[b].expected = e
  <2>1. b \notin complete
    BY DEF CompleteAreIssued, Issued
  <2>2. now + lease \in Nat
    BY LeasesPositive DEF Reading
  <2>3. claim'[b] = [lane |-> l, expected |-> e, target |-> t, cut |-> c,
                     lease |-> now + lease]
    OBVIOUS
  <2>4. claim'[b] # NoClaim
    BY <2>2, <2>3, DistinctSentinels DEF Claim
  <2>5. QED
    BY <2>1, <2>2, <2>3, <2>4 DEF Claim
<1>2. \A x \in BatchId : x # b => claim'[x] = claim[x] /\ files'[x] = files[x]
  OBVIOUS
<1>3. CompleteAreIssued'
  BY <1>1, <1>2 DEF CompleteAreIssued, Issued
<1>4. CurrentClaimHasCurrentBase'
  BY <1>1, <1>2 DEF CurrentClaimHasCurrentBase, Issued
<1>5. \A k \in Lane : \A i \in 1..Len(history[k]) :
         history[k][i] \in BatchId /\ history[k][i] # b
  BY <1>1 DEF FinalizedOnceAndResolved
<1>6. FinalizedOnceAndResolved'
  <2>1. \A x \in complete : x \in BatchId /\ x # b
    BY <1>1
  <2>2. \A x \in complete : Resolved(x)'
    BY <1>2, <2>1 DEF FinalizedOnceAndResolved, Resolved
  <2>3. \A k \in Lane : \A i, j \in 1..Len(history'[k]) :
          /\ history'[k][i] \in complete'
          /\ claim'[history'[k][i]].lane = k
          /\ history'[k][i] = history'[k][j] => i = j
    BY <1>2, <1>5 DEF FinalizedOnceAndResolved
  <2>4. \A x \in complete : \E i \in 1..Len(history[claim[x].lane]) :
          history[claim[x].lane][i] = x
    BY DEF FinalizedOnceAndResolved
  <2>5. \A x \in complete' : \E i \in 1..Len(history'[claim'[x].lane]) :
          history'[claim'[x].lane][i] = x
    BY ZenonT(60), <1>2, <2>1, <2>4
  <2>6. QED
    BY <2>2, <2>3, <2>5 DEF FinalizedOnceAndResolved
<1>7. HeadsFormOneChain'
  <2>1. \A k \in Lane : history'[k] \in Seq(BatchId) /\ Len(history'[k]) \in Nat
    OBVIOUS
  <2>2. \A k \in Lane : \A i \in 1..Len(history[k]) + 1 :
           HeadBefore(k, i)' = HeadBefore(k, i)
    BY <1>2, <1>5, <2>1 DEF HeadBefore
  <2>3. QED
    BY <1>2, <1>5, <2>1, <2>2 DEF HeadsFormOneChain
<1>8. QED
  BY <1>3, <1>4, <1>6, <1>7

\* record_file_result keeps the invariant: it changes a file of a current claim.
LEMMA SafetyRecord ==
    ASSUME SafetyInv, TypeOK', NEW b \in BatchId, NEW p \in Path,
           NEW r \in Result, RecordFileResult(b, p, r)
    PROVE  SafetyInv'
<1> USE DEF SafetyInv, RecordFileResult
<1>1. CompleteAreIssued'
  BY DEF CompleteAreIssued, Issued
<1>2. CurrentClaimHasCurrentBase'
  BY DEF CurrentClaimHasCurrentBase, Issued
<1>3. \A x \in complete : Resolved(x)'
  BY DEF FinalizedOnceAndResolved, Resolved, TypeOK
<1>4. FinalizedOnceAndResolved'
  BY <1>3 DEF FinalizedOnceAndResolved
<1>5. HeadsFormOneChain'
  BY DEF HeadsFormOneChain, HeadBefore
<1>6. QED
  BY <1>1, <1>2, <1>4, <1>5

\* The step the journal is about: the finalized batch extends the chain of its
\* own lane by one link and touches no other.
LEMMA SafetyFinalize ==
    ASSUME SafetyInv, TypeOK', NEW b \in BatchId, NEW now \in Reading,
           FinalizeBatch(b, now)
    PROVE  SafetyInv'
<1> USE DEF SafetyInv
<1>1. /\ b \in Issued /\ b \notin complete /\ Resolved(b)
      /\ active[claim[b].lane] = b
      /\ projected[claim[b].lane] = claim[b].expected
  BY DEF FinalizeBatch, CanFinalize, NewHead, Current
<1>2. claim[b].lane \in Lane /\ claim[b].target \in Sha
  BY <1>1, IssuedClaim DEF Issued
\* The lane and the length of its history are constants of the step.
<1>3. PICK m \in Lane, n \in Nat : m = claim[b].lane /\ n = Len(history[m])
                                 /\ history[m] \in Seq(BatchId)
  BY <1>2 DEF TypeOK
<1>4. /\ history' = [history EXCEPT ![m] = Append(history[m], b)]
      /\ projected' = [projected EXCEPT ![m] = claim[b].target]
      /\ active' = [active EXCEPT ![m] = NoBatch]
      /\ complete' = complete \cup {b}
      /\ claim' = claim /\ files' = files /\ seed' = seed
  BY <1>3 DEF FinalizeBatch, CanFinalize, NewHead
<1>5. /\ history'[m] = Append(history[m], b)
      /\ Len(history'[m]) = n + 1
      /\ history'[m][n + 1] = b
      /\ \A i \in 1..n : history'[m][i] = history[m][i]
  BY <1>3, <1>4 DEF TypeOK
<1>6. \A k \in Lane : k # m => /\ history'[k] = history[k]
                               /\ projected'[k] = projected[k]
                               /\ active'[k] = active[k]
  BY <1>2, <1>3, <1>4 DEF TypeOK
<1>7. projected'[m] = claim[b].target /\ active'[m] = NoBatch
  BY <1>2, <1>3, <1>4 DEF TypeOK
<1>8. CompleteAreIssued'
  BY <1>1, <1>4 DEF CompleteAreIssued, Issued
<1>9. CurrentClaimHasCurrentBase'
  <2> SUFFICES ASSUME NEW k \in Lane, active'[k] # NoBatch
               PROVE  /\ active'[k] \in Issued \ complete'
                      /\ claim[active'[k]].lane = k
                      /\ claim[active'[k]].expected = projected'[k]
    BY <1>4 DEF CurrentClaimHasCurrentBase, Issued
  <2>1. k # m
    BY <1>7
  <2>2. active[k] \in Issued \ complete /\ claim[active[k]].lane = k
        /\ claim[active[k]].expected = projected[k]
    BY <1>6, <2>1 DEF CurrentClaimHasCurrentBase
  <2>3. active[k] # b
    BY <1>3, <2>1, <2>2
  <2>4. QED
    BY <1>4, <1>6, <2>1, <2>2, <2>3
<1>10. FinalizedOnceAndResolved'
  <2>1. \A x \in complete' : Resolved(x)'
    BY <1>1, <1>4 DEF FinalizedOnceAndResolved, Resolved
  <2>2. \A i \in 1..n : history[m][i] \in complete /\ history[m][i] # b
                        /\ claim[history[m][i]].lane = m
    BY <1>1, <1>3 DEF FinalizedOnceAndResolved
  <2>3. ASSUME NEW k \in Lane, NEW i \in 1..Len(history'[k]),
               NEW j \in 1..Len(history'[k])
        PROVE  /\ history'[k][i] \in complete'
               /\ claim[history'[k][i]].lane = k
               /\ history'[k][i] = history'[k][j] => i = j
    <3>1. CASE k # m
      BY <1>4, <1>6, <3>1 DEF FinalizedOnceAndResolved
    <3>2. CASE k = m
      <4>1. i \in 1..n \/ i = n + 1
        BY <1>3, <1>5, <3>2
      <4>2. j \in 1..n \/ j = n + 1
        BY <1>3, <1>5, <3>2
      <4>3. \A x, y \in 1..n : history[m][x] = history[m][y] => x = y
        BY <1>3 DEF FinalizedOnceAndResolved
      <4>4. QED
        BY <1>3, <1>4, <1>5, <2>2, <3>2, <4>1, <4>2, <4>3
    <3>3. QED
      BY <3>1, <3>2
  <2>4. ASSUME NEW x \in complete'
        PROVE  \E i \in 1..Len(history'[claim[x].lane]) :
                  history'[claim[x].lane][i] = x
    <3>1. CASE x = b
      BY <1>3, <1>5, <3>1
    <3>2. CASE x # b
      <4>1. x \in complete /\ claim[x].lane \in Lane
        BY <1>4, <3>2, IssuedClaim DEF CompleteAreIssued, Issued
      <4>2. PICK i \in 1..Len(history[claim[x].lane]) :
               history[claim[x].lane][i] = x
        BY <4>1 DEF FinalizedOnceAndResolved
      <4>3. CASE claim[x].lane # m
        BY <1>6, <4>1, <4>2, <4>3
      <4>4. CASE claim[x].lane = m
        <5>1. i \in 1..n /\ i \in 1..(n + 1)
          BY <1>3, <4>2, <4>4
        <5>2. QED
          BY <1>5, <4>2, <4>4, <5>1
      <4>5. QED
        BY <4>3, <4>4
    <3>3. QED
      BY <3>1, <3>2
  <2>5. QED
    BY <1>4, <2>1, <2>3, <2>4 DEF FinalizedOnceAndResolved
<1>11. HeadsFormOneChain'
  <2>1. ASSUME NEW k \in Lane, k # m
        PROVE  /\ \A i \in 1..Len(history'[k]) :
                     claim'[history'[k][i]].expected = HeadBefore(k, i)'
               /\ projected'[k] = HeadBefore(k, Len(history[k]) + 1)'
    BY <1>3, <1>4, <1>6, <2>1 DEF HeadsFormOneChain, HeadBefore
  <2>2. \A i \in 1..(n + 1) : HeadBefore(m, i)' = HeadBefore(m, i)
    BY <1>3, <1>4, <1>5 DEF HeadBefore
  <2>3. HeadBefore(m, Len(history[m]) + 1)' = claim[b].target
    <3>1. Len(history'[m]) + 1 # 1 /\ (Len(history'[m]) + 1) - 1 = n + 1
      BY <1>3, <1>5
    <3>2. QED
      BY <1>4, <1>5, <3>1 DEF HeadBefore
  <2>4. claim[b].expected = HeadBefore(m, n + 1)
    BY <1>1, <1>3 DEF HeadsFormOneChain
  <2>5. ASSUME NEW i \in 1..(n + 1)
        PROVE  claim[history'[m][i]].expected = HeadBefore(m, i)'
    <3>1. CASE i = n + 1
      BY <1>3, <1>5, <2>2, <2>4, <3>1
    <3>2. CASE i # n + 1
      <4>1. i \in 1..n
        BY <1>3, <3>2
      <4>2. claim[history[m][i]].expected = HeadBefore(m, i)
        BY <1>3, <4>1 DEF HeadsFormOneChain
      <4>3. QED
        BY <1>5, <2>2, <4>1, <4>2
    <3>3. QED
      BY <3>1, <3>2
  <2>6. Len(history'[m]) = n + 1
    BY <1>5
  <2>7. ASSUME NEW k \in Lane
        PROVE  /\ \A i \in 1..Len(history'[k]) :
                     claim'[history'[k][i]].expected = HeadBefore(k, i)'
               /\ projected'[k] = HeadBefore(k, Len(history[k]) + 1)'
    <3>1. CASE k = m
      BY <1>4, <1>7, <2>3, <2>5, <2>6, <3>1
    <3>2. CASE k # m
      BY <2>1, <3>2
    <3>3. QED
      BY <3>1, <3>2
  <2>8. QED
    BY <2>7 DEF HeadsFormOneChain
<1>12. QED
  BY <1>8, <1>9, <1>10, <1>11

\* Steps that leave lanes, claims and results alone keep every part.
LEMMA SafetyFrame ==
    ASSUME SafetyInv, TypeOK',
           UNCHANGED <<projected, claim, files, complete, active, seed, history>>
    PROVE  SafetyInv'
<1> USE DEF SafetyInv
<1>1. CompleteAreIssued'
  BY DEF CompleteAreIssued, Issued
<1>2. CurrentClaimHasCurrentBase'
  BY DEF CurrentClaimHasCurrentBase, Issued
<1>3. FinalizedOnceAndResolved'
  BY DEF FinalizedOnceAndResolved, Resolved
<1>4. HeadsFormOneChain'
  BY DEF HeadsFormOneChain, HeadBefore
<1>5. QED
  BY <1>1, <1>2, <1>3, <1>4

\* Every step keeps the invariant.
LEMMA SafetyStep == SafetyInv /\ TypeOK' /\ [Next]_vars => SafetyInv'
<1> SUFFICES ASSUME SafetyInv, TypeOK', [Next]_vars PROVE SafetyInv'
  OBVIOUS
<1>1. ASSUME NEW l \in Lane, NEW c \in Cut, SetControlCut(l, c)
      PROVE  SafetyInv'
  BY <1>1, SafetyFrame DEF SetControlCut
<1>2. ASSUME NEW b \in BatchId, FinalizeAgain(b) PROVE SafetyInv'
  BY <1>2, SafetyFrame DEF FinalizeAgain
<1>3. CASE Tick
  BY <1>3, SafetyFrame DEF Tick
<1>4. CASE UNCHANGED vars
  BY <1>4, SafetyFrame DEF vars
<1>5. QED
  BY <1>1, <1>2, <1>3, <1>4, SafetySeed, SafetyClaim, SafetyRecord,
     SafetyFinalize DEF Next

\* The chain of finalized batches, whole ones only, and the current claim on its
\* end: what claim_batch and finalize_batch keep between them.
THEOREM JournalSafety == Spec => []SafetyInv
BY SafetyInit, SafetyStep, TypeCorrect, PTL DEF Spec

\* finalize_batch neither loses nor forks an update of a lane, whatever claims
\* are presented and whenever: its batches form one chain from the seed.
THEOREM OneChain == Spec => []HeadsFormOneChain
<1>1. SafetyInv => HeadsFormOneChain
  BY DEF SafetyInv
<1>2. QED
  BY <1>1, JournalSafety, PTL

\* A batch is finalized once, on its own lane, with every file projected, and
\* no result of it changes afterwards.
THEOREM FinalizedOnce == Spec => []FinalizedOnceAndResolved
<1>1. SafetyInv => FinalizedOnceAndResolved
  BY DEF SafetyInv
<1>2. QED
  BY <1>1, JournalSafety, PTL

\* The claim fence alone keeps the base of the current claim current.
THEOREM ClaimFenceImpliesBase == Spec => []CurrentClaimHasCurrentBase
<1>1. SafetyInv => CurrentClaimHasCurrentBase
  BY DEF SafetyInv
<1>2. QED
  BY <1>1, JournalSafety, PTL

-----------------------------------------------------------------------------

\* A claim that claim_batch replaced never becomes current, never completes,
\* and keeps the file results it had.
THEOREM DeadClaims == Spec => SupersededStaysDead
<1>1. TypeOK /\ [Next]_vars =>
        [\A b \in BatchId : Superseded(b) =>
            Superseded(b)' /\ files'[b] = files[b]]_vars
  <2> SUFFICES ASSUME TypeOK, Next, NEW x \in BatchId, Superseded(x)
               PROVE  Superseded(x)' /\ files'[x] = files[x]
    OBVIOUS
  <2>1. x \in Issued /\ x \notin complete /\ claim[x].lane \in Lane
        /\ active[claim[x].lane] # x
    BY IssuedClaim DEF Superseded, Issued
  <2> USE <2>1 DEF Superseded, Issued, TypeOK
  <2>2. ASSUME NEW l \in Lane, NEW h \in Base, SeedLane(l, h)
        PROVE  Superseded(x)' /\ files'[x] = files[x]
    BY <2>2 DEF SeedLane
  <2>3. ASSUME NEW l \in Lane, NEW c \in Cut, SetControlCut(l, c)
        PROVE  Superseded(x)' /\ files'[x] = files[x]
    BY <2>3 DEF SetControlCut
  <2>4. ASSUME NEW l \in Lane, NEW e \in Base, NEW t \in Sha, NEW c \in Cut,
               NEW ps \in SUBSET Path, NEW b \in BatchId, NEW now \in Reading,
               NEW lease \in Lease, ClaimBatch(l, e, t, c, ps, b, now, lease)
        PROVE  Superseded(x)' /\ files'[x] = files[x]
    BY <2>4 DEF ClaimBatch, CanClaim
  <2>5. ASSUME NEW b \in BatchId, NEW p \in Path, NEW r \in Result,
               RecordFileResult(b, p, r)
        PROVE  Superseded(x)' /\ files'[x] = files[x]
    BY <2>5 DEF RecordFileResult, Current
  <2>6. ASSUME NEW b \in BatchId, NEW now \in Reading, FinalizeBatch(b, now)
        PROVE  Superseded(x)' /\ files'[x] = files[x]
    BY <2>6, DistinctSentinels DEF FinalizeBatch, CanFinalize, NewHead, Current
  <2>7. CASE Tick \/ \E b \in BatchId : FinalizeAgain(b)
    BY <2>7 DEF Tick, FinalizeAgain
  <2>8. QED
    BY <2>2, <2>3, <2>4, <2>5, <2>6, <2>7 DEF Next
<1>2. QED
  BY <1>1, TypeCorrect, PTL DEF Spec, SupersededStaysDead

\* Within its lease the current claim is displaced by nobody.
THEOREM ExclusiveLease == Spec => LeaseIsExclusive
<1>1. SafetyInv /\ [Next]_vars =>
        [\A l \in Lane :
            (active[l] # NoBatch /\ active'[l] # active[l]) =>
               \/ active[l] \in complete'
               \/ clock >= claim[active[l]].lease]_vars
  <2> SUFFICES ASSUME SafetyInv, Next, NEW k \in Lane, active[k] # NoBatch,
                      active'[k] # active[k]
               PROVE  \/ active[k] \in complete'
                      \/ clock >= claim[active[k]].lease
    OBVIOUS
  <2>1. active[k] \in Issued /\ active[k] \notin complete
        /\ claim[active[k]].lane = k /\ claim[active[k]].lease \in Nat
    BY IssuedClaim DEF SafetyInv, CurrentClaimHasCurrentBase, Issued
  <2> USE DEF SafetyInv, TypeOK
  <2>2. ASSUME NEW l \in Lane, NEW e \in Base, NEW t \in Sha, NEW c \in Cut,
               NEW ps \in SUBSET Path, NEW b \in BatchId, NEW now \in Reading,
               NEW lease \in Lease, ClaimBatch(l, e, t, c, ps, b, now, lease)
        PROVE  clock >= claim[active[k]].lease
    <3>1. l = k /\ ~Busy(l, now)
      BY <2>2 DEF ClaimBatch, CanClaim
    <3>2. now \in Nat /\ now <= clock
      BY DEF Reading
    <3>3. QED
      BY <2>1, <3>1, <3>2 DEF Busy
  <2>3. ASSUME NEW b \in BatchId, NEW now \in Reading, FinalizeBatch(b, now)
        PROVE  active[k] \in complete'
    BY <2>1, <2>3 DEF FinalizeBatch, CanFinalize, NewHead, Current
  <2>4. QED
    BY <2>2, <2>3 DEF Next, SeedLane, SetControlCut, RecordFileResult,
       FinalizeAgain, Tick
<1>2. QED
  BY <1>1, JournalSafety, PTL DEF Spec, LeaseIsExclusive
=============================================================================
