----------------------- MODULE TrustedProjectionProofs -----------------------
(***************************************************************************)
(* Theorems about TrustedProjection.  A claim carries what the derivation  *)
(* of its target found, and the fence ties it to the cursor it was derived *)
(* from: it does not matter how old the checkout is, which run posts the   *)
(* files and when they are served.                                         *)
(***************************************************************************)
EXTENDS TrustedProjection, TLAPS

\* The lane a run is at is not past its last one, and who projects has a claim.
RunOK(s) ==
    /\ s \in RunState /\ s.lane <= s.last
    /\ s.phase = "project" => s.token \in Token
TypeInv == TypeOK /\ \A r \in Run : RunOK(run[r])

\* With one checkout or another, derive_target and the validation of the range
\* find that the lane is to be projected forward.
Derivable(l, cursor, observed) ==
    \E objects \in SUBSET Commit : Verdict(l, cursor, observed, objects) = "FORWARD"

\* The commits of lane l from its anchor to c are valid, and stored.
Vouched(l, c) ==
    /\ Ancestor(Anchor[l], c)
    /\ RangeIsValid(l, Anchor[l], c)
    /\ Between(Anchor[l], c) \subseteq stored[l]

CursorInv == \A l \in Lane : projected[l] \in Commit => Vouched(l, projected[l])

\* A claim is for a range that was derived, and what is not pending is stored.
ClaimInv ==
    \A l \in Lane : claim[l] # NoClaim =>
        LET k == claim[l] IN
        /\ Derivable(l, k.base, k.target)
        /\ FilesOf(BaseHead(l, k.base, k.target), k.target) \subseteq stored[l] \cup k.pending

\* A run that is going to claim has derived the range.
RunInv ==
    \A r \in Run : run[r].phase \in {"cut", "claim"} =>
        Derivable(run[r].lane, run[r].base, Observed(r))

SafetyInv == CursorInv /\ ClaimInv /\ RunInv

-----------------------------------------------------------------------------
\* Ancestry and the derivation of a target.

\* Ancestry is reflexive and transitive.
LEMMA AncestryFacts ==
    /\ \A c \in Commit : Ancestor(c, c)
    /\ \A a, b, c \in Commit : Ancestor(a, b) /\ Ancestor(b, c) => Ancestor(a, c)
BY AncestryIsAnOrder DEF Ancestor

\* The cursor a range starts from is a commit.
LEMMA BaseIsACommit ==
    ASSUME NEW l \in Lane, NEW cursor \in Cursor, cursor # Unseeded, NEW observed
    PROVE  /\ BaseHead(l, cursor, observed) \in Commit
           /\ cursor \in Commit => BaseHead(l, cursor, observed) = cursor
           /\ cursor \notin Commit => BaseHead(l, cursor, observed) = Anchor[l]
BY DistinctSentinels, CommitsOfLanes DEF BaseHead, Cursor

\* What derive_target and validate_active_writer_range have found out when a
\* lane is to be projected forward.
LEMMA ForwardMeans ==
    ASSUME NEW l \in Lane, NEW cursor \in Cursor, NEW observed \in Commit,
           Derivable(l, cursor, observed)
    PROVE  /\ cursor # Unseeded
           /\ Ancestor(Anchor[l], observed)
           /\ cursor \in Commit => Ancestor(Anchor[l], cursor) /\ Ancestor(cursor, observed)
           /\ RangeIsValid(l, BaseHead(l, cursor, observed), observed)
<1>0. PICK objects \in SUBSET Commit : Verdict(l, cursor, observed, objects) = "FORWARD"
  BY DEF Derivable
<1>1. cursor # Unseeded /\ ~AncestryCheckFails(l, cursor, observed, objects)
  BY <1>0 DEF Verdict
<1>2. /\ Disposition(l, cursor, observed) = "FORWARD"
      /\ RangeIsValid(l, BaseHead(l, cursor, observed), observed)
  <2>1. CASE Disposition(l, cursor, observed) \in {"NOOP", "STALE_EVENT"}
    BY <1>0, <1>1, <2>1 DEF Verdict
  <2>2. CASE /\ Disposition(l, cursor, observed) \notin {"NOOP", "STALE_EVENT"}
             /\ ~(/\ Disposition(l, cursor, observed) = "FORWARD"
                  /\ RangeIsValid(l, BaseHead(l, cursor, observed), observed))
    BY <1>0, <1>1, <2>2 DEF Verdict
  <2> QED
    BY <2>1, <2>2
<1>3. Ancestor(Anchor[l], observed)
  BY <1>2 DEF Disposition
<1>4. ASSUME cursor \in Commit
      PROVE  Ancestor(Anchor[l], cursor) /\ Ancestor(cursor, observed)
  <2>1. cursor # NoHead
    BY <1>4, DistinctSentinels
  <2>2. cursor # observed
    BY <1>2, <1>3, <2>1 DEF Disposition
  <2>3. CASE ~Ancestor(Anchor[l], cursor)
    BY <1>2, <1>3, <2>1, <2>2, <2>3 DEF Disposition
  <2>4. CASE Ancestor(Anchor[l], cursor) /\ ~Ancestor(cursor, observed)
    <3>1. CASE Ancestor(observed, cursor)
      BY <1>2, <1>3, <2>1, <2>2, <2>4, <3>1 DEF Disposition
    <3>2. CASE ~Ancestor(observed, cursor)
      BY <1>2, <1>3, <2>1, <2>2, <2>4, <3>2 DEF Disposition
    <3> QED
      BY <3>1, <3>2
  <2> QED
    BY <2>3, <2>4
<1> QED
  BY <1>1, <1>2, <1>3, <1>4

\* A range that starts at the cursor continues what the cursor vouches for.
LEMMA RangesCompose ==
    ASSUME NEW a \in Commit, NEW b \in Commit, NEW c \in Commit, NEW d \in Between(a, c)
    PROVE  d \in Between(a, b) \/ d \in Between(b, c)
BY DEF Between

\* In a range that was validated, no message repeats the id of an older one: of
\* two commits one comes first, because lines only meet in merges, which the
\* validation refuses, and the later one was checked against its parents.
LEMMA IdsAreNew ==
    ASSUME NEW l \in Lane, NEW base \in Commit, NEW head \in Commit,
           RangeIsValid(l, base, head),
           NEW c \in Between(base, head), NEW d \in Commit,
           Ancestor(d, head), IdOf[c] = IdOf[d]
    PROVE  c = d
<1> SUFFICES ASSUME c # d PROVE FALSE
  OBVIOUS
<1>1. c \in Commit /\ Ancestor(c, head) /\ ~Ancestor(c, base)
  BY DEF Between
<1>2. CASE Ancestor(d, c)
  <2>1. IdOf[d] \in IdsBefore[c]
    BY <1>1, <1>2 DEF IdsBefore
  <2> QED
    BY <2>1 DEF RangeIsValid, CommitIsValid
<1>3. CASE Ancestor(c, d)
  <2>1. d \in Between(base, head)
    BY <1>1, <1>3, AncestryFacts DEF Between
  <2>2. IdOf[c] \in IdsBefore[d]
    BY <1>1, <1>3 DEF IdsBefore
  <2> QED
    BY <2>1, <2>2 DEF RangeIsValid, CommitIsValid
<1>4. ASSUME NEW m \in Merge, Ancestor(c, m), Ancestor(m, head) PROVE FALSE
  <2>1. m \in Between(base, head)
    BY <1>1, <1>4, AncestryFacts, CommitsOfLanes DEF Between
  <2> QED
    BY <2>1 DEF RangeIsValid, CommitIsValid
<1> QED
  BY <1>1, <1>2, <1>3, <1>4, LinesJoinInMerges DEF Ancestor

-----------------------------------------------------------------------------
\* Types.

\* A run that has nothing to do.
LEMMA IdleType == RunOK(IdleRun)
<1>1. 1 \in Lane /\ 0 \in Main
  BY LanesAreNumbered DEF Lane, Main
<1> QED
  BY <1>1, CommitsOfLanes DEF IdleRun, RunState, Cursor, RunOK

\* The run goes to its next lane, or ends.
LEMMA AdvancedType ==
    ASSUME NEW s \in RunState, s.lane <= s.last
    PROVE  RunOK(Advanced(s)) /\ Advanced(s).phase \in {"idle", "cursor"}
<1>1. CASE s.lane = s.last
  BY <1>1, IdleType DEF Advanced, IdleRun
<1>2. CASE s.lane # s.last
  <2> DEFINE n == [s.seen EXCEPT ![s.lane] = Anchor[s.lane]]
             a == [s EXCEPT !.phase = "cursor", !.lane = s.lane + 1, !.base = Unseeded,
                            !.token = NoToken, !.seen = n]
  <2>1. s.lane \in Lane /\ s.last \in Lane /\ s.seen \in [Lane -> Commit]
    BY DEF RunState
  <2>2. n \in [Lane -> Commit]
    BY <2>1, CommitsOfLanes
  <2>3. s.lane + 1 \in Lane /\ s.lane + 1 <= s.last
    BY <1>2, <2>1, LanesAreNumbered DEF Lane
  <2>4. Advanced(s) = a
    BY <1>2 DEF Advanced
  <2> HIDE DEF n
  <2>5. a \in RunState /\ a.lane = s.lane + 1 /\ a.last = s.last /\ a.phase = "cursor"
    BY <2>2, <2>3 DEF RunState, Cursor
  <2> HIDE DEF a
  <2> QED
    BY <2>3, <2>4, <2>5 DEF RunOK
<1> QED
  BY <1>1, <1>2

\* What a step of one run does to the runs.
LEMMA RunUpdate ==
    ASSUME TypeInv, NEW r \in Run, NEW s, RunOK(s), Set(r, s)
    PROVE  /\ run' \in [Run -> RunState] /\ \A q \in Run : RunOK(run'[q])
           /\ run'[r] = s /\ \A q \in Run \ {r} : run'[q] = run[q]
BY DEF TypeInv, TypeOK, Set, RunOK

\* A run has all its fields.
LEMMA RunOf ==
    ASSUME TypeInv, NEW r \in Run
    PROVE  /\ RunOK(run[r]) /\ run[r] \in RunState /\ run[r].lane \in Lane
           /\ run[r].lane <= run[r].last
           /\ run[r].main \in Main /\ run[r].base \in Cursor
           /\ run[r].token \in Token \cup {NoToken} /\ run[r].left \subseteq Commit
           /\ run[r].seen \in [Lane -> Commit] /\ Observed(r) \in Commit
BY DEF TypeInv, TypeOK, RunState, Observed, RunOK

\* A claim has all its fields.
LEMMA ClaimOf ==
    ASSUME TypeInv, NEW l \in Lane, claim[l] # NoClaim
    PROVE  /\ claim[l] \in Claim /\ claim[l].base \in Cursor /\ claim[l].target \in Commit
           /\ claim[l].pending \subseteq Commit
BY DEF TypeInv, TypeOK, Claim

\* Every step keeps the types of the state.
LEMMA TypesHold == TypeInv /\ [Next]_vars => TypeInv'
<1> SUFFICES ASSUME TypeInv, [Next]_vars PROVE TypeInv'
  OBVIOUS
<1>set. ASSUME NEW r \in Run, NEW s, RunOK(s), Set(r, s),
               branch' \in [Lane -> Commit], main' \in Main, projected' \in [Lane -> Cursor],
               cut' \in [Lane -> Main], claim' \in [Lane -> Claim \cup {NoClaim}],
               stored' \in [Lane -> SUBSET Commit], posted' \subseteq Request,
               faults' \in 0..MaxFaults
        PROVE  TypeInv'
  BY <1>set, RunUpdate DEF TypeInv, TypeOK
<1>same. UNCHANGED run => /\ run' \in [Run -> RunState]
                          /\ \A q \in Run : RunOK(run'[q])
  BY DEF TypeInv, TypeOK
<1>fault. Fault \/ UNCHANGED faults => faults' \in 0..MaxFaults
  BY LanesAreNumbered DEF Fault, TypeInv, TypeOK
<1>1. ASSUME NEW r \in Run, NEW first \in Lane, NEW last \in Lane, first <= last,
             Begin(r, first, last)
      PROVE  TypeInv'
  <2> DEFINE n == [l \in Lane |-> IF l \in first..last THEN branch[l] ELSE Anchor[l]]
             s == [IdleRun EXCEPT !.phase = "cursor", !.lane = first, !.last = last,
                                  !.main = main, !.seen = n]
  <2>1. n \in [Lane -> Commit]
    BY CommitsOfLanes DEF TypeInv, TypeOK
  <2>2. Set(r, s)
    BY <1>1 DEF Begin
  <2> HIDE DEF n
  <2>3. RunOK(s)
    BY <1>1, <2>1, IdleType DEF RunState, TypeInv, TypeOK, RunOK
  <2> HIDE DEF s
  <2> QED
    BY <1>1, <2>2, <2>3, <1>set DEF Begin, TypeInv, TypeOK
<1>2. ASSUME NEW r \in Run, SkipLane(r) PROVE TypeInv'
  BY <1>2, <1>set, RunOf, AdvancedType DEF SkipLane, TypeInv, TypeOK
<1>3. ASSUME NEW r \in Run, DeriveForward(r) PROVE TypeInv'
  <2> DEFINE s == [run[r] EXCEPT !.phase = "cut", !.base = projected[run[r].lane]]
  <2>1. Set(r, s)
    BY <1>3 DEF DeriveForward
  <2>2. RunOK(s)
    BY RunOf DEF TypeInv, TypeOK, RunState, RunOK
  <2> HIDE DEF s
  <2> QED
    BY <1>3, <2>1, <2>2, <1>set DEF DeriveForward, TypeInv, TypeOK
<1>4. ASSUME NEW r \in Run, SetControlCut(r) PROVE TypeInv'
  <2> DEFINE s == [run[r] EXCEPT !.phase = "claim"]
  <2>1. Set(r, s)
    BY <1>4 DEF SetControlCut
  <2>2. RunOK(s)
    BY RunOf DEF RunState, RunOK
  <2> HIDE DEF s
  <2>3. cut' \in [Lane -> Main]
    BY <1>4, RunOf DEF SetControlCut, TypeInv, TypeOK
  <2> QED
    BY <1>4, <2>1, <2>2, <2>3, <1>set DEF SetControlCut, TypeInv, TypeOK
<1>5. ASSUME NEW r \in Run, NEW t \in Token, ClaimBatch(r, t) PROVE TypeInv'
  <2> DEFINE l == run[r].lane
             files == FilesOf(BaseHead(l, run[r].base, Observed(r)), Observed(r))
             k == [token |-> t, base |-> run[r].base, target |-> Observed(r),
                   cut |-> run[r].main, pending |-> files, over |-> FALSE]
             s == [run[r] EXCEPT !.phase = "project", !.token = t, !.left = files]
  <2>1. Set(r, s) /\ claim' = [claim EXCEPT ![l] = k]
    BY <1>5 DEF ClaimBatch
  <2>2. files \subseteq Commit
    BY DEF FilesOf, Between
  <2> HIDE DEF files
  <2>3. RunOK(s)
    BY <2>2, RunOf DEF RunState, RunOK
  <2>4. k \in Claim
    BY <2>2, RunOf DEF Claim
  <2> HIDE DEF s, k
  <2>5. claim' \in [Lane -> Claim \cup {NoClaim}]
    BY <2>1, <2>4, RunOf DEF TypeInv, TypeOK
  <2> QED
    BY <1>5, <2>1, <2>3, <2>5, <1>set DEF ClaimBatch, TypeInv, TypeOK
<1>6. ASSUME NEW r \in Run, NEW chunk \in SUBSET run[r].left, PostChunk(r, chunk) PROVE TypeInv'
  <2> DEFINE s == [run[r] EXCEPT !.left = @ \ chunk]
  <2>1. Set(r, s)
    BY <1>6 DEF PostChunk
  <2>2. RunOK(s)
    BY RunOf DEF RunState, RunOK
  <2> HIDE DEF s
  <2>3. run[r].token \in Token
    BY <1>6 DEF PostChunk, TypeInv, RunOK
  <2>4. posted' \subseteq Request
    <3>1. \A c \in chunk :
             [lane |-> run[r].lane, token |-> run[r].token, file |-> c] \in Request
      BY <2>3, RunOf DEF Request
    <3> QED
      BY <1>6, <3>1 DEF PostChunk, TypeInv, TypeOK
  <2> QED
    BY <1>6, <2>1, <2>2, <2>4, <1>set DEF PostChunk, TypeInv, TypeOK
<1>7. ASSUME NEW q \in Request, ProjectFile(q) PROVE TypeInv'
  <2>1. q.lane \in Lane /\ q.file \in Commit /\ claim[q.lane] # NoClaim
    BY <1>7 DEF Request, ProjectFile, Current
  <2> DEFINE k == [claim[q.lane] EXCEPT !.pending = @ \ {q.file}]
  <2>2. k \in Claim
    BY <2>1, ClaimOf DEF Claim
  <2>3. claim' = [claim EXCEPT ![q.lane] = k]
    BY <1>7 DEF ProjectFile
  <2> HIDE DEF k
  <2>4. claim' \in [Lane -> Claim \cup {NoClaim}]
    BY <2>1, <2>2, <2>3 DEF TypeInv, TypeOK
  <2>5. stored' \in [Lane -> SUBSET Commit] /\ posted' \subseteq Request
    BY <1>7, <2>1 DEF ProjectFile, TypeInv, TypeOK
  <2> QED
    BY <1>7, <2>4, <2>5, <1>same DEF ProjectFile, TypeInv, TypeOK
<1>8. ASSUME NEW q \in Request, RefuseFile(q) PROVE TypeInv'
  <2>1. run' \in [Run -> RunState] /\ \A r \in Run : RunOK(run'[r])
    BY <1>8, IdleType DEF RefuseFile, TypeInv, TypeOK, RunOK
  <2> QED
    BY <1>8, <2>1 DEF RefuseFile, TypeInv, TypeOK
<1>9. ASSUME NEW q \in Request, LoseRequest(q) PROVE TypeInv'
  BY <1>9, <1>same DEF LoseRequest, TypeInv, TypeOK
<1>10. ASSUME NEW r \in Run, FinalizeBatch(r) PROVE TypeInv'
  <2> DEFINE l == run[r].lane
  <2>1. l \in Lane /\ claim[l] # NoClaim
    BY <1>10, RunOf DEF FinalizeBatch, CanFinalize, Current
  <2>2. projected' \in [Lane -> Cursor] /\ claim' \in [Lane -> Claim \cup {NoClaim}]
    BY <1>10, <2>1, ClaimOf DEF FinalizeBatch, TypeInv, TypeOK, Cursor
  <2> QED
    BY <1>10, <2>2, <1>set, RunOf, AdvancedType DEF FinalizeBatch, TypeInv, TypeOK
<1>11. ASSUME NEW r \in Run, Raise(r) \/ Die(r) PROVE TypeInv'
  BY <1>11, <1>set, <1>fault, IdleType DEF Raise, Die, TypeInv, TypeOK
<1>12. ASSUME NEW l \in Lane, NEW h \in {NoHead, Anchor[l]}, SeedLane(l, h) PROVE TypeInv'
  <2>1. projected' \in [Lane -> Cursor]
    BY <1>12, CommitsOfLanes DEF SeedLane, TypeInv, TypeOK, Cursor
  <2> QED
    BY <1>12, <2>1, <1>same DEF SeedLane, TypeInv, TypeOK
<1>13. ASSUME NEW l \in Lane, NEW c \in Commit, Push(l, c) \/ RewriteBranch(l, c) PROVE TypeInv'
  BY <1>13, <1>same, <1>fault DEF Push, RewriteBranch, TypeInv, TypeOK
<1>14. ASSUME NEW l \in Lane, Expire(l) PROVE TypeInv'
  <2> DEFINE k == [claim[l] EXCEPT !.over = TRUE]
  <2>1. k \in Claim /\ claim' = [claim EXCEPT ![l] = k]
    BY <1>14, ClaimOf DEF Expire, Claim
  <2> HIDE DEF k
  <2>2. claim' \in [Lane -> Claim \cup {NoClaim}]
    BY <2>1 DEF TypeInv, TypeOK
  <2>3. faults' \in 0..MaxFaults
    BY <1>14, <1>fault DEF Expire
  <2> QED
    BY <1>14, <2>2, <2>3, <1>same DEF Expire, TypeInv, TypeOK
<1>15. CASE MoveMain
  BY <1>15, <1>same, LanesAreNumbered DEF MoveMain, TypeInv, TypeOK, Main
<1>16. CASE UNCHANGED vars
  BY <1>16 DEF vars, TypeInv, TypeOK
<1>17. ASSUME NEW r \in Run, BeginScheduled(r) PROVE TypeInv'
  <2>1. 1 \in Lane /\ NLanes \in Lane /\ 1 <= NLanes
    BY LanesAreNumbered DEF Lane
  <2> QED
    BY <1>1, <1>17, <2>1 DEF BeginScheduled
<1>18. ASSUME NEW r \in Run, NEW l \in Lane, BeginWorkflowRun(r, l) PROVE TypeInv'
  <2>1. l <= l
    BY LanesAreNumbered DEF Lane
  <2> QED
    BY <1>1, <1>18, <2>1 DEF BeginWorkflowRun
<1> QED
  BY <1>2, <1>3, <1>4, <1>5, <1>6, <1>7, <1>8, <1>9, <1>10, <1>11, <1>12, <1>13, <1>14,
     <1>15, <1>16, <1>17, <1>18
     DEF Next, Step, Serve

-----------------------------------------------------------------------------
\* Safety.

\* Files are stored for good, and a file that a batch does not wait for any more
\* is stored.
LEMMA StoredFilesStay ==
    ASSUME TypeInv, [Next]_vars
    PROVE  \A l \in Lane : stored[l] \subseteq stored'[l]
<1>1. ASSUME NEW q \in Request, ProjectFile(q) PROVE \A l \in Lane : stored[l] \subseteq stored'[l]
  BY <1>1 DEF ProjectFile, TypeInv, TypeOK
<1>2. UNCHANGED stored \/ \E q \in Request : ProjectFile(q)
  BY DEF Next, vars, Step, Serve, BeginScheduled, BeginWorkflowRun, Begin, SkipLane, DeriveForward,
         SetControlCut, ClaimBatch, PostChunk, RefuseFile, LoseRequest, FinalizeBatch, Raise,
         Die, SeedLane, Push, RewriteBranch, Expire, MoveMain
<1> QED
  BY <1>1, <1>2

\* The cursor moves when a lane is seeded and when a batch is finalized.
LEMMA WhatMovesACursor ==
    ASSUME [Next]_vars
    PROVE  \/ UNCHANGED projected
           \/ \E r \in Run : FinalizeBatch(r)
           \/ \E l \in Lane : \E h \in {NoHead, Anchor[l]} : SeedLane(l, h)
BY DEF Next, vars, Step, Serve, BeginScheduled, BeginWorkflowRun, Begin, SkipLane, DeriveForward,
       SetControlCut, ClaimBatch, PostChunk, ProjectFile, RefuseFile, LoseRequest, Raise,
       Die, Push, RewriteBranch, Expire, MoveMain

\* finalize_batch moves the cursor from where the target was derived from, over
\* a range that is valid and stored, to one of its descendants.
LEMMA WhatFinalizingDoes ==
    ASSUME TypeInv, SafetyInv, NEW r \in Run, FinalizeBatch(r)
    PROVE  LET l == run[r].lane IN
           /\ projected' = [projected EXCEPT ![l] = claim[l].target]
           /\ claim[l].target \in Commit /\ Vouched(l, claim[l].target)
           /\ projected[l] \in Commit => Ancestor(projected[l], claim[l].target)
<1> DEFINE k == claim[run[r].lane]
<1>0. PICK l \in Lane : l = run[r].lane
  BY RunOf
<1>1. /\ projected' = [projected EXCEPT ![l] = k.target]
      /\ claim[l] # NoClaim /\ projected[l] = k.base /\ k.pending = {}
  BY <1>0 DEF FinalizeBatch, CanFinalize, Current
<1>2. k.base \in Cursor /\ k.target \in Commit
  BY <1>0, <1>1, ClaimOf
<1>3. /\ Derivable(l, k.base, k.target)
      /\ FilesOf(BaseHead(l, k.base, k.target), k.target) \subseteq stored[l]
  BY <1>0, <1>1 DEF SafetyInv, ClaimInv
<1> HIDE DEF k
<1>4. /\ k.base # Unseeded /\ Ancestor(Anchor[l], k.target)
      /\ k.base \in Commit => Ancestor(k.base, k.target)
      /\ RangeIsValid(l, BaseHead(l, k.base, k.target), k.target)
  BY <1>2, <1>3, ForwardMeans
<1> DEFINE b == BaseHead(l, k.base, k.target)
<1>5. /\ b \in Commit
      /\ k.base \in Commit => b = k.base
      /\ k.base \notin Commit => b = Anchor[l]
  BY <1>2, <1>4, BaseIsACommit
<1>6. \A c \in Between(b, k.target) : CommitIsValid(l, c) /\ c \in stored[l]
  BY <1>3, <1>4 DEF RangeIsValid, CommitIsValid, FilesOf
<1>7. \A c \in Between(Anchor[l], b) : CommitIsValid(l, c) /\ c \in stored[l]
  <2>1. CASE k.base \in Commit
    BY <1>1, <1>5, <2>1 DEF SafetyInv, CursorInv, Vouched, RangeIsValid
  <2>2. CASE k.base \notin Commit
    BY <1>5, <2>2 DEF Between
  <2> QED
    BY <2>1, <2>2
<1> HIDE DEF b
<1>8. Anchor[l] \in Commit /\ b \in Commit
  BY <1>2, <1>4, BaseIsACommit, CommitsOfLanes DEF b
<1>9. \A c \in Between(Anchor[l], k.target) : CommitIsValid(l, c) /\ c \in stored[l]
  BY <1>2, <1>6, <1>7, <1>8, RangesCompose
<1> QED
  BY <1>0, <1>1, <1>2, <1>4, <1>9 DEF Vouched, RangeIsValid, k

\* The cursor vouches for what is behind it.
LEMMA CursorsHold == TypeInv /\ SafetyInv /\ [Next]_vars => CursorInv'
<1> SUFFICES ASSUME TypeInv, SafetyInv, [Next]_vars, NEW l \in Lane, projected'[l] \in Commit
             PROVE  Vouched(l, projected[l])'
  BY DEF CursorInv
<1>1. ASSUME NEW c, c = projected'[l], Vouched(l, c) PROVE Vouched(l, projected[l])'
  BY <1>1, StoredFilesStay DEF Vouched
<1>2. CASE UNCHANGED projected
  BY <1>1, <1>2 DEF SafetyInv, CursorInv
<1>3. ASSUME NEW r \in Run, FinalizeBatch(r) PROVE Vouched(l, projected[l])'
  <2>1. CASE l = run[r].lane
    <3>1. projected'[l] = claim[l].target
      BY <1>3, <2>1, WhatFinalizingDoes DEF TypeInv, TypeOK
    <3> QED
      BY <1>1, <1>3, <2>1, <3>1, WhatFinalizingDoes
  <2>2. CASE l # run[r].lane
    <3>1. projected'[l] = projected[l]
      BY <1>3, <2>2, WhatFinalizingDoes DEF TypeInv, TypeOK
    <3> QED
      BY <1>1, <3>1 DEF SafetyInv, CursorInv
  <2> QED
    BY <2>1, <2>2
<1>4. ASSUME NEW m \in Lane, NEW h \in {NoHead, Anchor[m]}, SeedLane(m, h)
      PROVE  Vouched(l, projected[l])'
  <2>1. CASE l = m
    <3>1. projected'[l] = Anchor[l]
      BY <1>4, <2>1, DistinctSentinels DEF SeedLane, TypeInv, TypeOK
    <3>2. Vouched(l, Anchor[l])
      BY AncestryFacts, CommitsOfLanes DEF Vouched, RangeIsValid, Between
    <3> QED
      BY <1>1, <3>1, <3>2
  <2>2. CASE l # m
    <3>1. projected'[l] = projected[l]
      BY <1>4, <2>2 DEF SeedLane, TypeInv, TypeOK
    <3> QED
      BY <1>1, <3>1 DEF SafetyInv, CursorInv
  <2> QED
    BY <2>1, <2>2
<1> QED
  BY <1>2, <1>3, <1>4, WhatMovesACursor

\* A claim keeps what it was made for, whoever projects its files.
LEMMA ClaimsHold == TypeInv /\ SafetyInv /\ [Next]_vars => ClaimInv'
<1> SUFFICES ASSUME TypeInv, SafetyInv, [Next]_vars, NEW l \in Lane, claim'[l] # NoClaim
             PROVE  LET k == claim'[l] IN
                    /\ Derivable(l, k.base, k.target)
                    /\ FilesOf(BaseHead(l, k.base, k.target), k.target)
                           \subseteq stored'[l] \cup k.pending
  BY DEF ClaimInv, Derivable, Verdict, AncestryCheckFails, FilesOf, BaseHead, Disposition,
         RangeIsValid
<1> DEFINE Claimed(k) == /\ Derivable(l, k.base, k.target)
                         /\ FilesOf(BaseHead(l, k.base, k.target), k.target)
                                \subseteq stored'[l] \cup k.pending
<1>1. ASSUME claim[l] # NoClaim, claim'[l].base = claim[l].base,
             claim'[l].target = claim[l].target,
             stored[l] \cup claim[l].pending \subseteq stored'[l] \cup claim'[l].pending
      PROVE  Claimed(claim'[l])
  BY <1>1 DEF SafetyInv, ClaimInv
<1>2. ASSUME claim'[l] = claim[l] PROVE Claimed(claim'[l])
  BY <1>1, <1>2, StoredFilesStay
<1>3. ASSUME NEW r \in Run, NEW t \in Token, ClaimBatch(r, t) PROVE Claimed(claim'[l])
  <2> DEFINE files == FilesOf(BaseHead(run[r].lane, run[r].base, Observed(r)), Observed(r))
             k == [token |-> t, base |-> run[r].base, target |-> Observed(r),
                   cut |-> run[r].main, pending |-> files, over |-> FALSE]
  <2>1. claim' = [claim EXCEPT ![run[r].lane] = k] /\ run[r].phase = "claim"
    BY <1>3 DEF ClaimBatch
  <2>2. CASE l = run[r].lane
    <3>1. claim'[l] = k
      BY <2>1, <2>2 DEF TypeInv, TypeOK
    <3>2. Derivable(l, run[r].base, Observed(r))
      BY <2>1, <2>2 DEF SafetyInv, RunInv
    <3> QED
      BY <2>2, <3>1, <3>2
  <2>3. CASE l # run[r].lane
    BY <1>2, <2>1, <2>3 DEF TypeInv, TypeOK
  <2> QED
    BY <2>2, <2>3
<1>4. ASSUME NEW q \in Request, ProjectFile(q) PROVE Claimed(claim'[l])
  <2>1. /\ stored' = [stored EXCEPT ![q.lane] = @ \cup {q.file}]
        /\ claim' = [claim EXCEPT ![q.lane].pending = @ \ {q.file}]
        /\ claim[q.lane] # NoClaim
    BY <1>4 DEF ProjectFile, Current
  <2>2. CASE l = q.lane
    <3>1. claim[l] \in Claim
      BY <2>1, <2>2, ClaimOf
    <3>2. claim'[l] = [claim[l] EXCEPT !.pending = @ \ {q.file}]
      BY <2>1, <2>2 DEF TypeInv, TypeOK
    <3>3. /\ claim'[l].base = claim[l].base /\ claim'[l].target = claim[l].target
          /\ claim'[l].pending = claim[l].pending \ {q.file}
      BY <3>1, <3>2 DEF Claim
    <3>4. stored'[l] = stored[l] \cup {q.file}
      BY <2>1, <2>2 DEF TypeInv, TypeOK
    <3> QED
      BY <1>1, <2>1, <2>2, <3>3, <3>4
  <2>3. CASE l # q.lane
    BY <1>2, <2>1, <2>3 DEF TypeInv, TypeOK
  <2> QED
    BY <2>2, <2>3
<1>5. ASSUME NEW r \in Run, FinalizeBatch(r) PROVE Claimed(claim'[l])
  <2>1. claim' = [claim EXCEPT ![run[r].lane] = NoClaim]
    BY <1>5 DEF FinalizeBatch
  <2>2. claim'[l] = claim[l]
    BY <2>1 DEF TypeInv, TypeOK
  <2> QED
    BY <1>2, <2>2
<1>6. ASSUME NEW m \in Lane, Expire(m) PROVE Claimed(claim'[l])
  <2>1. claim' = [claim EXCEPT ![m].over = TRUE] /\ claim[m] # NoClaim
    BY <1>6 DEF Expire
  <2>2. CASE l = m
    <3>1. claim'[l] = [claim[l] EXCEPT !.over = TRUE] /\ claim[l] \in Claim
      BY <2>1, <2>2, ClaimOf DEF TypeInv, TypeOK
    <3>2. /\ claim'[l].base = claim[l].base /\ claim'[l].target = claim[l].target
          /\ claim'[l].pending = claim[l].pending
      BY <3>1 DEF Claim
    <3> QED
      BY <1>1, <2>1, <2>2, <3>2, StoredFilesStay
  <2>3. CASE l # m
    BY <1>2, <2>1, <2>3 DEF TypeInv, TypeOK
  <2> QED
    BY <2>2, <2>3
<1>7. \/ UNCHANGED claim
      \/ \E r \in Run : FinalizeBatch(r) \/ \E t \in Token : ClaimBatch(r, t)
      \/ \E q \in Request : ProjectFile(q)
      \/ \E m \in Lane : Expire(m)
  BY DEF Next, vars, Step, Serve, BeginScheduled, BeginWorkflowRun, Begin, SkipLane, DeriveForward,
         SetControlCut, PostChunk, RefuseFile, LoseRequest, Raise, Die, SeedLane,
         Push, RewriteBranch, MoveMain
<1> QED
  BY <1>2, <1>3, <1>4, <1>5, <1>6, <1>7

\* A run derives its target before it sets the cut and claims, and works on the
\* checkout it derived it from.
LEMMA RunsHold == TypeInv /\ SafetyInv /\ [Next]_vars => RunInv'
<1> SUFFICES ASSUME TypeInv, SafetyInv, [Next]_vars,
                    NEW q \in Run, run'[q].phase \in {"cut", "claim"}
             PROVE  Derivable(run'[q].lane, run'[q].base, run'[q].seen[run'[q].lane])
  BY DEF RunInv, Observed, Derivable, Verdict, AncestryCheckFails, BaseHead, Disposition,
         RangeIsValid
<1> DEFINE Derived(s) == Derivable(s.lane, s.base, s.seen[s.lane])
<1>1. ASSUME run'[q] = run[q] PROVE Derived(run'[q])
  BY <1>1 DEF SafetyInv, RunInv, Observed
<1>2. ASSUME NEW r \in Run, NEW s, RunOK(s), Set(r, s),
             s.phase \in {"cut", "claim"} => Derived(s)
      PROVE  Derived(run'[q])
  <2>1. CASE q = r
    BY <1>2, <2>1, RunUpdate
  <2>2. CASE q # r
    BY <1>1, <1>2, <2>2, RunUpdate
  <2> QED
    BY <2>1, <2>2
<1>3. ASSUME NEW r \in Run, SkipLane(r) \/ FinalizeBatch(r) PROVE Derived(run'[q])
  <2>1. Set(r, Advanced(run[r]))
    BY <1>3 DEF SkipLane, FinalizeBatch
  <2>2. RunOK(Advanced(run[r])) /\ Advanced(run[r]).phase \in {"idle", "cursor"}
    BY RunOf, AdvancedType
  <2> QED
    BY <1>2, <2>1, <2>2
<1>4. ASSUME NEW r \in Run, DeriveForward(r) PROVE Derived(run'[q])
  <2> DEFINE s == [run[r] EXCEPT !.phase = "cut", !.base = projected[run[r].lane]]
  <2>1. Set(r, s) /\ Derivable(run[r].lane, projected[run[r].lane], Observed(r))
    <3>1. Set(r, s) /\ "FORWARD" \in Verdicts(r)
      BY <1>4 DEF DeriveForward
    <3>2. PICK objects \in Checkouts(Observed(r)) :
              Verdict(run[r].lane, projected[run[r].lane], Observed(r), objects) = "FORWARD"
      BY <3>1 DEF Verdicts
    <3>3. Observed(r) \in Commit
      BY RunOf DEF Observed, RunOK, RunState
    <3>4. objects \in SUBSET Commit
      BY <3>3 DEF Checkouts, History
    <3> QED
      BY <3>1, <3>2, <3>4 DEF Derivable
  <2>2. /\ RunOK(s) /\ s.lane = run[r].lane /\ s.base = projected[run[r].lane]
        /\ s.seen = run[r].seen
    BY RunOf DEF TypeInv, TypeOK, RunState, RunOK
  <2> HIDE DEF s
  <2> QED
    BY <1>2, <2>1, <2>2 DEF Observed
<1>5. ASSUME NEW r \in Run, SetControlCut(r) PROVE Derived(run'[q])
  <2> DEFINE s == [run[r] EXCEPT !.phase = "claim"]
  <2>1. Set(r, s) /\ run[r].phase = "cut"
    BY <1>5 DEF SetControlCut
  <2>2. /\ RunOK(s) /\ s.lane = run[r].lane /\ s.base = run[r].base /\ s.seen = run[r].seen
    BY RunOf DEF RunState, RunOK
  <2>3. Derived(run[r])
    BY <2>1 DEF SafetyInv, RunInv, Observed
  <2> HIDE DEF s
  <2> QED
    BY <1>2, <2>1, <2>2, <2>3
<1>6. ASSUME NEW r \in Run, NEW t \in Token, ClaimBatch(r, t) PROVE Derived(run'[q])
  <2>1. run' = [run EXCEPT ![r] = [run[r] EXCEPT !.phase = "project", !.token = t,
                !.left = FilesOf(BaseHead(run[r].lane, run[r].base, Observed(r)), Observed(r))]]
    BY <1>6 DEF ClaimBatch, Set
  <2>2. q # r
    <3> SUFFICES ASSUME q = r PROVE FALSE
      OBVIOUS
    <3>1. run[q] \in RunState
      BY RunOf
    <3>2. run'[q].phase = "project"
      BY <2>1, <3>1 DEF TypeInv, TypeOK, RunState
    <3> QED
      BY <3>2
  <2>3. run'[q] = run[q]
    BY <2>1, <2>2 DEF TypeInv, TypeOK
  <2> QED
    BY <1>1, <2>3
<1>7. ASSUME NEW r \in Run, NEW chunk, PostChunk(r, chunk) PROVE Derived(run'[q])
  <2>1. run' = [run EXCEPT ![r].left = @ \ chunk] /\ run[r].phase = "project"
    BY <1>7 DEF PostChunk, Set
  <2>2. q # r
    <3> SUFFICES ASSUME q = r PROVE FALSE
      OBVIOUS
    <3>1. run[q] \in RunState
      BY RunOf
    <3>2. run'[q].phase = "project"
      BY <2>1, <3>1 DEF TypeInv, TypeOK, RunState
    <3> QED
      BY <3>2
  <2>3. run'[q] = run[q]
    BY <2>1, <2>2 DEF TypeInv, TypeOK
  <2> QED
    BY <1>1, <2>3
<1>8. ASSUME NEW x \in Request, RefuseFile(x) PROVE Derived(run'[q])
  <2>1. run'[q] = IdleRun \/ run'[q] = run[q]
    BY <1>8 DEF RefuseFile
  <2> QED
    BY <1>1, <2>1 DEF IdleRun
<1>9. ASSUME NEW r \in Run, Raise(r) \/ Die(r) PROVE Derived(run'[q])
  <2>1. Set(r, IdleRun)
    BY <1>9 DEF Raise, Die
  <2> QED
    BY <1>2, <2>1, IdleType DEF IdleRun
<1>10. ASSUME NEW r \in Run, NEW first \in Lane, NEW last \in Lane, Begin(r, first, last)
       PROVE  Derived(run'[q])
  <2>1. \E n : run' = [run EXCEPT ![r] = [IdleRun EXCEPT !.phase = "cursor", !.lane = first,
                                          !.last = last, !.main = main, !.seen = n]]
    BY <1>10 DEF Begin, Set
  <2>2. q # r
    BY <2>1 DEF TypeInv, TypeOK, IdleRun
  <2>3. run'[q] = run[q]
    BY <2>1, <2>2 DEF TypeInv, TypeOK
  <2> QED
    BY <1>1, <2>3
<1>11. ASSUME NEW r \in Run, BeginScheduled(r) PROVE Derived(run'[q])
  <2>1. 1 \in Lane /\ NLanes \in Lane
    BY LanesAreNumbered DEF Lane
  <2> QED
    BY <1>10, <1>11, <2>1 DEF BeginScheduled
<1>12. ASSUME NEW r \in Run, NEW l \in Lane, BeginWorkflowRun(r, l) PROVE Derived(run'[q])
  BY <1>10, <1>12 DEF BeginWorkflowRun
<1>13. CASE UNCHANGED run
  BY <1>1, <1>13
<1> QED
  BY <1>3, <1>4, <1>5, <1>6, <1>7, <1>8, <1>9, <1>11, <1>12, <1>13
     DEF Next, vars, Step, Serve, ProjectFile, LoseRequest, SeedLane, Push, RewriteBranch,
         Expire, MoveMain

\* The inductive invariant, with the types it needs.
LEMMA InvariantHolds == Spec => [](TypeInv /\ SafetyInv)
<1>1. Init => TypeInv /\ SafetyInv
  <2> SUFFICES ASSUME Init PROVE TypeInv /\ SafetyInv
    OBVIOUS
  <2>1. 0 \in Main /\ 0 \in 0..MaxFaults
    BY LanesAreNumbered DEF Main
  <2>2. TypeInv
    BY <2>1, IdleType, CommitsOfLanes DEF Init, TypeInv, TypeOK, Cursor, RunOK
  <2>3. SafetyInv
    BY DistinctSentinels DEF Init, SafetyInv, CursorInv, ClaimInv, RunInv, IdleRun
  <2> QED
    BY <2>2, <2>3
<1>2. TypeInv /\ SafetyInv /\ [Next]_vars => TypeInv' /\ SafetyInv'
  BY TypesHold, CursorsHold, ClaimsHold, RunsHold DEF SafetyInv
<1> QED
  BY <1>1, <1>2, PTL DEF Spec

\* The types of the state: a run never leaves the lanes it was asked for, and who
\* posts files has a claim.
THEOREM TypeCorrect == Spec => []TypeOK
<1>1. TypeInv => TypeOK
  BY DEF TypeInv
<1> QED
  BY <1>1, InvariantHolds, PTL

\* projection_finalize_batch_v1 moves a cursor only to a head below which every
\* message is stored, new to the lane, and valid: the fence on base and cut makes
\* the claim's range continue what the cursor vouched for already, whichever
\* checkouts, runs and late requests did the work.
THEOREM CursorsVouchForMessages == Spec => []StoredUpToHead
<1>1. TypeInv /\ SafetyInv => StoredUpToHead
  <2> SUFFICES ASSUME TypeInv, SafetyInv, NEW l \in Lane, projected[l] \in Commit
               PROVE  /\ Between(Anchor[l], projected[l]) \subseteq stored[l]
                      /\ \A c \in Between(Anchor[l], projected[l]) : IdOf[c] \notin Historical[l]
                      /\ \A c \in Between(Anchor[l], projected[l]), d \in Commit :
                            Ancestor(d, projected[l]) /\ IdOf[c] = IdOf[d] => c = d
    BY DEF StoredUpToHead
  <2>1. /\ Between(Anchor[l], projected[l]) \subseteq stored[l]
        /\ RangeIsValid(l, Anchor[l], projected[l])
    BY DEF SafetyInv, CursorInv, Vouched
  <2>2. \A c \in Between(Anchor[l], projected[l]) : IdOf[c] \notin Historical[l]
    BY <2>1 DEF RangeIsValid, CommitIsValid
  <2> QED
    BY <2>1, <2>2, IdsAreNew, CommitsOfLanes
<1> QED
  BY <1>1, InvariantHolds, PTL

\* derive_target never takes a cursor back: an older checkout finds the lane
\* STALE_EVENT, and a claim made from one is refused once the cursor has moved.
THEOREM CursorsMoveForward == Spec => CursorMovesForward
<1>1. TypeInv /\ SafetyInv /\ [Next]_vars =>
         [\A l \in Lane :
             (projected[l] \in Commit /\ projected'[l] # projected[l]) =>
                 projected'[l] \in Commit /\ Ancestor(projected[l], projected'[l])]_vars
  <2> SUFFICES ASSUME TypeInv, SafetyInv, [Next]_vars, NEW l \in Lane,
                      projected[l] \in Commit, projected'[l] # projected[l]
               PROVE  projected'[l] \in Commit /\ Ancestor(projected[l], projected'[l])
    OBVIOUS
  <2>1. ASSUME NEW r \in Run, FinalizeBatch(r)
        PROVE  projected'[l] \in Commit /\ Ancestor(projected[l], projected'[l])
    <3>1. /\ projected' = [projected EXCEPT ![run[r].lane] = claim[run[r].lane].target]
          /\ claim[run[r].lane].target \in Commit
          /\ projected[run[r].lane] \in Commit =>
                Ancestor(projected[run[r].lane], claim[run[r].lane].target)
      BY <2>1, WhatFinalizingDoes
    <3>2. l = run[r].lane /\ projected'[l] = claim[l].target
      BY <3>1 DEF TypeInv, TypeOK
    <3> QED
      BY <3>1, <3>2
  <2>2. ASSUME NEW m \in Lane, NEW h, SeedLane(m, h) PROVE FALSE
    BY <2>2, DistinctSentinels DEF SeedLane, TypeInv, TypeOK
  <2> QED
    BY <2>1, <2>2, WhatMovesACursor
<1> QED
  BY <1>1, InvariantHolds, PTL DEF Spec, CursorMovesForward
=============================================================================
