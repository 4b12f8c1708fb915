------------------------- MODULE ProjectionJournal -------------------------
(***************************************************************************)
(* The fenced projection journal: the contract that                        *)
(* src/radar/reconciliation_journal.py states for the provider.            *)
(*                                                                         *)
(* A lane is an (identity, branch) pair with a projected head.  A caller   *)
(* that wants to move the head claims a batch (base, target, control cut,  *)
(* files, lease), records a result for every file and finalizes.  Callers  *)
(* crash, sleep past their lease and come back; what fences them is the    *)
(* journal, and every claim ever issued may be presented at any time, so   *)
(* the callers need no state of their own here.                            *)
(*                                                                         *)
(* A call the journal rejects raises JournalError and changes nothing: it  *)
(* is a stuttering step.                                                   *)
(***************************************************************************)
EXTENDS Naturals, Sequences

CONSTANTS
    Lane,       \* (identity, branch) keys
    Sha,        \* commit shas a lane head may hold
    NoHead,     \* a seeded lane with projected_head_sha = None
    Unseeded,   \* a key absent from _lanes
    Cut,        \* (control_sha, topology_sha) pairs
    NoCut,      \* a key absent from _control_cuts
    Path,       \* file paths of a batch
    BatchId,    \* batch ids; finite, so it bounds the number of claims
    NoBatch,    \* a key absent from _active_batch_by_lane
    NoClaim,    \* a batch id that was never issued
    Lease,      \* lease lengths a caller may ask for
    MaxTime     \* bound on the clock

Base == Sha \cup {NoHead}
Claim == [lane : Lane, expected : Base, target : Sha, cut : Cut, lease : Nat]

ASSUME DistinctSentinels ==
    /\ NoHead \notin Sha
    /\ Unseeded \notin Sha \cup {NoHead}
    /\ NoCut \notin Cut
    /\ NoBatch \notin BatchId
    /\ NoClaim \notin Claim

ASSUME LeasesPositive == Lease \subseteq Nat \ {0} /\ MaxTime \in Nat

VARIABLES
    projected,  \* _lanes: the projected head of each lane
    cut,        \* _control_cuts
    claim,      \* _batches[b].claim
    files,      \* _batches[b].files
    complete,   \* the batches with _batches[b].complete
    active,     \* _active_batch_by_lane
    answer,     \* the batch whose finalized state a caller was last given
    clock,      \* real time, in ticks
    seed,       \* history: the head each lane was seeded with
    history     \* history: per lane, the finalized batches in order

vars ==
    <<projected, cut, claim, files, complete, active, answer, clock, seed, history>>

Success == {"PROJECTED", "IDEMPOTENT"}
Result == Success \cup {"FAILED", "CONFLICT"}
\* "ABSENT" marks a path that is not one of the batch's files.
FileState == Result \cup {"PENDING", "ABSENT"}

Issued == {b \in BatchId : claim[b] # NoClaim}
Resolved(b) == \A p \in Path : files[b][p] \in Success \cup {"ABSENT"}

Init ==
    /\ projected = [l \in Lane |-> Unseeded]
    /\ cut = [l \in Lane |-> NoCut]
    /\ claim = [b \in BatchId |-> NoClaim]
    /\ files = [b \in BatchId |-> [p \in Path |-> "ABSENT"]]
    /\ complete = {}
    /\ active = [l \in Lane |-> NoBatch]
    /\ answer = NoBatch
    /\ clock = 0
    /\ seed = [l \in Lane |-> Unseeded]
    /\ history = [l \in Lane |-> <<>>]

-----------------------------------------------------------------------------

\* Faulty variant: a second seed overwrites the head.
SeedLaneTwice(l, h) ==
    /\ projected' = [projected EXCEPT ![l] = h]
    /\ seed' = [seed EXCEPT ![l] = h]
    /\ UNCHANGED <<cut, claim, files, complete, active, answer, clock, history>>

\* seed_lane_state: a second seed of the same head changes nothing, one of
\* another head is rejected.
SeedLane(l, h) ==
    /\ projected[l] = Unseeded
    /\ projected' = [projected EXCEPT ![l] = h]
    /\ seed' = [seed EXCEPT ![l] = h]
    /\ UNCHANGED <<cut, claim, files, complete, active, answer, clock, history>>

\* set_control_cut: unconditional once the lane is seeded, even while a batch
\* is claimed.
SetControlCut(l, c) ==
    /\ projected[l] # Unseeded
    /\ cut' = [cut EXCEPT ![l] = c]
    /\ UNCHANGED <<projected, claim, files, complete, active, answer, clock, seed,
                   history>>

\* The caller passes the time, so it read its clock at some moment before the
\* call took the lock.
Reading == 0..clock

\* Faulty variant: the lease ends one tick early.
BusyOneTickShort(l, now) ==
    /\ active[l] # NoBatch
    /\ active[l] \notin complete
    /\ now + 1 < claim[active[l]].lease

\* A claim in progress keeps the lane while its lease runs.
Busy(l, now) ==
    /\ active[l] # NoBatch
    /\ active[l] \notin complete
    /\ now < claim[active[l]].lease

CanClaim(l, expected, c, now) ==
    /\ projected[l] # Unseeded
    /\ projected[l] = expected
    /\ cut[l] = c
    /\ ~Busy(l, now)

\* claim_batch: batch id b is fresh (uuid4); an expired claim is replaced.
ClaimBatch(l, expected, target, c, paths, b, now, lease) ==
    /\ claim[b] = NoClaim
    /\ CanClaim(l, expected, c, now)
    /\ claim' = [claim EXCEPT ![b] = [lane |-> l, expected |-> expected,
                      target |-> target, cut |-> c, lease |-> now + lease]]
    /\ files' = [files EXCEPT ![b] =
                      [p \in Path |-> IF p \in paths THEN "PENDING" ELSE "ABSENT"]]
    /\ active' = [active EXCEPT ![l] = b]
    /\ UNCHANGED <<projected, cut, complete, answer, clock, seed, history>>

\* Faulty variant: a superseded claim still counts.
CurrentOrSuperseded(b) == b \in Issued

\* _record_for_current_claim: the lane's active batch, or a complete one.
Current(b) ==
    /\ b \in Issued
    /\ active[claim[b].lane] = b \/ b \in complete

\* record_file_result: a result may be repeated, never changed.  The lease is
\* not looked at: an expired claim that nobody replaced is still current.
RecordFileResult(b, p, r) ==
    /\ Current(b)
    /\ b \notin complete
    /\ files[b][p] \in {"PENDING", r}
    /\ files' = [files EXCEPT ![b][p] = r]
    /\ UNCHANGED <<projected, cut, claim, complete, active, answer, clock, seed,
                   history>>

\* Faulty variant: a failed file does not block.
CanFinalizeWhenNonePending(b, now) ==
    /\ Current(b)
    /\ now < claim[b].lease
    /\ cut[claim[b].lane] = claim[b].cut
    /\ projected[claim[b].lane] = claim[b].expected
    /\ \A p \in Path : files[b][p] # "PENDING"

CanFinalize(b, now) ==
    /\ Current(b)
    /\ now < claim[b].lease
    /\ cut[claim[b].lane] = claim[b].cut
    /\ projected[claim[b].lane] = claim[b].expected
    /\ Resolved(b)

NewHead(b) == claim[b].target

\* finalize_batch
FinalizeBatch(b, now) ==
    /\ b \notin complete
    /\ CanFinalize(b, now)
    /\ projected' = [projected EXCEPT ![claim[b].lane] = NewHead(b)]
    /\ complete' = complete \cup {b}
    /\ active' = [active EXCEPT ![claim[b].lane] = NoBatch]
    /\ history' = [history EXCEPT ![claim[b].lane] = Append(@, b)]
    /\ answer' = b
    /\ UNCHANGED <<cut, claim, files, clock, seed>>

\* finalize_batch of a complete batch: the recorded state is returned before
\* anything else is looked at.
FinalizeAgain(b) ==
    /\ b \in complete
    /\ answer' = b
    /\ UNCHANGED <<projected, cut, claim, files, complete, active, clock, seed,
                   history>>

Tick ==
    /\ clock < MaxTime
    /\ clock' = clock + 1
    /\ UNCHANGED <<projected, cut, claim, files, complete, active, answer, seed,
                   history>>

Next ==
    \/ \E l \in Lane, h \in Base : SeedLane(l, h)
    \/ \E l \in Lane, c \in Cut : SetControlCut(l, c)
    \/ \E l \in Lane, e \in Base, t \in Sha, c \in Cut, ps \in SUBSET Path,
          b \in BatchId, now \in Reading, lease \in Lease :
          ClaimBatch(l, e, t, c, ps, b, now, lease)
    \/ \E b \in BatchId, p \in Path, r \in Result : RecordFileResult(b, p, r)
    \/ \E b \in BatchId, now \in Reading : FinalizeBatch(b, now)
    \/ \E b \in BatchId : FinalizeAgain(b)
    \/ Tick

Spec == Init /\ [][Next]_vars

-----------------------------------------------------------------------------

TypeOK ==
    /\ projected \in [Lane -> Base \cup {Unseeded}]
    /\ cut \in [Lane -> Cut \cup {NoCut}]
    /\ claim \in [BatchId -> Claim \cup {NoClaim}]
    /\ files \in [BatchId -> [Path -> FileState]]
    /\ complete \subseteq BatchId
    /\ active \in [Lane -> BatchId \cup {NoBatch}]
    /\ answer \in BatchId \cup {NoBatch}
    /\ clock \in Nat
    /\ seed \in [Lane -> Base \cup {Unseeded}]
    /\ history \in [Lane -> Seq(BatchId)]

\* The head of a lane just before its i-th finalization.
HeadBefore(l, i) == IF i = 1 THEN seed[l] ELSE claim[history[l][i-1]].target

\* No update of a lane is lost and none is forked: the finalized batches form
\* one chain, each built on the head its predecessor installed, that starts at
\* the seed and ends at the projected head.  finalize_batch must keep this
\* whatever stale claims callers present and whenever they read their clocks.
HeadsFormOneChain ==
    \A l \in Lane :
        /\ \A i \in 1..Len(history[l]) :
              claim[history[l][i]].expected = HeadBefore(l, i)
        /\ projected[l] = HeadBefore(l, Len(history[l]) + 1)

\* A batch is finalized at most once, on its own lane, and with every file
\* projected: record_file_result can not reopen a file of a complete batch.
FinalizedOnceAndResolved ==
    /\ \A b \in complete : Resolved(b)
    /\ \A l \in Lane : \A i, j \in 1..Len(history[l]) :
          /\ history[l][i] \in complete
          /\ claim[history[l][i]].lane = l
          /\ history[l][i] = history[l][j] => i = j
    /\ \A b \in complete : \E i \in 1..Len(history[claim[b].lane]) :
          history[claim[b].lane][i] = b

\* The base of the current claim is the projected head at all times, so the
\* PROJECTED_BASE_CHANGED check of finalize_batch is a second line of defence:
\* the claim fence alone already implies it.
CurrentClaimHasCurrentBase ==
    \A l \in Lane : active[l] # NoBatch =>
        /\ active[l] \in Issued \ complete
        /\ claim[active[l]].lane = l
        /\ claim[active[l]].expected = projected[l]

Superseded(b) == b \in Issued \ complete /\ active[claim[b].lane] # b

\* A claim that was replaced is dead for good: it is never current again, it
\* never completes, and no late worker changes the results it holds.
SupersededStaysDead ==
    [][\A b \in BatchId : Superseded(b) =>
          Superseded(b)' /\ files'[b] = files[b]]_vars

\* While the lease of the current claim runs in real time nobody takes the lane
\* from its holder, although every caller compares the lease with a clock
\* reading that may be old.
LeaseIsExclusive ==
    [][\A l \in Lane :
          (active[l] # NoBatch /\ active'[l] # active[l]) =>
             \/ active[l] \in complete'
             \/ clock >= claim[active[l]].lease]_vars

\* "replay of a successful finalization is idempotent only when the durable
\* lane cursor still equals the completed batch target"
\* (docs/protocol/RADAR_PROJECTION_JOURNAL_V1.md): a finalize that succeeds
\* leaves the lane at the head it returns.
AnswerIsCurrentHead ==
    [][(answer' # answer) =>
          projected'[claim[answer'].lane] = claim[answer'].target]_vars

=============================================================================
