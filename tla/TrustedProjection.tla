------------------------- MODULE TrustedProjection -------------------------
(***************************************************************************)
(* The trusted reconciler: scripts/radar_trusted_project.py with the       *)
(* target derivation of src/radar/trusted_reconciler.py, over the edge     *)
(* function and the provider's journal.                                    *)
(*                                                                         *)
(* A run works on one checkout: the control commit and the branch heads it *)
(* fetched stay what they were while lanes, control and journal move on.   *)
(* It takes the requested lanes one after another, and whatever raises on  *)
(* a lane ends the run.  Runs overlap; each may die between any two calls, *)
(* and requests it has posted may still be served afterwards.              *)
(*                                                                         *)
(* The journal appears as its callers see it: one step per call, the       *)
(* current claim of each lane, and a lease that is running or over.  What  *)
(* happens inside its calls is SqlProjectionJournal.  Claim tokens are     *)
(* fresh if nothing refers to them any more, which keeps the model finite  *)
(* without a bound on the number of claims.                                *)
(***************************************************************************)
EXTENDS Naturals, FiniteSets

CONSTANTS
    NLanes,     \* identities in the order a scheduled run takes them
    Commit,     \* commits of writer branches; each changes one message file
    Before,     \* the pairs (a, b) where a is an ancestor of b or is b
    Anchor,     \* the activation anchor of each lane
    Adds,       \* the commits whose file is new
    Merge,      \* the commits with two parents
    Id, IdOf,   \* the message id a commit's file declares
    Historical, \* ids each lane used before the cutover
    Run,        \* runs that may be under way at the same time
    Token,      \* claim tokens
    NoToken,    \* a run that holds no claim
    NoHead,     \* a lane seeded with a NULL cursor
    Unseeded,   \* a lane without a row in the journal
    NoClaim,    \* a lane without a CLAIMED batch
    MaxMain,    \* bound on the commits of the control branch
    MaxFaults   \* bound on deaths, stalls and rewritten branches

Lane == 1..NLanes
Main == 0..MaxMain
Cursor == Commit \cup {NoHead, Unseeded}

ASSUME LanesAreNumbered == NLanes \in Nat \ {0} /\ MaxMain \in Nat /\ MaxFaults \in Nat
ASSUME AncestryIsAnOrder ==
    /\ Before \subseteq Commit \X Commit
    /\ \A c \in Commit : <<c, c>> \in Before
    /\ \A a, b, c \in Commit :
          <<a, b>> \in Before /\ <<b, c>> \in Before => <<a, c>> \in Before
\* Two lines of a history come together in a commit with two parents.
ASSUME LinesJoinInMerges ==
    \A a, b, c \in Commit :
        <<a, c>> \in Before /\ <<b, c>> \in Before
            => \/ <<a, b>> \in Before \/ <<b, a>> \in Before
               \/ \E m \in Merge : {<<a, m>>, <<b, m>>, <<m, c>>} \subseteq Before
ASSUME CommitsOfLanes ==
    /\ Anchor \in [Lane -> Commit]
    /\ Adds \cup Merge \subseteq Commit
    /\ IdOf \in [Commit -> Id] /\ Historical \in [Lane -> SUBSET Id]
ASSUME DistinctSentinels ==
    /\ {NoHead, Unseeded} \cap Commit = {}
    /\ NoHead # Unseeded
    /\ NoToken \notin Token

Claim == [token : Token, base : Cursor, target : Commit, cut : Main,
          pending : SUBSET Commit, over : BOOLEAN]
Request == [lane : Lane, token : Token, file : Commit]
RunState == [phase : {"idle", "cursor", "cut", "claim", "project"},
             lane : Lane, last : Lane, seen : [Lane -> Commit], main : Main,
             base : Cursor, token : Token \cup {NoToken}, left : SUBSET Commit]

ASSUME NoClaimIsNone == NoClaim \notin Claim

VARIABLES
    branch,     \* the head of each lane's branch at GitHub
    main,       \* the newest commit of the control branch
    projected,  \* lane state: the cursor
    cut,        \* lane state: the control cut; 0 before the first
    claim,      \* the CLAIMED batch of each lane
    stored,     \* the files of each lane that are in radar.messages
    posted,     \* files posted in project_batch requests and not yet served
    run,        \* the runs
    faults      \* faults so far

vars == <<branch, main, projected, cut, claim, stored, posted, run, faults>>

IdleRun == [phase |-> "idle", lane |-> 1, last |-> 1, seen |-> Anchor, main |-> 0,
            base |-> Unseeded, token |-> NoToken, left |-> {}]

Init ==
    /\ branch = Anchor
    /\ main = 0
    /\ projected = [l \in Lane |-> Unseeded]
    /\ cut = [l \in Lane |-> 0]
    /\ claim = [l \in Lane |-> NoClaim]
    /\ stored = [l \in Lane |-> {}]
    /\ posted = {}
    /\ run = [r \in Run |-> IdleRun]
    /\ faults = 0

-----------------------------------------------------------------------------
(* Target derivation *)

\* is_ancestor, of two commits that are both among the objects of the checkout
Ancestor(a, b) == <<a, b>> \in Before

\* What the checkout may hold when a lane is observed at head: the history of
\* that head for sure; whatever else, if other branches brought it along or it
\* was kept from an earlier fetch.  How jobs fetch is not in the repository.
History == [head \in Commit |-> {c \in Commit : Ancestor(c, head)}]
Checkouts(head) == {History[head], Commit}

\* commits_between: rev-list base..head
Between(base, head) == {c \in Commit : Ancestor(c, head) /\ ~Ancestor(c, base)}

\* ReconcileTarget.base_head
BaseHead(l, cursor, observed) == IF cursor = NoHead THEN Anchor[l] ELSE cursor

\* Faulty variant: a cursor that is ahead of the checkout is taken for behind.
DispositionWithoutStale(l, cursor, observed) ==
    CASE cursor = observed -> "NOOP"
      [] cursor # observed /\ cursor \in Commit -> "FORWARD"
      [] cursor = NoHead /\ Ancestor(Anchor[l], observed) -> "FORWARD"
      [] OTHER -> "DIVERGED_HISTORY"

\* derive_target, if its questions about ancestry are answered.  A lane without
\* a row never gets here.
Disposition(l, cursor, observed) ==
    CASE ~Ancestor(Anchor[l], observed) -> "DIVERGED_HISTORY"
      [] Ancestor(Anchor[l], observed) /\ cursor = NoHead -> "FORWARD"
      [] Ancestor(Anchor[l], observed) /\ cursor = observed -> "NOOP"
      [] OTHER ->
            CASE ~Ancestor(Anchor[l], cursor) -> "DIVERGED_HISTORY"
              [] Ancestor(Anchor[l], cursor) /\ Ancestor(cursor, observed) -> "FORWARD"
              [] Ancestor(Anchor[l], cursor) /\ Ancestor(observed, cursor) -> "STALE_EVENT"
              [] OTHER -> "DIVERGED_HISTORY"

\* derive_target asks about a commit that the checkout does not hold: first the
\* anchor, later the cursor.  is_ancestor raises GIT_ANCESTRY_CHECK_FAILED.
AncestryCheckFails(l, cursor, observed, objects) ==
    \/ Anchor[l] \notin objects
    \/ /\ Ancestor(Anchor[l], observed)
       /\ cursor \notin {NoHead, observed} \cup objects

\* _message_ids_at_commit, of the parent
IdsBefore == [c \in Commit |-> {IdOf[b] : b \in {a \in Commit : Ancestor(a, c) /\ a # c}}]

\* Faulty variant: the ids of earlier messages are not looked at.
CommitOnlyAdds(l, c) == c \notin Merge /\ c \in Adds
\* _validate_commit_paths
CommitIsValid(l, c) ==
    /\ c \notin Merge
    /\ c \in Adds
    /\ IdOf[c] \notin Historical[l] \cup IdsBefore[c]

\* validate_active_writer_range
RangeIsValid(l, base, head) == \A c \in Between(base, head) : CommitIsValid(l, c)

\* collect_projection_files: the files that are added.
FilesOf(base, head) == Between(base, head) \cap Adds

\* What _provider_cursor, derive_target and the validation of the range make of
\* a lane: "SKIP" it, "FORWARD", or an error.
Verdict(l, cursor, observed, objects) ==
    CASE \/ cursor = Unseeded
         \/ AncestryCheckFails(l, cursor, observed, objects) -> "ERROR"
      [] OTHER ->
            CASE Disposition(l, cursor, observed) \in {"NOOP", "STALE_EVENT"} -> "SKIP"
              [] /\ Disposition(l, cursor, observed) = "FORWARD"
                 /\ RangeIsValid(l, BaseHead(l, cursor, observed), observed) -> "FORWARD"
              [] OTHER -> "ERROR"

-----------------------------------------------------------------------------
(* Runs *)

Set(r, s) == run' = [run EXCEPT ![r] = s]
Observed(r) == run[r].seen[run[r].lane]
\* The lane a run is at is judged by its cursor and what the checkout holds.
Verdicts(r) ==
    LET l == run[r].lane IN
    {Verdict(l, projected[l], Observed(r), objects) : objects \in Checkouts(Observed(r))}

\* The next requested lane; what was seen of this one is not needed any more.
\* The run ends after the last.
Advanced(s) ==
    IF s.lane = s.last THEN IdleRun
    ELSE [s EXCEPT !.phase = "cursor", !.lane = s.lane + 1, !.base = Unseeded,
                   !.token = NoToken, !.seen[s.lane] = Anchor[s.lane]]

\* A job starts: checkout of the control branch, fetch of the lanes' branches.
Begin(r, first, last) ==
    /\ run[r].phase = "idle"
    /\ Set(r, [IdleRun EXCEPT !.phase = "cursor", !.lane = first, !.last = last,
                              !.main = main,
                              !.seen = [l \in Lane |-> IF l \in first..last THEN branch[l]
                                                                      ELSE Anchor[l]]])
    /\ UNCHANGED <<branch, main, projected, cut, claim, stored, posted, faults>>

\* requested_identities: the schedule asks for every lane, a workflow_run for
\* the lane of its branch.
BeginScheduled(r) == Begin(r, 1, NLanes)
BeginWorkflowRun(r, l) == Begin(r, l, l)

\* The cursor is read and there is nothing to do for the lane.
SkipLane(r) ==
    /\ run[r].phase = "cursor"
    /\ "SKIP" \in Verdicts(r)
    /\ Set(r, Advanced(run[r]))
    /\ UNCHANGED <<branch, main, projected, cut, claim, stored, posted, faults>>

\* The cursor is read and the range from it to the observed head is valid.
DeriveForward(r) ==
    /\ run[r].phase = "cursor"
    /\ "FORWARD" \in Verdicts(r)
    /\ Set(r, [run[r] EXCEPT !.phase = "cut", !.base = projected[run[r].lane]])
    /\ UNCHANGED <<branch, main, projected, cut, claim, stored, posted, faults>>

\* set_control_cut: unconditional, so an older checkout takes it back.
SetControlCut(r) ==
    /\ run[r].phase = "cut"
    /\ cut' = [cut EXCEPT ![run[r].lane] = run[r].main]
    /\ Set(r, [run[r] EXCEPT !.phase = "claim"])
    /\ UNCHANGED <<branch, main, projected, claim, stored, posted, faults>>

Referred == {claim[l].token : l \in {k \in Lane : claim[k] # NoClaim}}
                \cup {q.token : q \in posted} \cup {run[r].token : r \in Run}

\* Faulty variant: a claim that nobody finished keeps the lane for good.
CanClaimOnlyFree(r) ==
    LET l == run[r].lane IN
    projected[l] = run[r].base /\ cut[l] = run[r].main /\ claim[l] = NoClaim

CanClaim(r) ==
    LET l == run[r].lane IN
    /\ projected[l] = run[r].base
    /\ cut[l] = run[r].main
    /\ claim[l] # NoClaim => claim[l].over

\* collect_projection_files and claim_batch: an expired claim is replaced.
ClaimBatch(r, t) ==
    LET l == run[r].lane
        files == FilesOf(BaseHead(l, run[r].base, Observed(r)), Observed(r)) IN
    /\ run[r].phase = "claim"
    /\ CanClaim(r)
    /\ t \in Token \ Referred
    /\ t = CHOOSE u \in Token : u \notin Referred
    /\ claim' = [claim EXCEPT ![l] =
                    [token |-> t, base |-> run[r].base, target |-> Observed(r),
                     cut |-> run[r].main, pending |-> files, over |-> FALSE]]
    /\ Set(r, [run[r] EXCEPT !.phase = "project", !.token = t, !.left = files])
    /\ UNCHANGED <<branch, main, projected, cut, stored, posted, faults>>

UnderWay(t) == {q \in posted : q.token = t}

\* project_batch with the next chunk: the oldest files left, as many as the
\* limits on number and size allow.
PostChunk(r, chunk) ==
    /\ run[r].phase = "project"
    /\ UnderWay(run[r].token) = {}
    /\ chunk # {}
    /\ \A c \in chunk : \A o \in run[r].left : Ancestor(o, c) => o \in chunk
    /\ posted' = posted \cup
          {[lane |-> run[r].lane, token |-> run[r].token, file |-> c] : c \in chunk}
    /\ Set(r, [run[r] EXCEPT !.left = @ \ chunk])
    /\ UNCHANGED <<branch, main, projected, cut, claim, stored, faults>>

\* The fence both projection_project_file_v1 and projection_finalize_batch_v1
\* put before their effect.
Current(l, t) ==
    /\ claim[l] # NoClaim
    /\ claim[l].token = t
    /\ ~claim[l].over
    /\ projected[l] = claim[l].base
    /\ cut[l] = claim[l].cut

\* The edge function projects the files of a request in any order; the message
\* and the state of its file change in one transaction.
ProjectFile(q) ==
    /\ q \in posted
    /\ Current(q.lane, q.token)
    /\ q.file \in claim[q.lane].pending
    /\ stored' = [stored EXCEPT ![q.lane] = @ \cup {q.file}]
    /\ claim' = [claim EXCEPT ![q.lane].pending = @ \ {q.file}]
    /\ posted' = posted \ {q}
    /\ UNCHANGED <<branch, main, projected, cut, run, faults>>

\* A stale claim: the first refusal ends the run that waits for the request;
\* the other workers of the request go on.
RefuseFile(q) ==
    /\ q \in posted
    /\ ~Current(q.lane, q.token)
    /\ posted' = posted \ {q}
    /\ run' = [r \in Run |-> IF run[r].token = q.token THEN IdleRun ELSE run[r]]
    /\ UNCHANGED <<branch, main, projected, cut, claim, stored, faults>>

\* The edge function is ended before it serves a request nobody waits for.
LoseRequest(q) ==
    /\ q \in posted
    /\ \A r \in Run : run[r].token # q.token
    /\ posted' = posted \ {q}
    /\ UNCHANGED <<branch, main, projected, cut, claim, stored, run, faults>>

AllProjected(r) ==
    run[r].phase = "project" /\ run[r].left = {} /\ UnderWay(run[r].token) = {}

CanFinalize(r) ==
    LET l == run[r].lane IN
    Current(l, run[r].token) /\ claim[l].pending = {}

\* finalize_batch
FinalizeBatch(r) ==
    LET l == run[r].lane IN
    /\ AllProjected(r)
    /\ CanFinalize(r)
    /\ projected' = [projected EXCEPT ![l] = claim[l].target]
    /\ claim' = [claim EXCEPT ![l] = NoClaim]
    /\ Set(r, Advanced(run[r]))
    /\ UNCHANGED <<branch, main, cut, stored, posted, faults>>

\* A check fails on the lane: the run ends, and with it the lanes to come.
Raise(r) ==
    /\ \/ run[r].phase = "cursor" /\ "ERROR" \in Verdicts(r)
       \/ run[r].phase = "claim" /\ ~CanClaim(r)
       \/ AllProjected(r) /\ ~CanFinalize(r)
    /\ Set(r, IdleRun)
    /\ UNCHANGED <<branch, main, projected, cut, claim, stored, posted, faults>>

-----------------------------------------------------------------------------
(* The world around the runs *)

\* projection_seed_lane_v1, called by an operator.
SeedLane(l, h) ==
    /\ projected[l] = Unseeded
    /\ projected' = [projected EXCEPT ![l] = h]
    /\ UNCHANGED <<branch, main, cut, claim, stored, posted, run, faults>>

\* Writers append to a lane.
Push(l, c) ==
    /\ Ancestor(branch[l], c) /\ c # branch[l]
    /\ branch' = [branch EXCEPT ![l] = c]
    /\ UNCHANGED <<main, projected, cut, claim, stored, posted, run, faults>>

\* The control branch moves.
MoveMain ==
    /\ main < MaxMain
    /\ main' = main + 1
    /\ UNCHANGED <<branch, projected, cut, claim, stored, posted, run, faults>>

Fault == faults < MaxFaults /\ faults' = faults + 1

\* A branch is rewritten: derive_target finds it STALE or DIVERGED, or raises
\* because the cursor's commit is gone.
RewriteBranch(l, c) ==
    /\ Fault
    /\ ~Ancestor(branch[l], c)
    /\ branch' = [branch EXCEPT ![l] = c]
    /\ UNCHANGED <<main, projected, cut, claim, stored, posted, run>>

\* The job is cancelled, or a call fails on the way there or back.
Die(r) ==
    /\ Fault
    /\ run[r].phase # "idle"
    /\ Set(r, IdleRun)
    /\ UNCHANGED <<branch, main, projected, cut, claim, stored, posted>>

\* The lease runs out: of a run that is gone, or, a fault, of one that is slow.
Expire(l) ==
    /\ claim[l] # NoClaim
    /\ ~claim[l].over
    /\ IF \E r \in Run : run[r].token = claim[l].token THEN Fault ELSE UNCHANGED faults
    /\ claim' = [claim EXCEPT ![l].over = TRUE]
    /\ UNCHANGED <<branch, main, projected, cut, stored, posted, run>>

-----------------------------------------------------------------------------

Step(r) ==
    \/ SkipLane(r)
    \/ DeriveForward(r)
    \/ SetControlCut(r)
    \/ \E t \in Token : ClaimBatch(r, t)
    \/ \E chunk \in SUBSET run[r].left : PostChunk(r, chunk)
    \/ FinalizeBatch(r)
    \/ Raise(r)

Serve(q) == ProjectFile(q) \/ RefuseFile(q)

Next ==
    \/ \E r \in Run : BeginScheduled(r) \/ Step(r) \/ Die(r)
    \/ \E r \in Run, l \in Lane : BeginWorkflowRun(r, l)
    \/ \E q \in Request : Serve(q) \/ LoseRequest(q)
    \/ \E l \in Lane : \E h \in {NoHead, Anchor[l]} : SeedLane(l, h)
    \/ \E l \in Lane, c \in Commit : Push(l, c) \/ RewriteBranch(l, c)
    \/ \E l \in Lane : Expire(l)
    \/ MoveMain

Spec == Init /\ [][Next]_vars

\* The schedule fires again and again, whatever workflow runs take the slots; a
\* run that is not killed takes its next step; requests are served; leases end.
FairSpec ==
    /\ Spec
    /\ SF_vars(\E r \in Run : BeginScheduled(r))
    /\ \A r \in Run : WF_vars(Step(r))
    /\ WF_vars(\E q \in Request : Serve(q))
    /\ \A l \in Lane : WF_vars(Expire(l))

-----------------------------------------------------------------------------

TypeOK ==
    /\ branch \in [Lane -> Commit]
    /\ main \in Main
    /\ projected \in [Lane -> Cursor]
    /\ cut \in [Lane -> Main]
    /\ claim \in [Lane -> Claim \cup {NoClaim}]
    /\ stored \in [Lane -> SUBSET Commit]
    /\ posted \subseteq Request
    /\ run \in [Run -> RunState]
    /\ faults \in 0..MaxFaults

\* The cursor vouches for everything behind it: of every commit between the
\* activation anchor and the projected head the file is stored, and no two of the
\* messages, nor one of them and an older one of the lane, share an id.  Cursor,
\* checkout and claim are read at different times, commits are validated against
\* their parents alone, and the files of a batch may be projected by requests of
\* a run that is long gone.
StoredUpToHead ==
    \A l \in Lane : projected[l] \in Commit =>
        LET new == Between(Anchor[l], projected[l]) IN
        /\ new \subseteq stored[l]
        /\ \A c \in new : IdOf[c] \notin Historical[l]
        /\ \A c \in new, d \in Commit :
               Ancestor(d, projected[l]) /\ IdOf[c] = IdOf[d] => c = d

\* derive_target lets a cursor move forward only, from a commit to one of its
\* descendants, though runs with older checkouts overlap with newer ones and
\* branches may be rewritten under them.
CursorMovesForward ==
    [][\A l \in Lane :
          (projected[l] \in Commit /\ projected'[l] # projected[l]) =>
              projected'[l] \in Commit /\ Ancestor(projected[l], projected'[l])]_vars

\* A run passes the lane, whatever its checkout holds: the lane is seeded, its
\* branch has not been taken back behind the cursor, what is new is valid.
Passes(l) ==
    \A objects \in Checkouts(branch[l]) :
        Verdict(l, projected[l], branch[l], objects) # "ERROR"

\* Reconciliation catches up with every lane that stays projectable, if the
\* lanes that scheduled runs take before it stay so too: the requested lanes
\* share one loop, and a lane that is unseeded, rewound, diverged or invalid
\* raises out of it.
CatchesUp ==
    \A l \in Lane :
        <>[](\A k \in 1..l : Passes(k)) => <>[](projected[l] = branch[l])

=============================================================================
