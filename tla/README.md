# A formal model of ccb-core

ccb-core is the core of an organisation of cooperating agents ("identities").
Identities write messages into Git lanes; Radar projects the lanes into a
database, routes and relays work, and keeps the records that say what happened.
The modules here model the parts of it that have state and can go wrong in an
order nobody wrote a test for. Paths are relative to the repository.

## 1. Inventory

### 1.1 Components with state

| component | code | state | operations |
|---|---|---|---|
| Lane append | `src/radar/safe_lane_append.py`, `branch_bound_append.py` | the branch ref and its commits, at GitHub | `append_bus_message_v1` |
| Writer lanes, control snapshot | `src/radar/writer_lanes.py`, `trusted_control_snapshot.py`, `trusted_lane_validation.py` | none (a topology document read from Git) | bind identity to lane, validate a range |
| Projection journal | `src/radar/reconciliation_journal.py`; provider: `supabase/migrations/20260906154101_*`, `20260908010500_*` | lane cursor, control cut, batches and their files, active claim | seed, set cut, claim, project file, finalize |
| Message store | `supabase/migrations/20260902204759_*`, `20260902231445_*` | `radar.messages` | `project_bus_message_v1` |
| Trusted reconciler | `src/radar/trusted_reconciler.py`, `scripts/radar_trusted_project.py` | none of its own; crashes and is rescheduled | derive target, validate, claim, project, finalize |
| Assignment ledger | `src/chat_bus/schema.sql`, `ledger.py` | assignments, transition log, receipts (SQLite) | create, apply transition, accept |
| Slack relay | `src/chat_bus/slack_relay.py`, `identity.py` | claims of outbound posts, alias registry | claim, post, mark delivered |
| Radar runtime | `src/radar/runtime.py`, `routing.py` | bounded priority queue, dedupe window | admit, dispatch |
| Telemetry, heartbeat | `src/radar/telemetry.py`, `heartbeat.py` | counters, heartbeats (SQLite) | increment, create, claim, mark delivered |
| Dead letters | `src/radar/dlq.py` | dead letter rows (SQLite) | record, set applicability, mark replay |
| Dependency graph | `src/radar/workflow.py` | graph and completed set, in memory | add edge, complete |
| Registry | `src/radar/registry.py` | identities, nodes, subscriptions, in memory, one lock | register, bind, resolve audience |
| Workstation relay | `src/radar/workstation_relay*.py`, `workstation_target.py`, `windows_firefox_target.py` | one durable record per message, a browser composer | claim, discover, populate, submit, read back, acknowledge |
| Assignment plane, receipt plane, thread closure | `supabase/migrations/20260903001906_*`, `20260903000603_*`, `20260903214334_*` | observations, assignments, acknowledgements | triggers on message insert |
| Edge ingest | `supabase/functions/github-bus-ingest/*`, `20260905230823_*` | burned OIDC ids | verify, burn, handle |

### 1.2 How they interact

A writer appends a message to its lane: a commit on its branch, published by a
fast-forward ref update. The append reads the control ref, the lane head and
the lane history one after another and checks some of them again, because
other writers move them in between. Every five minutes, and on demand, the
trusted reconciler reads the lanes and, through the edge function, brings the
database up to their heads: per lane it claims a batch in the journal, projects
the files concurrently and finalizes. Several runs may overlap; each may die at
any point. Inserting a message fires triggers that keep the assignment and
receipt planes. Apart from that, each host runs the Radar runtime (an admission
queue between sources and sinks, with telemetry in SQLite), the assignment
ledger and the relays to Slack and to a browser workstation.

### 1.3 What is hard

* **Stale reads.** Most operations read in one step and write in a later one:
  the ledger's snapshot, the append's preflight, the journal's callers.
* **Leases and clocks.** The reference journal gets its time from the caller;
  the provider's is the start of the transaction. Both may be old when compared.
* **Ambiguous outcomes.** A ref update, a post to Slack, a submit in a browser
  can fail after it took effect.
* **Crashes between two stores.** Claim and effect are never one transaction.
* **Locks.** The provider functions lock rows and message ids one at a time.
* **Partial failure.** A telemetry write that fails after the queue changed.

PROJECT.json lists the hazards at their lines, and the properties aimed at them.

### 1.4 What makes each part correct

* Journal: a lane's head moves along one chain of finalized batches; a replaced
  claim is dead; a lease is exclusive; a batch is finalized once and only whole.
* Provider: its transactions implement that journal; every message is stored
  exactly once; the first keeps its id; no two calls wait for one another.
* Reconciler: everything behind a lane's cursor is stored; the cursor moves
  forward only; a lane that stays projectable is caught up with.
* Ledger: the log is one chain per assignment; suspended work comes back to
  where it was left; a receipt stays true; nothing else moves the projection.
* Append: an error that says nothing was written is true for good; a message is
  in the lane at most once; a success names a commit of the lane.
* Runtime: every admitted message is dispatched, queued, or accounted as
  dropped; a critical message is dispatched by its own admission.
* Heartbeat: one per interval at most, and what is missed is counted; the sink is
  called once; the row says what is known of it. A scheduler is refused only if
  it was overtaken or the clock was set back.
* Dead letters: a letter is replayed once, while its verdict allows it.
* Relays: a message is sent once at most, and neither a row nor a receipt says
  more, or less, than is known; an uncertain post is never repeated. A verified
  acknowledgement fits the envelope; who wrote it is not known.
* Planes: an assignment is what its messages say, whatever their order, or a
  conflict is noted; an acknowledgement rests on a reply.

## 2. Modules

| module | models |
|---|---|
| `ProjectionJournal` | the journal contract, `reconciliation_journal.py` |
| `ProjectionJournalProofs` | its theorems |
| `SqlProjectionJournal` | the provider's functions, statement by statement; refines `ProjectionJournal` |
| `TrustedProjection` | the reconciler's runs over journal, edge function and moving branches |
| `TrustedProjectionProofs` | its theorems |
| `MessagePlanes` | what the provider derives from stored messages: assignments, acknowledgements |
| `ProviderProofs` | the theorems of `SqlProjectionJournal` and of `MessagePlanes` |
| `LaneAppend` | `safe_lane_append.py` under `branch_bound_append.py`, and what Git may do to it |
| `LaneAppendProofs` | its theorems |
| `RadarRuntime` | admission, queue and dedupe window of one process, `runtime.py`, `routing.py` |
| `DeadLetters` | `dlq.py` and the operators who work it off |
| `Heartbeat` | `heartbeat.py` over `telemetry.py`; extends `DeadLetters`, whose count it carries |
| `RadarHostProofs` | its theorems, and those of `DeadLetters` and `RadarRuntime` |
| `FirefoxTarget` | one browser window, `windows_firefox_target.py`, and the people who share it |
| `WorkstationRelay` | `workstation_relay.py` over its store; extends `FirefoxTarget` |
| `WorkstationRelayProofs` | its theorems |
| `SlackRelay` | `slack_relay.py` with the addresses of `identity.py`, under external adapters |
| `SlackRelayProofs` | its theorems |
| `AssignmentLifecycle` | abstract: what the ledger promises about an assignment |
| `Ledger` | `schema.sql` under `ledger.py`; refines `AssignmentLifecycle` |
| `LedgerProofs` | its theorems |
| `MC...` | instances for TLC: sentinels, symmetry, values of function constants |

In every module, operators named as *faulty variants* in their comments are
bugs of a plausible kind, written beside the definition they corrupt and used
by no specification: substituting one for its original must break the property
named for it in PROJECT.json (`mutants`). A type invariant (`TypeOK`,
`RuntimeTypeOK`, `PlanesTypeOK`) says what a module's variables hold; it is
proved, and in `append` and `runtime` checked with the rest. `RadarRuntime` and
`MessagePlanes` have names of their own (`PlanesSpec`, `RuntimeInit`), so that
one module can hold their theorems beside those of the module they run next to.

### 2.1 ProjectionJournal

`_lanes`, `_control_cuts`, `_batches` and `_active_batch_by_lane` are the
functions `projected`, `cut`, `claim`/`files`/`complete` and `active`; the
methods run under one lock, so each is one action. A caller has no state: any
claim ever issued may be presented at any time (a late worker, a rerun, a
duplicate), which covers every caller. `Reading` is the time a caller passes:
any past value of the clock, because `now_ms` is read before the lock is taken.
A rejected call raises and changes nothing, so it stutters. `seed`, `history`
and `answer` are history variables.

### 2.2 SqlProjectionJournal

Each call is a transaction of several steps: `Begin`, one step per lock
(`LockLane`, `LockBatch`, `LockMessage`) with the read made under it, a body
that writes and commits. `owner` says who holds a lock; `tx` is what a
transaction remembers (`now` is the clock at `Begin`). `Abort` may come at any
point. `plain` and `qualified` are `radar.messages`: rows under a declared id
and under a content-qualified one. `Journal == INSTANCE ProjectionJournal`
maps a COMPLETE batch to `complete` and the CLAIMED batch of a lane to `active`.

### 2.3 TrustedProjection

`run[r].phase` is the place of a run in `project_requested_lanes`; `seen` and
`main` are its checkout, taken at `Begin` and kept while `branch` and `main` move
on. Each call of `ProviderProjectionClient` is a step, and so is the service of
each file: `posted` holds the files of requests that the edge function has not
served, and they stay there if the run that posted them is gone. `Verdict` is
what cursor, `derive_target` and validation say of a lane; `Raise` ends the run
and with it the lanes to come. `is_ancestor` has a third outcome: asked about a
commit that the checkout does not hold it raises (`AncestryCheckFails`). A fetch
brings the history of a head (`History`); what else a checkout holds, by other
branches or an earlier fetch, depends on the workflow's host, so that `Checkouts`
offers the two extremes and a run gets either. A lane whose branch was taken back
behind its cursor, or an older checkout of it, is therefore `STALE_EVENT` in one
run and ends the loop in another. `CommitIsValid` is the validation of one commit
against its parent: a merge is refused, a file of an existing message is not
changed (a commit in `Adds` adds one file and does nothing else), and a message
id (`IdOf`) that an ancestor holds, or that the lane used before the cutover
(`Historical`), is not used again; `RangeIsValid` asks it of every commit between the cursor and the
head. The journal is abstracted to the cursor, the cut and the current
claim with a lease that is running or over; `SqlProjectionJournal` has the
statements. A claim token may be used again when nothing refers to it, which
keeps the model finite without a bound on claims. A branch may be rewritten, a
run may die, and a lease may end under a live run: these count as `faults`. A
message that the edge function refuses although validation passed it, and a
topology that changes between runs, are left out.

### 2.4 Ledger

`apply_transition` is two steps: `ReadSnapshot` (the `inspect` outside the
transaction) and `ApplyTransition` (the insert with both triggers, the guard
and the CHECK constraints). `Abandon` is a `LedgerError` or a dead client.
`row`, `events` and `receipt` are the tables; an event's id is its index. An
operation id is any id in use or one fresh one. A comparison with a NULL column
does not abort, as in SQL. `AssignmentLifecycle` keeps a stack of places; the
mapping `WayBack` reads the stack off the three context columns.

### 2.5 LaneAppend

One identity, any number of callers. `call[w].phase` is the place in
`append_bus_message_v1`: head, history, objects, control, update, reconcile,
verify, receipt; each read and each write is a step, and the error codes are
reduced to the effect state the caller is told (`verdict`). `lane` is the
sequence of commits of each branch: lanes only grow, so a non-force update is a
fast-forward exactly if the head is still the candidate's parent. An update may
be refused, or raise and stay in `inflight`, from where it may land at any later
time or never. `Refuse` covers all that raises before the update, because every
read before it may fail; the guards of the other actions are the code's checks.
`MoveLane` is a new topology. The history is read in one step: the source of it
is a protocol the repository does not implement.

### 2.6 RadarRuntime

Threads call `admit` and `dispatch_next`; `holder` is `_admission_lock`, and
the places where a call under it may raise or be overtaken if the lock were not
there are steps. The heap is a sequence in (priority, age) order; the last
element is the victim of an eviction. The dedupe window is a function from keys
to times: pruning depends on the times only, because they never decrease along
the insertion order. `IncrementRaises` is `TelemetryStore.increment` failing;
what the call did to the queue before it is not undone. An envelope of unknown
taxonomy does not come under the lock: `RecordDeadLetter` and `CountDeadLetter`
are two transactions, `letterDue` counts the calls between them, and the second
may fail. The in-memory state is gone with the process; restarts are not modelled.

### 2.7 Heartbeat, DeadLetters

A scheduler's `step` is its place in `run_forever` and `emit_heartbeat`: the
wall clock is read in one step and the transaction that claims the heartbeat is
another, the sink is called outside of any transaction, and the mark comes
after it. `Now` may be set back; sleeps are measured by `elapsed`, which is not.
`beats` is the table, `count` the counter of dead letters; recording a letter and
counting it are two steps of `admit`, and the second may never come
(`uncounted`). The store may fail in any transaction, and an evidence callable
before the claim (`StoreFails`): tick and `run_forever` let that through, as their
docstring says, and the scheduler is `"failed"`, a claimed row stays pending. What
the store's own checks refuse is another step, `"refused"`. Operators work from lists that they read earlier (`listed`), and
`mark_replay` is where two of them meet. A killed scheduler may be started
again; the row it worked on stays pending.

### 2.8 WorkstationRelay, FirefoxTarget

`run[r].step` is the place of a process in `run`; the state a step reaches is
written in the same action, except that Enter and the write of SUBMITTED are
two, and the query and the insert of a claim are two. RENDERED_READBACK_VERIFIED
and ACK_PENDING are two writes, and a kill may come between. `row` is the store,
unique by message id. `FirefoxTarget` has the window: tabs, the page each shows,
a composer per tab and conversation, and all that Enter has sent. The user moves
between tabs and pages at any time; finding a control and using it is one step.
Window, conversation and composer are verified before the write and before the
key, as in the code, and both verifications look at address and identity one
after the other, as does the search for candidates. A write of the composer and
a submit may raise before or after they took effect. Nobody but a relay presses
Enter.

`acks` holds the acknowledgement texts there have been. Anybody may write one, of
any envelope, with any status, in any place, message or control, before the
message is sent or without it (`SomebodyAcknowledges`): it takes no more than the
fields of the envelope
(`docs/protocol/WORKSTATION_ACK_ASSURANCE_BOUNDARY_V1.md:5`). `wait_for_ack` looks
for the message id only (`AckSeen`), and `Parsed` compares the whole text with
what `render_ack` makes of the run's own envelope. Two envelopes of one id are
taken to differ in nonce or body, which is all an acknowledgement tells of them.

### 2.9 SlackRelay

`relay_operations` is `rows`; the digest covers the whole envelope, so the
envelope stands for it. The transport adapter is not part of the repository. It
is modelled from what the payload and the claim are made for: it parses an
event, claims, posts if the claim is new, and records the timestamp; it may be
killed between any two of these, be started with another registry, be given an
event again, and find a post in the channel and record it from its metadata.

### 2.10 MessagePlanes

`messages` is `radar.messages` by the id a row got: the first content keeps the
declared id, another one is stored under its qualified id. `Project` is an insert,
which fires both triggers; `work` is the transaction in progress. The triggers run
in the transaction of the insert, take one advisory lock each in a fixed order,
and hold it to its end, so transactions go one after the other, and an insert
whose trigger waits for the lock counts as made when it gets it. Within one, the
loop goes step by step: `StartPasses` notes what is refused, `ConsiderNext` is the
next message, in the order of (created_at, message_id), that changes something,
`RepeatPass` is another pass after one that recorded an event, and
`FinishAssignments` notes what waits, runs the receipts of an insert, and commits.
Messages between them that change nothing are passed over in the same step. The
receipts see committed rows only. Identities may be registered at any moment,
within a transaction too. `Rebuilt` is the whole function on empty tables, as a
fold over the messages and the passes, for `RebuildAgreesUnlessTold`. States
of an assignment are not interpreted by the code and are left out: the event is
its message. What the files say (`content`) is chosen in the initial state from
`Corpora`.

## 3. Runs

| run | instance | what it shows |
|---|---|---|
| `journal` | 1 lane, 3 batches, 2 shas, 2 cuts, clock 0..2 | the journal's safety |
| `journal_replay` | same, 2 batches | a finding: a repeated finalize answers with a head the lane left |
| `sql` | 2 transactions, 2 batches; 1 lane with 2 shas and 2 cuts, or 2 lanes whose contents collide | locks, fencing, exactly-once projection, refinement of the journal |
| `projection` | 1 lane, 5 commits with forks and a repeated id, 2 runs, 2 control commits, 2 faults | nothing behind the cursor is missing or repeats an id; the cursor moves forward only |
| `projection_lanes` | 2 lanes, 3 commits with a fork that is refused, 2 runs, 1 fault | lanes are caught up with |
| `planes` | 5 messages about 1 assignment in every order, 108 corpora, 2 identities | chains, conflicts, rebuilds, acknowledgements |
| `ledger` | 2 assignments, 2 clients, 9 events | stale snapshots, pauses, interruptions, receipts, supersession, refinement |
| `append` | 2 branches, 2 moves, 2 callers, 3 messages (2 share an id), 2 commits | effect states, one thread per lane, exact retries land once |
| `runtime` | 2 threads, 4 envelopes (2 urgent), queue of 2, window 1, clock 0..3, 1 failure | accounting, urgent dispatch, dedupe |
| `workstation` | 2 processes, 2 tabs, 3 conversations (2 of one title), 3 envelopes (2 under one id), 3 moves, 1 acknowledgement | at most one send, honest rows, stale windows |
| `heartbeat` | 2 schedulers, a direct caller, 2 operators, interval 2, clock 0..5, set back by 1 | the interval, deliveries, counters, replays |
| `slack` | 2 adapters, 5 starts, 5 registries, 3 events that share an operation or a message id | at most one post, receipts for the right envelope |

**Bounds.** Lanes share no state in the journal, so one lane is enough for it;
two lanes meet in the message ids only. Three batches allow a claim, its
replacement and a third that builds on the second; two shas let a head change
and change back; a clock of two ticks and leases of one let a lease end and the
next begin. In `sql` the constraint `Workload` keeps these two questions apart:
one lane with everything that can happen to it, or two without a head, with one
target and one cut, which is what a collision of ids needs. In the ledger an
assignment returns to a state it has left after three events (RUNNING,
HANDED_OFF, RUNNING); nine reach that with a snapshot held across it, and an
interrupted pause, its recovery, a confirmation and a receipt. As long as both
assignments are in use the log is bounded by `MaxShared`, four: creation of
both, a step and a supersession across them. For an append, two commits are a
message with its competitor, its retry or its successor, and every failure of an
update needs one that it competes with; three commits on one branch were checked
too. For the reconciler, a second run brings every older or newer checkout, a
fork at the anchor brings every disposition, two control commits let a run take
the cut back, and two faults let a branch be rewritten there and back, or a run
stall while another dies, where a second control commit takes the place of one
fault (`Moderate`); three tokens are a claim of each run and one of a run
that is gone. Liveness needs the first lane in each of its ways to end the loop,
and one fault there. Two moves take an identity to another branch and back. In
the runtime four admissions fill a queue of two, evict, and retry a payload; a
window of one within a clock of three has a reading inside, on and beyond its
edge, and one failed increment is enough to interrupt a call at each of its
counters. In `planes` a chain of three whose ages run against it needs the loop
three times, the fourth message forks, rebinds, collides, is a second root or is
refused, and the fifth replies; 108 corpora are all their combinations. In `workstation` the user moves three times
around one call, which is what it takes to send to a wrong place, or once or
twice around two calls; an acknowledgement takes the place of a move and is
written when it is read, because one that nobody reads changes nothing
(`MCNext`). One is enough: a run reads one, whichever it is. In `heartbeat` the initial states choose what may
happen: operators, counted letters, or kills; three heartbeats fit into the
clock, and one second set back is enough for every comparison. In `slack` the
alias moves from one endpoint to another, is claimed by both, or equals an id.
Deadlock is checked in `planes`, where a call is always possible or goes on. It
is off in the others: each is bounded (`BatchId`, `MaxTime`,
`MaxEvents`, `Commit`, `MaxOffered`, `MaxStarts`) and stops there, or,
for `TrustedProjection`, may be left with nothing to do. For the provider,
`NoLockCycle` says what deadlock checking would.

**Symmetry** is used where constants are only compared for equality, and in
no run with a liveness property.

**Fairness** is assumed by `projection_lanes` only. `SF(BeginScheduled)`: the
schedule keeps firing, and workflow runs do not take every slot for good.
`WF(Step(r))`: a job that is not killed makes its next call. `WF(Serve)`: the
edge function serves the requests it has. `WF(Expire(l))`: time passes. Deaths,
stalls and rewritten branches are bounded by `MaxFaults`; no fairness is assumed
of writers, operators or the control branch. `CatchesUp` asks for the lanes in
front too: they share the loop, and the first error ends it.

### 3.1 Findings

* `journal_replay`: the reference journal answers a repeated finalize from its
  record although the lane has moved on; the protocol document, and the
  provider's function, refuse it.

### 3.2 Observations

What the models showed on the way and no run is kept for; each is visible as an
exception that a property makes, or as a step a module allows.

* Runtime: an increment that raises after the push of an urgent envelope
  (`runtime.py:144`) leaves it queued; the next urgent admission dispatches it in
  place of its own. `UrgentIsServedUnlessCountingFails` names the exception.
* Append: between the last control read and the ref update
  (`safe_lane_append.py:434`) an identity may be moved, and two messages of one id
  be published on its two branches (`docs/protocol/PROTOCOL_V2.md:49`).
* Heartbeat: of two schedulers on one database the one that read its clock first
  and claims second raises `HEARTBEAT_CLOCK_REGRESSION` (`telemetry.py:217`), which
  ends its `run_forever`. `RefusedOnlyIfOvertaken` names the cases. A store that
  fails ends it too, and a mark that fails leaves a delivered heartbeat pending.
* Reconciler: after a branch was taken back behind its cursor, a run whose checkout
  does not hold the cursor's commit ends with `GIT_ANCESTRY_CHECK_FAILED`
  (`trusted_reconciler.py:93`), and so does every run for the lanes behind it,
  although `derive_target` has a disposition for that lane. `CatchesUp` excepts it.
* Workstation: two relays may share a composer, so that the key of one sends the
  draft of the other; the row and the receipt stay honest. Three moves of the
  user send a message to another conversation (`WrongPlaceTakesThreeMoves`). The
  readback may find the text in the composer itself
  (`windows_firefox_target.py:477`), so `rendered` is not evidence of a message.
  `ACK_VERIFIED` is evidence of a text, not of a speaker: the protocol says so, and
  in the model a row gets it from a text that nobody in the conversation wrote.
  `SOURCE_BUS_UNVERIFIED` is written before the send and after it: the state
  alone does not tell whether there was one; the transitions do.
* Slack: an adapter that dies, or whose post fails, after its claim leaves a row
  without a timestamp, and that message is never posted again.
* Planes: a message whose assignee is registered after it is refused for good,
  with all that follows it; of two messages that fork an assignment the first to
  arrive wins, while a rebuild prefers the older one, and a later collision makes
  a reply ambiguous whose acknowledgement stays, although the observation says
  `no_read_acknowledgement_emitted` (`20260903000603:170`). The conditions of
  `RebuildAgreesUnlessTold` and `AcknowledgementsRestOnReplies` name these.
* Ledger: an event's predecessor is compared twice, in the validation trigger and
  in the projection guard; either comparison alone keeps the log one chain.

## 4. Proofs

`ProjectionJournalProofs` proves the four properties of the run `journal` for
any constants that satisfy the assumptions of the module, and `TypeOK` and
`CurrentClaimHasCurrentBase`, which no run needs to repeat. Types first; then
`SafetyInv`, the conjunction of the chain of heads, the completeness of
finalized batches and `CurrentClaimHasCurrentBase`. The last is what makes the
chain inductive: a finalize appends a batch whose base is the head, because the
head moves only when the active claim goes away. `LeaseIsExclusive` needs only
that callers never read a time ahead of the clock.

`LedgerProofs` proves the five properties of the run `ledger`, the types, and
that the context columns are the way back (`ContextIsWayBack`). `RuleShape`
lists what the rule set implies for each context action; `ContextInv` joins the
context columns with the CHECK constraints and with what snapshots may hold;
from it follow the way back, that the trigger is the only one to refuse, and
the refinement of `AssignmentLifecycle` (`AppliedStep` maps each kind of rule
to its abstract action).

`SlackRelayProofs` proves both properties of the run `slack`, for any number of
adapters, starts, events and registries, from the assumption that an event
names an operation and a message and that the sentinel is none of them. After
the types, every step is shown to be of one of four kinds (an event parsed, an
envelope claimed, a post, a timestamp recorded or nothing), and each part of
`SafetyInv` to survive the four. Its core: an adapter at a post holds the only
claim of its operation (`ClaimsArePostedOnce`), which is inductive only with
`PostsAreClaimed` (the row of every envelope in work or in the channel has its
digest, so a claim cannot be made again) and `RowsAreClaims` (two operations
have different messages). Receipts follow from `TimestampsArePosts`.

`ProviderProofs` proves all properties of the run `sql`, for any
number of transactions, lanes, batches and messages. `LockInv` says what a held
lock protects: the copies of rows that a call made under its locks are still the
rows (`LockedReadsAreCurrent`). It is inductive because every write is made by
the owner of the row's lock (`OwnerInv`: who owns a lock is running and past that
lock), and with `CallInv`, which ties a call's batch to its lane. `NoLockCycle`
follows from `OwnerInv` by rank: who is waited for is further on in the order
lane, batch, message; this rests on `LocksAreDistinct` (locks of two tables and
advisory locks are never one). `FileInv` and `StoreInv` say that the
content of a successful file is stored under one of its two ids, and that exactly
one file has stored each content.
`Implementation` is the refinement of `ProjectionJournal`: one lemma for each
body that commits, with the claimed batch of a lane as its active one
(`OneClaim`), and every other step a stutter.

`ProviderProofs` also proves three of the four properties of the run `planes`, and
`PlanesTypeOK`, for any corpus of finitely many files. `LoopInv` holds at every
step of the loop, not only between transactions. `ChainIn` says that each event
names the one before it; recording one keeps this because `Applies` asks for the
current event, which is the last. `SettledIn` is the core: as long as a pass has
recorded nothing, nothing is left to do for the messages behind it, since a
conflict that is noted changes nothing for the others (`OneMessage`); when such a
pass ends nothing is left to do at all, which is why the loop may stop there, and
what has no event then is in conflict or waits (`TheEnd`). `ConflictsIn` says that
a conflict is never resolved (the chain only grows beyond the predecessor it
names), so a message in conflict has no event and none of this is lost when
messages are added (`Growth`): a stored reference is never given to another file.
`AcksIn` gives the acknowledgements that rest on one reply different references
of it. A new one takes a reference that means its message alone, and no older one
can have that reference, as it would have acknowledged the same message for the
same identity (`MoreAcks`); that bounds them by the number of references.

`TrustedProjectionProofs` proves the safety of the run `projection`: nothing
behind a cursor is missing or repeats an id, and cursors move forward. The core
is that validity composes: a range that is derived and validated from the cursor
and the range from the anchor to the cursor make one valid range (`CursorInv`). That an id is new is asked of the
ancestors of each commit; two commits of the joined range could share one if
neither were an ancestor of the other, and it is `LinesJoinInMerges` (two lines
of a Git history come together only in a commit with two parents) with the
refusal of merges that excludes this. `ClaimInv` says that what a current claim
does not hold as pending is stored, and that its range was derived, whoever
claimed it and however late its requests are served; `RunInv` says it of a run
that is about to claim.

`LaneAppendProofs` proves all properties of the run `append`, for any number of
writers, branches, moves and commits. All steps are of nine kinds
(`Kinds`), and each part of the invariant survives the nine. `CallsInv` says
what a call knows in each phase and that no two calls hold one commit;
`InflightInv` that a request whose answer was lost still carries a message that
fits its branch if the head is its parent; `VerdictInv` that a commit reported
as not written is neither published nor in flight with a parent that is still the
head, and as lanes only grow it never will be. `LaneIsOneThread` needs `RankInv`:
the ids can be numbered in the order of their first publication, and a message's
predecessor comes before it, so that a chain of predecessors has no cycle and an
id that was published is never one whose predecessor is the tip again.

`WorkstationRelayProofs` proves all properties of the run `workstation`, for any
number of processes, envelopes, tabs, conversations and starts. `DraftInv` is the
core of `SentAtMostOnce`: a text is in one composer or in one message and never
in both, and while it is, its row exists and no owner of that row is on its way
to write it again (`Out`). That takes `OneOwner` (a row has one process) and
`OwnInv` (from the second verification on the row says that Enter may have been
pressed). `PressInv` carries this to what callers are told. `Acknowledged` ties ACK_VERIFIED to
an acknowledgement of the row's own envelope: rows keep their envelope, and
`Parsed` takes no other. `MovedInv` counts
what a move of the user can have done at each step of a process; three moves are
needed to pass both verifications and end elsewhere.

`RadarHostProofs` proves all properties of the run `heartbeat`, for any number of
schedulers, operators, any interval and any bound on the clock. `TimesInv` says
that rows ascend in time, so that the last row is the latest, which the code
asks the table for; with the facts about whole intervals (`WholeIntervals`) a new
row keeps the interval. `WorkInv` says that a scheduler between claim and mark
holds its own pending row and that its effects are what the step says; therefore
a mark never finds a row that is final. `ReadingInv` says that a reading is as
late as every row unless the clock was set back or another claimed since:
`RefusedOnlyIfOvertaken` follows. `LettersInv` says that what was replayed stays
replayed, which is why a second `mark_replay` is refused whatever the lists hold.

`RadarHostProofs` also proves the four properties of the run `runtime`, for any
number of threads, envelopes and keys, any priorities, queue size and window.
`LockInv`: one call at a time, and what it took from the queue is in its hand.
`Accounted` is inductive with it (a dead letter's row comes before its count, and
`letterDue` holds the difference): an insert at `Place` adds one entry, an
overflow moves the last one to the call that counts it, a pop takes the first.
`UrgentInv` follows an urgent envelope from its push to its dispatch: as long as
no increment raised, the queue holds at most this one, at its head, which is where
`Place` puts it, because every other entry has a later priority
(`UrgentGoesFirst`). `WindowInv` relates the window to the times of the pushes: a
key is in it since its last push, or for the call that is about to push it, and
a key that was pruned was pushed more than a window ago.

All these theorems rest on the named assumptions of their modules, which TLC
evaluates on every run, and on no others. The invariants were checked by TLC on
the runs' instances before they were proved.

**Only model-checked.** `RebuildAgreesUnlessTold` compares the events with those
of a rebuild, which is a fold over the messages in each of its passes; what a fold
computes needs induction over data, which the prover does not do. Liveness
(`CatchesUp`) is beyond it too, and the finding of `journal_replay` is a
counterexample.

## 5. Not modelled

Authentication and transport (OIDC verification, REST clients), parsers and
validators of documents (`envelope.py`, `message_grammar.py`, `model.py`; the
control documents of `writer_lanes.py`), pure comparisons (`reconcile.py`), the
visual projection, operator views, the view of closed threads and privilege
migrations: they keep no state of their own, or only reshape data. The registry
and the dependency graph have state, in one process and under one lock; they
are planned. PROJECT.json gives the reason for each.

## 6. Plan

1. `DependencyGraph` and `Registry`, and the burn of request ids at the edge.
2. The order in which a rebuild and the arrivals may differ, stated step by step
   instead of by a fold, so that `RebuildAgreesUnlessTold` can be proved.
