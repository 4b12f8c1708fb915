------------------------ MODULE SqlProjectionJournal ------------------------
(***************************************************************************)
(* The provider's journal: the functions of                                *)
(* 20260906154101_radar_projection_journal_v1.sql as the migration         *)
(* 20260908010500_radar_projection_atomic_file_v1.sql left them, with the  *)
(* message projection they call (20260902231445_...).                      *)
(*                                                                         *)
(* A call is one transaction at READ COMMITTED.  It takes its row locks    *)
(* one statement at a time, waits for those that another transaction       *)
(* holds, and works from the rows it read when it got them; now() is the   *)
(* time the transaction began, however long it waited.  An exception or a  *)
(* lost connection rolls it back.  A call made of one locking statement    *)
(* is one step.                                                            *)
(***************************************************************************)
EXTENDS Naturals, Sequences

CONSTANTS
    Lane, Sha, NoHead, Unseeded, Cut, NoCut, Path, BatchId, NoBatch, NoClaim,
    Lease, MaxTime,  \* as in ProjectionJournal
    Txn,        \* transactions that may run at the same time
    Idle,       \* no transaction is running; nobody holds a lock
    MsgId,      \* message ids the lane files declare
    Content,    \* contents of lane files, by hash
    NoContent,  \* no row under a message id
    IdOf,       \* the message id each content declares
    Carries     \* per lane and path, the content of the file

Base == Sha \cup {NoHead}
Claim == [lane : Lane, expected : Base, target : Sha, cut : Cut, lease : Nat]
LaneRow == [head : Base, cut : Cut \cup {NoCut}]

ASSUME DistinctSentinels ==
    /\ NoHead \notin Sha
    /\ Unseeded \notin Sha \cup {NoHead}
    /\ NoCut \notin Cut
    /\ NoBatch \notin BatchId
    /\ NoClaim \notin Claim
    /\ NoContent \notin Content
    /\ Idle \notin Txn
\* Row locks of two tables, and advisory locks.
ASSUME LocksAreDistinct ==
    Lane \cap BatchId = {} /\ (Lane \cup BatchId) \cap MsgId = {}
ASSUME FilesCarryMessages ==
    /\ IdOf \in [Content -> MsgId]
    /\ Carries \in [Lane -> [Path -> Content]]
ASSUME LeasesPositive == Lease \subseteq Nat \ {0} /\ MaxTime \in Nat

VARIABLES
    projected,  \* projection_lane_state.projected_head_sha; Unseeded: no row
    cut,        \* projection_lane_state.control_sha, topology_sha
    claim,      \* projection_batches, the columns a claim fixes
    status,     \* projection_batches.status; "FREE": no such batch yet
    files,      \* projection_batch_files.state
    plain,      \* messages stored under the id they declare
    qualified,  \* messages stored under a content-qualified id
    owner,      \* the transaction that holds each lock
    tx,         \* the running transactions
    clock,      \* the server's clock, in ticks
    answer,     \* the batch whose finalized lane a caller was last given
    seed,       \* history: the head each lane was seeded with
    history     \* history: per lane, the finalized batches in order

rows == <<projected, cut, claim, status, files, plain, qualified>>
vars == <<rows, owner, tx, clock, answer, seed, history>>

Success == {"PROJECTED", "IDEMPOTENT"}
Status == {"FREE", "CLAIMED", "COMPLETE", "STALE"}

\* Lane rows, batch rows, and the advisory locks of message ids.
Lock == Lane \cup BatchId \cup MsgId

\* A running call: what it was asked, when it began, how many locks it has
\* (step - 1), and the rows it read under them.
Call == [op : {"claim", "project", "finalize"}, lane : Lane,
         batch : BatchId \cup {NoBatch}, path : Path, now : Nat,
         step : 1..4,
         laneRow : LaneRow, status : Status, found : Content \cup {NoContent}]
ASSUME IdleIsNoCall == Idle \notin Call

\* Faulty variant: the order of the first migration.
OrderBeforeHardening(op) ==
    CASE op = "claim" -> <<"lane", "batch">>
      [] op = "project" -> <<"lane", "batch", "message">>
      [] op = "finalize" -> <<"batch", "lane">>

\* The order in which each function takes its locks.
Order(op) ==
    IF op = "project" THEN <<"lane", "batch", "message">> ELSE <<"lane", "batch">>

Running(t) == tx[t] # Idle
Holds(t, kind) == \E i \in 1..(tx[t].step - 1) : Order(tx[t].op)[i] = kind
AtLock(t, kind) ==
    /\ Running(t)
    /\ tx[t].step <= Len(Order(tx[t].op))
    /\ Order(tx[t].op)[tx[t].step] = kind
AtBody(t, op) ==
    Running(t) /\ tx[t].op = op /\ tx[t].step = Len(Order(op)) + 1
Claimed(l) == {b \in BatchId : status[b] = "CLAIMED" /\ claim[b].lane = l}

Init ==
    /\ projected = [l \in Lane |-> Unseeded]
    /\ cut = [l \in Lane |-> NoCut]
    /\ claim = [b \in BatchId |-> NoClaim]
    /\ status = [b \in BatchId |-> "FREE"]
    /\ files = [b \in BatchId |-> [p \in Path |-> "ABSENT"]]
    /\ plain = [m \in MsgId |-> NoContent]
    /\ qualified = {}
    /\ owner = [k \in Lock |-> Idle]
    /\ tx = [t \in Txn |-> Idle]
    /\ clock = 0
    /\ answer = NoBatch
    /\ seed = [l \in Lane |-> Unseeded]
    /\ history = [l \in Lane |-> <<>>]

-----------------------------------------------------------------------------

\* projection_seed_lane_v1: a second seed inserts nothing and returns the row or
\* raises.
SeedLane(l, h) ==
    /\ projected[l] = Unseeded
    /\ projected' = [projected EXCEPT ![l] = h]
    /\ seed' = [seed EXCEPT ![l] = h]
    /\ UNCHANGED <<cut, claim, status, files, plain, qualified, owner, tx, clock,
                   answer, history>>

\* projection_set_control_cut_v1: one UPDATE, which waits for the row lock.
SetControlCut(l, c) ==
    /\ projected[l] # Unseeded
    /\ owner[l] = Idle
    /\ cut' = [cut EXCEPT ![l] = c]
    /\ UNCHANGED <<projected, claim, status, files, plain, qualified, owner, tx,
                   clock, answer, seed, history>>

\* A call begins.  The calls on a batch first read the lane key of the batch.
Begin(t, op, l, b, p) ==
    /\ ~Running(t)
    /\ IF op = "claim" THEN b = NoBatch
                       ELSE b \in BatchId /\ status[b] # "FREE" /\ claim[b].lane = l
    /\ tx' = [tx EXCEPT ![t] =
                 [op |-> op, lane |-> l, batch |-> b, path |-> p, now |-> clock,
                  step |-> 1, laneRow |-> [head |-> NoHead, cut |-> NoCut],
                  status |-> "FREE", found |-> NoContent]]
    /\ UNCHANGED <<rows, owner, clock, answer, seed, history>>

\* Faulty variant: the lane is read without FOR UPDATE.
LaneIsFreeAnyway(t) == TRUE
LaneIsFree(t) == owner[tx[t].lane] = Idle

\* select ... from projection_lane_state for update
LockLane(t) ==
    /\ AtLock(t, "lane")
    /\ projected[tx[t].lane] # Unseeded
    /\ LaneIsFree(t)
    /\ owner' = [owner EXCEPT ![tx[t].lane] = t]
    /\ tx' = [tx EXCEPT ![t].step = @ + 1,
                        ![t].laneRow = [head |-> projected[tx[t].lane],
                                        cut |-> cut[tx[t].lane]]]
    /\ UNCHANGED <<rows, clock, answer, seed, history>>

\* select ... from projection_batches for update: the batch of the call, or
\* for a claim the CLAIMED batch of the lane, if there is one.
LockBatch(t, b) ==
    /\ AtLock(t, "batch")
    /\ IF tx[t].op # "claim" THEN b = tx[t].batch
       ELSE IF Claimed(tx[t].lane) = {} THEN b = NoBatch ELSE b \in Claimed(tx[t].lane)
    /\ b # NoBatch => owner[b] = Idle
    /\ owner' = IF b = NoBatch THEN owner ELSE [owner EXCEPT ![b] = t]
    /\ tx' = [tx EXCEPT ![t].step = @ + 1,
                        ![t].batch = b,
                        ![t].status = IF b = NoBatch THEN "FREE" ELSE status[b]]
    /\ UNCHANGED <<rows, clock, answer, seed, history>>

\* Faulty variant: the control cut is not compared again.
FencedByBaseOnly(t) ==
    LET c == tx[t] IN
    /\ c.status = "CLAIMED"
    /\ claim[c.batch].lease > c.now
    /\ c.laneRow.head = claim[c.batch].expected

\* The checks that project_file and finalize share, on the rows they locked.
Fenced(t) ==
    LET c == tx[t] IN
    /\ c.status = "CLAIMED"
    /\ claim[c.batch].lease > c.now
    /\ c.laneRow.head = claim[c.batch].expected
    /\ c.laneRow.cut = claim[c.batch].cut

FileOf(t) == files[tx[t].batch][tx[t].path]
Carried(t) == Carries[tx[t].lane][tx[t].path]

MessageIsFree(m) == owner[m] = Idle

\* project_bus_message_v1: pg_advisory_xact_lock, then the lookup.
LockMessage(t) ==
    /\ AtLock(t, "message")
    /\ Fenced(t) /\ FileOf(t) = "PENDING"
    /\ LET m == IdOf[Carried(t)] IN
          /\ MessageIsFree(m)
          /\ owner' = [owner EXCEPT ![m] = t]
          /\ tx' = [tx EXCEPT ![t].step = @ + 1, ![t].found = plain[m]]
    /\ UNCHANGED <<rows, clock, answer, seed, history>>

\* The end of a transaction: its locks are released with it.
End(t) ==
    /\ tx' = [tx EXCEPT ![t] = Idle]
    /\ owner' = [k \in Lock |-> IF owner[k] = t THEN Idle ELSE owner[k]]

\* An exception, or the connection is lost before the commit.
Abort(t) ==
    /\ Running(t)
    /\ End(t)
    /\ UNCHANGED <<rows, clock, answer, seed, history>>

\* projection_claim_batch_v1, once it holds the lane and the claimed batch.
ClaimBatch(t, target, c, paths, b, lease) ==
    /\ AtBody(t, "claim")
    /\ status[b] = "FREE"
    /\ tx[t].laneRow.cut = c
    /\ tx[t].status = "CLAIMED" => claim[tx[t].batch].lease <= tx[t].now
    /\ claim' = [claim EXCEPT ![b] =
                    [lane |-> tx[t].lane, expected |-> tx[t].laneRow.head,
                     target |-> target, cut |-> c, lease |-> tx[t].now + lease]]
    /\ status' = [x \in BatchId |-> IF x = b THEN "CLAIMED"
                                    ELSE IF x = tx[t].batch THEN "STALE" ELSE status[x]]
    /\ files' = [files EXCEPT ![b] =
                    [p \in Path |-> IF p \in paths THEN "PENDING" ELSE "ABSENT"]]
    /\ End(t)
    /\ UNCHANGED <<projected, cut, plain, qualified, clock, answer, seed, history>>

\* The id under which a content is stored when another one has its own.
Qualified(c) == <<IdOf[c], c>>

\* The insert of project_bus_message_v1.
Store(found, c) ==
    IF found = NoContent
    THEN plain' = [plain EXCEPT ![IdOf[c]] = c] /\ UNCHANGED qualified
    ELSE qualified' = qualified \cup {Qualified(c)} /\ UNCHANGED plain

\* Faulty variant: any message under the id counts as this one.
KnownById(found, c) == found # NoContent
\* The content is stored already, under the one id or the other.
Known(found, c) ==
    found = c \/ (found # NoContent /\ Qualified(c) \in qualified)

\* projection_project_file_v1, with project_bus_message_v1.  An insert under a
\* message id that is in use violates the primary key and raises.
ProjectFile(t) ==
    /\ AtBody(t, "project")
    /\ LET c == Carried(t)
           known == Known(tx[t].found, c)
       IN  /\ IF known THEN UNCHANGED <<plain, qualified>>
              ELSE /\ tx[t].found = NoContent => plain[IdOf[c]] = NoContent
                   /\ Store(tx[t].found, c)
           /\ files' = [files EXCEPT ![tx[t].batch][tx[t].path] =
                           IF known THEN "IDEMPOTENT" ELSE "PROJECTED"]
    /\ End(t)
    /\ UNCHANGED <<projected, cut, claim, status, clock, answer, seed, history>>

\* project_file of a file that has its result: the result is returned.
ProjectFileAgain(t) ==
    /\ AtLock(t, "message")
    /\ Fenced(t) /\ FileOf(t) \in Success
    /\ End(t)
    /\ UNCHANGED <<rows, clock, answer, seed, history>>

Resolved(b) == \A p \in Path : files[b][p] \in Success \cup {"ABSENT"}

\* projection_finalize_batch_v1
FinalizeBatch(t) ==
    /\ AtBody(t, "finalize")
    /\ Fenced(t)
    /\ Resolved(tx[t].batch)
    /\ LET b == tx[t].batch
           l == tx[t].lane
       IN  /\ projected' = [projected EXCEPT ![l] = claim[b].target]
           /\ status' = [status EXCEPT ![b] = "COMPLETE"]
           /\ history' = [history EXCEPT ![l] = Append(@, b)]
           /\ answer' = b
    /\ End(t)
    /\ UNCHANGED <<cut, claim, files, plain, qualified, clock, seed>>

CursorStillAtTarget(t) == tx[t].laneRow.head = claim[tx[t].batch].target

\* finalize of a COMPLETE batch
FinalizeAgain(t) ==
    /\ AtBody(t, "finalize")
    /\ tx[t].status = "COMPLETE"
    /\ CursorStillAtTarget(t)
    /\ answer' = tx[t].batch
    /\ End(t)
    /\ UNCHANGED <<rows, clock, seed, history>>

Tick ==
    /\ clock < MaxTime
    /\ clock' = clock + 1
    /\ UNCHANGED <<rows, owner, tx, answer, seed, history>>

Next ==
    \/ \E l \in Lane, h \in Base : SeedLane(l, h)
    \/ \E l \in Lane, c \in Cut : SetControlCut(l, c)
    \/ \E t \in Txn, op \in {"claim", "project", "finalize"}, l \in Lane,
          b \in BatchId \cup {NoBatch}, p \in Path : Begin(t, op, l, b, p)
    \/ \E t \in Txn : LockLane(t)
    \/ \E t \in Txn, b \in BatchId \cup {NoBatch} : LockBatch(t, b)
    \/ \E t \in Txn : LockMessage(t)
    \/ \E t \in Txn, target \in Sha, c \in Cut, ps \in SUBSET Path, b \in BatchId,
          lease \in Lease : ClaimBatch(t, target, c, ps, b, lease)
    \/ \E t \in Txn : ProjectFile(t)
    \/ \E t \in Txn : ProjectFileAgain(t)
    \/ \E t \in Txn : FinalizeBatch(t)
    \/ \E t \in Txn : FinalizeAgain(t)
    \/ \E t \in Txn : Abort(t)
    \/ Tick

Spec == Init /\ [][Next]_vars

\* The lock a call waits for next, if another call holds it.
WaitsFor(t, u) ==
    /\ u # t
    /\ \/ AtLock(t, "lane") /\ owner[tx[t].lane] = u
       \/ /\ AtLock(t, "batch")
          /\ \E b \in BatchId :
                owner[b] = u /\ b \in {tx[t].batch} \cup Claimed(tx[t].lane)
       \/ /\ AtLock(t, "message") /\ Fenced(t) /\ FileOf(t) = "PENDING"
          /\ owner[IdOf[Carried(t)]] = u

-----------------------------------------------------------------------------

\* What a call read under its locks is still true when it writes, although it
\* read it in earlier statements: the lane's cursor and control cut, the status
\* of the batch, and whether the message id is taken.
LockedReadsAreCurrent ==
    \A t \in Txn : Running(t) =>
        LET c == tx[t] IN
        /\ Holds(t, "lane") =>
              /\ owner[c.lane] = t
              /\ c.laneRow = [head |-> projected[c.lane], cut |-> cut[c.lane]]
        /\ Holds(t, "batch") =>
              IF c.batch = NoBatch THEN Claimed(c.lane) = {}
                                   ELSE c.status = status[c.batch]
        /\ Holds(t, "message") =>
              c.found = plain[IdOf[Carries[c.lane][c.path]]]

\* No two calls wait for one another: the order lane, batch, message is kept by
\* all of them, the reason the migration gives for replacing finalize_batch.
NoLockCycle == \A t, u \in Txn : ~(WaitsFor(t, u) /\ WaitsFor(u, t))

\* The contents that are stored.
Stored == {plain[m] : m \in MsgId} \cup {q[2] : q \in qualified}

\* Projection is exactly once, across batches that are claimed, abandoned and
\* claimed again, and across lanes: a file counts as successful only if its
\* content is stored, exactly one file has stored each content, and no content
\* is stored twice.
ExactlyOnceProjection ==
    /\ \A b \in BatchId, p \in Path :
          files[b][p] \in Success => Carries[claim[b].lane][p] \in Stored
    /\ \A c \in Content :
          LET by == {bp \in BatchId \X Path :
                        /\ files[bp[1]][bp[2]] = "PROJECTED"
                        /\ Carries[claim[bp[1]].lane][bp[2]] = c}
          IN  /\ \A x, y \in by : x = y
              /\ c \in Stored => by # {}
              /\ ~(plain[IdOf[c]] = c /\ Qualified(c) \in qualified)

\* What a call does fits the lane as it stands.  A message is stored only under a
\* claim on the lane's cursor and control cut, even if the call waited for its
\* locks past the lease; and a finalize that succeeds leaves the lane at the head
\* it answers, also when it is repeated (RADAR_PROJECTION_JOURNAL_V1.md, line 21).
CallsFitTheLane ==
    [][/\ (plain' # plain \/ qualified' # qualified) =>
              \E b \in BatchId :
                 /\ files'[b] # files[b]
                 /\ status[b] = "CLAIMED"
                 /\ projected[claim[b].lane] = claim[b].expected
                 /\ cut[claim[b].lane] = claim[b].cut
       /\ (answer' # answer) =>
              projected'[claim[answer'].lane] = claim[answer'].target]_vars

Journal == INSTANCE ProjectionJournal WITH
    complete <- {b \in BatchId : status[b] = "COMPLETE"},
    active <- [l \in Lane |-> IF Claimed(l) = {} THEN NoBatch
                              ELSE CHOOSE b \in Claimed(l) : TRUE]

\* The provider's functions, interleaved statement by statement, implement the
\* journal contract, in which every call is one step.
ImplementsJournal == Journal!Spec

=============================================================================
