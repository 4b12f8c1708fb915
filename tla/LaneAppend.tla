----------------------------- MODULE LaneAppend -----------------------------
(***************************************************************************)
(* Appending a message to the lane of one identity:                        *)
(* src/radar/safe_lane_append.py, reached through the branch check of      *)
(* src/radar/branch_bound_append.py.                                       *)
(*                                                                         *)
(* A call reads the control snapshot, the head of the lane and the history *)
(* of the identity, makes a commit on the head it was told to expect,      *)
(* reads the control snapshot again, asks for a fast-forward of the branch *)
(* and finds out what became of it.  Each of these is a step of its own:   *)
(* other callers append in between, the identity may be moved to another   *)
(* branch, requests time out and may still take effect later, and every    *)
(* read can fail.  What the caller is told is an effect state: APPENDED,   *)
(* PRESENT, NONE (NONE_ESTABLISHED) or UNKNOWN.                            *)
(***************************************************************************)
EXTENDS Naturals, Sequences

CONSTANTS
    Writer,     \* concurrent callers for the identity
    Branch,     \* branches the identity may be bound to
    Content,    \* message files
    Id,         \* message ids
    NoId,       \* no prev_message_id
    IdOf,       \* message_id of a content
    PrevOf,     \* prev_message_id of a content
    Undeclared, \* called without the branch check
    BranchOf,   \* writer_branch of a content
    Commit,     \* commits a call may create; finite, so it bounds the calls
    Genesis,    \* the commit a branch starts from
    NoCommit,   \* a commit that was not created
    Idle,       \* no call in progress
    MaxMoves    \* bound on topology changes

ASSUME MessagesParse ==
    /\ IdOf \in [Content -> Id]
    /\ PrevOf \in [Content -> Id \cup {NoId}]
    /\ BranchOf \in [Content -> Branch \cup {Undeclared}]

Parent == Commit \cup {Genesis}
Object == [parent : Parent, content : Content, branch : Branch]
Phase == {"head", "history", "objects", "control", "update", "reconcile", "verify",
          "receipt"}
Call == [phase : Phase, content : Content, expected : Parent, branch : Branch,
         observed : Parent, candidate : Commit \cup {NoCommit},
         reply : {"NONE", "MOVED", "REFUSED", "ERROR"}]
Verdict == {"OPEN", "APPENDED", "PRESENT", "NONE", "UNKNOWN"}

ASSUME DistinctSentinels ==
    /\ Genesis \notin Commit
    /\ NoCommit \notin Commit /\ NoCommit \notin Object
    /\ Idle \notin Call
    /\ NoId \notin Id
    /\ MaxMoves \in Nat

VARIABLES
    topology,   \* the branch the control snapshot binds the identity to
    moves,      \* how often the binding changed
    lane,       \* the messages of each branch, as commits, oldest first
    object,     \* the commits that exist
    inflight,   \* candidates whose ref update was sent and not answered
    call,       \* the calls in progress
    verdict     \* what callers were last told about a commit

vars == <<topology, moves, lane, object, inflight, call, verdict>>

\* Faulty variant: a branch without messages has no head.
HeadOrNone(b) == IF lane[b] = <<>> THEN NoCommit ELSE lane[b][Len(lane[b])]
HeadOf(b) == IF lane[b] = <<>> THEN Genesis ELSE lane[b][Len(lane[b])]
InLane(c, b) == \E i \in 1..Len(lane[b]) : lane[b][i] = c
Published == {c \in Commit : \E b \in Branch : InLane(c, b)}

\* read_identity: the messages of the identity on all its branches.  The tips
\* are those that no other message follows.
IdIn(c) == IdOf[object[c].content]
Same(x) == {c \in Published : IdIn(c) = IdOf[x]}
Tips == {IdIn(c) : c \in {d \in Published :
            \A e \in Published : PrevOf[object[e].content] # IdIn(d)}}

Init ==
    /\ topology \in Branch
    /\ moves = 0
    /\ lane = [b \in Branch |-> <<>>]
    /\ object = [c \in Commit |-> NoCommit]
    /\ inflight = {}
    /\ call = [w \in Writer |-> Idle]
    /\ verdict = [c \in Commit |-> "OPEN"]

-----------------------------------------------------------------------------

InPhase(w, phase) == call[w] # Idle /\ call[w].phase = phase
Enter(w, phase) == call' = [call EXCEPT ![w].phase = phase]

\* The control commit binds the identity to another branch.
MoveLane(b) ==
    /\ moves < MaxMoves
    /\ b # topology
    /\ topology' = b
    /\ moves' = moves + 1
    /\ UNCHANGED <<lane, object, inflight, call, verdict>>

\* Faulty variant: the branch the message declares is not looked at.
DeclaresAny(x, b) == TRUE

\* The snapshot binds the identity to the branch the message declares.
Declares(x, b) == BranchOf[x] \in {b, Undeclared}

\* append_bus_message_v1, up to the first control read.
Begin(w, x, expected) ==
    /\ call[w] = Idle
    /\ Declares(x, topology)
    /\ call' = [call EXCEPT ![w] =
                   [phase |-> "head", content |-> x, expected |-> expected,
                    branch |-> topology, observed |-> Genesis,
                    candidate |-> NoCommit, reply |-> "NONE"]]
    /\ UNCHANGED <<topology, moves, lane, object, inflight, verdict>>

ReadHead(w) ==
    /\ InPhase(w, "head")
    /\ call' = [call EXCEPT ![w].phase = "history",
                            ![w].observed = HeadOf(call[w].branch)]
    /\ UNCHANGED <<topology, moves, lane, object, inflight, verdict>>

\* Faulty variant: a caller that lost a race is not sent back.
PrecedesAnyHead(w) ==
    LET x == call[w].content IN
    Tips = IF PrevOf[x] = NoId THEN {} ELSE {PrevOf[x]}

\* STALE_LANE_HEAD and _validate_predecessor
Follows(w) ==
    LET x == call[w].content IN
    /\ call[w].observed = call[w].expected
    /\ Tips = IF PrevOf[x] = NoId THEN {} ELSE {PrevOf[x]}

\* The history holds no message of this id.
ReadHistory(w) ==
    /\ InPhase(w, "history")
    /\ Same(call[w].content) = {}
    /\ Follows(w)
    /\ Enter(w, "objects")
    /\ UNCHANGED <<topology, moves, lane, object, inflight, verdict>>

\* _reconstruct_existing: the message is there already, once and unchanged.
ReconstructExisting(w) ==
    /\ InPhase(w, "history")
    /\ \E c \in Commit :
          /\ Same(call[w].content) = {c}
          /\ object[c].content = call[w].content
          /\ call' = [call EXCEPT ![w].phase = "receipt", ![w].candidate = c]
    /\ UNCHANGED <<topology, moves, lane, object, inflight, verdict>>

\* _create_blob, _create_tree, _create_commit
CreateCandidate(w, c) ==
    /\ InPhase(w, "objects")
    /\ object[c] = NoCommit
    /\ object' = [object EXCEPT ![c] =
                     [parent |-> call[w].expected, content |-> call[w].content,
                      branch |-> call[w].branch]]
    /\ call' = [call EXCEPT ![w].phase = "control", ![w].candidate = c]
    /\ UNCHANGED <<topology, moves, lane, inflight, verdict>>

\* _read_control_before_ref, _same_binding
RereadControl(w) ==
    /\ InPhase(w, "control")
    /\ topology = call[w].branch
    /\ Enter(w, "update")
    /\ UNCHANGED <<topology, moves, lane, object, inflight, verdict>>

\* Any of the steps above raises: a check fails or a read does.
Refuse(w) ==
    /\ call[w] # Idle
    /\ call[w].phase \in {"head", "history", "objects", "control"}
    /\ call' = [call EXCEPT ![w] = Idle]
    /\ verdict' = IF call[w].candidate = NoCommit THEN verdict
                  ELSE [verdict EXCEPT ![call[w].candidate] = "NONE"]
    /\ UNCHANGED <<topology, moves, lane, object, inflight>>

\* The lane after a non-force update: the candidate's parent was the head once
\* and lanes only grow, so the update is a fast-forward if it still is.
Push(b, c) == IF HeadOf(b) = object[c].parent THEN Append(lane[b], c) ELSE lane[b]

\* update_ref_non_force is answered.
UpdateRef(w) ==
    /\ InPhase(w, "update")
    /\ LET c == call[w].candidate
           b == call[w].branch
           pushed == Push(b, c)
       IN  /\ lane' = [lane EXCEPT ![b] = pushed]
           /\ call' = [call EXCEPT ![w].phase = "reconcile",
                 ![w].reply = IF pushed # lane[b] THEN "MOVED" ELSE "REFUSED"]
    /\ UNCHANGED <<topology, moves, object, inflight, verdict>>

\* The update is refused for a reason of the server's own.
UpdateRefused(w) ==
    /\ InPhase(w, "update")
    /\ call' = [call EXCEPT ![w].phase = "reconcile", ![w].reply = "REFUSED"]
    /\ UNCHANGED <<topology, moves, lane, object, inflight, verdict>>

\* update_ref_non_force raises: the request may or may not arrive, and late.
UpdateRaises(w) ==
    /\ InPhase(w, "update")
    /\ inflight' = inflight \cup {call[w].candidate}
    /\ call' = [call EXCEPT ![w].phase = "reconcile", ![w].reply = "ERROR"]
    /\ UNCHANGED <<topology, moves, lane, object, verdict>>

\* A request that was given up takes effect.
LandLate(c) ==
    /\ c \in inflight
    /\ inflight' = inflight \ {c}
    /\ lane' = [lane EXCEPT ![object[c].branch] = Push(object[c].branch, c)]
    /\ UNCHANGED <<topology, moves, object, call, verdict>>

Conclude(w, v) ==
    /\ verdict' = [verdict EXCEPT ![call[w].candidate] = v]
    /\ call' = [call EXCEPT ![w] = Idle]
    /\ UNCHANGED <<topology, moves, lane, object, inflight>>

\* _move_ref_or_reconcile returns: the update succeeded or turns out to have.
ConfirmRef(w) ==
    /\ InPhase(w, "reconcile")
    /\ \/ call[w].reply = "MOVED"
       \/ HeadOf(call[w].branch) = call[w].candidate
    /\ Enter(w, "verify")
    /\ UNCHANGED <<topology, moves, lane, object, inflight, verdict>>

\* POSTWRITE_HEAD_MISMATCH: the update raised and others built on the candidate.
FindBuried(w) ==
    /\ InPhase(w, "reconcile")
    /\ call[w].reply = "ERROR"
    /\ HeadOf(call[w].branch) # call[w].candidate
    /\ InLane(call[w].candidate, call[w].branch)
    /\ Conclude(w, "PRESENT")

\* Faulty variant: not being in the lane is taken for proof.
AbsentNow(w) == ~InLane(call[w].candidate, call[w].branch)

\* REF_UPDATE_STALE and REF_UPDATE_REJECTED.  If the update raised, the candidate
\* can not land any more once the head has left its parent.
ProvenAbsent(w) ==
    IF call[w].reply = "ERROR"
    THEN /\ ~InLane(call[w].candidate, call[w].branch)
         /\ HeadOf(call[w].branch) # call[w].expected
    ELSE call[w].reply = "REFUSED" /\ HeadOf(call[w].branch) # call[w].candidate

FindAbsent(w) ==
    /\ InPhase(w, "reconcile")
    /\ ProvenAbsent(w)
    /\ Conclude(w, "NONE")

\* WRITE_OUTCOME_UNKNOWN: the head, or the reachability, can not be read, or the
\* head is where it was.
LeaveUnknown(w) ==
    /\ InPhase(w, "reconcile")
    /\ Conclude(w, "UNKNOWN")

\* _verify_new_append reads the head again ...
VerifyHead(w) ==
    /\ InPhase(w, "verify")
    /\ HeadOf(call[w].branch) = call[w].candidate
    /\ Enter(w, "receipt")
    /\ UNCHANGED <<topology, moves, lane, object, inflight, verdict>>

\* ... and the control snapshot, for the receipt.
Receipt(w) ==
    /\ InPhase(w, "receipt")
    /\ Declares(call[w].content, topology)
    /\ Conclude(w, "APPENDED")

\* The readback of an effect that is there fails or does not match.
Incomplete(w) ==
    /\ \/ InPhase(w, "verify")
       \/ InPhase(w, "receipt")
    /\ Conclude(w, "PRESENT")

\* The caller dies.  An update it was about to send may have been sent.
Crash(w) ==
    /\ call[w] # Idle
    /\ inflight' = IF call[w].phase = "update"
                   THEN inflight \cup {call[w].candidate} ELSE inflight
    /\ call' = [call EXCEPT ![w] = Idle]
    /\ UNCHANGED <<topology, moves, lane, object, verdict>>

Next ==
    \/ \E b \in Branch : MoveLane(b)
    \/ \E w \in Writer, x \in Content, e \in Parent : Begin(w, x, e)
    \/ \E w \in Writer : ReadHead(w)
    \/ \E w \in Writer : ReadHistory(w)
    \/ \E w \in Writer : ReconstructExisting(w)
    \/ \E w \in Writer, c \in Commit : CreateCandidate(w, c)
    \/ \E w \in Writer : RereadControl(w)
    \/ \E w \in Writer : Refuse(w)
    \/ \E w \in Writer : UpdateRef(w)
    \/ \E w \in Writer : UpdateRefused(w)
    \/ \E w \in Writer : UpdateRaises(w)
    \/ \E c \in Commit : LandLate(c)
    \/ \E w \in Writer : ConfirmRef(w)
    \/ \E w \in Writer : FindBuried(w)
    \/ \E w \in Writer : FindAbsent(w)
    \/ \E w \in Writer : LeaveUnknown(w)
    \/ \E w \in Writer : VerifyHead(w)
    \/ \E w \in Writer : Receipt(w)
    \/ \E w \in Writer : Incomplete(w)
    \/ \E w \in Writer : Crash(w)

Spec == Init /\ [][Next]_vars

-----------------------------------------------------------------------------

TypeOK ==
    /\ topology \in Branch
    /\ moves \in Nat
    /\ lane \in [Branch -> Seq(Commit)]
    /\ object \in [Commit -> Object \cup {NoCommit}]
    /\ inflight \subseteq Commit
    /\ call \in [Writer -> Call \cup {Idle}]
    /\ verdict \in [Commit -> Verdict]

\* effect_state is true for good: what a caller was told is not in the lane never
\* appears there, not even when a request that timed out arrives after all, and
\* what it was told is there is never lost to another writer's update.
EffectStateHolds ==
    \A c \in Commit :
        /\ verdict[c] = "NONE" => c \notin Published
        /\ verdict[c] \in {"APPENDED", "PRESENT"} => c \in Published

\* A lane is one thread: no message id occurs twice in it, and no two messages
\* name the same predecessor, whoever retries what with which expected head; and
\* every predecessor was published, on this lane or an earlier one.
LaneIsOneThread ==
    \A b \in Branch : \A i \in 1..Len(lane[b]) :
        LET prev == PrevOf[object[lane[b][i]].content] IN
        /\ \A j \in 1..Len(lane[b]) \ {i} :
               /\ IdIn(lane[b][i]) # IdIn(lane[b][j])
               /\ prev # PrevOf[object[lane[b][j]].content]
        /\ prev # NoId => \E c \in Published : c # lane[b][i] /\ IdIn(c) = prev

\* An exact retry of a branch-checked message lands once, although the identity is
\* moved to another branch between the attempts and the first one arrives late.
RetriesLandOnce ==
    \A c, d \in Published :
        object[c].content = object[d].content /\ BranchOf[object[c].content] # Undeclared
            => c = d
=============================================================================
