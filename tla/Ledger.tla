------------------------------- MODULE Ledger -------------------------------
(***************************************************************************)
(* The SQLite assignment ledger: src/chat_bus/ledger.py over the triggers  *)
(* and constraints of src/chat_bus/schema.sql.                             *)
(*                                                                         *)
(* apply_transition reads the assignment outside the transaction that      *)
(* inserts the event, so a client works from a snapshot that other clients *)
(* may have made stale.  The insert fires the validation trigger, then the *)
(* trigger that moves the projection, whose update fires the projection    *)
(* guard and the CHECK constraints; if any of them aborts, nothing is      *)
(* written and the client gets a LedgerError.                              *)
(***************************************************************************)
EXTENDS Naturals, Sequences

CONSTANTS
    Assignment,  \* assignment ids
    Client,      \* processes with a connection of their own
    MaxEvents,   \* bound on the transition log of one assignment
    MaxShared,   \* bound on the log that several assignments share
    None         \* no receipt; no call in progress

Null == "NULL"
Paused == "PAUSED_USAGE_EXHAUSTED"
Suspendable == {"ACKNOWLEDGED", "RUNNING", "REVIEW_PENDING"}
Terminal == {"STOPPED", "CONFIRMED", "SUPERSEDED"}
\* Faulty variant: a confirmed assignment can be stopped.
StoppableAlsoConfirmed == Suspendable \cup
    {"DRAFTED", "ASSIGNED", "HANDED_OFF", "CHANGES_REQUESTED", Paused, "INTERRUPTED",
     "CONFIRMED"}
Stoppable == Suspendable \cup
    {"DRAFTED", "ASSIGNED", "HANDED_OFF", "CHANGES_REQUESTED", Paused, "INTERRUPTED"}
State == Stoppable \cup Terminal
Mode == {"NATIVE_MULTI_AGENT", "FALLBACK_COORDINATOR_RELAY"}
Context == {"NONE", "SET_PAUSE", "RESUME_PAUSE", "SET_INTERRUPT",
            "SET_INTERRUPT_FROM_PAUSE", "RECOVER_INTERRUPT", "CLEAR_CONTEXT",
            "SUPERSEDE"}

\* A row of transition_rules.  The actor column only decides who may call and
\* is left out; context_action and the states identify the rule.
Edge(from, to, context) == [from |-> from, to |-> to, context |-> context]

\* The seeded transition_rules.
Rules ==
    {Edge("DRAFTED", "ASSIGNED", "NONE"),
     Edge("ASSIGNED", "ACKNOWLEDGED", "NONE"),
     Edge("ACKNOWLEDGED", "RUNNING", "NONE"),
     Edge("RUNNING", "REVIEW_PENDING", "NONE"),
     Edge("REVIEW_PENDING", "CONFIRMED", "CLEAR_CONTEXT"),
     Edge("REVIEW_PENDING", "CHANGES_REQUESTED", "CLEAR_CONTEXT"),
     Edge("CHANGES_REQUESTED", "RUNNING", "CLEAR_CONTEXT"),
     Edge("RUNNING", "HANDED_OFF", "NONE"),
     Edge("HANDED_OFF", "RUNNING", "NONE"),
     Edge(Paused, "INTERRUPTED", "SET_INTERRUPT_FROM_PAUSE"),
     Edge("INTERRUPTED", Paused, "RECOVER_INTERRUPT"),
     Edge("DRAFTED", "SUPERSEDED", "SUPERSEDE")}
    \cup {Edge(s, Paused, "SET_PAUSE") : s \in Suspendable}
    \cup {Edge(Paused, s, "RESUME_PAUSE") : s \in Suspendable}
    \cup {Edge(s, "INTERRUPTED", "SET_INTERRUPT") : s \in Suspendable}
    \cup {Edge("INTERRUPTED", s, "RECOVER_INTERRUPT") : s \in Suspendable}
    \cup {Edge(s, "STOPPED", "CLEAR_CONTEXT") : s \in Stoppable}

VARIABLES
    row,      \* the assignments table; state "ABSENT": no such row
    events,   \* the transition_events table; event_id is the index
    receipt,  \* the final_acceptance_receipts table; None: no receipt
    snapshot  \* per client, the row apply_transition read; None: no call

vars == <<row, events, receipt, snapshot>>

Row == [state : State \cup {"ABSENT"}, head : Nat, mode : Mode,
        prePause : State \cup {Null}, preInterrupt : State \cup {Null},
        nestedPause : State \cup {Null}, supersededBy : Assignment \cup {Null}]
Event == [assignment : Assignment, rule : Rules, pred : Nat, op : Nat,
          target : Assignment \cup {Null}]
Snapshot == [assignment : Assignment, state : State, head : Nat]
Receipt == [mode : Mode, disposition : {"PASS", "FAIL"}, readback : BOOLEAN]

ASSUME BoundsAreNats == MaxEvents \in Nat /\ MaxShared \in Nat
ASSUME DistinctSentinels ==
    None \notin Receipt /\ None \notin Snapshot /\ Null \notin Assignment

\* head = 0 stands for current_transition_event_id IS NULL.
Draft(mode) == [state |-> "DRAFTED", head |-> 0, mode |-> mode, prePause |-> Null,
                preInterrupt |-> Null, nestedPause |-> Null, supersededBy |-> Null]

Exists(a) == row[a].state # "ABSENT"

Init ==
    /\ row = [a \in Assignment |->
                 [Draft("NATIVE_MULTI_AGENT") EXCEPT !.state = "ABSENT"]]
    /\ events = <<>>
    /\ receipt = [a \in Assignment |-> None]
    /\ snapshot = [c \in Client |-> None]

-----------------------------------------------------------------------------

\* Faulty variant: creating an assignment that exists starts it afresh.
CreateAssignmentAgain(a, mode) ==
    /\ row' = [row EXCEPT ![a] = Draft(mode)]
    /\ UNCHANGED <<events, receipt, snapshot>>

CreateAssignment(a, mode) ==
    /\ ~Exists(a)
    /\ (\E b \in Assignment : Exists(b)) => Len(events) < MaxShared
    /\ row' = [row EXCEPT ![a] = Draft(mode)]
    /\ UNCHANGED <<events, receipt, snapshot>>

\* inspect, called by apply_transition before its transaction begins.
ReadSnapshot(c, a) ==
    /\ snapshot[c] = None
    /\ Exists(a)
    /\ snapshot' = [snapshot EXCEPT ![c] =
                        [assignment |-> a, state |-> row[a].state, head |-> row[a].head]]
    /\ UNCHANGED <<row, events, receipt>>

\* An operation id is an opaque string: 1 up to the length of the log covers
\* every id in use, one more stands for any fresh id.
Operations == 1..(Len(events) + 1)

\* UNIQUE (assignment_id, operation_id)
OperationIsNew(a, op) ==
    \A i \in 1..Len(events) : events[i].assignment = a => events[i].op # op

\* ILLEGAL_TRANSITION and STALE_PREDECESSOR
SnapshotHolds(s) ==
    /\ row[s.assignment].state = s.state
    /\ row[s.assignment].head = s.head

\* Faulty variant: the target of a resume is not compared.
AnyContextTarget(a, rule) == TRUE

\* PAUSE_RESUME_TARGET_MISMATCH and INTERRUPT_RECOVERY_TARGET_MISMATCH.  The
\* comparison with a NULL column is NULL in SQL and does not abort.
ContextTargetHolds(a, rule) ==
    /\ rule.context = "RESUME_PAUSE" => row[a].prePause \in {rule.to, Null}
    /\ rule.context = "RECOVER_INTERRUPT" => row[a].preInterrupt \in {rule.to, Null}

\* transition_event_validate_before_insert
Validate(s, rule, target) ==
    /\ SnapshotHolds(s)
    /\ rule.from = s.state
    /\ IF rule.context = "SUPERSEDE"
       THEN target \in Assignment \ {s.assignment} /\ Exists(target)
       ELSE target = Null
    /\ ContextTargetHolds(s.assignment, rule)

\* Faulty variant: an interrupted pause forgets where the pause began.
AppliedWithoutNesting(old, rule, target, id) ==
    [old EXCEPT
        !.state = rule.to, !.head = id,
        !.prePause = CASE rule.context = "SET_PAUSE" -> rule.from
                       [] rule.context = "RECOVER_INTERRUPT" /\ old.preInterrupt = Paused
                            -> old.prePause
                       [] OTHER -> Null,
        !.preInterrupt = CASE rule.context = "SET_INTERRUPT" -> rule.from
                           [] rule.context = "SET_INTERRUPT_FROM_PAUSE" -> Paused
                           [] OTHER -> Null,
        !.nestedPause = Null]

\* The row that transition_apply_after_insert writes for event id.
Applied(old, rule, target, id) ==
    [old EXCEPT
        !.state = rule.to, !.head = id,
        !.prePause = CASE rule.context = "SET_PAUSE" -> rule.from
                       [] rule.context = "RECOVER_INTERRUPT" /\ old.preInterrupt = Paused
                            -> old.nestedPause
                       [] OTHER -> Null,
        !.preInterrupt = CASE rule.context = "SET_INTERRUPT" -> rule.from
                           [] rule.context = "SET_INTERRUPT_FROM_PAUSE" -> Paused
                           [] OTHER -> Null,
        !.nestedPause = IF rule.context = "SET_INTERRUPT_FROM_PAUSE"
                        THEN old.prePause ELSE Null,
        !.supersededBy = IF rule.context = "SUPERSEDE" THEN target ELSE @]

\* The CHECK constraints of assignments.
Checks(r) ==
    /\ (r.state = Paused) <=> (r.prePause # Null)
    /\ (r.state = "INTERRUPTED") <=> (r.preInterrupt # Null)
    /\ r.nestedPause # Null => r.state = "INTERRUPTED" /\ r.preInterrupt = Paused
    /\ r.supersededBy # Null => r.state = "SUPERSEDED"

\* Faulty variant: the predecessor of the event is not compared.
BoundToAnyEvent(log, a, old, new) ==
    \E i \in 1..Len(log) :
        i = new.head /\ log[i].assignment = a
        /\ log[i].rule.from = old.state /\ log[i].rule.to = new.state

\* assignment_projection_guard_before_update, against the given log.
Bound(log, a, old, new) ==
    \E i \in 1..Len(log) :
        /\ i = new.head
        /\ log[i].assignment = a
        /\ log[i].pred = old.head
        /\ log[i].rule.from = old.state
        /\ log[i].rule.to = new.state
        /\ \/ new.supersededBy = old.supersededBy
           \/ log[i].rule.context = "SUPERSEDE" /\ new.supersededBy = log[i].target

LogBound ==
    IF \E a, b \in Assignment : a # b /\ Exists(a) /\ Exists(b)
    THEN MaxShared ELSE MaxEvents

\* The transaction of apply_transition, for the snapshot the client holds.
ApplyTransition(c, rule, op, target) ==
    /\ snapshot[c] # None
    /\ Len(events) < LogBound
    /\ LET s == snapshot[c]
           a == s.assignment
           log == Append(events, [assignment |-> a, rule |-> rule, pred |-> s.head,
                                  op |-> op, target |-> target])
           new == Applied(row[a], rule, target, Len(log))
       IN  /\ Validate(s, rule, target)
           /\ OperationIsNew(a, op)
           /\ Bound(log, a, row[a], new)
           /\ Checks(new)
           /\ events' = log
           /\ row' = [row EXCEPT ![a] = new]
    /\ snapshot' = [snapshot EXCEPT ![c] = None]
    /\ UNCHANGED receipt

\* The call raises LedgerError and its transaction is rolled back, or the
\* client dies with it.
Abandon(c) ==
    /\ snapshot[c] # None
    /\ snapshot' = [snapshot EXCEPT ![c] = None]
    /\ UNCHANGED <<row, events, receipt>>

\* record_final_acceptance
AcceptanceIsValid(a, r) ==
    /\ row[a].state = "CONFIRMED"
    /\ row[a].mode = r.mode
    /\ r.disposition = "PASS" => r.readback

RecordFinalAcceptance(a, r) ==
    /\ receipt[a] = None
    /\ AcceptanceIsValid(a, r)
    /\ receipt' = [receipt EXCEPT ![a] = r]
    /\ UNCHANGED <<row, events, snapshot>>

Next ==
    \/ \E a \in Assignment, m \in Mode : CreateAssignment(a, m)
    \/ \E c \in Client, a \in Assignment : ReadSnapshot(c, a)
    \/ \E c \in Client, rule \in Rules, op \in Operations,
          target \in Assignment \cup {Null} : ApplyTransition(c, rule, op, target)
    \/ \E c \in Client : Abandon(c)
    \/ \E a \in Assignment, r \in Receipt : RecordFinalAcceptance(a, r)

Spec == Init /\ [][Next]_vars

-----------------------------------------------------------------------------

TypeOK ==
    /\ row \in [Assignment -> Row]
    /\ events \in Seq(Event)
    /\ receipt \in [Assignment -> Receipt \cup {None}]
    /\ snapshot \in [Client -> Snapshot \cup {None}]

StateAfter(i) == IF i = 0 THEN "DRAFTED" ELSE events[i].rule.to

\* p is the last event of a before event i, or 0 if there is none.
IsLastBefore(p, a, i) ==
    /\ p \in 0..(i - 1)
    /\ p # 0 => events[p].assignment = a
    /\ \A j \in (p + 1)..(i - 1) : events[j].assignment # a

\* The log of an assignment is one chain.  Two clients that apply transitions
\* from the same snapshot never both succeed, and a snapshot is refused even if
\* the assignment came back to the same state: every event names its immediate
\* predecessor, starts in the state that one left, and the projection stands at
\* the end of the chain.
LogIsOneChain ==
    \A a \in Assignment :
        /\ IsLastBefore(row[a].head, a, Len(events) + 1)
        /\ row[a].state \in {StateAfter(row[a].head), "ABSENT"}
        /\ row[a].state = "ABSENT" => row[a].head = 0
        /\ \A i \in 1..Len(events) : events[i].assignment = a =>
              /\ IsLastBefore(events[i].pred, a, i)
              /\ events[i].rule.from = StateAfter(events[i].pred)

\* The projection guard admits no update other than the one the transition
\* trigger makes in the transaction of its event: every event in the log has
\* been used up, whatever head, state or successor an update would write.
GuardAdmitsNoOtherUpdate ==
    \A a \in Assignment, h \in 0..Len(events), s \in State,
       t \in Assignment \cup {Null} :
        ~Bound(events, a, row[a],
               [row[a] EXCEPT !.head = h, !.state = s, !.supersededBy = t])

\* The context columns always say where suspended work was left, to a depth of
\* two: a pause inside an interruption keeps its own way back.
ContextIsWayBack ==
    \A a \in Assignment :
        CASE row[a].state = Paused ->
                /\ row[a].prePause \in Suspendable
                /\ row[a].preInterrupt = Null /\ row[a].nestedPause = Null
          [] row[a].state = "INTERRUPTED" ->
                /\ row[a].prePause = Null
                /\ \/ row[a].preInterrupt \in Suspendable /\ row[a].nestedPause = Null
                   \/ row[a].preInterrupt = Paused /\ row[a].nestedPause \in Suspendable
          [] OTHER ->
                /\ row[a].prePause = Null
                /\ row[a].preInterrupt = Null /\ row[a].nestedPause = Null

\* A transition the validation trigger accepts is never refused by the CHECK
\* constraints or by the projection guard: apply_transition fails for the
\* reasons the trigger names and for no other.
ValidTransitionsSucceed ==
    \A a \in Assignment, rule \in Rules, t \in Assignment \cup {Null} :
        LET s == [assignment |-> a, state |-> row[a].state, head |-> row[a].head]
            log == Append(events, [assignment |-> a, rule |-> rule, pred |-> s.head,
                                   op |-> 0, target |-> t])
            new == Applied(row[a], rule, t, Len(log))
        IN  Exists(a) /\ Validate(s, rule, t) =>
                Checks(new) /\ Bound(log, a, row[a], new)

\* A final acceptance receipt stays true: its assignment remains CONFIRMED in
\* the mode of the receipt whatever clients do after it was recorded.
ReceiptsStayTrue ==
    \A a \in Assignment : receipt[a] # None => AcceptanceIsValid(a, receipt[a])

\* The stack of places that the three context columns stand for.
WayBack(r) ==
    CASE r.state = Paused -> <<r.prePause>>
      [] r.state = "INTERRUPTED" /\ r.preInterrupt = Paused -> <<r.nestedPause, Paused>>
      [] r.state = "INTERRUPTED" /\ r.preInterrupt # Paused -> <<r.preInterrupt>>
      [] OTHER -> <<>>

Lifecycle == INSTANCE AssignmentLifecycle WITH
    phase <- [a \in Assignment |-> row[a].state],
    places <- [a \in Assignment |-> WayBack(row[a])]

\* The ledger implements the lifecycle: interrupted and paused work resumes
\* where it was left, also when the pause itself was interrupted.
ImplementsLifecycle == Lifecycle!Spec

=============================================================================
