------------------------ MODULE AssignmentLifecycle ------------------------
(***************************************************************************)
(* What the chat bus ledger promises about the life of an assignment.      *)
(*                                                                         *)
(* Work moves along the edges of WorkEdge.  It can be suspended, paused or *)
(* interrupted, and a pause can itself be interrupted; taking it up again  *)
(* always leads back to the place where it was left, so the places form a  *)
(* stack.  Stopping forgets them.                                          *)
(***************************************************************************)
EXTENDS Naturals, Sequences

CONSTANT Assignment

VARIABLES
    phase,  \* the state of each assignment; "ABSENT" before it is created
    places  \* the phases it was suspended in and will come back to

lifecycle == <<phase, places>>

Paused == "PAUSED_USAGE_EXHAUSTED"
Suspendable == {"ACKNOWLEDGED", "RUNNING", "REVIEW_PENDING"}
Terminal == {"STOPPED", "CONFIRMED", "SUPERSEDED"}
Stoppable == Suspendable \cup
    {"DRAFTED", "ASSIGNED", "HANDED_OFF", "CHANGES_REQUESTED", Paused, "INTERRUPTED"}
State == Stoppable \cup Terminal

WorkEdge ==
    {<<"DRAFTED", "ASSIGNED">>, <<"ASSIGNED", "ACKNOWLEDGED">>,
     <<"ACKNOWLEDGED", "RUNNING">>, <<"RUNNING", "REVIEW_PENDING">>,
     <<"REVIEW_PENDING", "CONFIRMED">>, <<"REVIEW_PENDING", "CHANGES_REQUESTED">>,
     <<"CHANGES_REQUESTED", "RUNNING">>, <<"RUNNING", "HANDED_OFF">>,
     <<"HANDED_OFF", "RUNNING">>, <<"DRAFTED", "SUPERSEDED">>}

Init ==
    /\ phase = [a \in Assignment |-> "ABSENT"]
    /\ places = [a \in Assignment |-> <<>>]

Create(a) ==
    /\ phase[a] = "ABSENT"
    /\ phase' = [phase EXCEPT ![a] = "DRAFTED"]
    /\ UNCHANGED places

Work(a) ==
    \E to \in State :
        /\ <<phase[a], to>> \in WorkEdge
        /\ phase' = [phase EXCEPT ![a] = to]
        /\ UNCHANGED places

Suspend(a, to) ==
    /\ \/ phase[a] \in Suspendable
       \/ phase[a] = Paused /\ to = "INTERRUPTED"
    /\ phase' = [phase EXCEPT ![a] = to]
    /\ places' = [places EXCEPT ![a] = Append(@, phase[a])]

Resume(a) ==
    /\ phase[a] \in {Paused, "INTERRUPTED"}
    /\ phase' = [phase EXCEPT ![a] = places[a][Len(places[a])]]
    /\ places' = [places EXCEPT ![a] = SubSeq(@, 1, Len(@) - 1)]

Stop(a) ==
    /\ phase[a] \in Stoppable
    /\ phase' = [phase EXCEPT ![a] = "STOPPED"]
    /\ places' = [places EXCEPT ![a] = <<>>]

Next ==
    \E a \in Assignment :
        \/ Create(a)
        \/ Work(a)
        \/ \E to \in {Paused, "INTERRUPTED"} : Suspend(a, to)
        \/ Resume(a)
        \/ Stop(a)

Spec == Init /\ [][Next]_lifecycle

=============================================================================
