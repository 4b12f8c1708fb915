---------------------------- MODULE RadarRuntime ----------------------------
(***************************************************************************)
(* Admission, queueing and dispatch of one runtime process:                *)
(* src/radar/runtime.py over the queue and the dedupe window of            *)
(* src/radar/routing.py and the counters of src/radar/telemetry.py.        *)
(*                                                                         *)
(* Threads call admit and dispatch_next with a time they read before they  *)
(* got the admission lock.  The counters are in SQLite: an increment may   *)
(* raise in the middle of a call, and what the call did to the queue       *)
(* before that stays done.  Which nodes a message goes to is up to the     *)
(* registry: here a dispatch finds a recipient or does not.                *)
(***************************************************************************)
EXTENDS Naturals, Sequences, FiniteSets

CONSTANTS
    Thread,
    Free,         \* nobody holds the admission lock
    Envelope,     \* messages
    PriorityOf,   \* 0 (urgent) to 4
    Key,          \* payload hashes
    KeyOf,
    MaxSize,      \* size of the queue
    Window,       \* length of the dedupe window
    Never,        \* a key the window does not hold
    Idle,         \* no call in progress
    \* bounds: clock, admissions, dead letters, failed increments
    MaxClock, MaxOffered, MaxRecorded, MaxFailures

ASSUME EnvelopesClassified ==
    /\ PriorityOf \in [Envelope -> 0..4]
    /\ KeyOf \in [Envelope -> Key]
ASSUME QueueSizes == MaxSize \in Nat \ {0} /\ Window \in Nat

Phase == {"accept", "push", "refused", "evicted", "pop", "popped"}
Call == [phase : Phase, envelope : Envelope \cup {Idle}, now : Nat]
ASSUME RuntimeSentinels ==
    Free \notin Thread /\ Never \notin Nat /\ Idle \notin Call \cup Envelope

VARIABLES
    queue,    \* the heap: envelopes by priority, then by age
    seen,     \* DedupeWindow._seen
    lastNow,  \* DedupeWindow._last_now_ms
    routed, dropped, deadLettered,  \* the counters
    recorded,  \* rows of the dead letter store
    letterDue, \* calls of admit between their row and its increment
    holder,   \* the thread that holds the admission lock
    call,     \* the calls that hold it
    popped,   \* per thread, the envelope dispatch_next took from the queue
    clock,
    failures, \* increments that raised
    offered,  \* history: envelopes that entered admission
    raised,   \* history: calls that raised with an envelope in hand
    pushedAt  \* history: when a key was last put in the queue

memory == <<queue, seen, lastNow>>
counters == <<routed, dropped, deadLettered, recorded, letterDue>>
ghosts == <<offered, raised, pushedAt>>
runtimeVars == <<memory, counters, holder, call, popped, clock, failures, ghosts>>

Urgent(e) == PriorityOf[e] = 0

RuntimeInit ==
    /\ queue = <<>>
    /\ seen = [k \in Key |-> Never]
    /\ lastNow = Never
    /\ routed = 0 /\ dropped = 0 /\ deadLettered = 0 /\ recorded = 0 /\ letterDue = 0
    /\ holder = Free
    /\ call = [t \in Thread |-> Idle]
    /\ popped = [t \in Thread |-> Idle]
    /\ clock = 0
    /\ failures = 0
    /\ offered = 0 /\ raised = 0
    /\ pushedAt = [k \in Key |-> Never]

-----------------------------------------------------------------------------

InPhase(t, phase) == call[t] # Idle /\ call[t].phase = phase
Advance(t, phase) == call' = [call EXCEPT ![t].phase = phase]

\* Faulty variant: calls are not serialised.
LockIsFreeAnyway == TRUE
LockIsFree == holder = Free

\* The call returns or raises and gives the lock back.
Leave(t) ==
    /\ call' = [call EXCEPT ![t] = Idle]
    /\ holder' = Free

CanFail == failures < MaxFailures

\* admit of an envelope of unknown taxonomy does not take the lock.  Its row is
\* one transaction and the increment another, and it may be between the two while
\* other calls do anything.
RecordDeadLetter ==
    /\ recorded < MaxRecorded
    /\ recorded' = recorded + 1
    /\ letterDue' = letterDue + 1
    /\ UNCHANGED <<memory, routed, dropped, deadLettered, holder, call, popped, clock,
                   failures, ghosts>>

CountDeadLetter(counted) ==
    /\ letterDue > 0
    /\ letterDue' = letterDue - 1
    /\ IF counted THEN deadLettered' = deadLettered + 1 /\ UNCHANGED failures
                  ELSE CanFail /\ failures' = failures + 1 /\ UNCHANGED deadLettered
    /\ UNCHANGED <<memory, routed, dropped, recorded, holder, call, popped, clock, ghosts>>

\* admit of an envelope that does not validate.
AdmitRejected(counted) ==
    /\ offered < MaxOffered
    /\ offered' = offered + 1
    /\ IF counted
       THEN dropped' = dropped + 1 /\ UNCHANGED <<failures, raised>>
       ELSE /\ CanFail
            /\ failures' = failures + 1
            /\ raised' = raised + 1
            /\ UNCHANGED dropped
    /\ UNCHANGED <<memory, routed, deadLettered, recorded, letterDue, holder, call, popped, clock,
                   pushedAt>>

\* admit, once it has the lock, with a time read earlier.
Admit(t, e, now) ==
    /\ call[t] = Idle
    /\ LockIsFree
    /\ offered < MaxOffered
    /\ offered' = offered + 1
    /\ holder' = t
    /\ call' = [call EXCEPT ![t] = [phase |-> "accept", envelope |-> e, now |-> now]]
    /\ UNCHANGED <<memory, counters, popped, clock, failures, raised, pushedAt>>

\* DedupeWindow.accept forgets what is older than the window.
Forgotten(at, now) == at # Never /\ at + Window < now

Suppressed(k, now) == seen[k] # Never /\ now <= seen[k] + Window

\* DedupeWindow.accept
Accept(t) ==
    /\ InPhase(t, "accept")
    /\ LET now == call[t].now
           k == KeyOf[call[t].envelope]
       IN  /\ lastNow # Never => lastNow <= now
           /\ lastNow' = now
           /\ IF Suppressed(k, now)
              THEN Advance(t, "refused") /\ UNCHANGED seen
              ELSE /\ seen' = [x \in Key |-> IF x = k THEN now
                          ELSE IF Forgotten(seen[x], now) THEN Never ELSE seen[x]]
                   /\ Advance(t, "push")
    /\ UNCHANGED <<queue, counters, holder, popped, clock, failures, ghosts>>

\* DEDUPE_CLOCK_REGRESSION: another thread's call had a later time.
ClockRegression(t) ==
    /\ InPhase(t, "accept")
    /\ lastNow # Never /\ call[t].now < lastNow
    /\ Leave(t)
    /\ raised' = raised + 1
    /\ UNCHANGED <<memory, counters, popped, clock, failures, offered, pushedAt>>

\* Behind all that are no less urgent.
Place(q, e) == Cardinality({i \in DOMAIN q : PriorityOf[q[i]] <= PriorityOf[e]})
Insert(q, e) == SubSeq(q, 1, Place(q, e)) \o <<e>> \o SubSeq(q, Place(q, e) + 1, Len(q))
\* Faulty variant: off by one.
FullAtOneMore == Len(queue) > MaxSize
Full == Len(queue) >= MaxSize

\* OverflowError: an urgent envelope finds room unless only urgent ones are queued.
Overflows(e) == Full /\ (~Urgent(e) \/ Urgent(queue[Len(queue)]))

\* Faulty variant: a refused envelope stays in the window.
KeepAccept(k, now) == seen
\* DedupeWindow.rollback_accept
RollbackAccept(k, now) == [seen EXCEPT ![k] = IF @ = now THEN Never ELSE @]

\* PriorityQueue.push
Push(t) ==
    /\ InPhase(t, "push")
    /\ LET e == call[t].envelope
           k == KeyOf[e]
       IN  IF Overflows(e)
           THEN /\ seen' = RollbackAccept(k, call[t].now)
                /\ Advance(t, "refused")
                /\ UNCHANGED <<queue, holder, pushedAt>>
           ELSE /\ queue' = Insert(IF Full THEN SubSeq(queue, 1, Len(queue) - 1)
                                            ELSE queue, e)
                /\ pushedAt' = [pushedAt EXCEPT ![k] = call[t].now]
                /\ CASE Full -> Advance(t, "evicted") /\ UNCHANGED holder
                     [] ~Full /\ Urgent(e) -> Advance(t, "pop") /\ UNCHANGED holder
                     [] OTHER -> Leave(t)
                /\ UNCHANGED seen
    /\ UNCHANGED <<lastNow, counters, popped, clock, failures, offered, raised>>

\* Faulty variant: the victim of an eviction is not counted.
CountNothing == dropped
CountDrop == dropped + 1

\* DROPPED_DUPLICATE and DROPPED_QUEUE_FULL
CountRefusal(t) ==
    /\ InPhase(t, "refused")
    /\ dropped' = dropped + 1
    /\ Leave(t)
    /\ UNCHANGED <<memory, routed, deadLettered, recorded, letterDue, popped, clock, failures,
                   ghosts>>

\* An eviction is counted; then the urgent envelope is dispatched.
CountEviction(t) ==
    /\ InPhase(t, "evicted")
    /\ dropped' = CountDrop
    /\ Advance(t, "pop")
    /\ UNCHANGED <<memory, routed, deadLettered, recorded, letterDue, holder, popped, clock,
                   failures, ghosts>>

\* dispatch_next, called from outside.
Dispatch(t, now) ==
    /\ call[t] = Idle
    /\ LockIsFree
    /\ queue # <<>>
    /\ holder' = t
    /\ call' = [call EXCEPT ![t] = [phase |-> "pop", envelope |-> Idle, now |-> now]]
    /\ UNCHANGED <<memory, counters, popped, clock, failures, ghosts>>

Pop(t) ==
    /\ InPhase(t, "pop")
    /\ queue # <<>>
    /\ popped' = [popped EXCEPT ![t] = queue[1]]
    /\ queue' = Tail(queue)
    /\ Advance(t, "popped")
    /\ UNCHANGED <<seen, lastNow, counters, holder, clock, failures, ghosts>>

\* DISPATCHED and DROPPED_NO_ROUTE
CountDispatch(t, hasRoute) ==
    /\ InPhase(t, "popped")
    /\ IF hasRoute THEN routed' = routed + 1 /\ UNCHANGED dropped
                   ELSE dropped' = dropped + 1 /\ UNCHANGED routed
    /\ popped' = [popped EXCEPT ![t] = Idle]
    /\ Leave(t)
    /\ UNCHANGED <<memory, deadLettered, recorded, letterDue, clock, failures, ghosts>>

\* An increment under the lock raises, and the call with it.
IncrementRaises(t) ==
    /\ call[t] # Idle
    /\ call[t].phase \in {"refused", "evicted", "popped"}
    /\ CanFail
    /\ failures' = failures + 1
    /\ raised' = raised + 1
    /\ popped' = [popped EXCEPT ![t] = Idle]
    /\ Leave(t)
    /\ UNCHANGED <<memory, counters, clock, offered, pushedAt>>

ClockAdvances ==
    /\ clock < MaxClock
    /\ clock' = clock + 1
    /\ UNCHANGED <<memory, counters, holder, call, popped, failures, ghosts>>

RuntimeNext ==
    \/ RecordDeadLetter
    \/ \E counted \in BOOLEAN : CountDeadLetter(counted)
    \/ \E counted \in BOOLEAN : AdmitRejected(counted)
    \/ \E t \in Thread, e \in Envelope, now \in 0..clock : Admit(t, e, now)
    \/ \E t \in Thread : Accept(t)
    \/ \E t \in Thread : ClockRegression(t)
    \/ \E t \in Thread : Push(t)
    \/ \E t \in Thread : CountRefusal(t)
    \/ \E t \in Thread : CountEviction(t)
    \/ \E t \in Thread, now \in 0..clock : Dispatch(t, now)
    \/ \E t \in Thread : Pop(t)
    \/ \E t \in Thread, hasRoute \in BOOLEAN : CountDispatch(t, hasRoute)
    \/ \E t \in Thread : IncrementRaises(t)
    \/ ClockAdvances

RuntimeSpec == RuntimeInit /\ [][RuntimeNext]_runtimeVars

-----------------------------------------------------------------------------

RuntimeTypeOK ==
    /\ queue \in Seq(Envelope) /\ Len(queue) <= MaxSize
    /\ seen \in [Key -> Nat \cup {Never}]
    /\ lastNow \in Nat \cup {Never}
    /\ {routed, dropped, deadLettered, recorded, letterDue} \subseteq Nat
    /\ {clock, failures, offered, raised} \subseteq Nat
    /\ holder \in Thread \cup {Free}
    /\ call \in [Thread -> Call \cup {Idle}]
    /\ popped \in [Thread -> Envelope \cup {Idle}]
    /\ pushedAt \in [Key -> Nat \cup {Never}]

\* Calls that have an envelope in hand, their own, a victim or a popped one.
InHand == {t \in Thread : call[t] # Idle /\ call[t].phase # "pop"}

\* Every envelope is accounted for, once: it was routed or dropped, it waits in
\* the queue, a call has it in hand, or the call that had it raised; and the dead
\* letter counter lags behind the rows by the calls that are between the two and
\* by increments that failed, and by nothing else.
Accounted ==
    /\ offered = routed + dropped + Len(queue) + Cardinality(InHand) + raised
    /\ deadLettered + letterDue <= recorded
    /\ recorded <= deadLettered + letterDue + failures

\* "immediate priority-0 dispatch" (README.md): when no call is in progress no
\* urgent envelope is left in the queue, and the call that admits an urgent
\* envelope dispatches that one and no other.  It takes counters that work: an
\* increment that raises between the push and the dispatch leaves the envelope
\* queued, and the next urgent call dispatches it in place of its own.
UrgentIsServedUnlessCountingFails ==
    failures = 0 =>
    /\ holder = Free => \A i \in 1..Len(queue) : ~Urgent(queue[i])
    /\ \A t \in Thread : InPhase(t, "popped") /\ call[t].envelope # Idle =>
           popped[t] = call[t].envelope

\* The window suppresses exactly what was queued less than a window ago: two
\* envelopes of one payload never enter the queue within it, however the clock
\* readings of the threads are ordered, and one that was refused for lack of room
\* leaves nothing behind that could suppress its retry.
WindowHoldsWhatWasQueued ==
    [][\A k \in Key :
          /\ pushedAt'[k] # pushedAt[k] /\ pushedAt[k] # Never =>
                 pushedAt'[k] > pushedAt[k] + Window
          /\ seen'[k] # Never =>
                 \/ pushedAt'[k] = seen'[k]
                 \/ \E t \in Thread : InPhase(t, "push")' /\ KeyOf[call'[t].envelope] = k]_runtimeVars
=============================================================================
