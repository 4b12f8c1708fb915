---------------------------- MODULE LedgerProofs ----------------------------
(* Theorems about Ledger, for every set of assignments and clients and every *)
(* length of the log.                                                        *)
EXTENDS Ledger, TLAPS

\* What the seeded rules look like, by context_action.
LEMMA RuleShape ==
    ASSUME NEW rule \in Rules
    PROVE  /\ rule.from \in State /\ rule.to \in State /\ rule.context \in Context
           /\ rule.from \notin Terminal
           /\ rule.context = "SET_PAUSE" <=> rule.to = Paused /\ rule.from \in Suspendable
           /\ rule.context = "SET_INTERRUPT" <=>
                 rule.to = "INTERRUPTED" /\ rule.from \in Suspendable
           /\ rule.context = "SET_INTERRUPT_FROM_PAUSE" <=>
                 rule.to = "INTERRUPTED" /\ rule.from = Paused
           /\ rule.context = "RESUME_PAUSE" <=>
                 rule.from = Paused /\ rule.to \in Suspendable
           /\ rule.context = "RECOVER_INTERRUPT" <=>
                 rule.from = "INTERRUPTED" /\ rule.to \in Suspendable \cup {Paused}
           /\ rule.context = "SUPERSEDE" <=> rule.to = "SUPERSEDED"
           /\ rule.from \in {Paused, "INTERRUPTED"} =>
                 rule.context \in {"RESUME_PAUSE", "RECOVER_INTERRUPT",
                                   "SET_INTERRUPT_FROM_PAUSE", "CLEAR_CONTEXT"}
           /\ rule.context = "CLEAR_CONTEXT" => rule.to \notin {Paused, "INTERRUPTED"}
           /\ rule.context \in {"NONE", "SUPERSEDE"} =>
                 rule.to \notin {Paused, "INTERRUPTED"}
BY DEF Rules, Edge, State, Context, Terminal, Suspendable, Stoppable, Paused

\* The row the transition trigger writes is a well-formed row.
LEMMA AppliedType ==
    ASSUME NEW old \in Row, NEW rule \in Rules, NEW t \in Assignment \cup {Null},
           NEW id \in Nat
    PROVE  /\ Applied(old, rule, t, id) \in Row
           /\ Applied(old, rule, t, id).state = rule.to
           /\ Applied(old, rule, t, id).head = id
           /\ Applied(old, rule, t, id).mode = old.mode
BY RuleShape, ZenonT(60) DEF Applied, Row

\* Every variable of the ledger has its type in every reachable state.
THEOREM TypeCorrect == Spec => []TypeOK
<1>1. Init => TypeOK
  BY DEF Init, TypeOK, Row, Draft, Mode
<1>2. TypeOK /\ [Next]_vars => TypeOK'
  <2> SUFFICES ASSUME TypeOK, [Next]_vars PROVE TypeOK'
    OBVIOUS
  <2> USE DEF TypeOK
  <2>1. ASSUME NEW a \in Assignment, NEW m \in Mode, CreateAssignment(a, m)
        PROVE  TypeOK'
    <3>1. Draft(m) \in Row
      BY DEF Draft, Row, State, Stoppable
    <3>2. QED
      BY <2>1, <3>1 DEF CreateAssignment
  <2>2. ASSUME NEW c \in Client, NEW a \in Assignment, ReadSnapshot(c, a)
        PROVE  TypeOK'
    <3>1. row[a].state \in State /\ row[a].head \in Nat
      BY <2>2 DEF ReadSnapshot, Exists, Row
    <3>2. QED
      BY <2>2, <3>1 DEF ReadSnapshot, Snapshot
  <2>3. ASSUME NEW c \in Client, NEW rule \in Rules, NEW op \in Operations,
               NEW t \in Assignment \cup {Null}, ApplyTransition(c, rule, op, t)
        PROVE  TypeOK'
    <3> DEFINE s == snapshot[c]
               e == [assignment |-> s.assignment, rule |-> rule, pred |-> s.head,
                     op |-> op, target |-> t]
    <3>1. s \in Snapshot
      BY <2>3 DEF ApplyTransition
    <3>2. s.assignment \in Assignment /\ s.head \in Nat /\ op \in Nat
      BY <3>1 DEF Snapshot, Operations
    <3>3. e \in Event
      BY <3>2 DEF Event
    <3>4. events' = Append(events, e) /\ events' \in Seq(Event)
      BY <2>3, <3>3 DEF ApplyTransition
    <3>5. row' = [row EXCEPT ![s.assignment] =
                     Applied(row[s.assignment], rule, t, Len(events'))]
      BY <2>3, <3>4 DEF ApplyTransition
    <3>6. Len(events') \in Nat /\ row[s.assignment] \in Row
      BY <3>2, <3>4
    <3>7. Applied(row[s.assignment], rule, t, Len(events')) \in Row
      BY <3>6, AppliedType
    <3>8. row' \in [Assignment -> Row]
      BY <3>5, <3>7
    <3>9. snapshot' \in [Client -> Snapshot \cup {None}] /\ receipt' = receipt
      BY <2>3 DEF ApplyTransition
    <3>10. QED
      BY <3>4, <3>8, <3>9
  <2>4. ASSUME NEW c \in Client, Abandon(c) PROVE TypeOK'
    BY <2>4 DEF Abandon
  <2>5. ASSUME NEW a \in Assignment, NEW r \in Receipt, RecordFinalAcceptance(a, r)
        PROVE  TypeOK'
    BY <2>5 DEF RecordFinalAcceptance
  <2>6. CASE UNCHANGED vars
    BY <2>6 DEF vars
  <2>7. QED
    BY <2>1, <2>2, <2>3, <2>4, <2>5, <2>6 DEF Next
<1>3. QED
  BY <1>1, <1>2, PTL DEF Spec

-----------------------------------------------------------------------------

\* What a successful apply_transition changes, in one place.
LEMMA AppliedStep ==
    ASSUME TypeOK, NEW c \in Client, NEW rule \in Rules, NEW op \in Operations,
           NEW t \in Assignment \cup {Null}, ApplyTransition(c, rule, op, t)
    PROVE  \E a \in Assignment, e \in Event :
              /\ e.assignment = a /\ e.rule = rule /\ e.pred = row[a].head
              /\ events' = Append(events, e)
              /\ row' = [row EXCEPT ![a] = Applied(row[a], rule, t, Len(events) + 1)]
              /\ rule.from = row[a].state
              /\ ContextTargetHolds(a, rule)
              /\ Checks(Applied(row[a], rule, t, Len(events) + 1))
              /\ receipt' = receipt
<1> DEFINE s == snapshot[c]
           a == s.assignment
           e == [assignment |-> a, rule |-> rule, pred |-> s.head, op |-> op,
                 target |-> t]
<1>1. s \in Snapshot
  BY DEF ApplyTransition, TypeOK
<1>2. a \in Assignment /\ s.head \in Nat /\ op \in Nat
  BY <1>1 DEF Snapshot, Operations
<1>3. e \in Event
  BY <1>2 DEF Event
<1>4. Len(Append(events, e)) = Len(events) + 1
  BY <1>3 DEF TypeOK
<1>5. /\ Validate(s, rule, t)
      /\ Checks(Applied(row[a], rule, t, Len(events) + 1))
      /\ events' = Append(events, e)
      /\ row' = [row EXCEPT ![a] = Applied(row[a], rule, t, Len(events) + 1)]
      /\ receipt' = receipt
  BY <1>4 DEF ApplyTransition
<1>6. e.pred = row[a].head /\ rule.from = row[a].state /\ ContextTargetHolds(a, rule)
  BY <1>5 DEF Validate, SnapshotHolds
<1>7. e.assignment = a /\ e.rule = rule
  OBVIOUS
<1> HIDE DEF e, a, s
<1>8. QED
  BY <1>2, <1>3, <1>5, <1>6, <1>7

-----------------------------------------------------------------------------

\* Every client that survives the race has extended one chain: LogIsOneChain is
\* inductive together with the types.
THEOREM OneChain == Spec => []LogIsOneChain
<1>1. TypeOK /\ Init => LogIsOneChain
  <2> SUFFICES ASSUME Init PROVE LogIsOneChain
    OBVIOUS
  <2>1. Len(events) = 0
    BY DEF Init
  <2>2. \A a \in Assignment : row[a].state = "ABSENT" /\ row[a].head = 0
    BY DEF Init, Draft
  <2>3. ASSUME NEW a \in Assignment
        PROVE  IsLastBefore(row[a].head, a, Len(events) + 1)
    <3>1. row[a].head = 0 /\ Len(events) + 1 = 1
      BY <2>1, <2>2
    <3>2. 0 \in 0..(1 - 1) /\ (0 + 1)..(1 - 1) = {}
      OBVIOUS
    <3>3. QED
      BY <3>1, <3>2 DEF IsLastBefore
  <2>4. 1..Len(events) = {}
    BY <2>1
  <2>5. QED
    BY <2>2, <2>3, <2>4 DEF LogIsOneChain
<1>2. TypeOK /\ LogIsOneChain /\ [Next]_vars => LogIsOneChain'
  <2> SUFFICES ASSUME TypeOK, LogIsOneChain, [Next]_vars PROVE LogIsOneChain'
    OBVIOUS
  <2>1. ASSUME UNCHANGED <<row, events>> PROVE LogIsOneChain'
    BY <2>1 DEF LogIsOneChain, IsLastBefore, StateAfter
  <2>2. ASSUME NEW a \in Assignment, NEW m \in Mode, CreateAssignment(a, m)
        PROVE  LogIsOneChain'
    <3>1. row[a].state = "ABSENT" /\ row[a].head = 0
      BY <2>2 DEF CreateAssignment, Exists, LogIsOneChain
    <3>2. /\ row' = [row EXCEPT ![a] = Draft(m)] /\ events' = events
          /\ Draft(m).state = "DRAFTED" /\ Draft(m).head = 0
      BY <2>2 DEF CreateAssignment, Draft
    <3>3. ASSUME NEW b \in Assignment
          PROVE  /\ row'[b].head = row[b].head
                 /\ row'[b].state = row[b].state \/ (b = a /\ row'[b].state = "DRAFTED")
      <4>1. CASE b = a
        <5>1. row'[b] = Draft(m)
          BY <3>2, <4>1 DEF TypeOK
        <5>2. QED
          BY <3>1, <3>2, <4>1, <5>1
      <4>2. CASE b # a
        <5>1. row'[b] = row[b]
          BY <3>2, <4>2 DEF TypeOK
        <5>2. QED
          BY <5>1
      <4>3. QED
        BY <4>1, <4>2
    <3>4. QED
      BY <3>1, <3>2, <3>3 DEF LogIsOneChain, IsLastBefore, StateAfter
  <2>3. ASSUME NEW c \in Client, NEW rule \in Rules, NEW op \in Operations,
               NEW t \in Assignment \cup {Null}, ApplyTransition(c, rule, op, t)
        PROVE  LogIsOneChain'
    <3>0. PICK n \in Nat \ {0} : n = Len(events) + 1
      BY DEF TypeOK
    <3>1. PICK a \in Assignment, e \in Event :
              /\ e.assignment = a /\ e.rule = rule /\ e.pred = row[a].head
              /\ events' = Append(events, e)
              /\ row' = [row EXCEPT ![a] = Applied(row[a], rule, t, n)]
              /\ rule.from = row[a].state
      BY <2>3, <3>0, AppliedStep
    <3>2. /\ n \in Nat \ {0} /\ Len(events') = n /\ events'[n] = e
          /\ \A i \in 1..(n - 1) : events'[i] = events[i]
      BY <3>0, <3>1 DEF TypeOK
    <3>3. row[a] \in Row /\ rule.from \in State /\ rule.to \in State
      BY RuleShape DEF TypeOK
    <3>4. row'[a].state = rule.to /\ row'[a].head = n
      <4>1. row'[a] = Applied(row[a], rule, t, n)
        BY <3>1 DEF TypeOK
      <4>2. n \in Nat
        BY <3>2
      <4>3. /\ Applied(row[a], rule, t, n).state = rule.to
            /\ Applied(row[a], rule, t, n).head = n
        BY <3>3, <4>2, AppliedType
      <4>4. QED
        BY <4>1, <4>3
    <3>5. \A b \in Assignment \ {a} : row'[b] = row[b]
      BY <3>1 DEF TypeOK
    <3>6. row[a].state = StateAfter(row[a].head)
      BY <3>1, <3>3 DEF LogIsOneChain, State, Stoppable, Suspendable, Terminal, Paused
    <3>7. \A b \in Assignment : \A i \in 1..n : \A p \in Nat :
              p < i /\ IsLastBefore(p, b, i) =>
                 /\ IsLastBefore(p, b, i)'
                 /\ StateAfter(p)' = StateAfter(p)
      BY <3>2 DEF IsLastBefore, StateAfter
    <3>8. \A b \in Assignment : IsLastBefore(row[b].head, b, n) /\ row[b].head \in 0..(n-1)
      BY <3>0 DEF LogIsOneChain, IsLastBefore
    <3>9. ASSUME NEW b \in Assignment, NEW i \in 1..n, events'[i].assignment = b
          PROVE  /\ IsLastBefore(events[i].pred, b, i)'
                 /\ events'[i].rule.from = StateAfter(events[i].pred)'
      <4>1. CASE i = n
        BY <3>1, <3>2, <3>6, <3>7, <3>8, <3>9, <4>1
      <4>2. CASE i # n
        <5>1. i \in 1..Len(events) /\ events'[i] = events[i]
          BY <3>0, <3>2, <4>2 DEF TypeOK
        <5>2. /\ IsLastBefore(events[i].pred, b, i)
              /\ events[i].rule.from = StateAfter(events[i].pred)
          BY <3>9, <5>1 DEF LogIsOneChain
        <5>3. events[i].pred \in Nat /\ events[i].pred < i
          BY <5>2 DEF IsLastBefore
        <5>4. PICK q : q = events[i].pred
          OBVIOUS
        <5>5. IsLastBefore(q, b, i)' /\ StateAfter(q)' = StateAfter(q)
          BY <3>7, <5>2, <5>3, <5>4
        <5>6. events'[i].pred = q
          BY <5>1, <5>4
        <5>7. QED
          BY <5>1, <5>2, <5>4, <5>5, <5>6
      <4>3. QED
        BY <4>1, <4>2
    <3>10. ASSUME NEW b \in Assignment
           PROVE  /\ IsLastBefore(row[b].head, b, Len(events) + 1)'
                  /\ row'[b].state \in {StateAfter(row[b].head)', "ABSENT"}
                  /\ row'[b].state = "ABSENT" => row'[b].head = 0
      <4>1. CASE b = a
        BY <3>1, <3>2, <3>3, <3>4, <4>1
           DEF IsLastBefore, StateAfter, State, Stoppable, Suspendable, Terminal, Paused
      <4>2. CASE b # a
        <5>1. row'[b] = row[b]
          BY <3>5, <4>2
        <5>2. PICK q \in 0..(n - 1) : q = row[b].head
          BY <3>8
        <5>3. IsLastBefore(q, b, n) /\ q < n /\ q \in Nat
          BY <3>2, <3>8, <5>2
        <5>4. IsLastBefore(q, b, n)' /\ StateAfter(q)' = StateAfter(q)
          BY <3>2, <3>7, <5>3
        <5>5. IsLastBefore(q, b, Len(events) + 1)'
          BY <3>1, <3>2, <4>2, <5>4 DEF IsLastBefore
        <5>6. row[b].state \in {StateAfter(q), "ABSENT"} /\ (row[b].state = "ABSENT" => q = 0)
          BY <5>2 DEF LogIsOneChain
        <5>7. QED
          BY <5>1, <5>2, <5>4, <5>5, <5>6
      <4>3. QED
        BY <4>1, <4>2
    <3>11. QED
      BY <3>2, <3>9, <3>10 DEF LogIsOneChain
  <2>4. QED
    BY <2>1, <2>2, <2>3 DEF Next, vars, ReadSnapshot, Abandon, RecordFinalAcceptance
<1>3. QED
  BY <1>1, <1>2, TypeCorrect, PTL DEF Spec

-----------------------------------------------------------------------------

\* No update but the one of the event's own transaction passes the projection
\* guard: the chain leaves no event whose predecessor is the current head.
THEOREM GuardIsExclusive == Spec => []GuardAdmitsNoOtherUpdate
<1>1. LogIsOneChain => GuardAdmitsNoOtherUpdate
  <2> SUFFICES ASSUME LogIsOneChain, NEW a \in Assignment, NEW new,
                      Bound(events, a, row[a], new)
               PROVE  FALSE
    BY DEF GuardAdmitsNoOtherUpdate
  <2>1. PICK i \in 1..Len(events) :
            events[i].assignment = a /\ events[i].pred = row[a].head
    BY DEF Bound
  <2>2. IsLastBefore(row[a].head, a, i)
    BY <2>1 DEF LogIsOneChain
  <2>3. IsLastBefore(row[a].head, a, Len(events) + 1)
    BY DEF LogIsOneChain
  <2>4. row[a].head \in 0..(i - 1)
    BY <2>2 DEF IsLastBefore
  <2>5. i \in (row[a].head + 1)..((Len(events) + 1) - 1)
    BY <2>1, <2>4
  <2>6. QED
    BY <2>1, <2>3, <2>5 DEF IsLastBefore
<1>2. QED
  BY <1>1, OneChain, PTL

-----------------------------------------------------------------------------

\* A transition the trigger accepts leaves a row with its way back intact.
WayBackHolds(r) ==
    CASE r.state = Paused ->
            /\ r.prePause \in Suspendable
            /\ r.preInterrupt = Null /\ r.nestedPause = Null
      [] r.state = "INTERRUPTED" ->
            /\ r.prePause = Null
            /\ \/ r.preInterrupt \in Suspendable /\ r.nestedPause = Null
               \/ r.preInterrupt = Paused /\ r.nestedPause \in Suspendable
      [] OTHER ->
            r.prePause = Null /\ r.preInterrupt = Null /\ r.nestedPause = Null

\* A rule that the validation trigger accepts leaves the way back in the context
\* columns, and a row that passes the CHECK constraints.
LEMMA AppliedKeepsContext ==
    ASSUME NEW old \in Row, NEW rule \in Rules, NEW t \in Assignment \cup {Null},
           NEW id \in Nat, rule.from = old.state, WayBackHolds(old), Checks(old),
           rule.context = "RESUME_PAUSE" => old.prePause \in {rule.to, Null},
           rule.context = "RECOVER_INTERRUPT" => old.preInterrupt \in {rule.to, Null},
           rule.context # "SUPERSEDE" => t = Null
    PROVE  /\ WayBackHolds(Applied(old, rule, t, id))
           /\ Checks(Applied(old, rule, t, id))
<1> DEFINE new == Applied(old, rule, t, id)
<1>1. /\ new.state = rule.to
      /\ new.prePause =
            CASE rule.context = "SET_PAUSE" -> rule.from
              [] rule.context = "RECOVER_INTERRUPT" /\ old.preInterrupt = Paused
                   -> old.nestedPause
              [] OTHER -> Null
      /\ new.preInterrupt =
            CASE rule.context = "SET_INTERRUPT" -> rule.from
              [] rule.context = "SET_INTERRUPT_FROM_PAUSE" -> Paused
              [] OTHER -> Null
      /\ new.nestedPause =
            IF rule.context = "SET_INTERRUPT_FROM_PAUSE" THEN old.prePause ELSE Null
      /\ new.supersededBy = IF rule.context = "SUPERSEDE" THEN t ELSE old.supersededBy
  BY DEF Applied, Row
<1> HIDE DEF new
<1>2. Null \notin State /\ Suspendable \subseteq State /\ Paused \in State
      /\ Paused \notin Suspendable /\ "INTERRUPTED" \notin Suspendable /\ Paused # "INTERRUPTED"
      /\ "SUPERSEDED" \in Terminal
  BY DEF Null, State, Suspendable, Stoppable, Terminal, Paused
<1>3. WayBackHolds(new)
  <2>1. CASE rule.context \in {"SET_PAUSE", "SET_INTERRUPT", "SET_INTERRUPT_FROM_PAUSE"}
    BY <1>1, <1>2, <2>1, RuleShape DEF WayBackHolds
  <2>2. CASE rule.context = "RECOVER_INTERRUPT"
    BY <1>1, <1>2, <2>2, RuleShape DEF WayBackHolds
  <2>3. CASE rule.context \in {"RESUME_PAUSE", "CLEAR_CONTEXT", "NONE", "SUPERSEDE"}
    BY <1>1, <1>2, <2>3, RuleShape DEF WayBackHolds
  <2>4. QED
    BY <2>1, <2>2, <2>3, RuleShape DEF Context
<1>4. new.supersededBy # Null => new.state = "SUPERSEDED"
  BY <1>1, <1>2, RuleShape DEF Checks
<1>5. Checks(new)
  BY <1>2, <1>3, <1>4 DEF WayBackHolds, Checks
<1>6. QED
  BY <1>3, <1>5 DEF new

ContextInv == \A a \in Assignment : WayBackHolds(row[a]) /\ Checks(row[a])

\* Suspended work always knows its way back, and the CHECK constraints never
\* find anything to refuse.
THEOREM ContextSafety == Spec => []ContextInv
<1>1. Init => ContextInv
  <2> SUFFICES ASSUME Init, NEW a \in Assignment
               PROVE  WayBackHolds(row[a]) /\ Checks(row[a])
    BY DEF ContextInv
  <2>1. /\ row[a].state = "ABSENT" /\ row[a].prePause = Null
        /\ row[a].preInterrupt = Null /\ row[a].nestedPause = Null
        /\ row[a].supersededBy = Null
    BY DEF Init, Draft
  <2>2. QED
    BY <2>1 DEF WayBackHolds, Checks, Paused
<1>2. TypeOK /\ ContextInv /\ [Next]_vars => ContextInv'
  <2> SUFFICES ASSUME TypeOK, ContextInv, [Next]_vars PROVE ContextInv'
    OBVIOUS
  <2>1. ASSUME row' = row PROVE ContextInv'
    BY <2>1 DEF ContextInv
  <2>2. ASSUME NEW a \in Assignment, NEW m \in Mode, CreateAssignment(a, m)
        PROVE  ContextInv'
    <3>1. WayBackHolds(Draft(m)) /\ Checks(Draft(m))
      BY DEF WayBackHolds, Checks, Draft, Null, Paused
    <3>2. row' = [row EXCEPT ![a] = Draft(m)]
      BY <2>2 DEF CreateAssignment
    <3>3. QED
      BY <3>1, <3>2 DEF ContextInv, TypeOK
  <2>3. ASSUME NEW c \in Client, NEW rule \in Rules, NEW op \in Operations,
               NEW t \in Assignment \cup {Null}, ApplyTransition(c, rule, op, t)
        PROVE  ContextInv'
    <3>0. PICK n \in Nat : n = Len(events) + 1
      BY DEF TypeOK
    <3>1. PICK a \in Assignment :
              /\ row' = [row EXCEPT ![a] = Applied(row[a], rule, t, n)]
              /\ rule.from = row[a].state
              /\ ContextTargetHolds(a, rule)
      BY <2>3, <3>0, AppliedStep
    <3>2. rule.context # "SUPERSEDE" => t = Null
      BY <2>3 DEF ApplyTransition, Validate
    <3>3. row[a] \in Row /\ WayBackHolds(row[a]) /\ Checks(row[a])
      BY DEF TypeOK, ContextInv
    <3>4. /\ WayBackHolds(Applied(row[a], rule, t, n))
          /\ Checks(Applied(row[a], rule, t, n))
      BY <3>1, <3>2, <3>3, AppliedKeepsContext DEF ContextTargetHolds
    <3>5. QED
      BY <3>1, <3>4 DEF ContextInv, TypeOK
  <2>4. QED
    BY <2>1, <2>2, <2>3 DEF Next, vars, ReadSnapshot, Abandon, RecordFinalAcceptance
<1>3. QED
  BY <1>1, <1>2, TypeCorrect, PTL DEF Spec

\* The part of it the runs check.
THEOREM WayBackIsKept == Spec => []ContextIsWayBack
<1>1. ContextInv => ContextIsWayBack
  BY DEF ContextInv, ContextIsWayBack, WayBackHolds
<1>2. QED
  BY <1>1, ContextSafety, PTL

-----------------------------------------------------------------------------

\* The validation trigger is the only judge: what it accepts, the constraints
\* and the projection guard accept too.
THEOREM OnlyTheTriggerRefuses == Spec => []ValidTransitionsSucceed
<1>1. TypeOK /\ ContextInv => ValidTransitionsSucceed
  <2> SUFFICES ASSUME TypeOK, ContextInv, NEW a \in Assignment, NEW rule \in Rules,
                      NEW t \in Assignment \cup {Null}, NEW s, NEW log, NEW new,
                      s = [assignment |-> a, state |-> row[a].state,
                           head |-> row[a].head],
                      log = Append(events,
                                [assignment |-> a, rule |-> rule, pred |-> s.head,
                                 op |-> 0, target |-> t]),
                      new = Applied(row[a], rule, t, Len(log)),
                      Exists(a), Validate(s, rule, t)
               PROVE  Checks(new) /\ Bound(log, a, row[a], new)
    BY ZenonT(60) DEF ValidTransitionsSucceed
  <2>1. row[a] \in Row /\ row[a].head \in Nat /\ WayBackHolds(row[a]) /\ Checks(row[a])
    BY DEF TypeOK, ContextInv, Row
  <2>2. /\ s.assignment = a /\ s.state = row[a].state /\ s.head = row[a].head
        /\ rule.from = row[a].state
        /\ rule.context # "SUPERSEDE" => t = Null
        /\ ContextTargetHolds(a, rule)
    BY DEF Validate
  <2>3. PICK n \in Nat \ {0} : n = Len(events) + 1
    BY DEF TypeOK
  <2>4. /\ Len(log) = n
        /\ log[n] = [assignment |-> a, rule |-> rule, pred |-> s.head, op |-> 0,
                     target |-> t]
    <3>1. events \in Seq(Event)
      BY DEF TypeOK
    <3>2. QED
      BY <2>3, <3>1
  <2>5. Checks(new) /\ new.state = rule.to /\ new.head = n
    <3>1. new = Applied(row[a], rule, t, n)
      BY <2>4
    <3>2. Checks(Applied(row[a], rule, t, n))
      BY <2>1, <2>2, AppliedKeepsContext DEF ContextTargetHolds
    <3>3. /\ Applied(row[a], rule, t, n).state = rule.to
          /\ Applied(row[a], rule, t, n).head = n
      BY <2>1, AppliedType
    <3>4. QED
      BY <3>1, <3>2, <3>3
  <2>6. \/ new.supersededBy = row[a].supersededBy
        \/ rule.context = "SUPERSEDE" /\ new.supersededBy = t
    <3>1. new.supersededBy =
             IF rule.context = "SUPERSEDE" THEN t ELSE row[a].supersededBy
      BY <2>1 DEF Applied, Row
    <3>2. QED
      BY <3>1
  <2>7. n \in 1..Len(log)
    BY <2>3, <2>4
  <2>8. /\ log[n].assignment = a /\ log[n].pred = row[a].head
        /\ log[n].rule.from = row[a].state /\ log[n].rule.to = new.state
        /\ log[n].rule = rule /\ log[n].target = t /\ n = new.head
    BY <2>2, <2>4, <2>5
  <2>9. QED
    BY <2>5, <2>6, <2>7, <2>8 DEF Bound
<1>2. QED
  BY <1>1, TypeCorrect, ContextSafety, PTL

\* A receipt once recorded stays true: CONFIRMED has no way out, and nothing
\* changes the mode of an assignment.
THEOREM ReceiptsHold == Spec => []ReceiptsStayTrue
<1>1. Init => ReceiptsStayTrue
  BY DEF Init, ReceiptsStayTrue
<1>2. TypeOK /\ ReceiptsStayTrue /\ [Next]_vars => ReceiptsStayTrue'
  <2> SUFFICES ASSUME TypeOK, ReceiptsStayTrue, [Next]_vars PROVE ReceiptsStayTrue'
    OBVIOUS
  <2>1. ASSUME row' = row, receipt' = receipt PROVE ReceiptsStayTrue'
    BY <2>1 DEF ReceiptsStayTrue, AcceptanceIsValid
  <2>2. ASSUME NEW a \in Assignment, NEW m \in Mode, CreateAssignment(a, m)
        PROVE  ReceiptsStayTrue'
    <3>1. receipt[a] = None
      BY <2>2 DEF CreateAssignment, Exists, ReceiptsStayTrue, AcceptanceIsValid
    <3>2. receipt' = receipt /\ \A b \in Assignment \ {a} : row'[b] = row[b]
      BY <2>2 DEF CreateAssignment, TypeOK
    <3>3. QED
      BY <3>1, <3>2 DEF ReceiptsStayTrue, AcceptanceIsValid
  <2>3. ASSUME NEW c \in Client, NEW rule \in Rules, NEW op \in Operations,
               NEW t \in Assignment \cup {Null}, ApplyTransition(c, rule, op, t)
        PROVE  ReceiptsStayTrue'
    <3>1. PICK a \in Assignment :
              /\ \A b \in Assignment \ {a} : row'[b] = row[b]
              /\ rule.from = row[a].state
              /\ receipt' = receipt
      BY <2>3, AppliedStep DEF TypeOK
    <3>2. row[a].state # "CONFIRMED"
      BY <3>1, RuleShape DEF Terminal
    <3>3. QED
      BY <3>1, <3>2 DEF ReceiptsStayTrue, AcceptanceIsValid
  <2>4. ASSUME NEW a \in Assignment, NEW r \in Receipt, RecordFinalAcceptance(a, r)
        PROVE  ReceiptsStayTrue'
    BY <2>4 DEF RecordFinalAcceptance, ReceiptsStayTrue, AcceptanceIsValid, TypeOK
  <2>5. QED
    BY <2>1, <2>2, <2>3, <2>4 DEF Next, vars, ReadSnapshot, Abandon
<1>3. QED
  BY <1>1, <1>2, TypeCorrect, PTL DEF Spec

-----------------------------------------------------------------------------

\* Every seeded rule is a step of the lifecycle.
LEMMA RuleKinds ==
    ASSUME NEW rule \in Rules
    PROVE  \/ /\ <<rule.from, rule.to>> \in Lifecycle!WorkEdge
              /\ rule.from \notin {Paused, "INTERRUPTED"}
              /\ rule.to \notin {Paused, "INTERRUPTED"}
           \/ rule.context = "SET_PAUSE"
           \/ rule.context \in {"SET_INTERRUPT", "SET_INTERRUPT_FROM_PAUSE"}
           \/ rule.context \in {"RESUME_PAUSE", "RECOVER_INTERRUPT"}
           \/ rule.from \in Stoppable /\ rule.to = "STOPPED"
BY DEF Rules, Edge, Lifecycle!WorkEdge, Suspendable, Stoppable, Paused

\* The context columns move the way the stack of places does.
LEMMA WayBackMoves ==
    ASSUME NEW old \in Row, NEW rule \in Rules, NEW t \in Assignment \cup {Null},
           NEW id \in Nat, rule.from = old.state, WayBackHolds(old),
           rule.context = "RESUME_PAUSE" => old.prePause \in {rule.to, Null},
           rule.context = "RECOVER_INTERRUPT" => old.preInterrupt \in {rule.to, Null}
    PROVE  /\ rule.to \notin {Paused, "INTERRUPTED"} =>
                 WayBack(Applied(old, rule, t, id)) = <<>>
           /\ rule.from \notin {Paused, "INTERRUPTED"} => WayBack(old) = <<>>
           /\ rule.context = "SET_PAUSE" =>
                 WayBack(Applied(old, rule, t, id)) = Append(WayBack(old), old.state)
           /\ rule.context \in {"SET_INTERRUPT", "SET_INTERRUPT_FROM_PAUSE"} =>
                 WayBack(Applied(old, rule, t, id)) = Append(WayBack(old), old.state)
           /\ rule.context \in {"RESUME_PAUSE", "RECOVER_INTERRUPT"} =>
                 /\ rule.to = WayBack(old)[Len(WayBack(old))]
                 /\ WayBack(Applied(old, rule, t, id)) =
                       SubSeq(WayBack(old), 1, Len(WayBack(old)) - 1)
<1> DEFINE new == Applied(old, rule, t, id)
<1>1. /\ new.state = rule.to
      /\ new.prePause =
            CASE rule.context = "SET_PAUSE" -> rule.from
              [] rule.context = "RECOVER_INTERRUPT" /\ old.preInterrupt = Paused
                   -> old.nestedPause
              [] OTHER -> Null
      /\ new.preInterrupt =
            CASE rule.context = "SET_INTERRUPT" -> rule.from
              [] rule.context = "SET_INTERRUPT_FROM_PAUSE" -> Paused
              [] OTHER -> Null
      /\ new.nestedPause =
            IF rule.context = "SET_INTERRUPT_FROM_PAUSE" THEN old.prePause ELSE Null
  BY DEF Applied, Row
<1> HIDE DEF new
<1>2. /\ Null \notin Suspendable /\ Paused # "INTERRUPTED" /\ Null # Paused
      /\ Paused \notin Suspendable /\ "INTERRUPTED" \notin Suspendable
  BY DEF Null, Suspendable, Paused
<1>3. rule.to \notin {Paused, "INTERRUPTED"} => WayBack(new) = <<>>
  BY <1>1 DEF WayBack
<1>4. rule.from \notin {Paused, "INTERRUPTED"} => WayBack(old) = <<>>
  BY DEF WayBack
<1>5. ASSUME rule.context = "SET_PAUSE"
      PROVE  WayBack(new) = Append(WayBack(old), old.state)
  <2>1. WayBack(old) = <<>> /\ WayBack(new) = <<old.state>>
    BY <1>1, <1>2, <1>5, RuleShape DEF WayBack
  <2>2. QED
    BY <2>1
<1>6. ASSUME rule.context \in {"SET_INTERRUPT", "SET_INTERRUPT_FROM_PAUSE"}
      PROVE  WayBack(new) = Append(WayBack(old), old.state)
  <2>1. CASE rule.context = "SET_INTERRUPT"
    <3>1. WayBack(old) = <<>> /\ WayBack(new) = <<old.state>>
      BY <1>1, <1>2, <2>1, RuleShape DEF WayBack
    <3>2. QED
      BY <3>1
  <2>2. CASE rule.context = "SET_INTERRUPT_FROM_PAUSE"
    <3>1. WayBack(old) = <<old.prePause>> /\ WayBack(new) = <<old.prePause, Paused>>
          /\ old.state = Paused
      BY <1>1, <1>2, <2>2, RuleShape DEF WayBack
    <3>2. QED
      BY <3>1
  <2>3. QED
    BY <1>6, <2>1, <2>2
<1>7. ASSUME rule.context \in {"RESUME_PAUSE", "RECOVER_INTERRUPT"}
      PROVE  /\ rule.to = WayBack(old)[Len(WayBack(old))]
             /\ WayBack(new) = SubSeq(WayBack(old), 1, Len(WayBack(old)) - 1)
  <2>1. CASE rule.to = Paused
    <3>1. WayBack(old) = <<old.nestedPause, Paused>> /\ WayBack(new) = <<old.nestedPause>>
      BY <1>1, <1>2, <1>7, <2>1, RuleShape DEF WayBack, WayBackHolds
    <3>2. QED
      BY <2>1, <3>1
  <2>2. CASE rule.to # Paused
    <3>1. WayBack(old) = <<rule.to>> /\ WayBack(new) = <<>>
      BY <1>1, <1>2, <1>7, <2>2, RuleShape DEF WayBack, WayBackHolds
    <3>2. QED
      BY <3>1
  <2>3. QED
    BY <2>1, <2>2
<1>8. QED
  BY <1>3, <1>4, <1>5, <1>6, <1>7 DEF new

\* Work is always taken up again where it was left: every step of the ledger is
\* a step of the lifecycle, whose places are a stack, or changes nothing of it.
THEOREM LedgerImplementsLifecycle == Spec => ImplementsLifecycle
<1>1. Init => Lifecycle!Init
  <2> SUFFICES ASSUME Init PROVE Lifecycle!Init
    OBVIOUS
  <2>1. \A a \in Assignment : row[a].state = "ABSENT"
    BY DEF Init, Draft
  <2>2. \A a \in Assignment : WayBack(row[a]) = <<>>
    BY <2>1 DEF WayBack, Paused
  <2>3. QED
    BY <2>1, <2>2 DEF Lifecycle!Init
<1>2. TypeOK /\ ContextInv /\ [Next]_vars => [Lifecycle!Next]_(Lifecycle!lifecycle)
  <2> SUFFICES ASSUME TypeOK, ContextInv, [Next]_vars
               PROVE  [Lifecycle!Next]_(Lifecycle!lifecycle)
    OBVIOUS
  <2> DEFINE phase == [a \in Assignment |-> row[a].state]
             places == [a \in Assignment |-> WayBack(row[a])]
  <2>1. ASSUME row' = row PROVE UNCHANGED Lifecycle!lifecycle
    BY <2>1 DEF Lifecycle!lifecycle
  <2>2. ASSUME NEW a \in Assignment, NEW new, row' = [row EXCEPT ![a] = new]
        PROVE  /\ phase' = [phase EXCEPT ![a] = new.state]
               /\ places' = [places EXCEPT ![a] = WayBack(new)]
    <3>1. row'[a] = new /\ \A b \in Assignment \ {a} : row'[b] = row[b]
      BY <2>2 DEF TypeOK
    <3>2. phase' = [phase EXCEPT ![a] = new.state]
      BY <3>1
    <3>3. places' = [b \in Assignment |-> WayBack(row[b])']
      OBVIOUS
    <3>4. \A b \in Assignment :
              WayBack(row[b])' = IF b = a THEN WayBack(new) ELSE WayBack(row[b])
      BY <3>1 DEF WayBack
    <3>5. places' = [b \in Assignment |-> IF b = a THEN WayBack(new) ELSE WayBack(row[b])]
      BY <3>3, <3>4
    <3>6. QED
      BY <3>2, <3>5
  <2>3. ASSUME NEW a \in Assignment, NEW m \in Mode, CreateAssignment(a, m)
        PROVE  Lifecycle!Next
    <3>1. row[a].state = "ABSENT" /\ row' = [row EXCEPT ![a] = Draft(m)]
      BY <2>3 DEF CreateAssignment, Exists
    <3>2. Draft(m).state = "DRAFTED" /\ WayBack(Draft(m)) = <<>> /\ WayBack(row[a]) = <<>>
      BY <3>1 DEF Draft, WayBack, Paused
    <3>3. /\ phase' = [phase EXCEPT ![a] = "DRAFTED"]
          /\ places' = [places EXCEPT ![a] = <<>>]
      <4> HIDE DEF phase, places
      <4>1. /\ phase' = [phase EXCEPT ![a] = Draft(m).state]
            /\ places' = [places EXCEPT ![a] = WayBack(Draft(m))]
        BY <2>2, <3>1
      <4>2. QED
        BY <3>2, <4>1
    <3>4. places[a] = <<>>
      BY <3>2
    <3>5. places' = places
      BY <3>3, <3>4
    <3>6. QED
      BY <3>1, <3>3, <3>5 DEF Lifecycle!Next, Lifecycle!Create
  <2>4. ASSUME NEW c \in Client, NEW rule \in Rules, NEW op \in Operations,
               NEW t \in Assignment \cup {Null}, ApplyTransition(c, rule, op, t)
        PROVE  Lifecycle!Next
    <3>0. PICK n \in Nat : n = Len(events) + 1
      BY DEF TypeOK
    <3>1. PICK a \in Assignment :
              /\ row' = [row EXCEPT ![a] = Applied(row[a], rule, t, n)]
              /\ rule.from = row[a].state
              /\ ContextTargetHolds(a, rule)
      BY <2>4, <3>0, AppliedStep
    <3>2. PICK new : new = Applied(row[a], rule, t, n)
      OBVIOUS
    <3>3. row[a] \in Row /\ WayBackHolds(row[a])
      BY DEF TypeOK, ContextInv
    <3>4. new.state = rule.to
      BY <3>2, <3>3, AppliedType
    <3>5. /\ phase' = [phase EXCEPT ![a] = rule.to]
          /\ places' = [places EXCEPT ![a] = WayBack(new)]
      BY ZenonT(60), <2>2, <3>1, <3>2, <3>4
    <3>6. phase[a] = rule.from /\ places[a] = WayBack(row[a])
      BY <3>1
    <3>7. /\ rule.to \notin {Paused, "INTERRUPTED"} => WayBack(new) = <<>>
          /\ rule.from \notin {Paused, "INTERRUPTED"} => WayBack(row[a]) = <<>>
          /\ rule.context \in {"SET_PAUSE", "SET_INTERRUPT", "SET_INTERRUPT_FROM_PAUSE"} =>
                WayBack(new) = Append(places[a], phase[a])
          /\ rule.context \in {"RESUME_PAUSE", "RECOVER_INTERRUPT"} =>
                /\ rule.to = places[a][Len(places[a])]
                /\ WayBack(new) = SubSeq(places[a], 1, Len(places[a]) - 1)
      <4> HIDE DEF phase, places
      <4>1. /\ rule.context = "RESUME_PAUSE" => row[a].prePause \in {rule.to, Null}
            /\ rule.context = "RECOVER_INTERRUPT" => row[a].preInterrupt \in {rule.to, Null}
        BY <3>1 DEF ContextTargetHolds
      <4>2. /\ rule.to \notin {Paused, "INTERRUPTED"} =>
                  WayBack(Applied(row[a], rule, t, n)) = <<>>
            /\ rule.from \notin {Paused, "INTERRUPTED"} => WayBack(row[a]) = <<>>
            /\ rule.context = "SET_PAUSE" =>
                  WayBack(Applied(row[a], rule, t, n)) = Append(WayBack(row[a]), row[a].state)
            /\ rule.context \in {"SET_INTERRUPT", "SET_INTERRUPT_FROM_PAUSE"} =>
                  WayBack(Applied(row[a], rule, t, n)) = Append(WayBack(row[a]), row[a].state)
            /\ rule.context \in {"RESUME_PAUSE", "RECOVER_INTERRUPT"} =>
                  /\ rule.to = WayBack(row[a])[Len(WayBack(row[a]))]
                  /\ WayBack(Applied(row[a], rule, t, n)) =
                        SubSeq(WayBack(row[a]), 1, Len(WayBack(row[a])) - 1)
        BY <3>1, <3>3, <4>1, WayBackMoves
      <4>3. QED
        BY <3>1, <3>2, <3>6, <4>2
    <3> HIDE DEF phase, places
    <3>8. CASE /\ <<rule.from, rule.to>> \in Lifecycle!WorkEdge
               /\ rule.from \notin {Paused, "INTERRUPTED"}
               /\ rule.to \notin {Paused, "INTERRUPTED"}
      <4>1. places' = places
        BY <3>5, <3>6, <3>7, <3>8 DEF places
      <4>2. rule.to \in Lifecycle!State
        BY RuleShape DEF State, Stoppable, Suspendable, Terminal, Paused,
              Lifecycle!State, Lifecycle!Stoppable, Lifecycle!Suspendable,
              Lifecycle!Terminal, Lifecycle!Paused
      <4>3. QED
        BY <3>5, <3>6, <3>8, <4>1, <4>2
           DEF Lifecycle!Next, Lifecycle!Work, phase, places
    <3>9. CASE rule.context \in {"SET_PAUSE", "SET_INTERRUPT", "SET_INTERRUPT_FROM_PAUSE"}
      <4>1. rule.to \in {Paused, "INTERRUPTED"}
            /\ (rule.from \in Suspendable \/ (rule.from = Paused /\ rule.to = "INTERRUPTED"))
        BY <3>9, RuleShape
      <4>2. places' = [places EXCEPT ![a] = Append(@, phase[a])]
        BY <3>5, <3>7, <3>9
      <4>3. Lifecycle!Suspend(a, rule.to)
        BY <3>5, <3>6, <4>1, <4>2 DEF Lifecycle!Suspend, phase, places, Paused,
              Lifecycle!Suspendable, Lifecycle!Paused, Suspendable
      <4>4. QED
        BY <4>1, <4>3 DEF Lifecycle!Next, Paused, Lifecycle!Paused
    <3>10. CASE rule.context \in {"RESUME_PAUSE", "RECOVER_INTERRUPT"}
      <4>1. rule.from \in {Paused, "INTERRUPTED"}
        BY <3>10, RuleShape
      <4>2. /\ phase' = [phase EXCEPT ![a] = places[a][Len(places[a])]]
            /\ places' = [places EXCEPT ![a] = SubSeq(@, 1, Len(@) - 1)]
        BY <3>5, <3>7, <3>10
      <4>3. QED
        BY <3>6, <4>1, <4>2
           DEF Lifecycle!Next, Lifecycle!Resume, phase, places, Paused, Lifecycle!Paused
    <3>11. CASE rule.from \in Stoppable /\ rule.to = "STOPPED"
      <4>1. WayBack(new) = <<>>
        BY <3>7, <3>11 DEF Paused
      <4>2. QED
        BY <3>5, <3>6, <3>11, <4>1
           DEF Lifecycle!Next, Lifecycle!Stop, phase, places, Stoppable, Suspendable,
               Paused, Lifecycle!Stoppable, Lifecycle!Suspendable, Lifecycle!Paused
    <3>12. QED
      BY <3>8, <3>9, <3>10, <3>11, RuleKinds
  <2>5. QED
    BY <2>1, <2>3, <2>4 DEF Next, vars, ReadSnapshot, Abandon, RecordFinalAcceptance
<1>3. QED
  BY <1>1, <1>2, TypeCorrect, ContextSafety, PTL
     DEF Spec, ImplementsLifecycle, Lifecycle!Spec
=============================================================================
