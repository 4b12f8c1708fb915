----------------------- MODULE WorkstationRelayProofs -----------------------
(***************************************************************************)
(* Proofs about WorkstationRelay: a message is sent at most once, rows     *)
(* tell what happened, the wrong conversation takes three moves, and only  *)
(* a kill strands a row.                                                   *)
(***************************************************************************)
EXTENDS WorkstationRelay, SequenceTheorems, TLAPS

-----------------------------------------------------------------------------
(* The invariant.                                                          *)

\* The owner of an id is the run whose insert the primary key let through.
Unowned == {"idle", "claim", "insert"}
Before == {"source", "discover", "look", "look_identity", "activate", "pre_address",
           "pre_identity", "populate"}
Written == {"again_address", "again_identity", "submit"}
After == {"submitted", "readback", "read", "rendered", "await", "ack"}
Owner(r) == run[r].step \notin Unowned

\* Where the step says that there is an envelope and a tab, there is one.
RunOK ==
    \A r \in Run :
        /\ run[r].step # "idle" => run[r].envelope \in Envelope
        /\ run[r].step \in Armed \cup After \cup {"look", "look_identity", "activate"} => run[r].tab \in Tab

TypeInv == TypeOK /\ RunOK

\* An owner's row is its own, has no receipt yet, and says from the second
\* verification on that Enter may have been pressed.
OwnInv ==
    \A r \in Run : Owner(r) =>
        /\ row[IdAt(r)] # NoRow
        /\ row[IdAt(r)].receipt = NoReceipt
        /\ row[IdAt(r)].envelope = run[r].envelope
        /\ run[r].step \in {"submit"} \cup After => row[IdAt(r)].state \in LateState

OneOwner ==
    \A r, q \in Run : Owner(r) /\ Owner(q) /\ IdAt(r) = IdAt(q) => r = q

\* An id whose text has left the run's hands: it has a row, and the run that
\* owns it, if it still runs, has written the composer.
Out(m) ==
    /\ row[m] # NoRow
    /\ \A r \in Run : Owner(r) /\ IdAt(r) = m => run[r].step \notin Before

\* A text is in one composer or in one message, and never in both.
Place == Tab \X Conversation
DraftInv ==
    /\ \A w \in Place : draft[w] # Empty =>
           /\ Out(IdOf[draft[w]])
           /\ \A v \in Place : draft[v] # Empty /\ IdOf[draft[v]] = IdOf[draft[w]] => v = w
           /\ \A i \in DOMAIN messages : IdOf[messages[i].text] # IdOf[draft[w]]
    /\ \A i \in DOMAIN messages : Out(IdOf[messages[i].text])

\* The run that pressed Enter has not stepped back from it.
Pressed(m) ==
    /\ row[m] # NoRow
    /\ \A r \in Run : Owner(r) /\ IdAt(r) = m => run[r].step \in After
    /\ IF row[m].receipt = NoReceipt THEN row[m].state \in LateState
       ELSE row[m].receipt.submitted \/ row[m].state = "SUBMIT_NOT_ESTABLISHED"
PressInv == \A i \in DOMAIN messages : Pressed(IdOf[messages[i].by])

Acknowledged ==
    \A m \in Id : row[m] # NoRow /\ row[m].state = "ACK_VERIFIED" =>
        \E i \in DOMAIN acks : /\ acks[i].text = row[m].envelope
                               /\ acks[i].status = "RECEIVED_VERIFIED"

AnswerInv ==
    \A a \in answers :
        /\ row[IdOf[a.envelope]] # NoRow
        /\ row[IdOf[a.envelope]].envelope = a.envelope
        /\ row[IdOf[a.envelope]].receipt = a.receipt

\* What the moves of others leave possible at each step of an armed run.
AtTarget(r) == Address = TargetOf[run[r].envelope]
Astray(r) ==
    \E w \in Place : w[2] # TargetOf[run[r].envelope] /\ draft[w] = run[r].envelope
MovedInv ==
    \A r \in Run :
        /\ run[r].step \notin Armed => moved[r] = 0
        /\ run[r].step \in {"pre_identity", "populate"} => AtTarget(r) \/ moved[r] >= 1
        /\ run[r].step = "again_address" /\ Astray(r) =>
               moved[r] >= 2 \/ (moved[r] >= 1 /\ ~AtTarget(r))
        /\ run[r].step \in {"again_identity", "submit"} /\ Astray(r) =>
               moved[r] = 3 \/ (moved[r] >= 2 /\ AtTarget(r))

SafetyInv ==
    /\ OwnInv /\ OneOwner /\ DraftInv /\ SentAtMostOnce /\ PressInv /\ Acknowledged
    /\ AnswerInv /\ MovedInv /\ WrongPlaceTakesThreeMoves /\ StrandedOnlyByKill

-----------------------------------------------------------------------------
(* The kinds of step, as far as the rows and the texts go.                 *)

RunRecord == [step : Step, envelope : Envelope \cup {Empty}, tab : Tab \cup {NoTab},
              todo : SUBSET Tab, found : SUBSET Tab]

\* What one process changes of its run and of its row.
Becomes(r, k) ==
    /\ r \in Run
    /\ run' = [run EXCEPT ![r] = k]
    /\ k \in RunRecord
    /\ k.step # "idle" => k.envelope \in Envelope
    /\ k.step \in Armed \cup After \cup {"look", "look_identity", "activate"} => k.tab \in Tab
RowBecomes(r, w) ==
    /\ IdAt(r) \in Id
    /\ row' = [row EXCEPT ![IdAt(r)] = w]
    /\ w \in Row
    /\ w.envelope = run[r].envelope

Rests == UNCHANGED <<row, run, answers, killed, starts>>

\* A call that has no row of its own, before and after.  What it is told, the
\* row says.
Approaches(r, k) ==
    /\ Becomes(r, k) /\ ~Owner(r) /\ k.step \in Unowned
    /\ UNCHANGED <<row, killed>> /\ starts' \in 0..MaxStarts
    /\ \A a \in answers' \ answers :
           /\ a \in [envelope : Envelope, receipt : Receipt]
           /\ row[IdOf[a.envelope]] # NoRow
           /\ row[IdOf[a.envelope]].envelope = a.envelope
           /\ row[IdOf[a.envelope]].receipt = a.receipt

Takes(r, k, w) ==
    /\ Becomes(r, k) /\ RowBecomes(r, w) /\ ~Owner(r)
    /\ row[IdAt(r)] = NoRow
    /\ k.step = "source" /\ k.envelope = run[r].envelope
    /\ w.state = "CREATED" /\ w.receipt = NoReceipt
    /\ UNCHANGED <<answers, killed, starts>>

\* The owner goes on; from the second verification its row says so.
Goes(r, k, w) ==
    /\ Becomes(r, k) /\ RowBecomes(r, w) /\ Owner(r)
    /\ k.step \notin Unowned /\ k.envelope = run[r].envelope
    /\ k.step \in Before => run[r].step \in Before
    /\ run[r].step \in After => k.step \in After
    /\ k.step \in {"submit"} \cup After => w.state \in LateState
    /\ w.receipt = NoReceipt
    /\ w.state = row[IdAt(r)].state \/ w.state # "ACK_VERIFIED"
    /\ UNCHANGED <<answers, killed, starts>>

Finishes(r, w) ==
    /\ Becomes(r, NoRun) /\ RowBecomes(r, w) /\ Owner(r)
    /\ w.receipt \in Receipt
    /\ run[r].step \in After => w.receipt.submitted
    /\ w.state = "ACK_VERIFIED" =>
           \E i \in DOMAIN acks : /\ acks[i].text = w.envelope
                                  /\ acks[i].status = "RECEIVED_VERIFIED"
    /\ answers' = answers \cup {[envelope |-> w.envelope, receipt |-> w.receipt]}
    /\ UNCHANGED <<killed, starts>>

Dies(r) ==
    /\ Becomes(r, NoRun) /\ Owner(r)
    /\ IdAt(r) \in Id
    /\ killed' = killed \cup {IdAt(r)}
    /\ UNCHANGED <<row, answers, starts>>

\* What it changes of the composers and the conversations.
Untouched == draft' = draft /\ messages' = messages
Fills(r) ==
    /\ r \in Run /\ run[r].step = "populate"
    /\ draft' = [draft EXCEPT ![Composer] = run[r].envelope]
    /\ messages' = messages
Presses(r) ==
    /\ r \in Run /\ run[r].step = "submit"
    /\ draft[Composer] # Empty
    /\ Send(run[r].envelope, moved[r])

Kinds ==
    \/ Rests /\ Untouched
    \/ \E r, k : Approaches(r, k) /\ Untouched
    \/ \E r, k, w : Takes(r, k, w) /\ Untouched
    \/ \E r, k, w : /\ Goes(r, k, w)
                    /\ \/ Untouched
                       \/ Fills(r) /\ k.step = "again_address"
                       \/ Presses(r) /\ k.step = "submitted"
    \/ \E r, w : /\ Finishes(r, w)
                 /\ \/ Untouched
                    \/ Fills(r)
                    \/ Presses(r) /\ w.state = "SUBMIT_NOT_ESTABLISHED"
    \/ \E r : Dies(r) /\ Untouched

\* The typing of one run, and of the row it owns.
LEMMA RunOf ==
    ASSUME TypeInv, NEW r \in Run
    PROVE  /\ run[r] \in RunRecord
           /\ run[r].step \in Step /\ run[r].tab \in Tab \cup {NoTab}
           /\ run[r].todo \subseteq Tab /\ run[r].found \subseteq Tab
           /\ run[r].step # "idle" =>
                 run[r].envelope \in Envelope /\ IdAt(r) \in Id
           /\ run[r].step \in Armed \cup After \cup {"look", "look_identity", "activate"} =>
                 run[r].tab \in Tab
<1>1. run[r] \in RunRecord
  BY DEF TypeInv, TypeOK, RunRecord
<1>2. /\ run[r].step \in Step /\ run[r].tab \in Tab \cup {NoTab}
      /\ run[r].todo \subseteq Tab /\ run[r].found \subseteq Tab
  BY <1>1 DEF RunRecord
<1> QED
  BY <1>1, <1>2, EnvelopesAddressed DEF TypeInv, RunOK, IdAt

\* An owner has a row of the store, and it is its own.
LEMMA RowOf ==
    ASSUME TypeInv, OwnInv, NEW r \in Run, Owner(r)
    PROVE  /\ row[IdAt(r)] \in Row
           /\ row[IdAt(r)].envelope = run[r].envelope
           /\ row[IdAt(r)].receipt = NoReceipt
           /\ row[IdAt(r)].state \in EarlyState \cup LateState \cup FinalState
           /\ run[r].envelope \in Envelope
           /\ IdAt(r) \in Id /\ run[r].step \in Step
<1>1. run[r].step # "idle"
  BY DEF Owner, Unowned
<1>2. IdAt(r) \in Id /\ run[r].envelope \in Envelope /\ run[r].step \in Step
  BY <1>1, RunOf
<1>3. row[IdAt(r)] \in Row
  BY <1>2 DEF TypeInv, TypeOK, OwnInv
<1> QED
  BY <1>2, <1>3 DEF OwnInv, Row

\* What the two ways of changing a run come to.
LEMMA GoingTo ==
    ASSUME TypeInv, NEW r \in Run, run[r].step # "idle", NEW s \in Step \ {"idle"}, Goto(r, s),
           s \in Armed \cup After \cup {"look", "look_identity", "activate"} => run[r].tab \in Tab
    PROVE  \E k : Becomes(r, k) /\ k.step = s /\ k.envelope = run[r].envelope
<1> DEFINE k == [run[r] EXCEPT !.step = s]
<1>1. /\ k \in RunRecord /\ k.step = s /\ k.envelope = run[r].envelope
      /\ k.tab = run[r].tab
  BY RunOf DEF RunRecord
<1>2. run' = [run EXCEPT ![r] = k]
  BY DEF Goto
<1> HIDE DEF k
<1> QED
  BY <1>1, <1>2, RunOf DEF Becomes

\* A run that leaves is no run.
LEMMA Leaving ==
    ASSUME TypeInv, NEW r \in Run, Leave(r)
    PROVE  Becomes(r, NoRun) /\ NoRun.step = "idle"
<1>1. NoRun \in RunRecord /\ NoRun.step = "idle"
  BY DEF NoRun, RunRecord, Step
<1> QED
  BY <1>1 DEF Becomes, Leave, Armed, After

\* A step that writes a state on the way.
LEMMA RowGoesOn ==
    ASSUME TypeInv, OwnInv, NEW r \in Run, Owner(r),
           NEW s \in EarlyState \cup LateState \cup FinalState,
           row' = [row EXCEPT ![IdAt(r)].state = s]
    PROVE  \E w : RowBecomes(r, w) /\ w.state = s /\ w.receipt = NoReceipt
<1> DEFINE w == [row[IdAt(r)] EXCEPT !.state = s]
<1>1. /\ w \in Row /\ w.state = s /\ w.receipt = NoReceipt
      /\ w.envelope = run[r].envelope
  BY RowOf DEF Row
<1>2. row' = [row EXCEPT ![IdAt(r)] = w]
  OBVIOUS
<1> HIDE DEF w
<1> QED
  BY <1>1, <1>2, RowOf DEF RowBecomes

\* A step that writes nothing.
LEMMA RowStays ==
    ASSUME TypeInv, OwnInv, NEW r \in Run, Owner(r), row' = row
    PROVE  RowBecomes(r, row[IdAt(r)])
<1>1. row' = [row EXCEPT ![IdAt(r)] = row[IdAt(r)]]
  BY DEF TypeInv, TypeOK
<1> QED
  BY <1>1, RowOf DEF RowBecomes

\* finish() ends the run of an owner, whatever it ends with.
LEMMA Finishing ==
    ASSUME TypeInv, OwnInv, NEW r \in Run, Owner(r), run[r].step # "submitted",
           NEW final \in FinalState, Finish(r, final),
           final = "ACK_VERIFIED" =>
               \E i \in DOMAIN acks : /\ acks[i].text = run[r].envelope
                                      /\ acks[i].status = "RECEIVED_VERIFIED"
    PROVE  \E w : Finishes(r, w) /\ w.state = final
<1> DEFINE receipt == ReceiptAt(r, final)
           w == [row[IdAt(r)] EXCEPT !.state = final, !.receipt = receipt]
<1>1. receipt \in Receipt /\ (run[r].step \in After => receipt.submitted)
  <2>1. (run[r].step \in {"readback", "read", "rendered", "await", "ack"}) \in BOOLEAN
        /\ (run[r].step \in {"rendered", "await", "ack"}) \in BOOLEAN
    OBVIOUS
  <2>2. receipt \in Receipt
    BY <2>1 DEF ReceiptAt, Receipt
  <2>3. run[r].step \in After => run[r].step \in {"readback", "read", "rendered", "await", "ack"}
    BY DEF After
  <2>4. receipt.submitted = (run[r].step \in {"readback", "read", "rendered", "await", "ack"})
    BY Zenon DEF ReceiptAt
  <2> QED
    BY <2>2, <2>3, <2>4
<1>2. /\ row' = [row EXCEPT ![IdAt(r)].state = final, ![IdAt(r)].receipt = receipt]
      /\ answers' = answers \cup {[envelope |-> run[r].envelope, receipt |-> receipt]}
      /\ Leave(r) /\ UNCHANGED <<killed, starts>>
  BY DEF Finish
<1> HIDE DEF receipt
<1>3. /\ w \in Row /\ w.state = final /\ w.receipt = receipt
      /\ w.envelope = run[r].envelope
  BY <1>1, RowOf DEF Row
<1>4. row' = [row EXCEPT ![IdAt(r)] = w]
  BY <1>2
<1> HIDE DEF w
<1>5. RowBecomes(r, w)
  BY <1>3, <1>4, RowOf DEF RowBecomes
<1>6. Becomes(r, NoRun)
  BY <1>2, Leaving
<1> QED
  BY <1>1, <1>2, <1>3, <1>5, <1>6 DEF Finishes

\* An owner's run that goes on without finishing.
LEMMA GoingOn ==
    ASSUME TypeInv, OwnInv, NEW r \in Run, Owner(r), NEW k, NEW w,
           Becomes(r, k), RowBecomes(r, w),
           k.step \notin Unowned, k.envelope = run[r].envelope,
           k.step \in Before => run[r].step \in Before,
           run[r].step \in After => k.step \in After,
           k.step \in {"submit"} \cup After =>
               \/ w.state \in LateState
               \/ w.state = row[IdAt(r)].state /\ run[r].step \in {"submit"} \cup After,
           w.receipt = NoReceipt,
           w.state = row[IdAt(r)].state \/ w.state # "ACK_VERIFIED",
           UNCHANGED <<answers, killed, starts>>
    PROVE  Goes(r, k, w)
BY DEF Goes, OwnInv

\* A step that only goes on to another.
LEMMA GoingOnTo ==
    ASSUME TypeInv, OwnInv, NEW r \in Run, Owner(r), NEW s \in Step \ Unowned,
           s \in Before => run[r].step \in Before,
           run[r].step \in After => s \in After,
           s \in {"submit"} \cup After => run[r].step \in {"submit"} \cup After,
           Goto(r, s), row' = row, UNCHANGED <<answers, killed, starts>>,
           s \in Armed \cup After \cup {"look", "look_identity", "activate"} => run[r].tab \in Tab
    PROVE  \E k, w : Goes(r, k, w) /\ k.step = s
<1>1. PICK k : Becomes(r, k) /\ k.step = s /\ k.envelope = run[r].envelope
  BY GoingTo DEF Unowned, Owner
<1>2. RowBecomes(r, row[IdAt(r)]) /\ row[IdAt(r)].receipt = NoReceipt
  BY RowStays, RowOf
<1>3. Goes(r, k, row[IdAt(r)])
  BY <1>1, <1>2, GoingOn
<1> QED
  BY <1>1, <1>3

\* advance() writes a state and goes on.
LEMMA Advancing ==
    ASSUME TypeInv, OwnInv, NEW r \in Run, Owner(r), NEW s \in Step \ Unowned,
           NEW state \in EarlyState \cup LateState,
           s \in Before => run[r].step \in Before,
           run[r].step \in After => s \in After,
           s \in {"submit"} \cup After => state \in LateState,
           Advance(r, state, s),
           s \in Armed \cup After \cup {"look", "look_identity", "activate"} => run[r].tab \in Tab
    PROVE  \E k, w : Goes(r, k, w) /\ k.step = s
<1>1. PICK k : Becomes(r, k) /\ k.step = s /\ k.envelope = run[r].envelope
  BY GoingTo DEF Unowned, Owner, Advance
<1>2. PICK w : RowBecomes(r, w) /\ w.state = state /\ w.receipt = NoReceipt
  BY RowGoesOn DEF Advance
<1>3. state # "ACK_VERIFIED"
  BY DEF EarlyState, LateState
<1>4. Goes(r, k, w)
  BY <1>1, <1>2, <1>3, GoingOn DEF Advance
<1> QED
  BY <1>1, <1>4

\* A step that changes the run in more than its step.
LEMMA Changing ==
    ASSUME TypeInv, OwnInv, NEW r \in Run, Owner(r), NEW k \in RunRecord,
           run' = [run EXCEPT ![r] = k],
           k.step \in Before \ {"look", "look_identity", "activate"} \/ (k.step \in Before /\ k.tab \in Tab),
           k.step \notin Armed, run[r].step \in Before, k.envelope = run[r].envelope,
           \/ row' = row
           \/ \E s \in EarlyState : row' = [row EXCEPT ![IdAt(r)].state = s],
           UNCHANGED <<answers, killed, starts>>
    PROVE  \E w : Goes(r, k, w)
<1>1. PICK w : RowBecomes(r, w) /\ w.receipt = NoReceipt
               /\ (w.state = row[IdAt(r)].state \/ w.state # "ACK_VERIFIED")
  <2>1. CASE row' = row
    BY <2>1, RowStays, RowOf
  <2>2. CASE \E s \in EarlyState : row' = [row EXCEPT ![IdAt(r)].state = s]
    <3>1. PICK s \in EarlyState : row' = [row EXCEPT ![IdAt(r)].state = s]
      BY <2>2
    <3>2. s # "ACK_VERIFIED"
      BY DEF EarlyState
    <3>3. PICK w : RowBecomes(r, w) /\ w.state = s /\ w.receipt = NoReceipt
      BY <3>1, RowGoesOn
    <3> QED
      BY <3>2, <3>3
  <2> QED
    BY <2>1, <2>2
<1>2. Becomes(r, k)
  BY RowOf DEF Becomes, After, Before
<1>3. /\ k.step \notin Unowned /\ k.step \in Before
      /\ k.step \notin {"submit"} \cup After /\ run[r].step \notin After
  BY DEF Before, Unowned, After
<1> QED
  BY <1>1, <1>2, <1>3, GoingOn

\* The steps of an owner up to the write of the composer.
LEMMA OwnersApproach ==
    ASSUME TypeInv, OwnInv, NEW r \in Run,
           \/ VerifySource(r) \/ SelectCandidate(r) \/ CandidateAddress(r)
           \/ CandidateIdentity(r) \/ Choose(r) \/ Activate(r) \/ SnapshotAddress(r) \/ SnapshotIdentity(r) \/ Populate(r)
    PROVE  Kinds
<1> DEFINE Went == \E k, w : Goes(r, k, w)
           Ended == \E w : Finishes(r, w)
<1>own. Owner(r) /\ run[r].step # "submitted"
  BY DEF Owner, Unowned, VerifySource, SelectCandidate, CandidateAddress, CandidateIdentity,
         Choose, Activate, SnapshotAddress, SnapshotIdentity, Populate, At
<1>end. ASSUME NEW f \in UnsentState, Finish(r, f) PROVE Ended
  <2>1. f \in FinalState /\ f # "ACK_VERIFIED"
    BY DEF UnsentState, FinalState
  <2> QED
    BY <1>own, <1>end, <2>1, Finishing
<1>run. run[r] \in RunRecord /\ run[r].todo \subseteq Tab /\ run[r].found \subseteq Tab
  BY RunOf
<1>1. ASSUME VerifySource(r) PROVE Kinds
  <2>1. Untouched /\ run[r].step = "source"
    BY <1>1 DEF VerifySource, At, browser, window, Untouched
  <2>2. CASE /\ row' = [row EXCEPT ![IdAt(r)].state = "BUS_BOUND"]
             /\ run' = [run EXCEPT ![r].step = "discover", ![r].todo = Tab]
             /\ UNCHANGED <<answers, killed, starts>>
    <3> DEFINE k == [run[r] EXCEPT !.step = "discover", !.todo = Tab]
    <3>1. /\ k \in RunRecord /\ k.step = "discover"
          /\ k.envelope = run[r].envelope
      BY <1>run DEF RunRecord, Step
    <3>2. run' = [run EXCEPT ![r] = k]
      BY <2>2
    <3> HIDE DEF k
    <3>3. \E s \in EarlyState : row' = [row EXCEPT ![IdAt(r)].state = s]
      BY <2>2 DEF EarlyState
    <3>4. Went
      BY <1>own, <2>1, <2>2, <3>1, <3>2, <3>3, Changing DEF Before, Armed
    <3> QED
      BY <2>1, <3>4 DEF Kinds
  <2>3. CASE Finish(r, "SOURCE_BUS_UNVERIFIED")
    BY <2>1, <2>3, <1>end DEF UnsentState, Kinds
  <2> QED
    BY <1>1, <2>2, <2>3 DEF VerifySource
<1>2. ASSUME SelectCandidate(r) PROVE Kinds
  <2>1. Untouched /\ run[r].step = "discover"
    BY <1>2 DEF SelectCandidate, At, Untouched
  <2>2. PICK t \in run[r].todo :
           run' = [run EXCEPT ![r].step = "look", ![r].tab = t, ![r].todo = @ \ {t}]
    BY <1>2 DEF SelectCandidate
  <2> DEFINE k == [run[r] EXCEPT !.step = "look", !.tab = t, !.todo = @ \ {t}]
  <2>3. /\ k \in RunRecord /\ k.step = "look" /\ k.tab \in Tab
        /\ k.envelope = run[r].envelope
    BY <1>run DEF RunRecord, Step
  <2>4. run' = [run EXCEPT ![r] = k]
    BY <2>2
  <2> HIDE DEF k
  <2>5. Went
    BY <1>own, <1>2, <2>1, <2>3, <2>4, Changing DEF Before, Armed, SelectCandidate
  <2> QED
    BY <2>1, <2>5 DEF Kinds
<1>next. ASSUME NEW more \in {{}, {run[r].tab}}, NextCandidate(r, more), Untouched,
                run[r].step \in {"look", "look_identity"},
                UNCHANGED <<row, answers, killed, starts>>
         PROVE  Kinds
  <2>2. run' = [run EXCEPT ![r].step = "discover", ![r].tab = NoTab,
                           ![r].found = @ \cup more]
    BY <1>next DEF NextCandidate
  <2> DEFINE k == [run[r] EXCEPT !.step = "discover", !.tab = NoTab, !.found = @ \cup more]
  <2>3. more \subseteq Tab
    BY <1>next, RunOf
  <2>4. k \in RunRecord /\ k.step = "discover" /\ k.envelope = run[r].envelope
    BY <1>run, <2>3 DEF RunRecord, Step
  <2>5. run' = [run EXCEPT ![r] = k]
    BY <2>2
  <2> HIDE DEF k
  <2>6. Went
    BY <1>own, <1>next, <2>4, <2>5, Changing DEF Before, Armed
  <2> QED
    BY <1>next, <2>6 DEF Kinds
<1>3. ASSUME CandidateAddress(r) PROVE Kinds
  <2>1. /\ Untouched /\ run[r].step = "look" /\ run[r].tab \in Tab
        /\ UNCHANGED <<row, answers, killed, starts>>
    BY <1>3, RunOf DEF CandidateAddress, At, Untouched, browser, window
  <2>2. CASE Goto(r, "look_identity")
    <3>1. Went
      BY <1>own, <2>1, <2>2, GoingOnTo DEF Before, After, Step, Armed, Unowned
    <3> QED
      BY <2>1, <3>1 DEF Kinds
  <2>3. CASE NextCandidate(r, {})
    BY <1>next, <2>1, <2>3
  <2> QED
    BY <1>3, <2>2, <2>3 DEF CandidateAddress
<1>id. ASSUME CandidateIdentity(r) PROVE Kinds
  <2>1. /\ Untouched /\ run[r].step = "look_identity"
        /\ UNCHANGED <<row, answers, killed, starts>>
    BY <1>id DEF CandidateIdentity, At, Untouched, browser, window
  <2>2. \E more \in {{}, {run[r].tab}} : NextCandidate(r, more)
    BY <1>id DEF CandidateIdentity
  <2> QED
    BY <1>next, <2>1, <2>2
<1>4. ASSUME Choose(r) PROVE Kinds
  <2>1. Untouched /\ run[r].step = "discover"
    BY <1>4 DEF Choose, At, Untouched, browser, window
  <2>2. CASE Finish(r, "TARGET_NOT_FOUND") \/ Finish(r, "TARGET_AMBIGUOUS")
    BY <2>1, <2>2, <1>end DEF UnsentState, Kinds
  <2>3. ASSUME NEW t \in Tab, run[r].found = {t},
               row' = [row EXCEPT ![IdAt(r)].state = "TARGET_DISCOVERED"],
               run' = [run EXCEPT ![r].step = "activate", ![r].found = {},
                                  ![r].tab = CHOOSE u \in run[r].found : TRUE],
               UNCHANGED <<answers, killed, starts>>
        PROVE  Kinds
    <3>1. (CHOOSE u \in run[r].found : TRUE) = t
      BY <2>3
    <3> DEFINE k == [run[r] EXCEPT !.step = "activate", !.found = {}, !.tab = t]
    <3>2. /\ k \in RunRecord /\ k.step = "activate" /\ k.tab \in Tab
          /\ k.envelope = run[r].envelope
      BY <1>run DEF RunRecord, Step
    <3>3. run' = [run EXCEPT ![r] = k]
      BY <2>3, <3>1
    <3> HIDE DEF k
    <3>4. \E s \in EarlyState : row' = [row EXCEPT ![IdAt(r)].state = s]
      BY <2>3 DEF EarlyState
    <3>5. Went
      BY <1>own, <2>1, <2>3, <3>2, <3>3, <3>4, Changing DEF Before, Armed
    <3> QED
      BY <2>1, <3>5 DEF Kinds
  <2> QED
    BY <1>4, <2>2, <2>3 DEF Choose
<1>5. ASSUME Activate(r) PROVE Kinds
  <2>1. Untouched /\ run[r].step = "activate" /\ row' = row /\ Goto(r, "pre_address")
        /\ UNCHANGED <<answers, killed, starts>> /\ run[r].tab \in Tab
    BY <1>5, RunOf DEF Activate, At, Untouched
  <2>2. Went
    BY <1>own, <2>1, GoingOnTo DEF Before, After, Step, Armed, Unowned
  <2> QED
    BY <2>1, <2>2 DEF Kinds
<1>6. ASSUME SnapshotAddress(r) PROVE Kinds
  <2>1. Untouched /\ run[r].step \in {"pre_address", "again_address"} /\ run[r].tab \in Tab
    BY <1>6, RunOf DEF SnapshotAddress, Untouched, browser, window, Armed
  <2>2. CASE Finish(r, "TARGET_CHANGED_PRE_SUBMIT")
    BY <2>1, <2>2, <1>end DEF UnsentState, Kinds
  <2>3. CASE /\ Goto(r, IF At(r, "pre_address") THEN "pre_identity" ELSE "again_identity")
             /\ UNCHANGED <<row, answers, killed, starts>>
    <3>1. /\ At(r, "pre_address") => Goto(r, "pre_identity")
          /\ ~At(r, "pre_address") => Goto(r, "again_identity") /\ run[r].step = "again_address"
      BY <2>1, <2>3 DEF At
    <3>2. CASE At(r, "pre_address")
      <4>1. Went
        BY <1>own, <2>1, <2>3, <3>1, <3>2, GoingOnTo
           DEF At, Before, After, Step, Armed, Unowned
      <4> QED
        BY <2>1, <4>1 DEF Kinds
    <3>3. CASE ~At(r, "pre_address")
      <4>1. Went
        BY <1>own, <2>1, <2>3, <3>1, <3>3, GoingOnTo
           DEF Before, After, Step, Armed, Unowned
      <4> QED
        BY <2>1, <4>1 DEF Kinds
    <3> QED
      BY <3>2, <3>3
  <2> QED
    BY <1>6, <2>2, <2>3 DEF SnapshotAddress
<1>7. ASSUME SnapshotIdentity(r) PROVE Kinds
  <2>1. Untouched /\ run[r].step \in {"pre_identity", "again_identity"} /\ run[r].tab \in Tab
    BY <1>7, RunOf DEF SnapshotIdentity, Untouched, browser, window, Armed
  <2>2. CASE Finish(r, "TARGET_CHANGED_PRE_SUBMIT")
    BY <2>1, <2>2, <1>end DEF UnsentState, Kinds
  <2>3. CASE At(r, "pre_identity") /\ Advance(r, "TARGET_VERIFIED_PREWRITE", "populate")
    <3>1. Went
      BY <1>own, <2>1, <2>3, Advancing
         DEF At, Before, After, Step, Armed, Unowned, EarlyState
    <3> QED
      BY <2>1, <3>1 DEF Kinds
  <2>4. CASE Advance(r, "TARGET_REVERIFIED_PRESUBMIT", "submit")
    <3>1. Went
      BY <1>own, <2>1, <2>4, Advancing
         DEF Before, After, Step, Armed, Unowned, LateState
    <3> QED
      BY <2>1, <3>1 DEF Kinds
  <2> QED
    BY <1>7, <2>2, <2>3, <2>4 DEF SnapshotIdentity
<1>8. ASSUME Populate(r) PROVE Kinds
  <2>1. Fills(r) /\ run[r].step = "populate" /\ run[r].tab \in Tab
    BY <1>8, RunOf DEF Populate, At, Fills, WriteComposer, Armed
  <2>2. CASE Advance(r, "COMPOSER_POPULATED", "again_address")
    <3>1. \E k, w : Goes(r, k, w) /\ k.step = "again_address"
      BY <1>own, <2>1, <2>2, Advancing
         DEF Before, After, Step, Armed, Unowned, EarlyState
    <3> QED
      BY <2>1, <3>1 DEF Kinds
  <2>3. CASE Finish(r, FailureOf("populate"))
    <3>1. FailureOf("populate") \in UnsentState
      BY DEF FailureOf, UnsentState
    <3>2. Ended
      BY <1>end, <2>3, <3>1
    <3> QED
      BY <2>1, <3>2 DEF Kinds
  <2> QED
    BY <1>8, <2>2, <2>3 DEF Populate
<1> QED
  BY <1>1, <1>2, <1>3, <1>4, <1>5, <1>6, <1>7, <1>8, <1>id

\* The steps of an owner from the key on, and those that end it early.
LEMMA OwnersGoOn ==
    ASSUME TypeInv, OwnInv, NEW r \in Run,
           \/ Submit(r) \/ RecordSubmit(r) \/ SelectAgain(r) \/ ReadRendered(r)
           \/ AwaitAck(r) \/ ReadAck(r) \/ PollAgain(r) \/ TimeOut(r) \/ TargetRaises(r)
    PROVE  Kinds
<1> DEFINE Went == \E k, w : Goes(r, k, w)
           Ended == \E w : Finishes(r, w)
<1>own. Owner(r)
  BY DEF Owner, Unowned, Submit, RecordSubmit, SelectAgain, ReadRendered, AwaitAck, ReadAck,
         PollAgain, TimeOut, TargetRaises, At, Armed
<1>tab. run[r].step \in Armed \cup After => run[r].tab \in Tab
  BY RunOf
<1>1. ASSUME Submit(r) PROVE Kinds
  <2>1. run[r].step = "submit" /\ run[r].tab \in Tab
    BY <1>1, <1>tab DEF Submit, At, Armed
  <2>2. Untouched \/ Presses(r)
    BY <1>1, <2>1 DEF Submit, Sends, Presses, Untouched
  <2>3. CASE Goto(r, "submitted") /\ UNCHANGED <<row, answers, killed, starts>>
    <3>1. \E k, w : Goes(r, k, w) /\ k.step = "submitted"
      BY <1>own, <2>1, <2>3, GoingOnTo DEF Before, After, Step, Armed, Unowned
    <3> QED
      BY <2>2, <3>1 DEF Kinds
  <2>4. CASE Finish(r, FailureOf("submit"))
    <3>1. FailureOf("submit") = "SUBMIT_NOT_ESTABLISHED"
      BY DEF FailureOf
    <3>2. Finish(r, "SUBMIT_NOT_ESTABLISHED")
      BY <2>4, <3>1
    <3>3. \E w : Finishes(r, w) /\ w.state = "SUBMIT_NOT_ESTABLISHED"
      BY <1>own, <2>1, <3>2, Finishing DEF FinalState
    <3> QED
      BY <2>2, <3>3 DEF Kinds
  <2> QED
    BY <1>1, <2>3, <2>4 DEF Submit
<1>2. ASSUME RecordSubmit(r) \/ ReadRendered(r) \/ AwaitAck(r) PROVE Kinds
  <2>1. /\ Untouched /\ run[r].step \in After
        /\ \/ Advance(r, "SUBMITTED", "readback")
           \/ Advance(r, "RENDERED_READBACK_VERIFIED", "rendered")
           \/ Advance(r, "ACK_PENDING", "await")
    BY <1>2 DEF RecordSubmit, ReadRendered, AwaitAck, At, Untouched, browser, window, After
  <2>2. Went
    BY <1>own, <1>tab, <2>1, Advancing DEF Before, After, Step, Unowned, LateState
  <2> QED
    BY <2>1, <2>2 DEF Kinds
<1>3. ASSUME SelectAgain(r) \/ PollAgain(r) PROVE Kinds
  <2>1. /\ Untouched /\ run[r].step \in After
        /\ UNCHANGED <<row, answers, killed, starts>>
        /\ \E s \in After \ {"submitted"} : Goto(r, s)
    BY <1>3 DEF SelectAgain, PollAgain, At, Untouched, browser, window, After
  <2>2. Went
    BY <1>own, <1>tab, <2>1, GoingOnTo DEF Before, After, Step, Unowned
  <2> QED
    BY <2>1, <2>2 DEF Kinds
<1>4. ASSUME ReadAck(r) PROVE Kinds
  <2>1. Untouched /\ run[r].step = "ack"
    BY <1>4 DEF ReadAck, At, Untouched, browser, window
  <2>2. PICK i \in AckSeen(r) : Finish(r, Parsed(run[r].envelope, acks[i]))
    BY <1>4 DEF ReadAck
  <2>3. i \in DOMAIN acks
    BY <2>2 DEF AckSeen, Acknowledgements
  <2>4. Parsed(run[r].envelope, acks[i]) \in FinalState
    BY DEF Parsed, FinalState, SentState
  <2>5. Parsed(run[r].envelope, acks[i]) = "ACK_VERIFIED" =>
            acks[i].text = run[r].envelope /\ acks[i].status = "RECEIVED_VERIFIED"
    BY DEF Parsed
  <2>6. Ended
    BY <1>own, <2>1, <2>2, <2>3, <2>4, <2>5, Finishing
  <2> QED
    BY <2>1, <2>6 DEF Kinds
<1>5. ASSUME TimeOut(r) \/ TargetRaises(r) PROVE Kinds
  <2>1. Untouched /\ run[r].step # "submitted"
    BY <1>5 DEF TimeOut, TargetRaises, Untouched, browser, window, Armed
  <2>2. FailureOf(run[r].step) \in FinalState /\ FailureOf(run[r].step) # "ACK_VERIFIED"
    BY DEF FailureOf, FinalState, UnsentState
  <2>3. \E f \in FinalState \ {"ACK_VERIFIED"} : Finish(r, f)
    BY <1>5, <2>2 DEF TimeOut, TargetRaises, FinalState, SentState
  <2>4. Ended
    BY <1>own, <2>1, <2>3, Finishing
  <2> QED
    BY <2>1, <2>4 DEF Kinds
<1> QED
  BY <1>1, <1>2, <1>3, <1>4, <1>5

\* The steps of a call that owns nothing, and its death.
LEMMA CallersStep ==
    ASSUME TypeInv, OwnInv, NEW r \in Run,
           Start(r) \/ Claim(r) \/ Insert(r) \/ Kill(r)
    PROVE  Kinds
<1>typ. starts \in 0..MaxStarts /\ row \in [Id -> Row \cup {NoRow}]
  BY DEF TypeInv, TypeOK
<1>1. ASSUME Start(r) PROVE Kinds
  <2>1. PICK e \in Envelope :
           run' = [run EXCEPT ![r] = [NoRun EXCEPT !.step = "claim", !.envelope = e]]
    BY <1>1 DEF Start
  <2> DEFINE k == [NoRun EXCEPT !.step = "claim", !.envelope = e]
  <2>2. k \in RunRecord /\ k.step = "claim" /\ k.envelope = e
    BY DEF NoRun, RunRecord, Step
  <2>3. run' = [run EXCEPT ![r] = k]
    BY <2>1
  <2> HIDE DEF k
  <2>4. Becomes(r, k)
    BY <2>2, <2>3 DEF Becomes, Armed, After
  <2>5. starts' \in 0..MaxStarts
    <3>1. starts < MaxStarts /\ starts' = starts + 1
      BY <1>1, Zenon DEF Start
    <3> QED
      BY <3>1, <1>typ, BoundsAreNumbers
  <2>6. Untouched /\ run[r].step = "idle" /\ UNCHANGED <<row, answers, killed>>
    BY <1>1 DEF Start, At, Untouched, browser, window
  <2>7. Approaches(r, k)
    BY <2>2, <2>4, <2>5, <2>6 DEF Approaches, Owner, Unowned
  <2> QED
    BY <2>6, <2>7 DEF Kinds
<1>2. ASSUME Claim(r) PROVE Kinds
  <2>1. /\ run[r].step = "claim" /\ Untouched /\ run[r].envelope \in Envelope
        /\ IdAt(r) \in Id /\ UNCHANGED <<row, killed, starts>>
    BY <1>2, RunOf DEF Claim, At, Untouched, browser, window
  <2>2. CASE Unclaimed(r)
    <3>1. Goto(r, "insert") /\ UNCHANGED answers
      BY <1>2, <2>2 DEF Claim
    <3>2. PICK k : Becomes(r, k) /\ k.step = "insert"
      BY <2>1, <3>1, GoingTo DEF Step, Armed, After
    <3>3. Approaches(r, k)
      BY <1>typ, <2>1, <3>1, <3>2 DEF Approaches, Owner, Unowned
    <3> QED
      BY <2>1, <3>3 DEF Kinds
  <2>3. CASE ~Unclaimed(r)
    <3>1. /\ Leave(r)
          /\ answers' = answers \cup
                 {[envelope |-> run[r].envelope, receipt |-> x] :
                      x \in IF SameEnvelope(r)
                            THEN {row[IdAt(r)].receipt} \ {NoReceipt} ELSE {}}
      BY <1>2, <2>3 DEF Claim
    <3>2. row[IdAt(r)] \in Row /\ row[IdAt(r)].receipt \in Receipt \cup {NoReceipt}
          /\ row[IdAt(r)] # NoRow
      BY <1>typ, <2>1, <2>3 DEF Unclaimed, Row
    <3>3. ASSUME NEW a \in answers' \ answers
          PROVE  /\ a \in [envelope : Envelope, receipt : Receipt]
                 /\ row[IdOf[a.envelope]] # NoRow
                 /\ row[IdOf[a.envelope]].envelope = a.envelope
                 /\ row[IdOf[a.envelope]].receipt = a.receipt
      <4>1. /\ a = [envelope |-> run[r].envelope, receipt |-> row[IdAt(r)].receipt]
            /\ SameEnvelope(r) /\ row[IdAt(r)].receipt # NoReceipt
        BY <3>1, <3>3
      <4>2. a.envelope = run[r].envelope /\ a.receipt = row[IdAt(r)].receipt
        BY <4>1
      <4> QED
        BY <2>1, <3>2, <4>1, <4>2 DEF SameEnvelope, IdAt
    <3>4. Becomes(r, NoRun) /\ NoRun.step = "idle"
      BY <3>1, Leaving
    <3>5. Approaches(r, NoRun)
      BY <1>typ, <2>1, <3>3, <3>4 DEF Approaches, Owner, Unowned
    <3> QED
      BY <2>1, <3>5 DEF Kinds
  <2> QED
    BY <2>2, <2>3
<1>3. ASSUME Insert(r) PROVE Kinds
  <2>1. /\ run[r].step = "insert" /\ Untouched /\ run[r].envelope \in Envelope
        /\ IdAt(r) \in Id /\ UNCHANGED <<answers, killed, starts>>
    BY <1>3, RunOf DEF Insert, At, Untouched, browser, window
  <2>2. CASE Unclaimed(r)
    <3> DEFINE w == [envelope |-> run[r].envelope, state |-> "CREATED", receipt |-> NoReceipt]
    <3>1. w \in Row /\ w.envelope = run[r].envelope /\ w.state = "CREATED"
          /\ w.receipt = NoReceipt
      BY <2>1 DEF Row, EarlyState
    <3>2. row' = [row EXCEPT ![IdAt(r)] = w] /\ Goto(r, "source")
      BY <1>3, <2>2 DEF Insert
    <3> HIDE DEF w
    <3>3. PICK k : Becomes(r, k) /\ k.step = "source" /\ k.envelope = run[r].envelope
      BY <2>1, <3>2, GoingTo DEF Step, Armed, After
    <3>4. Takes(r, k, w)
      BY <2>1, <2>2, <3>1, <3>2, <3>3 DEF Takes, RowBecomes, Owner, Unowned, Unclaimed
    <3> QED
      BY <2>1, <3>4 DEF Kinds
  <2>3. CASE ~Unclaimed(r)
    <3>1. Leave(r) /\ UNCHANGED row
      BY <1>3, <2>3 DEF Insert
    <3>2. Becomes(r, NoRun) /\ NoRun.step = "idle"
      BY <3>1, Leaving
    <3>3. Approaches(r, NoRun)
      BY <1>typ, <2>1, <3>1, <3>2 DEF Approaches, Owner, Unowned
    <3> QED
      BY <2>1, <3>3 DEF Kinds
  <2> QED
    BY <2>2, <2>3
<1>4. ASSUME Kill(r) PROVE Kinds
  <2>1. /\ Untouched /\ Becomes(r, NoRun) /\ NoRun.step = "idle"
        /\ UNCHANGED <<row, answers, starts>> /\ run[r].step # "idle" /\ IdAt(r) \in Id
        /\ killed' = IF run[r].step \in {"claim", "insert"} THEN killed
                     ELSE killed \cup {IdAt(r)}
    BY <1>4, Leaving, RunOf DEF Kill, At, Untouched, browser, window
  <2>2. CASE run[r].step \in {"claim", "insert"}
    <3>1. Approaches(r, NoRun)
      BY <1>typ, <2>1, <2>2 DEF Approaches, Owner, Unowned
    <3> QED
      BY <2>1, <3>1 DEF Kinds
  <2>3. CASE run[r].step \notin {"claim", "insert"}
    <3>1. Dies(r)
      BY <2>1, <2>3 DEF Dies, Owner, Unowned
    <3> QED
      BY <2>1, <3>1 DEF Kinds
  <2> QED
    BY <2>2, <2>3
<1> QED
  BY <1>1, <1>2, <1>3, <1>4

\* Every step is of one of these kinds.
LEMMA EveryStepIsOneOfThese ==
    TypeInv /\ OwnInv /\ [Next]_vars => Kinds
<1> SUFFICES ASSUME TypeInv, OwnInv, [Next]_vars PROVE Kinds
  OBVIOUS
<1>1. CASE Environment
  <2>1. Rests /\ Untouched
    BY <1>1 DEF Environment, UserMoves, SomebodyAcknowledges, window, relay, Rests, Untouched
  <2> QED
    BY <2>1 DEF Kinds
<1>2. CASE UNCHANGED vars
  <2>1. Rests /\ Untouched
    BY <1>2 DEF vars, browser, window, relay, Rests, Untouched
  <2> QED
    BY <2>1 DEF Kinds
<1>3. ASSUME NEW r \in Run, RunStep(r) \/ Start(r) \/ Kill(r) PROVE Kinds
  BY <1>3, OwnersApproach, OwnersGoOn, CallersStep DEF RunStep
<1> QED
  BY <1>1, <1>2, <1>3 DEF Next

-----------------------------------------------------------------------------
(* The kinds of step, as far as the window goes.                           *)

\* Who looks for its target may select a tab; who is past its first look at
\* the address leaves the window alone, and goes from check to check.
Looks(r) ==
    /\ UNCHANGED <<page, acks, moves>>
    /\ \/ active' = active
       \/ active' \in Tab /\ run'[r].step \in {"look", "pre_address", "read", "ack"}
    /\ \/ run'[r].step \notin Armed \ {"pre_address"}
       \/ /\ run'[r].step = "pre_identity" /\ run[r].step = "pre_address"
          /\ AtTarget(r) /\ run'[r].envelope = run[r].envelope
       \/ /\ run'[r].step = "populate" /\ run[r].step = "pre_identity"
          /\ run'[r].envelope = run[r].envelope
       \/ /\ run'[r].step = "again_address" /\ run[r].step = "populate"
          /\ Fills(r) /\ run'[r].envelope = run[r].envelope
       \/ /\ run'[r].step = "again_identity" /\ run[r].step = "again_address"
          /\ AtTarget(r) /\ run'[r].envelope = run[r].envelope /\ Untouched
       \/ /\ run'[r].step = "submit" /\ run[r].step = "again_identity"
          /\ run'[r].envelope = run[r].envelope /\ Untouched

\* Every step of a process looks at the window in this way.
LEMMA EveryLookIsOneOfThese ==
    ASSUME TypeInv, NEW r \in Run, RunStep(r) \/ Start(r) \/ Kill(r)
    PROVE  Looks(r)
<1> DEFINE Still == UNCHANGED <<page, active, acks, moves>>
<1>leave. ASSUME Leave(r), Still PROVE Looks(r)
  BY <1>leave, Leaving DEF Looks, Armed, TypeInv, TypeOK, Leave
<1>end. ASSUME NEW f, Finish(r, f), Still PROVE Looks(r)
  BY <1>end, <1>leave DEF Finish
<1>goto. ASSUME NEW s, Goto(r, s)
         PROVE  run'[r].step = s /\ run'[r].envelope = run[r].envelope
  BY <1>goto DEF Goto, TypeInv, TypeOK
<1>pass. ASSUME Still, run'[r].step \notin Armed \ {"pre_address"} PROVE Looks(r)
  BY <1>pass DEF Looks
<1>tab. run[r].todo \subseteq Tab
        /\ (run[r].step \in {"activate", "readback", "await"} => run[r].tab \in Tab)
  BY RunOf DEF After
<1>run. run \in [Run -> RunRecord]
  BY DEF TypeInv, TypeOK, RunRecord
<1>1. ASSUME Claim(r) PROVE Looks(r)
  <2>1. Still /\ (Goto(r, "insert") \/ Leave(r))
    BY <1>1 DEF Claim, browser, window
  <2> QED
    BY <2>1, <1>leave, <1>goto, <1>pass DEF Armed
<1>2. ASSUME Insert(r) PROVE Looks(r)
  <2>1. Still /\ (Goto(r, "source") \/ Leave(r))
    BY <1>2 DEF Insert, browser, window
  <2> QED
    BY <2>1, <1>leave, <1>goto, <1>pass DEF Armed
<1>3. ASSUME VerifySource(r) PROVE Looks(r)
  <2>1. Still
    BY <1>3 DEF VerifySource, browser, window
  <2>2. CASE run' = [run EXCEPT ![r].step = "discover", ![r].todo = Tab]
    BY <2>1, <2>2, <1>run, <1>pass DEF Armed
  <2>3. CASE Finish(r, "SOURCE_BUS_UNVERIFIED")
    BY <2>1, <2>3, <1>end
  <2> QED
    BY <1>3, <2>2, <2>3 DEF VerifySource
<1>4. ASSUME SelectCandidate(r) PROVE Looks(r)
  <2>1. PICK t \in run[r].todo :
           /\ active' = t
           /\ run' = [run EXCEPT ![r].step = "look", ![r].tab = t, ![r].todo = @ \ {t}]
    BY <1>4 DEF SelectCandidate, SelectTab
  <2>2. run'[r].step = "look"
    BY <2>1, <1>run
  <2> QED
    BY <1>4, <1>tab, <2>1, <2>2 DEF SelectCandidate, Looks, Armed
<1>5. ASSUME CandidateAddress(r) \/ CandidateIdentity(r) PROVE Looks(r)
  <2>1. /\ Still
        /\ \/ Goto(r, "look_identity")
           \/ \E more : NextCandidate(r, more)
    BY <1>5 DEF CandidateAddress, CandidateIdentity, browser, window
  <2>2. CASE Goto(r, "look_identity")
    BY <2>1, <2>2, <1>goto, <1>pass DEF Armed
  <2>3. ASSUME NEW more, NextCandidate(r, more) PROVE Looks(r)
    <3>1. run'[r].step = "discover"
      BY <1>run, <2>3 DEF NextCandidate
    <3> QED
      BY <2>1, <3>1, <1>pass DEF Armed
  <2> QED
    BY <2>1, <2>2, <2>3
<1>6. ASSUME Choose(r) PROVE Looks(r)
  <2>1. Still
    BY <1>6 DEF Choose, browser, window
  <2>2. CASE Finish(r, "TARGET_NOT_FOUND") \/ Finish(r, "TARGET_AMBIGUOUS")
    BY <2>1, <2>2, <1>end
  <2>3. CASE run' = [run EXCEPT ![r].step = "activate", ![r].found = {},
                                ![r].tab = CHOOSE t \in run[r].found : TRUE]
    BY <2>1, <2>3, <1>run, <1>pass DEF Armed
  <2> QED
    BY <1>6, <2>2, <2>3 DEF Choose
<1>7. ASSUME Activate(r) PROVE Looks(r)
  <2>1. /\ active' = run[r].tab /\ run[r].tab \in Tab /\ UNCHANGED <<page, acks, moves>>
        /\ Goto(r, "pre_address")
    BY <1>7, <1>tab DEF Activate, At, SelectTab
  <2> QED
    BY <2>1, <1>goto DEF Looks
<1>8. ASSUME SnapshotAddress(r) PROVE Looks(r)
  <2>1. Still /\ Untouched
    BY <1>8 DEF SnapshotAddress, browser, window, Untouched
  <2>2. CASE Finish(r, "TARGET_CHANGED_PRE_SUBMIT")
    BY <2>1, <2>2, <1>end
  <2>3. CASE /\ AddressMatches(r)
             /\ Goto(r, IF At(r, "pre_address") THEN "pre_identity" ELSE "again_identity")
    <3>1. \/ run[r].step = "pre_address" /\ Goto(r, "pre_identity")
          \/ run[r].step = "again_address" /\ Goto(r, "again_identity")
      BY <1>8, <2>3 DEF SnapshotAddress, At
    <3>2. AtTarget(r)
      BY <2>3 DEF AddressMatches, AtTarget
    <3> QED
      BY <2>1, <3>1, <3>2, <1>goto DEF Looks
  <2> QED
    BY <1>8, <2>2, <2>3 DEF SnapshotAddress
<1>9. ASSUME SnapshotIdentity(r) PROVE Looks(r)
  <2>1. Still /\ Untouched /\ run[r].step \in {"pre_identity", "again_identity"}
    BY <1>9 DEF SnapshotIdentity, browser, window, Untouched
  <2>2. CASE Finish(r, "TARGET_CHANGED_PRE_SUBMIT")
    BY <2>1, <2>2, <1>end
  <2>3. CASE \/ At(r, "pre_identity") /\ Goto(r, "populate")
             \/ ~At(r, "pre_identity") /\ Goto(r, "submit")
    BY <2>1, <2>3, <1>goto DEF Looks, At
  <2> QED
    BY <1>9, <2>2, <2>3 DEF SnapshotIdentity, Advance
<1>10. ASSUME Populate(r) PROVE Looks(r)
  <2>1. /\ Still /\ Fills(r) /\ run[r].step = "populate"
        /\ Goto(r, "again_address") \/ Finish(r, FailureOf("populate"))
    BY <1>10 DEF Populate, At, Fills, WriteComposer, Advance
  <2> QED
    BY <2>1, <1>goto, <1>end DEF Looks
<1>11. ASSUME Submit(r) PROVE Looks(r)
  <2>1. Still /\ (Goto(r, "submitted") \/ Finish(r, FailureOf("submit")))
    BY <1>11 DEF Submit
  <2> QED
    BY <2>1, <1>goto, <1>end, <1>pass DEF Armed
<1>12. ASSUME RecordSubmit(r) \/ ReadRendered(r) \/ AwaitAck(r) \/ PollAgain(r) PROVE Looks(r)
  <2>1. Still /\ (Goto(r, "readback") \/ Goto(r, "rendered") \/ Goto(r, "await"))
    BY <1>12 DEF RecordSubmit, ReadRendered, AwaitAck, PollAgain, Advance, browser, window
  <2> QED
    BY <2>1, <1>goto, <1>pass DEF Armed
<1>13. ASSUME SelectAgain(r) PROVE Looks(r)
  <2>1. /\ active' = run[r].tab /\ run[r].tab \in Tab /\ UNCHANGED <<page, acks, moves>>
        /\ Goto(r, "read") \/ Goto(r, "ack")
    BY <1>13, <1>tab DEF SelectAgain, SelectTab
  <2> QED
    BY <2>1, <1>goto DEF Looks, Armed
<1>14. ASSUME ReadAck(r) PROVE Looks(r)
  BY <1>14, <1>end DEF ReadAck, browser, window
<1>15. ASSUME TimeOut(r) \/ TargetRaises(r) PROVE Looks(r)
  BY <1>15, <1>end DEF TimeOut, TargetRaises, browser, window
<1>16. ASSUME Start(r) PROVE Looks(r)
  <2>1. Still
    BY <1>16, Zenon DEF Start, browser, window
  <2>2. PICK e \in Envelope :
           run' = [run EXCEPT ![r] = [NoRun EXCEPT !.step = "claim", !.envelope = e]]
    BY <1>16 DEF Start
  <2>3. run'[r].step = "claim"
    BY <2>2, <1>run DEF NoRun
  <2> QED
    BY <2>1, <2>3, <1>pass DEF Armed
<1>17. ASSUME Kill(r) PROVE Looks(r)
  BY <1>17, <1>leave DEF Kill, browser, window
<1> QED
  BY <1>1, <1>2, <1>3, <1>4, <1>5, <1>6, <1>7, <1>8, <1>9, <1>10, <1>11, <1>12, <1>13, <1>14,
     <1>15, <1>16, <1>17 DEF RunStep

\* What happens to the window, by whomever.
LEMMA WindowSteps ==
    ASSUME TypeInv, [Next]_vars
    PROVE  \/ \E r \in Run : Looks(r) /\ Watch(r)
           \/ UserMoves /\ UNCHANGED relay /\ Watch(NoTab)
           \/ SomebodyAcknowledges /\ UNCHANGED relay /\ Watch(NoTab)
           \/ UNCHANGED vars
<1>1. ASSUME NEW r \in Run, RunStep(r) \/ ((Start(r) \/ Kill(r)) /\ Watch(r))
      PROVE  Looks(r) /\ Watch(r)
  BY <1>1, EveryLookIsOneOfThese DEF RunStep
<1>2. CASE Environment
  BY <1>2 DEF Environment
<1> QED
  BY <1>1, <1>2 DEF Next

-----------------------------------------------------------------------------
(* The types.                                                              *)

\* The composer the keyboard goes to.
LEMMA ComposerType ==
    ASSUME TypeInv
    PROVE  Address \in Conversation /\ Composer \in Place
BY DEF TypeInv, TypeOK, FirefoxTypeOK, Address, Composer, Place

MessageRecord == [text : Text, place : Conversation, by : Text, moved : 0..3]

\* What pressing Enter sends.
LEMMA Sending ==
    ASSUME TypeInv, NEW r \in Run, Presses(r)
    PROVE  \E m \in MessageRecord :
              /\ m.text = draft[Composer] /\ m.place = Address
              /\ m.by = run[r].envelope /\ m.moved = moved[r]
              /\ messages' = Append(messages, m)
              /\ draft' = [draft EXCEPT ![Composer] = Empty]
<1> DEFINE m == [text |-> draft[Composer], place |-> Address, by |-> run[r].envelope,
                 moved |-> moved[r]]
<1>1. draft[Composer] \in Text
  BY ComposerType DEF TypeInv, TypeOK, FirefoxTypeOK, Presses, Place
<1>2. moved[r] \in 0..3 /\ run[r].envelope \in Text
  BY RunOf DEF TypeInv, TypeOK, Presses, Envelope
<1>3. m \in MessageRecord
  BY <1>1, <1>2, ComposerType DEF MessageRecord
<1>4. messages' = Append(messages, m) /\ draft' = [draft EXCEPT ![Composer] = Empty]
  BY DEF Presses, Send
<1> QED
  BY <1>3, <1>4

\* What Enter sends comes last.
LEMMA MessagesGrow ==
    ASSUME TypeInv, NEW m \in MessageRecord, messages' = Append(messages, m)
    PROVE  /\ messages' \in Seq(MessageRecord)
           /\ DOMAIN messages = 1..Len(messages) /\ Len(messages) \in Nat
           /\ DOMAIN messages' = 1..(Len(messages) + 1)
           /\ \A i \in DOMAIN messages : messages'[i] = messages[i]
           /\ messages'[Len(messages) + 1] = m
<1>1. messages \in Seq(MessageRecord)
  BY DEF TypeInv, TypeOK, FirefoxTypeOK, MessageRecord
<1>2. /\ Append(messages, m) \in Seq(MessageRecord)
      /\ Len(Append(messages, m)) = Len(messages) + 1
      /\ \A i \in 1..Len(messages) : Append(messages, m)[i] = messages[i]
      /\ Append(messages, m)[Len(messages) + 1] = m
  BY <1>1, AppendProperties
<1>3. DOMAIN messages = 1..Len(messages) /\ Len(messages) \in Nat
  BY <1>1, LenProperties
<1>4. DOMAIN Append(messages, m) = 1..Len(Append(messages, m))
  BY <1>2, LenProperties
<1> HIDE DEF MessageRecord
<1> QED
  BY <1>2, <1>3, <1>4

\* Acknowledgements are only added.
AcksGrow == \A i \in DOMAIN acks : i \in DOMAIN acks' /\ acks'[i] = acks[i]

AckRecord == [text : Text, place : Conversation, status : Status]

\* The views that others have of the window, counted.
LEMMA Watching ==
    ASSUME TypeInv, NEW r, Watch(r), NEW q \in Run
    PROVE  /\ moved' \in [Run -> 0..3]
           /\ run'[q].step \notin Armed => moved'[q] = 0
           /\ run'[q].step \in Armed =>
                 \/ moved'[q] = moved[q] /\ (q = r \/ (active' = active /\ page' = page))
                 \/ moved'[q] = moved[q] + 1
                 \/ moved[q] = 3 /\ moved'[q] = 3
<1>1. moved \in [Run -> 0..3]
  BY DEF TypeInv, TypeOK
<1>2. moved' = [p \in Run |->
          IF run'[p].step \notin Armed THEN 0
          ELSE IF p # r /\ (active # active' \/ page # page') /\ moved[p] < 3
          THEN moved[p] + 1 ELSE moved[p]]
  BY DEF Watch
<1>3. ASSUME NEW p \in Run
      PROVE  /\ moved'[p] \in 0..3
             /\ run'[p].step \notin Armed => moved'[p] = 0
             /\ run'[p].step \in Armed =>
                   \/ /\ moved'[p] = moved[p]
                      /\ p = r \/ (active' = active /\ page' = page)
                   \/ moved'[p] = moved[p] + 1
                   \/ moved[p] = 3 /\ moved'[p] = 3
  <2>1. moved[p] \in 0..3
    BY <1>1
  <2>2. CASE run'[p].step \notin Armed
    <3>1. moved'[p] = 0
      BY <1>2, <2>2
    <3> QED
      BY <2>2, <3>1
  <2>3. CASE run'[p].step \in Armed /\ p # r /\ (active # active' \/ page # page') /\ moved[p] < 3
    <3>1. moved'[p] = moved[p] + 1
      BY <1>2, <2>3
    <3> QED
      BY <2>1, <2>3, <3>1
  <2>4. CASE /\ run'[p].step \in Armed
             /\ ~(p # r /\ (active # active' \/ page # page') /\ moved[p] < 3)
    <3>1. moved'[p] = moved[p]
      BY <1>2, <2>4
    <3> QED
      BY <2>1, <2>4, <3>1
  <2> QED
    BY <2>2, <2>3, <2>4
<1>4. moved' \in [Run -> 0..3]
  <2>1. moved' = [p \in Run |-> moved'[p]]
    BY <1>2
  <2> QED
    BY <1>3, <2>1
<1> QED
  BY <1>3, <1>4

\* Acknowledgements and the window keep their types, and the former stay.
LEMMA WindowTypesHold ==
    ASSUME TypeInv, [Next]_vars
    PROVE  /\ page' \in [Tab -> Conversation] /\ active' \in Tab
           /\ acks' \in Seq(AckRecord) /\ AcksGrow
           /\ moves' \in 0..MaxMoves /\ moved' \in [Run -> 0..3]
<1>1. /\ page \in [Tab -> Conversation] /\ active \in Tab
      /\ acks \in Seq(AckRecord)
      /\ moves \in 0..MaxMoves /\ moved \in [Run -> 0..3]
  BY DEF TypeInv, TypeOK, FirefoxTypeOK, AckRecord
<1>2. ASSUME NEW r, Watch(r) PROVE moved' \in [Run -> 0..3]
  <2>1. CASE Run = {}
    <3>1. moved' = [q \in Run |->
          IF run'[q].step \notin Armed THEN 0
          ELSE IF q # r /\ (active # active' \/ page # page') /\ moved[q] < 3
          THEN moved[q] + 1 ELSE moved[q]]
      BY <1>2 DEF Watch
    <3> QED
      BY <2>1, <3>1
  <2>2. ASSUME NEW q \in Run PROVE moved' \in [Run -> 0..3]
    BY <1>2, Watching
  <2> QED
    BY <2>1, <2>2
<1>3. CASE \E r \in Run : Looks(r) /\ Watch(r)
  <2>1. /\ UNCHANGED <<page, acks, moves>> /\ active' \in Tab
        /\ moved' \in [Run -> 0..3]
    BY <1>1, <1>2, <1>3 DEF Looks
  <2> QED
    BY <1>1, <2>1 DEF AcksGrow
<1>4. CASE UserMoves /\ Watch(NoTab)
  <2>1. moves' \in 0..MaxMoves /\ acks' = acks
    BY <1>1, <1>4, WindowBounds DEF UserMoves
  <2>2. page' \in [Tab -> Conversation] /\ active' \in Tab
    BY <1>1, <1>4 DEF UserMoves
  <2> QED
    BY <1>1, <1>2, <1>4, <2>1, <2>2 DEF AcksGrow
<1>5. CASE SomebodyAcknowledges /\ Watch(NoTab)
  <2>1. PICK e \in Text, c \in Conversation, s \in Status :
           acks' = Append(acks, [text |-> e, place |-> c, status |-> s])
    BY <1>5 DEF SomebodyAcknowledges
  <2> DEFINE y == [text |-> e, place |-> c, status |-> s]
  <2>3. y \in AckRecord /\ acks' = Append(acks, y)
    BY <2>1 DEF AckRecord
  <2> HIDE DEF y
  <2>4. /\ acks' \in Seq(AckRecord) /\ Len(acks') = Len(acks) + 1
        /\ \A j \in 1..Len(acks) : acks'[j] = acks[j]
    BY <1>1, <2>3, AppendProperties
  <2>5. DOMAIN acks = 1..Len(acks) /\ DOMAIN acks' = 1..Len(acks')
        /\ Len(acks) \in Nat
    BY <1>1, <2>4, LenProperties
  <2>6. AcksGrow
    BY <2>4, <2>5 DEF AcksGrow
  <2>7. UNCHANGED <<page, active, moves>>
    BY <1>5 DEF SomebodyAcknowledges, window
  <2> QED
    BY <1>1, <1>2, <1>5, <2>4, <2>6, <2>7
<1>6. CASE UNCHANGED vars
  BY <1>1, <1>6 DEF vars, browser, window, AcksGrow
<1> QED
  BY <1>3, <1>4, <1>5, <1>6, WindowSteps

\* Every step keeps the types.
LEMMA TypesHold ==
    TypeInv /\ OwnInv /\ [Next]_vars => TypeInv'
<1> SUFFICES ASSUME TypeInv, OwnInv, [Next]_vars PROVE TypeInv'
  OBVIOUS
<1>typ. /\ run \in [Run -> RunRecord] /\ row \in [Id -> Row \cup {NoRow}]
        /\ answers \subseteq [envelope : Envelope, receipt : Receipt] /\ killed \subseteq Id
        /\ starts \in 0..MaxStarts
        /\ draft \in [Place -> Text \cup {Empty}] /\ messages \in Seq(MessageRecord)
  BY DEF TypeInv, TypeOK, FirefoxTypeOK, RunRecord, Place, MessageRecord
<1>runs. ASSUME NEW r, NEW k, Becomes(r, k)
         PROVE  run' \in [Run -> RunRecord] /\ RunOK'
  <2>1. run' = [run EXCEPT ![r] = k] /\ k \in RunRecord /\ r \in Run
    BY <1>runs DEF Becomes
  <2>2. run' \in [Run -> RunRecord] /\ run'[r] = k /\ \A q \in Run \ {r} : run'[q] = run[q]
    BY <1>typ, <2>1
  <2>3. RunOK
    BY DEF TypeInv
  <2> QED
    BY <1>runs, <2>2, <2>3 DEF RunOK, Becomes
<1>rows. ASSUME NEW r, NEW w, RowBecomes(r, w)
         PROVE  row' \in [Id -> Row \cup {NoRow}]
  BY <1>rows, <1>typ DEF RowBecomes
<1>1. Kinds
  BY EveryStepIsOneOfThese
<1> DEFINE RelayTyped ==
               /\ run' \in [Run -> RunRecord] /\ RunOK' /\ row' \in [Id -> Row \cup {NoRow}]
               /\ answers' \subseteq [envelope : Envelope, receipt : Receipt]
               /\ killed' \subseteq Id /\ starts' \in 0..MaxStarts
           TextsTyped ==
               draft' \in [Place -> Text \cup {Empty}] /\ messages' \in Seq(MessageRecord)
<1>2. RelayTyped
  <2>1. CASE Rests
    BY <1>typ, <2>1 DEF Rests, RunOK, TypeInv
  <2>2. ASSUME NEW r, NEW k, Approaches(r, k) PROVE RelayTyped
    BY <1>typ, <1>runs, <2>2 DEF Approaches
  <2>3. ASSUME NEW r, NEW k, NEW w, Takes(r, k, w) \/ Goes(r, k, w) PROVE RelayTyped
    BY <1>typ, <1>runs, <1>rows, <2>3 DEF Takes, Goes
  <2>4. ASSUME NEW r, NEW w, Finishes(r, w) PROVE RelayTyped
    <3>1. [envelope |-> w.envelope, receipt |-> w.receipt] \in [envelope : Envelope, receipt : Receipt]
      BY <2>4 DEF Finishes, RowBecomes, Row
    <3> QED
      BY <1>typ, <1>runs, <1>rows, <2>4, <3>1 DEF Finishes
  <2>5. ASSUME NEW r, Dies(r) PROVE RelayTyped
    BY <1>typ, <1>runs, <2>5 DEF Dies
  <2> QED
    BY <1>1, <2>1, <2>2, <2>3, <2>4, <2>5 DEF Kinds
<1>3. TextsTyped
  <2>1. CASE Untouched
    BY <1>typ, <2>1 DEF Untouched
  <2>2. ASSUME NEW r, Fills(r) PROVE TextsTyped
    <3>1. run[r].envelope \in Text
      BY <2>2, RunOf DEF Fills, Envelope
    <3> QED
      BY <1>typ, <2>2, <3>1, ComposerType DEF Fills
  <2>3. ASSUME NEW r, Presses(r) PROVE TextsTyped
    <3>1. PICK m \in MessageRecord : /\ messages' = Append(messages, m)
                                     /\ draft' = [draft EXCEPT ![Composer] = Empty]
      BY <2>3, Sending DEF Presses
    <3> QED
      BY <1>typ, <3>1, MessagesGrow, ComposerType
  <2> QED
    BY <1>1, <2>1, <2>2, <2>3 DEF Kinds
<1>4. TypeOK'
  BY <1>2, <1>3, WindowTypesHold
     DEF TypeOK, FirefoxTypeOK, RunRecord, Place, MessageRecord, AckRecord
<1> QED
  BY <1>2, <1>4 DEF TypeInv

-----------------------------------------------------------------------------
(* What lasts.                                                             *)

\* One run changes, and one row.
LEMMA OneRunChanges ==
    ASSUME TypeInv, NEW r, NEW k, Becomes(r, k)
    PROVE  r \in Run /\ run'[r] = k /\ \A q \in Run \ {r} : run'[q] = run[q]
BY DEF TypeInv, TypeOK, Becomes

\* The row of that run is the one.
LEMMA OneRowChanges ==
    ASSUME TypeInv, NEW r, NEW w, RowBecomes(r, w)
    PROVE  /\ IdAt(r) \in Id /\ w \in Row /\ w # NoRow /\ row'[IdAt(r)] = w
           /\ \A m \in Id \ {IdAt(r)} : row'[m] = row[m]
BY DistinctSentinels DEF TypeInv, TypeOK, RowBecomes

\* A row stays, with its envelope, and once it has a receipt it stays as it is.
LEMMA RowsLast ==
    ASSUME TypeInv, OwnInv, Kinds, NEW m \in Id, row[m] # NoRow
    PROVE  /\ row'[m] # NoRow /\ row'[m].envelope = row[m].envelope
           /\ row[m].receipt # NoReceipt => row'[m] = row[m]
<1> DEFINE Lasts == /\ row'[m] # NoRow /\ row'[m].envelope = row[m].envelope
                    /\ row[m].receipt # NoReceipt => row'[m] = row[m]
<1>1. CASE row' = row
  BY <1>1
<1>2. ASSUME NEW r, NEW k, NEW w, Takes(r, k, w) PROVE Lasts
  BY <1>2, OneRowChanges DEF Takes
<1>3. ASSUME NEW r, NEW w, RowBecomes(r, w), Owner(r), r \in Run PROVE Lasts
  <2>1. CASE m = IdAt(r)
    <3>1. row'[m] = w /\ w # NoRow
      BY <1>3, <2>1, OneRowChanges
    <3>2. row[m].envelope = run[r].envelope /\ row[m].receipt = NoReceipt
      BY <1>3, <2>1, RowOf
    <3>3. w.envelope = run[r].envelope
      BY <1>3 DEF RowBecomes
    <3> QED
      BY <3>1, <3>2, <3>3
  <2>2. CASE m # IdAt(r)
    BY <1>3, <2>2, OneRowChanges
  <2> QED
    BY <2>1, <2>2
<1>4. ASSUME NEW r, NEW k, NEW w, Goes(r, k, w) PROVE Lasts
  BY <1>3, <1>4 DEF Goes, Becomes
<1>5. ASSUME NEW r, NEW w, Finishes(r, w) PROVE Lasts
  BY <1>3, <1>5 DEF Finishes, Becomes
<1> QED
  BY <1>1, <1>2, <1>4, <1>5 DEF Kinds, Rests, Approaches, Dies

\* Who owns an id after a step has owned it before, and has not stepped back;
\* or took it, when nobody had it.
LEMMA OwnersLast ==
    ASSUME TypeInv, OwnInv, Kinds, NEW q \in Run, run'[q].step \notin Unowned
    PROVE  /\ run'[q].envelope = run[q].envelope
           /\ \/ /\ Owner(q)
                 /\ run'[q].step \in Before => run[q].step \in Before
                 /\ run[q].step \in After => run'[q].step \in After
              \/ ~Owner(q) /\ row[IdAt(q)] = NoRow
<1> DEFINE Lasts == /\ run'[q].envelope = run[q].envelope
                    /\ \/ /\ Owner(q)
                          /\ run'[q].step \in Before => run[q].step \in Before
                          /\ run[q].step \in After => run'[q].step \in After
                       \/ ~Owner(q) /\ row[IdAt(q)] = NoRow
<1>same. run'[q] = run[q] => Lasts
  BY DEF Owner
<1>other. ASSUME NEW r, NEW k, Becomes(r, k), q # r PROVE Lasts
  BY <1>same, <1>other, OneRunChanges
<1>1. CASE Rests
  BY <1>1, <1>same DEF Rests
<1>2. ASSUME NEW r, NEW k, Approaches(r, k) PROVE Lasts
  BY <1>2, <1>other, OneRunChanges DEF Approaches
<1>3. ASSUME NEW r, NEW k, NEW w, Takes(r, k, w) PROVE Lasts
  BY <1>3, <1>other, OneRunChanges DEF Takes
<1>4. ASSUME NEW r, NEW k, NEW w, Goes(r, k, w) PROVE Lasts
  BY <1>4, <1>other, OneRunChanges DEF Goes
<1>5. ASSUME NEW r, Becomes(r, NoRun) PROVE Lasts
  BY <1>5, <1>other, OneRunChanges DEF NoRun, Unowned
<1> QED
  BY <1>1, <1>2, <1>3, <1>4, <1>5 DEF Kinds, Finishes, Dies

\* Out and Pressed of an id after the step.
OutNext(m) ==
    /\ row'[m] # NoRow
    /\ \A q \in Run : run'[q].step \notin Unowned /\ IdOf[run'[q].envelope] = m =>
           run'[q].step \notin Before
PressedNext(m) ==
    /\ row'[m] # NoRow
    /\ \A q \in Run : run'[q].step \notin Unowned /\ IdOf[run'[q].envelope] = m =>
           run'[q].step \in After
    /\ IF row'[m].receipt = NoReceipt THEN row'[m].state \in LateState
       ELSE row'[m].receipt.submitted \/ row'[m].state = "SUBMIT_NOT_ESTABLISHED"

\* A text that is out stays out.
LEMMA OutLasts ==
    ASSUME TypeInv, OwnInv, Kinds, NEW m \in Id, Out(m)
    PROVE  OutNext(m)
<1>1. row'[m] # NoRow /\ row[m] # NoRow
  BY RowsLast DEF Out
<1>2. ASSUME NEW q \in Run, run'[q].step \notin Unowned, IdOf[run'[q].envelope] = m
      PROVE  run'[q].step \notin Before
  BY <1>1, <1>2, OwnersLast DEF Out, IdAt
<1> QED
  BY <1>1, <1>2 DEF OutNext

\* An owner's row is its own, and an id has one owner.
LEMMA OwnersHold ==
    ASSUME TypeInv, OwnInv, OneOwner, Kinds
    PROVE  OwnInv' /\ OneOwner'
<1> DEFINE Own(q) ==
        run'[q].step \notin Unowned =>
            /\ row'[IdOf[run'[q].envelope]] # NoRow
            /\ row'[IdOf[run'[q].envelope]].receipt = NoReceipt
            /\ row'[IdOf[run'[q].envelope]].envelope = run'[q].envelope
            /\ run'[q].step \in {"submit"} \cup After =>
                  row'[IdOf[run'[q].envelope]].state \in LateState
<1>same. ASSUME NEW q \in Run, run'[q] = run[q], Owner(q) => row'[IdAt(q)] = row[IdAt(q)]
         PROVE  Own(q)
  BY <1>same DEF OwnInv, Owner, IdAt
<1>1. ASSUME NEW q \in Run PROVE Own(q)
  <2>1. CASE Rests
    BY <1>same, <2>1 DEF Rests
  <2>2. ASSUME NEW r, NEW k, Approaches(r, k) PROVE Own(q)
    BY <1>same, <2>2, OneRunChanges DEF Approaches
  <2>3. ASSUME NEW r, NEW k, NEW w, Takes(r, k, w) PROVE Own(q)
    <3>1. CASE q = r
      <4>1. /\ k.envelope = run[r].envelope /\ k.step = "source" /\ w.receipt = NoReceipt
            /\ w.envelope = run[r].envelope /\ k.step \notin {"submit"} \cup After
        BY <2>3 DEF Takes, RowBecomes, After
      <4>2. run'[q] = k /\ row'[IdOf[k.envelope]] = w /\ w # NoRow
        BY <2>3, <3>1, <4>1, OneRunChanges, OneRowChanges DEF Takes, IdAt
      <4> QED
        BY <4>1, <4>2
    <3>2. CASE q # r
      <4>1. run'[q] = run[q]
        BY <2>3, <3>2, OneRunChanges DEF Takes
      <4>2. Owner(q) => IdAt(q) # IdAt(r) /\ IdAt(q) \in Id
        BY <2>3, RowOf DEF Takes, OwnInv
      <4>3. Owner(q) => row'[IdAt(q)] = row[IdAt(q)]
        BY <2>3, <4>2, OneRowChanges DEF Takes
      <4> QED
        BY <1>same, <4>1, <4>3
    <3> QED
      BY <3>1, <3>2
  <2>apart. ASSUME NEW r, NEW w, RowBecomes(r, w), Owner(r), r \in Run, q # r
            PROVE  Owner(q) => row'[IdAt(q)] = row[IdAt(q)]
    <3>1. Owner(q) => IdAt(q) # IdAt(r) /\ IdAt(q) \in Id
      BY <2>apart, RowOf DEF OneOwner
    <3> QED
      BY <2>apart, <3>1, OneRowChanges
  <2>4. ASSUME NEW r, NEW k, NEW w, Goes(r, k, w) PROVE Own(q)
    <3>1. CASE q = r
      <4>1. /\ k.envelope = run[r].envelope /\ w.receipt = NoReceipt
            /\ w.envelope = run[r].envelope
            /\ k.step \in {"submit"} \cup After => w.state \in LateState
        BY <2>4 DEF Goes, RowBecomes
      <4>2. run'[q] = k /\ row'[IdOf[k.envelope]] = w /\ w # NoRow
        BY <2>4, <3>1, <4>1, OneRunChanges, OneRowChanges DEF Goes, IdAt
      <4> QED
        BY <4>1, <4>2
    <3>2. CASE q # r
      BY <1>same, <2>4, <2>apart, <3>2, OneRunChanges DEF Goes
    <3> QED
      BY <3>1, <3>2
  <2>5. ASSUME NEW r, NEW w, Finishes(r, w) PROVE Own(q)
    <3>1. CASE q = r
      BY <2>5, <3>1, OneRunChanges DEF Finishes, NoRun, Unowned
    <3>2. CASE q # r
      BY <1>same, <2>5, <2>apart, <3>2, OneRunChanges DEF Finishes
    <3> QED
      BY <3>1, <3>2
  <2>6. ASSUME NEW r, Dies(r) PROVE Own(q)
    <3>1. CASE q = r
      BY <2>6, <3>1, OneRunChanges DEF Dies, NoRun, Unowned
    <3>2. CASE q # r
      BY <1>same, <2>6, <3>2, OneRunChanges DEF Dies
    <3> QED
      BY <3>1, <3>2
  <2> QED
    BY <2>1, <2>2, <2>3, <2>4, <2>5, <2>6 DEF Kinds
<1>2. ASSUME NEW p \in Run, NEW q \in Run,
             run'[p].step \notin Unowned, run'[q].step \notin Unowned,
             IdOf[run'[p].envelope] = IdOf[run'[q].envelope]
      PROVE  p = q
  <2>1. CASE Owner(p) /\ Owner(q)
    BY <1>2, <2>1, OwnersLast DEF OneOwner, IdAt
  <2>2. CASE ~Owner(p) \/ ~Owner(q)
    <3>1. ASSUME NEW x \in Run, ~Owner(x), run'[x].step \notin Unowned
          PROVE  \A y \in Run \ {x} : run'[y] = run[y]
      BY <3>1, OneRunChanges
         DEF Kinds, Rests, Approaches, Takes, Goes, Finishes, Dies, Owner
    <3>2. ASSUME NEW x \in Run, NEW y \in Run, ~Owner(x), x # y,
                 run'[x].step \notin Unowned, run'[y].step \notin Unowned,
                 IdOf[run'[x].envelope] = IdOf[run'[y].envelope]
          PROVE  FALSE
      <4>1. row[IdAt(x)] = NoRow /\ run'[x].envelope = run[x].envelope
        BY <3>2, OwnersLast
      <4>2. run'[y] = run[y] /\ Owner(y)
        BY <3>1, <3>2 DEF Owner
      <4>3. row[IdAt(y)] # NoRow
        BY <4>2 DEF OwnInv
      <4> QED
        BY <3>2, <4>1, <4>2, <4>3 DEF IdAt
    <3> QED
      BY <1>2, <2>2, <3>2
  <2> QED
    BY <2>1, <2>2
<1>3. OwnInv'
  BY <1>1 DEF OwnInv, Owner, IdAt
<1> QED
  BY <1>2, <1>3 DEF OneOwner, Owner, IdAt

\* What was pressed stays pressed.
LEMMA PressedLasts ==
    ASSUME TypeInv, OwnInv, Kinds, NEW m \in Id, Pressed(m)
    PROVE  PressedNext(m)
<1>1. row'[m] # NoRow /\ row[m] # NoRow /\ (row[m].receipt # NoReceipt => row'[m] = row[m])
  BY RowsLast DEF Pressed
<1>2. ASSUME NEW q \in Run, run'[q].step \notin Unowned, IdOf[run'[q].envelope] = m
      PROVE  run'[q].step \in After
  BY <1>1, <1>2, OwnersLast DEF Pressed, IdAt
<1> DEFINE Told == IF row'[m].receipt = NoReceipt THEN row'[m].state \in LateState
                   ELSE row'[m].receipt.submitted \/ row'[m].state = "SUBMIT_NOT_ESTABLISHED"
<1>same. row'[m] = row[m] => Told
  BY DEF Pressed
<1>3. Told
  <2>1. CASE row' = row
    BY <1>same, <2>1
  <2>2. ASSUME NEW r, NEW k, NEW w, Takes(r, k, w) PROVE Told
    <3>1. row'[m] = row[m]
      BY <1>1, <2>2, OneRowChanges DEF Takes
    <3> QED
      BY <1>same, <3>1
  <2>3. ASSUME NEW r, NEW k, NEW w, Goes(r, k, w) PROVE Told
    <3>1. CASE m # IdAt(r)
      BY <1>same, <2>3, <3>1, OneRowChanges DEF Goes
    <3>2. CASE m = IdAt(r)
      <4>1. row'[m] = w /\ w.receipt = NoReceipt
        BY <2>3, <3>2, OneRowChanges DEF Goes
      <4>2. run[r].step \in After
        BY <2>3, <3>2 DEF Goes, Pressed, Becomes
      <4>3. w.state \in LateState
        BY <2>3, <4>2 DEF Goes
      <4> QED
        BY <4>1, <4>3
    <3> QED
      BY <3>1, <3>2
  <2>4. ASSUME NEW r, NEW w, Finishes(r, w) PROVE Told
    <3>1. CASE m # IdAt(r)
      BY <1>same, <2>4, <3>1, OneRowChanges DEF Finishes
    <3>2. CASE m = IdAt(r)
      <4>1. row'[m] = w /\ w.receipt # NoReceipt
        BY <2>4, <3>2, OneRowChanges, DistinctSentinels DEF Finishes
      <4>2. run[r].step \in After
        BY <2>4, <3>2 DEF Finishes, Pressed, Becomes
      <4>3. w.receipt.submitted
        BY <2>4, <4>2 DEF Finishes
      <4> QED
        BY <4>1, <4>3
    <3> QED
      BY <3>1, <3>2
  <2> QED
    BY <2>1, <2>2, <2>3, <2>4 DEF Kinds, Rests, Approaches, Dies
<1> QED
  BY <1>1, <1>2, <1>3 DEF PressedNext

\* What a message says is typed.
LEMMA MessagesTyped ==
    ASSUME TypeInv, NEW i \in DOMAIN messages
    PROVE  /\ messages[i] \in MessageRecord
           /\ messages[i].text \in Text /\ messages[i].by \in Text
           /\ IdOf[messages[i].text] \in Id /\ IdOf[messages[i].by] \in Id
<1>1. messages \in Seq(MessageRecord)
  BY DEF TypeInv, TypeOK, FirefoxTypeOK, MessageRecord
<1>2. messages[i] \in MessageRecord
  BY <1>1, LenProperties, ElementOfSeq
<1> QED
  BY <1>2, EnvelopesAddressed DEF MessageRecord, Envelope

\* So is what a composer holds.
LEMMA DraftsTyped ==
    ASSUME TypeInv, NEW w \in Place, draft[w] # Empty
    PROVE  draft[w] \in Text /\ IdOf[draft[w]] \in Id
BY EnvelopesAddressed DEF TypeInv, TypeOK, FirefoxTypeOK, Place, Envelope

\* The row tells of every press.
LEMMA PressesHold ==
    ASSUME TypeInv, OwnInv, OneOwner, OneOwner', PressInv, Kinds
    PROVE  PressInv'
<1> DEFINE Held == \A i \in DOMAIN messages' : PressedNext(IdOf[messages'[i].by])
<1>1. ASSUME NEW i \in DOMAIN messages PROVE PressedNext(IdOf[messages[i].by])
  BY MessagesTyped, PressedLasts DEF PressInv
<1>2. ASSUME messages' = messages PROVE Held
  BY <1>1, <1>2
<1>3. ASSUME NEW r, Presses(r), NEW m, m = IdAt(r), PressedNext(m) PROVE Held
  <2>1. PICK y \in MessageRecord :
           y.by = run[r].envelope /\ messages' = Append(messages, y)
    BY <1>3, Sending DEF Presses
  <2>2. ASSUME NEW i \in DOMAIN messages' PROVE PressedNext(IdOf[messages'[i].by])
    <3>1. CASE i \in DOMAIN messages
      <4>1. messages'[i] = messages[i]
        BY <2>1, <3>1, MessagesGrow
      <4> QED
        BY <1>1, <3>1, <4>1
    <3>2. CASE i \notin DOMAIN messages
      <4>1. i = Len(messages) + 1 /\ messages'[i] = y
        BY <2>1, <2>2, <3>2, MessagesGrow
      <4>2. IdOf[messages'[i].by] = m
        BY <1>3, <2>1, <4>1 DEF IdAt
      <4> QED
        BY <1>3, <4>2
    <3> QED
      BY <3>1, <3>2
  <2> QED
    BY <2>2
<1>4. ASSUME NEW r, NEW k, NEW w, Goes(r, k, w), Presses(r), k.step = "submitted"
      PROVE  Held
  <2> DEFINE m == IdAt(r)
  <2>1. /\ row'[m] = w /\ w # NoRow /\ w.receipt = NoReceipt /\ w.state \in LateState
        /\ run'[r] = k /\ k.envelope = run[r].envelope /\ r \in Run
    BY <1>4, OneRunChanges, OneRowChanges DEF Goes, After
  <2>2. ASSUME NEW q \in Run, run'[q].step \notin Unowned, IdOf[run'[q].envelope] = m
        PROVE  run'[q].step \in After
    <3>1. q = r
      BY <1>4, <2>1, <2>2 DEF OneOwner, Owner, IdAt, Unowned
    <3> QED
      BY <1>4, <2>1, <3>1 DEF After
  <2>3. PressedNext(m)
    BY <2>1, <2>2 DEF PressedNext
  <2> QED
    BY <1>3, <1>4, <2>3
<1>5. ASSUME NEW r, NEW w, Finishes(r, w), Presses(r), w.state = "SUBMIT_NOT_ESTABLISHED"
      PROVE  Held
  <2> DEFINE m == IdAt(r)
  <2>1. /\ row'[m] = w /\ w # NoRow /\ w.receipt # NoReceipt
        /\ run'[r] = NoRun /\ r \in Run /\ Owner(r)
    BY <1>5, OneRunChanges, OneRowChanges, DistinctSentinels DEF Finishes
  <2>2. ASSUME NEW q \in Run, run'[q].step \notin Unowned, IdOf[run'[q].envelope] = m
        PROVE  FALSE
    <3>1. q # r
      BY <2>1, <2>2 DEF NoRun, Unowned
    <3>2. run'[q].envelope = run[q].envelope /\ (Owner(q) \/ row[IdAt(q)] = NoRow)
      BY <2>2, OwnersLast
    <3>3. row[m] # NoRow /\ m = IdAt(q)
      BY <2>1, <2>2, <3>2 DEF OwnInv, IdAt
    <3> QED
      BY <2>1, <3>1, <3>2, <3>3 DEF OneOwner
  <2>3. PressedNext(m)
    BY <1>5, <2>1, <2>2 DEF PressedNext
  <2> QED
    BY <1>3, <1>5, <2>3
<1>6. Held
  BY <1>2, <1>4, <1>5 DEF Kinds, Fills, Untouched
<1> QED
  BY <1>6 DEF PressInv, Pressed, PressedNext, Owner, IdAt

\* A text is in one composer or in one message, and never in both.
LEMMA DraftsHold ==
    ASSUME TypeInv, OwnInv, OneOwner, OneOwner', DraftInv, SentAtMostOnce, Kinds
    PROVE  DraftInv' /\ SentAtMostOnce'
<1> DEFINE Drafts ==
               \A w \in Place : draft'[w] # Empty =>
                   /\ OutNext(IdOf[draft'[w]])
                   /\ \A v \in Place :
                          draft'[v] # Empty /\ IdOf[draft'[v]] = IdOf[draft'[w]] => v = w
                   /\ \A i \in DOMAIN messages' : IdOf[messages'[i].text] # IdOf[draft'[w]]
           Sent ==
               /\ \A i \in DOMAIN messages' : OutNext(IdOf[messages'[i].text])
               /\ \A i, j \in DOMAIN messages' :
                      IdOf[messages'[i].text] = IdOf[messages'[j].text] => i = j
<1>typ. draft \in [Place -> Text \cup {Empty}]
  BY DEF TypeInv, TypeOK, FirefoxTypeOK, Place
<1>msg. ASSUME NEW i \in DOMAIN messages PROVE OutNext(IdOf[messages[i].text])
  BY MessagesTyped, OutLasts DEF DraftInv
<1>drf. ASSUME NEW w \in Place, draft[w] # Empty PROVE OutNext(IdOf[draft[w]])
  BY <1>drf, DraftsTyped, OutLasts DEF DraftInv
<1>1. ASSUME Untouched PROVE Drafts /\ Sent
  <2>1. draft' = draft /\ messages' = messages
    BY <1>1 DEF Untouched
  <2>2. Drafts
    BY <1>drf, <2>1 DEF DraftInv
  <2>3. Sent
    BY <1>msg, <2>1 DEF SentAtMostOnce
  <2> QED
    BY <2>2, <2>3
<1>fill. ASSUME NEW r, Fills(r), Owner(r), OutNext(IdAt(r)) PROVE Drafts /\ Sent
  <2> DEFINE m == IdAt(r)
             e == run[r].envelope
  <2>1. r \in Run /\ run[r].step \in Before
    BY <1>fill DEF Fills, Before
  <2>2. e \in Text /\ m = IdOf[e] /\ m \in Id /\ e # Empty
    BY <1>fill, <2>1, RunOf, EmptyIsNoText DEF Owner, Unowned, Envelope, IdAt
  <2>3. /\ messages' = messages
        /\ draft' = [draft EXCEPT ![Composer] = e] /\ Composer \in Place
    BY <1>fill, ComposerType DEF Fills
  <2>4. OutNext(m)
    BY <1>fill
  <2>5. ~Out(m)
    BY <1>fill, <2>1 DEF Out
  <2>6. /\ draft'[Composer] = e
        /\ \A v \in Place \ {Composer} :
              draft'[v] = draft[v] /\ (draft[v] # Empty => IdOf[draft[v]] # m)
        /\ \A i \in DOMAIN messages : IdOf[messages[i].text] # m
    BY <1>typ, <2>3, <2>5 DEF DraftInv
  <2> HIDE DEF m, e
  <2>7. ASSUME NEW v \in Place, draft'[v] # Empty
        PROVE  /\ OutNext(IdOf[draft'[v]])
               /\ \A u \in Place :
                      draft'[u] # Empty /\ IdOf[draft'[u]] = IdOf[draft'[v]] => u = v
               /\ \A i \in DOMAIN messages' : IdOf[messages'[i].text] # IdOf[draft'[v]]
    <3>1. CASE v = Composer
      <4>1. draft'[v] = e /\ IdOf[draft'[v]] = m
        BY <2>2, <2>6, <3>1
      <4> QED
        BY <2>3, <2>4, <2>6, <3>1, <4>1
    <3>2. CASE v # Composer
      <4>1. draft'[v] = draft[v] /\ draft[v] # Empty /\ IdOf[draft[v]] # m
        BY <2>6, <2>7, <3>2
      <4>2. ASSUME NEW u \in Place, draft'[u] # Empty, IdOf[draft'[u]] = IdOf[draft'[v]]
            PROVE  u = v
        <5>1. u # Composer
          BY <2>2, <2>6, <4>1, <4>2
        <5> QED
          BY <2>6, <4>1, <4>2, <5>1 DEF DraftInv
      <4> QED
        BY <1>drf, <2>3, <4>1, <4>2 DEF DraftInv
    <3> QED
      BY <3>1, <3>2
  <2>8. Sent
    BY <1>msg, <2>3 DEF SentAtMostOnce
  <2> QED
    BY <2>7, <2>8
<1>2. ASSUME NEW r, NEW k, NEW w, Goes(r, k, w), Fills(r), k.step = "again_address"
      PROVE  Drafts /\ Sent
  <2> DEFINE m == IdAt(r)
  <2>1. /\ row'[m] # NoRow /\ run'[r] = k /\ k.envelope = run[r].envelope
        /\ r \in Run /\ Owner(r)
    BY <1>2, OneRunChanges, OneRowChanges DEF Goes
  <2>2. ASSUME NEW q \in Run, run'[q].step \notin Unowned, IdOf[run'[q].envelope] = m
        PROVE  run'[q].step \notin Before
    <3>1. q = r
      BY <1>2, <2>1, <2>2 DEF OneOwner, Owner, IdAt, Unowned
    <3> QED
      BY <1>2, <2>1, <3>1 DEF Before
  <2>3. OutNext(m)
    BY <2>1, <2>2 DEF OutNext
  <2> QED
    BY <1>2, <1>fill, <2>1, <2>3
<1>end. ASSUME NEW r, NEW w, Finishes(r, w), Fills(r) PROVE Drafts /\ Sent
  <2> DEFINE m == IdAt(r)
  <2>1. /\ row'[m] = w /\ w # NoRow /\ run'[r] = NoRun /\ r \in Run /\ Owner(r)
    BY <1>end, OneRunChanges, OneRowChanges DEF Finishes
  <2>2. ASSUME NEW q \in Run, run'[q].step \notin Unowned, IdOf[run'[q].envelope] = m
        PROVE  FALSE
    <3>1. q # r
      BY <2>1, <2>2 DEF NoRun, Unowned
    <3>2. run'[q].envelope = run[q].envelope /\ (Owner(q) \/ row[IdAt(q)] = NoRow)
      BY <2>2, OwnersLast
    <3>3. row[m] # NoRow /\ m = IdAt(q)
      BY <2>1, <2>2, <3>2 DEF OwnInv, IdAt
    <3> QED
      BY <2>1, <3>1, <3>2, <3>3 DEF OneOwner
  <2>3. OutNext(m)
    BY <2>1, <2>2 DEF OutNext
  <2> QED
    BY <1>end, <1>fill, <2>1, <2>3
<1>3. ASSUME NEW r, Presses(r) PROVE Drafts /\ Sent
  <2>1. PICK y \in MessageRecord : /\ y.text = draft[Composer]
                                   /\ messages' = Append(messages, y)
                                   /\ draft' = [draft EXCEPT ![Composer] = Empty]
    BY <1>3, Sending DEF Presses
  <2>2. Composer \in Place /\ draft[Composer] # Empty
    BY <1>3, ComposerType DEF Presses
  <2>3. /\ draft'[Composer] = Empty
        /\ \A v \in Place \ {Composer} : draft'[v] = draft[v]
    BY <1>typ, <2>1, <2>2
  <2>4. ASSUME NEW i \in DOMAIN messages'
        PROVE  \/ i \in DOMAIN messages /\ messages'[i] = messages[i]
               \/ /\ i = Len(messages) + 1 /\ i \notin DOMAIN messages
                  /\ messages'[i].text = draft[Composer]
    BY <2>1, <2>4, MessagesGrow
  <2>5. ASSUME NEW v \in Place, draft'[v] # Empty
        PROVE  /\ OutNext(IdOf[draft'[v]])
               /\ \A u \in Place :
                      draft'[u] # Empty /\ IdOf[draft'[u]] = IdOf[draft'[v]] => u = v
               /\ \A i \in DOMAIN messages' : IdOf[messages'[i].text] # IdOf[draft'[v]]
    <3>1. v # Composer /\ draft'[v] = draft[v] /\ draft[v] # Empty
      BY <2>3, <2>5
    <3>2. IdOf[draft[Composer]] # IdOf[draft[v]]
      BY <2>2, <3>1 DEF DraftInv
    <3>3. ASSUME NEW i \in DOMAIN messages' PROVE IdOf[messages'[i].text] # IdOf[draft'[v]]
      BY <2>4, <3>1, <3>2 DEF DraftInv
    <3>4. ASSUME NEW u \in Place, draft'[u] # Empty, IdOf[draft'[u]] = IdOf[draft'[v]]
          PROVE  u = v
      BY <2>3, <3>1, <3>4 DEF DraftInv
    <3> QED
      BY <1>drf, <3>1, <3>3, <3>4
  <2>6. ASSUME NEW i \in DOMAIN messages' PROVE OutNext(IdOf[messages'[i].text])
    BY <1>msg, <1>drf, <2>2, <2>4
  <2>7. ASSUME NEW i \in DOMAIN messages', NEW j \in DOMAIN messages',
               IdOf[messages'[i].text] = IdOf[messages'[j].text]
        PROVE  i = j
    <3>1. ASSUME NEW x \in DOMAIN messages
          PROVE  IdOf[messages[x].text] # IdOf[draft[Composer]]
      BY <2>2 DEF DraftInv
    <3> QED
      BY <2>4, <2>7, <3>1 DEF SentAtMostOnce
  <2> QED
    BY <2>5, <2>6, <2>7
<1>4. Drafts /\ Sent
  BY <1>1, <1>2, <1>end, <1>3 DEF Kinds
<1>5. SentAtMostOnce'
  BY <1>4 DEF SentAtMostOnce
<1>6. DraftInv'
  BY <1>4 DEF DraftInv, Out, OutNext, Owner, IdAt
<1> QED
  BY <1>5, <1>6

\* A row that says ACK_VERIFIED has an acknowledgement of its own envelope.
LEMMA AcknowledgementsHold ==
    ASSUME TypeInv, OwnInv, Acknowledged, Kinds, AcksGrow
    PROVE  Acknowledged'
<1> DEFINE Backed(e) == \E i \in DOMAIN acks' : /\ acks'[i].text = e
                                                /\ acks'[i].status = "RECEIVED_VERIFIED"
           Held(m) == row'[m] # NoRow /\ row'[m].state = "ACK_VERIFIED" =>
                          Backed(row'[m].envelope)
<1>grow. ASSUME NEW e, \E i \in DOMAIN acks : /\ acks[i].text = e
                                              /\ acks[i].status = "RECEIVED_VERIFIED"
         PROVE  Backed(e)
  BY <1>grow DEF AcksGrow
<1>same. ASSUME NEW m \in Id, row'[m] = row[m] PROVE Held(m)
  BY <1>same, <1>grow DEF Acknowledged
<1>1. ASSUME NEW m \in Id PROVE Held(m)
  <2>1. CASE row' = row
    BY <1>same, <2>1
  <2>2. ASSUME NEW r, NEW k, NEW w, Takes(r, k, w) PROVE Held(m)
    <3>1. CASE m = IdAt(r)
      <4>1. row'[m] = w /\ w.state = "CREATED"
        BY <2>2, <3>1, OneRowChanges DEF Takes
      <4> QED
        BY <4>1
    <3>2. CASE m # IdAt(r)
      BY <1>same, <2>2, <3>2, OneRowChanges DEF Takes
    <3> QED
      BY <3>1, <3>2
  <2>3. ASSUME NEW r, NEW k, NEW w, Goes(r, k, w) PROVE Held(m)
    <3>1. CASE m = IdAt(r)
      <4>0. /\ RowBecomes(r, w) /\ Owner(r) /\ r \in Run /\ w.envelope = run[r].envelope
            /\ w.state = row[m].state \/ w.state # "ACK_VERIFIED"
        BY <2>3, <3>1 DEF Goes, RowBecomes, Becomes
      <4>1. /\ row'[m] = w /\ (w.state = row[m].state \/ w.state # "ACK_VERIFIED")
            /\ row[m] # NoRow /\ w.envelope = row[m].envelope
        BY <3>1, <4>0, OneRowChanges DEF OwnInv
      <4>2. row[m].state = "ACK_VERIFIED" => Backed(row[m].envelope)
        BY <1>grow, <4>1 DEF Acknowledged
      <4> QED
        BY <4>1, <4>2
    <3>2. CASE m # IdAt(r)
      BY <1>same, <2>3, <3>2, OneRowChanges DEF Goes
    <3> QED
      BY <3>1, <3>2
  <2>4. ASSUME NEW r, NEW w, Finishes(r, w) PROVE Held(m)
    <3>1. CASE m = IdAt(r)
      <4>1. row'[m] = w
        BY <2>4, <3>1, OneRowChanges DEF Finishes
      <4>2. w.state = "ACK_VERIFIED" => Backed(w.envelope)
        BY <1>grow, <2>4 DEF Finishes
      <4> QED
        BY <4>1, <4>2
    <3>2. CASE m # IdAt(r)
      BY <1>same, <2>4, <3>2, OneRowChanges DEF Finishes
    <3> QED
      BY <3>1, <3>2
  <2> QED
    BY <2>1, <2>2, <2>3, <2>4 DEF Kinds, Rests, Approaches, Dies
<1> QED
  BY <1>1 DEF Acknowledged

\* What a caller was told is what the row says, then and later.
LEMMA AnswersHold ==
    ASSUME TypeInv, OwnInv, AnswerInv, Kinds
    PROVE  AnswerInv'
<1> DEFINE Held(a) == /\ row'[IdOf[a.envelope]] # NoRow
                      /\ row'[IdOf[a.envelope]].envelope = a.envelope
                      /\ row'[IdOf[a.envelope]].receipt = a.receipt
           Was(a) == /\ row[IdOf[a.envelope]] # NoRow
                     /\ row[IdOf[a.envelope]].envelope = a.envelope
                     /\ row[IdOf[a.envelope]].receipt = a.receipt
<1>was. ASSUME NEW a \in [envelope : Envelope, receipt : Receipt], Was(a) PROVE Held(a)
  <2>1. IdOf[a.envelope] \in Id /\ a.receipt # NoReceipt
    BY EnvelopesAddressed, DistinctSentinels
  <2> QED
    BY <1>was, <2>1, RowsLast
<1>old. ASSUME NEW a \in answers PROVE Held(a)
  <2>1. a \in [envelope : Envelope, receipt : Receipt]
    BY DEF TypeInv, TypeOK
  <2> QED
    BY <1>was, <2>1 DEF AnswerInv
<1>1. ASSUME NEW a \in answers' PROVE Held(a)
  <2>1. CASE answers' = answers
    BY <1>old, <1>1, <2>1
  <2>2. ASSUME NEW r, NEW k, Approaches(r, k) PROVE Held(a)
    BY <1>old, <1>was, <1>1, <2>2 DEF Approaches
  <2>3. ASSUME NEW r, NEW w, Finishes(r, w) PROVE Held(a)
    <3>1. CASE a \in answers
      BY <1>old, <3>1
    <3>2. CASE a \notin answers
      <4>1. a = [envelope |-> w.envelope, receipt |-> w.receipt]
        BY <1>1, <2>3, <3>2 DEF Finishes
      <4>2. a.envelope = w.envelope /\ a.receipt = w.receipt
        BY <4>1
      <4>3. IdAt(r) = IdOf[w.envelope] /\ row'[IdAt(r)] = w /\ w # NoRow
        BY <2>3, OneRowChanges DEF Finishes, RowBecomes, IdAt
      <4> QED
        BY <4>2, <4>3
    <3> QED
      BY <3>1, <3>2
  <2> QED
    BY <2>1, <2>2, <2>3 DEF Kinds, Rests, Takes, Goes, Dies
<1> QED
  BY <1>1 DEF AnswerInv

\* A row without a receipt has a run, or had one that was killed.
LEMMA StrandedHolds ==
    ASSUME TypeInv, OwnInv, StrandedOnlyByKill, Kinds
    PROVE  StrandedOnlyByKill'
<1> DEFINE Worked(m) == \E q \in Run : run'[q].step \notin Unowned /\ IdOf[run'[q].envelope] = m
           Held(m) == row'[m] # NoRow /\ row'[m].receipt = NoReceipt => m \in killed' \/ Worked(m)
<1>was. \A m \in Id : row[m] # NoRow /\ row[m].receipt = NoReceipt =>
            m \in killed \/ \E q \in Run : Owner(q) /\ IdAt(q) = m
  BY DEF StrandedOnlyByKill, Owner, Unowned
<1>other. ASSUME NEW m \in Id, NEW r, NEW k, Becomes(r, k), row'[m] = row[m],
                 killed \subseteq killed', ~Owner(r) \/ m # IdAt(r)
          PROVE  Held(m)
  <2>1. SUFFICES ASSUME row[m] # NoRow, row[m].receipt = NoReceipt, m \notin killed
                 PROVE  Worked(m)
    BY <1>other
  <2>2. PICK q \in Run : Owner(q) /\ IdAt(q) = m
    BY <1>was, <2>1
  <2>3. run'[q] = run[q]
    BY <1>other, <2>2, OneRunChanges
  <2> QED
    BY <2>2, <2>3 DEF Owner, IdAt
<1>1. ASSUME NEW m \in Id PROVE Held(m)
  <2>1. CASE Rests
    BY <1>was, <2>1 DEF Rests, Owner, IdAt
  <2>2. ASSUME NEW r, NEW k, Approaches(r, k) PROVE Held(m)
    BY <1>other, <2>2 DEF Approaches
  <2>3. ASSUME NEW r, NEW k, NEW w, Takes(r, k, w) PROVE Held(m)
    <3>1. CASE m = IdAt(r)
      <4>1. /\ run'[r] = k /\ r \in Run /\ k.step \notin Unowned
            /\ IdOf[k.envelope] = m
        BY <2>3, <3>1, OneRunChanges DEF Takes, IdAt, Unowned
      <4> QED
        BY <4>1
    <3>2. CASE m # IdAt(r)
      BY <1>other, <2>3, <3>2, OneRowChanges DEF Takes
    <3> QED
      BY <3>1, <3>2
  <2>4. ASSUME NEW r, NEW k, NEW w, Goes(r, k, w) PROVE Held(m)
    <3>1. CASE m = IdAt(r)
      <4>1. /\ run'[r] = k /\ r \in Run /\ k.step \notin Unowned
            /\ IdOf[k.envelope] = m
        BY <2>4, <3>1, OneRunChanges DEF Goes, IdAt
      <4> QED
        BY <4>1
    <3>2. CASE m # IdAt(r)
      BY <1>other, <2>4, <3>2, OneRowChanges DEF Goes
    <3> QED
      BY <3>1, <3>2
  <2>5. ASSUME NEW r, NEW w, Finishes(r, w) PROVE Held(m)
    <3>1. CASE m = IdAt(r)
      <4>1. row'[m] = w /\ w.receipt # NoReceipt
        BY <2>5, <3>1, OneRowChanges, DistinctSentinels DEF Finishes
      <4> QED
        BY <4>1
    <3>2. CASE m # IdAt(r)
      BY <1>other, <2>5, <3>2, OneRowChanges DEF Finishes
    <3> QED
      BY <3>1, <3>2
  <2>6. ASSUME NEW r, Dies(r) PROVE Held(m)
    <3>1. CASE m = IdAt(r)
      BY <2>6, <3>1 DEF Dies
    <3>2. CASE m # IdAt(r)
      BY <1>other, <2>6, <3>2 DEF Dies
    <3> QED
      BY <3>1, <3>2
  <2> QED
    BY <2>1, <2>2, <2>3, <2>4, <2>5, <2>6 DEF Kinds
<1> QED
  BY <1>1 DEF StrandedOnlyByKill, Owner, Unowned, IdAt

-----------------------------------------------------------------------------
(* The moves.                                                              *)

\* A process changes no run but its own.
LEMMA OthersRunOn ==
    ASSUME TypeInv, NEW r \in Run, RunStep(r) \/ Start(r) \/ Kill(r), NEW q \in Run \ {r}
    PROVE  run'[q] = run[q]
<1>run. run \in [Run -> RunRecord]
  BY DEF TypeInv, TypeOK, RunRecord
<1>goto. ASSUME NEW s, Goto(r, s) PROVE run'[q] = run[q]
  BY <1>goto, <1>run DEF Goto
<1>leave. ASSUME Leave(r) PROVE run'[q] = run[q]
  BY <1>leave, <1>run DEF Leave
<1>end. ASSUME NEW f, Finish(r, f) PROVE run'[q] = run[q]
  BY <1>end, <1>leave DEF Finish
<1>1. ASSUME Claim(r) \/ Insert(r) \/ Kill(r) PROVE run'[q] = run[q]
  BY <1>1, <1>goto, <1>leave DEF Claim, Insert, Kill
<1>2. ASSUME VerifySource(r) \/ Choose(r) PROVE run'[q] = run[q]
  <2>1. \/ \E f : Finish(r, f)
        \/ run' = [run EXCEPT ![r].step = "discover", ![r].todo = Tab]
        \/ run' = [run EXCEPT ![r].step = "activate", ![r].found = {},
                              ![r].tab = CHOOSE t \in run[r].found : TRUE]
    BY <1>2 DEF VerifySource, Choose
  <2> QED
    BY <1>end, <1>run, <2>1
<1>3. ASSUME SelectCandidate(r) \/ CandidateAddress(r) \/ CandidateIdentity(r)
      PROVE  run'[q] = run[q]
  BY <1>3, <1>run, <1>goto DEF SelectCandidate, CandidateAddress, CandidateIdentity,
                               NextCandidate
<1>4. ASSUME \/ Activate(r) \/ SnapshotAddress(r) \/ SnapshotIdentity(r) \/ Populate(r)
             \/ RecordSubmit(r) \/ SelectAgain(r) \/ ReadRendered(r) \/ AwaitAck(r)
             \/ PollAgain(r) \/ Submit(r) \/ ReadAck(r) \/ TimeOut(r) \/ TargetRaises(r)
      PROVE  run'[q] = run[q]
  <2>1. (\E f : Finish(r, f)) \/ (\E s : Goto(r, s))
    BY <1>4 DEF Activate, SnapshotAddress, SnapshotIdentity, Populate, RecordSubmit,
                SelectAgain, ReadRendered, AwaitAck, PollAgain, Submit, ReadAck, TimeOut,
                TargetRaises, Advance
  <2> QED
    BY <1>end, <1>goto, <2>1
<1>5. ASSUME Start(r) PROVE run'[q] = run[q]
  <2>1. \E e \in Envelope :
            run' = [run EXCEPT ![r] = [NoRun EXCEPT !.step = "claim", !.envelope = e]]
    BY <1>5 DEF Start
  <2> QED
    BY <1>run, <2>1 DEF NoRun
<1> QED
  BY <1>1, <1>2, <1>3, <1>4, <1>5 DEF RunStep

\* A run sees either its own step, which leaves the window alone once it is
\* past its first look, or somebody else's.
Own(q) == Looks(q) /\ moved'[q] >= moved[q]
Anothers(q) ==
    /\ run'[q] = run[q]
    /\ run[q].step \in Armed =>
          \/ moved'[q] = moved[q] /\ active' = active /\ page' = page
          \/ moved'[q] = moved[q] + 1
          \/ moved[q] = 3 /\ moved'[q] = 3

\* There is no third kind of step for a run.
LEMMA WhatARunSees ==
    ASSUME TypeInv, [Next]_vars, NEW q \in Run
    PROVE  /\ run'[q].step \notin Armed => moved'[q] = 0 \/ (run'[q] = run[q] /\ moved'[q] = moved[q])
           /\ run'[q].step \in Armed => Own(q) \/ Anothers(q)
<1>typ. moved[q] \in 0..3
  BY DEF TypeInv, TypeOK
<1>1. ASSUME NEW r \in Run, RunStep(r) \/ ((Start(r) \/ Kill(r)) /\ Watch(r))
      PROVE  /\ run'[q].step \notin Armed => moved'[q] = 0
             /\ run'[q].step \in Armed => Own(q) \/ Anothers(q)
  <2>1. Watch(r) /\ Looks(r)
    BY <1>1, EveryLookIsOneOfThese DEF RunStep
  <2>2. CASE q = r
    BY <1>typ, <2>1, <2>2, Watching DEF Own
  <2>3. CASE q # r
    BY <1>1, <2>1, <2>3, Watching, OthersRunOn DEF Anothers
  <2> QED
    BY <2>2, <2>3
<1>2. CASE Environment
  <2>1. Watch(NoTab) /\ q # NoTab /\ run' = run
    BY <1>2, DistinctSentinels DEF Environment, relay
  <2> QED
    BY <2>1, Watching DEF Anothers
<1>3. CASE UNCHANGED vars
  <2>1. moved' = moved /\ run' = run /\ active' = active /\ page' = page
    BY <1>3 DEF vars, browser, window, relay
  <2> QED
    BY <2>1 DEF Anothers
<1> QED
  BY <1>1, <1>2, <1>3 DEF Next

\* Nobody puts a text in a composer but the run that owns it.
LEMMA DraftsAreTheOwners ==
    ASSUME TypeInv, OneOwner, Kinds, NEW q \in Run, run[q].step \in Written,
           NEW w \in Place, draft'[w] = run[q].envelope
    PROVE  draft[w] = run[q].envelope
<1>1. /\ draft \in [Place -> Text \cup {Empty}] /\ Composer \in Place
      /\ run[q].envelope # Empty /\ Owner(q) /\ run[q].step # "populate"
  BY RunOf, ComposerType, EmptyIsNoText
     DEF TypeInv, TypeOK, FirefoxTypeOK, Place, Written, Owner, Unowned, Envelope
<1>2. CASE Untouched
  BY <1>2 DEF Untouched
<1>3. ASSUME NEW r, Fills(r) PROVE draft[w] = run[q].envelope
  <2>1. r \in Run /\ r # q /\ Owner(r)
    BY <1>1, <1>3 DEF Fills, Owner, Unowned
  <2>2. run[r].envelope # run[q].envelope
    BY <1>1, <2>1 DEF OneOwner, IdAt
  <2> QED
    BY <1>1, <1>3, <2>2 DEF Fills
<1>4. ASSUME NEW r, Presses(r) PROVE draft[w] = run[q].envelope
  BY <1>1, <1>4 DEF Presses, Send
<1> QED
  BY <1>2, <1>3, <1>4 DEF Kinds

\* A run that strays was moved as often as its step says.
LEMMA MovesHold ==
    ASSUME TypeInv, OwnInv, OneOwner, DraftInv, MovedInv, Kinds, [Next]_vars
    PROVE  MovedInv'
<1> DEFINE At2(q) == page'[active'] = TargetOf[run'[q].envelope]
           Astray2(q) == \E w \in Place : /\ w[2] # TargetOf[run'[q].envelope]
                                          /\ draft'[w] = run'[q].envelope
           Held(q) ==
               /\ run'[q].step \notin Armed => moved'[q] = 0
               /\ run'[q].step \in {"pre_identity", "populate"} => At2(q) \/ moved'[q] >= 1
               /\ run'[q].step = "again_address" /\ Astray2(q) =>
                      moved'[q] >= 2 \/ (moved'[q] >= 1 /\ ~At2(q))
               /\ run'[q].step \in {"again_identity", "submit"} /\ Astray2(q) =>
                      moved'[q] = 3 \/ (moved'[q] >= 2 /\ At2(q))
<1>1. ASSUME NEW q \in Run PROVE Held(q)
  <2>typ. moved[q] \in 0..3 /\ moved'[q] \in 0..3
    BY WindowTypesHold DEF TypeInv, TypeOK
  <2>inv. /\ run[q].step \notin Armed => moved[q] = 0
          /\ run[q].step \in {"pre_identity", "populate"} => AtTarget(q) \/ moved[q] >= 1
          /\ run[q].step = "again_address" /\ Astray(q) =>
                 moved[q] >= 2 \/ (moved[q] >= 1 /\ ~AtTarget(q))
          /\ run[q].step \in {"again_identity", "submit"} /\ Astray(q) =>
                 moved[q] = 3 \/ (moved[q] >= 2 /\ AtTarget(q))
    BY DEF MovedInv
  <2>still. ASSUME active' = active, page' = page, run'[q].envelope = run[q].envelope
            PROVE  At2(q) <=> AtTarget(q)
    BY <2>still DEF AtTarget, Address
  <2>stray. ASSUME run[q].step \in Written, run'[q].envelope = run[q].envelope, Astray2(q)
            PROVE  Astray(q)
    BY <2>stray, DraftsAreTheOwners DEF Astray
  <2> HIDE DEF At2
  <2>1. CASE run'[q].step \notin Armed
    <3>1. moved'[q] = 0
      BY <2>1, <2>inv, WhatARunSees
    <3> QED
      BY <2>1, <3>1 DEF Armed
  <2>2. CASE run'[q].step \in Armed /\ Anothers(q)
    <3>1. run'[q] = run[q]
      BY <2>2 DEF Anothers
    <3>2. \/ moved'[q] = moved[q] /\ (At2(q) <=> AtTarget(q))
          \/ moved'[q] = moved[q] + 1
          \/ moved[q] = 3 /\ moved'[q] = 3
      BY <2>2, <2>still, <3>1 DEF Anothers
    <3>3. run[q].step \in Written /\ Astray2(q) => Astray(q)
      BY <2>stray, <3>1
    <3> HIDE DEF Astray2
    <3>4. run'[q].step \in {"pre_identity", "populate"} => At2(q) \/ moved'[q] >= 1
      BY <2>typ, <2>inv, <3>1, <3>2
    <3>5. run'[q].step = "again_address" /\ Astray2(q) =>
              moved'[q] >= 2 \/ (moved'[q] >= 1 /\ ~At2(q))
      BY <2>typ, <2>inv, <3>1, <3>2, <3>3 DEF Written
    <3>6. run'[q].step \in {"again_identity", "submit"} /\ Astray2(q) =>
              moved'[q] = 3 \/ (moved'[q] >= 2 /\ At2(q))
      BY <2>typ, <2>inv, <3>1, <3>2, <3>3 DEF Written
    <3> QED
      BY <2>2, <3>4, <3>5, <3>6
  <2>3. CASE run'[q].step \in Armed /\ Own(q)
    <3>1. moved'[q] >= moved[q] /\ Looks(q)
      BY <2>3 DEF Own
    <3>still. ASSUME run'[q].step \in Armed \ {"pre_address"}
              PROVE  run'[q].envelope = run[q].envelope /\ (At2(q) <=> AtTarget(q))
      BY <3>still, <3>1, <2>still DEF Looks
    <3>2. CASE run'[q].step = "pre_address"
      BY <2>3, <3>2
    <3>3. CASE run'[q].step = "pre_identity"
      <4>1. At2(q)
        BY <3>1, <3>3, <3>still DEF Looks, Armed
      <4> QED
        BY <2>3, <3>3, <4>1
    <3>4. CASE run'[q].step = "populate"
      <4>1. run[q].step = "pre_identity" /\ (At2(q) <=> AtTarget(q))
        BY <3>1, <3>4, <3>still DEF Looks, Armed
      <4>2. At2(q) \/ moved'[q] >= 1
        BY <2>typ, <2>inv, <3>1, <4>1
      <4> QED
        BY <2>3, <3>4, <4>2
    <3>5. CASE run'[q].step = "again_address"
      <4>1. /\ run[q].step = "populate" /\ (At2(q) <=> AtTarget(q)) /\ Fills(q)
            /\ run'[q].envelope = run[q].envelope
        BY <3>1, <3>5, <3>still DEF Looks, Armed
      <4>2. ASSUME Astray2(q) PROVE moved'[q] >= 1 /\ ~At2(q)
        <5>1. PICK w \in Place : /\ w[2] # TargetOf[run[q].envelope]
                                 /\ draft'[w] = run[q].envelope
          BY <4>1, <4>2
        <5>2. draft \in [Place -> Text \cup {Empty}] /\ Composer \in Place
              /\ run[q].envelope # Empty
          BY <4>1, RunOf, ComposerType, EmptyIsNoText
             DEF TypeInv, TypeOK, FirefoxTypeOK, Place, Envelope
        <5>3. w = Composer
          <6>1. SUFFICES ASSUME w # Composer PROVE FALSE
            OBVIOUS
          <6>2. draft[w] = run[q].envelope
            BY <4>1, <5>1, <5>2, <6>1 DEF Fills
          <6>3. Out(IdAt(q))
            BY <5>2, <6>2 DEF DraftInv, IdAt
          <6> QED
            BY <4>1, <6>3 DEF Out, Owner, Unowned, Before
        <5>4. ~AtTarget(q)
          BY <5>1, <5>3 DEF AtTarget, Composer
        <5> QED
          BY <2>typ, <2>inv, <3>1, <4>1, <5>4
      <4> QED
        BY <2>3, <3>5, <4>2
    <3>6. CASE run'[q].step = "again_identity"
      <4>1. /\ run[q].step = "again_address" /\ (At2(q) <=> AtTarget(q)) /\ AtTarget(q)
            /\ run'[q].envelope = run[q].envelope
        BY <3>1, <3>6, <3>still DEF Looks, Armed
      <4>2. Astray2(q) => Astray(q)
        BY <2>stray, <4>1 DEF Written
      <4> HIDE DEF Astray2
      <4>3. Astray2(q) => moved'[q] >= 2 /\ At2(q)
        BY <2>typ, <2>inv, <3>1, <4>1, <4>2
      <4> QED
        BY <2>3, <3>6, <4>3
    <3>7. CASE run'[q].step = "submit"
      <4>1. /\ run[q].step = "again_identity" /\ (At2(q) <=> AtTarget(q))
            /\ run'[q].envelope = run[q].envelope
        BY <3>1, <3>7, <3>still DEF Looks, Armed
      <4>2. Astray2(q) => Astray(q)
        BY <2>stray, <4>1 DEF Written
      <4> HIDE DEF Astray2
      <4>3. Astray2(q) => moved'[q] = 3 \/ (moved'[q] >= 2 /\ At2(q))
        BY <2>typ, <2>inv, <3>1, <4>1, <4>2
      <4> QED
        BY <2>3, <3>7, <4>3
    <3> QED
      BY <2>3, <3>2, <3>3, <3>4, <3>5, <3>6, <3>7 DEF Armed
  <2> QED
    BY <2>1, <2>2, <2>3, WhatARunSees
<1> QED
  BY <1>1 DEF MovedInv, AtTarget, Astray, Address

\* A text sent to the wrong place was moved three times.
LEMMA WrongPlacesHold ==
    ASSUME TypeInv, MovedInv, WrongPlaceTakesThreeMoves, Kinds
    PROVE  WrongPlaceTakesThreeMoves'
<1> DEFINE Held(y) == y.by = y.text /\ y.place # TargetOf[y.text] => y.moved = 3
<1>1. ASSUME NEW r, Presses(r), NEW i \in DOMAIN messages' PROVE Held(messages'[i])
  <2>1. r \in Run /\ run[r].step = "submit" /\ draft[Composer] # Empty
    BY <1>1 DEF Presses
  <2>2. PICK y \in MessageRecord :
           /\ y.text = draft[Composer] /\ y.place = Address
           /\ y.by = run[r].envelope /\ y.moved = moved[r]
           /\ messages' = Append(messages, y)
    BY <1>1, <2>1, Sending
  <2>3. ASSUME y.by = y.text, y.place # TargetOf[y.text] PROVE y.moved = 3
    <3>1. Astray(r)
      <4>1. Composer \in Place /\ Composer[2] = Address
        BY ComposerType DEF Composer
      <4> QED
        BY <2>2, <2>3, <4>1 DEF Astray
    <3>2. ~AtTarget(r)
      BY <2>2, <2>3 DEF AtTarget
    <3> QED
      BY <2>1, <2>2, <3>1, <3>2 DEF MovedInv
  <2>4. CASE i \in DOMAIN messages
    <3>1. messages'[i] = messages[i]
      BY <2>2, <2>4, MessagesGrow
    <3> QED
      BY <2>4, <3>1 DEF WrongPlaceTakesThreeMoves
  <2>5. CASE i \notin DOMAIN messages
    <3>1. messages'[i] = y
      BY <1>1, <2>2, <2>5, MessagesGrow
    <3> QED
      BY <2>3, <3>1
  <2> QED
    BY <2>4, <2>5
<1>2. ASSUME messages' = messages PROVE WrongPlaceTakesThreeMoves'
  BY <1>2 DEF WrongPlaceTakesThreeMoves
<1>3. ASSUME NEW r, Presses(r) PROVE WrongPlaceTakesThreeMoves'
  BY <1>1, <1>3 DEF WrongPlaceTakesThreeMoves
<1> QED
  BY <1>2, <1>3 DEF Kinds, Fills, Untouched

-----------------------------------------------------------------------------
(* The theorems.                                                           *)

\* TypeInv /\ SafetyInv is inductive.
LEMMA InvariantHolds ==
    Spec => [](TypeInv /\ SafetyInv)
<1>1. Init => TypeInv /\ SafetyInv
  <2> SUFFICES ASSUME Init PROVE TypeInv /\ SafetyInv
    OBVIOUS
  <2> USE DEF Init, FirefoxInit
  <2>1. \A r \in Run : run[r] = NoRun /\ NoRun \in RunRecord /\ NoRun.step = "idle"
    BY DEF NoRun, RunRecord, Step
  <2>2. run \in [Run -> RunRecord]
    BY <2>1
  <2>3. messages = <<>> /\ acks = <<>> /\ DOMAIN messages = {} /\ DOMAIN acks = {}
        /\ draft \in [Tab \X Conversation -> Text \cup {Empty}]
    OBVIOUS
  <2>4. TypeOK
    BY <2>2, <2>3 DEF TypeOK, FirefoxTypeOK, RunRecord
  <2>5. TypeInv
    BY <2>1, <2>4 DEF TypeInv, RunOK, Armed, After
  <2>6. \A r \in Run : ~Owner(r)
    BY <2>1 DEF Owner, Unowned
  <2>7. OwnInv /\ OneOwner
    BY <2>6 DEF OwnInv, OneOwner
  <2>8. DraftInv /\ SentAtMostOnce /\ PressInv /\ WrongPlaceTakesThreeMoves
    BY <2>3 DEF DraftInv, SentAtMostOnce, PressInv, WrongPlaceTakesThreeMoves, Place
  <2>9. Acknowledged /\ AnswerInv /\ StrandedOnlyByKill
    BY DEF Acknowledged, AnswerInv, StrandedOnlyByKill
  <2>10. MovedInv
    BY <2>1 DEF MovedInv, Armed
  <2> QED
    BY <2>5, <2>7, <2>8, <2>9, <2>10 DEF SafetyInv
<1>2. TypeInv /\ SafetyInv /\ [Next]_vars => (TypeInv /\ SafetyInv)'
  <2> SUFFICES ASSUME TypeInv, SafetyInv, [Next]_vars PROVE TypeInv' /\ SafetyInv'
    OBVIOUS
  <2> USE DEF SafetyInv
  <2>1. Kinds /\ AcksGrow
    BY EveryStepIsOneOfThese, WindowTypesHold
  <2>2. TypeInv'
    BY TypesHold
  <2>3. OwnInv' /\ OneOwner'
    BY <2>1, OwnersHold
  <2>4. DraftInv' /\ SentAtMostOnce'
    BY <2>1, <2>3, DraftsHold
  <2>5. PressInv'
    BY <2>1, <2>3, PressesHold
  <2>6. Acknowledged' /\ AnswerInv' /\ StrandedOnlyByKill'
    BY <2>1, AcknowledgementsHold, AnswersHold, StrandedHolds
  <2>7. MovedInv' /\ WrongPlaceTakesThreeMoves'
    BY <2>1, MovesHold, WrongPlacesHold
  <2> QED
    BY <2>2, <2>3, <2>4, <2>5, <2>6, <2>7
<1> QED
  BY <1>1, <1>2, PTL DEF Spec

\* The state is always of its types: a run past its claim has an envelope, and
\* a tab from the choice of its target on.
THEOREM TypeCorrect == Spec => []TypeOK
BY InvariantHolds, PTL DEF TypeInv

\* SentAtMostOnce: whatever is killed, retried or started at once, the primary
\* key of RelayStore.claim lets one run of an id reach Enter, and what an
\* abandoned run left in a composer is sent by whoever presses Enter there, or
\* not at all.
THEOREM MessagesAreSentOnce == Spec => []SentAtMostOnce
BY InvariantHolds, PTL DEF SafetyInv

\* RowTellsWhatHappened: the rows that advance() and finish() write tell
\* whether Enter may have been pressed; ACK_VERIFIED is written only for an
\* acknowledgement that fits the row's envelope in nonce, body and status,
\* whoever put it there; and every caller of run() is told what the row of its
\* envelope says.
THEOREM RowsTell == Spec => []RowTellsWhatHappened
<1>1. TypeInv /\ SafetyInv => RowTellsWhatHappened
  <2> SUFFICES ASSUME TypeInv, SafetyInv PROVE RowTellsWhatHappened
    OBVIOUS
  <2> USE DEF SafetyInv
  <2>1. ASSUME NEW a \in answers
        PROVE  a = [envelope |-> row[IdOf[a.envelope]].envelope,
                    receipt |-> row[IdOf[a.envelope]].receipt]
    <3>1. a \in [envelope : Envelope, receipt : Receipt]
      BY DEF TypeInv, TypeOK
    <3>2. a = [envelope |-> a.envelope, receipt |-> a.receipt]
      BY <3>1
    <3>3. /\ row[IdOf[a.envelope]].envelope = a.envelope
          /\ row[IdOf[a.envelope]].receipt = a.receipt
      BY DEF AnswerInv
    <3> QED
      BY <3>2, <3>3
  <2>2. \A i \in DOMAIN messages :
            LET w == row[IdOf[messages[i].by]] IN
            IF w.receipt = NoReceipt THEN w.state \in LateState
            ELSE w.receipt.submitted \/ w.state = "SUBMIT_NOT_ESTABLISHED"
    BY DEF PressInv, Pressed
  <2> QED
    BY <2>1, <2>2 DEF RowTellsWhatHappened, Acknowledged
<1> QED
  BY <1>1, InvariantHolds, PTL

\* WrongPlaceTakesThreeMoves: the two snapshots of run() leave the user one way
\* to misdirect a text: away before the write, back before the second
\* snapshot, away again before the key.
THEOREM MisdirectingTakesThreeMoves == Spec => []WrongPlaceTakesThreeMoves
BY InvariantHolds, PTL DEF SafetyInv

\* StrandedOnlyByKill: every failure that run() handles ends in finish(), so a
\* row without a receipt has a process that works on it or had one that was
\* killed.
THEOREM OnlyKillsStrand == Spec => []StrandedOnlyByKill
BY InvariantHolds, PTL DEF SafetyInv
=============================================================================
