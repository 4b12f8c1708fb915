-------------------------- MODULE WorkstationRelay --------------------------
(***************************************************************************)
(* Runs of the workstation relay: src/radar/workstation_relay.py over the  *)
(* SQLite store of src/radar/workstation_relay_state.py and the browser of *)
(* FirefoxTarget.  Several processes may run at once, on one message or on *)
(* different ones, and a process may be killed between any two steps; its  *)
(* row stays as it was.                                                    *)
(*                                                                         *)
(* A step of run() and the write of the state it reaches are one action,   *)
(* except that the Enter key and the write that follows it are two.        *)
(***************************************************************************)
EXTENDS FirefoxTarget

CONSTANTS
    Run,          \* processes
    Id, IdOf,     \* message ids; two envelopes may claim one
    TargetOf,     \* the conversation an envelope's recipient is configured at
    NoRow, NoReceipt, NoTab,
    MaxStarts     \* bound: calls of run()

Envelope == Text

\* Receipts that are written before the key is pressed, at it, and after it.
UnsentState == {"SOURCE_BUS_UNVERIFIED", "TARGET_NOT_FOUND", "TARGET_AMBIGUOUS",
                "TARGET_CHANGED_PRE_SUBMIT", "COMPOSER_WRITE_FAILED"}
SentState == {"SUBMITTED_UNVERIFIED", "ACK_TIMEOUT", "ACK_MISMATCH",
              "SOURCE_BUS_UNVERIFIED", "ACK_VERIFIED"}
FinalState == UnsentState \cup SentState \cup {"SUBMIT_NOT_ESTABLISHED"}
EarlyState == {"CREATED", "BUS_BOUND", "TARGET_DISCOVERED", "TARGET_VERIFIED_PREWRITE",
               "COMPOSER_POPULATED"}
LateState == {"TARGET_REVERIFIED_PRESUBMIT", "SUBMITTED", "RENDERED_READBACK_VERIFIED",
              "ACK_PENDING"}
\* submitted: the transitions list SUBMITTED.
Receipt == [final : FinalState, submitted : BOOLEAN, rendered : BOOLEAN]
Row == [envelope : Envelope, state : EarlyState \cup LateState \cup FinalState,
        receipt : Receipt \cup {NoReceipt}]

Armed == {"pre_address", "pre_identity", "populate", "again_address", "again_identity",
          "submit"}
Step == Armed \cup {"idle", "claim", "insert", "source", "discover", "look",
                    "look_identity", "activate",
                    "submitted", "readback", "read", "rendered", "await", "ack"}

ASSUME EnvelopesAddressed ==
    /\ IdOf \in [Envelope -> Id]
    /\ TargetOf \in [Envelope -> Conversation]
ASSUME DistinctSentinels ==
    NoRow \notin Row /\ NoReceipt \notin Receipt /\ NoTab \notin Tab \cup Run
ASSUME BoundsAreNumbers == MaxStarts \in Nat

VARIABLES
    row,      \* workstation_relay_operations
    run,      \* calls of run()
    moved,    \* history: how often others changed the view of an armed run
    answers,  \* history: the receipts callers were given
    killed,   \* history: ids whose run was killed
    starts    \* history: calls of run() so far

relay == <<row, run, answers, killed, starts>>
vars == <<browser, relay, moved>>

NoRun == [step |-> "idle", envelope |-> Empty, tab |-> NoTab, todo |-> {}, found |-> {}]

TypeOK ==
    /\ FirefoxTypeOK
    /\ row \in [Id -> Row \cup {NoRow}]
    /\ run \in [Run -> [step : Step, envelope : Envelope \cup {Empty},
                        tab : Tab \cup {NoTab}, todo : SUBSET Tab, found : SUBSET Tab]]
    /\ moved \in [Run -> 0..3]
    /\ answers \subseteq [envelope : Envelope, receipt : Receipt]
    /\ killed \subseteq Id
    /\ starts \in 0..MaxStarts

Init ==
    /\ FirefoxInit
    /\ row = [i \in Id |-> NoRow]
    /\ run = [r \in Run |-> NoRun]
    /\ moved = [r \in Run |-> 0]
    /\ answers = {}
    /\ killed = {}
    /\ starts \in 0..MaxStarts  \* what is left of the bound

-----------------------------------------------------------------------------

At(r, step) == run[r].step = step
IdAt(r) == IdOf[run[r].envelope]
Goto(r, step) == run' = [run EXCEPT ![r].step = step]
Leave(r) == run' = [run EXCEPT ![r] = NoRun]

\* advance(): the state is written to the row before the next step.
Advance(r, state, step) ==
    /\ row' = [row EXCEPT ![IdAt(r)].state = state]
    /\ Goto(r, step)
    /\ UNCHANGED <<answers, killed, starts>>

ReceiptAt(r, final) ==
    [final |-> final,
     submitted |-> run[r].step \in {"readback", "read", "rendered", "await", "ack"},
     rendered |-> run[r].step \in {"rendered", "await", "ack"}]

\* finish(): the final state and the receipt are written in one transaction.
Finish(r, final) ==
    LET receipt == ReceiptAt(r, final) IN
    /\ row' = [row EXCEPT ![IdAt(r)].state = final, ![IdAt(r)].receipt = receipt]
    /\ answers' = answers \cup {[envelope |-> run[r].envelope, receipt |-> receipt]}
    /\ Leave(r)
    /\ UNCHANGED <<killed, starts>>

\* What r does to the window moves the view of the others.
Watch(r) ==
    moved' = [q \in Run |->
        IF run'[q].step \notin Armed THEN 0
        ELSE IF q # r /\ (active # active' \/ page # page') /\ moved[q] < 3
        THEN moved[q] + 1 ELSE moved[q]]

-----------------------------------------------------------------------------

Start(r) ==
    /\ At(r, "idle")
    /\ starts < MaxStarts
    /\ starts' = starts + 1
    /\ \E e \in Envelope : run' = [run EXCEPT ![r] = [NoRun EXCEPT !.step = "claim", !.envelope = e]]
    /\ UNCHANGED <<browser, row, answers, killed>>

\* Faulty variant: an attempt without a receipt is taken over.
NoReceiptYet(r) == row[IdAt(r)] # NoRow => row[IdAt(r)].receipt = NoReceipt
Unclaimed(r) == row[IdAt(r)] = NoRow

SameEnvelope(r) == row[IdAt(r)].envelope = run[r].envelope

\* RelayStore.claim, the query: an earlier attempt answers with its receipt,
\* or the call raises (MESSAGE_ID_CONFLICT, RELAY_ALREADY_IN_PROGRESS).
Claim(r) ==
    /\ At(r, "claim")
    /\ IF Unclaimed(r)
       THEN Goto(r, "insert") /\ UNCHANGED answers
       ELSE /\ Leave(r)
            /\ answers' = answers \cup
                   {[envelope |-> run[r].envelope, receipt |-> x] :
                        x \in IF SameEnvelope(r)
                              THEN {row[IdAt(r)].receipt} \ {NoReceipt} ELSE {}}
    /\ UNCHANGED <<browser, row, killed, starts>>

\* RelayStore.claim, the insert: the primary key refuses a second row and the
\* call raises.
Insert(r) ==
    /\ At(r, "insert")
    /\ IF Unclaimed(r)
       THEN /\ row' = [row EXCEPT ![IdAt(r)] = [envelope |-> run[r].envelope,
                                                state |-> "CREATED", receipt |-> NoReceipt]]
            /\ Goto(r, "source")
       ELSE Leave(r) /\ UNCHANGED row
    /\ UNCHANGED <<browser, answers, killed, starts>>

VerifySource(r) ==
    /\ At(r, "source")
    /\ \/ /\ row' = [row EXCEPT ![IdAt(r)].state = "BUS_BOUND"]
          /\ run' = [run EXCEPT ![r].step = "discover", ![r].todo = Tab]
          /\ UNCHANGED <<answers, killed, starts>>
       \/ Finish(r, "SOURCE_BUS_UNVERIFIED")
    /\ UNCHANGED browser

\* discover(): every tab is selected in turn and read; what matches is kept.
SelectCandidate(r) ==
    /\ At(r, "discover")
    /\ run[r].todo # {}
    /\ \E t \in run[r].todo :
           /\ SelectTab(t)
           /\ run' = [run EXCEPT ![r].step = "look", ![r].tab = t, ![r].todo = @ \ {t}]
    /\ UNCHANGED <<page, draft, messages, acks, moves, row, answers, killed, starts>>

IdentityMatches(r) ==
    /\ DocumentShown(run[r].tab)
    /\ VisibleIdentity(run[r].tab) = TitleOf[TargetOf[run[r].envelope]]

NextCandidate(r, more) ==
    run' = [run EXCEPT ![r].step = "discover", ![r].tab = NoTab, ![r].found = @ \cup more]

\* The address of a candidate is read, then its identity.  One that cannot be
\* read is passed over.
CandidateAddress(r) ==
    /\ At(r, "look")
    /\ \/ Address = TargetOf[run[r].envelope] /\ Goto(r, "look_identity")
       \/ NextCandidate(r, {})
    /\ UNCHANGED <<browser, row, answers, killed, starts>>

CandidateIdentity(r) ==
    /\ At(r, "look_identity")
    /\ \/ IdentityMatches(r) /\ NextCandidate(r, {run[r].tab})
       \/ NextCandidate(r, {})
    /\ UNCHANGED <<browser, row, answers, killed, starts>>

Choose(r) ==
    /\ At(r, "discover")
    /\ run[r].todo = {}
    /\ CASE run[r].found = {} -> Finish(r, "TARGET_NOT_FOUND")
         [] \E t \in Tab : run[r].found = {t} ->
                /\ row' = [row EXCEPT ![IdAt(r)].state = "TARGET_DISCOVERED"]
                /\ run' = [run EXCEPT ![r].step = "activate", ![r].found = {},
                                      ![r].tab = CHOOSE t \in run[r].found : TRUE]
                /\ UNCHANGED <<answers, killed, starts>>
         [] OTHER -> Finish(r, "TARGET_AMBIGUOUS")
    /\ UNCHANGED browser

Activate(r) ==
    /\ At(r, "activate")
    /\ SelectTab(run[r].tab)
    /\ Goto(r, "pre_address")
    /\ UNCHANGED <<page, draft, messages, acks, moves, row, answers, killed, starts>>

\* Faulty variant: the second snapshot does not look at the address.
AddressOnceMatches(r) ==
    At(r, "pre_address") => Address = TargetOf[run[r].envelope]
AddressMatches(r) == Address = TargetOf[run[r].envelope]

\* snapshot() reads the address, then the identity.  A mismatch of either, in
\* either snapshot, ends the run.
SnapshotAddress(r) ==
    /\ run[r].step \in {"pre_address", "again_address"}
    /\ IF AddressMatches(r)
       THEN /\ Goto(r, IF At(r, "pre_address") THEN "pre_identity" ELSE "again_identity")
            /\ UNCHANGED <<row, answers, killed, starts>>
       ELSE Finish(r, "TARGET_CHANGED_PRE_SUBMIT")
    /\ UNCHANGED browser

SnapshotIdentity(r) ==
    /\ run[r].step \in {"pre_identity", "again_identity"}
    /\ CASE ~IdentityMatches(r) -> Finish(r, "TARGET_CHANGED_PRE_SUBMIT")
         [] IdentityMatches(r) /\ At(r, "pre_identity") ->
                Advance(r, "TARGET_VERIFIED_PREWRITE", "populate")
         [] OTHER -> Advance(r, "TARGET_REVERIFIED_PRESUBMIT", "submit")
    /\ UNCHANGED browser

\* Faulty variant: a key that raises counts as not pressed.
FailureBeforeKey(step) ==
    CASE step = "discover" -> "TARGET_NOT_FOUND"
      [] step = "populate" -> "COMPOSER_WRITE_FAILED"
      [] OTHER -> "TARGET_CHANGED_PRE_SUBMIT"
\* What a call of the target that raises becomes.
FailureOf(step) ==
    CASE step = "discover" -> "TARGET_NOT_FOUND"
      [] step = "populate" -> "COMPOSER_WRITE_FAILED"
      [] step = "submit" -> "SUBMIT_NOT_ESTABLISHED"
      [] OTHER -> "TARGET_CHANGED_PRE_SUBMIT"

\* The composer is written; the call returns, or raises all the same.
Populate(r) ==
    /\ At(r, "populate")
    /\ WriteComposer(run[r].tab, run[r].envelope)
    /\ \/ Advance(r, "COMPOSER_POPULATED", "again_address")
       \/ Finish(r, FailureOf("populate"))
    /\ UNCHANGED <<page, active, messages, acks, moves>>

\* The key is pressed.  It sends the draft or is swallowed; the call returns or
\* raises.
Submit(r) ==
    /\ At(r, "submit")
    /\ DocumentShown(run[r].tab)
    /\ \/ Sends(run[r].tab) /\ Send(run[r].envelope, moved[r])
       \/ UNCHANGED <<draft, messages>>
    /\ \/ Goto(r, "submitted") /\ UNCHANGED <<row, answers, killed, starts>>
       \/ Finish(r, FailureOf("submit"))
    /\ UNCHANGED <<page, active, acks, moves>>

RecordSubmit(r) ==
    /\ At(r, "submitted")
    /\ Advance(r, "SUBMITTED", "readback")
    /\ UNCHANGED browser

\* read_rendered_message and wait_for_ack select the tab before every read.
SelectAgain(r) ==
    /\ run[r].step \in {"readback", "await"}
    /\ SelectTab(run[r].tab)
    /\ Goto(r, IF At(r, "readback") THEN "read" ELSE "ack")
    /\ UNCHANGED <<page, draft, messages, acks, moves, row, answers, killed, starts>>

ReadRendered(r) ==
    /\ At(r, "read")
    /\ TextReadable(run[r].tab, run[r].envelope)
    /\ Advance(r, "RENDERED_READBACK_VERIFIED", "rendered")
    /\ UNCHANGED browser

AwaitAck(r) ==
    /\ At(r, "rendered")
    /\ Advance(r, "ACK_PENDING", "await")
    /\ UNCHANGED browser

\* wait_for_ack looks for the message id, which two envelopes may share.
AckSeen(r) == Acknowledgements(run[r].tab, {e \in Envelope : IdOf[e] = IdAt(r)})

\* Only the very text that render_ack makes of e, with its nonce and its body's
\* hash, is not a mismatch.
Parsed(e, ack) ==
    CASE ack.text = e /\ ack.status = "RECEIVED_VERIFIED" -> "ACK_VERIFIED"
      [] ack.text = e /\ ack.status = "HOLD_SOURCE_UNVERIFIED" -> "SOURCE_BUS_UNVERIFIED"
      [] OTHER -> "ACK_MISMATCH"

\* The first in the document answers: any of them may be that.
ReadAck(r) ==
    /\ At(r, "ack")
    /\ \E i \in AckSeen(r) : Finish(r, Parsed(run[r].envelope, acks[i]))
    /\ UNCHANGED browser

\* There is time for another poll.  Texts come and go, and a readback that
\* raises is one that read nothing.
PollAgain(r) ==
    /\ \/ At(r, "read") /\ Goto(r, "readback")
       \/ At(r, "ack") /\ Goto(r, "await")
    /\ UNCHANGED <<browser, row, answers, killed, starts>>

\* The deadline has passed, or the wait for the acknowledgement raised.
TimeOut(r) ==
    /\ \/ run[r].step \in {"readback", "read"} /\ Finish(r, "SUBMITTED_UNVERIFIED")
       \/ run[r].step \in {"await", "ack"} /\ Finish(r, "ACK_TIMEOUT")
    /\ UNCHANGED browser

\* Faulty variant: the exception leaves run().
TargetRaisesThrough(r) ==
    /\ At(r, "activate")
    /\ Leave(r)
    /\ UNCHANGED <<browser, row, answers, killed, starts>>
TargetRaises(r) ==
    /\ run[r].step \in Armed \cup {"discover", "activate"}
    /\ Finish(r, FailureOf(run[r].step))
    /\ UNCHANGED browser

\* The process dies.
Kill(r) ==
    /\ ~At(r, "idle")
    /\ killed' = IF run[r].step \in {"claim", "insert"} THEN killed ELSE killed \cup {IdAt(r)}
    /\ Leave(r)
    /\ UNCHANGED <<browser, row, answers, starts>>

RunStep(r) ==
    /\ \/ Claim(r) \/ Insert(r) \/ VerifySource(r)
       \/ SelectCandidate(r) \/ CandidateAddress(r) \/ CandidateIdentity(r) \/ Choose(r)
       \/ Activate(r)
       \/ SnapshotAddress(r) \/ SnapshotIdentity(r)
       \/ Populate(r) \/ Submit(r) \/ RecordSubmit(r)
       \/ SelectAgain(r) \/ ReadRendered(r) \/ AwaitAck(r) \/ ReadAck(r) \/ PollAgain(r)
       \/ TimeOut(r) \/ TargetRaises(r)
    /\ Watch(r)

\* While nothing runs, what others do can wait for the next call.
Environment ==
    /\ \E r \in Run : ~At(r, "idle")
    /\ UserMoves \/ SomebodyAcknowledges
    /\ UNCHANGED relay
    /\ Watch(NoTab)

Next ==
    \/ \E r \in Run : RunStep(r) \/ ((Start(r) \/ Kill(r)) /\ Watch(r))
    \/ Environment

Spec == Init /\ [][Next]_vars

-----------------------------------------------------------------------------
(* Safety and progress.                                                    *)

\* A message reaches a conversation at most once, whatever is killed and
\* retried, and however many runs are started on its id at once.
SentAtMostOnce ==
    \A i, j \in DOMAIN messages :
        IdOf[messages[i].text] = IdOf[messages[j].text] => i = j

\* A row tells whether Enter may have been pressed: not before the target was
\* verified again, and not under a receipt of an earlier failure.  Behind
\* ACK_VERIFIED there is an acknowledgement that fits the row's own envelope,
\* not another one under its id, and says RECEIVED_VERIFIED; by whom, it does
\* not say.  A caller is told what the row of its envelope says, and every
\* caller the same.
RowTellsWhatHappened ==
    /\ \A i \in DOMAIN messages :
           LET w == row[IdOf[messages[i].by]] IN
           IF w.receipt = NoReceipt THEN w.state \in LateState
           ELSE w.receipt.submitted \/ w.state = "SUBMIT_NOT_ESTABLISHED"
    /\ \A m \in Id :
           row[m] # NoRow => (row[m].state = "ACK_VERIFIED" =>
               \E i \in DOMAIN acks : /\ acks[i].text = row[m].envelope
                                      /\ acks[i].status = "RECEIVED_VERIFIED")
    /\ \A a \in answers :
           LET w == row[IdOf[a.envelope]] IN a = [envelope |-> w.envelope, receipt |-> w.receipt]

\* A run sends its text to another conversation than its target's only if the
\* view was moved three times on it: away before the write, back before the
\* second snapshot, away before the key.
WrongPlaceTakesThreeMoves ==
    \A i \in DOMAIN messages :
        /\ messages[i].by = messages[i].text
        /\ messages[i].place # TargetOf[messages[i].text]
        => messages[i].moved = 3

\* A row stays without a receipt only while a process works on it or after one
\* was killed: no failure of the source, the target or the store's own guards
\* leaves it behind.
StrandedOnlyByKill ==
    \A i \in Id : row[i] # NoRow /\ row[i].receipt = NoReceipt =>
        \/ i \in killed
        \/ \E r \in Run : run[r].step \notin {"idle", "claim", "insert"} /\ IdAt(r) = i
=============================================================================
