--------------------------- MODULE MessagePlanes ---------------------------
(***************************************************************************)
(* What the provider derives from stored messages: assignments and their   *)
(* events (20260903001906_radar_assignment_plane_v1.sql), projections and  *)
(* acknowledgements (20260903000603_radar_receipt_plane_v1.sql), over the  *)
(* ids that 20260902231445_radar_live_message_collision_v1.sql gives.      *)
(*                                                                         *)
(* Git holds the messages; they reach the provider in any order.  Each     *)
(* insert fires both reconciliations, in its own transaction and under     *)
(* advisory locks that are held to its end.  The loop of the first over    *)
(* the stored messages goes step by step.                                  *)
(***************************************************************************)
EXTENDS Naturals, Sequences, FiniteSets, SequencesExt

CONSTANTS
    File,                 \* message files; a file stands for its content
    MessageId, Identity, Assignment, Binding,
    AssigneeOf,           \* the assignee a binding names
    PlaceOf,              \* the place of a file by (created_at, message_id)
    Corpora,              \* what the files may say
    NoEnvelope,           \* no assignment_* header
    Malformed,            \* an incomplete or inconsistent set of them
    None

\* A message is referred to by its declared id, or by the id that is
\* qualified with the hash of its content.
Reference == MessageId \cup File
Envelope == [assignment : Assignment, binding : Binding, after : Reference \cup {None}]
FileContent == [id : MessageId, sender : Identity, audience : SUBSET Identity,
            answers : SUBSET Reference, envelope : Envelope \cup {NoEnvelope, Malformed}]

ASSUME FilesSaySomething ==
    /\ Corpora \subseteq [File -> FileContent]
    /\ AssigneeOf \in [Binding -> Identity]
ASSUME FinitelyMany == IsFiniteSet(File) /\ IsFiniteSet(MessageId)
ASSUME PlacesAreAnOrder == PlaceOf \in [File -> Nat] /\ \A f, g \in File : PlaceOf[f] = PlaceOf[g] => f = g
ASSUME PlaneSentinels ==
    /\ None \notin File \cup MessageId \cup Binding
    /\ File \cap MessageId = {}
    /\ NoEnvelope # Malformed /\ {NoEnvelope, Malformed} \cap Envelope = {}

VARIABLES
    content,     \* what the files say; never changes
    messages,    \* radar.messages: the file stored under a reference, or None
    identities,  \* radar.identities
    plane,       \* radar.assignments, assignment_events and their observations
    receipts,    \* delivery_events, acknowledgements and their observations
    work         \* the transaction that holds the lock, and where its loop is

planesVars == <<content, messages, identities, plane, receipts, work>>

NoRow == [binding |-> None, current |-> None]
Plane == [row : [Assignment -> [binding : Binding \cup {None}, current : File \cup {None}]],
          events : [Assignment -> Seq(File)],
          invalid : SUBSET File, conflict : SUBSET File, pending : SUBSET File]
EmptyPlane == [row |-> [a \in Assignment |-> NoRow], events |-> [a \in Assignment |-> <<>>],
               invalid |-> {}, conflict |-> {}, pending |-> {}]
Acknowledgement == [message : File, identity : Identity, evidence : File]

\* An insert, a call of its own, or nobody; what the pass has still to consider,
\* and whether it recorded an event.
Work == [of : {"insert", "call", "nobody"}, todo : SUBSET File, progress : BOOLEAN]
Rest == [of |-> "nobody", todo |-> {}, progress |-> FALSE]
Committed == work.of = "nobody"

PlanesTypeOK ==
    /\ content \in Corpora
    /\ messages \in [Reference -> File \cup {None}]
    /\ identities \subseteq Identity
    /\ plane \in Plane
    /\ receipts \in [delivered : SUBSET (File \X Identity), read : SUBSET Acknowledgement,
                     ambiguous : SUBSET (File \X Reference)]
    /\ work \in Work

PlanesInit ==
    /\ content \in Corpora
    /\ messages = [r \in Reference |-> None]
    /\ identities \in SUBSET Identity
    /\ plane = EmptyPlane
    /\ receipts = [delivered |-> {}, read |-> {}, ambiguous |-> {}]
    /\ work = Rest

-----------------------------------------------------------------------------
(* Messages.  The first content keeps the declared id.                     *)

StoredFiles(rs) == {rs[r] : r \in Reference} \ {None}
IsStored(f) == f \in {messages[content[f].id], messages[f]}
Insert(f) == [messages EXCEPT ![IF messages[content[f].id] = None THEN content[f].id ELSE f] = f]

-----------------------------------------------------------------------------
(* Assignments.                                                            *)

HasEnvelope(f) == content[f].envelope # NoEnvelope
EnvelopeIsValid(f, ids) ==
    /\ content[f].envelope # Malformed
    /\ AssigneeOf[content[f].envelope.binding] \in ids

After(f) == content[f].envelope.after
IsRoot(f) == After(f) = None
RowOf(p, f) == p.row[content[f].envelope.assignment]
EventsOf(p, f) == Range(p.events[content[f].envelope.assignment])
BindingHolds(p, f) == RowOf(p, f).binding = content[f].envelope.binding

\* Faulty variant: any event of the assignment will do as a predecessor.
AppliesAfterAny(p, rs, f) ==
    IF IsRoot(f) THEN RowOf(p, f) = NoRow
    ELSE RowOf(p, f) # NoRow /\ BindingHolds(p, f) /\ rs[After(f)] \in EventsOf(p, f)
\* The message starts its assignment, or names the current event of it.
Applies(p, rs, f) ==
    IF IsRoot(f) THEN RowOf(p, f) = NoRow
    ELSE RowOf(p, f) # NoRow /\ BindingHolds(p, f) /\ rs[After(f)] = RowOf(p, f).current

\* Faulty variant: a predecessor that is not there yet is taken for a stale one.
ConflictsUnlessCurrent(p, rs, f) ==
    /\ RowOf(p, f) # NoRow
    /\ \/ IsRoot(f)
       \/ ~BindingHolds(p, f)
       \/ ~IsRoot(f) /\ rs[After(f)] # RowOf(p, f).current
\* Faulty variant: a stale predecessor is waited for like one that is not there.
ConflictsIfRebound(p, rs, f) ==
    /\ RowOf(p, f) # NoRow
    /\ IsRoot(f) \/ ~BindingHolds(p, f)
\* assignment_root_already_exists, immutable_assignment_binding_mismatch,
\* predecessor_is_not_current_assignment_event.
Conflicts(p, rs, f) ==
    /\ RowOf(p, f) # NoRow
    /\ \/ IsRoot(f)
       \/ ~BindingHolds(p, f)
       \/ ~IsRoot(f) /\ rs[After(f)] \in EventsOf(p, f) \ {RowOf(p, f).current}

Record(p, f) ==
    LET a == content[f].envelope.assignment IN
    [p EXCEPT !.row = [p.row EXCEPT ![a] = [binding |-> content[f].envelope.binding, current |-> f]],
              !.events = [p.events EXCEPT ![a] = Append(@, f)]]

\* What the loop does for one message.
Consider(p, rs, f) ==
    IF f \in EventsOf(p, f) THEN p
    ELSE IF Applies(p, rs, f) THEN Record(p, f)
    ELSE IF Conflicts(p, rs, f) THEN [p EXCEPT !.conflict = @ \cup {f}]
    ELSE p

\* Considering it changes something.
Changes(p, rs, f) ==
    /\ f \notin EventsOf(p, f)
    /\ Applies(p, rs, f) \/ (f \notin p.conflict /\ Conflicts(p, rs, f))

\* An envelope that is refused once is never considered again.
Refused(rs, ids) == {f \in StoredFiles(rs) : HasEnvelope(f) /\ ~EnvelopeIsValid(f, ids)}
Waiting(p, rs) ==
    {f \in {g \in StoredFiles(rs) : HasEnvelope(g)} \ (p.invalid \cup p.conflict) :
        ~IsRoot(f) /\ f \notin EventsOf(p, f)}

Eligible(p, rs) == {f \in StoredFiles(rs) : HasEnvelope(f)} \ p.invalid

-----------------------------------------------------------------------------
(* Receipts.                                                               *)

\* The messages a reference may mean: declared ids are kept beside qualified ones.
Candidates(rs, r) ==
    {t \in StoredFiles(rs) : rs[r] = t \/ content[t].id = r}

\* Faulty variant: every candidate is credited.
CreditsEach(rs, x, t) ==
    t # x /\ \E r \in content[x].answers : t \in Candidates(rs, r)
\* The stored message x answers t and no other message by one of its references.
Credits(rs, x, t) ==
    t # x /\ \E r \in content[x].answers : Candidates(rs, r) = {t}

\* reconcile_bus_receipts_v1; an acknowledgement keeps the first evidence.
ReconcileReceipts(rs, ids) ==
    LET stored == StoredFiles(rs)
        credited(t, i) == {x \in stored : content[x].sender = i /\ Credits(rs, x, t)}
        had == {<<k.message, k.identity>> : k \in receipts.read}
        new == {p \in stored \X ids : p \notin had /\ credited(p[1], p[2]) # {}}
    IN \E evidence \in [new -> stored] :
        /\ \A p \in new : evidence[p] \in credited(p[1], p[2])
        /\ receipts' =
            [delivered |-> receipts.delivered \cup
                  {p \in stored \X ids : p[2] \in content[p[1]].audience},
             read |-> receipts.read \cup
                  {[message |-> p[1], identity |-> p[2], evidence |-> evidence[p]] : p \in new},
             ambiguous |-> receipts.ambiguous \cup
                  {p \in stored \X Reference : /\ p[2] \in content[p[1]].answers
                                               /\ Cardinality(Candidates(rs, p[2])) > 1}]

-----------------------------------------------------------------------------

\* reconcile_bus_assignments_v1 takes its lock, notes what it refuses and starts
\* the first pass.
StartPasses(of, rs) ==
    /\ Committed
    /\ plane' = [plane EXCEPT !.invalid = @ \cup Refused(rs, identities)]
    /\ work' = [of |-> of, todo |-> Eligible(plane', rs), progress |-> FALSE]

\* The trigger of an insert calls both functions, in this order.
\* A message that is known is not inserted again and fires nothing.
Project(f) ==
    /\ ~IsStored(f)
    /\ messages' = Insert(f)
    /\ StartPasses("insert", messages')
    /\ UNCHANGED <<content, identities, receipts>>

\* The service may also call either function itself.
CallAssignments ==
    /\ StartPasses("call", messages)
    /\ UNCHANGED <<content, messages, identities, receipts>>

\* A pass goes from the oldest message to the youngest: f is the next that
\* changes something.
ConsiderNext(f) ==
    /\ f \in work.todo /\ Changes(plane, messages, f)
    /\ \A g \in work.todo : PlaceOf[g] < PlaceOf[f] => ~Changes(plane, messages, g)
    /\ plane' = Consider(plane, messages, f)
    /\ work' = [work EXCEPT !.todo = {g \in @ : PlaceOf[g] > PlaceOf[f]},
                            !.progress = @ \/ Applies(plane, messages, f)]
    /\ UNCHANGED <<content, messages, identities, receipts>>

PassEnds == ~Committed /\ \A f \in work.todo : ~Changes(plane, messages, f)

\* The loop goes on until a pass records no event.
RepeatPass ==
    /\ PassEnds /\ work.progress
    /\ work' = [work EXCEPT !.todo = Eligible(plane, messages), !.progress = FALSE]
    /\ UNCHANGED <<content, messages, identities, plane, receipts>>

\* What waits is noted; an insert goes on with the receipts; the lock is free.
FinishAssignments ==
    /\ PassEnds /\ ~work.progress
    /\ plane' = [plane EXCEPT !.pending = @ \cup Waiting(plane, messages)]
    /\ IF work.of = "insert" THEN ReconcileReceipts(messages, identities)
                             ELSE UNCHANGED receipts
    /\ work' = Rest
    /\ UNCHANGED <<content, messages, identities>>

\* The rows of a transaction are seen when it commits.
CallReceipts ==
    /\ Committed
    /\ ReconcileReceipts(messages, identities)
    /\ UNCHANGED <<content, messages, identities, plane, work>>

RegisterIdentity(i) ==
    /\ i \notin identities
    /\ identities' = identities \cup {i}
    /\ UNCHANGED <<content, messages, plane, receipts, work>>

PlanesNext ==
    \/ \E f \in File : Project(f)
    \/ CallAssignments
    \/ \E f \in File : ConsiderNext(f)
    \/ RepeatPass
    \/ FinishAssignments
    \/ CallReceipts
    \/ \E i \in Identity : RegisterIdentity(i)

PlanesSpec == PlanesInit /\ [][PlanesNext]_planesVars

-----------------------------------------------------------------------------
(* A rebuild: the function as a whole, on empty tables.                    *)

Pass(p, rs) ==
    FoldLeft(LAMBDA q, f : Consider(q, rs, f), p,
             SetToSortSeq(Eligible(p, rs), LAMBDA f, g : PlaceOf[f] < PlaceOf[g]))

\* Each pass but the last records an event.
PassToFixpoint(p, rs) ==
    FoldLeft(LAMBDA q, i : Pass(q, rs), p, [i \in 1..Cardinality(StoredFiles(rs)) + 1 |-> i])

Rebuilt(rs, ids) ==
    PassToFixpoint([EmptyPlane EXCEPT !.invalid = Refused(rs, ids)], rs)

-----------------------------------------------------------------------------
(* Safety.                                                                 *)

Envelopes == {f \in StoredFiles(messages) : HasEnvelope(f)}

\* The events of an assignment are what its messages say and all they say:
\* each names, by the id it was given, the one before it under the binding of
\* the root, and no stored message that the chain could go on with is left
\* out, in whatever order they arrived.
ChainIsTheEvidence ==
    /\ \A a \in Assignment :
        LET chain == plane.events[a] IN
        /\ chain = <<>> => plane.row[a] = NoRow
        /\ chain # <<>> => plane.row[a].current = Last(chain)
        /\ \A k \in DOMAIN chain :
            LET e == content[chain[k]].envelope IN
            /\ e.assignment = a /\ e.binding = plane.row[a].binding
            /\ IF k = 1 THEN e.after = None ELSE messages[e.after] = chain[k - 1]
    /\ Committed => \A f \in Envelopes \ plane.invalid :
        f \in EventsOf(plane, f) \/ ~Applies(plane, messages, f)

\* Every stored envelope is told about: it has an event, or is refused, or is
\* in conflict, and never two of these, or it waits.
EnvelopesAreTold ==
    Committed => \A f \in Envelopes :
        IF f \in plane.invalid
        THEN f \notin plane.conflict /\ \A a \in Assignment : f \notin Range(plane.events[a])
        ELSE IF f \in EventsOf(plane, f) THEN f \notin plane.conflict
        ELSE f \in plane.conflict \cup plane.pending

\* The tables may be rebuilt from the messages: it gives the same events unless
\* a conflict was noted, or a message was refused before its assignee was known.
RebuildAgreesUnlessTold ==
    /\ Committed /\ plane.conflict = {}
    /\ \A f \in plane.invalid : ~EnvelopeIsValid(f, identities)
    => Rebuilt(messages, identities).events = plane.events

\* An acknowledgement rests on a reply of that identity: its reference means
\* the message, alone or with others that the observation of the ambiguity
\* names, and a reply credits no more messages than it has references.
AcknowledgementsRestOnReplies ==
    Committed => \A k \in receipts.read :
        /\ content[k.evidence].sender = k.identity
        /\ \E r \in content[k.evidence].answers :
            /\ k.message \in Candidates(messages, r)
            /\ Candidates(messages, r) = {k.message} \/ <<k.evidence, r>> \in receipts.ambiguous
        /\ Cardinality({j \in receipts.read : j.evidence = k.evidence})
               <= Cardinality(content[k.evidence].answers)
=============================================================================
