----------------------------- MODULE SlackRelay -----------------------------
(***************************************************************************)
(* Messages relayed to Slack: src/chat_bus/slack_relay.py with the         *)
(* addresses of src/chat_bus/identity.py.  Adapter processes share one     *)
(* relay store; each has the endpoint registry it was started with, and    *)
(* may be killed and started again with another one.                       *)
(*                                                                         *)
(* The adapter is external: it parses an event, which Slack may deliver    *)
(* any number of times, claims the envelope, posts it if the claim is new, *)
(* and records the timestamp Slack answers.  It may also find a post in    *)
(* the channel and record it from the metadata rendered into it.           *)
(***************************************************************************)
EXTENDS Naturals, Sequences

CONSTANTS
    Process,
    Endpoint, Alias,      \* endpoint ids and other addresses, normalised
    Config,               \* lists of endpoints: the aliases of each one listed
    Sender,               \* the endpoint the adapter relays for
    Event, WrittenTo,     \* addressed texts and the address of each
    Operation, OpOf,      \* the ids the adapter gives the envelope of an event
    Message, MessageOf,
    None,
    MaxStarts             \* bound: starts of adapters

Address == Endpoint \cup Alias
\* Every other field of an envelope follows from the event.
Envelope == [event : Event, recipient : Endpoint]

ASSUME EventsAreAddressed ==
    /\ WrittenTo \in [Event -> Address]
    /\ OpOf \in [Event -> Operation] /\ MessageOf \in [Event -> Message]
    /\ Sender \in Endpoint
    /\ Config \subseteq UNION {[L -> SUBSET Address] : L \in SUBSET Endpoint}
ASSUME DistinctSentinel == None \notin Message \cup Config \cup Envelope
ASSUME BoundIsNat == MaxStarts \in Nat

VARIABLES
    rows,      \* relay_operations
    adapter,   \* the adapters
    channel,   \* the Slack channel; a timestamp is a place in it
    answers,   \* history: the delivery receipts callers were given
    starts     \* history: starts of adapters

vars == <<rows, adapter, channel, answers, starts>>

\* The digest covers every field of the envelope, so the envelope stands for it.
Row == [message : Message, digest : Envelope, ts : Nat]
NotSent == 0  \* slack_message_ts IS NULL
NoRow == [message |-> None, digest |-> None, ts |-> NotSent]

Down == [step |-> "down", registry |-> None, envelope |-> None, ts |-> NotSent]
Step == {"down", "ready", "claim", "post", "record"}

TypeOK ==
    /\ rows \in [Operation -> Row \cup {NoRow}]
    /\ adapter \in [Process -> [step : Step, registry : Config \cup {None},
                                envelope : Envelope \cup {None}, ts : Nat]]
    /\ channel \in Seq([envelope : Envelope, registry : Config])
    /\ answers \subseteq [envelope : Envelope, ts : 1..Len(channel)]
    /\ starts \in 0..MaxStarts

Init ==
    /\ rows = [o \in Operation |-> NoRow]
    /\ adapter = [p \in Process |-> Down]
    /\ channel = <<>>
    /\ answers = {}
    /\ starts = 0

-----------------------------------------------------------------------------
(* Addresses.                                                              *)

Listed(c) == DOMAIN c
AddressesOf(c, n) == {n} \cup c[n]

\* LogicalEndpoint: no alias repeats the endpoint's own id.
EndpointsAreValid(c) == \A n \in Listed(c) : n \notin c[n]

\* EndpointRegistry: no address has two endpoints, and there is one at all.
RegistryAccepts(c) ==
    /\ Listed(c) # {}
    /\ EndpointsAreValid(c)
    /\ \A m, n \in Listed(c) : m # n => AddressesOf(c, m) \cap AddressesOf(c, n) = {}

Owners(c, a) == {n \in Listed(c) : a \in AddressesOf(c, n)}
Resolves(c, a) == Owners(c, a) # {}
Resolve(c, a) == CHOOSE n \in Owners(c, a) : TRUE

-----------------------------------------------------------------------------

At(p, step) == adapter[p].step = step
Goto(p, step) == adapter' = [adapter EXCEPT ![p].step = step]
\* A call that raises ends the handling of the event.
Ready(p) ==
    adapter' = [adapter EXCEPT ![p].step = "ready", ![p].envelope = None, ![p].ts = NotSent]

EnvelopeAt(p) == adapter[p].envelope
RowOf(e) == rows[OpOf[e.event]]
Answer(e, ts) == answers' = answers \cup {[envelope |-> e, ts |-> t] : t \in {ts} \ {NotSent}}

StartAdapter(p) ==
    /\ At(p, "down")
    /\ starts < MaxStarts
    /\ starts' = starts + 1
    /\ \E c \in Config :
           /\ RegistryAccepts(c)
           /\ adapter' = [adapter EXCEPT ![p].step = "ready", ![p].registry = c]
    /\ UNCHANGED <<rows, channel, answers>>

Kill(p) ==
    /\ ~At(p, "down")
    /\ adapter' = [adapter EXCEPT ![p] = Down]
    /\ UNCHANGED <<rows, channel, answers, starts>>

\* parse_addressed_text; an unknown recipient raises.
ParseEvent(p) ==
    /\ At(p, "ready")
    /\ \E v \in Event :
           /\ Resolves(adapter[p].registry, WrittenTo[v])
           /\ adapter' = [adapter EXCEPT
                  ![p].step = "claim",
                  ![p].envelope = [event |-> v,
                                   recipient |-> Resolve(adapter[p].registry, WrittenTo[v])]]
    /\ UNCHANGED <<rows, channel, answers, starts>>

\* ON CONFLICT(operation_id) DO NOTHING.
OperationIsNew(e) == RowOf(e) = NoRow
\* Faulty variant: no unique constraint on message_id.
AnyMessageId(e) == TRUE
\* message_id is unique.
MessageIsNew(e) == \A o \in Operation : rows[o].message # MessageOf[e.event]

\* Faulty variant: the operation id alone identifies an envelope.
RowHasMessageId(e) == RowOf(e).message = MessageOf[e.event]
RowIsFor(e) == RowOf(e).digest = e /\ RowOf(e).message = MessageOf[e.event]

\* RelayStore.claim: the envelope is new and will be posted, or the row of its
\* operation answers for it, or the call raises (OPERATION_ID_CONFLICT,
\* MESSAGE_ID_CONFLICT).
Claim(p) ==
    LET e == EnvelopeAt(p) IN
    /\ At(p, "claim")
    /\ \/ /\ OperationIsNew(e) /\ MessageIsNew(e)
          /\ rows' = [rows EXCEPT ![OpOf[e.event]] =
                          [message |-> MessageOf[e.event], digest |-> e, ts |-> NotSent]]
          /\ Goto(p, "post")
          /\ UNCHANGED answers
       \/ /\ OperationIsNew(e) /\ ~MessageIsNew(e)
          /\ Ready(p)
          /\ UNCHANGED <<rows, answers>>
       \/ /\ ~OperationIsNew(e)
          /\ Ready(p)
          /\ IF RowIsFor(e) THEN Answer(e, RowOf(e).ts) ELSE UNCHANGED answers
          /\ UNCHANGED rows
    /\ UNCHANGED <<channel, starts>>

\* render_outbound raises if the adapter's registry lacks an endpoint.
Renders(p) ==
    /\ Resolves(adapter[p].registry, Sender)
    /\ Resolves(adapter[p].registry, EnvelopeAt(p).recipient)

\* Slack answers with a timestamp, or the answer or the post itself is lost.
PostToSlack(p) ==
    LET sent == Append(channel, [envelope |-> EnvelopeAt(p), registry |-> adapter[p].registry]) IN
    /\ At(p, "post")
    /\ \/ /\ Renders(p)
          /\ channel' = sent
          /\ \/ adapter' = [adapter EXCEPT ![p].step = "record", ![p].ts = Len(sent)]
             \/ Ready(p)
       \/ Ready(p) /\ UNCHANGED channel
    /\ UNCHANGED <<rows, answers, starts>>

\* RelayStore.mark_delivered: the update applies to the row of this digest
\* without another timestamp; after it the row must have the timestamp
\* (else UNKNOWN_RELAY_OPERATION, ENVELOPE_DIGEST_MISMATCH,
\* DELIVERY_RECEIPT_CONFLICT).
MarkDelivered(e, ts) ==
    LET row == RowOf(e) IN
    IF row.digest = e /\ row.ts \in {NotSent, ts}
    THEN /\ rows' = [rows EXCEPT ![OpOf[e.event]].ts = ts]
         /\ Answer(e, ts)
    ELSE UNCHANGED <<rows, answers>>

Record(p) ==
    /\ At(p, "record")
    /\ MarkDelivered(EnvelopeAt(p), adapter[p].ts)
    /\ Ready(p)
    /\ UNCHANGED <<channel, starts>>

\* The metadata of a post names its operation and digest.
RecordFromChannel(p) ==
    /\ At(p, "ready")
    /\ \E ts \in DOMAIN channel : MarkDelivered(channel[ts].envelope, ts)
    /\ UNCHANGED <<adapter, channel, starts>>

Next ==
    \E p \in Process :
        \/ StartAdapter(p) \/ Kill(p)
        \/ ParseEvent(p) \/ Claim(p) \/ PostToSlack(p) \/ Record(p)
        \/ RecordFromChannel(p)

Spec == Init /\ [][Next]_vars

-----------------------------------------------------------------------------
(* Safety.                                                                 *)

\* A message is posted at most once, whatever is delivered again under its id
\* or its operation, by whichever process, and wherever one was killed.
PostedAtMostOnce ==
    \A i, j \in DOMAIN channel :
        MessageOf[channel[i].envelope.event] = MessageOf[channel[j].envelope.event] => i = j

\* Who is told that an envelope was delivered is told of a post of that very
\* envelope, to the only endpoint of the poster's registry that has the address
\* the event was written to: an event that is delivered again and resolves to
\* another endpoint, since the registry changed, gets no receipt.
ReceiptsAreForTheEnvelope ==
    \A a \in answers :
        LET post == channel[a.ts] IN
        /\ post.envelope = a.envelope
        /\ Owners(post.registry, WrittenTo[a.envelope.event]) = {a.envelope.recipient}
=============================================================================
