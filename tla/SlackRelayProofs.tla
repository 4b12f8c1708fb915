-------------------------- MODULE SlackRelayProofs --------------------------
(***************************************************************************)
(* Theorems about SlackRelay.  An operation has at most one post: its row  *)
(* is claimed before it, by one adapter, and a claim that was made is not  *)
(* made again.  Operations have different messages, because message ids    *)
(* are unique in the table.                                                *)
(***************************************************************************)
EXTENDS SlackRelay, TLAPS

OpAt(p) == OpOf[EnvelopeAt(p).event]
OpOfPost(i) == OpOf[channel[i].envelope.event]

AdapterType == [step : Step, registry : Config \cup {None},
                envelope : Envelope \cup {None}, ts : Nat]

\* What an adapter has at each step, when the channel has n posts.
AdapterOK(a, n) ==
    /\ a \in AdapterType
    /\ a.step # "down" => a.registry \in Config /\ RegistryAccepts(a.registry)
    /\ a.step \in {"claim", "post", "record"} => a.envelope \in Envelope
    /\ a.step = "record" => a.ts \in 1..n

TypeInv ==
    /\ TypeOK
    /\ \A p \in Process : AdapterOK(adapter[p], Len(channel))
    /\ \A o \in Operation : rows[o].ts # NotSent => rows[o].ts \in 1..Len(channel)

\* Every envelope in work, and every post, was resolved by its registry.
ResolvedBy(c, e) == Owners(c, WrittenTo[e.event]) = {e.recipient}
AddressInv ==
    /\ \A p \in Process : adapter[p].step \in {"claim", "post", "record"} =>
           ResolvedBy(adapter[p].registry, adapter[p].envelope)
    /\ \A i \in DOMAIN channel : ResolvedBy(channel[i].registry, channel[i].envelope)

RowsAreClaims ==
    /\ \A o \in Operation : rows[o].digest # None =>
           /\ OpOf[rows[o].digest.event] = o
           /\ rows[o].message = MessageOf[rows[o].digest.event]
    /\ \A o, q \in Operation :
           rows[o].digest # None /\ rows[q].digest # None /\ rows[o].message = rows[q].message
               => o = q

PostsAreClaimed ==
    /\ \A p \in Process : adapter[p].step \in {"post", "record"} =>
           rows[OpAt(p)].digest = EnvelopeAt(p)
    /\ \A i \in DOMAIN channel : rows[OpOfPost(i)].digest = channel[i].envelope

ClaimsArePostedOnce ==
    /\ \A p, q \in Process : At(p, "post") /\ At(q, "post") /\ OpAt(p) = OpAt(q) => p = q
    /\ \A p \in Process : At(p, "post") => \A i \in DOMAIN channel : OpOfPost(i) # OpAt(p)
    /\ \A i, j \in DOMAIN channel : OpOfPost(i) = OpOfPost(j) => i = j

IsPostOf(ts, e) == ts \in DOMAIN channel /\ channel[ts].envelope = e
TimestampsArePosts ==
    /\ \A o \in Operation : rows[o].ts # NotSent => IsPostOf(rows[o].ts, rows[o].digest)
    /\ \A p \in Process : At(p, "record") => IsPostOf(adapter[p].ts, EnvelopeAt(p))
    /\ \A a \in answers : IsPostOf(a.ts, a.envelope)

SafetyInv == AddressInv /\ RowsAreClaims /\ PostsAreClaimed /\ ClaimsArePostedOnce
                 /\ TimestampsArePosts

-----------------------------------------------------------------------------

\* A registry that is accepted has one owner at most for an address, and what
\* it resolves an address to is that owner.
LEMMA ResolveIsTheOwner ==
    ASSUME NEW c \in Config, RegistryAccepts(c), NEW a, Resolves(c, a)
    PROVE  Owners(c, a) = {Resolve(c, a)}
<1>1. Resolve(c, a) \in Owners(c, a)
  BY DEF Resolve, Resolves
<1>2. \A m, n \in Owners(c, a) : m = n
  BY DEF RegistryAccepts, Owners
<1> QED
  BY <1>1, <1>2

\* A configured registry resolves to endpoints only.
LEMMA OwnersAreEndpoints ==
    ASSUME NEW c \in Config, NEW a
    PROVE  Owners(c, a) \subseteq Endpoint
<1>1. PICK L \in SUBSET Endpoint : c \in [L -> SUBSET Address]
  BY EventsAreAddressed
<1> QED
  BY <1>1 DEF Owners, Listed

\* What a sequence of S has at a place of its domain.
LEMMA ElementsOfSequences ==
    ASSUME NEW S, NEW s \in Seq(S), NEW i \in DOMAIN s
    PROVE  i \in 1..Len(s) /\ s[i] \in S
OBVIOUS

\* The adapters after a step of one of them.
LEMMA AdapterStep ==
    ASSUME adapter \in [Process -> AdapterType],
           NEW n \in Nat, NEW m \in Nat, n <= m,
           \A q \in Process : AdapterOK(adapter[q], n),
           NEW p \in Process, NEW a, AdapterOK(a, m),
           adapter' = [adapter EXCEPT ![p] = a]
    PROVE  /\ adapter' \in [Process -> AdapterType]
           /\ \A q \in Process : AdapterOK(adapter'[q], m)
<1>1. a \in AdapterType
  BY DEF AdapterOK
<1>2. \A q \in Process : AdapterOK(adapter[q], m)
  BY DEF AdapterOK
<1>3. \A q \in Process : adapter'[q] = IF q = p THEN a ELSE adapter[q]
  OBVIOUS
<1> QED
  BY <1>1, <1>2, <1>3

ReadyWith(c) == [step |-> "ready", registry |-> c, envelope |-> None, ts |-> NotSent]

\* Ready(p), written as one value of the adapter.
LEMMA ReadyIs ==
    ASSUME adapter \in [Process -> AdapterType], NEW p \in Process, Ready(p)
    PROVE  adapter' = [adapter EXCEPT ![p] = ReadyWith(adapter[p].registry)]
<1>1. adapter[p] \in AdapterType
  OBVIOUS
<1>2. [adapter[p] EXCEPT !.step = "ready", !.envelope = None, !.ts = NotSent]
          = ReadyWith(adapter[p].registry)
  <2> DEFINE r1 == [adapter[p] EXCEPT !.step = "ready"]
             r2 == [r1 EXCEPT !.envelope = None]
  <2>1. r1 = [step |-> "ready", registry |-> adapter[p].registry,
              envelope |-> adapter[p].envelope, ts |-> adapter[p].ts]
    BY <1>1 DEF AdapterType
  <2> HIDE DEF r1
  <2>2. r2 = [step |-> "ready", registry |-> adapter[p].registry,
              envelope |-> None, ts |-> adapter[p].ts]
    BY <2>1
  <2> HIDE DEF r2
  <2>3. [r2 EXCEPT !.ts = NotSent] = ReadyWith(adapter[p].registry)
    BY <2>2 DEF ReadyWith
  <2> QED
    BY <2>3 DEF r1, r2
<1>3. adapter' = [adapter EXCEPT ![p] =
          [adapter[p] EXCEPT !.step = "ready", !.envelope = None, !.ts = NotSent]]
  BY DEF Ready
<1> QED
  BY <1>2, <1>3

\* The rest of the state after a step.
RestType ==
    /\ rows' \in [Operation -> Row \cup {NoRow}]
    /\ \A o \in Operation : rows'[o].ts # NotSent => rows'[o].ts \in 1..Len(channel')
    /\ channel' \in Seq([envelope : Envelope, registry : Config])
    /\ Len(channel) <= Len(channel')
    /\ answers' \subseteq [envelope : Envelope, ts : 1..Len(channel')]
    /\ starts' \in 0..MaxStarts

\* Types survive a step of one adapter, if its new value fits its step.
LEMMA StepType ==
    ASSUME TypeInv, RestType, NEW p \in Process, NEW a, AdapterOK(a, Len(channel')),
           adapter' = [adapter EXCEPT ![p] = a]
    PROVE  TypeInv'
<1>1. adapter \in [Process -> AdapterType] /\ Len(channel) \in Nat
  BY DEF TypeInv, TypeOK, AdapterType
<1>2. Len(channel') \in Nat /\ Len(channel) <= Len(channel')
  BY DEF RestType
<1>3. \A q \in Process : AdapterOK(adapter[q], Len(channel))
  BY DEF TypeInv
<1>4. /\ adapter' \in [Process -> AdapterType]
      /\ \A q \in Process : AdapterOK(adapter'[q], Len(channel'))
  BY <1>1, <1>2, <1>3, AdapterStep
<1> QED
  BY <1>4 DEF TypeInv, TypeOK, AdapterType, RestType, AdapterOK

\* Types survive the end of the handling of an event.
LEMMA ReadyType ==
    ASSUME TypeInv, RestType, NEW p \in Process, adapter[p].step # "down", Ready(p)
    PROVE  TypeInv'
<1>1. adapter \in [Process -> AdapterType]
  BY DEF TypeInv, TypeOK, AdapterType
<1>2. adapter' = [adapter EXCEPT ![p] = ReadyWith(adapter[p].registry)]
  BY <1>1, ReadyIs
<1>3. adapter[p].registry \in Config /\ RegistryAccepts(adapter[p].registry)
  BY DEF TypeInv, AdapterOK
<1>4. AdapterOK(ReadyWith(adapter[p].registry), Len(channel'))
  BY <1>3 DEF AdapterOK, ReadyWith, AdapterType, Step, NotSent
<1> QED
  BY <1>2, <1>4, StepType

\* A step that leaves the table, the channel and the receipts.
LEMMA NothingElse ==
    ASSUME TypeInv, UNCHANGED <<rows, channel, answers>>, starts' \in 0..MaxStarts
    PROVE  RestType
BY DEF TypeInv, TypeOK, RestType

\* A receipt given for a place in the channel is well typed.
LEMMA AnswerType ==
    ASSUME TypeInv, NEW e \in Envelope, NEW ts,
           ts # NotSent => ts \in 1..Len(channel), channel' = channel, Answer(e, ts)
    PROVE  answers' \subseteq [envelope : Envelope, ts : 1..Len(channel')]
BY DEF Answer, TypeInv, TypeOK

\* mark_delivered keeps the types of the table and the receipts.
LEMMA MarkType ==
    ASSUME TypeInv, NEW e \in Envelope, NEW ts \in 1..Len(channel),
           channel' = channel, MarkDelivered(e, ts)
    PROVE  /\ rows' \in [Operation -> Row \cup {NoRow}]
           /\ \A o \in Operation : rows'[o].ts # NotSent => rows'[o].ts \in 1..Len(channel')
           /\ answers' \subseteq [envelope : Envelope, ts : 1..Len(channel')]
<1>1. OpOf[e.event] \in Operation
  BY EventsAreAddressed DEF Envelope
<1>2. ts \in Nat
  BY DEF TypeInv, TypeOK
<1>3. CASE RowOf(e).digest = e /\ RowOf(e).ts \in {NotSent, ts}
  <2>1. rows' = [rows EXCEPT ![OpOf[e.event]].ts = ts] /\ Answer(e, ts)
    BY <1>3 DEF MarkDelivered
  <2>2. rows[OpOf[e.event]] \in Row
    BY <1>1, <1>3, DistinctSentinel DEF TypeInv, TypeOK, RowOf, NoRow
  <2>3. /\ rows' \in [Operation -> Row \cup {NoRow}]
        /\ \A o \in Operation : rows'[o].ts # NotSent => rows'[o].ts \in 1..Len(channel')
    BY <1>1, <1>2, <2>1, <2>2 DEF TypeInv, TypeOK, Row
  <2> QED
    BY <2>1, <2>3, AnswerType
<1>4. CASE ~(RowOf(e).digest = e /\ RowOf(e).ts \in {NotSent, ts})
  BY <1>4 DEF MarkDelivered, TypeInv, TypeOK
<1> QED
  BY <1>3, <1>4

\* Types: every variable stays what the module says it is.
THEOREM TypeCorrect == Spec => []TypeInv
<1>1. Init => TypeInv
  <2> SUFFICES ASSUME Init PROVE TypeInv
    OBVIOUS
  <2>1. TypeOK
    BY BoundIsNat DEF Init, TypeOK, Down, Step, NotSent
  <2>2. \A p \in Process : AdapterOK(adapter[p], Len(channel))
    BY DEF Init, AdapterOK, AdapterType, Down, Step, NotSent
  <2> QED
    BY <2>1, <2>2 DEF Init, TypeInv, NoRow
<1>2. TypeInv /\ [Next]_vars => TypeInv'
  <2> SUFFICES ASSUME TypeInv, [Next]_vars PROVE TypeInv'
    OBVIOUS
  <2>a. starts \in 0..MaxStarts /\ \A p \in Process : adapter[p] \in AdapterType
    BY DEF TypeInv, TypeOK, AdapterType
  <2>1. ASSUME NEW p \in Process, StartAdapter(p) PROVE TypeInv'
    <3>1. PICK c \in Config :
            /\ RegistryAccepts(c)
            /\ adapter' = [adapter EXCEPT ![p].step = "ready", ![p].registry = c]
      BY <2>1 DEF StartAdapter
    <3> DEFINE a == [adapter[p] EXCEPT !.step = "ready", !.registry = c]
    <3>2. adapter' = [adapter EXCEPT ![p] = a]
      BY <3>1
    <3>3. AdapterOK(a, Len(channel'))
      BY <2>a, <3>1 DEF AdapterOK, AdapterType, Step
    <3>4. starts' \in 0..MaxStarts
      BY <2>1, <2>a, BoundIsNat DEF StartAdapter
    <3>5. RestType
      BY <2>1, <3>4, NothingElse DEF StartAdapter
    <3> HIDE DEF a
    <3> QED
      BY <3>2, <3>3, <3>5, StepType
  <2>2. ASSUME NEW p \in Process, Kill(p) PROVE TypeInv'
    <3>1. RestType
      BY <2>2, <2>a, NothingElse DEF Kill
    <3>2. AdapterOK(Down, Len(channel'))
      BY DEF AdapterOK, AdapterType, Down, Step, NotSent
    <3> QED
      BY <2>2, <3>1, <3>2, StepType DEF Kill
  <2>3. ASSUME NEW p \in Process, ParseEvent(p) PROVE TypeInv'
    <3>1. PICK v \in Event :
            /\ Resolves(adapter[p].registry, WrittenTo[v])
            /\ adapter' = [adapter EXCEPT
                   ![p].step = "claim",
                   ![p].envelope = [event |-> v,
                                    recipient |-> Resolve(adapter[p].registry, WrittenTo[v])]]
      BY <2>3 DEF ParseEvent
    <3>2. adapter[p].step = "ready"
      BY <2>3 DEF ParseEvent, At
    <3>3. adapter[p].registry \in Config /\ RegistryAccepts(adapter[p].registry)
      BY <3>2 DEF TypeInv, AdapterOK
    <3>4. Resolve(adapter[p].registry, WrittenTo[v]) \in Endpoint
      BY <3>1, <3>3, OwnersAreEndpoints DEF Resolve, Resolves
    <3> DEFINE e == [event |-> v, recipient |-> Resolve(adapter[p].registry, WrittenTo[v])]
               a == [adapter[p] EXCEPT !.step = "claim", !.envelope = e]
    <3>5. e \in Envelope
      BY <3>4 DEF Envelope
    <3>6. adapter' = [adapter EXCEPT ![p] = a]
      BY <3>1
    <3>7. AdapterOK(a, Len(channel'))
      <4> HIDE DEF e
      <4> QED
        BY <2>a, <3>3, <3>5 DEF AdapterOK, AdapterType, Step
    <3>8. RestType
      BY <2>3, <2>a, NothingElse DEF ParseEvent
    <3> HIDE DEF a
    <3> QED
      BY <3>6, <3>7, <3>8, StepType
  <2>4. ASSUME NEW p \in Process, Claim(p) PROVE TypeInv'
    <3> DEFINE e == EnvelopeAt(p)
    <3>a. adapter[p].step = "claim"
      BY <2>4 DEF Claim, At
    <3>b. adapter[p].registry \in Config /\ RegistryAccepts(adapter[p].registry) /\ e \in Envelope
      BY <3>a DEF TypeInv, AdapterOK, EnvelopeAt
    <3>1. OpOf[e.event] \in Operation /\ MessageOf[e.event] \in Message
      BY <3>b, EventsAreAddressed DEF Envelope
    <3>2. channel' = channel /\ starts' = starts
      BY <2>4 DEF Claim
    <3>3. CASE /\ rows' = [rows EXCEPT ![OpOf[e.event]] =
                          [message |-> MessageOf[e.event], digest |-> e, ts |-> NotSent]]
               /\ Goto(p, "post")
               /\ UNCHANGED answers
      <4> DEFINE a == [adapter[p] EXCEPT !.step = "post"]
                 r == [message |-> MessageOf[e.event], digest |-> e, ts |-> NotSent]
      <4>1. r \in Row /\ r.ts = NotSent
        BY <3>b, <3>1 DEF Row, NotSent
      <4>2. rows' = [rows EXCEPT ![OpOf[e.event]] = r]
        BY <3>3
      <4>3. RestType
        <5> HIDE DEF r, e
        <5> QED
          BY <2>a, <3>1, <3>2, <3>3, <4>1, <4>2 DEF RestType, TypeInv, TypeOK
      <4>4. adapter' = [adapter EXCEPT ![p] = a]
        BY <3>3 DEF Goto
      <4>5. AdapterOK(a, Len(channel'))
        BY <2>a, <3>b DEF AdapterOK, AdapterType, Step, EnvelopeAt
      <4> HIDE DEF a
      <4> QED
        BY <4>3, <4>4, <4>5, StepType
    <3>4. CASE Ready(p) /\ UNCHANGED <<rows, answers>>
      BY <2>a, <3>a, <3>2, <3>4, NothingElse, ReadyType
    <3>5. CASE Ready(p) /\ Answer(e, RowOf(e).ts) /\ UNCHANGED rows
      <4>1. RowOf(e).ts # NotSent => RowOf(e).ts \in 1..Len(channel)
        BY <3>1 DEF RowOf, TypeInv
      <4>2. answers' \subseteq [envelope : Envelope, ts : 1..Len(channel')]
        <5> HIDE DEF e
        <5> QED
          BY <3>b, <3>2, <3>5, <4>1, AnswerType
      <4>3. RestType
        BY <2>a, <3>2, <3>5, <4>2 DEF RestType, TypeInv, TypeOK
      <4> QED
        BY <3>a, <3>5, <4>3, ReadyType
    <3> QED
      BY <2>4, <3>3, <3>4, <3>5 DEF Claim
  <2>5. ASSUME NEW p \in Process, PostToSlack(p) PROVE TypeInv'
    <3> DEFINE post == [envelope |-> EnvelopeAt(p), registry |-> adapter[p].registry]
               sent == Append(channel, post)
    <3>a. adapter[p].step = "post"
      BY <2>5 DEF PostToSlack, At
    <3>b. /\ adapter[p].registry \in Config /\ RegistryAccepts(adapter[p].registry)
          /\ adapter[p].envelope \in Envelope
      BY <3>a DEF TypeInv, AdapterOK
    <3>1. post \in [envelope : Envelope, registry : Config]
      BY <3>b DEF EnvelopeAt
    <3>2. /\ sent \in Seq([envelope : Envelope, registry : Config])
          /\ Len(sent) = Len(channel) + 1 /\ Len(channel) \in Nat
      BY <3>1 DEF TypeInv, TypeOK
    <3>3. rows' = rows /\ answers' = answers /\ starts' = starts
      BY <2>5 DEF PostToSlack
    <3> HIDE DEF sent
    <3>4. CASE Ready(p) /\ UNCHANGED channel
      BY <2>a, <3>a, <3>3, <3>4, NothingElse, ReadyType
    <3>5. ASSUME channel' = sent PROVE RestType
      BY <2>a, <3>2, <3>3, <3>5 DEF RestType, TypeInv, TypeOK
    <3>6. CASE Ready(p) /\ channel' = sent
      BY <3>a, <3>5, <3>6, ReadyType
    <3>7. CASE /\ channel' = sent
               /\ adapter' = [adapter EXCEPT ![p].step = "record", ![p].ts = Len(sent)]
      <4> DEFINE a == [adapter[p] EXCEPT !.step = "record", !.ts = Len(sent)]
      <4>1. adapter' = [adapter EXCEPT ![p] = a]
        BY <3>7
      <4>2. AdapterOK(a, Len(channel'))
        <5> DEFINE n == Len(sent)
        <5>1. n \in Nat /\ n \in 1..n /\ Len(channel') = n
          BY <3>2, <3>7
        <5>2. adapter[p] \in AdapterType
          BY <2>a
        <5> HIDE DEF n
        <5>3. AdapterOK([adapter[p] EXCEPT !.step = "record", !.ts = n], n)
          BY <3>b, <5>1, <5>2 DEF AdapterOK, AdapterType, Step
        <5> QED
          BY <5>1, <5>3 DEF n
      <4> HIDE DEF a
      <4> QED
        BY <3>5, <3>7, <4>1, <4>2, StepType
    <3> QED
      BY <2>5, <3>4, <3>6, <3>7 DEF PostToSlack, sent
  <2>6. ASSUME NEW p \in Process, Record(p) PROVE TypeInv'
    <3>a. adapter[p].step = "record"
      BY <2>6 DEF Record, At
    <3>1. EnvelopeAt(p) \in Envelope /\ adapter[p].ts \in 1..Len(channel)
      BY <3>a DEF EnvelopeAt, TypeInv, AdapterOK
    <3>2. channel' = channel /\ starts' = starts /\ MarkDelivered(EnvelopeAt(p), adapter[p].ts)
      BY <2>6 DEF Record
    <3>3. RestType
      <4>1. /\ rows' \in [Operation -> Row \cup {NoRow}]
            /\ \A o \in Operation : rows'[o].ts # NotSent => rows'[o].ts \in 1..Len(channel')
            /\ answers' \subseteq [envelope : Envelope, ts : 1..Len(channel')]
        BY <3>1, <3>2, MarkType
      <4> QED
        BY <2>a, <3>2, <4>1 DEF RestType, TypeInv, TypeOK
    <3> QED
      BY <2>6, <3>a, <3>3, ReadyType DEF Record
  <2>7. ASSUME NEW p \in Process, RecordFromChannel(p) PROVE TypeInv'
    <3>1. PICK ts : ts \in DOMAIN channel /\ MarkDelivered(channel[ts].envelope, ts)
      BY <2>7 DEF RecordFromChannel
    <3> DEFINE e == channel[ts].envelope
    <3>a. MarkDelivered(e, ts)
      BY <3>1
    <3>b. channel \in Seq([envelope : Envelope, registry : Config])
      BY DEF TypeInv, TypeOK
    <3>2. ts \in 1..Len(channel) /\ channel[ts] \in [envelope : Envelope, registry : Config]
      BY <3>1, <3>b, ElementsOfSequences
    <3>c. e \in Envelope
      BY <3>2
    <3> HIDE DEF e
    <3>3. channel' = channel /\ starts' = starts /\ adapter' = adapter
      BY <2>7 DEF RecordFromChannel
    <3>4. /\ rows' \in [Operation -> Row \cup {NoRow}]
          /\ \A o \in Operation : rows'[o].ts # NotSent => rows'[o].ts \in 1..Len(channel')
          /\ answers' \subseteq [envelope : Envelope, ts : 1..Len(channel')]
      BY <3>2, <3>3, <3>a, <3>c, MarkType
    <3>5. TypeOK'
      BY <3>3, <3>4 DEF TypeInv, TypeOK
    <3> QED
      BY <3>3, <3>4, <3>5 DEF TypeInv
  <2>8. CASE UNCHANGED vars
    BY <2>8 DEF vars, TypeInv, TypeOK
  <2> QED
    BY <2>1, <2>2, <2>3, <2>4, <2>5, <2>6, <2>7, <2>8 DEF Next
<1> QED
  BY <1>1, <1>2, PTL DEF Spec

-----------------------------------------------------------------------------
\* What a step does, as far as the invariant tells steps apart.

OthersStay(p) == \A q \in Process : q # p => adapter'[q] = adapter[q]
SameWork(p) == adapter'[p].registry = adapter[p].registry /\ adapter'[p].envelope = adapter[p].envelope

\* No adapter takes up anything; a timestamp that is stored or answered is that
\* of a post of the envelope.
Recorded ==
    /\ \A q \in Process : adapter'[q] = adapter[q] \/ adapter'[q].step \in {"down", "ready"}
    /\ channel' = channel
    /\ \A o \in Operation :
           /\ rows'[o].digest = rows[o].digest /\ rows'[o].message = rows[o].message
           /\ rows'[o].ts = rows[o].ts \/ IsPostOf(rows'[o].ts, rows[o].digest)
    /\ \A a \in answers' : a \in answers \/ IsPostOf(a.ts, a.envelope)

Parsed(p) ==
    /\ rows' = rows /\ channel' = channel /\ answers' = answers
    /\ OthersStay(p)
    /\ adapter'[p].step = "claim"
    /\ ResolvedBy(adapter'[p].registry, adapter'[p].envelope)

Claimed(p) ==
    /\ adapter[p].step = "claim"
    /\ rows[OpAt(p)].digest = None /\ MessageIsNew(EnvelopeAt(p))
    /\ rows' = [rows EXCEPT ![OpAt(p)] = [message |-> MessageOf[EnvelopeAt(p).event],
                                          digest |-> EnvelopeAt(p), ts |-> NotSent]]
    /\ channel' = channel /\ answers' = answers
    /\ OthersStay(p) /\ adapter'[p].step = "post" /\ SameWork(p)

Posted(p) ==
    /\ adapter[p].step = "post"
    /\ channel' = Append(channel, [envelope |-> EnvelopeAt(p), registry |-> adapter[p].registry])
    /\ rows' = rows /\ answers' = answers
    /\ OthersStay(p)
    /\ \/ adapter'[p].step = "ready"
       \/ adapter'[p].step = "record" /\ SameWork(p) /\ adapter'[p].ts = Len(channel')

\* A call that was refused, or whose post was.
LEMMA ReadyIsQuiet ==
    ASSUME TypeInv, NEW p \in Process, Ready(p)
    PROVE  /\ OthersStay(p) /\ adapter'[p].step = "ready"
           /\ \A q \in Process : adapter'[q] = adapter[q] \/ adapter'[q].step \in {"down", "ready"}
<1>1. adapter \in [Process -> AdapterType]
  BY DEF TypeInv, TypeOK, AdapterType
<1>2. adapter' = [adapter EXCEPT ![p] = ReadyWith(adapter[p].registry)]
  BY <1>1, ReadyIs
<1> QED
  BY <1>1, <1>2 DEF ReadyWith, OthersStay

\* mark_delivered with the timestamp of a post of the envelope stores that
\* timestamp, and no other, in the row of the envelope.
LEMMA MarkRecords ==
    ASSUME TypeInv, NEW e \in Envelope, NEW ts, IsPostOf(ts, e), channel' = channel,
           MarkDelivered(e, ts),
           \A q \in Process : adapter'[q] = adapter[q] \/ adapter'[q].step \in {"down", "ready"}
    PROVE  Recorded
<1>1. OpOf[e.event] \in Operation
  BY EventsAreAddressed DEF Envelope
<1>2. CASE RowOf(e).digest = e /\ RowOf(e).ts \in {NotSent, ts}
  <2> DEFINE o == OpOf[e.event]
  <2>1. rows' = [rows EXCEPT ![o].ts = ts] /\ Answer(e, ts)
    BY <1>2 DEF MarkDelivered
  <2>2. rows[o] \in Row /\ rows[o].digest = e
    BY <1>1, <1>2, DistinctSentinel DEF TypeInv, TypeOK, RowOf, NoRow
  <2>3. rows \in [Operation -> Row \cup {NoRow}]
    BY DEF TypeInv, TypeOK
  <2>4. \A x \in Operation :
            rows'[x] = IF x = o THEN [message |-> rows[o].message, digest |-> e, ts |-> ts]
                                ELSE rows[x]
    <3> HIDE DEF o
    <3> QED
      BY <1>1, <2>1, <2>2, <2>3 DEF Row, o
  <2>5. \A a \in answers' : a \in answers \/ (a.ts = ts /\ a.envelope = e)
    BY <2>1 DEF Answer
  <2> QED
    BY <2>2, <2>4, <2>5 DEF Recorded
<1>3. CASE ~(RowOf(e).digest = e /\ RowOf(e).ts \in {NotSent, ts})
  BY <1>3 DEF MarkDelivered, Recorded
<1> QED
  BY <1>2, <1>3

\* Every step of the relay is of one of the four kinds.
LEMMA EveryStepIsOneOfThese ==
    ASSUME TypeInv, TimestampsArePosts, [Next]_vars
    PROVE  Recorded \/ \E p \in Process : Parsed(p) \/ Claimed(p) \/ Posted(p)
<1>a. adapter \in [Process -> AdapterType] /\ \A p \in Process : AdapterOK(adapter[p], Len(channel))
  BY DEF TypeInv, TypeOK, AdapterType
<1>1. ASSUME NEW p \in Process, StartAdapter(p) PROVE Recorded
  <2>1. \A q \in Process : adapter'[q] = adapter[q] \/ adapter'[q].step \in {"down", "ready"}
    <3>1. PICK c \in Config :
             adapter' = [adapter EXCEPT ![p].step = "ready", ![p].registry = c]
      BY <1>1 DEF StartAdapter
    <3> DEFINE a == [adapter[p] EXCEPT !.step = "ready", !.registry = c]
    <3>2. adapter' = [adapter EXCEPT ![p] = a]
      BY <3>1
    <3>3. a.step = "ready"
      BY <1>a DEF AdapterType
    <3> HIDE DEF a
    <3> QED
      BY <1>a, <3>2, <3>3
  <2> QED
    BY <1>1, <2>1 DEF StartAdapter, Recorded
<1>2. ASSUME NEW p \in Process, Kill(p) PROVE Recorded
  <2>1. \A q \in Process : adapter'[q] = adapter[q] \/ adapter'[q].step \in {"down", "ready"}
    BY <1>a, <1>2 DEF Kill, Down
  <2> QED
    BY <1>2, <2>1 DEF Kill, Recorded
<1>3. ASSUME NEW p \in Process, ParseEvent(p) PROVE Parsed(p)
  <2>1. PICK v \in Event :
          /\ Resolves(adapter[p].registry, WrittenTo[v])
          /\ adapter' = [adapter EXCEPT
                 ![p].step = "claim",
                 ![p].envelope = [event |-> v,
                                  recipient |-> Resolve(adapter[p].registry, WrittenTo[v])]]
    BY <1>3 DEF ParseEvent
  <2>2. adapter[p].registry \in Config /\ RegistryAccepts(adapter[p].registry)
    BY <1>a, <1>3 DEF ParseEvent, At, AdapterOK
  <2>3. Owners(adapter[p].registry, WrittenTo[v]) = {Resolve(adapter[p].registry, WrittenTo[v])}
    BY <2>1, <2>2, ResolveIsTheOwner
  <2> DEFINE e == [event |-> v, recipient |-> Resolve(adapter[p].registry, WrittenTo[v])]
             a == [adapter[p] EXCEPT !.step = "claim", !.envelope = e]
  <2>4. ResolvedBy(adapter[p].registry, e)
    BY <2>3 DEF ResolvedBy
  <2>5. adapter' = [adapter EXCEPT ![p] = a]
    BY <2>1
  <2>6. a.step = "claim" /\ a.registry = adapter[p].registry /\ a.envelope = e
    <3> HIDE DEF e
    <3> QED
      BY <1>a DEF AdapterType
  <2> HIDE DEF a, e
  <2>7. adapter'[p] = a /\ OthersStay(p)
    BY <1>a, <2>5 DEF OthersStay
  <2> QED
    BY <1>3, <2>4, <2>6, <2>7 DEF Parsed, ParseEvent
<1>4. ASSUME NEW p \in Process, Claim(p) PROVE Recorded \/ Claimed(p)
  <2> DEFINE e == EnvelopeAt(p)
  <2>a. adapter[p].step = "claim"
    BY <1>4 DEF Claim, At
  <2>b. e \in Envelope /\ OpOf[e.event] \in Operation
    BY <1>a, <2>a, EventsAreAddressed DEF AdapterOK, EnvelopeAt, Envelope
  <2>c. channel' = channel
    BY <1>4 DEF Claim
  <2>1. CASE /\ OperationIsNew(e) /\ MessageIsNew(e)
             /\ rows' = [rows EXCEPT ![OpOf[e.event]] =
                        [message |-> MessageOf[e.event], digest |-> e, ts |-> NotSent]]
             /\ Goto(p, "post")
             /\ UNCHANGED answers
    <3> DEFINE a == [adapter[p] EXCEPT !.step = "post"]
    <3>1. adapter' = [adapter EXCEPT ![p] = a]
      BY <2>1 DEF Goto
    <3>2. a.step = "post" /\ a.registry = adapter[p].registry /\ a.envelope = adapter[p].envelope
      BY <1>a DEF AdapterType
    <3> HIDE DEF a
    <3>3. adapter'[p] = a /\ OthersStay(p)
      BY <1>a, <3>1 DEF OthersStay
    <3>4. rows[OpAt(p)].digest = None
      BY <2>1 DEF OperationIsNew, RowOf, NoRow, OpAt
    <3> QED
      BY <2>a, <2>c, <2>1, <3>2, <3>3, <3>4 DEF Claimed, SameWork, OpAt
  <2>2. CASE Ready(p) /\ UNCHANGED <<rows, answers>>
    BY <2>c, <2>2, ReadyIsQuiet DEF Recorded
  <2>3. CASE Ready(p) /\ RowIsFor(e) /\ Answer(e, RowOf(e).ts) /\ UNCHANGED rows
    <3>1. RowOf(e).ts # NotSent => IsPostOf(RowOf(e).ts, e)
      BY <2>b, <2>3 DEF RowIsFor, RowOf, TimestampsArePosts
    <3>2. \A x \in answers' : x \in answers \/ IsPostOf(x.ts, x.envelope)
      <4> HIDE DEF e
      <4> QED
        BY <2>3, <3>1 DEF Answer
    <3> QED
      BY <2>c, <2>3, <3>2, ReadyIsQuiet DEF Recorded
  <2> QED
    BY <1>4, <2>1, <2>2, <2>3 DEF Claim
<1>5. ASSUME NEW p \in Process, PostToSlack(p) PROVE Recorded \/ Posted(p)
  <2> DEFINE sent == Append(channel, [envelope |-> EnvelopeAt(p), registry |-> adapter[p].registry])
  <2>a. adapter[p].step = "post" /\ rows' = rows /\ answers' = answers
    BY <1>5 DEF PostToSlack, At
  <2>1. CASE Ready(p) /\ UNCHANGED channel
    BY <2>a, <2>1, ReadyIsQuiet DEF Recorded
  <2>2. CASE Ready(p) /\ channel' = sent
    BY <2>a, <2>2, ReadyIsQuiet DEF Posted
  <2>3. CASE /\ channel' = sent
             /\ adapter' = [adapter EXCEPT ![p].step = "record", ![p].ts = Len(sent)]
    <3> DEFINE n == Len(sent)
               a == [adapter[p] EXCEPT !.step = "record", !.ts = n]
    <3>1. adapter' = [adapter EXCEPT ![p] = a] /\ n = Len(channel')
      BY <2>3
    <3> HIDE DEF n
    <3>2. /\ a.step = "record" /\ a.ts = n
          /\ a.registry = adapter[p].registry /\ a.envelope = adapter[p].envelope
      BY <1>a DEF AdapterType
    <3> HIDE DEF a
    <3>3. adapter'[p] = a /\ OthersStay(p)
      BY <1>a, <3>1 DEF OthersStay
    <3> QED
      BY <2>a, <2>3, <3>1, <3>2, <3>3 DEF Posted, SameWork
  <2> QED
    BY <1>5, <2>1, <2>2, <2>3 DEF PostToSlack
<1>6. ASSUME NEW p \in Process, Record(p) PROVE Recorded
  <2>1. At(p, "record")
    BY <1>6 DEF Record
  <2>2. EnvelopeAt(p) \in Envelope /\ IsPostOf(adapter[p].ts, EnvelopeAt(p))
    BY <1>a, <2>1 DEF AdapterOK, TimestampsArePosts, EnvelopeAt, At
  <2> QED
    BY <1>6, <2>2, ReadyIsQuiet, MarkRecords DEF Record
<1>7. ASSUME NEW p \in Process, RecordFromChannel(p) PROVE Recorded
  <2>1. PICK ts : ts \in DOMAIN channel /\ MarkDelivered(channel[ts].envelope, ts)
    BY <1>7 DEF RecordFromChannel
  <2> DEFINE e == channel[ts].envelope
  <2>2. channel \in Seq([envelope : Envelope, registry : Config])
    BY DEF TypeInv, TypeOK
  <2>3. channel[ts] \in [envelope : Envelope, registry : Config]
    BY <2>1, <2>2, ElementsOfSequences
  <2>4. e \in Envelope /\ IsPostOf(ts, e) /\ MarkDelivered(e, ts)
    BY <2>1, <2>3 DEF IsPostOf
  <2>5. /\ channel' = channel
        /\ \A q \in Process : adapter'[q] = adapter[q] \/ adapter'[q].step \in {"down", "ready"}
    BY <1>7 DEF RecordFromChannel
  <2> HIDE DEF e
  <2> QED
    BY <2>4, <2>5, MarkRecords
<1>8. CASE UNCHANGED vars
  BY <1>8 DEF vars, Recorded
<1> QED
  BY <1>1, <1>2, <1>3, <1>4, <1>5, <1>6, <1>7, <1>8 DEF Next

-----------------------------------------------------------------------------
\* The parts of the invariant, each over the four kinds of step.

\* Append, element by element.
LEMMA AppendedPost ==
    ASSUME NEW S, NEW s \in Seq(S), NEW x \in S, NEW t, t = Append(s, x)
    PROVE  /\ DOMAIN s = 1..Len(s) /\ DOMAIN t = 1..Len(t) /\ Len(t) = Len(s) + 1 /\ Len(s) \in Nat
           /\ \A i \in DOMAIN s : t[i] = s[i]
           /\ t[Len(t)] = x
OBVIOUS

\* A post adds one place to the channel and leaves the others.
LEMMA ChannelAfterPost ==
    ASSUME TypeInv, NEW p \in Process, Posted(p)
    PROVE  \E n :
               /\ n = Len(channel') /\ n \notin DOMAIN channel
               /\ \A i \in DOMAIN channel' : i = n \/ i \in DOMAIN channel
               /\ n \in DOMAIN channel' /\ DOMAIN channel \subseteq DOMAIN channel'
               /\ \A i \in DOMAIN channel : channel'[i] = channel[i]
               /\ channel'[n].envelope = adapter[p].envelope
               /\ channel'[n].registry = adapter[p].registry
<1>1. channel \in Seq([envelope : Envelope, registry : Config])
  BY DEF TypeInv, TypeOK
<1>2. [envelope |-> adapter[p].envelope, registry |-> adapter[p].registry]
          \in [envelope : Envelope, registry : Config]
  BY DEF Posted, TypeInv, AdapterOK
<1>3. channel' = Append(channel, [envelope |-> adapter[p].envelope,
                                  registry |-> adapter[p].registry])
  BY DEF Posted, EnvelopeAt
<1>4. /\ DOMAIN channel = 1..Len(channel) /\ DOMAIN channel' = 1..Len(channel')
      /\ Len(channel') = Len(channel) + 1 /\ Len(channel) \in Nat
      /\ \A i \in DOMAIN channel : channel'[i] = channel[i]
      /\ channel'[Len(channel')] = [envelope |-> adapter[p].envelope,
                                    registry |-> adapter[p].registry]
  BY <1>1, <1>2, <1>3, AppendedPost
<1> QED
  BY <1>4

\* Only a parse takes an address, and only a post puts one in the channel.
LEMMA AddressesHold ==
    ASSUME TypeInv, AddressInv,
           Recorded \/ \E p \in Process : Parsed(p) \/ Claimed(p) \/ Posted(p)
    PROVE  AddressInv'
<1>1. CASE Recorded
  BY <1>1 DEF Recorded, AddressInv
<1>2. ASSUME NEW p \in Process, Parsed(p) PROVE AddressInv'
  BY <1>2 DEF Parsed, OthersStay, AddressInv
<1>3. ASSUME NEW p \in Process, Claimed(p) PROVE AddressInv'
  BY <1>3 DEF Claimed, OthersStay, SameWork, AddressInv
<1>4. ASSUME NEW p \in Process, Posted(p) PROVE AddressInv'
  <2>0. PICK n :
            /\ n = Len(channel') /\ n \notin DOMAIN channel
            /\ \A i \in DOMAIN channel' : i = n \/ i \in DOMAIN channel
            /\ n \in DOMAIN channel' /\ DOMAIN channel \subseteq DOMAIN channel'
            /\ \A i \in DOMAIN channel : channel'[i] = channel[i]
            /\ channel'[n].envelope = adapter[p].envelope
            /\ channel'[n].registry = adapter[p].registry
    BY <1>4, ChannelAfterPost
  <2>1. \A q \in Process : adapter'[q].step \in {"claim", "post", "record"} =>
            ResolvedBy(adapter'[q].registry, adapter'[q].envelope)
    BY <1>4 DEF Posted, OthersStay, SameWork, AddressInv
  <2>2. ResolvedBy(adapter[p].registry, adapter[p].envelope)
    BY <1>4 DEF Posted, AddressInv
  <2>3. \A i \in DOMAIN channel' : ResolvedBy(channel'[i].registry, channel'[i].envelope)
    BY <2>0, <2>2 DEF AddressInv
  <2> QED
    BY <2>1, <2>3 DEF AddressInv
<1> QED
  BY <1>1, <1>2, <1>3, <1>4

\* A claim writes the row of its operation and no other.
LEMMA ClaimedRow ==
    ASSUME TypeInv, NEW p \in Process, Claimed(p)
    PROVE  /\ OpAt(p) \in Operation /\ EnvelopeAt(p) \in Envelope /\ EnvelopeAt(p) # None
           /\ rows'[OpAt(p)].digest = EnvelopeAt(p)
           /\ rows'[OpAt(p)].message = MessageOf[EnvelopeAt(p).event]
           /\ rows'[OpAt(p)].ts = NotSent
           /\ \A o \in Operation : o # OpAt(p) => rows'[o] = rows[o]
<1>1. EnvelopeAt(p) \in Envelope
  BY DEF Claimed, TypeInv, AdapterOK, EnvelopeAt
<1>2. OpAt(p) \in Operation
  BY <1>1, EventsAreAddressed DEF OpAt, Envelope
<1>3. rows \in [Operation -> Row \cup {NoRow}]
  BY DEF TypeInv, TypeOK
<1> QED
  BY <1>1, <1>2, <1>3, DistinctSentinel DEF Claimed

\* A claim is new by operation and by message.
LEMMA RowsHold ==
    ASSUME TypeInv, RowsAreClaims,
           Recorded \/ \E p \in Process : Parsed(p) \/ Claimed(p) \/ Posted(p)
    PROVE  RowsAreClaims'
<1>1. CASE Recorded
  BY <1>1 DEF Recorded, RowsAreClaims
<1>2. ASSUME NEW p \in Process, Parsed(p) \/ Posted(p) PROVE RowsAreClaims'
  BY <1>2 DEF Parsed, Posted, RowsAreClaims
<1>3. ASSUME NEW p \in Process, Claimed(p) PROVE RowsAreClaims'
  <2>1. \A o \in Operation : rows'[o].digest # None =>
           /\ OpOf[rows'[o].digest.event] = o
           /\ rows'[o].message = MessageOf[rows'[o].digest.event]
    BY <1>3, ClaimedRow DEF RowsAreClaims, OpAt
  <2>2. \A o \in Operation : rows[o].message # MessageOf[EnvelopeAt(p).event]
    BY <1>3 DEF Claimed, MessageIsNew
  <2>3. \A o, q \in Operation :
           rows'[o].digest # None /\ rows'[q].digest # None /\ rows'[o].message = rows'[q].message
               => o = q
    BY <1>3, <2>2, ClaimedRow DEF RowsAreClaims
  <2> QED
    BY <2>1, <2>3 DEF RowsAreClaims
<1> QED
  BY <1>1, <1>2, <1>3

\* The row an adapter works for stays, since it is never claimed again.
LEMMA PostsHold ==
    ASSUME TypeInv, PostsAreClaimed,
           Recorded \/ \E p \in Process : Parsed(p) \/ Claimed(p) \/ Posted(p)
    PROVE  PostsAreClaimed'
<1> USE DEF OpAt, OpOfPost, EnvelopeAt
<1>a. /\ \A q \in Process : adapter[q].step \in {"post", "record"} =>
             adapter[q].envelope \in Envelope
      /\ \A i \in DOMAIN channel : channel[i].envelope \in Envelope
      /\ \A e \in Envelope : OpOf[e.event] \in Operation /\ e # None
  <2>1. channel \in Seq([envelope : Envelope, registry : Config])
    BY DEF TypeInv, TypeOK
  <2>2. \A i \in DOMAIN channel : channel[i] \in [envelope : Envelope, registry : Config]
    BY <2>1, ElementsOfSequences
  <2> QED
    BY <2>2, EventsAreAddressed, DistinctSentinel DEF TypeInv, AdapterOK, Envelope
<1>1. CASE Recorded
  BY <1>a, <1>1 DEF Recorded, PostsAreClaimed
<1>2. ASSUME NEW p \in Process, Parsed(p) PROVE PostsAreClaimed'
  BY <1>2 DEF Parsed, OthersStay, PostsAreClaimed
<1>3. ASSUME NEW p \in Process, Claimed(p) PROVE PostsAreClaimed'
  <2>1. \A o \in Operation : rows[o].digest # None => rows'[o] = rows[o]
    BY <1>3, ClaimedRow DEF Claimed
  <2>2. \A q \in Process : adapter'[q].step \in {"post", "record"} =>
            rows'[OpOf[adapter'[q].envelope.event]].digest = adapter'[q].envelope
    <3> SUFFICES ASSUME NEW q \in Process, adapter'[q].step \in {"post", "record"}
                 PROVE  rows'[OpOf[adapter'[q].envelope.event]].digest = adapter'[q].envelope
      OBVIOUS
    <3>1. CASE q = p
      BY <1>3, <3>1, ClaimedRow DEF Claimed, SameWork
    <3>2. CASE q # p
      <4>1. adapter'[q] = adapter[q]
        BY <1>3, <3>2 DEF Claimed, OthersStay
      <4>2. adapter[q].envelope \in Envelope
        BY <1>a, <4>1
      <4>3. /\ OpOf[adapter[q].envelope.event] \in Operation
            /\ adapter[q].envelope # None
        BY <1>a, <4>2
      <4>4. rows[OpOf[adapter[q].envelope.event]].digest = adapter[q].envelope
        BY <4>1 DEF PostsAreClaimed
      <4>5. rows'[OpOf[adapter[q].envelope.event]] = rows[OpOf[adapter[q].envelope.event]]
        BY <2>1, <4>3, <4>4
      <4> QED
        BY <4>1, <4>4, <4>5
    <3> QED
      BY <3>1, <3>2
  <2>3. \A i \in DOMAIN channel' :
            rows'[OpOf[channel'[i].envelope.event]].digest = channel'[i].envelope
    <3>1. channel' = channel
      BY <1>3 DEF Claimed
    <3> SUFFICES ASSUME NEW i \in DOMAIN channel
                 PROVE  rows'[OpOf[channel[i].envelope.event]].digest = channel[i].envelope
      BY <3>1
    <3>2. OpOf[channel[i].envelope.event] \in Operation /\ channel[i].envelope # None
      BY <1>a
    <3>3. rows[OpOf[channel[i].envelope.event]].digest = channel[i].envelope
      BY DEF PostsAreClaimed
    <3>4. rows'[OpOf[channel[i].envelope.event]] = rows[OpOf[channel[i].envelope.event]]
      BY <2>1, <3>2, <3>3
    <3> QED
      BY <3>3, <3>4
  <2> QED
    BY <2>2, <2>3 DEF PostsAreClaimed
<1>4. ASSUME NEW p \in Process, Posted(p) PROVE PostsAreClaimed'
  <2>0. PICK n :
            /\ n = Len(channel') /\ n \notin DOMAIN channel
            /\ \A i \in DOMAIN channel' : i = n \/ i \in DOMAIN channel
            /\ n \in DOMAIN channel' /\ DOMAIN channel \subseteq DOMAIN channel'
            /\ \A i \in DOMAIN channel : channel'[i] = channel[i]
            /\ channel'[n].envelope = adapter[p].envelope
            /\ channel'[n].registry = adapter[p].registry
    BY <1>4, ChannelAfterPost
  <2>1. \A q \in Process : adapter'[q].step \in {"post", "record"} =>
            rows'[OpOf[adapter'[q].envelope.event]].digest = adapter'[q].envelope
    BY <1>4 DEF Posted, OthersStay, SameWork, PostsAreClaimed
  <2>2. rows[OpOf[adapter[p].envelope.event]].digest = adapter[p].envelope /\ rows' = rows
    BY <1>4 DEF Posted, PostsAreClaimed
  <2>3. \A i \in DOMAIN channel' :
            rows'[OpOf[channel'[i].envelope.event]].digest = channel'[i].envelope
    BY <2>0, <2>2 DEF PostsAreClaimed
  <2> QED
    BY <2>1, <2>3 DEF PostsAreClaimed
<1> QED
  BY <1>1, <1>2, <1>3, <1>4

\* The claim that leads to a post is made once, and used up by the post.
LEMMA ClaimsHold ==
    ASSUME TypeInv, PostsAreClaimed, ClaimsArePostedOnce,
           Recorded \/ \E p \in Process : Parsed(p) \/ Claimed(p) \/ Posted(p)
    PROVE  ClaimsArePostedOnce'
<1> USE DEF OpAt, OpOfPost, EnvelopeAt, At
<1>1. CASE Recorded
  BY <1>1 DEF Recorded, ClaimsArePostedOnce
<1>2. ASSUME NEW p \in Process, Parsed(p) PROVE ClaimsArePostedOnce'
  BY <1>2 DEF Parsed, OthersStay, ClaimsArePostedOnce
<1>3. ASSUME NEW p \in Process, Claimed(p) PROVE ClaimsArePostedOnce'
  <2> DEFINE o == OpOf[adapter[p].envelope.event]
  <2>1. \A q \in Process : adapter[q].step = "post" => OpOf[adapter[q].envelope.event] # o
    <3>1. \A q \in Process : adapter[q].step = "post" => adapter[q].envelope # None
      BY DistinctSentinel DEF TypeInv, AdapterOK
    <3> QED
      BY <1>3, <3>1 DEF Claimed, PostsAreClaimed
  <2>2. \A i \in DOMAIN channel : OpOf[channel[i].envelope.event] # o
    <3>1. channel \in Seq([envelope : Envelope, registry : Config])
      BY DEF TypeInv, TypeOK
    <3>2. \A i \in DOMAIN channel : channel[i] \in [envelope : Envelope, registry : Config]
      BY <3>1, ElementsOfSequences
    <3>3. \A i \in DOMAIN channel : channel[i].envelope # None
      BY <3>2, DistinctSentinel
    <3> QED
      BY <1>3, <3>3 DEF Claimed, PostsAreClaimed
  <2>3. /\ channel' = channel /\ adapter'[p].envelope = adapter[p].envelope
        /\ \A q \in Process : q # p => adapter'[q] = adapter[q]
    BY <1>3 DEF Claimed, OthersStay, SameWork
  <2>4. \A q, r \in Process :
            /\ adapter'[q].step = "post" /\ adapter'[r].step = "post"
            /\ OpOf[adapter'[q].envelope.event] = OpOf[adapter'[r].envelope.event]
            => q = r
    BY <2>1, <2>3 DEF ClaimsArePostedOnce
  <2>5. \A q \in Process : adapter'[q].step = "post" =>
            \A i \in DOMAIN channel' :
                OpOf[channel'[i].envelope.event] # OpOf[adapter'[q].envelope.event]
    BY <2>2, <2>3 DEF ClaimsArePostedOnce
  <2> QED
    BY <2>3, <2>4, <2>5 DEF ClaimsArePostedOnce
<1>4. ASSUME NEW p \in Process, Posted(p) PROVE ClaimsArePostedOnce'
  <2>0. PICK n :
            /\ n = Len(channel') /\ n \notin DOMAIN channel
            /\ \A i \in DOMAIN channel' : i = n \/ i \in DOMAIN channel
            /\ n \in DOMAIN channel' /\ DOMAIN channel \subseteq DOMAIN channel'
            /\ \A i \in DOMAIN channel : channel'[i] = channel[i]
            /\ channel'[n].envelope = adapter[p].envelope
            /\ channel'[n].registry = adapter[p].registry
    BY <1>4, ChannelAfterPost
  <2>1. \A q \in Process : adapter'[q].step = "post" => q # p /\ adapter'[q] = adapter[q]
    BY <1>4 DEF Posted, OthersStay
  <2>2. adapter[p].step = "post"
    BY <1>4 DEF Posted
  <2>3. \A q \in Process : adapter'[q].step = "post" =>
            \A i \in DOMAIN channel' :
                OpOf[channel'[i].envelope.event] # OpOf[adapter'[q].envelope.event]
    BY <2>0, <2>1, <2>2 DEF ClaimsArePostedOnce
  <2>4. \A i, j \in DOMAIN channel' :
            OpOf[channel'[i].envelope.event] = OpOf[channel'[j].envelope.event] => i = j
    BY <2>0, <2>2 DEF ClaimsArePostedOnce
  <2> QED
    BY <2>1, <2>3, <2>4 DEF ClaimsArePostedOnce
<1> QED
  BY <1>1, <1>2, <1>3, <1>4

\* Places in the channel are never taken away.
LEMMA TimestampsHold ==
    ASSUME TypeInv, TimestampsArePosts,
           Recorded \/ \E p \in Process : Parsed(p) \/ Claimed(p) \/ Posted(p)
    PROVE  TimestampsArePosts'
<1> USE DEF IsPostOf, At, EnvelopeAt
<1>1. CASE Recorded
  BY <1>1 DEF Recorded, TimestampsArePosts
<1>2. ASSUME NEW p \in Process, Parsed(p) PROVE TimestampsArePosts'
  BY <1>2 DEF Parsed, OthersStay, TimestampsArePosts
<1>3. ASSUME NEW p \in Process, Claimed(p) PROVE TimestampsArePosts'
  <2>1. \A o \in Operation : rows'[o].ts # NotSent => rows'[o] = rows[o]
    BY <1>3, ClaimedRow
  <2>2. \A q \in Process : adapter'[q].step = "record" => adapter'[q] = adapter[q]
    BY <1>3 DEF Claimed, OthersStay
  <2>3. channel' = channel /\ answers' = answers
    BY <1>3 DEF Claimed
  <2> QED
    BY <2>1, <2>2, <2>3 DEF TimestampsArePosts
<1>4. ASSUME NEW p \in Process, Posted(p) PROVE TimestampsArePosts'
  <2>0. PICK n :
            /\ n = Len(channel') /\ n \notin DOMAIN channel
            /\ \A i \in DOMAIN channel' : i = n \/ i \in DOMAIN channel
            /\ n \in DOMAIN channel' /\ DOMAIN channel \subseteq DOMAIN channel'
            /\ \A i \in DOMAIN channel : channel'[i] = channel[i]
            /\ channel'[n].envelope = adapter[p].envelope
            /\ channel'[n].registry = adapter[p].registry
    BY <1>4, ChannelAfterPost
  <2>1. \A q \in Process : adapter'[q].step = "record" =>
            /\ adapter'[q].ts \in DOMAIN channel'
            /\ channel'[adapter'[q].ts].envelope = adapter'[q].envelope
    BY <1>4, <2>0 DEF Posted, OthersStay, SameWork, TimestampsArePosts
  <2>2. \A ts, e : ts \in DOMAIN channel /\ channel[ts].envelope = e =>
            ts \in DOMAIN channel' /\ channel'[ts].envelope = e
    BY <2>0
  <2>3. rows' = rows /\ answers' = answers
    BY <1>4 DEF Posted
  <2> QED
    BY <2>1, <2>2, <2>3 DEF TimestampsArePosts
<1> QED
  BY <1>1, <1>2, <1>3, <1>4

-----------------------------------------------------------------------------

\* The inductive invariant: who is at a post holds the only claim of its
\* operation, and a timestamp that is stored, held or answered leads to a post
\* of the envelope it stands for.
THEOREM SafetyHolds == Spec => []SafetyInv
<1>1. Init => SafetyInv
  <2> SUFFICES ASSUME Init PROVE SafetyInv
    OBVIOUS
  <2>1. /\ channel = <<>> /\ DOMAIN channel = {} /\ answers = {}
        /\ \A p \in Process : adapter[p].step = "down"
        /\ \A o \in Operation : rows[o].digest = None /\ rows[o].ts = NotSent
    BY DEF Init, Down, NoRow
  <2>2. AddressInv /\ RowsAreClaims /\ PostsAreClaimed
    BY <2>1 DEF AddressInv, RowsAreClaims, PostsAreClaimed
  <2>3. ClaimsArePostedOnce /\ TimestampsArePosts
    BY <2>1 DEF ClaimsArePostedOnce, TimestampsArePosts, At
  <2> QED
    BY <2>2, <2>3 DEF SafetyInv
<1>2. TypeInv /\ SafetyInv /\ [Next]_vars => SafetyInv'
  <2> SUFFICES ASSUME TypeInv, SafetyInv, [Next]_vars PROVE SafetyInv'
    OBVIOUS
  <2>1. AddressInv /\ RowsAreClaims /\ PostsAreClaimed /\ ClaimsArePostedOnce /\ TimestampsArePosts
    BY DEF SafetyInv
  <2>2. Recorded \/ \E p \in Process : Parsed(p) \/ Claimed(p) \/ Posted(p)
    BY <2>1, EveryStepIsOneOfThese
  <2>3. AddressInv' /\ RowsAreClaims' /\ TimestampsArePosts'
    BY <2>1, <2>2, AddressesHold, RowsHold, TimestampsHold
  <2>4. PostsAreClaimed' /\ ClaimsArePostedOnce'
    BY <2>1, <2>2, PostsHold, ClaimsHold
  <2> QED
    BY <2>3, <2>4 DEF SafetyInv
<1> QED
  BY <1>1, <1>2, TypeCorrect, PTL DEF Spec

\* relay_operations keeps a message from being posted twice, whatever Slack
\* delivers again and wherever an adapter is killed: two posts of a message are
\* two claims of it, and its row is claimed once.
THEOREM NoMessageIsPostedTwice == Spec => []PostedAtMostOnce
<1>1. TypeInv /\ SafetyInv => PostedAtMostOnce
  <2> SUFFICES ASSUME TypeInv, SafetyInv, NEW i \in DOMAIN channel, NEW j \in DOMAIN channel,
                      MessageOf[channel[i].envelope.event] = MessageOf[channel[j].envelope.event]
               PROVE  i = j
    BY DEF PostedAtMostOnce
  <2>1. channel \in Seq([envelope : Envelope, registry : Config])
    BY DEF TypeInv, TypeOK
  <2>2. channel[i].envelope \in Envelope /\ channel[j].envelope \in Envelope
    <3>1. /\ channel[i] \in [envelope : Envelope, registry : Config]
          /\ channel[j] \in [envelope : Envelope, registry : Config]
      BY <2>1, ElementsOfSequences
    <3> QED
      BY <3>1
  <2>3. OpOfPost(i) \in Operation /\ OpOfPost(j) \in Operation
    BY <2>2, EventsAreAddressed DEF OpOfPost, Envelope
  <2>4. /\ rows[OpOfPost(i)].digest = channel[i].envelope
        /\ rows[OpOfPost(j)].digest = channel[j].envelope
    BY DEF SafetyInv, PostsAreClaimed
  <2>5. rows[OpOfPost(i)].digest # None /\ rows[OpOfPost(j)].digest # None
    BY <2>2, <2>4, DistinctSentinel
  <2>6. rows[OpOfPost(i)].message = rows[OpOfPost(j)].message
    BY <2>3, <2>4, <2>5 DEF SafetyInv, RowsAreClaims
  <2>7. OpOfPost(i) = OpOfPost(j)
    BY <2>3, <2>5, <2>6 DEF SafetyInv, RowsAreClaims
  <2> QED
    BY <2>7 DEF SafetyInv, ClaimsArePostedOnce
<1> QED
  BY <1>1, TypeCorrect, SafetyHolds, PTL

\* A delivery receipt names a post of the envelope it is given for, which the
\* poster's registry addressed to the only endpoint it could be for.
THEOREM ReceiptsNameTheirPost == Spec => []ReceiptsAreForTheEnvelope
<1>1. SafetyInv => ReceiptsAreForTheEnvelope
  BY DEF SafetyInv, TimestampsArePosts, IsPostOf, AddressInv, ResolvedBy,
         ReceiptsAreForTheEnvelope
<1> QED
  BY <1>1, SafetyHolds, PTL
=============================================================================
