-------------------------- MODULE LaneAppendProofs --------------------------
(***************************************************************************)
(* Theorems about LaneAppend.  A commit lands once, on the head it was     *)
(* made for, and a head that was left is never the head again.  So what a  *)
(* call found in the lane before it made its commit is still what is there *)
(* when the commit lands, and a commit whose parent was left can not land. *)
(***************************************************************************)
EXTENDS LaneAppend, TLAPS

Created(c) == object[c] # NoCommit
PrevIn(c) == PrevOf[object[c].content]

\* p was the head of branch b at some time.
WasHead(p, b) == p = Genesis \/ InLane(p, b)

\* x continues the thread of branch b, as long as p is its head.
Fits(x, b, p) ==
    HeadOf(b) = p =>
        \A d \in Commit : InLane(d, b) => IdIn(d) # IdOf[x] /\ PrevIn(d) # PrevOf[x]

\* A commit that landed is on its own branch, at one place, and its message has
\* an id and a predecessor of its own there.
LaneInv ==
    /\ \A b \in Branch, d \in Commit : InLane(d, b) => Created(d) /\ object[d].branch = b
    /\ \A b \in Branch : \A i, j \in 1..Len(lane[b]) : lane[b][i] = lane[b][j] => i = j
    /\ \A b \in Branch, d, e \in Commit :
           InLane(d, b) /\ InLane(e, b) /\ d # e => IdIn(d) # IdIn(e) /\ PrevIn(d) # PrevIn(e)

ObjectInv ==
    \A c \in Commit : Created(c) =>
        /\ WasHead(object[c].parent, object[c].branch)
        /\ Declares(object[c].content, object[c].branch)

InflightInv ==
    \A c \in inflight :
        /\ Created(c) /\ c \notin Published
        /\ Fits(object[c].content, object[c].branch, object[c].parent)

\* What is true of a call in progress.
CallInv(k) ==
    /\ Declares(k.content, k.branch)
    /\ k.phase \in {"head", "history", "objects"} => k.candidate = NoCommit
    /\ k.phase # "head" => WasHead(k.observed, k.branch)
    /\ k.phase \in {"objects", "control", "update"} =>
           k.observed = k.expected /\ Fits(k.content, k.branch, k.expected)
    /\ k.phase \in {"control", "update", "reconcile"} =>
           /\ k.candidate \in Commit
           /\ object[k.candidate] =
                  [parent |-> k.expected, content |-> k.content, branch |-> k.branch]
    /\ k.phase \in {"control", "update"} \/ (k.phase = "reconcile" /\ k.reply = "REFUSED") =>
           k.candidate \notin Published \cup inflight
    /\ k.phase = "reconcile" =>
           k.reply # "NONE" /\ (k.reply = "MOVED" => k.candidate \in Published)
    /\ k.phase \in {"verify", "receipt"} => k.candidate \in Published

Owns(w, c) ==
    call[w] # Idle /\ call[w].phase \in {"control", "update", "reconcile"} /\ call[w].candidate = c

CallsInv ==
    /\ \A w \in Writer : call[w] # Idle => CallInv(call[w])
    /\ \A c \in Commit, w, u \in Writer : Owns(w, c) /\ Owns(u, c) => w = u

VerdictInv ==
    \A c \in Commit :
        /\ verdict[c] = "NONE" =>
              /\ Created(c) /\ c \notin Published
              /\ \A w \in Writer : ~Owns(w, c)
              /\ c \in inflight => HeadOf(object[c].branch) # object[c].parent
        /\ verdict[c] \in {"APPENDED", "PRESENT"} => c \in Published

\* Messages whose predecessor was found to be the tip while their id was new.
Cleared(x) ==
    \/ \E c \in Commit : Created(c) /\ object[c].content = x
    \/ \E w \in Writer : InPhase(w, "objects") /\ call[w].content = x
PublishedIds == {IdIn(c) : c \in Published}

\* t numbers the ids in the order in which they were first published, n of them.
Ranks(t, n) ==
    /\ \A m \in PublishedIds : t[m] < n
    /\ PublishedIds # {} => \E m \in PublishedIds : t[m] + 1 = n
    /\ \A x \in Content : Cleared(x) /\ PrevOf[x] # NoId =>
           /\ PrevOf[x] \in PublishedIds
           /\ IdOf[x] \in PublishedIds => t[PrevOf[x]] < t[IdOf[x]]
RankInv == \E t \in [Id -> Nat], n \in Nat : Ranks(t, n)

SafetyInv == LaneInv /\ ObjectInv /\ InflightInv /\ CallsInv /\ VerdictInv /\ RankInv

-----------------------------------------------------------------------------

\* A call in progress has all its fields.
LEMMA CallOf ==
    ASSUME TypeOK, NEW w \in Writer, call[w] # Idle
    PROVE  /\ call[w] \in Call
           /\ call[w].content \in Content /\ call[w].branch \in Branch
           /\ call[w].expected \in Parent /\ call[w].observed \in Parent
           /\ call[w].candidate \in Commit \cup {NoCommit}
BY DEF TypeOK, Call

\* What a step of one call does to the calls.
LEMMA CallUpdate ==
    ASSUME TypeOK, NEW w \in Writer, NEW k \in Call \cup {Idle},
           call' = [call EXCEPT ![w] = k]
    PROVE  /\ call' \in [Writer -> Call \cup {Idle}]
           /\ call'[w] = k
           /\ \A u \in Writer \ {w} : call'[u] = call[u]
BY DEF TypeOK

\* The head of a branch is its last message, or the commit it started from.
LEMMA HeadInLane ==
    ASSUME TypeOK, NEW b \in Branch
    PROVE  /\ HeadOf(b) \in Parent /\ WasHead(HeadOf(b), b)
           /\ HeadOf(b) # Genesis => HeadOf(b) \in Commit /\ InLane(HeadOf(b), b)
           /\ HeadOf(b) = Genesis => lane[b] = <<>>
<1>1. lane[b] \in Seq(Commit)
  BY DEF TypeOK
<1>2. CASE lane[b] = <<>>
  BY <1>2 DEF HeadOf, Parent, WasHead
<1>3. CASE lane[b] # <<>>
  <2>1. Len(lane[b]) \in 1..Len(lane[b]) /\ HeadOf(b) = lane[b][Len(lane[b])]
    BY <1>1, <1>3 DEF HeadOf
  <2>2. HeadOf(b) \in Commit
    BY <1>1, <2>1
  <2> QED
    BY <2>1, <2>2, DistinctSentinels DEF InLane, Parent, WasHead
<1> QED
  BY <1>2, <1>3

\* What is in a lane is a commit.
LEMMA LanesHoldCommits ==
    ASSUME TypeOK, NEW b \in Branch, NEW c, InLane(c, b)
    PROVE  c \in Commit
BY DEF TypeOK, InLane

\* Push either leaves the lane alone or appends the commit to it.
LEMMA PushType ==
    ASSUME TypeOK, NEW b \in Branch, NEW c \in Commit
    PROVE  /\ Push(b, c) \in Seq(Commit)
           /\ Push(b, c) # lane[b] <=> HeadOf(b) = object[c].parent
           /\ HeadOf(b) = object[c].parent => Push(b, c) = Append(lane[b], c)
<1>1. lane[b] \in Seq(Commit)
  BY DEF TypeOK
<1>2. Append(lane[b], c) \in Seq(Commit) /\ Append(lane[b], c) # lane[b]
  <2>1. Len(Append(lane[b], c)) = Len(lane[b]) + 1 /\ Len(lane[b]) \in Nat
    BY <1>1
  <2> QED
    BY <1>1, <2>1
<1> QED
  BY <1>1, <1>2 DEF Push

\* A call that has made its commit names it, and so does a request in flight.
LEMMA CandidatesExist ==
    ASSUME TypeOK, InflightInv, CallsInv
    PROVE  /\ \A c \in inflight : object[c] \in Object
           /\ \A w \in Writer :
                 /\ call[w] # Idle
                 /\ call[w].phase \in {"control", "update", "reconcile", "verify", "receipt"}
                 => call[w].candidate \in Commit
<1>1. \A c \in inflight : object[c] \in Object
  BY DEF TypeOK, InflightInv, Created
<1>2. ASSUME NEW w \in Writer, call[w] # Idle,
             call[w].phase \in {"control", "update", "reconcile", "verify", "receipt"}
      PROVE  call[w].candidate \in Commit
  BY <1>2 DEF CallsInv, CallInv, Published
<1> QED
  BY <1>1, <1>2

\* Every step keeps the types of the state.
LEMMA TypesHold ==
    TypeOK /\ InflightInv /\ CallsInv /\ [Next]_vars => TypeOK'
<1> SUFFICES ASSUME TypeOK, InflightInv, CallsInv, [Next]_vars PROVE TypeOK'
  OBVIOUS
<1> DEFINE CallsTyped == call' \in [Writer -> Call \cup {Idle}]
<1>call. ASSUME NEW w \in Writer, NEW k \in Call \cup {Idle}, call' = [call EXCEPT ![w] = k]
         PROVE  CallsTyped
  BY <1>call, CallUpdate
<1> USE DEF InPhase
<1>1. ASSUME NEW b \in Branch, MoveLane(b) PROVE TypeOK'
  BY <1>1 DEF MoveLane, TypeOK
<1>2. ASSUME NEW w \in Writer, NEW x \in Content, NEW e \in Parent, Begin(w, x, e)
      PROVE  TypeOK'
  <2> DEFINE k == [phase |-> "head", content |-> x, expected |-> e,
                   branch |-> topology, observed |-> Genesis,
                   candidate |-> NoCommit, reply |-> "NONE"]
  <2>1. k \in Call
    BY DEF Call, Phase, Parent, TypeOK
  <2>2. call' = [call EXCEPT ![w] = k]
    BY <1>2 DEF Begin
  <2> HIDE DEF k
  <2> QED
    BY <1>2, <2>1, <2>2, <1>call DEF Begin, TypeOK
<1>3. ASSUME NEW w \in Writer, ReadHead(w) PROVE TypeOK'
  <2> DEFINE k == [call[w] EXCEPT !.phase = "history", !.observed = HeadOf(call[w].branch)]
  <2>1. k \in Call
    BY <1>3, CallOf, HeadInLane DEF Call, Phase, ReadHead
  <2>2. call' = [call EXCEPT ![w] = k]
    BY <1>3 DEF ReadHead
  <2> HIDE DEF k
  <2> QED
    BY <1>3, <2>1, <2>2, <1>call DEF ReadHead, TypeOK
<1>enter. ASSUME NEW w \in Writer, call[w] # Idle, NEW phase \in Phase, Enter(w, phase)
          PROVE  CallsTyped
  <2> DEFINE k == [call[w] EXCEPT !.phase = phase]
  <2>1. k \in Call
    BY <1>enter, CallOf DEF Call
  <2>2. call' = [call EXCEPT ![w] = k]
    BY <1>enter DEF Enter
  <2> HIDE DEF k
  <2> QED
    BY <2>1, <2>2, <1>call
<1>4. ASSUME NEW w \in Writer, \/ ReadHistory(w) \/ RereadControl(w)
                               \/ ConfirmRef(w) \/ VerifyHead(w)
      PROVE  TypeOK'
  <2>1. \E phase \in Phase : Enter(w, phase)
    BY <1>4 DEF ReadHistory, RereadControl, ConfirmRef, VerifyHead, Phase
  <2>2. call[w] # Idle /\ UNCHANGED <<topology, moves, lane, object, inflight, verdict>>
    BY <1>4 DEF ReadHistory, RereadControl, ConfirmRef, VerifyHead
  <2> QED
    BY <2>1, <2>2, <1>enter DEF TypeOK
<1>5. ASSUME NEW w \in Writer, ReconstructExisting(w) PROVE TypeOK'
  <2>1. PICK c \in Commit :
           call' = [call EXCEPT ![w].phase = "receipt", ![w].candidate = c]
    BY <1>5 DEF ReconstructExisting
  <2> DEFINE k == [call[w] EXCEPT !.phase = "receipt", !.candidate = c]
  <2>2. k \in Call
    BY <1>5, CallOf DEF Call, Phase, ReconstructExisting
  <2>3. call' = [call EXCEPT ![w] = k]
    BY <2>1
  <2> HIDE DEF k
  <2> QED
    BY <1>5, <2>2, <2>3, <1>call DEF ReconstructExisting, TypeOK
<1>6. ASSUME NEW w \in Writer, NEW c \in Commit, CreateCandidate(w, c) PROVE TypeOK'
  <2> DEFINE k == [call[w] EXCEPT !.phase = "control", !.candidate = c]
             o == [parent |-> call[w].expected, content |-> call[w].content,
                   branch |-> call[w].branch]
  <2>1. k \in Call /\ o \in Object
    BY <1>6, CallOf DEF Call, Phase, Object, CreateCandidate
  <2>2. call' = [call EXCEPT ![w] = k] /\ object' = [object EXCEPT ![c] = o]
    BY <1>6 DEF CreateCandidate
  <2> HIDE DEF k, o
  <2>3. CallsTyped
    BY <2>1, <2>2, <1>call
  <2>4. object' \in [Commit -> Object \cup {NoCommit}]
    BY <2>1, <2>2 DEF TypeOK
  <2> QED
    BY <1>6, <2>3, <2>4 DEF CreateCandidate, TypeOK
<1>7. ASSUME NEW w \in Writer, Refuse(w) PROVE TypeOK'
  <2>1. verdict' \in [Commit -> Verdict]
    BY <1>7, CallOf DEF Refuse, TypeOK, Verdict
  <2> QED
    BY <1>7, <2>1, <1>call DEF Refuse, TypeOK
<1>replied. ASSUME NEW w \in Writer, call[w] # Idle, NEW r \in {"MOVED", "REFUSED", "ERROR"},
                   call' = [call EXCEPT ![w].phase = "reconcile", ![w].reply = r]
            PROVE  CallsTyped
  <2> DEFINE k == [call[w] EXCEPT !.phase = "reconcile", !.reply = r]
  <2>1. k \in Call
    BY <1>replied, CallOf DEF Call, Phase
  <2>2. call' = [call EXCEPT ![w] = k]
    BY <1>replied
  <2> HIDE DEF k
  <2> QED
    BY <2>1, <2>2, <1>call
<1>8. ASSUME NEW w \in Writer, UpdateRef(w) PROVE TypeOK'
  <2>1. call[w] # Idle /\ call[w].candidate \in Commit /\ call[w].branch \in Branch
    BY <1>8, CandidatesExist, CallOf DEF UpdateRef
  <2>2. /\ lane' = [lane EXCEPT ![call[w].branch] = Push(call[w].branch, call[w].candidate)]
        /\ \E r \in {"MOVED", "REFUSED", "ERROR"} :
              call' = [call EXCEPT ![w].phase = "reconcile", ![w].reply = r]
    BY <1>8 DEF UpdateRef
  <2>3. lane' \in [Branch -> Seq(Commit)]
    BY <2>1, <2>2, PushType DEF TypeOK
  <2>4. CallsTyped
    BY <2>1, <2>2, <1>replied
  <2> QED
    BY <1>8, <2>3, <2>4 DEF UpdateRef, TypeOK
<1>9. ASSUME NEW w \in Writer, UpdateRefused(w) \/ UpdateRaises(w) PROVE TypeOK'
  <2>1. call[w] # Idle /\ call[w].candidate \in Commit
    BY <1>9, CandidatesExist DEF UpdateRefused, UpdateRaises
  <2>2. \E r \in {"MOVED", "REFUSED", "ERROR"} :
            call' = [call EXCEPT ![w].phase = "reconcile", ![w].reply = r]
    BY <1>9 DEF UpdateRefused, UpdateRaises
  <2>3. inflight' \subseteq Commit
    BY <1>9, <2>1 DEF UpdateRefused, UpdateRaises, TypeOK
  <2> QED
    BY <1>9, <2>1, <2>2, <2>3, <1>replied DEF UpdateRefused, UpdateRaises, TypeOK
<1>10. ASSUME NEW c \in Commit, LandLate(c) PROVE TypeOK'
  <2>1. object[c].branch \in Branch
    BY <1>10, CandidatesExist DEF LandLate, Object
  <2>2. lane' \in [Branch -> Seq(Commit)]
    BY <1>10, <2>1, PushType DEF LandLate, TypeOK
  <2> QED
    BY <1>10, <2>2 DEF LandLate, TypeOK
<1>11. ASSUME NEW w \in Writer, \/ FindBuried(w) \/ FindAbsent(w) \/ LeaveUnknown(w)
                                \/ Receipt(w) \/ Incomplete(w)
       PROVE  TypeOK'
  <2>1. \E v \in Verdict : Conclude(w, v)
    BY <1>11 DEF FindBuried, FindAbsent, LeaveUnknown, Receipt, Incomplete, Verdict
  <2>2. CallsTyped
    BY <2>1, <1>call DEF Conclude
  <2> QED
    BY <2>1, <2>2 DEF Conclude, TypeOK
<1>12. ASSUME NEW w \in Writer, Crash(w) PROVE TypeOK'
  <2>1. inflight' \subseteq Commit
    BY <1>12, CandidatesExist DEF Crash, TypeOK
  <2> QED
    BY <1>12, <2>1, <1>call DEF Crash, TypeOK
<1>13. CASE UNCHANGED vars
  BY <1>13 DEF vars, TypeOK
<1> QED
  BY <1>1, <1>2, <1>3, <1>4, <1>5, <1>6, <1>7, <1>8, <1>9, <1>10, <1>11, <1>12, <1>13
     DEF Next

-----------------------------------------------------------------------------
\* The kinds of step, as far as the safety of the lane goes.

\* No commit is made and no branch moves.
Quiet == lane' = lane /\ object' = object
Becomes(w, k) == call' = [call EXCEPT ![w] = k]

Rests == Quiet /\ UNCHANGED <<inflight, call, verdict>>

\* A call goes on, with the same candidate if it has one.
Advances(w, k) ==
    /\ Quiet /\ UNCHANGED <<inflight, verdict>>
    /\ call[w] # Idle /\ Becomes(w, k) /\ k \in Call /\ CallInv(k)
    /\ k.phase \in {"control", "update", "reconcile"} => Owns(w, k.candidate)
    /\ k.phase = "objects" =>
          /\ Same(k.content) = {}
          /\ Tips = IF PrevOf[k.content] = NoId THEN {} ELSE {PrevOf[k.content]}

Starts(w, k) ==
    /\ Quiet /\ UNCHANGED <<inflight, verdict>>
    /\ Becomes(w, k) /\ k \in Call /\ CallInv(k) /\ k.phase = "head"

\* A call ends without telling anything of a commit.
GivesUp(w) == Quiet /\ UNCHANGED <<inflight, verdict>> /\ Becomes(w, Idle)

\* A call ends and tells what became of its commit.
Tells(w, v) ==
    LET c == call[w].candidate IN
    /\ Quiet /\ UNCHANGED inflight
    /\ call[w] # Idle /\ Becomes(w, Idle)
    /\ c \in Commit /\ verdict' = [verdict EXCEPT ![c] = v]
    /\ v = "NONE" =>
          /\ Owns(w, c) /\ Created(c) /\ c \notin Published
          /\ c \in inflight => HeadOf(object[c].branch) # object[c].parent
    /\ v \in {"APPENDED", "PRESENT"} => c \in Published

\* The request to move the branch is sent and its answer is lost.
Loses(w, k) ==
    /\ Quiet /\ UNCHANGED verdict
    /\ InPhase(w, "update") /\ Becomes(w, k)
    /\ inflight' = inflight \cup {call[w].candidate}
    /\ k \in {Idle, [call[w] EXCEPT !.phase = "reconcile", !.reply = "ERROR"]}

\* The branch moves to a commit: its caller is told, or nobody is.
Lands(c) ==
    LET b == object[c].branch IN
    /\ Created(c) /\ c \notin Published
    /\ HeadOf(b) = object[c].parent /\ Fits(object[c].content, b, object[c].parent)
    /\ lane' = [lane EXCEPT ![b] = Append(@, c)]
    /\ UNCHANGED <<object, verdict>>
    /\ inflight' = inflight \ {c}
    /\ \/ c \in inflight /\ UNCHANGED call
       \/ \E w \in Writer :
             /\ InPhase(w, "update") /\ call[w].candidate = c
             /\ Becomes(w, [call[w] EXCEPT !.phase = "reconcile", !.reply = "MOVED"])

\* A request that was given up arrives and is refused.
Fades(c) == Quiet /\ UNCHANGED <<call, verdict>> /\ c \in inflight /\ inflight' = inflight \ {c}

Kinds ==
    \/ Rests
    \/ \E w \in Writer :
          \/ \E k \in Call : Advances(w, k) \/ Starts(w, k)
          \/ GivesUp(w)
          \/ \E v \in Verdict : Tells(w, v)
          \/ \E k \in Call \cup {Idle} : Loses(w, k)
          \/ \E c \in Commit : CreateCandidate(w, c)
    \/ \E c \in Commit : Lands(c) \/ Fades(c)

\* What a call in each phase knows of its candidate.
LEMMA CandidateOf ==
    ASSUME TypeOK, CallsInv, NEW w \in Writer, call[w] # Idle,
           call[w].phase \in {"control", "update", "reconcile"}
    PROVE  LET c == call[w].candidate IN
           /\ c \in Commit /\ Created(c)
           /\ object[c].parent = call[w].expected
           /\ object[c].content = call[w].content
           /\ object[c].branch = call[w].branch
<1>1. /\ call[w].candidate \in Commit
      /\ object[call[w].candidate] = [parent |-> call[w].expected, content |-> call[w].content,
                                      branch |-> call[w].branch]
  BY DEF CallsInv, CallInv
<1>2. object[call[w].candidate] \in Object
  BY <1>1, CallOf DEF Object
<1> QED
  BY <1>1, <1>2, DistinctSentinels DEF Created

\* What was published is a commit that exists, with an id.
LEMMA PublishedAreCreated ==
    ASSUME TypeOK, LaneInv, NEW c \in Published
    PROVE  /\ c \in Commit /\ Created(c) /\ object[c] \in Object
           /\ object[c].content \in Content /\ IdIn(c) \in Id /\ PrevIn(c) \in Id \cup {NoId}
           /\ IdIn(c) \in PublishedIds
BY MessagesParse DEF TypeOK, LaneInv, Published, Created, Object, IdIn, PrevIn, PublishedIds

\* Some message is the last of the thread, unless there is none: a message
\* without a predecessor is cleared for an empty thread only.
LEMMA ThreadsHaveATip ==
    ASSUME TypeOK, LaneInv, RankInv, Tips = {}
    PROVE  Published = {}
<1> SUFFICES ASSUME Published # {} PROVE FALSE
  OBVIOUS
<1>1. PICK t \in [Id -> Nat], n \in Nat : Ranks(t, n)
  BY DEF RankInv
<1>2. PICK m \in PublishedIds : t[m] + 1 = n
  BY <1>1, PublishedAreCreated DEF Ranks
<1>3. PICK d \in Published : m = IdIn(d)
  BY DEF PublishedIds
<1>4. PICK e \in Published : PrevIn(e) = m
  BY <1>3 DEF Tips, PrevIn
<1>5. m \in Id /\ IdIn(e) \in Id
  BY <1>3, PublishedAreCreated
<1>6. t[m] < t[IdIn(e)]
  <2>1. Cleared(object[e].content)
    BY PublishedAreCreated DEF Cleared
  <2> QED
    BY <1>1, <1>4, <1>5, <2>1, PublishedAreCreated, DistinctSentinels DEF Ranks, PrevIn, IdIn
<1>7. t[IdIn(e)] < n
  BY <1>1, PublishedAreCreated DEF Ranks
<1> QED
  BY <1>2, <1>5, <1>6, <1>7

\* Every step is of one of these kinds.
LEMMA EveryStepIsOneOfThese ==
    TypeOK /\ SafetyInv /\ [Next]_vars => Kinds
<1> SUFFICES ASSUME TypeOK, SafetyInv, [Next]_vars PROVE Kinds
  OBVIOUS
<1> USE DEF InPhase, SafetyInv
<1>1. ASSUME NEW b \in Branch, MoveLane(b) PROVE Kinds
  BY <1>1 DEF MoveLane, Kinds, Rests, Quiet
<1>2. ASSUME NEW w \in Writer, NEW x \in Content, NEW e \in Parent, Begin(w, x, e)
      PROVE  Kinds
  <2> DEFINE k == [phase |-> "head", content |-> x, expected |-> e,
                   branch |-> topology, observed |-> Genesis,
                   candidate |-> NoCommit, reply |-> "NONE"]
  <2>1. k \in Call
    BY DEF Call, Phase, Parent, TypeOK
  <2>2. CallInv(k)
    BY <1>2 DEF CallInv, Begin, Declares
  <2>3. Starts(w, k)
    BY <1>2, <2>1, <2>2 DEF Starts, Begin, Quiet, Becomes
  <2> QED
    BY <2>1, <2>3 DEF Kinds
<1>3. ASSUME NEW w \in Writer, NEW k, Advances(w, k) PROVE Kinds
  <2>1. k \in Call
    BY <1>3 DEF Advances
  <2> QED
    BY <1>3, <2>1 DEF Kinds
<1>4. ASSUME NEW w \in Writer, ReadHead(w) PROVE Kinds
  <2> DEFINE k == [call[w] EXCEPT !.phase = "history", !.observed = HeadOf(call[w].branch)]
  <2>1. call[w] \in Call /\ CallInv(call[w]) /\ call[w] # Idle /\ call[w].phase = "head"
    BY <1>4, CallOf DEF ReadHead, CallsInv
  <2>2. HeadOf(call[w].branch) \in Parent /\ WasHead(HeadOf(call[w].branch), call[w].branch)
    BY <2>1, CallOf, HeadInLane
  <2>3. /\ k \in Call /\ k.phase = "history" /\ k.content = call[w].content
        /\ k.branch = call[w].branch /\ k.observed = HeadOf(call[w].branch)
        /\ k.candidate = call[w].candidate
    BY <2>1, <2>2 DEF Call, Phase
  <2>4. Becomes(w, k)
    BY <1>4 DEF ReadHead, Becomes
  <2> HIDE DEF k
  <2>5. CallInv(k)
    BY <2>1, <2>2, <2>3 DEF CallInv
  <2>6. Advances(w, k)
    BY <1>4, <2>1, <2>3, <2>4, <2>5 DEF ReadHead, Advances, Quiet
  <2> QED
    BY <2>6, <1>3
\* A call that only enters another phase.
<1>enter. ASSUME NEW w \in Writer, NEW phase \in Phase, call[w] # Idle, Enter(w, phase)
          PROVE  \E k \in Call :
                    /\ Becomes(w, k) /\ k.phase = phase /\ k.content = call[w].content
                    /\ k.branch = call[w].branch /\ k.expected = call[w].expected
                    /\ k.observed = call[w].observed /\ k.candidate = call[w].candidate
                    /\ k.reply = call[w].reply
  <2> DEFINE k == [call[w] EXCEPT !.phase = phase]
  <2>1. call[w] \in Call
    BY <1>enter, CallOf
  <2>2. /\ k \in Call /\ k.phase = phase /\ k.content = call[w].content
        /\ k.branch = call[w].branch /\ k.expected = call[w].expected
        /\ k.observed = call[w].observed /\ k.candidate = call[w].candidate
        /\ k.reply = call[w].reply
    BY <2>1 DEF Call
  <2>3. Becomes(w, k)
    BY <1>enter DEF Enter, Becomes
  <2> HIDE DEF k
  <2> QED
    BY <2>2, <2>3
<1>5. ASSUME NEW w \in Writer, ReadHistory(w) PROVE Kinds
  <2>1. call[w] # Idle /\ call[w].phase = "history" /\ Enter(w, "objects")
    BY <1>5 DEF ReadHistory
  <2>2. PICK k \in Call :
            /\ Becomes(w, k) /\ k.phase = "objects" /\ k.content = call[w].content
            /\ k.branch = call[w].branch /\ k.expected = call[w].expected
            /\ k.observed = call[w].observed /\ k.candidate = call[w].candidate
    BY <2>1, <1>enter DEF Phase
  <2>3. CallInv(call[w]) /\ k.observed = k.expected
    BY <1>5, <2>1, <2>2 DEF ReadHistory, Follows, CallsInv
  <2>4. Same(k.content) = {} /\ Tips = IF PrevOf[k.content] = NoId THEN {} ELSE {PrevOf[k.content]}
    BY <1>5, <2>2 DEF ReadHistory, Follows
  <2>5. Fits(k.content, k.branch, k.expected)
    <3> SUFFICES ASSUME NEW d \in Commit, InLane(d, k.branch)
                 PROVE  IdIn(d) # IdOf[k.content] /\ PrevIn(d) # PrevOf[k.content]
      BY DEF Fits
    <3>1. d \in Published
      BY <2>2 DEF Published, Call
    <3>2. IdIn(d) # IdOf[k.content]
      BY <2>4, <3>1 DEF Same
    <3>3. PrevIn(d) # PrevOf[k.content]
      <4>1. CASE PrevOf[k.content] = NoId
        BY <2>4, <3>1, <4>1, ThreadsHaveATip
      <4>2. CASE PrevOf[k.content] # NoId
        BY <2>4, <3>1, <4>2 DEF Tips, PrevIn
      <4> QED
        BY <4>1, <4>2
    <3> QED
      BY <3>2, <3>3
  <2>6. CallInv(k)
    BY <2>1, <2>2, <2>3, <2>5 DEF CallInv
  <2>7. Advances(w, k)
    BY <1>5, <2>1, <2>2, <2>4, <2>6 DEF ReadHistory, Advances, Quiet
  <2> QED
    BY <2>7, <1>3
<1>6. ASSUME NEW w \in Writer, ReconstructExisting(w) PROVE Kinds
  <2>1. call[w] \in Call /\ CallInv(call[w]) /\ call[w] # Idle /\ call[w].phase = "history"
    BY <1>6, CallOf DEF ReconstructExisting, CallsInv
  <2>2. PICK c \in Commit :
            /\ Same(call[w].content) = {c}
            /\ call' = [call EXCEPT ![w].phase = "receipt", ![w].candidate = c]
    BY <1>6 DEF ReconstructExisting
  <2> DEFINE k == [call[w] EXCEPT !.phase = "receipt", !.candidate = c]
  <2>3. /\ k \in Call /\ k.phase = "receipt" /\ k.content = call[w].content
        /\ k.branch = call[w].branch /\ k.observed = call[w].observed /\ k.candidate = c
    BY <2>1 DEF Call, Phase
  <2>4. Becomes(w, k)
    BY <2>2 DEF Becomes
  <2>5. c \in Published
    BY <2>2 DEF Same
  <2> HIDE DEF k
  <2>6. CallInv(k)
    BY <2>1, <2>3, <2>5 DEF CallInv
  <2>7. Advances(w, k)
    BY <1>6, <2>1, <2>3, <2>4, <2>6 DEF ReconstructExisting, Advances, Quiet
  <2> QED
    BY <2>7, <1>3
<1>7. ASSUME NEW w \in Writer, NEW c \in Commit, CreateCandidate(w, c) PROVE Kinds
  BY <1>7 DEF Kinds
<1>8. ASSUME NEW w \in Writer, RereadControl(w) PROVE Kinds
  <2>1. call[w] # Idle /\ call[w].phase = "control" /\ Enter(w, "update") /\ CallInv(call[w])
    BY <1>8 DEF RereadControl, CallsInv
  <2>2. PICK k \in Call :
            /\ Becomes(w, k) /\ k.phase = "update" /\ k.content = call[w].content
            /\ k.branch = call[w].branch /\ k.expected = call[w].expected
            /\ k.observed = call[w].observed /\ k.candidate = call[w].candidate
    BY <2>1, <1>enter DEF Phase
  <2>3. CallInv(k)
    BY <2>1, <2>2 DEF CallInv
  <2>4. Advances(w, k)
    BY <1>8, <2>1, <2>2, <2>3 DEF RereadControl, Advances, Quiet, Owns
  <2> QED
    BY <2>4, <1>3
<1>9. ASSUME NEW w \in Writer, Refuse(w) PROVE Kinds
  <2>1. CASE call[w].candidate = NoCommit
    BY <1>9, <2>1 DEF Refuse, Kinds, GivesUp, Quiet, Becomes
  <2>2. CASE call[w].candidate # NoCommit
    <3>1. call[w] # Idle /\ call[w].phase = "control"
      BY <1>9, <2>2 DEF Refuse, CallsInv, CallInv
    <3>2. call[w].candidate \notin Published \cup inflight
      BY <3>1 DEF CallsInv, CallInv
    <3>3. Tells(w, "NONE")
      BY <1>9, <2>2, <3>1, <3>2, CandidateOf DEF Refuse, Tells, Owns, Quiet, Becomes
    <3> QED
      BY <3>3 DEF Kinds, Verdict
  <2> QED
    BY <2>1, <2>2
\* The candidate of a call that is about to move the branch has not landed.
<1>free. ASSUME NEW w \in Writer, call[w] # Idle, call[w].phase = "update"
         PROVE  /\ call[w].candidate \notin Published \cup inflight
                /\ Fits(call[w].content, call[w].branch, call[w].expected)
  BY <1>free DEF CallsInv, CallInv
\* An update that is answered with a refusal.
<1>refused. ASSUME NEW w \in Writer, call[w] # Idle, call[w].phase = "update",
                   Quiet, UNCHANGED <<inflight, verdict>>,
                   call' = [call EXCEPT ![w].phase = "reconcile", ![w].reply = "REFUSED"]
            PROVE  Kinds
  <2> DEFINE k == [call[w] EXCEPT !.phase = "reconcile", !.reply = "REFUSED"]
  <2>1. call[w] \in Call /\ CallInv(call[w])
    BY <1>refused, CallOf DEF CallsInv
  <2>2. /\ k \in Call /\ k.phase = "reconcile" /\ k.reply = "REFUSED"
        /\ k.content = call[w].content /\ k.branch = call[w].branch
        /\ k.expected = call[w].expected /\ k.observed = call[w].observed
        /\ k.candidate = call[w].candidate
    BY <2>1 DEF Call, Phase
  <2>3. Becomes(w, k)
    BY <1>refused DEF Becomes
  <2> HIDE DEF k
  <2>4. CallInv(k)
    BY <1>refused, <2>1, <2>2, <1>free DEF CallInv
  <2>5. Advances(w, k)
    BY <1>refused, <2>2, <2>3, <2>4 DEF Advances, Owns
  <2> QED
    BY <2>5, <1>3
<1>10. ASSUME NEW w \in Writer, UpdateRef(w) PROVE Kinds
  <2> DEFINE c == call[w].candidate
             b == call[w].branch
             k == [call[w] EXCEPT !.phase = "reconcile", !.reply = "MOVED"]
  <2>1. call[w] # Idle /\ call[w].phase = "update" /\ b \in Branch
    BY <1>10, CallOf DEF UpdateRef
  <2>2. /\ c \in Commit /\ Created(c) /\ object[c].parent = call[w].expected
        /\ object[c].content = call[w].content /\ object[c].branch = b
        /\ c \notin Published \cup inflight
        /\ Fits(object[c].content, b, object[c].parent)
    BY <2>1, CandidateOf, <1>free
  <2>3. UNCHANGED <<topology, moves, object, inflight, verdict>>
    BY <1>10 DEF UpdateRef
  <2>4. CASE HeadOf(b) = object[c].parent
    <3>1. Push(b, c) = Append(lane[b], c) /\ Push(b, c) # lane[b]
      BY <2>1, <2>2, <2>4, PushType
    <3>2. lane' = [lane EXCEPT ![b] = Append(@, c)] /\ Becomes(w, k)
      BY <1>10, <3>1 DEF UpdateRef, Becomes
    <3>3. inflight' = inflight \ {c}
      BY <2>2, <2>3
    <3>4. \E u \in Writer :
             /\ InPhase(u, "update") /\ call[u].candidate = c
             /\ Becomes(u, [call[u] EXCEPT !.phase = "reconcile", !.reply = "MOVED"])
      BY <2>1, <3>2
    <3>5. Lands(c)
      <4> HIDE DEF c, b, k
      <4> QED
        BY <2>2, <2>3, <2>4, <3>2, <3>3, <3>4 DEF Lands
    <3> QED
      BY <2>2, <3>5 DEF Kinds
  <2>5. CASE HeadOf(b) # object[c].parent
    <3>1. Push(b, c) = lane[b]
      BY <2>1, <2>2, <2>5, PushType
    <3>2. lane' = lane /\ call' = [call EXCEPT ![w].phase = "reconcile", ![w].reply = "REFUSED"]
      BY <1>10, <2>1, <3>1 DEF UpdateRef, TypeOK
    <3> QED
      BY <2>1, <2>3, <3>2, <1>refused DEF Quiet
  <2> QED
    BY <2>4, <2>5
<1>11. ASSUME NEW w \in Writer, UpdateRefused(w) PROVE Kinds
  BY <1>11, <1>refused DEF UpdateRefused, Quiet
<1>12. ASSUME NEW w \in Writer, UpdateRaises(w) PROVE Kinds
  <2> DEFINE k == [call[w] EXCEPT !.phase = "reconcile", !.reply = "ERROR"]
  <2>1. call[w] \in Call /\ call[w] # Idle /\ call[w].phase = "update"
    BY <1>12, CallOf DEF UpdateRaises
  <2>2. k \in Call
    BY <2>1 DEF Call, Phase
  <2>3. Loses(w, k)
    BY <1>12 DEF UpdateRaises, Loses, Quiet, Becomes
  <2> QED
    BY <2>2, <2>3 DEF Kinds
<1>13. ASSUME NEW c \in Commit, LandLate(c) PROVE Kinds
  <2> DEFINE b == object[c].branch
  <2>1. /\ c \in inflight /\ Created(c) /\ c \notin Published /\ b \in Branch
        /\ Fits(object[c].content, b, object[c].parent)
    BY <1>13, CandidatesExist DEF LandLate, InflightInv, Object
  <2>2. /\ UNCHANGED <<object, call, verdict>> /\ inflight' = inflight \ {c}
        /\ lane' = [lane EXCEPT ![b] = Push(b, c)]
    BY <1>13 DEF LandLate
  <2>3. CASE HeadOf(b) = object[c].parent
    <3>1. lane' = [lane EXCEPT ![b] = Append(@, c)]
      BY <2>1, <2>2, <2>3, PushType
    <3>2. Lands(c)
      BY <2>1, <2>2, <2>3, <3>1 DEF Lands
    <3> QED
      BY <3>2 DEF Kinds
  <2>4. CASE HeadOf(b) # object[c].parent
    <3>1. lane' = lane
      BY <2>1, <2>2, <2>4, PushType DEF TypeOK
    <3> QED
      BY <2>1, <2>2, <3>1 DEF Kinds, Fades, Quiet
  <2> QED
    BY <2>3, <2>4
<1>14. ASSUME NEW w \in Writer, ConfirmRef(w) PROVE Kinds
  <2>1. call[w] # Idle /\ call[w].phase = "reconcile" /\ Enter(w, "verify") /\ CallInv(call[w])
    BY <1>14 DEF ConfirmRef, CallsInv
  <2>2. PICK k \in Call :
            /\ Becomes(w, k) /\ k.phase = "verify" /\ k.content = call[w].content
            /\ k.branch = call[w].branch /\ k.expected = call[w].expected
            /\ k.observed = call[w].observed /\ k.candidate = call[w].candidate
    BY <2>1, <1>enter DEF Phase
  <2>3. call[w].candidate \in Published
    <3>1. CASE call[w].reply = "MOVED"
      BY <2>1, <3>1 DEF CallInv
    <3>2. CASE HeadOf(call[w].branch) = call[w].candidate
      BY <2>1, <3>2, CandidateOf, CallOf, HeadInLane, DistinctSentinels DEF Published
    <3> QED
      BY <1>14, <3>1, <3>2 DEF ConfirmRef
  <2>4. CallInv(k)
    BY <2>1, <2>2, <2>3 DEF CallInv
  <2>5. Advances(w, k)
    BY <1>14, <2>1, <2>2, <2>4 DEF ConfirmRef, Advances, Quiet
  <2> QED
    BY <2>5, <1>3
<1>15. ASSUME NEW w \in Writer, VerifyHead(w) PROVE Kinds
  <2>1. call[w] # Idle /\ call[w].phase = "verify" /\ Enter(w, "receipt") /\ CallInv(call[w])
    BY <1>15 DEF VerifyHead, CallsInv
  <2>2. PICK k \in Call :
            /\ Becomes(w, k) /\ k.phase = "receipt" /\ k.content = call[w].content
            /\ k.branch = call[w].branch /\ k.expected = call[w].expected
            /\ k.observed = call[w].observed /\ k.candidate = call[w].candidate
    BY <2>1, <1>enter DEF Phase
  <2>3. CallInv(k)
    BY <2>1, <2>2 DEF CallInv
  <2>4. Advances(w, k)
    BY <1>15, <2>1, <2>2, <2>3 DEF VerifyHead, Advances, Quiet
  <2> QED
    BY <2>4, <1>3
<1>16. ASSUME NEW w \in Writer, FindBuried(w) PROVE Kinds
  <2>1. call[w].candidate \in Published /\ call[w].candidate \in Commit /\ call[w] # Idle
    BY <1>16, CandidateOf, CallOf DEF FindBuried, Published
  <2>2. Tells(w, "PRESENT")
    BY <1>16, <2>1 DEF FindBuried, Conclude, Tells, Quiet, Becomes
  <2> QED
    BY <2>2 DEF Kinds, Verdict
<1>17. ASSUME NEW w \in Writer, FindAbsent(w) PROVE Kinds
  <2> DEFINE c == call[w].candidate
  <2>1. call[w] # Idle /\ call[w].phase = "reconcile" /\ Conclude(w, "NONE") /\ ProvenAbsent(w)
    BY <1>17 DEF FindAbsent
  <2>2. /\ c \in Commit /\ Created(c) /\ object[c].parent = call[w].expected
        /\ object[c].branch = call[w].branch
    BY <2>1, CandidateOf
  <2>3. c \notin Published /\ (c \in inflight => HeadOf(object[c].branch) # object[c].parent)
    <3>1. CASE call[w].reply = "ERROR"
      <4>1. ~InLane(c, object[c].branch) /\ HeadOf(object[c].branch) # object[c].parent
        BY <2>1, <2>2, <3>1 DEF ProvenAbsent
      <4> QED
        BY <2>2, <4>1 DEF Published, LaneInv
    <3>2. CASE call[w].reply # "ERROR"
      BY <2>1, <3>2 DEF ProvenAbsent, CallsInv, CallInv
    <3> QED
      BY <3>1, <3>2
  <2>4. Tells(w, "NONE")
    BY <2>1, <2>2, <2>3 DEF Conclude, Tells, Owns, Quiet, Becomes
  <2> QED
    BY <2>4 DEF Kinds, Verdict
<1>18. ASSUME NEW w \in Writer, LeaveUnknown(w) PROVE Kinds
  <2>1. Tells(w, "UNKNOWN")
    BY <1>18, CandidateOf DEF LeaveUnknown, Conclude, Tells, Quiet, Becomes
  <2> QED
    BY <2>1 DEF Kinds, Verdict
<1>19. ASSUME NEW w \in Writer, Receipt(w) \/ Incomplete(w) PROVE Kinds
  <2>1. call[w] # Idle /\ call[w].phase \in {"verify", "receipt"}
    BY <1>19 DEF Receipt, Incomplete
  <2>2. call[w].candidate \in Published /\ call[w].candidate \in Commit
    BY <2>1 DEF CallsInv, CallInv, Published
  <2>3. PICK v \in {"APPENDED", "PRESENT"} : Conclude(w, v)
    BY <1>19 DEF Receipt, Incomplete
  <2>4. Tells(w, v)
    BY <2>1, <2>2, <2>3 DEF Conclude, Tells, Quiet, Becomes
  <2> QED
    BY <2>4 DEF Kinds, Verdict
<1>20. ASSUME NEW w \in Writer, Crash(w) PROVE Kinds
  <2>1. CASE call[w].phase = "update"
    BY <1>20, <2>1 DEF Crash, Kinds, Loses, Quiet, Becomes
  <2>2. CASE call[w].phase # "update"
    BY <1>20, <2>2 DEF Crash, Kinds, GivesUp, Quiet, Becomes
  <2> QED
    BY <2>1, <2>2
<1>21. CASE UNCHANGED vars
  BY <1>21 DEF vars, Kinds, Rests, Quiet
<1> QED
  BY <1>1, <1>2, <1>4, <1>5, <1>6, <1>7, <1>8, <1>9, <1>10, <1>11, <1>12, <1>13, <1>14,
     <1>15, <1>16, <1>17, <1>18, <1>19, <1>20, <1>21
     DEF Next

-----------------------------------------------------------------------------
\* What landing, and making, a commit does to what is known of the others.

\* A commit that lands becomes the head of its branch, and nothing else changes.
LEMMA WhatLandingDoes ==
    ASSUME TypeOK, NEW c \in Commit, Lands(c)
    PROVE  /\ object[c] \in Object /\ object[c].branch \in Branch
           /\ \A a \in Branch : a = object[c].branch => HeadOf(a)' = c
           /\ \A a \in Branch : a # object[c].branch => HeadOf(a)' = HeadOf(a)
           /\ \A a \in Branch : \A d :
                 InLane(d, a)' <=> InLane(d, a) \/ (d = c /\ a = object[c].branch)
           /\ Published' = Published \cup {c}
<1>1. object[c] \in Object /\ object[c].branch \in Branch
  BY DEF Lands, Created, TypeOK, Object
<1>0. PICK b \in Branch : b = object[c].branch
  BY <1>1
<1>2. lane[b] \in Seq(Commit) /\ lane' = [lane EXCEPT ![b] = Append(@, c)]
  BY <1>0 DEF Lands, TypeOK
<1>3. lane'[b] = Append(lane[b], c) /\ \A a \in Branch : a # b => lane'[a] = lane[a]
  BY <1>2 DEF TypeOK
<1>4. /\ Len(lane'[b]) = Len(lane[b]) + 1 /\ Len(lane[b]) \in Nat
      /\ lane'[b][Len(lane[b]) + 1] = c
      /\ \A i \in 1..Len(lane[b]) : lane'[b][i] = lane[b][i]
  BY <1>2, <1>3
<1>5. HeadOf(b)' = c
  <2>1. lane'[b] # <<>>
    BY <1>4
  <2> QED
    BY <1>4, <2>1 DEF HeadOf
<1>6. \A a \in Branch : a # b => HeadOf(a)' = HeadOf(a)
  BY <1>3 DEF HeadOf
<1>7. ASSUME NEW a \in Branch, NEW d
      PROVE  InLane(d, a)' <=> InLane(d, a) \/ (d = c /\ a = b)
  <2>1. CASE a = b
    <3>1. ASSUME NEW i \in 1..Len(lane'[b]), lane'[b][i] = d PROVE InLane(d, b) \/ d = c
      <4>1. i \in 1..Len(lane[b]) \/ i = Len(lane[b]) + 1
        BY <1>4
      <4> QED
        BY <1>4, <3>1, <4>1 DEF InLane
    <3>2. ASSUME InLane(d, b) PROVE InLane(d, b)'
      <4>1. PICK i : i \in 1..Len(lane[b]) /\ lane[b][i] = d
        BY <3>2 DEF InLane
      <4>2. i \in 1..Len(lane'[b]) /\ lane'[b][i] = d
        BY <1>4, <4>1
      <4> QED
        BY <4>2 DEF InLane
    <3>3. InLane(c, b)'
      <4>1. Len(lane[b]) + 1 \in 1..Len(lane'[b])
        BY <1>4
      <4> QED
        BY <1>4, <4>1 DEF InLane
    <3> QED
      BY <2>1, <3>1, <3>2, <3>3 DEF InLane
  <2>2. CASE a # b
    BY <1>3, <2>2 DEF InLane
  <2> QED
    BY <2>1, <2>2
<1>8. Published' = Published \cup {c}
  BY <1>7 DEF Published
<1> QED
  BY <1>0, <1>1, <1>5, <1>6, <1>7, <1>8

\* A step that moves no branch leaves heads, lanes and what is published alone.
LEMMA WhatStaysPut ==
    ASSUME lane' = lane
    PROVE  /\ \A b : HeadOf(b)' = HeadOf(b)
           /\ \A b, d : InLane(d, b)' <=> InLane(d, b)
           /\ \A b, p : WasHead(p, b)' <=> WasHead(p, b)
           /\ Published' = Published
BY DEF HeadOf, InLane, WasHead, Published

\* Making a commit changes no other.
LEMMA WhatMakingDoes ==
    ASSUME TypeOK, NEW w \in Writer, NEW c \in Commit, CreateCandidate(w, c)
    PROVE  /\ lane' = lane /\ UNCHANGED <<inflight, verdict>> /\ ~Created(c)
           /\ call[w] # Idle /\ call[w].phase = "objects"
           /\ object'[c] = [parent |-> call[w].expected, content |-> call[w].content,
                            branch |-> call[w].branch]
           /\ object'[c] \in Object
           /\ \A d \in Commit : d # c => object'[d] = object[d]
           /\ \A d \in Commit : Created(d)' <=> Created(d) \/ d = c
<1>1. lane' = lane /\ UNCHANGED <<inflight, verdict>> /\ ~Created(c)
  BY DEF CreateCandidate, Created
<1>2. call[w] # Idle /\ call[w].phase = "objects"
  BY DEF CreateCandidate, InPhase
<1> DEFINE o == [parent |-> call[w].expected, content |-> call[w].content,
                 branch |-> call[w].branch]
<1>3. o \in Object
  BY <1>2, CallOf DEF Object
<1>4. object' = [object EXCEPT ![c] = o]
  BY DEF CreateCandidate
<1> HIDE DEF o
<1>5. object'[c] = o /\ \A d \in Commit : d # c => object'[d] = object[d]
  BY <1>4 DEF TypeOK
<1>6. \A d \in Commit : Created(d)' <=> Created(d) \/ d = c
  BY <1>3, <1>5, DistinctSentinels DEF Created
<1> QED
  BY <1>1, <1>2, <1>3, <1>5, <1>6 DEF o

\* A head that was left is never the head again: what fits a branch keeps
\* fitting it, because a landing on the branch takes the head away for good.
LEMMA FitsWhenLanding ==
    ASSUME TypeOK, NEW c \in Commit, Lands(c),
           NEW x, NEW b \in Branch, NEW p, WasHead(p, b), Fits(x, b, p)
    PROVE  Fits(x, b, p)'
<1>1. CASE b = object[c].branch
  <2>1. p # c
    <3>1. c \notin Published
      BY DEF Lands
    <3>2. ~InLane(c, b)
      BY <3>1 DEF Published
    <3> QED
      BY <3>2, DistinctSentinels DEF WasHead
  <2>2. HeadOf(b)' = c
    BY <1>1, WhatLandingDoes
  <2> QED
    BY <2>1, <2>2 DEF Fits
<1>2. CASE b # object[c].branch
  <2>1. /\ HeadOf(b)' = HeadOf(b) /\ \A d : InLane(d, b)' <=> InLane(d, b)
    BY <1>2, WhatLandingDoes
  <2>2. object' = object
    BY DEF Lands
  <2> QED
    BY <2>1, <2>2 DEF Fits, IdIn, PrevIn
<1> QED
  BY <1>1, <1>2

\* ... and making a commit puts none in a lane.
LEMMA FitsWhenMaking ==
    ASSUME TypeOK, LaneInv, NEW w \in Writer, NEW c \in Commit, CreateCandidate(w, c),
           NEW x, NEW b \in Branch, NEW p, Fits(x, b, p)
    PROVE  Fits(x, b, p)'
<1>1. lane' = lane
  BY WhatMakingDoes
<1>2. ASSUME NEW d \in Commit, InLane(d, b) PROVE object'[d] = object[d]
  BY <1>2, WhatMakingDoes DEF LaneInv
<1>3. HeadOf(b)' = HeadOf(b) /\ \A d : InLane(d, b)' <=> InLane(d, b)
  BY <1>1, WhatStaysPut
<1> QED
  BY <1>2, <1>3 DEF Fits, IdIn, PrevIn

\* A step is quiet, makes a commit or lands one.
LEMMA QuietMakesOrLands ==
    Kinds => \/ Quiet
             \/ \E w \in Writer, c \in Commit : CreateCandidate(w, c)
             \/ \E c \in Commit : Lands(c)
BY DEF Kinds, Rests, Advances, Starts, GivesUp, Tells, Loses, Fades

-----------------------------------------------------------------------------
\* Each part of the invariant is kept by every kind of step.

\* A commit lands on its own branch, once, where no message has its id or names
\* its predecessor: it is appended to the very head its call has read.
LEMMA LanesHold == TypeOK /\ LaneInv /\ Kinds => LaneInv'
<1> SUFFICES ASSUME TypeOK, LaneInv, Kinds PROVE LaneInv'
  OBVIOUS
<1>1. CASE Quiet
  BY <1>1 DEF Quiet, LaneInv, InLane, Created, IdIn, PrevIn
<1>2. ASSUME NEW w \in Writer, NEW c \in Commit, CreateCandidate(w, c) PROVE LaneInv'
  <2>1. lane' = lane /\ \A b \in Branch : \A d : InLane(d, b)' <=> InLane(d, b)
    BY <1>2, WhatMakingDoes, WhatStaysPut
  <2>2. \A b \in Branch, d \in Commit : InLane(d, b) => object'[d] = object[d]
    BY <1>2, WhatMakingDoes DEF LaneInv
  <2>3. \A b \in Branch, d \in Commit :
           InLane(d, b) => /\ Created(d)' /\ object'[d].branch = b
                           /\ IdIn(d)' = IdIn(d) /\ PrevIn(d)' = PrevIn(d)
    BY <2>2 DEF LaneInv, Created, IdIn, PrevIn
  <2> QED
    BY <2>1, <2>3 DEF LaneInv
<1>3. ASSUME NEW c \in Commit, Lands(c) PROVE LaneInv'
  <2>1. PICK b \in Branch : b = object[c].branch
    BY <1>3, WhatLandingDoes
  <2>2. /\ object' = object /\ c \notin Published /\ Created(c)
        /\ HeadOf(b) = object[c].parent /\ Fits(object[c].content, b, object[c].parent)
        /\ lane' = [lane EXCEPT ![b] = Append(@, c)]
    BY <1>3, <2>1 DEF Lands
  <2>3. \A a \in Branch : \A d : InLane(d, a)' <=> InLane(d, a) \/ (d = c /\ a = b)
    BY <1>3, <2>1, WhatLandingDoes
  <2>4. \A d \in Commit : Created(d)' = Created(d) /\ IdIn(d)' = IdIn(d) /\ PrevIn(d)' = PrevIn(d)
    BY <2>2 DEF Created, IdIn, PrevIn
  <2>5. \A a \in Branch, d \in Commit : InLane(d, a)' => Created(d)' /\ object'[d].branch = a
    BY <2>1, <2>2, <2>3, <2>4 DEF LaneInv
  <2>6. ASSUME NEW a \in Branch,
               NEW i \in 1..Len(lane'[a]), NEW j \in 1..Len(lane'[a]), lane'[a][i] = lane'[a][j]
        PROVE  i = j
    <3>1. CASE a # b
      <4>1. lane'[a] = lane[a]
        BY <2>2, <3>1 DEF TypeOK
      <4> QED
        BY <2>6, <4>1 DEF LaneInv
    <3>2. CASE a = b
      <4>1. lane[b] \in Seq(Commit) /\ lane'[b] = Append(lane[b], c)
        BY <2>2 DEF TypeOK
      <4>2. /\ Len(lane[b]) \in Nat /\ Len(lane'[b]) = Len(lane[b]) + 1
            /\ lane'[b][Len(lane[b]) + 1] = c
            /\ \A k \in 1..Len(lane[b]) : lane'[b][k] = lane[b][k]
        BY <4>1
      <4>3. \A k \in 1..Len(lane[b]) : lane[b][k] # c
        BY <2>2 DEF Published, InLane
      <4>4. /\ i \in 1..Len(lane[b]) \/ i = Len(lane[b]) + 1
            /\ j \in 1..Len(lane[b]) \/ j = Len(lane[b]) + 1
        BY <3>2, <4>2
      <4>5. \A k, l \in 1..Len(lane[b]) : lane[b][k] = lane[b][l] => k = l
        BY DEF LaneInv
      <4> QED
        BY <2>6, <3>2, <4>2, <4>3, <4>4, <4>5
    <3> QED
      BY <3>1, <3>2
  <2>7. \A d \in Commit : InLane(d, b) => IdIn(d) # IdIn(c) /\ PrevIn(d) # PrevIn(c)
    BY <2>2 DEF Fits, IdIn, PrevIn
  <2>8. ASSUME NEW a \in Branch, NEW d \in Commit, NEW e \in Commit,
               InLane(d, a)', InLane(e, a)', d # e
        PROVE  IdIn(d) # IdIn(e) /\ PrevIn(d) # PrevIn(e)
    <3>1. CASE d = c \/ e = c
      <4>1. ~InLane(c, a)
        BY <2>2 DEF Published
      <4> QED
        BY <2>3, <2>7, <2>8, <3>1, <4>1
    <3>2. CASE d # c /\ e # c
      BY <2>3, <2>8, <3>2 DEF LaneInv
    <3> QED
      BY <3>1, <3>2
  <2>9. \A a \in Branch, d, e \in Commit :
           InLane(d, a)' /\ InLane(e, a)' /\ d # e => IdIn(d)' # IdIn(e)' /\ PrevIn(d)' # PrevIn(e)'
    BY <2>4, <2>8
  <2> QED
    BY <2>5, <2>6, <2>9 DEF LaneInv
<1> QED
  BY <1>1, <1>2, <1>3, QuietMakesOrLands

\* A commit is made on a commit that was the head of its branch, and for a
\* branch its message may go to.
LEMMA ObjectsHold == TypeOK /\ ObjectInv /\ CallsInv /\ Kinds => ObjectInv'
<1> SUFFICES ASSUME TypeOK, ObjectInv, CallsInv, Kinds PROVE ObjectInv'
  OBVIOUS
<1>1. CASE Quiet
  BY <1>1 DEF Quiet, ObjectInv, WasHead, InLane, Created
<1>2. ASSUME NEW w \in Writer, NEW c \in Commit, CreateCandidate(w, c) PROVE ObjectInv'
  <2>1. call[w] # Idle /\ call[w].phase = "objects" /\ CallInv(call[w])
    BY <1>2, WhatMakingDoes DEF CallsInv
  <2>2. /\ WasHead(call[w].expected, call[w].branch)
        /\ Declares(call[w].content, call[w].branch)
    BY <2>1 DEF CallInv
  <2>3. \A b, p : WasHead(p, b)' <=> WasHead(p, b)
    BY <1>2, WhatMakingDoes, WhatStaysPut
  <2>4. /\ object'[c].parent = call[w].expected /\ object'[c].content = call[w].content
        /\ object'[c].branch = call[w].branch
    <3>1. object'[c] = [parent |-> call[w].expected, content |-> call[w].content,
                        branch |-> call[w].branch]
      BY <1>2, WhatMakingDoes
    <3> QED
      BY <3>1
  <2>5. ASSUME NEW d \in Commit, Created(d)'
        PROVE  /\ WasHead(object'[d].parent, object'[d].branch)
               /\ Declares(object'[d].content, object'[d].branch)
    <3>1. CASE d = c
      BY <2>2, <2>4, <3>1
    <3>2. CASE d # c
      BY <1>2, <2>5, <3>2, WhatMakingDoes DEF ObjectInv
    <3> QED
      BY <3>1, <3>2
  <2> QED
    BY <2>3, <2>5 DEF ObjectInv
<1>3. ASSUME NEW c \in Commit, Lands(c) PROVE ObjectInv'
  <2>1. object' = object
    BY <1>3 DEF Lands
  <2>2. \A b \in Branch : \A p : WasHead(p, b) => WasHead(p, b)'
    BY <1>3, WhatLandingDoes DEF WasHead
  <2>3. \A d \in Commit : Created(d) => object[d].branch \in Branch
    BY DEF TypeOK, Created, Object
  <2> QED
    BY <2>1, <2>2, <2>3 DEF ObjectInv, Created
<1> QED
  BY <1>1, <1>2, <1>3, QuietMakesOrLands

\* A request in flight is for a commit that has not landed and still fits.
LEMMA RequestsHold ==
    TypeOK /\ LaneInv /\ ObjectInv /\ InflightInv /\ CallsInv /\ Kinds => InflightInv'
<1> SUFFICES ASSUME TypeOK, LaneInv, ObjectInv, InflightInv, CallsInv, Kinds PROVE InflightInv'
  OBVIOUS
<1>1. ASSUME Quiet, NEW c \in inflight'
      PROVE  /\ Created(c) /\ c \notin Published
             /\ Fits(object[c].content, object[c].branch, object[c].parent)
  <2>1. c \in inflight
           \/ \E w \in Writer : InPhase(w, "update") /\ c = call[w].candidate
    <3>1. ASSUME NEW w \in Writer, NEW k, Loses(w, k)
          PROVE  c \in inflight \/ (InPhase(w, "update") /\ c = call[w].candidate)
      BY <1>1, <3>1 DEF Loses
    <3>2. ASSUME NEW d \in Commit, Lands(d) PROVE c \in inflight
      BY <1>1, <3>2 DEF Lands
    <3>3. ASSUME NEW d \in Commit, Fades(d) PROVE c \in inflight
      BY <1>1, <3>3 DEF Fades
    <3>4. ASSUME inflight' = inflight PROVE c \in inflight
      BY <1>1, <3>4
    <3>5. ASSUME NEW w \in Writer, NEW d \in Commit, CreateCandidate(w, d) PROVE c \in inflight
      BY <1>1, <3>5 DEF CreateCandidate
    <3> QED
      BY <3>1, <3>2, <3>3, <3>4, <3>5 DEF Kinds, Rests, Advances, Starts, GivesUp, Tells
  <2>2. ASSUME NEW w \in Writer, InPhase(w, "update"), c = call[w].candidate
        PROVE  /\ Created(c) /\ c \notin Published
               /\ Fits(object[c].content, object[c].branch, object[c].parent)
    BY <2>2, CandidateOf DEF InPhase, CallsInv, CallInv
  <2> QED
    BY <2>1, <2>2 DEF InflightInv
<1>2. CASE Quiet
  <2>1. object' = object /\ lane' = lane
    BY <1>2 DEF Quiet
  <2> QED
    BY <1>1, <1>2, <2>1 DEF InflightInv, Created, Published, Fits, InLane, HeadOf, IdIn, PrevIn
<1>3. ASSUME NEW w \in Writer, NEW c \in Commit, CreateCandidate(w, c) PROVE InflightInv'
  <2> SUFFICES ASSUME NEW d \in inflight
               PROVE  /\ Created(d)' /\ d \notin Published'
                      /\ Fits(object[d].content, object[d].branch, object[d].parent)'
    BY <1>3, WhatMakingDoes DEF InflightInv
  <2>1. PICK x, b, p : x = object[d].content /\ b = object[d].branch /\ p = object[d].parent
    OBVIOUS
  <2>2. d \in Commit /\ Created(d) /\ d \notin Published /\ Fits(x, b, p) /\ b \in Branch
    BY <2>1, CandidatesExist DEF InflightInv, TypeOK, Object
  <2>3. object'[d] = object[d] /\ Created(d)' /\ Published' = Published
    BY <1>3, <2>2, WhatMakingDoes, WhatStaysPut
  <2>4. Fits(x, b, p)'
    BY <1>3, <2>2, FitsWhenMaking
  <2> QED
    BY <2>1, <2>2, <2>3, <2>4 DEF Fits, HeadOf, InLane, IdIn, PrevIn
<1>4. ASSUME NEW c \in Commit, Lands(c) PROVE InflightInv'
  <2> SUFFICES ASSUME NEW d \in inflight, d # c
               PROVE  /\ Created(d)' /\ d \notin Published'
                      /\ Fits(object[d].content, object[d].branch, object[d].parent)'
    BY <1>4 DEF InflightInv, Lands
  <2>1. PICK x, b, p : x = object[d].content /\ b = object[d].branch /\ p = object[d].parent
    OBVIOUS
  <2>2. d \in Commit /\ Created(d) /\ d \notin Published /\ Fits(x, b, p) /\ b \in Branch
    BY <2>1, CandidatesExist DEF InflightInv, TypeOK, Object
  <2>3. WasHead(p, b)
    BY <2>1, <2>2 DEF ObjectInv
  <2>4. Fits(x, b, p)'
    BY <1>4, <2>2, <2>3, FitsWhenLanding
  <2>5. object' = object /\ Published' = Published \cup {c}
    BY <1>4, WhatLandingDoes DEF Lands
  <2> QED
    BY <2>1, <2>2, <2>4, <2>5 DEF Created, Fits, HeadOf, InLane, IdIn, PrevIn
<1> QED
  BY <1>2, <1>3, <1>4, QuietMakesOrLands

\* The phases in which a candidate has not landed, as far as its call knows.
Unlanded(k) == k.phase \in {"control", "update"} \/ (k.phase = "reconcile" /\ k.reply = "REFUSED")

\* A call that takes no part in a step keeps what it knows, if its candidate
\* does not land and its request is not sent by another.
LEMMA CallsStay ==
    ASSUME TypeOK, LaneInv, NEW k \in Call, CallInv(k), Kinds,
           Unlanded(k) => k.candidate \notin (Published \cup inflight)',
           \A w \in Writer, c \in Commit :
               CreateCandidate(w, c) /\ k.phase \in {"control", "update", "reconcile"}
                   => k.candidate # c
    PROVE  CallInv(k)'
<1>1. k.branch \in Branch /\ k.content \in Content /\ k.expected \in Parent
  BY DEF Call
<1>2. CASE Quiet
  <2>1. object' = object /\ Published' = Published
    BY <1>2, WhatStaysPut DEF Quiet
  <2>2. Fits(k.content, k.branch, k.expected) => Fits(k.content, k.branch, k.expected)'
    BY <1>2 DEF Quiet, Fits, HeadOf, InLane, IdIn, PrevIn
  <2>3. WasHead(k.observed, k.branch)' <=> WasHead(k.observed, k.branch)
    BY <1>2, WhatStaysPut DEF Quiet
  <2> QED
    BY <2>1, <2>2, <2>3 DEF CallInv, Unlanded
<1>3. ASSUME NEW w \in Writer, NEW c \in Commit, CreateCandidate(w, c) PROVE CallInv(k)'
  <2>1. /\ k.phase \in {"control", "update", "reconcile"} =>
              object'[k.candidate] = object[k.candidate]
        /\ Published' = Published
    <3>1. k.phase \in {"control", "update", "reconcile"} =>
             k.candidate # c /\ k.candidate \in Commit
      BY <1>3 DEF CallInv
    <3>2. lane' = lane /\ \A d \in Commit : d # c => object'[d] = object[d]
      BY <1>3, WhatMakingDoes
    <3> QED
      BY <3>1, <3>2, WhatStaysPut
  <2>2. WasHead(k.observed, k.branch)' <=> WasHead(k.observed, k.branch)
    BY <1>3, WhatMakingDoes, WhatStaysPut
  <2>3. Fits(k.content, k.branch, k.expected) => Fits(k.content, k.branch, k.expected)'
    BY <1>1, <1>3, FitsWhenMaking
  <2> QED
    BY <2>1, <2>2, <2>3 DEF CallInv, Unlanded
<1>4. ASSUME NEW c \in Commit, Lands(c) PROVE CallInv(k)'
  <2>1. object' = object /\ Published \subseteq Published'
    BY <1>4, WhatLandingDoes DEF Lands
  <2>2. WasHead(k.observed, k.branch) => WasHead(k.observed, k.branch)'
    BY <1>1, <1>4, WhatLandingDoes DEF WasHead
  <2>3. WasHead(k.expected, k.branch) /\ Fits(k.content, k.branch, k.expected)
           => Fits(k.content, k.branch, k.expected)'
    BY <1>1, <1>4, FitsWhenLanding
  <2>4. k.phase \in {"objects", "control", "update"} =>
           WasHead(k.expected, k.branch) /\ Fits(k.content, k.branch, k.expected)
    BY DEF CallInv
  <2> QED
    BY <2>1, <2>2, <2>3, <2>4 DEF CallInv, Unlanded
<1> QED
  BY <1>2, <1>3, <1>4, QuietMakesOrLands

\* A step that makes a commit, or asks for one to land, moves its call on.
LEMMA ActingCalls ==
    ASSUME TypeOK, NEW u \in Writer, call'[u] = call[u]
    PROVE  /\ \A c \in Commit : ~CreateCandidate(u, c)
           /\ \A k \in Call \cup {Idle} : ~Loses(u, k)
           /\ ~(/\ InPhase(u, "update")
                /\ Becomes(u, [call[u] EXCEPT !.phase = "reconcile", !.reply = "MOVED"]))
<1>1. ASSUME call[u] # Idle, NEW phase, NEW r, NEW c,
             \/ call' = [call EXCEPT ![u].phase = phase, ![u].candidate = c]
             \/ call' = [call EXCEPT ![u].phase = phase, ![u].reply = r]
      PROVE  call[u].phase = phase
  <2>1. call[u] \in Call
    BY <1>1, CallOf
  <2>2. \/ call'[u] = [call[u] EXCEPT !.phase = phase, !.candidate = c]
        \/ call'[u] = [call[u] EXCEPT !.phase = phase, !.reply = r]
    BY <1>1 DEF TypeOK
  <2>3. /\ [call[u] EXCEPT !.phase = phase, !.candidate = c].phase = phase
        /\ [call[u] EXCEPT !.phase = phase, !.reply = r].phase = phase
    BY <2>1 DEF Call
  <2> QED
    BY <2>2, <2>3
<1>2. ASSUME NEW c \in Commit, CreateCandidate(u, c) PROVE FALSE
  BY <1>1, <1>2 DEF CreateCandidate, InPhase
<1>3. ASSUME NEW r, InPhase(u, "update"),
             Becomes(u, [call[u] EXCEPT !.phase = "reconcile", !.reply = r])
      PROVE  FALSE
  <2>1. call' = [call EXCEPT ![u].phase = "reconcile", ![u].reply = r]
    BY <1>3 DEF Becomes
  <2> QED
    BY <1>1, <1>3, <2>1 DEF InPhase
<1>4. ASSUME NEW k \in Call \cup {Idle}, Loses(u, k) PROVE FALSE
  <2>1. InPhase(u, "update") /\ Becomes(u, k)
    BY <1>4 DEF Loses
  <2>2. CASE k = Idle
    BY <2>1, <2>2 DEF Becomes, InPhase, TypeOK
  <2>3. CASE k = [call[u] EXCEPT !.phase = "reconcile", !.reply = "ERROR"]
    BY <2>1, <2>3, <1>3
  <2> QED
    BY <1>4, <2>2, <2>3 DEF Loses
<1> QED
  BY <1>2, <1>3, <1>4

\* The calls that are not the one a step is about: the candidate of none of them
\* is sent or lands, because no two calls own the same commit.
LEMMA OtherCallsHold ==
    ASSUME TypeOK, LaneInv, InflightInv, CallsInv, Kinds,
           NEW u \in Writer, call[u] # Idle, call'[u] = call[u]
    PROVE  CallInv(call[u])'
<1>1. PICK k \in Call : k = call[u]
  BY CallOf
<1>2. CallInv(k) /\ k # Idle
  BY <1>1 DEF CallsInv
<1>3. k.phase \in {"control", "update", "reconcile"} => Owns(u, k.candidate) /\ k.candidate \in Commit
  BY <1>1, <1>2 DEF Owns, CallInv
<1>4. ASSUME Unlanded(k) PROVE k.candidate \notin (Published \cup inflight)'
  <2>0. /\ k.candidate \notin Published \cup inflight /\ k.candidate \in Commit
        /\ Owns(u, k.candidate)
    BY <1>2, <1>3, <1>4 DEF CallInv, Unlanded
  <2>1. ASSUME NEW w \in Writer, NEW l \in Call \cup {Idle}, Loses(w, l)
        PROVE  k.candidate \notin (Published \cup inflight)'
    <3>1. w # u /\ Owns(w, call[w].candidate) /\ call[w].candidate \in Commit
      BY <2>1, CandidateOf, ActingCalls DEF Loses, Owns, InPhase
    <3>2. call[w].candidate # k.candidate
      BY <2>0, <3>1 DEF CallsInv
    <3>3. Published' = Published /\ inflight' = inflight \cup {call[w].candidate}
      BY <2>1, WhatStaysPut DEF Loses, Quiet
    <3> QED
      BY <2>0, <3>2, <3>3
  <2>2. ASSUME NEW c \in Commit, Lands(c) PROVE k.candidate \notin (Published \cup inflight)'
    <3>1. c # k.candidate
      <4>1. CASE c \in inflight
        BY <2>0, <4>1
      <4>2. ASSUME NEW w \in Writer, InPhase(w, "update"), call[w].candidate = c,
                   Becomes(w, [call[w] EXCEPT !.phase = "reconcile", !.reply = "MOVED"])
            PROVE  c # k.candidate
        <5>1. w # u
          BY <4>2, ActingCalls
        <5>2. Owns(w, c)
          BY <4>2 DEF Owns, InPhase
        <5> QED
          BY <2>0, <5>1, <5>2 DEF CallsInv
      <4> QED
        BY <2>2, <4>1, <4>2 DEF Lands
    <3>2. Published' = Published \cup {c} /\ inflight' = inflight \ {c}
      BY <2>2, WhatLandingDoes DEF Lands
    <3> QED
      BY <2>0, <3>1, <3>2
  <2>3. ASSUME Published' = Published, inflight' \subseteq inflight
        PROVE  k.candidate \notin (Published \cup inflight)'
    BY <2>0, <2>3
  <2>4. Quiet => Published' = Published
    BY WhatStaysPut DEF Quiet
  <2>5. ASSUME NEW w \in Writer, NEW c \in Commit, CreateCandidate(w, c)
        PROVE  Published' = Published /\ inflight' \subseteq inflight
    BY <2>5, WhatMakingDoes, WhatStaysPut
  <2> QED
    BY <2>1, <2>2, <2>3, <2>4, <2>5 DEF Kinds, Rests, Advances, Starts, GivesUp, Tells, Fades
<1>5. ASSUME NEW w \in Writer, NEW c \in Commit, CreateCandidate(w, c),
             k.phase \in {"control", "update", "reconcile"}
      PROVE  k.candidate # c
  <2>1. ~Created(c)
    BY <1>5, WhatMakingDoes
  <2>2. Created(k.candidate)
    BY <1>1, <1>2, <1>5, CandidateOf
  <2> QED
    BY <2>1, <2>2
<1>6. CallInv(k)'
  BY <1>2, <1>4, <1>5, CallsStay
<1>7. call'[u] = k
  BY <1>1
<1> QED
  BY <1>6, <1>7 DEF CallInv

\* A call owns the commit it made, and takes no other's.
LEMMA OwnersStay ==
    ASSUME TypeOK, CallsInv, Kinds, NEW u \in Writer, NEW c, Owns(u, c)'
    PROVE  Owns(u, c) \/ (c \in Commit /\ CreateCandidate(u, c))
<1>0. /\ call'[u] # Idle /\ call'[u].phase \in {"control", "update", "reconcile"}
      /\ call'[u].candidate = c
  BY DEF Owns
<1>1. ASSUME NEW w \in Writer, NEW k \in Call \cup {Idle}, Becomes(w, k),
             k # Idle /\ k.phase \in {"control", "update", "reconcile"} => Owns(w, k.candidate)
      PROVE  Owns(u, c)
  <2>1. call'[w] = k /\ \A v \in Writer \ {w} : call'[v] = call[v]
    BY <1>1, CallUpdate DEF Becomes
  <2>2. CASE u = w
    BY <1>0, <1>1, <2>1, <2>2
  <2>3. CASE u # w
    BY <1>0, <2>1, <2>3 DEF Owns
  <2> QED
    BY <2>2, <2>3
<1>2. ASSUME call' = call PROVE Owns(u, c)
  BY <1>0, <1>2 DEF Owns
<1>reply. ASSUME NEW w \in Writer, InPhase(w, "update"), NEW r \in {"ERROR", "MOVED"},
                 Becomes(w, [call[w] EXCEPT !.phase = "reconcile", !.reply = r])
          PROVE  Owns(u, c)
  <2> DEFINE k == [call[w] EXCEPT !.phase = "reconcile", !.reply = r]
  <2>1. call[w] \in Call
    BY <1>reply, CallOf DEF InPhase
  <2>2. k \in Call /\ k.candidate = call[w].candidate
    BY <2>1 DEF Call, Phase
  <2>3. Owns(w, k.candidate)
    BY <1>reply, <2>2 DEF Owns, InPhase
  <2> HIDE DEF k
  <2> QED
    BY <1>reply, <1>1, <2>2, <2>3 DEF k
<1>3. ASSUME NEW w \in Writer, NEW k \in Call, Advances(w, k) \/ Starts(w, k) PROVE Owns(u, c)
  BY <1>3, <1>1 DEF Advances, Starts
<1>4. ASSUME NEW w \in Writer, NEW v, GivesUp(w) \/ Tells(w, v) PROVE Owns(u, c)
  <2>1. Becomes(w, Idle)
    BY <1>4 DEF GivesUp, Tells
  <2> QED
    BY <2>1, <1>1
<1>5. ASSUME NEW w \in Writer, NEW k \in Call \cup {Idle}, Loses(w, k) PROVE Owns(u, c)
  <2>1. CASE k = Idle
    BY <1>5, <1>1, <2>1 DEF Loses
  <2>2. CASE k = [call[w] EXCEPT !.phase = "reconcile", !.reply = "ERROR"]
    <3>1. Becomes(w, [call[w] EXCEPT !.phase = "reconcile", !.reply = "ERROR"])
      BY <1>5, <2>2 DEF Loses
    <3> QED
      BY <1>5, <3>1, <1>reply DEF Loses
  <2> QED
    BY <1>5, <2>1, <2>2 DEF Loses
<1>6. ASSUME NEW w \in Writer, NEW d \in Commit, CreateCandidate(w, d)
      PROVE  Owns(u, c) \/ (c \in Commit /\ CreateCandidate(u, c))
  <2> DEFINE k == [call[w] EXCEPT !.phase = "control", !.candidate = d]
  <2>0. call' = [call EXCEPT ![w] = k]
    BY <1>6 DEF CreateCandidate
  <2>1. call[w] \in Call
    BY <1>6, CallOf, WhatMakingDoes
  <2>2. k \in Call /\ k.candidate = d
    BY <2>1 DEF Call, Phase
  <2> HIDE DEF k
  <2>3. call'[w] = k /\ \A v \in Writer \ {w} : call'[v] = call[v]
    BY <2>0, <2>2, CallUpdate
  <2>4. CASE u = w
    BY <1>0, <1>6, <2>2, <2>3, <2>4
  <2>5. CASE u # w
    BY <1>0, <2>3, <2>5 DEF Owns
  <2> QED
    BY <2>4, <2>5
<1>7. ASSUME NEW d \in Commit, Lands(d) PROVE Owns(u, c)
  <2>1. ASSUME NEW w \in Writer, InPhase(w, "update"),
               Becomes(w, [call[w] EXCEPT !.phase = "reconcile", !.reply = "MOVED"])
        PROVE  Owns(u, c)
    BY <2>1, <1>reply
  <2>2. call' = call
           \/ \E w \in Writer :
                 /\ InPhase(w, "update")
                 /\ Becomes(w, [call[w] EXCEPT !.phase = "reconcile", !.reply = "MOVED"])
    BY <1>7 DEF Lands
  <2> QED
    BY <2>1, <2>2, <1>2
<1> QED
  BY <1>2, <1>3, <1>4, <1>5, <1>6, <1>7 DEF Kinds, Rests, Fades

\* What the calls know stays true, and no two of them own the same commit.
LEMMA CallsHold ==
    TypeOK /\ TypeOK' /\ LaneInv /\ InflightInv /\ CallsInv /\ Kinds => CallsInv'
<1> SUFFICES ASSUME TypeOK, TypeOK', LaneInv, InflightInv, CallsInv, Kinds PROVE CallsInv'
  OBVIOUS
<1>1. ASSUME NEW c \in Commit, NEW w \in Writer, NEW u \in Writer, Owns(w, c)', Owns(u, c)'
      PROVE  w = u
  <2>1. CASE Owns(w, c) /\ Owns(u, c)
    BY <2>1 DEF CallsInv
  <2>2. ASSUME NEW v \in Writer, NEW x \in Writer, CreateCandidate(v, c), Owns(x, c)'
        PROVE  v = x
    <3>1. ~Owns(x, c)
      BY <2>2, CandidateOf, WhatMakingDoes DEF Owns
    <3>2. CreateCandidate(x, c)
      BY <2>2, <3>1, OwnersStay
    <3>3. call[x].phase = "objects"
      BY <3>2, WhatMakingDoes
    <3>4. call'[x].phase \in {"control", "update", "reconcile"}
      BY <2>2 DEF Owns
    <3>5. x # v => call'[x] = call[x]
      BY <2>2 DEF CreateCandidate, TypeOK
    <3> QED
      BY <3>3, <3>4, <3>5
  <2> QED
    BY <1>1, <2>1, <2>2, OwnersStay
<1>2. ASSUME NEW w \in Writer, NEW k \in Call \cup {Idle}, Becomes(w, k),
             k # Idle => CallInv(k)', NEW u \in Writer, call'[u] # Idle
      PROVE  CallInv(call[u])'
  <2>1. call'[w] = k /\ \A v \in Writer \ {w} : call'[v] = call[v]
    BY <1>2, CallUpdate DEF Becomes
  <2>2. CASE u = w
    <3>1. call'[u] = k /\ k # Idle
      BY <1>2, <2>1, <2>2
    <3> QED
      BY <1>2, <3>1 DEF CallInv
  <2>3. CASE u # w
    BY <1>2, <2>1, <2>3, OtherCallsHold
  <2> QED
    BY <2>2, <2>3
<1>3. ASSUME call' = call, NEW u \in Writer, call'[u] # Idle PROVE CallInv(call[u])'
  BY <1>3, OtherCallsHold
<1>4. ASSUME NEW k \in Call, Quiet, CallInv(k), Unlanded(k) => k.candidate \notin inflight'
      PROVE  CallInv(k)'
  <2>1. \A w \in Writer, c \in Commit : ~CreateCandidate(w, c)
    BY <1>4, WhatMakingDoes, DistinctSentinels DEF Quiet, Created
  <2>2. Unlanded(k) => k.candidate \notin (Published \cup inflight)'
    BY <1>4, WhatStaysPut DEF Quiet, Unlanded, CallInv
  <2> QED
    BY <1>4, <2>1, <2>2, CallsStay
<1> SUFFICES ASSUME NEW u \in Writer, call'[u] # Idle PROVE CallInv(call[u])'
  BY <1>1 DEF CallsInv
<1>5. ASSUME NEW w \in Writer, NEW k \in Call, Advances(w, k) \/ Starts(w, k)
      PROVE  CallInv(call[u])'
  <2>1. Quiet /\ Becomes(w, k) /\ CallInv(k) /\ inflight' = inflight
    BY <1>5 DEF Advances, Starts
  <2>2. Unlanded(k) => k.candidate \notin inflight'
    BY <2>1 DEF CallInv, Unlanded
  <2> QED
    BY <1>2, <1>4, <2>1, <2>2
<1>6. ASSUME NEW w \in Writer, NEW v, GivesUp(w) \/ Tells(w, v) PROVE CallInv(call[u])'
  BY <1>2, <1>6 DEF GivesUp, Tells
<1>7. ASSUME NEW w \in Writer, NEW k \in Call \cup {Idle}, Loses(w, k) PROVE CallInv(call[u])'
  <2>1. CASE k = Idle
    BY <1>2, <1>7, <2>1 DEF Loses
  <2>2. CASE k # Idle
    <3>1. k = [call[w] EXCEPT !.phase = "reconcile", !.reply = "ERROR"]
      BY <1>7, <2>2 DEF Loses
    <3>2. call[w] \in Call /\ CallInv(call[w]) /\ call[w].phase = "update"
      BY <1>7, CallOf DEF Loses, InPhase, CallsInv
    <3>3. /\ k \in Call /\ k.phase = "reconcile" /\ k.reply = "ERROR"
          /\ k.content = call[w].content /\ k.branch = call[w].branch
          /\ k.expected = call[w].expected /\ k.observed = call[w].observed
          /\ k.candidate = call[w].candidate
      BY <3>1, <3>2 DEF Call, Phase
    <3>4. CallInv(k) /\ ~Unlanded(k)
      BY <3>2, <3>3 DEF CallInv, Unlanded
    <3> QED
      BY <1>2, <1>4, <1>7, <3>3, <3>4 DEF Loses
  <2> QED
    BY <2>1, <2>2
<1>8. ASSUME NEW w \in Writer, NEW c \in Commit, CreateCandidate(w, c) PROVE CallInv(call[u])'
  <2> DEFINE k == [call[w] EXCEPT !.phase = "control", !.candidate = c]
  <2>1. call[w] \in Call /\ CallInv(call[w]) /\ call[w].phase = "objects"
    BY <1>8, CallOf, WhatMakingDoes DEF CallsInv
  <2>2. Becomes(w, k)
    BY <1>8 DEF CreateCandidate, Becomes
  <2>3. PICK l \in Call : l = k
    BY <2>1 DEF Call, Phase
  <2>4. /\ l.phase = "control" /\ l.candidate = c
        /\ l.content = call[w].content /\ l.branch = call[w].branch
        /\ l.expected = call[w].expected /\ l.observed = call[w].observed
    BY <2>1, <2>3 DEF Call
  <2> HIDE DEF k
  <2>5. l.branch \in Branch
    BY DEF Call
  <2>6. /\ Declares(l.content, l.branch) /\ WasHead(l.observed, l.branch)
        /\ l.observed = l.expected /\ Fits(l.content, l.branch, l.expected)
    BY <2>1, <2>4 DEF CallInv
  <2>7. /\ WasHead(l.observed, l.branch)' /\ Fits(l.content, l.branch, l.expected)'
    BY <1>8, <2>5, <2>6, WhatMakingDoes, WhatStaysPut, FitsWhenMaking
  <2>8. object'[c] = [parent |-> l.expected, content |-> l.content, branch |-> l.branch]
    BY <1>8, <2>4, WhatMakingDoes
  <2>9. c \notin (Published \cup inflight)'
    <3>1. c \notin Published \cup inflight
      BY <1>8, WhatMakingDoes, PublishedAreCreated DEF InflightInv
    <3> QED
      BY <1>8, <3>1, WhatMakingDoes, WhatStaysPut
  <2>10. CallInv(l)'
    BY <2>4, <2>6, <2>7, <2>8, <2>9 DEF CallInv
  <2> QED
    BY <1>2, <2>2, <2>3, <2>10
<1>9. ASSUME NEW c \in Commit, Lands(c) PROVE CallInv(call[u])'
  <2>1. ASSUME NEW w \in Writer, InPhase(w, "update"), call[w].candidate = c,
               Becomes(w, [call[w] EXCEPT !.phase = "reconcile", !.reply = "MOVED"])
        PROVE  CallInv(call[u])'
    <3> DEFINE k == [call[w] EXCEPT !.phase = "reconcile", !.reply = "MOVED"]
    <3>1. call[w] \in Call /\ CallInv(call[w]) /\ call[w].phase = "update"
      BY <2>1, CallOf DEF InPhase, CallsInv
    <3>2. PICK l \in Call : l = k
      BY <3>1 DEF Call, Phase
    <3>3. /\ l.phase = "reconcile" /\ l.reply = "MOVED" /\ l.candidate = c
          /\ l.content = call[w].content /\ l.branch = call[w].branch
          /\ l.expected = call[w].expected /\ l.observed = call[w].observed
      BY <2>1, <3>1, <3>2 DEF Call
    <3>4. Becomes(w, l)
      BY <2>1, <3>2
    <3> HIDE DEF k
    <3>5. l.branch \in Branch
      BY DEF Call
    <3>6. /\ Declares(l.content, l.branch) /\ WasHead(l.observed, l.branch)
          /\ object[c] = [parent |-> l.expected, content |-> l.content, branch |-> l.branch]
      BY <3>1, <3>3, <2>1 DEF CallInv
    <3>7. WasHead(l.observed, l.branch)' /\ c \in Published' /\ object' = object
      <4>1. object' = object
        BY <1>9 DEF Lands
      <4>2. Published' = Published \cup {c} /\ \A d : InLane(d, l.branch) => InLane(d, l.branch)'
        BY <1>9, <3>5, WhatLandingDoes
      <4> QED
        BY <3>6, <4>1, <4>2 DEF WasHead
    <3>8. CallInv(l)'
      BY <3>3, <3>6, <3>7 DEF CallInv
    <3> QED
      BY <1>2, <3>4, <3>8
  <2>2. \/ call' = call
        \/ \E w \in Writer :
              /\ InPhase(w, "update") /\ call[w].candidate = c
              /\ Becomes(w, [call[w] EXCEPT !.phase = "reconcile", !.reply = "MOVED"])
    BY <1>9 DEF Lands
  <2> QED
    BY <1>3, <2>1, <2>2
<1> QED
  BY <1>3, <1>5, <1>6, <1>7, <1>8, <1>9 DEF Kinds, Rests, Fades

\* What was told of a commit stays true.  One that is told absent lands neither
\* through its call, which is over, nor through a request of it in flight, whose
\* parent is not the head of the branch any more, and never is again.
LEMMA VerdictsHold ==
    TypeOK /\ LaneInv /\ ObjectInv /\ InflightInv /\ CallsInv /\ VerdictInv /\ Kinds
        => VerdictInv'
<1> SUFFICES ASSUME TypeOK, LaneInv, ObjectInv, InflightInv, CallsInv, VerdictInv, Kinds,
                    NEW c \in Commit
             PROVE  /\ verdict'[c] = "NONE" =>
                          /\ Created(c)' /\ c \notin Published'
                          /\ \A w \in Writer : ~Owns(w, c)'
                          /\ c \in inflight' =>
                                HeadOf(object[c].branch)' # object'[c].parent
                    /\ verdict'[c] \in {"APPENDED", "PRESENT"} => c \in Published'
  BY DEF VerdictInv
<1>1. Published \subseteq Published'
  <2>1. Quiet => Published' = Published
    BY WhatStaysPut DEF Quiet
  <2>2. ASSUME NEW w \in Writer, NEW d \in Commit, CreateCandidate(w, d)
        PROVE  Published' = Published
    BY <2>2, WhatMakingDoes, WhatStaysPut
  <2>3. ASSUME NEW d \in Commit, Lands(d) PROVE Published \subseteq Published'
    BY <2>3, WhatLandingDoes
  <2> QED
    BY <2>1, <2>2, <2>3, QuietMakesOrLands
\* A commit that is known to be absent stays absent.
<1>2. ASSUME Created(c), c \notin Published, \A w \in Writer : ~Owns(w, c),
             c \in inflight => HeadOf(object[c].branch) # object[c].parent
      PROVE  /\ Created(c)' /\ c \notin Published' /\ \A w \in Writer : ~Owns(w, c)'
             /\ c \in inflight' => HeadOf(object[c].branch)' # object'[c].parent
  <2>0. object[c].branch \in Branch
    BY <1>2 DEF TypeOK, Created, Object
  <2>1. \A w \in Writer : ~CreateCandidate(w, c)
    BY <1>2, WhatMakingDoes
  <2>2. \A w \in Writer : ~Owns(w, c)'
    BY <1>2, <2>1, OwnersStay
  <2>3. object'[c] = object[c]
    <3>1. Quiet => object'[c] = object[c]
      BY DEF Quiet
    <3>2. ASSUME NEW w \in Writer, NEW d \in Commit, CreateCandidate(w, d)
          PROVE  object'[c] = object[c]
      <4>1. d # c
        BY <2>1, <3>2
      <4> QED
        BY <3>2, <4>1, WhatMakingDoes
    <3>3. ASSUME NEW d \in Commit, Lands(d) PROVE object'[c] = object[c]
      BY <3>3 DEF Lands
    <3> QED
      BY <3>1, <3>2, <3>3, QuietMakesOrLands
  <2>4. c \in inflight' => c \in inflight
    <3>1. ASSUME NEW w \in Writer, NEW k, Loses(w, k) PROVE c # call[w].candidate
      BY <1>2, <3>1 DEF Loses, Owns, InPhase
    <3>2. ASSUME NEW w \in Writer, NEW k, Loses(w, k)
          PROVE  c \in inflight' => c \in inflight
      BY <3>1, <3>2 DEF Loses
    <3>3. ASSUME NEW d \in Commit, Lands(d) \/ Fades(d)
          PROVE  c \in inflight' => c \in inflight
      BY <3>3 DEF Lands, Fades
    <3>4. ASSUME NEW w \in Writer, NEW d \in Commit, CreateCandidate(w, d)
          PROVE  c \in inflight' => c \in inflight
      BY <3>4 DEF CreateCandidate
    <3> QED
      BY <3>2, <3>3, <3>4 DEF Kinds, Rests, Advances, Starts, GivesUp, Tells
  <2>5. ASSUME Lands(c) PROVE FALSE
    <3>1. c \in inflight \/ \E w \in Writer : Owns(w, c)
      BY <2>5 DEF Lands, Owns, InPhase
    <3>2. HeadOf(object[c].branch) = object[c].parent
      BY <2>5 DEF Lands
    <3> QED
      BY <1>2, <3>1, <3>2
  <2>6. c \notin Published'
    <3>1. Quiet => c \notin Published'
      BY <1>2, WhatStaysPut DEF Quiet
    <3>2. ASSUME NEW w \in Writer, NEW d \in Commit, CreateCandidate(w, d)
          PROVE  c \notin Published'
      BY <1>2, <3>2, WhatMakingDoes, WhatStaysPut
    <3>3. ASSUME NEW d \in Commit, Lands(d) PROVE c \notin Published'
      <4>1. d # c
        BY <2>5, <3>3
      <4> QED
        BY <1>2, <3>3, <4>1, WhatLandingDoes
    <3> QED
      BY <3>1, <3>2, <3>3, QuietMakesOrLands
  <2>7. ASSUME c \in inflight, NEW b \in Branch, b = object[c].branch
        PROVE  HeadOf(b)' # object[c].parent
    <3>1. lane' = lane => HeadOf(b)' # object[c].parent
      BY <1>2, <2>7, WhatStaysPut
    <3>2. ASSUME NEW d \in Commit, Lands(d) PROVE HeadOf(b)' # object[c].parent
      <4>1. CASE b = object[d].branch
        <5>1. d \notin Published
          BY <3>2 DEF Lands
        <5>2. ~InLane(d, b)
          BY <5>1 DEF Published
        <5>3. object[c].parent = Genesis \/ InLane(object[c].parent, b)
          BY <1>2, <2>7 DEF ObjectInv, WasHead
        <5>4. HeadOf(b)' = d
          BY <3>2, <4>1, WhatLandingDoes
        <5> QED
          BY <5>2, <5>3, <5>4, DistinctSentinels
      <4>2. CASE b # object[d].branch
        BY <1>2, <2>7, <3>2, <4>2, WhatLandingDoes
      <4> QED
        BY <4>1, <4>2
    <3> QED
      BY <3>1, <3>2, QuietMakesOrLands, WhatMakingDoes DEF Quiet
  <2>8. ASSUME c \in inflight' PROVE HeadOf(object[c].branch)' # object'[c].parent
    <3>1. PICK b \in Branch : b = object[c].branch
      BY <2>0
    <3>2. HeadOf(b)' # object[c].parent
      BY <2>4, <2>7, <2>8, <3>1
    <3>3. b = object'[c].branch
      BY <2>3, <3>1
    <3> QED
      BY <2>3, <3>2, <3>3 DEF HeadOf
  <2> QED
    BY <1>2, <2>2, <2>3, <2>6, <2>8 DEF Created
\* A step that tells of the commit ...
<1>3. ASSUME NEW w \in Writer, NEW v \in Verdict, Tells(w, v), c = call[w].candidate
      PROVE  /\ verdict'[c] = "NONE" =>
                   /\ Created(c)' /\ c \notin Published'
                   /\ \A u \in Writer : ~Owns(u, c)'
                   /\ c \in inflight' => HeadOf(object[c].branch)' # object'[c].parent
             /\ verdict'[c] \in {"APPENDED", "PRESENT"} => c \in Published'
  <2>0. verdict'[c] = v
    BY <1>3 DEF Tells, TypeOK
  <2>1. v \in {"APPENDED", "PRESENT"} => c \in Published'
    BY <1>1, <1>3 DEF Tells
  <2>2. ASSUME v = "NONE"
        PROVE  /\ Created(c)' /\ c \notin Published' /\ \A u \in Writer : ~Owns(u, c)'
               /\ c \in inflight' => HeadOf(object[c].branch)' # object'[c].parent
    <3>1. /\ Owns(w, c) /\ Created(c) /\ c \notin Published
          /\ c \in inflight => HeadOf(object[c].branch) # object[c].parent
      BY <1>3, <2>2 DEF Tells
    <3>2. Quiet /\ inflight' = inflight /\ Becomes(w, Idle)
      BY <1>3 DEF Tells
    <3>3. \A u \in Writer : ~Owns(u, c)'
      <4> SUFFICES ASSUME NEW u \in Writer, Owns(u, c)' PROVE FALSE
        OBVIOUS
      <4>1. ~CreateCandidate(u, c)
        BY <3>1, WhatMakingDoes
      <4>2. Owns(u, c)
        BY <4>1, OwnersStay
      <4>3. u = w
        BY <3>1, <4>2 DEF CallsInv
      <4>4. call'[w] = Idle
        BY <3>2 DEF Becomes, TypeOK
      <4> QED
        BY <4>3, <4>4 DEF Owns
    <3> QED
      BY <3>1, <3>2, <3>3 DEF Quiet, Created, Published, InLane, HeadOf
  <2> QED
    BY <2>0, <2>1, <2>2
\* ... and every other.
<1>4. ASSUME verdict'[c] = verdict[c]
      PROVE  /\ verdict'[c] = "NONE" =>
                   /\ Created(c)' /\ c \notin Published'
                   /\ \A u \in Writer : ~Owns(u, c)'
                   /\ c \in inflight' => HeadOf(object[c].branch)' # object'[c].parent
             /\ verdict'[c] \in {"APPENDED", "PRESENT"} => c \in Published'
  BY <1>1, <1>2, <1>4 DEF VerdictInv
<1>5. \/ verdict'[c] = verdict[c]
      \/ \E w \in Writer, v \in Verdict : Tells(w, v) /\ c = call[w].candidate
  <2>1. ASSUME NEW w \in Writer, NEW v \in Verdict, Tells(w, v), c # call[w].candidate
        PROVE  verdict'[c] = verdict[c]
    BY <2>1 DEF Tells, TypeOK
  <2>2. ASSUME NEW w \in Writer, NEW d \in Commit, CreateCandidate(w, d)
        PROVE  verdict'[c] = verdict[c]
    BY <2>2 DEF CreateCandidate
  <2> QED
    BY <2>1, <2>2 DEF Kinds, Rests, Advances, Starts, GivesUp, Loses, Lands, Fades
<1> QED
  BY <1>3, <1>4, <1>5

\* A message is cleared by the step of a call that finds its predecessor the tip.
LEMMA WhatClears ==
    ASSUME TypeOK, Kinds, NEW x, Cleared(x)'
    PROVE  \/ Cleared(x)
           \/ \E w \in Writer, k \in Call :
                 Advances(w, k) /\ k.phase = "objects" /\ k.content = x
<1> DEFINE Clears == \E w \in Writer, k \in Call :
                        Advances(w, k) /\ k.phase = "objects" /\ k.content = x
<1>1. ASSUME NEW c \in Commit, Created(c)', object'[c].content = x PROVE Cleared(x)
  <2>1. ASSUME object' = object PROVE Cleared(x)
    BY <1>1, <2>1 DEF Cleared, Created
  <2>2. ASSUME NEW w \in Writer, NEW d \in Commit, CreateCandidate(w, d) PROVE Cleared(x)
    <3>1. CASE c = d
      <4>1. object'[c] = [parent |-> call[w].expected, content |-> call[w].content,
                          branch |-> call[w].branch]
        BY <2>2, <3>1, WhatMakingDoes
      <4>2. call[w].content = x /\ InPhase(w, "objects")
        BY <1>1, <2>2, <4>1 DEF CreateCandidate
      <4> QED
        BY <4>2 DEF Cleared
    <3>2. CASE c # d
      <4>1. object'[c] = object[c] /\ Created(c)
        BY <1>1, <2>2, <3>2, WhatMakingDoes
      <4> QED
        BY <1>1, <4>1 DEF Cleared
    <3> QED
      BY <3>1, <3>2
  <2> QED
    BY <2>1, <2>2, QuietMakesOrLands DEF Quiet, Lands
<1>2. ASSUME NEW u \in Writer, InPhase(u, "objects")', call'[u].content = x
      PROVE  Cleared(x) \/ Clears
  <2>0. call'[u] # Idle /\ call'[u].phase = "objects"
    BY <1>2 DEF InPhase
  <2>1. ASSUME call'[u] = call[u] PROVE Cleared(x)
    BY <1>2, <2>0, <2>1 DEF Cleared, InPhase
  <2>2. ASSUME NEW w \in Writer, NEW k \in Call \cup {Idle}, Becomes(w, k)
        PROVE  Cleared(x) \/ (call'[w] = k /\ k # Idle /\ k.phase = "objects" /\ k.content = x)
    <3>1. call'[w] = k /\ \A v \in Writer \ {w} : call'[v] = call[v]
      BY <2>2, CallUpdate DEF Becomes
    <3>2. CASE u = w
      BY <1>2, <2>0, <3>1, <3>2
    <3>3. CASE u # w
      BY <2>1, <3>1, <3>3
    <3> QED
      BY <3>2, <3>3
  <2>reply. ASSUME NEW w \in Writer, InPhase(w, "update"), NEW r \in {"ERROR", "MOVED"},
                   Becomes(w, [call[w] EXCEPT !.phase = "reconcile", !.reply = r])
            PROVE  Cleared(x)
    <3>1. call[w] \in Call
      BY <2>reply, CallOf DEF InPhase
    <3>2. PICK k \in Call : k = [call[w] EXCEPT !.phase = "reconcile", !.reply = r]
      BY <3>1 DEF Call, Phase
    <3>3. k.phase = "reconcile" /\ Becomes(w, k)
      BY <2>reply, <3>1, <3>2 DEF Call
    <3> QED
      BY <2>2, <3>3
  <2>3. ASSUME NEW w \in Writer, NEW k \in Call, Advances(w, k) PROVE Cleared(x) \/ Clears
    BY <2>2, <2>3 DEF Advances
  <2>4. ASSUME NEW w \in Writer, NEW k \in Call, Starts(w, k) PROVE Cleared(x)
    BY <2>2, <2>4 DEF Starts
  <2>5. ASSUME NEW w \in Writer, NEW v, GivesUp(w) \/ Tells(w, v) PROVE Cleared(x)
    BY <2>2, <2>5 DEF GivesUp, Tells
  <2>6. ASSUME NEW w \in Writer, NEW k \in Call \cup {Idle}, Loses(w, k) PROVE Cleared(x)
    <3>1. CASE k = Idle
      BY <2>2, <2>6, <3>1 DEF Loses
    <3>2. CASE k # Idle
      <4>1. /\ InPhase(w, "update")
            /\ Becomes(w, [call[w] EXCEPT !.phase = "reconcile", !.reply = "ERROR"])
        BY <2>6, <3>2 DEF Loses
      <4> QED
        BY <4>1, <2>reply
    <3> QED
      BY <3>1, <3>2
  <2>7. ASSUME NEW w \in Writer, NEW d \in Commit, CreateCandidate(w, d) PROVE Cleared(x)
    <3>1. call[w] \in Call
      BY <2>7, CallOf, WhatMakingDoes
    <3>2. PICK k \in Call : k = [call[w] EXCEPT !.phase = "control", !.candidate = d]
      BY <3>1 DEF Call, Phase
    <3>3. k.phase = "control"
      BY <3>1, <3>2 DEF Call
    <3>4. Becomes(w, k)
      BY <2>7, <3>2 DEF CreateCandidate, Becomes
    <3> QED
      BY <2>2, <3>3, <3>4
  <2>8. ASSUME NEW d \in Commit, Lands(d) PROVE Cleared(x)
    <3>1. \/ call' = call
          \/ \E w \in Writer :
                /\ InPhase(w, "update")
                /\ Becomes(w, [call[w] EXCEPT !.phase = "reconcile", !.reply = "MOVED"])
      BY <2>8 DEF Lands
    <3> QED
      BY <2>1, <2>reply, <3>1
  <2> QED
    BY <2>1, <2>3, <2>4, <2>5, <2>6, <2>7, <2>8 DEF Kinds, Rests, Fades
<1> QED
  BY <1>1, <1>2 DEF Cleared

\* The ids keep their order; a new one comes after all others, its predecessor
\* among them.
LEMMA RanksHold ==
    TypeOK /\ LaneInv /\ RankInv /\ Kinds => RankInv'
<1> SUFFICES ASSUME TypeOK, LaneInv, RankInv, Kinds PROVE RankInv'
  OBVIOUS
<1>0. PICK t \in [Id -> Nat], n \in Nat : Ranks(t, n)
  BY DEF RankInv
<1>1. ASSUME PublishedIds' = PublishedIds,
             \A x \in Content : Cleared(x)' /\ PrevOf[x] # NoId =>
                 Cleared(x) \/ (PrevOf[x] \in PublishedIds /\ IdOf[x] \notin PublishedIds)
      PROVE  RankInv'
  <2>1. Ranks(t, n)'
    BY <1>0, <1>1 DEF Ranks
  <2> QED
    BY <2>1 DEF RankInv
<1>2. CASE Quiet
  <2>1. PublishedIds' = PublishedIds
    BY <1>2, WhatStaysPut DEF PublishedIds, Quiet, IdIn
  <2>2. ASSUME NEW w \in Writer, NEW k \in Call, Advances(w, k), k.phase = "objects",
               PrevOf[k.content] # NoId
        PROVE  PrevOf[k.content] \in PublishedIds /\ IdOf[k.content] \notin PublishedIds
    <3>1. Same(k.content) = {} /\ Tips = {PrevOf[k.content]}
      BY <2>2 DEF Advances
    <3> QED
      BY <3>1 DEF Same, Tips, PublishedIds
  <2> QED
    BY <1>1, <2>1, <2>2, WhatClears
<1>3. ASSUME NEW w \in Writer, NEW c \in Commit, CreateCandidate(w, c) PROVE RankInv'
  <2>1. Published' = Published
    BY <1>3, WhatMakingDoes, WhatStaysPut
  <2>2. \A d \in Published : IdIn(d)' = IdIn(d)
    <3>1. \A d \in Published : d \in Commit /\ d # c
      BY <1>3, PublishedAreCreated, WhatMakingDoes
    <3>2. \A d \in Published : object'[d] = object[d]
      BY <1>3, <3>1, WhatMakingDoes
    <3> QED
      BY <3>2 DEF IdIn
  <2>3. PublishedIds' = PublishedIds
    BY <2>1, <2>2 DEF PublishedIds
  <2>4. \A u \in Writer, k \in Call : ~Advances(u, k)
    BY <1>3, WhatMakingDoes, DistinctSentinels DEF Advances, Quiet, Created
  <2> QED
    BY <1>1, <2>3, <2>4, WhatClears
<1>4. ASSUME NEW c \in Commit, Lands(c) PROVE RankInv'
  <2>1. object' = object /\ Published' = Published \cup {c}
    BY <1>4, WhatLandingDoes DEF Lands
  <2>2. PICK id \in Id : id = IdIn(c)
    BY <1>4, MessagesParse DEF Lands, Created, TypeOK, Object, IdIn
  <2>3. PublishedIds' = PublishedIds \cup {id}
    BY <2>1, <2>2 DEF PublishedIds, IdIn
  <2>4. \A u \in Writer, k \in Call : ~Advances(u, k)
    <3>1. Published' # Published
      BY <1>4, <2>1 DEF Lands
    <3> QED
      BY <3>1, WhatStaysPut DEF Advances, Quiet
  <2>5. \A x : Cleared(x)' => Cleared(x)
    BY <2>4, WhatClears
  <2>6. CASE id \in PublishedIds
    BY <1>1, <2>3, <2>5, <2>6
  <2>7. CASE id \notin PublishedIds
    <3> DEFINE s == [t EXCEPT ![id] = n]
    <3>1. /\ s \in [Id -> Nat] /\ s[id] = n
          /\ \A m \in Id : m # id => s[m] = t[m]
      BY <1>0
    <3> HIDE DEF s
    <3>2. PublishedIds \subseteq Id
      BY PublishedAreCreated DEF PublishedIds
    <3>3. \A m \in PublishedIds : s[m] = t[m] /\ s[m] < n
      BY <1>0, <2>7, <3>1, <3>2 DEF Ranks
    <3>4. \A m \in PublishedIds' : s[m] < n + 1
      <4>1. n < n + 1
        BY <1>0
      <4>2. \A m \in PublishedIds : s[m] < n + 1
        BY <1>0, <3>1, <3>2, <3>3
      <4> QED
        BY <2>3, <3>1, <4>1, <4>2
    <3>5. \E m \in PublishedIds' : s[m] + 1 = n + 1
      BY <2>3, <3>1
    <3>6. ASSUME NEW x \in Content, Cleared(x)', PrevOf[x] # NoId
          PROVE  /\ PrevOf[x] \in PublishedIds'
                 /\ IdOf[x] \in PublishedIds' => s[PrevOf[x]] < s[IdOf[x]]
      <4>1. PrevOf[x] \in PublishedIds /\ (IdOf[x] \in PublishedIds => t[PrevOf[x]] < t[IdOf[x]])
        BY <1>0, <2>5, <3>6 DEF Ranks
      <4> QED
        BY <2>3, <3>1, <3>3, <4>1
    <3>7. Ranks(s, n + 1)'
      BY <3>4, <3>5, <3>6 DEF Ranks
    <3>8. n + 1 \in Nat
      BY <1>0
    <3> QED
      BY <3>1, <3>7, <3>8 DEF RankInv
  <2> QED
    BY <2>6, <2>7
<1> QED
  BY <1>2, <1>3, <1>4, QuietMakesOrLands

-----------------------------------------------------------------------------

\* The inductive invariant, with the types it needs.
LEMMA InvariantHolds == Spec => [](TypeOK /\ SafetyInv)
<1>1. Init => TypeOK /\ SafetyInv
  <2> SUFFICES ASSUME Init PROVE TypeOK /\ SafetyInv
    OBVIOUS
  <2>1. TypeOK
    <3>1. lane \in [Branch -> Seq(Commit)]
      BY DEF Init
    <3> QED
      BY <3>1 DEF Init, TypeOK, Verdict
  <2>2. \A b \in Branch : \A c : ~InLane(c, b)
    BY DEF Init, InLane
  <2>3. Published = {} /\ \A c \in Commit : ~Created(c)
    BY <2>2 DEF Published, Init, Created
  <2>4. \A w \in Writer : call[w] = Idle
    BY DEF Init
  <2>5. LaneInv /\ ObjectInv /\ InflightInv
    <3>1. \A b \in Branch : lane[b] = <<>>
      BY DEF Init
    <3>2. \A b \in Branch : \A i \in 1..Len(lane[b]) : FALSE
      BY <3>1
    <3> QED
      BY <2>2, <2>3, <3>2 DEF LaneInv, ObjectInv, InflightInv, Init
  <2>6. CallsInv /\ VerdictInv
    BY <2>4 DEF CallsInv, VerdictInv, Owns, Init
  <2>7. RankInv
    <3> DEFINE t == [i \in Id |-> 0]
    <3>1. t \in [Id -> Nat] /\ 0 \in Nat
      OBVIOUS
    <3>2. Ranks(t, 0)
      BY <2>3, <2>4 DEF Ranks, PublishedIds, Cleared, InPhase
    <3> QED
      BY <3>1, <3>2 DEF RankInv
  <2> QED
    BY <2>1, <2>5, <2>6, <2>7 DEF SafetyInv
<1>2. TypeOK /\ SafetyInv /\ [Next]_vars => TypeOK' /\ SafetyInv'
  <2> SUFFICES ASSUME TypeOK, SafetyInv, [Next]_vars PROVE TypeOK' /\ SafetyInv'
    OBVIOUS
  <2>1. Kinds /\ TypeOK'
    BY EveryStepIsOneOfThese, TypesHold DEF SafetyInv
  <2>2. LaneInv' /\ ObjectInv' /\ InflightInv'
    BY <2>1, LanesHold, ObjectsHold, RequestsHold DEF SafetyInv
  <2>3. CallsInv' /\ VerdictInv' /\ RankInv'
    BY <2>1, CallsHold, VerdictsHold, RanksHold DEF SafetyInv
  <2> QED
    BY <2>1, <2>2, <2>3 DEF SafetyInv
<1> QED
  BY <1>1, <1>2, PTL DEF Spec

\* The types of the state: a request in flight, and every ref update, is for a
\* commit that exists.
THEOREM TypeCorrect == Spec => []TypeOK
BY InvariantHolds, PTL

\* The effect_state that append_bus_message_v1 gives is true for good, for any
\* number of callers, retries, lost answers and moves of the identity: NONE
\* rests on the head having left the commit's parent, and lanes only grow.
THEOREM WhatCallersAreToldStaysTrue == Spec => []EffectStateHolds
<1>1. SafetyInv => EffectStateHolds
  BY DEF SafetyInv, VerdictInv, EffectStateHolds
<1> QED
  BY <1>1, InvariantHolds, PTL

\* _validate_predecessor and the non-force update together keep a lane one
\* thread: a commit lands only while the head its call read the history at is
\* still the head, so no other message took its id or its predecessor.
THEOREM LanesAreThreads == Spec => []LaneIsOneThread
<1>1. TypeOK /\ SafetyInv => LaneIsOneThread
  <2> SUFFICES ASSUME TypeOK, SafetyInv, NEW b \in Branch, NEW i \in 1..Len(lane[b])
               PROVE  /\ \A j \in 1..Len(lane[b]) \ {i} :
                             /\ IdIn(lane[b][i]) # IdIn(lane[b][j])
                             /\ PrevIn(lane[b][i]) # PrevIn(lane[b][j])
                      /\ PrevIn(lane[b][i]) # NoId =>
                             \E c \in Published :
                                 c # lane[b][i] /\ IdIn(c) = PrevIn(lane[b][i])
    BY DEF LaneIsOneThread, PrevIn
  <2>1. \A j \in 1..Len(lane[b]) : lane[b][j] \in Commit /\ InLane(lane[b][j], b)
    BY DEF TypeOK, InLane
  <2>2. ASSUME NEW j \in 1..Len(lane[b]), j # i
        PROVE  /\ IdIn(lane[b][i]) # IdIn(lane[b][j])
               /\ PrevIn(lane[b][i]) # PrevIn(lane[b][j])
    <3>1. lane[b][i] # lane[b][j]
      BY <2>2 DEF SafetyInv, LaneInv
    <3> QED
      BY <2>1, <3>1 DEF SafetyInv, LaneInv
  <2>3. ASSUME PrevIn(lane[b][i]) # NoId
        PROVE  \E c \in Published : c # lane[b][i] /\ IdIn(c) = PrevIn(lane[b][i])
    <3> DEFINE d == lane[b][i]
               x == object[d].content
    <3>1. d \in Published
      BY <2>1 DEF Published
    <3>2. x \in Content /\ Cleared(x) /\ PrevOf[x] # NoId /\ IdOf[x] \in PublishedIds
      BY <2>3, <3>1, PublishedAreCreated DEF SafetyInv, Cleared, PrevIn, IdIn
    <3>3. PICK t \in [Id -> Nat], n \in Nat : Ranks(t, n)
      BY DEF SafetyInv, RankInv
    <3>4. PrevOf[x] \in PublishedIds /\ t[PrevOf[x]] < t[IdOf[x]]
      BY <3>2, <3>3 DEF Ranks
    <3>5. PICK c \in Published : IdIn(c) = PrevOf[x]
      BY <3>4 DEF PublishedIds
    <3>6. c # d
      <4>1. IdOf[x] \in Id /\ t[IdOf[x]] \in Nat
        BY <3>2, <3>3, MessagesParse
      <4> QED
        BY <3>4, <3>5, <4>1 DEF IdIn
    <3> QED
      BY <3>5, <3>6 DEF PrevIn
  <2> QED
    BY <2>2, <2>3
<1> QED
  BY <1>1, InvariantHolds, PTL

\* append_branch_bound_bus_message_v1: a message that declares its branch goes
\* to that branch whatever the control snapshot says later, so every retry of it
\* meets the first attempt in the same lane, and a lane holds an id once.
THEOREM RetriesDoNotRepeat == Spec => []RetriesLandOnce
<1>1. TypeOK /\ SafetyInv => RetriesLandOnce
  <2> SUFFICES ASSUME TypeOK, SafetyInv, NEW c \in Published, NEW d \in Published,
                      object[c].content = object[d].content,
                      BranchOf[object[c].content] # Undeclared
               PROVE  c = d
    BY DEF RetriesLandOnce
  <2>1. /\ c \in Commit /\ Created(c) /\ d \in Commit /\ Created(d)
    BY PublishedAreCreated DEF SafetyInv
  <2>2. /\ object[c].branch = BranchOf[object[c].content]
        /\ object[d].branch = BranchOf[object[d].content]
    BY <2>1 DEF SafetyInv, ObjectInv, Declares
  <2>3. PICK b \in Branch : InLane(c, b)
    BY DEF Published
  <2>4. PICK a \in Branch : InLane(d, a)
    BY DEF Published
  <2>5. a = b
    BY <2>1, <2>2, <2>3, <2>4 DEF SafetyInv, LaneInv
  <2>6. IdIn(c) = IdIn(d)
    BY DEF IdIn
  <2> QED
    BY <2>1, <2>3, <2>4, <2>5, <2>6 DEF SafetyInv, LaneInv
<1> QED
  BY <1>1, InvariantHolds, PTL
=============================================================================
