--------------------------- MODULE ProviderProofs ---------------------------
(***************************************************************************)
(* Proofs about the two parts of the provider, which share no state:       *)
(* SqlProjectionJournal and MessagePlanes.                                 *)
(*                                                                         *)
(* What a transaction read under its locks is current when it writes, no   *)
(* two wait for one another, every message is projected exactly once, and  *)
(* the functions, interleaved statement by statement, implement the        *)
(* journal contract.  Assignments follow the messages in whatever order    *)
(* they arrive, every envelope is told, and acknowledgements rest on       *)
(* replies.                                                                *)
(***************************************************************************)
EXTENDS SqlProjectionJournal, MessagePlanes, FiniteSetTheorems, TLAPS

-----------------------------------------------------------------------------
(* The invariant.                                                          *)

FileState == Success \cup {"PENDING", "ABSENT"}

TypeOK ==
    /\ projected \in [Lane -> Base \cup {Unseeded}]
    /\ cut \in [Lane -> Cut \cup {NoCut}]
    /\ claim \in [BatchId -> Claim \cup {NoClaim}]
    /\ status \in [BatchId -> Status]
    /\ files \in [BatchId -> [Path -> FileState]]
    /\ plain \in [MsgId -> Content \cup {NoContent}]
    /\ qualified \subseteq MsgId \X Content
    /\ owner \in [Lock -> Txn \cup {Idle}]
    /\ tx \in [Txn -> Call \cup {Idle}]
    /\ clock \in Nat
    /\ answer \in BatchId \cup {NoBatch}
    /\ seed \in [Lane -> Base \cup {Unseeded}]
    /\ history \in [Lane -> Seq(BatchId)]

\* A batch that was claimed has its claim; one that was not has no files.
BatchInv ==
    \A b \in BatchId :
        /\ claim[b] = NoClaim <=> status[b] = "FREE"
        /\ status[b] = "FREE" => \A p \in Path : files[b][p] = "ABSENT"
        /\ status[b] = "CLAIMED" => projected[claim[b].lane] # Unseeded

\* A lane has at most one claim.
OneClaim ==
    \A a, b \in BatchId :
        /\ status[a] = "CLAIMED" /\ status[b] = "CLAIMED"
        /\ claim[a].lane = claim[b].lane
        => a = b

\* A call waits for its locks in order, and knows its batch from the start or
\* from the lock.
CallInv ==
    \A t \in Txn : Running(t) =>
        LET c == tx[t] IN
        /\ c.step = 4 => c.op = "project"
        /\ c.now <= clock
        /\ IF c.op = "claim" THEN c.step < 3 => c.batch = NoBatch
           ELSE c.batch \in BatchId /\ status[c.batch] # "FREE" /\ claim[c.batch].lane = c.lane

\* What the locks of a call protect.
MessageOf(t) == IdOf[Carried(t)]
LaneHeld(t) ==
    LET c == tx[t] IN
    /\ owner[c.lane] = t
    /\ projected[c.lane] # Unseeded
    /\ c.laneRow.head = projected[c.lane]
    /\ c.laneRow.cut = cut[c.lane]
BatchHeld(t) ==
    LET c == tx[t] IN
    IF c.batch = NoBatch THEN Claimed(c.lane) = {}
    ELSE /\ owner[c.batch] = t
         /\ c.batch \in BatchId
         /\ c.status = status[c.batch]
         /\ claim[c.batch].lane = c.lane
         /\ c.op = "claim" => c.status = "CLAIMED"
MessageHeld(t) ==
    /\ owner[MessageOf(t)] = t
    /\ tx[t].found = plain[MessageOf(t)]
    /\ Fenced(t)
    /\ FileOf(t) = "PENDING"
LockInv ==
    \A t \in Txn : Running(t) =>
        /\ tx[t].step >= 2 => LaneHeld(t)
        /\ tx[t].step >= 3 => BatchHeld(t)
        /\ tx[t].step = 4 => MessageHeld(t)

\* Who owns a lock has taken it, and those before it.
Rank(k) == IF k \in Lane THEN 1 ELSE IF k \in BatchId THEN 2 ELSE 3
OwnerInv ==
    \A k \in Lock, t \in Txn : owner[k] = t => Running(t) /\ tx[t].step > Rank(k)

\* A message is stored under its own id, or under a qualified one because that
\* is taken.
StoreInv ==
    /\ \A m \in MsgId : plain[m] # NoContent => IdOf[plain[m]] = m
    /\ \A q \in qualified :
           q[1] = IdOf[q[2]] /\ plain[q[1]] # NoContent /\ plain[q[1]] # q[2]

\* A file is successful if its content is stored, and one file stored it.
StoredContent(c) == plain[IdOf[c]] = c \/ Qualified(c) \in qualified
CarriedBy(b, p) == Carries[claim[b].lane][p]
FileInv ==
    /\ \A b \in BatchId, p \in Path : files[b][p] \in Success => StoredContent(CarriedBy(b, p))
    /\ \A a, b \in BatchId, p, q \in Path :
           /\ files[a][p] = "PROJECTED" /\ files[b][q] = "PROJECTED"
           /\ CarriedBy(a, p) = CarriedBy(b, q)
           => a = b /\ p = q
    /\ \A c \in Content : StoredContent(c) =>
           \E b \in BatchId, p \in Path : files[b][p] = "PROJECTED" /\ CarriedBy(b, p) = c

SafetyInv == BatchInv /\ OneClaim /\ CallInv /\ LockInv /\ OwnerInv /\ StoreInv /\ FileInv

-----------------------------------------------------------------------------
(* The locks of a call, by its step.                                       *)

\* What a running call is made of.
LEMMA CallFacts ==
    ASSUME TypeOK, NEW t \in Txn, Running(t)
    PROVE  /\ tx[t] \in Call
           /\ tx[t].op \in {"claim", "project", "finalize"}
           /\ tx[t].lane \in Lane
           /\ tx[t].batch \in BatchId \cup {NoBatch}
           /\ tx[t].path \in Path
           /\ tx[t].now \in Nat
           /\ tx[t].step \in 1..4
           /\ tx[t].laneRow \in LaneRow
           /\ tx[t].status \in Status
           /\ tx[t].found \in Content \cup {NoContent}
<1>1. tx[t] \in Call
  BY DEF TypeOK, Running
<1> QED
  BY <1>1 DEF Call

\* Each function reaches a lock or its body at one step (Order, the sequence of
\* the FOR UPDATE statements).
LEMMA StepFacts ==
    ASSUME TypeOK, CallInv, NEW t \in Txn, Running(t)
    PROVE  /\ Holds(t, "lane") <=> tx[t].step >= 2
           /\ Holds(t, "batch") <=> tx[t].step >= 3
           /\ Holds(t, "message") <=> tx[t].step = 4
           /\ AtLock(t, "lane") <=> tx[t].step = 1
           /\ AtLock(t, "batch") <=> tx[t].step = 2
           /\ AtLock(t, "message") <=> (tx[t].step = 3 /\ tx[t].op = "project")
           /\ AtBody(t, "claim") <=> (tx[t].step = 3 /\ tx[t].op = "claim")
           /\ AtBody(t, "finalize") <=> (tx[t].step = 3 /\ tx[t].op = "finalize")
           /\ AtBody(t, "project") <=> (tx[t].step = 4 /\ tx[t].op = "project")
<1>1. /\ tx[t].step \in 1..4
      /\ tx[t].op \in {"claim", "project", "finalize"}
      /\ tx[t].step = 4 => tx[t].op = "project"
  BY CallFacts DEF CallInv
<1> DEFINE o == Order(tx[t].op)
           n == tx[t].step
<1>2. CASE tx[t].op = "project"
  <2>1. /\ Len(o) = 3 /\ o[1] = "lane" /\ o[2] = "batch" /\ o[3] = "message"
        /\ Len(Order("project")) = 3
    BY <1>2 DEF Order
  <2>2. \A k : Holds(t, k) <=> \E i \in 1..(n - 1) : o[i] = k
    BY DEF Holds
  <2>3. \A k : AtLock(t, k) <=> n <= 3 /\ o[n] = k
    BY <2>1 DEF AtLock
  <2>4. /\ AtBody(t, "project") <=> n = 4
        /\ ~AtBody(t, "claim") /\ ~AtBody(t, "finalize")
    <3>1. AtBody(t, "project") <=> tx[t].step = Len(Order("project")) + 1
      BY <1>2 DEF AtBody
    <3>2. ~AtBody(t, "claim") /\ ~AtBody(t, "finalize")
      BY <1>2 DEF AtBody
    <3>3. Len(Order("project")) + 1 = 4
      BY DEF Order
    <3> HIDE DEF o
    <3> QED
      BY ONLY <3>1, <3>2, <3>3 DEF n
  <2>5. /\ Holds(t, "lane") <=> n >= 2
        /\ Holds(t, "batch") <=> n >= 3
        /\ Holds(t, "message") <=> n = 4
    <3> HIDE DEF o, n
    <3> QED
      BY ONLY <1>1, <2>1, <2>2 DEF n
  <2>6. /\ AtLock(t, "lane") <=> n = 1
        /\ AtLock(t, "batch") <=> n = 2
        /\ AtLock(t, "message") <=> n = 3
    <3> HIDE DEF o, n
    <3> QED
      BY ONLY <1>1, <2>1, <2>3 DEF n
  <2> QED
    BY <1>1, <1>2, <2>4, <2>5, <2>6
<1>3. CASE tx[t].op # "project"
  <2>1. /\ Len(o) = 2 /\ o[1] = "lane" /\ o[2] = "batch"
        /\ Len(Order("claim")) = 2 /\ Len(Order("finalize")) = 2
    BY <1>3 DEF Order
  <2>2. \A k : Holds(t, k) <=> \E i \in 1..(n - 1) : o[i] = k
    BY DEF Holds
  <2>3. \A k : AtLock(t, k) <=> n <= 2 /\ o[n] = k
    BY <2>1 DEF AtLock
  <2>4. /\ AtBody(t, "claim") <=> (n = 3 /\ tx[t].op = "claim")
        /\ AtBody(t, "finalize") <=> (n = 3 /\ tx[t].op = "finalize")
        /\ ~AtBody(t, "project")
    <3>1. /\ AtBody(t, "claim") <=> tx[t].op = "claim" /\ tx[t].step = Len(Order("claim")) + 1
          /\ AtBody(t, "finalize") <=> tx[t].op = "finalize" /\ tx[t].step = Len(Order("finalize")) + 1
      BY DEF AtBody
    <3>2. ~AtBody(t, "project")
      BY <1>3 DEF AtBody
    <3>3. Len(Order("claim")) + 1 = 3 /\ Len(Order("finalize")) + 1 = 3
      BY DEF Order
    <3> HIDE DEF o
    <3> QED
      BY ONLY <3>1, <3>2, <3>3 DEF n
  <2>5. n \in 1..3
    BY <1>1, <1>3
  <2>6. /\ Holds(t, "lane") <=> n >= 2
        /\ Holds(t, "batch") <=> n >= 3
        /\ ~Holds(t, "message")
    <3> HIDE DEF o, n
    <3> QED
      BY ONLY <2>1, <2>2, <2>5
  <2>7. /\ AtLock(t, "lane") <=> n = 1
        /\ AtLock(t, "batch") <=> n = 2
        /\ ~AtLock(t, "message")
    <3> HIDE DEF o, n
    <3> QED
      BY ONLY <2>1, <2>3, <2>5
  <2> QED
    BY <1>1, <1>3, <2>4, <2>5, <2>6, <2>7
<1> QED
  BY <1>2, <1>3

\* The end of a transaction frees its locks and no other.
LEMMA EndFacts ==
    ASSUME TypeOK, NEW t \in Txn, End(t)
    PROVE  /\ tx'[t] = Idle
           /\ \A u \in Txn : u # t => tx'[u] = tx[u]
           /\ \A k \in Lock : owner'[k] = IF owner[k] = t THEN Idle ELSE owner[k]
           /\ tx' \in [Txn -> Call \cup {Idle}]
           /\ owner' \in [Lock -> Txn \cup {Idle}]
BY DEF End, TypeOK

-----------------------------------------------------------------------------
(* Types.                                                                  *)

\* The initial state is well typed and satisfies the invariant.
LEMMA InitHolds == Init => TypeOK /\ SafetyInv
<1> SUFFICES ASSUME Init PROVE TypeOK /\ SafetyInv
  OBVIOUS
<1>1. TypeOK
  <2>1. history \in [Lane -> Seq(BatchId)]
    BY DEF Init
  <2> QED
    BY <2>1, LeasesPositive DEF Init, TypeOK, FileState, Status, Base
<1>2. BatchInv
  BY DEF Init, BatchInv
<1>3. OneClaim
  BY DEF Init, OneClaim
<1>4. CallInv /\ LockInv
  BY DEF Init, CallInv, LockInv, Running
<1>5. OwnerInv
  BY DistinctSentinels DEF Init, OwnerInv
<1>6. StoreInv
  BY DEF Init, StoreInv
<1>7. FileInv
  <2>1. \A c \in Content : ~StoredContent(c)
    BY DistinctSentinels, FilesCarryMessages DEF Init, StoredContent, Qualified
  <2> QED
    BY <2>1 DEF Init, FileInv, Success
<1> QED
  BY <1>1, <1>2, <1>3, <1>4, <1>5, <1>6, <1>7 DEF SafetyInv

\* A call that took a lock is a call.
LEMMA CallWith ==
    ASSUME NEW c \in Call, NEW s \in 1..4
    PROVE  /\ \A r \in LaneRow : [c EXCEPT !.step = s, !.laneRow = r] \in Call
           /\ \A b \in BatchId \cup {NoBatch}, st \in Status :
                 [c EXCEPT !.step = s, !.batch = b, !.status = st] \in Call
           /\ \A f \in Content \cup {NoContent} :
                 [c EXCEPT !.step = s, !.found = f] \in Call
BY DEF Call

\* What a call is when it has taken the lock of its lane.
LEMMA LaneStep ==
    ASSUME TypeOK, CallInv, NEW t \in Txn, LockLane(t)
    PROVE  /\ Running(t) /\ tx[t] \in Call /\ tx[t].step = 1
           /\ tx'[t] \in Call /\ tx'[t].step = 2
           /\ tx'[t].op = tx[t].op /\ tx'[t].lane = tx[t].lane /\ tx'[t].now = tx[t].now
           /\ tx'[t].batch = tx[t].batch
           /\ tx'[t].laneRow = [head |-> projected[tx[t].lane], cut |-> cut[tx[t].lane]]
           /\ \A u \in Txn : u # t => tx'[u] = tx[u]
           /\ tx' \in [Txn -> Call \cup {Idle}]
           /\ owner' \in [Lock -> Txn \cup {Idle}]
<1> DEFINE r == [head |-> projected[tx[t].lane], cut |-> cut[tx[t].lane]]
           n == tx[t].step + 1
           k == [tx[t] EXCEPT !.step = n, !.laneRow = r]
<1>1. Running(t) /\ tx[t] \in Call /\ tx[t].step = 1
  BY StepFacts, CallFacts DEF LockLane, AtLock
<1>2. r \in LaneRow /\ n = 2
  BY <1>1 DEF TypeOK, LaneRow, LockLane, Call
<1>3. tx' = [tx EXCEPT ![t] = k]
  BY DEF LockLane
<1>4. /\ k \in Call /\ k.step = n /\ k.laneRow = r
      /\ k.op = tx[t].op /\ k.lane = tx[t].lane /\ k.now = tx[t].now
      /\ k.batch = tx[t].batch
  <2>1. n \in 1..4
    BY <1>2
  <2> HIDE DEF r, n
  <2> QED
    BY <1>1, <1>2, <2>1, CallWith DEF Call
<1>5. owner' \in [Lock -> Txn \cup {Idle}]
  BY DEF LockLane, TypeOK
<1> HIDE DEF k, n
<1> QED
  BY <1>1, <1>2, <1>3, <1>4, <1>5 DEF TypeOK

\* What it is when it has taken the lock of its batch.
LEMMA BatchStep ==
    ASSUME TypeOK, CallInv, NEW t \in Txn, NEW b \in BatchId \cup {NoBatch}, LockBatch(t, b)
    PROVE  /\ Running(t) /\ tx[t] \in Call /\ tx[t].step = 2
           /\ tx'[t] \in Call /\ tx'[t].step = 3
           /\ tx'[t].op = tx[t].op /\ tx'[t].lane = tx[t].lane /\ tx'[t].now = tx[t].now
           /\ tx'[t].batch = b
           /\ tx'[t].laneRow = tx[t].laneRow
           /\ tx'[t].status = IF b = NoBatch THEN "FREE" ELSE status[b]
           /\ \A u \in Txn : u # t => tx'[u] = tx[u]
           /\ tx' \in [Txn -> Call \cup {Idle}]
           /\ owner' \in [Lock -> Txn \cup {Idle}]
<1> DEFINE st == IF b = NoBatch THEN "FREE" ELSE status[b]
           n == tx[t].step + 1
           k == [tx[t] EXCEPT !.step = n, !.batch = b, !.status = st]
<1>1. Running(t) /\ tx[t] \in Call /\ tx[t].step = 2
  BY StepFacts, CallFacts DEF LockBatch, AtLock
<1>2. st \in Status /\ n = 3
  BY <1>1 DEF TypeOK, Status
<1>3. tx' = [tx EXCEPT ![t] = k]
  BY DEF LockBatch
<1>4. /\ k \in Call /\ k.step = n /\ k.laneRow = tx[t].laneRow
      /\ k.op = tx[t].op /\ k.lane = tx[t].lane /\ k.now = tx[t].now
      /\ k.batch = b /\ k.status = st
  <2>1. n \in 1..4
    BY <1>2
  <2> HIDE DEF st, n
  <2> QED
    BY <1>1, <1>2, <2>1, CallWith DEF Call
<1>5. owner' \in [Lock -> Txn \cup {Idle}]
  BY DEF LockBatch, TypeOK
<1> HIDE DEF k, n
<1> QED
  BY <1>1, <1>2, <1>3, <1>4, <1>5 DEF TypeOK

\* What it is when it has taken the lock of its message.
LEMMA MessageStep ==
    ASSUME TypeOK, CallInv, NEW t \in Txn, LockMessage(t)
    PROVE  /\ Running(t) /\ tx[t] \in Call /\ tx[t].step = 3 /\ tx[t].op = "project"
           /\ tx'[t] \in Call /\ tx'[t].step = 4
           /\ tx'[t].op = tx[t].op /\ tx'[t].lane = tx[t].lane /\ tx'[t].now = tx[t].now
           /\ tx'[t].batch = tx[t].batch /\ tx'[t].path = tx[t].path
           /\ tx'[t].laneRow = tx[t].laneRow /\ tx'[t].status = tx[t].status
           /\ tx'[t].found = plain[MessageOf(t)] /\ MessageOf(t) \in MsgId
           /\ \A u \in Txn : u # t => tx'[u] = tx[u]
           /\ tx' \in [Txn -> Call \cup {Idle}]
           /\ owner' \in [Lock -> Txn \cup {Idle}]
<1> DEFINE f == plain[MessageOf(t)]
           n == tx[t].step + 1
           k == [tx[t] EXCEPT !.step = n, !.found = f]
<1>1. Running(t) /\ tx[t] \in Call /\ tx[t].step = 3 /\ tx[t].op = "project"
  BY StepFacts, CallFacts DEF LockMessage, AtLock
<1>2. MessageOf(t) \in MsgId
  BY <1>1, FilesCarryMessages DEF Call, Carried, MessageOf
<1>3. f \in Content \cup {NoContent} /\ n = 4
  BY <1>1, <1>2 DEF TypeOK
<1>4. tx' = [tx EXCEPT ![t] = k] /\ owner' = [owner EXCEPT ![MessageOf(t)] = t]
  BY DEF LockMessage, MessageOf
<1>5. /\ k \in Call /\ k.step = n /\ k.laneRow = tx[t].laneRow
      /\ k.op = tx[t].op /\ k.lane = tx[t].lane /\ k.now = tx[t].now
      /\ k.batch = tx[t].batch /\ k.status = tx[t].status /\ k.path = tx[t].path
      /\ k.found = f
  <2>1. n \in 1..4
    BY <1>3
  <2> HIDE DEF f, n
  <2> QED
    BY <1>1, <1>3, <2>1, CallWith DEF Call
<1>6. owner' \in [Lock -> Txn \cup {Idle}]
  BY <1>4 DEF TypeOK
<1> HIDE DEF k, n
<1> QED
  BY <1>1, <1>2, <1>3, <1>4, <1>5, <1>6 DEF TypeOK

\* Every step keeps the types.
LEMMA TypesHold == TypeOK /\ BatchInv /\ CallInv /\ LockInv /\ [Next]_vars => TypeOK'
<1> SUFFICES ASSUME TypeOK, BatchInv, CallInv, LockInv, [Next]_vars PROVE TypeOK'
  OBVIOUS
<1>1. CASE UNCHANGED vars
  BY <1>1 DEF TypeOK, vars, rows
<1>2. ASSUME NEW l \in Lane, NEW h \in Base, SeedLane(l, h) PROVE TypeOK'
  BY <1>2 DEF TypeOK, SeedLane
<1>3. ASSUME NEW l \in Lane, NEW c \in Cut, SetControlCut(l, c) PROVE TypeOK'
  BY <1>3 DEF TypeOK, SetControlCut
<1>4. ASSUME NEW t \in Txn, NEW op \in {"claim", "project", "finalize"}, NEW l \in Lane,
             NEW b \in BatchId \cup {NoBatch}, NEW p \in Path, Begin(t, op, l, b, p)
      PROVE  TypeOK'
  <2>1. [op |-> op, lane |-> l, batch |-> b, path |-> p, now |-> clock,
         step |-> 1, laneRow |-> [head |-> NoHead, cut |-> NoCut],
         status |-> "FREE", found |-> NoContent] \in Call
    BY DEF TypeOK, Call, LaneRow, Base, Status
  <2> QED
    BY <1>4, <2>1 DEF TypeOK, Begin, rows
<1>5. ASSUME NEW t \in Txn, LockLane(t) PROVE TypeOK'
  BY <1>5, LaneStep DEF TypeOK, LockLane, rows
<1>6. ASSUME NEW t \in Txn, NEW b \in BatchId \cup {NoBatch}, LockBatch(t, b) PROVE TypeOK'
  BY <1>6, BatchStep DEF TypeOK, LockBatch, rows
<1>7. ASSUME NEW t \in Txn, LockMessage(t) PROVE TypeOK'
  BY <1>7, MessageStep DEF TypeOK, LockMessage, rows
<1>8. ASSUME NEW t \in Txn, NEW target \in Sha, NEW c \in Cut, NEW ps \in SUBSET Path,
             NEW b \in BatchId, NEW lease \in Lease, ClaimBatch(t, target, c, ps, b, lease)
      PROVE  TypeOK'
  <2>1. tx[t] \in Call
    BY <1>8, CallFacts DEF ClaimBatch, AtBody
  <2>2. [lane |-> tx[t].lane, expected |-> tx[t].laneRow.head,
         target |-> target, cut |-> c, lease |-> tx[t].now + lease] \in Claim
    BY <2>1, LeasesPositive DEF Call, Claim, LaneRow
  <2>3. claim' \in [BatchId -> Claim \cup {NoClaim}]
    BY <1>8, <2>2 DEF TypeOK, ClaimBatch
  <2>4. status' \in [BatchId -> Status]
    BY <1>8 DEF TypeOK, ClaimBatch, Status
  <2>5. [p \in Path |-> IF p \in ps THEN "PENDING" ELSE "ABSENT"] \in [Path -> FileState]
    BY DEF FileState
  <2>6. files' \in [BatchId -> [Path -> FileState]]
    BY <1>8, <2>5 DEF TypeOK, ClaimBatch
  <2>7. End(t)
    BY <1>8 DEF ClaimBatch
  <2> QED
    BY <1>8, <2>3, <2>4, <2>6, <2>7, EndFacts DEF TypeOK, ClaimBatch
<1>9. ASSUME NEW t \in Txn, ProjectFile(t) PROVE TypeOK'
  <2> DEFINE c == Carried(t)
  <2>1. Running(t) /\ tx[t] \in Call
    BY <1>9, CallFacts DEF ProjectFile, AtBody
  <2>2. c \in Content /\ IdOf[c] \in MsgId
    BY <2>1, FilesCarryMessages DEF Call, Carried
  <2>3. plain' \in [MsgId -> Content \cup {NoContent}] /\ qualified' \subseteq MsgId \X Content
    <3>1. \/ UNCHANGED <<plain, qualified>>
          \/ plain' = [plain EXCEPT ![IdOf[c]] = c] /\ UNCHANGED qualified
          \/ qualified' = qualified \cup {<<IdOf[c], c>>} /\ UNCHANGED plain
      BY <1>9 DEF ProjectFile, Store, Qualified
    <3> HIDE DEF c
    <3> QED
      BY <2>2, <3>1 DEF TypeOK
  <2>4. files' \in [BatchId -> [Path -> FileState]]
    <3> DEFINE b == tx[t].batch
               f(r) == [files[b] EXCEPT ![tx[t].path] = r]
    <3>1. \E r \in Success : files' = [files EXCEPT ![b] = f(r)]
      BY <1>9 DEF ProjectFile, Success
    <3>2. \A r \in Success : b \in BatchId => f(r) \in [Path -> FileState]
      BY DEF TypeOK, FileState
    <3> HIDE DEF f
    <3> QED
      BY <3>1, <3>2 DEF TypeOK
  <2>5. End(t)
    BY <1>9 DEF ProjectFile
  <2> QED
    BY <1>9, <2>3, <2>4, <2>5, EndFacts DEF TypeOK, ProjectFile
<1>10. ASSUME NEW t \in Txn, ProjectFileAgain(t) PROVE TypeOK'
  BY <1>10, EndFacts DEF TypeOK, ProjectFileAgain, rows
<1>11. ASSUME NEW t \in Txn, FinalizeBatch(t) PROVE TypeOK'
  <2> DEFINE b == tx[t].batch
             l == tx[t].lane
  <2>1. Running(t) /\ tx[t] \in Call /\ tx[t].step = 3 /\ tx[t].op = "finalize"
    BY <1>11, CallFacts, StepFacts DEF FinalizeBatch, AtBody
  <2>2. b \in BatchId /\ l \in Lane /\ claim[b] \in Claim
    <3>1. b \in BatchId /\ l \in Lane
      BY <2>1 DEF CallInv, Call
    <3>2. BatchHeld(t)
      BY <2>1 DEF LockInv
    <3>3. status[b] = "CLAIMED"
      BY <1>11, <3>1, <3>2, DistinctSentinels DEF FinalizeBatch, Fenced, BatchHeld
    <3>4. claim[b] # NoClaim
      BY <3>1, <3>3 DEF BatchInv
    <3> QED
      BY <3>1, <3>4 DEF TypeOK
  <2>3. projected' \in [Lane -> Base \cup {Unseeded}]
    <3>1. claim[b].target \in Base /\ projected' = [projected EXCEPT ![l] = claim[b].target]
      BY <1>11, <2>2 DEF FinalizeBatch, Claim, Base
    <3> QED
      BY <3>1 DEF TypeOK
  <2>4. status' \in [BatchId -> Status]
    BY <1>11 DEF TypeOK, FinalizeBatch, Status
  <2>5. history' \in [Lane -> Seq(BatchId)]
    <3>1. history' = [history EXCEPT ![l] = Append(history[l], b)]
      BY <1>11 DEF FinalizeBatch
    <3>2. Append(history[l], b) \in Seq(BatchId)
      BY <2>2 DEF TypeOK
    <3> HIDE DEF l, b
    <3> QED
      BY <3>1, <3>2 DEF TypeOK
  <2>6. answer' = b /\ End(t)
    BY <1>11 DEF FinalizeBatch
  <2> QED
    BY <1>11, <2>2, <2>3, <2>4, <2>5, <2>6, EndFacts DEF TypeOK, FinalizeBatch
<1>12. ASSUME NEW t \in Txn, FinalizeAgain(t) PROVE TypeOK'
  <2>1. tx[t].batch \in BatchId \cup {NoBatch} /\ End(t)
    BY <1>12, CallFacts DEF FinalizeAgain, AtBody
  <2> QED
    BY <1>12, <2>1, EndFacts DEF TypeOK, FinalizeAgain, rows
<1>13. ASSUME NEW t \in Txn, Abort(t) PROVE TypeOK'
  BY <1>13, EndFacts DEF TypeOK, Abort, rows
<1>14. CASE Tick
  BY <1>14 DEF TypeOK, Tick, rows
<1> QED
  BY <1>1, <1>2, <1>3, <1>4, <1>5, <1>6, <1>7, <1>8, <1>9, <1>10, <1>11, <1>12, <1>13, <1>14
     DEF Next

-----------------------------------------------------------------------------
(* A step of one call leaves alone what the locks of another protect.      *)

\* What the steps of call u rest on stays as it is.
Undisturbed(u) ==
    LET c == tx[u] IN
    /\ tx'[u] = c
    /\ \A k \in Lock : owner[k] = u => owner'[k] = u
    /\ c.step >= 2 =>
          /\ projected'[c.lane] = projected[c.lane]
          /\ cut'[c.lane] = cut[c.lane]
          /\ Claimed(c.lane)' = Claimed(c.lane)
    /\ c.step >= 3 /\ c.batch # NoBatch =>
          /\ status'[c.batch] = status[c.batch]
          /\ claim'[c.batch] = claim[c.batch]
          /\ files'[c.batch] = files[c.batch]
    /\ c.step = 4 => plain'[MessageOf(u)] = plain[MessageOf(u)]

\* The steps of call t.
TxnStep(t) ==
    \/ \E op \in {"claim", "project", "finalize"}, l \in Lane,
          b \in BatchId \cup {NoBatch}, p \in Path : Begin(t, op, l, b, p)
    \/ LockLane(t)
    \/ \E b \in BatchId \cup {NoBatch} : LockBatch(t, b)
    \/ LockMessage(t)
    \/ \E target \in Sha, c \in Cut, ps \in SUBSET Path, b \in BatchId, lease \in Lease :
          ClaimBatch(t, target, c, ps, b, lease)
    \/ ProjectFile(t)
    \/ ProjectFileAgain(t)
    \/ FinalizeBatch(t)
    \/ FinalizeAgain(t)
    \/ Abort(t)

\* The steps of nobody.
OtherStep ==
    \/ \E l \in Lane, h \in Base : SeedLane(l, h)
    \/ \E l \in Lane, c \in Cut : SetControlCut(l, c)
    \/ Tick
    \/ UNCHANGED vars

\* Every step is a step of a call, or of nobody.
LEMMA StepsOfCalls == [Next]_vars <=> (\E t \in Txn : TxnStep(t)) \/ OtherStep
BY DEF Next, TxnStep, OtherStep

\* A call begins, takes a lock, or ends; meanwhile the clock stands still.
LEMMA CallStep ==
    ASSUME NEW t \in Txn, TxnStep(t)
    PROVE  /\ \/ \E op \in {"claim", "project", "finalize"}, l \in Lane,
                    b \in BatchId \cup {NoBatch}, p \in Path : Begin(t, op, l, b, p)
              \/ LockLane(t)
              \/ \E b \in BatchId \cup {NoBatch} : LockBatch(t, b)
              \/ LockMessage(t)
              \/ End(t)
           /\ clock' = clock
<1>1. ASSUME NEW target \in Sha, NEW c \in Cut, NEW ps \in SUBSET Path, NEW b \in BatchId,
             NEW lease \in Lease, ClaimBatch(t, target, c, ps, b, lease)
      PROVE  End(t) /\ clock' = clock
  BY <1>1 DEF ClaimBatch
<1>2. ProjectFile(t) => End(t) /\ clock' = clock
  BY DEF ProjectFile
<1>3. FinalizeBatch(t) => End(t) /\ clock' = clock
  BY DEF FinalizeBatch
<1>4. ProjectFileAgain(t) \/ FinalizeAgain(t) \/ Abort(t) => End(t) /\ clock' = clock
  BY DEF ProjectFileAgain, FinalizeAgain, Abort
<1>5. /\ \A op \in {"claim", "project", "finalize"}, l \in Lane,
            b \in BatchId \cup {NoBatch}, p \in Path : Begin(t, op, l, b, p) => clock' = clock
      /\ LockLane(t) \/ LockMessage(t) => clock' = clock
      /\ \A b \in BatchId \cup {NoBatch} : LockBatch(t, b) => clock' = clock
  BY DEF Begin, LockLane, LockBatch, LockMessage
<1> QED
  BY <1>1, <1>2, <1>3, <1>4, <1>5 DEF TxnStep

\* It touches no other call.
LEMMA OtherCallsStay ==
    ASSUME TypeOK, NEW t \in Txn, TxnStep(t), NEW u \in Txn, u # t
    PROVE  tx'[u] = tx[u]
<1>1. ASSUME End(t) PROVE tx'[u] = tx[u]
  BY <1>1, EndFacts
<1>2. ASSUME NEW op \in {"claim", "project", "finalize"}, NEW l \in Lane,
             NEW b \in BatchId \cup {NoBatch}, NEW p \in Path, Begin(t, op, l, b, p)
      PROVE  tx'[u] = tx[u]
  BY <1>2 DEF Begin, TypeOK
<1>3. ASSUME LockLane(t) PROVE tx'[u] = tx[u]
  BY <1>3 DEF LockLane, TypeOK
<1>4. ASSUME NEW b \in BatchId \cup {NoBatch}, LockBatch(t, b) PROVE tx'[u] = tx[u]
  BY <1>4 DEF LockBatch, TypeOK
<1>5. ASSUME LockMessage(t) PROVE tx'[u] = tx[u]
  BY <1>5 DEF LockMessage, TypeOK
<1> QED
  BY <1>1, <1>2, <1>3, <1>4, <1>5, CallStep

LockedInv == TypeOK /\ BatchInv /\ CallInv /\ LockInv /\ OwnerInv

\* The batch a call has locked is a claimed one of its lane, or has been.
LEMMA LockedBatch ==
    ASSUME LockedInv, NEW t \in Txn, Running(t), tx[t].step >= 3, tx[t].batch # NoBatch
    PROVE  /\ tx[t].batch \in BatchId
           /\ status[tx[t].batch] # "FREE"
           /\ claim[tx[t].batch] \in Claim
           /\ claim[tx[t].batch].lane = tx[t].lane
           /\ tx[t].status = status[tx[t].batch]
           /\ owner[tx[t].batch] = t
<1>1. /\ tx[t].batch \in BatchId
      /\ claim[tx[t].batch].lane = tx[t].lane
      /\ tx[t].status = status[tx[t].batch]
      /\ owner[tx[t].batch] = t
      /\ tx[t].op = "claim" => tx[t].status = "CLAIMED"
  BY DEF LockedInv, LockInv, BatchHeld
<1>2. status[tx[t].batch] # "FREE"
  BY <1>1 DEF LockedInv, CallInv
<1>3. claim[tx[t].batch] \in Claim
  BY <1>1, <1>2 DEF LockedInv, TypeOK, BatchInv
<1> QED
  BY <1>1, <1>2, <1>3

\* A call that has the lane or a message has it alone.
LEMMA LockedLane ==
    ASSUME LockedInv, NEW t \in Txn, Running(t), tx[t].step >= 2
    PROVE  /\ owner[tx[t].lane] = t
           /\ tx[t].lane \in Lane
           /\ projected[tx[t].lane] # Unseeded
           /\ tx[t].laneRow.head = projected[tx[t].lane]
           /\ tx[t].laneRow.cut = cut[tx[t].lane]
BY CallFacts DEF LockedInv, LockInv, LaneHeld

\* The message of a call is one of the message ids.
LEMMA MessageFacts ==
    ASSUME LockedInv, NEW t \in Txn, Running(t)
    PROVE  /\ Carried(t) \in Content
           /\ MessageOf(t) \in MsgId
           /\ tx[t].step = 4 =>
                 /\ owner[MessageOf(t)] = t
                 /\ tx[t].found = plain[MessageOf(t)]
                 /\ Fenced(t)
                 /\ FileOf(t) = "PENDING"
                 /\ tx[t].op = "project"
                 /\ tx[t].batch # NoBatch
<1>1. Carried(t) \in Content /\ MessageOf(t) \in MsgId
  BY CallFacts, FilesCarryMessages DEF LockedInv, Carried, MessageOf
<1>2. ASSUME tx[t].step = 4 PROVE MessageHeld(t) /\ tx[t].op = "project"
  BY <1>2 DEF LockedInv, LockInv, CallInv
<1>3. ASSUME tx[t].step = 4 PROVE tx[t].batch # NoBatch
  BY <1>2, <1>3, DistinctSentinels DEF LockedInv, CallInv
<1> QED
  BY <1>1, <1>2, <1>3 DEF MessageHeld

\* The steps of others leave a call undisturbed.
LEMMA OthersLeaveItAlone ==
    ASSUME LockedInv, NEW t \in Txn, TxnStep(t), NEW u \in Txn, u # t, Running(u)
    PROVE  Undisturbed(u)
<1>1. ASSUME UNCHANGED rows, tx'[u] = tx[u],
             \A k \in Lock : owner[k] = u => owner'[k] = u
      PROVE  Undisturbed(u)
  BY <1>1 DEF Undisturbed, rows, Claimed
<1>2. ASSUME NEW op \in {"claim", "project", "finalize"}, NEW l \in Lane,
             NEW b \in BatchId \cup {NoBatch}, NEW p \in Path, Begin(t, op, l, b, p)
      PROVE  Undisturbed(u)
  <2>1. tx'[u] = tx[u] /\ UNCHANGED <<rows, owner>>
    BY <1>2 DEF LockedInv, TypeOK, Begin
  <2> QED
    BY <1>1, <2>1
<1>3. ASSUME LockLane(t) PROVE Undisturbed(u)
  <2>1. Running(t) /\ tx[t].lane \in Lane
    BY <1>3, CallFacts DEF LockLane, AtLock, LockedInv
  <2>2. tx'[u] = tx[u] /\ UNCHANGED rows
    BY <1>3 DEF LockedInv, TypeOK, LockLane
  <2>3. \A k \in Lock : owner[k] = u => owner'[k] = u
    BY <1>3, <2>1, DistinctSentinels DEF LockLane, LaneIsFree, LockedInv, TypeOK, Lock
  <2> QED
    BY <1>1, <2>2, <2>3
<1>4. ASSUME NEW b \in BatchId \cup {NoBatch}, LockBatch(t, b) PROVE Undisturbed(u)
  <2>1. tx'[u] = tx[u] /\ UNCHANGED rows
    BY <1>4 DEF LockedInv, TypeOK, LockBatch
  <2>2. \A k \in Lock : owner[k] = u => owner'[k] = u
    BY <1>4, DistinctSentinels DEF LockBatch, LockedInv, TypeOK, Lock
  <2> QED
    BY <1>1, <2>1, <2>2
<1>5. ASSUME LockMessage(t) PROVE Undisturbed(u)
  <2>1. tx'[u] = tx[u] /\ UNCHANGED rows
    BY <1>5 DEF LockedInv, TypeOK, LockMessage
  <2>2. \A k \in Lock : owner[k] = u => owner'[k] = u
    BY <1>5, DistinctSentinels DEF LockMessage, MessageIsFree, LockedInv, TypeOK, Lock
  <2> QED
    BY <1>1, <2>1, <2>2
<1>6. ASSUME End(t)
      PROVE  tx'[u] = tx[u] /\ \A k \in Lock : owner[k] = u => owner'[k] = u
  BY <1>6, EndFacts DEF LockedInv
<1>7. ASSUME NEW target \in Sha, NEW c \in Cut, NEW ps \in SUBSET Path, NEW b \in BatchId,
             NEW lease \in Lease, ClaimBatch(t, target, c, ps, b, lease)
      PROVE  Undisturbed(u)
  <2> DEFINE l == tx[t].lane
             k == tx[u].lane
  <2>1. Running(t) /\ tx[t].step = 3
    BY <1>7, StepFacts DEF ClaimBatch, AtBody, LockedInv
  <2>2. /\ End(t) /\ UNCHANGED <<projected, cut, plain>>
        /\ status[b] = "FREE"
        /\ claim'[b].lane = l
        /\ \A x \in BatchId : x # b => claim'[x] = claim[x] /\ files'[x] = files[x]
        /\ status'[b] = "CLAIMED"
        /\ \A x \in BatchId : x # b /\ x # tx[t].batch => status'[x] = status[x]
    BY <1>7 DEF ClaimBatch, LockedInv, TypeOK
  <2>3. tx[t].batch # NoBatch => tx[t].batch \in BatchId /\ claim[tx[t].batch].lane = l
    BY <2>1, LockedBatch
  <2>4. \A x \in BatchId : x # b /\ x = tx[t].batch => status'[x] = "STALE" /\ status[x] = "CLAIMED"
    <3>1. \A x \in BatchId : x # b /\ x = tx[t].batch => status'[x] = "STALE"
      BY <1>7 DEF ClaimBatch
    <3>2. tx[t].batch \in BatchId => status[tx[t].batch] = "CLAIMED"
      <4>1. tx[t].op = "claim"
        BY <1>7 DEF ClaimBatch, AtBody
      <4>2. tx[t].step >= 3
        BY <2>1
      <4> QED
        BY <2>1, <4>1, <4>2, DistinctSentinels DEF LockedInv, LockInv, BatchHeld
    <3> QED
      BY <3>1, <3>2
  <2>5. ASSUME tx[u].step >= 2
        PROVE  k # l /\ Claimed(k)' = Claimed(k)
    <3>1. k # l
      BY <2>1, <2>5, LockedLane
    <3>2. \A x \in BatchId : claim'[x].lane = k <=> (claim[x].lane = k /\ x # b) \/ (x = b /\ FALSE)
      BY <2>2, <3>1
    <3>3. \A x \in BatchId : claim[x].lane = k /\ x # b => status'[x] = status[x]
      BY <2>2, <2>3, <3>1, DistinctSentinels
    <3>4. \A x \in BatchId : (status'[x] = "CLAIMED" /\ claim'[x].lane = k)
                               <=> (status[x] = "CLAIMED" /\ claim[x].lane = k)
      BY <2>2, <3>1, <3>3
    <3>5. tx'[u] = tx[u]
      BY <1>6, <2>2
    <3> QED
      BY <3>1, <3>4, <3>5 DEF Claimed
  <2>6. ASSUME tx[u].step >= 3, tx[u].batch # NoBatch
        PROVE  /\ status'[tx[u].batch] = status[tx[u].batch]
               /\ claim'[tx[u].batch] = claim[tx[u].batch]
               /\ files'[tx[u].batch] = files[tx[u].batch]
    <3>1. /\ tx[u].batch \in BatchId
          /\ tx[u].batch # b
          /\ claim[tx[u].batch].lane = k
      BY <2>2, <2>6, LockedBatch
    <3>2. k # l
      BY <2>5, <2>6, CallFacts DEF LockedInv
    <3> QED
      BY <2>2, <2>3, <3>1, <3>2, DistinctSentinels
  <2>7. plain' = plain /\ projected' = projected /\ cut' = cut
    BY <2>2
  <2>8. tx'[u] = tx[u] /\ \A x \in Lock : owner[x] = u => owner'[x] = u
    BY <1>6, <2>2
  <2> QED
    BY <2>5, <2>6, <2>7, <2>8 DEF Undisturbed
<1>8. ASSUME ProjectFile(t) PROVE Undisturbed(u)
  <2>1. Running(t) /\ tx[t].step = 4
    BY <1>8, StepFacts DEF ProjectFile, AtBody, LockedInv
  <2>2. /\ End(t) /\ UNCHANGED <<projected, cut, claim, status>>
        /\ \A x \in BatchId : x # tx[t].batch => files'[x] = files[x]
    BY <1>8 DEF ProjectFile, LockedInv, TypeOK
  <2>3. \A m \in MsgId : m # MessageOf(t) => plain'[m] = plain[m]
    BY <1>8 DEF ProjectFile, Store, MessageOf, LockedInv, TypeOK
  <2>4. tx[u].step = 4 => plain'[MessageOf(u)] = plain[MessageOf(u)]
    BY <2>1, <2>3, MessageFacts
  <2>5. tx[u].step >= 3 /\ tx[u].batch # NoBatch => files'[tx[u].batch] = files[tx[u].batch]
    <3>1. owner[tx[t].batch] = t
      BY <2>1, LockedBatch, MessageFacts
    <3> QED
      BY <2>2, <3>1, LockedBatch
  <2>6. tx'[u] = tx[u] /\ \A x \in Lock : owner[x] = u => owner'[x] = u
    BY <1>6, <2>2
  <2>7. Claimed(tx[u].lane)' = Claimed(tx[u].lane)
    BY <2>2, <2>6 DEF Claimed
  <2> QED
    BY <2>2, <2>4, <2>5, <2>6, <2>7 DEF Undisturbed
<1>9. ASSUME ProjectFileAgain(t) PROVE Undisturbed(u)
  BY <1>1, <1>6, <1>9 DEF ProjectFileAgain
<1>10. ASSUME FinalizeBatch(t) PROVE Undisturbed(u)
  <2> DEFINE l == tx[t].lane
             k == tx[u].lane
             b == tx[t].batch
  <2>1. Running(t) /\ tx[t].step = 3
    BY <1>10, StepFacts DEF FinalizeBatch, AtBody, LockedInv
  <2>2. b \in BatchId /\ claim[b].lane = l
    <3>1. b # NoBatch
      BY <1>10, DistinctSentinels DEF FinalizeBatch, AtBody, LockedInv, CallInv
    <3> QED
      BY <2>1, <3>1, LockedBatch
  <2>3. /\ End(t) /\ UNCHANGED <<cut, plain, claim, files>>
        /\ \A x \in Lane : x # l => projected'[x] = projected[x]
        /\ \A x \in BatchId : x # b => status'[x] = status[x]
    BY <1>10 DEF FinalizeBatch, LockedInv, TypeOK
  <2>4. ASSUME tx[u].step >= 2
        PROVE  k \in Lane /\ k # l /\ Claimed(k)' = Claimed(k)
    <3>1. k \in Lane /\ k # l
      BY <2>1, <2>4, LockedLane
    <3>2. \A x \in BatchId : (status'[x] = "CLAIMED" /\ claim'[x].lane = k)
                               <=> (status[x] = "CLAIMED" /\ claim[x].lane = k)
      BY <2>2, <2>3, <3>1
    <3>3. tx'[u] = tx[u]
      BY <1>6, <2>3
    <3> QED
      BY <3>1, <3>2, <3>3 DEF Claimed
  <2>5. ASSUME tx[u].step >= 3, tx[u].batch # NoBatch
        PROVE  status'[tx[u].batch] = status[tx[u].batch]
    <3>1. tx[u].batch \in BatchId /\ claim[tx[u].batch].lane = k
      BY <2>5, LockedBatch
    <3>2. k # l
      BY <2>4, <2>5, CallFacts DEF LockedInv
    <3> QED
      BY <2>2, <2>3, <3>1, <3>2
  <2>6. tx'[u] = tx[u] /\ \A x \in Lock : owner[x] = u => owner'[x] = u
    BY <1>6, <2>3
  <2> QED
    BY <2>3, <2>4, <2>5, <2>6 DEF Undisturbed
<1>11. ASSUME FinalizeAgain(t) PROVE Undisturbed(u)
  BY <1>1, <1>6, <1>11 DEF FinalizeAgain
<1>12. ASSUME Abort(t) PROVE Undisturbed(u)
  BY <1>1, <1>6, <1>12 DEF Abort
<1> QED
  BY <1>2, <1>3, <1>4, <1>5, <1>7, <1>8, <1>9, <1>10, <1>11, <1>12 DEF TxnStep

\* So do the steps of nobody: a lane row is seeded once, and its cut is set only
\* when nobody has it.
LEMMA NobodyDisturbs ==
    ASSUME LockedInv, OtherStep, NEW u \in Txn, Running(u)
    PROVE  Undisturbed(u)
<1>1. ASSUME NEW l \in Lane, NEW h \in Base, SeedLane(l, h) PROVE Undisturbed(u)
  <2>1. /\ projected[l] = Unseeded
        /\ UNCHANGED <<cut, claim, status, files, plain, owner, tx>>
        /\ \A x \in Lane : x # l => projected'[x] = projected[x]
    BY <1>1 DEF SeedLane, LockedInv, TypeOK
  <2>2. tx[u].step >= 2 => projected'[tx[u].lane] = projected[tx[u].lane]
    BY <2>1, LockedLane
  <2> QED
    BY <2>1, <2>2 DEF Undisturbed, Claimed
<1>2. ASSUME NEW l \in Lane, NEW c \in Cut, SetControlCut(l, c) PROVE Undisturbed(u)
  <2>1. /\ owner[l] = Idle
        /\ UNCHANGED <<projected, claim, status, files, plain, owner, tx>>
        /\ \A x \in Lane : x # l => cut'[x] = cut[x]
    BY <1>2 DEF SetControlCut, LockedInv, TypeOK
  <2>2. tx[u].step >= 2 => cut'[tx[u].lane] = cut[tx[u].lane]
    BY <2>1, LockedLane, DistinctSentinels
  <2> QED
    BY <2>1, <2>2 DEF Undisturbed, Claimed
<1>3. CASE Tick
  BY <1>3 DEF Tick, rows, Undisturbed, Claimed
<1>4. CASE UNCHANGED vars
  BY <1>4 DEF vars, rows, Undisturbed, Claimed
<1> QED
  BY <1>1, <1>2, <1>3, <1>4 DEF OtherStep

\* Who is not disturbed keeps what it has locked.
LEMMA UndisturbedKeepsLocks ==
    ASSUME LockedInv, NEW u \in Txn, Running(u), Undisturbed(u)
    PROVE  /\ tx[u].step >= 2 => LaneHeld(u)'
           /\ tx[u].step >= 3 => BatchHeld(u)'
           /\ tx[u].step = 4 => MessageHeld(u)'
<1> DEFINE c == tx[u]
<1>1. /\ tx'[u] = c
      /\ \A k \in Lock : owner[k] = u => owner'[k] = u
      /\ c.step >= 2 =>
            /\ projected'[c.lane] = projected[c.lane]
            /\ cut'[c.lane] = cut[c.lane]
            /\ Claimed(c.lane)' = Claimed(c.lane)
      /\ c.step >= 3 /\ c.batch # NoBatch =>
            /\ status'[c.batch] = status[c.batch]
            /\ claim'[c.batch] = claim[c.batch]
            /\ files'[c.batch] = files[c.batch]
      /\ c.step = 4 => plain'[MessageOf(u)] = plain[MessageOf(u)]
  BY DEF Undisturbed
<1>2. MessageOf(u)' = MessageOf(u)
  BY <1>1 DEF MessageOf, Carried
<1>3. ASSUME c.step >= 2 PROVE LaneHeld(u)'
  BY <1>1, <1>3, LockedLane DEF LaneHeld, Lock
<1>4. ASSUME c.step >= 3 PROVE BatchHeld(u)'
  <2>1. BatchHeld(u) /\ c.step >= 2
    BY <1>4, CallFacts DEF LockedInv, LockInv
  <2>2. CASE c.batch = NoBatch
    BY <1>1, <2>1, <2>2 DEF BatchHeld
  <2>3. CASE c.batch # NoBatch
    BY <1>1, <1>4, <2>1, <2>3 DEF BatchHeld, Lock
  <2> QED
    BY <2>2, <2>3
<1>5. ASSUME c.step = 4 PROVE MessageHeld(u)'
  <2>1. /\ owner[MessageOf(u)] = u /\ c.found = plain[MessageOf(u)]
        /\ MessageOf(u) \in MsgId /\ c.batch # NoBatch
        /\ Fenced(u) /\ FileOf(u) = "PENDING"
    BY <1>5, MessageFacts
  <2>2. claim'[c.batch] = claim[c.batch] /\ files'[c.batch] = files[c.batch]
    BY <1>1, <1>5, <2>1
  <2>3. Fenced(u)' /\ FileOf(u)' = "PENDING"
    BY <1>1, <2>1, <2>2 DEF Fenced, FileOf
  <2>4. owner'[MessageOf(u)] = u /\ plain'[MessageOf(u)] = plain[MessageOf(u)]
    BY <1>1, <1>5, <2>1 DEF Lock
  <2> QED
    BY <1>1, <1>2, <2>1, <2>3, <2>4 DEF MessageHeld
<1> QED
  BY <1>3, <1>4, <1>5

\* Whoever locks reads what it locked.
LEMMA LockInvHolds == LockedInv /\ [Next]_vars => LockInv'
<1> SUFFICES ASSUME LockedInv, [Next]_vars, NEW u \in Txn, Running(u)'
             PROVE  /\ tx'[u].step >= 2 => LaneHeld(u)'
                    /\ tx'[u].step >= 3 => BatchHeld(u)'
                    /\ tx'[u].step = 4 => MessageHeld(u)'
  BY DEF LockInv
<1> DEFINE Goal == /\ tx'[u].step >= 2 => LaneHeld(u)'
                   /\ tx'[u].step >= 3 => BatchHeld(u)'
                   /\ tx'[u].step = 4 => MessageHeld(u)'
<1>1. ASSUME Undisturbed(u), Running(u) PROVE Goal
  BY <1>1, UndisturbedKeepsLocks DEF Undisturbed
<1>2. ASSUME ~Running(u), NEW t \in Txn, TxnStep(t), u # t PROVE FALSE
  <2>1. tx'[u] = tx[u]
    BY <1>2, OtherCallsStay DEF LockedInv
  <2> QED
    BY <1>2, <2>1 DEF Running
<1>3. ASSUME ~Running(u), OtherStep PROVE FALSE
  BY <1>3 DEF OtherStep, SeedLane, SetControlCut, Tick, vars, Running
<1>4. ASSUME TxnStep(u) PROVE Goal
  <2>1. ASSUME NEW op \in {"claim", "project", "finalize"}, NEW l \in Lane,
               NEW b \in BatchId \cup {NoBatch}, NEW p \in Path, Begin(u, op, l, b, p)
        PROVE  Goal
    <3>1. tx'[u].step = 1
      BY <2>1 DEF Begin, LockedInv, TypeOK
    <3> QED
      BY <3>1
  <2>2. ASSUME LockLane(u) PROVE Goal
    <3>1. Running(u) /\ tx[u].step = 1 /\ tx[u] \in Call
      BY <2>2, StepFacts, CallFacts DEF LockLane, AtLock, LockedInv
    <3>2. /\ tx'[u].step = 2 /\ tx'[u].lane = tx[u].lane
          /\ tx'[u].laneRow = [head |-> projected[tx[u].lane], cut |-> cut[tx[u].lane]]
          /\ tx[u].lane \in Lane
      BY <2>2, <3>1 DEF LockLane, LockedInv, TypeOK, Call
    <3>3. LaneHeld(u)'
      BY <2>2, <3>2 DEF LockLane, LaneHeld, rows, LockedInv, TypeOK, Lock
    <3> QED
      BY <3>2, <3>3
  <2>3. ASSUME NEW b \in BatchId \cup {NoBatch}, LockBatch(u, b) PROVE Goal
    <3>1. Running(u) /\ tx[u].step = 2 /\ tx[u] \in Call
      BY <2>3, StepFacts, CallFacts DEF LockBatch, AtLock, LockedInv
    <3> DEFINE st == IF b = NoBatch THEN "FREE" ELSE status[b]
    <3>2. /\ tx'[u].step = 3 /\ tx'[u].lane = tx[u].lane /\ tx'[u].op = tx[u].op
          /\ tx'[u].laneRow = tx[u].laneRow /\ tx'[u].batch = b /\ tx'[u].status = st
      BY <2>3, <3>1 DEF LockBatch, LockedInv, TypeOK, Call
    <3>3. /\ UNCHANGED rows
          /\ b # NoBatch => owner'[b] = u
          /\ \A k \in Lock : owner[k] = u => owner'[k] = u
      BY <2>3 DEF LockBatch, LockedInv, TypeOK, Lock
    <3>4. LaneHeld(u)'
      BY <3>1, <3>2, <3>3, LockedLane DEF LaneHeld, rows, Lock
    <3>5. BatchHeld(u)'
      <4>1. CASE b = NoBatch
        <5>1. Claimed(tx[u].lane) = {}
          BY <2>3, <3>1, <4>1, DistinctSentinels DEF LockBatch, LockedInv, CallInv, Claimed
        <5> QED
          BY <3>2, <3>3, <4>1, <5>1 DEF BatchHeld, Claimed, rows
      <4>2. CASE b # NoBatch
        <5>1. tx[u].op = "claim" => b \in Claimed(tx[u].lane)
          BY <2>3, <4>2 DEF LockBatch
        <5>2. tx[u].op # "claim" => claim[b].lane = tx[u].lane
          BY <2>3, <3>1 DEF LockBatch, LockedInv, CallInv
        <5> QED
          BY <3>2, <3>3, <4>2, <5>1, <5>2 DEF BatchHeld, Claimed, rows
      <4> QED
        BY <4>1, <4>2
    <3> QED
      BY <3>2, <3>4, <3>5
  <2>4. ASSUME LockMessage(u) PROVE Goal
    <3>1. /\ Running(u) /\ tx[u] \in Call /\ tx[u].step = 3 /\ tx[u].op = "project"
          /\ MessageOf(u) \in MsgId
      BY <2>4, StepFacts, CallFacts, MessageFacts DEF LockMessage, AtLock, LockedInv
    <3>2. /\ tx'[u].step = 4 /\ tx'[u].lane = tx[u].lane /\ tx'[u].op = tx[u].op
          /\ tx'[u].laneRow = tx[u].laneRow /\ tx'[u].batch = tx[u].batch
          /\ tx'[u].status = tx[u].status /\ tx'[u].path = tx[u].path
          /\ tx'[u].now = tx[u].now /\ tx'[u].found = plain[MessageOf(u)]
      BY <2>4, <3>1 DEF LockMessage, MessageOf, LockedInv, TypeOK, Call
    <3>3. /\ UNCHANGED rows
          /\ owner'[MessageOf(u)] = u
          /\ \A k \in Lock : owner[k] = u => owner'[k] = u
      BY <2>4, <3>1 DEF LockMessage, MessageOf, LockedInv, TypeOK, Lock
    <3>4. LaneHeld(u)'
      BY <3>1, <3>2, <3>3, LockedLane DEF LaneHeld, rows, Lock
    <3>5. BatchHeld(u)'
      <4>1. BatchHeld(u)
        BY <3>1 DEF LockedInv, LockInv
      <4> QED
        BY <3>2, <3>3, <4>1 DEF BatchHeld, Claimed, rows, Lock
    <3>6. MessageHeld(u)'
      <4>1. MessageOf(u)' = MessageOf(u) /\ FileOf(u)' = FileOf(u)
        BY <3>2, <3>3 DEF MessageOf, Carried, FileOf, rows
      <4>2. Fenced(u)'
        BY <2>4, <3>2, <3>3 DEF LockMessage, Fenced, rows
      <4> QED
        BY <2>4, <3>2, <3>3, <4>1, <4>2 DEF LockMessage, MessageHeld, rows
    <3> QED
      BY <3>4, <3>5, <3>6
  <2>5. ASSUME End(u) PROVE FALSE
    BY <2>5, EndFacts DEF Running, LockedInv
  <2> QED
    BY <1>4, <2>1, <2>2, <2>3, <2>4, <2>5, CallStep
<1> QED
  BY <1>1, <1>2, <1>3, <1>4, StepsOfCalls, OthersLeaveItAlone, NobodyDisturbs

-----------------------------------------------------------------------------
(* Batches and calls.                                                      *)

\* The rows are changed by the bodies of three functions, and by the two calls
\* of one statement.
LEMMA WhatChangesRows ==
    [Next]_vars =>
        \/ UNCHANGED rows
        \/ \E l \in Lane, h \in Base : SeedLane(l, h)
        \/ \E l \in Lane, c \in Cut : SetControlCut(l, c)
        \/ \E t \in Txn, target \in Sha, c \in Cut, ps \in SUBSET Path, b \in BatchId,
              lease \in Lease : ClaimBatch(t, target, c, ps, b, lease)
        \/ \E t \in Txn : ProjectFile(t)
        \/ \E t \in Txn : FinalizeBatch(t)
BY DEF Next, Tick, Begin, LockLane, LockBatch, LockMessage, ProjectFileAgain, FinalizeAgain,
       Abort, rows, vars

\* A claim that was made stays: a batch is never free again, and what it claims
\* does not change.
LEMMA ClaimsStay ==
    ASSUME LockedInv, [Next]_vars, NEW b \in BatchId, status[b] # "FREE"
    PROVE  status'[b] # "FREE" /\ claim'[b] = claim[b]
<1> DEFINE Goal == status'[b] # "FREE" /\ claim'[b] = claim[b]
<1>1. ASSUME NEW t \in Txn, NEW target \in Sha, NEW c \in Cut, NEW ps \in SUBSET Path,
             NEW x \in BatchId, NEW lease \in Lease, ClaimBatch(t, target, c, ps, x, lease)
      PROVE  Goal
  BY <1>1 DEF ClaimBatch, LockedInv, TypeOK
<1>2. ASSUME NEW t \in Txn, FinalizeBatch(t) PROVE Goal
  BY <1>2 DEF FinalizeBatch, LockedInv, TypeOK
<1>3. ASSUME UNCHANGED <<claim, status>> PROVE Goal
  BY <1>3
<1> QED
  BY <1>1, <1>2, <1>3, WhatChangesRows DEF SeedLane, SetControlCut, ProjectFile, rows

\* The body of a call that locked a claimed batch.
LEMMA BodyFacts ==
    ASSUME LockedInv, NEW t \in Txn, Running(t), tx[t].step >= 3, tx[t].batch # NoBatch,
           tx[t].status = "CLAIMED"
    PROVE  tx[t].batch \in Claimed(tx[t].lane)
BY LockedBatch DEF Claimed

\* A batch is free until it is claimed, on a seeded lane.
LEMMA BatchInvHolds == LockedInv /\ [Next]_vars => BatchInv'
<1> SUFFICES ASSUME LockedInv, [Next]_vars PROVE BatchInv'
  OBVIOUS
<1>1. ASSUME NEW l \in Lane, NEW h \in Base, SeedLane(l, h) PROVE BatchInv'
  <2>1. \A x \in Lane : projected[x] # Unseeded => projected'[x] # Unseeded
    BY <1>1 DEF SeedLane, LockedInv, TypeOK
  <2>2. \A b \in BatchId : status[b] = "CLAIMED" => claim[b].lane \in Lane
    BY DEF LockedInv, BatchInv, TypeOK, Claim
  <2> QED
    BY <1>1, <2>1, <2>2 DEF BatchInv, SeedLane, LockedInv
<1>2. ASSUME UNCHANGED <<projected, claim, status, files>> PROVE BatchInv'
  BY <1>2 DEF BatchInv, LockedInv
<1>3. ASSUME NEW t \in Txn, NEW target \in Sha, NEW c \in Cut, NEW ps \in SUBSET Path,
             NEW b \in BatchId, NEW lease \in Lease, ClaimBatch(t, target, c, ps, b, lease)
      PROVE  BatchInv'
  <2>1. Running(t) /\ tx[t].step = 3
    BY <1>3, StepFacts DEF ClaimBatch, AtBody, LockedInv
  <2>2. projected[tx[t].lane] # Unseeded /\ tx[t] \in Call
    BY <2>1, LockedLane, CallFacts DEF LockedInv
  <2>3. /\ claim'[b].lane = tx[t].lane
        /\ claim'[b] \in Claim
        /\ status'[b] = "CLAIMED"
        /\ projected' = projected
    <3>1. [lane |-> tx[t].lane, expected |-> tx[t].laneRow.head,
           target |-> target, cut |-> c, lease |-> tx[t].now + lease] \in Claim
      BY <2>2, LeasesPositive DEF Call, Claim, LaneRow
    <3> QED
      BY <1>3, <3>1 DEF ClaimBatch, LockedInv, TypeOK
  <2>4. \A x \in BatchId : x # b =>
          /\ claim'[x] = claim[x] /\ files'[x] = files[x]
          /\ status'[x] = status[x] \/ (status'[x] = "STALE" /\ x = tx[t].batch)
    BY <1>3 DEF ClaimBatch, LockedInv, TypeOK
  <2>5. tx[t].batch \in BatchId => status[tx[t].batch] # "FREE"
    BY <2>1, LockedBatch, DistinctSentinels
  <2> QED
    BY <2>2, <2>3, <2>4, <2>5, DistinctSentinels DEF BatchInv, LockedInv
<1>4. ASSUME NEW t \in Txn, ProjectFile(t) PROVE BatchInv'
  <2>1. tx[t].batch \in BatchId => status[tx[t].batch] # "FREE"
    BY <1>4, DistinctSentinels DEF ProjectFile, AtBody, LockedInv, CallInv
  <2>2. /\ UNCHANGED <<projected, claim, status>>
        /\ \A x \in BatchId : x # tx[t].batch => files'[x] = files[x]
    BY <1>4 DEF ProjectFile, LockedInv, TypeOK
  <2> QED
    BY <2>1, <2>2 DEF BatchInv, LockedInv
<1>5. ASSUME NEW t \in Txn, FinalizeBatch(t) PROVE BatchInv'
  <2> DEFINE b == tx[t].batch
  <2>1. b \in BatchId /\ status[b] # "FREE"
    BY <1>5 DEF FinalizeBatch, AtBody, LockedInv, CallInv
  <2>2. claim[b].target \in Sha /\ tx[t].lane \in Lane
    BY <1>5, <2>1, CallFacts DEF FinalizeBatch, AtBody, LockedInv, BatchInv, TypeOK, Claim
  <2>3. /\ UNCHANGED <<claim, files>>
        /\ \A x \in BatchId : status'[x] = status[x] \/ (x = b /\ status'[x] = "COMPLETE")
        /\ \A x \in Lane : projected'[x] \in {projected[x], claim[b].target}
    BY <1>5, <2>1 DEF FinalizeBatch, LockedInv, TypeOK
  <2>4. \A x \in Lane : projected[x] # Unseeded => projected'[x] # Unseeded
    BY <2>2, <2>3, DistinctSentinels
  <2>5. \A x \in BatchId : status[x] = "CLAIMED" => claim[x].lane \in Lane
    BY DEF LockedInv, BatchInv, TypeOK, Claim
  <2> QED
    BY <2>1, <2>3, <2>4, <2>5 DEF BatchInv, LockedInv
<1> QED
  BY <1>1, <1>2, <1>3, <1>4, <1>5, WhatChangesRows DEF SetControlCut, rows

\* A claim on a lane replaces the one the lane has.
LEMMA OneClaimHolds == LockedInv /\ OneClaim /\ [Next]_vars => OneClaim'
<1> SUFFICES ASSUME LockedInv, OneClaim, [Next]_vars PROVE OneClaim'
  OBVIOUS
<1>1. ASSUME UNCHANGED <<claim, status>> PROVE OneClaim'
  BY <1>1 DEF OneClaim
<1>2. ASSUME NEW t \in Txn, NEW target \in Sha, NEW c \in Cut, NEW ps \in SUBSET Path,
             NEW b \in BatchId, NEW lease \in Lease, ClaimBatch(t, target, c, ps, b, lease)
      PROVE  OneClaim'
  <2> DEFINE l == tx[t].lane
  <2>1. Running(t) /\ tx[t].step = 3 /\ tx[t].op = "claim"
    BY <1>2, StepFacts DEF ClaimBatch, AtBody, LockedInv
  <2>2. /\ claim'[b].lane = l
        /\ \A x \in BatchId : x # b => claim'[x] = claim[x]
        /\ \A x \in BatchId : x # b /\ status'[x] = "CLAIMED" =>
                                 status[x] = "CLAIMED" /\ x # tx[t].batch
    BY <1>2 DEF ClaimBatch, LockedInv, TypeOK
  <2>3. \A x \in Claimed(l) : x = tx[t].batch
    <3>1. CASE tx[t].batch = NoBatch
      BY <2>1, <3>1 DEF LockedInv, LockInv, BatchHeld
    <3>2. CASE tx[t].batch # NoBatch
      <4>1. tx[t].status = "CLAIMED"
        BY <2>1, <3>2 DEF LockedInv, LockInv, BatchHeld
      <4>2. tx[t].batch \in Claimed(l)
        BY <2>1, <3>2, <4>1, BodyFacts
      <4> QED
        BY <4>2 DEF Claimed, OneClaim
    <3> QED
      BY <3>1, <3>2
  <2>4. \A x \in BatchId : x # b /\ status'[x] = "CLAIMED" => claim'[x].lane # l
    BY <2>2, <2>3 DEF Claimed
  <2> QED
    BY <2>2, <2>4 DEF OneClaim
<1>3. ASSUME NEW t \in Txn, FinalizeBatch(t) PROVE OneClaim'
  <2>1. claim' = claim /\ \A x \in BatchId : status'[x] = "CLAIMED" => status[x] = "CLAIMED"
    BY <1>3 DEF FinalizeBatch, LockedInv, TypeOK
  <2> QED
    BY <2>1 DEF OneClaim
<1> QED
  BY <1>1, <1>2, <1>3, WhatChangesRows DEF SeedLane, SetControlCut, ProjectFile, rows

\* A call stays the call it is: only its locks, and what it read, are added.
LEMMA CallStays ==
    ASSUME LockedInv, [Next]_vars, NEW u \in Txn, Running(u)'
    PROVE  \/ /\ Running(u)
              /\ tx'[u].op = tx[u].op
              /\ tx'[u].lane = tx[u].lane
              /\ tx'[u].now = tx[u].now
              /\ tx'[u].batch = tx[u].batch \/ (tx[u].op = "claim" /\ tx'[u].step = 3)
              /\ \/ tx'[u].step = tx[u].step
                 \/ tx'[u].step = tx[u].step + 1 /\ tx'[u].step < 4
                 \/ tx'[u].step = 4 /\ tx[u].op = "project"
           \/ \E op \in {"claim", "project", "finalize"}, l \in Lane,
                 b \in BatchId \cup {NoBatch}, p \in Path : Begin(u, op, l, b, p)
<1> DEFINE Goal ==
        \/ /\ Running(u)
           /\ tx'[u].op = tx[u].op
           /\ tx'[u].lane = tx[u].lane
           /\ tx'[u].now = tx[u].now
           /\ tx'[u].batch = tx[u].batch \/ (tx[u].op = "claim" /\ tx'[u].step = 3)
           /\ \/ tx'[u].step = tx[u].step
              \/ tx'[u].step = tx[u].step + 1 /\ tx'[u].step < 4
              \/ tx'[u].step = 4 /\ tx[u].op = "project"
        \/ \E op \in {"claim", "project", "finalize"}, l \in Lane,
              b \in BatchId \cup {NoBatch}, p \in Path : Begin(u, op, l, b, p)
<1>1. ASSUME tx'[u] = tx[u] PROVE Goal
  BY <1>1 DEF Running
<1>2. ASSUME NEW t \in Txn, End(t) PROVE Goal
  BY <1>1, <1>2, EndFacts DEF LockedInv, Running
<1>3. ASSUME NEW t \in Txn, LockLane(t) PROVE Goal
  <2>1. CASE t # u
    BY <1>1, <1>3, <2>1 DEF LockLane, LockedInv, TypeOK
  <2>2. CASE t = u
    <3>1. /\ Running(u) /\ tx[u].step = 1 /\ tx'[u].step = 2
          /\ tx'[u].op = tx[u].op /\ tx'[u].lane = tx[u].lane /\ tx'[u].now = tx[u].now
          /\ tx'[u].batch = tx[u].batch
      BY <1>3, <2>2, LaneStep DEF LockedInv
    <3> QED
      BY ONLY <3>1
  <2> QED
    BY <2>1, <2>2
<1>4. ASSUME NEW t \in Txn, NEW b \in BatchId \cup {NoBatch}, LockBatch(t, b) PROVE Goal
  <2>1. CASE t # u
    BY <1>1, <1>4, <2>1 DEF LockBatch, LockedInv, TypeOK
  <2>2. CASE t = u
    <3>1. /\ Running(u) /\ tx[u].step = 2 /\ tx'[u].step = 3
          /\ tx'[u].op = tx[u].op /\ tx'[u].lane = tx[u].lane /\ tx'[u].now = tx[u].now
          /\ tx'[u].batch = b
      BY <1>4, <2>2, BatchStep DEF LockedInv
    <3>2. b = tx[u].batch \/ tx[u].op = "claim"
      BY <1>4, <2>2 DEF LockBatch
    <3> QED
      BY ONLY <3>1, <3>2
  <2> QED
    BY <2>1, <2>2
<1>5. ASSUME NEW t \in Txn, LockMessage(t) PROVE Goal
  <2>1. CASE t # u
    BY <1>1, <1>5, <2>1 DEF LockMessage, LockedInv, TypeOK
  <2>2. CASE t = u
    BY <1>5, <2>2, MessageStep DEF LockedInv
  <2> QED
    BY <2>1, <2>2
<1>6. ASSUME NEW t \in Txn, NEW op \in {"claim", "project", "finalize"}, NEW l \in Lane,
             NEW b \in BatchId \cup {NoBatch}, NEW p \in Path, Begin(t, op, l, b, p)
      PROVE  Goal
  <2>1. CASE t # u
    BY <1>1, <1>6, <2>1 DEF Begin, LockedInv, TypeOK
  <2>2. CASE t = u
    BY <1>6, <2>2
  <2> QED
    BY <2>1, <2>2
<1>7. ASSUME OtherStep PROVE Goal
  BY <1>1, <1>7 DEF OtherStep, SeedLane, SetControlCut, Tick, vars
<1>8. ASSUME NEW t \in Txn, TxnStep(t) PROVE Goal
  <2> HIDE DEF Goal
  <2> QED
    BY <1>2, <1>3, <1>4, <1>5, <1>6, <1>8, CallStep
<1> QED
  BY <1>7, <1>8, StepsOfCalls

\* A call began before now, and its batch is one that was claimed on its lane.
LEMMA CallInvHolds == LockedInv /\ [Next]_vars => CallInv'
<1> SUFFICES ASSUME LockedInv, [Next]_vars, NEW u \in Txn, Running(u)'
             PROVE  /\ tx'[u].step = 4 => tx'[u].op = "project"
                    /\ tx'[u].now <= clock'
                    /\ IF tx'[u].op = "claim" THEN tx'[u].step < 3 => tx'[u].batch = NoBatch
                       ELSE /\ tx'[u].batch \in BatchId
                            /\ status'[tx'[u].batch] # "FREE"
                            /\ claim'[tx'[u].batch].lane = tx'[u].lane
  BY DEF CallInv
<1>1. clock \in Nat /\ clock' \in Nat /\ clock' >= clock
  <2>1. clock' = clock \/ clock' = clock + 1
    <3>1. OtherStep => clock' = clock \/ clock' = clock + 1
      BY DEF OtherStep, SeedLane, SetControlCut, Tick, vars
    <3> QED
      BY <3>1, CallStep, StepsOfCalls
  <2> QED
    BY <2>1 DEF LockedInv, TypeOK
<1>2. CASE \E op \in {"claim", "project", "finalize"}, l \in Lane,
              b \in BatchId \cup {NoBatch}, p \in Path : Begin(u, op, l, b, p)
  BY <1>1, <1>2 DEF Begin, LockedInv, TypeOK, rows
<1>3. CASE /\ Running(u)
           /\ tx'[u].op = tx[u].op
           /\ tx'[u].lane = tx[u].lane
           /\ tx'[u].now = tx[u].now
           /\ tx'[u].batch = tx[u].batch \/ (tx[u].op = "claim" /\ tx'[u].step = 3)
           /\ \/ tx'[u].step = tx[u].step
              \/ tx'[u].step = tx[u].step + 1 /\ tx'[u].step < 4
              \/ tx'[u].step = 4 /\ tx[u].op = "project"
  <2>1. /\ tx[u].step \in 1..4 /\ tx[u].now \in Nat
        /\ tx[u].step = 4 => tx[u].op = "project"
        /\ tx[u].now <= clock
        /\ IF tx[u].op = "claim" THEN tx[u].step < 3 => tx[u].batch = NoBatch
           ELSE /\ tx[u].batch \in BatchId
                /\ status[tx[u].batch] # "FREE"
                /\ claim[tx[u].batch].lane = tx[u].lane
    BY <1>3, CallFacts DEF LockedInv, CallInv
  <2> QED
    BY <1>1, <1>3, <2>1, ClaimsStay
<1> QED
  BY <1>2, <1>3, CallStays

\* A lock belongs to a call that has passed it.
LEMMA OwnerInvHolds == LockedInv /\ [Next]_vars => OwnerInv'
<1> SUFFICES ASSUME LockedInv, [Next]_vars, NEW k \in Lock, NEW u \in Txn, owner'[k] = u
             PROVE  Running(u)' /\ tx'[u].step > Rank(k)
  BY DEF OwnerInv, Rank
<1> DEFINE Goal == Running(u)' /\ tx'[u].step > Rank(k)
<1>1. ASSUME owner[k] = u, tx'[u] = tx[u] PROVE Goal
  BY <1>1 DEF LockedInv, OwnerInv, Running
<1>2. owner[k] = u => Running(u) /\ tx[u].step > Rank(k)
  BY DEF LockedInv, OwnerInv
<1>3. Rank(k) \in {1, 2, 3}
  BY DEF Rank
<1>4. ASSUME OtherStep PROVE Goal
  BY <1>1, <1>4 DEF OtherStep, SeedLane, SetControlCut, Tick, vars
<1>5. ASSUME NEW t \in Txn, End(t) PROVE Goal
  BY <1>1, <1>5, EndFacts, DistinctSentinels DEF LockedInv
<1>6. ASSUME NEW t \in Txn, NEW op \in {"claim", "project", "finalize"}, NEW l \in Lane,
             NEW b \in BatchId \cup {NoBatch}, NEW p \in Path, Begin(t, op, l, b, p)
      PROVE  Goal
  BY <1>1, <1>2, <1>6 DEF Begin, LockedInv, TypeOK
<1>7. ASSUME NEW t \in Txn, NEW n \in 1..3, Running(t), Running(t)', tx[t].step = n,
             tx'[t].step = n + 1, tx'[u] = tx[u] \/ u = t,
             owner'[k] = owner[k] \/ (owner'[k] = t /\ Rank(k) = n)
      PROVE  Goal
  BY <1>1, <1>2, <1>3, <1>7
<1>8. ASSUME NEW t \in Txn, LockLane(t) PROVE Goal
  <2>1. owner'[k] = owner[k] \/ (owner'[k] = t /\ Rank(k) = 1)
    <3>1. tx[t].lane \in Lane
      BY <1>8, LaneStep DEF LockedInv, Call
    <3> QED
      BY <1>8, <3>1 DEF LockLane, LockedInv, TypeOK, Rank
  <2>2. /\ Running(t) /\ tx[t].step = 1 /\ tx'[t] \in Call /\ tx'[t].step = 2
        /\ u # t => tx'[u] = tx[u]
    BY <1>8, LaneStep DEF LockedInv
  <2> QED
    BY <1>7, <2>1, <2>2, IdleIsNoCall DEF Running
<1>9. ASSUME NEW t \in Txn, NEW b \in BatchId \cup {NoBatch}, LockBatch(t, b) PROVE Goal
  <2>1. owner'[k] = owner[k] \/ (owner'[k] = t /\ Rank(k) = 2)
    BY <1>9, LocksAreDistinct DEF LockBatch, LockedInv, TypeOK, Rank
  <2> QED
    BY <1>7, <1>9, <2>1, BatchStep, IdleIsNoCall DEF Running, LockedInv
<1>10. ASSUME NEW t \in Txn, LockMessage(t) PROVE Goal
  <2>1. owner'[k] = owner[k] \/ (owner'[k] = t /\ Rank(k) = 3)
    <3>1. MessageOf(t) \in MsgId
      BY <1>10, MessageStep DEF LockedInv
    <3> QED
      BY <1>10, <3>1, LocksAreDistinct DEF LockMessage, LockedInv, TypeOK, Rank, MessageOf
  <2>2. /\ Running(t) /\ tx[t].step = 3 /\ tx'[t] \in Call /\ tx'[t].step = 4
        /\ u # t => tx'[u] = tx[u]
    BY <1>10, MessageStep DEF LockedInv
  <2> QED
    BY <1>7, <2>1, <2>2, IdleIsNoCall DEF Running
<1>11. ASSUME NEW t \in Txn, TxnStep(t) PROVE Goal
  <2> HIDE DEF Goal
  <2> QED
    BY <1>5, <1>6, <1>8, <1>9, <1>10, <1>11, CallStep
<1> QED
  BY <1>4, <1>11, StepsOfCalls

-----------------------------------------------------------------------------
(* Messages and files.                                                     *)

\* project_bus_message_v1 knows a content exactly when it is stored: under its
\* own id, or under the qualified one if the id was taken.
LEMMA KnownIsStored ==
    ASSUME LockedInv, StoreInv, NEW t \in Txn, ProjectFile(t)
    PROVE  /\ Running(t) /\ tx[t].step = 4
           /\ Carried(t) \in Content
           /\ MessageOf(t) = IdOf[Carried(t)] /\ MessageOf(t) \in MsgId
           /\ tx[t].found = plain[MessageOf(t)]
           /\ Known(tx[t].found, Carried(t)) <=> StoredContent(Carried(t))
           /\ tx[t].batch \in BatchId /\ tx[t].path \in Path
           /\ CarriedBy(tx[t].batch, tx[t].path) = Carried(t)
           /\ files[tx[t].batch][tx[t].path] = "PENDING"
<1>1. Running(t) /\ tx[t].step = 4
  BY StepFacts DEF ProjectFile, AtBody, LockedInv
<1>2. /\ Carried(t) \in Content /\ MessageOf(t) \in MsgId
      /\ tx[t].found = plain[MessageOf(t)]
      /\ FileOf(t) = "PENDING"
      /\ tx[t].batch # NoBatch
  BY <1>1, MessageFacts
<1>3. tx[t].batch \in BatchId /\ claim[tx[t].batch].lane = tx[t].lane /\ tx[t].path \in Path
  BY <1>1, <1>2, LockedBatch, CallFacts DEF LockedInv
<1>4. MessageOf(t) = IdOf[Carried(t)]
  BY DEF MessageOf
<1>5. Known(tx[t].found, Carried(t)) <=> StoredContent(Carried(t))
  <2> DEFINE c == Carried(t)
  <2>1. Qualified(c) \in qualified => plain[IdOf[c]] # NoContent
    BY DEF StoreInv, Qualified
  <2> QED
    BY <1>2, <1>4, <2>1 DEF Known, StoredContent
<1> QED
  BY <1>1, <1>2, <1>3, <1>4, <1>5 DEF CarriedBy, FileOf, Carried

\* It stores the content of its file, and nothing else, and drops nothing.
LEMMA WhatIsStored ==
    ASSUME LockedInv, StoreInv, NEW t \in Txn, ProjectFile(t)
    PROVE  /\ StoreInv'
           /\ \A c \in Content : StoredContent(c)' <=> StoredContent(c) \/ c = Carried(t)
<1> DEFINE d == Carried(t)
           m == MessageOf(t)
<1>1. /\ d \in Content /\ m = IdOf[d] /\ m \in MsgId
      /\ tx[t].found = plain[m]
      /\ Known(tx[t].found, d) <=> StoredContent(d)
  BY KnownIsStored
<1>2. CASE Known(tx[t].found, d)
  <2>1. UNCHANGED <<plain, qualified>>
    BY <1>2 DEF ProjectFile
  <2> QED
    BY <1>1, <1>2, <2>1 DEF StoreInv, StoredContent
<1>3. CASE ~Known(tx[t].found, d) /\ plain[m] = NoContent
  <2>1. plain' = [plain EXCEPT ![m] = d] /\ qualified' = qualified
    BY <1>1, <1>3 DEF ProjectFile, Store
  <2>2. \A q \in qualified : q[1] # m
    BY <1>3 DEF StoreInv
  <2>3. /\ plain'[m] = d
        /\ \A x \in MsgId : x # m => plain'[x] = plain[x]
    BY <1>1, <2>1 DEF LockedInv, TypeOK
  <2>4. \A q \in qualified : q[1] \in MsgId /\ q[2] \in Content
    BY DEF LockedInv, TypeOK
  <2> HIDE DEF d, m
  <2>5. StoreInv'
    BY <1>1, <2>1, <2>2, <2>3, <2>4 DEF StoreInv
  <2>6. \A c \in Content : Qualified(c) \in qualified => IdOf[c] # m
    BY <2>2 DEF Qualified
  <2>7. \A c \in Content : IdOf[c] \in MsgId /\ c # NoContent
    BY FilesCarryMessages, DistinctSentinels
  <2>8. \A c \in Content : plain[IdOf[c]] = c => IdOf[c] # m
    BY <1>3, <2>7
  <2>9. \A c \in Content : StoredContent(c)' <=> plain'[IdOf[c]] = c \/ Qualified(c) \in qualified
    BY <2>1 DEF StoredContent, Qualified
  <2>10. \A c \in Content : StoredContent(c)' <=> StoredContent(c) \/ c = d
    BY <1>1, <2>3, <2>6, <2>7, <2>8, <2>9 DEF StoredContent
  <2> QED
    BY <2>5, <2>10 DEF d
<1>4. CASE ~Known(tx[t].found, d) /\ plain[m] # NoContent
  <2>1. qualified' = qualified \cup {<<m, d>>} /\ plain' = plain
    BY <1>1, <1>4 DEF ProjectFile, Store, Qualified
  <2>2. plain[m] # d
    BY <1>1, <1>4 DEF StoredContent
  <2> HIDE DEF d, m
  <2>3. StoreInv'
    BY <1>1, <1>4, <2>1, <2>2 DEF StoreInv
  <2>4. \A c \in Content : <<IdOf[c], c>> \in qualified' <=> <<IdOf[c], c>> \in qualified \/ c = d
    BY <1>1, <2>1
  <2>5. \A c \in Content : StoredContent(c)' <=> StoredContent(c) \/ c = d
    BY <2>1, <2>4 DEF StoredContent, Qualified
  <2> QED
    BY <2>3, <2>5 DEF d
<1> QED
  BY <1>2, <1>3, <1>4

\* What is stored stays under its id.
LEMMA StoreInvHolds == LockedInv /\ StoreInv /\ [Next]_vars => StoreInv'
<1> SUFFICES ASSUME LockedInv, StoreInv, [Next]_vars PROVE StoreInv'
  OBVIOUS
<1>1. ASSUME UNCHANGED <<plain, qualified>> PROVE StoreInv'
  BY <1>1 DEF StoreInv
<1>2. ASSUME NEW t \in Txn, ProjectFile(t) PROVE StoreInv'
  BY <1>2, WhatIsStored
<1> QED
  BY <1>1, <1>2, WhatChangesRows DEF SeedLane, SetControlCut, ClaimBatch, FinalizeBatch, rows

\* A file that has its result keeps it, and a new claim has none.
LEMMA FilesStay ==
    ASSUME LockedInv, [Next]_vars, \A t \in Txn : ~ProjectFile(t)
    PROVE  /\ UNCHANGED <<plain, qualified>>
           /\ \A b \in BatchId, p \in Path :
                 /\ files'[b][p] \in Success <=> files[b][p] \in Success
                 /\ files[b][p] \in Success =>
                       files'[b][p] = files[b][p] /\ claim'[b] = claim[b]
<1> DEFINE Goal == /\ UNCHANGED <<plain, qualified>>
                   /\ \A b \in BatchId, p \in Path :
                         /\ files'[b][p] \in Success <=> files[b][p] \in Success
                         /\ files[b][p] \in Success =>
                               files'[b][p] = files[b][p] /\ claim'[b] = claim[b]
<1>1. ASSUME UNCHANGED <<plain, qualified, files, claim>> PROVE Goal
  BY <1>1
<1>2. ASSUME NEW t \in Txn, NEW target \in Sha, NEW c \in Cut, NEW ps \in SUBSET Path,
             NEW x \in BatchId, NEW lease \in Lease, ClaimBatch(t, target, c, ps, x, lease)
      PROVE  Goal
  <2>1. \A p \in Path : files[x][p] = "ABSENT"
    BY <1>2 DEF ClaimBatch, LockedInv, BatchInv
  <2>2. \A p \in Path : files'[x][p] \in {"PENDING", "ABSENT"}
    BY <1>2 DEF ClaimBatch, LockedInv, TypeOK
  <2>3. \A b \in BatchId : b # x => files'[b] = files[b] /\ claim'[b] = claim[b]
    BY <1>2 DEF ClaimBatch, LockedInv, TypeOK
  <2>4. UNCHANGED <<plain, qualified>>
    BY <1>2 DEF ClaimBatch
  <2> QED
    BY <2>1, <2>2, <2>3, <2>4 DEF Success
<1> HIDE DEF Goal
<1>3. Goal
  BY <1>1, <1>2, WhatChangesRows DEF SeedLane, SetControlCut, FinalizeBatch, rows
<1> QED
  BY <1>3 DEF Goal

\* A file is successful if its content is stored, and one file has stored it.
LEMMA FileInvHolds == LockedInv /\ StoreInv /\ FileInv /\ [Next]_vars => FileInv'
<1> SUFFICES ASSUME LockedInv, StoreInv, FileInv, [Next]_vars PROVE FileInv'
  OBVIOUS
<1>1. CASE \A t \in Txn : ~ProjectFile(t)
  <2>1. /\ \A c \in Content : StoredContent(c)' <=> StoredContent(c)
        /\ \A b \in BatchId, p \in Path :
              /\ files'[b][p] \in Success => files[b][p] \in Success
              /\ files[b][p] \in Success => files'[b][p] = files[b][p]
              /\ files[b][p] \in Success => CarriedBy(b, p)' = CarriedBy(b, p)
    BY <1>1, FilesStay DEF StoredContent, CarriedBy
  <2>2. \A b \in BatchId, p \in Path :
            files'[b][p] = "PROJECTED" <=> files[b][p] = "PROJECTED"
    BY <2>1 DEF Success
  <2>3. \A b \in BatchId, p \in Path : files[b][p] = "PROJECTED" => files[b][p] \in Success
    BY DEF Success
  <2>4. ASSUME NEW b \in BatchId, NEW p \in Path, files'[b][p] \in Success
        PROVE  StoredContent(CarriedBy(b, p))'
    <3>1. StoredContent(CarriedBy(b, p))
      BY <2>1, <2>4 DEF FileInv
    <3>2. claim'[b] = claim[b] /\ UNCHANGED <<plain, qualified>>
      BY <1>1, <2>4, FilesStay
    <3> QED
      BY <3>1, <3>2 DEF StoredContent, CarriedBy, Qualified
  <2>5. \A a, b \in BatchId, p, q \in Path :
           /\ files'[a][p] = "PROJECTED" /\ files'[b][q] = "PROJECTED"
           /\ CarriedBy(a, p)' = CarriedBy(b, q)'
           => a = b /\ p = q
    BY <2>1, <2>2, <2>3 DEF FileInv
  <2>6. \A c \in Content : StoredContent(c)' =>
           \E b \in BatchId, p \in Path : files'[b][p] = "PROJECTED" /\ CarriedBy(b, p)' = c
    BY <2>1, <2>2, <2>3 DEF FileInv
  <2> QED
    BY <2>4, <2>5, <2>6 DEF FileInv
<1>2. ASSUME NEW t \in Txn, ProjectFile(t) PROVE FileInv'
  <2> DEFINE d == Carried(t)
             x == tx[t].batch
             y == tx[t].path
  <2>1. /\ d \in Content /\ x \in BatchId /\ y \in Path
        /\ CarriedBy(x, y) = d /\ files[x][y] = "PENDING"
        /\ \A c \in Content : StoredContent(c)' <=> StoredContent(c) \/ c = d
    BY <1>2, KnownIsStored, WhatIsStored
  <2>2. /\ claim' = claim
        /\ files'[x][y] = IF StoredContent(d) THEN "IDEMPOTENT" ELSE "PROJECTED"
        /\ \A b \in BatchId, p \in Path : b # x \/ p # y => files'[b][p] = files[b][p]
    <3>1. files' = [files EXCEPT ![x][y] = IF Known(tx[t].found, d) THEN "IDEMPOTENT"
                                                                    ELSE "PROJECTED"]
      BY <1>2 DEF ProjectFile
    <3>2. Known(tx[t].found, d) <=> StoredContent(d)
      BY <1>2, KnownIsStored
    <3>3. claim' = claim
      BY <1>2 DEF ProjectFile
    <3> HIDE DEF d, x, y
    <3> QED
      BY <2>1, <3>1, <3>2, <3>3 DEF LockedInv, TypeOK
  <2>3. \A b \in BatchId, p \in Path : CarriedBy(b, p)' = CarriedBy(b, p)
    BY <2>2 DEF CarriedBy
  <2>4. \A b \in BatchId, p \in Path : files[b][p] \in Success => CarriedBy(b, p) \in Content
    <3>1. \A b \in BatchId, p \in Path : files[b][p] \in Success => claim[b].lane \in Lane
      BY DEF LockedInv, BatchInv, TypeOK, Success, Claim
    <3> QED
      BY <3>1, FilesCarryMessages DEF CarriedBy
  <2>5. \A b \in BatchId, p \in Path : files[b][p] = "PROJECTED" => files[b][p] \in Success
    BY DEF Success
  <2> HIDE DEF d, x, y
  <2>6. ASSUME NEW b \in BatchId, NEW p \in Path, files'[b][p] \in Success
        PROVE  StoredContent(CarriedBy(b, p))'
    <3>1. CarriedBy(b, p) \in Content /\ (StoredContent(CarriedBy(b, p)) \/ CarriedBy(b, p) = d)
      BY <2>1, <2>2, <2>4, <2>6 DEF FileInv
    <3>2. \A c \in Content : plain'[IdOf[c]] = c \/ Qualified(c) \in qualified'
                               <=> StoredContent(c) \/ c = d
      BY <2>1 DEF StoredContent, Qualified
    <3> QED
      BY <2>2, <3>1, <3>2 DEF StoredContent, CarriedBy, Qualified
  <2>7. ASSUME NEW a \in BatchId, NEW b \in BatchId, NEW p \in Path, NEW q \in Path,
               files'[a][p] = "PROJECTED", files'[b][q] = "PROJECTED",
               CarriedBy(a, p) = CarriedBy(b, q)
        PROVE  a = b /\ p = q
    <3>1. CASE a = x /\ p = y
      <4>1. ~StoredContent(d)
        BY <2>2, <2>7, <3>1
      <4>2. ~(b # x \/ q # y)
        BY <2>1, <2>2, <2>5, <2>7, <3>1, <4>1 DEF FileInv
      <4> QED
        BY <3>1, <4>2
    <3>2. CASE b = x /\ q = y
      <4>1. ~StoredContent(d)
        BY <2>2, <2>7, <3>2
      <4>2. ~(a # x \/ p # y)
        BY <2>1, <2>2, <2>5, <2>7, <3>2, <4>1 DEF FileInv
      <4> QED
        BY <3>2, <4>2
    <3>3. CASE (a # x \/ p # y) /\ (b # x \/ q # y)
      BY <2>2, <2>7, <3>3 DEF FileInv
    <3> QED
      BY <3>1, <3>2, <3>3
  <2>8. ASSUME NEW c \in Content, StoredContent(c)'
        PROVE  \E b \in BatchId, p \in Path : files'[b][p] = "PROJECTED" /\ CarriedBy(b, p) = c
    <3>1. CASE StoredContent(c)
      <4>1. PICK b \in BatchId, p \in Path : files[b][p] = "PROJECTED" /\ CarriedBy(b, p) = c
        BY <3>1 DEF FileInv
      <4>2. b # x \/ p # y
        BY <2>1, <4>1
      <4> QED
        BY <2>2, <4>1, <4>2
    <3>2. CASE ~StoredContent(c)
      <4>1. c = d
        BY <2>1, <2>8, <3>2
      <4> QED
        BY <2>1, <2>2, <3>2, <4>1
    <3> QED
      BY <3>1, <3>2
  <2> QED
    BY <2>3, <2>6, <2>7, <2>8 DEF FileInv
<1> QED
  BY <1>1, <1>2

-----------------------------------------------------------------------------
(* The invariant holds.                                                    *)

IInv == TypeOK /\ SafetyInv

\* The part of the invariant the locks need.
LEMMA IInvIsLocked == IInv => LockedInv
BY DEF IInv, SafetyInv, LockedInv

\* Every step keeps the invariant.
LEMMA InvariantHolds == IInv /\ [Next]_vars => IInv'
<1> SUFFICES ASSUME IInv, [Next]_vars PROVE IInv'
  OBVIOUS
<1>1. LockedInv /\ OneClaim /\ StoreInv /\ FileInv
  BY IInvIsLocked DEF IInv, SafetyInv
<1>2. TypeOK'
  BY <1>1, TypesHold DEF LockedInv
<1>3. BatchInv' /\ OneClaim' /\ CallInv'
  BY <1>1, BatchInvHolds, OneClaimHolds, CallInvHolds
<1>4. LockInv' /\ OwnerInv'
  BY <1>1, LockInvHolds, OwnerInvHolds
<1>5. StoreInv' /\ FileInv'
  BY <1>1, StoreInvHolds, FileInvHolds
<1> QED
  BY <1>2, <1>3, <1>4, <1>5 DEF IInv, SafetyInv

\* The invariant holds in every state the provider can reach.
THEOREM Invariant == Spec => []IInv
<1>1. Init => IInv
  BY InitHolds DEF IInv
<1>2. IInv /\ [Next]_vars => IInv'
  BY InvariantHolds
<1> QED
  BY <1>1, <1>2, PTL DEF Spec

\* The rows, the locks and the running calls stay well typed.
THEOREM TypeCorrect == Spec => []TypeOK
<1>1. IInv => TypeOK
  BY DEF IInv
<1> QED
  BY <1>1, Invariant, PTL

\* What a call read under its row locks, one statement after the other, is
\* current when it writes.
THEOREM LockedReadsStayCurrent == Spec => []LockedReadsAreCurrent
<1>1. IInv => LockedReadsAreCurrent
  <2> SUFFICES ASSUME IInv, NEW t \in Txn, Running(t)
               PROVE  /\ Holds(t, "lane") =>
                            /\ owner[tx[t].lane] = t
                            /\ tx[t].laneRow = [head |-> projected[tx[t].lane],
                                                cut |-> cut[tx[t].lane]]
                      /\ Holds(t, "batch") =>
                            IF tx[t].batch = NoBatch THEN Claimed(tx[t].lane) = {}
                                                     ELSE tx[t].status = status[tx[t].batch]
                      /\ Holds(t, "message") =>
                            tx[t].found = plain[IdOf[Carries[tx[t].lane][tx[t].path]]]
    BY DEF LockedReadsAreCurrent
  <2>1. LockedInv
    BY IInvIsLocked
  <2>2. /\ Holds(t, "lane") <=> tx[t].step >= 2
        /\ Holds(t, "batch") <=> tx[t].step >= 3
        /\ Holds(t, "message") <=> tx[t].step = 4
    BY <2>1, StepFacts DEF LockedInv
  <2>3. ASSUME tx[t].step >= 2
        PROVE  /\ owner[tx[t].lane] = t
               /\ tx[t].laneRow = [head |-> projected[tx[t].lane], cut |-> cut[tx[t].lane]]
    <3>1. tx[t].laneRow \in LaneRow
      BY <2>1, CallFacts DEF LockedInv
    <3>2. tx[t].laneRow = [head |-> tx[t].laneRow.head, cut |-> tx[t].laneRow.cut]
      BY <3>1 DEF LaneRow
    <3> QED
      BY <2>1, <2>3, <3>2, LockedLane
  <2>4. ASSUME tx[t].step >= 3
        PROVE  IF tx[t].batch = NoBatch THEN Claimed(tx[t].lane) = {}
                                        ELSE tx[t].status = status[tx[t].batch]
    BY <2>1, <2>4 DEF LockedInv, LockInv, BatchHeld
  <2>5. tx[t].step = 4 => tx[t].found = plain[IdOf[Carries[tx[t].lane][tx[t].path]]]
    BY <2>1, MessageFacts DEF MessageOf, Carried
  <2> QED
    BY <2>2, <2>3, <2>4, <2>5
<1> QED
  BY <1>1, Invariant, PTL

\* Whoever another call waits for is further on, so no two wait for one another:
\* what taking lane, batch and message in one order achieves.
LEMMA WaitsForALaterOne ==
    ASSUME LockedInv, NEW t \in Txn, NEW u \in Txn, WaitsFor(t, u)
    PROVE  /\ tx[t].step \in Nat /\ tx[u].step \in Nat
           /\ tx[t].step < tx[u].step
<1>1. Running(t)
  BY DEF WaitsFor, AtLock
<1>2. \A k \in Lock : owner[k] = u => Running(u) /\ tx[u].step > Rank(k)
  BY DEF LockedInv, OwnerInv
<1>3. \E k \in Lock : owner[k] = u /\ Rank(k) = tx[t].step
  <2>1. CASE AtLock(t, "lane") /\ owner[tx[t].lane] = u
    <3>1. tx[t].step = 1 /\ tx[t].lane \in Lane
      BY <1>1, <2>1, StepFacts, CallFacts DEF LockedInv
    <3> QED
      BY <2>1, <3>1 DEF Lock, Rank
  <2>2. CASE AtLock(t, "batch") /\ \E b \in BatchId : owner[b] = u
    <3>1. tx[t].step = 2
      BY <1>1, <2>2, StepFacts DEF LockedInv
    <3> QED
      BY <2>2, <3>1, LocksAreDistinct DEF Lock, Rank
  <2>3. CASE AtLock(t, "message") /\ owner[IdOf[Carried(t)]] = u
    <3>1. tx[t].step = 3 /\ IdOf[Carried(t)] \in MsgId
      BY <1>1, <2>3, StepFacts, MessageFacts DEF LockedInv, MessageOf
    <3> QED
      BY <2>3, <3>1, LocksAreDistinct DEF Lock, Rank
  <2> QED
    BY <2>1, <2>2, <2>3 DEF WaitsFor
<1>4. tx[t].step \in Nat /\ (Running(u) => tx[u].step \in Nat)
  BY <1>1, CallFacts DEF LockedInv
<1> QED
  BY <1>2, <1>3, <1>4

\* No two calls wait for one another.
THEOREM LocksDoNotCycle == Spec => []NoLockCycle
<1>1. IInv => NoLockCycle
  <2> SUFFICES ASSUME IInv, NEW t \in Txn, NEW u \in Txn, WaitsFor(t, u), WaitsFor(u, t)
               PROVE  FALSE
    BY DEF NoLockCycle
  <2>1. LockedInv
    BY IInvIsLocked
  <2>2. /\ tx[t].step \in Nat /\ tx[u].step \in Nat
        /\ tx[t].step < tx[u].step /\ tx[u].step < tx[t].step
    BY <2>1, WaitsForALaterOne
  <2> QED
    BY <2>2
<1> QED
  BY <1>1, Invariant, PTL

\* Every message is projected exactly once, whatever calls are abandoned, timed
\* out and made again.
THEOREM ProjectsExactlyOnce == Spec => []ExactlyOnceProjection
<1>1. IInv => ExactlyOnceProjection
  <2> SUFFICES ASSUME IInv PROVE ExactlyOnceProjection
    OBVIOUS
  <2>1. LockedInv /\ StoreInv /\ FileInv
    BY IInvIsLocked DEF IInv, SafetyInv
  <2>2. \A c \in Content : c \in Stored <=> StoredContent(c)
    <3> SUFFICES ASSUME NEW c \in Content PROVE c \in Stored <=> StoredContent(c)
      OBVIOUS
    <3>1. IdOf[c] \in MsgId /\ c # NoContent
      BY FilesCarryMessages, DistinctSentinels
    <3>2. (\E m \in MsgId : plain[m] = c) <=> plain[IdOf[c]] = c
      BY <2>1, <3>1 DEF StoreInv
    <3>3. (\E q \in qualified : q[2] = c) <=> Qualified(c) \in qualified
      <4>1. ASSUME NEW q \in qualified, q[2] = c PROVE q = <<IdOf[c], c>>
        BY <2>1, <4>1 DEF StoreInv, LockedInv, TypeOK
      <4> QED
        BY <4>1 DEF Qualified
    <3> QED
      BY <3>2, <3>3 DEF Stored, StoredContent
  <2>3. \A b \in BatchId, p \in Path : files[b][p] \in Success => CarriedBy(b, p) \in Content
    <3>1. \A b \in BatchId, p \in Path : files[b][p] \in Success => claim[b].lane \in Lane
      BY <2>1 DEF LockedInv, BatchInv, TypeOK, Success, Claim
    <3> QED
      BY <3>1, FilesCarryMessages DEF CarriedBy
  <2>4. \A b \in BatchId, p \in Path :
            files[b][p] \in Success => Carries[claim[b].lane][p] \in Stored
    BY <2>1, <2>2, <2>3 DEF FileInv, CarriedBy
  <2>5. ASSUME NEW c \in Content
        PROVE  LET by == {bp \in BatchId \X Path :
                            /\ files[bp[1]][bp[2]] = "PROJECTED"
                            /\ Carries[claim[bp[1]].lane][bp[2]] = c}
               IN  /\ \A x, y \in by : x = y
                   /\ c \in Stored => by # {}
                   /\ ~(plain[IdOf[c]] = c /\ Qualified(c) \in qualified)
    <3> DEFINE by == {bp \in BatchId \X Path :
                        /\ files[bp[1]][bp[2]] = "PROJECTED"
                        /\ Carries[claim[bp[1]].lane][bp[2]] = c}
    <3>1. ASSUME NEW x \in by, NEW y \in by PROVE x = y
      <4>1. /\ x \in BatchId \X Path /\ y \in BatchId \X Path
            /\ files[x[1]][x[2]] = "PROJECTED" /\ files[y[1]][y[2]] = "PROJECTED"
            /\ CarriedBy(x[1], x[2]) = CarriedBy(y[1], y[2])
        BY <3>1 DEF CarriedBy
      <4>2. x[1] = y[1] /\ x[2] = y[2]
        BY <2>1, <4>1 DEF FileInv
      <4> QED
        BY <4>1, <4>2
    <3>2. ASSUME c \in Stored PROVE by # {}
      <4>1. PICK b \in BatchId, p \in Path : files[b][p] = "PROJECTED" /\ CarriedBy(b, p) = c
        BY <2>1, <2>2, <3>2 DEF FileInv
      <4>2. <<b, p>> \in by
        BY <4>1 DEF CarriedBy
      <4> QED
        BY <4>2
    <3>3. ~(plain[IdOf[c]] = c /\ Qualified(c) \in qualified)
      BY <2>1 DEF StoreInv, Qualified
    <3> QED
      BY <3>1, <3>2, <3>3
  <2> QED
    BY <2>4, <2>5 DEF ExactlyOnceProjection
<1> QED
  BY <1>1, Invariant, PTL

\* The steps that change neither a row nor the clock, and answer nobody.
LEMMA QuietSteps ==
    [Next]_vars =>
        \/ UNCHANGED <<rows, clock, answer, seed, history>>
        \/ \E l \in Lane, h \in Base : SeedLane(l, h)
        \/ \E l \in Lane, c \in Cut : SetControlCut(l, c)
        \/ \E t \in Txn, target \in Sha, c \in Cut, ps \in SUBSET Path, b \in BatchId,
              lease \in Lease : ClaimBatch(t, target, c, ps, b, lease)
        \/ \E t \in Txn : ProjectFile(t)
        \/ \E t \in Txn : FinalizeBatch(t)
        \/ \E t \in Txn : FinalizeAgain(t)
        \/ Tick
BY DEF Next, Begin, LockLane, LockBatch, LockMessage, ProjectFileAgain, Abort, vars

\* The lane and the batch, as the body of a call under the fence finds them.
LEMMA FencedFacts ==
    ASSUME LockedInv, NEW t \in Txn, Running(t), tx[t].step >= 3, tx[t].op # "claim", Fenced(t)
    PROVE  LET b == tx[t].batch IN
           /\ b \in BatchId
           /\ status[b] = "CLAIMED"
           /\ claim[b] \in Claim
           /\ claim[b].lane = tx[t].lane
           /\ claim[b].lease > tx[t].now
           /\ projected[claim[b].lane] = claim[b].expected
           /\ cut[claim[b].lane] = claim[b].cut
<1>1. tx[t].batch \in BatchId /\ tx[t].batch # NoBatch
  BY DistinctSentinels DEF LockedInv, CallInv
<1>2. tx[t].step >= 2
  BY CallFacts DEF LockedInv
<1> QED
  BY <1>1, <1>2, LockedBatch, LockedLane DEF Fenced

\* What a finalize answers, and where the lane is then.
LEMMA AnswerFacts ==
    ASSUME LockedInv, NEW t \in Txn, FinalizeAgain(t)
    PROVE  LET b == tx[t].batch IN
           /\ b \in BatchId
           /\ status[b] = "COMPLETE"
           /\ projected[claim[b].lane] = claim[b].target
<1>1. Running(t) /\ tx[t].step = 3 /\ tx[t].op = "finalize"
  BY StepFacts DEF FinalizeAgain, AtBody, LockedInv
<1>2. tx[t].batch \in BatchId /\ tx[t].batch # NoBatch
  BY <1>1, DistinctSentinels DEF LockedInv, CallInv
<1> QED
  BY <1>1, <1>2, LockedBatch, LockedLane DEF FinalizeAgain, CursorStillAtTarget

\* A message is stored only under a claim on the lane's cursor and control cut,
\* and a finalize leaves the lane at the head it answers.
THEOREM CallsFit == Spec => CallsFitTheLane
<1> DEFINE Stores == plain' # plain \/ qualified' # qualified
           UnderClaim == \E b \in BatchId :
                            /\ files'[b] # files[b]
                            /\ status[b] = "CLAIMED"
                            /\ projected[claim[b].lane] = claim[b].expected
                            /\ cut[claim[b].lane] = claim[b].cut
           Answers == answer' # answer
           AtHead == projected'[claim[answer'].lane] = claim[answer'].target
<1>1. ASSUME IInv, [Next]_vars PROVE (Stores => UnderClaim) /\ (Answers => AtHead)
  <2> DEFINE Goal == (Stores => UnderClaim) /\ (Answers => AtHead)
  <2>1. LockedInv /\ StoreInv
    BY <1>1, IInvIsLocked DEF IInv, SafetyInv
  <2>2. ASSUME UNCHANGED <<plain, qualified, answer>> PROVE Goal
    BY <2>2
  <2>3. ASSUME NEW t \in Txn, ProjectFile(t) PROVE Goal
    <3> DEFINE b == tx[t].batch
               p == tx[t].path
    <3>1. /\ Running(t) /\ tx[t].step = 4 /\ b \in BatchId /\ p \in Path
          /\ files[b][p] = "PENDING"
      BY <2>1, <2>3, KnownIsStored
    <3>2. Fenced(t) /\ tx[t].op # "claim"
      BY <2>1, <3>1, MessageFacts
    <3>3. files'[b][p] # "PENDING" /\ answer' = answer
      BY <2>1, <2>3, <3>1 DEF ProjectFile, LockedInv, TypeOK
    <3>4. /\ status[b] = "CLAIMED"
          /\ projected[claim[b].lane] = claim[b].expected
          /\ cut[claim[b].lane] = claim[b].cut
      BY <2>1, <3>1, <3>2, FencedFacts
    <3> QED
      BY <3>1, <3>3, <3>4
  <2>4. ASSUME NEW t \in Txn, FinalizeBatch(t) PROVE Goal
    <3> DEFINE b == tx[t].batch
    <3>1. Running(t) /\ tx[t].step = 3 /\ tx[t].op = "finalize" /\ Fenced(t)
      BY <2>1, <2>4, StepFacts DEF FinalizeBatch, AtBody, LockedInv
    <3>2. b \in BatchId /\ claim[b] \in Claim /\ claim[b].lane = tx[t].lane
      BY <2>1, <3>1, FencedFacts
    <3>3. /\ answer' = b /\ UNCHANGED <<plain, qualified>>
          /\ projected' = [projected EXCEPT ![tx[t].lane] = claim[b].target]
      BY <2>4 DEF FinalizeBatch
    <3>4. projected'[tx[t].lane] = claim[b].target
      BY <2>1, <3>2, <3>3 DEF LockedInv, TypeOK, Claim
    <3> QED
      BY <3>2, <3>3, <3>4
  <2>5. ASSUME NEW t \in Txn, FinalizeAgain(t) PROVE Goal
    <3>1. answer' = tx[t].batch /\ UNCHANGED <<plain, qualified, projected>>
      BY <2>5 DEF FinalizeAgain, rows
    <3> QED
      BY <2>1, <2>5, <3>1, AnswerFacts
  <2> HIDE DEF Goal
  <2>6. Goal
    BY <1>1, <2>2, <2>3, <2>4, <2>5, QuietSteps
       DEF SeedLane, SetControlCut, ClaimBatch, Tick, rows
  <2> QED
    BY <2>6 DEF Goal
<1>2. IInv /\ [Next]_vars =>
        [/\ Stores => UnderClaim
         /\ Answers => AtHead]_vars
  BY <1>1
<1> QED
  BY <1>2, Invariant, PTL DEF Spec, CallsFitTheLane

-----------------------------------------------------------------------------
(* The functions implement the journal contract.                           *)

\* The claim of each lane, for given columns of projection_batches.
ClaimsOf(st, cl, l) == {b \in BatchId : st[b] = "CLAIMED" /\ cl[b].lane = l}
ActiveOf(st, cl) ==
    [l \in Lane |-> IF ClaimsOf(st, cl, l) = {} THEN NoBatch
                    ELSE CHOOSE b \in ClaimsOf(st, cl, l) : TRUE]
Complete == {b \in BatchId : status[b] = "COMPLETE"}
Active == ActiveOf(status, claim)

\* The one claim of a lane is its active batch.
LEMMA TheActiveBatch ==
    ASSUME NEW st, NEW cl, NEW l \in Lane, NEW b, ClaimsOf(st, cl, l) = {b}
    PROVE  ActiveOf(st, cl)[l] = b
BY DEF ActiveOf

\* A lane without a claim has no active batch.
LEMMA NoActiveBatch ==
    ASSUME NEW st, NEW cl, NEW l \in Lane, ClaimsOf(st, cl, l) = {}
    PROVE  ActiveOf(st, cl)[l] = NoBatch
BY DEF ActiveOf

\* A lane that keeps its claims keeps its active batch.
LEMMA SameActiveBatch ==
    ASSUME NEW st, NEW cl, NEW st2, NEW cl2, NEW l \in Lane,
           ClaimsOf(st, cl, l) = ClaimsOf(st2, cl2, l)
    PROVE  ActiveOf(st, cl)[l] = ActiveOf(st2, cl2)[l]
BY DEF ActiveOf

\* The active batch of a lane that has a claim.
LEMMA ActiveNow ==
    ASSUME OneClaim, NEW l \in Lane, NEW b \in Claimed(l)
    PROVE  ClaimsOf(status, claim, l) = {b} /\ Active[l] = b
<1>1. ClaimsOf(status, claim, l) = {b}
  BY DEF OneClaim, Claimed, ClaimsOf
<1> QED
  BY <1>1, TheActiveBatch DEF Active

\* Each step of a function is a step of the contract, or none.
LEMMA StepImplements ==
    ASSUME IInv, [Next]_vars
    PROVE  [Journal!Next]_(Journal!vars)
<1>1. LockedInv /\ OneClaim /\ StoreInv
  BY IInvIsLocked DEF IInv, SafetyInv
<1>2. Active = [l \in Lane |-> IF Claimed(l) = {} THEN NoBatch
                               ELSE CHOOSE b \in Claimed(l) : TRUE]
  BY DEF Active, ActiveOf, ClaimsOf, Claimed
<1>3. ASSUME UNCHANGED <<rows, clock, answer, seed, history>> PROVE UNCHANGED Journal!vars
  BY <1>3 DEF Journal!vars, rows, Claimed
<1>4. ASSUME NEW l \in Lane, NEW h \in Base, SeedLane(l, h) PROVE Journal!Next
  <2>1. Journal!SeedLane(l, h)
    BY <1>4 DEF SeedLane, Journal!SeedLane, Claimed
  <2> QED
    BY <2>1 DEF Journal!Next, Journal!Base, Base
<1>5. ASSUME NEW l \in Lane, NEW c \in Cut, SetControlCut(l, c) PROVE Journal!Next
  <2>1. Journal!SetControlCut(l, c)
    BY <1>5 DEF SetControlCut, Journal!SetControlCut, Claimed
  <2> QED
    BY <2>1 DEF Journal!Next
<1>6. CASE Tick
  <2>1. Journal!Tick
    BY <1>6 DEF Tick, Journal!Tick, rows, Claimed
  <2> QED
    BY <2>1 DEF Journal!Next
<1>7. ASSUME NEW t \in Txn, FinalizeAgain(t) PROVE Journal!Next
  <2>1. tx[t].batch \in BatchId /\ status[tx[t].batch] = "COMPLETE"
    BY <1>1, <1>7, AnswerFacts
  <2>2. Journal!FinalizeAgain(tx[t].batch)
    BY <1>7, <2>1 DEF FinalizeAgain, Journal!FinalizeAgain, rows, Claimed
  <2> QED
    BY <2>1, <2>2 DEF Journal!Next
<1>8. ASSUME NEW t \in Txn, ProjectFile(t) PROVE Journal!Next
  <2> DEFINE b == tx[t].batch
             p == tx[t].path
             r == IF Known(tx[t].found, Carried(t)) THEN "IDEMPOTENT" ELSE "PROJECTED"
  <2>1. /\ Running(t) /\ tx[t].step = 4 /\ b \in BatchId /\ p \in Path
        /\ files[b][p] = "PENDING"
    BY <1>1, <1>8, KnownIsStored
  <2>2. Fenced(t) /\ tx[t].op # "claim"
    BY <1>1, <2>1, MessageFacts
  <2>3. status[b] = "CLAIMED" /\ claim[b] \in Claim
    BY <1>1, <2>1, <2>2, FencedFacts
  <2>4. claim[b].lane \in Lane /\ Active[claim[b].lane] = b
    BY <1>1, <2>1, <2>3, ActiveNow DEF Claimed, Claim
  <2>5. Journal!Current(b)
    BY <1>2, <2>1, <2>3, <2>4, DistinctSentinels DEF Journal!Current, Journal!Issued
  <2>6. /\ files' = [files EXCEPT ![b][p] = r]
        /\ UNCHANGED <<projected, cut, claim, status, clock, answer, seed, history>>
    BY <1>8 DEF ProjectFile
  <2>7. Journal!RecordFileResult(b, p, r)
    <3> HIDE DEF r, p
    <3> QED
      BY <2>1, <2>3, <2>5, <2>6 DEF Journal!RecordFileResult, Claimed
  <2>8. r \in Journal!Result
    BY DEF Journal!Result, Journal!Success
  <2> QED
    BY <2>1, <2>7, <2>8 DEF Journal!Next
<1>9. ActiveOf(status', claim') =
          [l \in Lane |-> IF {b \in BatchId : status'[b] = "CLAIMED" /\ claim'[b].lane = l} = {}
                         THEN NoBatch
                         ELSE CHOOSE b \in {b \in BatchId : /\ status'[b] = "CLAIMED"
                                                            /\ claim'[b].lane = l} : TRUE]
  BY DEF ActiveOf, ClaimsOf
<1>10. ASSUME NEW t \in Txn, FinalizeBatch(t) PROVE Journal!Next
  <2> DEFINE d == tx[t].batch
             l == tx[t].lane
             at == tx[t].now
  <2>1. Running(t) /\ tx[t].step = 3 /\ tx[t].op = "finalize" /\ Fenced(t)
    BY <1>1, <1>10, StepFacts DEF FinalizeBatch, AtBody, LockedInv
  <2>2. /\ d \in BatchId /\ status[d] = "CLAIMED" /\ claim[d] \in Claim
        /\ claim[d].lane = l /\ claim[d].lease > at
        /\ projected[l] = claim[d].expected /\ cut[l] = claim[d].cut
    BY <1>1, <2>1, FencedFacts
  <2>3. l \in Lane /\ at \in 0..clock /\ claim[d].lease \in Nat
    BY <1>1, <2>1, <2>2, CallFacts DEF LockedInv, CallInv, TypeOK, Claim
  <2>4. ClaimsOf(status, claim, l) = {d} /\ Active[l] = d
    BY <1>1, <2>2, <2>3, ActiveNow DEF Claimed
  <2>5. /\ projected' = [projected EXCEPT ![l] = claim[d].target]
        /\ status' = [status EXCEPT ![d] = "COMPLETE"]
        /\ history' = [history EXCEPT ![l] = Append(history[l], d)]
        /\ answer' = d
        /\ UNCHANGED <<cut, claim, files, clock, seed>>
        /\ Resolved(d)
    BY <1>10 DEF FinalizeBatch
  <2>6. /\ status'[d] = "COMPLETE"
        /\ \A x \in BatchId : x # d => status'[x] = status[x]
    BY <1>1, <2>2, <2>5 DEF LockedInv, TypeOK
  <2>7. {x \in BatchId : status'[x] = "COMPLETE"} = Complete \cup {d}
    BY <2>2, <2>6 DEF Complete
  <2>8. ActiveOf(status', claim') = [Active EXCEPT ![l] = NoBatch]
    <3>1. ClaimsOf(status', claim', l) = {}
      BY <2>4, <2>5, <2>6 DEF ClaimsOf
    <3>2. \A k \in Lane : k # l => ClaimsOf(status, claim, k) = ClaimsOf(status', claim', k)
      BY <2>2, <2>5, <2>6 DEF ClaimsOf
    <3>3. ActiveOf(status', claim')[l] = NoBatch
      BY <2>3, <3>1, NoActiveBatch
    <3>4. l \in Lane
      BY <2>3
    <3> DEFINE g == ActiveOf(status', claim')
    <3>5. Active = [k \in Lane |-> Active[k]] /\ g = [k \in Lane |-> g[k]]
      BY DEF Active, ActiveOf
    <3>6. \A k \in Lane : k # l => g[k] = Active[k]
      BY <3>2, SameActiveBatch DEF Active
    <3> HIDE DEF g, l
    <3>7. g = [Active EXCEPT ![l] = NoBatch]
      BY <3>3, <3>4, <3>5, <3>6 DEF g
    <3> QED
      BY <3>7 DEF g
  <2>9. Journal!CanFinalize(d, at)
    <3>1. Journal!Current(d)
      BY <1>2, <2>2, <2>4, DistinctSentinels DEF Journal!Current, Journal!Issued
    <3>2. Journal!Resolved(d)
      BY <2>5 DEF Resolved, Journal!Resolved, Success, Journal!Success
    <3> QED
      BY <2>2, <2>3, <3>1, <3>2 DEF Journal!CanFinalize
  <2>10. d \notin Complete
    BY <2>2 DEF Complete
  <2>11. at \in Journal!Reading
    BY <2>3 DEF Journal!Reading
  <2>12. PICK b \in BatchId, now \in Journal!Reading : b = d /\ now = at
    BY <2>2, <2>11
  <2>13. Journal!FinalizeBatch(b, now)
    BY <1>2, <1>9, <2>2, <2>5, <2>7, <2>8, <2>9, <2>10, <2>12
       DEF Journal!FinalizeBatch, Journal!NewHead, Complete, Claimed
  <2> QED
    BY <2>13 DEF Journal!Next
<1>11. ASSUME NEW t \in Txn, NEW target \in Sha, NEW c \in Cut, NEW ps \in SUBSET Path,
              NEW b \in BatchId, NEW lease \in Lease, ClaimBatch(t, target, c, ps, b, lease)
       PROVE  Journal!Next
  <2> DEFINE l == tx[t].lane
             e == tx[t].laneRow.head
             now == tx[t].now
             old == tx[t].batch
  <2>1. Running(t) /\ tx[t].step = 3 /\ tx[t].op = "claim" /\ tx[t].step >= 2
    BY <1>1, <1>11, StepFacts DEF ClaimBatch, AtBody, LockedInv
  <2>2. /\ l \in Lane /\ e \in Base /\ now \in 0..clock
        /\ projected[l] # Unseeded /\ projected[l] = e /\ cut[l] = c
    <3>1. l \in Lane /\ e \in Base /\ now \in 0..clock
      BY <1>1, <2>1, CallFacts DEF LockedInv, CallInv, TypeOK, LaneRow
    <3>2. projected[l] # Unseeded /\ projected[l] = e /\ cut[l] = c
      BY <1>1, <1>11, <2>1, LockedLane DEF ClaimBatch
    <3> QED
      BY <3>1, <3>2
  <2>3. status[b] = "FREE" /\ claim[b] = NoClaim
    BY <1>1, <1>11 DEF ClaimBatch, LockedInv, BatchInv
  <2>4. /\ claim' = [claim EXCEPT ![b] = [lane |-> l, expected |-> e, target |-> target,
                                          cut |-> c, lease |-> now + lease]]
        /\ files' = [files EXCEPT ![b] =
                        [p \in Path |-> IF p \in ps THEN "PENDING" ELSE "ABSENT"]]
        /\ UNCHANGED <<projected, cut, clock, answer, seed, history>>
    BY <1>11 DEF ClaimBatch
  <2>5. /\ claim'[b].lane = l /\ status'[b] = "CLAIMED"
        /\ \A x \in BatchId : x # b => claim'[x] = claim[x]
        /\ \A x \in BatchId : x # b =>
              status'[x] = IF x = old THEN "STALE" ELSE status[x]
    BY <1>1, <1>11 DEF ClaimBatch, LockedInv, TypeOK
  <2>6. IF old = NoBatch THEN Claimed(l) = {}
        ELSE /\ old \in Claimed(l)
             /\ claim[old].lease <= now
    <3>1. CASE old = NoBatch
      BY <1>1, <2>1, <3>1 DEF LockedInv, LockInv, BatchHeld
    <3>2. CASE old # NoBatch
      <4>1. tx[t].status = "CLAIMED"
        BY <1>1, <2>1, <3>2 DEF LockedInv, LockInv, BatchHeld
      <4> QED
        BY <1>1, <1>11, <2>1, <3>2, <4>1, BodyFacts DEF ClaimBatch
    <3> QED
      BY <3>1, <3>2
  <2>7. {x \in BatchId : status'[x] = "COMPLETE"} = Complete
    <3>1. old \in BatchId => status[old] = "CLAIMED"
      BY <2>6, DistinctSentinels DEF Claimed
    <3> QED
      BY <2>3, <2>5, <3>1 DEF Complete
  <2>8. ActiveOf(status', claim') = [Active EXCEPT ![l] = b]
    <3>1. ClaimsOf(status', claim', l) = {b}
      <4>1. \A x \in Claimed(l) : x = old
        BY <1>1, <2>6 DEF OneClaim, Claimed
      <4> QED
        BY <2>5, <4>1 DEF ClaimsOf, Claimed
    <3>2. \A k \in Lane : k # l => ClaimsOf(status, claim, k) = ClaimsOf(status', claim', k)
      <4>1. old \in BatchId => claim[old].lane = l
        BY <2>6, DistinctSentinels DEF Claimed
      <4> QED
        BY <2>3, <2>5, <4>1 DEF ClaimsOf
    <3>3. ActiveOf(status', claim')[l] = b
      BY <2>2, <3>1, TheActiveBatch
    <3>4. l \in Lane
      BY <2>2
    <3> DEFINE g == ActiveOf(status', claim')
    <3>5. Active = [k \in Lane |-> Active[k]] /\ g = [k \in Lane |-> g[k]]
      BY DEF Active, ActiveOf
    <3>6. \A k \in Lane : k # l => g[k] = Active[k]
      BY <3>2, SameActiveBatch DEF Active
    <3> HIDE DEF g, l
    <3>7. g = [Active EXCEPT ![l] = b]
      BY <3>3, <3>4, <3>5, <3>6 DEF g
    <3> QED
      BY <3>7 DEF g
  <2>9. Journal!CanClaim(l, e, c, now)
    <3>1. Active[l] # NoBatch => Active[l] = old /\ old # NoBatch /\ claim[old].lease <= now
      <4>1. CASE old = NoBatch
        BY <1>2, <2>2, <2>6, <4>1
      <4>2. CASE old # NoBatch
        BY <1>1, <2>2, <2>6, <4>2, ActiveNow
      <4> QED
        BY <4>1, <4>2
    <3>2. old # NoBatch => claim[old].lease \in Nat
      BY <1>1, <2>1, LockedBatch DEF Claim
    <3>3. ~Journal!Busy(l, now)
      BY <1>2, <2>2, <3>1, <3>2 DEF Journal!Busy
    <3> QED
      BY <2>2, <3>3 DEF Journal!CanClaim
  <2>10. Journal!ClaimBatch(l, e, target, c, ps, b, now, lease)
    BY <1>2, <1>9, <2>3, <2>4, <2>7, <2>8, <2>9
       DEF Journal!ClaimBatch, Complete, Claimed
  <2>11. now \in Journal!Reading /\ e \in Journal!Base
    BY <2>2 DEF Journal!Reading, Journal!Base, Base
  <2> HIDE DEF l, e, now
  <2> QED
    BY <2>2, <2>10, <2>11 DEF Journal!Next
<1> QED
  BY <1>3, <1>4, <1>5, <1>6, <1>7, <1>8, <1>10, <1>11, QuietSteps

\* The functions of the provider, interleaved statement by statement, implement
\* the journal contract, in which every call is one step.
THEOREM Implementation == Spec => ImplementsJournal
<1>1. Init => Journal!Init
  BY DEF Init, Journal!Init, Claimed
<1>2. IInv /\ [Next]_vars => [Journal!Next]_(Journal!vars)
  BY StepImplements
<1> QED
  BY <1>1, <1>2, Invariant, PTL DEF Spec, ImplementsJournal, Journal!Spec


-----------------------------------------------------------------------------
(* MessagePlanes: the invariant.                                           *)

\* A qualified id is the name of one file.
NamesInv == \A f \in File : messages[f] \in {None, f}

\* What was not refused is well-formed and has a known assignee, for good.
ValidIn(p, rs, ids) == \A f \in Eligible(p, rs) : EnvelopeIsValid(f, ids)

\* The events of an assignment go back, one by one, to its root.
LinkIn(p, rs, a, k) ==
    LET f == p.events[a][k] IN
    /\ f \in Eligible(p, rs)
    /\ content[f].envelope.assignment = a
    /\ content[f].envelope.binding = p.row[a].binding
    /\ k = 1 => After(f) = None
    /\ k # 1 => After(f) \in Reference /\ rs[After(f)] = p.events[a][k - 1]
ChainIn(p, rs) ==
    \A a \in Assignment :
        /\ p.events[a] = <<>> => p.row[a] = NoRow
        /\ p.events[a] # <<>> => p.row[a].current = Last(p.events[a])
        /\ \A k \in DOMAIN p.events[a] : LinkIn(p, rs, a, k)

\* A conflict is never resolved.
ConflictsIn(p, rs) ==
    \A f \in p.conflict :
        f \in Eligible(p, rs) /\ Conflicts(p, rs, f) /\ f \notin EventsOf(p, f)

\* Nothing is left to do but for some messages.
SettledIn(p, rs, todo) == \A f \in Eligible(p, rs) \ todo : ~Changes(p, rs, f)

\* Envelopes have an event, are refused, in conflict, or wait.
ToldIn(p, rs) ==
    \A f \in StoredFiles(rs) : HasEnvelope(f) =>
        IF f \in p.invalid \/ f \in EventsOf(p, f) THEN f \notin p.conflict
        ELSE f \in p.conflict \cup p.pending

\* As long as a pass has recorded nothing there is nothing left to do behind it.
LoopInv ==
    /\ NamesInv
    /\ ValidIn(plane, messages, identities)
    /\ ChainIn(plane, messages)
    /\ ConflictsIn(plane, messages)
    /\ work.todo \subseteq Eligible(plane, messages)
    /\ ~work.progress => SettledIn(plane, messages, work.todo)
    /\ Committed => ToldIn(plane, messages)
    /\ Committed => work = Rest

\* The acknowledgements that rest on one reply have references of it of their own.
AcksOf(read, e) == {k \in read : k.evidence = e}
AcksIn(read, rs) ==
    /\ \A k \in read : content[k.evidence].sender = k.identity /\ k.evidence \in StoredFiles(rs)
    /\ \A e \in File : \E g \in [AcksOf(read, e) -> content[e].answers] :
        /\ \A j \in AcksOf(read, e) : j.message \in Candidates(rs, g[j])
        /\ \A j, k \in AcksOf(read, e) : g[j] = g[k] => j = k

\* A reference with several meanings is noted.
NotedIn(ambiguous, rs) ==
    \A e \in StoredFiles(rs), r \in Reference :
        r \in content[e].answers /\ Cardinality(Candidates(rs, r)) > 1 => <<e, r>> \in ambiguous

ReceiptsInv ==
    /\ AcksIn(receipts.read, messages)
    /\ work.of # "insert" => NotedIn(receipts.ambiguous, messages)

PlanesInv == PlanesTypeOK /\ LoopInv /\ ReceiptsInv

-----------------------------------------------------------------------------
(* Files and planes.                                                       *)

Messages == [Reference -> File \cup {None}]

\* What a file says.
LEMMA FileSays ==
    ASSUME content \in Corpora, NEW f \in File
    PROVE  /\ content[f].id \in MessageId /\ content[f].id \in Reference /\ f \in Reference
           /\ content[f].sender \in Identity
           /\ content[f].audience \subseteq Identity
           /\ content[f].answers \subseteq Reference
           /\ content[f].envelope \in Envelope \cup {NoEnvelope, Malformed}
<1>1. content[f] \in FileContent
  BY FilesSaySomething
<1> QED
  BY <1>1 DEF FileContent, Reference

\* Stored files are files.
LEMMA StoredAreFiles ==
    ASSUME NEW rs \in Messages
    PROVE  /\ StoredFiles(rs) \subseteq File
           /\ \A r \in Reference : rs[r] # None => rs[r] \in StoredFiles(rs)
           /\ \A f \in StoredFiles(rs) : \E r \in Reference : rs[r] = f /\ f # None
BY DEF StoredFiles, Messages

\* An eligible message has an envelope that says all it must.
LEMMA EligibleSays ==
    ASSUME content \in Corpora, NEW p, NEW rs \in Messages, NEW ids,
           ValidIn(p, rs, ids), NEW f \in Eligible(p, rs)
    PROVE  /\ f \in File /\ f \in StoredFiles(rs) /\ f # None /\ f \notin p.invalid
           /\ EnvelopeIsValid(f, ids)
           /\ content[f].envelope \in Envelope
           /\ content[f].envelope.assignment \in Assignment
           /\ content[f].envelope.binding \in Binding
           /\ content[f].envelope.binding # None
           /\ IsRoot(f) \/ After(f) \in Reference
<1>1. f \in StoredFiles(rs) /\ f \notin p.invalid /\ HasEnvelope(f)
  BY DEF Eligible
<1>2. f \in File /\ f # None
  BY <1>1, StoredAreFiles, PlaneSentinels
<1>3. EnvelopeIsValid(f, ids)
  BY DEF ValidIn
<1>4. content[f].envelope \in Envelope
  BY <1>1, <1>2, <1>3, FileSays DEF EnvelopeIsValid, HasEnvelope
<1>5. /\ content[f].envelope.assignment \in Assignment
      /\ content[f].envelope.binding \in Binding
      /\ content[f].envelope.after \in Reference \cup {None}
  BY <1>4 DEF Envelope
<1> QED
  BY <1>1, <1>2, <1>3, <1>4, <1>5, PlaneSentinels DEF IsRoot, After

\* The parts of a plane.
LEMMA PlaneParts ==
    ASSUME NEW p \in Plane
    PROVE  /\ p.row \in [Assignment -> [binding : Binding \cup {None}, current : File \cup {None}]]
           /\ p.events \in [Assignment -> Seq(File)]
           /\ p.invalid \subseteq File /\ p.conflict \subseteq File /\ p.pending \subseteq File
BY DEF Plane

\* A sequence of events, and one that is appended.
LEMMA EventsOfAssignment ==
    ASSUME NEW s \in Seq(File), NEW f \in File
    PROVE  /\ Range(s) \subseteq File /\ Len(s) \in Nat
           /\ s # <<>> => Len(s) \in DOMAIN s /\ Last(s) = s[Len(s)] /\ Last(s) \in Range(s)
           /\ Append(s, f) \in Seq(File) /\ Append(s, f) # <<>> /\ Last(Append(s, f)) = f
           /\ Range(Append(s, f)) = Range(s) \cup {f}
           /\ DOMAIN Append(s, f) = DOMAIN s \cup {Len(s) + 1}
           /\ Append(s, f)[Len(s) + 1] = f
           /\ \A k \in DOMAIN s : k \in Nat \ {0} /\ k # Len(s) + 1 /\ Append(s, f)[k] = s[k]
           /\ \A k \in DOMAIN s : k # 1 => k - 1 \in DOMAIN s
<1>1. Len(s) \in Nat /\ DOMAIN s = 1..Len(s)
  OBVIOUS
<1>2. s # <<>> => Len(s) \in DOMAIN s /\ Last(s) = s[Len(s)]
  BY <1>1 DEF Last
<1> DEFINE t == Append(s, f)
<1>3. t \in Seq(File) /\ Len(t) = Len(s) + 1 /\ DOMAIN t = 1..(Len(s) + 1)
  BY <1>1
<1>4. t[Len(s) + 1] = f /\ \A k \in 1..Len(s) : t[k] = s[k]
  BY <1>1
<1> HIDE DEF t
<1>5. t # <<>> /\ Last(t) = f
  BY <1>1, <1>3, <1>4 DEF Last
<1>6. DOMAIN t = DOMAIN s \cup {Len(s) + 1}
  BY <1>1, <1>3
<1>7. Range(t) = Range(s) \cup {f}
  BY <1>1, <1>4, <1>6 DEF Range
<1>8. Range(s) \subseteq File /\ (s # <<>> => Last(s) \in Range(s))
  BY <1>1, <1>2 DEF Range
<1>9. \A k \in DOMAIN s : k \in Nat \ {0} /\ k # Len(s) + 1 /\ t[k] = s[k]
  BY <1>1, <1>4
<1>10. \A k \in DOMAIN s : k # 1 => k - 1 \in DOMAIN s
  BY <1>1
<1> QED
  BY <1>1, <1>2, <1>3, <1>4, <1>5, <1>6, <1>7, <1>8, <1>9, <1>10 DEF t

\* The event f of assignment a is what q has and p has not.
Recorded(p, q, a, f) ==
    /\ q \in Plane
    /\ q.row[a].binding = content[f].envelope.binding /\ q.row[a].current = f
    /\ q.events[a] = Append(p.events[a], f)
    /\ \A x \in Assignment : x # a => q.row[x] = p.row[x] /\ q.events[x] = p.events[x]
    /\ q.invalid = p.invalid /\ q.conflict = p.conflict

\* Recording an event changes the row and the events of one assignment.
LEMMA RecordFacts ==
    ASSUME NEW p \in Plane, NEW f \in File, content[f].envelope \in Envelope,
           NEW a, a = content[f].envelope.assignment, NEW q, q = Record(p, f)
    PROVE  Recorded(p, q, a, f)
<1> DEFINE r == [binding |-> content[f].envelope.binding, current |-> f]
           R == [p.row EXCEPT ![a] = r]
           E == [p.events EXCEPT ![a] = Append(p.events[a], f)]
<1>1. a \in Assignment /\ content[f].envelope.binding \in Binding
  BY DEF Envelope
<1>2. r \in [binding : Binding \cup {None}, current : File \cup {None}]
  BY <1>1
<1>3. r.binding = content[f].envelope.binding /\ r.current = f
  OBVIOUS
<1> HIDE DEF r
<1>4. /\ R \in [Assignment -> [binding : Binding \cup {None}, current : File \cup {None}]]
      /\ R[a] = r /\ \A x \in Assignment : x # a => R[x] = p.row[x]
  BY <1>1, <1>2, PlaneParts
<1>5. Append(p.events[a], f) \in Seq(File)
  BY <1>1, PlaneParts, EventsOfAssignment
<1>6. /\ E \in [Assignment -> Seq(File)]
      /\ E[a] = Append(p.events[a], f) /\ \A x \in Assignment : x # a => E[x] = p.events[x]
  BY <1>1, <1>5, PlaneParts
<1>7. q = [p EXCEPT !.row = R, !.events = E]
  <2> DEFINE c == content[f].envelope.assignment
  <2>1. Record(p, f) =
           [p EXCEPT !.row = [p.row EXCEPT ![c] = r],
                     !.events = [p.events EXCEPT ![c] = Append(p.events[c], f)]]
    BY Zenon DEF Record, r
  <2>2. c = a
    OBVIOUS
  <2> HIDE DEF c
  <2> QED
    BY <2>1, <2>2
<1> HIDE DEF R, E
<1>8. /\ q.row = R /\ q.events = E
      /\ q.invalid = p.invalid /\ q.conflict = p.conflict /\ q.pending = p.pending
      /\ q \in Plane
  BY <1>4, <1>6, <1>7 DEF Plane
<1> QED
  BY <1>1, <1>3, <1>4, <1>6, <1>8 DEF Recorded

\* A message in conflict cannot go on with the chain.
LEMMA ConflictsDoNotApply ==
    ASSUME NEW p, NEW rs, NEW f, Conflicts(p, rs, f)
    PROVE  ~Applies(p, rs, f)
BY DEF Applies, Conflicts

\* What the properties of a plane rest on.
LEMMA SameEvents ==
    ASSUME NEW p, NEW q, NEW rs, NEW ids, NEW todo,
           q.row = p.row, q.events = p.events, q.invalid = p.invalid, q.conflict = p.conflict
    PROVE  /\ Eligible(q, rs) = Eligible(p, rs)
           /\ \A f : Changes(q, rs, f) <=> Changes(p, rs, f)
           /\ ValidIn(p, rs, ids) => ValidIn(q, rs, ids)
           /\ ChainIn(p, rs) => ChainIn(q, rs)
           /\ ConflictsIn(p, rs) => ConflictsIn(q, rs)
           /\ SettledIn(p, rs, todo) => SettledIn(q, rs, todo)
<1>1. Eligible(q, rs) = Eligible(p, rs)
  BY DEF Eligible
<1>2. \A f : /\ RowOf(q, f) = RowOf(p, f) /\ EventsOf(q, f) = EventsOf(p, f)
             /\ BindingHolds(q, f) <=> BindingHolds(p, f)
  BY DEF RowOf, EventsOf, BindingHolds
<1>3. \A f : /\ Applies(q, rs, f) <=> Applies(p, rs, f)
             /\ Conflicts(q, rs, f) <=> Conflicts(p, rs, f)
  BY <1>2 DEF Applies, Conflicts
<1>4. \A f : Changes(q, rs, f) <=> Changes(p, rs, f)
  BY <1>2, <1>3 DEF Changes
<1>5. ChainIn(p, rs) => ChainIn(q, rs)
  BY <1>1 DEF ChainIn, LinkIn
<1>6. ConflictsIn(p, rs) => ConflictsIn(q, rs)
  BY <1>1, <1>2, <1>3 DEF ConflictsIn
<1> QED
  BY <1>1, <1>4, <1>5, <1>6 DEF ValidIn, SettledIn

\* An insert and the refusals that follow it leave the chains as they are.
LEMMA Growth ==
    ASSUME content \in Corpora, NEW p \in Plane, NEW q, NEW rs \in Messages, NEW ss \in Messages,
           NEW ids, \A r \in Reference : rs[r] # None => ss[r] = rs[r],
           ValidIn(p, rs, ids), ChainIn(p, rs), ConflictsIn(p, rs),
           q = [p EXCEPT !.invalid = p.invalid \cup Refused(ss, ids)]
    PROVE  q \in Plane /\ ValidIn(q, ss, ids) /\ ChainIn(q, ss) /\ ConflictsIn(q, ss)
<1> DEFINE I == p.invalid \cup Refused(ss, ids)
<1>1. I \subseteq File
  BY PlaneParts, StoredAreFiles DEF Refused
<1>2. q = [p EXCEPT !.invalid = I]
  OBVIOUS
<1>3. Refused(ss, ids) \subseteq I /\ p.invalid \subseteq I
  OBVIOUS
<1>4. I = p.invalid \cup Refused(ss, ids)
  OBVIOUS
<1> HIDE DEF I
<1>5. /\ q \in Plane /\ q.invalid = I
      /\ q.row = p.row /\ q.events = p.events /\ q.conflict = p.conflict
  BY <1>1, <1>2 DEF Plane
<1>6. \A f \in StoredFiles(rs) : f \in StoredFiles(ss)
  BY StoredAreFiles DEF StoredFiles
<1>7. ValidIn(q, ss, ids)
  BY <1>3, <1>5 DEF ValidIn, Eligible, Refused
<1>8. \A f \in Eligible(p, rs) : f \in Eligible(q, ss)
  <2>1. ASSUME NEW f \in Eligible(p, rs)
        PROVE  f \in Eligible(q, ss)
    <3>1. f \in StoredFiles(rs) /\ HasEnvelope(f) /\ f \notin p.invalid
      BY DEF Eligible
    <3>2. EnvelopeIsValid(f, ids)
      BY DEF ValidIn
    <3>3. f \notin Refused(ss, ids)
      BY <3>2 DEF Refused
    <3> QED
      BY <1>4, <1>5, <1>6, <3>1, <3>3 DEF Eligible
  <2> QED
    BY <2>1
<1>9. ASSUME NEW f \in Eligible(p, rs), NEW r \in Reference, rs[r] = f
      PROVE  ss[r] = f
  BY <1>9, EligibleSays
<1>10. ASSUME NEW a \in Assignment, NEW k \in DOMAIN p.events[a]
       PROVE  LinkIn(q, ss, a, k)
  <2>1. k # 1 => k - 1 \in DOMAIN p.events[a]
    BY PlaneParts
  <2>2. LinkIn(p, rs, a, k) /\ (k # 1 => LinkIn(p, rs, a, k - 1))
    BY <2>1 DEF ChainIn
  <2>3. k # 1 => p.events[a][k - 1] \in Eligible(p, rs)
    BY <2>2 DEF LinkIn
  <2>4. k # 1 => ss[After(p.events[a][k])] = p.events[a][k - 1]
    BY <1>9, <2>2, <2>3 DEF LinkIn
  <2> QED
    BY <1>5, <1>8, <2>2, <2>4 DEF LinkIn
<1>12. ChainIn(q, ss)
  BY <1>5, <1>10 DEF ChainIn
<1>11. ConflictsIn(q, ss)
  <2> SUFFICES ASSUME NEW f \in p.conflict
               PROVE  f \in Eligible(q, ss) /\ Conflicts(q, ss, f) /\ f \notin EventsOf(q, f)
    BY <1>5 DEF ConflictsIn
  <2>1. f \in Eligible(p, rs) /\ Conflicts(p, rs, f) /\ f \notin EventsOf(p, f)
    BY DEF ConflictsIn
  <2>2. /\ RowOf(q, f) = RowOf(p, f) /\ EventsOf(q, f) = EventsOf(p, f)
        /\ BindingHolds(q, f) <=> BindingHolds(p, f)
    BY <1>5 DEF RowOf, EventsOf, BindingHolds
  <2>3. ASSUME NEW g \in EventsOf(p, f)
        PROVE  g \in Eligible(p, rs)
    <3>1. content[f].envelope.assignment \in Assignment
      BY <2>1, EligibleSays
    <3> QED
      BY <3>1 DEF EventsOf, Range, ChainIn, LinkIn
  <2>4. ~IsRoot(f) /\ rs[After(f)] \in EventsOf(p, f) => ss[After(f)] = rs[After(f)]
    BY <1>9, <2>1, <2>3, EligibleSays
  <2> QED
    BY <1>8, <2>1, <2>2, <2>4 DEF Conflicts
<1> QED
  BY <1>5, <1>7, <1>12, <1>11

\* Considering a message that changes something makes it the current event of its
\* assignment, or a conflict, which changes nothing for the others.
LEMMA OneMessage ==
    ASSUME content \in Corpora, NEW p \in Plane, NEW q, NEW rs \in Messages, NEW ids,
           ValidIn(p, rs, ids), ChainIn(p, rs), ConflictsIn(p, rs),
           NEW f \in Eligible(p, rs), Changes(p, rs, f), q = Consider(p, rs, f)
    PROVE  /\ q \in Plane /\ Eligible(q, rs) = Eligible(p, rs)
           /\ ValidIn(q, rs, ids) /\ ChainIn(q, rs) /\ ConflictsIn(q, rs)
           /\ \/ Applies(p, rs, f)
              \/ \A g : Changes(q, rs, g) => Changes(p, rs, g) /\ g # f
<1>a. PICK a : a = content[f].envelope.assignment
  OBVIOUS
<1>s. PICK s : s = p.events[a]
  OBVIOUS
<1>1. /\ f \in File /\ f # None /\ content[f].envelope \in Envelope /\ a \in Assignment
      /\ content[f].envelope.binding # None /\ (IsRoot(f) \/ After(f) \in Reference)
  BY <1>a, EligibleSays
<1>2. s \in Seq(File) /\ Len(s) \in Nat
  BY <1>1, <1>s, PlaneParts
<1>3. f \notin EventsOf(p, f) /\ RowOf(p, f) = p.row[a] /\ EventsOf(p, f) = Range(s)
  BY <1>a, <1>s DEF Changes, RowOf, EventsOf
<1>4. CASE Applies(p, rs, f)
  <2>1. q = Record(p, f)
    BY <1>3, <1>4 DEF Consider
  <2>2. /\ q \in Plane
        /\ q.row[a].binding = content[f].envelope.binding /\ q.row[a].current = f
        /\ q.events[a] = Append(s, f)
        /\ \A x \in Assignment : x # a => q.row[x] = p.row[x] /\ q.events[x] = p.events[x]
        /\ q.invalid = p.invalid /\ q.conflict = p.conflict
    <3>1. f \in File /\ content[f].envelope \in Envelope
      BY <1>1
    <3>2. Recorded(p, q, a, f)
      BY <1>a, <2>1, <3>1, RecordFacts
    <3> QED
      BY <1>s, <3>2 DEF Recorded
  <2>3. Eligible(q, rs) = Eligible(p, rs) /\ ValidIn(q, rs, ids)
    BY <2>2 DEF Eligible, ValidIn
  <2>4. s # <<>> => p.row[a].current = s[Len(s)] /\ s[Len(s)] \in Eligible(p, rs)
    <3>1. s # <<>> => Len(s) \in DOMAIN s /\ Last(s) = s[Len(s)]
      BY <1>1, <1>2, EventsOfAssignment
    <3> QED
      BY <1>1, <1>s, <3>1 DEF ChainIn, LinkIn
  <2>5. s # <<>> => p.row[a] # NoRow
    BY <2>4, EligibleSays DEF NoRow
  <2>6. s = <<>> => p.row[a] = NoRow
    BY <1>1, <1>s DEF ChainIn
  <2>7. IsRoot(f) => s = <<>>
    BY <1>3, <1>4, <2>5 DEF Applies
  <2>8. ~IsRoot(f) => /\ s # <<>> /\ After(f) \in Reference /\ rs[After(f)] = s[Len(s)]
                      /\ p.row[a].binding = content[f].envelope.binding
    BY <1>1, <1>3, <1>4, <2>4, <2>6 DEF Applies, BindingHolds
  <2>t. PICK t : t = q.events[a]
    OBVIOUS
  <2>9. /\ t # <<>> /\ Last(t) = f /\ Range(t) = Range(s) \cup {f}
        /\ DOMAIN t = DOMAIN s \cup {Len(s) + 1} /\ t[Len(s) + 1] = f
        /\ \A k \in DOMAIN s : k \in Nat \ {0} /\ k # Len(s) + 1 /\ t[k] = s[k]
        /\ \A k \in DOMAIN s : k # 1 => k - 1 \in DOMAIN s
        /\ (s # <<>> => Len(s) \in DOMAIN s)
    BY <1>1, <1>2, <2>2, <2>t, EventsOfAssignment
  <2>10. ChainIn(q, rs)
    <3>1. ASSUME NEW x \in Assignment, x # a
          PROVE  q.row[x] = p.row[x] /\ q.events[x] = p.events[x]
      BY <2>2, <3>1
    <3>2. q.events[a] # <<>> /\ q.row[a].current = Last(q.events[a])
      BY <2>2, <2>9, <2>t
    <3>3. ASSUME NEW k \in DOMAIN t
          PROVE  /\ t[k] \in Eligible(q, rs)
                 /\ content[t[k]].envelope.assignment = a
                 /\ content[t[k]].envelope.binding = q.row[a].binding
                 /\ k = 1 => After(t[k]) = None
                 /\ k # 1 => After(t[k]) \in Reference /\ rs[After(t[k])] = t[k - 1]
      <4>1. CASE k \in DOMAIN s
        <5>1. /\ s[k] \in Eligible(p, rs) /\ content[s[k]].envelope.assignment = a
              /\ content[s[k]].envelope.binding = p.row[a].binding
              /\ k = 1 => After(s[k]) = None
              /\ k # 1 => After(s[k]) \in Reference /\ rs[After(s[k])] = s[k - 1]
          BY <1>1, <1>s, <4>1 DEF ChainIn, LinkIn
        <5>2. t[k] = s[k] /\ (k # 1 => t[k - 1] = s[k - 1])
          BY <2>9, <4>1
        <5>3. s # <<>>
          BY <4>1
        <5>4. p.row[a].binding = q.row[a].binding
          BY <2>2, <2>7, <2>8, <5>3
        <5> QED
          BY <2>3, <5>1, <5>2, <5>4
      <4>2. CASE k = Len(s) + 1
        <5>1. t[k] = f
          BY <2>9, <4>2
        <5>2. k = 1 => s = <<>>
          BY <1>2, <4>2
        <5>3. k # 1 => s # <<>>
          BY <1>2, <4>2
        <5>4. k = 1 => After(f) = None
          BY <2>8, <5>2 DEF IsRoot
        <5>5. k # 1 => k - 1 = Len(s) /\ t[k - 1] = s[Len(s)]
          BY <1>2, <2>9, <4>2, <5>3
        <5> QED
          BY <1>a, <2>2, <2>3, <2>7, <2>8, <5>1, <5>3, <5>4, <5>5
      <4> QED
        BY <2>9, <4>1, <4>2
    <3>4. ASSUME NEW x \in Assignment
          PROVE  /\ q.events[x] = <<>> => q.row[x] = NoRow
                 /\ q.events[x] # <<>> => q.row[x].current = Last(q.events[x])
      <4>1. CASE x = a
        BY <3>2, <4>1
      <4>2. CASE x # a
        BY <3>1, <4>2 DEF ChainIn
      <4> QED
        BY <4>1, <4>2
    <3>5. ASSUME NEW x \in Assignment, NEW k \in DOMAIN q.events[x]
          PROVE  LinkIn(q, rs, x, k)
      <4>1. CASE x = a
        BY <2>t, <3>3, <4>1 DEF LinkIn
      <4>2. CASE x # a
        <5>1. LinkIn(p, rs, x, k)
          BY <3>1, <4>2 DEF ChainIn
        <5> QED
          BY <2>3, <3>1, <4>2, <5>1 DEF LinkIn
      <4> QED
        BY <4>1, <4>2
    <3> QED
      BY <3>4, <3>5 DEF ChainIn
  <2>11. ConflictsIn(q, rs)
    <3> SUFFICES ASSUME NEW g \in p.conflict
                 PROVE  g \in Eligible(q, rs) /\ Conflicts(q, rs, g) /\ g \notin EventsOf(q, g)
      BY <2>2 DEF ConflictsIn
    <3>1. g \in Eligible(p, rs) /\ Conflicts(p, rs, g) /\ g \notin EventsOf(p, g)
      BY DEF ConflictsIn
    <3>2. g # f
      BY <1>4, <3>1, ConflictsDoNotApply
    <3>3. content[g].envelope.assignment \in Assignment
      BY <3>1, EligibleSays
    <3>4. CASE content[g].envelope.assignment # a
      <4>1. /\ RowOf(q, g) = RowOf(p, g) /\ EventsOf(q, g) = EventsOf(p, g)
            /\ BindingHolds(q, g) <=> BindingHolds(p, g)
        BY <2>2, <3>3, <3>4 DEF RowOf, EventsOf, BindingHolds
      <4> QED
        BY <2>3, <3>1, <4>1 DEF Conflicts
    <3>5. CASE content[g].envelope.assignment = a
      <4>1. /\ RowOf(p, g) = p.row[a] /\ RowOf(q, g) = q.row[a]
            /\ EventsOf(p, g) = Range(s) /\ EventsOf(q, g) = Range(s) \cup {f}
        BY <1>s, <2>9, <2>t, <3>5 DEF RowOf, EventsOf
      <4>2. p.row[a] # NoRow
        BY <3>1, <4>1 DEF Conflicts
      <4>3. p.row[a].binding = q.row[a].binding /\ q.row[a] # NoRow
        BY <1>1, <2>2, <2>6, <2>7, <2>8, <4>2 DEF NoRow
      <4>4. BindingHolds(q, g) <=> BindingHolds(p, g)
        BY <4>1, <4>3 DEF BindingHolds
      <4>5. f \notin Range(s)
        BY <1>3
      <4>6. rs[After(g)] \in EventsOf(p, g) \ {RowOf(p, g).current} =>
                rs[After(g)] \in EventsOf(q, g) \ {RowOf(q, g).current}
        BY <2>2, <4>1, <4>5
      <4>7. Conflicts(q, rs, g)
        BY <3>1, <4>1, <4>3, <4>4, <4>6 DEF Conflicts
      <4> QED
        BY <2>3, <3>1, <3>2, <4>1, <4>7
    <3> QED
      BY <3>4, <3>5
  <2> QED
    BY <1>4, <2>2, <2>3, <2>10, <2>11
<1>5. CASE ~Applies(p, rs, f)
  <2> DEFINE C == p.conflict \cup {f}
  <2>1. Conflicts(p, rs, f) /\ f \notin p.conflict
    BY <1>5 DEF Changes
  <2>2. q = [p EXCEPT !.conflict = C]
    BY <1>3, <1>5, <2>1 DEF Consider
  <2>3. C \subseteq File
    BY <1>1, PlaneParts
  <2>4. C = p.conflict \cup {f}
    OBVIOUS
  <2> HIDE DEF C
  <2>5. /\ q \in Plane /\ q.conflict = C
        /\ q.row = p.row /\ q.events = p.events /\ q.invalid = p.invalid
    BY <2>2, <2>3 DEF Plane
  <2>6. Eligible(q, rs) = Eligible(p, rs) /\ ValidIn(q, rs, ids)
    BY <2>5 DEF Eligible, ValidIn
  <2>7. ChainIn(q, rs)
    BY <2>5, <2>6 DEF ChainIn, LinkIn
  <2>8. \A g : /\ RowOf(q, g) = RowOf(p, g) /\ EventsOf(q, g) = EventsOf(p, g)
               /\ BindingHolds(q, g) <=> BindingHolds(p, g)
    BY <2>5 DEF RowOf, EventsOf, BindingHolds
  <2>9. \A g : /\ Applies(q, rs, g) <=> Applies(p, rs, g)
               /\ Conflicts(q, rs, g) <=> Conflicts(p, rs, g)
    BY <2>8 DEF Applies, Conflicts
  <2>10. ConflictsIn(q, rs)
    BY <1>3, <2>1, <2>4, <2>5, <2>6, <2>8, <2>9 DEF ConflictsIn
  <2>11. \A g : Changes(q, rs, g) => Changes(p, rs, g) /\ g # f
    BY <1>5, <2>4, <2>5, <2>8, <2>9 DEF Changes
  <2> QED
    BY <2>5, <2>6, <2>7, <2>10, <2>11
<1> QED
  BY <1>4, <1>5

\* When no message changes anything what is left waits, and every envelope is told.
LEMMA TheEnd ==
    ASSUME content \in Corpora, NEW p \in Plane, NEW q, NEW rs \in Messages, NEW ids,
           ValidIn(p, rs, ids), ChainIn(p, rs), ConflictsIn(p, rs), SettledIn(p, rs, {}),
           q = [p EXCEPT !.pending = p.pending \cup Waiting(p, rs)]
    PROVE  /\ q \in Plane
           /\ ValidIn(q, rs, ids) /\ ChainIn(q, rs) /\ ConflictsIn(q, rs)
           /\ SettledIn(q, rs, {}) /\ ToldIn(q, rs)
<1> DEFINE W == p.pending \cup Waiting(p, rs)
<1>1. W \subseteq File
  BY PlaneParts, StoredAreFiles DEF Waiting
<1>2. q = [p EXCEPT !.pending = W]
  OBVIOUS
<1>3. Waiting(p, rs) \subseteq W
  OBVIOUS
<1> HIDE DEF W
<1>4. /\ q \in Plane /\ q.pending = W
      /\ q.row = p.row /\ q.events = p.events /\ q.invalid = p.invalid /\ q.conflict = p.conflict
  BY <1>1, <1>2 DEF Plane
<1>5. ValidIn(q, rs, ids) /\ ChainIn(q, rs) /\ ConflictsIn(q, rs) /\ SettledIn(q, rs, {})
  BY <1>4, SameEvents
<1>6. \A f : EventsOf(q, f) = EventsOf(p, f)
  BY <1>4 DEF EventsOf
<1>7. ASSUME NEW f \in StoredFiles(rs), HasEnvelope(f),
             f \in p.invalid \/ f \in EventsOf(p, f)
      PROVE  f \notin p.conflict
  BY <1>7 DEF ConflictsIn, Eligible
<1>8. ASSUME NEW f \in StoredFiles(rs), HasEnvelope(f),
             f \notin p.invalid, f \notin EventsOf(p, f)
      PROVE  f \in p.conflict \cup W
  <2>1. f \in Eligible(p, rs)
    BY <1>8 DEF Eligible
  <2>2. ~Changes(p, rs, f)
    BY <2>1 DEF SettledIn
  <2>3. ~Applies(p, rs, f) /\ (f \in p.conflict \/ ~Conflicts(p, rs, f))
    BY <1>8, <2>2 DEF Changes
  <2>4. CASE IsRoot(f)
    BY <2>3, <2>4 DEF Applies, Conflicts
  <2>5. CASE ~IsRoot(f) /\ f \notin p.conflict
    BY <1>3, <1>8, <2>5 DEF Waiting
  <2> QED
    BY <2>4, <2>5
<1>9. ToldIn(q, rs)
  BY <1>4, <1>6, <1>7, <1>8 DEF ToldIn
<1> QED
  BY <1>4, <1>5, <1>9


\* What the files say does not change.
LEMMA SameContent ==
    ASSUME content' = content
    PROVE  /\ Eligible(plane, messages)' = Eligible(plane', messages')
           /\ ValidIn(plane, messages, identities)' <=> ValidIn(plane', messages', identities')
           /\ ChainIn(plane, messages)' <=> ChainIn(plane', messages')
           /\ ConflictsIn(plane, messages)' <=> ConflictsIn(plane', messages')
           /\ SettledIn(plane, messages, work.todo)' <=> SettledIn(plane', messages', work'.todo)
           /\ ToldIn(plane, messages)' <=> ToldIn(plane', messages')
<1>1. Eligible(plane, messages)' = Eligible(plane', messages')
  BY DEF Eligible, HasEnvelope, StoredFiles
<1>2. ValidIn(plane, messages, identities)' <=> ValidIn(plane', messages', identities')
  BY <1>1 DEF ValidIn, EnvelopeIsValid
<1>3. ChainIn(plane, messages)' <=> ChainIn(plane', messages')
  BY <1>1 DEF ChainIn, LinkIn, After
<1>4. ConflictsIn(plane, messages)' <=> ConflictsIn(plane', messages')
  BY <1>1 DEF ConflictsIn, Conflicts, EventsOf, RowOf, BindingHolds, IsRoot, After
<1>5. SettledIn(plane, messages, work.todo)' <=> SettledIn(plane', messages', work'.todo)
  BY <1>1 DEF SettledIn, Changes, Applies, Conflicts, EventsOf, RowOf, BindingHolds, IsRoot, After
<1>6. ToldIn(plane, messages)' <=> ToldIn(plane', messages')
  BY DEF ToldIn, StoredFiles, HasEnvelope, EventsOf
<1> QED
  BY <1>1, <1>2, <1>3, <1>4, <1>5, <1>6

\* An insert takes a reference that was free and leaves the others.
LEMMA Inserted ==
    ASSUME PlanesTypeOK, NamesInv, NEW f \in File, ~IsStored(f)
    PROVE  /\ Insert(f) \in Messages
           /\ \A r \in Reference : messages[r] # None => Insert(f)[r] = messages[r]
           /\ \A g \in File : Insert(f)[g] \in {None, g}
<1> DEFINE id == content[f].id
<1>1. id \in MessageId /\ id \in Reference /\ f \in Reference
  BY FileSays DEF PlanesTypeOK
<1> HIDE DEF id
<1>2. messages \in Messages
  BY DEF PlanesTypeOK, Messages
<1>3. messages[f] = None
  BY DEF NamesInv, IsStored
<1>4. PICK r : /\ r = IF messages[id] = None THEN id ELSE f
               /\ Insert(f) = [messages EXCEPT ![r] = f]
  BY DEF Insert, id
<1>5. r \in Reference /\ messages[r] = None /\ r \in {id, f}
  BY <1>1, <1>3, <1>4
<1>6. \A g \in File : g = r => g = f
  BY <1>1, <1>5, PlaneSentinels
<1>7. Insert(f) \in Messages
  BY <1>2, <1>4, <1>5 DEF Messages
<1>8. \A x \in Reference : messages[x] # None => Insert(f)[x] = messages[x]
  BY <1>2, <1>4, <1>5 DEF Messages
<1>9. \A g \in File : Insert(f)[g] \in {None, g}
  BY <1>2, <1>4, <1>6 DEF Messages, NamesInv, Reference
<1> QED
  BY <1>7, <1>8, <1>9

\* The start of a call: every eligible message is to be considered.
LEMMA StartKeepsLoop ==
    ASSUME PlanesTypeOK, LoopInv, NEW of \in {"insert", "call"}, NEW ss \in Messages,
           \A r \in Reference : messages[r] # None => ss[r] = messages[r],
           \A g \in File : ss[g] \in {None, g},
           content' = content, identities' = identities, messages' = ss, StartPasses(of, ss)
    PROVE  plane' \in Plane /\ work' \in Work /\ LoopInv' /\ work'.of = of
<1>1. content \in Corpora /\ plane \in Plane /\ messages \in Messages
  BY DEF PlanesTypeOK, Messages
<1>2. plane' = [plane EXCEPT !.invalid = plane.invalid \cup Refused(ss, identities)]
  BY DEF StartPasses
<1>3. /\ plane' \in Plane /\ ValidIn(plane', ss, identities)
      /\ ChainIn(plane', ss) /\ ConflictsIn(plane', ss)
  BY <1>1, <1>2, Growth DEF LoopInv
<1>4. PICK T : T = Eligible(plane', ss)
  OBVIOUS
<1>5. T \subseteq File
  BY <1>4, StoredAreFiles DEF Eligible
<1>6. work' = [of |-> of, todo |-> T, progress |-> FALSE]
  BY <1>4 DEF StartPasses
<1>7. work' \in Work /\ work'.of = of /\ work'.todo = T /\ work'.progress = FALSE
  BY <1>5, <1>6 DEF Work
<1>8. SettledIn(plane', ss, work'.todo)
  BY <1>4, <1>7 DEF SettledIn
<1>9. Committed' <=> work'.of = "nobody"
  BY DEF Committed
<1>10. NamesInv'
  BY DEF NamesInv
<1> QED
  BY <1>3, <1>4, <1>7, <1>8, <1>9, <1>10, SameContent DEF LoopInv

\* The next message of a pass.
LEMMA ConsiderKeepsLoop ==
    ASSUME PlanesTypeOK, LoopInv, NEW f \in File, ConsiderNext(f)
    PROVE  plane' \in Plane /\ work' \in Work /\ LoopInv' /\ work'.of = work.of
<1>1. content \in Corpora /\ plane \in Plane /\ messages \in Messages /\ work \in Work
  BY DEF PlanesTypeOK, Messages
<1>2. /\ f \in work.todo /\ f \in Eligible(plane, messages) /\ Changes(plane, messages, f)
      /\ \A g \in work.todo : PlaceOf[g] < PlaceOf[f] => ~Changes(plane, messages, g)
      /\ plane' = Consider(plane, messages, f)
      /\ content' = content /\ messages' = messages /\ identities' = identities
  BY DEF ConsiderNext, LoopInv
<1>3. /\ plane' \in Plane /\ Eligible(plane', messages) = Eligible(plane, messages)
      /\ ValidIn(plane', messages, identities) /\ ChainIn(plane', messages)
      /\ ConflictsIn(plane', messages)
      /\ \/ Applies(plane, messages, f)
         \/ \A g : Changes(plane', messages, g) => Changes(plane, messages, g) /\ g # f
  BY <1>1, <1>2, OneMessage DEF LoopInv
<1>4. PICK T : T = {g \in work.todo : PlaceOf[g] > PlaceOf[f]}
  OBVIOUS
<1>5. PICK b \in BOOLEAN : b = (work.progress \/ Applies(plane, messages, f))
  OBVIOUS
<1>6. T \subseteq File /\ T \subseteq work.todo
  BY <1>1, <1>4 DEF Work
<1>7. work' = [work EXCEPT !.todo = T, !.progress = b]
  BY <1>4, <1>5 DEF ConsiderNext
<1>8. work' \in Work /\ work'.of = work.of /\ work'.todo = T /\ work'.progress = b
  BY <1>1, <1>6, <1>7 DEF Work
<1>9. ASSUME ~b, NEW g \in Eligible(plane, messages) \ T
      PROVE  ~Changes(plane', messages, g)
  <2>1. /\ ~work.progress /\ ~Applies(plane, messages, f)
    BY <1>5, <1>9
  <2>2. SettledIn(plane, messages, work.todo)
    BY <2>1 DEF LoopInv
  <2>3. g \in File /\ PlaceOf[g] \in Nat /\ PlaceOf[f] \in Nat
    BY <1>1, StoredAreFiles, PlacesAreAnOrder DEF Eligible
  <2>4. CASE g \notin work.todo
    BY <1>3, <2>1, <2>2, <2>4 DEF SettledIn
  <2>5. CASE g \in work.todo /\ PlaceOf[g] < PlaceOf[f]
    BY <1>2, <1>3, <2>1, <2>5
  <2>6. CASE g \in work.todo /\ PlaceOf[g] = PlaceOf[f]
    BY <1>3, <2>1, <2>3, <2>6, PlacesAreAnOrder
  <2>7. g \in work.todo => ~(PlaceOf[g] > PlaceOf[f])
    BY <1>4
  <2> QED
    BY <2>3, <2>4, <2>5, <2>6, <2>7
<1>10. ~b => SettledIn(plane', messages, T)
  BY <1>3, <1>9 DEF SettledIn
<1>11. T \subseteq Eligible(plane', messages)
  BY <1>3, <1>6 DEF LoopInv
<1>12. work.of # "nobody"
  BY <1>2 DEF LoopInv, Rest, Committed
<1>13. Committed' <=> work'.of = "nobody"
  BY DEF Committed
<1>14. NamesInv'
  BY <1>2 DEF LoopInv, NamesInv
<1> QED
  BY <1>2, <1>3, <1>8, <1>10, <1>11, <1>12, <1>13, <1>14, SameContent DEF LoopInv


\* A pass that recorded something is followed by another one.
LEMMA RepeatKeepsLoop ==
    ASSUME PlanesTypeOK, LoopInv, RepeatPass
    PROVE  work' \in Work /\ LoopInv' /\ work'.of = work.of
<1>1. content \in Corpora /\ messages \in Messages /\ work \in Work
  BY DEF PlanesTypeOK, Messages
<1>2. PICK T : T = Eligible(plane, messages)
  OBVIOUS
<1>3. T \subseteq File
  BY <1>1, <1>2, StoredAreFiles DEF Eligible
<1>4. work' = [work EXCEPT !.todo = T, !.progress = FALSE]
  BY <1>2 DEF RepeatPass
<1>5. /\ work' \in Work /\ work'.of = work.of /\ work'.todo = T
      /\ content' = content /\ messages' = messages /\ identities' = identities
      /\ plane' = plane
  BY <1>1, <1>3, <1>4 DEF Work, RepeatPass
<1>6. SettledIn(plane, messages, T)
  BY <1>2 DEF SettledIn
<1>7. work.of # "nobody" /\ work'.of # "nobody"
  BY <1>5 DEF RepeatPass, PassEnds, Committed
<1>8. ~Committed'
  BY <1>7 DEF Committed
<1>9. NamesInv'
  BY <1>5 DEF LoopInv, NamesInv
<1> QED
  BY <1>2, <1>5, <1>6, <1>8, <1>9, SameContent DEF LoopInv

\* When a pass has recorded nothing there is nothing left to do.
LEMMA FinishKeepsLoop ==
    ASSUME PlanesTypeOK, LoopInv, FinishAssignments
    PROVE  plane' \in Plane /\ work' \in Work /\ LoopInv' /\ work'.of = "nobody"
<1>1. content \in Corpora /\ plane \in Plane /\ messages \in Messages /\ work \in Work
  BY DEF PlanesTypeOK, Messages
<1>2. /\ ~work.progress /\ \A f \in work.todo : ~Changes(plane, messages, f)
      /\ plane' = [plane EXCEPT !.pending = plane.pending \cup Waiting(plane, messages)]
      /\ work' = Rest
      /\ content' = content /\ messages' = messages /\ identities' = identities
  BY DEF FinishAssignments, PassEnds
<1>3. SettledIn(plane, messages, {})
  BY <1>2 DEF LoopInv, SettledIn
<1>4. /\ plane' \in Plane /\ ValidIn(plane', messages, identities)
      /\ ChainIn(plane', messages) /\ ConflictsIn(plane', messages)
      /\ SettledIn(plane', messages, {}) /\ ToldIn(plane', messages)
  BY <1>1, <1>2, <1>3, TheEnd DEF LoopInv
<1>5. work' \in Work /\ work'.of = "nobody" /\ work'.todo = {}
  BY <1>2 DEF Work, Rest
<1>6. NamesInv'
  BY <1>2 DEF LoopInv, NamesInv
<1>7. Rest' = Rest
  BY DEF Rest
<1> QED
  BY <1>2, <1>4, <1>5, <1>6, <1>7, SameContent DEF LoopInv

\* Nothing of the loop changes; an identity may be added.
LEMMA OthersKeepLoop ==
    ASSUME PlanesTypeOK, LoopInv, identities \subseteq identities',
           UNCHANGED <<content, messages, plane, work>>
    PROVE  LoopInv'
<1>1. ValidIn(plane, messages, identities')
  BY DEF LoopInv, ValidIn, EnvelopeIsValid
<1>2. NamesInv'
  BY DEF LoopInv, NamesInv
<1>3. (Committed' <=> Committed) /\ Rest' = Rest
  BY DEF Committed, Rest
<1> QED
  BY <1>1, <1>2, <1>3, SameContent DEF LoopInv

\* What each step does to the loop.
LEMMA LoopStep ==
    ASSUME PlanesTypeOK, LoopInv, [PlanesNext]_planesVars
    PROVE  /\ content' = content /\ messages' \in Messages
           /\ \A r \in Reference : messages[r] # None => messages'[r] = messages[r]
           /\ plane' \in Plane /\ work' \in Work /\ LoopInv'
<1> DEFINE Goal == /\ content' = content /\ messages' \in Messages
                   /\ \A r \in Reference : messages[r] # None => messages'[r] = messages[r]
                   /\ plane' \in Plane /\ work' \in Work /\ LoopInv'
<1>1. content \in Corpora /\ plane \in Plane /\ messages \in Messages /\ work \in Work
  BY DEF PlanesTypeOK, Messages
<1>2. ASSUME NEW f \in File, Project(f) PROVE Goal
  <2>1. /\ ~IsStored(f) /\ messages' = Insert(f) /\ StartPasses("insert", messages')
        /\ content' = content /\ identities' = identities
    BY <1>2 DEF Project
  <2>2. /\ messages' \in Messages
        /\ \A r \in Reference : messages[r] # None => messages'[r] = messages[r]
        /\ \A g \in File : messages'[g] \in {None, g}
    BY <2>1, Inserted DEF LoopInv
  <2>3. PICK ss : ss = messages'
    OBVIOUS
  <2>4. /\ ss \in Messages /\ StartPasses("insert", ss) /\ messages' = ss
        /\ \A r \in Reference : messages[r] # None => ss[r] = messages[r]
        /\ \A g \in File : ss[g] \in {None, g}
    BY <2>1, <2>2, <2>3
  <2>5. plane' \in Plane /\ work' \in Work /\ LoopInv'
    BY <2>1, <2>4, StartKeepsLoop
  <2> QED
    BY <2>1, <2>2, <2>5
<1>3. ASSUME CallAssignments PROVE Goal
  <2>1. /\ messages' = messages /\ StartPasses("call", messages)
        /\ content' = content /\ identities' = identities
    BY <1>3 DEF CallAssignments
  <2>2. plane' \in Plane /\ work' \in Work /\ LoopInv'
    BY <1>1, <2>1, StartKeepsLoop DEF LoopInv, NamesInv
  <2> QED
    BY <1>1, <2>1, <2>2
<1>4. ASSUME NEW f \in File, ConsiderNext(f) PROVE Goal
  BY <1>1, <1>4, ConsiderKeepsLoop DEF ConsiderNext
<1>5. ASSUME RepeatPass PROVE Goal
  BY <1>1, <1>5, RepeatKeepsLoop DEF RepeatPass
<1>6. ASSUME FinishAssignments PROVE Goal
  BY <1>1, <1>6, FinishKeepsLoop DEF FinishAssignments
<1>7. ASSUME CallReceipts PROVE Goal
  BY <1>1, <1>7, OthersKeepLoop DEF CallReceipts
<1>8. ASSUME NEW i \in Identity, RegisterIdentity(i) PROVE Goal
  BY <1>1, <1>8, OthersKeepLoop DEF RegisterIdentity
<1>9. ASSUME UNCHANGED planesVars PROVE Goal
  BY <1>1, <1>9, OthersKeepLoop DEF planesVars
<1> QED
  BY <1>2, <1>3, <1>4, <1>5, <1>6, <1>7, <1>8, <1>9 DEF PlanesNext

\* Nothing is stored at first.
LEMMA LoopInit ==
    ASSUME PlanesInit
    PROVE  PlanesTypeOK /\ LoopInv
<1>1. StoredFiles(messages) = {}
  BY DEF PlanesInit, StoredFiles
<1>2. Eligible(plane, messages) = {}
  BY <1>1 DEF Eligible
<1>3. EmptyPlane \in Plane /\ EmptyPlane.conflict = {} /\ \A a \in Assignment :
        EmptyPlane.events[a] = <<>> /\ EmptyPlane.row[a] = NoRow
  <2>1. [a \in Assignment |-> NoRow] \in
            [Assignment -> [binding : Binding \cup {None}, current : File \cup {None}]]
    BY DEF NoRow
  <2>2. [a \in Assignment |-> <<>>] \in [Assignment -> Seq(File)]
    OBVIOUS
  <2> QED
    BY <2>1, <2>2 DEF EmptyPlane, Plane
<1>4. Rest \in Work /\ Rest.of = "nobody" /\ Rest.todo = {}
  BY DEF Rest, Work
<1>5. PlanesTypeOK
  BY <1>3, <1>4 DEF PlanesInit, PlanesTypeOK
<1>6. NamesInv
  BY DEF PlanesInit, NamesInv, Reference
<1>7. ChainIn(plane, messages)
  BY <1>3 DEF PlanesInit, ChainIn
<1> QED
  BY <1>1, <1>2, <1>3, <1>4, <1>5, <1>6, <1>7
     DEF PlanesInit, LoopInv, ValidIn, ConflictsIn, SettledIn, ToldIn


-----------------------------------------------------------------------------
(* MessagePlanes: the receipts.                                            *)

ReceiptsType == [delivered : SUBSET (File \X Identity), read : SUBSET Acknowledgement,
                 ambiguous : SUBSET (File \X Reference)]

\* What may be new in the acknowledgements: a reply of the identity credits the
\* message, which that identity had not acknowledged.
NewAcks(read, more, rs) ==
    /\ read \subseteq more /\ more \subseteq Acknowledgement
    /\ \A k \in more \ read :
        /\ k.evidence \in StoredFiles(rs) /\ content[k.evidence].sender = k.identity
        /\ \E r \in content[k.evidence].answers : Candidates(rs, r) = {k.message}
        /\ \A j \in read : j.message = k.message => j.identity # k.identity

\* The files that a reference may mean only become more.
LEMMA CandidatesGrow ==
    ASSUME NEW rs \in Messages, NEW ss \in Messages, NEW r \in Reference,
           \A x \in Reference : rs[x] # None => ss[x] = rs[x]
    PROVE  StoredFiles(rs) \subseteq StoredFiles(ss) /\ Candidates(rs, r) \subseteq Candidates(ss, r)
<1>1. StoredFiles(rs) \subseteq StoredFiles(ss)
  BY StoredAreFiles DEF StoredFiles
<1>2. \A t \in StoredFiles(rs) : t # None
  BY DEF StoredFiles
<1> QED
  BY <1>1, <1>2 DEF Candidates

\* The candidates are finitely many files.
LEMMA CandidatesAreFinite ==
    ASSUME NEW rs \in Messages, NEW r
    PROVE  Candidates(rs, r) \subseteq File /\ IsFiniteSet(Candidates(rs, r))
<1>1. Candidates(rs, r) \subseteq File
  BY StoredAreFiles DEF Candidates
<1> QED
  BY <1>1, FinitelyMany, FS_Subset

\* Old acknowledgements rest on their replies when there are more messages.
LEMMA OldAcks ==
    ASSUME content \in Corpora, NEW rs \in Messages, NEW ss \in Messages, NEW read,
           \A x \in Reference : rs[x] # None => ss[x] = rs[x], AcksIn(read, rs)
    PROVE  AcksIn(read, ss)
<1>1. ASSUME NEW e \in File
      PROVE  \E g \in [AcksOf(read, e) -> content[e].answers] :
                /\ \A j \in AcksOf(read, e) : j.message \in Candidates(ss, g[j])
                /\ \A j, k \in AcksOf(read, e) : g[j] = g[k] => j = k
  <2>1. PICK g \in [AcksOf(read, e) -> content[e].answers] :
                /\ \A j \in AcksOf(read, e) : j.message \in Candidates(rs, g[j])
                /\ \A j, k \in AcksOf(read, e) : g[j] = g[k] => j = k
    BY DEF AcksIn
  <2>2. \A j \in AcksOf(read, e) : g[j] \in Reference
    BY FileSays
  <2>3. \A j \in AcksOf(read, e) : j.message \in Candidates(ss, g[j])
    BY <2>1, <2>2, CandidatesGrow
  <2> QED
    BY <2>1, <2>3
<1>2. \A k \in read : content[k.evidence].sender = k.identity /\ k.evidence \in StoredFiles(rs)
  BY DEF AcksIn
<1>3. StoredFiles(rs) \subseteq StoredFiles(ss)
  BY StoredAreFiles DEF StoredFiles
<1> QED
  BY <1>1, <1>2, <1>3 DEF AcksIn

\* A new acknowledgement takes a reference that means its message alone, which no
\* older one of the same reply has.
LEMMA MoreAcks ==
    ASSUME content \in Corpora, NEW rs \in Messages, NEW read, NEW more,
           AcksIn(read, rs), NewAcks(read, more, rs)
    PROVE  AcksIn(more, rs)
<1>1. /\ read \subseteq more
      /\ \A k \in more : /\ content[k.evidence].sender = k.identity
                         /\ k.evidence \in StoredFiles(rs)
  BY DEF AcksIn, NewAcks
<1>2. ASSUME NEW e \in File
      PROVE  \E g \in [AcksOf(more, e) -> content[e].answers] :
                /\ \A j \in AcksOf(more, e) : j.message \in Candidates(rs, g[j])
                /\ \A j, k \in AcksOf(more, e) : g[j] = g[k] => j = k
  <2>1. PICK g \in [AcksOf(read, e) -> content[e].answers] :
                /\ \A j \in AcksOf(read, e) : j.message \in Candidates(rs, g[j])
                /\ \A j, k \in AcksOf(read, e) : g[j] = g[k] => j = k
    BY DEF AcksIn
  <2>2. PICK R : R = [j \in AcksOf(more, e) |->
                        CHOOSE r \in content[e].answers : Candidates(rs, r) = {j.message}]
    OBVIOUS
  <2>3. PICK h : h = [j \in AcksOf(more, e) |-> IF j \in read THEN g[j] ELSE R[j]]
    OBVIOUS
  <2>4. ASSUME NEW j \in AcksOf(more, e), j \in read
        PROVE  j \in AcksOf(read, e) /\ h[j] = g[j] /\ h[j] \in content[e].answers
    BY <2>3, <2>4 DEF AcksOf
  <2>5. ASSUME NEW j \in AcksOf(more, e), j \notin read
        PROVE  h[j] \in content[e].answers /\ Candidates(rs, h[j]) = {j.message}
    <3>1. \E r \in content[e].answers : Candidates(rs, r) = {j.message}
      BY <2>5 DEF AcksOf, NewAcks
    <3>2. /\ (CHOOSE r \in content[e].answers : Candidates(rs, r) = {j.message})
                \in content[e].answers
          /\ Candidates(rs, CHOOSE r \in content[e].answers : Candidates(rs, r) = {j.message})
                = {j.message}
      BY <3>1, Zenon
    <3>3. h[j] = CHOOSE r \in content[e].answers : Candidates(rs, r) = {j.message}
      BY <2>2, <2>3, <2>5, Zenon
    <3> QED
      BY <3>2, <3>3
  <2>6. h \in [AcksOf(more, e) -> content[e].answers]
    BY <2>3, <2>4, <2>5
  <2>7. \A j \in AcksOf(more, e) : j.message \in Candidates(rs, h[j])
    BY <2>1, <2>4, <2>5
  <2>8. ASSUME NEW j \in AcksOf(more, e), NEW k \in AcksOf(more, e),
               j.message = k.message
        PROVE  j = k
    <3>1. j \in Acknowledgement /\ k \in Acknowledgement /\ j.evidence = e /\ k.evidence = e
      BY DEF AcksOf, NewAcks
    <3>2. j.identity = k.identity
      BY <1>1, <3>1 DEF AcksOf
    <3> QED
      BY <2>8, <3>1, <3>2 DEF Acknowledgement
  <2>9. ASSUME NEW j \in AcksOf(more, e), NEW k \in AcksOf(more, e),
               h[j] = h[k], k \notin read
        PROVE  j = k
    <3>1. j.message = k.message
      BY <2>5, <2>7, <2>9
    <3> QED
      BY <2>8, <3>1
  <2>10. ASSUME NEW j \in AcksOf(more, e), NEW k \in AcksOf(more, e), h[j] = h[k]
         PROVE  j = k
    <3>1. CASE j \in read /\ k \in read
      BY <2>1, <2>4, <2>10, <3>1
    <3>2. CASE k \notin read
      BY <2>9, <2>10, <3>2
    <3>3. CASE j \notin read
      <4>1. k = j
        BY <2>9, <2>10, <3>3
      <4> QED
        BY <4>1
    <3> QED
      BY <3>1, <3>2, <3>3
  <2> QED
    BY <2>6, <2>7, <2>10
<1> QED
  BY <1>1, <1>2 DEF AcksIn

\* What a reconciliation of the receipts does.
LEMMA Reconciled ==
    ASSUME content \in Corpora, NEW rs \in Messages, NEW ids \in SUBSET Identity,
           receipts \in ReceiptsType, ReconcileReceipts(rs, ids)
    PROVE  /\ receipts' \in ReceiptsType
           /\ NewAcks(receipts.read, receipts'.read, rs)
           /\ NotedIn(receipts'.ambiguous, rs)
<1> DEFINE stored == StoredFiles(rs)
           credited(t, i) == {x \in stored : content[x].sender = i /\ Credits(rs, x, t)}
           had == {<<k.message, k.identity>> : k \in receipts.read}
           new == {p \in stored \X ids : p \notin had /\ credited(p[1], p[2]) # {}}
           D == receipts.delivered \cup {p \in stored \X ids : p[2] \in content[p[1]].audience}
           A == receipts.ambiguous \cup
                  {p \in stored \X Reference : /\ p[2] \in content[p[1]].answers
                                               /\ Cardinality(Candidates(rs, p[2])) > 1}
<1>1. PICK evidence \in [new -> stored] :
        /\ \A p \in new : evidence[p] \in credited(p[1], p[2])
        /\ receipts' = [delivered |-> D,
                        read |-> receipts.read \cup
                            {[message |-> p[1], identity |-> p[2], evidence |-> evidence[p]] : p \in new},
                        ambiguous |-> A]
  BY Zenon DEF ReconcileReceipts
<1> DEFINE N == {[message |-> p[1], identity |-> p[2], evidence |-> evidence[p]] : p \in new}
           R == receipts.read \cup N
<1>2. stored \subseteq File
  BY StoredAreFiles
<1>3. D \in SUBSET (File \X Identity)
  BY <1>2 DEF ReceiptsType
<1>4. A \in SUBSET (File \X Reference)
  BY <1>2 DEF ReceiptsType
<1>5. ASSUME NEW p \in new
      PROVE  /\ p[1] \in stored /\ p[2] \in ids /\ p = <<p[1], p[2]>> /\ p \notin had
             /\ evidence[p] \in stored /\ content[evidence[p]].sender = p[2]
             /\ Credits(rs, evidence[p], p[1])
  BY <1>1
<1>6. ASSUME NEW k \in N
      PROVE  /\ k \in Acknowledgement
             /\ k.evidence \in stored /\ content[k.evidence].sender = k.identity
             /\ \E r \in content[k.evidence].answers : Candidates(rs, r) = {k.message}
             /\ \A j \in receipts.read : j.message = k.message => j.identity # k.identity
  <2>1. PICK p \in new : k = [message |-> p[1], identity |-> p[2], evidence |-> evidence[p]]
    OBVIOUS
  <2>2. k.message = p[1] /\ k.identity = p[2] /\ k.evidence = evidence[p]
    BY <2>1
  <2>3. k \in Acknowledgement
    BY <1>2, <1>5, <2>1 DEF Acknowledgement
  <2>4. \E r \in content[k.evidence].answers : Candidates(rs, r) = {k.message}
    <3>1. Credits(rs, evidence[p], p[1])
      BY <1>5
    <3>2. \E r \in content[evidence[p]].answers : Candidates(rs, r) = {p[1]}
      BY <3>1 DEF Credits
    <3> HIDE DEF N
    <3> QED
      BY <2>2, <3>2, Zenon
  <2>5. ASSUME NEW j \in receipts.read, j.message = k.message, j.identity = k.identity
        PROVE  FALSE
    <3>1. <<j.message, j.identity>> \in had
      OBVIOUS
    <3>2. <<j.message, j.identity>> = p
      BY <1>5, <2>2, <2>5
    <3> QED
      BY <1>5, <3>1, <3>2
  <2> QED
    BY <1>5, <2>2, <2>3, <2>4, <2>5
<1>7. R \in SUBSET Acknowledgement
  BY <1>6 DEF ReceiptsType
<1>8. \A e \in stored, r \in Reference :
        r \in content[e].answers /\ Cardinality(Candidates(rs, r)) > 1 => <<e, r>> \in A
  OBVIOUS
<1>9. NewAcks(receipts.read, R, rs)
  BY <1>6, <1>7 DEF NewAcks
<1>10. receipts' = [delivered |-> D, read |-> R, ambiguous |-> A]
  BY <1>1
<1> HIDE DEF D, R, A
<1>11. receipts' \in ReceiptsType /\ receipts'.read = R /\ receipts'.ambiguous = A
  BY <1>3, <1>4, <1>7, <1>10 DEF ReceiptsType
<1> QED
  BY <1>8, <1>9, <1>11 DEF NotedIn


\* What the files say does not change for the receipts.
LEMMA SameReceiptContent ==
    ASSUME content' = content
    PROVE  /\ AcksIn(receipts.read, messages)' <=> AcksIn(receipts'.read, messages')
           /\ NotedIn(receipts.ambiguous, messages)' <=> NotedIn(receipts'.ambiguous, messages')
<1>1. AcksIn(receipts.read, messages)' <=> AcksIn(receipts'.read, messages')
  BY DEF AcksIn, AcksOf, Candidates, StoredFiles
<1>2. NotedIn(receipts.ambiguous, messages)' <=> NotedIn(receipts'.ambiguous, messages')
  BY DEF NotedIn, Candidates, StoredFiles
<1> QED
  BY <1>1, <1>2

\* What each step does to the receipts.
LEMMA ReceiptsStep ==
    ASSUME PlanesTypeOK, LoopInv, ReceiptsInv, [PlanesNext]_planesVars
    PROVE  receipts' \in ReceiptsType /\ identities' \subseteq Identity /\ ReceiptsInv'
<1> DEFINE Goal == /\ receipts' \in ReceiptsType /\ identities' \subseteq Identity
                   /\ AcksIn(receipts'.read, messages')
                   /\ work'.of # "insert" => NotedIn(receipts'.ambiguous, messages')
<1>1. /\ content \in Corpora /\ messages \in Messages /\ identities \in SUBSET Identity
      /\ receipts \in ReceiptsType /\ AcksIn(receipts.read, messages)
      /\ work.of # "insert" => NotedIn(receipts.ambiguous, messages)
  BY DEF PlanesTypeOK, Messages, ReceiptsType, ReceiptsInv
<1>2. /\ content' = content /\ messages' \in Messages
      /\ \A r \in Reference : messages[r] # None => messages'[r] = messages[r]
  BY LoopStep
<1>3. AcksIn(receipts.read, messages')
  BY <1>1, <1>2, OldAcks
<1>4. ASSUME ReconcileReceipts(messages, identities), messages' = messages
      PROVE  /\ receipts' \in ReceiptsType
             /\ AcksIn(receipts'.read, messages') /\ NotedIn(receipts'.ambiguous, messages')
  <2>1. /\ receipts' \in ReceiptsType
        /\ NewAcks(receipts.read, receipts'.read, messages)
        /\ NotedIn(receipts'.ambiguous, messages)
    BY <1>1, <1>4, Reconciled
  <2>2. AcksIn(receipts'.read, messages)
    BY <1>1, <2>1, MoreAcks
  <2> QED
    BY <1>4, <2>1, <2>2
<1>5. ASSUME NEW f \in File, Project(f) PROVE Goal
  <2>1. work'.of = "insert" /\ receipts' = receipts /\ identities' = identities
    BY <1>5 DEF Project, StartPasses
  <2> QED
    BY <1>1, <1>3, <2>1
<1>6. ASSUME CallAssignments PROVE Goal
  <2>1. /\ work.of = "nobody" /\ messages' = messages
        /\ receipts' = receipts /\ identities' = identities
    BY <1>6 DEF CallAssignments, StartPasses, Committed
  <2> QED
    BY <1>1, <2>1
<1>7. ASSUME NEW f \in File, ConsiderNext(f) PROVE Goal
  <2>1. /\ work'.of = work.of /\ messages' = messages
        /\ receipts' = receipts /\ identities' = identities
    BY <1>7, ConsiderKeepsLoop DEF ConsiderNext
  <2> QED
    BY <1>1, <2>1
<1>8. ASSUME RepeatPass PROVE Goal
  <2>1. /\ work'.of = work.of /\ messages' = messages
        /\ receipts' = receipts /\ identities' = identities
    BY <1>8, RepeatKeepsLoop DEF RepeatPass
  <2> QED
    BY <1>1, <2>1
<1>9. ASSUME FinishAssignments PROVE Goal
  <2>1. messages' = messages /\ identities' = identities
    BY <1>9 DEF FinishAssignments
  <2>2. CASE work.of = "insert"
    <3>1. ReconcileReceipts(messages, identities)
      BY <1>9, <2>2 DEF FinishAssignments
    <3> QED
      BY <1>1, <1>4, <2>1, <3>1
  <2>3. CASE work.of # "insert"
    <3>1. receipts' = receipts
      BY <1>9, <2>3 DEF FinishAssignments
    <3> QED
      BY <1>1, <2>1, <2>3, <3>1
  <2> QED
    BY <2>2, <2>3
<1>10. ASSUME CallReceipts PROVE Goal
  BY <1>1, <1>4, <1>10 DEF CallReceipts
<1>11. ASSUME NEW i \in Identity, RegisterIdentity(i) PROVE Goal
  BY <1>1, <1>11 DEF RegisterIdentity
<1>12. ASSUME UNCHANGED planesVars PROVE Goal
  BY <1>1, <1>12 DEF planesVars
<1>13. Goal
  BY <1>5, <1>6, <1>7, <1>8, <1>9, <1>10, <1>11, <1>12 DEF PlanesNext
<1> QED
  BY <1>2, <1>13, SameReceiptContent DEF ReceiptsInv

-----------------------------------------------------------------------------
(* MessagePlanes: the theorems.                                            *)

\* The invariant is inductive.
THEOREM PlanesAreKept == PlanesSpec => []PlanesInv
<1>1. PlanesInit => PlanesInv
  <2> SUFFICES ASSUME PlanesInit PROVE PlanesInv
    OBVIOUS
  <2>1. PlanesTypeOK /\ LoopInv
    BY LoopInit
  <2>2. receipts.read = {} /\ StoredFiles(messages) = {}
    BY DEF PlanesInit, StoredFiles
  <2>3. ASSUME NEW e \in File
        PROVE  \E g \in [AcksOf({}, e) -> content[e].answers] :
                  /\ \A j \in AcksOf({}, e) : j.message \in Candidates(messages, g[j])
                  /\ \A j, k \in AcksOf({}, e) : g[j] = g[k] => j = k
    <3>1. AcksOf({}, e) = {}
      BY DEF AcksOf
    <3>2. [j \in {} |-> j] \in [AcksOf({}, e) -> content[e].answers]
      BY <3>1
    <3> QED
      BY <3>1, <3>2
  <2>4. AcksIn(receipts.read, messages)
    BY <2>2, <2>3 DEF AcksIn
  <2>5. NotedIn(receipts.ambiguous, messages)
    BY <2>2 DEF NotedIn
  <2> QED
    BY <2>1, <2>4, <2>5 DEF PlanesInv, ReceiptsInv
<1>2. PlanesInv /\ [PlanesNext]_planesVars => PlanesInv'
  <2> SUFFICES ASSUME PlanesInv, [PlanesNext]_planesVars PROVE PlanesInv'
    OBVIOUS
  <2>1. PlanesTypeOK /\ LoopInv /\ ReceiptsInv
    BY DEF PlanesInv
  <2>2. /\ content' = content /\ messages' \in Messages
        /\ plane' \in Plane /\ work' \in Work /\ LoopInv'
    BY <2>1, LoopStep
  <2>3. receipts' \in ReceiptsType /\ identities' \subseteq Identity /\ ReceiptsInv'
    BY <2>1, ReceiptsStep
  <2>4. PlanesTypeOK'
    BY <2>1, <2>2, <2>3 DEF PlanesTypeOK, Messages, ReceiptsType
  <2> QED
    BY <2>2, <2>3, <2>4 DEF PlanesInv
<1> QED
  BY <1>1, <1>2, PTL DEF PlanesSpec

\* The state of the planes keeps its type through every transaction.
THEOREM PlanesTypeCorrect == PlanesSpec => []PlanesTypeOK
<1>1. PlanesInv => PlanesTypeOK
  BY DEF PlanesInv
<1> QED
  BY <1>1, PlanesAreKept, PTL

\* In whatever order the messages arrive, the events of an assignment go from its
\* root, one by one, along what the messages say, and no message that the chain
\* could go on with is left out when the transaction is over.
THEOREM ChainsFollowTheirMessages == PlanesSpec => []ChainIsTheEvidence
<1>1. PlanesInv => ChainIsTheEvidence
  <2> SUFFICES ASSUME PlanesInv PROVE ChainIsTheEvidence
    OBVIOUS
  <2>1. plane \in Plane /\ ChainIn(plane, messages)
    BY DEF PlanesInv, PlanesTypeOK, LoopInv
  <2>2. ASSUME NEW a \in Assignment, NEW k \in DOMAIN plane.events[a]
        PROVE  LET e == content[plane.events[a][k]].envelope IN
               /\ e.assignment = a /\ e.binding = plane.row[a].binding
               /\ IF k = 1 THEN e.after = None
                           ELSE messages[e.after] = plane.events[a][k - 1]
    <3>1. LinkIn(plane, messages, a, k)
      BY <2>1 DEF ChainIn
    <3> QED
      BY <3>1 DEF LinkIn, After
  <2>3. ASSUME Committed, NEW f \in Envelopes \ plane.invalid
        PROVE  f \in EventsOf(plane, f) \/ ~Applies(plane, messages, f)
    <3>1. f \in Eligible(plane, messages) \ Rest.todo
      BY DEF Envelopes, Eligible, Rest
    <3>2. SettledIn(plane, messages, Rest.todo)
      BY <2>3 DEF PlanesInv, LoopInv, Rest
    <3>3. ~Changes(plane, messages, f)
      BY <3>1, <3>2 DEF SettledIn
    <3> QED
      BY <3>3 DEF Changes
  <2> QED
    BY <2>1, <2>2, <2>3 DEF ChainIsTheEvidence, ChainIn
<1> QED
  BY <1>1, PlanesAreKept, PTL

\* After every transaction each stored envelope is in the history of its assignment,
\* refused, in conflict or waiting, and never two of the first three.
THEOREM EveryEnvelopeIsTold == PlanesSpec => []EnvelopesAreTold
<1>1. PlanesInv => EnvelopesAreTold
  <2> SUFFICES ASSUME PlanesInv, Committed, NEW f \in Envelopes
               PROVE  IF f \in plane.invalid
                      THEN /\ f \notin plane.conflict
                           /\ \A a \in Assignment : f \notin Range(plane.events[a])
                      ELSE IF f \in EventsOf(plane, f) THEN f \notin plane.conflict
                      ELSE f \in plane.conflict \cup plane.pending
    BY DEF EnvelopesAreTold
  <2>1. /\ ChainIn(plane, messages) /\ ToldIn(plane, messages)
        /\ f \in StoredFiles(messages) /\ HasEnvelope(f)
    BY DEF PlanesInv, LoopInv, Envelopes
  <2>2. ASSUME NEW a \in Assignment, f \in Range(plane.events[a])
        PROVE  f \notin plane.invalid
    <3>1. PICK k \in DOMAIN plane.events[a] : plane.events[a][k] = f
      BY <2>2 DEF Range
    <3>2. LinkIn(plane, messages, a, k)
      BY <2>1 DEF ChainIn
    <3> QED
      BY <3>1, <3>2 DEF LinkIn, Eligible
  <2> QED
    BY <2>1, <2>2 DEF ToldIn
<1> QED
  BY <1>1, PlanesAreKept, PTL

\* Each acknowledgement has a reference of its evidence of its own, which means the
\* message alone unless the ambiguity is noted.
THEOREM AcknowledgementsHaveReplies == PlanesSpec => []AcknowledgementsRestOnReplies
<1>1. PlanesInv => AcknowledgementsRestOnReplies
  <2> SUFFICES ASSUME PlanesInv, Committed, NEW k \in receipts.read
               PROVE  /\ content[k.evidence].sender = k.identity
                      /\ \E r \in content[k.evidence].answers :
                          /\ k.message \in Candidates(messages, r)
                          /\ \/ Candidates(messages, r) = {k.message}
                             \/ <<k.evidence, r>> \in receipts.ambiguous
                      /\ Cardinality({j \in receipts.read : j.evidence = k.evidence})
                             <= Cardinality(content[k.evidence].answers)
    BY DEF AcknowledgementsRestOnReplies
  <2>1. /\ content \in Corpora /\ messages \in Messages /\ k \in Acknowledgement
        /\ AcksIn(receipts.read, messages) /\ NotedIn(receipts.ambiguous, messages)
    BY DEF PlanesInv, PlanesTypeOK, Messages, ReceiptsInv, Committed
  <2>2. PICK e \in File : e = k.evidence
    BY <2>1 DEF Acknowledgement
  <2>3. content[e].sender = k.identity /\ e \in StoredFiles(messages)
    BY <2>1, <2>2 DEF AcksIn
  <2>4. PICK g \in [AcksOf(receipts.read, e) -> content[e].answers] :
            /\ \A j \in AcksOf(receipts.read, e) : j.message \in Candidates(messages, g[j])
            /\ \A i, j \in AcksOf(receipts.read, e) : g[i] = g[j] => i = j
    BY <2>1 DEF AcksIn
  <2>5. k \in AcksOf(receipts.read, e)
    BY <2>2 DEF AcksOf
  <2>6. PICK r \in content[e].answers : r = g[k]
    BY <2>4, <2>5
  <2>7. r \in Reference /\ k.message \in Candidates(messages, r)
    BY <2>1, <2>4, <2>5, <2>6, FileSays
  <2>8. Candidates(messages, r) = {k.message} \/ <<e, r>> \in receipts.ambiguous
    <3>1. PICK C : C = Candidates(messages, r)
      OBVIOUS
    <3>2. IsFiniteSet(C)
      BY <2>1, <3>1, CandidatesAreFinite
    <3>3. ASSUME NEW t \in C, t # k.message
          PROVE  Cardinality(C) > 1
      <4>1. {t, k.message} \subseteq C
        BY <2>7, <3>1
      <4>2. Cardinality({t, k.message}) = 2
        <5>1. IsFiniteSet({t}) /\ Cardinality({t}) = 1
          BY FS_Singleton
        <5>2. Cardinality({t} \cup {k.message}) = Cardinality({t}) + 1
          BY <3>3, <5>1, FS_AddElement
        <5>3. {t, k.message} = {t} \cup {k.message}
          OBVIOUS
        <5> QED
          BY <5>1, <5>2, <5>3
      <4>3. Cardinality({t, k.message}) <= Cardinality(C)
        BY <3>2, <4>1, FS_Subset
      <4>4. Cardinality(C) \in Nat
        BY <3>2, FS_CardinalityType
      <4> QED
        BY <4>2, <4>3, <4>4
    <3>4. Cardinality(C) > 1 => <<e, r>> \in receipts.ambiguous
      BY <2>1, <2>3, <2>6, <2>7, <3>1 DEF NotedIn
    <3> QED
      BY <2>7, <3>1, <3>3, <3>4
  <2>9. Cardinality({j \in receipts.read : j.evidence = e}) <= Cardinality(content[e].answers)
    <3>1. IsFiniteSet(Reference)
      BY FinitelyMany, FS_Union DEF Reference
    <3>2. IsFiniteSet(content[e].answers)
      BY <2>1, <3>1, FileSays, FS_Subset
    <3>3. g \in Injection(AcksOf(receipts.read, e), content[e].answers)
      BY <2>4 DEF Injection, IsInjective
    <3>4. Cardinality(AcksOf(receipts.read, e)) <= Cardinality(content[e].answers)
      BY <3>2, <3>3, FS_Injection
    <3> QED
      BY <3>4 DEF AcksOf
  <2> QED
    BY <2>2, <2>3, <2>6, <2>7, <2>8, <2>9
<1> QED
  BY <1>1, PlanesAreKept, PTL
=============================================================================
