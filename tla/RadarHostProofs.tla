-------------------------- MODULE RadarHostProofs ---------------------------
(***************************************************************************)
(* Proofs about the two parts of one Radar host process, which share no    *)
(* state: Heartbeat with DeadLetters, and RadarRuntime.                    *)
(*                                                                         *)
(* Heartbeat rows keep the interval, a row tells what became of its sink   *)
(* call, counters are honest, only an overtaken scheduler is refused,      *)
(* and a letter is replayed once.  The runtime accounts for every          *)
(* envelope, serves urgent ones first, and its window is exact.            *)
(***************************************************************************)
EXTENDS Heartbeat, RadarRuntime, FiniteSetTheorems, TLAPS

-----------------------------------------------------------------------------
(* The invariant.                                                          *)

\* Letters that were replayed keep that state, and lists name letters.
LettersInv ==
    /\ Len(letters) <= MaxLetters
    /\ \A o \in Operator : listed[o] \subseteq DOMAIN letters
    /\ \A j \in DOMAIN replays :
           replays[j] \in DOMAIN letters /\ letters[replays[j]].replay = "REPLAYED"

\* Times ascend and lie in the past.
TimesInv ==
    /\ \A i, j \in DOMAIN beats : i <= j => beats[i].at <= beats[j].at
    /\ \A i \in DOMAIN beats : beats[i].at <= elapsed
    /\ MaxSetBack <= elapsed

\* A scheduler works on its own pending row, between claim and mark.
WorkInv ==
    \A s \in Scheduler :
        IF sched[s].step \in {"sink", "confirm", "doubt"}
        THEN /\ sched[s].beat \in DOMAIN beats
             /\ beats[sched[s].beat].by = s
             /\ beats[sched[s].beat].delivery = "PENDING"
             /\ At(s, "sink") => beats[sched[s].beat].effects = 0
             /\ At(s, "confirm") => beats[sched[s].beat].effects = 1
        ELSE sched[s].beat = 0

\* A row stays pending only if a scheduler claimed it.
OwnersInv ==
    \A i \in DOMAIN beats : beats[i].delivery = "PENDING" => beats[i].by \in Scheduler

\* A reading of a clock that was not set back is as late as every row, unless
\* another claimed since.
ReadingInv ==
    \A s \in Scheduler :
        /\ At(s, "claim") \/ At(s, "delay") => sched[s].now <= elapsed
        /\ (At(s, "claim") \/ At(s, "delay")) /\ setBack = 0 /\ s \notin lagged =>
              \A i \in DOMAIN beats : beats[i].at <= sched[s].now

IInv ==
    /\ TypeOK
    /\ LettersInv
    /\ TimesInv
    /\ WorkInv
    /\ OwnersInv
    /\ ReadingInv
    /\ BeatsKeepTheInterval
    /\ DeliveryIsTold
    /\ CountsAreHonest
    /\ RefusedOnlyIfOvertaken

-----------------------------------------------------------------------------
(* The latest row, and whole intervals.                                    *)

\* What a row is made of.
LEMMA RowFacts ==
    ASSUME TypeOK, NEW i \in DOMAIN beats
    PROVE  /\ i \in 1..Len(beats) /\ i \in Nat /\ Len(beats) \in Nat
           /\ beats[i] \in Beat
           /\ beats[i].at \in Nat /\ beats[i].dlq \in Nat /\ beats[i].missed \in Nat
           /\ beats[i].effects \in Nat /\ beats[i].delivery \in Delivery
           /\ beats[i].by \in Scheduler \cup {Direct}
<1>1. i \in 1..Len(beats) /\ beats[i] \in Beat /\ Len(beats) \in Nat
  BY DEF TypeOK
<1> QED
  BY <1>1 DEF Beat

\* _last_heartbeat_ms is the time of the last row, for times ascend.
LEMMA LastRow ==
    ASSUME TypeOK, TimesInv, HasBeats
    PROVE  /\ Len(beats) \in DOMAIN beats
           /\ LastAt = beats[Len(beats)].at
           /\ LastAt \in Nat
<1>1. Len(beats) \in Nat \ {0} /\ DOMAIN beats = 1..Len(beats) /\ beats \in Seq(Beat)
  BY DEF TypeOK, HasBeats
<1>2. Len(beats) \in DOMAIN beats
  BY <1>1
<1>3. \A i \in DOMAIN beats : beats[i] \in Beat /\ beats[i].at \in Nat
  BY <1>1, RowFacts
<1> DEFINE S == {beats[i].at : i \in DOMAIN beats}
           a == beats[Len(beats)].at
<1>4. a \in S /\ \A x \in S : x <= a
  BY <1>1, <1>2 DEF TimesInv
<1>5. \A x \in S : x \in Nat
  BY <1>3
<1>6. LastAt = CHOOSE x \in S : \A y \in S : y <= x
  BY DEF LastAt
<1> HIDE DEF S, a
<1>7. LastAt \in S /\ \A y \in S : y <= LastAt
  BY <1>4, <1>6
<1>8. LastAt = a
  BY <1>4, <1>5, <1>7
<1> QED
  BY <1>2, <1>3, <1>8 DEF a

\* The quotient that missed intervals are counted with.
LEMMA WholeIntervals ==
    ASSUME NEW g \in Nat, g >= Interval
    PROVE  /\ (g \div Interval) \in Nat \ {0}
           /\ (g \div Interval) * Interval <= g
           /\ g < ((g \div Interval) + 1) * Interval
<1>1. Interval \in Nat \ {0}
  BY Sizes
<1> DEFINE q == g \div Interval
           r == g % Interval
<1>2. q \in Int /\ r \in 0..(Interval - 1) /\ g = Interval * q + r
  BY <1>1
<1> HIDE DEF q, r
<1>3. q >= 1
  BY <1>1, <1>2
<1>4. q * Interval <= g /\ g < (q + 1) * Interval
  BY <1>1, <1>2
<1> QED
  BY <1>2, <1>3, <1>4 DEF q

-----------------------------------------------------------------------------
(* What a step does to the rows and the schedulers.                        *)

\* A scheduler's next position.
LEMMA SetFacts ==
    ASSUME TypeOK, NEW s \in Scheduler, NEW st \in Step, NEW n \in Nat, Set(s, st, n)
    PROVE  /\ sched'[s].step = st /\ sched'[s].now = n /\ sched'[s].beat = sched[s].beat
           /\ \A u \in Scheduler : u # s => sched'[u] = sched[u]
           /\ sched' \in [Scheduler -> [step : Step, now : Nat, beat : Nat]]
<1> DEFINE k == [sched[s] EXCEPT !.step = st, !.now = n]
<1>1. sched[s] \in [step : Step, now : Nat, beat : Nat]
  BY DEF TypeOK
<1>2. /\ k \in [step : Step, now : Nat, beat : Nat]
      /\ k.step = st /\ k.now = n /\ k.beat = sched[s].beat
  BY <1>1
<1>3. sched' = [sched EXCEPT ![s] = k]
  BY DEF Set
<1> HIDE DEF k
<1> QED
  BY <1>2, <1>3 DEF TypeOK

\* A new row, written when one is due.
NewRow(now, by, delivery) ==
    /\ now \in Nat /\ by \in Scheduler \cup {Direct} /\ delivery \in Delivery
    /\ ~Regressed(now) /\ Due(now)
    /\ Create(now, by, delivery)

\* A new row comes after all others, by the intervals that it reports as missed.
LEMMA NewRowFacts ==
    ASSUME TypeOK, TimesInv, NEW now, NEW by, NEW delivery, NewRow(now, by, delivery)
    PROVE  LET n == Len(beats) + 1 IN
           /\ beats' \in Seq(Beat)
           /\ Len(beats') = n /\ DOMAIN beats' = DOMAIN beats \cup {n} /\ n \notin DOMAIN beats
           /\ \A i \in DOMAIN beats : beats'[i] = beats[i]
           /\ beats'[n] = [at |-> now, by |-> by, dlq |-> count, missed |-> Missed(now),
                           delivery |-> delivery, effects |-> 0]
           /\ \A i \in DOMAIN beats : beats[i].at <= now
           /\ HasBeats =>
                 LET gap == now - beats[Len(beats)].at IN
                 /\ (1 + Missed(now)) * Interval <= gap
                 /\ gap < (2 + Missed(now)) * Interval
<1> DEFINE n == Len(beats) + 1
           r == [at |-> now, by |-> by, dlq |-> count, missed |-> Missed(now),
                 delivery |-> delivery, effects |-> 0]
<1>1. beats \in Seq(Beat) /\ now \in Nat /\ Interval \in Nat \ {0}
  BY Sizes DEF TypeOK, NewRow
<1>2. ASSUME HasBeats
      PROVE  /\ Missed(now) \in Nat
             /\ \A i \in DOMAIN beats : beats[i].at <= now
             /\ (1 + Missed(now)) * Interval <= now - beats[Len(beats)].at
             /\ now - beats[Len(beats)].at < (2 + Missed(now)) * Interval
  <2> DEFINE last == beats[Len(beats)].at
             g == now - last
             q == g \div Interval
  <2>1. LastAt = last /\ last \in Nat /\ Len(beats) \in DOMAIN beats
    BY <1>2, LastRow
  <2>2. g \in Nat /\ g >= Interval
    BY <1>1, <1>2, <2>1 DEF NewRow, Due, Regressed
  <2>3. Missed(now) = q - 1
    BY <1>2, <2>1, <2>2 DEF Missed
  <2>4. q \in Nat \ {0} /\ q * Interval <= g /\ g < (q + 1) * Interval
    BY <2>2, WholeIntervals
  <2>5. \A i \in DOMAIN beats : beats[i].at <= last /\ beats[i].at \in Nat
    BY <2>1, RowFacts DEF TimesInv
  <2> HIDE DEF q, last
  <2>6. 1 + Missed(now) = q /\ 2 + Missed(now) = q + 1 /\ Missed(now) \in Nat
    BY <2>3, <2>4
  <2>7. \A i \in DOMAIN beats : beats[i].at <= now
    BY <1>1, <2>1, <2>2, <2>5
  <2> QED
    BY <2>4, <2>6, <2>7 DEF last
<1>3. ~HasBeats => Missed(now) = 0 /\ DOMAIN beats = {}
  BY <1>1 DEF Missed, HasBeats
<1>4. Missed(now) \in Nat
  BY <1>2, <1>3
<1>5. r \in Beat
  BY <1>1, <1>4 DEF Beat, NewRow, TypeOK
<1>6. beats' = Append(beats, r)
  BY DEF NewRow, Create
<1> HIDE DEF r
<1>7. /\ beats' \in Seq(Beat)
      /\ Len(beats') = n /\ DOMAIN beats' = DOMAIN beats \cup {n} /\ n \notin DOMAIN beats
      /\ \A i \in DOMAIN beats : beats'[i] = beats[i]
      /\ beats'[n] = r
  BY <1>1, <1>5, <1>6
<1> QED
  BY <1>2, <1>3, <1>7 DEF r

\* Only what became of the sink call changes in a row.
SameRows ==
    /\ beats' \in Seq(Beat)
    /\ Len(beats') = Len(beats) /\ DOMAIN beats' = DOMAIN beats
    /\ \A i \in DOMAIN beats :
           /\ beats'[i].at = beats[i].at /\ beats'[i].by = beats[i].by
           /\ beats'[i].dlq = beats[i].dlq /\ beats'[i].missed = beats[i].missed

\* A sink call, and the mark that follows it, change one row.
LEMMA RowChanges ==
    ASSUME TypeOK, NEW i \in DOMAIN beats, NEW e \in Nat, NEW d \in Delivery,
           beats' = [beats EXCEPT ![i] = [beats[i] EXCEPT !.effects = e, !.delivery = d]]
    PROVE  /\ SameRows
           /\ beats'[i].effects = e /\ beats'[i].delivery = d
           /\ \A j \in DOMAIN beats : j # i => beats'[j] = beats[j]
<1> DEFINE r == [beats[i] EXCEPT !.effects = e, !.delivery = d]
<1>1. /\ r \in Beat /\ r.effects = e /\ r.delivery = d
      /\ r.at = beats[i].at /\ r.by = beats[i].by /\ r.dlq = beats[i].dlq
      /\ r.missed = beats[i].missed
  BY RowFacts DEF Beat
<1>2. beats \in Seq(Beat) /\ beats' = [beats EXCEPT ![i] = r]
  BY DEF TypeOK
<1> HIDE DEF r
<1>3. /\ beats' \in Seq(Beat) /\ Len(beats') = Len(beats) /\ DOMAIN beats' = DOMAIN beats
      /\ beats'[i] = r /\ \A j \in DOMAIN beats : j # i => beats'[j] = beats[j]
  BY <1>1, <1>2
<1> QED
  BY <1>1, <1>3 DEF SameRows

-----------------------------------------------------------------------------
(* Letters.                                                                *)

\* A letter is recorded, judged or replayed, or the letters stay.
LEMMA LetterSteps ==
    ASSUME [Next]_vars
    PROVE  \/ UNCHANGED dlq
           \/ RecordLetter
           \/ DlqNext /\ UNCHANGED <<count, uncounted, heart, time>>
<1>1. CASE \E s \in Scheduler : SchedulerStep(s)
  BY <1>1 DEF SchedulerStep
<1>2. CASE \E s \in Scheduler : /\ StoreFails(s) \/ Kill(s) \/ Restart(s)
                               /\ UNCHANGED <<dlq, count, uncounted, time>>
  BY <1>2
<1>3. CASE EmitDirectly
  BY <1>3 DEF EmitDirectly
<1>4. CASE CountLetter
  BY <1>4 DEF CountLetter
<1>5. CASE Tick \/ SetClockBack
  BY <1>5 DEF Tick, SetClockBack
<1>6. CASE UNCHANGED vars
  BY <1>6 DEF vars
<1> QED
  BY <1>1, <1>2, <1>3, <1>4, <1>5, <1>6 DEF Next

\* What a letter is made of.
LEMMA LetterFacts ==
    ASSUME TypeOK, NEW i \in DOMAIN letters
    PROVE  /\ letters[i] \in Letter /\ letters[i].retries \in Nat
           /\ letters \in Seq(Letter)
<1>1. letters \in Seq(Letter)
  BY DEF TypeOK, DlqTypeOK
<1>2. letters[i] \in Letter
  BY <1>1
<1> QED
  BY <1>1, <1>2 DEF Letter

\* A letter in the list is one that exists, and a replayed one stays replayed.
LEMMA OneLetterChanges ==
    ASSUME TypeOK, LettersInv, NEW i \in DOMAIN letters, NEW l \in Letter,
           letters[i].replay = "REPLAYED" => l.replay = "REPLAYED",
           letters' = [letters EXCEPT ![i] = l]
    PROVE  /\ letters' \in Seq(Letter) /\ DOMAIN letters' = DOMAIN letters
           /\ Len(letters') = Len(letters) /\ letters'[i] = l
           /\ \A j \in DOMAIN replays :
                  /\ replays[j] \in DOMAIN letters'
                  /\ letters'[replays[j]].replay = "REPLAYED"
<1>1. /\ letters' \in Seq(Letter) /\ DOMAIN letters' = DOMAIN letters
      /\ Len(letters') = Len(letters) /\ letters'[i] = l
      /\ \A j \in DOMAIN letters : j # i => letters'[j] = letters[j]
  BY LetterFacts
<1> QED
  BY <1>1 DEF LettersInv

\* The records of letters and lists of them stay in order.
LEMMA LettersKept ==
    ASSUME TypeOK, LettersInv, [Next]_vars
    PROVE  DlqTypeOK' /\ LettersInv'
<1>0. /\ letters \in Seq(Letter) /\ DOMAIN letters = 1..Len(letters) /\ Len(letters) \in Nat
      /\ listed \in [Operator -> SUBSET (1..MaxLetters)]
      /\ replays \in Seq(1..MaxLetters) /\ verdicts \in 0..MaxVerdicts
      /\ MaxLetters \in Nat /\ MaxVerdicts \in Nat
  BY BoundsAreNumbers DEF TypeOK, DlqTypeOK
<1>1. CASE UNCHANGED dlq
  BY <1>1 DEF dlq, TypeOK, DlqTypeOK, LettersInv
<1>2. CASE RecordLetter
  <2>1. NewLetter \in Letter
    BY DEF NewLetter, Letter, Applicability, ReplayState
  <2>2. /\ letters' = Append(letters, NewLetter) /\ Len(letters) < MaxLetters
        /\ listed' = listed /\ replays' = replays /\ verdicts' = verdicts
    BY <1>2 DEF RecordLetter, Record
  <2>3. /\ letters' \in Seq(Letter) /\ Len(letters') = Len(letters) + 1
        /\ \A i \in DOMAIN letters : i \in DOMAIN letters' /\ letters'[i] = letters[i]
    BY <1>0, <2>1, <2>2
  <2>4. DlqTypeOK'
    BY <1>0, <2>2, <2>3 DEF DlqTypeOK
  <2> QED
    BY <1>0, <2>2, <2>3, <2>4 DEF LettersInv
<1>3. CASE SetApplicability
  <2>1. PICK i \in DOMAIN letters, a \in {"APPLICABLE", "NOT_APPLICABLE"} :
            letters' = [letters EXCEPT ![i].applicability = a]
    BY <1>3 DEF SetApplicability
  <2> DEFINE l == [letters[i] EXCEPT !.applicability = a]
  <2>2. /\ verdicts < MaxVerdicts /\ verdicts' = verdicts + 1
        /\ listed' = listed /\ replays' = replays
    BY <1>3 DEF SetApplicability
  <2>3. l \in Letter /\ l.replay = letters[i].replay
    BY LetterFacts DEF Letter, Applicability
  <2>4. letters' = [letters EXCEPT ![i] = l]
    BY <2>1
  <2> HIDE DEF l
  <2>5. /\ letters' \in Seq(Letter) /\ DOMAIN letters' = DOMAIN letters
        /\ Len(letters') = Len(letters)
        /\ \A j \in DOMAIN replays :
               replays[j] \in DOMAIN letters' /\ letters'[replays[j]].replay = "REPLAYED"
    BY <2>3, <2>4, OneLetterChanges
  <2>6. DlqTypeOK'
    BY <1>0, <2>2, <2>5 DEF DlqTypeOK
  <2> QED
    BY <1>0, <2>2, <2>5, <2>6 DEF LettersInv
<1>4. ASSUME NEW o \in Operator, ListPendingApplicable(o) PROVE DlqTypeOK' /\ LettersInv'
  <2> DEFINE L == {i \in DOMAIN letters : Ready(i)}
  <2>1. /\ listed' = [listed EXCEPT ![o] = L]
        /\ letters' = letters /\ replays' = replays /\ verdicts' = verdicts
    BY <1>4 DEF ListPendingApplicable
  <2>2. L \subseteq DOMAIN letters
    OBVIOUS
  <2> HIDE DEF L
  <2>3. L \in SUBSET (1..MaxLetters)
    BY <1>0, <2>2 DEF LettersInv
  <2>4. \A p \in Operator : listed'[p] = IF p = o THEN L ELSE listed[p]
    BY <1>0, <2>1
  <2>5. listed' \in [Operator -> SUBSET (1..MaxLetters)]
    BY <1>0, <2>1, <2>3
  <2>6. DlqTypeOK'
    BY <1>0, <2>1, <2>5 DEF DlqTypeOK
  <2> QED
    BY <2>1, <2>2, <2>4, <2>6 DEF LettersInv
<1>5. ASSUME NEW o \in Operator, MarkReplay(o) PROVE DlqTypeOK' /\ LettersInv'
  <2>1. PICK i \in listed[o] :
            /\ listed' = [listed EXCEPT ![o] = @ \ {i}]
            /\ IF MayReplay(i)
               THEN /\ letters' = [letters EXCEPT ![i].replay = "REPLAYED", ![i].retries = @ + 1]
                    /\ replays' = Append(replays, i)
               ELSE UNCHANGED <<letters, replays>>
            /\ UNCHANGED verdicts
    BY <1>5 DEF MarkReplay
  <2>2. i \in DOMAIN letters /\ i \in 1..MaxLetters
    BY <1>0, <2>1 DEF LettersInv
  <2>3. /\ listed' \in [Operator -> SUBSET (1..MaxLetters)]
        /\ \A p \in Operator : listed'[p] \subseteq listed[p]
    BY <1>0, <2>1
  <2>4. CASE ~MayReplay(i)
    <3>1. letters' = letters /\ replays' = replays /\ verdicts' = verdicts
      BY <2>1, <2>4
    <3>2. DlqTypeOK'
      BY <1>0, <2>3, <3>1 DEF DlqTypeOK
    <3> QED
      BY <2>3, <3>1, <3>2 DEF LettersInv
  <2>5. CASE MayReplay(i)
    <3> DEFINE n == letters[i].retries + 1
               l == [letters[i] EXCEPT !.replay = "REPLAYED", !.retries = n]
    <3>1. l \in Letter /\ l.replay = "REPLAYED"
      <4>1. letters[i] \in Letter /\ n \in Nat
        BY <2>2, LetterFacts
      <4> HIDE DEF n
      <4> QED
        BY <4>1 DEF Letter, ReplayState
    <3>2. letters' = [letters EXCEPT ![i] = l]
      <4>1. letters' = [letters EXCEPT ![i].replay = "REPLAYED", ![i].retries = @ + 1]
        BY <2>1, <2>5
      <4>2. [letters EXCEPT ![i].replay = "REPLAYED", ![i].retries = @ + 1]
            = [letters EXCEPT ![i] = l]
        BY <1>0, <2>2
      <4> QED
        BY <4>1, <4>2
    <3> HIDE DEF l
    <3>3. /\ letters' \in Seq(Letter) /\ DOMAIN letters' = DOMAIN letters
          /\ Len(letters') = Len(letters) /\ letters'[i].replay = "REPLAYED"
          /\ \A j \in DOMAIN replays :
                 replays[j] \in DOMAIN letters' /\ letters'[replays[j]].replay = "REPLAYED"
      BY <2>2, <3>1, <3>2, OneLetterChanges
    <3>4. replays' = Append(replays, i) /\ verdicts' = verdicts
      BY <2>1, <2>5
    <3>5. /\ replays' \in Seq(1..MaxLetters) /\ DOMAIN replays' = DOMAIN replays \cup {Len(replays) + 1}
          /\ \A j \in DOMAIN replays : replays'[j] = replays[j]
          /\ replays'[Len(replays) + 1] = i
      BY <1>0, <2>2, <3>4
    <3>6. DlqTypeOK'
      BY <1>0, <2>3, <3>3, <3>4, <3>5 DEF DlqTypeOK
    <3>7. \A j \in DOMAIN replays' :
              replays'[j] \in DOMAIN letters' /\ letters'[replays'[j]].replay = "REPLAYED"
      BY <2>2, <3>3, <3>5
    <3> QED
      BY <2>3, <3>3, <3>6, <3>7 DEF LettersInv
  <2> QED
    BY <2>4, <2>5
<1> QED
  BY <1>1, <1>2, <1>3, <1>4, <1>5, LetterSteps DEF DlqNext

\* A letter that is replayed is ready, and what was replayed no longer is.
LEMMA ReplaysOnce ==
    ASSUME TypeOK, LettersInv, [Next]_vars
    PROVE  [\A i \in 1..Len(replays') : i > Len(replays) =>
               /\ letters[replays'[i]].applicability = "APPLICABLE"
               /\ \A j \in 1..Len(replays) : replays[j] # replays'[i]]_dlq
<1>0. replays \in Seq(1..MaxLetters) /\ Len(replays) \in Nat
  BY DEF TypeOK, DlqTypeOK
<1>1. CASE UNCHANGED replays
  BY <1>0, <1>1
<1>2. CASE \E o \in Operator : MarkReplay(o)
  <2>0. PICK o \in Operator : MarkReplay(o)
    BY <1>2
  <2>1. PICK i \in listed[o] :
            IF MayReplay(i)
            THEN replays' = Append(replays, i)
            ELSE UNCHANGED replays
    BY <2>0 DEF MarkReplay
  <2>2. CASE MayReplay(i)
    <3>1. letters[i].applicability = "APPLICABLE" /\ letters[i].replay # "REPLAYED"
      BY <2>2 DEF MayReplay, Ready
    <3>2. i \in 1..MaxLetters
      <4>1. listed[o] \in SUBSET (1..MaxLetters)
        BY DEF TypeOK, DlqTypeOK
      <4> QED
        BY <4>1
    <3>3. \A k \in 1..Len(replays') : k > Len(replays) => replays'[k] = i
      BY <1>0, <2>1, <2>2, <3>2
    <3>4. \A j \in 1..Len(replays) : letters[replays[j]].replay = "REPLAYED"
      BY <1>0 DEF LettersInv
    <3> QED
      BY <3>1, <3>3, <3>4
  <2> QED
    BY <1>1, <2>1, <2>2
<1>3. CASE SetApplicability \/ \E o \in Operator : ListPendingApplicable(o)
  BY <1>1, <1>3 DEF SetApplicability, ListPendingApplicable
<1> QED
  BY <1>1, <1>2, <1>3, LetterSteps DEF DlqNext, RecordLetter, dlq

-----------------------------------------------------------------------------
(* Rows.                                                                   *)

\* The wall clock shows a time, and none that is still to come.
LEMMA NowIsPast ==
    ASSUME TypeOK, TimesInv
    PROVE  /\ Now \in Nat /\ elapsed \in Nat /\ setBack \in Nat
           /\ Now <= elapsed /\ (setBack = 0 => Now = elapsed)
BY BoundsAreNumbers DEF TypeOK, TimesInv, Now

\* A sink call raises the effects of a row.
LEMMA SinkRows ==
    ASSUME TypeOK, WorkInv, NEW s \in Scheduler, Sink(s)
    PROVE  LET i == sched[s].beat IN
           /\ i \in DOMAIN beats /\ SameRows
           /\ beats'[i].delivery = beats[i].delivery
           /\ \/ beats'[i].effects = 1 /\ (Goto(s, "confirm") \/ Goto(s, "doubt"))
              \/ beats'[i].effects = 0 /\ Goto(s, "doubt")
           /\ \A j \in DOMAIN beats : j # i => beats'[j] = beats[j]
<1> DEFINE i == sched[s].beat
<1>1. i \in DOMAIN beats /\ beats[i].effects = 0
  BY DEF Sink, WorkInv, At
<1> HIDE DEF i
<1>2. /\ beats[i] \in Beat /\ beats[i].effects \in Nat /\ beats[i].delivery \in Delivery
      /\ beats \in Seq(Beat)
  BY <1>1, RowFacts DEF TypeOK
<1>3. CASE beats' = beats /\ Goto(s, "doubt")
  BY <1>1, <1>2, <1>3 DEF SameRows, i
<1>4. CASE /\ beats' = [beats EXCEPT ![i].effects = @ + 1]
           /\ Goto(s, "confirm") \/ Goto(s, "doubt")
  <2> DEFINE e == beats[i].effects + 1
             d == beats[i].delivery
             r == [beats[i] EXCEPT !.effects = e, !.delivery = d]
  <2>1. e = 1 /\ e \in Nat /\ d \in Delivery
    BY <1>1, <1>2
  <2>2. beats' = [beats EXCEPT ![i].effects = e]
    BY <1>1, <1>2, <1>4
  <2> HIDE DEF e
  <2>3. [beats[i] EXCEPT !.effects = e] = r
    BY <1>2 DEF Beat
  <2>4. beats' = [beats EXCEPT ![i] = r]
    BY <1>1, <1>2, <2>2, <2>3
  <2>5. /\ SameRows /\ beats'[i].effects = e /\ beats'[i].delivery = d
        /\ \A j \in DOMAIN beats : j # i => beats'[j] = beats[j]
    BY <1>1, <2>1, <2>4, RowChanges, ZenonT(60)
  <2> QED
    BY <1>1, <1>4, <2>1, <2>5 DEF i
<1> QED
  BY <1>3, <1>4 DEF Sink, i

\* A mark finalizes the row that its scheduler works on; it finds it pending.
LEMMA MarkRows ==
    ASSUME TypeOK, WorkInv, NEW s \in Scheduler, Mark(s)
    PROVE  LET i == sched[s].beat IN
           /\ i \in DOMAIN beats /\ SameRows
           /\ sched' = [sched EXCEPT ![s] = [step |-> "plan", now |-> 0, beat |-> 0]]
           /\ beats'[i].effects = beats[i].effects
           /\ beats'[i].delivery \in {"DELIVERED", "UNCONFIRMED"}
           /\ beats'[i].delivery = "DELIVERED" => beats[i].effects = 1
           /\ \A j \in DOMAIN beats : j # i => beats'[j] = beats[j]
<1> DEFINE i == sched[s].beat
           d == DeliveryOf(s)
           e == beats[i].effects
           r == [beats[i] EXCEPT !.effects = e, !.delivery = d]
<1>1. /\ i \in DOMAIN beats /\ beats[i].delivery = "PENDING"
      /\ At(s, "confirm") => e = 1
  BY DEF Mark, WorkInv, At
<1>2. /\ d \in Delivery /\ d \in {"DELIVERED", "UNCONFIRMED"}
      /\ d = "DELIVERED" => At(s, "confirm")
  BY DEF DeliveryOf, Delivery
<1>3. /\ beats' = [beats EXCEPT ![i].delivery = d]
      /\ sched' = [sched EXCEPT ![s] = [step |-> "plan", now |-> 0, beat |-> 0]]
  BY <1>1 DEF Mark
<1> HIDE DEF i, d
<1>4. beats[i] \in Beat /\ e \in Nat /\ beats \in Seq(Beat)
  BY <1>1, RowFacts DEF TypeOK
<1>5. [beats[i] EXCEPT !.delivery = d] = r
  BY <1>4 DEF Beat
<1>6. beats' = [beats EXCEPT ![i] = r]
  BY <1>1, <1>3, <1>4, <1>5
<1> HIDE DEF e
<1>7. /\ SameRows /\ beats'[i].effects = e /\ beats'[i].delivery = d
      /\ \A j \in DOMAIN beats : j # i => beats'[j] = beats[j]
  BY <1>1, <1>2, <1>4, <1>6, RowChanges, ZenonT(60)
<1> QED
  BY <1>1, <1>2, <1>3, <1>7 DEF i, e

\* A claim and a direct heartbeat write a row; no other step adds one.
LEMMA RowSteps ==
    ASSUME TypeOK, TimesInv, WorkInv, ReadingInv, [Next]_vars
    PROVE  \/ SameRows
           \/ \E now \in Nat, by \in Scheduler \cup {Direct}, delivery \in Delivery :
                  NewRow(now, by, delivery) /\ now <= elapsed
<1>0. beats' = beats => SameRows
  BY DEF TypeOK, SameRows
<1>1. ASSUME NEW s \in Scheduler, SchedulerStep(s) PROVE beats' = beats \/ Claim(s) \/ Sink(s) \/ Mark(s)
  BY <1>1 DEF SchedulerStep, ReadClock, Plan, Wake
<1>2. ASSUME NEW s \in Scheduler, Claim(s), beats' # beats
      PROVE  \E now \in Nat : NewRow(now, s, "PENDING") /\ now <= elapsed
  <2>1. sched[s].now \in Nat
    BY DEF TypeOK
  <2>2. ~Regressed(sched[s].now) /\ Due(sched[s].now) /\ Create(sched[s].now, s, "PENDING")
    BY <1>2 DEF Claim
  <2>3. sched[s].now <= elapsed
    BY <1>2 DEF Claim, ReadingInv
  <2> QED
    BY <2>1, <2>2, <2>3 DEF NewRow, Delivery
<1>3. CASE EmitDirectly
  BY <1>3, NowIsPast DEF EmitDirectly, NewRow, Delivery
<1>4. ASSUME NEW s \in Scheduler, StoreFails(s) \/ Kill(s) \/ Restart(s) PROVE beats' = beats
  BY <1>4 DEF StoreFails, Kill, Restart
<1>5. CASE RecordLetter \/ CountLetter \/ Tick \/ SetClockBack
  BY <1>0, <1>5 DEF RecordLetter, CountLetter, Tick, SetClockBack, heart
<1>6. CASE UNCHANGED vars \/ (DlqNext /\ UNCHANGED <<count, uncounted, heart, time>>)
  BY <1>0, <1>6 DEF vars, heart
<1> QED
  BY <1>0, <1>1, <1>2, <1>3, <1>4, <1>5, <1>6, SinkRows, MarkRows DEF Next, Delivery

\* Judging and replaying a letter adds none and removes none.
LEMMA SameLength ==
    ASSUME TypeOK, LettersInv, DlqNext
    PROVE  Len(letters') = Len(letters)
<1>1. letters \in Seq(Letter)
  BY DEF TypeOK, DlqTypeOK
<1>2. CASE SetApplicability
  <2>1. PICK i \in DOMAIN letters, a \in {"APPLICABLE", "NOT_APPLICABLE"} :
            letters' = [letters EXCEPT ![i].applicability = a]
    BY <1>2 DEF SetApplicability
  <2> QED
    BY <1>1, <2>1
<1>3. ASSUME NEW o \in Operator, MarkReplay(o) PROVE Len(letters') = Len(letters)
  <2>1. PICK i \in listed[o] :
            \/ letters' = [letters EXCEPT ![i].replay = "REPLAYED", ![i].retries = @ + 1]
            \/ letters' = letters
    BY <1>3 DEF MarkReplay
  <2> QED
    BY <1>1, <2>1
<1> QED
  BY <1>2, <1>3 DEF DlqNext, ListPendingApplicable

\* Time only passes, and counters only grow.
LEMMA Growing ==
    ASSUME TypeOK, CountsAreHonest, LettersInv, [Next]_vars
    PROVE  /\ elapsed' \in 0..MaxTime /\ setBack' \in 0..MaxSetBack
           /\ elapsed <= elapsed' /\ setBack <= setBack'
           /\ count' \in Nat /\ count <= count'
           /\ uncounted' \in [going : 0..MaxLetters, lost : 0..MaxLetters]
           /\ Len(letters') = count' + uncounted'.going + uncounted'.lost
<1> DEFINE n == Len(letters)
           g == uncounted.going
           l == uncounted.lost
<1>0. /\ elapsed \in 0..MaxTime /\ setBack \in 0..MaxSetBack
      /\ count \in Nat /\ g \in Nat /\ l \in Nat /\ n \in Nat
      /\ uncounted \in [going : 0..MaxLetters, lost : 0..MaxLetters]
      /\ n = count + g + l /\ n <= MaxLetters
      /\ MaxTime \in Nat /\ MaxSetBack \in Nat /\ MaxLetters \in Nat
  BY BoundsAreNumbers DEF TypeOK, DlqTypeOK, CountsAreHonest, LettersInv
<1>1. CASE UNCHANGED <<count, uncounted, elapsed, setBack>> /\ Len(letters') = n
  BY <1>0, <1>1
<1>2. CASE RecordLetter
  <2>1. /\ n < MaxLetters /\ letters' = Append(letters, NewLetter)
        /\ uncounted' = [uncounted EXCEPT !.going = @ + 1]
    BY <1>2 DEF RecordLetter, Record
  <2>2. Len(letters') = n + 1
    BY <2>1 DEF TypeOK, DlqTypeOK
  <2>3. uncounted'.going = g + 1 /\ uncounted'.lost = l
    BY <1>0, <2>1
  <2>4. g + 1 \in 0..MaxLetters
    BY <1>0, <2>1
  <2>5. uncounted' \in [going : 0..MaxLetters, lost : 0..MaxLetters]
    BY <1>0, <2>1, <2>4
  <2>6. count' = count /\ elapsed' = elapsed /\ setBack' = setBack
    BY <1>2 DEF RecordLetter, time
  <2> HIDE DEF n, g, l
  <2> QED
    BY <1>0, <2>2, <2>3, <2>5, <2>6
<1>3. CASE CountLetter
  <2>1. g > 0 /\ letters' = letters /\ elapsed' = elapsed /\ setBack' = setBack
    BY <1>3 DEF CountLetter, dlq, time
  <2>2. CASE count' = count + 1 /\ uncounted' = [uncounted EXCEPT !.going = @ - 1]
    <3>1. uncounted'.going = g - 1 /\ uncounted'.lost = l
      BY <1>0, <2>2
    <3>2. g - 1 \in 0..MaxLetters
      BY <1>0, <2>1
    <3>3. uncounted' \in [going : 0..MaxLetters, lost : 0..MaxLetters]
      BY <1>0, <2>2, <3>2
    <3>4. count' = count + 1
      BY <2>2
    <3> HIDE DEF n, g, l
    <3> QED
      BY <1>0, <2>1, <3>1, <3>3, <3>4 DEF n
  <2>3. CASE uncounted' = [going |-> g - 1, lost |-> l + 1] /\ count' = count
    <3>1. uncounted'.going = g - 1 /\ uncounted'.lost = l + 1
      BY <2>3
    <3>2. g - 1 \in 0..MaxLetters /\ l + 1 \in 0..MaxLetters
      BY <1>0, <2>1
    <3>3. uncounted' \in [going : 0..MaxLetters, lost : 0..MaxLetters]
      BY <2>3, <3>2
    <3> HIDE DEF g, l
    <3> QED
      BY <1>0, <2>1, <2>3, <3>1, <3>3
  <2> QED
    BY <1>3, <2>2, <2>3 DEF CountLetter
<1>4. CASE Tick \/ SetClockBack
  <2>1. letters' = letters /\ count' = count /\ uncounted' = uncounted
    BY <1>4 DEF Tick, SetClockBack, dlq
  <2>2. \/ elapsed < MaxTime /\ elapsed' = elapsed + 1 /\ setBack' = setBack
        \/ setBack < MaxSetBack /\ setBack' = setBack + 1 /\ elapsed' = elapsed
    BY <1>4 DEF Tick, SetClockBack
  <2> QED
    BY <1>0, <2>1, <2>2
<1>5. CASE DlqNext /\ UNCHANGED <<count, uncounted, heart, time>>
  <2>1. SetApplicability \/ (\E o \in Operator : MarkReplay(o)) \/ letters' = letters
    BY <1>5 DEF DlqNext, ListPendingApplicable
  <2>2. Len(letters') = n
    BY <1>5, <2>1, SameLength
  <2> QED
    BY <1>1, <1>5, <2>2 DEF time
<1>6. CASE UNCHANGED vars
  BY <1>1, <1>6 DEF vars, dlq, time
<1>7. ASSUME NEW s \in Scheduler, SchedulerStep(s) PROVE UNCHANGED <<dlq, count, uncounted, time>>
  BY <1>7 DEF SchedulerStep
<1>8. CASE EmitDirectly
  BY <1>1, <1>8 DEF EmitDirectly, dlq, time
<1>9. UNCHANGED <<dlq, count, uncounted, time>> => UNCHANGED <<count, uncounted, elapsed, setBack>> /\ Len(letters') = n
  BY DEF dlq, time
<1> QED
  BY <1>1, <1>2, <1>3, <1>4, <1>5, <1>6, <1>7, <1>8, <1>9 DEF Next

\* Rows ascend in time by their intervals and carry the counts of their time.
LEMMA RowsKept ==
    ASSUME IInv, [Next]_vars
    PROVE  /\ beats' \in Seq(Beat) /\ DOMAIN beats \subseteq DOMAIN beats'
           /\ TimesInv' /\ BeatsKeepTheInterval' /\ CountsAreHonest'
<1>0. /\ TypeOK /\ TimesInv /\ WorkInv /\ ReadingInv /\ BeatsKeepTheInterval
      /\ CountsAreHonest /\ LettersInv
  BY DEF IInv
<1>1. /\ elapsed \in Nat /\ elapsed' \in Nat /\ elapsed <= elapsed' /\ MaxSetBack \in Nat
      /\ count \in Nat /\ count' \in Nat /\ count <= count'
      /\ Len(letters') = count' + uncounted'.going + uncounted'.lost
  BY <1>0, Growing, BoundsAreNumbers DEF TypeOK
<1>2. \A i \in DOMAIN beats :
          /\ i \in 1..Len(beats) /\ i \in Nat /\ Len(beats) \in Nat
          /\ beats[i].at \in Nat /\ beats[i].dlq \in Nat /\ beats[i].missed \in Nat
  BY <1>0, RowFacts
<1>3. /\ Len(beats) \in Nat /\ DOMAIN beats = 1..Len(beats) /\ beats \in Seq(Beat)
  BY <1>0 DEF TypeOK
<1>4. CASE SameRows
  <2>1. /\ beats' \in Seq(Beat) /\ Len(beats') = Len(beats) /\ DOMAIN beats' = DOMAIN beats
        /\ \A i \in DOMAIN beats :
               /\ beats'[i].at = beats[i].at /\ beats'[i].dlq = beats[i].dlq
               /\ beats'[i].missed = beats[i].missed
    BY <1>4 DEF SameRows
  <2>2. TimesInv'
    BY <1>0, <1>1, <1>2, <2>1 DEF TimesInv
  <2>3. BeatsKeepTheInterval'
    <3>1. \A i \in 2..Len(beats) : i \in DOMAIN beats /\ i - 1 \in DOMAIN beats
      BY <1>3
    <3> QED
      BY <1>0, <2>1, <3>1 DEF BeatsKeepTheInterval
  <2>4. CountsAreHonest'
    <3>1. \A i \in DOMAIN beats : i # Len(beats) => i + 1 \in DOMAIN beats
      BY <1>3
    <3>2. ASSUME NEW i \in DOMAIN beats'
          PROVE  beats'[i].dlq <= IF i = Len(beats') THEN count' ELSE beats'[i + 1].dlq
      <4>1. beats[i].dlq <= IF i = Len(beats) THEN count ELSE beats[i + 1].dlq
        BY <1>0, <2>1, <3>2 DEF CountsAreHonest
      <4>2. CASE i = Len(beats)
        BY <1>1, <1>2, <2>1, <4>1, <4>2
      <4>3. CASE i # Len(beats)
        BY <2>1, <3>1, <4>1, <4>3
      <4> QED
        BY <4>2, <4>3
    <3> QED
      BY <1>1, <3>2 DEF CountsAreHonest
  <2> QED
    BY <2>1, <2>2, <2>3, <2>4
<1>5. ASSUME NEW now \in Nat, NEW by \in Scheduler \cup {Direct}, NEW delivery \in Delivery,
             NewRow(now, by, delivery), now <= elapsed
      PROVE  /\ beats' \in Seq(Beat) /\ DOMAIN beats \subseteq DOMAIN beats'
             /\ TimesInv' /\ BeatsKeepTheInterval' /\ CountsAreHonest'
  <2> DEFINE n == Len(beats) + 1
  <2>1. /\ beats' \in Seq(Beat)
        /\ Len(beats') = n /\ DOMAIN beats' = DOMAIN beats \cup {n} /\ n \notin DOMAIN beats
        /\ \A i \in DOMAIN beats : beats'[i] = beats[i]
        /\ beats'[n].at = now /\ beats'[n].dlq = count /\ beats'[n].missed = Missed(now)
        /\ \A i \in DOMAIN beats : beats[i].at <= now
        /\ HasBeats => /\ (1 + Missed(now)) * Interval <= now - beats[Len(beats)].at
                       /\ now - beats[Len(beats)].at < (2 + Missed(now)) * Interval
    <3> DEFINE r == [at |-> now, by |-> by, dlq |-> count, missed |-> Missed(now),
                     delivery |-> delivery, effects |-> 0]
    <3>1. /\ beats' \in Seq(Beat)
          /\ Len(beats') = n /\ DOMAIN beats' = DOMAIN beats \cup {n} /\ n \notin DOMAIN beats
          /\ \A i \in DOMAIN beats : beats'[i] = beats[i]
          /\ beats'[n] = r
          /\ \A i \in DOMAIN beats : beats[i].at <= now
          /\ HasBeats => /\ (1 + Missed(now)) * Interval <= now - beats[Len(beats)].at
                         /\ now - beats[Len(beats)].at < (2 + Missed(now)) * Interval
      BY <1>0, <1>5, NewRowFacts, ZenonT(60)
    <3>2. r.at = now /\ r.dlq = count /\ r.missed = Missed(now)
      OBVIOUS
    <3> HIDE DEF r, n
    <3> QED
      BY <3>1, <3>2, Zenon
  <2>2. TimesInv'
    <3>1. ASSUME NEW i \in DOMAIN beats', NEW j \in DOMAIN beats', i <= j
          PROVE  beats'[i].at <= beats'[j].at
      BY <1>0, <1>2, <1>3, <1>5, <2>1, <3>1 DEF TimesInv
    <3>2. ASSUME NEW i \in DOMAIN beats' PROVE beats'[i].at <= elapsed'
      BY <1>0, <1>1, <1>2, <1>5, <2>1 DEF TimesInv
    <3>3. MaxSetBack <= elapsed'
      BY <1>0, <1>1 DEF TimesInv
    <3> QED
      BY <3>1, <3>2, <3>3 DEF TimesInv
  <2>3. BeatsKeepTheInterval'
    <3>1. ASSUME NEW i \in 2..Len(beats')
          PROVE  /\ (1 + beats'[i].missed) * Interval <= beats'[i].at - beats'[i - 1].at
                 /\ beats'[i].at - beats'[i - 1].at < (2 + beats'[i].missed) * Interval
      <4>1. CASE i = n
        <5>1. i - 1 = Len(beats) /\ i - 1 \in DOMAIN beats /\ HasBeats
          BY <1>3, <2>1, <3>1, <4>1 DEF HasBeats
        <5> HIDE DEF n
        <5> QED
          BY <2>1, <4>1, <5>1
      <4>2. CASE i # n
        <5>1. i \in 2..Len(beats) /\ i \in DOMAIN beats /\ i - 1 \in DOMAIN beats
          BY <1>3, <2>1, <3>1, <4>2
        <5>2. beats'[i] = beats[i] /\ beats'[i - 1] = beats[i - 1]
          BY <2>1, <5>1
        <5> QED
          BY <1>0, <5>1, <5>2 DEF BeatsKeepTheInterval
      <4> QED
        BY <4>1, <4>2
    <3> QED
      BY <3>1 DEF BeatsKeepTheInterval
  <2>4. CountsAreHonest'
    <3>1. ASSUME NEW i \in DOMAIN beats'
          PROVE  beats'[i].dlq <= IF i = Len(beats') THEN count' ELSE beats'[i + 1].dlq
      <4>1. CASE i = n
        BY <1>1, <2>1, <4>1
      <4>2. CASE i = Len(beats) /\ i # n
        <5>1. beats[i].dlq <= count /\ i + 1 = n /\ beats'[i] = beats[i]
          BY <1>0, <1>3, <2>1, <4>2, <3>1 DEF CountsAreHonest
        <5> HIDE DEF n
        <5> QED
          BY <2>1, <4>2, <5>1
      <4>3. CASE i # Len(beats) /\ i # n
        <5>1. i \in DOMAIN beats /\ i + 1 \in DOMAIN beats /\ i # Len(beats')
          BY <1>3, <2>1, <3>1, <4>3
        <5> QED
          BY <1>0, <2>1, <4>3, <5>1 DEF CountsAreHonest
      <4> QED
        BY <4>1, <4>2, <4>3
    <3> QED
      BY <1>1, <3>1 DEF CountsAreHonest
  <2> QED
    BY <2>1, <2>2, <2>3, <2>4
<1>6. CASE SameRows
  BY <1>4, <1>6 DEF SameRows
<1> QED
  BY <1>0, <1>4, <1>5, <1>6, RowSteps

-----------------------------------------------------------------------------
(* Schedulers.                                                             *)

\* What the steps of a scheduler keep.
HeartTypeOK ==
    /\ sched \in [Scheduler -> [step : Step, now : Nat, beat : Nat]]
    /\ kills \in 0..MaxKills
    /\ orphans \subseteq DOMAIN beats
    /\ lagged \subseteq Scheduler

HeartInv ==
    /\ HeartTypeOK
    /\ WorkInv
    /\ OwnersInv
    /\ ReadingInv
    /\ DeliveryIsTold
    /\ RefusedOnlyIfOvertaken

\* A scheduler at work on a row, between its claim and its mark.
Working == {"sink", "confirm", "doubt"}

\* A step of a scheduler that is at work on no row and writes none.
LEMMA PlainMove ==
    ASSUME TypeOK, TimesInv, HeartInv, NEW s \in Scheduler,
           NEW st \in Step \ Working, NEW n \in Nat,
           sched[s].step \notin Working, Set(s, st, n),
           lagged' = lagged \/ lagged' = lagged \ {s},
           UNCHANGED <<beats, kills, orphans, elapsed, setBack>>,
           st \in {"claim", "delay"} => n = Now /\ s \notin lagged',
           st = "refused" => setBack > 0 \/ s \in lagged'
    PROVE  HeartInv'
<1>1. /\ sched'[s].step = st /\ sched'[s].now = n /\ sched'[s].beat = sched[s].beat
      /\ \A u \in Scheduler : u # s => sched'[u] = sched[u]
      /\ sched' \in [Scheduler -> [step : Step, now : Nat, beat : Nat]]
  BY SetFacts
<1>2. HeartTypeOK'
  BY <1>1 DEF HeartInv, HeartTypeOK
<1>3. WorkInv'
  BY <1>1 DEF HeartInv, WorkInv, At, Working
<1>4. OwnersInv'
  BY DEF HeartInv, OwnersInv
<1>5. ReadingInv'
  <2>1. ASSUME NEW u \in Scheduler
        PROVE  /\ (At(u, "claim") \/ At(u, "delay"))' => sched'[u].now <= elapsed
               /\ (At(u, "claim") \/ At(u, "delay"))' /\ setBack = 0 /\ u \notin lagged' =>
                     \A i \in DOMAIN beats : beats[i].at <= sched'[u].now
    <3>1. CASE u = s
      BY <1>1, <3>1, NowIsPast DEF At, TimesInv
    <3>2. CASE u # s
      BY <1>1, <3>2 DEF HeartInv, ReadingInv, At
    <3> QED
      BY <3>1, <3>2
  <2> QED
    BY <2>1 DEF ReadingInv, At
<1>6. DeliveryIsTold'
  <2>1. \A u \in Scheduler : sched'[u].beat = sched[u].beat
    BY <1>1
  <2> QED
    BY <2>1 DEF HeartInv, DeliveryIsTold, OwnersInv
<1>7. RefusedOnlyIfOvertaken'
  BY <1>1 DEF HeartInv, RefusedOnlyIfOvertaken, At
<1> QED
  BY <1>2, <1>3, <1>4, <1>5, <1>6, <1>7 DEF HeartInv

\* A reading that lies before a row is of a clock that was set back, or old.
LEMMA RegressedMeansOvertaken ==
    ASSUME TypeOK, TimesInv, ReadingInv, NEW s \in Scheduler,
           At(s, "claim") \/ At(s, "delay"), Regressed(sched[s].now)
    PROVE  setBack > 0 \/ s \in lagged
<1>1. /\ Len(beats) \in DOMAIN beats /\ LastAt = beats[Len(beats)].at /\ LastAt \in Nat
      /\ sched[s].now < LastAt
  BY LastRow DEF Regressed
<1>2. sched[s].now \in Nat /\ setBack \in Nat
  BY NowIsPast DEF TypeOK
<1>3. setBack = 0 /\ s \notin lagged => LastAt <= sched[s].now
  BY <1>1 DEF ReadingInv
<1> QED
  BY <1>1, <1>2, <1>3

\* The steps of a scheduler that write no row.
LEMMA QuietSteps ==
    ASSUME TypeOK, TimesInv, HeartInv, NEW s \in Scheduler, SchedulerStep(s),
           ReadClock(s) \/ Plan(s) \/ Wake(s) \/ (Claim(s) /\ sched'[s].step # "sink")
    PROVE  HeartInv'
<1>0. elapsed' = elapsed /\ setBack' = setBack
  BY DEF SchedulerStep, time
<1>1. CASE ReadClock(s)
  <2>1. /\ lagged' = lagged \ {s} /\ beats' = beats /\ kills' = kills /\ orphans' = orphans
        /\ sched[s].step \notin Working
    BY <1>1 DEF ReadClock, At, Working
  <2>2. PICK st \in {"claim", "delay"} : Set(s, st, Now)
    BY <1>1 DEF ReadClock
  <2>3. st \in Step \ Working /\ Now \in Nat
    BY NowIsPast DEF Step, Working
  <2> QED
    BY <1>0, <2>1, <2>2, <2>3, PlainMove
<1>2. CASE Plan(s)
  <2>1. /\ lagged' = lagged /\ beats' = beats /\ kills' = kills /\ orphans' = orphans
        /\ sched[s].step \notin Working
    BY <1>2 DEF Plan, At, Working
  <2>2. CASE Regressed(sched[s].now) /\ Goto(s, "refused")
    <3>1. setBack > 0 \/ s \in lagged
      BY <1>2, <2>2, RegressedMeansOvertaken DEF Plan, HeartInv
    <3> QED
      BY <1>0, <2>1, <2>2, <3>1, PlainMove DEF Goto, Step, Working
  <2>3. CASE Goto(s, "clock")
    BY <1>0, <2>1, <2>3, PlainMove DEF Goto, Step, Working
  <2>4. CASE /\ ~Regressed(sched[s].now) /\ ~Due(sched[s].now)
             /\ Set(s, "asleep", elapsed + Interval - (sched[s].now - LastAt))
    <3> DEFINE n == elapsed + Interval - (sched[s].now - LastAt)
    <3>1. HasBeats /\ ~(sched[s].now < LastAt) /\ ~(sched[s].now - LastAt >= Interval)
      BY <2>4 DEF Regressed, Due
    <3>2. LastAt \in Nat /\ sched[s].now \in Nat /\ elapsed \in Nat /\ Interval \in Nat
      BY <3>1, LastRow, NowIsPast, Sizes DEF TypeOK
    <3>3. n \in Nat
      BY <3>1, <3>2
    <3>4. "asleep" \in Step \ Working
      BY DEF Step, Working
    <3>5. Set(s, "asleep", n)
      BY <2>4
    <3> HIDE DEF n
    <3> QED
      BY <1>0, <2>1, <3>3, <3>4, <3>5, PlainMove
  <2> QED
    BY <1>2, <2>2, <2>3, <2>4 DEF Plan
<1>3. CASE Wake(s)
  <2>1. /\ lagged' = lagged /\ beats' = beats /\ kills' = kills /\ orphans' = orphans
        /\ sched[s].step \notin Working /\ Goto(s, "clock")
    BY <1>3 DEF Wake, At, Working
  <2> QED
    BY <1>0, <2>1, PlainMove DEF Goto, Step, Working
<1>4. CASE Claim(s) /\ sched'[s].step # "sink"
  <2>1. kills' = kills /\ orphans' = orphans /\ sched[s].step \notin Working
    BY <1>4 DEF Claim, At, Working
  <2>2. CASE Regressed(sched[s].now) /\ Goto(s, "refused") /\ UNCHANGED <<beats, lagged>>
    <3>1. setBack > 0 \/ s \in lagged
      BY <1>4, <2>2, RegressedMeansOvertaken DEF Claim, HeartInv
    <3> QED
      BY <1>0, <2>1, <2>2, <3>1, PlainMove DEF Goto, Step, Working
  <2>3. CASE Goto(s, "plan") /\ UNCHANGED <<beats, lagged>>
    BY <1>0, <2>1, <2>3, PlainMove DEF Goto, Step, Working
  <2>4. ~(sched' = [sched EXCEPT ![s] = [step |-> "sink", now |-> 0, beat |-> Len(beats) + 1]])
    BY <1>4 DEF HeartInv, HeartTypeOK
  <2> QED
    BY <1>4, <2>2, <2>3, <2>4 DEF Claim
<1> QED
  BY <1>1, <1>2, <1>3, <1>4

\* A claim: its row is pending, and who has read the clock is overtaken.
LEMMA ClaimWritesRow ==
    ASSUME TypeOK, TimesInv, HeartInv, NEW s \in Scheduler, SchedulerStep(s),
           Claim(s), sched'[s].step = "sink"
    PROVE  HeartInv'
<1> DEFINE n == Len(beats) + 1
           k == [step |-> "sink", now |-> 0, beat |-> n]
<1>0. /\ elapsed' = elapsed /\ setBack' = setBack /\ kills' = kills /\ orphans' = orphans
      /\ sched \in [Scheduler -> [step : Step, now : Nat, beat : Nat]]
      /\ At(s, "claim")
  BY DEF SchedulerStep, time, Claim, TypeOK
<1>1. /\ ~Regressed(sched[s].now) /\ Due(sched[s].now)
      /\ Create(sched[s].now, s, "PENDING")
      /\ Overtake(s)
      /\ sched' = [sched EXCEPT ![s] = k]
  <2>1. \A st \in Step : Goto(s, st) => sched'[s].step = st
    BY SetFacts DEF Goto
  <2>2. ~Goto(s, "refused") /\ ~Goto(s, "plan")
    BY <2>1 DEF Step
  <2> QED
    BY <2>2 DEF Claim
<1>2. NewRow(sched[s].now, s, "PENDING")
  BY <1>0, <1>1 DEF NewRow, Delivery
<1>3. /\ Len(beats') = n /\ DOMAIN beats' = DOMAIN beats \cup {n} /\ n \notin DOMAIN beats
      /\ \A i \in DOMAIN beats : beats'[i] = beats[i]
      /\ beats'[n].by = s /\ beats'[n].delivery = "PENDING" /\ beats'[n].effects = 0
  <2> DEFINE r == [at |-> sched[s].now, by |-> s, dlq |-> count, missed |-> Missed(sched[s].now),
                   delivery |-> "PENDING", effects |-> 0]
  <2>1. /\ Len(beats') = n /\ DOMAIN beats' = DOMAIN beats \cup {n} /\ n \notin DOMAIN beats
        /\ \A i \in DOMAIN beats : beats'[i] = beats[i]
        /\ beats'[n] = r
    BY <1>2, NewRowFacts, ZenonT(60)
  <2>2. r.by = s /\ r.delivery = "PENDING" /\ r.effects = 0
    OBVIOUS
  <2> HIDE DEF r, n
  <2> QED
    BY <2>1, <2>2, Zenon
<1>4. n \in Nat
  BY DEF TypeOK
<1> HIDE DEF n
<1>5. k.step = "sink" /\ k.beat = n /\ k \in [step : Step, now : Nat, beat : Nat]
  BY <1>4 DEF Step
<1> HIDE DEF k
<1>6. sched'[s] = k /\ \A u \in Scheduler : u # s => sched'[u] = sched[u]
  BY <1>0, <1>1
<1>7. lagged' = lagged \cup {u \in Scheduler \ {s} : At(u, "claim") \/ At(u, "delay")}
  BY <1>1 DEF Overtake
<1>8. HeartTypeOK'
  BY <1>0, <1>1, <1>3, <1>5, <1>7 DEF HeartInv, HeartTypeOK
<1>9. WorkInv'
  <2>1. ASSUME NEW u \in Scheduler
        PROVE  IF sched'[u].step \in Working
               THEN /\ sched'[u].beat \in DOMAIN beats'
                    /\ beats'[sched'[u].beat].by = u
                    /\ beats'[sched'[u].beat].delivery = "PENDING"
                    /\ sched'[u].step = "sink" => beats'[sched'[u].beat].effects = 0
                    /\ sched'[u].step = "confirm" => beats'[sched'[u].beat].effects = 1
               ELSE sched'[u].beat = 0
    <3>1. CASE u = s
      BY <1>3, <1>5, <1>6, <3>1 DEF Working
    <3>2. CASE u # s
      BY <1>3, <1>6, <3>2 DEF HeartInv, WorkInv, Working, At
    <3> QED
      BY <3>1, <3>2
  <2> QED
    BY <2>1 DEF WorkInv, Working, At
<1>10. OwnersInv'
  BY <1>3 DEF HeartInv, OwnersInv
<1>11. ReadingInv'
  <2>1. ASSUME NEW u \in Scheduler, (At(u, "claim") \/ At(u, "delay"))'
        PROVE  u # s /\ sched'[u] = sched[u] /\ u \in lagged'
    BY <1>5, <1>6, <1>7, <2>1 DEF At
  <2> QED
    BY <1>0, <2>1 DEF HeartInv, ReadingInv, At
<1>12. DeliveryIsTold'
  <2>1. ASSUME NEW i \in DOMAIN beats'
        PROVE  /\ beats'[i].effects <= 1
               /\ beats'[i].delivery = "DELIVERED" => beats'[i].effects = 1 \/ beats'[i].by = Direct
               /\ beats'[i].delivery = "PENDING" =>
                     sched'[beats'[i].by].beat = i \/ i \in orphans'
    <3>1. CASE i = n
      BY <1>3, <1>5, <1>6, <3>1
    <3>2. CASE i # n
      <4>1. i \in DOMAIN beats /\ beats'[i] = beats[i] /\ sched[s].beat = 0
        BY <1>0, <1>3, <3>2 DEF HeartInv, WorkInv, At
      <4>2. beats[i].delivery = "PENDING" => beats[i].by \in Scheduler
        BY <4>1 DEF HeartInv, OwnersInv
      <4>3. i # 0
        BY <4>1, RowFacts
      <4> QED
        BY <1>0, <1>6, <4>1, <4>2, <4>3 DEF HeartInv, DeliveryIsTold
    <3> QED
      BY <3>1, <3>2
  <2> QED
    BY <2>1 DEF DeliveryIsTold
<1>13. RefusedOnlyIfOvertaken'
  BY <1>0, <1>5, <1>6, <1>7 DEF HeartInv, RefusedOnlyIfOvertaken, At
<1> QED
  BY <1>8, <1>9, <1>10, <1>11, <1>12, <1>13 DEF HeartInv

\* A sink call and a mark change the row of the scheduler at work, and no other.
LEMMA WorkChangesItsRow ==
    ASSUME TypeOK, TimesInv, HeartInv, NEW s \in Scheduler, SchedulerStep(s),
           sched[s].step \in Working, SameRows,
           \A j \in DOMAIN beats : j # sched[s].beat => beats'[j] = beats[j],
           NEW k \in [step : Step, now : Nat, beat : Nat],
           sched' = [sched EXCEPT ![s] = k],
           UNCHANGED <<kills, orphans, lagged>>,
           beats'[sched[s].beat].effects \in {0, 1},
           beats'[sched[s].beat].delivery = "DELIVERED"
               => beats'[sched[s].beat].effects = 1,
           \/ /\ k.step \in Working \ {"sink"} /\ k.beat = sched[s].beat
              /\ beats'[sched[s].beat].delivery = "PENDING"
              /\ k.step = "confirm" => beats'[sched[s].beat].effects = 1
           \/ /\ k.step = "plan" /\ k.beat = 0
              /\ beats'[sched[s].beat].delivery # "PENDING"
    PROVE  HeartInv'
<1> DEFINE i == sched[s].beat
<1>1. /\ i \in DOMAIN beats /\ beats[i].by = s /\ beats'[i].by = s
      /\ DOMAIN beats' = DOMAIN beats
      /\ \A j \in DOMAIN beats : beats'[j].at = beats[j].at /\ beats'[j].by = beats[j].by
  BY DEF HeartInv, WorkInv, Working, SameRows
<1>2. elapsed' = elapsed /\ setBack' = setBack
  BY DEF SchedulerStep, time
<1>3. sched'[s] = k /\ \A u \in Scheduler : u # s => sched'[u] = sched[u]
  BY DEF HeartInv, HeartTypeOK
<1>4. HeartTypeOK'
  BY <1>1 DEF HeartInv, HeartTypeOK
<1>5. WorkInv'
  <2>1. ASSUME NEW u \in Scheduler
        PROVE  IF sched'[u].step \in Working
               THEN /\ sched'[u].beat \in DOMAIN beats'
                    /\ beats'[sched'[u].beat].by = u
                    /\ beats'[sched'[u].beat].delivery = "PENDING"
                    /\ sched'[u].step = "sink" => beats'[sched'[u].beat].effects = 0
                    /\ sched'[u].step = "confirm" => beats'[sched'[u].beat].effects = 1
               ELSE sched'[u].beat = 0
    <3>1. CASE u = s
      BY <1>1, <1>3, <3>1 DEF Working
    <3>2. CASE u # s
      <4>1. sched'[u] = sched[u]
        BY <1>3, <3>2
      <4>2. sched[u].step \in Working => beats[sched[u].beat].by = u /\ sched[u].beat \in DOMAIN beats
        BY DEF HeartInv, WorkInv, Working
      <4>3. sched[u].step \in Working => beats'[sched[u].beat] = beats[sched[u].beat]
        BY <1>1, <3>2, <4>2
      <4> QED
        BY <1>1, <4>1, <4>3 DEF HeartInv, WorkInv, Working, At
    <3> QED
      BY <3>1, <3>2
  <2> QED
    BY <2>1 DEF WorkInv, Working, At
<1>6. OwnersInv'
  BY <1>1 DEF HeartInv, OwnersInv
<1>7. ReadingInv'
  BY <1>1, <1>2, <1>3 DEF HeartInv, ReadingInv, At, Working
<1>8. DeliveryIsTold'
  <2>1. ASSUME NEW j \in DOMAIN beats'
        PROVE  /\ beats'[j].effects <= 1
               /\ beats'[j].delivery = "DELIVERED" => beats'[j].effects = 1 \/ beats'[j].by = Direct
               /\ beats'[j].delivery = "PENDING" =>
                     sched'[beats'[j].by].beat = j \/ j \in orphans'
    <3>1. CASE j = i
      BY <1>1, <1>3, <3>1
    <3>2. CASE j # i
      <4>1. j \in DOMAIN beats /\ beats'[j] = beats[j]
        BY <1>1, <3>2
      <4>2. beats[j].delivery = "PENDING" => beats[j].by \in Scheduler
        BY <4>1 DEF HeartInv, OwnersInv
      <4>3. beats[j].delivery = "PENDING" /\ beats[j].by = s => j \in orphans
        BY <3>2, <4>1 DEF HeartInv, DeliveryIsTold
      <4> QED
        BY <1>3, <4>1, <4>2, <4>3 DEF HeartInv, DeliveryIsTold
    <3> QED
      BY <3>1, <3>2
  <2> QED
    BY <2>1 DEF DeliveryIsTold
<1>9. RefusedOnlyIfOvertaken'
  BY <1>2, <1>3 DEF HeartInv, RefusedOnlyIfOvertaken, At, Working
<1> QED
  BY <1>4, <1>5, <1>6, <1>7, <1>8, <1>9 DEF HeartInv

\* What the sink did is on the row when its outcome is to be marked.
LEMMA SinkKept ==
    ASSUME TypeOK, TimesInv, HeartInv, NEW s \in Scheduler, SchedulerStep(s), Sink(s)
    PROVE  HeartInv'
<1> DEFINE i == sched[s].beat
<1>1. /\ i \in DOMAIN beats /\ SameRows
      /\ beats'[i].delivery = beats[i].delivery
      /\ \/ beats'[i].effects = 1 /\ (Goto(s, "confirm") \/ Goto(s, "doubt"))
         \/ beats'[i].effects = 0 /\ Goto(s, "doubt")
      /\ \A j \in DOMAIN beats : j # i => beats'[j] = beats[j]
  BY SinkRows DEF HeartInv
<1>2. /\ sched[s].step \in Working /\ UNCHANGED <<kills, orphans, lagged>>
      /\ sched[s] \in [step : Step, now : Nat, beat : Nat]
  BY DEF Sink, At, Working, TypeOK
<1>3. beats[i].delivery = "PENDING"
  BY <1>2 DEF HeartInv, WorkInv, Working
<1>4. PICK st \in {"confirm", "doubt"} :
          Goto(s, st) /\ (st = "confirm" => beats'[i].effects = 1)
  BY <1>1
<1> DEFINE k == [sched[s] EXCEPT !.step = st, !.now = 0]
<1>5. sched' = [sched EXCEPT ![s] = k]
  BY <1>4 DEF Goto, Set
<1>6. /\ k \in [step : Step, now : Nat, beat : Nat]
      /\ k.step = st /\ k.beat = i /\ st \in Working \ {"sink"}
  BY <1>2, <1>4 DEF Step, Working
<1> HIDE DEF k
<1>7. beats'[i].effects \in {0, 1} /\ beats'[i].delivery = "PENDING"
  BY <1>1, <1>3
<1> HIDE DEF i
<1> QED
  BY <1>1, <1>2, <1>4, <1>5, <1>6, <1>7, WorkChangesItsRow DEF i

\* A marked row is final, and tells what the sink did.
LEMMA MarkKept ==
    ASSUME TypeOK, TimesInv, HeartInv, NEW s \in Scheduler, SchedulerStep(s), Mark(s)
    PROVE  HeartInv'
<1> DEFINE i == sched[s].beat
           k == [step |-> "plan", now |-> 0, beat |-> 0]
<1>1. /\ i \in DOMAIN beats /\ SameRows
      /\ sched' = [sched EXCEPT ![s] = k]
      /\ beats'[i].effects = beats[i].effects
      /\ beats'[i].delivery \in {"DELIVERED", "UNCONFIRMED"}
      /\ beats'[i].delivery = "DELIVERED" => beats[i].effects = 1
      /\ \A j \in DOMAIN beats : j # i => beats'[j] = beats[j]
  BY MarkRows DEF HeartInv
<1>2. sched[s].step \in Working /\ UNCHANGED <<kills, orphans, lagged>>
  BY DEF Mark, At, Working
<1>3. k \in [step : Step, now : Nat, beat : Nat] /\ k.step = "plan" /\ k.beat = 0
  BY DEF Step
<1>4. beats'[i].effects \in {0, 1}
  BY <1>1, RowFacts DEF HeartInv, DeliveryIsTold
<1>5. beats'[i].delivery # "PENDING" /\ (beats'[i].delivery = "DELIVERED" => beats'[i].effects = 1)
  BY <1>1
<1> HIDE DEF i, k
<1> QED
  BY <1>1, <1>2, <1>3, <1>4, <1>5, WorkChangesItsRow DEF i

\* A row whose scheduler is killed or fails with it is an orphan.
LEMMA KillKept ==
    ASSUME TypeOK, TimesInv, HeartInv, NEW s \in Scheduler, UNCHANGED time,
           StoreFails(s) \/ Kill(s) \/ Restart(s)
    PROVE  HeartInv'
<1>1. PICK k \in [step : {"clock", "killed", "failed"}, now : {0}, beat : {0}] :
          sched' = [sched EXCEPT ![s] = k]
  <2>0. CASE StoreFails(s)
    <3> DEFINE k == [Fresh EXCEPT !.step = "failed"]
    <3>1. k \in [step : {"clock", "killed", "failed"}, now : {0}, beat : {0}]
      BY DEF Fresh
    <3>2. sched' = [sched EXCEPT ![s] = k]
      BY <2>0 DEF StoreFails
    <3> HIDE DEF k
    <3> QED
      BY <3>1, <3>2
  <2>1. CASE Kill(s)
    <3> DEFINE k == [Fresh EXCEPT !.step = "killed"]
    <3>1. k \in [step : {"clock", "killed", "failed"}, now : {0}, beat : {0}]
      BY DEF Fresh
    <3>2. sched' = [sched EXCEPT ![s] = k]
      BY <2>1 DEF Kill
    <3> HIDE DEF k
    <3> QED
      BY <3>1, <3>2
  <2>2. CASE Restart(s)
    <3>1. Fresh \in [step : {"clock", "killed", "failed"}, now : {0}, beat : {0}]
      BY DEF Fresh
    <3> QED
      BY <2>2, <3>1 DEF Restart
  <2> QED
    BY <2>0, <2>1, <2>2
<1>2. /\ beats' = beats /\ elapsed' = elapsed /\ setBack' = setBack
      /\ lagged \ {s} \subseteq lagged' /\ lagged' \subseteq lagged
      /\ orphans \subseteq orphans'
  BY DEF StoreFails, Kill, Restart, time
<1>3. /\ sched[s].beat # 0 => sched[s].beat \in orphans'
      /\ orphans' \subseteq DOMAIN beats
      /\ kills' \in 0..MaxKills
  <2>1. sched[s].beat # 0 => sched[s].beat \in DOMAIN beats
    BY DEF HeartInv, WorkInv
  <2>2. CASE StoreFails(s) \/ Kill(s)
    BY <2>1, <2>2, BoundsAreNumbers DEF StoreFails, Kill, HeartInv, HeartTypeOK
  <2>3. CASE Restart(s)
    BY <2>3 DEF Restart, HeartInv, HeartTypeOK, WorkInv, At
  <2> QED
    BY <2>2, <2>3
<1>4. /\ k \in [step : Step, now : Nat, beat : Nat]
      /\ k.step \in {"clock", "killed", "failed"} /\ k.beat = 0
  BY DEF Step
<1>5. sched'[s] = k /\ \A u \in Scheduler : u # s => sched'[u] = sched[u]
  BY <1>1 DEF HeartInv, HeartTypeOK
<1>6. HeartTypeOK'
  BY <1>1, <1>2, <1>3, <1>4 DEF HeartInv, HeartTypeOK
<1>7. WorkInv'
  BY <1>2, <1>4, <1>5 DEF HeartInv, WorkInv, At
<1>8. OwnersInv'
  BY <1>2 DEF HeartInv, OwnersInv
<1>9. ReadingInv'
  <2>1. ASSUME NEW u \in Scheduler, (At(u, "claim") \/ At(u, "delay"))'
        PROVE  u # s /\ sched'[u] = sched[u] /\ (u \notin lagged' => u \notin lagged)
    BY <1>2, <1>4, <1>5, <2>1 DEF At
  <2> QED
    BY <1>2, <2>1 DEF HeartInv, ReadingInv, At
<1>10. DeliveryIsTold'
  <2>1. ASSUME NEW i \in DOMAIN beats, beats[i].delivery = "PENDING"
        PROVE  sched'[beats[i].by].beat = i \/ i \in orphans'
    <3>1. beats[i].by \in Scheduler /\ (sched[beats[i].by].beat = i \/ i \in orphans) /\ i # 0
      BY <2>1, RowFacts DEF HeartInv, OwnersInv, DeliveryIsTold
    <3> QED
      BY <1>2, <1>3, <1>5, <3>1
  <2> QED
    BY <1>2, <2>1 DEF HeartInv, DeliveryIsTold
<1>11. RefusedOnlyIfOvertaken'
  BY <1>2, <1>4, <1>5 DEF HeartInv, RefusedOnlyIfOvertaken, At
<1> QED
  BY <1>6, <1>7, <1>8, <1>9, <1>10, <1>11 DEF HeartInv

\* A direct heartbeat is no scheduler's, and overtakes all that read the clock.
LEMMA DirectKept ==
    ASSUME TypeOK, TimesInv, HeartInv, EmitDirectly
    PROVE  HeartInv'
<1> DEFINE n == Len(beats) + 1
<1>0. /\ elapsed' = elapsed /\ setBack' = setBack /\ kills' = kills /\ orphans' = orphans
      /\ sched' = sched
      /\ lagged' = lagged \cup {u \in Scheduler \ {Direct} : At(u, "claim") \/ At(u, "delay")}
  BY DEF EmitDirectly, time, Overtake
<1>1. NewRow(Now, Direct, "DELIVERED")
  BY NowIsPast DEF EmitDirectly, NewRow, Delivery
<1>2. /\ DOMAIN beats' = DOMAIN beats \cup {n}
      /\ \A i \in DOMAIN beats : beats'[i] = beats[i]
      /\ beats'[n].by = Direct /\ beats'[n].delivery = "DELIVERED" /\ beats'[n].effects = 0
  <2> DEFINE r == [at |-> Now, by |-> Direct, dlq |-> count, missed |-> Missed(Now),
                   delivery |-> "DELIVERED", effects |-> 0]
  <2>1. /\ DOMAIN beats' = DOMAIN beats \cup {n}
        /\ \A i \in DOMAIN beats : beats'[i] = beats[i]
        /\ beats'[n] = r
    BY <1>1, NewRowFacts, ZenonT(60)
  <2>2. r.by = Direct /\ r.delivery = "DELIVERED" /\ r.effects = 0
    OBVIOUS
  <2> HIDE DEF r, n
  <2> QED
    BY <2>1, <2>2, Zenon
<1> HIDE DEF n
<1>3. HeartTypeOK'
  BY <1>0, <1>2 DEF HeartInv, HeartTypeOK
<1>4. WorkInv'
  BY <1>0, <1>2 DEF HeartInv, WorkInv, At
<1>5. OwnersInv'
  BY <1>2 DEF HeartInv, OwnersInv
<1>6. ReadingInv'
  <2>1. ASSUME NEW u \in Scheduler, At(u, "claim") \/ At(u, "delay") PROVE u \in lagged'
    BY <1>0, <2>1, DirectIsNoScheduler
  <2> QED
    BY <1>0, <2>1 DEF HeartInv, ReadingInv, At
<1>7. DeliveryIsTold'
  BY <1>0, <1>2 DEF HeartInv, DeliveryIsTold
<1>8. RefusedOnlyIfOvertaken'
  BY <1>0 DEF HeartInv, RefusedOnlyIfOvertaken, At
<1> QED
  BY <1>3, <1>4, <1>5, <1>6, <1>7, <1>8 DEF HeartInv

\* Steps of others leave the schedulers and their rows alone; time passes.
LEMMA TimeKept ==
    ASSUME TypeOK, TimesInv, HeartInv, UNCHANGED heart,
           elapsed' \in Nat, elapsed <= elapsed', setBack' \in Nat, setBack <= setBack'
    PROVE  HeartInv'
<1>1. /\ beats' = beats /\ sched' = sched /\ kills' = kills /\ orphans' = orphans
      /\ lagged' = lagged /\ elapsed \in Nat /\ setBack \in Nat
  BY NowIsPast DEF heart
<1>2. HeartTypeOK' /\ WorkInv' /\ OwnersInv' /\ DeliveryIsTold'
  BY <1>1 DEF HeartInv, HeartTypeOK, WorkInv, OwnersInv, DeliveryIsTold, At
<1>3. ReadingInv'
  <2>1. \A u \in Scheduler : sched[u].now \in Nat
    BY DEF TypeOK
  <2>2. setBack' = 0 => setBack = 0
    BY <1>1
  <2> QED
    BY <1>1, <2>1, <2>2 DEF HeartInv, ReadingInv, At
<1>4. RefusedOnlyIfOvertaken'
  BY <1>1 DEF HeartInv, RefusedOnlyIfOvertaken, At
<1> QED
  BY <1>2, <1>3, <1>4 DEF HeartInv

\* Every step keeps what is known of the schedulers.
LEMMA HeartKept ==
    ASSUME IInv, [Next]_vars
    PROVE  HeartInv'
<1>1. TypeOK /\ TimesInv /\ HeartInv /\ CountsAreHonest /\ LettersInv
  BY DEF IInv, HeartInv, HeartTypeOK, TypeOK
<1>2. ASSUME NEW s \in Scheduler, SchedulerStep(s) PROVE HeartInv'
  BY <1>1, <1>2, QuietSteps, ClaimWritesRow, SinkKept, MarkKept DEF SchedulerStep
<1>3. ASSUME NEW s \in Scheduler,
             (StoreFails(s) \/ Kill(s) \/ Restart(s)) /\ UNCHANGED <<dlq, count, uncounted, time>>
      PROVE  HeartInv'
  <2>1. UNCHANGED time /\ (StoreFails(s) \/ Kill(s) \/ Restart(s))
    BY <1>3
  <2> QED
    BY <1>1, <2>1, KillKept
<1>4. CASE EmitDirectly
  BY <1>1, <1>4, DirectKept
<1>5. CASE UNCHANGED heart
  <2>1. elapsed' \in Nat /\ elapsed <= elapsed' /\ setBack' \in Nat /\ setBack <= setBack'
    BY <1>1, Growing, BoundsAreNumbers
  <2> QED
    BY <1>1, <1>5, <2>1, TimeKept
<1>6. CASE RecordLetter \/ CountLetter \/ Tick \/ SetClockBack
  BY <1>5, <1>6 DEF RecordLetter, CountLetter, Tick, SetClockBack
<1>7. CASE UNCHANGED vars
  BY <1>5, <1>7 DEF vars
<1> QED
  BY <1>2, <1>3, <1>4, <1>5, <1>6, <1>7 DEF Next

-----------------------------------------------------------------------------
(* Theorems.                                                               *)

\* A database with no heartbeat in it satisfies the invariant.
LEMMA InitInv == Init => IInv
<1> SUFFICES ASSUME Init PROVE IInv
  OBVIOUS
<1> USE BoundsAreNumbers
<1>1. PICK n \in 0..MaxLetters : letters = [i \in 1..n |-> NewLetter]
  BY DEF Init, DlqInit
<1>2. NewLetter \in Letter
  BY DEF NewLetter, Letter, Applicability, ReplayState
<1>3. letters \in Seq(Letter) /\ Len(letters) = n
  BY <1>1, <1>2
<1>4. /\ listed = [o \in Operator |-> {}] /\ replays = <<>> /\ verdicts \in 0..MaxVerdicts
      /\ beats = <<>> /\ count = n /\ uncounted = [going |-> 0, lost |-> 0]
      /\ elapsed \in MaxSetBack..MaxTime /\ setBack = 0 /\ kills \in 0..MaxKills
      /\ orphans = {} /\ lagged = {}
  BY <1>3 DEF Init, DlqInit
<1>5. Fresh \in [step : Step, now : Nat, beat : Nat] /\ Fresh.step = "clock" /\ Fresh.beat = 0
  BY DEF Fresh, Step
<1>6. sched = [s \in Scheduler |-> Fresh]
  BY DEF Init
<1>7. DlqTypeOK
  BY <1>3, <1>4 DEF DlqTypeOK
<1>8. TypeOK
  <2>1. beats \in Seq(Beat)
    BY <1>4
  <2>2. count \in 0..MaxLetters /\ elapsed \in 0..MaxTime /\ setBack \in 0..MaxSetBack
    BY <1>4
  <2>3. uncounted \in [going : 0..MaxLetters, lost : 0..MaxLetters]
    BY <1>4
  <2>4. sched \in [Scheduler -> [step : Step, now : Nat, beat : Nat]]
    BY <1>5, <1>6
  <2> QED
    BY <1>4, <1>7, <2>1, <2>2, <2>3, <2>4 DEF TypeOK
<1>9. \A s \in Scheduler : sched[s] = Fresh
  BY <1>6
<1>10. LettersInv
  BY <1>3, <1>4 DEF LettersInv
<1>11. TimesInv /\ OwnersInv /\ DeliveryIsTold /\ BeatsKeepTheInterval
  BY <1>4 DEF TimesInv, OwnersInv, DeliveryIsTold, BeatsKeepTheInterval
<1>12. WorkInv /\ ReadingInv /\ RefusedOnlyIfOvertaken
  BY <1>5, <1>9 DEF WorkInv, ReadingInv, RefusedOnlyIfOvertaken, At
<1>13. CountsAreHonest
  BY <1>3, <1>4 DEF CountsAreHonest
<1> QED
  BY <1>8, <1>10, <1>11, <1>12, <1>13 DEF IInv

\* Every step keeps the invariant.
LEMMA NextInv == IInv /\ [Next]_vars => IInv'
<1> SUFFICES ASSUME IInv, [Next]_vars PROVE IInv'
  OBVIOUS
<1>1. TypeOK /\ LettersInv /\ CountsAreHonest
  BY DEF IInv
<1>2. DlqTypeOK' /\ LettersInv'
  BY <1>1, LettersKept
<1>3. /\ beats' \in Seq(Beat) /\ TimesInv' /\ BeatsKeepTheInterval' /\ CountsAreHonest'
  BY RowsKept
<1>4. HeartInv'
  BY HeartKept
<1>5. /\ elapsed' \in 0..MaxTime /\ setBack' \in 0..MaxSetBack /\ count' \in Nat
      /\ uncounted' \in [going : 0..MaxLetters, lost : 0..MaxLetters]
      /\ Len(letters') = count' + uncounted'.going + uncounted'.lost
  BY <1>1, Growing
<1>6. count' \in 0..MaxLetters
  <2>1. uncounted'.going \in Nat /\ uncounted'.lost \in Nat
    BY <1>5
  <2>2. Len(letters') <= MaxLetters /\ Len(letters') \in Nat
    BY <1>2 DEF LettersInv, DlqTypeOK
  <2> QED
    BY <1>5, <2>1, <2>2, BoundsAreNumbers
<1>7. TypeOK'
  BY <1>2, <1>3, <1>4, <1>5, <1>6 DEF TypeOK, HeartInv, HeartTypeOK
<1> QED
  BY <1>2, <1>3, <1>4, <1>7 DEF IInv, HeartInv

\* The invariant holds throughout.
THEOREM Invariant == Spec => []IInv
BY InitInv, NextInv, PTL DEF Spec

\* Every variable keeps its type, for any number of schedulers and operators.
THEOREM TypeCorrect == Spec => []TypeOK
<1>1. IInv => TypeOK
  BY DEF IInv
<1> QED
  BY <1>1, Invariant, PTL

\* Whoever claims heartbeats, and with whatever reading of a clock that may be
\* set back, rows lie an interval apart at least and count the missed ones.
THEOREM RowsKeepTheInterval == Spec => []BeatsKeepTheInterval
<1>1. IInv => BeatsKeepTheInterval
  BY DEF IInv
<1> QED
  BY <1>1, Invariant, PTL

\* mark_heartbeat_delivery() tells what the sink call came to; a row stays
\* pending only under its scheduler's work, after a kill or after a failed mark.
THEOREM RowsTellOfTheSink == Spec => []DeliveryIsTold
<1>1. IInv => DeliveryIsTold
  BY DEF IInv
<1> QED
  BY <1>1, Invariant, PTL

\* The counter lacks only letters whose increment is due or was lost, and no
\* heartbeat counts fewer letters than one before it.
THEOREM CountersAreHonest == Spec => []CountsAreHonest
<1>1. IInv => CountsAreHonest
  BY DEF IInv
<1> QED
  BY <1>1, Invariant, PTL

\* The store's checks of the clock and of the row to be marked refuse a scheduler
\* only when the clock was set back or another wrote a row after it was read.
THEOREM OnlyOvertakenOnesAreRefused == Spec => []RefusedOnlyIfOvertaken
<1>1. IInv => RefusedOnlyIfOvertaken
  BY DEF IInv
<1> QED
  BY <1>1, Invariant, PTL

\* However many operators hold a letter in their lists, mark_replay() lets one
\* of them replay it, and only while its verdict stands.
THEOREM LettersAreReplayedOnce == Spec => ReplayedOnceWhileApplicable
<1>1. IInv /\ [Next]_vars =>
          [\A i \in 1..Len(replays') : i > Len(replays) =>
               /\ letters[replays'[i]].applicability = "APPLICABLE"
               /\ \A j \in 1..Len(replays) : replays[j] # replays'[i]]_dlq
  BY ReplaysOnce DEF IInv
<1> QED
  BY <1>1, Invariant, PTL DEF Spec, ReplayedOnceWhileApplicable

-----------------------------------------------------------------------------
(* RadarRuntime: the invariant.                                            *)

\* A call in progress holds the lock, so there is one at most, and what a thread
\* took from the queue it has until its call ends.
LockInv ==
    /\ \A t \in Thread : call[t] # Idle => holder = t
    /\ holder # Free => call[holder] # Idle
    /\ \A t \in Thread : popped[t] # Idle <=> InPhase(t, "popped")

\* admit works on an envelope; dispatch_next, called from outside, on none.
HandInv ==
    \A t \in Thread :
        call[t] # Idle /\ call[t].phase \in {"accept", "push", "refused", "evicted"} =>
            call[t].envelope \in Envelope

\* Between the push of an urgent envelope and its dispatch.
Serving(t) == InPhase(t, "evicted") \/ (InPhase(t, "pop") /\ call[t].envelope # Idle)

\* As long as no increment failed an urgent envelope is at the head of the queue,
\* it is the one of the call in progress, and that call takes it.
UrgentInv ==
    failures = 0 =>
    /\ \A i \in 1..Len(queue) : Urgent(queue[i]) => i = 1 /\ \E t \in Thread : Serving(t)
    /\ \A t \in Thread : Serving(t) =>
           /\ Urgent(call[t].envelope)
           /\ queue # <<>> /\ queue[1] = call[t].envelope
    /\ \A t \in Thread : InPhase(t, "popped") /\ call[t].envelope # Idle =>
           popped[t] = call[t].envelope

\* A key of the window was queued at the time the window has for it, or is about
\* to be, and a key the window forgot was queued more than a window ago.
WindowInv ==
    /\ \A k \in Key : seen[k] # Never =>
           \/ pushedAt[k] = seen[k]
           \/ \E t \in Thread : InPhase(t, "push") /\ KeyOf[call[t].envelope] = k
    /\ \A t \in Thread : InPhase(t, "push") =>
           LET k == KeyOf[call[t].envelope]
           IN  /\ seen[k] = call[t].now /\ lastNow = call[t].now
               /\ pushedAt[k] # Never => pushedAt[k] + Window < call[t].now
    /\ \A k \in Key : seen[k] = Never /\ pushedAt[k] # Never =>
           lastNow # Never /\ pushedAt[k] + Window < lastNow

RuntimeInv ==
    /\ RuntimeTypeOK
    /\ LockInv
    /\ HandInv
    /\ Accounted
    /\ UrgentInv
    /\ WindowInv

-----------------------------------------------------------------------------
(* Calls and the queue.                                                    *)

\* A call moves on in its phase and keeps its envelope and its time.
LEMMA AdvanceFacts ==
    ASSUME RuntimeTypeOK, NEW t \in Thread, call[t] # Idle, NEW p \in Phase, Advance(t, p)
    PROVE  /\ call' \in [Thread -> Call \cup {Idle}]
           /\ call'[t] # Idle /\ call'[t].phase = p
           /\ call'[t].envelope = call[t].envelope /\ call'[t].now = call[t].now
           /\ \A u \in Thread : u # t => call'[u] = call[u]
<1> DEFINE k == [call[t] EXCEPT !.phase = p]
<1>1. call[t] \in Call
  BY DEF RuntimeTypeOK
<1>2. k \in Call /\ k.phase = p /\ k.envelope = call[t].envelope /\ k.now = call[t].now
  BY <1>1 DEF Call
<1>3. call' = [call EXCEPT ![t] = k]
  BY DEF Advance
<1>4. k # Idle
  BY <1>2, RuntimeSentinels
<1> HIDE DEF k
<1> QED
  BY <1>2, <1>3, <1>4 DEF RuntimeTypeOK

\* A call begins.
LEMMA EnterFacts ==
    ASSUME RuntimeTypeOK, NEW t \in Thread, NEW c \in Call, call' = [call EXCEPT ![t] = c]
    PROVE  /\ call' \in [Thread -> Call \cup {Idle}]
           /\ call'[t] # Idle /\ call'[t] = c
           /\ \A u \in Thread : u # t => call'[u] = call[u]
<1>1. c # Idle
  BY RuntimeSentinels
<1> QED
  BY <1>1 DEF RuntimeTypeOK

\* A call ends.
LEMMA LeaveFacts ==
    ASSUME RuntimeTypeOK, NEW t \in Thread, Leave(t)
    PROVE  /\ call' \in [Thread -> Call \cup {Idle}]
           /\ call'[t] = Idle /\ holder' = Free
           /\ \A u \in Thread : u # t => call'[u] = call[u]
BY DEF RuntimeTypeOK, Leave

\* While a call is in progress all other threads are out.
LEMMA OneCall ==
    ASSUME RuntimeTypeOK, LockInv, NEW t \in Thread, call[t] # Idle
    PROVE  /\ holder = t
           /\ \A u \in Thread : u # t => call[u] = Idle /\ popped[u] = Idle
<1>1. holder = t
  BY DEF LockInv
<1>2. \A u \in Thread : u # t => call[u] = Idle
  BY <1>1 DEF LockInv
<1> QED
  BY <1>1, <1>2 DEF LockInv, InPhase

\* While nobody holds the lock all threads are out.
LEMMA NoCall ==
    ASSUME RuntimeTypeOK, LockInv, holder = Free
    PROVE  \A u \in Thread : call[u] = Idle /\ popped[u] = Idle
<1>1. \A u \in Thread : call[u] = Idle
  BY RuntimeSentinels DEF LockInv
<1> QED
  BY <1>1 DEF LockInv, InPhase

\* One call has one envelope in hand, or none.
LEMMA HandCount ==
    ASSUME NEW c \in [Thread -> Call \cup {Idle}], NEW t \in Thread,
           \A u \in Thread : u # t => c[u] = Idle
    PROVE  LET S == {u \in Thread : c[u] # Idle /\ c[u].phase # "pop"}
           IN  /\ c[t] = Idle \/ c[t].phase = "pop" => Cardinality(S) = 0
               /\ ~(c[t] = Idle \/ c[t].phase = "pop") => Cardinality(S) = 1
<1> DEFINE S == {u \in Thread : c[u] # Idle /\ c[u].phase # "pop"}
<1>1. CASE c[t] = Idle \/ c[t].phase = "pop"
  <2>1. S = {}
    BY <1>1
  <2> QED
    BY <1>1, <2>1, FS_EmptySet
<1>2. CASE ~(c[t] = Idle \/ c[t].phase = "pop")
  <2>1. S = {t}
    BY <1>2
  <2> QED
    BY <1>2, <2>1, FS_Singleton
<1> QED
  BY <1>1, <1>2

\* No call has no envelope in hand.
LEMMA EmptyHandCount ==
    ASSUME NEW c, \A u \in Thread : c[u] = Idle
    PROVE  Cardinality({u \in Thread : c[u] # Idle /\ c[u].phase # "pop"}) = 0
<1>1. {u \in Thread : c[u] # Idle /\ c[u].phase # "pop"} = {}
  OBVIOUS
<1> QED
  BY <1>1, FS_EmptySet

\* The place of an envelope is in the queue or right behind it.
LEMMA PlaceInQueue ==
    ASSUME NEW q \in Seq(Envelope), NEW e \in Envelope
    PROVE  Place(q, e) \in 0..Len(q)
<1> DEFINE S == {i \in DOMAIN q : PriorityOf[q[i]] <= PriorityOf[e]}
<1>1. Len(q) \in Nat /\ DOMAIN q = 1..Len(q)
  OBVIOUS
<1>2. IsFiniteSet(1..Len(q)) /\ Cardinality(1..Len(q)) = Len(q)
  <2>1. Cardinality(1..Len(q)) = IF 1 > Len(q) THEN 0 ELSE Len(q) - 1 + 1
    BY <1>1, FS_Interval
  <2> QED
    BY <1>1, <2>1, FS_Interval
<1>3. S \subseteq 1..Len(q)
  BY <1>1
<1>4. IsFiniteSet(S) /\ Cardinality(S) <= Cardinality(1..Len(q))
  BY <1>2, <1>3, FS_Subset
<1>5. Cardinality(S) \in Nat
  BY <1>4, FS_CardinalityType
<1> QED
  BY <1>1, <1>2, <1>4, <1>5 DEF Place

\* An insertion adds one envelope and keeps the others.
LEMMA InsertFacts ==
    ASSUME NEW q \in Seq(Envelope), NEW e \in Envelope
    PROVE  /\ Insert(q, e) \in Seq(Envelope)
           /\ Len(Insert(q, e)) = Len(q) + 1
           /\ \A i \in 1..(Len(q) + 1) :
                  Insert(q, e)[i] = e \/ \E j \in 1..Len(q) : Insert(q, e)[i] = q[j]
<1> DEFINE n == Place(q, e)
           a == SubSeq(q, 1, n)
           b == SubSeq(q, n + 1, Len(q))
<1>1. n \in 0..Len(q) /\ Len(q) \in Nat
  BY PlaceInQueue
<1>2. Insert(q, e) = a \o <<e>> \o b
  BY DEF Insert
<1> HIDE DEF n
<1>3. /\ a \in Seq(Envelope) /\ Len(a) = n
      /\ \A i \in 1..n : a[i] = q[i]
  BY <1>1
<1>4. /\ b \in Seq(Envelope) /\ Len(b) = Len(q) - n
      /\ \A i \in 1..(Len(q) - n) : b[i] = q[n + i]
  BY <1>1
<1> HIDE DEF a, b
<1> DEFINE c == a \o <<e>>
<1>5. /\ c \in Seq(Envelope) /\ Len(c) = n + 1
      /\ c[n + 1] = e /\ \A i \in 1..n : c[i] = a[i]
  BY <1>1, <1>3
<1> HIDE DEF c
<1>6. c \o b \in Seq(Envelope) /\ Len(c \o b) = Len(q) + 1
  <2>1. b \in Seq(Envelope) /\ c \in Seq(Envelope)
    BY <1>4, <1>5
  <2>2. c \o b \in Seq(Envelope) /\ Len(c \o b) = Len(c) + Len(b)
    BY <2>1
  <2> QED
    BY <1>1, <1>4, <1>5, <2>2
<1>7. \A i \in 1..(Len(q) + 1) : (c \o b)[i] = IF i <= n + 1 THEN c[i] ELSE b[i - (n + 1)]
  BY <1>1, <1>4, <1>5
<1>8. ASSUME NEW i \in 1..(Len(q) + 1)
      PROVE  (c \o b)[i] = e \/ \E j \in 1..Len(q) : (c \o b)[i] = q[j]
  <2>1. CASE i <= n
    <3>1. (c \o b)[i] = q[i] /\ i \in 1..Len(q)
      BY <1>1, <1>3, <1>5, <1>7, <2>1
    <3> QED
      BY <3>1
  <2>2. CASE i = n + 1
    BY <1>1, <1>5, <1>7, <2>2
  <2>3. CASE i > n + 1
    <3>1. i - (n + 1) \in 1..(Len(q) - n) /\ ~(i <= n + 1)
      BY <1>1, <2>3
    <3>2. (c \o b)[i] = q[n + (i - (n + 1))]
      BY <1>4, <1>7, <3>1
    <3>3. n + (i - (n + 1)) \in 1..Len(q)
      BY <1>1, <3>1
    <3> QED
      BY <3>2, <3>3
  <2>4. i <= n \/ i = n + 1 \/ i > n + 1
    BY <1>1
  <2> QED
    BY <2>1, <2>2, <2>3, <2>4
<1>9. Insert(q, e) = c \o b
  BY <1>2 DEF c
<1> QED
  BY <1>6, <1>8, <1>9

\* An urgent envelope goes to the head of a queue that holds no other.
LEMMA UrgentGoesFirst ==
    ASSUME NEW q \in Seq(Envelope), NEW e \in Envelope, Urgent(e),
           \A i \in 1..Len(q) : ~Urgent(q[i])
    PROVE  /\ Insert(q, e)[1] = e
           /\ \A i \in 1..(Len(q) + 1) : i # 1 => ~Urgent(Insert(q, e)[i])
<1>1. Len(q) \in Nat /\ DOMAIN q = 1..Len(q)
  OBVIOUS
<1>2. {i \in DOMAIN q : PriorityOf[q[i]] <= PriorityOf[e]} = {}
  <2>1. ASSUME NEW i \in 1..Len(q)
        PROVE  ~(PriorityOf[q[i]] <= PriorityOf[e])
    <3>1. q[i] \in Envelope
      OBVIOUS
    <3>2. PriorityOf[q[i]] \in 0..4 /\ PriorityOf[q[i]] # 0 /\ PriorityOf[e] = 0
      BY <3>1, EnvelopesClassified DEF Urgent
    <3> QED
      BY <3>2
  <2> QED
    BY <1>1, <2>1
<1>3. Place(q, e) = 0
  BY <1>2, FS_EmptySet DEF Place
<1>4. Insert(q, e) = SubSeq(q, 1, 0) \o <<e>> \o SubSeq(q, 1, Len(q))
  BY <1>3 DEF Insert
<1> DEFINE a == SubSeq(q, 1, 0)
           b == SubSeq(q, 1, Len(q))
<1>5. a = <<>>
  OBVIOUS
<1>6. b \in Seq(Envelope) /\ Len(b) = Len(q) /\ \A i \in 1..Len(q) : b[i] = q[i]
  BY <1>1
<1> HIDE DEF a, b
<1>7. a \o <<e>> = <<e>>
  BY <1>5
<1>8. /\ Len(<<e>> \o b) = Len(q) + 1 /\ (<<e>> \o b)[1] = e
      /\ \A i \in 1..(Len(q) + 1) : i # 1 => (<<e>> \o b)[i] = b[i - 1]
  BY <1>1, <1>6
<1>9. Insert(q, e) = <<e>> \o b
  BY <1>4, <1>7 DEF a, b
<1>10. ASSUME NEW i \in 1..(Len(q) + 1), i # 1
       PROVE  ~Urgent(Insert(q, e)[i])
  <2>1. i - 1 \in 1..Len(q)
    BY <1>1, <1>10
  <2>2. Insert(q, e)[i] = q[i - 1]
    BY <1>6, <1>8, <1>9, <1>10, <2>1
  <2> QED
    BY <2>1, <2>2
<1> QED
  BY <1>8, <1>9, <1>10

-----------------------------------------------------------------------------
(* What the steps do.                                                      *)

\* PriorityQueue.push refuses, evicts the last for an urgent envelope, or finds
\* room; the queue grows only in the last case.
LEMMA PushCases ==
    ASSUME RuntimeTypeOK, HandInv, NEW t \in Thread, Push(t),
           NEW e, e = call[t].envelope, NEW k, k = KeyOf[e]
    PROVE  /\ call[t] # Idle /\ call[t] \in Call /\ e \in Envelope /\ k \in Key
           /\ UNCHANGED <<lastNow, counters, popped, clock, failures, offered, raised>>
           /\ \/ /\ seen' = [seen EXCEPT ![k] = IF seen[k] = call[t].now THEN Never ELSE seen[k]]
                 /\ Advance(t, "refused")
                 /\ UNCHANGED <<queue, holder, pushedAt>>
              \/ /\ seen' = seen
                 /\ pushedAt' = [pushedAt EXCEPT ![k] = call[t].now]
                 /\ queue' \in Seq(Envelope) /\ Len(queue') <= MaxSize
                 /\ \/ /\ Full /\ Urgent(e) /\ Advance(t, "evicted") /\ UNCHANGED holder
                       /\ queue' = Insert(SubSeq(queue, 1, Len(queue) - 1), e)
                       /\ Len(queue') = Len(queue)
                    \/ /\ ~Full /\ queue' = Insert(queue, e)
                       /\ Len(queue') = Len(queue) + 1
                       /\ \/ Urgent(e) /\ Advance(t, "pop") /\ UNCHANGED holder
                          \/ ~Urgent(e) /\ Leave(t)
<1>1. call[t] # Idle /\ call[t].phase = "push"
  BY DEF Push, InPhase
<1>2. call[t] \in Call /\ e \in Envelope /\ k \in Key
  BY <1>1, EnvelopesClassified DEF RuntimeTypeOK, HandInv
<1>3. UNCHANGED <<lastNow, counters, popped, clock, failures, offered, raised>>
  BY DEF Push
<1>4. queue \in Seq(Envelope) /\ Len(queue) <= MaxSize /\ Len(queue) \in Nat /\ MaxSize \in Nat \ {0}
  BY QueueSizes DEF RuntimeTypeOK
<1>5. CASE Overflows(e)
  <2>1. seen' = RollbackAccept(k, call[t].now) /\ Advance(t, "refused")
    BY <1>5 DEF Push
  <2>2. UNCHANGED <<queue, holder, pushedAt>>
    BY <1>5 DEF Push
  <2> QED
    BY <1>1, <1>2, <1>3, <2>1, <2>2 DEF RollbackAccept
<1>6. CASE ~Overflows(e)
  <2>1. pushedAt' = [pushedAt EXCEPT ![k] = call[t].now] /\ seen' = seen
    BY <1>6 DEF Push
  <2>2. CASE Full
    <3>1. Urgent(e) /\ Len(queue) = MaxSize
      BY <1>4, <1>6, <2>2 DEF Overflows, Full
    <3> DEFINE q == SubSeq(queue, 1, Len(queue) - 1)
    <3>2. q \in Seq(Envelope) /\ Len(q) = Len(queue) - 1
      BY <1>4, <3>1
    <3>3. queue' = Insert(q, e)
      BY <1>6, <2>2 DEF Push
    <3> HIDE DEF q
    <3>4. queue' \in Seq(Envelope) /\ Len(queue') = Len(q) + 1
      BY <1>2, <3>2, <3>3, InsertFacts
    <3>5. Len(queue') = Len(queue)
      BY <1>4, <3>2, <3>4
    <3>6. Advance(t, "evicted") /\ UNCHANGED holder
      BY <1>6, <2>2 DEF Push
    <3> QED
      BY <1>1, <1>2, <1>3, <1>4, <2>1, <2>2, <3>1, <3>3, <3>4, <3>5, <3>6 DEF q
  <2>3. CASE ~Full
    <3>1. Len(queue) < MaxSize
      BY <1>4, <2>3 DEF Full
    <3>2. queue' = Insert(queue, e)
      BY <1>6, <2>3 DEF Push
    <3>3. queue' \in Seq(Envelope) /\ Len(queue') = Len(queue) + 1
      BY <1>2, <1>4, <3>2, InsertFacts
    <3>4. Len(queue') <= MaxSize
      BY <1>4, <3>1, <3>3
    <3>5. Urgent(e) => Advance(t, "pop") /\ UNCHANGED holder
      BY <1>6, <2>3 DEF Push
    <3>6. ~Urgent(e) => Leave(t)
      BY <1>6, <2>3 DEF Push
    <3> QED
      BY <1>1, <1>2, <1>3, <2>1, <2>3, <3>2, <3>3, <3>4, <3>5, <3>6
  <2> QED
    BY <2>2, <2>3
<1> QED
  BY <1>5, <1>6

\* Steps by the kind of their effect on the calls: none, a call begins, moves on
\* or ends.  A thread has taken an envelope exactly while it is in "popped".
LEMMA LockStep ==
    ASSUME RuntimeTypeOK, LockInv, HandInv, [RuntimeNext]_runtimeVars
    PROVE  /\ call' \in [Thread -> Call \cup {Idle}]
           /\ popped' \in [Thread -> Envelope \cup {Idle}]
           /\ holder' \in Thread \cup {Free}
           /\ LockInv' /\ HandInv'
<1>1. CASE UNCHANGED <<holder, call, popped>>
  BY <1>1 DEF RuntimeTypeOK, LockInv, HandInv, InPhase
<1>2. ASSUME NEW t \in Thread, NEW c \in Call, LockIsFree, holder' = t, popped' = popped,
             call' = [call EXCEPT ![t] = c], c.phase # "popped",
             c.envelope \in Envelope \/ c.phase = "pop"
      PROVE  /\ call' \in [Thread -> Call \cup {Idle}]
             /\ popped' \in [Thread -> Envelope \cup {Idle}]
             /\ holder' \in Thread \cup {Free}
             /\ LockInv' /\ HandInv'
  <2>1. \A u \in Thread : call[u] = Idle /\ popped[u] = Idle
    BY <1>2, NoCall DEF LockIsFree
  <2>2. /\ call' \in [Thread -> Call \cup {Idle}]
        /\ call'[t] # Idle /\ call'[t] = c
        /\ \A u \in Thread : u # t => call'[u] = call[u]
    BY <1>2, EnterFacts
  <2>3. LockInv'
    BY <1>2, <2>1, <2>2 DEF LockInv, InPhase
  <2>4. HandInv'
    BY <1>2, <2>1, <2>2 DEF HandInv
  <2> QED
    BY <1>2, <2>2, <2>3, <2>4 DEF RuntimeTypeOK
<1>3. ASSUME NEW t \in Thread, NEW p \in Phase, call[t] # Idle, Advance(t, p), holder' = holder,
             call[t].phase # "popped", p # "popped", popped' = popped,
             call[t].envelope \in Envelope
      PROVE  /\ call' \in [Thread -> Call \cup {Idle}]
             /\ popped' \in [Thread -> Envelope \cup {Idle}]
             /\ holder' \in Thread \cup {Free}
             /\ LockInv' /\ HandInv'
  <2>1. /\ call' \in [Thread -> Call \cup {Idle}]
        /\ call'[t] # Idle /\ call'[t].phase = p
        /\ call'[t].envelope = call[t].envelope /\ call'[t].now = call[t].now
        /\ \A u \in Thread : u # t => call'[u] = call[u]
    BY <1>3, AdvanceFacts
  <2>2. LockInv'
    BY <1>3, <2>1 DEF LockInv, InPhase
  <2>3. HandInv'
    BY <1>3, <2>1 DEF HandInv
  <2> QED
    BY <1>3, <2>1, <2>2, <2>3 DEF RuntimeTypeOK
<1>4. ASSUME NEW t \in Thread, call[t] # Idle, Leave(t),
             \/ popped' = [popped EXCEPT ![t] = Idle]
             \/ popped' = popped /\ call[t].phase # "popped"
      PROVE  /\ call' \in [Thread -> Call \cup {Idle}]
             /\ popped' \in [Thread -> Envelope \cup {Idle}]
             /\ holder' \in Thread \cup {Free}
             /\ LockInv' /\ HandInv'
  <2>1. \A u \in Thread : u # t => call[u] = Idle /\ popped[u] = Idle
    BY <1>4, OneCall
  <2>2. /\ call' \in [Thread -> Call \cup {Idle}]
        /\ call'[t] = Idle /\ holder' = Free
        /\ \A u \in Thread : u # t => call'[u] = call[u]
    BY <1>4, LeaveFacts
  <2>3. \A u \in Thread : call'[u] = Idle
    BY <2>1, <2>2
  <2>4. popped' \in [Thread -> Envelope \cup {Idle}] /\ popped'[t] = Idle
    BY <1>4 DEF RuntimeTypeOK, LockInv, InPhase
  <2>5. \A u \in Thread : popped'[u] = Idle
    BY <1>4, <2>1, <2>4
  <2> QED
    BY <2>2, <2>3, <2>4, <2>5 DEF LockInv, HandInv, InPhase
<1>5. ASSUME RecordDeadLetter \/ \E counted \in BOOLEAN : CountDeadLetter(counted)
      PROVE  UNCHANGED <<holder, call, popped>>
  BY <1>5 DEF RecordDeadLetter, CountDeadLetter
<1>6. ASSUME NEW counted \in BOOLEAN, AdmitRejected(counted)
      PROVE  UNCHANGED <<holder, call, popped>>
  BY <1>6 DEF AdmitRejected
<1>7. CASE \E t \in Thread, e \in Envelope, now \in 0..clock : Admit(t, e, now)
  <2>1. PICK t \in Thread, e \in Envelope, now \in 0..clock : Admit(t, e, now)
    BY <1>7
  <2> DEFINE c == [phase |-> "accept", envelope |-> e, now |-> now]
  <2>2. now \in Nat
    BY DEF RuntimeTypeOK
  <2>3. c \in Call /\ c.phase = "accept" /\ c.envelope = e
    BY <2>2 DEF Call, Phase
  <2>4. LockIsFree /\ holder' = t /\ popped' = popped /\ call' = [call EXCEPT ![t] = c]
    BY <2>1 DEF Admit
  <2> HIDE DEF c
  <2> QED
    BY <1>2, <2>3, <2>4
<1>8. CASE \E t \in Thread, now \in 0..clock : Dispatch(t, now)
  <2>1. PICK t \in Thread, now \in 0..clock : Dispatch(t, now)
    BY <1>8
  <2> DEFINE c == [phase |-> "pop", envelope |-> Idle, now |-> now]
  <2>2. now \in Nat
    BY DEF RuntimeTypeOK
  <2>3. c \in Call /\ c.phase = "pop"
    BY <2>2 DEF Call, Phase
  <2>4. LockIsFree /\ holder' = t /\ popped' = popped /\ call' = [call EXCEPT ![t] = c]
    BY <2>1 DEF Dispatch
  <2> HIDE DEF c
  <2> QED
    BY <1>2, <2>3, <2>4
<1>9. ASSUME NEW t \in Thread, Accept(t)
      PROVE  /\ call' \in [Thread -> Call \cup {Idle}]
             /\ popped' \in [Thread -> Envelope \cup {Idle}]
             /\ holder' \in Thread \cup {Free}
             /\ LockInv' /\ HandInv'
  <2>1. call[t] # Idle /\ call[t].phase = "accept" /\ call[t].envelope \in Envelope
    BY <1>9 DEF Accept, InPhase, HandInv
  <2>2. (Advance(t, "refused") \/ Advance(t, "push")) /\ holder' = holder /\ popped' = popped
    BY <1>9 DEF Accept
  <2>3. "refused" \in Phase /\ "push" \in Phase
    BY DEF Phase
  <2> QED
    BY <1>3, <2>1, <2>2, <2>3
<1>10. ASSUME NEW t \in Thread, ClockRegression(t)
       PROVE  Leave(t) /\ call[t] # Idle /\ popped' = popped /\ call[t].phase # "popped"
  BY <1>10 DEF ClockRegression, InPhase
<1>11. ASSUME NEW t \in Thread, Push(t)
       PROVE  /\ call' \in [Thread -> Call \cup {Idle}]
              /\ popped' \in [Thread -> Envelope \cup {Idle}]
              /\ holder' \in Thread \cup {Free}
              /\ LockInv' /\ HandInv'
  <2>1. call[t] # Idle /\ call[t].phase = "push" /\ call[t].envelope \in Envelope
    BY <1>11 DEF Push, InPhase, HandInv
  <2>2. /\ popped' = popped
        /\ \/ (Advance(t, "refused") \/ Advance(t, "evicted") \/ Advance(t, "pop")) /\ holder' = holder
           \/ Leave(t)
    BY <1>11, PushCases
  <2>3. {"refused", "evicted", "pop"} \subseteq Phase
    BY DEF Phase
  <2> QED
    BY <1>3, <1>4, <2>1, <2>2, <2>3
<1>12. ASSUME NEW t \in Thread, CountRefusal(t)
       PROVE  Leave(t) /\ call[t] # Idle /\ popped' = popped /\ call[t].phase # "popped"
  BY <1>12 DEF CountRefusal, InPhase
<1>13. ASSUME NEW t \in Thread, CountEviction(t)
       PROVE  /\ call' \in [Thread -> Call \cup {Idle}]
              /\ popped' \in [Thread -> Envelope \cup {Idle}]
              /\ holder' \in Thread \cup {Free}
              /\ LockInv' /\ HandInv'
  <2>1. call[t] # Idle /\ call[t].phase = "evicted" /\ call[t].envelope \in Envelope
    BY <1>13 DEF CountEviction, InPhase, HandInv
  <2>2. Advance(t, "pop") /\ holder' = holder /\ popped' = popped /\ "pop" \in Phase
    BY <1>13 DEF CountEviction, Phase
  <2> QED
    BY <1>3, <2>1, <2>2
<1>14. ASSUME NEW t \in Thread, Pop(t)
       PROVE  /\ call' \in [Thread -> Call \cup {Idle}]
              /\ popped' \in [Thread -> Envelope \cup {Idle}]
              /\ holder' \in Thread \cup {Free}
              /\ LockInv' /\ HandInv'
  <2>1. call[t] # Idle /\ Advance(t, "popped") /\ "popped" \in Phase
    BY <1>14 DEF Pop, InPhase, Phase
  <2>2. /\ call' \in [Thread -> Call \cup {Idle}]
        /\ call'[t] # Idle /\ call'[t].phase = "popped"
        /\ \A u \in Thread : u # t => call'[u] = call[u]
    BY <2>1, AdvanceFacts
  <2>3. holder' = holder /\ popped' = [popped EXCEPT ![t] = queue[1]] /\ queue # <<>>
    BY <1>14 DEF Pop
  <2>4. queue[1] \in Envelope /\ queue[1] # Idle
    BY <2>3, RuntimeSentinels DEF RuntimeTypeOK
  <2>5. /\ popped' \in [Thread -> Envelope \cup {Idle}] /\ popped'[t] # Idle
        /\ \A u \in Thread : u # t => popped'[u] = popped[u]
    BY <2>3, <2>4 DEF RuntimeTypeOK
  <2>6. LockInv'
    BY <2>1, <2>2, <2>3, <2>5 DEF LockInv, InPhase
  <2>7. HandInv'
    BY <2>2 DEF HandInv
  <2> QED
    BY <2>2, <2>3, <2>5, <2>6, <2>7 DEF RuntimeTypeOK
<1>15. ASSUME NEW t \in Thread, NEW hasRoute \in BOOLEAN, CountDispatch(t, hasRoute)
       PROVE  Leave(t) /\ call[t] # Idle /\ popped' = [popped EXCEPT ![t] = Idle]
  BY <1>15 DEF CountDispatch, InPhase
<1>16. ASSUME NEW t \in Thread, IncrementRaises(t)
       PROVE  Leave(t) /\ call[t] # Idle /\ popped' = [popped EXCEPT ![t] = Idle]
  BY <1>16 DEF IncrementRaises
<1>17. ClockAdvances \/ UNCHANGED runtimeVars => UNCHANGED <<holder, call, popped>>
  BY DEF ClockAdvances, runtimeVars
<1> QED
  BY <1>1, <1>4, <1>5, <1>6, <1>7, <1>8, <1>9, <1>10, <1>11, <1>12, <1>13, <1>14, <1>15, <1>16, <1>17
     DEF RuntimeNext

\* The queue, the window, the counters and the histories keep their types.
LEMMA RuntimeTypeStep ==
    ASSUME RuntimeTypeOK, LockInv, HandInv, [RuntimeNext]_runtimeVars
    PROVE  RuntimeTypeOK'
<1> DEFINE Memory == /\ queue \in Seq(Envelope) /\ Len(queue) <= MaxSize
                     /\ seen \in [Key -> Nat \cup {Never}]
                     /\ lastNow \in Nat \cup {Never}
                     /\ pushedAt \in [Key -> Nat \cup {Never}]
           Counts == /\ routed \in Nat /\ dropped \in Nat /\ deadLettered \in Nat
                     /\ recorded \in Nat /\ letterDue \in Nat /\ clock \in Nat
                     /\ failures \in Nat
                     /\ offered \in Nat /\ raised \in Nat
<1>1. Memory /\ Counts
  BY DEF RuntimeTypeOK
<1>2. SUFFICES Memory' /\ Counts'
  BY LockStep DEF RuntimeTypeOK
<1>3. CASE UNCHANGED <<memory, pushedAt>> /\ Counts'
  BY <1>1, <1>3 DEF memory
<1>4. ASSUME RecordDeadLetter \/ \E counted \in BOOLEAN : CountDeadLetter(counted)
      PROVE  UNCHANGED <<memory, pushedAt>> /\ Counts'
  <2>1. CASE RecordDeadLetter
    BY <1>1, <2>1 DEF RecordDeadLetter, ghosts
  <2>2. ASSUME NEW counted \in BOOLEAN, CountDeadLetter(counted)
        PROVE  UNCHANGED <<memory, pushedAt>> /\ Counts'
    <3>1. UNCHANGED <<memory, routed, dropped, recorded, clock, ghosts>>
      BY <2>2 DEF CountDeadLetter
    <3>2. /\ letterDue > 0 /\ letterDue' = letterDue - 1
          /\ \/ deadLettered' = deadLettered + 1 /\ failures' = failures
             \/ deadLettered' = deadLettered /\ failures' = failures + 1
      BY <2>2 DEF CountDeadLetter
    <3> QED
      BY <1>1, <3>1, <3>2 DEF ghosts
  <2> QED
    BY <1>4, <2>1, <2>2
<1>5. ASSUME NEW counted \in BOOLEAN, AdmitRejected(counted)
      PROVE  UNCHANGED <<memory, pushedAt>> /\ Counts'
  BY <1>1, <1>5 DEF AdmitRejected
<1>6. ASSUME NEW t \in Thread, NEW e \in Envelope, NEW now \in 0..clock, Admit(t, e, now)
      PROVE  UNCHANGED <<memory, pushedAt>> /\ Counts'
  BY <1>1, <1>6 DEF Admit, counters
<1>7. ASSUME NEW t \in Thread, Accept(t)
      PROVE  Memory' /\ Counts'
  <2> DEFINE now == call[t].now
             k == KeyOf[call[t].envelope]
  <2>1. now \in Nat
    BY <1>7 DEF Accept, InPhase, RuntimeTypeOK, Call
  <2>2. /\ lastNow' = now
        /\ \/ seen' = seen
           \/ seen' = [x \in Key |-> IF x = k THEN now
                          ELSE IF Forgotten(seen[x], now) THEN Never ELSE seen[x]]
    BY <1>7 DEF Accept
  <2>3. UNCHANGED <<queue, counters, clock, failures, ghosts>>
    BY <1>7 DEF Accept
  <2> HIDE DEF now, k
  <2>4. seen' \in [Key -> Nat \cup {Never}]
    BY <1>1, <2>1, <2>2
  <2> QED
    BY <1>1, <2>1, <2>2, <2>3, <2>4 DEF counters, ghosts
<1>8. ASSUME NEW t \in Thread, ClockRegression(t)
      PROVE  UNCHANGED <<memory, pushedAt>> /\ Counts'
  BY <1>1, <1>8 DEF ClockRegression, counters
<1>9. ASSUME NEW t \in Thread, Push(t)
      PROVE  Memory' /\ Counts'
  <2> DEFINE now == call[t].now
             k == KeyOf[call[t].envelope]
  <2>1. /\ call[t] \in Call
        /\ UNCHANGED <<lastNow, counters, clock, failures, offered, raised>>
        /\ \/ /\ seen' = [seen EXCEPT ![k] = IF seen[k] = now THEN Never ELSE seen[k]]
              /\ UNCHANGED <<queue, pushedAt>>
           \/ /\ seen' = seen
              /\ pushedAt' = [pushedAt EXCEPT ![k] = now]
              /\ queue' \in Seq(Envelope) /\ Len(queue') <= MaxSize
    BY <1>9, PushCases
  <2>2. now \in Nat
    BY <2>1 DEF Call
  <2> HIDE DEF now, k
  <2>3. Counts'
    BY <1>1, <2>1 DEF counters
  <2>4. Memory'
    BY <1>1, <2>1, <2>2
  <2> QED
    BY <2>3, <2>4
<1>10. ASSUME NEW t \in Thread, CountRefusal(t)
       PROVE  UNCHANGED <<memory, pushedAt>> /\ Counts'
  BY <1>1, <1>10 DEF CountRefusal, ghosts
<1>11. ASSUME NEW t \in Thread, CountEviction(t)
       PROVE  UNCHANGED <<memory, pushedAt>> /\ Counts'
  BY <1>1, <1>11 DEF CountEviction, CountDrop, ghosts
<1>12. ASSUME NEW t \in Thread, NEW now \in 0..clock, Dispatch(t, now)
       PROVE  UNCHANGED <<memory, pushedAt>> /\ Counts'
  BY <1>1, <1>12 DEF Dispatch, counters, ghosts
<1>13. ASSUME NEW t \in Thread, Pop(t)
       PROVE  Memory' /\ Counts'
  <2>1. /\ queue # <<>> /\ queue' = Tail(queue)
        /\ UNCHANGED <<seen, lastNow, counters, clock, failures, ghosts>>
    BY <1>13 DEF Pop
  <2>2. queue' \in Seq(Envelope) /\ Len(queue') = Len(queue) - 1
    BY <1>1, <2>1
  <2>3. Len(queue') <= MaxSize
    BY <1>1, <2>2, QueueSizes
  <2> QED
    BY <1>1, <2>1, <2>2, <2>3 DEF counters, ghosts
<1>14. ASSUME NEW t \in Thread, NEW hasRoute \in BOOLEAN, CountDispatch(t, hasRoute)
       PROVE  UNCHANGED <<memory, pushedAt>> /\ Counts'
  BY <1>1, <1>14 DEF CountDispatch, ghosts
<1>15. ASSUME NEW t \in Thread, IncrementRaises(t)
       PROVE  UNCHANGED <<memory, pushedAt>> /\ Counts'
  BY <1>1, <1>15 DEF IncrementRaises, counters
<1>16. ClockAdvances => UNCHANGED <<memory, pushedAt>> /\ Counts'
  BY <1>1 DEF ClockAdvances, counters, ghosts
<1>17. UNCHANGED runtimeVars => UNCHANGED <<memory, pushedAt>> /\ Counts'
  BY <1>1 DEF runtimeVars, counters, ghosts
<1> HIDE DEF Memory, Counts
<1> QED
  BY <1>3, <1>4, <1>5, <1>6, <1>7, <1>8, <1>9, <1>10, <1>11, <1>12, <1>13, <1>14, <1>15, <1>16, <1>17
     DEF RuntimeNext

\* What changes the sum changes both sides of it by one.
LEMMA AccountedStep ==
    ASSUME RuntimeTypeOK, LockInv, HandInv, Accounted, [RuntimeNext]_runtimeVars
    PROVE  Accounted'
<1> DEFINE h == Cardinality(InHand)
           n == Len(queue)
<1>1. /\ routed \in Nat /\ dropped \in Nat /\ deadLettered \in Nat /\ recorded \in Nat
      /\ letterDue \in Nat /\ failures \in Nat /\ offered \in Nat /\ raised \in Nat /\ n \in Nat
  BY DEF RuntimeTypeOK
<1>2. /\ offered = routed + dropped + n + h + raised
      /\ deadLettered + letterDue <= recorded
      /\ recorded <= deadLettered + letterDue + failures
  BY DEF Accounted
<1>3. call' \in [Thread -> Call \cup {Idle}] /\ LockInv'
  BY LockStep
\* The number in hand, by what happens to the call.
<1>4. ASSUME NEW t \in Thread, call[t] = Idle, holder = Free
      PROVE  h = 0
  <2>1. \A u \in Thread : call[u] = Idle
    BY <1>4, NoCall
  <2> QED
    BY <2>1, EmptyHandCount DEF InHand
<1>5. ASSUME NEW t \in Thread, call[t] # Idle
      PROVE  h = IF call[t].phase = "pop" THEN 0 ELSE 1
  <2>1. \A u \in Thread : u # t => call[u] = Idle
    BY <1>5, OneCall
  <2>2. call \in [Thread -> Call \cup {Idle}]
    BY DEF RuntimeTypeOK
  <2> QED
    BY <1>5, <2>1, <2>2, HandCount DEF InHand
<1>6. ASSUME NEW t \in Thread, Leave(t), call[t] # Idle
      PROVE  h' = 0
  <2>1. \A u \in Thread : u # t => call[u] = Idle
    BY <1>6, OneCall
  <2>2. \A u \in Thread : call'[u] = Idle
    BY <1>6, <2>1, LeaveFacts
  <2> QED
    BY <2>2, EmptyHandCount DEF InHand
<1>7. ASSUME NEW t \in Thread, NEW p \in Phase, Advance(t, p), call[t] # Idle
      PROVE  h' = IF p = "pop" THEN 0 ELSE 1
  <2>1. \A u \in Thread : u # t => call[u] = Idle
    BY <1>7, OneCall
  <2>2. call'[t] # Idle /\ call'[t].phase = p /\ \A u \in Thread : u # t => call'[u] = Idle
    BY <1>7, <2>1, AdvanceFacts
  <2> QED
    BY <1>3, <2>2, HandCount DEF InHand
<1>8. ASSUME NEW t \in Thread, NEW c \in Call, LockIsFree, call' = [call EXCEPT ![t] = c]
      PROVE  h = 0 /\ h' = IF c.phase = "pop" THEN 0 ELSE 1
  <2>1. \A u \in Thread : call[u] = Idle
    BY <1>8, NoCall DEF LockIsFree
  <2>2. h = 0
    BY <2>1, EmptyHandCount DEF InHand
  <2>3. call'[t] # Idle /\ call'[t] = c /\ \A u \in Thread : u # t => call'[u] = Idle
    BY <1>8, <2>1, EnterFacts
  <2> QED
    BY <1>3, <2>2, <2>3, HandCount DEF InHand
<1>9. h = 0 \/ h = 1
  <2>1. CASE \A u \in Thread : call[u] = Idle
    BY <2>1, EmptyHandCount DEF InHand
  <2>2. CASE \E u \in Thread : call[u] # Idle
    BY <1>5, <2>2
  <2> QED
    BY <2>1, <2>2
<1>10. UNCHANGED call => h' = h
  BY DEF InHand
<1> HIDE DEF h, n
<1> DEFINE Goal == /\ offered' = routed' + dropped' + n' + h' + raised'
                   /\ deadLettered' + letterDue' <= recorded'
                   /\ recorded' <= deadLettered' + letterDue' + failures'
<1>11. ASSUME RecordDeadLetter
       PROVE  Goal
  <2>1. UNCHANGED <<queue, routed, dropped, deadLettered, failures, offered, raised, call>>
    BY <1>11 DEF RecordDeadLetter, memory, ghosts
  <2>2. n' = n /\ h' = h
    BY <1>10, <2>1 DEF n
  <2>3. recorded' = recorded + 1 /\ letterDue' = letterDue + 1
    BY <1>11 DEF RecordDeadLetter
  <2> QED
    BY <1>1, <1>2, <1>9, <2>1, <2>2, <2>3
<1>12. ASSUME NEW counted \in BOOLEAN, CountDeadLetter(counted)
       PROVE  Goal
  <2>1. UNCHANGED <<queue, routed, dropped, recorded, offered, raised, call>>
    BY <1>12 DEF CountDeadLetter, memory, ghosts
  <2>2. n' = n /\ h' = h
    BY <1>10, <2>1 DEF n
  <2>3. /\ letterDue > 0 /\ letterDue' = letterDue - 1
        /\ \/ deadLettered' = deadLettered + 1 /\ failures' = failures
           \/ deadLettered' = deadLettered /\ failures' = failures + 1
    BY <1>12 DEF CountDeadLetter
  <2> QED
    BY <1>1, <1>2, <1>9, <2>1, <2>2, <2>3
<1>13. ASSUME NEW counted \in BOOLEAN, AdmitRejected(counted)
       PROVE  Goal
  <2>1. UNCHANGED <<queue, routed, deadLettered, recorded, letterDue, call>>
    BY <1>13 DEF AdmitRejected, memory
  <2>2. n' = n /\ h' = h
    BY <1>10, <2>1 DEF n
  <2>3. /\ offered' = offered + 1
        /\ \/ dropped' = dropped + 1 /\ UNCHANGED <<failures, raised>>
           \/ failures' = failures + 1 /\ raised' = raised + 1 /\ UNCHANGED dropped
    BY <1>13 DEF AdmitRejected
  <2> QED
    BY <1>1, <1>2, <1>9, <2>1, <2>2, <2>3
<1>14. ASSUME NEW t \in Thread, NEW e \in Envelope, NEW now \in 0..clock, Admit(t, e, now)
       PROVE  Goal
  <2> DEFINE c == [phase |-> "accept", envelope |-> e, now |-> now]
  <2>1. now \in Nat
    BY DEF RuntimeTypeOK
  <2>2. c \in Call /\ c.phase = "accept"
    BY <2>1 DEF Call, Phase
  <2>3. LockIsFree /\ call' = [call EXCEPT ![t] = c] /\ offered' = offered + 1
    BY <1>14 DEF Admit
  <2>4. UNCHANGED <<queue, routed, dropped, deadLettered, recorded, letterDue, failures, raised>>
    BY <1>14 DEF Admit, memory, counters
  <2> HIDE DEF c
  <2>5. h = 0 /\ h' = 1
    BY <1>8, <2>2, <2>3
  <2>6. n' = n
    BY <2>4 DEF n
  <2> QED
    BY <1>1, <1>2, <2>3, <2>4, <2>5, <2>6
<1>15. ASSUME NEW t \in Thread, Accept(t)
       PROVE  Goal
  <2>1. call[t] # Idle /\ call[t].phase = "accept" /\ {"refused", "push"} \subseteq Phase
    BY <1>15 DEF Accept, InPhase, Phase
  <2>2. Advance(t, "refused") \/ Advance(t, "push")
    BY <1>15 DEF Accept
  <2>3. UNCHANGED <<queue, routed, dropped, deadLettered, recorded, letterDue, failures, offered, raised>>
    BY <1>15 DEF Accept, counters, ghosts
  <2>4. h = 1 /\ h' = 1
    BY <1>5, <1>7, <2>1, <2>2
  <2>5. n' = n
    BY <2>3 DEF n
  <2> QED
    BY <1>1, <1>2, <2>3, <2>4, <2>5
<1>16. ASSUME NEW t \in Thread, ClockRegression(t)
       PROVE  Goal
  <2>1. call[t] # Idle /\ call[t].phase = "accept" /\ Leave(t) /\ raised' = raised + 1
    BY <1>16 DEF ClockRegression, InPhase
  <2>2. UNCHANGED <<queue, routed, dropped, deadLettered, recorded, letterDue, failures, offered>>
    BY <1>16 DEF ClockRegression, memory, counters
  <2>3. h = 1 /\ h' = 0
    BY <1>5, <1>6, <2>1
  <2>4. n' = n
    BY <2>2 DEF n
  <2> QED
    BY <1>1, <1>2, <2>1, <2>2, <2>3, <2>4
<1>17. ASSUME NEW t \in Thread, Push(t)
       PROVE  Goal
  <2>1. call[t] # Idle /\ call[t].phase = "push" /\ {"refused", "evicted", "pop"} \subseteq Phase
    BY <1>17 DEF Push, InPhase, Phase
  <2>2. /\ UNCHANGED <<counters, failures, offered, raised>>
        /\ \/ (Advance(t, "refused") \/ Advance(t, "evicted")) /\ Len(queue') = Len(queue)
           \/ (Advance(t, "pop") \/ Leave(t)) /\ Len(queue') = Len(queue) + 1
    BY <1>17, PushCases
  <2>3. h = 1
    BY <1>5, <2>1
  <2>4. \/ h' = 1 /\ n' = n
        \/ h' = 0 /\ n' = n + 1
    BY <1>6, <1>7, <2>1, <2>2 DEF n
  <2>5. UNCHANGED <<routed, dropped, deadLettered, recorded, letterDue>>
    BY <2>2 DEF counters
  <2> QED
    BY <1>1, <1>2, <2>2, <2>3, <2>4, <2>5
<1>18. ASSUME NEW t \in Thread, CountRefusal(t)
       PROVE  Goal
  <2>1. call[t] # Idle /\ call[t].phase = "refused" /\ Leave(t) /\ dropped' = dropped + 1
    BY <1>18 DEF CountRefusal, InPhase
  <2>2. UNCHANGED <<queue, routed, deadLettered, recorded, letterDue, failures, offered, raised>>
    BY <1>18 DEF CountRefusal, memory, ghosts
  <2>3. h = 1 /\ h' = 0
    BY <1>5, <1>6, <2>1
  <2>4. n' = n
    BY <2>2 DEF n
  <2> QED
    BY <1>1, <1>2, <2>1, <2>2, <2>3, <2>4
<1>19. ASSUME NEW t \in Thread, CountEviction(t)
       PROVE  Goal
  <2>1. call[t] # Idle /\ call[t].phase = "evicted" /\ Advance(t, "pop") /\ dropped' = dropped + 1
    BY <1>19 DEF CountEviction, CountDrop, InPhase
  <2>2. UNCHANGED <<queue, routed, deadLettered, recorded, letterDue, failures, offered, raised>>
    BY <1>19 DEF CountEviction, memory, ghosts
  <2>3. h = 1 /\ h' = 0
    BY <1>5, <1>7, <2>1 DEF Phase
  <2>4. n' = n
    BY <2>2 DEF n
  <2> QED
    BY <1>1, <1>2, <2>1, <2>2, <2>3, <2>4
<1>20. ASSUME NEW t \in Thread, NEW now \in 0..clock, Dispatch(t, now)
       PROVE  Goal
  <2> DEFINE c == [phase |-> "pop", envelope |-> Idle, now |-> now]
  <2>1. now \in Nat
    BY DEF RuntimeTypeOK
  <2>2. c \in Call /\ c.phase = "pop"
    BY <2>1 DEF Call, Phase
  <2>3. LockIsFree /\ call' = [call EXCEPT ![t] = c]
    BY <1>20 DEF Dispatch
  <2>4. UNCHANGED <<queue, routed, dropped, deadLettered, recorded, letterDue, failures, offered, raised>>
    BY <1>20 DEF Dispatch, memory, counters, ghosts
  <2> HIDE DEF c
  <2>5. h = 0 /\ h' = 0
    BY <1>8, <2>2, <2>3
  <2>6. n' = n
    BY <2>4 DEF n
  <2> QED
    BY <1>1, <1>2, <2>4, <2>5, <2>6
<1>21. ASSUME NEW t \in Thread, Pop(t)
       PROVE  Goal
  <2>1. call[t] # Idle /\ call[t].phase = "pop" /\ Advance(t, "popped") /\ "popped" \in Phase
    BY <1>21 DEF Pop, InPhase, Phase
  <2>2. /\ queue # <<>> /\ queue' = Tail(queue)
        /\ UNCHANGED <<routed, dropped, deadLettered, recorded, letterDue, failures, offered, raised>>
    BY <1>21 DEF Pop, counters, ghosts
  <2>3. h = 0 /\ h' = 1
    BY <1>5, <1>7, <2>1
  <2>4. n' = n - 1 /\ n >= 1
    BY <2>2 DEF n, RuntimeTypeOK
  <2> QED
    BY <1>1, <1>2, <2>2, <2>3, <2>4
<1>22. ASSUME NEW t \in Thread, NEW hasRoute \in BOOLEAN, CountDispatch(t, hasRoute)
       PROVE  Goal
  <2>1. call[t] # Idle /\ call[t].phase = "popped" /\ Leave(t)
    BY <1>22 DEF CountDispatch, InPhase
  <2>2. \/ routed' = routed + 1 /\ dropped' = dropped
        \/ dropped' = dropped + 1 /\ routed' = routed
    BY <1>22 DEF CountDispatch
  <2>3. UNCHANGED <<queue, deadLettered, recorded, letterDue, failures, offered, raised>>
    BY <1>22 DEF CountDispatch, memory, ghosts
  <2>4. h = 1 /\ h' = 0
    BY <1>5, <1>6, <2>1
  <2>5. n' = n
    BY <2>3 DEF n
  <2> QED
    BY <1>1, <1>2, <2>2, <2>3, <2>4, <2>5
<1>23. ASSUME NEW t \in Thread, IncrementRaises(t)
       PROVE  Goal
  <2>1. call[t] # Idle /\ call[t].phase # "pop" /\ Leave(t)
    BY <1>23 DEF IncrementRaises
  <2>2. failures' = failures + 1 /\ raised' = raised + 1
    BY <1>23 DEF IncrementRaises
  <2>3. UNCHANGED <<queue, routed, dropped, deadLettered, recorded, letterDue, offered>>
    BY <1>23 DEF IncrementRaises, memory, counters
  <2>4. h = 1 /\ h' = 0
    BY <1>5, <1>6, <2>1
  <2>5. n' = n
    BY <2>3 DEF n
  <2> QED
    BY <1>1, <1>2, <2>2, <2>3, <2>4, <2>5
<1>24. ASSUME ClockAdvances \/ UNCHANGED runtimeVars
       PROVE  Goal
  <2>1. UNCHANGED <<queue, call, routed, dropped, deadLettered, recorded, letterDue, failures, offered, raised>>
    BY <1>24 DEF ClockAdvances, runtimeVars, memory, counters, ghosts
  <2>2. n' = n /\ h' = h
    BY <1>10, <2>1 DEF n
  <2> QED
    BY <1>2, <2>1, <2>2
<1> HIDE DEF Goal
<1>25. Goal
  BY <1>11, <1>12, <1>13, <1>14, <1>15, <1>16, <1>17, <1>18, <1>19, <1>20, <1>21, <1>22, <1>23,
     <1>24
     DEF RuntimeNext
<1> QED
  BY <1>25 DEF Goal, Accounted, h, n

\* The calls of the other threads play no part in a step of a call: after it
\* they are out.
LEMMA OthersOut ==
    ASSUME RuntimeTypeOK, LockInv, HandInv, [RuntimeNext]_runtimeVars,
           NEW t \in Thread, call'[t] # Idle
    PROVE  \A u \in Thread : u # t => call'[u] = Idle
BY LockStep DEF LockInv

\* While no increment has failed, a call that serves no urgent envelope, or no
\* call at all, means that none is queued.
LEMMA NoneQueued ==
    ASSUME RuntimeTypeOK, LockInv, UrgentInv, failures = 0,
           \A u \in Thread : call[u] # Idle => ~Serving(u)
    PROVE  \A i \in 1..Len(queue) : ~Urgent(queue[i])
<1>1. \A u \in Thread : ~Serving(u)
  BY DEF Serving, InPhase
<1> QED
  BY <1>1 DEF UrgentInv

\* An urgent envelope enters at the head and its call takes the head.
LEMMA UrgentStep ==
    ASSUME RuntimeTypeOK, LockInv, HandInv, UrgentInv, [RuntimeNext]_runtimeVars
    PROVE  UrgentInv'
<1>1. SUFFICES ASSUME failures' = 0
               PROVE  /\ \A i \in 1..Len(queue') :
                             Urgent(queue'[i]) => i = 1 /\ \E t \in Thread : Serving(t)'
                      /\ \A t \in Thread : Serving(t)' =>
                             /\ Urgent(call'[t].envelope)
                             /\ queue' # <<>> /\ queue'[1] = call'[t].envelope
                      /\ \A t \in Thread : InPhase(t, "popped")' /\ call'[t].envelope # Idle =>
                             popped'[t] = call'[t].envelope
  BY DEF UrgentInv
<1> DEFINE Goal == /\ \A i \in 1..Len(queue') :
                          Urgent(queue'[i]) => i = 1 /\ \E t \in Thread : Serving(t)'
                   /\ \A t \in Thread : Serving(t)' =>
                          /\ Urgent(call'[t].envelope)
                          /\ queue' # <<>> /\ queue'[1] = call'[t].envelope
                   /\ \A t \in Thread : InPhase(t, "popped")' /\ call'[t].envelope # Idle =>
                          popped'[t] = call'[t].envelope
<1>2. failures = 0 /\ queue \in Seq(Envelope)
  <2>1. failures \in Nat /\ failures' \in {failures, failures + 1}
    BY DEF RuntimeTypeOK, RuntimeNext, runtimeVars, RecordDeadLetter, CountDeadLetter, AdmitRejected, Admit, Accept,
           ClockRegression, Push, CountRefusal, CountEviction, Dispatch, Pop, CountDispatch,
           IncrementRaises, ClockAdvances
  <2> QED
    BY <1>1, <2>1 DEF RuntimeTypeOK
<1>3. ASSUME UNCHANGED <<queue, call, popped>>
      PROVE  Goal
  <2>1. UrgentInv => Goal
    BY <1>2, <1>3 DEF UrgentInv, Serving, InPhase
  <2> QED
    BY <2>1
\* No urgent envelope is queued, none is taken.
<1>4. ASSUME \A i \in 1..Len(queue') : ~Urgent(queue'[i]),
             \A u \in Thread : call'[u] # Idle =>
                 ~Serving(u)' /\ (InPhase(u, "popped")' => call'[u].envelope = Idle)
      PROVE  Goal
  BY <1>4 DEF Serving, InPhase
<1>5. ASSUME NEW t \in Thread, call[t] # Idle, ~Serving(t)
      PROVE  \A i \in 1..Len(queue) : ~Urgent(queue[i])
  <2>1. \A u \in Thread : call[u] # Idle => ~Serving(u)
    BY <1>5, OneCall
  <2> QED
    BY <1>2, <2>1, NoneQueued
<1>6. ASSUME NEW t \in Thread, call[t] # Idle, ~Serving(t), Leave(t), UNCHANGED queue
      PROVE  Goal
  <2>1. \A u \in Thread : call'[u] = Idle
    BY <1>6, OneCall, LeaveFacts
  <2>2. \A i \in 1..Len(queue') : ~Urgent(queue'[i])
    BY <1>5, <1>6
  <2> QED
    BY <1>4, <2>1, <2>2
<1>7. ASSUME NEW t \in Thread, NEW c \in Call, LockIsFree, call' = [call EXCEPT ![t] = c],
             c.phase = "accept" \/ (c.phase = "pop" /\ c.envelope = Idle), UNCHANGED queue
      PROVE  Goal
  <2>1. \A u \in Thread : call[u] = Idle
    BY <1>7, NoCall DEF LockIsFree
  <2>2. \A i \in 1..Len(queue') : ~Urgent(queue'[i])
    BY <1>2, <1>7, <2>1, NoneQueued
  <2>3. call'[t] = c /\ \A u \in Thread : u # t => call'[u] = Idle
    BY <1>7, <2>1, EnterFacts
  <2> QED
    BY <1>4, <1>7, <2>2, <2>3 DEF Serving, InPhase
\* The step of a call that goes on.
<1>8. ASSUME NEW t \in Thread, NEW p \in Phase, call[t] # Idle, Advance(t, p)
      PROVE  /\ call'[t] # Idle /\ call'[t].phase = p /\ call'[t].envelope = call[t].envelope
             /\ \A u \in Thread : u # t => call'[u] = Idle
  BY <1>8, AdvanceFacts, OneCall
<1> HIDE DEF Goal
<1>9. ASSUME RecordDeadLetter \/ \E counted \in BOOLEAN : CountDeadLetter(counted)
      PROVE  Goal
  BY <1>3, <1>9 DEF RecordDeadLetter, CountDeadLetter, memory
<1>10. ASSUME NEW counted \in BOOLEAN, AdmitRejected(counted)
       PROVE  Goal
  BY <1>3, <1>10 DEF AdmitRejected, memory
<1>11. ASSUME NEW t \in Thread, NEW e \in Envelope, NEW now \in 0..clock, Admit(t, e, now)
       PROVE  Goal
  <2> DEFINE c == [phase |-> "accept", envelope |-> e, now |-> now]
  <2>1. now \in Nat
    BY DEF RuntimeTypeOK
  <2>2. c \in Call /\ c.phase = "accept"
    BY <2>1 DEF Call, Phase
  <2>3. LockIsFree /\ call' = [call EXCEPT ![t] = c] /\ UNCHANGED queue
    BY <1>11 DEF Admit, memory
  <2> HIDE DEF c
  <2> QED
    BY <1>7, <2>2, <2>3
<1>12. ASSUME NEW t \in Thread, NEW now \in 0..clock, Dispatch(t, now)
       PROVE  Goal
  <2> DEFINE c == [phase |-> "pop", envelope |-> Idle, now |-> now]
  <2>1. now \in Nat
    BY DEF RuntimeTypeOK
  <2>2. c \in Call /\ c.phase = "pop" /\ c.envelope = Idle
    BY <2>1 DEF Call, Phase
  <2>3. LockIsFree /\ call' = [call EXCEPT ![t] = c] /\ UNCHANGED queue
    BY <1>12 DEF Dispatch, memory
  <2> HIDE DEF c
  <2> QED
    BY <1>7, <2>2, <2>3
<1>13. ASSUME NEW t \in Thread, Accept(t)
       PROVE  Goal
  <2>1. call[t] # Idle /\ ~Serving(t) /\ UNCHANGED queue /\ {"refused", "push"} \subseteq Phase
    BY <1>13 DEF Accept, InPhase, Serving, Phase
  <2>2. Advance(t, "refused") \/ Advance(t, "push")
    BY <1>13 DEF Accept
  <2>3. \A i \in 1..Len(queue') : ~Urgent(queue'[i])
    BY <1>5, <2>1
  <2>4. \A u \in Thread : call'[u] # Idle => call'[u].phase = "refused" \/ call'[u].phase = "push"
    BY <1>8, <2>1, <2>2
  <2> QED
    BY <1>4, <2>3, <2>4 DEF Serving, InPhase
<1>14. ASSUME NEW t \in Thread, ClockRegression(t)
       PROVE  Goal
  <2>1. call[t] # Idle /\ ~Serving(t) /\ Leave(t) /\ UNCHANGED queue
    BY <1>14 DEF ClockRegression, InPhase, Serving, memory
  <2> QED
    BY <1>6, <2>1
<1>15. ASSUME NEW t \in Thread, Push(t)
       PROVE  Goal
  <2> DEFINE e == call[t].envelope
  <2>1. call[t] # Idle /\ ~Serving(t) /\ {"refused", "evicted", "pop"} \subseteq Phase
    BY <1>15 DEF Push, InPhase, Serving, Phase
  <2>2. \A i \in 1..Len(queue) : ~Urgent(queue[i])
    BY <1>5, <2>1
  <2>3. e \in Envelope /\ e # Idle
    BY <1>15, PushCases, RuntimeSentinels
  <2>4. CASE Advance(t, "refused") /\ UNCHANGED queue
    <3>1. \A u \in Thread : call'[u] # Idle => call'[u].phase = "refused"
      BY <1>8, <2>1, <2>4
    <3> QED
      BY <1>4, <2>2, <2>4, <3>1 DEF Serving, InPhase
\* The urgent envelope is in front of a queue of others.
  <2>5. ASSUME NEW q \in Seq(Envelope), queue' = Insert(q, e), Urgent(e),
               \A i \in 1..Len(q) : ~Urgent(q[i]), Advance(t, "evicted") \/ Advance(t, "pop")
        PROVE  Goal
    <3>1. Len(q) \in Nat /\ Len(queue') = Len(q) + 1
      BY <2>3, <2>5, InsertFacts
    <3>2. queue'[1] = e /\ \A i \in 1..Len(queue') : i # 1 => ~Urgent(queue'[i])
      BY <2>3, <2>5, <3>1, UrgentGoesFirst
    <3>3. queue' # <<>>
      BY <3>1
    <3>4. /\ call'[t] # Idle /\ call'[t].envelope = e
          /\ call'[t].phase = "evicted" \/ call'[t].phase = "pop"
          /\ \A u \in Thread : u # t => call'[u] = Idle
      BY <1>8, <2>1, <2>5
    <3>5. Serving(t)'
      BY <2>3, <3>4 DEF Serving, InPhase
    <3>6. \A u \in Thread : (Serving(u)' => u = t) /\ ~InPhase(u, "popped")'
      BY <3>4 DEF Serving, InPhase
    <3> HIDE DEF e
    <3> QED
      BY <2>5, <3>2, <3>3, <3>4, <3>5, <3>6 DEF Goal
  <2>6. CASE /\ Full /\ Urgent(e) /\ Advance(t, "evicted")
             /\ queue' = Insert(SubSeq(queue, 1, Len(queue) - 1), e)
    <3> DEFINE q == SubSeq(queue, 1, Len(queue) - 1)
    <3>1. Len(queue) >= 1
      BY <1>2, <2>6, QueueSizes DEF Full
    <3>2. q \in Seq(Envelope) /\ Len(q) = Len(queue) - 1 /\ \A i \in 1..Len(q) : q[i] = queue[i]
      <4> DEFINE m == Len(queue) - 1
      <4>1. m \in Nat /\ m <= Len(queue)
        BY <1>2, <3>1
      <4> HIDE DEF m
      <4>2. /\ SubSeq(queue, 1, m) \in Seq(Envelope) /\ Len(SubSeq(queue, 1, m)) = m
            /\ \A i \in 1..m : SubSeq(queue, 1, m)[i] = queue[i]
        BY <1>2, <4>1
      <4> QED
        BY <4>2 DEF m
    <3>3. queue' = Insert(q, e)
      BY <2>6
    <3> HIDE DEF q, e
    <3>4. \A i \in 1..Len(q) : ~Urgent(q[i])
      BY <1>2, <2>2, <3>1, <3>2
    <3> QED
      BY <2>5, <2>6, <3>2, <3>3, <3>4
  <2>7. CASE queue' = Insert(queue, e) /\ Urgent(e) /\ Advance(t, "pop")
    BY <1>2, <2>2, <2>5, <2>7
  <2>8. CASE queue' = Insert(queue, e) /\ ~Urgent(e) /\ Leave(t)
    <3>1. /\ Len(queue') = Len(queue) + 1
          /\ \A i \in 1..(Len(queue) + 1) :
                 queue'[i] = e \/ \E j \in 1..Len(queue) : queue'[i] = queue[j]
      BY <1>2, <2>3, <2>8, InsertFacts
    <3>3. \A i \in 1..Len(queue') : ~Urgent(queue'[i])
      BY <2>2, <2>8, <3>1
    <3>2. \A u \in Thread : call'[u] = Idle
      BY <2>1, <2>8, OneCall, LeaveFacts
    <3> QED
      BY <1>4, <3>2, <3>3
  <2>9. \/ Advance(t, "refused") /\ UNCHANGED queue
        \/ /\ Full /\ Urgent(e) /\ Advance(t, "evicted")
           /\ queue' = Insert(SubSeq(queue, 1, Len(queue) - 1), e)
        \/ queue' = Insert(queue, e) /\ Urgent(e) /\ Advance(t, "pop")
        \/ queue' = Insert(queue, e) /\ ~Urgent(e) /\ Leave(t)
    BY <1>15, PushCases
  <2> HIDE DEF e
  <2>10. Goal
    BY <2>4, <2>6, <2>7, <2>8, <2>9 DEF Goal
  <2> QED
    BY <2>10
<1>16. ASSUME NEW t \in Thread, CountRefusal(t)
       PROVE  Goal
  <2>1. call[t] # Idle /\ ~Serving(t) /\ Leave(t) /\ UNCHANGED queue
    BY <1>16 DEF CountRefusal, InPhase, Serving, memory
  <2> QED
    BY <1>6, <2>1
<1>17. ASSUME NEW t \in Thread, CountEviction(t)
       PROVE  Goal
  <2>1. call[t] # Idle /\ Serving(t) /\ Advance(t, "pop") /\ UNCHANGED queue /\ "pop" \in Phase
    BY <1>17 DEF CountEviction, InPhase, Serving, memory, Phase
  <2>2. /\ call'[t] # Idle /\ call'[t].phase = "pop" /\ call'[t].envelope = call[t].envelope
        /\ \A u \in Thread : u # t => call'[u] = Idle
    BY <1>8, <2>1
  <2>3. /\ Urgent(call[t].envelope) /\ queue # <<>> /\ queue[1] = call[t].envelope
        /\ \A i \in 1..Len(queue) : Urgent(queue[i]) => i = 1
    BY <1>2, <2>1 DEF UrgentInv
  <2>4. call[t].envelope # Idle
    BY <1>17, RuntimeSentinels DEF CountEviction, InPhase, HandInv
  <2>5. Serving(t)' /\ \A u \in Thread : (Serving(u)' => u = t) /\ ~InPhase(u, "popped")'
    BY <2>2, <2>4 DEF Serving, InPhase
  <2> QED
    BY <2>1, <2>2, <2>3, <2>5 DEF Goal
<1>18. ASSUME NEW t \in Thread, Pop(t)
       PROVE  Goal
  <2>1. /\ call[t] # Idle /\ call[t].phase = "pop" /\ Advance(t, "popped") /\ "popped" \in Phase
        /\ queue # <<>> /\ queue' = Tail(queue) /\ popped' = [popped EXCEPT ![t] = queue[1]]
    BY <1>18 DEF Pop, InPhase, Phase
  <2>2. /\ call'[t] # Idle /\ call'[t].phase = "popped" /\ call'[t].envelope = call[t].envelope
        /\ \A u \in Thread : u # t => call'[u] = Idle
    BY <1>8, <2>1
  <2>3. popped'[t] = queue[1]
    BY <2>1 DEF RuntimeTypeOK
  <2>4. /\ Len(queue) \in Nat \ {0} /\ Len(queue') = Len(queue) - 1
        /\ \A i \in 1..Len(queue') : queue'[i] = queue[i + 1]
    BY <1>2, <2>1
  <2>5. \A i \in 1..Len(queue) : Urgent(queue[i]) => i = 1
    BY <1>2 DEF UrgentInv
  <2>6. \A i \in 1..Len(queue') : ~Urgent(queue'[i])
    <3>1. ASSUME NEW i \in 1..Len(queue')
          PROVE  i + 1 \in 1..Len(queue) /\ i + 1 # 1
      BY <2>4
    <3> QED
      BY <2>4, <2>5, <3>1
  <2>7. call[t].envelope # Idle => queue[1] = call[t].envelope
    BY <1>2, <2>1 DEF UrgentInv, Serving, InPhase
  <2>8. \A u \in Thread : ~Serving(u)' /\ (InPhase(u, "popped")' => u = t)
    BY <2>2 DEF Serving, InPhase
  <2> QED
    BY <2>2, <2>3, <2>6, <2>7, <2>8 DEF Goal
<1>19. ASSUME NEW t \in Thread, NEW hasRoute \in BOOLEAN, CountDispatch(t, hasRoute)
       PROVE  Goal
  <2>1. call[t] # Idle /\ ~Serving(t) /\ Leave(t) /\ UNCHANGED queue
    BY <1>19 DEF CountDispatch, InPhase, Serving, memory
  <2> QED
    BY <1>6, <2>1
<1>20. ASSUME NEW t \in Thread, IncrementRaises(t)
       PROVE  Goal
  <2>1. failures' = failures + 1
    BY <1>20 DEF IncrementRaises
  <2> QED
    BY <1>1, <1>2, <2>1
<1>21. ASSUME ClockAdvances \/ UNCHANGED runtimeVars
       PROVE  Goal
  BY <1>3, <1>21 DEF ClockAdvances, runtimeVars, memory
<1>22. Goal
  BY <1>9, <1>10, <1>11, <1>12, <1>13, <1>14, <1>15, <1>16, <1>17, <1>18, <1>19, <1>20, <1>21
     DEF RuntimeNext
<1> QED
  BY <1>22 DEF Goal

\* Only accept and push touch the window and what was queued when, or have to do
\* with the phase between them.
LEMMA WindowSteps ==
    ASSUME RuntimeTypeOK, LockInv, HandInv, [RuntimeNext]_runtimeVars
    PROVE  \/ \E t \in Thread : Accept(t) \/ Push(t)
           \/ /\ UNCHANGED <<seen, lastNow, pushedAt>>
              /\ \A u \in Thread : InPhase(u, "push") \/ InPhase(u, "push")' => call'[u] = call[u]
<1> DEFINE Same == /\ UNCHANGED <<seen, lastNow, pushedAt>>
                   /\ \A u \in Thread : InPhase(u, "push") \/ InPhase(u, "push")' => call'[u] = call[u]
<1>1. ASSUME UNCHANGED <<seen, lastNow, pushedAt, call>>
      PROVE  Same
  BY <1>1
<1>2. ASSUME NEW t \in Thread, call[t] # Idle, call[t].phase # "push", Leave(t),
             UNCHANGED <<seen, lastNow, pushedAt>>
      PROVE  Same
  BY <1>2, LeaveFacts DEF InPhase
<1>3. ASSUME NEW t \in Thread, NEW p \in Phase, call[t] # Idle, call[t].phase # "push",
             Advance(t, p), p # "push", UNCHANGED <<seen, lastNow, pushedAt>>
      PROVE  Same
  BY <1>3, AdvanceFacts DEF InPhase
<1>4. ASSUME NEW t \in Thread, NEW c \in Call, LockIsFree, call' = [call EXCEPT ![t] = c],
             c.phase # "push", UNCHANGED <<seen, lastNow, pushedAt>>
      PROVE  Same
  <2>1. \A u \in Thread : call[u] = Idle
    BY <1>4, NoCall DEF LockIsFree
  <2> QED
    BY <1>4, <2>1, EnterFacts DEF InPhase
<1> HIDE DEF Same
<1>5. ASSUME RecordDeadLetter \/ \E counted \in BOOLEAN : CountDeadLetter(counted)
      PROVE  Same
  BY <1>1, <1>5 DEF RecordDeadLetter, CountDeadLetter, memory, ghosts
<1>6. ASSUME NEW counted \in BOOLEAN, AdmitRejected(counted)
      PROVE  Same
  BY <1>1, <1>6 DEF AdmitRejected, memory
<1>7. ASSUME NEW t \in Thread, NEW e \in Envelope, NEW now \in 0..clock, Admit(t, e, now)
      PROVE  Same
  <2> DEFINE c == [phase |-> "accept", envelope |-> e, now |-> now]
  <2>1. now \in Nat
    BY DEF RuntimeTypeOK
  <2>2. c \in Call /\ c.phase = "accept"
    BY <2>1 DEF Call, Phase
  <2>3. LockIsFree /\ call' = [call EXCEPT ![t] = c] /\ UNCHANGED <<seen, lastNow, pushedAt>>
    BY <1>7 DEF Admit, memory
  <2> HIDE DEF c
  <2> QED
    BY <1>4, <2>2, <2>3
<1>8. ASSUME NEW t \in Thread, NEW now \in 0..clock, Dispatch(t, now)
      PROVE  Same
  <2> DEFINE c == [phase |-> "pop", envelope |-> Idle, now |-> now]
  <2>1. now \in Nat
    BY DEF RuntimeTypeOK
  <2>2. c \in Call /\ c.phase = "pop"
    BY <2>1 DEF Call, Phase
  <2>3. LockIsFree /\ call' = [call EXCEPT ![t] = c] /\ UNCHANGED <<seen, lastNow, pushedAt>>
    BY <1>8 DEF Dispatch, memory, ghosts
  <2> HIDE DEF c
  <2> QED
    BY <1>4, <2>2, <2>3
<1>9. ASSUME NEW t \in Thread, ClockRegression(t)
      PROVE  Same
  BY <1>2, <1>9 DEF ClockRegression, InPhase, memory
<1>10. ASSUME NEW t \in Thread, CountRefusal(t)
       PROVE  Same
  BY <1>2, <1>10 DEF CountRefusal, InPhase, memory, ghosts
<1>11. ASSUME NEW t \in Thread, CountEviction(t)
       PROVE  Same
  BY <1>3, <1>11 DEF CountEviction, InPhase, memory, ghosts, Phase
<1>12. ASSUME NEW t \in Thread, Pop(t)
       PROVE  Same
  BY <1>3, <1>12 DEF Pop, InPhase, ghosts, Phase
<1>13. ASSUME NEW t \in Thread, NEW hasRoute \in BOOLEAN, CountDispatch(t, hasRoute)
       PROVE  Same
  BY <1>2, <1>13 DEF CountDispatch, InPhase, memory, ghosts
<1>14. ASSUME NEW t \in Thread, IncrementRaises(t)
       PROVE  Same
  BY <1>2, <1>14 DEF IncrementRaises, memory
<1>15. ASSUME ClockAdvances \/ UNCHANGED runtimeVars
       PROVE  Same
  BY <1>1, <1>15 DEF ClockAdvances, runtimeVars, memory, ghosts
<1>16. (\E t \in Thread : Accept(t) \/ Push(t)) \/ Same
  BY <1>5, <1>6, <1>7, <1>8, <1>9, <1>10, <1>11, <1>12, <1>13, <1>14, <1>15 DEF RuntimeNext
<1> QED
  BY <1>16 DEF Same

\* accept lets a key through only if what it was queued with is out of the window,
\* and forgets only what is; push then queues it at the time the window has.
LEMMA WindowStep ==
    ASSUME RuntimeTypeOK, LockInv, HandInv, WindowInv, [RuntimeNext]_runtimeVars
    PROVE  /\ WindowInv'
           /\ \A k \in Key : pushedAt'[k] # pushedAt[k] /\ pushedAt[k] # Never =>
                  pushedAt'[k] > pushedAt[k] + Window
<1>1. /\ seen \in [Key -> Nat \cup {Never}] /\ lastNow \in Nat \cup {Never}
      /\ pushedAt \in [Key -> Nat \cup {Never}] /\ Window \in Nat /\ Never \notin Nat
      /\ \A t \in Thread : call[t] # Idle => call[t] \in Call /\ call[t].now \in Nat
  BY QueueSizes, RuntimeSentinels DEF RuntimeTypeOK, Call
<1> DEFINE Grows == \A k \in Key : pushedAt'[k] # pushedAt[k] /\ pushedAt[k] # Never =>
                        pushedAt'[k] > pushedAt[k] + Window
<1>2. CASE /\ UNCHANGED <<seen, lastNow, pushedAt>>
           /\ \A u \in Thread : InPhase(u, "push") \/ InPhase(u, "push")' => call'[u] = call[u]
  <2>1. \A u \in Thread : InPhase(u, "push") <=> InPhase(u, "push")'
    BY <1>2 DEF InPhase
  <2> QED
    BY <1>2, <2>1 DEF WindowInv
<1>3. ASSUME NEW t \in Thread, Accept(t)
      PROVE  WindowInv' /\ Grows
  <2> DEFINE now == call[t].now
             k == KeyOf[call[t].envelope]
  <2>1. call[t] # Idle /\ call[t].phase = "accept" /\ {"refused", "push"} \subseteq Phase
    BY <1>3 DEF Accept, InPhase, Phase
  <2>2. now \in Nat /\ k \in Key
    BY <1>1, <2>1, EnvelopesClassified DEF HandInv
  <2>3. /\ lastNow' = now /\ (lastNow # Never => lastNow <= now)
        /\ UNCHANGED pushedAt
    BY <1>3 DEF Accept, ghosts
  <2>4. \A u \in Thread : ~InPhase(u, "push")
    BY <2>1, OneCall DEF InPhase
  <2>5. \A x \in Key : seen[x] # Never => pushedAt[x] = seen[x]
    BY <2>4 DEF WindowInv
  <2>6. \A x \in Key : seen[x] = Never /\ pushedAt[x] # Never =>
            lastNow # Never /\ pushedAt[x] + Window < lastNow
    BY DEF WindowInv
  <2>7. \A x \in Key : seen[x] = Never /\ pushedAt[x] # Never => pushedAt[x] + Window < now
    <3>1. ASSUME NEW x \in Key, seen[x] = Never, pushedAt[x] # Never
          PROVE  pushedAt[x] + Window < now
      <4>1. lastNow \in Nat /\ pushedAt[x] \in Nat /\ pushedAt[x] + Window < lastNow /\ lastNow <= now
        BY <1>1, <2>3, <2>6, <3>1
      <4> HIDE DEF now
      <4> QED
        BY <1>1, <2>2, <4>1
    <3> QED
      BY <3>1
  <2>8. CASE Suppressed(k, now)
    <3>1. Advance(t, "refused") /\ UNCHANGED seen
      BY <1>3, <2>8 DEF Accept
    <3>2. \A u \in Thread : ~InPhase(u, "push")'
      BY <2>1, <3>1, OneCall, AdvanceFacts DEF InPhase
    <3> HIDE DEF now, k
    <3>3. lastNow' # Never
      BY <1>1, <2>2, <2>3
    <3> QED
      BY <2>3, <2>5, <2>7, <3>1, <3>2, <3>3 DEF WindowInv
  <2>9. CASE ~Suppressed(k, now)
    <3>1. /\ seen' = [x \in Key |-> IF x = k THEN now
                          ELSE IF Forgotten(seen[x], now) THEN Never ELSE seen[x]]
          /\ Advance(t, "push")
      BY <1>3, <2>9 DEF Accept
    <3>2. /\ InPhase(t, "push")' /\ call'[t].now = now /\ KeyOf[call'[t].envelope] = k
          /\ \A u \in Thread : InPhase(u, "push")' => u = t
      BY <2>1, <3>1, OneCall, AdvanceFacts DEF InPhase
    <3> HIDE DEF now, k
    <3>3. pushedAt[k] # Never => pushedAt[k] + Window < now
      <4>1. CASE seen[k] = Never
        BY <2>2, <2>7, <4>1
      <4>2. CASE seen[k] # Never
        <5>1. pushedAt[k] = seen[k] /\ seen[k] \in Nat /\ ~(now <= seen[k] + Window)
          BY <1>1, <2>2, <2>5, <2>9, <4>2 DEF Suppressed
        <5> QED
          BY <1>1, <2>2, <5>1
      <4> QED
        BY <4>1, <4>2
    <3>4. seen'[k] = now /\ lastNow' = now /\ now # Never
      BY <1>1, <2>2, <2>3, <3>1
    <3>5. \A x \in Key : seen'[x] # Never => pushedAt'[x] = seen'[x] \/ x = k
      BY <2>3, <2>5, <3>1
    <3>6. \A x \in Key : seen'[x] = Never /\ pushedAt'[x] # Never =>
              lastNow' # Never /\ pushedAt'[x] + Window < lastNow'
      <4>1. ASSUME NEW x \in Key, seen'[x] = Never, pushedAt'[x] # Never
            PROVE  pushedAt[x] + Window < now
        <5>1. x # k /\ (seen[x] = Never \/ Forgotten(seen[x], now))
          BY <3>1, <3>4, <4>1
        <5>2. CASE seen[x] = Never
          BY <2>3, <2>7, <4>1, <5>2
        <5>3. CASE seen[x] # Never
          BY <2>5, <5>1, <5>3 DEF Forgotten
        <5> QED
          BY <5>2, <5>3
      <4> QED
        BY <2>3, <3>4, <4>1
    <3>7. WindowInv'
      BY <2>3, <3>2, <3>3, <3>4, <3>5, <3>6 DEF WindowInv
    <3> QED
      BY <2>3, <3>7
  <2> QED
    BY <2>8, <2>9
<1>4. ASSUME NEW t \in Thread, Push(t)
      PROVE  WindowInv' /\ Grows
  <2> DEFINE now == call[t].now
             k == KeyOf[call[t].envelope]
  <2>1. call[t] # Idle /\ InPhase(t, "push") /\ {"refused", "evicted", "pop"} \subseteq Phase
    BY <1>4 DEF Push, InPhase, Phase
  <2>2. now \in Nat /\ k \in Key
    BY <1>1, <1>4, <2>1, PushCases
  <2>3. UNCHANGED lastNow
    BY <1>4, PushCases
  <2>4. \A u \in Thread : InPhase(u, "push") => u = t
    BY <2>1, OneCall DEF InPhase
  <2>5. /\ seen[k] = now /\ lastNow = now
        /\ pushedAt[k] # Never => pushedAt[k] + Window < now
    BY <2>1 DEF WindowInv
  <2>6. \A x \in Key : x # k /\ seen[x] # Never => pushedAt[x] = seen[x]
    BY <2>4 DEF WindowInv
  <2>7. \A x \in Key : seen[x] = Never /\ pushedAt[x] # Never =>
            lastNow # Never /\ pushedAt[x] + Window < lastNow
    BY DEF WindowInv
  <2>8. \A u \in Thread : ~InPhase(u, "push")'
    <3>1. Advance(t, "refused") \/ Advance(t, "evicted") \/ Advance(t, "pop") \/ Leave(t)
      BY <1>4, PushCases
    <3> QED
      BY <2>1, <3>1, OneCall, AdvanceFacts, LeaveFacts DEF InPhase
  <2>9. \/ /\ seen' = [seen EXCEPT ![k] = IF seen[k] = now THEN Never ELSE seen[k]]
           /\ UNCHANGED pushedAt
        \/ seen' = seen /\ pushedAt' = [pushedAt EXCEPT ![k] = now]
    BY <1>4, PushCases
  <2> HIDE DEF now, k
  <2>10. CASE /\ seen' = [seen EXCEPT ![k] = IF seen[k] = now THEN Never ELSE seen[k]]
              /\ UNCHANGED pushedAt
    <3>1. seen'[k] = Never /\ \A x \in Key : x # k => seen'[x] = seen[x]
      BY <1>1, <2>2, <2>5, <2>10
    <3>2. \A x \in Key : seen'[x] # Never => pushedAt'[x] = seen'[x]
      BY <2>6, <2>10, <3>1
    <3>3. \A x \in Key : seen'[x] = Never /\ pushedAt'[x] # Never =>
              lastNow' # Never /\ pushedAt'[x] + Window < lastNow'
      BY <1>1, <2>2, <2>3, <2>5, <2>7, <2>10, <3>1
    <3>4. WindowInv'
      BY <2>8, <3>2, <3>3 DEF WindowInv
    <3> QED
      BY <2>10, <3>4
  <2>11. CASE seen' = seen /\ pushedAt' = [pushedAt EXCEPT ![k] = now]
    <3>1. pushedAt'[k] = now /\ \A x \in Key : x # k => pushedAt'[x] = pushedAt[x]
      BY <1>1, <2>2, <2>11
    <3>2. \A x \in Key : seen'[x] # Never => pushedAt'[x] = seen'[x]
      BY <2>5, <2>6, <2>11, <3>1
    <3>3. \A x \in Key : seen'[x] = Never /\ pushedAt'[x] # Never =>
              lastNow' # Never /\ pushedAt'[x] + Window < lastNow'
      <4>1. seen[k] # Never
        BY <1>1, <2>2, <2>5
      <4> QED
        BY <2>3, <2>7, <2>11, <3>1, <4>1
    <3>4. WindowInv'
      BY <2>8, <3>2, <3>3 DEF WindowInv
    <3>5. Grows
      <4>1. ASSUME NEW x \in Key, pushedAt'[x] # pushedAt[x], pushedAt[x] # Never
            PROVE  pushedAt'[x] > pushedAt[x] + Window
        <5>1. x = k /\ pushedAt[k] \in Nat /\ pushedAt[k] + Window < now
          BY <1>1, <2>2, <2>5, <3>1, <4>1
        <5>2. now > pushedAt[k] + Window
          BY <1>1, <2>2, <5>1
        <5> QED
          BY <3>1, <5>1, <5>2
      <4> QED
        BY <4>1
    <3> QED
      BY <3>4, <3>5
  <2> QED
    BY <2>9, <2>10, <2>11
<1>5. CASE \E t \in Thread : Accept(t) \/ Push(t)
  BY <1>3, <1>4, <1>5
<1> QED
  BY <1>2, <1>5, WindowSteps

-----------------------------------------------------------------------------
(* The theorems.                                                           *)

\* The parts hold from the start and together pass every step.
LEMMA RuntimeInvariance == RuntimeSpec => []RuntimeInv
<1>1. RuntimeInit => RuntimeInv
  <2> SUFFICES ASSUME RuntimeInit
               PROVE  RuntimeInv
    OBVIOUS
  <2>1. RuntimeTypeOK
    BY QueueSizes DEF RuntimeInit, RuntimeTypeOK
  <2>2. LockInv /\ HandInv
    BY DEF RuntimeInit, LockInv, HandInv, InPhase
  <2>3. \A u \in Thread : call[u] = Idle
    BY DEF RuntimeInit
  <2>4. Cardinality(InHand) = 0
    BY <2>3, EmptyHandCount DEF InHand
  <2>5. Accounted
    BY <2>4 DEF Accounted, RuntimeInit
  <2>6. UrgentInv
    BY <2>3 DEF RuntimeInit, UrgentInv, Serving, InPhase
  <2>7. WindowInv
    BY <2>3 DEF RuntimeInit, WindowInv, InPhase
  <2> QED
    BY <2>1, <2>2, <2>5, <2>6, <2>7 DEF RuntimeInv
<1>2. RuntimeInv /\ [RuntimeNext]_runtimeVars => RuntimeInv'
  BY LockStep, RuntimeTypeStep, AccountedStep, UrgentStep, WindowStep DEF RuntimeInv
<1> QED
  BY <1>1, <1>2, PTL DEF RuntimeSpec

\* The queue never exceeds its size and every variable keeps its type, whatever
\* increments fail in the middle of a call (RadarRuntime.admit, dispatch_next).
THEOREM RuntimeTypeCorrect == RuntimeSpec => []RuntimeTypeOK
<1>1. RuntimeInv => RuntimeTypeOK
  BY DEF RuntimeInv
<1> QED
  BY <1>1, RuntimeInvariance, PTL

\* Every envelope that entered admission is counted, queued, in hand or was with a
\* call that raised, exactly one of them (the counters of RadarRuntime.admit and
\* dispatch_next over PriorityQueue).
THEOREM EnvelopesAreAccounted == RuntimeSpec => []Accounted
<1>1. RuntimeInv => Accounted
  BY DEF RuntimeInv
<1> QED
  BY <1>1, RuntimeInvariance, PTL

\* As long as no increment raised, the call that admits an urgent envelope
\* dispatches that one, and none is left when it ends (runtime.py, admit).
THEOREM UrgentIsServed == RuntimeSpec => []UrgentIsServedUnlessCountingFails
<1>1. ASSUME RuntimeInv
      PROVE  UrgentIsServedUnlessCountingFails
  <2> SUFFICES ASSUME failures = 0
               PROVE  /\ holder = Free => \A i \in 1..Len(queue) : ~Urgent(queue[i])
                      /\ \A t \in Thread : InPhase(t, "popped") /\ call[t].envelope # Idle =>
                             popped[t] = call[t].envelope
    BY DEF UrgentIsServedUnlessCountingFails
  <2>1. holder = Free => \A i \in 1..Len(queue) : ~Urgent(queue[i])
    BY <1>1, NoCall, NoneQueued DEF RuntimeInv
  <2> QED
    BY <1>1, <2>1 DEF RuntimeInv, UrgentInv
<1> QED
  BY <1>1, RuntimeInvariance, PTL

\* The window holds what was queued and lets a payload in again only when the
\* window is over, for every order of the threads' clock readings
\* (DedupeWindow.accept and rollback_accept).
THEOREM WindowIsExact == RuntimeSpec => WindowHoldsWhatWasQueued
<1>1. ASSUME RuntimeInv, [RuntimeNext]_runtimeVars
      PROVE  [\A k \in Key :
                 /\ pushedAt'[k] # pushedAt[k] /\ pushedAt[k] # Never =>
                        pushedAt'[k] > pushedAt[k] + Window
                 /\ seen'[k] # Never =>
                        \/ pushedAt'[k] = seen'[k]
                        \/ \E t \in Thread : InPhase(t, "push")' /\ KeyOf[call'[t].envelope] = k]_runtimeVars
  <2>1. /\ WindowInv'
        /\ \A k \in Key : pushedAt'[k] # pushedAt[k] /\ pushedAt[k] # Never =>
               pushedAt'[k] > pushedAt[k] + Window
    BY <1>1, WindowStep DEF RuntimeInv
  <2> QED
    BY <2>1 DEF WindowInv
<1> QED
  BY <1>1, RuntimeInvariance, PTL DEF RuntimeSpec, WindowHoldsWhatWasQueued
=============================================================================
