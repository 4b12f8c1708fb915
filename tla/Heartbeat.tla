----------------------------- MODULE Heartbeat -----------------------------
(***************************************************************************)
(* Heartbeats: src/radar/heartbeat.py over the telemetry store of          *)
(* src/radar/telemetry.py, with the dead letters whose count they carry.   *)
(*                                                                         *)
(* Several schedulers may share one database.  Each reads the wall clock   *)
(* before it begins the transaction that claims a heartbeat, calls the     *)
(* sink outside of any transaction, and may be killed in between.  Any of  *)
(* its calls to the store may fail, which ends it.  The wall clock may be  *)
(* set back; sleeps are measured by a clock that is not.                   *)
(*                                                                         *)
(* Of the three counters, dlq stands for all: they are written and read    *)
(* alike.  Time is counted in units of which Interval make up a minute.    *)
(***************************************************************************)
EXTENDS DeadLetters, Integers

CONSTANTS
    Scheduler, Direct,    \* Direct: a caller of emit_heartbeat
    Interval,             \* HEARTBEAT_INTERVAL_MS
    MaxTime, MaxSetBack, MaxKills, MaxDirect   \* bounds

ASSUME Sizes == Interval \in Nat \ {0}
ASSUME DirectIsNoScheduler == Direct \notin Scheduler
ASSUME BoundsAreNumbers ==
    /\ MaxTime \in Nat /\ MaxSetBack \in Nat /\ MaxKills \in Nat
    /\ MaxLetters \in Nat /\ MaxVerdicts \in Nat

Delivery == {"PENDING", "DELIVERED", "UNCONFIRMED"}
\* effects is history: sink calls that took effect.
Beat == [at : Nat, by : Scheduler \cup {Direct}, dlq : Nat, missed : Nat,
         delivery : Delivery, effects : Nat]
Step == {"clock", "claim", "sink", "confirm", "doubt", "plan", "delay", "asleep",
         "killed", "refused", "failed"}

VARIABLES
    beats,    \* radar_telemetry_heartbeats, by id
    count,    \* the dlq counter
    uncounted,\* dead letters whose increment is still to come, and those it never came for
    sched,    \* the schedulers
    elapsed,  \* time that has passed
    setBack,  \* how far the wall clock was set back
    kills,    \* kills, counted up to the bound
    orphans,  \* history: heartbeats whose scheduler was killed or failed with them
    lagged    \* history: schedulers that read the clock before another's claim

heart == <<beats, sched, kills, orphans, lagged>>
time == <<elapsed, setBack>>
vars == <<dlq, count, uncounted, heart, time>>

Now == elapsed - setBack

TypeOK ==
    /\ DlqTypeOK
    /\ beats \in Seq(Beat)
    /\ count \in 0..MaxLetters
    /\ uncounted \in [going : 0..MaxLetters, lost : 0..MaxLetters]
    /\ sched \in [Scheduler -> [step : Step, now : Nat, beat : Nat]]
    /\ elapsed \in 0..MaxTime
    /\ setBack \in 0..MaxSetBack
    /\ kills \in 0..MaxKills
    /\ orphans \subseteq DOMAIN beats
    /\ lagged \subseteq Scheduler

\* now: the clock reading in use, or when a sleep is over.  beat: the claim.
Fresh == [step |-> "clock", now |-> 0, beat |-> 0]

Init ==
    /\ DlqInit
    /\ beats = <<>>
    /\ count = Len(letters)
    /\ uncounted = [going |-> 0, lost |-> 0]
    /\ sched = [s \in Scheduler |-> Fresh]
    /\ elapsed \in MaxSetBack..MaxTime
    /\ setBack = 0
    /\ kills \in 0..MaxKills
    /\ orphans = {}
    /\ lagged = {}

-----------------------------------------------------------------------------

At(s, step) == sched[s].step = step
Set(s, step, now) == sched' = [sched EXCEPT ![s].step = step, ![s].now = now]
Goto(s, step) == Set(s, step, 0)

\* _last_heartbeat_ms: the latest row by time, and then by id.
HasBeats == beats # <<>>
LastAt == CHOOSE a \in {beats[i].at : i \in DOMAIN beats} :
              \A i \in DOMAIN beats : beats[i].at <= a

\* Faulty variant: the time of the last row is in the past.
RegressedOrSame(now) == HasBeats /\ now <= LastAt
Regressed(now) == HasBeats /\ now < LastAt
\* Faulty variant: the interval is not looked at again in the transaction.
DueUnlessTaken(now) == HasBeats => now # LastAt
Due(now) == HasBeats => now - LastAt >= Interval

Missed(now) ==
    IF HasBeats /\ now - LastAt >= Interval THEN ((now - LastAt) \div Interval) - 1 ELSE 0

\* Faulty variant: the row counts what is in the dead letter store.
CreateFromRows(now, by, delivery) ==
    beats' = Append(beats, [at |-> now, by |-> by, dlq |-> Len(letters), missed |-> Missed(now),
                            delivery |-> delivery, effects |-> 0])
\* _create_heartbeat, when it is due: the row takes a snapshot of the counters.
Create(now, by, delivery) ==
    beats' = Append(beats, [at |-> now, by |-> by, dlq |-> count, missed |-> Missed(now),
                            delivery |-> delivery, effects |-> 0])

\* A claim leaves behind those who have read the clock and not yet used it.
Overtake(by) ==
    lagged' = lagged \cup {s \in Scheduler \ {by} : At(s, "claim") \/ At(s, "delay")}

-----------------------------------------------------------------------------
(* tick() and run_forever().                                               *)

ReadClock(s) ==
    /\ \/ At(s, "clock") /\ Set(s, "claim", Now)
       \/ At(s, "plan") /\ Set(s, "delay", Now)
    /\ lagged' = lagged \ {s}
    /\ UNCHANGED <<beats, kills, orphans>>

\* claim_heartbeat(): BEGIN IMMEDIATE makes it one step.
Claim(s) ==
    /\ At(s, "claim")
    /\ LET now == sched[s].now IN
       \/ Regressed(now) /\ Goto(s, "refused") /\ UNCHANGED <<beats, lagged>>
       \/ ~Regressed(now) /\ ~Due(now) /\ Goto(s, "plan") /\ UNCHANGED <<beats, lagged>>
       \/ /\ ~Regressed(now) /\ Due(now)
          /\ Create(now, s, "PENDING")
          /\ Overtake(s)
          /\ sched' = [sched EXCEPT ![s] = [step |-> "sink", now |-> 0,
                                            beat |-> Len(beats) + 1]]
    /\ UNCHANGED <<kills, orphans>>

\* The sink returns, or raises before or after its effect.
Sink(s) ==
    /\ At(s, "sink")
    /\ \E takesEffect \in BOOLEAN :
           /\ beats' = IF takesEffect THEN [beats EXCEPT ![sched[s].beat].effects = @ + 1]
                       ELSE beats
           /\ \/ takesEffect /\ Goto(s, "confirm")
              \/ Goto(s, "doubt")
    /\ UNCHANGED <<kills, orphans, lagged>>

\* Faulty variant: delivery is confirmed whatever the sink did.
DeliveryAnyway(s) == "DELIVERED"
DeliveryOf(s) == IF At(s, "confirm") THEN "DELIVERED" ELSE "UNCONFIRMED"

\* mark_heartbeat_delivery() finalizes a PENDING row and raises on any other.
Mark(s) ==
    /\ At(s, "confirm") \/ At(s, "doubt")
    /\ LET b == sched[s].beat IN
       IF beats[b].delivery = "PENDING"
       THEN /\ beats' = [beats EXCEPT ![b].delivery = DeliveryOf(s)]
            /\ sched' = [sched EXCEPT ![s] = [step |-> "plan", now |-> 0, beat |-> 0]]
       ELSE Goto(s, "refused") /\ UNCHANGED beats
    /\ UNCHANGED <<kills, orphans, lagged>>

\* milliseconds_until_heartbeat().
Plan(s) ==
    /\ At(s, "delay")
    /\ LET now == sched[s].now IN
       \/ Regressed(now) /\ Goto(s, "refused")
       \/ ~Regressed(now) /\ Due(now) /\ Goto(s, "clock")
       \/ ~Regressed(now) /\ ~Due(now) /\ Set(s, "asleep", elapsed + Interval - (now - LastAt))
    /\ UNCHANGED <<beats, kills, orphans, lagged>>

Wake(s) ==
    /\ At(s, "asleep")
    /\ elapsed >= sched[s].now
    /\ Goto(s, "clock")
    /\ UNCHANGED <<beats, kills, orphans, lagged>>

\* An evidence callable raises before the claim, or a transaction of the store
\* does: it could not begin ("database is locked") or is rolled back.  tick and
\* run_forever let that through, so that a failed mark leaves its row PENDING.
StoreFails(s) ==
    /\ sched[s].step \in {"claim", "confirm", "doubt", "delay"}
    /\ orphans' = orphans \cup ({sched[s].beat} \ {0})
    /\ sched' = [sched EXCEPT ![s] = [Fresh EXCEPT !.step = "failed"]]
    /\ lagged' = lagged \ {s}
    /\ UNCHANGED <<beats, kills>>

\* The process dies, and may be started anew.
Kill(s) ==
    /\ sched[s].step \notin {"killed", "refused", "failed"}
    /\ kills < MaxKills
    /\ kills' = kills + 1
    /\ orphans' = orphans \cup ({sched[s].beat} \ {0})
    /\ sched' = [sched EXCEPT ![s] = [Fresh EXCEPT !.step = "killed"]]
    /\ lagged' = lagged \ {s}
    /\ UNCHANGED beats

Restart(s) ==
    /\ At(s, "killed")
    /\ sched' = [sched EXCEPT ![s] = Fresh]
    /\ UNCHANGED <<beats, kills, orphans, lagged>>

SchedulerStep(s) ==
    /\ ReadClock(s) \/ Claim(s) \/ Sink(s) \/ Mark(s) \/ Plan(s) \/ Wake(s)
    /\ UNCHANGED <<dlq, count, uncounted, time>>

\* emit_heartbeat(): a row that counts as delivered to its caller.
EmitDirectly ==
    /\ Len(SelectSeq(beats, LAMBDA b : b.by = Direct)) < MaxDirect
    /\ ~Regressed(Now) /\ Due(Now)
    /\ Create(Now, Direct, "DELIVERED")
    /\ Overtake(Direct)
    /\ UNCHANGED <<dlq, count, uncounted, sched, kills, orphans, time>>

-----------------------------------------------------------------------------
(* Admission of a dead letter, the clock.                                  *)

\* RadarRuntime.admit records the letter first.
RecordLetter ==
    /\ Len(letters) < MaxLetters
    /\ Record
    /\ uncounted' = [uncounted EXCEPT !.going = @ + 1]
    /\ UNCHANGED <<listed, replays, verdicts, count, heart, time>>

\* Then it counts the letter, unless it is killed or the increment raises.
CountLetter ==
    /\ uncounted.going > 0
    /\ \/ count' = count + 1 /\ uncounted' = [uncounted EXCEPT !.going = @ - 1]
       \/ /\ uncounted' = [going |-> uncounted.going - 1, lost |-> uncounted.lost + 1]
          /\ UNCHANGED count
    /\ UNCHANGED <<dlq, heart, time>>

Tick ==
    /\ elapsed < MaxTime
    /\ elapsed' = elapsed + 1
    /\ UNCHANGED <<dlq, count, uncounted, heart, setBack>>

SetClockBack ==
    /\ setBack < MaxSetBack
    /\ setBack' = setBack + 1
    /\ UNCHANGED <<dlq, count, uncounted, heart, elapsed>>

Next ==
    \/ \E s \in Scheduler : SchedulerStep(s)
    \/ \E s \in Scheduler : /\ StoreFails(s) \/ Kill(s) \/ Restart(s)
                          /\ UNCHANGED <<dlq, count, uncounted, time>>
    \/ EmitDirectly
    \/ RecordLetter \/ CountLetter
    \/ DlqNext /\ UNCHANGED <<count, uncounted, heart, time>>
    \/ Tick \/ SetClockBack

Spec == Init /\ [][Next]_vars

-----------------------------------------------------------------------------
(* Safety.                                                                 *)

\* Rows follow one another by an interval at least, whoever claims them and
\* with whatever reading of the clock; so no two have one message id.  Together
\* with what they report as missed they never exceed the intervals that passed.
BeatsKeepTheInterval ==
    \A i \in 2..Len(beats) :
        LET gap == beats[i].at - beats[i - 1].at IN
        (1 + beats[i].missed) * Interval <= gap /\ gap < (2 + beats[i].missed) * Interval

\* The sink is called once for a heartbeat at most; a DELIVERED row took effect,
\* and a row stays PENDING only while its scheduler works on it, after a kill, or
\* if the store failed when it was to be marked.
DeliveryIsTold ==
    \A i \in DOMAIN beats :
        LET b == beats[i] IN
        /\ b.effects <= 1
        /\ b.delivery = "DELIVERED" => b.effects = 1 \/ b.by = Direct
        /\ b.delivery = "PENDING" => \/ sched[b.by].beat = i
                                     \/ i \in orphans

\* A heartbeat counts no dead letter that was not recorded and counted before,
\* and none that an earlier one counted is missing from it; the letters that the
\* counter lacks are being counted or lost their increment.
CountsAreHonest ==
    /\ Len(letters) = count + uncounted.going + uncounted.lost
    /\ \A i \in DOMAIN beats : beats[i].dlq <= IF i = Len(beats) THEN count
                                                ELSE beats[i + 1].dlq

\* The checks of the store that end a scheduler, HEARTBEAT_CLOCK_REGRESSION and
\* a heartbeat that is not PENDING any more, refuse it only if the clock was set
\* back or another claimed a heartbeat after it had read the clock.  (A store
\* that fails ends it too, at any of its calls: StoreFails.)
RefusedOnlyIfOvertaken ==
    \A s \in Scheduler : At(s, "refused") => setBack > 0 \/ s \in lagged
=============================================================================
