---------------------------- MODULE DeadLetters ----------------------------
(***************************************************************************)
(* The dead letter store of src/radar/dlq.py and the operators who work it *)
(* off.  Every call is one SQLite transaction, so that two operators, each *)
(* with a list it read some time ago, meet in mark_replay.                 *)
(***************************************************************************)
EXTENDS Naturals, Sequences

CONSTANTS
    Operator,
    MaxLetters, MaxVerdicts   \* bounds: rows, calls of set_applicability

Applicability == {"UNKNOWN", "APPLICABLE", "NOT_APPLICABLE"}
ReplayState == {"PENDING", "REPLAYED", "DISCARDED"}
Letter == [applicability : Applicability, replay : ReplayState, retries : Nat]
MAX_RETRIES == 5

VARIABLES
    letters,  \* radar_dead_letters, by item id
    listed,   \* per operator, the items it was given and has not tried yet
    replays,  \* history: items an operator was told to replay
    verdicts  \* calls of set_applicability, counted up to the bound

dlq == <<letters, listed, replays, verdicts>>

DlqTypeOK ==
    /\ letters \in Seq(Letter)
    /\ listed \in [Operator -> SUBSET (1..MaxLetters)]
    /\ replays \in Seq(1..MaxLetters)
    /\ verdicts \in 0..MaxVerdicts

NewLetter == [applicability |-> "UNKNOWN", replay |-> "PENDING", retries |-> 0]

\* The database may hold letters that nobody has looked at.
DlqInit ==
    /\ \E n \in 0..MaxLetters : letters = [i \in 1..n |-> NewLetter]
    /\ listed = [o \in Operator |-> {}]
    /\ replays = <<>>
    /\ verdicts \in 0..MaxVerdicts

-----------------------------------------------------------------------------

\* record(): the columns it does not set take their defaults.
Record == letters' = Append(letters, NewLetter)

SetApplicability ==
    /\ verdicts < MaxVerdicts
    /\ verdicts' = verdicts + 1
    /\ \E i \in DOMAIN letters, a \in {"APPLICABLE", "NOT_APPLICABLE"} :
           letters' = [letters EXCEPT ![i].applicability = a]
    /\ UNCHANGED <<listed, replays>>

Ready(i) == letters[i].applicability = "APPLICABLE" /\ letters[i].replay = "PENDING"

ListPendingApplicable(o) ==
    /\ listed[o] = {}
    /\ listed' = [listed EXCEPT ![o] = {i \in DOMAIN letters : Ready(i)}]
    /\ UNCHANGED <<letters, replays, verdicts>>

\* Faulty variant: what was on the list when it was read may be replayed.
WasListed(i) == i \in DOMAIN letters
MayReplay(i) == Ready(i) /\ letters[i].retries < MAX_RETRIES

\* mark_replay(): who may not replay gets an exception.
MarkReplay(o) ==
    \E i \in listed[o] :
        /\ listed' = [listed EXCEPT ![o] = @ \ {i}]
        /\ IF MayReplay(i)
           THEN /\ letters' = [letters EXCEPT ![i].replay = "REPLAYED", ![i].retries = @ + 1]
                /\ replays' = Append(replays, i)
           ELSE UNCHANGED <<letters, replays>>
        /\ UNCHANGED verdicts

DlqNext ==
    \/ SetApplicability
    \/ \E o \in Operator : ListPendingApplicable(o) \/ MarkReplay(o)

-----------------------------------------------------------------------------

\* Two operators never replay one letter, whatever lists they hold, and none
\* replays a letter whose verdict was withdrawn before its turn came.
ReplayedOnceWhileApplicable ==
    [][\A i \in 1..Len(replays') : i > Len(replays) =>
           /\ letters[replays'[i]].applicability = "APPLICABLE"
           /\ \A j \in 1..Len(replays) : replays[j] # replays'[i]]_dlq
=============================================================================
