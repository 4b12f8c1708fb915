--------------------------- MODULE FirefoxTarget ---------------------------
(***************************************************************************)
(* One Firefox window as src/radar/windows_firefox_target.py reads and     *)
(* drives it through UI Automation, with everybody who shares it: the user *)
(* of the workstation changes tabs and pages at any time, and anybody may  *)
(* put the text of an acknowledgement anywhere.                            *)
(*                                                                         *)
(* Finding a control and acting on it is one step.  A draft stays with the *)
(* conversation it was typed in.  Nobody but a relay presses Enter.        *)
(***************************************************************************)
EXTENDS Naturals, Sequences

CONSTANTS
    Tab, Conversation,
    TitleOf,      \* titles need not be unique
    Text,         \* transport texts
    Empty,        \* an empty composer
    MaxMoves, MaxAcks  \* bounds: moves of the user, acknowledgement texts

\* The status line of an acknowledgement; MISMATCH is any other wording of it.
Status == {"RECEIVED_VERIFIED", "HOLD_SOURCE_UNVERIFIED", "MISMATCH"}

ASSUME ConversationsTitled == DOMAIN TitleOf = Conversation
ASSUME EmptyIsNoText == Empty \notin Text
ASSUME WindowBounds == MaxMoves \in Nat /\ MaxAcks \in Nat

VARIABLES
    page,     \* the conversation a tab is at
    active,   \* the selected tab
    draft,    \* composers, by tab and conversation
    messages, \* everything Enter has sent, with the text whose relay pressed it
    acks,     \* acknowledgement texts there have been, by the envelope they name
    moves     \* history: moves of the user

window == <<page, active, draft>>
browser == <<window, messages, acks, moves>>

FirefoxTypeOK ==
    /\ page \in [Tab -> Conversation]
    /\ active \in Tab
    /\ draft \in [Tab \X Conversation -> Text \cup {Empty}]
    /\ messages \in Seq([text : Text, place : Conversation, by : Text, moved : 0..3])
    /\ acks \in Seq([text : Text, place : Conversation, status : Status])
    /\ moves \in 0..MaxMoves

FirefoxInit ==
    /\ page \in [Tab -> Conversation]
    /\ active \in Tab
    /\ draft = [w \in Tab \X Conversation |-> Empty]
    /\ messages = <<>>
    /\ acks = <<>>
    /\ moves \in 0..MaxMoves  \* what is left of the bound

-----------------------------------------------------------------------------
(* The driver.                                                             *)

\* The address bar belongs to the window: it shows where the selected tab is.
Address == page[active]

\* The document of tab t is told by its name: the visible document that has
\* the title tab t has now.
DocumentShown(t) == TitleOf[Address] = TitleOf[page[t]]
VisibleIdentity(t) == TitleOf[page[t]]

Composer == <<active, Address>>

SelectTab(t) == active' = t

WriteComposer(t, text) ==
    /\ DocumentShown(t)
    /\ draft' = [draft EXCEPT ![Composer] = text]

\* Enter sends what the composer holds, if the page takes it.
Sends(t) == DocumentShown(t) /\ draft[Composer] # Empty

Send(by, moved) ==
    /\ messages' = Append(messages, [text |-> draft[Composer], place |-> Address,
                                     by |-> by, moved |-> moved])
    /\ draft' = [draft EXCEPT ![Composer] = Empty]

\* The accessible texts of a document hold its messages and the values of its
\* controls, the composer's among them.
TextReadable(t, text) ==
    /\ DocumentShown(t)
    /\ \/ draft[Composer] = text
       \/ \E i \in DOMAIN messages : messages[i].text = text /\ messages[i].place = Address

\* The acknowledgements among those texts, in whichever control they are, of
\* the envelopes that are asked for.
Acknowledgements(t, texts) ==
    {i \in DOMAIN acks :
        DocumentShown(t) /\ acks[i].text \in texts /\ acks[i].place = Address}

-----------------------------------------------------------------------------
(* Everybody else.                                                         *)

UserMoves ==
    /\ moves < MaxMoves
    /\ moves' = moves + 1
    /\ \/ \E t \in Tab \ {active} : active' = t /\ UNCHANGED page
       \/ \E c \in Conversation \ {Address} :
              page' = [page EXCEPT ![active] = c] /\ UNCHANGED active
    /\ UNCHANGED <<draft, messages, acks>>

\* An acknowledgement can be put together from an envelope's fields by whoever
\* knows them, sent or left in a control, whether the message arrived or not.
SomebodyAcknowledges ==
    /\ Len(acks) < MaxAcks
    /\ \E e \in Text, c \in Conversation, s \in Status :
           acks' = Append(acks, [text |-> e, place |-> c, status |-> s])
    /\ UNCHANGED <<window, messages, moves>>
=============================================================================
