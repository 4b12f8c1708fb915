-------------------------- MODULE MCMessagePlanes --------------------------
(* MessagePlanes on small instances. *)
EXTENDS MessagePlanes

CONSTANTS f1, f2, f3, f4, f5, m1, m2, m3, m4, m5, i1, i2, a1, b1, b2

Places == f1 :> 5 @@ f2 :> 4 @@ f3 :> 3 @@ f4 :> 2 @@ f5 :> 1
Assignees == b1 :> i1 @@ b2 :> i2

Message(id, sender, answers, envelope) ==
    [id |-> id, sender |-> sender, audience |-> {i1, i2} \ {sender},
     answers |-> answers, envelope |-> envelope]
Event(binding, after) == [assignment |-> a1, binding |-> binding, after |-> after]

\* f1 starts the assignment and f2 follows it.  f3 goes on, or forks, or waits
\* for the collision f4 under its qualified id.  f4 declares the id of f2, or
\* one of its own, and goes on, forks, rebinds, is a second root, malformed, or
\* a plain message.  f5 answers f2, f4 or both.
MCCorpora ==
    {f1 :> Message(m1, i1, {}, Event(b1, None)) @@
     f2 :> Message(m2, i2, {}, Event(b1, m1)) @@
     f3 :> Message(m3, i1, {m1}, Event(b1, after3)) @@
     f4 :> Message(id4, i2, {}, envelope4) @@
     f5 :> Message(m5, i1, answers5, NoEnvelope) :
        after3 \in {m1, m2, f4}, id4 \in {m2, m4},
        envelope4 \in {NoEnvelope, Malformed, Event(b1, m1), Event(b1, m3),
                      Event(b2, m2), Event(b1, None)},
        answers5 \in {{m2}, {m2, f4}, {m2, m4}}}
=============================================================================
