-------------------------- MODULE DeliveryContract --------------------------
(***************************************************************************)
(* What a sender promises about each of its messages: it posts the message *)
(* a bounded number of times, never again once a post was acknowledged,    *)
(* and gives up only after the last post failed, unless the process that   *)
(* keeps the retry in memory dies.  Messages are independent: a step may   *)
(* move any number of them.                                                *)
(***************************************************************************)
EXTENDS Naturals

CONSTANTS
    Message,    \* one message to one receiver
    MaxPosts    \* how often each message may be posted

VARIABLES
    outcome,    \* how the delivery of each message stands
    posts       \* how often each message was posted

Outcome == {"none", "open", "acked", "givenUp", "lost"}

Init ==
    /\ outcome = [m \in Message |-> "none"]
    /\ posts = [m \in Message |-> 0]

\* The outcome of m moves from one value to another and m is posted n times.
Moves(m, from, to, n) ==
    /\ outcome[m] = from
    /\ outcome'[m] = to
    /\ posts'[m] = posts[m] + n

Open(m) == Moves(m, "none", "open", 1)
Repeat(m) == posts[m] < MaxPosts[m] /\ Moves(m, "open", "open", 1)
Acknowledge(m) == Moves(m, "open", "acked", 0)
GiveUp(m) == posts[m] = MaxPosts[m] /\ Moves(m, "open", "givenUp", 0)
Lose(m) == Moves(m, "open", "lost", 0)
Rest(m) == Moves(m, outcome[m], outcome[m], 0)

Next ==
    \A m \in Message :
        \/ Open(m) \/ Repeat(m) \/ Acknowledge(m) \/ GiveUp(m) \/ Lose(m)
        \/ Rest(m)

Spec == Init /\ [][Next]_<<outcome, posts>>
=============================================================================
