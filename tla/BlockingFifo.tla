---------------------------- MODULE BlockingFifo ----------------------------
(***************************************************************************)
(* What the users of a thdq take it for: a queue with atomic operations,   *)
(* first in, first out, where nothing waits as long as a consumer is free. *)
(*                                                                         *)
(* An item is named for its producer, which has one under way at a time.   *)
(***************************************************************************)
EXTENDS Sequences

CONSTANTS
    Producers,      \* threads that push
    Consumers,      \* threads that pop
    Nobody          \* no item

VARIABLES
    queue,          \* the items, the oldest first
    hand,           \* hand[c]: the item c is busy with, or Nobody
    busy            \* producers that have pushed and not seen the answer

fifoVars == <<queue, hand, busy>>

Queued == {queue[i] : i \in DOMAIN queue}

Init == queue = << >> /\ hand = [c \in Consumers |-> Nobody] /\ busy = {}

Put(p) ==
    /\ p \notin busy
    /\ queue' = Append(queue, p) /\ busy' = busy \cup {p}
    /\ UNCHANGED hand

Take(c) ==
    /\ hand[c] = Nobody /\ queue # << >>
    /\ hand' = [hand EXCEPT ![c] = Head(queue)] /\ queue' = Tail(queue)
    /\ UNCHANGED busy

Finish(c) ==
    /\ hand[c] # Nobody
    /\ hand' = [hand EXCEPT ![c] = Nobody]
    /\ UNCHANGED <<queue, busy>>

Leave(p) ==
    /\ p \in busy \ Queued /\ \A c \in Consumers : hand[c] # p
    /\ busy' = busy \ {p}
    /\ UNCHANGED <<queue, hand>>

Next ==
    \/ \E p \in Producers : Put(p) \/ Leave(p)
    \/ \E c \in Consumers : Take(c) \/ Finish(c)

Safe == Init /\ [][Next]_fifoVars

\* An item is taken as long as there is somebody to take it.
Spec == Safe /\ WF_fifoVars(\E c \in Consumers : Take(c))
=============================================================================
