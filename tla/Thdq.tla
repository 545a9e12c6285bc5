-------------------------------- MODULE Thdq --------------------------------
(***************************************************************************)
(* thdq: a queue, a mutex and a condition variable.  Its users are the two *)
(* hash pools: client threads push, one job each, and wait for the answer; *)
(* hash threads pop, work, answer and pop again.                           *)
(*                                                                         *)
(* The condition variable is the set of threads asleep in it: to wait is   *)
(* to leave the mutex and go to sleep at once, a notification wakes one of *)
(* them if there are any and is forgotten if not, and a thread may wake    *)
(* for no reason.  Whoever wakes has to take the mutex first.              *)
(***************************************************************************)
EXTENDS Integers, Sequences, FiniteSets

CONSTANTS
    Producers,      \* client pool threads
    Consumers,      \* hash threads
    Nobody          \* no item, no thread

ASSUME ThdqAssumption ==
    /\ IsFiniteSet(Producers) /\ IsFiniteSet(Consumers)
    /\ Nobody \notin Producers \cup Consumers
    /\ Producers \cap Consumers = {}

VARIABLES
    queue,          \* queue_
    mutex,          \* who holds mutex_
    pc,             \* pc[t]: where thread t stands
    hand,           \* hand[c]: the item c has popped
    answered        \* producers whose item is done with

vars == <<queue, mutex, pc, hand, answered>>
Threads == Producers \cup Consumers

Init ==
    /\ queue = << >> /\ mutex = Nobody
    /\ pc = [t \in Threads |-> IF t \in Producers THEN "idle" ELSE "call"]
    /\ hand = [c \in Consumers |-> Nobody] /\ answered = {}

At(t, where) == pc[t] = where
Go(t, where) == pc' = [pc EXCEPT ![t] = where]

-----------------------------------------------------------------------------
(* push                                                                    *)

PushLock(p) ==
    /\ At(p, "idle") /\ mutex = Nobody
    /\ mutex' = p /\ Go(p, "push")
    /\ UNCHANGED <<queue, hand, answered>>

Push(p) ==
    /\ At(p, "push")
    /\ queue' = Append(queue, p) /\ Go(p, "unlock")
    /\ UNCHANGED <<mutex, hand, answered>>

\* mlock.unlock()
PushUnlock(p) ==
    /\ At(p, "unlock")
    /\ mutex' = Nobody /\ Go(p, "notify")
    /\ UNCHANGED <<queue, hand, answered>>

Asleep == {c \in Consumers : At(c, "asleep")}

\* Slip: one item in the queue, one notification.
PushNotifyFirst(p) ==
    /\ At(p, "notify")
    /\ \/ /\ Len(queue) = 1
          /\ \E c \in Asleep : pc' = [pc EXCEPT ![p] = "wait", ![c] = "awake"]
       \/ (Len(queue) # 1 \/ Asleep = {}) /\ Go(p, "wait")
    /\ UNCHANGED <<queue, mutex, hand, answered>>

\* cond_.notify_one(), outside the mutex.
PushNotify(p) ==
    /\ At(p, "notify")
    /\ \/ \E c \in Asleep : pc' = [pc EXCEPT ![p] = "wait", ![c] = "awake"]
       \/ Asleep = {} /\ Go(p, "wait")
    /\ UNCHANGED <<queue, mutex, hand, answered>>

\* future.wait() returns.
Return(p) ==
    /\ At(p, "wait") /\ p \in answered
    /\ answered' = answered \ {p} /\ Go(p, "idle")
    /\ UNCHANGED <<queue, mutex, hand>>

-----------------------------------------------------------------------------
(* pop                                                                     *)

\* Slip: if for while.  front() of an empty queue is no item.
PopLockUntested(c) ==
    /\ mutex = Nobody
    /\ mutex' = c
    /\ \/ At(c, "call") /\ Go(c, "test") /\ UNCHANGED <<queue, hand>>
       \/ /\ At(c, "awake") /\ Go(c, "leave")
          /\ hand' = [hand EXCEPT ![c] = IF queue = << >> THEN c ELSE Head(queue)]
          /\ queue' = IF queue = << >> THEN << >> ELSE Tail(queue)
    /\ UNCHANGED answered

\* On entry, and on the way out of wait().
PopLock(c) ==
    /\ At(c, "call") \/ At(c, "awake")
    /\ mutex = Nobody
    /\ mutex' = c /\ Go(c, "test")
    /\ UNCHANGED <<queue, hand, answered>>

\* cond_.wait(mlock)
PopWait(c) ==
    /\ At(c, "test") /\ queue = << >>
    /\ mutex' = Nobody /\ Go(c, "asleep")
    /\ UNCHANGED <<queue, hand, answered>>

\* For no reason.
PopWake(c) ==
    /\ At(c, "asleep") /\ Go(c, "awake")
    /\ UNCHANGED <<queue, mutex, hand, answered>>

Pop(c) ==
    /\ At(c, "test") /\ queue # << >>
    /\ hand' = [hand EXCEPT ![c] = Head(queue)] /\ queue' = Tail(queue)
    /\ Go(c, "leave")
    /\ UNCHANGED <<mutex, answered>>

\* mlock goes out of scope.
PopUnlock(c) ==
    /\ At(c, "leave")
    /\ mutex' = Nobody /\ Go(c, "work")
    /\ UNCHANGED <<queue, hand, answered>>

\* set_value, and back to pop.
Answer(c) ==
    /\ At(c, "work")
    /\ answered' = answered \cup {hand[c]}
    /\ hand' = [hand EXCEPT ![c] = Nobody] /\ Go(c, "call")
    /\ UNCHANGED <<queue, mutex>>

-----------------------------------------------------------------------------

Producer(p) == Push(p) \/ PushUnlock(p) \/ PushNotify(p) \/ Return(p)
Consumer(c) == PopWait(c) \/ Pop(c) \/ PopUnlock(c) \/ Answer(c)
Lock == (\E p \in Producers : PushLock(p)) \/ (\E c \in Consumers : PopLock(c))

Next ==
    \/ Lock
    \/ \E p \in Producers : Producer(p)
    \/ \E c \in Consumers : Consumer(c) \/ PopWake(c)

\* Threads run; a free mutex goes to one of those that want it, to no one in
\* particular.
Fairness ==
    /\ WF_vars(Lock)
    /\ \A p \in Producers : WF_vars(Producer(p))
    /\ \A c \in Consumers : WF_vars(Consumer(c))

Spec == Init /\ [][Next]_vars /\ Fairness

-----------------------------------------------------------------------------
(* Properties.                                                             *)

Inside(t) == pc[t] \in {"push", "unlock", "test", "leave"}

\* Every variable has its type, and the mutex is held by who is inside.
TypeOK ==
    /\ queue \in Seq(Producers) /\ mutex \in Threads \cup {Nobody}
    /\ \A p \in Producers : pc[p] \in {"idle", "push", "unlock", "notify", "wait"}
    /\ \A c \in Consumers : pc[c] \in {"call", "test", "asleep", "awake", "leave", "work"}
    /\ hand \in [Consumers -> Producers \cup {Nobody}] /\ answered \subseteq Producers
    /\ \A t \in Threads : Inside(t) <=> mutex = t

\* No hash thread sleeps through work: as long as one is asleep, there is for
\* every item of the queue a notification still to be sent or another thread on
\* its way to the queue.
SleepersAreSpare ==
    Asleep # {} =>
        Len(queue) <= Cardinality({p \in Producers : pc[p] \in {"unlock", "notify"}})
                        + Cardinality({c \in Consumers : pc[c] \in {"call", "awake", "test"}})

Fifo == INSTANCE BlockingFifo WITH
    busy <- {p \in Producers : pc[p] \in {"unlock", "notify", "wait"}}

\* The mutex and the condition variable make the queue atomic: items come out in
\* the order they went in, once each, and none is left while a thread is free.
KeepsFifo == Fifo!Spec
=============================================================================
