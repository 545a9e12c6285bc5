----------------------------- MODULE ThdqProofs -----------------------------
(***************************************************************************)
(* thdq: the mutex excludes, no hash thread sleeps through work, and seen  *)
(* from outside the queue is atomic, for any number of threads.            *)
(***************************************************************************)
EXTENDS Thdq, FiniteSetTheorems, TLAPS

ProducerPcs == {"idle", "push", "unlock", "notify", "wait"}
ConsumerPcs == {"call", "test", "asleep", "awake", "leave", "work"}

\* A producer is busy from its append to the end of its wait.
Busy == {p \in Producers : pc[p] \in {"unlock", "notify", "wait"}}

\* A consumer has an item when it has left the queue with one, and not before.
HandsOK ==
    /\ pc \in [Threads -> ProducerPcs \cup ConsumerPcs]
    /\ \A c \in Consumers : hand[c] # Nobody <=> pc[c] \in {"leave", "work"}

\* The item of a busy producer is in one place: once in the queue, in one hand,
\* or answered; that of another is nowhere.
ItemsOK ==
    /\ \A i \in DOMAIN queue : queue[i] \in Busy \ answered
    /\ \A i, j \in DOMAIN queue : queue[i] = queue[j] => i = j
    /\ \A c \in Consumers : hand[c] # Nobody =>
          /\ hand[c] \in Busy \ answered
          /\ \A i \in DOMAIN queue : queue[i] # hand[c]
          /\ \A d \in Consumers : hand[d] = hand[c] => d = c
    /\ answered \subseteq Busy

IInv == TypeOK /\ HandsOK /\ ItemsOK

LEMMA InitIInv == Init => IInv
  BY ThdqAssumption
  DEF Init, IInv, TypeOK, HandsOK, ItemsOK, Inside, Threads, Busy, ProducerPcs, ConsumerPcs

-----------------------------------------------------------------------------
(* Typing and mutual exclusion.                                            *)

\* A thread that moves inside the mutex, or outside of it.
LEMMA MoveType ==
    ASSUME IInv, NEW t \in Threads, NEW where, Go(t, where),
           t \in Producers => where \in ProducerPcs,
           t \in Consumers => where \in ConsumerPcs
    PROVE  /\ pc' \in [Threads -> ProducerPcs \cup ConsumerPcs]
           /\ \A p \in Producers : pc'[p] \in ProducerPcs
           /\ \A c \in Consumers : pc'[c] \in ConsumerPcs
           /\ pc'[t] = where /\ \A u \in Threads \ {t} : pc'[u] = pc[u]
  BY ThdqAssumption DEF IInv, TypeOK, HandsOK, Go, Threads, ProducerPcs, ConsumerPcs

\* Whoever takes the free mutex or releases its own is the one inside.
LEMMA MutexKept ==
    ASSUME IInv, NEW t \in Threads, NEW where, pc'[t] = where,
           \A u \in Threads \ {t} : pc'[u] = pc[u],
           \/ mutex = Nobody /\ mutex' = t /\ where \in {"push", "test"}
           \/ mutex = t /\ mutex' = Nobody /\ where \notin {"push", "unlock", "test", "leave"}
           \/ mutex = t /\ mutex' = t /\ where \in {"push", "unlock", "test", "leave"}
           \/ /\ mutex # t /\ mutex' = mutex
              /\ where \notin {"push", "unlock", "test", "leave"}
    PROVE  /\ mutex' \in Threads \cup {Nobody}
           /\ \A u \in Threads : Inside(u)' <=> mutex' = u
  BY ThdqAssumption DEF IInv, TypeOK, Inside, Threads

\* A step that moves one thread, and no item in or out of the queue or a hand.
LEMMA MoveItems ==
    ASSUME IInv, NEW t \in Threads, NEW where, Go(t, where), UNCHANGED <<queue, hand>>,
           t \in Producers => where \in ProducerPcs,
           t \in Consumers => where \in ConsumerPcs,
           where \in {"leave", "work"} <=> pc[t] \in {"leave", "work"},
           \/ UNCHANGED answered /\ (pc[t] \in {"unlock", "notify", "wait"}
                                        => where \in {"unlock", "notify", "wait"})
           \/ t \in answered /\ answered' = answered \ {t}
    PROVE  HandsOK' /\ ItemsOK'
<1>1. /\ pc' \in [Threads -> ProducerPcs \cup ConsumerPcs]
      /\ pc'[t] = where /\ \A u \in Threads \ {t} : pc'[u] = pc[u]
  BY MoveType
<1>2. HandsOK'
  BY <1>1 DEF IInv, HandsOK, Threads
<1>3. \A p \in Busy \ answered : p \in Busy' \ answered'
  BY <1>1 DEF Busy, Threads
<1>4. answered' \subseteq Busy'
  BY <1>1 DEF IInv, ItemsOK, Busy, Threads
<1>5. QED
  BY <1>2, <1>3, <1>4 DEF IInv, ItemsOK

-----------------------------------------------------------------------------
(* Every step.                                                             *)

LEMMA ProducerInv ==
    ASSUME IInv, NEW p \in Producers, Producer(p) \/ PushLock(p)
    PROVE  IInv'
<1> USE DEF At
<1>0. p \in Threads /\ p \notin Consumers
  BY ThdqAssumption DEF Threads
<1>1. CASE PushLock(p)
  <2>1. Go(p, "push") /\ mutex = Nobody /\ mutex' = p /\ UNCHANGED <<queue, hand, answered>>
    BY <1>1 DEF PushLock
  <2>2. HandsOK' /\ ItemsOK'
    BY <1>0, <1>1, <2>1, MoveItems DEF PushLock, ProducerPcs
  <2>3. TypeOK'
    BY <1>0, <2>1, MoveType, MutexKept DEF IInv, TypeOK, ProducerPcs, ConsumerPcs
  <2>4. QED
    BY <2>2, <2>3 DEF IInv
<1>2. CASE Push(p)
  <2>1. Go(p, "unlock") /\ mutex = p /\ UNCHANGED <<mutex, hand, answered>>
    BY <1>0, <1>2 DEF Push, IInv, TypeOK, Inside
  <2>2. /\ pc' \in [Threads -> ProducerPcs \cup ConsumerPcs]
        /\ pc'[p] = "unlock" /\ \A u \in Threads \ {p} : pc'[u] = pc[u]
    BY <1>0, <2>1, MoveType DEF ProducerPcs
  <2>3. TypeOK'
    <3>1. queue' \in Seq(Producers)
      BY <1>2 DEF Push, IInv, TypeOK
    <3>2. QED
      BY <1>0, <2>1, <3>1, MoveType, MutexKept DEF IInv, TypeOK, ProducerPcs, ConsumerPcs
  <2>4. HandsOK'
    BY <1>0, <2>1, <2>2 DEF IInv, HandsOK, Threads
  <2>5. ItemsOK'
    <3>1. \A i \in DOMAIN queue' : \/ i \in DOMAIN queue /\ queue'[i] = queue[i]
                                   \/ i = Len(queue) + 1 /\ queue'[i] = p
      BY <1>2 DEF Push, IInv, TypeOK
    <3>2. p \notin Busy /\ Busy' = Busy \cup {p}
      BY <1>0, <1>2, <2>2 DEF Push, Busy, Threads
    <3>3. QED
      BY <2>1, <3>1, <3>2 DEF IInv, ItemsOK
  <2>6. QED
    BY <2>3, <2>4, <2>5 DEF IInv
<1>3. CASE PushUnlock(p)
  <2>1. Go(p, "notify") /\ mutex = p /\ mutex' = Nobody /\ UNCHANGED <<queue, hand, answered>>
    BY <1>0, <1>3 DEF PushUnlock, IInv, TypeOK, Inside
  <2>2. HandsOK' /\ ItemsOK'
    BY <1>0, <1>3, <2>1, MoveItems DEF PushUnlock, ProducerPcs
  <2>3. TypeOK'
    BY <1>0, <2>1, MoveType, MutexKept DEF IInv, TypeOK, ProducerPcs, ConsumerPcs
  <2>4. QED
    BY <2>2, <2>3 DEF IInv
<1>4. CASE PushNotify(p)
  <2>1. mutex # p /\ UNCHANGED <<queue, mutex, hand, answered>>
    BY <1>0, <1>4, ThdqAssumption DEF PushNotify, IInv, TypeOK, Inside
  <2>2. CASE Go(p, "wait")
    <3>1. HandsOK' /\ ItemsOK'
      BY <1>0, <1>4, <2>1, <2>2, MoveItems DEF PushNotify, ProducerPcs
    <3>2. TypeOK'
      BY <1>0, <2>1, <2>2, MoveType, MutexKept DEF IInv, TypeOK, ProducerPcs, ConsumerPcs
    <3>3. QED
      BY <3>1, <3>2 DEF IInv
  <2>3. ASSUME NEW c \in Asleep, pc' = [pc EXCEPT ![p] = "wait", ![c] = "awake"]
        PROVE  IInv'
    <3>1. /\ pc' \in [Threads -> ProducerPcs \cup ConsumerPcs]
          /\ pc[p] = "notify" /\ pc'[p] = "wait"
          /\ c \in Consumers /\ pc[c] = "asleep" /\ pc'[c] = "awake"
          /\ \A u \in Threads \ {p, c} : pc'[u] = pc[u]
      BY <1>0, <1>4, <2>3 DEF PushNotify, Asleep, IInv, HandsOK, Threads, ProducerPcs, ConsumerPcs
    <3>2. Busy' = Busy
      BY <1>0, <3>1, ThdqAssumption DEF Busy, Threads
    <3>3. TypeOK'
      BY <1>0, <2>1, <3>1, ThdqAssumption DEF IInv, TypeOK, Inside, Threads
    <3>4. HandsOK'
      BY <1>0, <2>1, <3>1 DEF IInv, HandsOK, Threads
    <3>5. ItemsOK'
      BY <2>1, <3>2 DEF IInv, ItemsOK
    <3>6. QED
      BY <3>3, <3>4, <3>5 DEF IInv
  <2>4. QED
    BY <1>4, <2>2, <2>3 DEF PushNotify
<1>5. CASE Return(p)
  <2>1. /\ Go(p, "idle") /\ mutex # p /\ UNCHANGED <<queue, mutex, hand>>
        /\ p \in answered /\ answered' = answered \ {p}
    BY <1>0, <1>5, ThdqAssumption DEF Return, IInv, TypeOK, Inside
  <2>2. HandsOK' /\ ItemsOK'
    BY <1>0, <1>5, <2>1, MoveItems DEF Return, ProducerPcs
  <2>3. TypeOK'
    BY <1>0, <2>1, MoveType, MutexKept DEF IInv, TypeOK, ProducerPcs, ConsumerPcs
  <2>4. QED
    BY <2>2, <2>3 DEF IInv
<1>6. QED
  BY <1>1, <1>2, <1>3, <1>4, <1>5 DEF Producer

LEMMA ConsumerInv ==
    ASSUME IInv, NEW c \in Consumers, Consumer(c) \/ PopLock(c) \/ PopWake(c)
    PROVE  IInv'
<1> USE DEF At
<1>0. c \in Threads /\ c \notin Producers
  BY ThdqAssumption DEF Threads
<1>1. ASSUME NEW where \in {"test", "asleep", "awake"}, Go(c, where),
             pc[c] \notin {"leave", "work"}, UNCHANGED <<queue, hand, answered>>,
             \/ mutex = Nobody /\ mutex' = c /\ where = "test"
             \/ mutex = c /\ mutex' = Nobody /\ where = "asleep"
             \/ mutex # c /\ mutex' = mutex /\ where = "awake"
      PROVE  IInv'
  <2>1. HandsOK' /\ ItemsOK'
    BY <1>0, <1>1, MoveItems DEF IInv, TypeOK, ConsumerPcs
  <2>2. TypeOK'
    BY <1>0, <1>1, MoveType, MutexKept DEF IInv, TypeOK, ProducerPcs, ConsumerPcs
  <2>3. QED
    BY <2>1, <2>2 DEF IInv
<1>2. CASE PopLock(c)
  BY <1>1, <1>2 DEF PopLock
<1>3. CASE PopWait(c)
  BY <1>0, <1>1, <1>3 DEF PopWait, IInv, TypeOK, Inside
<1>4. CASE PopWake(c)
  BY <1>0, <1>1, <1>4, ThdqAssumption DEF PopWake, IInv, TypeOK, Inside
<1>5. CASE Pop(c)
  <2>1. /\ Go(c, "leave") /\ mutex = c /\ UNCHANGED <<mutex, answered>>
        /\ hand' = [hand EXCEPT ![c] = queue[1]] /\ pc[c] = "test" /\ hand[c] = Nobody
        /\ 1 \in DOMAIN queue /\ queue[1] \in Producers
    BY <1>0, <1>5 DEF Pop, IInv, TypeOK, HandsOK, Inside
  <2>2. /\ pc' \in [Threads -> ProducerPcs \cup ConsumerPcs]
        /\ pc'[c] = "leave" /\ \A u \in Threads \ {c} : pc'[u] = pc[u]
    BY <1>0, <2>1, MoveType DEF ConsumerPcs
  <2>3. /\ queue' \in Seq(Producers)
        /\ \A i \in DOMAIN queue' : i + 1 \in DOMAIN queue /\ queue'[i] = queue[i + 1] /\ i + 1 # 1
                                    /\ i \in Nat
    BY <1>5 DEF Pop, IInv, TypeOK
  <2>4. TypeOK'
    BY <1>0, <2>1, <2>3, MoveType, MutexKept DEF IInv, TypeOK, ProducerPcs, ConsumerPcs
  <2>5. HandsOK'
    BY <1>0, <2>1, <2>2, ThdqAssumption DEF IInv, TypeOK, HandsOK, Threads
  <2>6. Busy' = Busy
    BY <1>0, <2>2 DEF Busy, Threads
  <2>7. /\ \A i \in DOMAIN queue' : queue'[i] \in Busy \ answered /\ queue'[i] # queue[1]
        /\ \A i, j \in DOMAIN queue' : queue'[i] = queue'[j] => i = j
    BY <2>1, <2>3 DEF IInv, ItemsOK
  <2>8. \A d \in Consumers : hand'[d] # Nobody =>
            /\ hand'[d] \in Busy \ answered
            /\ \A i \in DOMAIN queue' : queue'[i] # hand'[d]
            /\ \A e \in Consumers : hand'[e] = hand'[d] => e = d
    <3>1. hand'[c] = queue[1] /\ \A d \in Consumers \ {c} : hand'[d] = hand[d]
      BY <2>1 DEF IInv, TypeOK
    <3>2. \A d \in Consumers : hand[d] # queue[1]
      BY <2>1, ThdqAssumption DEF IInv, ItemsOK
    <3>3. queue[1] \in Busy \ answered
      BY <2>1 DEF IInv, ItemsOK
    <3>4. QED
      BY <2>3, <2>7, <3>1, <3>2, <3>3 DEF IInv, ItemsOK
  <2>9. ItemsOK'
    BY <2>1, <2>6, <2>7, <2>8 DEF IInv, ItemsOK
  <2>10. QED
    BY <2>4, <2>5, <2>9 DEF IInv
<1>6. CASE PopUnlock(c)
  <2>1. /\ Go(c, "work") /\ mutex = c /\ mutex' = Nobody /\ pc[c] = "leave"
        /\ UNCHANGED <<queue, hand, answered>>
    BY <1>0, <1>6 DEF PopUnlock, IInv, TypeOK, Inside
  <2>2. HandsOK' /\ ItemsOK'
    BY <1>0, <2>1, MoveItems DEF ConsumerPcs
  <2>3. TypeOK'
    BY <1>0, <2>1, MoveType, MutexKept DEF IInv, TypeOK, ProducerPcs, ConsumerPcs
  <2>4. QED
    BY <2>2, <2>3 DEF IInv
<1>7. CASE Answer(c)
  <2>1. /\ Go(c, "call") /\ mutex # c /\ UNCHANGED <<queue, mutex>> /\ pc[c] = "work"
        /\ answered' = answered \cup {hand[c]} /\ hand' = [hand EXCEPT ![c] = Nobody]
        /\ hand[c] \in Busy /\ hand[c] \in Producers
    BY <1>0, <1>7, ThdqAssumption DEF Answer, IInv, TypeOK, HandsOK, ItemsOK, Busy, Inside
  <2>2. /\ pc' \in [Threads -> ProducerPcs \cup ConsumerPcs]
        /\ pc'[c] = "call" /\ \A u \in Threads \ {c} : pc'[u] = pc[u]
    BY <1>0, <2>1, MoveType DEF ConsumerPcs
  <2>3. TypeOK'
    BY <1>0, <2>1, MoveType, MutexKept DEF IInv, TypeOK, ProducerPcs, ConsumerPcs
  <2>4. HandsOK'
    BY <1>0, <2>1, <2>2 DEF IInv, TypeOK, HandsOK, Threads
  <2>5. Busy' = Busy
    BY <1>0, <2>2 DEF Busy, Threads
  <2>6. hand'[c] = Nobody /\ \A d \in Consumers \ {c} : hand'[d] = hand[d] /\ (hand[d] # Nobody => hand[d] # hand[c])
    BY <2>1, ThdqAssumption DEF IInv, TypeOK, ItemsOK
  <2>7. \A i \in DOMAIN queue : queue[i] # hand[c]
    BY <2>1, ThdqAssumption DEF IInv, ItemsOK
  <2>8. ItemsOK'
    BY <2>1, <2>5, <2>6, <2>7 DEF IInv, ItemsOK
  <2>9. QED
    BY <2>3, <2>4, <2>8 DEF IInv
<1>8. QED
  BY <1>2, <1>3, <1>4, <1>5, <1>6, <1>7 DEF Consumer

LEMMA NextIInv == IInv /\ [Next]_vars => IInv'
<1>1. IInv /\ Next => IInv'
  BY ProducerInv, ConsumerInv DEF Next, Lock
<1>2. IInv /\ UNCHANGED vars => IInv'
  BY DEF vars, IInv, TypeOK, HandsOK, ItemsOK, Inside, Busy
<1>3. QED
  BY <1>1, <1>2

LEMMA Invariance == Spec => []IInv
  BY InitIInv, NextIInv, PTL DEF Spec

\* Every variable keeps its type, and no two threads are inside the mutex.
THEOREM ThdqTypeCorrect == Spec => []TypeOK
<1>1. IInv => TypeOK
  BY DEF IInv
<1>2. QED
  BY <1>1, Invariance, PTL

-----------------------------------------------------------------------------
(* No hash thread sleeps through work.                                     *)

\* Notifications still to be sent, and threads on their way to the queue.
Senders == {p \in Producers : pc[p] \in {"unlock", "notify"}}
Comers == {c \in Consumers : pc[c] \in {"call", "awake", "test"}}

\* Both are finite, before a step and after it.
LEMMA Counts ==
    /\ IInv => Len(queue) \in Nat
    /\ IsFiniteSet(Senders) /\ Cardinality(Senders) \in Nat
    /\ IsFiniteSet(Comers) /\ Cardinality(Comers) \in Nat
    /\ IsFiniteSet(Senders') /\ Cardinality(Senders') \in Nat
    /\ IsFiniteSet(Comers') /\ Cardinality(Comers') \in Nat
<1>1. /\ Senders \in SUBSET Producers /\ Comers \in SUBSET Consumers
      /\ Senders' \in SUBSET Producers /\ Comers' \in SUBSET Consumers
  BY DEF Senders, Comers
<1>2. IInv => Len(queue) \in Nat
  BY DEF IInv, TypeOK
<1>3. QED
  BY <1>1, <1>2, ThdqAssumption, FS_Subset, FS_CardinalityType

\* A step that takes nobody from those on their way.
LEMMA SparesStay ==
    ASSUME IInv, IInv', SleepersAreSpare, UNCHANGED queue,
           Asleep' \subseteq Asleep, Senders \subseteq Senders', Comers \subseteq Comers'
    PROVE  SleepersAreSpare'
<1>1. Cardinality(Senders) <= Cardinality(Senders') /\ Cardinality(Comers) <= Cardinality(Comers')
  BY Counts, FS_Subset
<1>2. QED
  BY <1>1, Counts DEF SleepersAreSpare, Senders, Comers

LEMMA SleepersNext ==
    ASSUME IInv, IInv', SleepersAreSpare, Next
    PROVE  SleepersAreSpare'
<1> USE DEF At
<1>0. /\ \A p \in Producers : p \in Threads /\ p \notin Consumers
      /\ \A c \in Consumers : c \in Threads /\ c \notin Producers
  BY ThdqAssumption DEF Threads
<1>1. ASSUME NEW t \in Threads, NEW where, Go(t, where)
      PROVE  pc'[t] = where /\ \A u \in Threads \ {t} : pc'[u] = pc[u]
  BY <1>1 DEF Go, IInv, HandsOK
<1>2. ASSUME NEW p \in Producers, PushLock(p) \/ PushUnlock(p) \/ Return(p)
      PROVE  SleepersAreSpare'
  <2>1. PICK where \in {"push", "notify", "idle"} :
            /\ Go(p, where) /\ UNCHANGED queue
            /\ where = "notify" \/ pc[p] \notin {"unlock", "notify"}
    BY <1>2 DEF PushLock, PushUnlock, Return
  <2>2. pc'[p] = where /\ \A u \in Threads \ {p} : pc'[u] = pc[u]
    BY <1>0, <1>1, <2>1
  <2>3. Asleep' \subseteq Asleep /\ Senders \subseteq Senders' /\ Comers \subseteq Comers'
    BY <1>0, <2>1, <2>2 DEF Asleep, Senders, Comers
  <2>4. QED
    BY <2>1, <2>3, SparesStay
<1>3. ASSUME NEW c \in Consumers, PopLock(c) \/ PopWake(c) \/ PopUnlock(c) \/ Answer(c)
      PROVE  SleepersAreSpare'
  <2>1. PICK where \in {"test", "awake", "work", "call"} :
            /\ Go(c, where) /\ UNCHANGED queue
            /\ where # "work" \/ pc[c] = "leave"
    BY <1>3 DEF PopLock, PopWake, PopUnlock, Answer
  <2>2. pc'[c] = where /\ \A u \in Threads \ {c} : pc'[u] = pc[u]
    BY <1>0, <1>1, <2>1
  <2>3. Asleep' \subseteq Asleep /\ Senders \subseteq Senders' /\ Comers \subseteq Comers'
    BY <1>0, <2>1, <2>2 DEF Asleep, Senders, Comers
  <2>4. QED
    BY <2>1, <2>3, SparesStay
<1>4. ASSUME NEW p \in Producers, Push(p)
      PROVE  SleepersAreSpare'
  <2>1. pc[p] = "push" /\ pc'[p] = "unlock" /\ \A u \in Threads \ {p} : pc'[u] = pc[u]
    BY <1>0, <1>1, <1>4 DEF Push
  <2>2. p \notin Senders /\ Senders' = Senders \cup {p} /\ Comers' = Comers /\ Asleep' = Asleep
    BY <1>0, <2>1 DEF Asleep, Senders, Comers
  <2>3. Cardinality(Senders') = Cardinality(Senders) + 1
    BY <2>2, Counts, FS_AddElement
  <2>4. Len(queue') = Len(queue) + 1
    BY <1>4 DEF Push, IInv, TypeOK
  <2>5. SUFFICES ASSUME Asleep # {}
                 PROVE  Len(queue') <= Cardinality(Senders') + Cardinality(Comers')
    BY <2>2 DEF SleepersAreSpare, Senders, Comers
  <2>6. Len(queue) <= Cardinality(Senders) + Cardinality(Comers)
    BY <2>5 DEF SleepersAreSpare, Senders, Comers
  <2>7. QED
    BY <2>2, <2>3, <2>4, <2>6, Counts
<1>5. ASSUME NEW p \in Producers, PushNotify(p)
      PROVE  SleepersAreSpare'
  <2>1. CASE Asleep = {} /\ Go(p, "wait")
    <3>1. Asleep' = {}
      BY <1>0, <1>1, <2>1 DEF Asleep
    <3>2. QED
      BY <3>1 DEF SleepersAreSpare
  <2>2. ASSUME NEW c \in Asleep, pc' = [pc EXCEPT ![p] = "wait", ![c] = "awake"]
        PROVE  SleepersAreSpare'
    <3>1. /\ c \in Consumers /\ pc[c] = "asleep" /\ pc[p] = "notify"
          /\ pc'[c] = "awake" /\ pc'[p] = "wait" /\ \A u \in Threads \ {p, c} : pc'[u] = pc[u]
      BY <1>0, <1>5, <2>2 DEF PushNotify, Asleep, IInv, HandsOK
    <3>2. /\ p \in Senders /\ Senders' = Senders \ {p}
          /\ c \notin Comers /\ Comers' = Comers \cup {c}
      BY <1>0, <3>1 DEF Senders, Comers
    <3>3. /\ Cardinality(Senders') = Cardinality(Senders) - 1
          /\ Cardinality(Comers') = Cardinality(Comers) + 1
      BY <3>2, Counts, FS_AddElement, FS_RemoveElement
    <3>4. UNCHANGED queue
      BY <1>5 DEF PushNotify
    <3>5. QED
      BY <3>3, <3>4, Counts DEF SleepersAreSpare, Senders, Comers
  <2>3. QED
    BY <1>5, <2>1, <2>2 DEF PushNotify
<1>6. ASSUME NEW c \in Consumers, PopWait(c)
      PROVE  SleepersAreSpare'
  <2>1. Len(queue') = 0
    BY <1>6 DEF PopWait
  <2>2. Cardinality(Senders') \in Nat /\ Cardinality(Comers') \in Nat
    BY Counts
  <2>3. QED
    BY <2>1, <2>2 DEF SleepersAreSpare, Senders, Comers
<1>7. ASSUME NEW c \in Consumers, Pop(c)
      PROVE  SleepersAreSpare'
  <2>1. pc[c] = "test" /\ pc'[c] = "leave" /\ \A u \in Threads \ {c} : pc'[u] = pc[u]
    BY <1>0, <1>1, <1>7 DEF Pop
  <2>2. c \in Comers /\ Comers' = Comers \ {c} /\ Senders' = Senders /\ Asleep' = Asleep
    BY <1>0, <2>1 DEF Asleep, Senders, Comers
  <2>3. Cardinality(Comers') = Cardinality(Comers) - 1
    BY <2>2, Counts, FS_RemoveElement
  <2>4. Len(queue') = Len(queue) - 1
    BY <1>7 DEF Pop, IInv, TypeOK
  <2>5. SUFFICES ASSUME Asleep # {}
                 PROVE  Len(queue') <= Cardinality(Senders') + Cardinality(Comers')
    BY <2>2 DEF SleepersAreSpare, Senders, Comers
  <2>6. Len(queue) <= Cardinality(Senders) + Cardinality(Comers)
    BY <2>5 DEF SleepersAreSpare, Senders, Comers
  <2>7. QED
    BY <2>2, <2>3, <2>4, <2>6, Counts
<1>8. QED
  BY <1>2, <1>3, <1>4, <1>5, <1>6, <1>7 DEF Next, Lock, Producer, Consumer

\* As long as a hash thread sleeps, there is for every item of the queue a
\* notification to come or another thread on its way to it: notify_one may be
\* called after the unlock, and once for each item is enough.
THEOREM ThdqSleepersAreSpare == Spec => []SleepersAreSpare
<1>1. Init => SleepersAreSpare
  BY DEF Init, SleepersAreSpare, Asleep, At, Threads
<1>2. IInv /\ IInv' /\ SleepersAreSpare /\ [Next]_vars => SleepersAreSpare'
  BY SleepersNext DEF vars, SleepersAreSpare, Asleep, At
<1>3. QED
  BY <1>1, <1>2, Invariance, PTL DEF Spec

-----------------------------------------------------------------------------
(* The queue is atomic.                                                    *)

LEMMA FifoInit == Init => Fifo!Init
  BY DEF Init, Fifo!Init, Threads

\* A push takes effect at the append, a pop at the removal; an item is done with
\* when its hash thread answers.  Everything else happens behind the scenes.
LEMMA FifoNext ==
    ASSUME IInv, [Next]_vars
    PROVE  [Fifo!Next]_(Fifo!fifoVars)
<1> USE DEF At
<1>0. /\ \A p \in Producers : p \in Threads /\ p \notin Consumers
      /\ \A c \in Consumers : c \in Threads /\ c \notin Producers
  BY ThdqAssumption DEF Threads
<1>1. ASSUME UNCHANGED <<queue, hand>>, Busy' = Busy
      PROVE  UNCHANGED Fifo!fifoVars
  BY <1>1 DEF Fifo!fifoVars, Busy
<1>2. ASSUME NEW t \in Threads, NEW where, Go(t, where)
      PROVE  pc'[t] = where /\ \A u \in Threads \ {t} : pc'[u] = pc[u]
  BY <1>2 DEF Go, IInv, HandsOK
<1>3. ASSUME NEW p \in Producers, PushLock(p) \/ PushUnlock(p) \/ PushNotify(p)
      PROVE  UNCHANGED Fifo!fifoVars
  <2>1. UNCHANGED <<queue, hand>>
    BY <1>3 DEF PushLock, PushUnlock, PushNotify
  <2>2. Busy' = Busy
    <3>1. CASE PushLock(p)
      BY <1>0, <1>2, <3>1 DEF PushLock, Busy
    <3>2. CASE PushUnlock(p)
      BY <1>0, <1>2, <3>2 DEF PushUnlock, Busy
    <3>3. CASE PushNotify(p) /\ Go(p, "wait")
      BY <1>0, <1>2, <3>3 DEF PushNotify, Busy
    <3>4. ASSUME NEW c \in Asleep, PushNotify(p), pc' = [pc EXCEPT ![p] = "wait", ![c] = "awake"]
          PROVE  Busy' = Busy
      BY <1>0, <3>4 DEF PushNotify, Busy, Asleep, IInv, HandsOK
    <3>5. QED
      BY <1>3, <3>1, <3>2, <3>3, <3>4 DEF PushNotify
  <2>3. QED
    BY <1>1, <2>1, <2>2
<1>4. ASSUME NEW c \in Consumers, PopLock(c) \/ PopWake(c) \/ PopWait(c) \/ PopUnlock(c)
      PROVE  UNCHANGED Fifo!fifoVars
  <2>1. UNCHANGED <<queue, hand>> /\ \E where : Go(c, where)
    BY <1>4 DEF PopLock, PopWake, PopWait, PopUnlock
  <2>2. Busy' = Busy
    BY <1>0, <1>2, <2>1 DEF Busy
  <2>3. QED
    BY <1>1, <2>1, <2>2
<1>5. ASSUME NEW p \in Producers, Push(p)
      PROVE  Fifo!Put(p)
  <2>1. pc[p] = "push" /\ pc'[p] = "unlock" /\ \A u \in Threads \ {p} : pc'[u] = pc[u]
    BY <1>0, <1>2, <1>5 DEF Push
  <2>2. p \notin Busy /\ Busy' = Busy \cup {p}
    BY <1>0, <2>1 DEF Busy
  <2>3. QED
    BY <1>5, <2>2 DEF Push, Fifo!Put, Busy
<1>6. ASSUME NEW p \in Producers, Return(p)
      PROVE  Fifo!Leave(p)
  <2>1. pc[p] = "wait" /\ pc'[p] = "idle" /\ \A u \in Threads \ {p} : pc'[u] = pc[u]
    BY <1>0, <1>2, <1>6 DEF Return
  <2>2. p \in Busy /\ Busy' = Busy \ {p}
    BY <1>0, <2>1 DEF Busy
  <2>3. p \notin Fifo!Queued /\ \A c \in Consumers : hand[c] # p
    BY <1>6, ThdqAssumption DEF Return, Fifo!Queued, IInv, ItemsOK
  <2>4. QED
    BY <1>6, <2>2, <2>3 DEF Return, Fifo!Leave, Busy
<1>7. ASSUME NEW c \in Consumers, Pop(c)
      PROVE  Fifo!Take(c)
  <2>1. Busy' = Busy
    BY <1>0, <1>2, <1>7 DEF Pop, Busy
  <2>2. hand[c] = Nobody
    BY <1>7 DEF Pop, IInv, HandsOK
  <2>3. QED
    BY <1>7, <2>1, <2>2 DEF Pop, Fifo!Take, Busy
<1>8. ASSUME NEW c \in Consumers, Answer(c)
      PROVE  Fifo!Finish(c)
  <2>1. Busy' = Busy
    BY <1>0, <1>2, <1>8 DEF Answer, Busy
  <2>2. hand[c] # Nobody
    BY <1>8 DEF Answer, IInv, HandsOK
  <2>3. QED
    BY <1>8, <2>1, <2>2 DEF Answer, Fifo!Finish, Busy
<1>9. CASE UNCHANGED vars
  BY <1>9 DEF vars, Fifo!fifoVars
<1>10. QED
  BY <1>3, <1>4, <1>5, <1>6, <1>7, <1>8, <1>9
  DEF Next, Lock, Producer, Consumer, Fifo!Next

\* Every behaviour of the queue with its mutex and its condition variable is one
\* of an atomic queue: items leave in the order in which they came, each once.
THEOREM ThdqImplementsFifo == Spec => Fifo!Safe
  BY FifoInit, FifoNext, Invariance, PTL DEF Spec, Fifo!Safe
=============================================================================
