-------------------------- MODULE ClientPoolsProofs --------------------------
(***************************************************************************)
(* The client pools: whatever the accept thread, the node and the pools'   *)
(* threads do in between each other, the count of clients of a pool is     *)
(* exact, a pool that has finished serves nobody, no edge is lost, and a   *)
(* miner on an old job is going to be told of the new one.                 *)
(***************************************************************************)
EXTENDS ClientPoolsLemmas, WellFoundedInduction

PipeTypes == Sockets \cup {Pipe}

TopType ==
    /\ size \in PoolSizes /\ list \in Seq(Pools) /\ Distinct(list)
    /\ mtx \in {"accept", "node", None}
    /\ apc \in {"idle", "lock", "scan", "found", "counted"}
    /\ asock \in Sockets \cup {None} /\ apos \in Nat \ {0} /\ apool \in Pools \cup {None}
    /\ npc \in {"idle", "published", "notify"} /\ npos \in Nat \ {0} /\ current \in 1..MaxJobs
    /\ dead \in {"no", "segv", "sigpipe"}

SharedType ==
    /\ active \in [Pools -> Nat] /\ finished \in [Pools -> BOOLEAN]
    /\ pipe \in [Pools -> Seq(Message)]

RdyType ==
    /\ rdy \in [Pools -> Seq(PipeTypes)]
    /\ \A p \in Pools : Distinct(rdy[p])

PoolType ==
    /\ tpc \in [Pools -> {"none", "wait", "event", "read", "pipe", "tell", "exit", "done"}]
    /\ batch \in [Pools -> Seq(Event)]
    /\ cur \in [Pools -> Idx] /\ buf \in [Pools -> 0..MaxLines]
    /\ slots \in [Pools -> [Idx -> Sockets \cup {None}]]

SockType ==
    /\ conn \in [Sockets -> {"new", "up", "fin", "rst", "broken", "gone"}]
    /\ data \in [Sockets -> 0..MaxLines] /\ sent \in [Sockets -> 0..MaxLines]
    /\ aborting \in [Sockets -> BOOLEAN] /\ logged \in [Sockets -> BOOLEAN]
    /\ known \in [Sockets -> 0..MaxJobs]
    /\ \A s \in Sockets : data[s] <= sent[s]

TypeInv == TopType /\ SharedType /\ RdyType /\ PoolType /\ SockType

\* A pool is in the list exactly as long as its thread is there, and who walks
\* the list holds the mutex.
ThreadInv ==
    /\ \A p \in Pools :
        /\ tpc[p] = "none" <=> ~InSeq(p, list)
        /\ finished[p] => tpc[p] = "done"
        /\ tpc[p] = "none" => active[p] = 0 /\ pipe[p] = << >>
        /\ tpc[p] \in {"none", "wait", "exit", "done"} => batch[p] = << >>
        /\ tpc[p] = "read" => slots[p][cur[p]] # None
    /\ apc \in {"scan", "found", "counted"} => mtx = "accept"
    /\ npc = "notify" => mtx = "node"
    /\ apc \in {"found", "counted"} => apool \in Pools /\ InSeq(apool, list)
    /\ apc = "idle" <=> asock = None

\* A socket is on its way into a slot, or has one.
Queued(s) == asock = s \/ \E p \in Pools : InSeq(s, pipe[p])
Seated(s) == \E p \in Pools, k \in Idx : slots[p][k] = s

\* A socket is in one place only, and its session begins when it has a slot.
OwnInv ==
    /\ \A p, q \in Pools, k, l \in Idx :
        slots[p][k] = slots[q][l] /\ slots[p][k] # None => p = q /\ k = l
    /\ \A p \in Pools : Uniq(pipe[p])
    /\ \A p, q \in Pools, s \in Sockets : InSeq(s, pipe[p]) /\ InSeq(s, pipe[q]) => p = q
    /\ \A p \in Pools, s \in Sockets : ~(InSeq(s, pipe[p]) /\ asock = s)
    /\ \A s \in Sockets : Queued(s) => ~Seated(s) /\ conn[s] # "new" /\ ~logged[s]
    /\ \A s \in Sockets : conn[s] = "new" => ~Seated(s) /\ ~logged[s]

\* active_cnt, and what finding it at zero means.
Pending(p) == IF apc = "counted" /\ apool = p THEN 1 ELSE 0

CountInv ==
    /\ \A p \in Pools : InSeq(p, list) =>
        active[p] = Taken(Idx, slots[p]) + Queue(pipe[p]) + Pending(p)
    /\ \A p \in Pools : active[p] <= size
    /\ apc = "found" => active[apool] < size
    /\ FinishedServesNobody

\* The edges: a client that wants its thread's attention, and what a pool's
\* thread is going to look at.
Wants(s) == ~aborting[s] /\ (data[s] > 0 \/ conn[s] # "up")
Batched(p, k) == \E i \in DOMAIN batch[p] : batch[p][i].idx = k

DuePipe(p) == InSeq(Pipe, rdy[p]) \/ tpc[p] \in {"pipe", "tell"} \/ Batched(p, 0)
Due(p, k) == InSeq(slots[p][k], rdy[p]) \/ (tpc[p] = "read" /\ cur[p] = k) \/ Batched(p, k)

Woken ==
    \A p \in Pools :
        /\ (pipe[p] # << >> => DuePipe(p))
        /\ \A k \in Idx : slots[p][k] # None /\ Wants(slots[p][k]) => Due(p, k)

IInv == TypeInv /\ ThreadInv /\ OwnInv /\ CountInv /\ Woken /\ StaleMinersWillBeTold

-----------------------------------------------------------------------------
(* The initial states.                                                     *)

LEMMA Sizes ==
    /\ \A n \in PoolSizes : n \in Nat /\ n >= 1 /\ 1 \in 1..n
    /\ MaxJobs \in Nat /\ MaxJobs >= 1 /\ MaxLines \in Nat
    /\ None \notin Sockets /\ None \notin Pools /\ NewBlock \notin Sockets /\ Pipe \notin Sockets
    /\ None \notin {NewBlock, "accept", "node"}
  BY ClientPoolsAssumption, NamesAssumption

LEMMA InitIInv == Init => IInv
<1> SUFFICES ASSUME Init
             PROVE  IInv
  OBVIOUS
<1>0. /\ size \in PoolSizes /\ size \in Nat /\ size >= 1 /\ 1 \in Idx
      /\ \A p \in Pools : \A k \in Idx : slots[p][k] = None
  BY Sizes DEF Init, Idx
<1>1. TopType
  BY <1>0, EmptySeqs, Sizes DEF Init, TopType
<1>2. SharedType /\ RdyType
  BY EmptySeqs DEF Init, SharedType, RdyType
<1>3. PoolType
  BY <1>0, Sizes DEF Init, PoolType
<1>4. SockType
  BY Sizes DEF Init, SockType
<1>5. ThreadInv
  BY EmptySeqs DEF Init, ThreadInv
<1>6. OwnInv
  BY <1>0, EmptySeqs, Sizes DEF Init, OwnInv, Queued, Seated
<1>7. CountInv
  BY <1>0, EmptySeqs DEF Init, CountInv, FinishedServesNobody
<1>8. Woken /\ StaleMinersWillBeTold
  BY <1>0 DEF Init, Woken, StaleMinersWillBeTold
<1>9. QED
  BY <1>1, <1>2, <1>3, <1>4, <1>5, <1>6, <1>7, <1>8 DEF IInv, TypeInv

-----------------------------------------------------------------------------
(* What the steps of a pool's thread have in common.                       *)

PoolStep(p) == PoolThread(p) \/ Interrupted(p)

\* A step of pool p leaves the list, the other threads and the other pools alone.
Local(p) ==
    /\ UNCHANGED <<size, listVars, acceptVars, nodeVars, sent>>
    /\ \A q \in Pools : q # p =>
        /\ active'[q] = active[q] /\ finished'[q] = finished[q]
        /\ pipe'[q] = pipe[q] /\ rdy'[q] = rdy[q]
        /\ tpc'[q] = tpc[q] /\ batch'[q] = batch[q] /\ cur'[q] = cur[q] /\ buf'[q] = buf[q]
        /\ slots'[q] = slots[q]

\* What it does to the count, the pipe and the slots.
Keep == UNCHANGED <<active, pipe, slots, conn>>
Leave(p, k) == slots[p][k] # None /\ RemoveClient(p, k, slots[p][k]) /\ UNCHANGED pipe
PopBlock(p) ==
    /\ pipe[p] # << >> /\ Head(pipe[p]) = NewBlock
    /\ pipe' = [pipe EXCEPT ![p] = Tail(@)]
    /\ UNCHANGED <<active, slots, conn>>

LEMMA SendFacts ==
    ASSUME NEW p, NEW s, Send(p, s)
    PROVE  /\ \/ aborting' = aborting /\ rdy' = rdy
              \/ aborting' = [aborting EXCEPT ![s] = TRUE] /\ Edge(p, s)
           /\ dead' = dead \/ dead' = "sigpipe"
<1>1. PICK r \in SendResults(s) :
        \/ r = "ok" /\ UNCHANGED <<aborting, rdy, dead>>
        \/ dead' = "sigpipe" /\ UNCHANGED <<aborting, rdy>>
        \/ aborting' = [aborting EXCEPT ![s] = TRUE] /\ Edge(p, s) /\ UNCHANGED dead
  BY Zenon DEF Send
<1>2. QED
  BY <1>1, Zenon

LEMMA EdgeFacts ==
    ASSUME RdyType, NEW p \in Pools, NEW x \in PipeTypes, Edge(p, x)
    PROVE  /\ RdyType'
           /\ \A q \in Pools : q # p => rdy'[q] = rdy[q]
           /\ \A y : InSeq(y, rdy'[p]) <=> InSeq(y, rdy[p]) \/ y = x
<1> USE DEF RdyType
<1>1. \A q \in Pools : q # p => rdy'[q] = rdy[q]
  BY DEF Edge
<1>2. CASE InSeq(x, rdy[p])
  <2>1. rdy' = rdy
    BY <1>2 DEF Edge
  <2>2. QED
    BY <1>2, <2>1
<1>3. CASE ~InSeq(x, rdy[p])
  <2>1. rdy' = [rdy EXCEPT ![p] = Append(rdy[p], x)]
    BY <1>3 DEF Edge
  <2>2. rdy[p] \in Seq(PipeTypes) /\ Distinct(rdy[p]) /\ rdy'[p] = Append(rdy[p], x)
    BY <2>1
  <2>3. /\ Append(rdy[p], x) \in Seq(PipeTypes) /\ Distinct(Append(rdy[p], x))
        /\ \A y : InSeq(y, Append(rdy[p], x)) <=> InSeq(y, rdy[p]) \/ y = x
    BY <1>3, <2>2, Appended
  <2>4. rdy' \in [Pools -> Seq(PipeTypes)]
    BY <2>1, <2>3
  <2>5. QED
    BY <1>1, <2>2, <2>3, <2>4
<1>4. QED
  BY <1>2, <1>3

LEMMA Locality ==
    ASSUME TypeInv, NEW p \in Pools, PoolStep(p)
    PROVE  Local(p)
<1> USE DEF TypeInv, SharedType, RdyType, PoolType, Local, sharedVars, threadVars, sockVars
<1>1. CASE Wait(p)
  BY <1>1 DEF Wait
<1>2. CASE Interrupted(p) \/ LoopTest(p) \/ Finish(p)
  BY <1>2 DEF Interrupted, LoopTest, Finish
<1>3. CASE PipeEvent(p) \/ ReadEvent(p)
  BY <1>3 DEF PipeEvent, ReadEvent
<1>4. CASE HangupEvent(p)
  BY <1>4 DEF HangupEvent, RemoveClient
<1>5. CASE ReadData(p) \/ ReadNothing(p)
  BY <1>5 DEF ReadData, ReadNothing, RemoveClient
<1>6. CASE LoginLine(p) \/ RequestLine(p)
  <2>1. PICK s : Send(p, s)
    BY <1>6 DEF LoginLine, RequestLine
  <2>2. \A q \in Pools : q # p => rdy'[q] = rdy[q]
    <3>1. CASE rdy' = rdy
      BY <3>1
    <3>2. CASE Edge(p, s)
      BY <3>2 DEF Edge
    <3>3. QED
      BY <2>1, <3>1, <3>2, SendFacts
  <2>3. QED
    BY <1>6, <2>2 DEF LoginLine, RequestLine
<1>7. CASE BadLine(p)
  BY <1>7 DEF BadLine, RemoveClient
<1>8. CASE PipeEmpty(p) \/ PipeNewBlock(p)
  BY <1>8 DEF PipeEmpty, PipeNewBlock
<1>9. CASE TellClient(p)
  BY <1>9, SendFacts DEF TellClient, NextClient, RemoveClient, Edge
<1>10. CASE PipeAdd(p)
  BY <1>10 DEF PipeAdd, Edge
<1>11. CASE PipeAddFails(p)
  BY <1>11 DEF PipeAddFails
<1>12. QED
  BY <1>1, <1>2, <1>3, <1>4, <1>5, <1>6, <1>7, <1>8, <1>9, <1>10, <1>11 DEF PoolStep, PoolThread

\* Where the thread stands, and what it does there.
At(p) == tpc[p] \in {"event", "read", "pipe", "tell"}
Does(p) ==
    \/ Keep
    \/ (\E k \in Idx : Leave(p, k)) \/ PopBlock(p) \/ PipeAdd(p) \/ PipeAddFails(p)

LEMMA Effects ==
    ASSUME TypeInv, ThreadInv, NEW p \in Pools, PoolStep(p)
    PROVE  /\ Does(p) /\ (Keep \/ (At(p) /\ At(p)'))
           /\ tpc[p] \notin {"none", "done"} /\ tpc'[p] # "none"
           /\ (finished'[p] => finished[p] \/ tpc'[p] = "done")
           /\ (tpc'[p] \in {"exit", "done"} => tpc[p] = "exit" \/ active[p] = 0)
<1>0. /\ tpc \in [Pools -> {"none", "wait", "event", "read", "pipe", "tell", "exit", "done"}]
      /\ finished \in [Pools -> BOOLEAN] /\ active \in [Pools -> Nat] /\ cur[p] \in Idx
      /\ batch[p] \in Seq(Event)
  BY DEF TypeInv, SharedType, PoolType
<1> USE DEF Does, Keep, At, sharedVars, threadVars, sockVars
<1>a. CASE Wait(p)
  BY <1>0, <1>a DEF Wait
<1>b. CASE Interrupted(p)
  BY <1>0, <1>b DEF Interrupted
<1>c. CASE LoopTest(p)
  <2>1. /\ tpc[p] = "event" /\ tpc' = [tpc EXCEPT ![p] = IF active[p] > 0 THEN "wait" ELSE "exit"]
        /\ finished' = finished /\ Keep
    BY <1>c DEF LoopTest
  <2>2. tpc'[p] \in {"wait", "exit"} /\ (tpc'[p] = "exit" => active[p] = 0)
    BY <1>0, <2>1
  <2>3. Does(p)
    BY <2>1
  <2>4. finished'[p] => finished[p]
    BY <2>1, Zenon
  <2> HIDE DEF Does
  <2>5. QED
    BY <2>1, <2>2, <2>3, <2>4
<1>1. CASE Finish(p)
  <2>1. tpc[p] = "exit" /\ tpc' = [tpc EXCEPT ![p] = "done"] /\ Keep
    BY <1>1 DEF Finish
  <2>2. tpc'[p] = "done"
    BY <1>0, <2>1
  <2>3. Does(p)
    BY <2>1
  <2> HIDE DEF Does
  <2>4. QED
    BY <2>1, <2>2, <2>3
<1>2. CASE PipeEvent(p) \/ ReadEvent(p) \/ ReadData(p)
  BY <1>0, <1>2 DEF PipeEvent, ReadEvent, ReadData
<1>3. CASE HangupEvent(p)
  <2>1. Head(batch[p]).idx \in Idx
    <3>1. batch[p] # << >> /\ Head(batch[p]).idx # 0
      BY <1>3 DEF HangupEvent
    <3>2. Head(batch[p]) \in Event /\ size \in Nat
      BY <1>0, <3>1, Sizes DEF TypeInv, TopType
    <3>3. QED
      BY <3>1, <3>2 DEF Event, Idx
  <2>2. /\ tpc[p] = "event" /\ tpc' = tpc /\ finished' = finished /\ pipe' = pipe
        /\ \/ UNCHANGED <<slots, active, conn>>
           \/ Leave(p, Head(batch[p]).idx)
    BY <1>3 DEF HangupEvent, Leave
  <2>3. QED
    BY <1>0, <2>1, <2>2
<1>4. CASE ReadNothing(p) \/ BadLine(p)
  <2>1. slots[p][cur[p]] # None
    BY <1>4 DEF ReadNothing, BadLine, ThreadInv
  <2>2. /\ tpc[p] = "read" /\ tpc' = [tpc EXCEPT ![p] = "event"] /\ finished' = finished
        /\ pipe' = pipe
        /\ \/ UNCHANGED <<slots, active, conn>>
           \/ Leave(p, cur[p])
    BY <1>4, <2>1 DEF ReadNothing, BadLine, Leave
  <2>3. QED
    BY <1>0, <2>2
<1>5. CASE LoginLine(p) \/ RequestLine(p)
  BY <1>0, <1>5 DEF LoginLine, RequestLine
<1>6. CASE PipeEmpty(p) \/ PipeNewBlock(p)
  BY <1>0, <1>6 DEF PipeEmpty, PipeNewBlock, PopBlock
<1>7. CASE TellClient(p)
  <2>1. /\ tpc[p] = "tell" /\ tpc' \in {tpc, [tpc EXCEPT ![p] = "pipe"]} /\ finished' = finished
        /\ pipe' = pipe
    BY <1>7 DEF TellClient, NextClient
  <2>2. \/ UNCHANGED <<slots, active, conn>>
        \/ Leave(p, cur[p])
    BY <1>7 DEF TellClient, Leave
  <2>3. tpc'[p] \in {"tell", "pipe"}
    BY <1>0, <2>1
  <2>4. QED
    BY <1>0, <2>1, <2>2, <2>3
<1>8. CASE PipeAdd(p) \/ PipeAddFails(p)
  BY <1>0, <1>8 DEF PipeAdd, PipeAddFails
<1>9. QED
  BY <1>a, <1>b, <1>c, <1>1, <1>2, <1>3, <1>4, <1>5, <1>6, <1>7, <1>8 DEF PoolStep, PoolThread

\* What epoll_wait reports is what it takes from the list.
LEMMA WaitFacts ==
    ASSUME TypeInv, NEW p \in Pools, Wait(p)
    PROVE  /\ tpc[p] = "wait" /\ tpc' = [tpc EXCEPT ![p] = "event"]
           /\ batch' = [batch EXCEPT ![p] = batch'[p]] /\ batch'[p] \in Seq(Event)
           /\ rdy' = [rdy EXCEPT ![p] = rdy'[p]]
           /\ rdy'[p] \in Seq(PipeTypes) /\ Distinct(rdy'[p])
           /\ \A x : InSeq(x, rdy[p]) /\ Readable(p, x) =>
                  \/ InSeq(x, rdy'[p])
                  \/ \E i \in DOMAIN batch'[p] : batch'[p][i] \in EventsOf(p, x)
           /\ \A i \in DOMAIN batch'[p] : \E x \in PipeTypes : batch'[p][i] \in EventsOf(p, x)
           /\ UNCHANGED <<size, listVars, acceptVars, nodeVars, sharedVars, cur, buf, slots, sockVars,
                          clientVars, dead>>
<1>1. PICK n \in DOMAIN rdy[p] :
        LET live == {i \in 1..n : Readable(p, rdy[p][i])}
            Rank(i) == Cardinality({j \in live : j <= i})
        IN  /\ IF Cardinality(live) = size THEN n \in live
               ELSE n = Len(rdy[p]) /\ Cardinality(live) \in 1..size
            /\ \E b \in [1..Cardinality(live) -> Event] :
                /\ \A i \in live : b[Rank(i)] \in EventsOf(p, rdy[p][i])
                /\ batch' = [batch EXCEPT ![p] = b]
            /\ rdy' = [rdy EXCEPT ![p] = SubSeq(@, n + 1, Len(@))]
  BY DEF Wait
<1> DEFINE q == rdy[p]
           live == {i \in 1..n : Readable(p, q[i])}
           rank(i) == Cardinality({j \in live : j <= i})
           M == Cardinality(live)
<1>2. PICK b \in [1..M -> Event] :
        /\ \A i \in live : b[rank(i)] \in EventsOf(p, q[i])
        /\ batch' = [batch EXCEPT ![p] = b]
  BY <1>1
<1>3. /\ rdy' = [rdy EXCEPT ![p] = SubSeq(q, n + 1, Len(q))]
      /\ q \in Seq(PipeTypes) /\ Distinct(q) /\ n \in DOMAIN q /\ n \in Nat
      /\ rdy \in [Pools -> Seq(PipeTypes)]
      /\ batch \in [Pools -> Seq(Event)]
  BY <1>1 DEF TypeInv, RdyType, PoolType
<1>4. live \in SUBSET (1..n)
  OBVIOUS
<1>5. /\ M \in Nat
      /\ \A i \in live : rank(i) \in 1..M
      /\ \A m \in 1..M : \E i \in live : rank(i) = m
  <2> HIDE DEF live
  <2>1. QED
    BY <1>3, <1>4, Ranks
<1>6. batch'[p] = b /\ b \in Seq(Event) /\ DOMAIN b = 1..M
  <2>1. batch'[p] = b
    BY <1>2, <1>3
  <2> HIDE DEF live, M
  <2>2. QED
    BY <1>2, <1>5, <2>1, SeqDef
<1>7. /\ rdy'[p] = SubSeq(q, n + 1, Len(q)) /\ rdy'[p] \in Seq(PipeTypes) /\ Distinct(rdy'[p])
      /\ \A i \in DOMAIN q : i > n => InSeq(q[i], rdy'[p])
  <2>1. rdy'[p] = SubSeq(q, n + 1, Len(q))
    BY <1>3
  <2> HIDE DEF q
  <2>2. QED
    BY <1>3, <2>1, Suffix
<1>8. ASSUME NEW x, InSeq(x, q), Readable(p, x)
      PROVE  InSeq(x, rdy'[p]) \/ \E i \in DOMAIN b : b[i] \in EventsOf(p, x)
  <2>1. PICK i \in DOMAIN q : q[i] = x
    BY <1>8 DEF InSeq
  <2>2. i \in Nat /\ n \in Nat /\ i >= 1
    BY <1>3, <2>1
  <2>3. CASE i > n
    BY <1>7, <2>1, <2>3
  <2>4. CASE i <= n
    <3>1. i \in live
      BY <1>8, <2>1, <2>2, <2>4
    <3>2. rank(i) \in DOMAIN b /\ b[rank(i)] \in EventsOf(p, x)
      <4> HIDE DEF live, M, q
      <4>1. QED
        BY <1>2, <1>5, <1>6, <2>1, <3>1
    <3>3. QED
      BY <3>2
  <2>5. QED
    BY <2>2, <2>3, <2>4
<1>9. ASSUME NEW m \in DOMAIN b
      PROVE  \E x \in PipeTypes : b[m] \in EventsOf(p, x)
  <2>1. PICK i \in live : rank(i) = m
    <3> HIDE DEF live, M
    <3>1. QED
      BY <1>5, <1>6, <1>9
  <2>2. b[m] \in EventsOf(p, q[i])
    <3> HIDE DEF live
    <3>1. QED
      BY <1>2, <2>1
  <2>3. i \in DOMAIN q /\ q[i] \in PipeTypes
    BY <1>3
  <2>4. QED
    BY <2>2, <2>3
<1>10. /\ tpc[p] = "wait" /\ tpc' = [tpc EXCEPT ![p] = "event"]
       /\ UNCHANGED <<size, listVars, acceptVars, nodeVars, sharedVars, cur, buf, slots, sockVars,
                      clientVars, dead>>
  BY DEF Wait
<1> HIDE DEF live, rank, M
<1>11. QED
  BY <1>2, <1>3, <1>6, <1>7, <1>8, <1>9, <1>10

-----------------------------------------------------------------------------
(* Types.                                                                  *)

\* Who is counted out was counted in.
LEMMA Counted ==
    ASSUME TypeInv, ThreadInv, CountInv, NEW p \in Pools, tpc[p] # "none"
    PROVE  /\ size \in Nat /\ size >= 1 /\ InSeq(p, list)
           /\ active[p] \in Nat /\ active[p] <= size
           /\ slots[p] \in [1..size -> Sockets \cup {None}] /\ pipe[p] \in Seq(Message)
           /\ Taken(Idx, slots[p]) \in Nat /\ Queue(pipe[p]) \in Nat /\ Pending(p) \in {0, 1}
           /\ active[p] = Taken(Idx, slots[p]) + Queue(pipe[p]) + Pending(p)
           /\ \A k \in Idx : slots[p][k] # None => active[p] >= 1
           /\ (pipe[p] # << >> /\ Head(pipe[p]) # NewBlock => active[p] >= 1)
<1>1. /\ size \in Nat /\ size >= 1 /\ InSeq(p, list)
      /\ active[p] \in Nat /\ active[p] <= size
      /\ slots[p] \in [1..size -> Sockets \cup {None}] /\ pipe[p] \in Seq(Message)
      /\ active[p] = Taken(Idx, slots[p]) + Queue(pipe[p]) + Pending(p)
  BY Sizes DEF TypeInv, TopType, SharedType, PoolType, ThreadInv, CountInv, Idx
<1>2. Pending(p) \in {0, 1}
  BY DEF Pending
<1>3. /\ Taken(Idx, slots[p]) \in 0..size
      /\ (Taken(Idx, slots[p]) = 0 <=> \A k \in Idx : slots[p][k] = None)
  BY <1>1, TakenChanges DEF Idx
<1>4. Queue(pipe[p]) \in Nat /\ (pipe[p] # << >> /\ Head(pipe[p]) # NewBlock => Queue(pipe[p]) >= 1)
  <2>1. CASE pipe[p] = << >>
    BY <2>1, EmptySeqs
  <2>2. CASE pipe[p] # << >>
    BY <1>1, <2>2, QueueTailed
  <2>3. QED
    BY <2>1, <2>2
<1>5. ASSUME NEW k \in Idx, slots[p][k] # None
      PROVE  active[p] >= 1
  <2>1. Taken(Idx, slots[p]) \in Nat /\ Taken(Idx, slots[p]) # 0
    BY <1>1, <1>3, <1>5
  <2>2. QED
    BY <1>1, <1>2, <1>4, <2>1
<1>6. pipe[p] # << >> /\ Head(pipe[p]) # NewBlock => active[p] >= 1
  BY <1>1, <1>2, <1>3, <1>4
<1>7. QED
  BY <1>1, <1>2, <1>3, <1>4, <1>5, <1>6

LEMMA PoolStepShared ==
    ASSUME TypeInv, ThreadInv, CountInv, NEW p \in Pools, PoolStep(p)
    PROVE  SharedType'
<1>1. /\ active \in [Pools -> Nat] /\ pipe \in [Pools -> Seq(Message)]
      /\ finished \in [Pools -> BOOLEAN]
  BY DEF TypeInv, SharedType
<1>2. Does(p) /\ tpc[p] # "none"
  BY Effects
<1>3. finished' \in [Pools -> BOOLEAN]
  <2>1. finished' = finished \/ finished' = [finished EXCEPT ![p] = TRUE]
    BY DEF PoolStep, PoolThread, Wait, LoopTest, Finish, PipeEvent, ReadEvent, HangupEvent, ReadData,
           ReadNothing, LoginLine, RequestLine, BadLine, PipeEmpty, PipeNewBlock, TellClient, PipeAdd,
           PipeAddFails, Interrupted, sharedVars
  <2>2. QED
    BY <1>1, <2>1
<1>4. CASE Keep
  BY <1>1, <1>3, <1>4 DEF Keep, SharedType
<1>5. ASSUME NEW k \in Idx, Leave(p, k)
      PROVE  SharedType'
  <2>1. active[p] >= 1 /\ active[p] - 1 \in Nat
    BY <1>2, <1>5, Counted DEF Leave
  <2>2. QED
    BY <1>1, <1>3, <1>5, <2>1 DEF Leave, RemoveClient, SharedType
<1>6. CASE PopBlock(p)
  <2>1. Tail(pipe[p]) \in Seq(Message)
    BY <1>1, <1>6, Tailed DEF PopBlock
  <2>2. QED
    BY <1>1, <1>3, <1>6, <2>1 DEF PopBlock, SharedType
<1>7. CASE PipeAdd(p)
  <2>1. Tail(pipe[p]) \in Seq(Message)
    BY <1>1, <1>7, Tailed DEF PipeAdd
  <2>2. active' = active /\ pipe' = [pipe EXCEPT ![p] = Tail(pipe[p])]
    BY <1>7 DEF PipeAdd
  <2>3. QED
    BY <1>1, <1>3, <2>1, <2>2 DEF SharedType
<1>8. CASE PipeAddFails(p)
  <2>1. Tail(pipe[p]) \in Seq(Message)
    BY <1>1, <1>8, Tailed DEF PipeAddFails
  <2>2. active[p] >= 1 /\ active[p] - 1 \in Nat
    BY <1>2, <1>8, Counted DEF PipeAddFails
  <2>3. QED
    BY <1>1, <1>3, <1>8, <2>1, <2>2 DEF PipeAddFails, SharedType
<1>9. QED
  BY <1>2, <1>4, <1>5, <1>6, <1>7, <1>8 DEF Does

LEMMA RemoveRdy ==
    ASSUME RdyType, NEW p \in Pools, NEW s, rdy' = [rdy EXCEPT ![p] = Without(@, s)]
    PROVE  /\ RdyType'
           /\ \A y : InSeq(y, rdy'[p]) <=> InSeq(y, rdy[p]) /\ y # s
<1>1. rdy \in [Pools -> Seq(PipeTypes)] /\ \A q \in Pools : Distinct(rdy[q])
  BY DEF RdyType
<1>2. /\ Without(rdy[p], s) \in Seq(PipeTypes) /\ Distinct(Without(rdy[p], s))
      /\ \A y : InSeq(y, Without(rdy[p], s)) <=> InSeq(y, rdy[p]) /\ y # s
  BY <1>1, WithoutSeq
<1>3. rdy' = [rdy EXCEPT ![p] = Without(rdy[p], s)]
  OBVIOUS
<1>4. rdy'[p] = Without(rdy[p], s) /\ \A q \in Pools : q # p => rdy'[q] = rdy[q]
  BY <1>1, <1>3
<1>5. QED
  BY <1>1, <1>2, <1>3, <1>4 DEF RdyType

\* The client the thread is busy with, and the socket it takes from the pipe.
LEMMA Busy ==
    ASSUME TypeInv, ThreadInv, NEW p \in Pools
    PROVE  /\ cur[p] \in Idx /\ slots[p][cur[p]] \in Sockets \cup {None}
           /\ (tpc[p] = "read" => slots[p][cur[p]] \in Sockets)
           /\ (pipe[p] # << >> /\ Head(pipe[p]) # NewBlock => Head(pipe[p]) \in Sockets)
<1>1. cur[p] \in Idx /\ slots[p][cur[p]] \in Sockets \cup {None}
  BY DEF TypeInv, PoolType
<1>2. tpc[p] = "read" => slots[p][cur[p]] # None
  BY DEF ThreadInv
<1>3. pipe[p] \in Seq(Message)
  BY DEF TypeInv, SharedType
<1>4. pipe[p] # << >> => Head(pipe[p]) \in Message
  BY <1>3, Tailed
<1>5. QED
  BY <1>1, <1>2, <1>4 DEF Message

LEMMA PoolStepRdy ==
    ASSUME TypeInv, ThreadInv, NEW p \in Pools, PoolStep(p)
    PROVE  RdyType'
<1>1. RdyType /\ Sockets \subseteq PipeTypes
  BY DEF TypeInv, PipeTypes
<1>2. CASE Wait(p)
  <2>1. /\ rdy' = [rdy EXCEPT ![p] = rdy'[p]] /\ rdy'[p] \in Seq(PipeTypes) /\ Distinct(rdy'[p])
    BY <1>2, WaitFacts
  <2>2. rdy \in [Pools -> Seq(PipeTypes)] /\ \A q \in Pools : Distinct(rdy[q])
    BY <1>1 DEF RdyType
  <2>3. \A q \in Pools : q # p => rdy'[q] = rdy[q]
    BY <2>1, <2>2
  <2>4. rdy' \in [Pools -> Seq(PipeTypes)]
    BY <2>1, <2>2
  <2>5. QED
    BY <2>1, <2>2, <2>3, <2>4 DEF RdyType
<1>3. CASE UNCHANGED rdy
  BY <1>1, <1>3 DEF RdyType
<1>4. ASSUME NEW x \in PipeTypes, Edge(p, x)
      PROVE  RdyType'
  BY <1>1, <1>4, EdgeFacts
<1>5. ASSUME NEW k, NEW x, RemoveClient(p, k, x)
      PROVE  RdyType'
  BY <1>1, <1>5, RemoveRdy DEF RemoveClient
<1>6. ASSUME NEW x \in Sockets, Send(p, x)
      PROVE  RdyType'
  BY <1>1, <1>3, <1>4, <1>6, SendFacts
<1>7. CASE HangupEvent(p) \/ ReadNothing(p) \/ BadLine(p)
  BY <1>3, <1>5, <1>7 DEF HangupEvent, ReadNothing, BadLine
<1>8. CASE LoginLine(p) \/ RequestLine(p)
  BY <1>6, <1>8, Busy DEF LoginLine, RequestLine
<1>9. CASE TellClient(p)
  <2>1. CASE \E x : RemoveClient(p, cur[p], x)
    BY <1>5, <2>1
  <2>2. CASE UNCHANGED rdy \/ (slots[p][cur[p]] # None /\ Send(p, slots[p][cur[p]]))
    BY <1>3, <1>6, <2>2, Busy
  <2>3. QED
    BY <1>9, <2>1, <2>2 DEF TellClient
<1>10. CASE PipeAdd(p)
  <2>1. UNCHANGED rdy \/ Edge(p, Head(pipe[p]))
    BY <1>10 DEF PipeAdd
  <2>2. Head(pipe[p]) \in Sockets
    BY <1>10, Busy DEF PipeAdd
  <2>3. QED
    BY <1>1, <1>3, <1>4, <2>1, <2>2
<1>11. QED
  BY <1>2, <1>3, <1>7, <1>8, <1>9, <1>10
    DEF PoolStep, PoolThread, LoopTest, Finish, PipeEvent, ReadEvent, ReadData, PipeEmpty, PipeNewBlock,
        PipeAddFails, Interrupted

\* The first free slot is one.
LEMMA FirstFree ==
    ASSUME TypeInv, NEW p \in Pools, FreeSlots(p) # {}
    PROVE  (CHOOSE j \in FreeSlots(p) : \A i \in FreeSlots(p) : j <= i) \in FreeSlots(p)
<1>1. FreeSlots(p) \subseteq Nat
  BY Sizes DEF FreeSlots, Idx, TypeInv, TopType
<1>2. \E j \in FreeSlots(p) : \A i \in FreeSlots(p) : j <= i
  <2> DEFINE R == {m \in Nat \X Nat : m[1] < m[2]}
  <2>1. IsWellFoundedOn(R, Nat)
    BY NatLessThanWellFounded DEF OpToRel
  <2> HIDE DEF R
  <2>2. PICK j \in FreeSlots(p) : \A i \in FreeSlots(p) : <<i, j>> \notin R
    BY <1>1, <2>1, WFMin
  <2>3. \A i \in FreeSlots(p) : i \in Nat /\ j \in Nat /\ ~(i < j)
    BY <1>1, <2>2 DEF R
  <2>4. QED
    BY <2>2, <2>3
<1>3. QED
  BY <1>2

LEMMA SlotSet ==
    ASSUME NEW f \in [Pools -> [Idx -> Sockets \cup {None}]], NEW p \in Pools, NEW k,
           NEW v \in Sockets \cup {None}
    PROVE  [f EXCEPT ![p][k] = v] \in [Pools -> [Idx -> Sockets \cup {None}]]
<1> DEFINE g == [f[p] EXCEPT ![k] = v]
<1>1. g \in [Idx -> Sockets \cup {None}]
  OBVIOUS
<1>2. [f EXCEPT ![p][k] = v] = [f EXCEPT ![p] = g]
  OBVIOUS
<1> HIDE DEF g
<1>3. QED
  BY <1>1, <1>2

LEMMA PoolStepPool ==
    ASSUME TypeInv, ThreadInv, NEW p \in Pools, PoolStep(p)
    PROVE  PoolType'
<1>1. /\ tpc \in [Pools -> {"none", "wait", "event", "read", "pipe", "tell", "exit", "done"}]
      /\ batch \in [Pools -> Seq(Event)]
      /\ cur \in [Pools -> Idx] /\ buf \in [Pools -> 0..MaxLines]
      /\ slots \in [Pools -> [Idx -> Sockets \cup {None}]]
      /\ data \in [Sockets -> 0..MaxLines] /\ MaxLines \in Nat
      /\ size \in Nat /\ size >= 1 /\ 1 \in Idx
      /\ size' = size
  BY Locality, Sizes DEF TypeInv, TopType, PoolType, SockType, Local, Idx
<1>a. Idx' = Idx /\ Event' = Event
  BY <1>1 DEF Idx, Event
<1>b. ASSUME NEW v \in Sockets \cup {None}, \E k : slots' = [slots EXCEPT ![p][k] = v]
      PROVE  slots' \in [Pools -> [Idx -> Sockets \cup {None}]]
  <2>1. PICK k : slots' = [slots EXCEPT ![p][k] = v]
    BY <1>b
  <2>2. [slots EXCEPT ![p][k] = v] \in [Pools -> [Idx -> Sockets \cup {None}]]
    BY <1>1, SlotSet
  <2>3. QED
    BY <2>1, <2>2
<1> USE DEF threadVars
<1>2. CASE Wait(p)
  <2>1. /\ tpc' = [tpc EXCEPT ![p] = "event"] /\ UNCHANGED <<cur, buf, slots>>
        /\ batch' = [batch EXCEPT ![p] = batch'[p]] /\ batch'[p] \in Seq(Event)
    BY <1>2, WaitFacts
  <2>2. batch' \in [Pools -> Seq(Event)]
    BY <1>1, <2>1
  <2>3. tpc' \in [Pools -> {"none", "wait", "event", "read", "pipe", "tell", "exit", "done"}]
    BY <1>1, <2>1
  <2>4. QED
    BY <1>1, <1>a, <2>1, <2>2, <2>3 DEF PoolType
<1>3. CASE Interrupted(p) \/ LoopTest(p) \/ Finish(p)
  <2>1. /\ UNCHANGED <<batch, cur, buf, slots>>
        /\ \E t \in {"event", "wait", "exit", "done"} : tpc' = [tpc EXCEPT ![p] = t]
    BY <1>3 DEF Interrupted, LoopTest, Finish
  <2>2. QED
    BY <1>1, <1>a, <2>1 DEF PoolType
<1>4. CASE PipeEvent(p) \/ ReadEvent(p) \/ HangupEvent(p)
  <2>1. batch[p] # << >> /\ batch' = [batch EXCEPT ![p] = Tail(batch[p])]
    BY <1>4 DEF PipeEvent, ReadEvent, HangupEvent
  <2>2. Head(batch[p]) \in Event /\ Tail(batch[p]) \in Seq(Event)
    BY <1>1, <2>1, HeadTailProperties
  <2>3. batch' \in [Pools -> Seq(Event)]
    BY <1>1, <2>1, <2>2
  <2>4. Head(batch[p]).idx # 0 => Head(batch[p]).idx \in Idx
    BY <1>1, <2>2 DEF Event, Idx
  <2>5. CASE PipeEvent(p)
    BY <1>1, <1>a, <2>3, <2>5 DEF PipeEvent, PoolType
  <2>6. CASE ReadEvent(p)
    BY <1>1, <1>a, <2>3, <2>4, <2>6 DEF ReadEvent, PoolType
  <2>7. CASE HangupEvent(p)
    <3>1. UNCHANGED <<tpc, cur, buf>>
      BY <2>7 DEF HangupEvent
    <3>2. slots' = slots \/ \E k : slots' = [slots EXCEPT ![p][k] = None]
      BY <2>7 DEF HangupEvent, RemoveClient
    <3>3. slots' \in [Pools -> [Idx -> Sockets \cup {None}]]
      BY <1>1, <3>2, <1>b
    <3>4. QED
      BY <1>1, <1>a, <2>3, <3>1, <3>3 DEF PoolType
  <2>8. QED
    BY <1>4, <2>5, <2>6, <2>7
<1>5. CASE ReadData(p)
  <2>1. slots[p][cur[p]] \in Sockets
    BY <1>5, Busy DEF ReadData
  <2>2. UNCHANGED <<tpc, batch, cur, slots>> /\ buf' = [buf EXCEPT ![p] = data[slots[p][cur[p]]]]
    BY <1>5 DEF ReadData
  <2>3. QED
    BY <1>1, <1>a, <2>1, <2>2 DEF PoolType
<1>6. CASE ReadNothing(p) \/ BadLine(p)
  <2>1. /\ tpc' = [tpc EXCEPT ![p] = "event"] /\ UNCHANGED <<batch, cur>>
        /\ buf' = buf \/ buf' = [buf EXCEPT ![p] = 0]
        /\ slots' = slots \/ \E k : slots' = [slots EXCEPT ![p][k] = None]
    BY <1>6 DEF ReadNothing, BadLine, RemoveClient
  <2>2. slots' \in [Pools -> [Idx -> Sockets \cup {None}]]
    BY <1>1, <2>1, <1>b
  <2>3. buf' \in [Pools -> 0..MaxLines]
    BY <1>1, <2>1
  <2>4. QED
    BY <1>1, <1>a, <2>1, <2>2, <2>3 DEF PoolType
<1>7. CASE LoginLine(p) \/ RequestLine(p)
  <2>1. /\ buf[p] > 0 /\ buf' = [buf EXCEPT ![p] = @ - 1]
        /\ UNCHANGED <<tpc, batch, cur, slots>>
    BY <1>7 DEF LoginLine, RequestLine
  <2>2. buf' \in [Pools -> 0..MaxLines]
    BY <1>1, <2>1
  <2>3. QED
    BY <1>1, <1>a, <2>1, <2>2 DEF PoolType
<1>8. CASE PipeEmpty(p) \/ PipeNewBlock(p)
  BY <1>1, <1>a, <1>8 DEF PipeEmpty, PipeNewBlock, PoolType
<1>9. CASE TellClient(p)
  <2>1. /\ \/ cur' = [cur EXCEPT ![p] = 1] /\ tpc' = [tpc EXCEPT ![p] = "pipe"]
           \/ cur[p] # size /\ cur' = [cur EXCEPT ![p] = @ + 1] /\ UNCHANGED tpc
        /\ UNCHANGED <<batch, buf>>
        /\ slots' = slots \/ \E k : slots' = [slots EXCEPT ![p][k] = None]
    BY <1>9 DEF TellClient, NextClient, RemoveClient
  <2>2. slots' \in [Pools -> [Idx -> Sockets \cup {None}]]
    BY <1>1, <2>1, <1>b
  <2>3. cur[p] # size => cur[p] + 1 \in Idx
    BY <1>1 DEF Idx
  <2>4. cur' \in [Pools -> Idx]
    BY <1>1, <2>1, <2>3
  <2>5. tpc' \in [Pools -> {"none", "wait", "event", "read", "pipe", "tell", "exit", "done"}]
    BY <1>1, <2>1
  <2>6. QED
    BY <1>1, <1>a, <2>1, <2>2, <2>4, <2>5 DEF PoolType
<1>10. CASE PipeAdd(p)
  <2>1. UNCHANGED <<tpc, batch, cur, buf>> /\ \E k : slots' = [slots EXCEPT ![p][k] = Head(pipe[p])]
    BY <1>10 DEF PipeAdd
  <2>2. Head(pipe[p]) \in Sockets
    BY <1>10, Busy DEF PipeAdd
  <2>3. slots' \in [Pools -> [Idx -> Sockets \cup {None}]]
    BY <1>1, <2>1, <2>2, <1>b
  <2>4. QED
    BY <1>1, <1>a, <2>1, <2>3 DEF PoolType
<1>11. CASE PipeAddFails(p)
  BY <1>1, <1>a, <1>11 DEF PipeAddFails, PoolType
<1>12. QED
  BY <1>2, <1>3, <1>4, <1>5, <1>6, <1>7, <1>8, <1>9, <1>10, <1>11 DEF PoolStep, PoolThread

\* What a step of p does to the sockets.
SockStep(p) ==
    /\ conn' = conn \/ \E s \in Sockets : conn' = [conn EXCEPT ![s] = "gone"]
    /\ data' = data \/ \E s \in Sockets : data' = [data EXCEPT ![s] = 0]
    /\ aborting' = aborting \/ \E s \in Sockets : aborting' = [aborting EXCEPT ![s] = TRUE]
    /\ logged' = logged \/ \E s \in Sockets : logged' = [logged EXCEPT ![s] = TRUE]
    /\ known' = known \/ \E s \in Sockets : known' = [known EXCEPT ![s] = current]
    /\ dead' \in {dead, "segv", "sigpipe"}

LEMMA PoolStepSockStep ==
    ASSUME TypeInv, ThreadInv, NEW p \in Pools, PoolStep(p)
    PROVE  SockStep(p)
<1> USE DEF SockStep, sockVars, clientVars
<1>1. CASE Wait(p)
  BY <1>1, WaitFacts
<1>2. CASE Interrupted(p) \/ LoopTest(p) \/ Finish(p) \/ PipeEvent(p) \/ PipeEmpty(p)
        \/ PipeNewBlock(p) \/ PipeAdd(p)
  BY <1>2 DEF Interrupted, LoopTest, Finish, PipeEvent, PipeEmpty, PipeNewBlock, PipeAdd
<1>3. CASE ReadEvent(p)
  BY <1>3 DEF ReadEvent
<1>4. CASE HangupEvent(p)
  <2>1. Head(batch[p]).idx \in Idx
    <3>1. batch[p] # << >> /\ Head(batch[p]).idx # 0 /\ batch[p] \in Seq(Event) /\ size \in Nat
      BY <1>4, Sizes DEF HangupEvent, TypeInv, PoolType, TopType
    <3>2. Head(batch[p]) \in Event
      BY <3>1, HeadTailProperties
    <3>3. QED
      BY <3>1, <3>2 DEF Event, Idx
  <2>2. slots[p][Head(batch[p]).idx] \in Sockets \cup {None}
    BY <2>1 DEF TypeInv, PoolType
  <2>3. QED
    BY <1>4, <2>2 DEF HangupEvent, RemoveClient
<1>5. CASE ReadData(p) \/ ReadNothing(p) \/ BadLine(p)
  <2>1. slots[p][cur[p]] \in Sockets
    BY <1>5, Busy DEF ReadData, ReadNothing, BadLine
  <2>2. QED
    BY <1>5, <2>1 DEF ReadData, ReadNothing, BadLine, RemoveClient
<1>6. CASE LoginLine(p) \/ RequestLine(p)
  <2>1. slots[p][cur[p]] \in Sockets /\ Send(p, slots[p][cur[p]])
    BY <1>6, Busy DEF LoginLine, RequestLine
  <2>2. QED
    BY <1>6, <2>1, SendFacts DEF LoginLine, RequestLine
<1>7. CASE TellClient(p)
  <2>1. slots[p][cur[p]] # None => slots[p][cur[p]] \in Sockets
    BY Busy
  <2>2. QED
    BY <1>7, <2>1, SendFacts DEF TellClient, RemoveClient
<1>8. CASE PipeAddFails(p)
  <2>1. Head(pipe[p]) \in Sockets
    BY <1>8, Busy DEF PipeAddFails
  <2>2. QED
    BY <1>8, <2>1 DEF PipeAddFails
<1>9. QED
  BY <1>1, <1>2, <1>3, <1>4, <1>5, <1>6, <1>7, <1>8 DEF PoolStep, PoolThread

LEMMA PoolStepSock ==
    ASSUME TypeInv, ThreadInv, NEW p \in Pools, PoolStep(p)
    PROVE  SockType' /\ TopType'
<1>1. SockStep(p) /\ Local(p)
  BY PoolStepSockStep, Locality
<1>2. TopType'
  BY <1>1 DEF SockStep, Local, TypeInv, TopType, listVars, acceptVars, nodeVars
<1>3. current \in 0..MaxJobs
  BY Sizes DEF TypeInv, TopType
<1> USE DEF TypeInv, SockType, SockStep
<1>4. conn' \in [Sockets -> {"new", "up", "fin", "rst", "broken", "gone"}]
  BY <1>1
<1>5. data' \in [Sockets -> 0..MaxLines] /\ sent' \in [Sockets -> 0..MaxLines]
      /\ \A s \in Sockets : data'[s] <= sent'[s]
  <2>1. sent' = sent
    BY <1>1 DEF Local
  <2>2. QED
    BY <1>1, <2>1, Sizes
<1>6. aborting' \in [Sockets -> BOOLEAN]
  BY <1>1
<1>7. logged' \in [Sockets -> BOOLEAN]
  BY <1>1
<1>8. known' \in [Sockets -> 0..MaxJobs]
  BY <1>1, <1>3
<1>9. QED
  BY <1>2, <1>4, <1>5, <1>6, <1>7, <1>8

LEMMA PoolStepTypes ==
    ASSUME TypeInv, ThreadInv, CountInv, NEW p \in Pools, PoolStep(p)
    PROVE  TypeInv'
<1>1. SharedType' /\ RdyType' /\ PoolType' /\ SockType' /\ TopType'
  BY PoolStepShared, PoolStepRdy, PoolStepPool, PoolStepSock
<1>2. QED
  BY <1>1 DEF TypeInv

-----------------------------------------------------------------------------
(* Where the threads stand, and who is where.                              *)

LEMMA PoolStepThread ==
    ASSUME TypeInv, ThreadInv, NEW p \in Pools, PoolStep(p)
    PROVE  ThreadInv'
<1>1. /\ tpc \in [Pools -> {"none", "wait", "event", "read", "pipe", "tell", "exit", "done"}]
      /\ batch \in [Pools -> Seq(Event)]
      /\ cur \in [Pools -> Idx]
      /\ slots \in [Pools -> [Idx -> Sockets \cup {None}]]
  BY DEF TypeInv, PoolType
<1>2. Local(p)
  BY Locality
<1>3. /\ tpc[p] # "none" /\ tpc'[p] # "none"
      /\ (finished'[p] => tpc'[p] = "done")
  <2>1. /\ tpc[p] \notin {"none", "done"} /\ tpc'[p] # "none"
        /\ (finished'[p] => finished[p] \/ tpc'[p] = "done")
    BY Effects
  <2>2. finished[p] => tpc[p] = "done"
    BY DEF ThreadInv
  <2>3. QED
    BY <2>1, <2>2
<1>4. /\ (tpc[p] \in {"none", "wait", "exit", "done"} => batch[p] = << >>)
      /\ (tpc[p] = "read" => slots[p][cur[p]] # None)
  BY DEF ThreadInv
<1>5. /\ (tpc'[p] \in {"wait", "exit", "done"} => batch'[p] = << >>)
      /\ (tpc'[p] = "read" => slots'[p][cur'[p]] # None)
  <2> USE DEF threadVars
  <2>1. CASE Wait(p)
    BY <1>1, <2>1, WaitFacts
  <2>2. CASE Interrupted(p) \/ LoopTest(p) \/ Finish(p)
    BY <1>1, <1>4, <2>2 DEF Interrupted, LoopTest, Finish
  <2>3. CASE PipeEvent(p) \/ ReadEvent(p)
    BY <1>1, <2>3 DEF PipeEvent, ReadEvent
  <2>4. CASE HangupEvent(p) \/ ReadNothing(p) \/ BadLine(p)
    BY <1>1, <2>4 DEF HangupEvent, ReadNothing, BadLine
  <2>5. CASE ReadData(p) \/ LoginLine(p) \/ RequestLine(p)
    BY <1>1, <1>4, <2>5 DEF ReadData, LoginLine, RequestLine
  <2>6. CASE PipeEmpty(p) \/ PipeNewBlock(p) \/ PipeAdd(p) \/ PipeAddFails(p)
    BY <1>1, <2>6 DEF PipeEmpty, PipeNewBlock, PipeAdd, PipeAddFails
  <2>7. CASE TellClient(p)
    BY <1>1, <2>7 DEF TellClient, NextClient
  <2>8. QED
    BY <2>1, <2>2, <2>3, <2>4, <2>5, <2>6, <2>7 DEF PoolStep, PoolThread
<1>6. ASSUME NEW q \in Pools
      PROVE  /\ tpc'[q] = "none" <=> ~InSeq(q, list)
             /\ (finished'[q] => tpc'[q] = "done")
             /\ (tpc'[q] = "none" => active'[q] = 0 /\ pipe'[q] = << >>)
             /\ (tpc'[q] \in {"none", "wait", "exit", "done"} => batch'[q] = << >>)
             /\ (tpc'[q] = "read" => slots'[q][cur'[q]] # None)
  <2>1. CASE q = p
    BY <1>3, <1>5, <2>1 DEF ThreadInv
  <2>2. CASE q # p
    <3>1. /\ finished'[q] = finished[q] /\ tpc'[q] = tpc[q] /\ active'[q] = active[q]
          /\ pipe'[q] = pipe[q] /\ batch'[q] = batch[q] /\ slots'[q] = slots[q] /\ cur'[q] = cur[q]
      BY <1>2, <2>2 DEF Local
    <3>2. finished'[q] => tpc'[q] = "done"
      BY <3>1 DEF ThreadInv
    <3>3. QED
      BY <3>1, <3>2 DEF ThreadInv
  <2>3. QED
    BY <2>1, <2>2
<1>7. UNCHANGED <<list, mtx, apc, asock, apos, apool, npc, npos>>
  BY <1>2 DEF Local, listVars, acceptVars, nodeVars
<1>8. QED
  BY <1>6, <1>7 DEF ThreadInv

\* A step of p brings nobody in: a socket goes from the pipe to a free slot, or
\* away.
LEMMA PoolStepOwn ==
    ASSUME TypeInv, ThreadInv, OwnInv, NEW p \in Pools, PoolStep(p)
    PROVE  OwnInv'
<1>1. /\ \A q \in Pools : pipe[q] \in Seq(Message)
      /\ pipe \in [Pools -> Seq(Message)]
      /\ slots \in [Pools -> [Idx -> Sockets \cup {None}]]
      /\ conn \in [Sockets -> {"new", "up", "fin", "rst", "broken", "gone"}]
      /\ logged \in [Sockets -> BOOLEAN]
      /\ None \notin Sockets /\ NewBlock \notin Sockets
  BY Sizes DEF TypeInv, SharedType, PoolType, SockType
<1>2. Local(p) /\ Does(p) /\ SockStep(p) /\ Idx' = Idx /\ asock' = asock
  BY Locality, Effects, PoolStepSockStep DEF Local, Idx, acceptVars
<1>3. \A q \in Pools : q # p => pipe'[q] = pipe[q] /\ slots'[q] = slots[q]
  BY <1>2 DEF Local
<1>4. \A s \in Sockets : conn'[s] = "new" <=> conn[s] = "new" /\ ~(conn'[s] = "gone")
  BY <1>1, <1>2 DEF SockStep
<1>5. \A s \in Sockets : logged'[s] => logged[s] \/ Seated(s)
  <2>1. CASE LoginLine(p)
    <3>1. logged' = [logged EXCEPT ![slots[p][cur[p]]] = TRUE]
      BY <2>1 DEF LoginLine
    <3>2. Seated(slots[p][cur[p]])
      BY Busy DEF Seated
    <3>3. ASSUME NEW s \in Sockets, logged'[s], s # slots[p][cur[p]]
          PROVE  logged[s]
      <4>1. logged'[s] = logged[s]
        BY <1>1, <3>1, <3>3
      <4>2. QED
        BY <3>3, <4>1
    <3>4. QED
      BY <3>2, <3>3
  <2>2. CASE ~LoginLine(p)
    <3>1. logged' = logged
      BY <2>2 DEF PoolStep, PoolThread, Wait, LoopTest, Finish, PipeEvent, ReadEvent, HangupEvent,
                  ReadData, ReadNothing, RequestLine, BadLine, PipeEmpty, PipeNewBlock, TellClient,
                  PipeAdd, PipeAddFails, Interrupted, clientVars
    <3>2. QED
      BY <3>1
  <2>3. QED
    BY <2>1, <2>2
<1>6. \A q \in Pools : /\ Uniq(pipe'[q])
                       /\ \A s \in Sockets : InSeq(s, pipe'[q]) => InSeq(s, pipe[q])
  <2>1. pipe' = pipe \/ (pipe[p] # << >> /\ pipe' = [pipe EXCEPT ![p] = Tail(pipe[p])])
    BY <1>2 DEF Does, Keep, Leave, PopBlock, PipeAdd, PipeAddFails
  <2>2. \A q \in Pools : Uniq(pipe[q])
    BY DEF OwnInv
  <2>3. CASE pipe' = pipe
    BY <2>2, <2>3
  <2>4. CASE pipe[p] # << >> /\ pipe' = [pipe EXCEPT ![p] = Tail(pipe[p])]
    <3>1. pipe'[p] = Tail(pipe[p]) /\ \A q \in Pools : q # p => pipe'[q] = pipe[q]
      BY <1>1, <2>4
    <3>2. Uniq(Tail(pipe[p])) /\ \A s : InSeq(s, Tail(pipe[p])) => InSeq(s, pipe[p])
      BY <1>1, <2>2, <2>4, Tailed
    <3>3. QED
      BY <2>2, <3>1, <3>2
  <2>5. QED
    BY <2>1, <2>3, <2>4
\* The slots.
<1> DEFINE came == Head(pipe[p])
<1>7. /\ \A q \in Pools, k \in Idx : \/ slots'[q][k] \in {slots[q][k], None}
                                     \/ PipeAdd(p) /\ q = p /\ slots'[q][k] = came
      /\ (PipeAdd(p) => \A k, l \in Idx : slots'[p][k] = came /\ slots'[p][l] = came => k = l)
      /\ (PipeAdd(p) => /\ came \in Sockets /\ Queued(came) /\ ~InSeq(came, pipe'[p])
                        /\ ~Seated(came))
  <2>1. CASE PipeAdd(p)
    <3>1. came \in Sockets /\ InSeq(came, pipe[p]) /\ ~InSeq(came, Tail(pipe[p]))
      <4>1. pipe[p] # << >> /\ came # NewBlock /\ Uniq(pipe[p])
        BY <2>1 DEF PipeAdd, OwnInv
      <4>2. QED
        BY <1>1, <4>1, Busy, Tailed
    <3>2. Queued(came) /\ ~Seated(came)
      BY <3>1 DEF Queued, OwnInv
    <3>3. pipe'[p] = Tail(pipe[p])
      BY <1>1, <2>1 DEF PipeAdd
    <3> DEFINE k0 == CHOOSE j \in FreeSlots(p) : \A i \in FreeSlots(p) : j <= i
    <3>4. slots' = [slots EXCEPT ![p][k0] = came]
      BY <2>1 DEF PipeAdd
    <3>5. /\ \A q \in Pools, k \in Idx : slots'[q][k] = slots[q][k] \/ (q = p /\ k = k0)
          /\ k0 \in Idx => slots'[p][k0] = came
      <4> HIDE DEF k0, came
      <4>1. QED
        BY <1>1, <3>4
    <3>6. \A k \in Idx : slots[p][k] # came
      BY <3>2 DEF Seated
    <3> HIDE DEF k0, came
    <3>7. QED
      BY <2>1, <3>1, <3>2, <3>3, <3>5, <3>6
  <2>2. CASE ~PipeAdd(p)
    <3>1. slots' = slots \/ \E k \in Idx : slots' = [slots EXCEPT ![p][k] = None]
      BY <1>2, <2>2 DEF Does, Keep, Leave, RemoveClient, PopBlock, PipeAddFails, threadVars
    <3>a. ASSUME NEW l \in Idx, slots' = [slots EXCEPT ![p][l] = None]
          PROVE  \A q \in Pools, k \in Idx : slots'[q][k] \in {slots[q][k], None}
      BY <1>1, <3>a
    <3>2. \A q \in Pools, k \in Idx : slots'[q][k] \in {slots[q][k], None}
      BY <3>1, <3>a
    <3>3. QED
      BY <2>2, <3>2
  <2>3. QED
    BY <2>1, <2>2
<1> HIDE DEF came
<1>8. \A s \in Sockets : Queued(s)' => Queued(s)
  BY <1>2, <1>6 DEF Queued
<1>9. \A s \in Sockets : Seated(s)' => Seated(s) \/ (PipeAdd(p) /\ s = came)
  BY <1>1, <1>2, <1>7 DEF Seated
<1>a. \A q, r \in Pools : \A k, l \in Idx :
        slots[q][k] = slots[r][l] /\ slots[q][k] # None => q = r /\ k = l
  BY DEF OwnInv
<1>10. ASSUME NEW q \in Pools, NEW r \in Pools, NEW k \in Idx, NEW l \in Idx,
              slots'[q][k] = slots'[r][l], slots'[q][k] # None
       PROVE  q = r /\ k = l
  <2>1. CASE slots'[q][k] = slots[q][k] /\ slots'[r][l] = slots[r][l]
    <3>1. slots[q][k] = slots[r][l] /\ slots[q][k] # None
      BY <1>10, <2>1
    <3>2. QED
      BY <1>a, <3>1
  <2>2. CASE PipeAdd(p) /\ slots'[q][k] = came
    <3>1. ~Seated(came)
      BY <1>7, <2>2
    <3>2. slots[q][k] # came /\ slots[r][l] # came
      BY <3>1 DEF Seated
    <3>3. q = p /\ r = p
      BY <1>7, <1>10, <2>2, <3>2
    <3>4. QED
      BY <1>7, <1>10, <2>2, <3>3
  <2>3. QED
    BY <1>7, <1>10, <2>1, <2>2
<1>11. ASSUME NEW s \in Sockets, Queued(s)'
       PROVE  ~Seated(s)' /\ conn'[s] # "new" /\ ~logged'[s]
  <2>1. Queued(s) /\ ~Seated(s) /\ conn[s] # "new" /\ ~logged[s]
    BY <1>8, <1>11 DEF OwnInv
  <2>2. conn'[s] # "new" /\ ~logged'[s]
    BY <1>4, <1>5, <2>1
  <2>3. ASSUME PipeAdd(p), s = came
        PROVE  FALSE
    <3>1. InSeq(s, pipe[p]) /\ ~InSeq(s, pipe'[p])
      <4>1. InSeq(came, pipe[p])
        BY <1>1, <2>3, Tailed DEF PipeAdd, came
      <4>2. QED
        BY <1>7, <2>3, <4>1
    <3>2. asock # s /\ \A q \in Pools : InSeq(s, pipe[q]) => q = p
      BY <3>1 DEF OwnInv
    <3>3. QED
      BY <1>2, <1>6, <1>11, <3>1, <3>2 DEF Queued
  <2>4. QED
    BY <1>9, <2>1, <2>2, <2>3
<1>12. ASSUME NEW s \in Sockets, conn'[s] = "new"
       PROVE  ~Seated(s)' /\ ~logged'[s]
  <2>1. conn[s] = "new"
    BY <1>4, <1>12
  <2>2. ~Seated(s) /\ ~logged[s] /\ ~Queued(s)
    BY <2>1 DEF OwnInv
  <2>3. QED
    BY <1>5, <1>7, <1>9, <2>2
<1>13. QED
  <2>1. \A q \in Pools, s \in Sockets : ~(InSeq(s, pipe'[q]) /\ asock = s)
    BY <1>6 DEF OwnInv
  <2>2. \A q, r \in Pools, s \in Sockets : InSeq(s, pipe'[q]) /\ InSeq(s, pipe'[r]) => q = r
    BY <1>6 DEF OwnInv
  <2>3. QED
    BY <1>2, <1>6, <1>10, <1>11, <1>12, <2>1, <2>2 DEF OwnInv

-----------------------------------------------------------------------------
(* The count of clients.                                                   *)

LEMMA PoolStepCount ==
    ASSUME TypeInv, ThreadInv, CountInv, NEW p \in Pools, PoolStep(p)
    PROVE  CountInv'
<1>1. /\ active \in [Pools -> Nat] /\ pipe \in [Pools -> Seq(Message)]
      /\ slots \in [Pools -> [Idx -> Sockets \cup {None}]]
      /\ None \notin Sockets
  BY Sizes DEF TypeInv, SharedType, PoolType
<1>2. /\ Local(p) /\ Does(p) /\ (Keep \/ (At(p) /\ At(p)'))
      /\ tpc[p] # "none"
      /\ (tpc'[p] \in {"exit", "done"} => tpc[p] = "exit" \/ active[p] = 0)
      /\ tpc'[p] # "none"
  BY Locality, Effects
<1>3. /\ size' = size /\ Idx' = Idx /\ list' = list /\ apc' = apc /\ apool' = apool
      /\ \A q \in Pools : Pending(q)' = Pending(q)
  BY <1>2 DEF Local, Idx, listVars, acceptVars, Pending
<1>4. /\ size \in Nat /\ size >= 1 /\ InSeq(p, list)
      /\ active[p] \in Nat /\ active[p] <= size
      /\ slots[p] \in [1..size -> Sockets \cup {None}] /\ pipe[p] \in Seq(Message)
      /\ Taken(Idx, slots[p]) \in Nat /\ Queue(pipe[p]) \in Nat /\ Pending(p) \in {0, 1}
      /\ active[p] = Taken(Idx, slots[p]) + Queue(pipe[p]) + Pending(p)
      /\ (pipe[p] # << >> /\ Head(pipe[p]) # NewBlock => active[p] >= 1)
      /\ \A k \in Idx : slots[p][k] # None => active[p] >= 1
  BY <1>2, Counted
<1>a. /\ \A k \in Idx : slots[p][k] # None =>
             Taken(Idx, [slots[p] EXCEPT ![k] = None]) = Taken(Idx, slots[p]) - 1
      /\ \A k \in Idx : \A s : slots[p][k] = None /\ s # None =>
             Taken(Idx, [slots[p] EXCEPT ![k] = s]) = Taken(Idx, slots[p]) + 1
  <2>1. size \in Nat /\ slots[p] \in [1..size -> Sockets \cup {None}]
    BY <1>4
  <2>2. QED
    BY <2>1, TakenChanges DEF Idx
<1>5. /\ active'[p] = Taken(Idx, slots'[p]) + Queue(pipe'[p]) + Pending(p)
      /\ active'[p] \in Nat /\ active'[p] <= active[p]
  <2>1. CASE Keep
    BY <1>4, <2>1 DEF Keep
  <2>2. ASSUME NEW k \in Idx, Leave(p, k)
        PROVE  /\ active'[p] = Taken(Idx, slots'[p]) + Queue(pipe'[p]) + Pending(p)
               /\ active'[p] \in Nat /\ active'[p] <= active[p]
    <3>1. /\ slots'[p] = [slots[p] EXCEPT ![k] = None] /\ active'[p] = active[p] - 1
          /\ pipe'[p] = pipe[p] /\ slots[p][k] # None
      BY <1>1, <2>2 DEF Leave, RemoveClient
    <3>2. Taken(Idx, [slots[p] EXCEPT ![k] = None]) = Taken(Idx, slots[p]) - 1
      BY <1>a, <3>1
    <3>3. Taken(Idx, slots'[p]) = Taken(Idx, slots[p]) - 1 /\ active[p] >= 1
      BY <1>4, <3>1, <3>2
    <3>4. QED
      BY <1>4, <3>1, <3>3
  <2>3. CASE PopBlock(p)
    <3>1. pipe'[p] = Tail(pipe[p]) /\ slots' = slots /\ active' = active
          /\ pipe[p] # << >> /\ Head(pipe[p]) = NewBlock
      BY <1>1, <2>3 DEF PopBlock
    <3>2. Queue(Tail(pipe[p])) = Queue(pipe[p])
      BY <1>4, <3>1, QueueTailed
    <3>3. QED
      BY <1>4, <3>1, <3>2
  <2>4. CASE PipeAdd(p)
    <3> DEFINE k0 == CHOOSE j \in FreeSlots(p) : \A i \in FreeSlots(p) : j <= i
    <3>1. /\ pipe'[p] = Tail(pipe[p]) /\ active' = active
          /\ pipe[p] # << >> /\ Head(pipe[p]) # NewBlock
          /\ FreeSlots(p) # {} /\ slots' = [slots EXCEPT ![p][k0] = Head(pipe[p])]
      BY <1>1, <2>4 DEF PipeAdd
    <3>2. k0 \in Idx /\ slots[p][k0] = None
      BY <3>1, FirstFree DEF FreeSlots
    <3> HIDE DEF k0
    <3>3. slots'[p] = [slots[p] EXCEPT ![k0] = Head(pipe[p])]
      BY <1>1, <3>1
    <3>4. Head(pipe[p]) # None
      <4>1. pipe[p] # << >> /\ Head(pipe[p]) # NewBlock
        BY <3>1
      <4>2. Head(pipe[p]) \in Sockets
        BY <4>1, Busy
      <4>3. QED
        BY <1>1, <4>2
    <3>5. Taken(Idx, [slots[p] EXCEPT ![k0] = Head(pipe[p])]) = Taken(Idx, slots[p]) + 1
      BY <1>a, <3>2, <3>4
    <3>6. Queue(pipe[p]) = Queue(Tail(pipe[p])) + 1 /\ Queue(Tail(pipe[p])) \in Nat
      BY <1>4, <3>1, QueueTailed
    <3>7. active'[p] = active[p] /\ Taken(Idx, slots'[p]) = Taken(Idx, slots[p]) + 1
          /\ Queue(pipe[p]) = Queue(pipe'[p]) + 1 /\ Queue(pipe'[p]) \in Nat
      BY <3>1, <3>3, <3>5, <3>6
    <3>8. Taken(Idx, slots[p]) \in Nat /\ Pending(p) \in {0, 1} /\ active[p] \in Nat
          /\ active[p] = Taken(Idx, slots[p]) + Queue(pipe[p]) + Pending(p)
      BY <1>4
    <3>9. QED
      BY <3>7, <3>8
  <2>5. CASE PipeAddFails(p)
    <3>1. /\ pipe'[p] = Tail(pipe[p]) /\ active'[p] = active[p] - 1 /\ slots' = slots
          /\ pipe[p] # << >> /\ Head(pipe[p]) # NewBlock
      BY <1>1, <2>5 DEF PipeAddFails, threadVars
    <3>2. Queue(pipe[p]) = Queue(Tail(pipe[p])) + 1 /\ Queue(Tail(pipe[p])) \in Nat
      BY <1>4, <3>1, QueueTailed
    <3>3. active[p] >= 1
      BY <1>4, <3>1
    <3>4. QED
      BY <1>4, <3>1, <3>2, <3>3
  <2>6. QED
    BY <1>2, <2>1, <2>2, <2>3, <2>4, <2>5 DEF Does
<1>6. ASSUME NEW q \in Pools, q # p
      PROVE  /\ active'[q] = active[q] /\ pipe'[q] = pipe[q] /\ slots'[q] = slots[q]
             /\ tpc'[q] = tpc[q]
  BY <1>2, <1>6 DEF Local
<1>7. ASSUME NEW q \in Pools, InSeq(q, list')
      PROVE  active'[q] = Taken(Idx', slots'[q]) + Queue(pipe'[q]) + Pending(q)'
  <2>1. CASE q = p
    BY <1>3, <1>5, <2>1
  <2>2. CASE q # p
    BY <1>3, <1>6, <1>7, <2>2 DEF CountInv
  <2>3. QED
    BY <2>1, <2>2
<1>8. ASSUME NEW q \in Pools
      PROVE  active'[q] <= active[q] /\ active'[q] <= size'
  <2>1. active[q] \in Nat /\ active[q] <= size
    BY <1>1 DEF CountInv
  <2>2. CASE q = p
    BY <1>3, <1>4, <1>5, <2>1, <2>2
  <2>3. CASE q # p
    BY <1>3, <1>6, <2>1, <2>3
  <2>4. QED
    BY <2>2, <2>3
<1>9. apc' = "found" => active'[apool'] < size'
  <2>1. SUFFICES ASSUME apc' = "found"
                 PROVE  active'[apool'] < size'
    OBVIOUS
  <2>2. apc = "found" /\ apool \in Pools /\ active[apool] < size
    BY <1>3, <2>1 DEF ThreadInv, CountInv
  <2>3. active[apool] \in Nat /\ active'[apool] \in Nat /\ active'[apool] <= active[apool]
    BY <1>1, <1>5, <1>6, <1>8, <2>2
  <2>4. QED
    BY <1>3, <1>4, <2>2, <2>3
<1>10. FinishedServesNobody'
  <2>1. SUFFICES ASSUME NEW q \in Pools, tpc'[q] \in {"none", "exit", "done"}, NEW k \in Idx
                 PROVE  slots'[q][k] = None
    BY <1>3 DEF FinishedServesNobody
  <2>2. CASE q # p
    BY <1>6, <2>1, <2>2 DEF CountInv, FinishedServesNobody
  <2>3. CASE q = p
    <3>1. tpc'[p] \in {"exit", "done"} /\ Keep
      BY <1>2, <2>1, <2>3 DEF At
    <3>2. tpc[p] = "exit" \/ active[p] = 0
      BY <1>2, <3>1
    <3>3. slots[p][k] = None
      <4>1. CASE tpc[p] = "exit"
        BY <4>1 DEF CountInv, FinishedServesNobody
      <4>2. CASE active[p] = 0
        BY <1>4, <4>2
      <4>3. QED
        BY <3>2, <4>1, <4>2
    <3>4. QED
      BY <2>3, <3>1, <3>3 DEF Keep
  <2>4. QED
    BY <2>2, <2>3
<1>11. QED
  BY <1>7, <1>8, <1>9, <1>10 DEF CountInv

-----------------------------------------------------------------------------
(* No edge is lost.                                                        *)

\* Who keeps or gets a slot is as it was, but that it may be read or aborted.
LEMMA SeatedStay ==
    ASSUME TypeInv, ThreadInv, OwnInv, NEW p \in Pools, PoolStep(p),
           NEW q \in Pools, NEW k \in Idx, NEW s \in Sockets, slots'[q][k] = s
    PROVE  conn'[s] = conn[s] /\ (Wants(s)' => Wants(s))
<1>1. /\ slots \in [Pools -> [Idx -> Sockets \cup {None}]]
      /\ conn \in [Sockets -> {"new", "up", "fin", "rst", "broken", "gone"}]
      /\ data \in [Sockets -> 0..MaxLines] /\ aborting \in [Sockets -> BOOLEAN]
      /\ MaxLines \in Nat /\ None \notin Sockets
  BY Sizes DEF TypeInv, PoolType, SockType
<1>2. Does(p) /\ SockStep(p) /\ PoolType' /\ Idx' = Idx
  BY Effects, PoolStepSockStep, PoolStepPool, Locality DEF Local, Idx
<1>4. conn'[s] = conn[s]
  <2>1. CASE conn' = conn
    BY <2>1
  <2>2. ASSUME NEW l \in Idx, Leave(p, l)
        PROVE  conn'[s] = conn[s]
    <3>1. /\ slots' = [slots EXCEPT ![p][l] = None] /\ slots[p][l] # None
          /\ conn' = [conn EXCEPT ![slots[p][l]] = "gone"]
      BY <2>2 DEF Leave, RemoveClient
    <3>2. s = slots[q][k] /\ ~(q = p /\ k = l)
      BY <1>1, <3>1
    <3>3. s # slots[p][l]
      BY <3>1, <3>2 DEF OwnInv
    <3>4. QED
      BY <1>1, <3>1, <3>3
  <2>3. CASE PipeAddFails(p)
    <3>1. /\ slots' = slots /\ conn' = [conn EXCEPT ![Head(pipe[p])] = "gone"]
          /\ pipe[p] # << >> /\ Head(pipe[p]) # NewBlock
      BY <2>3 DEF PipeAddFails, threadVars
    <3>2. Head(pipe[p]) \in Sockets /\ InSeq(Head(pipe[p]), pipe[p])
      <4>1. pipe[p] \in Seq(Message)
        BY DEF TypeInv, SharedType
      <4>2. QED
        BY <3>1, <4>1, Busy, Tailed
    <3>3. ~Seated(Head(pipe[p]))
      BY <3>2 DEF OwnInv, Queued
    <3>4. s # Head(pipe[p])
      BY <3>1, <3>3 DEF Seated
    <3>5. QED
      BY <1>1, <3>1, <3>4
  <2>4. QED
    BY <1>2, <2>1, <2>2, <2>3 DEF Does, Keep, PopBlock, PipeAdd, sockVars
<1>5. data'[s] = data[s] \/ data'[s] = 0
  BY <1>1, <1>2 DEF SockStep
<1>6. aborting[s] => aborting'[s]
  BY <1>1, <1>2 DEF SockStep
<1>7. Wants(s)' => Wants(s)
  <2>1. ASSUME ~aborting'[s], data'[s] > 0 \/ conn'[s] # "up"
        PROVE  ~aborting[s] /\ (data[s] > 0 \/ conn[s] # "up")
    BY <1>4, <1>5, <1>6, <2>1
  <2>2. QED
    BY <2>1 DEF Wants
<1>8. QED
  BY <1>4, <1>7

\* Only epoll_wait takes a client that stays from the ready list.
LEMMA RdyKept ==
    ASSUME TypeInv, ThreadInv, OwnInv, NEW p \in Pools, PoolStep(p), ~Wait(p)
    PROVE  /\ (InSeq(Pipe, rdy[p]) => InSeq(Pipe, rdy'[p]))
           /\ \A k \in Idx : slots'[p][k] # None =>
                \/ /\ slots'[p][k] = slots[p][k]
                   /\ (InSeq(slots[p][k], rdy[p]) => InSeq(slots[p][k], rdy'[p]))
                \/ /\ PipeAdd(p) /\ slots'[p][k] = Head(pipe[p])
                   /\ (Readable(p, Head(pipe[p])) => InSeq(Head(pipe[p]), rdy'[p]))
<1>1. /\ slots \in [Pools -> [Idx -> Sockets \cup {None}]] /\ Pipe \notin Sockets
      /\ Pipe \in PipeTypes /\ Sockets \subseteq PipeTypes
      /\ RdyType
  BY Sizes DEF TypeInv, PoolType, PipeTypes
<1> DEFINE Goal == /\ (InSeq(Pipe, rdy[p]) => InSeq(Pipe, rdy'[p]))
                   /\ \A k \in Idx : slots'[p][k] # None =>
                        \/ /\ slots'[p][k] = slots[p][k]
                           /\ (InSeq(slots[p][k], rdy[p]) => InSeq(slots[p][k], rdy'[p]))
                        \/ /\ PipeAdd(p) /\ slots'[p][k] = Head(pipe[p])
                           /\ (Readable(p, Head(pipe[p])) => InSeq(Head(pipe[p]), rdy'[p]))
<1>2. CASE slots' = slots /\ rdy' = rdy
  BY <1>2
<1>3. ASSUME NEW x \in Sockets, slots' = slots, Send(p, x)
      PROVE  Goal
  <2>1. rdy' = rdy \/ \A y : InSeq(y, rdy[p]) => InSeq(y, rdy'[p])
    BY <1>1, <1>3, SendFacts, EdgeFacts
  <2>2. QED
    BY <1>3, <2>1
<1>4. ASSUME NEW l \in Idx, slots[p][l] # None, RemoveClient(p, l, slots[p][l])
      PROVE  Goal
  <2>1. \A y : InSeq(y, rdy'[p]) <=> InSeq(y, rdy[p]) /\ y # slots[p][l]
    BY <1>1, <1>4, RemoveRdy DEF RemoveClient
  <2>2. slots' = [slots EXCEPT ![p][l] = None] /\ slots[p][l] # Pipe
    BY <1>1, <1>4 DEF RemoveClient
  <2>3. ASSUME NEW k \in Idx, slots'[p][k] # None
        PROVE  slots'[p][k] = slots[p][k] /\ slots[p][k] # slots[p][l]
    <3>1. slots'[p][k] = slots[p][k] /\ k # l
      BY <1>1, <2>2, <2>3
    <3>2. QED
      BY <1>4, <3>1 DEF OwnInv
  <2>4. QED
    BY <2>1, <2>2, <2>3
<1>5. CASE PipeAdd(p)
  <2> DEFINE k0 == CHOOSE j \in FreeSlots(p) : \A i \in FreeSlots(p) : j <= i
             s == Head(pipe[p])
  <2>1. /\ slots' = [slots EXCEPT ![p][k0] = s]
        /\ IF Readable(p, s) THEN Edge(p, s) ELSE UNCHANGED rdy
    BY <1>5 DEF PipeAdd
  <2>2. s \in Sockets
    BY <1>5, Busy DEF PipeAdd
  <2>3. \A k \in Idx : slots'[p][k] = slots[p][k] \/ slots'[p][k] = s
    <3> HIDE DEF k0, s
    <3>1. QED
      BY <1>1, <2>1
  <2>4. /\ \A y : InSeq(y, rdy[p]) => InSeq(y, rdy'[p])
        /\ (Readable(p, s) => InSeq(s, rdy'[p]))
    <3>1. CASE Readable(p, s)
      BY <1>1, <2>1, <2>2, <3>1, EdgeFacts
    <3>2. CASE ~Readable(p, s)
      BY <2>1, <3>2
    <3>3. QED
      BY <3>1, <3>2
  <2>5. QED
    BY <1>5, <2>3, <2>4
<1> HIDE DEF Goal
<1>6. CASE HangupEvent(p)
  <2>1. Head(batch[p]).idx \in Idx
    <3>1. batch[p] # << >> /\ Head(batch[p]).idx # 0 /\ batch[p] \in Seq(Event) /\ size \in Nat
      BY <1>6, Sizes DEF HangupEvent, TypeInv, PoolType, TopType
    <3>2. Head(batch[p]) \in Event
      BY <3>1, HeadTailProperties
    <3>3. QED
      BY <3>1, <3>2 DEF Event, Idx
  <2>2. QED
    BY <1>2, <1>4, <1>6, <2>1 DEF HangupEvent, Goal
<1>7. CASE ReadNothing(p) \/ BadLine(p)
  <2>1. cur[p] \in Idx /\ slots[p][cur[p]] # None
    BY <1>1, <1>7, Busy DEF ReadNothing, BadLine, ThreadInv
  <2>2. (slots' = slots /\ rdy' = rdy) \/ RemoveClient(p, cur[p], slots[p][cur[p]])
    BY <1>7 DEF ReadNothing, BadLine
  <2>3. QED
    BY <1>2, <1>4, <2>1, <2>2 DEF Goal
<1>8. CASE LoginLine(p) \/ RequestLine(p)
  <2>1. slots[p][cur[p]] \in Sockets /\ Send(p, slots[p][cur[p]]) /\ slots' = slots
    BY <1>8, Busy DEF LoginLine, RequestLine, threadVars
  <2>2. QED
    BY <1>3, <2>1 DEF Goal
<1>9. CASE TellClient(p)
  <2>1. cur[p] \in Idx /\ (slots[p][cur[p]] # None => slots[p][cur[p]] \in Sockets)
    BY Busy
  <2>2. \/ slots' = slots /\ rdy' = rdy
        \/ slots[p][cur[p]] # None /\ RemoveClient(p, cur[p], slots[p][cur[p]])
        \/ slots[p][cur[p]] # None /\ slots' = slots /\ Send(p, slots[p][cur[p]])
    BY <1>9 DEF TellClient
  <2>3. QED
    BY <1>2, <1>3, <1>4, <2>1, <2>2 DEF Goal
<1>10. CASE (slots' = slots /\ rdy' = rdy) \/ PipeAdd(p)
  BY <1>2, <1>5, <1>10 DEF Goal
<1>a. CASE Interrupted(p) \/ LoopTest(p) \/ Finish(p) \/ PipeEvent(p) \/ ReadEvent(p) \/ ReadData(p)
        \/ PipeEmpty(p) \/ PipeNewBlock(p) \/ PipeAddFails(p)
  BY <1>10, <1>a
    DEF LoopTest, Finish, PipeEvent, ReadEvent, ReadData, PipeEmpty, PipeNewBlock,
        PipeAddFails, Interrupted, threadVars
<1>11. QED
  BY <1>5, <1>6, <1>7, <1>8, <1>9, <1>a DEF PoolStep, PoolThread

LEMMA BatchTail ==
    ASSUME TypeInv, NEW p \in Pools, batch[p] # << >>, batch' = [batch EXCEPT ![p] = Tail(@)]
    PROVE  \A k : Batched(p, k) => Batched(p, k)' \/ k = Head(batch[p]).idx
<1>1. batch[p] \in Seq(Event) /\ batch'[p] = Tail(batch[p])
  BY DEF TypeInv, PoolType
<1>2. ASSUME NEW k, NEW i \in DOMAIN batch[p], batch[p][i].idx = k, k # Head(batch[p]).idx
      PROVE  \E j \in DOMAIN Tail(batch[p]) : Tail(batch[p])[j].idx = k
  <2>1. /\ i \in Int /\ (i = 1 => batch[p][i] = Head(batch[p]))
        /\ (i # 1 => i - 1 \in DOMAIN Tail(batch[p]) /\ Tail(batch[p])[i - 1] = batch[p][i])
    BY <1>1
  <2>2. i # 1
    BY <1>2, <2>1
  <2>3. QED
    BY <1>2, <2>1, <2>2
<1>3. QED
  BY <1>1, <1>2 DEF Batched

\* What the thread was at is done, or it is still at it.
LEMMA Handled ==
    ASSUME TypeInv, ThreadInv, NEW p \in Pools, PoolStep(p), ~Wait(p)
    PROVE  /\ pipe'[p] # << >> => pipe[p] # << >>
           /\ pipe'[p] # << >> /\ (tpc[p] \in {"pipe", "tell"} \/ Batched(p, 0)) =>
                 tpc'[p] \in {"pipe", "tell"} \/ Batched(p, 0)'
           /\ \A k \in Idx, s \in Sockets :
                 /\ slots[p][k] = s /\ slots'[p][k] = s /\ Wants(s)'
                 /\ (tpc[p] = "read" /\ cur[p] = k) \/ Batched(p, k)
                 => (tpc'[p] = "read" /\ cur'[p] = k) \/ Batched(p, k)'
<1> DEFINE PipeGoal == pipe'[p] # << >> /\ (tpc[p] \in {"pipe", "tell"} \/ Batched(p, 0)) =>
                          tpc'[p] \in {"pipe", "tell"} \/ Batched(p, 0)'
           SlotGoal == \A k \in Idx, s \in Sockets :
                          /\ slots[p][k] = s /\ slots'[p][k] = s /\ Wants(s)'
                          /\ (tpc[p] = "read" /\ cur[p] = k) \/ Batched(p, k)
                          => (tpc'[p] = "read" /\ cur'[p] = k) \/ Batched(p, k)'
<1>1. /\ tpc \in [Pools -> {"none", "wait", "event", "read", "pipe", "tell", "exit", "done"}]
      /\ cur \in [Pools -> Idx] /\ pipe \in [Pools -> Seq(Message)]
      /\ slots \in [Pools -> [Idx -> Sockets \cup {None}]]
      /\ None \notin Sockets
  BY Sizes DEF TypeInv, PoolType, SharedType
<1>2. pipe'[p] # << >> => pipe[p] # << >>
  <2>1. pipe' = pipe \/ pipe[p] # << >>
    BY Effects DEF Does, Keep, Leave, PopBlock, PipeAdd, PipeAddFails
  <2>2. QED
    BY <2>1
<1>3. CASE Interrupted(p) \/ LoopTest(p) \/ Finish(p)
  <2>1. batch' = batch /\ tpc[p] \notin {"read", "pipe", "tell"}
    BY <1>3 DEF Interrupted, LoopTest, Finish
  <2>2. QED
    BY <1>2, <2>1 DEF Batched
<1>4. CASE PipeEvent(p) \/ ReadEvent(p) \/ HangupEvent(p)
  <2>1. /\ tpc[p] = "event" /\ batch[p] # << >> /\ batch' = [batch EXCEPT ![p] = Tail(@)]
    BY <1>4 DEF PipeEvent, ReadEvent, HangupEvent
  <2>2. \A k : Batched(p, k) => Batched(p, k)' \/ k = Head(batch[p]).idx
    BY <2>1, BatchTail
  <2>3. CASE Head(batch[p]).idx = 0
    <3>1. tpc'[p] = "pipe"
      BY <1>1, <1>4, <2>3 DEF PipeEvent, ReadEvent, HangupEvent
    <3>2. \A k \in Idx : k # 0
      BY Sizes DEF Idx, TypeInv, TopType
    <3>3. QED
      BY <1>2, <2>1, <2>2, <2>3, <3>1, <3>2
  <2>4. CASE Head(batch[p]).idx # 0
    <3>1. PipeGoal
      BY <2>1, <2>2, <2>4
    <3>2. ASSUME NEW k \in Idx, NEW s \in Sockets, slots[p][k] = s, slots'[p][k] = s,
                 k = Head(batch[p]).idx
          PROVE  tpc'[p] = "read" /\ cur'[p] = k
      <4>1. CASE ReadEvent(p)
        BY <1>1, <3>2, <4>1 DEF ReadEvent
      <4>2. CASE HangupEvent(p)
        BY <1>1, <3>2, <4>2 DEF HangupEvent, RemoveClient
      <4>3. QED
        BY <1>4, <2>4, <4>1, <4>2 DEF PipeEvent
    <3>3. SlotGoal
      BY <2>1, <2>2, <3>2
    <3>4. QED
      BY <1>2, <3>1, <3>3
  <2>5. QED
    BY <2>3, <2>4
<1>5. CASE ReadData(p) \/ LoginLine(p) \/ RequestLine(p)
  <2>1. UNCHANGED <<tpc, cur, batch>>
    BY <1>5 DEF ReadData, LoginLine, RequestLine
  <2>2. QED
    BY <1>2, <2>1 DEF Batched
<1>6. CASE ReadNothing(p) \/ BadLine(p)
  <2>1. tpc[p] = "read" /\ batch' = batch
    BY <1>6 DEF ReadNothing, BadLine
  <2>2. ASSUME NEW s \in Sockets, slots[p][cur[p]] = s, slots'[p][cur[p]] = s, Wants(s)'
        PROVE  FALSE
    <3>1. \/ slots' = [slots EXCEPT ![p][cur[p]] = None]
          \/ UNCHANGED <<aborting, data, conn>> /\ (aborting[s] \/ (data[s] = 0 /\ conn[s] = "up"))
      BY <1>6, <2>2 DEF ReadNothing, BadLine, RemoveClient, clientVars
    <3>2. CASE slots' = [slots EXCEPT ![p][cur[p]] = None]
      BY <1>1, <2>2, <3>2
    <3>3. CASE UNCHANGED <<aborting, data, conn>> /\ (aborting[s] \/ (data[s] = 0 /\ conn[s] = "up"))
      BY <2>2, <3>3 DEF Wants
    <3>4. QED
      BY <3>1, <3>2, <3>3
  <2>3. Batched(p, 0) => Batched(p, 0)'
    BY <2>1 DEF Batched
  <2>4. \A k \in Idx : Batched(p, k) => Batched(p, k)'
    BY <2>1 DEF Batched
  <2>5. QED
    BY <1>2, <2>1, <2>2, <2>3, <2>4
<1>7. CASE PipeEmpty(p)
  BY <1>2, <1>7 DEF PipeEmpty, Batched, sharedVars
<1>8. CASE PipeNewBlock(p) \/ TellClient(p) \/ PipeAdd(p) \/ PipeAddFails(p)
  <2>1. /\ batch' = batch /\ tpc[p] # "read" /\ tpc'[p] \in {"pipe", "tell"}
    BY <1>1, <1>8 DEF PipeNewBlock, TellClient, NextClient, PipeAdd, PipeAddFails, threadVars
  <2>2. QED
    BY <1>2, <2>1 DEF Batched
<1>9. QED
  BY <1>3, <1>4, <1>5, <1>6, <1>7, <1>8 DEF PoolStep, PoolThread

LEMMA PoolStepWoken ==
    ASSUME TypeInv, ThreadInv, OwnInv, Woken, NEW p \in Pools, PoolStep(p)
    PROVE  Woken'
<1>1. /\ slots \in [Pools -> [Idx -> Sockets \cup {None}]] /\ slots' \in [Pools -> [Idx -> Sockets \cup {None}]]
      /\ Idx' = Idx
  BY PoolStepPool, Locality DEF TypeInv, PoolType, Local, Idx
<1>2. ASSUME NEW q \in Pools, q # p
      PROVE  /\ (pipe'[q] # << >> => DuePipe(q)')
             /\ \A k \in Idx : slots'[q][k] # None /\ Wants(slots[q][k])' => Due(q, k)'
  <2>1. /\ pipe'[q] = pipe[q] /\ rdy'[q] = rdy[q] /\ tpc'[q] = tpc[q] /\ batch'[q] = batch[q]
        /\ cur'[q] = cur[q] /\ slots'[q] = slots[q]
    BY <1>2, Locality DEF Local
  <2>2. DuePipe(q)' <=> DuePipe(q)
    BY <2>1 DEF DuePipe, Batched
  <2>3. \A k \in Idx : Due(q, k)' <=> Due(q, k)
    BY <2>1 DEF Due, Batched
  <2>4. ASSUME NEW k \in Idx, slots'[q][k] # None, Wants(slots[q][k])'
        PROVE  Wants(slots[q][k])
    <3>1. PICK s \in Sockets : slots'[q][k] = s
      BY <1>1, <2>4
    <3>2. Wants(s)'
      BY <2>4, <3>1 DEF Wants
    <3>3. Wants(s)
      BY <3>1, <3>2, SeatedStay
    <3>4. QED
      BY <2>1, <3>1, <3>3
  <2>5. QED
    BY <2>1, <2>2, <2>3, <2>4 DEF Woken
<1>3. (pipe'[p] # << >> => DuePipe(p)')
  <2>1. CASE Wait(p)
    <3>1. /\ tpc[p] = "wait" /\ pipe' = pipe
          /\ (InSeq(Pipe, rdy[p]) /\ Readable(p, Pipe) =>
                 \/ InSeq(Pipe, rdy'[p])
                 \/ \E i \in DOMAIN batch'[p] : batch'[p][i] \in EventsOf(p, Pipe))
      BY <2>1, WaitFacts DEF sharedVars
    <3>2. ~Batched(p, 0)
      BY <3>1, EmptySeqs DEF ThreadInv, Batched
    <3>3. pipe[p] # << >> => InSeq(Pipe, rdy[p]) /\ Readable(p, Pipe)
      BY <3>1, <3>2 DEF Woken, DuePipe, Readable
    <3>4. \A e \in EventsOf(p, Pipe) : e.idx = 0
      BY DEF EventsOf
    <3>5. (\E i \in DOMAIN batch'[p] : batch'[p][i] \in EventsOf(p, Pipe)) => Batched(p, 0)'
      BY <3>4 DEF Batched
    <3>6. QED
      BY <3>1, <3>3, <3>5 DEF DuePipe
  <2>2. CASE ~Wait(p)
    <3>1. pipe'[p] # << >> => pipe[p] # << >>
      BY <2>2, Handled
    <3>2. pipe'[p] # << >> => DuePipe(p)
      BY <3>1 DEF Woken
    <3>3. InSeq(Pipe, rdy[p]) => InSeq(Pipe, rdy'[p])
      BY <2>2, RdyKept
    <3>4. pipe'[p] # << >> /\ (tpc[p] \in {"pipe", "tell"} \/ Batched(p, 0)) =>
                 tpc'[p] \in {"pipe", "tell"} \/ Batched(p, 0)'
      BY <2>2, Handled
    <3>5. QED
      BY <3>2, <3>3, <3>4 DEF DuePipe
  <2>3. QED
    BY <2>1, <2>2
<1>4. ASSUME NEW k \in Idx, slots'[p][k] # None, Wants(slots[p][k])'
      PROVE  Due(p, k)'
  <2>1. PICK s \in Sockets : slots'[p][k] = s
    BY <1>1, <1>4
  <2>2. Wants(s)'
    BY <1>4, <2>1 DEF Wants
  <2>3. Wants(s)
    BY <2>1, <2>2, SeatedStay
  <2>4. Readable(p, s)
    BY <2>3, Sizes DEF Readable, Wants
  <2>5. CASE Wait(p)
    <3>1. /\ tpc[p] = "wait" /\ slots' = slots
          /\ (InSeq(s, rdy[p]) /\ Readable(p, s) =>
                 \/ InSeq(s, rdy'[p])
                 \/ \E i \in DOMAIN batch'[p] : batch'[p][i] \in EventsOf(p, s))
      BY <2>5, WaitFacts
    <3>2. ~Batched(p, k)
      BY <3>1, EmptySeqs DEF ThreadInv, Batched
    <3>3. slots[p][k] = s /\ s # None
      BY <2>1, <3>1, Sizes
    <3>4. InSeq(s, rdy[p])
      BY <2>3, <3>1, <3>2, <3>3 DEF Woken, Due
    <3>5. \A e \in EventsOf(p, s) : e.idx = k
      <4>1. \A j \in Idx : slots[p][j] = s => j = k
        BY <3>3 DEF OwnInv
      <4>2. s # Pipe
        BY Sizes
      <4>3. QED
        BY <4>1, <4>2 DEF EventsOf
    <3>6. (\E i \in DOMAIN batch'[p] : batch'[p][i] \in EventsOf(p, s)) => Batched(p, k)'
      BY <3>5 DEF Batched
    <3>7. QED
      BY <2>1, <2>4, <3>1, <3>4, <3>6 DEF Due
  <2>6. CASE ~Wait(p)
    <3>1. CASE /\ slots'[p][k] = slots[p][k]
               /\ (InSeq(slots[p][k], rdy[p]) => InSeq(slots[p][k], rdy'[p]))
      <4>1. slots[p][k] = s /\ s # None
        BY <2>1, <3>1, Sizes
      <4>2. Due(p, k)
        BY <2>3, <4>1 DEF Woken
      <4>3. (tpc[p] = "read" /\ cur[p] = k) \/ Batched(p, k) =>
               (tpc'[p] = "read" /\ cur'[p] = k) \/ Batched(p, k)'
        BY <2>1, <2>2, <2>6, <4>1, Handled
      <4>4. QED
        BY <3>1, <4>2, <4>3 DEF Due
    <3>2. CASE /\ PipeAdd(p) /\ slots'[p][k] = Head(pipe[p])
               /\ (Readable(p, Head(pipe[p])) => InSeq(Head(pipe[p]), rdy'[p]))
      BY <2>1, <2>4, <3>2 DEF Due
    <3>3. QED
      BY <1>4, <2>6, <3>1, <3>2, RdyKept
  <2>7. QED
    BY <2>5, <2>6
<1>5. QED
  BY <1>1, <1>2, <1>3, <1>4 DEF Woken

-----------------------------------------------------------------------------
(* The news of a block.                                                    *)

Stale(s) == logged[s] /\ ~aborting[s] /\ known[s] # current
Coming(p, k) ==
    \/ npc = "published"
    \/ npc = "notify" /\ \E i \in DOMAIN list : i >= npos /\ list[i] = p
    \/ InSeq(NewBlock, pipe[p])
    \/ tpc[p] = "tell" /\ cur[p] <= k

LEMMA StaleMiners ==
    StaleMinersWillBeTold <=>
        \A p \in Pools, k \in Idx : slots[p][k] # None /\ Stale(slots[p][k]) => Coming(p, k)
  BY DEF StaleMinersWillBeTold, Stale, Coming

\* A pool's thread makes nobody stale: who logs in is given the current job.
LEMMA NobodyGetsStale ==
    ASSUME TypeInv, ThreadInv, NEW p \in Pools, PoolStep(p), NEW s \in Sockets, Stale(s)'
    PROVE  Stale(s)
<1>1. /\ logged \in [Sockets -> BOOLEAN] /\ aborting \in [Sockets -> BOOLEAN]
      /\ known \in [Sockets -> 0..MaxJobs]
  BY DEF TypeInv, SockType
<1>2. SockStep(p) /\ current' = current
  BY PoolStepSockStep, Locality DEF Local, nodeVars
<1>3. ~aborting[s]
  BY <1>1, <1>2 DEF SockStep, Stale
<1>4. known[s] # current
  BY <1>1, <1>2 DEF SockStep, Stale
<1>5. logged[s]
  <2>1. CASE LoginLine(p)
    <3>1. /\ logged' = [logged EXCEPT ![slots[p][cur[p]]] = TRUE]
          /\ known' = [known EXCEPT ![slots[p][cur[p]]] = current]
      BY <2>1 DEF LoginLine
    <3>2. s # slots[p][cur[p]]
      BY <1>1, <1>2, <3>1 DEF Stale
    <3>3. logged'[s] = logged[s]
      BY <1>1, <3>1, <3>2
    <3>4. QED
      BY <3>3 DEF Stale
  <2>2. CASE ~LoginLine(p)
    <3>1. logged' = logged
      BY <2>2 DEF PoolStep, PoolThread, Wait, LoopTest, Finish, PipeEvent, ReadEvent, HangupEvent,
                  ReadData, ReadNothing, RequestLine, BadLine, PipeEmpty, PipeNewBlock, TellClient,
                  PipeAdd, PipeAddFails, Interrupted, clientVars
    <3>2. QED
      BY <3>1 DEF Stale
  <2>3. QED
    BY <2>1, <2>2
<1>6. QED
  BY <1>3, <1>4, <1>5 DEF Stale

LEMMA PoolStepTold ==
    ASSUME TypeInv, ThreadInv, OwnInv, StaleMinersWillBeTold, NEW p \in Pools, PoolStep(p)
    PROVE  StaleMinersWillBeTold'
<1>1. /\ slots \in [Pools -> [Idx -> Sockets \cup {None}]] /\ slots' \in [Pools -> [Idx -> Sockets \cup {None}]]
      /\ tpc \in [Pools -> {"none", "wait", "event", "read", "pipe", "tell", "exit", "done"}]
      /\ cur \in [Pools -> Idx] /\ pipe \in [Pools -> Seq(Message)]
      /\ known \in [Sockets -> 0..MaxJobs] /\ current \in Int
      /\ Idx' = Idx /\ size \in Nat /\ size >= 1 /\ None \notin Sockets
  <2>1. Idx' = Idx /\ PoolType'
    BY PoolStepPool, Locality DEF Local, Idx
  <2>2. current \in Int /\ size \in Nat /\ size >= 1 /\ None \notin Sockets
    BY Sizes DEF TypeInv, TopType
  <2>3. QED
    BY <2>1, <2>2 DEF TypeInv, PoolType, SockType, SharedType
<1>2. SUFFICES ASSUME NEW q \in Pools, NEW k \in Idx, slots'[q][k] # None, Stale(slots[q][k])'
               PROVE  Coming(q, k)'
  BY <1>1 DEF StaleMinersWillBeTold, Stale, Coming
<1>3. PICK s \in Sockets : slots'[q][k] = s
  BY <1>1, <1>2
<1>4. Stale(s)'
  BY <1>2, <1>3 DEF Stale
<1>5. Stale(s)
  BY <1>4, NobodyGetsStale
<1>6. UNCHANGED <<list, npc, npos, current>>
  BY Locality DEF Local, listVars, nodeVars
<1>7. CASE q # p
  <2>1. pipe'[q] = pipe[q] /\ tpc'[q] = tpc[q] /\ cur'[q] = cur[q] /\ slots'[q] = slots[q]
    BY <1>7, Locality DEF Local
  <2>2. slots[q][k] = s /\ s # None
    BY <1>1, <1>3, <2>1
  <2>3. Coming(q, k)
    BY <1>5, <2>2, StaleMiners
  <2>4. QED
    BY <1>6, <2>1, <2>3 DEF Coming
<1>8. CASE q = p
  <2>1. slots[p][k] = s
    <3>1. CASE PipeAdd(p) /\ slots[p][k] # s
      <4> DEFINE k0 == CHOOSE j \in FreeSlots(p) : \A i \in FreeSlots(p) : j <= i
      <4>1. slots' = [slots EXCEPT ![p][k0] = Head(pipe[p])]
        BY <3>1 DEF PipeAdd
      <4>2. slots'[p][k] = Head(pipe[p])
        <5> HIDE DEF k0
        <5>1. QED
          BY <1>1, <1>3, <1>8, <3>1, <4>1
      <4>3. InSeq(s, pipe[p])
        BY <1>1, <1>3, <1>8, <3>1, <4>2, Tailed DEF PipeAdd
      <4>4. ~logged[s]
        BY <4>3 DEF OwnInv, Queued
      <4>5. QED
        BY <1>5, <4>4 DEF Stale
    <3>2. CASE ~PipeAdd(p)
      <4>1. slots' = slots \/ \E l \in Idx : slots' = [slots EXCEPT ![p][l] = None]
        BY <3>2, Effects DEF Does, Keep, Leave, RemoveClient, PopBlock, PipeAddFails, threadVars
      <4>2. CASE slots' = slots
        BY <1>3, <1>8, <4>2
      <4>3. ASSUME NEW l \in Idx, slots' = [slots EXCEPT ![p][l] = None]
            PROVE  slots[p][k] = s
        BY <1>1, <1>3, <1>8, <4>3
      <4>4. QED
        BY <4>1, <4>2, <4>3
    <3>3. QED
      BY <3>1, <3>2
  <2>2. s # None
    BY <1>1
  <2>3. Coming(p, k)
    BY <1>5, <2>1, <2>2, StaleMiners
  <2>4. CASE InSeq(NewBlock, pipe[p])
    <3>1. CASE pipe' = pipe
      BY <1>8, <2>4, <3>1 DEF Coming
    <3>2. CASE PipeNewBlock(p)
      <4>1. tpc'[p] = "tell" /\ cur'[p] = 1 /\ 1 <= k
        BY <1>1, <3>2 DEF PipeNewBlock, Idx
      <4>2. QED
        BY <1>8, <4>1 DEF Coming
    <3>3. CASE PipeAdd(p) \/ PipeAddFails(p)
      <4>1. pipe[p] # << >> /\ Head(pipe[p]) # NewBlock /\ pipe'[p] = Tail(pipe[p])
        BY <1>1, <3>3 DEF PipeAdd, PipeAddFails
      <4>2. InSeq(NewBlock, Tail(pipe[p]))
        BY <1>1, <2>4, <4>1, Tailed
      <4>3. QED
        BY <1>8, <4>1, <4>2 DEF Coming
    <3>4. QED
      <4>1. pipe' = pipe \/ PipeNewBlock(p) \/ PipeAdd(p) \/ PipeAddFails(p)
        BY DEF PoolStep, PoolThread, Wait, LoopTest, Finish, PipeEvent, ReadEvent, HangupEvent,
               ReadData, ReadNothing, LoginLine, RequestLine, BadLine, PipeEmpty, TellClient,
               Interrupted, sharedVars
      <4>2. QED
        BY <3>1, <3>2, <3>3, <4>1
  <2>5. CASE tpc[p] = "tell" /\ cur[p] <= k
    <3>1. CASE TellClient(p)
      <4>1. cur[p] # k
        <5>1. SUFFICES ASSUME cur[p] = k
                       PROVE  FALSE
          OBVIOUS
        <5>2. CASE slots' = [slots EXCEPT ![p][cur[p]] = None]
          BY <1>1, <1>3, <1>8, <5>1, <5>2
        <5>3. CASE known' = [known EXCEPT ![s] = current]
          <6>1. known'[s] = current
            BY <1>1, <5>3
          <6>2. QED
            BY <1>4, <1>6, <6>1 DEF Stale
        <5>4. QED
          BY <1>5, <2>1, <2>2, <3>1, <5>1, <5>2, <5>3 DEF TellClient, RemoveClient
      <4>2. cur[p] < k /\ cur[p] # size /\ cur[p] \in Int /\ k \in Int
        BY <1>1, <2>5, <4>1 DEF Idx
      <4>3. cur'[p] = cur[p] + 1 /\ tpc'[p] = "tell"
        BY <1>1, <2>5, <3>1, <4>2 DEF TellClient, NextClient
      <4>4. cur'[p] <= k
        BY <4>2, <4>3
      <4>5. QED
        BY <1>8, <4>3, <4>4 DEF Coming
    <3>2. QED
      BY <2>5, <3>1 DEF PoolStep, PoolThread, Wait, LoopTest, Finish, PipeEvent, ReadEvent, HangupEvent,
           ReadData, ReadNothing, LoginLine, RequestLine, BadLine, PipeEmpty, PipeNewBlock, PipeAdd,
           PipeAddFails, Interrupted
  <2>6. QED
    BY <1>6, <1>8, <2>3, <2>4, <2>5 DEF Coming
<1>9. QED
  BY <1>7, <1>8

-----------------------------------------------------------------------------
(* The peers.                                                              *)

LEMMA PeerEdge ==
    ASSUME TypeInv, OwnInv, NEW s \in Sockets, IF Open(s) THEN Edge(PoolOf(s), s) ELSE UNCHANGED rdy
    PROVE  /\ RdyType'
           /\ \A q \in Pools : \A y : InSeq(y, rdy[q]) => InSeq(y, rdy'[q])
           /\ \A q \in Pools, k \in Idx : slots[q][k] = s => InSeq(s, rdy'[q])
<1>1. RdyType /\ s \in PipeTypes
  BY DEF TypeInv, PipeTypes
<1>2. CASE Open(s)
  <2> DEFINE o == PoolOf(s)
  <2>1. o \in Pools /\ \E k \in Idx : slots[o][k] = s
    BY <1>2 DEF Open, PoolOf
  <2>2. \A q \in Pools, k \in Idx : slots[q][k] = s => q = o
    BY <2>1, Sizes DEF OwnInv
  <2>3. Edge(o, s)
    BY <1>2
  <2> HIDE DEF o
  <2>4. /\ RdyType'
        /\ \A q \in Pools : q # o => rdy'[q] = rdy[q]
        /\ \A y : InSeq(y, rdy'[o]) <=> InSeq(y, rdy[o]) \/ y = s
    BY <1>1, <2>1, <2>3, EdgeFacts
  <2>5. QED
    BY <2>2, <2>4
<1>3. CASE ~Open(s)
  BY <1>1, <1>3 DEF Open, RdyType
<1>4. QED
  BY <1>2, <1>3

LEMMA PeerSteps ==
    ASSUME IInv, NEW s \in Sockets, PeerSends(s) \/ PeerCloses(s)
    PROVE  IInv'
<1> USE DEF IInv
<1>1. UNCHANGED <<size, listVars, acceptVars, nodeVars, sharedVars, threadVars, clientVars, dead>>
  BY DEF PeerSends, PeerCloses
<1>2. /\ conn \in [Sockets -> {"new", "up", "fin", "rst", "broken", "gone"}]
      /\ data \in [Sockets -> 0..MaxLines] /\ sent \in [Sockets -> 0..MaxLines]
      /\ \A t \in Sockets : data[t] <= sent[t]
      /\ MaxLines \in Nat
      /\ slots \in [Pools -> [Idx -> Sockets \cup {None}]] /\ None \notin Sockets
      /\ Idx' = Idx
  BY <1>1, Sizes DEF TypeInv, SockType, PoolType, Idx
<1>3. /\ RdyType'
      /\ \A q \in Pools : \A y : InSeq(y, rdy[q]) => InSeq(y, rdy'[q])
      /\ \A q \in Pools, k \in Idx : slots[q][k] = s => InSeq(s, rdy'[q])
  <2>1. IF Open(s) THEN Edge(PoolOf(s), s) ELSE UNCHANGED rdy
    BY DEF PeerSends, PeerCloses
  <2>2. QED
    BY <2>1, PeerEdge
<1>4. /\ conn' \in [Sockets -> {"new", "up", "fin", "rst", "broken", "gone"}]
      /\ \A t \in Sockets : conn'[t] = "new" <=> conn[t] = "new"
      /\ \A t \in Sockets : t # s => conn'[t] = conn[t] /\ data'[t] = data[t]
  <2>1. CASE PeerSends(s)
    BY <1>2, <2>1 DEF PeerSends
  <2>2. CASE PeerCloses(s)
    <3>1. PICK step \in {<<"up", "fin">>, <<"up", "rst">>, <<"fin", "broken">>} :
            conn[s] = step[1] /\ conn' = [conn EXCEPT ![s] = step[2]]
      BY <2>2 DEF PeerCloses
    <3>2. \E v : data' = [data EXCEPT ![s] = v]
      BY <2>2 DEF PeerCloses
    <3>3. QED
      BY <1>2, <3>1, <3>2
  <2>3. QED
    BY <2>1, <2>2
<1>5. /\ data' \in [Sockets -> 0..MaxLines] /\ sent' \in [Sockets -> 0..MaxLines]
      /\ \A t \in Sockets : data'[t] <= sent'[t]
  <2>1. CASE PeerSends(s)
    <3>1. /\ data' = [data EXCEPT ![s] = data[s] + 1] /\ sent' = [sent EXCEPT ![s] = sent[s] + 1]
          /\ sent[s] < MaxLines
      BY <2>1 DEF PeerSends
    <3>2. data[s] + 1 \in 0..MaxLines /\ sent[s] + 1 \in 0..MaxLines /\ data[s] + 1 <= sent[s] + 1
      BY <1>2, <3>1
    <3>3. QED
      BY <1>2, <3>1, <3>2
  <2>2. CASE PeerCloses(s)
    <3>1. sent' = sent /\ (data' = data \/ data' = [data EXCEPT ![s] = 0])
      <4>1. data' = [data EXCEPT ![s] = data[s]] \/ data' = [data EXCEPT ![s] = 0]
        BY <2>2 DEF PeerCloses
      <4>2. [data EXCEPT ![s] = data[s]] = data
        BY <1>2
      <4>3. QED
        BY <2>2, <4>1, <4>2 DEF PeerCloses
    <3>2. QED
      BY <1>2, <3>1
  <2>3. QED
    BY <2>1, <2>2
<1>6. TypeInv'
  <2>1. TopType' /\ SharedType'
    BY <1>1 DEF TypeInv, TopType, SharedType, listVars, acceptVars, nodeVars, sharedVars
  <2>2. PoolType'
    BY <1>1, <1>2 DEF TypeInv, PoolType, Event, threadVars
  <2>3. SockType'
    BY <1>1, <1>4, <1>5 DEF TypeInv, SockType, clientVars
  <2>4. QED
    BY <1>3, <2>1, <2>2, <2>3 DEF TypeInv
<1>7. ThreadInv' /\ CountInv'
  <2>1. ThreadInv'
    BY <1>1 DEF ThreadInv, listVars, acceptVars, nodeVars, sharedVars, threadVars
  <2>2. CountInv'
    BY <1>1, <1>2
      DEF CountInv, Pending, FinishedServesNobody, listVars, acceptVars, sharedVars, threadVars
  <2>3. QED
    BY <2>1, <2>2
<1>8. OwnInv'
  BY <1>1, <1>2, <1>4
    DEF OwnInv, Queued, Seated, acceptVars, sharedVars, threadVars, clientVars
<1>9. Woken'
  <2>1. UNCHANGED <<pipe, tpc, batch, cur, slots, aborting>>
    BY <1>1 DEF sharedVars, threadVars, clientVars
  <2>2. \A q \in Pools : DuePipe(q) => DuePipe(q)'
    BY <1>3, <2>1 DEF DuePipe, Batched
  <2>3. \A q \in Pools, k \in Idx : Due(q, k) => Due(q, k)'
    BY <1>3, <2>1 DEF Due, Batched
  <2>4. ASSUME NEW q \in Pools, NEW k \in Idx, slots[q][k] # None, Wants(slots[q][k])'
        PROVE  Due(q, k)'
    <3>1. CASE slots[q][k] = s
      BY <1>3, <2>1, <3>1 DEF Due
    <3>2. CASE slots[q][k] # s
      <4>1. PICK t \in Sockets : slots[q][k] = t
        BY <1>2, <2>4
      <4>2. Wants(t)
        BY <1>4, <2>1, <2>4, <3>2, <4>1 DEF Wants
      <4>3. QED
        BY <2>3, <2>4, <4>1, <4>2 DEF Woken
    <3>3. QED
      BY <3>1, <3>2
  <2>5. QED
    BY <1>2, <2>1, <2>2, <2>4 DEF Woken
<1>10. StaleMinersWillBeTold'
  BY <1>1, <1>2
    DEF StaleMinersWillBeTold, listVars, nodeVars, sharedVars, threadVars, clientVars
<1>11. QED
  BY <1>6, <1>7, <1>8, <1>9, <1>10

-----------------------------------------------------------------------------
(* The accept thread.                                                      *)

LEMMA AcceptStep ==
    ASSUME IInv, NEW s \in Sockets, Accept(s)
    PROVE  IInv'
<1> USE DEF IInv
<1>1. /\ apc = "idle" /\ conn[s] = "new" /\ asock = None
      /\ UNCHANGED <<size, listVars, apos, apool, nodeVars, sharedVars, rdy, threadVars, data, sent,
                     clientVars, dead>>
      /\ \/ conn' = [conn EXCEPT ![s] = "up"] /\ apc' = "lock" /\ asock' = s
         \/ conn' = [conn EXCEPT ![s] = "gone"] /\ apc' = "idle" /\ asock' = None
  BY DEF Accept, ThreadInv
<1>2. /\ conn \in [Sockets -> {"new", "up", "fin", "rst", "broken", "gone"}]
      /\ slots \in [Pools -> [Idx -> Sockets \cup {None}]] /\ None \notin Sockets
      /\ Idx' = Idx
  BY <1>1, Sizes DEF TypeInv, SockType, PoolType, Idx
<1>3. ~Seated(s) /\ ~logged[s] /\ \A q \in Pools : ~InSeq(s, pipe[q])
  BY <1>1 DEF OwnInv, Queued
<1>4. /\ conn' \in [Sockets -> {"new", "up", "fin", "rst", "broken", "gone"}]
      /\ \A t \in Sockets : t # s => conn'[t] = conn[t]
      /\ conn'[s] # "new"
  BY <1>1, <1>2
<1>5. TypeInv'
  <2>1. TopType'
    BY <1>1 DEF TypeInv, TopType, listVars, nodeVars
  <2>2. SharedType' /\ RdyType'
    BY <1>1 DEF TypeInv, SharedType, RdyType, sharedVars
  <2>3. PoolType'
    BY <1>1, <1>2 DEF TypeInv, PoolType, Event, threadVars
  <2>4. SockType'
    BY <1>1, <1>4 DEF TypeInv, SockType, clientVars
  <2>5. QED
    BY <2>1, <2>2, <2>3, <2>4 DEF TypeInv
<1>6. ThreadInv'
  BY <1>1, <1>2 DEF ThreadInv, listVars, nodeVars, sharedVars, threadVars
<1>7. CountInv'
  <2>1. \A q \in Pools : Pending(q)' = Pending(q)
    BY <1>1 DEF Pending
  <2>2. QED
    BY <1>1, <1>2, <2>1 DEF CountInv, FinishedServesNobody, listVars, sharedVars, threadVars
<1>8. OwnInv'
  <2>1. UNCHANGED <<pipe, slots, logged>>
    BY <1>1 DEF sharedVars, threadVars, clientVars
  <2>2. \A t \in Sockets : Seated(t)' <=> Seated(t)
    BY <1>2, <2>1 DEF Seated
  <2>3. \A t \in Sockets : Queued(t)' => Queued(t) \/ t = s
    BY <1>1, <1>2, <2>1 DEF Queued
  <2>4. \A q \in Pools, t \in Sockets : ~(InSeq(t, pipe[q]) /\ asock' = t)
    BY <1>1, <1>2, <1>3
  <2>5. QED
    BY <1>2, <1>3, <1>4, <2>1, <2>2, <2>3, <2>4 DEF OwnInv
<1>9. Woken'
  <2>1. UNCHANGED <<pipe, rdy, tpc, batch, cur, slots, aborting, data>>
    BY <1>1 DEF sharedVars, threadVars, clientVars
  <2>2. ASSUME NEW q \in Pools, NEW k \in Idx, slots[q][k] # None, Wants(slots[q][k])'
        PROVE  Wants(slots[q][k])
    <3>1. PICK t \in Sockets : slots[q][k] = t
      BY <1>2, <2>2
    <3>2. t # s
      BY <1>3, <3>1 DEF Seated
    <3>3. QED
      BY <1>4, <2>1, <2>2, <3>1, <3>2 DEF Wants
  <2>3. \A q \in Pools : DuePipe(q) => DuePipe(q)'
    BY <2>1 DEF DuePipe, Batched
  <2>4. \A q \in Pools, k \in Idx : Due(q, k) => Due(q, k)'
    BY <2>1 DEF Due, Batched
  <2>5. QED
    BY <1>2, <2>1, <2>2, <2>3, <2>4 DEF Woken
<1>10. StaleMinersWillBeTold'
  BY <1>1, <1>2
    DEF StaleMinersWillBeTold, listVars, nodeVars, sharedVars, threadVars, clientVars
<1>11. QED
  BY <1>5, <1>6, <1>7, <1>8, <1>9, <1>10

-----------------------------------------------------------------------------
(* The list.                                                               *)

\* A pool is taken from the list: nobody else moves, and the iterator that
\* erased it now stands at the pool that followed.
LEMMA EraseStep ==
    ASSUME IInv, NEW n \in DOMAIN list, finished[list[n]], ErasePool(list[n]),
           UNCHANGED <<size, mtx, acceptVars, nodeVars, batch, cur, buf, slots, sockVars, clientVars, dead>>,
           apc \notin {"found", "counted"}, npc = "notify" => npos = n
    PROVE  IInv'
<1> USE DEF IInv
<1> DEFINE p == list[n]
<1>0. list \in Seq(Pools) /\ Distinct(list) /\ p \in Pools /\ InSeq(p, list)
  BY DEF TypeInv, TopType, InSeq
<1>1. /\ active' = [active EXCEPT ![p] = 0] /\ finished' = [finished EXCEPT ![p] = FALSE]
      /\ pipe' = [pipe EXCEPT ![p] = << >>] /\ rdy' = [rdy EXCEPT ![p] = << >>]
      /\ tpc' = [tpc EXCEPT ![p] = "none"] /\ list' = Without(list, p)
  BY DEF ErasePool
<1>2. /\ list' \in Seq(Pools) /\ Distinct(list')
      /\ \A q : InSeq(q, list') <=> InSeq(q, list) /\ q # p
      /\ \A i \in DOMAIN list : i > n => i - 1 \in DOMAIN list' /\ list'[i - 1] = list[i]
  <2>1. list' = Without(list, list[n])
    BY <1>1
  <2> HIDE DEF p
  <2>2. QED
    BY <1>0, <2>1, Removed DEF p
<1> HIDE DEF p
<1>3. /\ active \in [Pools -> Nat] /\ finished \in [Pools -> BOOLEAN] /\ pipe \in [Pools -> Seq(Message)]
      /\ rdy \in [Pools -> Seq(PipeTypes)] /\ \A q \in Pools : Distinct(rdy[q])
      /\ tpc \in [Pools -> {"none", "wait", "event", "read", "pipe", "tell", "exit", "done"}]
      /\ slots \in [Pools -> [Idx -> Sockets \cup {None}]]
      /\ batch \in [Pools -> Seq(Event)] /\ size \in Nat
  BY Sizes DEF TypeInv, TopType, SharedType, RdyType, PoolType
<1>4. /\ active'[p] = 0 /\ finished'[p] = FALSE /\ pipe'[p] = << >> /\ rdy'[p] = << >> /\ tpc'[p] = "none"
      /\ \A q \in Pools : q # p =>
            /\ active'[q] = active[q] /\ finished'[q] = finished[q] /\ pipe'[q] = pipe[q]
            /\ rdy'[q] = rdy[q] /\ tpc'[q] = tpc[q]
  BY <1>0, <1>1, <1>3
<1>5. tpc[p] = "done" /\ batch[p] = << >> /\ \A k \in Idx : slots[p][k] = None
  <2>1. tpc[p] = "done"
    BY <1>0 DEF ThreadInv, p
  <2>2. QED
    BY <1>0, <2>1 DEF ThreadInv, CountInv, FinishedServesNobody
<1>6. Idx' = Idx /\ UNCHANGED <<size, mtx, apc, asock, apos, apool, npc, npos, current, batch, cur, buf, slots,
                 conn, data, sent, aborting, logged, known, dead>>
  BY DEF acceptVars, nodeVars, sockVars, clientVars, Idx
<1>7. TypeInv'
  <2>1. TopType'
    BY <1>2, <1>6 DEF TypeInv, TopType
  <2>2. SharedType'
    <3>1. << >> \in Seq(Message) /\ 0 \in Nat
      OBVIOUS
    <3>2. active' \in [Pools -> Nat]
      BY <1>1, <1>3, <3>1
    <3>3. finished' \in [Pools -> BOOLEAN]
      BY <1>1, <1>3
    <3>4. pipe' \in [Pools -> Seq(Message)]
      BY <1>1, <1>3, <3>1
    <3>5. QED
      BY <3>2, <3>3, <3>4 DEF SharedType
  <2>3. RdyType'
    <3>1. << >> \in Seq(PipeTypes) /\ Distinct(<< >>)
      BY EmptySeqs
    <3>2. rdy' \in [Pools -> Seq(PipeTypes)]
      BY <1>1, <1>3, <3>1
    <3>3. QED
      BY <1>3, <1>4, <3>1, <3>2 DEF RdyType
  <2>4. PoolType'
    BY <1>1, <1>3, <1>6 DEF TypeInv, PoolType, Event
  <2>5. SockType'
    BY <1>6 DEF TypeInv, SockType
  <2>6. QED
    BY <2>1, <2>2, <2>3, <2>4, <2>5 DEF TypeInv
<1>8. ThreadInv'
  <2>1. ASSUME NEW q \in Pools
        PROVE  /\ tpc'[q] = "none" <=> ~InSeq(q, list')
               /\ (finished'[q] => tpc'[q] = "done")
               /\ (tpc'[q] = "none" => active'[q] = 0 /\ pipe'[q] = << >>)
               /\ (tpc'[q] \in {"none", "wait", "exit", "done"} => batch[q] = << >>)
               /\ (tpc'[q] = "read" => slots[q][cur[q]] # None)
    <3>1. CASE q = p
      BY <1>2, <1>4, <1>5, <3>1
    <3>2. CASE q # p
      <4>1. finished'[q] => tpc'[q] = "done"
        BY <1>4, <3>2 DEF ThreadInv
      <4>2. QED
        BY <1>2, <1>4, <3>2, <4>1 DEF ThreadInv
    <3>3. QED
      BY <3>1, <3>2
  <2>2. QED
    BY <1>6, <2>1 DEF ThreadInv
<1>9. OwnInv'
  <2>1. \A q \in Pools : Uniq(pipe'[q]) /\ \A s : InSeq(s, pipe'[q]) => InSeq(s, pipe[q])
    BY <1>4, EmptySeqs DEF OwnInv
  <2>2. \A s \in Sockets : (Queued(s)' => Queued(s)) /\ (Seated(s)' <=> Seated(s))
    BY <1>6, <2>1 DEF Queued, Seated
  <2>3. /\ \A q, r \in Pools, s \in Sockets : InSeq(s, pipe'[q]) /\ InSeq(s, pipe'[r]) => q = r
        /\ \A q \in Pools, s \in Sockets : ~(InSeq(s, pipe'[q]) /\ asock = s)
    BY <2>1 DEF OwnInv
  <2>4. QED
    BY <1>6, <2>1, <2>2, <2>3 DEF OwnInv
<1>10. CountInv'
  <2>1. \A q \in Pools : Pending(q)' = Pending(q)
    BY <1>6 DEF Pending
  <2>2. \A q \in Pools : InSeq(q, list') =>
            active'[q] = Taken(Idx', slots'[q]) + Queue(pipe'[q]) + Pending(q)'
    BY <1>2, <1>4, <1>6, <2>1 DEF CountInv
  <2>3. ASSUME NEW q \in Pools
        PROVE  active'[q] <= size'
    <3>1. active[q] <= size /\ size' = size /\ 0 <= size
      BY <1>3, <1>6 DEF CountInv
    <3>2. active'[q] = 0 \/ active'[q] = active[q]
      BY <1>4
    <3>3. QED
      BY <3>1, <3>2
  <2>4. FinishedServesNobody'
    BY <1>4, <1>5, <1>6 DEF CountInv, FinishedServesNobody
  <2>5. QED
    BY <1>6, <2>2, <2>3, <2>4 DEF CountInv
<1>11. Woken'
  <2>1. ASSUME NEW q \in Pools
        PROVE  /\ (pipe'[q] # << >> => DuePipe(q)')
               /\ \A k \in Idx : slots[q][k] # None /\ Wants(slots[q][k])' => Due(q, k)'
    <3>1. CASE q = p
      BY <1>4, <1>5, <3>1
    <3>2. CASE q # p
      <4>1. /\ pipe'[q] = pipe[q] /\ (DuePipe(q)' <=> DuePipe(q))
            /\ \A k \in Idx : /\ Due(q, k)' <=> Due(q, k)
                              /\ Wants(slots[q][k])' <=> Wants(slots[q][k])
        BY <1>4, <1>6, <3>2 DEF DuePipe, Due, Batched, Wants
      <4>2. QED
        BY <4>1 DEF Woken
    <3>3. QED
      BY <3>1, <3>2
  <2>2. QED
    BY <1>6, <2>1 DEF Woken
<1>12. StaleMinersWillBeTold'
  <2>1. SUFFICES ASSUME NEW q \in Pools, NEW k \in Idx, slots[q][k] # None, Stale(slots[q][k])
                 PROVE  Coming(q, k)'
    BY <1>6 DEF StaleMinersWillBeTold, Stale, Coming
  <2>2. q # p
    BY <1>5, <2>1
  <2>3. Coming(q, k)
    BY <2>1, StaleMiners
  <2>4. ASSUME npc = "notify", NEW i \in DOMAIN list, i >= npos, list[i] = q
        PROVE  \E j \in DOMAIN list' : j >= npos /\ list'[j] = q
    <3>1. i # n /\ npos = n /\ i \in Int /\ n \in Int
      BY <1>0, <2>2, <2>4 DEF p
    <3>2. i > n /\ i - 1 >= npos
      BY <2>4, <3>1
    <3>3. QED
      BY <1>2, <2>4, <3>2
  <2>5. QED
    BY <1>4, <1>6, <2>2, <2>3, <2>4 DEF Coming
<1>13. QED
  BY <1>7, <1>8, <1>9, <1>10, <1>11, <1>12

\* What a step leaves of the invariant that touches no pool and no client.
LEMMA Quiet ==
    ASSUME IInv, UNCHANGED <<size, current, active, finished, pipe, rdy, tpc, batch, cur, buf, slots,
                             conn, data, sent, aborting, logged, known>>
    PROVE  SharedType' /\ RdyType' /\ PoolType' /\ SockType' /\ Woken' /\ Idx' = Idx
<1> USE DEF IInv, TypeInv
<1>1. Idx' = Idx
  BY DEF Idx
<1>2. SharedType' /\ RdyType'
  BY DEF SharedType, RdyType
<1>3. PoolType'
  BY <1>1 DEF PoolType, Event
<1>4. SockType'
  BY DEF SockType
<1>5. Woken'
  BY <1>1 DEF Woken, DuePipe, Due, Batched, Wants
<1>6. QED
  BY <1>1, <1>2, <1>3, <1>4, <1>5

\* Who is in a slot has a pool in the list.
LEMMA Listed ==
    ASSUME IInv, NEW p \in Pools, NEW k \in Idx, slots[p][k] # None
    PROVE  InSeq(p, list)
  BY DEF IInv, ThreadInv, CountInv, FinishedServesNobody

LEMMA AcceptLockStep ==
    ASSUME IInv, AcceptLock
    PROVE  IInv'
<1> USE DEF IInv
<1>1. /\ mtx = None /\ mtx' = "accept" /\ apc = "lock" /\ apc' = "scan" /\ apos' = 1
      /\ UNCHANGED <<size, list, asock, apool, npc, npos, current, active, finished, pipe, rdy, tpc, batch,
                     cur, buf, slots, conn, data, sent, aborting, logged, known, dead>>
  BY DEF AcceptLock, Lock, nodeVars, sharedVars, threadVars, sockVars, clientVars
<1>2. SharedType' /\ RdyType' /\ PoolType' /\ SockType' /\ Woken' /\ Idx' = Idx
  BY <1>1, Quiet
<1>3. TypeInv'
  BY <1>1, <1>2 DEF TypeInv, TopType
<1>4. ThreadInv'
  BY <1>1, Sizes DEF ThreadInv
<1>5. OwnInv'
  BY <1>1, <1>2 DEF OwnInv, Queued, Seated
<1>6. CountInv'
  BY <1>1, <1>2 DEF CountInv, Pending, FinishedServesNobody
<1>7. StaleMinersWillBeTold'
  BY <1>1, <1>2 DEF StaleMinersWillBeTold
<1>8. QED
  BY <1>2, <1>3, <1>4, <1>5, <1>6, <1>7

LEMMA AcceptScanStep ==
    ASSUME IInv, AcceptScan
    PROVE  IInv'
<1> USE DEF IInv
<1> DEFINE p == list[apos]
<1>1. /\ apc = "scan" /\ apos \in DOMAIN list /\ mtx = "accept" /\ npc # "notify"
      /\ p \in Pools /\ InSeq(p, list) /\ apos \in Nat /\ apos >= 1
  BY Sizes DEF AcceptScan, TypeInv, TopType, ThreadInv, InSeq
<1>2. CASE finished[p] /\ ErasePool(p)
  <2>1. UNCHANGED <<size, mtx, acceptVars, nodeVars, batch, cur, buf, slots, sockVars, clientVars, dead>>
    <3>1. UNCHANGED <<apc, apos, apool>>
      BY <1>2 DEF AcceptScan
    <3>2. QED
      BY <3>1 DEF AcceptScan, acceptVars
  <2>2. QED
    BY <1>1, <1>2, <2>1, EraseStep
<1>3. CASE ~finished[p]
  <2>1. /\ UNCHANGED <<size, list, mtx, asock, npc, npos, current, active, finished, pipe, rdy, tpc, batch,
                       cur, buf, slots, conn, data, sent, aborting, logged, known, dead>>
        /\ \/ active[p] # size /\ apc' = "found" /\ apool' = p /\ apos' = 1
           \/ apc' = apc /\ apool' = apool /\ apos' = apos + 1
    BY <1>3 DEF AcceptScan, nodeVars, sharedVars, sockVars, clientVars
  <2>2. SharedType' /\ RdyType' /\ PoolType' /\ SockType' /\ Woken' /\ Idx' = Idx
    BY <2>1, Quiet
  <2>3. TypeInv'
    BY <1>1, <2>1, <2>2 DEF TypeInv, TopType
  <2>4. ThreadInv'
    BY <1>1, <2>1 DEF ThreadInv
  <2>5. OwnInv'
    BY <2>1, <2>2 DEF OwnInv, Queued, Seated
  <2>6. CountInv'
    <3>1. \A q \in Pools : Pending(q)' = Pending(q)
      BY <1>1, <2>1 DEF Pending
    <3>2. apc' = "found" => active'[apool'] < size'
      <4>1. active[p] \in Nat /\ active[p] <= size /\ size \in Nat
        BY <1>1, Sizes DEF TypeInv, SharedType, TopType, CountInv
      <4>2. QED
        BY <1>1, <2>1, <4>1
    <3>3. FinishedServesNobody'
      BY <2>1, <2>2 DEF CountInv, FinishedServesNobody
    <3>4. QED
      BY <2>1, <2>2, <3>1, <3>2, <3>3 DEF CountInv
  <2>7. StaleMinersWillBeTold'
    BY <2>1, <2>2 DEF StaleMinersWillBeTold
  <2>8. QED
    BY <2>2, <2>3, <2>4, <2>5, <2>6, <2>7
<1>4. QED
  BY <1>2, <1>3 DEF AcceptScan

\* A pool that is not in the list has nothing left of the one that was there.
LEMMA AcceptAllocateStep ==
    ASSUME IInv, AcceptAllocate
    PROVE  IInv'
<1> USE DEF IInv
<1>1. PICK p \in Pools :
        /\ ~InSeq(p, list)
        /\ list' = Append(list, p)
        /\ tpc' = [tpc EXCEPT ![p] = "wait"]
        /\ apc' = "found" /\ apool' = p /\ apos' = 1
  BY DEF AcceptAllocate
<1>2. /\ apc = "scan" /\ mtx = "accept" /\ npc # "notify"
      /\ UNCHANGED <<size, mtx, asock, npc, npos, current, active, finished, pipe, rdy, batch, cur, buf,
                     slots, conn, data, sent, aborting, logged, known, dead>>
  BY Sizes DEF AcceptAllocate, ThreadInv, nodeVars, sharedVars, sockVars, clientVars
<1>3. /\ list' \in Seq(Pools) /\ Distinct(list')
      /\ \A q : InSeq(q, list') <=> InSeq(q, list) \/ q = p
  <2>1. list \in Seq(Pools) /\ Distinct(list)
    BY DEF TypeInv, TopType
  <2>2. QED
    BY <1>1, <2>1, Appended
<1>4. /\ tpc \in [Pools -> {"none", "wait", "event", "read", "pipe", "tell", "exit", "done"}]
      /\ slots \in [Pools -> [Idx -> Sockets \cup {None}]]
      /\ size \in Nat /\ size >= 1
      /\ Idx' = Idx
  BY <1>2, Sizes DEF TypeInv, TopType, PoolType, Idx
<1>5. tpc'[p] = "wait" /\ \A q \in Pools : q # p => tpc'[q] = tpc[q]
  BY <1>1, <1>4
<1>6. /\ tpc[p] = "none" /\ active[p] = 0 /\ pipe[p] = << >> /\ batch[p] = << >>
      /\ ~finished[p]
      /\ \A k \in Idx : slots[p][k] = None
  <2>1. tpc[p] = "none"
    BY <1>1 DEF ThreadInv
  <2>2. active[p] = 0 /\ pipe[p] = << >> /\ batch[p] = << >>
    BY <2>1 DEF ThreadInv
  <2>3. ~finished[p]
    BY <2>1 DEF ThreadInv
  <2>4. QED
    BY <2>1, <2>2, <2>3 DEF CountInv, FinishedServesNobody
<1>7. TypeInv'
  <2>1. TopType'
    BY <1>1, <1>2, <1>3 DEF TypeInv, TopType
  <2>2. SharedType' /\ RdyType' /\ SockType'
    BY <1>2 DEF TypeInv, SharedType, RdyType, SockType
  <2>3. PoolType'
    BY <1>1, <1>2, <1>4 DEF TypeInv, PoolType, Event
  <2>4. QED
    BY <2>1, <2>2, <2>3 DEF TypeInv
<1>8. ThreadInv'
  <2>1. ASSUME NEW q \in Pools
        PROVE  /\ tpc'[q] = "none" <=> ~InSeq(q, list')
               /\ (finished[q] => tpc'[q] = "done")
               /\ (tpc'[q] = "none" => active[q] = 0 /\ pipe[q] = << >>)
               /\ (tpc'[q] \in {"none", "wait", "exit", "done"} => batch[q] = << >>)
               /\ (tpc'[q] = "read" => slots[q][cur[q]] # None)
    <3>1. CASE q = p
      BY <1>3, <1>5, <1>6, <3>1
    <3>2. CASE q # p
      <4>1. finished[q] => tpc'[q] = "done"
        BY <1>5, <3>2 DEF ThreadInv
      <4>2. QED
        BY <1>3, <1>5, <3>2, <4>1 DEF ThreadInv
    <3>3. QED
      BY <3>1, <3>2
  <2>2. QED
    BY <1>1, <1>2, <1>3, <2>1 DEF ThreadInv
<1>9. OwnInv'
  BY <1>2, <1>4 DEF OwnInv, Queued, Seated
<1>10. CountInv'
  <2>1. \A q \in Pools : Pending(q)' = 0 /\ Pending(q) = 0
    BY <1>1, <1>2 DEF Pending
  <2>2. Taken(Idx, slots[p]) = 0
    <3>1. size \in Nat /\ slots[p] \in [1..size -> Sockets \cup {None}]
          /\ \A k \in 1..size : slots[p][k] = None
      BY <1>4, <1>6 DEF Idx
    <3>2. QED
      BY <3>1, TakenChanges DEF Idx
  <2>3. active[p] = Taken(Idx, slots[p]) + Queue(pipe[p]) + 0
    BY <1>6, <2>2, EmptySeqs
  <2>4. \A q \in Pools : InSeq(q, list') =>
            active'[q] = Taken(Idx', slots'[q]) + Queue(pipe'[q]) + Pending(q)'
    BY <1>2, <1>3, <1>4, <2>1, <2>3 DEF CountInv
  <2>5. active'[apool'] < size'
    BY <1>1, <1>2, <1>4, <1>6
  <2>6. FinishedServesNobody'
    BY <1>2, <1>4, <1>5, <1>6 DEF CountInv, FinishedServesNobody
  <2>7. \A q \in Pools : active'[q] <= size'
    BY <1>2 DEF CountInv
  <2>8. QED
    BY <2>4, <2>5, <2>6, <2>7 DEF CountInv
<1>11. Woken'
  <2>1. ASSUME NEW q \in Pools
        PROVE  /\ (pipe[q] # << >> => DuePipe(q)')
               /\ \A k \in Idx : slots[q][k] # None /\ Wants(slots[q][k])' => Due(q, k)'
    <3>1. CASE q = p
      BY <1>6, <3>1
    <3>2. CASE q # p
      <4>1. /\ (DuePipe(q)' <=> DuePipe(q))
            /\ \A k \in Idx : /\ Due(q, k)' <=> Due(q, k)
                              /\ Wants(slots[q][k])' <=> Wants(slots[q][k])
        BY <1>2, <1>5, <3>2 DEF DuePipe, Due, Batched, Wants
      <4>2. QED
        BY <4>1 DEF Woken
    <3>3. QED
      BY <3>1, <3>2
  <2>2. QED
    BY <1>2, <1>4, <2>1 DEF Woken
<1>12. StaleMinersWillBeTold'
  <2>1. SUFFICES ASSUME NEW q \in Pools, NEW k \in Idx, slots[q][k] # None, Stale(slots[q][k])
                 PROVE  Coming(q, k)'
    BY <1>2, <1>4 DEF StaleMinersWillBeTold, Stale, Coming
  <2>2. Coming(q, k) /\ tpc'[q] = tpc[q]
    BY <1>5, <1>6, <2>1, StaleMiners
  <2>3. QED
    BY <1>2, <2>2 DEF Coming
<1>13. QED
  BY <1>7, <1>8, <1>9, <1>10, <1>11, <1>12

LEMMA AcceptCountStep ==
    ASSUME IInv, AcceptCount
    PROVE  IInv'
<1> USE DEF IInv
<1>0. PICK p \in Pools : p = apool
  BY DEF AcceptCount, ThreadInv
<1>1. /\ apc = "found" /\ apc' = "counted" /\ active' = [active EXCEPT ![p] = @ + 1]
      /\ mtx = "accept" /\ p \in Pools /\ InSeq(p, list) /\ tpc[p] # "none"
      /\ UNCHANGED <<size, list, mtx, asock, apos, apool, npc, npos, current, finished, pipe, rdy, tpc, batch,
                     cur, buf, slots, conn, data, sent, aborting, logged, known, dead>>
  BY <1>0 DEF AcceptCount, ThreadInv, listVars, nodeVars, threadVars, sockVars, clientVars
<1>2. /\ active \in [Pools -> Nat] /\ active[p] < size /\ size \in Nat /\ Idx' = Idx
  BY <1>0, <1>1, Sizes DEF TypeInv, TopType, SharedType, CountInv, Idx
<1>3. active'[p] = active[p] + 1 /\ \A q \in Pools : q # p => active'[q] = active[q]
  BY <1>1, <1>2
<1>4. TypeInv'
  <2>1. TopType' /\ RdyType' /\ SockType'
    BY <1>1 DEF TypeInv, TopType, RdyType, SockType
  <2>2. active' \in [Pools -> Nat]
    BY <1>1, <1>2
  <2>3. SharedType'
    BY <1>1, <2>2 DEF TypeInv, SharedType
  <2>4. PoolType'
    BY <1>1, <1>2 DEF TypeInv, PoolType, Event
  <2>5. QED
    BY <2>1, <2>3, <2>4 DEF TypeInv
<1>5. ThreadInv'
  <2>1. \A q \in Pools : tpc[q] = "none" => active'[q] = 0 /\ pipe[q] = << >>
    BY <1>1, <1>3 DEF ThreadInv
  <2>2. QED
    BY <1>1, <2>1 DEF ThreadInv
<1>6. OwnInv'
  BY <1>1, <1>2 DEF OwnInv, Queued, Seated
<1>7. CountInv'
  <2>1. /\ Pending(p) = 0 /\ Pending(p)' = 1
        /\ \A q \in Pools : q # p => Pending(q)' = 0 /\ Pending(q) = 0
    BY <1>0, <1>1 DEF Pending
  <2>2. /\ Taken(Idx, slots[p]) \in Nat /\ Queue(pipe[p]) \in Nat
        /\ active[p] = Taken(Idx, slots[p]) + Queue(pipe[p]) + Pending(p)
    BY <1>1, Counted
  <2>3. active'[p] = Taken(Idx, slots[p]) + Queue(pipe[p]) + 1
    BY <1>3, <2>1, <2>2
  <2>4. ASSUME NEW q \in Pools, InSeq(q, list)
        PROVE  active'[q] = Taken(Idx, slots[q]) + Queue(pipe[q]) + Pending(q)'
    <3>1. CASE q = p
      BY <2>1, <2>3, <3>1
    <3>2. CASE q # p
      <4>1. active[q] = Taken(Idx, slots[q]) + Queue(pipe[q]) + Pending(q)
        BY <2>4 DEF CountInv
      <4>2. active'[q] = active[q] /\ Pending(q)' = Pending(q)
        BY <1>3, <2>1, <3>2
      <4>3. QED
        BY <4>1, <4>2
    <3>3. QED
      BY <3>1, <3>2
  <2>5. ASSUME NEW q \in Pools
        PROVE  active'[q] <= size
    <3>1. active[q] \in Nat /\ active[q] <= size
      BY <1>2 DEF CountInv
    <3>2. active[p] + 1 <= size
      BY <1>1, <1>2
    <3>3. QED
      BY <1>3, <3>1, <3>2
  <2>6. FinishedServesNobody'
    BY <1>1, <1>2 DEF CountInv, FinishedServesNobody
  <2>7. QED
    BY <1>1, <1>2, <2>4, <2>5, <2>6 DEF CountInv
<1>8. Woken'
  BY <1>1, <1>2 DEF Woken, DuePipe, Due, Batched, Wants
<1>9. StaleMinersWillBeTold'
  BY <1>1, <1>2 DEF StaleMinersWillBeTold
<1>10. QED
  BY <1>4, <1>5, <1>6, <1>7, <1>8, <1>9

\* Something is written to the pipe of p: its thread will look.
LEMMA PipeWrite ==
    ASSUME IInv, NEW p \in Pools, NEW x \in Message, InSeq(p, list),
           pipe' = [pipe EXCEPT ![p] = Append(@, x)], Edge(p, Pipe),
           UNCHANGED <<size, active, finished, tpc, batch, cur, buf, slots, conn, data, sent, aborting,
                       logged, known>>
    PROVE  /\ SharedType' /\ RdyType' /\ PoolType' /\ SockType' /\ Woken' /\ Idx' = Idx
           /\ pipe'[p] = Append(pipe[p], x) /\ pipe[p] \in Seq(Message)
           /\ \A q \in Pools : q # p => pipe'[q] = pipe[q]
           /\ \A y : InSeq(y, pipe'[p]) <=> InSeq(y, pipe[p]) \/ y = x
<1> USE DEF IInv, TypeInv
<1>1. /\ pipe \in [Pools -> Seq(Message)] /\ pipe[p] \in Seq(Message)
      /\ pipe'[p] = Append(pipe[p], x) /\ \A q \in Pools : q # p => pipe'[q] = pipe[q]
      /\ Idx' = Idx
  BY DEF SharedType, Idx
<1>2. /\ Append(pipe[p], x) \in Seq(Message)
      /\ \A y : InSeq(y, Append(pipe[p], x)) <=> InSeq(y, pipe[p]) \/ y = x
  BY <1>1, Appended
<1>3. SharedType'
  BY <1>1, <1>2 DEF SharedType
<1>4. /\ RdyType'
      /\ \A q \in Pools : q # p => rdy'[q] = rdy[q]
      /\ \A y : InSeq(y, rdy'[p]) <=> InSeq(y, rdy[p]) \/ y = Pipe
  BY EdgeFacts DEF PipeTypes
<1>5. PoolType' /\ SockType'
  BY <1>1 DEF PoolType, SockType, Event
<1>6. Woken'
  <2>1. ASSUME NEW q \in Pools
        PROVE  /\ (pipe'[q] # << >> => DuePipe(q)')
               /\ \A k \in Idx : slots[q][k] # None /\ Wants(slots[q][k])' => Due(q, k)'
    <3>1. \A y : InSeq(y, rdy[q]) => InSeq(y, rdy'[q])
      BY <1>4
    <3>2. \A k \in Idx : /\ Due(q, k) => Due(q, k)'
                         /\ Wants(slots[q][k])' <=> Wants(slots[q][k])
      BY <3>1 DEF Due, Batched, Wants
    <3>3. DuePipe(q) => DuePipe(q)'
      BY <3>1 DEF DuePipe, Batched
    <3>4. pipe'[q] # << >> => DuePipe(q)'
      <4>1. CASE q = p
        BY <1>4, <4>1 DEF DuePipe
      <4>2. CASE q # p
        BY <1>1, <3>3, <4>2 DEF Woken
      <4>3. QED
        BY <4>1, <4>2
    <3>5. QED
      BY <3>2, <3>4 DEF Woken
  <2>2. QED
    BY <1>1, <2>1 DEF Woken
<1>7. QED
  BY <1>1, <1>2, <1>3, <1>4, <1>5, <1>6

LEMMA AcceptWriteStep ==
    ASSUME IInv, AcceptWrite
    PROVE  IInv'
<1> USE DEF IInv
<1> DEFINE p == apool
           s == asock
<1>1. /\ apc = "counted" /\ apc' = "idle" /\ mtx = "accept" /\ mtx' = None
      /\ asock' = None /\ apool' = None
      /\ p \in Pools /\ InSeq(p, list) /\ tpc[p] # "none" /\ npc # "notify"
      /\ s \in Sockets
  BY Sizes DEF AcceptWrite, ThreadInv, TypeInv, TopType
<1>2. /\ pipe' = [pipe EXCEPT ![p] = Append(@, s)] /\ Edge(p, Pipe)
      /\ UNCHANGED <<size, list, apos, npc, npos, current, active, finished, tpc, batch,
                     cur, buf, slots, conn, data, sent, aborting, logged, known, dead>>
  BY DEF AcceptWrite, nodeVars, threadVars, sockVars, clientVars
<1>3. /\ SharedType' /\ RdyType' /\ PoolType' /\ SockType' /\ Woken' /\ Idx' = Idx
      /\ pipe'[p] = Append(pipe[p], s) /\ pipe[p] \in Seq(Message)
      /\ \A q \in Pools : q # p => pipe'[q] = pipe[q]
      /\ \A y : InSeq(y, pipe'[p]) <=> InSeq(y, pipe[p]) \/ y = s
  <2>1. s \in Message
    BY <1>1 DEF Message
  <2> HIDE DEF p, s
  <2>2. QED
    BY <1>1, <1>2, <2>1, PipeWrite
<1>4. /\ None \notin Sockets /\ NewBlock \notin Sockets /\ s # NewBlock
      /\ \A q \in Pools : ~InSeq(s, pipe[q])
      /\ ~Seated(s) /\ conn[s] # "new" /\ ~logged[s]
  BY <1>1, Sizes DEF OwnInv, Queued
<1>5. TypeInv'
  BY <1>1, <1>2, <1>3 DEF TypeInv, TopType
<1>6. ThreadInv'
  <2>1. \A q \in Pools : tpc[q] = "none" => active[q] = 0 /\ pipe'[q] = << >>
    BY <1>1, <1>3 DEF ThreadInv
  <2>2. QED
    BY <1>1, <1>2, <2>1 DEF ThreadInv
<1>7. OwnInv'
  <2>1. \A q \in Pools : Uniq(pipe'[q])
    <3>1. s \in Message /\ Uniq(pipe[p]) /\ ~InSeq(s, pipe[p])
      BY <1>1, <1>4 DEF OwnInv, Message
    <3>2. Uniq(Append(pipe[p], s))
      <4> HIDE DEF p, s
      <4>1. QED
        BY <1>3, <3>1, Appended
    <3>3. QED
      BY <1>3, <3>2 DEF OwnInv
  <2> HIDE DEF p
  <2>2. \A q \in Pools, t \in Sockets : InSeq(t, pipe'[q]) => InSeq(t, pipe[q]) \/ (q = p /\ t = s)
    BY <1>3
  <2>3. \A t \in Sockets : Queued(t)' => Queued(t)
    BY <1>1, <1>4, <2>2 DEF Queued, s
  <2>4. \A t \in Sockets : Seated(t)' <=> Seated(t)
    BY <1>2, <1>3 DEF Seated
  <2>5. \A q, r \in Pools, t \in Sockets : InSeq(t, pipe'[q]) /\ InSeq(t, pipe'[r]) => q = r
    BY <1>4, <2>2 DEF OwnInv
  <2>6. QED
    BY <1>1, <1>2, <1>3, <1>4, <2>1, <2>3, <2>4, <2>5 DEF OwnInv
<1>8. CountInv'
  <2>1. /\ Pending(p) = 1 /\ \A q \in Pools : Pending(q)' = 0 /\ (q # p => Pending(q) = 0)
    BY <1>1 DEF Pending
  <2>2. /\ Taken(Idx, slots[p]) \in Nat /\ Queue(pipe[p]) \in Nat
        /\ active[p] = Taken(Idx, slots[p]) + Queue(pipe[p]) + Pending(p)
    BY <1>1, Counted
  <2>3. Queue(pipe'[p]) = Queue(pipe[p]) + 1
    <3>1. s \in Message
      BY <1>1 DEF Message
    <3> HIDE DEF p, s
    <3>2. QED
      BY <1>3, <1>4, <3>1, QueueAppended
  <2> HIDE DEF p
  <2>4. active[p] = Taken(Idx, slots[p]) + Queue(pipe'[p]) + 0
    BY <2>1, <2>2, <2>3
  <2>5. \A q \in Pools : InSeq(q, list) => active[q] = Taken(Idx, slots[q]) + Queue(pipe'[q]) + Pending(q)'
    BY <1>3, <2>1, <2>4 DEF CountInv
  <2>6. FinishedServesNobody'
    BY <1>2, <1>3 DEF CountInv, FinishedServesNobody
  <2>7. QED
    BY <1>1, <1>2, <1>3, <2>5, <2>6 DEF CountInv
<1>9. StaleMinersWillBeTold'
  <2>1. SUFFICES ASSUME NEW q \in Pools, NEW k \in Idx, slots[q][k] # None, Stale(slots[q][k])
                 PROVE  Coming(q, k)'
    BY <1>2, <1>3 DEF StaleMinersWillBeTold, Stale, Coming
  <2>2. Coming(q, k)
    BY <2>1, StaleMiners
  <2>3. InSeq(NewBlock, pipe[q]) => InSeq(NewBlock, pipe'[q])
    BY <1>3
  <2>4. QED
    BY <1>2, <2>2, <2>3 DEF Coming
<1>10. QED
  BY <1>3, <1>5, <1>6, <1>7, <1>8, <1>9

-----------------------------------------------------------------------------
(* The node thread.                                                        *)

LEMMA PublishStep ==
    ASSUME IInv, Publish
    PROVE  IInv'
<1> USE DEF IInv
<1>1. /\ npc = "idle" /\ npc' = "published" /\ current < MaxJobs /\ current' = current + 1
      /\ UNCHANGED <<size, list, mtx, apc, asock, apos, apool, npos, active, finished, pipe, rdy, tpc, batch,
                     cur, buf, slots, conn, data, sent, aborting, logged, known, dead>>
  BY DEF Publish, listVars, acceptVars, sharedVars, threadVars, sockVars, clientVars
<1>2. Idx' = Idx /\ MaxJobs \in Nat /\ current \in 1..MaxJobs
  BY <1>1, Sizes DEF Idx, TypeInv, TopType
<1>3. TypeInv'
  <2>1. TopType'
    BY <1>1, <1>2 DEF TypeInv, TopType
  <2>2. SharedType' /\ RdyType' /\ SockType'
    BY <1>1 DEF TypeInv, SharedType, RdyType, SockType
  <2>3. PoolType'
    BY <1>1, <1>2 DEF TypeInv, PoolType, Event
  <2>4. QED
    BY <2>1, <2>2, <2>3 DEF TypeInv
<1>4. ThreadInv'
  BY <1>1 DEF ThreadInv
<1>5. OwnInv'
  BY <1>1, <1>2 DEF OwnInv, Queued, Seated
<1>6. CountInv'
  BY <1>1, <1>2 DEF CountInv, Pending, FinishedServesNobody
<1>7. Woken'
  BY <1>1, <1>2 DEF Woken, DuePipe, Due, Batched, Wants
<1>8. StaleMinersWillBeTold'
  BY <1>1 DEF StaleMinersWillBeTold
<1>9. QED
  BY <1>3, <1>4, <1>5, <1>6, <1>7, <1>8

LEMMA NotifyLockStep ==
    ASSUME IInv, NotifyLock
    PROVE  IInv'
<1> USE DEF IInv
<1>1. /\ mtx = None /\ mtx' = "node" /\ npc = "published" /\ npc' = "notify" /\ npos' = 1
      /\ UNCHANGED <<size, list, apc, asock, apos, apool, current, active, finished, pipe, rdy, tpc, batch,
                     cur, buf, slots, conn, data, sent, aborting, logged, known, dead>>
  BY DEF NotifyLock, Lock, acceptVars, sharedVars, threadVars, sockVars, clientVars
<1>2. SharedType' /\ RdyType' /\ PoolType' /\ SockType' /\ Woken' /\ Idx' = Idx
  BY <1>1, Quiet
<1>3. TypeInv'
  BY <1>1, <1>2 DEF TypeInv, TopType
<1>4. ThreadInv'
  BY <1>1, Sizes DEF ThreadInv
<1>5. OwnInv'
  BY <1>1, <1>2 DEF OwnInv, Queued, Seated
<1>6. CountInv'
  BY <1>1, <1>2 DEF CountInv, Pending, FinishedServesNobody
<1>7. StaleMinersWillBeTold'
  <2>1. SUFFICES ASSUME NEW q \in Pools, NEW k \in Idx, slots[q][k] # None
                 PROVE  \E i \in DOMAIN list : i >= 1 /\ list[i] = q
    BY <1>1, <1>2 DEF StaleMinersWillBeTold
  <2>2. PICK i \in DOMAIN list : list[i] = q
    BY <2>1, Listed DEF InSeq
  <2>3. list \in Seq(Pools)
    BY DEF TypeInv, TopType
  <2>4. QED
    BY <2>2, <2>3
<1>8. QED
  BY <1>2, <1>3, <1>4, <1>5, <1>6, <1>7

LEMMA NotifyPoolStep ==
    ASSUME IInv, NotifyPool
    PROVE  IInv'
<1> USE DEF IInv
<1> DEFINE p == list[npos]
<1>1. /\ npc = "notify" /\ npos \in DOMAIN list /\ mtx = "node" /\ apc \notin {"scan", "found", "counted"}
      /\ p \in Pools /\ InSeq(p, list) /\ npos \in Nat /\ npos >= 1 /\ list \in Seq(Pools)
  BY Sizes DEF NotifyPool, TypeInv, TopType, ThreadInv, InSeq
<1>2. CASE finished[p] /\ ErasePool(p)
  <2>1. UNCHANGED <<size, mtx, acceptVars, nodeVars, batch, cur, buf, slots, sockVars, clientVars, dead>>
    <3>1. UNCHANGED npos
      BY <1>2 DEF NotifyPool
    <3>2. QED
      BY <3>1 DEF NotifyPool, nodeVars
  <2>2. QED
    BY <1>1, <1>2, <2>1, EraseStep
<1>3. CASE ~finished[p]
  <2>1. /\ pipe' = [pipe EXCEPT ![p] = Append(@, NewBlock)] /\ Edge(p, Pipe) /\ npos' = npos + 1
        /\ UNCHANGED <<size, list, mtx, apc, asock, apos, apool, npc, current, active, finished, tpc, batch,
                       cur, buf, slots, conn, data, sent, aborting, logged, known, dead>>
    BY <1>3 DEF NotifyPool, acceptVars, sockVars, clientVars
  <2>2. /\ SharedType' /\ RdyType' /\ PoolType' /\ SockType' /\ Woken' /\ Idx' = Idx
        /\ pipe'[p] = Append(pipe[p], NewBlock) /\ pipe[p] \in Seq(Message)
        /\ \A q \in Pools : q # p => pipe'[q] = pipe[q]
        /\ \A y : InSeq(y, pipe'[p]) <=> InSeq(y, pipe[p]) \/ y = NewBlock
    <3>1. NewBlock \in Message
      BY DEF Message
    <3> HIDE DEF p
    <3>2. QED
      BY <1>1, <2>1, <3>1, PipeWrite
  <2>3. TypeInv'
    BY <1>1, <2>1, <2>2 DEF TypeInv, TopType
  <2>4. ThreadInv'
    <3>1. \A q \in Pools : tpc[q] = "none" => active[q] = 0 /\ pipe'[q] = << >>
      BY <1>1, <2>2 DEF ThreadInv
    <3>2. QED
      BY <2>1, <3>1 DEF ThreadInv
  <2>5. OwnInv'
    <3>1. \A q \in Pools : Uniq(pipe'[q])
      <4>1. NewBlock \in Message /\ Uniq(pipe[p])
        BY <1>1 DEF OwnInv, Message
      <4>2. Uniq(Append(pipe[p], NewBlock))
        <5> HIDE DEF p
        <5>1. QED
          BY <2>2, <4>1, Appended
      <4>3. QED
        BY <2>2, <4>2 DEF OwnInv
    <3> HIDE DEF p
    <3>2. \A q \in Pools, t \in Sockets : InSeq(t, pipe'[q]) <=> InSeq(t, pipe[q])
      BY <2>2, Sizes
    <3>3. \A t \in Sockets : (Queued(t)' <=> Queued(t)) /\ (Seated(t)' <=> Seated(t))
      BY <2>1, <2>2, <3>2 DEF Queued, Seated
    <3>4. QED
      BY <2>1, <2>2, <3>1, <3>2, <3>3 DEF OwnInv
  <2>6. CountInv'
    <3>1. Queue(pipe'[p]) = Queue(pipe[p])
      <4>1. NewBlock \in Message
        BY DEF Message
      <4> HIDE DEF p
      <4>2. QED
        BY <2>2, <4>1, QueueAppended
    <3>2. \A q \in Pools : Pending(q)' = Pending(q) /\ Queue(pipe'[q]) = Queue(pipe[q])
      BY <2>1, <2>2, <3>1 DEF Pending
    <3>3. QED
      BY <2>1, <2>2, <3>2 DEF CountInv, FinishedServesNobody
  <2>7. StaleMinersWillBeTold'
    <3>1. SUFFICES ASSUME NEW q \in Pools, NEW k \in Idx, slots[q][k] # None, Stale(slots[q][k])
                   PROVE  Coming(q, k)'
      BY <2>1, <2>2 DEF StaleMinersWillBeTold, Stale, Coming
    <3>2. Coming(q, k)
      BY <3>1, StaleMiners
    <3>3. CASE q = p
      BY <2>2, <3>3 DEF Coming
    <3>4. CASE q # p
      <4>1. \A i \in DOMAIN list : i >= npos /\ list[i] = q => i >= npos + 1
        <5>1. ASSUME NEW i \in DOMAIN list, i >= npos, list[i] = q
              PROVE  i >= npos + 1
          <6>1. i # npos /\ i \in Int /\ npos \in Int
            BY <1>1, <3>4, <5>1
          <6>2. QED
            BY <5>1, <6>1
        <5>2. QED
          BY <5>1
      <4>2. QED
        BY <1>1, <2>1, <2>2, <3>2, <3>4, <4>1 DEF Coming
    <3>5. QED
      BY <3>3, <3>4
  <2>8. QED
    BY <2>2, <2>3, <2>4, <2>5, <2>6, <2>7
<1>4. QED
  BY <1>2, <1>3 DEF NotifyPool

LEMMA NotifyUnlockStep ==
    ASSUME IInv, NotifyUnlock
    PROVE  IInv'
<1> USE DEF IInv
<1>1. /\ mtx' = None /\ npc = "notify" /\ npc' = "idle" /\ npos > Len(list) /\ npos' = 1
      /\ mtx = "node"
      /\ UNCHANGED <<size, list, apc, asock, apos, apool, current, active, finished, pipe, rdy, tpc, batch,
                     cur, buf, slots, conn, data, sent, aborting, logged, known, dead>>
  BY DEF NotifyUnlock, ThreadInv, acceptVars, sharedVars, threadVars, sockVars, clientVars
<1>2. SharedType' /\ RdyType' /\ PoolType' /\ SockType' /\ Woken' /\ Idx' = Idx
  BY <1>1, Quiet
<1>3. TypeInv'
  BY <1>1, <1>2 DEF TypeInv, TopType
<1>4. ThreadInv'
  BY <1>1, Sizes DEF ThreadInv
<1>5. OwnInv'
  BY <1>1, <1>2 DEF OwnInv, Queued, Seated
<1>6. CountInv'
  BY <1>1, <1>2 DEF CountInv, Pending, FinishedServesNobody
<1>7. StaleMinersWillBeTold'
  <2>1. list \in Seq(Pools) /\ npos \in Nat
    BY DEF TypeInv, TopType
  <2>2. \A i \in DOMAIN list : ~(i >= npos)
    BY <1>1, <2>1
  <2>3. QED
    BY <1>1, <1>2, <2>2 DEF StaleMinersWillBeTold
<1>8. QED
  BY <1>2, <1>3, <1>4, <1>5, <1>6, <1>7

-----------------------------------------------------------------------------

LEMMA StutterStep ==
    ASSUME IInv, UNCHANGED vars
    PROVE  IInv'
<1> USE DEF IInv
<1>1. UNCHANGED <<size, list, mtx, apc, asock, apos, apool, npc, npos, current, active, finished, pipe, rdy,
                  tpc, batch, cur, buf, slots, conn, data, sent, aborting, logged, known, dead>>
  BY DEF vars, listVars, acceptVars, nodeVars, sharedVars, threadVars, sockVars, clientVars
<1>2. SharedType' /\ RdyType' /\ PoolType' /\ SockType' /\ Woken' /\ Idx' = Idx
  BY <1>1, Quiet
<1>3. TypeInv' /\ ThreadInv'
  BY <1>1, <1>2 DEF TypeInv, TopType, ThreadInv
<1>4. OwnInv'
  BY <1>1, <1>2 DEF OwnInv, Queued, Seated
<1>5. CountInv'
  BY <1>1, <1>2 DEF CountInv, Pending, FinishedServesNobody
<1>6. StaleMinersWillBeTold'
  BY <1>1, <1>2 DEF StaleMinersWillBeTold
<1>7. QED
  BY <1>2, <1>3, <1>4, <1>5, <1>6

\* The invariant is inductive.
LEMMA NextIInv == IInv /\ [Next]_vars => IInv'
<1> SUFFICES ASSUME IInv, [Next]_vars
             PROVE  IInv'
  OBVIOUS
<1>1. CASE UNCHANGED vars
  BY <1>1, StutterStep
<1>2. ASSUME NEW s \in Sockets, PeerSends(s) \/ PeerCloses(s) \/ Accept(s)
      PROVE  IInv'
  BY <1>2, PeerSteps, AcceptStep
<1>3. CASE AcceptThread
  BY <1>3, AcceptLockStep, AcceptScanStep, AcceptAllocateStep, AcceptCountStep, AcceptWriteStep
    DEF AcceptThread
<1>4. CASE Publish \/ NotifyThread
  BY <1>4, PublishStep, NotifyLockStep, NotifyPoolStep, NotifyUnlockStep DEF NotifyThread
<1>5. ASSUME NEW p \in Pools, PoolStep(p)
      PROVE  IInv'
  <2> USE DEF IInv
  <2>1. TypeInv'
    BY <1>5, PoolStepTypes
  <2>2. ThreadInv'
    BY <1>5, PoolStepThread
  <2>3. OwnInv'
    BY <1>5, PoolStepOwn
  <2>4. CountInv'
    BY <1>5, PoolStepCount
  <2>5. Woken'
    BY <1>5, PoolStepWoken
  <2>6. StaleMinersWillBeTold'
    BY <1>5, PoolStepTold
  <2>7. QED
    BY <2>1, <2>2, <2>3, <2>4, <2>5, <2>6
<1>6. QED
  BY <1>1, <1>2, <1>3, <1>4, <1>5 DEF Next, PoolStep

LEMMA Invariance == Safe => []IInv
<1>1. QED
  BY InitIInv, NextIInv, PTL DEF Safe

-----------------------------------------------------------------------------
(* Theorems.                                                               *)

\* Every variable has its type; in particular the count of a pool never goes
\* below zero nor beyond the pool's size, whoever counts.
THEOREM PoolsTypeCorrect == Spec => []TypeOK
<1>1. IInv => TypeOK
  <2>1. SUFFICES ASSUME IInv
                 PROVE  TypeOK
    OBVIOUS
  <2>2. active \in [Pools -> 0..size]
    <3>1. active \in [Pools -> Nat] /\ \A p \in Pools : active[p] <= size
      BY <2>1 DEF IInv, TypeInv, SharedType, CountInv
    <3>2. size \in Nat
      BY <2>1, Sizes DEF IInv, TypeInv, TopType
    <3>3. QED
      BY <3>1, <3>2
  <2>3. rdy \in [Pools -> Seq(Sockets \cup {Pipe})]
    BY <2>1 DEF IInv, TypeInv, RdyType, PipeTypes
  <2>4. QED
    BY <2>1, <2>2, <2>3 DEF TypeOK, IInv, TypeInv, TopType, SharedType, PoolType, SockType
<1>2. QED
  BY <1>1, Invariance, PTL DEF Spec

\* active_cnt of a listed pool is exactly its clients, the sockets in its pipe
\* and the one about to be written, although two threads keep it.
THEOREM PoolsAccounting == Spec => []Accounting
<1>1. IInv => Accounting
  <2>1. SUFFICES ASSUME IInv, NEW p \in Pools, InSeq(p, list)
                 PROVE  active[p] = Taken(Idx, slots[p]) + Queue(pipe[p]) + Pending(p)
    BY DEF Accounting, Taken, Queue, Pending
  <2>2. QED
    BY <2>1 DEF IInv, CountInv
<1>2. QED
  BY <1>1, Invariance, PTL DEF Spec

\* What iterate_pools erases holds no client.
THEOREM PoolsFinishedServesNobody == Spec => []FinishedServesNobody
<1>1. IInv => FinishedServesNobody
  BY DEF IInv, CountInv
<1>2. QED
  BY <1>1, Invariance, PTL DEF Spec

\* No edge is lost: the thread of a pool will look at its pipe and at every
\* client that waits for it.
THEOREM PoolsNoLostWakeup == Spec => []NoLostWakeup
<1>1. IInv => NoLostWakeup
  <2>1. SUFFICES ASSUME IInv, NEW p \in Pools
                 PROVE  /\ (pipe[p] # << >> => Expected(p, Pipe))
                        /\ \A k \in Idx : slots[p][k] # None /\ Wants(slots[p][k]) =>
                              Expected(p, slots[p][k])
    BY DEF NoLostWakeup, Wants
  <2>2. DuePipe(p) => Expected(p, Pipe)
    BY DEF DuePipe, Batched, Expected
  <2>3. \A k \in Idx : Due(p, k) => Expected(p, slots[p][k])
    BY DEF Due, Batched, Expected
  <2>4. QED
    BY <2>1, <2>2, <2>3 DEF IInv, Woken
<1>2. QED
  BY <1>1, Invariance, PTL DEF Spec

\* A miner on an old job is going to be told: the news is with the node, in the
\* pipe, or with the pool's thread before it comes to the miner's slot.
THEOREM PoolsStaleMinersWillBeTold == Spec => []StaleMinersWillBeTold
<1>1. IInv => StaleMinersWillBeTold
  BY DEF IInv
<1>2. QED
  BY <1>1, Invariance, PTL DEF Spec

\* Where a hang-up is always reported as readable, no event asks for more.
MaskInv == \A p \in Pools : \A i \in DOMAIN batch[p] : batch[p][i].mask = "in"

LEMMA NextMaskInv ==
    ASSUME HangupMasks = {"in"}
    PROVE  IInv /\ MaskInv /\ [Next]_vars => MaskInv'
<1> SUFFICES ASSUME IInv, MaskInv, [Next]_vars
             PROVE  MaskInv'
  OBVIOUS
<1>0. TypeInv /\ batch \in [Pools -> Seq(Event)]
  BY DEF IInv, TypeInv, PoolType
<1>1. CASE UNCHANGED batch
  BY <1>1 DEF MaskInv
<1>2. ASSUME NEW p \in Pools, Wait(p)
      PROVE  MaskInv'
  <2>1. /\ batch' = [batch EXCEPT ![p] = batch'[p]]
        /\ \A i \in DOMAIN batch'[p] : \E x \in PipeTypes : batch'[p][i] \in EventsOf(p, x)
    BY <1>0, <1>2, WaitFacts
  <2>2. \A x \in PipeTypes : \A e \in EventsOf(p, x) : e.mask = "in"
    BY DEF EventsOf
  <2>3. \A i \in DOMAIN batch'[p] : batch'[p][i].mask = "in"
    BY <2>1, <2>2
  <2>4. \A q \in Pools : q # p => batch'[q] = batch[q]
    BY <1>0, <2>1
  <2>5. QED
    BY <2>3, <2>4 DEF MaskInv
<1>3. ASSUME NEW p \in Pools, batch[p] # << >>, batch' = [batch EXCEPT ![p] = Tail(@)]
      PROVE  MaskInv'
  <2>1. batch[p] \in Seq(Event) /\ batch'[p] = Tail(batch[p])
    BY <1>0, <1>3
  <2>2. \A i \in DOMAIN Tail(batch[p]) : i + 1 \in DOMAIN batch[p] /\ Tail(batch[p])[i] = batch[p][i + 1]
    BY <1>3, <2>1
  <2>3. \A i \in DOMAIN batch'[p] : batch'[p][i].mask = "in"
    BY <2>1, <2>2 DEF MaskInv
  <2>4. \A q \in Pools : q # p => batch'[q] = batch[q]
    BY <1>0, <1>3
  <2>5. QED
    BY <2>3, <2>4 DEF MaskInv
<1>4. ASSUME NEW p \in Pools, PoolStep(p), ~Wait(p)
      PROVE  MaskInv'
  <2>1. CASE PipeEvent(p) \/ ReadEvent(p) \/ HangupEvent(p)
    BY <1>3, <2>1 DEF PipeEvent, ReadEvent, HangupEvent
  <2>2. CASE ~(PipeEvent(p) \/ ReadEvent(p) \/ HangupEvent(p))
    <3>1. UNCHANGED batch
      BY <1>4, <2>2
        DEF PoolStep, PoolThread, LoopTest, Finish, ReadData, ReadNothing, LoginLine, RequestLine, BadLine,
            PipeEmpty, PipeNewBlock, TellClient, PipeAdd, PipeAddFails, Interrupted, threadVars
    <3>2. QED
      BY <1>1, <3>1
  <2>3. QED
    BY <2>1, <2>2
<1>5. ASSUME NEW s \in Sockets, PeerSends(s) \/ PeerCloses(s) \/ Accept(s)
      PROVE  MaskInv'
  BY <1>1, <1>5 DEF PeerSends, PeerCloses, Accept, threadVars
<1>6. CASE AcceptThread \/ Publish \/ NotifyThread
  BY <1>1, <1>6 DEF AcceptThread, AcceptLock, AcceptScan, AcceptAllocate, AcceptCount, AcceptWrite, Publish,
                    NotifyThread, NotifyLock, NotifyPool, NotifyUnlock, threadVars
<1>7. CASE UNCHANGED vars
  BY <1>1, <1>7 DEF vars, threadVars
<1>8. QED
  BY <1>2, <1>4, <1>5, <1>6, <1>7 DEF Next, PoolStep

\* Who is disconnected by the step of another.
LEMMA LeavesForCause ==
    ASSUME IInv, NEW q \in Pools, PoolStep(q),
           NEW p \in Pools, NEW k \in Idx, NEW s \in Sockets, slots[p][k] = s, conn'[s] = "gone"
    PROVE  conn[s] # "up" \/ aborting[s] \/ aborting'[s] \/ HungUp(p, k)
<1>1. TypeInv /\ ThreadInv /\ OwnInv
  BY DEF IInv
<1>2. /\ conn \in [Sockets -> {"new", "up", "fin", "rst", "broken", "gone"}]
      /\ aborting \in [Sockets -> BOOLEAN]
      /\ batch \in [Pools -> Seq(Event)]
  BY <1>1 DEF TypeInv, SockType, PoolType
<1>3. CASE conn' = conn
  BY <1>3
<1>4. ASSUME NEW x, RemoveClient(q, cur[q], x), x # s
      PROVE  conn'[s] = conn[s]
  BY <1>2, <1>4 DEF RemoveClient
<1>5. CASE HangupEvent(q)
  <2> DEFINE j == Head(batch[q]).idx
  <2>1. /\ batch[q] # << >> /\ j # 0 /\ Head(batch[q]).mask = "hup"
        /\ conn' = conn \/ conn' = [conn EXCEPT ![slots[q][j]] = "gone"]
    BY <1>5 DEF HangupEvent, RemoveClient
  <2>2. CASE slots[q][j] = s
    <3>1. Head(batch[q]) \in Event
      BY <1>2, <2>1
    <3>2. j \in Idx
      BY <1>1, <2>1, <3>1 DEF Event, Idx, TypeInv, TopType
    <3>3. p = q /\ k = j
      BY <1>1, <2>2, <3>2, NamesAssumption, ClientPoolsAssumption DEF OwnInv
    <3>4. QED
      BY <2>1, <3>3 DEF HungUp
  <2>3. CASE slots[q][j] # s
    BY <1>2, <1>3, <2>1, <2>3
  <2>4. QED
    BY <2>2, <2>3
<1>6. CASE ReadNothing(q)
  BY <1>3, <1>4, <1>6 DEF ReadNothing
<1>7. CASE BadLine(q)
  <2>1. CASE s = slots[q][cur[q]]
    <3>1. aborting'[s]
      BY <1>2, <1>7, <2>1 DEF BadLine
    <3>2. QED
      BY <3>1
  <2>2. CASE s # slots[q][cur[q]]
    BY <1>4, <1>7, <2>2 DEF BadLine
  <2>3. QED
    BY <2>1, <2>2
<1>8. CASE TellClient(q)
  BY <1>3, <1>4, <1>8 DEF TellClient
<1>9. CASE PipeAddFails(q)
  <2>1. Head(pipe[q]) \in Sockets /\ InSeq(Head(pipe[q]), pipe[q])
    <3>1. pipe[q] \in Seq(Message) /\ pipe[q] # << >> /\ Head(pipe[q]) # NewBlock
      BY <1>1, <1>9 DEF PipeAddFails, TypeInv, SharedType
    <3>2. QED
      BY <1>1, <3>1, Busy, Tailed
  <2>2. s # Head(pipe[q])
    BY <1>1, <2>1 DEF OwnInv, Queued, Seated
  <2>3. conn'[s] = conn[s]
    BY <1>2, <1>9, <2>2 DEF PipeAddFails
  <2>4. QED
    BY <2>3
<1>10. CASE ~(HangupEvent(q) \/ ReadNothing(q) \/ BadLine(q) \/ TellClient(q) \/ PipeAddFails(q))
  <2>1. conn' = conn
    BY <1>10
      DEF PoolStep, PoolThread, Wait, LoopTest, Finish, PipeEvent, ReadEvent, ReadData, LoginLine, RequestLine,
          PipeEmpty, PipeNewBlock, PipeAdd, Interrupted, sockVars
  <2>2. QED
    BY <1>3, <2>1
<1>11. QED
  BY <1>5, <1>6, <1>7, <1>8, <1>9, <1>10

LEMMA LeavingStep ==
    ASSUME IInv, Next
    PROVE  \A p \in Pools, k \in Idx : LET s == slots[p][k] IN
              s # None /\ conn'[s] = "gone" =>
                  conn[s] # "up" \/ aborting[s] \/ aborting'[s] \/ HungUp(p, k)
<1>1. /\ slots \in [Pools -> [Idx -> Sockets \cup {None}]]
      /\ conn \in [Sockets -> {"new", "up", "fin", "rst", "broken", "gone"}]
  BY DEF IInv, TypeInv, PoolType, SockType
<1>2. SUFFICES ASSUME NEW p \in Pools, NEW k \in Idx, NEW s \in Sockets, slots[p][k] = s,
                      conn'[s] = "gone"
               PROVE  conn[s] # "up" \/ aborting[s] \/ aborting'[s] \/ HungUp(p, k)
  BY <1>1
<1>3. CASE conn' = conn
  BY <1>2, <1>3
<1>4. ASSUME NEW t \in Sockets, PeerSends(t) \/ PeerCloses(t) \/ Accept(t)
      PROVE  conn[s] # "up"
  <2>1. CASE PeerSends(t)
    BY <1>2, <2>1 DEF PeerSends
  <2>2. CASE PeerCloses(t)
    BY <1>1, <1>2, <2>2 DEF PeerCloses
  <2>3. CASE Accept(t)
    BY <1>1, <1>2, <2>3 DEF Accept
  <2>4. QED
    BY <1>4, <2>1, <2>2, <2>3
<1>5. CASE AcceptThread \/ Publish \/ NotifyThread
  <2>1. conn' = conn
    BY <1>5 DEF AcceptThread, AcceptLock, AcceptScan, AcceptAllocate, AcceptCount, AcceptWrite, Publish,
                NotifyThread, NotifyLock, NotifyPool, NotifyUnlock, sockVars
  <2>2. QED
    BY <1>3, <2>1
<1>6. ASSUME NEW q \in Pools, PoolStep(q)
      PROVE  conn[s] # "up" \/ aborting[s] \/ aborting'[s] \/ HungUp(p, k)
  BY <1>2, <1>6, LeavesForCause
<1>7. QED
  BY <1>4, <1>5, <1>6 DEF Next, PoolStep

\* Whatever events a hang-up raises, nobody is disconnected for another's fault
\* but by the event, not readable, of a hang-up in the slot he has.
THEOREM PoolsRemovedOrHungUp == Spec => RemovedOrHungUp
  BY LeavingStep, InitIInv, NextIInv, PTL DEF Safe, Spec, RemovedOrHungUp

\* Nobody is disconnected for another's fault, where a hang-up is reported as
\* readable, as Linux does for TCP.  (Where it is not, the late event of a client
\* that is gone removes the one that has its slot.)
THEOREM PoolsRemovedForCause ==
    ASSUME HangupMasks = {"in"}
    PROVE  Spec => RemovedForCause
<1>1. Init => MaskInv
  BY DEF Init, MaskInv
<1>2. ASSUME IInv, MaskInv, NEW p \in Pools, NEW k \in Idx
      PROVE  ~HungUp(p, k)
  <2>1. batch[p] \in Seq(Event)
    BY <1>2 DEF IInv, TypeInv, PoolType
  <2>2. batch[p] # << >> => Head(batch[p]) = batch[p][1] /\ 1 \in DOMAIN batch[p]
    BY <2>1
  <2>3. QED
    BY <1>2, <2>2 DEF HungUp, MaskInv
<1>3. ASSUME IInv, MaskInv, Next
      PROVE  \A p \in Pools, k \in Idx : LET s == slots[p][k] IN
                s # None /\ conn'[s] = "gone" => conn[s] # "up" \/ aborting[s] \/ aborting'[s]
  BY <1>2, <1>3, LeavingStep
<1>4. QED
  BY <1>1, <1>3, InitIInv, NextIInv, NextMaskInv, PTL DEF Safe, Spec, RemovedForCause
=============================================================================
