------------------------- MODULE ClientSessionProofs -------------------------
(***************************************************************************)
(* A miner's session: no two miners are given the same nonces to search, a *)
(* share is judged against the job its number was sent with, and by what   *)
(* its hash is worth, and the limit on calls lets through no more than     *)
(* twice its number in a minute and slows down nobody who keeps below it;  *)
(* for any number of places and any constants.                             *)
(***************************************************************************)
EXTENDS ClientSession, FiniteSetTheorems, TLAPS

\* The counter has given every client an extra_nonce of its own.
IdInv ==
    /\ job \in [no : 1..MaxJobs, type : Types] /\ ctr \in 0..MaxClients
    /\ conn \in [Places -> {"free", "open", "in"}] /\ aborting \subseteq Connected
    /\ extra \in [Places -> Nat] /\ \A p \in Connected : extra[p] < ctr
    /\ \A p, q \in Connected : extra[p] = extra[q] => p = q

Sent == [id : Ids, no : 1..MaxJobs, extra : 0..MaxClients]

JobType ==
    /\ owed \in [Places -> Nat] /\ jobid \in [Places -> Nat]
    /\ cur \in [Places -> [no : 0..MaxJobs, type : Types, extra : 0..MaxClients]]
    /\ sent \in [Places -> SUBSET Sent]

\* A client's job ids are no more than the jobs published, and one for its login.
Outstanding(p) == jobid[p] + owed[p] + (IF conn[p] = "in" THEN 0 ELSE 1)

IdsOK ==
    \A p \in Places :
        /\ conn[p] = "free" => owed[p] = 0 /\ jobid[p] = 0
        /\ owed[p] <= job.no /\ Outstanding(p) <= job.no + 1

\* The job a logged in client holds, as it was sent.
Current(p) == [id |-> jobid[p], no |-> cur[p].no, extra |-> cur[p].extra]

\* It was sent, it bears the client's own extra nonce, and the number of what was
\* sent before is less.
SentOK ==
    \A p \in Places :
        /\ conn[p] # "in" => sent[p] = {}
        /\ conn[p] = "in" => cur[p].extra = extra[p] /\ Current(p) \in sent[p]
        /\ \A s \in sent[p] : s = Current(p) \/ s.id < jobid[p]

JobInv == JobType /\ IdsOK /\ SentOK

FloodType ==
    /\ age \in [Places -> 0..(Window + 1)] /\ count \in [Places -> 0..(MaxCalls + 1)]
    /\ calls \in [Places -> Seq(Calls)] /\ lines \in 0..MaxLines

\* The minute of a client, of which a units of time have passed and in which n calls
\* were counted: they are those no older than the minute.  What is older, and not
\* yet out of sight, is of one minute only; once the minute is over, so is all that
\* is in sight, and nothing of it is of the present unit of time.
Minute(c, a, n) ==
    /\ a <= Window =>
          /\ Cardinality(Served(c, a)) <= n /\ Cardinality(Served(c, a)) <= MaxCalls
          /\ Cardinality(Within(c, a)) >= n
          /\ Cardinality(Served(c, Window) \ Served(c, a)) <= MaxCalls
    /\ a > Window => Cardinality(Served(c, Window)) <= MaxCalls /\ Within(c, 0) = {}

FloodInv == FloodType /\ \A p \in Places : Minute(calls[p], age[p], count[p])

\* A verdict is about the job its client holds.
LastInv ==
    last.verdict \in {"bad", "ok", "block"} =>
        \E p \in Places : \E j \in Judgements : last = Share(p, jobid[p], j)

\* A client is told to slow down within a minute that has had its calls.
SlowInv ==
    last.verdict = "slow" =>
        last.place \in Places /\ age[last.place] <= Window /\ count[last.place] > MaxCalls

IInv == IdInv /\ JobInv /\ FloodInv /\ LastInv /\ SlowInv

LEMMA InitIInv == Init => IInv
<1> SUFFICES ASSUME Init
             PROVE  IInv
  OBVIOUS
<1> USE SessionAssumption DEF Init
<1>1. IdInv
  BY DEF IdInv, Connected
<1>2. JobInv
  BY DEF JobInv, JobType, IdsOK, SentOK, Outstanding, Sent, Blank, Types
<1>3. FloodInv
  <2>1. FloodType
    BY DEF FloodType
  <2>2. \A t \in Int : Within(<< >>, t) = {} /\ Served(<< >>, t) = {}
    BY DEF Within, Served
  <2>3. Minute(<< >>, Window + 1, 0)
    <3>1. Window \in Nat /\ MaxCalls \in Nat /\ ~(Window + 1 <= Window) /\ 0 <= MaxCalls
      OBVIOUS
    <3>2. Served(<< >>, Window) = {} /\ Within(<< >>, 0) = {}
      BY <2>2, <3>1
    <3>3. QED
      BY <3>1, <3>2, FS_EmptySet DEF Minute
  <2>4. QED
    BY <2>1, <2>3 DEF FloodInv
<1>4. LastInv /\ SlowInv
  BY DEF LastInv, SlowInv, Nothing
<1>5. QED
  BY <1>1, <1>2, <1>3, <1>4 DEF IInv

-----------------------------------------------------------------------------
(* What the steps of a session write.                                      *)

\* The steps in which a client asks for something.
Asks(p) == SlowDown(p) \/ Answered(p) \/ Login(p) \/ \E id \in Ids : Submit(p, id)

LEMMA AskFacts ==
    ASSUME IInv, NEW p \in Places, Asks(p)
    PROVE  /\ Send(p)
           /\ \E served \in BOOLEAN : Call(p, served) /\ (served <=> count'[p] <= MaxCalls)
<1>1. Send(p)
  BY DEF Asks, SlowDown, Answered, Login, Submit
<1>2. ASSUME SlowDown(p), IInv
      PROVE  Call(p, FALSE) /\ ~(count'[p] <= MaxCalls)
  <2>1. Call(p, FALSE) /\ count'[p] > MaxCalls
    BY <1>2 DEF SlowDown
  <2>2. count'[p] \in Nat
    BY <1>2, <2>1, SessionAssumption DEF Call, Counted, IInv, FloodInv, FloodType
  <2>3. ~(count'[p] <= MaxCalls)
    BY <2>1, <2>2, SessionAssumption
  <2>4. QED
    BY <2>1, <2>3
<1>3. ASSUME Answered(p) \/ Login(p) \/ \E id \in Ids : Submit(p, id)
      PROVE  Call(p, TRUE) /\ count'[p] <= MaxCalls
  BY <1>3 DEF Answered, Login, Submit, LetThrough
<1>4. QED
  BY <1>1, <1>2, <1>3 DEF Asks

LEMMA DestroyFacts ==
    ASSUME IdInv, NEW p \in Places, Leave(p) \/ BadLine(p) \/ (NewBlock(p) /\ p \in aborting)
    PROVE  Destroy(p) /\ p \in Connected
  BY DEF Leave, BadLine, NewBlock, IdInv

-----------------------------------------------------------------------------
(* Connections and their extra nonces.                                     *)

LEMMA IdNext == IInv /\ [Next]_vars => IdInv'
<1> SUFFICES ASSUME IInv, [Next]_vars
             PROVE  IdInv'
  OBVIOUS
<1> USE DEF IInv, IdInv
<1>1. ASSUME NEW type \in Types, Publish(type)
      PROVE  IdInv'
  BY <1>1, SessionAssumption DEF Publish, idVars, Connected
<1>2. ASSUME NEW p \in Places, Connect(p)
      PROVE  IdInv'
  <2>1. /\ p \notin Connected /\ Connected' = Connected \cup {p}
        /\ extra' = [extra EXCEPT ![p] = ctr] /\ ctr' = ctr + 1 /\ ctr < MaxClients
        /\ conn' = [conn EXCEPT ![p] = "open"] /\ UNCHANGED <<job, aborting>>
    BY <1>2 DEF Connect, Connected
  <2>2. ctr' \in 0..MaxClients
    BY <2>1, SessionAssumption
  <2>3. \A q \in Connected : extra[q] # ctr /\ extra[q] \in Nat
    BY DEF Connected
  <2>4. /\ extra' \in [Places -> Nat] /\ \A q \in Connected' : extra'[q] < ctr'
        /\ \A q, r \in Connected' : extra'[q] = extra'[r] => q = r
    BY <2>1, <2>3 DEF Connected
  <2>5. QED
    BY <2>1, <2>2, <2>4
<1>3. ASSUME NEW p \in Places, Destroy(p), p \in Connected
      PROVE  IdInv'
  <2>1. /\ conn' = [conn EXCEPT ![p] = "free"] /\ aborting' = aborting \ {p}
        /\ UNCHANGED <<job, ctr, extra>>
    BY <1>3 DEF Destroy
  <2>2. Connected' = Connected \ {p}
    BY <2>1 DEF Connected
  <2>3. QED
    BY <2>1, <2>2
\* A step that only shuts sockets down, or logs in.
<1>4. ASSUME NEW p \in Connected, UNCHANGED <<job, ctr, extra>>, aborting' \in {aborting, aborting \cup {p}},
             conn' = conn \/ (conn[p] = "open" /\ conn' = [conn EXCEPT ![p] = "in"])
      PROVE  IdInv'
  <2>1. Connected' = Connected
    BY <1>4 DEF Connected
  <2>2. conn' \in [Places -> {"free", "open", "in"}]
    BY <1>4
  <2>3. QED
    BY <1>4, <2>1, <2>2
<1>5. ASSUME NEW p \in Places, NewBlock(p), p \notin aborting
      PROVE  IdInv'
  <2>1. p \in Connected
    BY <1>5 DEF NewBlock, JobInv, IdsOK, Connected, JobType
  <2>2. UNCHANGED <<job, ctr, extra, conn>> /\ aborting' \in {aborting, aborting \cup {p}}
    BY <1>5 DEF NewBlock, idVars, Send
  <2>3. QED
    BY <1>4, <2>1, <2>2
<1>6. ASSUME NEW p \in Places, Malformed(p)
      PROVE  IdInv'
  BY <1>4, <1>6 DEF Malformed, Send, idVars
<1>7. ASSUME NEW p \in Places, Asks(p)
      PROVE  IdInv'
  <2>1. p \in Connected /\ UNCHANGED <<job, ctr, extra>> /\ aborting' \in {aborting, aborting \cup {p}}
    BY <1>7, AskFacts DEF Call, Send
  <2>2. conn' = conn \/ (conn[p] = "open" /\ conn' = [conn EXCEPT ![p] = "in"])
    BY <1>7 DEF Asks, SlowDown, Answered, Login, Submit
  <2>3. QED
    BY <1>4, <2>1, <2>2
<1>8. CASE Tick \/ UNCHANGED vars
  BY <1>8 DEF Tick, vars, idVars, Connected
<1>9. QED
  BY <1>1, <1>2, <1>3, <1>5, <1>6, <1>7, <1>8, DestroyFacts DEF Next, Session, Asks

-----------------------------------------------------------------------------
(* The counts of calls.                                                    *)

LEMMA CallSets ==
    ASSUME NEW c \in Seq(Calls), NEW t
    PROVE  /\ IsFiniteSet(Within(c, t)) /\ Cardinality(Within(c, t)) \in Nat
           /\ IsFiniteSet(Served(c, t)) /\ Cardinality(Served(c, t)) \in Nat
<1>1. IsFiniteSet(DOMAIN c)
  BY FS_Interval, DOMAIN c = 1..Len(c), Len(c) \in Nat
<1>2. QED
  BY <1>1, FS_Subset, FS_CardinalityType DEF Within, Served

\* A call is one more in every stretch of time up to now.
OneMore(c, ok) == Append(c, [ago |-> 0, served |-> ok])

LEMMA OneMoreCall ==
    ASSUME NEW c \in Seq(Calls), NEW ok \in BOOLEAN, NEW t \in Nat
    PROVE  /\ OneMore(c, ok) \in Seq(Calls)
           /\ Within(OneMore(c, ok), t) = Within(c, t) \cup {Len(c) + 1}
           /\ Cardinality(Within(OneMore(c, ok), t)) = Cardinality(Within(c, t)) + 1
           /\ ok => /\ Served(OneMore(c, ok), t) = Served(c, t) \cup {Len(c) + 1}
                    /\ Cardinality(Served(OneMore(c, ok), t)) = Cardinality(Served(c, t)) + 1
           /\ ~ok => Served(OneMore(c, ok), t) = Served(c, t)
<1> DEFINE x == [ago |-> 0, served |-> ok]
           d == OneMore(c, ok)
           n == Len(c) + 1
<1>1. x \in Calls
  BY SessionAssumption DEF Calls
<1>2. /\ d \in Seq(Calls) /\ DOMAIN d = DOMAIN c \cup {n} /\ n \notin DOMAIN c
      /\ d[n] = x /\ \A i \in DOMAIN c : d[i] = c[i]
  BY <1>1 DEF OneMore
<1> HIDE DEF d, n
<1>3. x.ago = 0 /\ (x.served <=> ok) /\ x.ago <= t
  OBVIOUS
<1>4. Within(d, t) = Within(c, t) \cup {n} /\ n \notin Within(c, t)
  BY <1>2, <1>3 DEF Within
<1>5. Served(d, t) = (IF ok THEN Served(c, t) \cup {n} ELSE Served(c, t)) /\ n \notin Served(c, t)
  BY <1>2, <1>3, <1>4 DEF Served, Within
<1>6. /\ Cardinality(Within(c, t) \cup {n}) = Cardinality(Within(c, t)) + 1
      /\ Cardinality(Served(c, t) \cup {n}) = Cardinality(Served(c, t)) + 1
  BY <1>4, <1>5, CallSets, FS_AddElement
<1>7. ok => Cardinality(Served(d, t)) = Cardinality(Served(c, t)) + 1
  BY <1>5, <1>6
<1>8. Cardinality(Within(d, t)) = Cardinality(Within(c, t)) + 1
  BY <1>4, <1>6
<1>9. QED
  BY <1>2, <1>4, <1>5, <1>7, <1>8, Zenon DEF d, n

\* With time the calls move out of sight, and none is of the present any more.
Older(t) == IF t > Window THEN t ELSE t + 1
Aged(c) == [i \in DOMAIN c |-> [c[i] EXCEPT !.ago = Older(@)]]

LEMMA OlderCalls ==
    ASSUME NEW c \in Seq(Calls)
    PROVE  /\ Aged(c) \in Seq(Calls) /\ Within(Aged(c), 0) = {}
           /\ \A t \in 0..(Window - 1) : /\ Within(Aged(c), t + 1) = Within(c, t)
                                         /\ Served(Aged(c), t + 1) = Served(c, t)
           /\ Served(Aged(c), Window) \subseteq Served(c, Window)
<1> USE SessionAssumption
<1>1. /\ DOMAIN c = 1..Len(c) /\ Len(c) \in Nat
      /\ \A i \in DOMAIN c : c[i] \in Calls /\ c[i].ago \in 0..(Window + 1)
  <2>1. \A x \in Calls : x.ago \in 0..(Window + 1)
    BY DEF Calls
  <2>2. \A i \in DOMAIN c : c[i] \in Calls
    OBVIOUS
  <2>3. QED
    BY <2>1, <2>2
<1>2. ASSUME NEW i \in DOMAIN c
      PROVE  /\ Aged(c)[i] \in Calls /\ Aged(c)[i].ago = Older(c[i].ago)
             /\ Aged(c)[i].served = c[i].served
  BY <1>1 DEF Aged, Older, Calls
<1>3. DOMAIN Aged(c) = DOMAIN c
  BY DEF Aged
<1>4. Aged(c) \in Seq(Calls)
  <2>1. Aged(c) \in [1..Len(c) -> Calls]
    BY <1>1, <1>2, <1>3 DEF Aged
  <2>2. QED
    BY <1>1, <2>1
<1>5. ASSUME NEW t \in 0..(Window - 1), NEW i \in DOMAIN c
      PROVE  Older(c[i].ago) <= t + 1 <=> c[i].ago <= t
  BY <1>1 DEF Older
<1>6. ASSUME NEW t \in 0..(Window - 1)
      PROVE  Within(Aged(c), t + 1) = Within(c, t) /\ Served(Aged(c), t + 1) = Served(c, t)
  <2>1. Within(Aged(c), t + 1) = Within(c, t)
    BY <1>2, <1>3, <1>5 DEF Within
  <2>2. QED
    BY <1>2, <2>1 DEF Served, Within
<1>7. Within(Aged(c), 0) = {}
  BY <1>1, <1>2, <1>3 DEF Within, Older
<1>8. Served(Aged(c), Window) \subseteq Served(c, Window)
  <2>1. \A i \in DOMAIN c : Older(c[i].ago) <= Window => c[i].ago <= Window
    BY <1>1 DEF Older
  <2>2. QED
    BY <1>2, <1>3, <2>1 DEF Served, Within
<1>9. QED
  BY <1>4, <1>6, <1>7, <1>8

LEMMA CallKeepsMinute ==
    ASSUME IInv, NEW p \in Places, NEW ok \in BOOLEAN, Call(p, ok), ok <=> count'[p] <= MaxCalls
    PROVE  FloodInv' /\ age'[p] <= Window
<1> DEFINE c == calls[p]
           d == OneMore(c, ok)
<1> USE SessionAssumption DEF IInv, FloodInv, FloodType
<1>1. /\ c \in Seq(Calls) /\ age[p] \in 0..(Window + 1) /\ count[p] \in 0..(MaxCalls + 1)
      /\ Minute(c, age[p], count[p])
      /\ calls' = [calls EXCEPT ![p] = d] /\ Counted(p) /\ lines' \in 0..MaxLines
  BY DEF Call, OneMore
<1>2. Window \in Nat /\ 0 \in Nat /\ 0 <= Window
  OBVIOUS
<1>3. calls' \in [Places -> Seq(Calls)] /\ calls'[p] = d /\ \A q \in Places \ {p} : calls'[q] = calls[q]
  <2>1. d \in Seq(Calls)
    BY <1>1, <1>2, OneMoreCall
  <2>2. QED
    BY <1>1, <2>1
<1> HIDE DEF c, d, IInv, FloodInv
<1>4. \A t \in {0, age[p], Window} :
          /\ Cardinality(Within(d, t)) = Cardinality(Within(c, t)) + 1
          /\ ok => /\ Served(d, t) = Served(c, t) \cup {Len(c) + 1}
                   /\ Cardinality(Served(d, t)) = Cardinality(Served(c, t)) + 1
          /\ ~ok => Served(d, t) = Served(c, t)
          /\ Cardinality(Within(c, t)) \in Nat /\ Cardinality(Served(c, t)) \in Nat
  <2> TAKE t \in {0, age[p], Window}
  <2>1. t \in Nat
    BY <1>1, <1>2
  <2>2. c \in Seq(Calls)
    BY <1>1
  <2> HIDE DEF c
  <2>3. /\ Cardinality(Within(d, t)) = Cardinality(Within(c, t)) + 1
        /\ ok => /\ Served(d, t) = Served(c, t) \cup {Len(c) + 1}
                 /\ Cardinality(Served(d, t)) = Cardinality(Served(c, t)) + 1
        /\ ~ok => Served(d, t) = Served(c, t)
    <3>1. d = OneMore(c, ok) /\ ok \in BOOLEAN
      BY DEF d
    <3>2. CASE ok
      BY <2>1, <2>2, <3>1, <3>2, OneMoreCall, TRUE \in BOOLEAN
    <3>3. CASE ~ok
      BY <2>1, <2>2, <3>1, <3>3, OneMoreCall, FALSE \in BOOLEAN
    <3>4. QED
      BY <3>2, <3>3
  <2>4. QED
    BY <2>2, <2>3, CallSets
<1>5. CASE age[p] > Window
  <2>1. age' = [age EXCEPT ![p] = 0] /\ count' = [count EXCEPT ![p] = 1]
    BY <1>1, <1>5 DEF Counted
  <2>2. FloodType' /\ age'[p] = 0 /\ count'[p] = 1
        /\ \A q \in Places \ {p} : age'[q] = age[q] /\ count'[q] = count[q]
    BY <1>1, <1>3, <2>1 DEF IInv, FloodInv
  <2>3. ok
    BY <2>2
  <2>4. Served(c, 0) = {} /\ Within(c, 0) = {} /\ Cardinality(Served(c, Window)) <= MaxCalls
    BY <1>1, <1>5 DEF Minute, Served
  <2>5. Served(d, Window) \ Served(d, 0) \subseteq Served(c, Window)
    BY <1>4, <2>3
  <2>6. Cardinality(Served(d, Window) \ Served(d, 0)) <= Cardinality(Served(c, Window))
    BY <1>1, <2>5, CallSets, FS_Subset
  <2>7. Minute(d, 0, 1)
    <3>1. Cardinality({}) = 0
      BY FS_EmptySet
    <3>2. Cardinality(Served(d, 0)) = 1 /\ Cardinality(Within(d, 0)) = 1
      <4>1. Cardinality(Served(c, 0)) = 0 /\ Cardinality(Within(c, 0)) = 0
        BY <2>4, <3>1
      <4>2. QED
        BY <1>4, <2>3, <4>1
    <3>3. Cardinality(Served(d, Window) \ Served(d, 0)) <= MaxCalls
      <4>1. Cardinality(Served(d, Window) \ Served(d, 0)) \in Nat
        BY <1>1, <2>5, CallSets, FS_Subset, FS_CardinalityType
      <4>2. QED
        BY <1>4, <2>4, <2>6, <4>1
    <3>4. QED
      BY <3>2, <3>3 DEF Minute
  <2>8. \A q \in Places \ {p} : Minute(calls'[q], age'[q], count'[q])
    BY <1>3, <2>2 DEF IInv, FloodInv
  <2>9. Minute(calls'[p], age'[p], count'[p]) /\ age'[p] <= Window
    BY <1>2, <1>3, <2>2, <2>7
  <2>10. QED
    BY <2>2, <2>8, <2>9 DEF FloodInv
<1>6. CASE age[p] <= Window
  <2>1. age' = age /\ count' = [count EXCEPT ![p] = IF @ > MaxCalls THEN @ ELSE @ + 1]
    BY <1>1, <1>6 DEF Counted
  <2>2. FloodType' /\ age'[p] = age[p] /\ count'[p] = (IF count[p] > MaxCalls THEN count[p] ELSE count[p] + 1)
        /\ \A q \in Places \ {p} : age'[q] = age[q] /\ count'[q] = count[q]
    BY <1>1, <1>3, <2>1 DEF IInv, FloodInv
  <2>3. /\ Cardinality(Served(c, age[p])) <= count[p] /\ Cardinality(Served(c, age[p])) <= MaxCalls
        /\ Cardinality(Within(c, age[p])) >= count[p]
        /\ Cardinality(Served(c, Window) \ Served(c, age[p])) <= MaxCalls
    BY <1>1, <1>6 DEF Minute
  <2>4. Served(d, Window) \ Served(d, age[p]) \subseteq Served(c, Window) \ Served(c, age[p])
    BY <1>4
  <2>5. Cardinality(Served(d, Window) \ Served(d, age[p])) <= MaxCalls
    <3>1. IsFiniteSet(Served(c, Window) \ Served(c, age[p]))
      BY <1>1, CallSets, FS_Subset
    <3>2. /\ Cardinality(Served(d, Window) \ Served(d, age[p]))
                <= Cardinality(Served(c, Window) \ Served(c, age[p]))
          /\ IsFiniteSet(Served(d, Window) \ Served(d, age[p]))
      BY <2>4, <3>1, FS_Subset
    <3>3. QED
      BY <2>3, <3>1, <3>2, FS_CardinalityType
  <2>6. /\ Cardinality(Served(d, age[p])) <= count'[p] /\ Cardinality(Served(d, age[p])) <= MaxCalls
        /\ Cardinality(Within(d, age[p])) >= count'[p]
    <3>1. /\ Cardinality(Within(d, age[p])) = Cardinality(Within(c, age[p])) + 1
          /\ ok => Cardinality(Served(d, age[p])) = Cardinality(Served(c, age[p])) + 1
          /\ ~ok => Cardinality(Served(d, age[p])) = Cardinality(Served(c, age[p]))
          /\ Cardinality(Within(c, age[p])) \in Nat /\ Cardinality(Served(c, age[p])) \in Nat
      BY <1>4
    <3>2. CASE ok
      BY <1>1, <2>2, <2>3, <3>1, <3>2
    <3>3. CASE ~ok
      BY <1>1, <2>2, <2>3, <3>1, <3>3
    <3>4. QED
      BY <3>2, <3>3
  <2>7. Minute(d, age'[p], count'[p])
    BY <1>6, <1>1, <2>2, <2>5, <2>6 DEF Minute
  <2>8. QED
    BY <1>3, <1>6, <2>2, <2>7 DEF IInv, FloodInv
<1>7. QED
  BY <1>1, <1>5, <1>6

LEMMA TickKeepsMinute == IInv /\ Tick => FloodInv'
<1> SUFFICES ASSUME IInv, Tick
             PROVE  FloodInv'
  OBVIOUS
<1> USE SessionAssumption DEF IInv, FloodInv, FloodType
<1>1. /\ age' = [p \in Places |-> Older(age[p])] /\ calls' = [p \in Places |-> Aged(calls[p])]
      /\ UNCHANGED <<count, lines>>
  BY DEF Tick, Older, Aged
<1>2. FloodType'
  <2>1. \A p \in Places : Aged(calls[p]) \in Seq(Calls)
    BY OlderCalls
  <2>2. QED
    BY <1>1, <2>1 DEF Older
<1>3. ASSUME NEW p \in Places
      PROVE  Minute(calls'[p], age'[p], count'[p])
  <2> DEFINE c == calls[p]
             d == Aged(c)
  <2>1. c \in Seq(Calls) /\ age[p] \in 0..(Window + 1) /\ count[p] \in 0..(MaxCalls + 1)
        /\ Minute(c, age[p], count[p])
    OBVIOUS
  <2>2. calls'[p] = d /\ age'[p] = Older(age[p]) /\ count'[p] = count[p]
    BY <1>1
  <2> HIDE DEF c, d, IInv, FloodInv, FloodType
  <2>3. /\ Within(d, 0) = {} /\ Served(d, Window) \subseteq Served(c, Window)
        /\ \A t \in 0..(Window - 1) : Within(d, t + 1) = Within(c, t) /\ Served(d, t + 1) = Served(c, t)
    BY <2>1, OlderCalls DEF d
  <2>4. /\ Cardinality(Served(d, Window)) \in Nat /\ Cardinality(Served(c, Window)) \in Nat
        /\ Cardinality(Served(d, Window)) <= Cardinality(Served(c, Window))
    BY <2>1, <2>3, CallSets, FS_Subset, FS_CardinalityType
  <2>5. CASE age[p] < Window
    <3>1. age[p] \in 0..(Window - 1) /\ Older(age[p]) = age[p] + 1 /\ age[p] + 1 <= Window
      BY <2>1, <2>5 DEF Older
    <3>2. Within(d, age[p] + 1) = Within(c, age[p]) /\ Served(d, age[p] + 1) = Served(c, age[p])
      BY <2>3, <3>1
    <3>3. /\ Cardinality(Served(d, Window) \ Served(c, age[p]))
                <= Cardinality(Served(c, Window) \ Served(c, age[p]))
          /\ Cardinality(Served(d, Window) \ Served(c, age[p])) \in Nat
          /\ Cardinality(Served(c, Window) \ Served(c, age[p])) \in Nat
      <4>1. IsFiniteSet(Served(c, Window) \ Served(c, age[p]))
        BY <2>1, CallSets, FS_Subset
      <4>2. QED
        BY <2>3, <4>1, FS_Subset, FS_CardinalityType
    <3>4. /\ Cardinality(Served(c, age[p])) <= count[p] /\ Cardinality(Served(c, age[p])) <= MaxCalls
          /\ Cardinality(Within(c, age[p])) >= count[p]
          /\ Cardinality(Served(c, Window) \ Served(c, age[p])) <= MaxCalls
      BY <2>1, <2>5 DEF Minute
    <3>5. Cardinality(Served(d, Window) \ Served(c, age[p])) <= MaxCalls
      BY <3>3, <3>4
    <3>6. ~(age[p] + 1 > Window)
      BY <2>1, <3>1
    <3>7. Minute(d, age[p] + 1, count[p])
      BY <3>2, <3>4, <3>5, <3>6 DEF Minute
    <3>8. QED
      BY <2>2, <3>1, <3>7
  <2>6. CASE age[p] >= Window
    <3>1. Older(age[p]) = Window + 1
      BY <2>1, <2>6 DEF Older
    <3>2. Cardinality(Served(c, Window)) <= MaxCalls
      BY <2>1, <2>6 DEF Minute
    <3>3. Minute(d, Window + 1, count[p])
      BY <2>3, <2>4, <3>2 DEF Minute
    <3>4. QED
      BY <2>2, <3>1, <3>3
  <2>7. QED
    BY <2>1, <2>5, <2>6
<1>4. QED
  BY <1>2, <1>3

LEMMA FloodNext == IInv /\ [Next]_vars => FloodInv'
<1> SUFFICES ASSUME IInv, [Next]_vars
             PROVE  FloodInv'
  OBVIOUS
<1>1. ASSUME UNCHANGED floodVars
      PROVE  FloodInv'
  BY <1>1 DEF IInv, FloodInv, FloodType, floodVars
<1>2. ASSUME NEW p \in Places, Destroy(p)
      PROVE  FloodInv'
  <2>1. /\ age' = [age EXCEPT ![p] = Window + 1] /\ count' = [count EXCEPT ![p] = 0]
        /\ calls' = [calls EXCEPT ![p] = << >>] /\ lines' = lines
    BY <1>2 DEF Destroy
  <2>2. FloodType'
    BY <2>1, SessionAssumption DEF IInv, FloodInv, FloodType
  <2>3. \A t \in Int : Within(<< >>, t) = {} /\ Served(<< >>, t) = {}
    BY DEF Within, Served
  <2>4. Minute(<< >>, Window + 1, 0)
    BY <2>3, FS_EmptySet, SessionAssumption DEF Minute
  <2>5. QED
    BY <2>1, <2>2, <2>4 DEF IInv, FloodInv, FloodType
<1>3. ASSUME NEW p \in Places, Asks(p)
      PROVE  FloodInv'
  BY <1>3, AskFacts, CallKeepsMinute
<1>4. CASE Tick
  BY <1>4, TickKeepsMinute
<1>5. ASSUME NEW p \in Places, Connect(p) \/ (NewBlock(p) /\ p \notin aborting) \/ Malformed(p)
      PROVE  FloodInv'
  BY <1>1, <1>5 DEF Connect, NewBlock, Malformed
<1>6. ASSUME NEW type \in Types, Publish(type)
      PROVE  FloodInv'
  BY <1>1, <1>6 DEF Publish
<1>7. CASE UNCHANGED vars
  BY <1>1, <1>7 DEF vars
<1>8. IInv => IdInv
  BY DEF IInv
<1>9. QED
  BY <1>2, <1>3, <1>4, <1>5, <1>6, <1>7, <1>8, DestroyFacts DEF Next, Session, Asks

-----------------------------------------------------------------------------
(* Jobs and their numbers.                                                 *)

\* A client gets the job of the moment, under the next number, and if it is or
\* will be logged in, with its own extra nonce, and is told of it.
LEMMA TellJob ==
    ASSUME IInv, NEW p \in Connected, NEW x \in 0..MaxClients, GetNewJob(p, x), UNCHANGED <<job, extra>>,
           owed' \in [Places -> Nat], \A q \in Places \ {p} : owed'[q] = owed[q] /\ conn'[q] = conn[q],
           conn'[p] # "free", owed'[p] <= owed[p], Outstanding(p)' <= job.no + 1,
           \/ conn'[p] = "in" /\ x = extra[p] /\ Tell(p)
           \/ conn'[p] = "open" /\ conn[p] = "open" /\ UNCHANGED sent
    PROVE  JobInv'
<1> USE DEF IInv, IdInv, JobInv, JobType
<1>0. p \in Places
  BY DEF Connected
<1>1. /\ cur' = [cur EXCEPT ![p] = [no |-> job.no, type |-> job.type, extra |-> x]]
      /\ jobid' = [jobid EXCEPT ![p] = @ + 1]
  BY DEF GetNewJob
<1>2. /\ jobid' \in [Places -> Nat] /\ jobid'[p] = jobid[p] + 1
      /\ cur' \in [Places -> [no : 0..MaxJobs, type : Types, extra : 0..MaxClients]]
  BY <1>0, <1>1
<1>3. jobid'[p] \in Ids
  BY <1>0, <1>2, SessionAssumption DEF Outstanding, Ids
<1>4. Current(p)' \in Sent
  BY <1>0, <1>1, <1>3 DEF Current, Sent
<1>5. sent' = sent \/ sent' = [sent EXCEPT ![p] = @ \cup {Current(p)'}]
  BY DEF Tell, Current
<1>6. JobType'
  <2>1. sent' \in [Places -> SUBSET Sent]
    BY <1>0, <1>4, <1>5
  <2>2. QED
    BY <1>2, <2>1
<1>7. IdsOK'
  BY <1>0, <1>1 DEF IdsOK, Outstanding
<1>8. \A q \in Places \ {p} : sent'[q] = sent[q] /\ (Current(q)' = Current(q)) /\ jobid'[q] = jobid[q]
                                /\ cur'[q] = cur[q]
  BY <1>0, <1>1, <1>5 DEF Current
<1>9. \A s \in sent[p] : s.id < jobid'[p]
  <2> TAKE s \in sent[p]
  <2>1. jobid[p] \in Nat /\ jobid'[p] = jobid[p] + 1 /\ Current(p).id = jobid[p]
    BY <1>0, <1>2 DEF Current
  <2>2. s.id \in Int
    BY <1>0 DEF Sent, Ids
  <2>3. s = Current(p) \/ s.id < jobid[p]
    BY <1>0 DEF SentOK
  <2>4. QED
    BY <2>1, <2>2, <2>3
<1>10. CASE conn'[p] = "in" /\ x = extra[p] /\ Tell(p)
  <2>1. sent'[p] = sent[p] \cup {Current(p)'} /\ cur'[p].extra = extra[p]
    BY <1>0, <1>1, <1>10 DEF Tell, Current
  <2>2. QED
    BY <1>0, <1>6, <1>7, <1>8, <1>9, <1>10, <2>1 DEF SentOK
<1>11. CASE conn'[p] = "open" /\ conn[p] = "open" /\ UNCHANGED sent
  BY <1>0, <1>6, <1>7, <1>8, <1>11 DEF SentOK
<1>12. QED
  BY <1>10, <1>11

LEMMA JobNext == IInv /\ [Next]_vars => JobInv'
<1> SUFFICES ASSUME IInv, [Next]_vars
             PROVE  JobInv'
  OBVIOUS
<1> USE DEF IInv, IdInv, JobInv, JobType
<1>1. ASSUME UNCHANGED <<job, conn, extra, owed, jobVars>>
      PROVE  JobInv'
  BY <1>1 DEF jobVars, IdsOK, SentOK, Outstanding, Current
<1>2. ASSUME NEW type \in Types, Publish(type)
      PROVE  JobInv'
  <2>1. /\ job'.no = job.no + 1 /\ UNCHANGED <<conn, extra, jobid, cur, sent>>
        /\ owed' \in [Places -> Nat]
        /\ \A p \in Places : owed'[p] <= owed[p] + 1 /\ (conn[p] = "free" => owed'[p] = 0)
    BY <1>2 DEF Publish, idVars, jobVars, Connected
  <2>2. IdsOK'
    BY <2>1 DEF IdsOK, Outstanding
  <2>3. QED
    BY <2>1, <2>2 DEF SentOK, Current
<1>3. ASSUME NEW p \in Places, Connect(p)
      PROVE  JobInv'
  <2>1. /\ conn[p] = "free" /\ conn' = [conn EXCEPT ![p] = "open"]
        /\ extra' = [extra EXCEPT ![p] = ctr] /\ UNCHANGED <<job, jobid, cur, sent>>
    BY <1>3 DEF Connect, jobVars
  <2>2. /\ owed' \in [Places -> Nat] /\ owed'[p] <= job.no /\ jobid[p] = 0
        /\ \A q \in Places \ {p} : owed'[q] = owed[q]
    <3>1. jobid[p] = 0
      BY <2>1 DEF IdsOK
    <3>2. PICK n \in 0..job.no : owed' = [owed EXCEPT ![p] = n]
      BY <1>3 DEF Connect, Notified
    <3>3. QED
      BY <3>1, <3>2
  <2>3. IdsOK'
    <3>1. job.no \in Nat /\ job.no >= 1
      OBVIOUS
    <3>2. owed'[p] <= job.no /\ Outstanding(p)' <= job.no + 1
      <4>1. conn'[p] = "open" /\ jobid'[p] = 0
        BY <2>1, <2>2
      <4>2. Outstanding(p)' = owed'[p] + 1 /\ owed'[p] \in Nat
        BY <2>2, <4>1 DEF Outstanding
      <4>3. QED
        BY <2>2, <3>1, <4>2
    <3>3. \A q \in Places \ {p} : conn'[q] = conn[q] /\ Outstanding(q)' = Outstanding(q)
      BY <2>1, <2>2 DEF Outstanding
    <3>4. QED
      BY <2>1, <2>2, <3>2, <3>3 DEF IdsOK
  <2>4. SentOK'
    BY <2>1 DEF SentOK, Current
  <2>5. QED
    BY <2>1, <2>2, <2>3, <2>4
<1>4. ASSUME NEW p \in Places, Destroy(p)
      PROVE  JobInv'
  <2>1. /\ conn' = [conn EXCEPT ![p] = "free"] /\ owed' = [owed EXCEPT ![p] = 0]
        /\ jobid' = [jobid EXCEPT ![p] = 0] /\ sent' = [sent EXCEPT ![p] = {}]
        /\ UNCHANGED <<job, extra, cur>>
    BY <1>4 DEF Destroy
  <2>2. JobType'
    BY <2>1
  <2>3. IdsOK'
    BY <2>1 DEF IdsOK, Outstanding
  <2>4. SentOK'
    BY <2>1 DEF SentOK, Current
  <2>5. QED
    BY <2>2, <2>3, <2>4
<1>5. ASSUME NEW p \in Places, NewBlock(p), p \notin aborting
      PROVE  JobInv'
  <2>1. /\ owed[p] > 0 /\ owed' = [owed EXCEPT ![p] = @ - 1] /\ UNCHANGED <<job, conn, extra>>
        /\ GetNewJob(p, IF conn[p] = "in" THEN extra[p] ELSE 0)
        /\ IF conn[p] = "in" THEN Tell(p) ELSE UNCHANGED sent
    BY <1>5 DEF NewBlock, idVars
  <2>2. p \in Connected
    BY <2>1 DEF IdsOK, Connected
  <2>3. owed' \in [Places -> Nat] /\ owed'[p] = owed[p] - 1
    BY <2>1
  <2>4. jobid'[p] = jobid[p] + 1
    BY <2>1 DEF GetNewJob
  <2>5. Outstanding(p)' <= job.no + 1
    BY <2>1, <2>3, <2>4 DEF IdsOK, Outstanding
  <2>6. (IF conn[p] = "in" THEN extra[p] ELSE 0) \in 0..MaxClients
    BY <2>2, SessionAssumption
  <2>7. \/ conn'[p] = "in" /\ (IF conn[p] = "in" THEN extra[p] ELSE 0) = extra[p] /\ Tell(p)
        \/ conn'[p] = "open" /\ conn[p] = "open" /\ UNCHANGED sent
    BY <2>1, <2>2 DEF Connected
  <2>8. \A q \in Places \ {p} : owed'[q] = owed[q] /\ conn'[q] = conn[q]
    BY <2>1
  <2>9. conn'[p] # "free"
    BY <2>1, <2>2 DEF Connected
  <2> HIDE DEF JobInv, IInv, IdInv, JobType
  <2>10. owed'[p] <= owed[p]
    BY <2>1, <2>3 DEF IInv, JobInv, JobType
  <2>11. QED
    BY <2>1, <2>2, <2>3, <2>5, <2>6, <2>7, <2>8, <2>9, <2>10, TellJob
<1>6. ASSUME NEW p \in Places, Login(p)
      PROVE  JobInv'
  <2>1. /\ conn[p] = "open" /\ conn' = [conn EXCEPT ![p] = "in"] /\ UNCHANGED <<job, extra, owed>>
        /\ GetNewJob(p, extra[p]) /\ Tell(p)
    BY <1>6 DEF Login, LetThrough, Call
  <2>2. p \in Connected /\ extra[p] \in 0..MaxClients
    BY <2>1, SessionAssumption DEF Connected
  <2>3. jobid'[p] = jobid[p] + 1
    BY <2>1 DEF GetNewJob
  <2>4. Outstanding(p)' <= job.no + 1
    BY <2>1, <2>3 DEF IdsOK, Outstanding
  <2>5. conn'[p] = "in" /\ \A q \in Places \ {p} : owed'[q] = owed[q] /\ conn'[q] = conn[q]
    BY <2>1
  <2>6. owed' \in [Places -> Nat] /\ owed'[p] <= owed[p]
    BY <2>1
  <2> HIDE DEF JobInv, IInv, IdInv, JobType
  <2>7. QED
    BY <2>1, <2>2, <2>4, <2>5, <2>6, TellJob
<1>7. ASSUME NEW p \in Places, SlowDown(p) \/ Answered(p) \/ \E id \in Ids : Submit(p, id)
      PROVE  JobInv'
  BY <1>1, <1>7 DEF SlowDown, Answered, Submit, LetThrough, Call
<1>8. ASSUME NEW p \in Places, Malformed(p)
      PROVE  JobInv'
  BY <1>1, <1>8 DEF Malformed, idVars
<1>9. CASE Tick \/ UNCHANGED vars
  BY <1>1, <1>9 DEF Tick, vars, idVars
<1>10. QED
  BY <1>2, <1>3, <1>4, <1>5, <1>6, <1>7, <1>8, <1>9, DestroyFacts DEF Next, Session

-----------------------------------------------------------------------------
(* Verdicts.                                                               *)

LEMMA LastNext == IInv /\ [Next]_vars => LastInv' /\ SlowInv'
<1> SUFFICES ASSUME IInv, [Next]_vars
             PROVE  LastInv' /\ SlowInv'
  OBVIOUS
<1>1. ASSUME last' = Nothing
      PROVE  LastInv' /\ SlowInv'
  BY <1>1 DEF LastInv, SlowInv, Nothing
<1>2. ASSUME NEW p \in Places, SlowDown(p)
      PROVE  LastInv' /\ SlowInv'
  <2>1. last' = [verdict |-> "slow", place |-> p] /\ count'[p] > MaxCalls
    BY <1>2 DEF SlowDown
  <2>2. age'[p] <= Window
    <3>1. Counted(p) /\ age[p] \in 0..(Window + 1) /\ age \in [Places -> 0..(Window + 1)]
      BY <1>2 DEF SlowDown, Call, IInv, FloodInv, FloodType
    <3>2. QED
      BY <3>1, SessionAssumption DEF Counted
  <2>3. QED
    BY <2>1, <2>2 DEF LastInv, SlowInv
<1>3. ASSUME NEW p \in Places, NEW id \in Ids, Submit(p, id)
      PROVE  LastInv' /\ SlowInv'
  <2>1. UNCHANGED <<jobid, cur, extra>>
    BY <1>3 DEF Submit, LetThrough, Call, jobVars
  <2>2. CASE \E j \in Judgements : last' = Share(p, jobid[p], j)
    <3>1. PICK j \in Judgements : last' = Share(p, jobid[p], j)
      BY <2>2
    <3>2. last' = Share(p, jobid[p], j)'
      BY <2>1, <3>1 DEF Share, HashedExtra
    <3>3. last'.verdict \in {"bad", "ok", "block"}
      BY <3>2, <3>1 DEF Share, Judgements, Judge
    <3>4. QED
      BY <3>2, <3>3 DEF LastInv, SlowInv, Judgements, Judge, Worth, HighWord, diff_to_target, work_to_diff, Works
  <2>3. QED
    BY <1>1, <1>3, <2>2 DEF Submit
<1>4. CASE UNCHANGED vars
  BY <1>4 DEF vars, IInv, LastInv, SlowInv, Share, HashedExtra, jobVars, idVars, floodVars
<1>5. CASE \/ \E type \in Types : Publish(type)
           \/ \E p \in Places : \/ Connect(p) \/ Destroy(p) \/ NewBlock(p)
                               \/ Malformed(p) \/ Answered(p) \/ Login(p)
           \/ Tick
  BY <1>1, <1>5 DEF Publish, Connect, Destroy, NewBlock, Malformed, Answered,
                    Login, Tick
<1>6. QED
  BY <1>2, <1>3, <1>4, <1>5 DEF Next, Session, Leave, BadLine

LEMMA NextIInv == IInv /\ [Next]_vars => IInv'
  BY IdNext, JobNext, FloodNext, LastNext DEF IInv

LEMMA Invariance == Spec => []IInv
  BY InitIInv, NextIInv, PTL DEF Spec

\* Every variable keeps its type: job ids and calls stay within the bounds, and a
\* client's extra_nonce is one the counter has given out.
THEOREM SessionTypeCorrect == Spec => []TypeOK
<1>1. IInv => TypeOK
  <2> SUFFICES ASSUME IInv
               PROVE  TypeOK
    OBVIOUS
  <2> USE SessionAssumption
  <2>1. \A p \in Places : owed[p] \in 0..MaxJobs /\ jobid[p] \in Ids
    BY DEF IInv, IdInv, JobInv, JobType, IdsOK, Outstanding, Ids
  <2>2. owed \in [Places -> 0..MaxJobs] /\ jobid \in [Places -> Ids]
    BY <2>1 DEF IInv, JobInv, JobType
  <2>3. FloodType
    BY DEF IInv, FloodInv
  <2>4. \A p \in Connected : extra[p] \in 0..(ctr - 1)
    BY DEF IInv, IdInv, Connected
  <2>5. QED
    BY <2>2, <2>3, <2>4 DEF IInv, IdInv, JobInv, JobType, FloodType, TypeOK, Sent
<1>2. QED
  BY <1>1, Invariance, PTL

\* No two miners that are logged in search the same nonces, however the job they
\* hold has reached them: with the login, or with a new block.
THEOREM SessionDistinctWork == Spec => []DistinctWork
<1>1. IInv => DistinctWork
  BY DEF IInv, IdInv, JobInv, SentOK, DistinctWork, LoggedIn, Connected
<1>2. QED
  BY <1>1, Invariance, PTL

\* A share is judged against the one job its miner was sent under that number, and
\* a block is submitted with the nonce that was hashed.
THEOREM SessionCreditIsForTheJobSent == Spec => []CreditIsForTheJobSent
<1>1. IInv => CreditIsForTheJobSent
  <2> SUFFICES ASSUME IInv, last.verdict \in {"bad", "ok", "block"}, LoggedIn(last.place)
               PROVE  /\ {s \in sent[last.place] : s.id = last.id} =
                             {[id |-> last.id, no |-> last.no, extra |-> last.hashed]}
                      /\ last.nonce = last.hashed
    BY DEF CreditIsForTheJobSent
  <2>1. PICK p \in Places, j \in Judgements : last = Share(p, jobid[p], j)
    BY DEF IInv, LastInv
  <2>2. /\ last.place = p /\ last.id = jobid[p] /\ last.no = cur[p].no
        /\ last.hashed = HashedExtra(p) /\ last.nonce = extra[p]
    BY <2>1 DEF Share
  <2>3. cur[p].extra = extra[p] /\ Current(p) \in sent[p] /\ last.hashed = extra[p]
    BY <2>2 DEF IInv, JobInv, SentOK, LoggedIn, HashedExtra
  <2>4. \A s \in sent[p] : s.id = jobid[p] => s = Current(p)
    BY DEF IInv, JobInv, JobType, SentOK
  <2>5. Current(p) = [id |-> last.id, no |-> last.no, extra |-> last.hashed] /\ Current(p).id = jobid[p]
    BY <2>2, <2>3 DEF Current
  <2>6. {s \in sent[p] : s.id = jobid[p]} = {Current(p)}
    BY <2>3, <2>4, <2>5
  <2>7. QED
    BY <2>2, <2>3, <2>5, <2>6
<1>2. QED
  BY <1>1, Invariance, PTL

-----------------------------------------------------------------------------
(* The worth of a hash.                                                    *)

\* The quotient of natural numbers.
LEMMA Quotient ==
    ASSUME NEW a \in Nat, NEW b \in Nat \ {0}
    PROVE  a \div b \in Nat /\ b * (a \div b) <= a /\ a < b * ((a \div b) + 1)
  OBVIOUS

LEMMA Products ==
    ASSUME NEW a \in Nat, NEW b \in Nat, NEW c \in Nat \ {0}
    PROVE  c * a \in Nat /\ (c * a < c * b <=> a < b) /\ (c * a <= c * b <=> a <= b)
  OBVIOUS

\* The target word is just below the quotient of Word by fix_diff.
LEMMA Target ==
    \E k \in Nat \ {0} : Word = FixDiff * k /\ diff_to_target(FixDiff) = k - 1
<1> DEFINE k == Word \div FixDiff
           t == diff_to_target(FixDiff)
<1> USE SessionAssumption
<1>1. k \in Nat /\ Word = FixDiff * k
  OBVIOUS
<1>2. k # 0
  BY <1>1
<1>3. t \in Nat /\ FixDiff * t <= Word - 1 /\ Word - 1 < FixDiff * (t + 1)
  BY Word - 1 \in Nat, Quotient DEF diff_to_target
<1> HIDE DEF k, t
<1>4. t < k
  BY <1>1, <1>3, Products
<1>5. FixDiff * k <= FixDiff * (t + 1)
  BY <1>1, <1>3, t + 1 \in Nat, Products
<1>6. k <= t + 1
  BY <1>1, <1>3, <1>5, t + 1 \in Nat, Products
<1>7. t = k - 1
  BY <1>1, <1>3, <1>4, <1>6
<1>8. QED
  BY <1>1, <1>2, <1>7 DEF t

\* The two comparisons agree with the worth of the hash.
LEMMA JudgeIsWorth ==
    ASSUME NEW work \in Works
    PROVE  /\ Judge(work) = "bad" => Worth(work) = "nothing"
           /\ Judge(work) = "ok" => Worth(work) = "share"
           /\ Judge(work) = "block" => Worth(work) = "block"
<1> DEFINE hi == HighWord(work)
           full == Word * Word
<1> USE SessionAssumption
<1>1. PICK k \in Nat \ {0} : Word = FixDiff * k /\ diff_to_target(FixDiff) = k - 1
  BY Target
<1>2. full \in Nat /\ full > Word /\ full = FixDiff * (k * Word) /\ k * Word \in Nat
  <2>1. Word * 1 < Word * Word
    BY Products
  <2>2. QED
    BY <1>1, <2>1
<1>3. work \in Nat /\ work < full
  BY <1>2 DEF Works
<1>4. hi \in Nat /\ Word * hi <= work /\ work < Word * (hi + 1)
  BY <1>3, Quotient DEF HighWord
<1> HIDE DEF hi, full
<1>5. work * FixDiff \in Nat /\ work * (FixDiff + 1) = work * FixDiff + work
  BY <1>3
\* The comparison of words is the test for a share ...
<1>6. ASSUME hi > k - 1
      PROVE  work * FixDiff >= full
  <2>1. Word * k <= Word * hi
    BY <1>4, <1>6, Products
  <2>2. k * Word <= work
    BY <1>3, <1>4, <2>1
  <2>3. FixDiff * (k * Word) <= FixDiff * work
    BY <1>2, <1>3, <2>2, Products
  <2>4. QED
    BY <1>2, <1>3, <2>3
<1>7. ASSUME ~(hi > k - 1)
      PROVE  work * FixDiff < full
  <2>1. Word * (hi + 1) <= Word * k
    BY <1>4, <1>7, hi + 1 \in Nat, Products
  <2>2. work < k * Word
    BY <1>3, <1>4, <2>1
  <2>3. FixDiff * work < FixDiff * (k * Word)
    BY <1>2, <1>3, <2>2, Products
  <2>4. QED
    BY <1>2, <1>3, <2>3
\* ... and the quotient is the test for a block.
<1>8. work_to_diff(work) > FixDiff <=> work * (FixDiff + 1) < full
  <2>1. CASE work = 0
    <3>1. FixDiff <= Word
      <4>1. FixDiff * 1 <= FixDiff * k
        BY <1>1, Products
      <4>2. QED
        BY <1>1, <4>1
    <3>2. Word < full - 1
      <4>1. Word * 2 <= Word * Word
        BY Products
      <4>2. QED
        BY <4>1 DEF full
    <3>3. QED
      BY <1>2, <1>5, <2>1, <3>1, <3>2 DEF work_to_diff, full
  <2>2. CASE work # 0
    <3> DEFINE q == work_to_diff(work)
    <3>1. q \in Nat /\ work * q <= full - 1 /\ full - 1 < work * (q + 1)
      BY <1>2, <1>3, <2>2, full - 1 \in Nat, Quotient DEF work_to_diff, full
    <3> HIDE DEF q
    <3>2. ASSUME q > FixDiff
          PROVE  work * (FixDiff + 1) < full
      <4>1. work * (FixDiff + 1) <= work * q
        BY <1>3, <2>2, <3>1, <3>2, FixDiff + 1 \in Nat, Products
      <4>2. QED
        BY <1>2, <1>3, <1>5, <3>1, <4>1
    <3>3. ASSUME ~(q > FixDiff)
          PROVE  ~(work * (FixDiff + 1) < full)
      <4>1. work * (q + 1) <= work * (FixDiff + 1)
        BY <1>3, <2>2, <3>1, <3>3, FixDiff + 1 \in Nat, q + 1 \in Nat, Products
      <4>2. QED
        BY <1>2, <1>3, <1>5, <3>1, <4>1
    <3>4. QED
      BY <3>2, <3>3 DEF q
  <2>3. QED
    BY <2>1, <2>2
<1>9. QED
  BY <1>1, <1>2, <1>3, <1>5, <1>6, <1>7, <1>8 DEF Judge, Worth, hi, full

\* No block is refused as a bad share, no share is taken for less than it is worth
\* and none for more: with any word and any fix_diff that divides it.
THEOREM SessionJudgedByWorth == Spec => []JudgedByWorth
<1>1. IInv => JudgedByWorth
  <2> SUFFICES ASSUME IInv, last.verdict \in {"bad", "ok", "block"}
               PROVE  JudgedByWorth
    BY DEF JudgedByWorth
  <2>1. PICK p \in Places, j \in Judgements : last = Share(p, jobid[p], j)
    BY DEF IInv, LastInv
  <2>2. PICK work \in Works : j = [verdict |-> Judge(work), worth |-> Worth(work)]
    BY DEF Judgements
  <2>3. last.verdict = Judge(work) /\ last.worth = Worth(work)
    BY <2>1, <2>2 DEF Share
  <2>4. QED
    BY <2>3, JudgeIsWorth DEF JudgedByWorth
<1>2. QED
  BY <1>1, Invariance, PTL

-----------------------------------------------------------------------------
(* The limit on calls.                                                     *)

\* In any span of a minute's length a client gets two minutes' calls at the most:
\* the counter's minutes are the client's own, one after the other with gaps.
THEOREM SessionCallsAreLimited == Spec => []CallsAreLimited
<1>1. IInv => CallsAreLimited
  <2> SUFFICES ASSUME IInv, NEW p \in Places
               PROVE  Cardinality(Served(calls[p], Window)) <= 2 * MaxCalls
    BY DEF CallsAreLimited
  <2> DEFINE c == calls[p]
             all == Served(c, Window)
             now == Served(c, age[p])
  <2>1. c \in Seq(Calls) /\ age[p] \in 0..(Window + 1) /\ Minute(c, age[p], count[p])
    BY DEF IInv, FloodInv, FloodType
  <2> HIDE DEF c
  <2>2. IsFiniteSet(all) /\ Cardinality(all) \in Nat /\ IsFiniteSet(now) /\ Cardinality(now) \in Nat
    BY <2>1, CallSets
  <2>3. CASE age[p] > Window
    BY <2>1, <2>2, <2>3, SessionAssumption DEF Minute, c
  <2>4. CASE age[p] <= Window
    <3>1. Cardinality(now) <= MaxCalls /\ Cardinality(all \ now) <= MaxCalls
      BY <2>1, <2>4 DEF Minute
    <3>2. IsFiniteSet(all \ now) /\ Cardinality(all \ now) \in Nat
      BY <2>2, FS_Difference, FS_CardinalityType
    <3> HIDE DEF all, now
    <3>3. Cardinality((all \ now) \cup now) <= Cardinality(all \ now) + Cardinality(now)
      <4>1. /\ Cardinality((all \ now) \cup now)
                  = Cardinality(all \ now) + Cardinality(now) - Cardinality((all \ now) \cap now)
        BY <2>2, <3>2, FS_Union
      <4>2. (all \ now) \cap now = {} /\ Cardinality({}) = 0
        BY FS_EmptySet
      <4>3. Cardinality((all \ now) \cap now) = 0
        BY <4>2
      <4>4. QED
        BY <2>2, <3>2, <4>1, <4>3
    <3>4. /\ Cardinality(all) <= Cardinality((all \ now) \cup now)
          /\ Cardinality((all \ now) \cup now) \in Nat
      BY <2>2, <3>2, FS_Union, FS_Subset, FS_CardinalityType, all \subseteq (all \ now) \cup now
    <3>5. QED
      BY <2>2, <3>1, <3>2, <3>3, <3>4, SessionAssumption DEF all, c
  <2>5. QED
    BY <2>1, <2>3, <2>4, SessionAssumption
<1>2. QED
  BY <1>1, Invariance, PTL

\* And nobody is told to slow down who has not called too often within the last
\* minute, whenever the counter's minute began.
THEOREM SessionOnlyTheFastSlowDown == Spec => []OnlyTheFastSlowDown
<1>1. IInv => OnlyTheFastSlowDown
  <2> SUFFICES ASSUME IInv, last.verdict = "slow"
               PROVE  Cardinality(Within(calls[last.place], Window)) > MaxCalls
    BY DEF OnlyTheFastSlowDown
  <2> DEFINE p == last.place
             c == calls[p]
  <2>1. p \in Places /\ age[p] <= Window /\ count[p] > MaxCalls
    BY DEF IInv, SlowInv
  <2>2. c \in Seq(Calls) /\ age[p] \in 0..(Window + 1) /\ count[p] \in 0..(MaxCalls + 1)
        /\ Cardinality(Within(c, age[p])) >= count[p]
    BY <2>1 DEF IInv, FloodInv, FloodType, Minute
  <2> HIDE DEF c, p
  <2>3. Within(c, age[p]) \subseteq Within(c, Window)
    <3>1. \A x \in Calls : x.ago \in Int
      BY SessionAssumption DEF Calls
    <3>2. \A i \in DOMAIN c : c[i].ago \in Int
      BY <2>2, <3>1
    <3>3. QED
      BY <2>1, <2>2, <3>2, SessionAssumption DEF Within
  <2>4. /\ Cardinality(Within(c, age[p])) <= Cardinality(Within(c, Window))
        /\ Cardinality(Within(c, age[p])) \in Nat /\ Cardinality(Within(c, Window)) \in Nat
    BY <2>2, <2>3, CallSets, FS_Subset
  <2>5. QED
    BY <2>1, <2>2, <2>4, SessionAssumption DEF c, p
<1>2. QED
  BY <1>1, Invariance, PTL
=============================================================================
