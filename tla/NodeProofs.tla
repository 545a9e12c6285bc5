----------------------------- MODULE NodeProofs -----------------------------
(***************************************************************************)
(* The node connection: a client that copies the current job has a grace   *)
(* of KeepJobs entries and copies a complete job; a silent node does not   *)
(* end the process; and, with two slots or more in each hash pool, a job   *)
(* is published with its datasets loaded and keeps them.                   *)
(***************************************************************************)
EXTENDS Node, TLAPS

\* The node thread is inside json_proc_msg with an entry of the list in hand.
Working == npc \in {"epochs", "notify"}

LinkType ==
    /\ npc \in {"connect", "recv", "epochs", "notify", "pop", "close", "exit"}
    /\ asked \subseteq {"login", "template"} /\ mute \in BOOLEAN
    /\ since \in Elapsed /\ chatter \in BOOLEAN /\ faults \in 0..MaxFaults

ListType ==
    /\ jobs \in Seq({"raw", "full"}) /\ current \in 0..Len(jobs) /\ height \in 0..MaxHeight
    /\ reading \subseteq Readers
    /\ ptr \in [Readers -> 0..Len(jobs)] /\ late \in [Readers -> 0..KeepJobs]

MessageType ==
    /\ msg \in Message /\ top \in 0..MaxHeight
    /\ todo \in Seq(Int) /\ strayed \in BOOLEAN /\ rx \in Seq(Nat) /\ pp \in Seq(Nat)
    /\ Len(rx) <= NSlots /\ Len(pp) <= NSlots
    /\ Working => msg.height \in Heights
    /\ npc = "notify" => todo \in Seq(Nat)

\* What is published or being copied is complete, and a client's pointer is lost
\* when KeepJobs newer entries have been made, not before.
WindowOK ==
    /\ Working => jobs # << >>
    /\ current # 0 => jobs[current] = "full"
    /\ \A r \in reading : \/ ptr[r] = 0 /\ late[r] = KeepJobs
                          \/ ptr[r] # 0 /\ late[r] = Capped(Len(jobs) - ptr[r]) /\ jobs[ptr[r]] = "full"

\* Without other messages the clock does not pass the template timeout.
SilenceOK ==
    TemplateTimeout < FatalTimeout =>
        (chatter \/ since <= TemplateTimeout) /\ (npc = "exit" => chatter)

\* The slots hold rising epochs up to the one after e, and e too if they hold that.
Rising(slots, e) ==
    /\ \A i, j \in DOMAIN slots : i < j => slots[i] < slots[j]
    /\ \A i \in DOMAIN slots : slots[i] <= e + 1
    /\ InSeq(e + 1, slots) => InSeq(e, slots)

\* What is still to be loaded is e or the one after it, and e first.
InOrder(slots, e) ==
    /\ \A i \in DOMAIN todo : todo[i] \in {e, e + 1}
    /\ todo # << >> /\ todo[1] # e => InSeq(e, slots)

\* No message has strayed: the epochs of the message are the greatest so far.
EpochInv ==
    ~strayed =>
        /\ Rising(rx, RxOf(top)) /\ Rising(pp, PpOf(top))
        /\ Working => RxOf(msg.height) = RxOf(top) /\ PpOf(msg.height) = PpOf(top)
        /\ npc = "epochs" =>
              /\ todo # << >> /\ todo[1] >= RxOf(top) => InOrder(rx, RxOf(top))
              /\ todo = << >> /\ InSeq(RxOf(top), msg.epochs) => InSeq(RxOf(top), rx)
        /\ npc = "notify" =>
              /\ InSeq(RxOf(top), rx)
              /\ InOrder(pp, PpOf(top)) /\ (todo = << >> => InSeq(PpOf(top), pp))

IInv == LinkType /\ ListType /\ MessageType /\ WindowOK /\ SilenceOK /\ (NSlots >= 2 => EpochInv)

LEMMA InitIInv == Init => IInv
<1> SUFFICES ASSUME Init
             PROVE  IInv
  OBVIOUS
<1> USE NodeAssumption DEF Init
<1>1. LinkType
  <2>1. 0 \in Elapsed /\ 0 \in 0..MaxFaults
    BY DEF Elapsed
  <2> HIDE NodeAssumption
  <2>2. QED
    BY <2>1 DEF LinkType
<1>2. SilenceOK
  BY DEF SilenceOK
<1>3. ListType /\ WindowOK
  BY DEF ListType, WindowOK, Working
<1>4. MessageType
  <2>1. 0 \in 0..MaxHeight /\ msg \in Message
    BY DEF Message, Quiet
  <2>2. << >> \in Seq(Int) /\ << >> \in Seq(Nat) /\ Len(<< >>) <= NSlots
    OBVIOUS
  <2>3. ~Working /\ npc # "notify"
    BY DEF Working
  <2>4. QED
    BY <2>1, <2>2, <2>3 DEF MessageType
<1>5. EpochInv
  BY DEF EpochInv, Rising, InSeq, Working
<1>6. QED
  BY <1>1, <1>2, <1>3, <1>4, <1>5 DEF IInv

-----------------------------------------------------------------------------
(* The steps, by what they write.                                          *)

\* The connection, and the messages without a job.
LinkStep ==
    \/ Connect \/ RecvTimeout \/ FallSilent \/ Broken \/ GivenUp \/ Close
    \/ LoginOk \/ ErrorReply \/ ZeroHeight \/ Chat \/ Garbage

LEMMA LinkFrame ==
    ASSUME LinkStep
    PROVE  /\ UNCHANGED <<jobVars, msg, top, todo, strayed, rx, pp, readVars>>
           /\ ~Working /\ ~Working' /\ npc # "pop" /\ npc' # "pop"
<1> USE DEF Working
<1>1. CASE Connect \/ FallSilent \/ Broken \/ GivenUp \/ Close
  BY <1>1 DEF Connect, FallSilent, Broken, GivenUp, Close
<1>2. CASE RecvTimeout
  BY <1>2 DEF RecvTimeout
<1>3. CASE LoginOk \/ ErrorReply \/ ZeroHeight \/ Chat \/ Garbage
  BY <1>3 DEF LoginOk, ErrorReply, ZeroHeight, Chat, Garbage, Reply
<1>4. QED
  BY <1>1, <1>2, <1>3 DEF LinkStep

\* A job of the node: its height, and the ways its epochs may be listed.
LEMMA JobFacts ==
    ASSUME NEW h \in Heights, NEW m \in Proper(h) \cup Flawed(h)
    PROVE  /\ m \in Message /\ m.height = h
           /\ m.epochs \in {<< >>, <<RxOf(h)>>, <<RxOf(h), RxOf(h) + 1>>, <<RxOf(h) - 1, RxOf(h)>>,
                            <<RxOf(h) + 1>>}
<1>1. RxOf(h) \in Int /\ h \in 0..MaxHeight
  BY NodeAssumption DEF RxOf, Heights
<1>2. ASSUME NEW e \in Int
      PROVE  {<< >>, <<e>>, <<e, e + 1>>, <<e - 1, e>>, <<e + 1>>} \subseteq Seq(Int)
  OBVIOUS
<1>3. /\ m.height = h /\ m.flaw \in {"none", "algo", "diff", "prepow"}
      /\ m = [height |-> m.height, epochs |-> m.epochs, flaw |-> m.flaw]
      /\ m.epochs \in {<< >>, <<RxOf(h)>>, <<RxOf(h), RxOf(h) + 1>>, <<RxOf(h) - 1, RxOf(h)>>,
                       <<RxOf(h) + 1>>}
  BY DEF Proper, Flawed
<1>4. QED
  BY <1>1, <1>2, <1>3 DEF Message

JobStep == \E h \in Heights : \E m \in Proper(h) \cup Flawed(h) : ReceiveJob(m)

WorkStep == LoadSeed \/ EpochsDone \/ NotifyEpoch \/ Publish \/ PopFront

ReadStep == \E r \in Readers : LoadPointer(r) \/ CopyJob(r)

\* These are all.
LEMMA Steps == Next => LinkStep \/ JobStep \/ WorkStep \/ ReadStep
  BY DEF Next, NodeThread, LinkStep, JobStep, WorkStep, ReadStep, ProperJob, FlawedJob

-----------------------------------------------------------------------------
(* The clock.                                                              *)

LEMMA LinkTypeNext ==
    ASSUME LinkType, [Next]_vars
    PROVE  LinkType'
<1> USE NodeAssumption DEF LinkType
<1>0. since \in Nat /\ 0 \in Elapsed /\ Later \in Elapsed
  BY DEF Later, Elapsed
<1>1. ASSUME Fault
      PROVE  faults' \in 0..MaxFaults
  BY <1>1 DEF Fault
<1>2. CASE RecvTimeout
  BY <1>0, <1>2 DEF RecvTimeout
<1>3. CASE Connect \/ Close
  BY <1>0, <1>1, <1>3 DEF Connect, Close
<1>4. CASE FallSilent \/ Broken \/ GivenUp
  BY <1>1, <1>4 DEF FallSilent, Broken, GivenUp, linkVars
<1>5. CASE LoginOk \/ ErrorReply \/ ZeroHeight \/ Garbage
  BY <1>1, <1>5 DEF LoginOk, ErrorReply, ZeroHeight, Garbage, Reply, linkVars
<1>6. CASE Chat
  BY <1>0, <1>6 DEF Chat, Reply
<1>7. ASSUME NEW m, ReceiveJob(m), UNCHANGED faults \/ Fault
      PROVE  LinkType'
  BY <1>1, <1>7 DEF ReceiveJob, Enter, Reply
<1>8. CASE LoadSeed \/ EpochsDone \/ NotifyEpoch \/ PopFront
  BY <1>8 DEF LoadSeed, EpochsDone, NotifyEpoch, PopFront, Reject, linkVars
<1>9. CASE Publish
  BY <1>0, <1>9 DEF Publish, Reject
<1>10. CASE ReadStep
  <2>1. UNCHANGED <<npc, linkVars, faults>>
    BY <1>10 DEF ReadStep, LoadPointer, CopyJob
  <2>2. QED
    BY <2>1 DEF linkVars
<1>11. CASE UNCHANGED vars
  BY <1>11 DEF vars, linkVars
<1>12. QED
  BY <1>2, <1>3, <1>4, <1>5, <1>6, <1>7, <1>8, <1>9, <1>10, <1>11
  DEF Next, NodeThread, ProperJob, FlawedJob, ReadStep

LEMMA SilenceNext ==
    ASSUME LinkType, SilenceOK, [Next]_vars
    PROVE  SilenceOK'
<1> SUFFICES ASSUME TemplateTimeout < FatalTimeout
             PROVE  (chatter' \/ since' <= TemplateTimeout) /\ (npc' = "exit" => chatter')
  BY DEF SilenceOK
<1>0. /\ since \in Nat /\ chatter \in BOOLEAN
      /\ chatter \/ since <= TemplateTimeout
      /\ npc = "exit" => chatter
  BY DEF LinkType, SilenceOK, Elapsed
<1> USE NodeAssumption
<1>1. ASSUME UNCHANGED <<since, chatter>>, npc' = npc \/ npc' # "exit"
      PROVE  (chatter' \/ since' <= TemplateTimeout) /\ (npc' = "exit" => chatter')
  BY <1>0, <1>1
<1>2. CASE RecvTimeout
  <2>1. CASE Later > FatalTimeout /\ npc' = "exit" /\ UNCHANGED chatter
    <3>1. chatter
      BY <1>0, <2>1 DEF Later
    <3>2. QED
      BY <2>1, <3>1
  <2>2. CASE since' = 0 /\ npc' = npc /\ npc = "recv"
    BY <2>2
  <2>3. CASE Later <= TemplateTimeout /\ since' = Later /\ npc' = npc /\ npc = "recv"
    BY <2>3
  <2>4. QED
    BY <1>2, <2>1, <2>2, <2>3 DEF RecvTimeout
<1>3. CASE Connect
  BY <1>3 DEF Connect
<1>4. CASE FallSilent \/ Broken \/ GivenUp \/ Close
  BY <1>1, <1>4 DEF FallSilent, Broken, GivenUp, Close, linkVars
<1>5. CASE LoginOk \/ ErrorReply \/ ZeroHeight \/ Garbage
  BY <1>1, <1>5 DEF LoginOk, ErrorReply, ZeroHeight, Garbage, linkVars
<1>6. CASE Chat
  BY <1>6 DEF Chat
<1>7. CASE JobStep
  BY <1>1, <1>7 DEF JobStep, ReceiveJob, Enter
<1>8. CASE LoadSeed \/ EpochsDone \/ NotifyEpoch \/ PopFront
  BY <1>1, <1>8 DEF LoadSeed, EpochsDone, NotifyEpoch, PopFront, Reject, linkVars
<1>9. CASE Publish
  <2>1. \/ UNCHANGED <<since, chatter>> /\ npc' = "close"
        \/ since' = 0 /\ npc' = "pop"
    BY <1>9 DEF Publish, Reject
  <2>2. QED
    BY <1>1, <2>1
<1>10. CASE ReadStep
  BY <1>1, <1>10 DEF ReadStep, LoadPointer, CopyJob, linkVars
<1>11. CASE UNCHANGED vars
  BY <1>1, <1>11 DEF vars, linkVars
<1>12. QED
  BY <1>2, <1>3, <1>4, <1>5, <1>6, <1>7, <1>8, <1>9, <1>10, <1>11, Steps DEF LinkStep, WorkStep

-----------------------------------------------------------------------------
(* The list and the pointers into it.                                      *)

LEMMA CappedType ==
    \A n \in Nat : /\ Capped(n) \in 0..KeepJobs
                   /\ Capped(Capped(n) + 1) = Capped(n + 1)
                   /\ (n >= KeepJobs => Capped(n) = KeepJobs)
<1> TAKE n \in Nat
<1>0. KeepJobs \in Nat /\ KeepJobs >= 1
  BY NodeAssumption
<1>1. CASE n < KeepJobs
  BY <1>0, <1>1 DEF Capped
<1>2. CASE n >= KeepJobs
  <2>1. Capped(n) = KeepJobs
    BY <1>0, <1>2 DEF Capped
  <2>2. Capped(KeepJobs + 1) = KeepJobs
    BY <1>0 DEF Capped
  <2>3. Capped(n + 1) = KeepJobs
    BY <1>0, <1>2 DEF Capped
  <2>4. Capped(Capped(n) + 1) = KeepJobs
    BY <2>1, <2>2, Zenon
  <2>5. KeepJobs \in 0..KeepJobs
    BY <1>0
  <2>6. QED
    BY <2>1, <2>3, <2>4, <2>5
<1>3. QED
  BY <1>0, <1>1, <1>2

\* A step that leaves the list and the clients alone.
LEMMA ListFrame ==
    ASSUME ListType, WindowOK, UNCHANGED <<jobVars, readVars>>, Working' => Working
    PROVE  ListType' /\ WindowOK'
  BY DEF ListType, WindowOK, jobVars, readVars, Capped

\* A new entry, and one more that is newer than what is being copied.
LEMMA ListAppend ==
    ASSUME ListType, WindowOK, jobs' = Append(jobs, "raw"), OvertakeReaders,
           UNCHANGED <<current, height, reading, ptr>>
    PROVE  ListType' /\ WindowOK'
<1> USE DEF ListType
<1>1. /\ jobs' \in Seq({"raw", "full"}) /\ Len(jobs') = Len(jobs) + 1 /\ jobs' # << >>
      /\ \A i \in 1..Len(jobs) : jobs'[i] = jobs[i]
  OBVIOUS
<1>2. current' \in 0..Len(jobs') /\ ptr' \in [Readers -> 0..Len(jobs')]
  BY <1>1
<1>3. late' \in [Readers -> 0..KeepJobs]
  <2>1. \A r \in Readers : late[r] + 1 \in Nat
    BY NodeAssumption
  <2>2. \A r \in Readers : Capped(late[r] + 1) \in 0..KeepJobs
    BY <2>1, CappedType
  <2>3. 0 \in 0..KeepJobs
    BY NodeAssumption
  <2>4. QED
    BY <2>2, <2>3 DEF OvertakeReaders
<1>4. current' # 0 => jobs'[current'] = "full"
  BY <1>1 DEF WindowOK
<1>5. ASSUME NEW r \in reading'
      PROVE  \/ ptr'[r] = 0 /\ late'[r] = KeepJobs
             \/ ptr'[r] # 0 /\ late'[r] = Capped(Len(jobs') - ptr'[r]) /\ jobs'[ptr'[r]] = "full"
  <2>1. r \in Readers /\ r \in reading /\ late'[r] = Capped(late[r] + 1) /\ ptr'[r] = ptr[r]
    BY <1>5 DEF OvertakeReaders
  <2>2. CASE ptr[r] = 0
    <3>1. late[r] = KeepJobs
      BY <2>1, <2>2 DEF WindowOK
    <3>2. Capped(KeepJobs + 1) = KeepJobs
      BY NodeAssumption DEF Capped
    <3>3. QED
      BY <2>1, <2>2, <3>1, <3>2
  <2>3. CASE ptr[r] # 0
    <3>1. ptr[r] \in 1..Len(jobs) /\ Len(jobs) \in Nat
      BY <2>1, <2>3
    <3>2. late[r] = Capped(Len(jobs) - ptr[r]) /\ jobs[ptr[r]] = "full"
      BY <2>1, <2>3 DEF WindowOK
    <3>3. Len(jobs) - ptr[r] \in Nat /\ (Len(jobs) - ptr[r]) + 1 = Len(jobs') - ptr[r]
      BY <1>1, <3>1
    <3>4. Capped(late[r] + 1) = Capped(Len(jobs') - ptr[r])
      BY <3>2, <3>3, CappedType
    <3>5. QED
      BY <1>1, <2>1, <2>3, <3>1, <3>2, <3>4
  <2>4. QED
    BY <2>2, <2>3
<1>6. QED
  BY <1>1, <1>2, <1>3, <1>4, <1>5 DEF WindowOK

\* The last entry is filled in and becomes the current job.
LEMMA ListPublish ==
    ASSUME ListType, WindowOK, Working, ~Working',
           jobs' = [jobs EXCEPT ![Len(jobs)] = "full"], current' = Len(jobs),
           height' \in 0..MaxHeight, UNCHANGED readVars
    PROVE  ListType' /\ WindowOK'
<1> USE DEF ListType
<1>1. Len(jobs) \in 1..Len(jobs)
  BY DEF WindowOK
<1>2. /\ jobs' \in Seq({"raw", "full"}) /\ Len(jobs') = Len(jobs)
      /\ \A i \in 1..Len(jobs) : jobs[i] = "full" \/ i = Len(jobs) => jobs'[i] = "full"
  BY <1>1
<1>3. ListType'
  BY <1>1, <1>2 DEF readVars
<1>4. ASSUME NEW r \in reading'
      PROVE  \/ ptr'[r] = 0 /\ late'[r] = KeepJobs
             \/ ptr'[r] # 0 /\ late'[r] = Capped(Len(jobs') - ptr'[r]) /\ jobs'[ptr'[r]] = "full"
  <2>1. r \in reading /\ ptr[r] \in 0..Len(jobs) /\ ptr' = ptr /\ late' = late
    BY DEF readVars
  <2>2. QED
    BY <1>2, <2>1 DEF WindowOK
<1>5. QED
  BY <1>1, <1>2, <1>3, <1>4 DEF WindowOK

\* The oldest entries leave a list that is longer than KeepJobs.
LEMMA ListPop ==
    ASSUME ListType, WindowOK, NEW n \in {0, 1}, n = 1 => Len(jobs) > KeepJobs, Free(n),
           UNCHANGED <<height, reading, late>>, ~Working'
    PROVE  ListType' /\ WindowOK'
<1> DEFINE Shift(p) == IF p > n THEN p - n ELSE 0
<1> USE DEF ListType
<1>0. KeepJobs \in Nat /\ KeepJobs >= 1 /\ Len(jobs) \in Nat /\ n <= Len(jobs)
  BY NodeAssumption
<1>1. /\ jobs' = SubSeq(jobs, n + 1, Len(jobs)) /\ current' = Shift(current)
      /\ ptr' = [r \in Readers |-> Shift(ptr[r])]
  BY DEF Free
<1>2. /\ jobs' \in Seq({"raw", "full"}) /\ Len(jobs') = Len(jobs) - n
      /\ \A i \in 1..Len(jobs) : i > n => jobs'[i - n] = jobs[i]
  BY <1>0, <1>1
<1>3. \A p \in 0..Len(jobs) : Shift(p) \in 0..Len(jobs')
  BY <1>0, <1>2
<1>4. ListType'
  BY <1>1, <1>2, <1>3
<1>5. current' # 0 => jobs'[current'] = "full"
  BY <1>0, <1>1, <1>2 DEF WindowOK
<1>6. ASSUME NEW r \in reading'
      PROVE  \/ ptr'[r] = 0 /\ late'[r] = KeepJobs
             \/ ptr'[r] # 0 /\ late'[r] = Capped(Len(jobs') - ptr'[r]) /\ jobs'[ptr'[r]] = "full"
  <2>1. r \in reading /\ ptr[r] \in 0..Len(jobs) /\ ptr'[r] = Shift(ptr[r]) /\ late'[r] = late[r]
    BY <1>1
  <2>2. CASE ptr[r] = 0
    BY <2>1, <2>2 DEF WindowOK
  <2>3. CASE ptr[r] # 0 /\ ptr[r] <= n
    <3>1. ptr'[r] = 0 /\ late[r] = Capped(Len(jobs) - ptr[r])
      BY <2>1, <2>3 DEF WindowOK
    <3>2. Len(jobs) - ptr[r] \in Nat /\ Len(jobs) - ptr[r] >= KeepJobs
      BY <1>0, <2>1, <2>3
    <3>3. QED
      BY <2>1, <3>1, <3>2, CappedType
  <2>4. CASE ptr[r] > n
    <3>1. /\ late[r] = Capped(Len(jobs) - ptr[r]) /\ jobs[ptr[r]] = "full"
          /\ ptr'[r] = ptr[r] - n /\ ptr'[r] # 0
      BY <1>0, <2>1, <2>4 DEF WindowOK
    <3>2. Len(jobs') - ptr'[r] = Len(jobs) - ptr[r]
      BY <1>0, <1>2, <2>1, <3>1
    <3>3. jobs'[ptr'[r]] = "full"
      BY <1>2, <2>1, <2>4, <3>1
    <3>4. QED
      BY <2>1, <3>1, <3>2, <3>3
  <2>5. QED
    BY <1>0, <2>1, <2>2, <2>3, <2>4
<1>7. QED
  BY <1>4, <1>5, <1>6 DEF WindowOK

LEMMA ListRead ==
    ASSUME ListType, WindowOK, NEW r \in Readers, LoadPointer(r) \/ CopyJob(r)
    PROVE  ListType' /\ WindowOK'
<1> USE DEF ListType
<1>1. UNCHANGED <<npc, jobs, current, height>>
  BY DEF LoadPointer, CopyJob, jobVars
<1>2. CASE LoadPointer(r)
  <2>1. /\ current # 0 /\ reading' = reading \cup {r}
        /\ ptr' = [ptr EXCEPT ![r] = current]
        /\ late' = [late EXCEPT ![r] = Capped(Len(jobs) - current)]
    BY <1>2 DEF LoadPointer
  <2>2. Len(jobs) - current \in Nat /\ jobs[current] = "full"
    BY <2>1 DEF WindowOK
  <2>3. Capped(Len(jobs) - current) \in 0..KeepJobs
    BY <2>2, CappedType
  <2>4. ListType'
    BY <1>1, <2>1, <2>3
  <2>5. \A q \in reading : q # r => ptr'[q] = ptr[q] /\ late'[q] = late[q]
    BY <2>1
  <2>6. ptr'[r] = current /\ late'[r] = Capped(Len(jobs) - current)
    BY <2>1
  <2>7. QED
    BY <1>1, <2>1, <2>2, <2>4, <2>5, <2>6 DEF WindowOK, Working, Capped
<1>3. CASE CopyJob(r)
  <2>1. /\ reading' = reading \ {r}
        /\ ptr' = [ptr EXCEPT ![r] = 0] /\ late' = [late EXCEPT ![r] = 0]
    BY <1>3 DEF CopyJob
  <2>2. ListType'
    BY <1>1, <2>1, NodeAssumption
  <2>3. \A q \in reading' : q \in reading /\ ptr'[q] = ptr[q] /\ late'[q] = late[q]
    BY <2>1
  <2>4. QED
    BY <1>1, <2>2, <2>3 DEF WindowOK, Working, Capped
<1>4. QED
  BY <1>2, <1>3

LEMMA ListNext ==
    ASSUME ListType, MessageType, WindowOK, [Next]_vars
    PROVE  ListType' /\ WindowOK'
<1>1. CASE LinkStep
  BY <1>1, LinkFrame, ListFrame
<1>2. CASE JobStep
  <2>1. PICK h \in Heights : \E m \in Proper(h) \cup Flawed(h) : ReceiveJob(m)
    BY <1>2 DEF JobStep
  <2>2. PICK m \in Proper(h) \cup Flawed(h) : ReceiveJob(m)
    BY <2>1
  <2>3. \/ UNCHANGED <<jobs, late>> /\ npc' = "close"
        \/ jobs' = Append(jobs, "raw") /\ OvertakeReaders
    BY <2>2 DEF ReceiveJob, Enter
  <2>4. UNCHANGED <<current, height, reading, ptr>>
    BY <2>2 DEF ReceiveJob
  <2>5. QED
    BY <2>3, <2>4, ListFrame, ListAppend DEF jobVars, readVars, Working
<1>3. CASE LoadSeed \/ EpochsDone \/ NotifyEpoch
  BY <1>3, ListFrame DEF LoadSeed, EpochsDone, NotifyEpoch, Reject, Working
<1>4. CASE Publish
  <2>1. Working /\ msg.height \in Heights /\ ~Working' /\ UNCHANGED readVars
    BY <1>4 DEF Publish, Reject, Working, MessageType
  <2>2. \/ UNCHANGED jobVars
        \/ jobs' = [jobs EXCEPT ![Len(jobs)] = "full"] /\ current' = Len(jobs) /\ height' = msg.height
    BY <1>4 DEF Publish, Reject
  <2>3. msg.height \in 0..MaxHeight
    BY <2>1 DEF Heights
  <2>4. QED
    BY <2>1, <2>2, <2>3, ListFrame, ListPublish
<1>5. CASE PopFront
  <2>1. PICK n \in {0, 1} : n = (IF Len(jobs) > KeepJobs THEN 1 ELSE 0)
    OBVIOUS
  <2>2. Free(n) /\ UNCHANGED <<height, reading, late>> /\ ~Working'
    BY <1>5, <2>1 DEF PopFront, Working
  <2>3. QED
    BY <2>1, <2>2, ListPop
<1>6. CASE ReadStep
  BY <1>6, ListRead DEF ReadStep
<1>7. CASE UNCHANGED vars
  BY <1>7, ListFrame DEF vars, Working
<1>8. QED
  BY <1>1, <1>2, <1>3, <1>4, <1>5, <1>6, <1>7, Steps DEF WorkStep

-----------------------------------------------------------------------------
(* The message, and the slots of the hash pools.                           *)

\* Epochs only grow with the height, and a block of the chain has one.
LEMMA Epochs ==
    /\ \A h \in Nat : RxOf(h) \in Int /\ PpOf(h) \in Nat
    /\ \A h \in Heights : h \in Nat /\ h + 1 \in Nat /\ RxOf(h) \in Nat
    /\ \A g, h \in Nat : g <= h => RxOf(g) <= RxOf(h) /\ PpOf(g) <= PpOf(h)
    /\ \A h \in Nat : PpOf(h + 1) \in {PpOf(h), PpOf(h) + 1}
<1>1. ASSUME NEW E \in Nat \ {0}, NEW a \in Int, NEW b \in Int, a <= b
      PROVE  /\ a \div E \in Int /\ (a >= 0 => a \div E \in Nat)
             /\ a \div E <= b \div E
             /\ (a + 1) \div E \in {a \div E, a \div E + 1}
  <2>1. a \div E \in Int /\ b \div E \in Int /\ (a + 1) \div E \in Int
    BY <1>1
  <2>2. /\ E * (a \div E) <= a /\ a < E * (a \div E) + E
        /\ E * (b \div E) <= b /\ b < E * (b \div E) + E
        /\ E * ((a + 1) \div E) <= a + 1 /\ a + 1 < E * ((a + 1) \div E) + E
    BY <1>1
  <2>3. ASSUME NEW p \in Int, NEW q \in Int, p > q
        PROVE  E * p >= E * q + E
    BY <2>3, <1>1
  <2>4. a \div E <= b \div E
    BY <2>1, <2>2, <2>3, <1>1
  <2>5. a >= 0 => a \div E \in Nat
    BY <1>1
  <2>6. a \div E <= (a + 1) \div E
    BY <2>1, <2>2, <2>3
  <2>7. (a + 1) \div E <= a \div E + 1
    <3>1. SUFFICES ASSUME (a + 1) \div E > a \div E + 1
                   PROVE  FALSE
      BY <2>1
    <3>2. E * ((a + 1) \div E) >= E * (a \div E + 1) + E
      BY <2>1, <2>3, <3>1
    <3>3. E * (a \div E + 1) = E * (a \div E) + E
      BY <2>1, <1>1
    <3>4. E * (a \div E) \in Int /\ E * ((a + 1) \div E) \in Int /\ E >= 1
      BY <2>1, <1>1
    <3>5. QED
      BY <2>2, <3>2, <3>3, <3>4
  <2>8. QED
    BY <2>1, <2>4, <2>5, <2>6, <2>7
<1>2. \A h \in Nat : h - 1 \in Int /\ h \in Int
  OBVIOUS
<1>3. \A h \in Heights : h \in Nat /\ h + 1 \in Nat /\ h - 1 \in Int /\ h - 1 >= 0
  BY NodeAssumption DEF Heights
<1>4. RxEpoch \in Nat \ {0} /\ PpEpoch \in Nat \ {0}
  BY NodeAssumption
<1>5. \A h \in Nat : RxOf(h) \in Int /\ PpOf(h) \in Nat
  BY <1>1, <1>2, <1>4 DEF RxOf, PpOf
<1>6. \A h \in Heights : RxOf(h) \in Nat
  BY <1>1, <1>3, <1>4 DEF RxOf
<1>7. \A g, h \in Nat : g <= h => RxOf(g) <= RxOf(h) /\ PpOf(g) <= PpOf(h)
  <2> TAKE g, h \in Nat
  <2> HAVE g <= h
  <2>1. g - 1 \in Int /\ h - 1 \in Int /\ g - 1 <= h - 1 /\ g \in Int /\ h \in Int
    OBVIOUS
  <2>2. QED
    BY <1>1, <1>4, <2>1 DEF RxOf, PpOf
<1>8. \A h \in Nat : PpOf(h + 1) \in {PpOf(h), PpOf(h) + 1}
  BY <1>1, <1>2, <1>4 DEF PpOf
<1>9. QED
  BY <1>3, <1>5, <1>6, <1>7, <1>8

LEMMA LoadType ==
    ASSUME NEW slots \in Seq(Nat), Len(slots) <= NSlots, NEW d \in Nat
    PROVE  Load(slots, d) \in Seq(Nat) /\ Len(Load(slots, d)) <= NSlots
<1>0. NSlots \in Nat /\ NSlots >= 1
  BY NodeAssumption
<1>1. CASE InSeq(d, slots)
  BY <1>1 DEF Load
<1>2. CASE ~InSeq(d, slots) /\ Len(slots) < NSlots
  BY <1>0, <1>2 DEF Load
<1>3. CASE ~InSeq(d, slots) /\ ~(Len(slots) < NSlots)
  <2>1. slots # << >> /\ Load(slots, d) = Append(Tail(slots), d)
    BY <1>0, <1>3 DEF Load
  <2>2. Tail(slots) \in Seq(Nat) /\ Len(Tail(slots)) = Len(slots) - 1
    BY <2>1
  <2>3. QED
    BY <2>1, <2>2
<1>4. QED
  BY <1>1, <1>2, <1>3

LEMMA QuietType ==
    ASSUME msg \in Message
    PROVE  Quiet(msg.height) \in Message
  BY DEF Message, Quiet

LEMMA MessageNext ==
    ASSUME MessageType, [Next]_vars
    PROVE  MessageType'
<1> USE DEF MessageType
<1>1. ASSUME UNCHANGED <<msg, top, todo, strayed, rx, pp>>, Working' => Working,
             npc' = "notify" => npc = "notify"
      PROVE  MessageType'
  BY <1>1
<1>2. CASE LinkStep
  BY <1>1, <1>2, LinkFrame DEF Working
<1>3. CASE JobStep
  <2>1. PICK h \in Heights : \E m \in Proper(h) \cup Flawed(h) : ReceiveJob(m)
    BY <1>3 DEF JobStep
  <2>2. PICK m \in Proper(h) \cup Flawed(h) : ReceiveJob(m)
    BY <2>1
  <2>3. m \in Message /\ m.height = h /\ m.height \in 0..MaxHeight /\ m.epochs \in Seq(Int)
    BY JobFacts DEF Message
  <2>4. UNCHANGED <<rx, pp>> /\ npc' # "notify" /\ strayed' \in BOOLEAN /\ top' \in 0..MaxHeight
    BY <2>2, <2>3 DEF ReceiveJob, Enter, Strays
  <2>5. \/ UNCHANGED <<msg, todo>> /\ npc' = "close"
        \/ msg' = m /\ todo' = m.epochs
    BY <2>2 DEF ReceiveJob, Enter
  <2>6. QED
    BY <2>3, <2>4, <2>5 DEF Working
<1>4. ASSUME Reject, UNCHANGED <<top, strayed>>
      PROVE  MessageType'
  BY <1>4, QuietType DEF Reject, Working
<1>5. CASE LoadSeed
  <2>1. CASE Head(todo) < RxOf(msg.height)
    BY <1>4, <1>5, <2>1 DEF LoadSeed
  <2>2. CASE ~(Head(todo) < RxOf(msg.height))
    <3>1. /\ npc = "epochs" /\ npc' = npc /\ todo # << >>
          /\ rx' = Load(rx, Head(todo)) /\ todo' = Tail(todo)
          /\ UNCHANGED <<msg, top, strayed, pp>>
      BY <1>5, <2>2 DEF LoadSeed
    <3>2. Head(todo) \in Int /\ Tail(todo) \in Seq(Int)
      BY <3>1
    <3>3. RxOf(msg.height) \in Nat
      BY <3>1, Epochs DEF Working
    <3>4. Head(todo) \in Nat
      BY <2>2, <3>2, <3>3
    <3>5. rx' \in Seq(Nat) /\ Len(rx') <= NSlots
      BY <3>1, <3>4, LoadType
    <3>6. QED
      BY <3>1, <3>2, <3>5 DEF Working
  <2>3. QED
    BY <2>1, <2>2
<1>6. CASE EpochsDone
  <2>1. CASE InSeq(RxOf(msg.height), msg.epochs)
    <3>1. /\ npc = "epochs" /\ npc' = "notify" /\ todo' = NotifyOrder(msg.height)
          /\ UNCHANGED <<msg, top, strayed, rx, pp>>
      BY <1>6, <2>1 DEF EpochsDone
    <3>2. msg.height \in Heights /\ msg.height \in Nat /\ msg.height + 1 \in Nat
      BY <3>1, Epochs DEF Working
    <3>3. PpOf(msg.height) \in Nat /\ PpOf(msg.height + 1) \in Nat
      BY <3>2, Epochs
    <3>4. todo' \in Seq(Nat) /\ todo' \in Seq(Int)
      BY <3>1, <3>3 DEF NotifyOrder
    <3>5. QED
      BY <3>1, <3>2, <3>4 DEF Working
  <2>2. CASE ~InSeq(RxOf(msg.height), msg.epochs)
    BY <1>4, <1>6, <2>2 DEF EpochsDone
  <2>3. QED
    BY <2>1, <2>2
<1>7. CASE NotifyEpoch
  <2>1. /\ npc = "notify" /\ npc' = npc /\ todo # << >> /\ pp' = Load(pp, Head(todo))
        /\ todo' = Tail(todo) /\ UNCHANGED <<msg, top, strayed, rx>>
    BY <1>7 DEF NotifyEpoch
  <2>2. Head(todo) \in Nat /\ Tail(todo) \in Seq(Nat) /\ Tail(todo) \in Seq(Int)
    BY <2>1
  <2>3. pp' \in Seq(Nat) /\ Len(pp') <= NSlots
    BY <2>1, <2>2, LoadType
  <2>4. QED
    BY <2>1, <2>2, <2>3 DEF Working
<1>8. CASE Publish
  <2>1. CASE msg.flaw = "prepow"
    BY <1>4, <1>8, <2>1 DEF Publish
  <2>2. CASE msg.flaw # "prepow"
    BY <1>8, <2>2, QuietType DEF Publish, Working
  <2>3. QED
    BY <2>1, <2>2
<1>9. CASE PopFront \/ ReadStep
  BY <1>1, <1>9 DEF PopFront, ReadStep, LoadPointer, CopyJob, Working
<1>10. CASE UNCHANGED vars
  BY <1>1, <1>10 DEF vars, Working
<1>11. QED
  BY <1>2, <1>3, <1>5, <1>6, <1>7, <1>8, <1>9, <1>10, Steps DEF WorkStep

-----------------------------------------------------------------------------
(* The epochs.                                                             *)

LEMMA RisingGrows ==
    ASSUME NEW slots \in Seq(Nat), NEW e \in Int, NEW f \in Int, e <= f, Rising(slots, e)
    PROVE  Rising(slots, f)
<1>1. CASE e = f
  BY <1>1
<1>2. CASE e < f
  <2>1. \A i \in DOMAIN slots : slots[i] \in Nat /\ slots[i] <= e + 1
    BY DEF Rising
  <2>2. \A i \in DOMAIN slots : slots[i] <= f + 1 /\ slots[i] # f + 1
    BY <1>2, <2>1
  <2>3. QED
    BY <2>2 DEF Rising, InSeq
<1>3. QED
  BY <1>1, <1>2

\* Two slots are enough for e and the next one: loading either of them, e first,
\* never recycles the slot that holds e.
LEMMA LoadKeeps ==
    ASSUME NSlots >= 2, NEW slots \in Seq(Nat), Len(slots) <= NSlots,
           NEW e \in Int, Rising(slots, e),
           NEW d \in Nat, d \in {e, e + 1}, d # e => InSeq(e, slots)
    PROVE  Rising(Load(slots, d), e) /\ InSeq(e, Load(slots, d))
<1> DEFINE new == Load(slots, d)
<1>a. NSlots \in Nat /\ Len(slots) \in Nat
  BY NodeAssumption
<1>0. Len(slots) \in Nat /\ DOMAIN slots = 1..Len(slots)
  OBVIOUS
<1>1. CASE InSeq(d, slots)
  <2>1. new = slots
    BY <1>1 DEF Load
  <2>2. InSeq(e, slots)
    BY <1>1
  <2>3. QED
    BY <2>1, <2>2
<1>2. ASSUME ~InSeq(d, slots)
      PROVE  \A i \in 1..Len(slots) : slots[i] \in Nat /\ slots[i] < d
  <2>1. \A i \in 1..Len(slots) : slots[i] \in Nat /\ slots[i] <= e + 1 /\ slots[i] # d
    BY <1>0, <1>2 DEF Rising, InSeq
  <2>2. CASE d = e
    <3>1. \A i \in 1..Len(slots) : slots[i] # e + 1
      BY <1>0, <1>2, <2>2 DEF Rising, InSeq
    <3>2. QED
      BY <2>1, <2>2, <3>1
  <2>3. CASE d = e + 1
    BY <2>1, <2>3
  <2>4. QED
    BY <2>2, <2>3
<1>3. \A i, j \in 1..Len(slots) : i < j => slots[i] < slots[j]
  BY <1>0 DEF Rising
<1>4. CASE ~InSeq(d, slots) /\ Len(slots) < NSlots
  <2>1. /\ DOMAIN new = 1..(Len(slots) + 1) /\ new[Len(slots) + 1] = d
        /\ \A i \in 1..Len(slots) : new[i] = slots[i]
    BY <1>4 DEF Load
  <2>2. InSeq(e, new)
    <3>1. CASE d = e
      BY <1>0, <2>1, <3>1 DEF InSeq
    <3>2. CASE d # e
      <4>1. PICK i \in 1..Len(slots) : slots[i] = e
        BY <1>0, <3>2 DEF InSeq
      <4>2. i \in DOMAIN new /\ new[i] = e
        BY <1>0, <2>1, <4>1
      <4>3. QED
        BY <4>2 DEF InSeq
    <3>3. QED
      BY <3>1, <3>2
  <2>3. \A i, j \in DOMAIN new : i < j => new[i] < new[j]
    BY <1>0, <1>2, <1>3, <1>4, <2>1
  <2>4. \A i \in DOMAIN new : new[i] <= e + 1
    BY <1>0, <1>2, <1>4, <2>1
  <2>5. QED
    BY <2>2, <2>3, <2>4 DEF Rising
<1>5. CASE ~InSeq(d, slots) /\ ~(Len(slots) < NSlots)
  <2>0. Len(slots) = NSlots /\ Len(slots) >= 2 /\ slots # << >>
    <3>1. Len(slots) = NSlots
      BY <1>a, <1>5
    <3>2. Len(slots) >= 2
      BY <3>1
    <3>3. QED
      BY <3>1, <3>2
  <2>1. /\ DOMAIN new = 1..Len(slots) /\ new[Len(slots)] = d
        /\ \A i \in 1..Len(slots) : i # Len(slots) =>
              i + 1 \in 1..Len(slots) /\ new[i] = slots[i + 1]
    BY <1>0, <1>5, <2>0 DEF Load
  <2> HIDE DEF new
  <2>2. InSeq(e, new)
    <3>1. CASE d = e
      BY <1>0, <2>0, <2>1, <3>1 DEF InSeq
    <3>2. CASE d # e
      <4>1. PICK i \in 1..Len(slots) : slots[i] = e
        BY <1>0, <3>2 DEF InSeq
      <4>2. d = e + 1
        BY <3>2
      <4>3. i # 1
        <5>1. SUFFICES ASSUME i = 1
                       PROVE  FALSE
          OBVIOUS
        <5>2. 2 \in 1..Len(slots) /\ slots[1] < slots[2] /\ slots[2] < d /\ slots[2] \in Nat
          BY <1>2, <1>3, <1>5, <2>0
        <5>3. QED
          BY <4>1, <4>2, <5>1, <5>2
      <4>4. i - 1 \in 1..Len(slots) /\ i - 1 # Len(slots) /\ (i - 1) + 1 = i
        BY <1>0, <4>3
      <4>5. new[i - 1] = e
        BY <2>1, <4>1, <4>4
      <4>6. QED
        BY <2>1, <4>4, <4>5 DEF InSeq
    <3>3. QED
      BY <3>1, <3>2
  <2>3. ASSUME NEW i \in DOMAIN new, NEW j \in DOMAIN new, i < j
        PROVE  new[i] < new[j]
    <3>0. i \in 1..Len(slots) /\ j \in 1..Len(slots)
      BY <2>1, <2>3, Zenon
    <3>a. i # Len(slots)
      <4> HIDE <2>1
      <4>1. QED
        BY <1>a, <2>3, <3>0
    <3>1. i + 1 \in 1..Len(slots) /\ new[i] = slots[i + 1]
      BY <2>1, <3>0, <3>a, Zenon
    <3>2. CASE j = Len(slots)
      BY <1>2, <1>5, <2>1, <3>1, <3>2
    <3>3. CASE j # Len(slots)
      <4>0. i + 1 < j + 1
        BY <1>a, <2>3, <3>0
      <4>1. j + 1 \in 1..Len(slots) /\ new[j] = slots[j + 1]
        BY <2>1, <3>0, <3>3, Zenon
      <4>2. QED
        BY <1>3, <3>1, <4>0, <4>1
    <3>4. QED
      BY <3>2, <3>3
  <2>4. ASSUME NEW i \in DOMAIN new
        PROVE  new[i] <= e + 1
    <3>1. CASE i = Len(slots)
      BY <2>1, <3>1
    <3>2. CASE i # Len(slots)
      <4>1. i + 1 \in 1..Len(slots) /\ new[i] = slots[i + 1]
        BY <1>0, <2>1, <3>2
      <4>2. QED
        BY <1>2, <1>5, <4>1
    <3>3. QED
      BY <3>1, <3>2
  <2>5. Rising(new, e)
    BY <2>2, <2>3, <2>4 DEF Rising
  <2>6. QED
    BY <2>2, <2>5 DEF new
<1>6. QED
  BY <1>1, <1>4, <1>5

\* One step along the list of datasets to load, in the order e, e + 1.
LEMMA LoadInOrder ==
    ASSUME NSlots >= 2, NEW slots \in Seq(Nat), Len(slots) <= NSlots,
           NEW e \in Int, Rising(slots, e), todo \in Seq(Int), todo # << >>, Head(todo) \in Nat,
           InOrder(slots, e), NEW new, new = Load(slots, Head(todo)), todo' = Tail(todo)
    PROVE  /\ Rising(new, e) /\ InSeq(e, new)
           /\ \A i \in DOMAIN todo' : todo'[i] \in {e, e + 1}
<1>1. 1 \in DOMAIN todo /\ Head(todo) = todo[1]
  OBVIOUS
<1>2. Head(todo) \in {e, e + 1} /\ (Head(todo) # e => InSeq(e, slots))
  BY <1>1 DEF InOrder
<1>3. Rising(new, e) /\ InSeq(e, new)
  BY <1>2, LoadKeeps
<1>4. \A i \in DOMAIN todo' : i + 1 \in DOMAIN todo /\ todo'[i] = todo[i + 1]
  OBVIOUS
<1>5. QED
  BY <1>3, <1>4 DEF InOrder

\* The message whose epochs are next in the order becomes the one at hand.
LEMMA EpochReceive ==
    ASSUME MessageType, EpochInv, JobStep
    PROVE  EpochInv'
<1> SUFFICES ASSUME ~strayed'
             PROVE  EpochInv'
  BY DEF EpochInv
<1>1. PICK h \in Heights : \E m \in Proper(h) \cup Flawed(h) : ReceiveJob(m)
  BY DEF JobStep
<1>2. PICK m \in Proper(h) \cup Flawed(h) : ReceiveJob(m)
  BY <1>1
\* A message that is refused before it has an entry leaves all this alone.
<1>0. CASE npc' = "close" /\ UNCHANGED <<top, strayed, rx, pp>>
  BY <1>0 DEF EpochInv, Working
<1> SUFFICES ASSUME Enter(m), UNCHANGED <<rx, pp>>
             PROVE  EpochInv'
  BY <1>0, <1>2 DEF ReceiveJob
<1>3. m.height = h /\ h \in Nat /\ top \in Nat /\ rx \in Seq(Nat) /\ pp \in Seq(Nat)
  BY JobFacts, Epochs DEF MessageType
<1>4. /\ ~strayed /\ ~Strays(m) /\ top' = (IF h > top THEN h ELSE top) /\ top' \in Nat
      /\ rx' = rx /\ pp' = pp
  BY <1>3 DEF Enter, Strays
<1>5. /\ ~(RxOf(h) < RxOf(top)) /\ ~(PpOf(h) < PpOf(top)) /\ m.epochs # <<RxOf(h) + 1>>
  BY <1>3, <1>4 DEF Strays
<1>6. RxOf(h) \in Int /\ RxOf(top) \in Int /\ PpOf(h) \in Int /\ PpOf(top) \in Int
  <2>1. PpOf(h) \in Nat /\ PpOf(top) \in Nat
    BY <1>3, Epochs
  <2>2. QED
    BY <1>3, <2>1, Epochs
<1>7. RxOf(top') = RxOf(h) /\ PpOf(top') = PpOf(h)
  <2>1. CASE h > top
    BY <1>4, <2>1
  <2>2. CASE ~(h > top)
    <3>0. top' = top /\ h <= top
      BY <1>3, <1>4, <2>2
    <3>1. RxOf(h) <= RxOf(top) /\ PpOf(h) <= PpOf(top)
      BY <1>3, <3>0, Epochs
    <3>2. QED
      BY <1>5, <1>6, <3>0, <3>1
  <2>3. QED
    BY <2>1, <2>2
<1>8. Rising(rx, RxOf(h)) /\ Rising(pp, PpOf(h))
  <2>1. Rising(rx, RxOf(top)) /\ Rising(pp, PpOf(top))
    BY <1>4 DEF EpochInv
  <2>2. RxOf(top) <= RxOf(h) /\ PpOf(top) <= PpOf(h)
    BY <1>5, <1>6
  <2>3. QED
    BY <1>3, <1>6, <2>1, <2>2, RisingGrows
<1>9. Rising(rx', RxOf(top')) /\ Rising(pp', PpOf(top'))
  BY <1>4, <1>7, <1>8
<1>10. npc' = "epochs" /\ msg' = m /\ todo' = m.epochs
  BY DEF Enter
<1>11. QED
  <2> DEFINE e == RxOf(h)
  <2>1. RxOf(msg'.height) = RxOf(top') /\ PpOf(msg'.height) = PpOf(top')
    BY <1>3, <1>7, <1>10
  <2>2. todo' \in {<< >>, <<e>>, <<e, e + 1>>, <<e - 1, e>>}
    BY <1>5, <1>10, JobFacts
  <2>3. e \in Int
    BY <1>6
  <2> HIDE DEF e
  <2>4. ASSUME todo' # << >>, todo'[1] >= e
        PROVE  todo'[1] = e /\ \A i \in DOMAIN todo' : todo'[i] \in {e, e + 1}
    <3>1. CASE todo' = <<e>>
      BY <3>1
    <3>2. CASE todo' = <<e, e + 1>>
      BY <3>2
    <3>3. CASE todo' = <<e - 1, e>>
      BY <2>3, <2>4, <3>3
    <3>4. QED
      BY <2>2, <2>4, <3>1, <3>2, <3>3
  <2>5. ~(todo' = << >> /\ InSeq(e, m.epochs))
    BY <1>10 DEF InSeq
  <2>6. RxOf(top') = e
    BY <1>7 DEF e
  <2>7. QED
    BY <1>9, <1>10, <2>1, <2>4, <2>5, <2>6 DEF EpochInv, InOrder

LEMMA EpochNext ==
    ASSUME NSlots >= 2, MessageType, EpochInv, [Next]_vars
    PROVE  EpochInv'
<1>1. ASSUME UNCHANGED <<top, strayed, rx, pp>>, ~Working'
      PROVE  EpochInv'
  BY <1>1 DEF EpochInv, Working
<1>2. ASSUME UNCHANGED <<npc, msg, top, todo, strayed, rx, pp>>
      PROVE  EpochInv'
  BY <1>2 DEF EpochInv, Working, InOrder
<1>3. CASE LinkStep
  BY <1>1, <1>3, LinkFrame
<1>4. CASE PopFront
  BY <1>1, <1>4 DEF PopFront, Working
<1>5. CASE Publish
  BY <1>1, <1>5 DEF Publish, Reject, Working
<1>6. CASE ReadStep \/ UNCHANGED vars
  BY <1>2, <1>6 DEF ReadStep, LoadPointer, CopyJob, vars
<1>7. CASE LoadSeed /\ Head(todo) < RxOf(msg.height)
  BY <1>1, <1>7 DEF LoadSeed, Reject, Working
<1>8. CASE EpochsDone /\ ~InSeq(RxOf(msg.height), msg.epochs)
  BY <1>1, <1>8 DEF EpochsDone, Reject, Working
<1>9. CASE LoadSeed /\ ~(Head(todo) < RxOf(msg.height))
  <2> SUFFICES ASSUME ~strayed'
               PROVE  EpochInv'
    BY DEF EpochInv
  <2> DEFINE e == RxOf(top)
  <2>1. /\ npc = "epochs" /\ npc' = npc /\ todo # << >> /\ rx' = Load(rx, Head(todo))
        /\ todo' = Tail(todo) /\ UNCHANGED <<msg, top, strayed, pp>>
    BY <1>9 DEF LoadSeed
  <2>2. /\ RxOf(msg.height) = e /\ PpOf(msg.height) = PpOf(top)
        /\ Rising(rx, e) /\ Rising(pp, PpOf(top))
        /\ (todo[1] >= e => InOrder(rx, e))
    BY <2>1 DEF EpochInv, Working
  <2>3. RxOf(msg.height) \in Nat /\ todo \in Seq(Int) /\ rx \in Seq(Nat) /\ Len(rx) <= NSlots
    BY <2>1, Epochs DEF MessageType, Working
  <2>4. Head(todo) = todo[1] /\ todo[1] \in Int
    BY <2>1, <2>3
  <2> HIDE DEF e
  <2>5. e \in Nat /\ todo[1] >= e /\ Head(todo) \in Nat
    BY <1>9, <2>2, <2>3, <2>4
  <2>6. /\ Rising(rx', e) /\ InSeq(e, rx')
        /\ \A i \in DOMAIN todo' : todo'[i] \in {e, e + 1}
    BY <2>1, <2>2, <2>3, <2>5, LoadInOrder
  <2>7. RxOf(top') = e /\ PpOf(top') = PpOf(top)
    BY <2>1 DEF e
  <2>8. QED
    BY <2>1, <2>2, <2>6, <2>7 DEF EpochInv, Working, InOrder
<1>10. CASE EpochsDone /\ InSeq(RxOf(msg.height), msg.epochs)
  <2> SUFFICES ASSUME ~strayed'
               PROVE  EpochInv'
    BY DEF EpochInv
  <2>1. /\ npc = "epochs" /\ npc' = "notify" /\ todo = << >> /\ todo' = NotifyOrder(msg.height)
        /\ UNCHANGED <<msg, top, strayed, rx, pp>>
    BY <1>10 DEF EpochsDone
  <2>2. /\ RxOf(msg.height) = RxOf(top) /\ PpOf(msg.height) = PpOf(top)
        /\ Rising(rx, RxOf(top)) /\ Rising(pp, PpOf(top)) /\ InSeq(RxOf(top), rx)
    BY <1>10, <2>1 DEF EpochInv, Working
  <2>3. msg.height \in Nat /\ PpOf(msg.height) \in Nat
    BY <2>1, Epochs DEF MessageType, Working
  <2>4. PpOf(msg.height + 1) \in {PpOf(top), PpOf(top) + 1}
    BY <2>2, <2>3, Epochs
  <2>5. /\ todo' # << >> /\ todo'[1] = PpOf(top)
        /\ \A i \in DOMAIN todo' : todo'[i] \in {PpOf(top), PpOf(top) + 1}
    BY <2>1, <2>2, <2>4 DEF NotifyOrder
  <2>6. QED
    BY <2>1, <2>2, <2>5 DEF EpochInv, Working, InOrder
<1>11. CASE NotifyEpoch
  <2> SUFFICES ASSUME ~strayed'
               PROVE  EpochInv'
    BY DEF EpochInv
  <2> DEFINE e == PpOf(top)
  <2>1. /\ npc = "notify" /\ npc' = npc /\ todo # << >> /\ pp' = Load(pp, Head(todo))
        /\ todo' = Tail(todo) /\ UNCHANGED <<msg, top, strayed, rx>>
    BY <1>11 DEF NotifyEpoch
  <2>2. /\ RxOf(msg.height) = RxOf(top) /\ PpOf(msg.height) = e
        /\ Rising(rx, RxOf(top)) /\ InSeq(RxOf(top), rx) /\ Rising(pp, e) /\ InOrder(pp, e)
    BY <2>1 DEF EpochInv, Working
  <2>3. todo \in Seq(Nat) /\ todo \in Seq(Int) /\ pp \in Seq(Nat) /\ Len(pp) <= NSlots /\ e \in Int
    BY <2>1, Epochs DEF MessageType
  <2>4. Head(todo) \in Nat
    BY <2>1, <2>3
  <2> HIDE DEF e
  <2>5. /\ Rising(pp', e) /\ InSeq(e, pp')
        /\ \A i \in DOMAIN todo' : todo'[i] \in {e, e + 1}
    BY <2>1, <2>2, <2>3, <2>4, LoadInOrder
  <2>6. RxOf(top') = RxOf(top) /\ PpOf(top') = e
    BY <2>1 DEF e
  <2>7. QED
    BY <2>1, <2>2, <2>5, <2>6 DEF EpochInv, Working, InOrder
<1>12. QED
  BY <1>3, <1>4, <1>5, <1>6, <1>7, <1>8, <1>9, <1>10, <1>11, EpochReceive, Steps DEF WorkStep

-----------------------------------------------------------------------------

\* The invariant is inductive.
LEMMA NextIInv == IInv /\ [Next]_vars => IInv'
  BY LinkTypeNext, ListNext, MessageNext, SilenceNext, EpochNext DEF IInv

LEMMA Invariance == Safe => []IInv
  BY InitIInv, NextIInv, PTL DEF Safe

\* Every variable has its type.
THEOREM NodeTypeCorrect == Spec => []TypeOK
<1>1. IInv => TypeOK
  BY DEF IInv, LinkType, ListType, MessageType, TypeOK
<1>2. QED
  BY Invariance, <1>1, PTL DEF Spec

\* The entry that a client copies the current job from stays in the list until
\* KeepJobs newer entries have been made, however many a message leaves behind.
THEOREM NodeGraceWindow == Spec => []GraceWindow
<1>1. IInv => GraceWindow
  <2> SUFFICES ASSUME IInv, NEW r \in reading, late[r] < KeepJobs
               PROVE  ptr[r] # 0
    BY DEF GraceWindow
  <2>1. KeepJobs \in Nat /\ (ptr[r] = 0 => late[r] = KeepJobs)
    BY NodeAssumption DEF IInv, WindowOK
  <2>2. QED
    BY <2>1
<1>2. QED
  BY Invariance, <1>1, PTL DEF Spec

\* What a client copies, if its entry is still there, is a complete job.
THEOREM NodeCopiesAreComplete == Spec => []CopiesAreComplete
<1>1. IInv => CopiesAreComplete
  BY DEF IInv, WindowOK, CopiesAreComplete
<1>2. QED
  BY Invariance, <1>1, PTL DEF Spec

\* With the timeouts in their order a node that says nothing never ends the
\* process.
THEOREM NodeSilenceIsNotFatal == Spec => []SilenceIsNotFatal
<1>1. IInv => SilenceIsNotFatal
  BY DEF IInv, SilenceOK, SilenceIsNotFatal
<1>2. QED
  BY Invariance, <1>1, PTL DEF Spec

\* As long as the chain does not go back over the start of an epoch, two slots
\* in each hash pool are enough: a job is published with both its datasets
\* loaded, and no message for its epochs takes the slots they are in.  With one
\* slot the next epoch's dataset would take it.
THEOREM NodeDatasetsStay ==
    ASSUME NSlots >= 2
    PROVE  Spec => DatasetsOfCurrentJobStay
<1>1. ASSUME IInv, Next, ~strayed'
      PROVE  PublishedLoaded /\ RxStays /\ PpStays
  <2> USE DEF PublishedLoaded, RxStays, PpStays
  <2>1. MessageType /\ EpochInv
    BY <1>1 DEF IInv
  <2>2. ASSUME UNCHANGED <<rx, pp>>, npc = "pop" \/ npc' # "pop"
        PROVE  PublishedLoaded /\ RxStays /\ PpStays
    BY <2>2
  <2>3. CASE LinkStep
    BY <2>2, <2>3, LinkFrame
  <2>4. CASE JobStep
    BY <2>2, <2>4 DEF JobStep, ReceiveJob, Enter, Reply
  <2>5. CASE ReadStep \/ PopFront
    BY <2>2, <2>5 DEF ReadStep, LoadPointer, CopyJob, PopFront
  <2>6. CASE EpochsDone
    BY <2>2, <2>6 DEF EpochsDone, Reject
  <2>7. CASE Publish
    <3>1. CASE msg.flaw = "prepow"
      BY <2>2, <2>7, <3>1 DEF Publish, Reject
    <3>2. CASE msg.flaw # "prepow"
      <4>1. /\ npc = "notify" /\ todo = << >> /\ height' = msg.height
            /\ UNCHANGED <<strayed, rx, pp>>
        BY <2>7, <3>2 DEF Publish
      <4>2. /\ RxOf(msg.height) = RxOf(top) /\ PpOf(msg.height) = PpOf(top)
            /\ InSeq(RxOf(top), rx) /\ InSeq(PpOf(top), pp)
        BY <1>1, <2>1, <4>1 DEF EpochInv, Working
      <4>3. QED
        BY <4>1, <4>2
    <3>3. QED
      BY <3>1, <3>2
  <2>8. CASE LoadSeed /\ Head(todo) < RxOf(msg.height)
    BY <2>2, <2>8 DEF LoadSeed, Reject
  <2>9. CASE LoadSeed /\ ~(Head(todo) < RxOf(msg.height))
    <3>1. /\ npc = "epochs" /\ npc' = npc /\ todo # << >> /\ rx' = Load(rx, Head(todo))
          /\ UNCHANGED <<msg, strayed, pp>> /\ todo' = Tail(todo)
      BY <2>9 DEF LoadSeed
    <3>2. /\ RxOf(msg.height) = RxOf(top) /\ Rising(rx, RxOf(top))
          /\ (todo[1] >= RxOf(top) => InOrder(rx, RxOf(top)))
      BY <1>1, <2>1, <3>1 DEF EpochInv, Working
    <3>3. RxOf(msg.height) \in Nat /\ todo \in Seq(Int) /\ rx \in Seq(Nat) /\ Len(rx) <= NSlots
      BY <2>1, <3>1, Epochs DEF MessageType, Working
    <3>4. Head(todo) = todo[1] /\ todo[1] \in Int
      BY <3>1, <3>3
    <3>5. RxOf(top) \in Nat /\ todo[1] >= RxOf(top) /\ Head(todo) \in Nat
      BY <2>9, <3>2, <3>3, <3>4
    <3>6. InSeq(RxOf(top), rx')
      BY <3>1, <3>2, <3>3, <3>5, LoadInOrder
    <3>7. RxStays
      BY <3>1, <3>2, <3>6
    <3>8. QED
      BY <3>1, <3>7
  <2>10. CASE NotifyEpoch
    <3>1. /\ npc = "notify" /\ npc' = npc /\ todo # << >> /\ pp' = Load(pp, Head(todo))
          /\ UNCHANGED <<msg, strayed, rx>> /\ todo' = Tail(todo)
      BY <2>10 DEF NotifyEpoch
    <3>2. PpOf(msg.height) = PpOf(top) /\ Rising(pp, PpOf(top)) /\ InOrder(pp, PpOf(top))
      BY <1>1, <2>1, <3>1 DEF EpochInv, Working
    <3>3. /\ todo \in Seq(Nat) /\ todo \in Seq(Int) /\ pp \in Seq(Nat) /\ Len(pp) <= NSlots
          /\ PpOf(top) \in Int
      BY <2>1, <3>1, Epochs DEF MessageType
    <3>4. Head(todo) \in Nat
      BY <3>1, <3>3
    <3>5. InSeq(PpOf(top), pp')
      BY <3>1, <3>2, <3>3, <3>4, LoadInOrder
    <3>6. PpStays
      BY <3>1, <3>2, <3>5
    <3>7. QED
      BY <3>1, <3>6
  <2>11. QED
    BY <1>1, <2>3, <2>4, <2>5, <2>6, <2>7, <2>8, <2>9, <2>10, Steps DEF WorkStep
<1>2. IInv /\ [Next]_vars => [~strayed' => PublishedLoaded /\ RxStays /\ PpStays]_vars
  BY <1>1
<1>3. QED
  BY Invariance, <1>2, PTL DEF Spec, Safe, DatasetsOfCurrentJobStay
=============================================================================
