--------------------------- MODULE HashPoolProofs ---------------------------
(***************************************************************************)
(* What the steps the two hash pools share preserve.  The theorems about   *)
(* the pools, in PpHashpoolProofs and RxHashpoolProofs, rest on these.     *)
(***************************************************************************)
EXTENDS HashPool, SequenceTheorems, TLAPS

\* A thread past its search points at a slot; a waiting share names a dataset;
\* a load has a dataset and room for its thread.
IndexOK ==
    /\ \A h \in HashThreads : pc[h] \in {"lock", "check", "hash", "unlock"} => dsidx[h] \in Slots
    /\ \A c \in Callers : caller[c] # "idle" => want[c] \in Datasets
    /\ nodepc # "idle" => nds \in Datasets /\ pend[nslot] < MaxPend

\* The slot's lock: a dataset thread inside excludes the readers.
LockOK ==
    \A i \in Slots : \A h \in HashThreads :
        builder[i] # "free" /\ dsidx[h] = i => pc[h] \notin {"check", "hash", "unlock"}

\* A thread about to hash has the right dataset before it.
HashOK == \A h \in HashThreads : pc[h] = "hash" => cache[dsidx[h]] = want[job[h]]

PoolInv == PoolTypeOK /\ IndexOK /\ LockOK /\ JobsBelongToWaiters

\* Slots are numbered from zero and the round robin stays among them.
LEMMA SlotFacts ==
    /\ 0 \in Slots /\ 0 \in 0..NSlots
    /\ NSlots \notin Slots
    /\ \A i \in Slots : NextSlot(i) \in Slots
    /\ \A i \in 0..NSlots : i \in Slots \/ i = NSlots
    /\ \A i \in Slots : i + 1 \in 0..NSlots
  BY HashPoolAssumption DEF Slots, NextSlot

\* The initial state of either pool.
LEMMA PoolInitInv == PoolInit => PoolInv /\ HashOK /\ RightDataset
  BY SlotFacts, HashPoolAssumption
  DEF PoolInit, PoolInv, PoolTypeOK, IndexOK, LockOK, HashOK, RightDataset, JobsBelongToWaiters,
      QueuedJobsWaited, HeldJobsWaited, NoJobLost, Holding

-----------------------------------------------------------------------------
(* The job protocol: who may touch a job, step by step.                    *)

\* A submitted job is queued once, at the back.
LEMMA SubmitJobs ==
    ASSUME PoolTypeOK, JobsBelongToWaiters, NEW c \in Callers, NEW d \in Datasets, Submit(c, d)
    PROVE  JobsBelongToWaiters'
<1> USE DEF PoolTypeOK, Submit, Holding
<1>1. /\ Len(jobs) \in Nat
      /\ \A n \in DOMAIN jobs' : \/ n \in DOMAIN jobs /\ jobs'[n] = jobs[n] /\ jobs[n] \in Callers
                                 \/ n = Len(jobs) + 1 /\ jobs'[n] = c
      /\ \A n \in DOMAIN jobs : n \in DOMAIN jobs' /\ jobs'[n] = jobs[n]
      /\ Len(jobs) + 1 \in DOMAIN jobs' /\ jobs'[Len(jobs) + 1] = c
      /\ Len(jobs) + 1 \notin DOMAIN jobs
  OBVIOUS
<1>2. QueuedJobsWaited'
  BY <1>1 DEF JobsBelongToWaiters, QueuedJobsWaited
<1>3. HeldJobsWaited'
  BY <1>1 DEF JobsBelongToWaiters, HeldJobsWaited
<1>4. NoJobLost'
  <2> SUFFICES ASSUME NEW e \in Callers, caller'[e] = "waiting"
               PROVE  \/ \E n \in DOMAIN jobs' : jobs'[n] = e
                      \/ \E h \in HashThreads : Holding(h)' /\ job'[h] = e
    BY DEF NoJobLost
  <2>1. CASE e = c
    BY <1>1, <2>1
  <2>2. CASE e # c
    <3>1. caller[e] = "waiting"
      BY <2>2
    <3>2. CASE \E n \in DOMAIN jobs : jobs[n] = e
      BY <1>1, <3>2
    <3>3. CASE \E h \in HashThreads : Holding(h) /\ job[h] = e
      BY <3>3
    <3>4. QED
      BY <3>1, <3>2, <3>3 DEF JobsBelongToWaiters, NoJobLost
  <2>3. QED
    BY <2>1, <2>2
<1>5. QED
  BY <1>2, <1>3, <1>4 DEF JobsBelongToWaiters

\* A caller that returns leaves no pointer to its job behind.
LEMMA ReturnJobs ==
    ASSUME PoolTypeOK, JobsBelongToWaiters, NEW c \in Callers, Return(c)
    PROVE  JobsBelongToWaiters'
<1> USE DEF PoolTypeOK, Return, Holding, threadVars
<1>1. \A n \in DOMAIN jobs : jobs[n] \in Callers
  OBVIOUS
<1>2. QueuedJobsWaited'
  BY <1>1 DEF JobsBelongToWaiters, QueuedJobsWaited
<1>3. HeldJobsWaited'
  BY <1>1 DEF JobsBelongToWaiters, HeldJobsWaited
<1>4. NoJobLost'
  BY <1>1 DEF JobsBelongToWaiters, NoJobLost
<1>5. QED
  BY <1>2, <1>3, <1>4 DEF JobsBelongToWaiters

\* A popped job has left the queue and has one holder.
LEMMA PopJobs ==
    ASSUME PoolTypeOK, JobsBelongToWaiters, NEW h \in HashThreads, Pop(h)
    PROVE  JobsBelongToWaiters'
<1> USE DEF PoolTypeOK, Pop, Holding, callerVars
<1>1. /\ Len(jobs) \in Nat \ {0}
      /\ 1 \in DOMAIN jobs /\ Head(jobs) = jobs[1] /\ jobs[1] \in Callers
      /\ \A n \in DOMAIN jobs' : n \in Nat /\ n + 1 \in DOMAIN jobs /\ jobs'[n] = jobs[n + 1] /\ n + 1 # 1
      /\ \A n \in DOMAIN jobs : n = 1 \/ (n - 1 \in DOMAIN jobs' /\ jobs'[n - 1] = jobs[n])
  OBVIOUS
<1>2. /\ job'[h] = jobs[1] /\ pc'[h] = "scan" /\ pc[h] = "pop"
      /\ \A g \in HashThreads \ {h} : job'[g] = job[g] /\ pc'[g] = pc[g]
  BY <1>1
<1>3. QueuedJobsWaited'
  BY <1>1 DEF JobsBelongToWaiters, QueuedJobsWaited
<1>4. HeldJobsWaited'
  <2>1. \A n \in DOMAIN jobs' : jobs'[n] # jobs[1]
    BY <1>1 DEF JobsBelongToWaiters, QueuedJobsWaited
  <2>2. \A g \in HashThreads : Holding(g) => job[g] # jobs[1]
    BY <1>1 DEF JobsBelongToWaiters, HeldJobsWaited
  <2>3. caller[jobs[1]] = "waiting"
    BY <1>1 DEF JobsBelongToWaiters, QueuedJobsWaited
  <2>4. QED
    BY <1>1, <1>2, <2>1, <2>2, <2>3 DEF JobsBelongToWaiters, HeldJobsWaited
<1>5. NoJobLost'
  <2> SUFFICES ASSUME NEW e \in Callers, caller[e] = "waiting"
               PROVE  \/ \E n \in DOMAIN jobs' : jobs'[n] = e
                      \/ \E g \in HashThreads : Holding(g)' /\ job'[g] = e
    BY DEF NoJobLost
  <2>1. CASE e = jobs[1]
    BY <1>2, <2>1
  <2>2. CASE e # jobs[1] /\ \E n \in DOMAIN jobs : jobs[n] = e
    <3>1. PICK n \in DOMAIN jobs : jobs[n] = e /\ n # 1
      BY <2>2
    <3>2. n - 1 \in DOMAIN jobs' /\ jobs'[n - 1] = e
      BY <1>1, <3>1
    <3>3. QED
      BY <3>2
  <2>3. CASE \E g \in HashThreads : Holding(g) /\ job[g] = e
    BY <1>2, <2>3
  <2>4. QED
    BY <2>1, <2>2, <2>3 DEF JobsBelongToWaiters, NoJobLost
<1>6. QED
  BY <1>3, <1>4, <1>5 DEF JobsBelongToWaiters

\* An answered job is in nobody's hands any more.
LEMMA AnswerJobs ==
    ASSUME PoolTypeOK, JobsBelongToWaiters, NEW h \in HashThreads, Holding(h),
           NEW a, Answer(h, a), UNCHANGED jobs,
           NEW q \in {"pop", "unlock"}, pc' = [pc EXCEPT ![h] = q]
    PROVE  JobsBelongToWaiters'
<1> USE DEF PoolTypeOK, Answer, Holding
<1>1. /\ job[h] \in Callers
      /\ \A n \in DOMAIN jobs : jobs[n] \in Callers /\ jobs[n] # job[h]
      /\ \A g \in HashThreads : Holding(g) /\ job[g] = job[h] => g = h
  BY DEF JobsBelongToWaiters, HeldJobsWaited
<1>2. /\ pc'[h] = q /\ q \notin {"scan", "lock", "check", "hash"}
      /\ \A g \in HashThreads \ {h} : job'[g] = job[g] /\ pc'[g] = pc[g]
      /\ caller'[job[h]] = "answered"
      /\ \A c \in Callers \ {job[h]} : caller'[c] = caller[c]
  BY <1>1
<1>3. QueuedJobsWaited'
  BY <1>1, <1>2 DEF JobsBelongToWaiters, QueuedJobsWaited
<1>4. HeldJobsWaited'
  BY <1>1, <1>2 DEF JobsBelongToWaiters, HeldJobsWaited
<1>5. NoJobLost'
  <2> SUFFICES ASSUME NEW e \in Callers, caller'[e] = "waiting"
               PROVE  \/ \E n \in DOMAIN jobs' : jobs'[n] = e
                      \/ \E g \in HashThreads : Holding(g)' /\ job'[g] = e
    BY DEF NoJobLost
  <2>1. e # job[h] /\ caller[e] = "waiting"
    BY <1>2
  <2>2. CASE \E n \in DOMAIN jobs : jobs[n] = e
    BY <2>2
  <2>3. CASE \E g \in HashThreads : Holding(g) /\ job[g] = e
    BY <1>2, <2>1, <2>3
  <2>4. QED
    BY <2>1, <2>2, <2>3 DEF JobsBelongToWaiters, NoJobLost
<1>6. QED
  BY <1>3, <1>4, <1>5 DEF JobsBelongToWaiters

\* A step of one thread that leaves jobs and owners alone.
LEMMA FrameJobs ==
    ASSUME PoolTypeOK, JobsBelongToWaiters, UNCHANGED <<caller, jobs, job>>,
           \A h \in HashThreads : Holding(h)' <=> Holding(h)
    PROVE  JobsBelongToWaiters'
<1>1. QueuedJobsWaited'
  BY DEF JobsBelongToWaiters, QueuedJobsWaited
<1>2. HeldJobsWaited'
  BY DEF JobsBelongToWaiters, HeldJobsWaited
<1>3. NoJobLost'
  BY DEF JobsBelongToWaiters, NoJobLost
<1>4. QED
  BY <1>1, <1>2, <1>3 DEF JobsBelongToWaiters

-----------------------------------------------------------------------------
(* Every step of a caller or of a hash thread.                             *)

LEMMA CallerType ==
    ASSUME PoolInv, NEW c \in Callers, Return(c) \/ \E d \in Datasets : Submit(c, d)
    PROVE  PoolTypeOK' /\ IndexOK' /\ LockOK'
<1> USE DEF PoolInv, PoolTypeOK
<1>1. CASE Return(c)
  BY <1>1, SlotFacts DEF Return, threadVars, slotVars, nodeVars, IndexOK, LockOK
<1>2. ASSUME NEW d \in Datasets, Submit(c, d)
      PROVE  PoolTypeOK' /\ IndexOK' /\ LockOK'
  <2>1. jobs' \in Seq(Callers)
    BY <1>2 DEF Submit
  <2>2. PoolTypeOK'
    BY <1>2, <2>1 DEF Submit, slotVars, nodeVars
  <2>3. IndexOK' /\ LockOK'
    BY <1>2 DEF Submit, slotVars, nodeVars, IndexOK, LockOK
  <2>4. QED
    BY <2>2, <2>3
<1>3. QED
  BY <1>1, <1>2

LEMMA CallerPool ==
    ASSUME PoolInv, NEW c \in Callers, Return(c) \/ \E d \in Datasets : Submit(c, d)
    PROVE  PoolInv'
  BY CallerType, SubmitJobs, ReturnJobs DEF PoolInv

LEMMA HashType ==
    ASSUME PoolInv, NEW h \in HashThreads, HashStep(h)
    PROVE  PoolTypeOK' /\ IndexOK' /\ LockOK'
<1> USE SlotFacts DEF PoolInv, PoolTypeOK, callerVars, slotVars, nodeVars, IndexOK, LockOK
<1>1. CASE Pop(h)
  <2>1. /\ jobs' \in Seq(Callers)
        /\ Head(jobs) \in Callers
    BY <1>1 DEF Pop
  <2>2. PoolTypeOK'
    BY <1>1, <2>1 DEF Pop
  <2>3. IndexOK' /\ LockOK'
    BY <1>1 DEF Pop
  <2>4. QED
    BY <2>2, <2>3
<1>2. CASE ScanSlot(h)
  <2>1. dsidx[h] \in Slots /\ dsidx[h] + 1 \in 0..NSlots
    BY <1>2 DEF ScanSlot
  <2>2. /\ dsidx' \in [HashThreads -> 0..NSlots]
        /\ pc' \in [HashThreads -> {"pop", "scan", "lock", "check", "hash", "unlock"}]
    BY <1>2, <2>1 DEF ScanSlot
  <2>3. PoolTypeOK'
    BY <1>2, <2>2 DEF ScanSlot
  <2>4. IndexOK' /\ LockOK'
    BY <1>2, <2>1 DEF ScanSlot
  <2>5. QED
    BY <2>3, <2>4
<1>3. ASSUME NEW a \in Datasets \cup {Scrap, Error}, Answer(h, a), Holding(h), UNCHANGED <<jobs, slotVars, nodeVars, steady>>,
             \/ pc' = [pc EXCEPT ![h] = "pop"] /\ dsidx' = [dsidx EXCEPT ![h] = 0]
             \/ pc[h] \in {"check", "hash"} /\ pc' = [pc EXCEPT ![h] = "unlock"] /\ UNCHANGED dsidx
      PROVE  PoolTypeOK' /\ IndexOK' /\ LockOK'
  <2>1. job[h] \in Callers /\ caller[job[h]] = "waiting"
    BY <1>3 DEF JobsBelongToWaiters, HeldJobsWaited
  <2>2. pc' \in [HashThreads -> {"pop", "scan", "lock", "check", "hash", "unlock"}]
    BY <1>3
  <2>3. dsidx' \in [HashThreads -> 0..NSlots]
    BY <1>3
  <2>4. /\ caller' \in [Callers -> {"idle", "waiting", "answered"}]
        /\ answer' \in [Callers -> Datasets \cup {None, Scrap, Error}]
        /\ job' \in [HashThreads -> Callers \cup {None}]
        /\ UNCHANGED want
    BY <1>3, <2>1 DEF Answer
  <2>5. PoolTypeOK'
    BY <1>3, <2>2, <2>3, <2>4
  <2>6. IndexOK'
    BY <1>3, <2>1 DEF Answer
  <2>7. LockOK'
    BY <1>3
  <2>8. QED
    BY <2>5, <2>6, <2>7
<1>4. CASE NotFound(h)
  BY <1>3, <1>4 DEF NotFound, Holding
<1>5. CASE LockShared(h)
  BY <1>5 DEF LockShared
<1>6. CASE Recheck(h)
  BY <1>6 DEF Recheck
<1>7. CASE SwappedOut(h)
  BY <1>3, <1>7 DEF SwappedOut, Holding
<1>8. CASE Hash(h)
  <2>1. cache[dsidx[h]] \in Datasets \cup {Scrap, Error}
    BY <1>8 DEF Hash
  <2>2. /\ Answer(h, cache[dsidx[h]]) /\ Holding(h)
        /\ UNCHANGED <<jobs, slotVars, nodeVars, steady>>
        /\ pc[h] \in {"check", "hash"} /\ pc' = [pc EXCEPT ![h] = "unlock"] /\ UNCHANGED dsidx
    BY <1>8 DEF Hash, Holding
  <2>3. QED
    BY <1>3, <2>1, <2>2
<1>9. CASE Unlock(h)
  BY <1>9, HashPoolAssumption DEF Unlock
<1>10. QED
  BY <1>1, <1>2, <1>4, <1>5, <1>6, <1>7, <1>8, <1>9 DEF HashStep

LEMMA HashJobs ==
    ASSUME PoolInv, NEW h \in HashThreads, HashStep(h)
    PROVE  JobsBelongToWaiters'
<1> USE DEF PoolInv
<1>1. CASE Pop(h)
  BY <1>1, PopJobs
<1>2. CASE NotFound(h)
  BY <1>2, AnswerJobs DEF NotFound, Holding
<1>3. CASE SwappedOut(h)
  BY <1>3, AnswerJobs DEF SwappedOut, Holding
<1>4. CASE Hash(h)
  BY <1>4, AnswerJobs DEF Hash, Holding
<1>5. CASE ScanSlot(h) \/ LockShared(h) \/ Recheck(h) \/ Unlock(h)
  <2>1. UNCHANGED <<caller, jobs, job>>
    BY <1>5 DEF ScanSlot, LockShared, Recheck, Unlock, callerVars
  <2>2. \A g \in HashThreads : Holding(g)' <=> Holding(g)
    BY <1>5 DEF ScanSlot, LockShared, Recheck, Unlock, Holding, PoolTypeOK
  <2>3. QED
    BY <2>1, <2>2, FrameJobs
<1>6. QED
  BY <1>1, <1>2, <1>3, <1>4, <1>5 DEF HashStep

LEMMA HashPoolInv ==
    ASSUME PoolInv, NEW h \in HashThreads, HashStep(h)
    PROVE  PoolInv'
  BY HashType, HashJobs DEF PoolInv

-----------------------------------------------------------------------------
(* Every step of the node or of a dataset thread.                          *)

\* x is a value a slot's cache or id can be given.
Content(x) == x \in Datasets \cup {Scrap}

NodeStep ==
    \/ \E d \in Datasets : Invalidate(d) \/ Announce(d)
    \/ SetLoaded("invalidated") \/ SetLoaded("copied")
    \/ Spawn

BuilderStep(i) ==
    \/ LockExclusive(i) \/ UnlockExclusive(i)
    \/ \E x : Content(x) /\ StartBuild(i, x)
    \/ \E x : Content(x) /\ Content(input[i]) /\ FinishBuild(i, x)

LEMMA NodePool ==
    ASSUME PoolInv, NodeStep
    PROVE  PoolInv'
<1> USE DEF PoolInv, callerVars, threadVars, slotVars
<1>1. JobsBelongToWaiters'
  BY FrameJobs DEF NodeStep, Invalidate, Announce, SetLoaded, Spawn, Holding
<1> USE SlotFacts DEF PoolTypeOK, IndexOK, LockOK
<1>2. ASSUME NEW d \in Datasets, Invalidate(d)
      PROVE  PoolTypeOK' /\ IndexOK' /\ LockOK'
  <2>1. steady' \in [Callers -> BOOLEAN]
    BY <1>2 DEF Invalidate, KeepSteady
  <2>2. QED
    BY <1>2, <2>1 DEF Invalidate
<1>3. ASSUME NEW d \in Datasets, Announce(d)
      PROVE  PoolTypeOK' /\ IndexOK' /\ LockOK'
  BY <1>3 DEF Announce
<1>4. ASSUME NEW from \in {"invalidated", "copied"}, SetLoaded(from)
      PROVE  PoolTypeOK' /\ IndexOK' /\ LockOK'
  <2>1. nds \in Datasets /\ pend[nslot] < MaxPend
    BY <1>4 DEF SetLoaded
  <2>2. loaded' \in [Slots -> Datasets \cup {None}]
    BY <1>4, <2>1 DEF SetLoaded
  <2>3. PoolTypeOK'
    BY <1>4, <2>2 DEF SetLoaded
  <2>4. IndexOK'
    BY <1>4, <2>1 DEF SetLoaded
  <2>5. LockOK'
    BY <1>4 DEF SetLoaded
  <2>6. QED
    BY <2>3, <2>4, <2>5
<1>5. CASE Spawn
  <2>1. pend[nslot] + 1 \in 0..MaxPend
    BY <1>5, HashPoolAssumption DEF Spawn
  <2>2. /\ pend' \in [Slots -> 0..MaxPend]
        /\ announced' \subseteq Datasets
    BY <1>5, <2>1 DEF Spawn
  <2>3. PoolTypeOK'
    BY <1>5, <2>2 DEF Spawn
  <2>4. nodepc' = "idle" /\ UNCHANGED <<pc, dsidx, caller, want, builder>>
    BY <1>5 DEF Spawn
  <2>5. IndexOK'
    BY <2>4
  <2>6. LockOK'
    BY <2>4
  <2>7. QED
    BY <1>1, <2>3, <2>5, <2>6
<1>6. QED
  BY <1>1, <1>2, <1>3, <1>4, <1>5 DEF NodeStep

LEMMA BuilderPool ==
    ASSUME PoolInv, NEW i \in Slots, BuilderStep(i)
    PROVE  PoolInv'
<1> USE DEF PoolInv, callerVars, threadVars, nodeVars, Content
<1>1. JobsBelongToWaiters'
  BY FrameJobs DEF BuilderStep, LockExclusive, UnlockExclusive, StartBuild, FinishBuild, Holding
<1> USE SlotFacts DEF PoolTypeOK, IndexOK, LockOK
<1>2. CASE LockExclusive(i)
  <2>1. pend[i] - 1 \in 0..MaxPend
    BY <1>2, HashPoolAssumption DEF LockExclusive
  <2>2. \A j \in Slots : pend'[j] <= pend[j]
    BY <1>2, <2>1 DEF LockExclusive
  <2>3. PoolTypeOK'
    BY <1>2, <2>1 DEF LockExclusive
  <2>4. IndexOK'
    BY <1>2, <2>2, <2>3, HashPoolAssumption DEF LockExclusive
  <2>5. LockOK'
    BY <1>2 DEF LockExclusive, Readers
  <2>6. QED
    BY <1>1, <2>3, <2>4, <2>5
<1>3. CASE UnlockExclusive(i)
  BY <1>1, <1>3 DEF UnlockExclusive
<1>4. ASSUME NEW x, Content(x), StartBuild(i, x)
      PROVE  PoolInv'
  BY <1>1, <1>4 DEF StartBuild
<1>5. ASSUME NEW x, Content(x), Content(input[i]), FinishBuild(i, x)
      PROVE  PoolInv'
  <2>1. steady' \in [Callers -> BOOLEAN]
    BY <1>5 DEF FinishBuild, KeepSteady
  <2>2. QED
    BY <1>1, <1>5, <2>1 DEF FinishBuild
<1>6. QED
  BY <1>2, <1>3, <1>4, <1>5 DEF BuilderStep

-----------------------------------------------------------------------------
(* The hash is made with the right dataset.                                *)

\* The search is unlocked, but the second look is made under the lock, and
\* the lock is held until the hash is done.
LEMMA HashRight ==
    ASSUME PoolInv, HashOK, RightDataset, ReadyMeansBuilt, NEW h \in HashThreads, HashStep(h)
    PROVE  HashOK' /\ RightDataset'
<1> USE DEF PoolInv, PoolTypeOK, HashOK, RightDataset
<1>1. \A g \in HashThreads : Holding(g) =>
          /\ job[g] \in Callers /\ caller[job[g]] = "waiting"
          /\ want[job[g]] \in Datasets
          /\ \A k \in HashThreads : Holding(k) /\ job[k] = job[g] => k = g
  BY DEF JobsBelongToWaiters, HeldJobsWaited, IndexOK
<1>2. CASE Recheck(h)
  <2>1. dsidx[h] \in Slots /\ builder[dsidx[h]] = "free"
    BY <1>2 DEF Recheck, IndexOK, LockOK
  <2>2. want[job[h]] \in Datasets
    BY <1>1, <1>2 DEF Recheck, Holding
  <2>3. cache[dsidx[h]] = want[job[h]]
    BY <1>2, <2>1, <2>2, HashPoolAssumption DEF Recheck, ReadyMeansBuilt
  <2>4. QED
    BY <1>2, <2>3 DEF Recheck, callerVars, slotVars
<1>3. CASE Hash(h)
  <2>1. /\ job[h] \in Callers
        /\ cache[dsidx[h]] = want[job[h]]
        /\ UNCHANGED <<want, cache, dsidx>>
    BY <1>1, <1>3 DEF Hash, Answer, slotVars, Holding
  <2>2. /\ caller' = [caller EXCEPT ![job[h]] = "answered"]
        /\ answer' = [answer EXCEPT ![job[h]] = want[job[h]]]
        /\ job' = [job EXCEPT ![h] = None]
        /\ pc' = [pc EXCEPT ![h] = "unlock"]
    BY <1>3, <2>1 DEF Hash, Answer
  <2>3. HashOK'
    BY <2>1, <2>2
  <2>4. RightDataset'
    BY <2>1, <2>2
  <2>5. QED
    BY <2>3, <2>4
<1>4. CASE NotFound(h) \/ SwappedOut(h)
  <2>1. /\ job[h] \in Callers
        /\ UNCHANGED <<want, cache>>
        /\ caller' = [caller EXCEPT ![job[h]] = "answered"]
        /\ answer' = [answer EXCEPT ![job[h]] = Error]
        /\ job' = [job EXCEPT ![h] = None]
    BY <1>1, <1>4 DEF NotFound, SwappedOut, Answer, slotVars, Holding
  <2>2. /\ pc'[h] # "hash"
        /\ \A g \in HashThreads : g # h => pc'[g] = pc[g] /\ dsidx'[g] = dsidx[g]
    BY <1>4 DEF NotFound, SwappedOut
  <2>3. HashOK'
    BY <2>1, <2>2
  <2>4. RightDataset'
    BY <2>1
  <2>5. QED
    BY <2>3, <2>4
<1>5. CASE Pop(h) \/ ScanSlot(h) \/ LockShared(h) \/ Unlock(h)
  BY <1>5 DEF Pop, ScanSlot, LockShared, Unlock, callerVars, slotVars
<1>6. QED
  BY <1>2, <1>3, <1>4, <1>5 DEF HashStep

\* A caller's step concerns no job a hash thread holds.
LEMMA CallerRight ==
    ASSUME PoolInv, HashOK, RightDataset, NEW c \in Callers,
           Return(c) \/ \E d \in Datasets : Submit(c, d)
    PROVE  HashOK' /\ RightDataset'
<1> USE DEF PoolInv, PoolTypeOK, HashOK, RightDataset
<1>1. \A g \in HashThreads : pc[g] = "hash" => job[g] \in Callers /\ caller[job[g]] = "waiting"
  BY DEF JobsBelongToWaiters, HeldJobsWaited, Holding
<1>2. CASE Return(c)
  BY <1>1, <1>2 DEF Return, threadVars, slotVars
<1>3. ASSUME NEW d \in Datasets, Submit(c, d)
      PROVE  HashOK' /\ RightDataset'
  BY <1>1, <1>3 DEF Submit, slotVars
<1>4. QED
  BY <1>2, <1>3

\* Nor does a slot change under a thread that hashes.
LEMMA NodeRight ==
    ASSUME PoolInv, HashOK, RightDataset, NodeStep
    PROVE  HashOK' /\ RightDataset'
  BY DEF NodeStep, Invalidate, Announce, SetLoaded, Spawn, HashOK, RightDataset,
         callerVars, threadVars, slotVars

LEMMA BuilderRight ==
    ASSUME PoolInv, HashOK, RightDataset, NEW i \in Slots, BuilderStep(i)
    PROVE  HashOK' /\ RightDataset'
<1> USE DEF PoolInv, PoolTypeOK, HashOK, RightDataset, callerVars, threadVars
<1>1. CASE LockExclusive(i) \/ UnlockExclusive(i)
  BY <1>1 DEF LockExclusive, UnlockExclusive
<1>2. ASSUME builder[i] # "free", UNCHANGED <<callerVars, threadVars>>,
             \A j \in Slots : j # i => cache'[j] = cache[j]
      PROVE  HashOK' /\ RightDataset'
  BY <1>2 DEF LockOK, IndexOK
<1>3. ASSUME NEW x, StartBuild(i, x)
      PROVE  HashOK' /\ RightDataset'
  BY <1>2, <1>3 DEF StartBuild
<1>4. ASSUME NEW x, FinishBuild(i, x)
      PROVE  HashOK' /\ RightDataset'
  BY <1>2, <1>4 DEF FinishBuild
<1>5. QED
  BY <1>1, <1>3, <1>4 DEF BuilderStep

-----------------------------------------------------------------------------
(* A share whose dataset stays in service is not lost.  The search looks   *)
(* at one slot after another while the slots move, so it matters that a    *)
(* dataset in service is in one slot, and stays in that one.               *)

\* The node loads a dataset that no slot has, so no two slots have the same.
LoadedOnce ==
    /\ \A i, j \in Slots : loaded[i] = loaded[j] /\ loaded[i] # None => i = j
    /\ nodepc \in {"invalidated", "copied"} => ~HasDataset(nds)

\* With a Paced node a slot serves what it was last loaded with or nothing, and
\* it serves nothing while it is being loaded.
ServeOK ==
    \A i \in Slots :
        /\ ready[i] # None => ready[i] = loaded[i]
        /\ nodepc # "idle" /\ nslot = i =>
              ready[i] = None /\ pend[i] = 0 /\ builder[i] = "free"

\* A steady share's dataset is in service; the search has it ahead, and what the
\* search has found is still there.
SearchOK ==
    /\ \A c \in Callers : caller[c] = "waiting" /\ steady[c] => want[c] \in Offered
    /\ \A h \in HashThreads : Holding(h) /\ steady[job[h]] =>
          /\ pc[h] = "scan" =>
                \E i \in Slots : dsidx[h] <= i /\ ready[i] = want[job[h]]
          /\ pc[h] \in {"lock", "check"} => ready[dsidx[h]] = want[job[h]]

\* All of this, for the pools' inductive invariants.
FairInv ==
    /\ LoadedOnce
    /\ Paced => ServeOK /\ SearchOK /\ NoSpuriousError

LEMMA FairInit == PoolInit => FairInv
  BY SlotFacts
  DEF PoolInit, FairInv, LoadedOnce, ServeOK, SearchOK, NoSpuriousError, Holding

\* What a thread that holds a job knows about it.
LEMMA Held ==
    ASSUME PoolInv, NEW h \in HashThreads, Holding(h)
    PROVE  /\ job[h] \in Callers /\ caller[job[h]] = "waiting" /\ want[job[h]] \in Datasets
           /\ \A g \in HashThreads : Holding(g) /\ job[g] = job[h] => g = h
  BY DEF PoolInv, JobsBelongToWaiters, HeldJobsWaited, IndexOK

LEMMA CallerFair ==
    ASSUME PoolInv, FairInv, NEW c \in Callers, Return(c) \/ \E d \in Datasets : Submit(c, d)
    PROVE  FairInv'
<1>1. UNCHANGED <<slotVars, nodeVars, pc, job, dsidx>>
  BY DEF Return, Submit, threadVars
<1>2. LoadedOnce'
  BY <1>1 DEF FairInv, LoadedOnce, HasDataset, slotVars, nodeVars
<1>3. ASSUME Paced
      PROVE  ServeOK'
  BY <1>1, <1>3 DEF FairInv, ServeOK, slotVars, nodeVars
<1>4. /\ caller[c] # "waiting"
      /\ \A e \in Callers \ {c} : /\ caller'[e] = caller[e] /\ want'[e] = want[e]
                                  /\ answer'[e] = answer[e] /\ steady'[e] = steady[e]
      /\ caller'[c] \in {"waiting", "idle"}
      /\ caller'[c] = "waiting" /\ steady'[c] => want'[c] \in Offered
  <2>1. CASE Return(c)
    BY <2>1 DEF Return, PoolInv, PoolTypeOK
  <2>2. ASSUME NEW d \in Datasets, Submit(c, d)
        PROVE  /\ caller[c] # "waiting"
               /\ \A e \in Callers \ {c} : /\ caller'[e] = caller[e] /\ want'[e] = want[e]
                                           /\ answer'[e] = answer[e] /\ steady'[e] = steady[e]
               /\ caller'[c] = "waiting" /\ steady'[c] => want'[c] \in Offered
               /\ caller'[c] \in {"waiting", "idle"}
    BY <2>2 DEF Submit, PoolInv, PoolTypeOK
  <2>3. QED
    BY <2>1, <2>2
<1>5. ASSUME Paced
      PROVE  SearchOK'
  <2>1. Offered' = Offered /\ UNCHANGED ready
    BY <1>1 DEF Offered, slotVars
  <2>2. \A e \in Callers : caller'[e] = "waiting" /\ steady'[e] => want'[e] \in Offered'
    BY <1>4, <1>5, <2>1 DEF FairInv, SearchOK
  <2>3. \A h \in HashThreads : Holding(h)' =>
          Holding(h) /\ steady'[job[h]] = steady[job[h]] /\ want'[job[h]] = want[job[h]]
    BY <1>1, <1>4, Held DEF Holding
  <2>4. QED
    BY <1>1, <1>5, <2>1, <2>2, <2>3 DEF FairInv, SearchOK
<1>6. ASSUME Paced
      PROVE  NoSpuriousError'
  BY <1>4, <1>6 DEF FairInv, NoSpuriousError
<1>7. QED
  BY <1>2, <1>3, <1>5, <1>6 DEF FairInv

\* An error is the answer only where the search failed or the second look did.
LEMMA HashFair ==
    ASSUME PoolInv, FairInv, NEW h \in HashThreads, HashStep(h)
    PROVE  FairInv'
<1>1. UNCHANGED <<slotVars, nodeVars, want, steady>>
  BY DEF HashStep, Pop, ScanSlot, NotFound, LockShared, Recheck, SwappedOut, Hash, Unlock,
         Answer, callerVars
<1>2. LoadedOnce'
  BY <1>1 DEF FairInv, LoadedOnce, HasDataset, slotVars, nodeVars
<1>3. ASSUME Paced
      PROVE  ServeOK'
  BY <1>1, <1>3 DEF FairInv, ServeOK, slotVars, nodeVars
<1>4. Offered' = Offered /\ UNCHANGED ready
  BY <1>1 DEF Offered, slotVars
<1>5. \A g \in HashThreads \ {h} : pc'[g] = pc[g] /\ job'[g] = job[g] /\ dsidx'[g] = dsidx[g]
  BY DEF HashStep, Pop, ScanSlot, NotFound, LockShared, Recheck, SwappedOut, Hash, Unlock,
         Answer, PoolInv, PoolTypeOK
\* The other threads' searches, and those whose share this step does not answer.
<1>6. ASSUME Paced, \A c \in Callers : caller'[c] = "waiting" => caller[c] = "waiting",
             Holding(h)' /\ steady[job'[h]] =>
                /\ pc'[h] = "scan" =>
                      \E i \in Slots : dsidx'[h] <= i /\ ready[i] = want[job'[h]]
                /\ pc'[h] \in {"lock", "check"} => ready[dsidx'[h]] = want[job'[h]]
      PROVE  SearchOK'
  <2>1. \A c \in Callers : caller'[c] = "waiting" /\ steady'[c] => want'[c] \in Offered'
    BY <1>1, <1>4, <1>6 DEF FairInv, SearchOK
  <2>2. ASSUME NEW g \in HashThreads, Holding(g)', steady'[job'[g]]
        PROVE  /\ pc'[g] = "scan" =>
                     \E i \in Slots : dsidx'[g] <= i /\ ready'[i] = want'[job'[g]]
               /\ pc'[g] \in {"lock", "check"} => ready'[dsidx'[g]] = want'[job'[g]]
    <3>1. CASE g = h
      BY <1>1, <1>4, <1>6, <2>2, <3>1
    <3>2. CASE g # h
      BY <1>1, <1>4, <1>5, <1>6, <2>2, <3>2 DEF FairInv, SearchOK, Holding
    <3>3. QED
      BY <3>1, <3>2
  <2>3. QED
    BY <2>1, <2>2 DEF SearchOK
<1>7. ASSUME Paced, Pop(h)
      PROVE  SearchOK' /\ NoSpuriousError'
  <2>1. /\ job'[h] \in Callers /\ caller[job'[h]] = "waiting" /\ dsidx'[h] = 0
        /\ pc'[h] = "scan" /\ UNCHANGED callerVars
    BY <1>7 DEF Pop, PoolInv, PoolTypeOK, JobsBelongToWaiters, QueuedJobsWaited
  <2>2. steady[job'[h]] => \E i \in Slots : 0 <= i /\ ready[i] = want[job'[h]]
    BY <1>7, <2>1, HashPoolAssumption DEF FairInv, SearchOK, Offered, Slots
  <2>3. SearchOK'
    BY <1>6, <1>7, <2>1, <2>2 DEF callerVars
  <2>4. NoSpuriousError'
    BY <1>1, <1>7, <2>1 DEF FairInv, NoSpuriousError, callerVars
  <2>5. QED
    BY <2>3, <2>4
<1>8. ASSUME Paced, ScanSlot(h) \/ LockShared(h) \/ Recheck(h) \/ Unlock(h)
      PROVE  SearchOK' /\ NoSpuriousError'
  <2>1. UNCHANGED <<caller, answer, job>>
    BY <1>8 DEF ScanSlot, LockShared, Recheck, Unlock, callerVars
  <2>2. Holding(h)' /\ steady[job[h]] =>
            /\ pc'[h] = "scan" => \E i \in Slots : dsidx'[h] <= i /\ ready[i] = want[job[h]]
            /\ pc'[h] \in {"lock", "check"} => ready[dsidx'[h]] = want[job[h]]
    <3>1. CASE ScanSlot(h)
      <4>1. CASE ready[dsidx[h]] = want[job[h]]
        BY <3>1, <4>1 DEF ScanSlot, PoolInv, PoolTypeOK
      <4>2. CASE ready[dsidx[h]] # want[job[h]]
        <5>1. /\ pc'[h] = "scan" /\ pc[h] = "scan" /\ dsidx'[h] = dsidx[h] + 1
              /\ dsidx[h] \in Slots
          BY <3>1, <4>2 DEF ScanSlot, PoolInv, PoolTypeOK
        <5>2. steady[job[h]] => \E i \in Slots : dsidx[h] <= i /\ ready[i] = want[job[h]]
          BY <1>8, <5>1 DEF FairInv, SearchOK, Holding
        <5>3. \A i \in Slots : dsidx[h] <= i /\ i # dsidx[h] => dsidx[h] + 1 <= i
          BY <5>1, HashPoolAssumption DEF Slots
        <5>4. QED
          BY <4>2, <5>1, <5>2, <5>3
      <4>3. QED
        BY <4>1, <4>2
    <3>2. CASE LockShared(h)
      BY <1>8, <3>2 DEF LockShared, FairInv, SearchOK, Holding, PoolInv, PoolTypeOK
    <3>3. CASE Recheck(h) \/ Unlock(h)
      BY <3>3 DEF Recheck, Unlock, PoolInv, PoolTypeOK
    <3>4. QED
      BY <1>8, <3>1, <3>2, <3>3
  <2>3. SearchOK'
    BY <1>6, <1>8, <2>1, <2>2
  <2>4. NoSpuriousError'
    BY <1>1, <1>8, <2>1 DEF FairInv, NoSpuriousError
  <2>5. QED
    BY <2>3, <2>4
<1>9. ASSUME Paced, NEW a, Answer(h, a), Holding(h), pc'[h] \in {"pop", "unlock"},
             a = Error => ~steady[job[h]]
      PROVE  SearchOK' /\ NoSpuriousError'
  <2>1. job[h] \in Callers
    BY <1>9, Held
  <2>2. /\ caller'[job[h]] = "answered" /\ answer'[job[h]] = a
        /\ \A c \in Callers \ {job[h]} : caller'[c] = caller[c] /\ answer'[c] = answer[c]
    BY <1>9, <2>1 DEF Answer, PoolInv, PoolTypeOK
  <2>3. SearchOK'
    BY <1>6, <1>9, <2>2 DEF Holding
  <2>4. NoSpuriousError'
    BY <1>1, <1>9, <2>2 DEF FairInv, NoSpuriousError
  <2>5. QED
    BY <2>3, <2>4
<1>10. ASSUME Paced, NotFound(h)
       PROVE  SearchOK' /\ NoSpuriousError'
  <2>1. ~steady[job[h]]
    BY <1>10, HashPoolAssumption DEF NotFound, FairInv, SearchOK, Holding, Slots
  <2>2. QED
    BY <1>9, <1>10, <2>1 DEF NotFound, Holding, PoolInv, PoolTypeOK
<1>11. ASSUME Paced, SwappedOut(h)
       PROVE  SearchOK' /\ NoSpuriousError'
  <2>1. ~steady[job[h]]
    BY <1>11 DEF SwappedOut, FairInv, SearchOK, Holding
  <2>2. QED
    BY <1>9, <1>11, <2>1 DEF SwappedOut, Holding, PoolInv, PoolTypeOK
<1>12. ASSUME Paced, Hash(h)
       PROVE  SearchOK' /\ NoSpuriousError'
  <2>1. cache[dsidx[h]] # Error
    BY <1>12, HashPoolAssumption DEF Hash, PoolInv, PoolTypeOK, IndexOK
  <2>2. QED
    BY <1>9, <1>12, <2>1 DEF Hash, Holding, PoolInv, PoolTypeOK
<1>13. QED
  BY <1>2, <1>3, <1>7, <1>8, <1>10, <1>11, <1>12 DEF HashStep, FairInv

\* A step that writes no ready id, no share and no place of a search.
LEMMA FrameFair ==
    ASSUME PoolInv, FairInv, UNCHANGED <<callerVars, pc, job, dsidx, ready, steady>>
    PROVE  Paced => SearchOK' /\ NoSpuriousError'
<1>1. UNCHANGED <<caller, want, answer, Offered>>
  BY DEF callerVars, Offered
<1>2. QED
  BY <1>1 DEF FairInv, SearchOK, NoSpuriousError, Holding

\* A step that writes one ready id: where a share's dataset was, it still is, or
\* the share is steady no more.
LEMMA ReadyFair ==
    ASSUME PoolInv, FairInv, Paced, NEW i \in Slots, NEW x, ready' = [ready EXCEPT ![i] = x],
           ready[i] = None \/ x = None \/ x = ready[i],
           KeepSteady, UNCHANGED <<callerVars, pc, job, dsidx>>
    PROVE  SearchOK' /\ NoSpuriousError'
<1> USE DEF PoolInv, PoolTypeOK
<1>1. /\ UNCHANGED <<caller, want, answer>>
      /\ \A c \in Callers :
            steady'[c] => steady[c] /\ (caller[c] = "waiting" => want[c] \in Offered')
  BY DEF KeepSteady, callerVars
\* A dataset in service is in one slot, and so it was in its slot before.
<1>2. \A j, k \in Slots : ready[j] = ready[k] /\ ready[j] # None => j = k
  BY DEF FairInv, ServeOK, LoadedOnce
<1>3. ASSUME NEW c \in Callers, caller[c] = "waiting", steady'[c],
             NEW j \in Slots, ready[j] = want[c]
      PROVE  ready'[j] = want[c]
  <2>1. PICK k \in Slots : ready'[k] = want[c]
    BY <1>1, <1>3 DEF Offered
  <2>2. want[c] # None
    BY <1>3, HashPoolAssumption DEF IndexOK
  <2>3. CASE j = i
    <3>1. x = None \/ x = ready[i]
      BY <1>3, <2>2, <2>3
    <3>2. ready[k] = want[c]
      BY <2>1, <2>2, <3>1
    <3>3. QED
      BY <1>2, <1>3, <2>1, <2>2, <3>2
  <2>4. CASE j # i
    BY <1>3, <2>4
  <2>5. QED
    BY <2>3, <2>4
<1>4. \A c \in Callers : caller'[c] = "waiting" /\ steady'[c] => want'[c] \in Offered'
  BY <1>1
<1>5. ASSUME NEW h \in HashThreads, Holding(h), steady'[job[h]]
      PROVE  /\ pc[h] = "scan" =>
                   \E j \in Slots : dsidx[h] <= j /\ ready'[j] = want[job[h]]
             /\ pc[h] \in {"lock", "check"} => ready'[dsidx[h]] = want[job[h]]
  <2>1. job[h] \in Callers /\ caller[job[h]] = "waiting" /\ steady[job[h]]
    BY <1>1, <1>5, Held
  <2>2. ASSUME pc[h] = "scan"
        PROVE  \E j \in Slots : dsidx[h] <= j /\ ready'[j] = want[job[h]]
    <3>1. PICK j \in Slots : dsidx[h] <= j /\ ready[j] = want[job[h]]
      BY <1>5, <2>1, <2>2 DEF FairInv, SearchOK
    <3>2. ready'[j] = want[job[h]]
      BY <1>3, <1>5, <2>1, <3>1
    <3>3. QED
      BY <3>1, <3>2
  <2>3. ASSUME pc[h] \in {"lock", "check"}
        PROVE  ready'[dsidx[h]] = want[job[h]]
    <3>1. dsidx[h] \in Slots /\ ready[dsidx[h]] = want[job[h]]
      BY <1>5, <2>1, <2>3 DEF FairInv, SearchOK, IndexOK
    <3>2. QED
      BY <1>3, <1>5, <2>1, <3>1
  <2>4. QED
    BY <2>2, <2>3
<1>6. SearchOK'
  BY <1>1, <1>4, <1>5 DEF SearchOK, Holding
<1>7. NoSpuriousError'
  BY <1>1 DEF FairInv, NoSpuriousError
<1>8. QED
  BY <1>6, <1>7

LEMMA NodeFair ==
    ASSUME PoolInv, FairInv, NodeStep
    PROVE  FairInv'
<1> USE DEF PoolInv, PoolTypeOK
<1>1. ASSUME NEW d \in Datasets, Invalidate(d)
      PROVE  FairInv'
  <2>1. /\ ctr \in Slots /\ ready' = [ready EXCEPT ![ctr] = None] /\ nslot' = ctr /\ nds' = d
        /\ ~HasDataset(d)
        /\ Paced => ~Live(ctr)
        /\ KeepSteady /\ UNCHANGED <<callerVars, pc, job, dsidx, loaded, pend, builder>>
    BY <1>1 DEF Invalidate, threadVars
  <2>2. LoadedOnce'
    BY <2>1 DEF FairInv, LoadedOnce, HasDataset
  <2>3. Paced => ServeOK'
    BY <1>1, <2>1 DEF FairInv, ServeOK, Live, Invalidate
  <2>4. Paced => SearchOK' /\ NoSpuriousError'
    BY <2>1, ReadyFair
  <2>5. QED
    BY <2>2, <2>3, <2>4 DEF FairInv
<1>2. ASSUME NEW d \in Datasets, Announce(d)
      PROVE  FairInv'
  <2>1. UNCHANGED <<callerVars, pc, job, dsidx, ready, loaded, pend, builder, steady, nodepc, nslot, nds>>
    BY <1>2 DEF Announce, threadVars, slotVars
  <2>2. QED
    BY <2>1, FrameFair DEF FairInv, LoadedOnce, HasDataset, ServeOK
<1>3. ASSUME NEW from \in {"invalidated", "copied"}, SetLoaded(from)
      PROVE  FairInv'
  <2>1. /\ nodepc = from /\ nodepc' = "loaded" /\ loaded' = [loaded EXCEPT ![nslot] = nds]
        /\ UNCHANGED <<callerVars, pc, job, dsidx, ready, pend, builder, steady, nslot, nds>>
    BY <1>3 DEF SetLoaded, threadVars
  <2>2. LoadedOnce'
    BY <2>1 DEF FairInv, LoadedOnce, HasDataset
  <2>3. Paced => ServeOK'
    BY <2>1 DEF FairInv, ServeOK
  <2>4. QED
    BY <2>1, <2>2, <2>3, FrameFair DEF FairInv
<1>4. CASE Spawn
  <2>1. /\ nodepc' = "idle" /\ nodepc = "loaded"
        /\ UNCHANGED <<callerVars, pc, job, dsidx, ready, loaded, builder, steady>>
    BY <1>4 DEF Spawn, threadVars
  <2>2. QED
    BY <2>1, FrameFair DEF FairInv, LoadedOnce, ServeOK
<1>5. QED
  BY <1>1, <1>2, <1>3, <1>4 DEF NodeStep

\* As long as the dataset thread declares what the slot was loaded with.
LEMMA BuilderFair ==
    ASSUME PoolInv, FairInv, NEW i \in Slots, BuilderStep(i),
           Paced /\ builder[i] = "building" => ready'[i] = loaded[i]
    PROVE  FairInv'
<1> USE DEF PoolInv, PoolTypeOK
<1>1. UNCHANGED <<callerVars, pc, job, dsidx, loaded, nodepc, nslot, nds>>
  BY DEF BuilderStep, LockExclusive, UnlockExclusive, StartBuild, FinishBuild, threadVars, nodeVars
<1>2. LoadedOnce'
  BY <1>1 DEF FairInv, LoadedOnce, HasDataset
<1>3. ASSUME LockExclusive(i) \/ UnlockExclusive(i) \/ \E x : StartBuild(i, x)
      PROVE  FairInv'
  <2>1. /\ UNCHANGED <<ready, steady>>
        /\ \A j \in Slots : j # i => pend'[j] = pend[j] /\ builder'[j] = builder[j]
        /\ pend[i] > 0 \/ builder[i] # "free"
    BY <1>3 DEF LockExclusive, UnlockExclusive, StartBuild
  <2>2. Paced => ServeOK'
    BY <1>1, <2>1 DEF FairInv, ServeOK
  <2>3. QED
    BY <1>1, <1>2, <2>1, <2>2, FrameFair DEF FairInv
<1>4. ASSUME NEW x, FinishBuild(i, x)
      PROVE  FairInv'
  <2>1. /\ builder[i] = "building" /\ ready' = [ready EXCEPT ![i] = x] /\ UNCHANGED pend
        /\ KeepSteady /\ \A j \in Slots : j # i => builder'[j] = builder[j]
    BY <1>4 DEF FinishBuild
  <2>2. ASSUME Paced
        PROVE  ServeOK' /\ (ready[i] = None \/ x = ready[i])
    BY <1>1, <2>1, <2>2 DEF FairInv, ServeOK
  <2>3. Paced => SearchOK' /\ NoSpuriousError'
    BY <1>1, <2>1, <2>2, ReadyFair
  <2>4. QED
    BY <1>2, <2>2, <2>3 DEF FairInv
<1>5. QED
  BY <1>3, <1>4 DEF BuilderStep

-----------------------------------------------------------------------------
(* What a caller sees of a step (ShareCheck).                              *)

\* A hash thread's step is invisible, or it answers one waiting caller: with the
\* dataset the share names, or with an error, which no steady share gets.
LEMMA HashSeen ==
    ASSUME PoolInv, HashOK, FairInv, NEW h \in HashThreads, HashStep(h)
    PROVE  /\ UNCHANGED <<want, steady, Offered>>
           /\ \/ UNCHANGED <<caller, answer>>
              \/ \E c \in Callers :
                    /\ caller[c] = "waiting" /\ caller' = [caller EXCEPT ![c] = "answered"]
                    /\ \/ answer' = [answer EXCEPT ![c] = want[c]]
                       \/ /\ Paced => ~steady[c]
                          /\ answer' = [answer EXCEPT ![c] = Error]
<1>1. UNCHANGED <<want, steady, Offered>>
  BY DEF HashStep, Pop, ScanSlot, NotFound, LockShared, Recheck, SwappedOut, Hash, Unlock,
         Answer, callerVars, slotVars, Offered
<1>2. CASE Pop(h) \/ ScanSlot(h) \/ LockShared(h) \/ Recheck(h) \/ Unlock(h)
  BY <1>1, <1>2 DEF Pop, ScanSlot, LockShared, Recheck, Unlock, callerVars
<1>3. CASE NotFound(h) \/ SwappedOut(h)
  <2>1. Holding(h) /\ Answer(h, Error)
    BY <1>3 DEF NotFound, SwappedOut, Holding
  <2>2. /\ job[h] \in Callers /\ caller[job[h]] = "waiting"
        /\ caller' = [caller EXCEPT ![job[h]] = "answered"]
        /\ answer' = [answer EXCEPT ![job[h]] = Error]
    BY <2>1, Held DEF Answer
  <2>3. Paced => NoSpuriousError'
    BY HashFair DEF FairInv
  <2>4. Paced => ~steady[job[h]]
    BY <1>1, <2>2, <2>3 DEF NoSpuriousError, PoolInv, PoolTypeOK
  <2>5. QED
    BY <1>1, <2>2, <2>4
<1>4. CASE Hash(h)
  <2>1. /\ Holding(h) /\ Answer(h, want[job[h]])
    BY <1>4 DEF Hash, Holding, HashOK
  <2>2. QED
    BY <1>1, <2>1, Held DEF Answer
<1>5. QED
  BY <1>2, <1>3, <1>4 DEF HashStep

\* The node and the dataset threads change what is in service, and nothing else
\* a caller can see.
LEMMA SlotSeen ==
    ASSUME PoolInv, NodeStep \/ \E i \in Slots : BuilderStep(i)
    PROVE  /\ UNCHANGED <<caller, want, answer>>
           /\ UNCHANGED <<Offered, steady>> \/ (KeepSteady /\ Offered' \in SUBSET Datasets)
<1>1. UNCHANGED <<caller, want, answer>>
  BY DEF NodeStep, BuilderStep, Invalidate, Announce, SetLoaded, Spawn,
         LockExclusive, UnlockExclusive, StartBuild, FinishBuild, callerVars
<1>2. UNCHANGED <<Offered, steady>> \/ KeepSteady
  BY DEF NodeStep, BuilderStep, Invalidate, Announce, SetLoaded, Spawn,
         LockExclusive, UnlockExclusive, StartBuild, FinishBuild, slotVars, Offered
<1>3. Offered' \in SUBSET Datasets
  BY NodePool, BuilderPool DEF PoolInv, PoolTypeOK, Offered
<1>4. QED
  BY <1>1, <1>2, <1>3

-----------------------------------------------------------------------------
(* The pool and its queue.                                                 *)

\* A hash thread between two jobs has no job.
HandOK == \A h \in HashThreads : ~Holding(h) => job[h] = None

LEMMA FifoInit == PoolInit => HandOK /\ Fifo!Init
  BY DEF PoolInit, HandOK, Fifo!Init

\* Steps of the node and of the dataset threads leave the queue alone.
LEMMA FrameFifo ==
    ASSUME HandOK, UNCHANGED <<callerVars, threadVars>>
    PROVE  HandOK' /\ UNCHANGED Fifo!fifoVars
  BY DEF HandOK, Holding, callerVars, threadVars, Fifo!fifoVars

\* push_job is a push of a producer that has nothing under way; the caller that
\* returns has nothing in the queue and in no thread's hand.
LEMMA CallerFifo ==
    ASSUME PoolInv, HandOK, NEW c \in Callers, Return(c) \/ \E d \in Datasets : Submit(c, d)
    PROVE  HandOK' /\ Fifo!Next
<1> USE DEF PoolInv, PoolTypeOK
<1>1. CASE Return(c)
  <2>1. /\ caller[c] = "answered" /\ caller' = [caller EXCEPT ![c] = "idle"]
        /\ UNCHANGED <<jobs, pc, job>>
    BY <1>1 DEF Return, threadVars
  <2>2. \A n \in DOMAIN jobs : jobs[n] # c
    BY <2>1 DEF JobsBelongToWaiters, QueuedJobsWaited
  <2>3. \A h \in HashThreads : job[h] # c
    <3>1. \A h \in HashThreads : Holding(h) => caller[job[h]] = "waiting"
      BY DEF JobsBelongToWaiters, HeldJobsWaited
    <3>2. \A h \in HashThreads : ~Holding(h) => job[h] = None
      BY DEF HandOK
    <3>3. c # None /\ caller[c] # "waiting"
      BY <2>1, HashPoolAssumption
    <3>4. QED
      BY <3>1, <3>2, <3>3
  <2>4. HandOK'
    BY <2>1 DEF HandOK, Holding
  <2>5. Fifo!Leave(c)
    BY <2>1, <2>2, <2>3 DEF Fifo!Leave, Fifo!Queued
  <2>6. QED
    BY <2>4, <2>5 DEF Fifo!Next
<1>2. ASSUME NEW d \in Datasets, Submit(c, d)
      PROVE  HandOK' /\ Fifo!Next
  <2>1. /\ caller[c] = "idle" /\ caller' = [caller EXCEPT ![c] = "waiting"]
        /\ jobs' = Append(jobs, c) /\ UNCHANGED <<pc, job>>
    BY <1>2 DEF Submit
  <2>2. HandOK'
    BY <2>1 DEF HandOK, Holding
  <2>3. Fifo!Put(c)
    BY <2>1 DEF Fifo!Put
  <2>4. QED
    BY <2>2, <2>3 DEF Fifo!Next
<1>3. QED
  BY <1>1, <1>2

\* A hash thread pops with empty hands, and puts its job down by answering it.
LEMMA HashFifo ==
    ASSUME PoolInv, HandOK, NEW h \in HashThreads, HashStep(h)
    PROVE  HandOK' /\ (Fifo!Next \/ UNCHANGED Fifo!fifoVars)
<1> USE DEF PoolInv, PoolTypeOK
<1>1. CASE Pop(h)
  <2>1. /\ pc[h] = "pop" /\ jobs # << >>
        /\ job' = [job EXCEPT ![h] = Head(jobs)] /\ jobs' = Tail(jobs)
        /\ pc' = [pc EXCEPT ![h] = "scan"] /\ UNCHANGED caller
    BY <1>1 DEF Pop, callerVars
  <2>2. HandOK'
    BY <2>1 DEF HandOK, Holding
  <2>3. Fifo!Take(h)
    BY <2>1 DEF HandOK, Holding, Fifo!Take
  <2>4. QED
    BY <2>2, <2>3 DEF Fifo!Next
<1>2. ASSUME NEW a, Holding(h), Answer(h, a), UNCHANGED jobs,
             NEW q \in {"pop", "unlock"}, pc' = [pc EXCEPT ![h] = q]
      PROVE  HandOK' /\ Fifo!Next
  <2>1. job[h] \in Callers /\ caller[job[h]] = "waiting" /\ job[h] # None
    BY <1>2, HashPoolAssumption DEF JobsBelongToWaiters, HeldJobsWaited
  <2>2. /\ caller' = [caller EXCEPT ![job[h]] = "answered"]
        /\ job' = [job EXCEPT ![h] = None]
    BY <1>2 DEF Answer
  <2>3. HandOK'
    BY <1>2, <2>2 DEF HandOK, Holding
  <2>4. \A c \in Callers : caller'[c] # "idle" <=> caller[c] # "idle"
    BY <2>1, <2>2
  <2>5. Fifo!Finish(h)
    BY <1>2, <2>1, <2>2, <2>4 DEF Fifo!Finish
  <2>6. QED
    BY <2>3, <2>5 DEF Fifo!Next
<1>3. CASE NotFound(h)
  BY <1>2, <1>3 DEF NotFound, Holding
<1>4. CASE SwappedOut(h)
  BY <1>2, <1>4 DEF SwappedOut, Holding
<1>5. CASE Hash(h)
  BY <1>2, <1>5 DEF Hash, Holding
<1>6. CASE ScanSlot(h) \/ LockShared(h) \/ Recheck(h) \/ Unlock(h)
  <2>1. UNCHANGED <<caller, jobs, job>>
    BY <1>6 DEF ScanSlot, LockShared, Recheck, Unlock, callerVars
  <2>2. \A g \in HashThreads : Holding(g)' <=> Holding(g)
    BY <1>6 DEF ScanSlot, LockShared, Recheck, Unlock, Holding
  <2>3. QED
    BY <2>1, <2>2 DEF HandOK, Fifo!fifoVars
<1>7. QED
  BY <1>1, <1>3, <1>4, <1>5, <1>6 DEF HashStep

LEMMA SlotFifo ==
    ASSUME HandOK, NodeStep \/ \E i \in Slots : BuilderStep(i)
    PROVE  HandOK' /\ UNCHANGED Fifo!fifoVars
<1>1. UNCHANGED <<callerVars, threadVars>>
  BY DEF NodeStep, BuilderStep, Invalidate, Announce, SetLoaded, Spawn,
         LockExclusive, UnlockExclusive, StartBuild, FinishBuild
<1>2. QED
  BY <1>1, FrameFifo
-----------------------------------------------------------------------------
(* The turn of the slots.                                                  *)

\* Slots are used from the first on, and then all of them are in use.
TurnOK ==
    /\ \A i \in Slots : loaded[i] # None <=> (loaded[NSlots - 1] # None \/ i < Oldest)
    /\ nodepc \in {"invalidated", "copied"} => ctr = NextSlot(nslot)

LEMMA OldestSlot ==
    ASSUME PoolTypeOK
    PROVE  /\ NSlots \in Nat /\ NSlots > 0 /\ NSlots - 1 \in Slots
           /\ Slots = 0..(NSlots - 1)
           /\ Oldest \in Slots
           /\ \A n \in 1..NSlots : Turn(n) \in Slots
  BY HashPoolAssumption DEF PoolTypeOK, Oldest, Slots, Turn

LEMMA TurnInit == PoolInit => TurnOK
  BY HashPoolAssumption DEF PoolInit, TurnOK, Oldest, Slots

\* Lists built by position, as the order of the slots is.
LEMMA AppendIs ==
    ASSUME NEW S, NEW q \in Seq(S), NEW x \in S, NEW f,
           f = [i \in 1..(Len(q) + 1) |-> f[i]],
           \A i \in 1..Len(q) : f[i] = q[i], f[Len(q) + 1] = x
    PROVE  f = Append(q, x)
<1>1. Len(q) \in Nat /\ \A i \in 1..Len(q) : q[i] \in S
  OBVIOUS
<1>2. \A i \in 1..(Len(q) + 1) : f[i] \in S
  <2>1. \A i \in 1..(Len(q) + 1) : i \in 1..Len(q) \/ i = Len(q) + 1
    BY <1>1
  <2>2. QED
    BY <1>1, <2>1
<1>3. f \in Seq(S) /\ Len(f) = Len(q) + 1
  BY <1>1, <1>2
<1>4. Append(q, x) \in Seq(S) /\ Len(Append(q, x)) = Len(q) + 1
  BY AppendProperties
<1>5. \A i \in 1..(Len(q) + 1) : f[i] = Append(q, x)[i]
  BY <1>1, AppendProperties
<1>6. QED
  <2>1. Len(f) = Len(Append(q, x)) /\ \A i \in 1..Len(f) : f[i] = Append(q, x)[i]
    BY <1>3, <1>4, <1>5
  <2>2. f \in Seq(S)
    BY <1>3
  <2>3. QED
    BY ONLY <1>4, <2>1, <2>2, SeqEqual

LEMMA RotateIs ==
    ASSUME NEW S, NEW q \in Seq(S), q # << >>, NEW x \in S, NEW f,
           f = [i \in 1..Len(q) |-> f[i]],
           \A i \in 1..(Len(q) - 1) : f[i] = q[i + 1], f[Len(q)] = x
    PROVE  f = Append(Tail(q), x)
<1>1. Len(q) \in Nat \ {0}
  OBVIOUS
<1>2. /\ Tail(q) \in Seq(S) /\ Len(Tail(q)) = Len(q) - 1
      /\ \A i \in 1..Len(Tail(q)) : Tail(q)[i] = q[i + 1]
  BY HeadTailProperties
<1>3. Len(Tail(q)) + 1 = Len(q)
  BY <1>1, <1>2
<1>4. \A i \in 1..Len(Tail(q)) : f[i] = Tail(q)[i]
  BY <1>2
<1>5. f = [i \in 1..(Len(Tail(q)) + 1) |-> f[i]] /\ f[Len(Tail(q)) + 1] = x
  BY <1>3
<1>6. QED
  <2> DEFINE t == Tail(q)
  <2>1. /\ t \in Seq(S) /\ f = [i \in 1..(Len(t) + 1) |-> f[i]]
        /\ \A i \in 1..Len(t) : f[i] = t[i]
        /\ f[Len(t) + 1] = x
    BY <1>2, <1>4, <1>5
  <2> HIDE DEF t
  <2>2. f = Append(t, x)
    BY <2>1, AppendIs
  <2>3. QED
    BY <2>2 DEF t

\* The arithmetic of the turns: those of a slot and of the one after it.
LEMMA TurnPlace ==
    ASSUME PoolTypeOK, NEW i \in Slots
    PROVE  \E n \in 1..NSlots : Turn(n) = i
<1>1. NSlots \in Nat /\ i \in 0..(NSlots - 1) /\ Oldest \in 0..(NSlots - 1)
  BY OldestSlot
<1>2. CASE i >= Oldest
  <2>1. i - Oldest + 1 \in 1..NSlots /\ Turn(i - Oldest + 1) = i
    BY <1>1, <1>2 DEF Turn
  <2>2. QED
    BY <2>1
<1>3. CASE i < Oldest
  <2>1. i - Oldest + 1 + NSlots \in 1..NSlots /\ Turn(i - Oldest + 1 + NSlots) = i
    BY <1>1, <1>3 DEF Turn
  <2>2. QED
    BY <2>1
<1>4. QED
  BY <1>1, <1>2, <1>3

LEMMA TurnNext ==
    ASSUME PoolTypeOK, Oldest' = NextSlot(Oldest)
    PROVE  /\ Turn(NSlots)' = Oldest
           /\ \A n \in 1..(NSlots - 1) : Turn(n)' = Turn(n + 1) /\ Turn(n + 1) # Oldest
<1>1. NSlots \in Nat /\ NSlots > 0 /\ Oldest \in 0..(NSlots - 1)
  BY OldestSlot
<1>2. CASE Oldest + 1 = NSlots
  <2>1. Oldest' = 0
    BY <1>2 DEF NextSlot
  <2>2. QED
    BY <1>1, <1>2, <2>1 DEF Turn
<1>3. CASE Oldest + 1 # NSlots
  <2>1. Oldest' = Oldest + 1
    BY <1>3 DEF NextSlot
  <2>2. QED
    BY <1>1, <1>3, <2>1 DEF Turn
<1>4. QED
  BY <1>2, <1>3

\* In either of its forms the order lists each slot in use once.
LEMMA LoadedFacts ==
    ASSUME PoolTypeOK, TurnOK
    PROVE  /\ Loaded \in Seq(Datasets \cup {None})
           /\ loaded[NSlots - 1] = None =>
                 /\ Len(Loaded) = Oldest /\ Len(Loaded) < NSlots
                 /\ \A n \in 1..Oldest : Loaded[n] = loaded[n - 1]
           /\ loaded[NSlots - 1] # None =>
                 /\ Len(Loaded) = NSlots
                 /\ \A n \in 1..NSlots : Loaded[n] = loaded[Turn(n)]
<1> USE OldestSlot DEF PoolTypeOK
<1>1. CASE loaded[NSlots - 1] = None
  <2>1. Loaded = [n \in 1..Oldest |-> loaded[n - 1]]
    BY <1>1 DEF Loaded
  <2>2. \A n \in 1..Oldest : loaded[n - 1] \in Datasets \cup {None}
    OBVIOUS
  <2>3. Oldest \in Nat /\ Oldest < NSlots
    OBVIOUS
  <2>4. QED
    BY <1>1, <2>1, <2>2, <2>3
<1>2. CASE loaded[NSlots - 1] # None
  <2>1. Loaded = [n \in 1..NSlots |-> loaded[Turn(n)]]
    BY <1>2 DEF Loaded
  <2>2. \A n \in 1..NSlots : loaded[Turn(n)] \in Datasets \cup {None}
    OBVIOUS
  <2>3. NSlots \in Nat
    OBVIOUS
  <2>4. Loaded \in Seq(Datasets \cup {None}) /\ Len(Loaded) = NSlots
    BY ONLY <2>1, <2>2, <2>3
  <2>5. QED
    BY <1>2, <2>1, <2>4
<1>3. QED
  BY <1>1, <1>2

\* The slots searched are those listed.
LEMMA TurnSearch ==
    ASSUME PoolTypeOK, TurnOK
    PROVE  SearchesLoaded
<1> SUFFICES ASSUME NEW d \in Datasets
             PROVE  HasDataset(d) <=> InSeq(d, Loaded)
  BY DEF SearchesLoaded
<1>0. d # None
  BY HashPoolAssumption
<1>1. CASE loaded[NSlots - 1] = None
  <2>1. /\ DOMAIN Loaded = 1..Oldest /\ Oldest \in Nat /\ Oldest <= NSlots
        /\ \A n \in 1..Oldest : Loaded[n] = loaded[n - 1]
    BY <1>1, LoadedFacts, OldestSlot
  <2>2. Slots = 0..(NSlots - 1) /\ NSlots \in Nat
    BY OldestSlot
  <2>3. ASSUME NEW i \in Slots, loaded[i] = d
        PROVE  InSeq(d, Loaded)
    <3>1. i < Oldest
      BY <1>0, <1>1, <2>3 DEF TurnOK
    <3>2. i + 1 \in 1..Oldest /\ (i + 1) - 1 = i
      BY <2>1, <2>2, <3>1
    <3>3. QED
      BY <2>1, <2>3, <3>2 DEF InSeq
  <2>4. ASSUME NEW n \in DOMAIN Loaded, Loaded[n] = d
        PROVE  HasDataset(d)
    <3>1. n - 1 \in Slots
      BY <2>1, <2>2
    <3>2. QED
      BY <2>1, <2>4, <3>1 DEF HasDataset
  <2>5. QED
    BY <2>3, <2>4 DEF HasDataset, InSeq
<1>2. CASE loaded[NSlots - 1] # None
  <2>1. /\ DOMAIN Loaded = 1..NSlots
        /\ \A n \in 1..NSlots : Loaded[n] = loaded[Turn(n)] /\ Turn(n) \in Slots
    BY <1>2, LoadedFacts, OldestSlot
  <2>2. QED
    BY <2>1, TurnPlace DEF HasDataset, InSeq
<1>3. QED
  BY <1>1, <1>2

\* What a load of the slot whose turn it is does to the slots.
LEMMA LoadStep ==
    ASSUME PoolInv, TurnOK, NEW from \in {"invalidated", "copied"}, SetLoaded(from)
    PROVE  /\ nds \in Datasets /\ nds # None
           /\ loaded' = [loaded EXCEPT ![Oldest] = nds]
           /\ loaded'[Oldest] = nds
           /\ \A i \in Slots \ {Oldest} : loaded'[i] = loaded[i]
           /\ Oldest' = NextSlot(Oldest)
           /\ nodepc' = "loaded"
<1>1. /\ nodepc = from /\ nodepc' = "loaded" /\ nds \in Datasets
      /\ loaded' = [loaded EXCEPT ![nslot] = nds]
      /\ UNCHANGED <<ctr, nslot>>
  BY DEF SetLoaded, PoolInv, IndexOK
<1>2. Oldest = nslot /\ Oldest' = NextSlot(nslot) /\ nslot \in Slots
  BY <1>1 DEF Oldest, TurnOK, PoolInv, PoolTypeOK
<1>3. QED
  BY <1>1, <1>2, HashPoolAssumption DEF PoolInv, PoolTypeOK

\* Before the slots are all in use, a load appends.
LEMMA TurnFill ==
    ASSUME PoolInv, TurnOK, NEW from \in {"invalidated", "copied"}, SetLoaded(from),
           loaded[NSlots - 1] = None
    PROVE  TurnOK' /\ Loaded' = Append(Loaded, nds)
<1>1. /\ NSlots \in Nat /\ NSlots > 0 /\ Slots = 0..(NSlots - 1) /\ Oldest \in Slots
  BY OldestSlot DEF PoolInv
<1>2. /\ Loaded \in Seq(Datasets \cup {None}) /\ Len(Loaded) = Oldest
      /\ \A n \in 1..Oldest : Loaded[n] = loaded[n - 1]
  BY LoadedFacts DEF PoolInv
<1>3. \A i \in Slots : loaded[i] # None <=> i < Oldest
  BY DEF TurnOK
<1>4. CASE Oldest + 1 = NSlots
  <2>1. Oldest' = 0 /\ loaded'[NSlots - 1] = nds
    BY <1>1, <1>4, LoadStep DEF NextSlot
  <2>2. \A i \in Slots : loaded'[i] # None
    BY <1>1, <1>3, <1>4, LoadStep
  <2>3. TurnOK'
    BY <2>1, <2>2, LoadStep DEF TurnOK
  <2>4. Loaded' = [n \in 1..NSlots |-> loaded'[Turn(n)']]
    BY <2>1, LoadStep DEF Loaded
  <2>5. \A n \in 1..NSlots : Turn(n)' = n - 1
    BY <1>1, <2>1 DEF Turn
  <2>6. Loaded' = [n \in 1..NSlots |-> Loaded'[n]]
    BY <2>4
  <2>7. \A n \in 1..Oldest : Loaded'[n] = Loaded[n]
    BY <1>1, <1>2, <1>4, <2>4, <2>5, LoadStep
  <2>8. Loaded'[NSlots] = nds
    BY <1>1, <2>1, <2>4, <2>5
  <2>9. QED
    BY <1>2, <1>4, <2>3, <2>6, <2>7, <2>8, LoadStep, AppendIs
<1>5. CASE Oldest + 1 # NSlots
  <2>1. Oldest' = Oldest + 1 /\ loaded'[NSlots - 1] = None
    BY <1>1, <1>5, LoadStep DEF NextSlot
  <2>2. \A i \in Slots : loaded'[i] # None <=> i < Oldest + 1
    BY <1>1, <1>3, LoadStep
  <2>3. TurnOK'
    BY <2>1, <2>2, LoadStep DEF TurnOK
  <2>4. Loaded' = [n \in 1..(Oldest + 1) |-> loaded'[n - 1]]
    BY <2>1 DEF Loaded
  <2>5. Loaded' = [n \in 1..(Oldest + 1) |-> Loaded'[n]]
    BY <2>4
  <2>6. \A n \in 1..Oldest : Loaded'[n] = Loaded[n]
    BY <1>1, <1>2, <2>4, LoadStep
  <2>7. Loaded'[Oldest + 1] = nds
    BY <1>1, <2>4, LoadStep
  <2>8. QED
    BY <1>2, <2>3, <2>5, <2>6, <2>7, LoadStep, AppendIs
<1>6. QED
  BY <1>4, <1>5

\* From then on, it takes the place of the oldest.
LEMMA TurnRotate ==
    ASSUME PoolInv, TurnOK, NEW from \in {"invalidated", "copied"}, SetLoaded(from),
           loaded[NSlots - 1] # None
    PROVE  TurnOK' /\ Loaded' = Append(Tail(Loaded), nds)
<1>1. /\ NSlots \in Nat /\ NSlots > 0 /\ NSlots - 1 \in Slots
      /\ \A n \in 1..NSlots : Turn(n) \in Slots
  BY OldestSlot DEF PoolInv
<1>2. /\ Loaded \in Seq(Datasets \cup {None}) /\ Len(Loaded) = NSlots
      /\ \A n \in 1..NSlots : Loaded[n] = loaded[Turn(n)]
  BY LoadedFacts DEF PoolInv
<1>3. \A i \in Slots : loaded'[i] # None
  BY LoadStep DEF TurnOK
<1>4. TurnOK'
  BY <1>1, <1>3, LoadStep DEF TurnOK
<1>5. Loaded' = [n \in 1..NSlots |-> loaded'[Turn(n)']]
  BY <1>1, <1>3 DEF Loaded
<1>6. /\ Turn(NSlots)' = Oldest
      /\ \A n \in 1..(NSlots - 1) : Turn(n)' = Turn(n + 1) /\ Turn(n + 1) # Oldest
  BY LoadStep, TurnNext DEF PoolInv
<1>7. Loaded'[NSlots] = nds
  BY <1>1, <1>5, <1>6, LoadStep
<1>8. ASSUME NEW n \in 1..(NSlots - 1)
      PROVE  Loaded'[n] = Loaded[n + 1]
  <2>1. n \in 1..NSlots /\ n + 1 \in 1..NSlots
    BY <1>1
  <2>2. Loaded'[n] = loaded'[Turn(n + 1)]
    BY <1>5, <1>6, <2>1
  <2>3. loaded'[Turn(n + 1)] = loaded[Turn(n + 1)]
    BY <1>1, <1>6, <2>1, LoadStep
  <2>4. QED
    BY <1>2, <2>1, <2>2, <2>3
<1>9. Loaded' = [n \in 1..NSlots |-> Loaded'[n]]
  BY <1>5
<1>10. Loaded # << >>
  BY <1>1, <1>2
<1>11. QED
  BY <1>2, <1>4, <1>7, <1>8, <1>9, <1>10, LoadStep, RotateIs

\* A step of the node does Load, or leaves the order alone.
LEMMA NodeTurn ==
    ASSUME PoolInv, TurnOK, FairInv, NodeStep
    PROVE  /\ TurnOK'
           /\ loaded' = loaded => Loaded' = Loaded
           /\ loaded' # loaded => Loaded' = Load(Loaded, nds)
<1>1. ASSUME NEW from \in {"invalidated", "copied"}, SetLoaded(from)
      PROVE  /\ TurnOK' /\ Loaded' = Load(Loaded, nds) /\ loaded' # loaded
  <2>1. nds \in Datasets /\ ~HasDataset(nds)
    BY <1>1 DEF SetLoaded, PoolInv, IndexOK, FairInv, LoadedOnce
  <2>2. ~InSeq(nds, Loaded)
    BY <2>1, TurnSearch DEF PoolInv, SearchesLoaded
  <2>3. loaded' # loaded
    BY <1>1, <2>1 DEF SetLoaded, HasDataset, PoolInv, PoolTypeOK
  <2>4. CASE loaded[NSlots - 1] = None
    <3>1. Len(Loaded) < NSlots
      BY <2>4, LoadedFacts DEF PoolInv
    <3>2. QED
      BY <1>1, <2>2, <2>3, <2>4, <3>1, TurnFill DEF Load
  <2>5. CASE loaded[NSlots - 1] # None
    <3>1. ~(Len(Loaded) < NSlots)
      BY <2>5, LoadedFacts, HashPoolAssumption DEF PoolInv
    <3>2. QED
      BY <1>1, <2>2, <2>3, <2>5, <3>1, TurnRotate DEF Load
  <2>6. QED
    BY <2>4, <2>5
<1>2. CASE Spawn \/ \E d \in Datasets : Invalidate(d) \/ Announce(d)
  <2>1. UNCHANGED <<loaded, Oldest>>
    BY <1>2 DEF Spawn, Invalidate, Announce, Oldest, slotVars
  <2>2. nodepc' \in {"invalidated", "copied"} => ctr' = NextSlot(nslot')
    BY <1>2 DEF Spawn, Invalidate, Announce, TurnOK
  <2>3. TurnOK'
    BY <2>1, <2>2 DEF TurnOK
  <2>4. Loaded' = Loaded
    BY <2>1 DEF Loaded, Turn
  <2>5. QED
    BY <2>1, <2>3, <2>4
<1>3. QED
  BY <1>1, <1>2 DEF NodeStep

\* Nobody else sets a loaded id or the counter.
LEMMA FrameTurn ==
    ASSUME TurnOK, UNCHANGED <<loaded, ctr, nslot>>,
           nodepc' = nodepc \/ (nodepc = "invalidated" /\ nodepc' = "copied")
    PROVE  TurnOK' /\ Loaded' = Loaded
<1>1. Oldest' = Oldest
  BY DEF Oldest
<1>2. TurnOK'
  BY <1>1 DEF TurnOK
<1>3. Loaded' = Loaded
  BY <1>1 DEF Loaded, Turn
<1>4. QED
  BY <1>2, <1>3
=============================================================================
