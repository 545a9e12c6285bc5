-------------------------- MODULE RxHashpoolProofs --------------------------
(***************************************************************************)
(* The RandomX pool.  Typing, the job protocol and the settling of a slot  *)
(* hold at any pace of the node.  That a hash is made with the dataset the *)
(* share names is proved for a Paced node, and is false for another: see   *)
(* the run rx_race.                                                        *)
(***************************************************************************)
EXTENDS RxHashpool, HashPoolProofs

\* Outside of a load the seed and the loaded id of a slot agree, and a dataset
\* thread always finds a seed.
SeedOK ==
    /\ seed \in [Slots -> Datasets \cup {None}]
    /\ \A i \in Slots : nodepc = "idle" \/ nslot # i => seed[i] = loaded[i]
    /\ \A i \in Slots : pend[i] > 0 \/ builder[i] \in {"locked", "building"} => seed[i] \in Datasets
    /\ \A i \in Slots : builder[i] = "building" => Content(input[i])
    /\ nodepc \in {"copied", "loaded"} => seed[nslot] = nds
    /\ nodepc = "loaded" => loaded[nslot] = nds

\* As in PpHashpoolProofs.
SettleOK ==
    \A i \in Slots : pend[i] = 0 /\ (nodepc = "idle" \/ nslot # i) =>
        /\ builder[i] = "building" => input[i] = loaded[i]
        /\ builder[i] \in {"free", "built"} /\ loaded[i] # None =>
              ready[i] = loaded[i] /\ cache[i] = loaded[i]

\* With a Paced node no seed is written while a dataset thread may read it.
PacedOK ==
    \A i \in Slots :
        /\ nodepc # "idle" /\ nslot = i => pend[i] = 0 /\ builder[i] = "free"
        /\ builder[i] = "building" => input[i] = seed[i]
        /\ builder[i] # "building" /\ ready[i] # None => cache[i] = ready[i]

SlotInv == SeedOK /\ SettleOK /\ (Paced => PacedOK)

IInv == PoolInv /\ SlotInv /\ FairInv /\ (Paced => HashOK /\ RightDataset)

LEMMA InitIInv == Init => IInv
<1>1. Init => SlotInv
  BY SlotFacts DEF Init, PoolInit, SlotInv, SeedOK, SettleOK, PacedOK
<1>2. QED
  BY <1>1, PoolInitInv, FairInit DEF Init, IInv

LEMMA IInvProperties == IInv => (Paced => ReadyMeansBuilt) /\ SettledSlotIsReady
<1>1. IInv /\ Paced => ReadyMeansBuilt
  BY DEF IInv, SlotInv, PacedOK, ReadyMeansBuilt
<1>2. IInv => SettledSlotIsReady
  BY DEF IInv, SlotInv, PoolInv, PoolTypeOK, SettleOK, SettledSlotIsReady, Live
<1>3. QED
  BY <1>1, <1>2

\* Callers and hash threads write to no slot.
LEMMA FrameSlots ==
    ASSUME IInv, UNCHANGED <<slotVars, nodeVars, seed>>
    PROVE  SlotInv'
  BY DEF IInv, SlotInv, SeedOK, SettleOK, PacedOK, slotVars, nodeVars

LEMMA RequestSlots ==
    ASSUME IInv, NEW d \in Datasets, RequestDataset(d)
    PROVE  SlotInv'
<1> USE DEF IInv, PoolInv, PoolTypeOK, SlotInv
<1>1. CASE Invalidate(d)
  <2>1. /\ ctr \in Slots /\ ready' = [ready EXCEPT ![ctr] = None] /\ nslot' = ctr
        /\ nodepc = "idle" /\ nodepc' = "invalidated"
        /\ Paced => pend[ctr] = 0 /\ builder[ctr] = "free"
        /\ UNCHANGED <<loaded, cache, builder, input, pend, seed>>
    BY <1>1 DEF Invalidate, RequestDataset, Live
  <2>2. SeedOK'
    BY <2>1 DEF SeedOK, Content
  <2>3. SettleOK'
    BY <2>1 DEF SettleOK
  <2>4. Paced => PacedOK'
    BY <2>1 DEF PacedOK
  <2>5. QED
    BY <2>2, <2>3, <2>4
<1>2. CASE Announce(d)
  BY <1>2 DEF Announce, RequestDataset, slotVars, SeedOK, SettleOK, PacedOK
<1>3. QED
  BY <1>1, <1>2 DEF RequestDataset

LEMMA LoadSlots ==
    ASSUME IInv, LoadDataset
    PROVE  SlotInv'
<1> USE DEF IInv, PoolInv, PoolTypeOK, SlotInv
<1>1. CASE CopySeed
  <2>1. /\ nslot \in Slots /\ nds \in Datasets
        /\ seed' = [seed EXCEPT ![nslot] = nds]
        /\ nodepc = "invalidated" /\ nodepc' = "copied"
        /\ UNCHANGED <<ready, loaded, cache, builder, input, pend, nslot, nds>>
    BY <1>1 DEF CopySeed, IndexOK, slotVars
  <2>2. SeedOK'
    BY <2>1 DEF SeedOK, Content
  <2>3. SettleOK'
    BY <2>1 DEF SettleOK
  <2>4. Paced => PacedOK'
    BY <2>1 DEF PacedOK
  <2>5. QED
    BY <2>2, <2>3, <2>4
<1>2. CASE SetLoaded("copied") /\ UNCHANGED seed
  <2>1. /\ nslot \in Slots /\ nds \in Datasets
        /\ loaded' = [loaded EXCEPT ![nslot] = nds]
        /\ nodepc = "copied" /\ nodepc' = "loaded"
        /\ UNCHANGED <<ready, cache, builder, input, pend, nslot, nds, seed>>
    BY <1>2 DEF SetLoaded, IndexOK
  <2>2. SeedOK'
    BY <2>1 DEF SeedOK, Content
  <2>3. SettleOK'
    BY <2>1 DEF SettleOK
  <2>4. Paced => PacedOK'
    BY <2>1 DEF PacedOK
  <2>5. QED
    BY <2>2, <2>3, <2>4
<1>3. CASE Spawn /\ UNCHANGED seed
  <2>1. /\ nslot \in Slots /\ nodepc = "loaded" /\ nodepc' = "idle"
        /\ nds \in Datasets
        /\ pend' = [pend EXCEPT ![nslot] = @ + 1] /\ pend'[nslot] # 0
        /\ UNCHANGED <<loaded, ready, cache, builder, input, seed>>
    BY <1>3, HashPoolAssumption DEF Spawn, IndexOK
  <2>2. SeedOK'
    BY <2>1 DEF SeedOK, Content
  <2>3. SettleOK'
    BY <2>1 DEF SettleOK
  <2>4. Paced => PacedOK'
    BY <2>1 DEF PacedOK
  <2>5. QED
    BY <2>2, <2>3, <2>4
<1>4. QED
  BY <1>1, <1>2, <1>3 DEF LoadDataset

\* What a dataset thread may read, and what it reads under a Paced node.
LEMMA SeedSeenFacts ==
    ASSUME IInv, NEW i \in Slots, builder[i] # "free", seed[i] \in Datasets,
           NEW x \in SeedSeen(i)
    PROVE  /\ Content(x)
           /\ nodepc = "idle" \/ nslot # i => x = loaded[i]
           /\ Paced => x = seed[i]
  BY DEF IInv, PoolInv, PoolTypeOK, IndexOK, SlotInv, SeedOK, PacedOK, SeedSeen, Content

LEMMA DatasetSlots ==
    ASSUME IInv, NEW i \in Slots, DatasetThread(i)
    PROVE  SlotInv' /\ BuilderStep(i)
<1> USE DEF IInv, PoolInv, PoolTypeOK, SlotInv, nodeVars
<1>0. UNCHANGED seed
  BY DEF DatasetThread
<1>1. CASE LockExclusive(i)
  <2>1. /\ builder[i] = "free" /\ pend[i] > 0
        /\ pend' = [pend EXCEPT ![i] = @ - 1]
        /\ builder' = [builder EXCEPT ![i] = "locked"]
        /\ UNCHANGED <<ready, loaded, cache, input, nodepc, nslot, nds, seed>>
    BY <1>0, <1>1 DEF LockExclusive
  <2>2. SeedOK'
    BY <2>1 DEF SeedOK, Content
  <2>3. SettleOK'
    BY <2>1 DEF SettleOK
  <2>4. Paced => PacedOK'
    BY <2>1 DEF PacedOK
  <2>5. QED
    BY <1>1, <2>2, <2>3, <2>4 DEF BuilderStep
<1>2. ASSUME NEW x \in SeedSeen(i), StartBuild(i, x)
      PROVE  SlotInv' /\ BuilderStep(i)
  <2>1. /\ builder[i] = "locked"
        /\ input' = [input EXCEPT ![i] = x]
        /\ cache' = [cache EXCEPT ![i] = Scrap]
        /\ builder' = [builder EXCEPT ![i] = "building"]
        /\ UNCHANGED <<ready, loaded, pend, nodepc, nslot, nds, seed>>
    BY <1>0, <1>2 DEF StartBuild
  <2>2. seed[i] \in Datasets
    BY <2>1 DEF SeedOK
  <2>3. /\ Content(x)
        /\ nodepc = "idle" \/ nslot # i => x = loaded[i]
        /\ Paced => x = seed[i]
    BY <2>1, <2>2, SeedSeenFacts
  <2>4. SeedOK'
    BY <2>1, <2>2, <2>3 DEF SeedOK, Content
  <2>5. SettleOK'
    BY <2>1, <2>3 DEF SettleOK
  <2>6. Paced => PacedOK'
    BY <2>1, <2>3 DEF PacedOK
  <2>7. QED
    BY <1>2, <2>3, <2>4, <2>5, <2>6 DEF BuilderStep
<1>3. ASSUME NEW x \in SeedSeen(i), FinishBuild(i, x)
      PROVE  SlotInv' /\ BuilderStep(i)
  <2>1. /\ builder[i] = "building"
        /\ cache' = [cache EXCEPT ![i] = input[i]]
        /\ ready' = [ready EXCEPT ![i] = x]
        /\ builder' = [builder EXCEPT ![i] = "built"]
        /\ \A j \in Slots : j # i => input'[j] = input[j]
        /\ UNCHANGED <<loaded, pend, nodepc, nslot, nds, seed>>
    BY <1>0, <1>3 DEF FinishBuild
  <2>2. seed[i] \in Datasets /\ Content(input[i])
    BY <2>1 DEF SeedOK
  <2>3. /\ Content(x)
        /\ nodepc = "idle" \/ nslot # i => x = loaded[i]
        /\ Paced => x = seed[i]
    BY <2>1, <2>2, SeedSeenFacts
  <2>4. SeedOK'
    BY <2>1, <2>2, <2>3 DEF SeedOK, Content
  <2>5. SettleOK'
    BY <2>1, <2>3 DEF SettleOK
  <2>6. Paced => PacedOK'
    BY <2>1, <2>3 DEF PacedOK
  <2>7. QED
    BY <1>3, <2>2, <2>3, <2>4, <2>5, <2>6 DEF BuilderStep
<1>4. CASE UnlockExclusive(i)
  <2>1. /\ builder[i] = "built"
        /\ builder' = [builder EXCEPT ![i] = "free"]
        /\ UNCHANGED <<ready, loaded, cache, input, pend, nodepc, nslot, nds, seed>>
    BY <1>0, <1>4 DEF UnlockExclusive
  <2>2. SeedOK' /\ SettleOK'
    BY <2>1 DEF SeedOK, SettleOK, Content
  <2>3. Paced => PacedOK'
    BY <2>1 DEF PacedOK
  <2>4. QED
    BY <1>4, <2>2, <2>3 DEF BuilderStep
<1>5. QED
  BY <1>1, <1>2, <1>3, <1>4 DEF DatasetThread, BuildCache

LEMMA NextIInv == IInv /\ [Next]_vars => IInv'
<1> SUFFICES ASSUME IInv, [Next]_vars
             PROVE  IInv'
  OBVIOUS
<1> USE DEF IInv
<1>1. ASSUME NEW c \in Callers, Caller(c)
      PROVE  IInv'
  <2>1. UNCHANGED <<slotVars, nodeVars, seed>>
    BY <1>1 DEF Caller, Return, Submit
  <2>2. QED
    BY <1>1, <2>1, CallerPool, CallerRight, CallerFair, FrameSlots DEF Caller
<1>2. ASSUME NEW h \in HashThreads, HashThread(h)
      PROVE  IInv'
  <2>1. UNCHANGED <<slotVars, nodeVars, seed>>
    BY <1>2 DEF HashThread, HashStep, Pop, ScanSlot, NotFound, LockShared, Recheck, SwappedOut, Hash, Unlock
  <2>2. QED
    BY <1>2, <2>1, HashPoolInv, HashRight, HashFair, FrameSlots, IInvProperties DEF HashThread
<1>3. ASSUME NEW d \in Datasets, RequestDataset(d)
      PROVE  IInv'
  <2>1. NodeStep
    BY <1>3 DEF RequestDataset, NodeStep
  <2>2. QED
    BY <1>3, <2>1, NodePool, NodeRight, NodeFair, RequestSlots
<1>4. CASE CopySeed
  <2>1. /\ nodepc' # "idle" /\ nodepc # "idle" /\ nodepc' = "copied"
        /\ UNCHANGED <<callerVars, threadVars, slotVars, ctr, nslot, nds, announced, steady>>
    BY <1>4 DEF CopySeed
  <2>2. PoolTypeOK' /\ IndexOK' /\ LockOK'
    BY <2>1 DEF PoolInv, PoolTypeOK, IndexOK, LockOK, callerVars, threadVars, slotVars
  <2>3. JobsBelongToWaiters'
    BY <2>1, FrameJobs DEF PoolInv, Holding, callerVars, threadVars
  <2>4. Paced => HashOK' /\ RightDataset'
    BY <2>1 DEF HashOK, RightDataset, callerVars, threadVars, slotVars
  <2>5. SlotInv'
    BY <1>4, LoadSlots DEF LoadDataset
  <2>6. FairInv'
    BY <1>4, <2>1, FrameFair
    DEF CopySeed, FairInv, LoadedOnce, HasDataset, ServeOK, threadVars, slotVars
  <2>7. QED
    BY <2>2, <2>3, <2>4, <2>5, <2>6 DEF PoolInv
<1>5. CASE (SetLoaded("copied") \/ Spawn) /\ UNCHANGED seed
  <2>1. NodeStep /\ LoadDataset
    BY <1>5 DEF LoadDataset, NodeStep
  <2>2. QED
    BY <2>1, NodePool, NodeRight, NodeFair, LoadSlots
<1>6. ASSUME NEW i \in Slots, DatasetThread(i)
      PROVE  IInv'
  <2>1. Paced /\ builder[i] = "building" => ready'[i] = loaded[i]
    <3> SUFFICES ASSUME Paced, builder[i] = "building"
                 PROVE  ready'[i] = loaded[i]
      OBVIOUS
    <3>1. PICK x \in SeedSeen(i) : FinishBuild(i, x)
      BY <1>6 DEF DatasetThread, BuildCache, LockExclusive, StartBuild, UnlockExclusive
    <3>2. x = loaded[i]
      BY SeedSeenFacts DEF SlotInv, SeedOK, PacedOK
    <3>3. QED
      BY <3>1, <3>2 DEF FinishBuild, PoolInv, PoolTypeOK
  <2>2. QED
    BY <1>6, <2>1, DatasetSlots, BuilderPool, BuilderRight, BuilderFair
<1>7. CASE UNCHANGED vars
  <2>1. UNCHANGED <<callerVars, threadVars, slotVars, nodeVars, steady, seed>>
    BY <1>7 DEF vars, poolVars
  <2>2. PoolTypeOK' /\ IndexOK' /\ LockOK'
    BY <2>1 DEF PoolInv, PoolTypeOK, IndexOK, LockOK, callerVars, threadVars, slotVars, nodeVars
  <2>3. JobsBelongToWaiters'
    BY <2>1, FrameJobs DEF PoolInv, Holding, callerVars, threadVars
  <2>4. Paced => HashOK' /\ RightDataset'
    BY <2>1 DEF HashOK, RightDataset, callerVars, threadVars, slotVars
  <2>5. FairInv'
    BY <2>1, FrameFair DEF FairInv, LoadedOnce, HasDataset, ServeOK, threadVars, slotVars, nodeVars
  <2>6. QED
    BY <2>1, <2>2, <2>3, <2>4, <2>5, FrameSlots DEF PoolInv
<1>8. QED
  BY <1>1, <1>2, <1>3, <1>4, <1>5, <1>6, <1>7 DEF Next, LoadDataset

LEMMA Invariance == Safe => []IInv
  BY InitIInv, NextIInv, PTL DEF Safe

\* Every variable of the pool keeps its type.
THEOREM RxTypeCorrect == Safe => []TypeOK
<1>1. IInv => TypeOK
  BY DEF IInv, PoolInv, SlotInv, SeedOK, TypeOK
<1>2. QED
  BY <1>1, Invariance, PTL

\* With a Paced node, a hash the pool returns was made with the RandomX seed
\* the share's job names.
THEOREM RxRightDataset == ASSUME Paced PROVE Safe => []RightDataset
<1>1. IInv => RightDataset
  BY Paced DEF IInv
<1>2. QED
  BY <1>1, Invariance, PTL

\* With a Paced node, whoever gets a slot's lock finds in it the dataset its
\* ready id names.
THEOREM RxReadyMeansBuilt == ASSUME Paced PROVE Safe => []ReadyMeansBuilt
<1>1. IInv => ReadyMeansBuilt
  BY Paced, IInvProperties
<1>2. QED
  BY <1>1, Invariance, PTL

\* Overlapping rebuilds of a slot, racing with the node's writes or not, leave
\* it with the seed loaded last: the wrong pairing is not there to stay.
THEOREM RxSettledSlotIsReady == Safe => []SettledSlotIsReady
<1>1. IInv => SettledSlotIsReady
  BY IInvProperties
<1>2. QED
  BY <1>1, Invariance, PTL

\* No job pointer outlives the caller's frame it points into, no job is done
\* twice and none is lost.
THEOREM RxJobsBelongToWaiters == Safe => []JobsBelongToWaiters
<1>1. IInv => JobsBelongToWaiters
  BY DEF IInv, PoolInv
<1>2. QED
  BY <1>1, Invariance, PTL

\* With a Paced node, a share is lost only if its seed was out of service at
\* some moment of the call: the unlocked search cannot miss a seed that stays.
THEOREM RxNoSpuriousError == ASSUME Paced PROVE Safe => []NoSpuriousError
<1>1. IInv => NoSpuriousError
  BY Paced DEF IInv, FairInv
<1>2. QED
  BY <1>1, Invariance, PTL

-----------------------------------------------------------------------------
(* The promise to the callers.                                             *)

LEMMA PromiseInit == Init => Promise!Init
  BY DEF Init, PoolInit, Promise!Init, Offered

\* Every step of the pool is a step of ShareCheck, or invisible.
LEMMA PromiseNext == Paced /\ IInv /\ [Next]_vars => [Promise!Next]_Promise!vars
<1> SUFFICES ASSUME Paced, IInv, [Next]_vars
             PROVE  [Promise!Next]_Promise!vars
  OBVIOUS
<1> USE DEF IInv, Promise!vars
<1>1. ASSUME NEW c \in Callers, Return(c)
      PROVE  Promise!Next
  <2>1. Offered' = Offered
    BY <1>1 DEF Return, slotVars, Offered
  <2>2. QED
    BY <1>1, <2>1 DEF Return, Promise!Next, Promise!Return
<1>2. ASSUME NEW c \in Callers, NEW d \in Datasets, Submit(c, d)
      PROVE  Promise!Next
  <2>1. Offered' = Offered
    BY <1>2 DEF Submit, slotVars, Offered
  <2>2. Promise!Request(c, d)
    BY <1>2, <2>1 DEF Submit, Promise!Request
  <2>3. QED
    BY <2>2 DEF Promise!Next
<1>3. ASSUME NEW h \in HashThreads, HashStep(h)
      PROVE  [Promise!Next]_Promise!vars
  BY <1>3, HashSeen DEF Promise!Next, Promise!Reply
<1>4. CASE NodeStep \/ \E i \in Slots : BuilderStep(i)
  BY <1>4, SlotSeen DEF Promise!Next, Promise!Reoffer, KeepSteady
<1>5. CASE CopySeed \/ UNCHANGED vars
  BY <1>5 DEF CopySeed, vars, poolVars, callerVars, slotVars, Offered
<1>6. QED
  BY <1>1, <1>2, <1>3, <1>4, <1>5, DatasetSlots
  DEF Next, Caller, HashThread, RequestDataset, LoadDataset, NodeStep

\* With a Paced node the pool does what ShareCheck promises its callers: one
\* answer per share, made with the seed the share names or an error, and no
\* error for a share whose seed stayed in service.
THEOREM RxKeepsPromise == ASSUME Paced PROVE Safe => Promise!Safe
  BY Paced, PromiseInit, PromiseNext, Invariance, PTL DEF Safe, Promise!Safe
-----------------------------------------------------------------------------
(* The pool and its queue.                                                 *)

LEMMA FifoNext == IInv /\ HandOK /\ [Next]_vars => HandOK' /\ [Fifo!Next]_Fifo!fifoVars
<1> SUFFICES ASSUME IInv, HandOK, [Next]_vars
             PROVE  HandOK' /\ [Fifo!Next]_Fifo!fifoVars
  OBVIOUS
<1>1. ASSUME NEW c \in Callers, Caller(c)
      PROVE  HandOK' /\ Fifo!Next
  BY <1>1, CallerFifo DEF IInv, Caller
<1>2. ASSUME NEW h \in HashThreads, HashThread(h)
      PROVE  HandOK' /\ [Fifo!Next]_Fifo!fifoVars
  BY <1>2, HashFifo DEF IInv, HashThread
<1>3. CASE NodeStep \/ \E i \in Slots : BuilderStep(i)
  BY <1>3, SlotFifo
<1>4. CASE CopySeed \/ UNCHANGED vars
  <2>1. UNCHANGED <<callerVars, threadVars>>
    BY <1>4 DEF CopySeed, vars, poolVars
  <2>2. QED
    BY <2>1, FrameFifo
<1>5. QED
  BY <1>1, <1>2, <1>3, <1>4, DatasetSlots
  DEF Next, RequestDataset, LoadDataset, NodeStep

\* At any pace of the node - also where the contents of a slot may be wrong -
\* the pool uses its queue as BlockingFifo asks its users to: one push per
\* call, pops by idle threads only, and no return of a caller whose job is
\* still queued or in a thread's hand.
THEOREM RxUsesFifo == Safe => UsesFifo
<1>1. Init => HandOK /\ Fifo!Init
  BY FifoInit DEF Init
<1>2. QED
  BY <1>1, FifoNext, Invariance, PTL DEF Safe, UsesFifo, Fifo!Safe
-----------------------------------------------------------------------------
(* The order of the slots, which Node relies on.                           *)

LEMMA TurnStep ==
    IInv /\ TurnOK /\ [Next]_vars =>
        /\ TurnOK'
        /\ loaded' = loaded => Loaded' = Loaded
        /\ loaded' # loaded => Loaded' = Load(Loaded, nds)
<1> SUFFICES ASSUME IInv, TurnOK, [Next]_vars
             PROVE  /\ TurnOK'
                    /\ loaded' = loaded => Loaded' = Loaded
                    /\ loaded' # loaded => Loaded' = Load(Loaded, nds)
  OBVIOUS
<1>1. ASSUME UNCHANGED <<loaded, nodeVars>>
      PROVE  TurnOK' /\ loaded' = loaded /\ Loaded' = Loaded
  BY <1>1, FrameTurn DEF nodeVars
<1>2. ASSUME NEW c \in Callers, Caller(c)
      PROVE  UNCHANGED <<loaded, nodeVars>>
  BY <1>2 DEF Caller, Return, Submit, slotVars
<1>3. ASSUME NEW h \in HashThreads, HashThread(h)
      PROVE  UNCHANGED <<loaded, nodeVars>>
  BY <1>3 DEF HashThread, HashStep, Pop, ScanSlot, NotFound, LockShared, Recheck, SwappedOut,
              Hash, Unlock, slotVars
<1>4. ASSUME NEW i \in Slots, DatasetThread(i)
      PROVE  UNCHANGED <<loaded, nodeVars>>
  BY <1>4 DEF DatasetThread, BuildCache, LockExclusive, StartBuild, FinishBuild, UnlockExclusive
<1>5. CASE NodeStep
  BY <1>5, NodeTurn DEF IInv
<1>6. CASE CopySeed
  BY <1>6, FrameTurn DEF CopySeed, slotVars
<1>7. CASE UNCHANGED vars
  BY <1>1, <1>7 DEF vars, poolVars, slotVars
<1>8. QED
  BY <1>1, <1>2, <1>3, <1>4, <1>5, <1>6, <1>7
  DEF Next, RequestDataset, LoadDataset, NodeStep

LEMMA TurnInvariance == Safe => [](IInv /\ TurnOK)
<1>1. Init => TurnOK
  BY TurnInit DEF Init
<1>2. QED
  BY <1>1, TurnStep, Invariance, PTL DEF Safe

\* The four steps in which calculate_dataset loads a seed do to the slots what
\* Node has it do in one, and nothing else in the pool disturbs the order.
THEOREM RxLoadsInTurn == Safe => LoadsInTurn
<1>1. IInv /\ TurnOK /\ [Next]_vars =>
        [/\ loaded' = loaded => Loaded' = Loaded
         /\ loaded' # loaded => Loaded' = Load(Loaded, nds)]_poolVars
  BY TurnStep
<1>2. QED
  BY <1>1, TurnInvariance, PTL DEF Safe, LoadsInTurn

\* has_dataset finds what Node takes it to find.
THEOREM RxSearchesLoaded == Safe => []SearchesLoaded
<1>1. IInv /\ TurnOK => SearchesLoaded
  BY TurnSearch DEF IInv, PoolInv
<1>2. QED
  BY <1>1, TurnInvariance, PTL
=============================================================================
