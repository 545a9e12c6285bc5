-------------------------- MODULE PpHashpoolProofs --------------------------
(***************************************************************************)
(* The ProgPoW pool is safe whatever the pace of the node: no hash is made *)
(* with a dataset other than the one the share names, even when a slot is  *)
(* reloaded while it is being built (Paced is a free constant here).  To   *)
(* its callers it is a ShareCheck, to its queue a user of BlockingFifo,    *)
(* and to Node the slots of SlotTurns.                                     *)
(***************************************************************************)
EXTENDS PpHashpool, HashPoolProofs

\* A dataset thread that has still to start finds an epoch to build, and the
\* one that builds has a real epoch in its local variable.
BuildOK ==
    \A i \in Slots :
        /\ pend[i] > 0 \/ builder[i] = "locked" => loaded[i] \in Datasets
        /\ builder[i] = "building" => input[i] \in Datasets
        /\ nodepc = "loaded" => loaded[nslot] \in Datasets

\* The ready epoch names the contents, except while they are being replaced.
ReadyOK ==
    \A i \in Slots : builder[i] # "building" /\ ready[i] # None => cache[i] = ready[i]

\* What the slot was last loaded with is there, is being built, or is what
\* the next dataset thread will build.
SettleOK ==
    \A i \in Slots : pend[i] = 0 /\ (nodepc = "idle" \/ nslot # i) =>
        /\ builder[i] = "building" => input[i] = loaded[i]
        /\ builder[i] \in {"free", "built"} /\ loaded[i] # None =>
              ready[i] = loaded[i] /\ cache[i] = loaded[i]

\* With a Paced node a slot is not reloaded while it is being built.
PacedOK == \A i \in Slots : builder[i] = "building" => input[i] = loaded[i]

SlotInv == BuildOK /\ ReadyOK /\ SettleOK /\ (Paced => PacedOK)

IInv == PoolInv /\ SlotInv /\ FairInv /\ HashOK /\ RightDataset

LEMMA InitIInv == Init => IInv
<1>1. Init => SlotInv
  BY SlotFacts DEF Init, PoolInit, SlotInv, BuildOK, ReadyOK, SettleOK, PacedOK
<1>2. QED
  BY <1>1, PoolInitInv, FairInit DEF Init, IInv

LEMMA IInvProperties == IInv => ReadyMeansBuilt /\ SettledSlotIsReady
<1>1. IInv => ReadyMeansBuilt
  BY DEF IInv, SlotInv, ReadyOK, ReadyMeansBuilt
<1>2. IInv => SettledSlotIsReady
  BY DEF IInv, PoolInv, PoolTypeOK, SlotInv, SettleOK, SettledSlotIsReady, Live
<1>3. QED
  BY <1>1, <1>2

\* Callers and hash threads write to no slot.
LEMMA FrameSlots ==
    ASSUME IInv, UNCHANGED <<slotVars, nodeVars>>
    PROVE  SlotInv'
  BY DEF IInv, SlotInv, BuildOK, ReadyOK, SettleOK, PacedOK, slotVars, nodeVars

LEMMA NotifySlots ==
    ASSUME IInv, NEW d \in Datasets, NotifyEpoch(d)
    PROVE  SlotInv'
<1> USE DEF IInv, PoolInv, PoolTypeOK, SlotInv
<1>1. CASE Invalidate(d)
  <2>1. ctr \in Slots /\ ready' = [ready EXCEPT ![ctr] = None] /\ nslot' = ctr
        /\ nodepc = "idle" /\ nodepc' = "invalidated"
        /\ UNCHANGED <<loaded, cache, builder, input, pend>>
    BY <1>1 DEF Invalidate
  <2>2. BuildOK'
    BY <2>1 DEF BuildOK
  <2>3. ReadyOK'
    BY <2>1 DEF ReadyOK
  <2>4. SettleOK'
    BY <2>1 DEF SettleOK
  <2>5. Paced => PacedOK'
    BY <2>1 DEF PacedOK
  <2>6. QED
    BY <2>2, <2>3, <2>4, <2>5
<1>2. CASE Announce(d)
  BY <1>2 DEF Announce, slotVars, BuildOK, ReadyOK, SettleOK, PacedOK
<1>3. QED
  BY <1>1, <1>2 DEF NotifyEpoch

LEMMA LoadSlots ==
    ASSUME IInv, LoadEpoch
    PROVE  SlotInv'
<1> USE DEF IInv, PoolInv, PoolTypeOK, SlotInv
<1>1. CASE SetLoaded("invalidated")
  <2>1. /\ nslot \in Slots /\ nds \in Datasets
        /\ loaded' = [loaded EXCEPT ![nslot] = nds]
        /\ nodepc # "idle" /\ nodepc' # "idle"
        /\ UNCHANGED <<ready, cache, builder, input, pend, nslot>>
    BY <1>1 DEF SetLoaded, IndexOK
  <2>2. BuildOK'
    BY <2>1 DEF BuildOK
  <2>3. ReadyOK'
    BY <2>1 DEF ReadyOK
  <2>4. SettleOK'
    BY <2>1 DEF SettleOK
  <2>5. Paced => PacedOK'
    BY <2>1 DEF PacedOK, FairInv, ServeOK
  <2>6. QED
    BY <2>2, <2>3, <2>4, <2>5
<1>2. CASE Spawn
  <2>1. /\ nslot \in Slots /\ nodepc = "loaded" /\ nodepc' = "idle"
        /\ pend' = [pend EXCEPT ![nslot] = @ + 1] /\ pend'[nslot] # 0
        /\ UNCHANGED <<loaded, ready, cache, builder, input>>
    BY <1>2, HashPoolAssumption DEF Spawn
  <2>2. BuildOK'
    BY <2>1 DEF BuildOK
  <2>3. ReadyOK'
    BY <2>1 DEF ReadyOK
  <2>4. SettleOK'
    BY <2>1 DEF SettleOK
  <2>5. Paced => PacedOK'
    BY <2>1 DEF PacedOK
  <2>6. QED
    BY <2>2, <2>3, <2>4, <2>5
<1>3. QED
  BY <1>1, <1>2 DEF LoadEpoch

LEMMA DatasetSlots ==
    ASSUME IInv, NEW i \in Slots, DatasetThread(i)
    PROVE  SlotInv' /\ BuilderStep(i)
<1> USE DEF IInv, PoolInv, PoolTypeOK, SlotInv, nodeVars
<1>1. CASE LockExclusive(i)
  <2>1. /\ builder[i] = "free" /\ pend[i] > 0
        /\ pend' = [pend EXCEPT ![i] = @ - 1]
        /\ builder' = [builder EXCEPT ![i] = "locked"]
        /\ UNCHANGED <<ready, loaded, cache, input, nodepc, nslot>>
    BY <1>1 DEF LockExclusive
  <2>2. BuildOK'
    BY <2>1 DEF BuildOK
  <2>3. ReadyOK'
    BY <2>1 DEF ReadyOK
  <2>4. SettleOK'
    BY <2>1 DEF SettleOK
  <2>5. Paced => PacedOK'
    BY <2>1 DEF PacedOK
  <2>6. QED
    BY <1>1, <2>2, <2>3, <2>4, <2>5 DEF BuilderStep
<1>2. CASE StartBuild(i, loaded[i])
  <2>1. /\ builder[i] = "locked" /\ loaded[i] \in Datasets
        /\ input' = [input EXCEPT ![i] = loaded[i]]
        /\ cache' = [cache EXCEPT ![i] = Scrap]
        /\ builder' = [builder EXCEPT ![i] = "building"]
        /\ UNCHANGED <<ready, loaded, pend, nodepc, nslot>>
    BY <1>2 DEF StartBuild, BuildOK
  <2>2. BuildOK'
    BY <2>1 DEF BuildOK
  <2>3. ReadyOK'
    BY <2>1 DEF ReadyOK
  <2>4. SettleOK'
    BY <2>1 DEF SettleOK
  <2>5. Paced => PacedOK'
    BY <2>1 DEF PacedOK
  <2>6. QED
    BY <1>2, <2>1, <2>2, <2>3, <2>4, <2>5 DEF BuilderStep, Content
<1>3. CASE FinishBuild(i, input[i])
  <2>1. /\ builder[i] = "building" /\ input[i] \in Datasets
        /\ cache' = [cache EXCEPT ![i] = input[i]]
        /\ ready' = [ready EXCEPT ![i] = input[i]]
        /\ builder' = [builder EXCEPT ![i] = "built"]
        /\ \A j \in Slots : j # i => input'[j] = input[j]
        /\ UNCHANGED <<loaded, pend, nodepc, nslot>>
    BY <1>3 DEF FinishBuild, BuildOK
  <2>2. BuildOK'
    BY <2>1 DEF BuildOK
  <2>3. ReadyOK'
    BY <2>1 DEF ReadyOK
  <2>4. SettleOK'
    BY <2>1 DEF SettleOK
  <2>5. Paced => PacedOK'
    BY <2>1 DEF PacedOK
  <2>6. QED
    BY <1>3, <2>1, <2>2, <2>3, <2>4, <2>5 DEF BuilderStep, Content
<1>4. CASE UnlockExclusive(i)
  <2>1. /\ builder[i] = "built"
        /\ builder' = [builder EXCEPT ![i] = "free"]
        /\ UNCHANGED <<ready, loaded, cache, input, pend, nodepc, nslot>>
    BY <1>4 DEF UnlockExclusive
  <2>2. SlotInv'
    BY <2>1 DEF BuildOK, ReadyOK, SettleOK, PacedOK
  <2>3. QED
    BY <1>4, <2>2 DEF BuilderStep
<1>5. QED
  BY <1>1, <1>2, <1>3, <1>4 DEF DatasetThread, BuildEpoch

LEMMA NextIInv == IInv /\ [Next]_vars => IInv'
<1> SUFFICES ASSUME IInv, [Next]_vars
             PROVE  IInv'
  OBVIOUS
<1> USE DEF IInv
<1>1. ASSUME NEW c \in Callers, Return(c) \/ \E d \in Datasets : Submit(c, d)
      PROVE  IInv'
  <2>1. UNCHANGED <<slotVars, nodeVars>>
    BY <1>1 DEF Return, Submit
  <2>2. QED
    BY <1>1, <2>1, CallerPool, CallerRight, CallerFair, FrameSlots
<1>2. ASSUME NEW h \in HashThreads, HashStep(h)
      PROVE  IInv'
  <2>1. UNCHANGED <<slotVars, nodeVars>>
    BY <1>2 DEF HashStep, Pop, ScanSlot, NotFound, LockShared, Recheck, SwappedOut, Hash, Unlock
  <2>2. QED
    BY <1>2, <2>1, HashPoolInv, HashRight, HashFair, FrameSlots, IInvProperties
<1>3. ASSUME NEW d \in Datasets, NotifyEpoch(d)
      PROVE  IInv'
  <2>1. NodeStep
    BY <1>3 DEF NotifyEpoch, NodeStep
  <2>2. QED
    BY <1>3, <2>1, NodePool, NodeRight, NodeFair, NotifySlots
<1>4. CASE LoadEpoch
  <2>1. NodeStep
    BY <1>4 DEF LoadEpoch, NodeStep
  <2>2. QED
    BY <1>4, <2>1, NodePool, NodeRight, NodeFair, LoadSlots
<1>5. ASSUME NEW i \in Slots, DatasetThread(i)
      PROVE  IInv'
  <2>1. Paced /\ builder[i] = "building" => ready'[i] = loaded[i]
    BY <1>5 DEF SlotInv, PacedOK, PoolInv, PoolTypeOK, DatasetThread, BuildEpoch,
                LockExclusive, StartBuild, FinishBuild, UnlockExclusive
  <2>2. QED
    BY <1>5, <2>1, DatasetSlots, BuilderPool, BuilderRight, BuilderFair
<1>6. CASE UNCHANGED vars
  <2>1. UNCHANGED <<callerVars, threadVars, slotVars, nodeVars, steady>>
    BY <1>6 DEF vars, poolVars
  <2>2. PoolTypeOK' /\ IndexOK' /\ LockOK'
    BY <2>1 DEF PoolInv, PoolTypeOK, IndexOK, LockOK, callerVars, threadVars, slotVars, nodeVars
  <2>3. JobsBelongToWaiters'
    BY <2>1, FrameJobs DEF PoolInv, Holding, callerVars, threadVars
  <2>4. HashOK' /\ RightDataset'
    BY <2>1 DEF HashOK, RightDataset, callerVars, threadVars, slotVars
  <2>5. FairInv'
    BY <2>1, FrameFair DEF FairInv, LoadedOnce, HasDataset, ServeOK, threadVars, slotVars, nodeVars
  <2>6. QED
    BY <2>1, <2>2, <2>3, <2>4, <2>5, FrameSlots DEF PoolInv
<1>7. QED
  BY <1>1, <1>2, <1>3, <1>4, <1>5, <1>6 DEF Next, HashThread

LEMMA Invariance == Safe => []IInv
  BY InitIInv, NextIInv, PTL DEF Safe

\* Every variable of the pool keeps its type.
THEOREM PpTypeCorrect == Safe => []PoolTypeOK
<1>1. IInv => PoolTypeOK
  BY DEF IInv, PoolInv
<1>2. QED
  BY <1>1, Invariance, PTL

\* A hash the pool returns was made with the epoch of the share's block.
THEOREM PpRightDataset == Safe => []RightDataset
<1>1. IInv => RightDataset
  BY DEF IInv
<1>2. QED
  BY <1>1, Invariance, PTL

\* Whoever gets a slot's lock finds in it the epoch its ready id names.
THEOREM PpReadyMeansBuilt == Safe => []ReadyMeansBuilt
  BY IInvProperties, Invariance, PTL

\* Overlapping rebuilds of a slot leave it with the epoch loaded last.
THEOREM PpSettledSlotIsReady == Safe => []SettledSlotIsReady
  BY IInvProperties, Invariance, PTL

\* No job pointer outlives the caller's frame it points into, no job is done
\* twice and none is lost.
THEOREM PpJobsBelongToWaiters == Safe => []JobsBelongToWaiters
<1>1. IInv => JobsBelongToWaiters
  BY DEF IInv, PoolInv
<1>2. QED
  BY <1>1, Invariance, PTL

\* With a Paced node, a share is lost only if its epoch was out of service at
\* some moment of the call.
THEOREM PpNoSpuriousError == ASSUME Paced PROVE Safe => []NoSpuriousError
<1>1. IInv => NoSpuriousError
  BY Paced DEF IInv, FairInv
<1>2. QED
  BY <1>1, Invariance, PTL

-----------------------------------------------------------------------------
(* The promise to the callers.                                             *)

LEMMA PromiseInit == Init => Promise!Init
  BY DEF Init, PoolInit, Promise!Init, Offered

\* Every step of the pool is a step of ShareCheck, or invisible.
LEMMA PromiseNext == IInv /\ [Next]_vars => [Promise!Next]_Promise!vars
<1> SUFFICES ASSUME IInv, [Next]_vars
             PROVE  [Promise!Next]_Promise!vars
  OBVIOUS
<1> USE DEF IInv, Promise!vars
<1>1. ASSUME NEW c \in Callers, Return(c)
      PROVE  Promise!Next
  <2>1. Offered' = Offered
    BY <1>1 DEF Return, slotVars, Offered
  <2>2. QED
    BY <1>1, <2>1 DEF Return, Promise!Next, Promise!Return
<1>2. ASSUME NEW c \in Callers, NEW d \in Datasets, Submit(c, d)
      PROVE  Promise!Next
  <2>1. Offered' = Offered
    BY <1>2 DEF Submit, slotVars, Offered
  <2>2. Promise!Request(c, d)
    BY <1>2, <2>1 DEF Submit, Promise!Request
  <2>3. QED
    BY <2>2 DEF Promise!Next
<1>3. ASSUME NEW h \in HashThreads, HashStep(h)
      PROVE  [Promise!Next]_Promise!vars
  BY <1>3, HashSeen DEF Promise!Next, Promise!Reply
<1>4. CASE NodeStep \/ \E i \in Slots : BuilderStep(i)
  BY <1>4, SlotSeen DEF Promise!Next, Promise!Reoffer, KeepSteady
<1>5. CASE UNCHANGED vars
  BY <1>5 DEF vars, poolVars, callerVars, slotVars, Offered
<1>6. QED
  BY <1>1, <1>2, <1>3, <1>4, <1>5, DatasetSlots
  DEF Next, HashThread, NotifyEpoch, LoadEpoch, NodeStep

\* At any pace of the node the pool does what ShareCheck promises its callers:
\* one answer per share, made with the epoch the share names or an error; and,
\* with a Paced node, no error for a share whose epoch stayed in service.
THEOREM PpKeepsPromise == Safe => Promise!Safe
  BY PromiseInit, PromiseNext, Invariance, PTL DEF Safe, Promise!Safe
-----------------------------------------------------------------------------
(* The pool and its queue.                                                 *)

LEMMA FifoNext == IInv /\ HandOK /\ [Next]_vars => HandOK' /\ [Fifo!Next]_Fifo!fifoVars
<1> SUFFICES ASSUME IInv, HandOK, [Next]_vars
             PROVE  HandOK' /\ [Fifo!Next]_Fifo!fifoVars
  OBVIOUS
<1>1. ASSUME NEW c \in Callers, Return(c) \/ \E d \in Datasets : Submit(c, d)
      PROVE  HandOK' /\ Fifo!Next
  BY <1>1, CallerFifo DEF IInv
<1>2. ASSUME NEW h \in HashThreads, HashStep(h)
      PROVE  HandOK' /\ [Fifo!Next]_Fifo!fifoVars
  BY <1>2, HashFifo DEF IInv
<1>3. CASE NodeStep \/ \E i \in Slots : BuilderStep(i)
  BY <1>3, SlotFifo
<1>4. CASE UNCHANGED vars
  <2>1. UNCHANGED <<callerVars, threadVars>>
    BY <1>4 DEF vars, poolVars
  <2>2. QED
    BY <2>1, FrameFifo
<1>5. QED
  BY <1>1, <1>2, <1>3, <1>4, DatasetSlots
  DEF Next, HashThread, NotifyEpoch, LoadEpoch, NodeStep

\* At any pace of the node, the pool uses its queue as BlockingFifo asks its
\* users to: one push per call, pops by idle threads only, and no return of a
\* caller whose job is still queued or in a thread's hand.
THEOREM PpUsesFifo == Safe => UsesFifo
<1>1. Init => HandOK /\ Fifo!Init
  BY FifoInit DEF Init
<1>2. QED
  BY <1>1, FifoNext, Invariance, PTL DEF Safe, UsesFifo, Fifo!Safe
-----------------------------------------------------------------------------
(* The order of the slots, which Node relies on.                           *)

LEMMA TurnStep ==
    IInv /\ TurnOK /\ [Next]_vars =>
        /\ TurnOK'
        /\ loaded' = loaded => Loaded' = Loaded
        /\ loaded' # loaded => Loaded' = Load(Loaded, nds)
<1> SUFFICES ASSUME IInv, TurnOK, [Next]_vars
             PROVE  /\ TurnOK'
                    /\ loaded' = loaded => Loaded' = Loaded
                    /\ loaded' # loaded => Loaded' = Load(Loaded, nds)
  OBVIOUS
<1>1. ASSUME UNCHANGED <<loaded, nodeVars>>
      PROVE  TurnOK' /\ loaded' = loaded /\ Loaded' = Loaded
  BY <1>1, FrameTurn DEF nodeVars
<1>2. ASSUME NEW c \in Callers, Return(c) \/ \E d \in Datasets : Submit(c, d)
      PROVE  UNCHANGED <<loaded, nodeVars>>
  BY <1>2 DEF Return, Submit, slotVars
<1>3. ASSUME NEW h \in HashThreads, HashStep(h)
      PROVE  UNCHANGED <<loaded, nodeVars>>
  BY <1>3 DEF HashStep, Pop, ScanSlot, NotFound, LockShared, Recheck, SwappedOut, Hash, Unlock, slotVars
<1>4. ASSUME NEW i \in Slots, DatasetThread(i)
      PROVE  UNCHANGED <<loaded, nodeVars>>
  BY <1>4 DEF DatasetThread, BuildEpoch, LockExclusive, StartBuild, FinishBuild, UnlockExclusive
<1>5. CASE NodeStep
  BY <1>5, NodeTurn DEF IInv
<1>6. CASE UNCHANGED vars
  BY <1>1, <1>6 DEF vars, poolVars, slotVars
<1>7. QED
  BY <1>1, <1>2, <1>3, <1>4, <1>5, <1>6
  DEF Next, HashThread, NotifyEpoch, LoadEpoch, NodeStep

LEMMA TurnInvariance == Safe => [](IInv /\ TurnOK)
<1>1. Init => TurnOK
  BY TurnInit DEF Init
<1>2. QED
  BY <1>1, TurnStep, Invariance, PTL DEF Safe

\* The three steps in which notify_epoch loads an epoch do to the slots what
\* Node has it do in one, and nothing else in the pool disturbs the order.
THEOREM PpLoadsInTurn == Safe => LoadsInTurn
<1>1. IInv /\ TurnOK /\ [Next]_vars =>
        [/\ loaded' = loaded => Loaded' = Loaded
         /\ loaded' # loaded => Loaded' = Load(Loaded, nds)]_poolVars
  BY TurnStep
<1>2. QED
  BY <1>1, TurnInvariance, PTL DEF Safe, LoadsInTurn

\* The search for an epoch finds what Node takes it to find.
THEOREM PpSearchesLoaded == Safe => []SearchesLoaded
<1>1. IInv /\ TurnOK => SearchesLoaded
  BY TurnSearch DEF IInv, PoolInv
<1>2. QED
  BY <1>1, TurnInvariance, PTL
=============================================================================
