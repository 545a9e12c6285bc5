----------------------------- MODULE RxHashpool -----------------------------
(***************************************************************************)
(* rx_hashpool: the RandomX pool.  The node writes the slot's 32 byte seed *)
(* without the slot's lock, and the dataset thread reads it twice: when it *)
(* expands it into the cache, and again to declare the slot ready.         *)
(*                                                                         *)
(* A read of the seed that races with the node's copy is a data race; the  *)
(* reader gets the old seed, the new one, or a mix (Scrap).                *)
(***************************************************************************)
EXTENDS HashPool

VARIABLE seed       \* seed[i]: ds_seed of slot i

vars == <<poolVars, seed>>

Init == PoolInit /\ seed = [i \in Slots |-> None]

Caller(c) == (Return(c) \/ \E d \in Datasets : Submit(c, d)) /\ UNCHANGED seed

\* hash_thd_main of rx_hashpool is that of HashPool, step for step.
HashThread(h) == HashStep(h) /\ UNCHANGED seed

\* has_dataset, and calculate_dataset up to the reset of the slot's ready id.
RequestDataset(d) == (Invalidate(d) \/ Announce(d)) /\ UNCHANGED seed

\* The copy of the seed is complete.
CopySeed ==
    /\ nodepc = "invalidated"
    /\ seed' = [seed EXCEPT ![nslot] = nds]
    /\ nodepc' = "copied"
    /\ UNCHANGED <<callerVars, threadVars, slotVars, ctr, nslot, nds, announced, steady>>

\* The rest of calculate_dataset.
LoadDataset ==
    \/ CopySeed
    \/ (SetLoaded("copied") \/ Spawn) /\ UNCHANGED seed

\* What a dataset thread may see when it reads slot i's seed.
SeedSeen(i) ==
    IF nodepc = "invalidated" /\ nslot = i THEN {seed[i], nds, Scrap} ELSE {seed[i]}

\* dataset_thd_main: randomx_init_cache, then ready_seed_id = ds_seed.get_id().
BuildCache(i) ==
    \E x \in SeedSeen(i) : StartBuild(i, x) \/ FinishBuild(i, x)

DatasetThread(i) ==
    (LockExclusive(i) \/ BuildCache(i) \/ UnlockExclusive(i)) /\ UNCHANGED seed

Next ==
    \/ \E c \in Callers : Caller(c)
    \/ \E h \in HashThreads : HashThread(h)
    \/ \E d \in Datasets : RequestDataset(d)
    \/ LoadDataset
    \/ \E i \in Slots : DatasetThread(i)

\* As in PpHashpool.
Fairness ==
    /\ \A c \in Callers : WF_vars(Return(c) /\ UNCHANGED seed)
    /\ \A h \in HashThreads : WF_vars(HashThread(h)) /\ SF_vars(LockShared(h) /\ UNCHANGED seed)
    /\ WF_vars(LoadDataset)
    /\ \A i \in Slots : WF_vars(DatasetThread(i))

Safe == Init /\ [][Next]_vars
Spec == Safe /\ Fairness

-----------------------------------------------------------------------------
(* Properties.                                                             *)

TypeOK == PoolTypeOK /\ seed \in [Slots -> Datasets \cup {None}]

Promise == INSTANCE ShareCheck WITH offered <- Offered, Strict <- Paced

\* The pool keeps the promise of ShareCheck, as long as it is Paced: one
\* answer per share, made with the dataset the share names or an error, an
\* error only if that dataset was out of service, an answer for every share.
KeepsPromise == Promise!Spec
=============================================================================
