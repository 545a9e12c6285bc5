----------------------------- MODULE PpHashpool -----------------------------
(***************************************************************************)
(* pp_hashpool: the ProgPoW pool.  Its dataset thread copies the epoch it  *)
(* has to build into a local variable under the slot's lock and declares   *)
(* that epoch ready, so a slot may be reloaded while it is being built.    *)
(***************************************************************************)
EXTENDS HashPool

Init == PoolInit

\* hash_thd_main of pp_hashpool is that of HashPool, step for step.
HashThread(h) == HashStep(h)

\* notify_epoch, up to the end of the reset of the slot's ready epoch ...
NotifyEpoch(d) == Invalidate(d) \/ Announce(d)

\* ... and the rest of it.
LoadEpoch == SetLoaded("invalidated") \/ Spawn

\* Slip: loaded_epoch is read again to declare the slot ready.
BuildEpochRereads(i) ==
    \/ StartBuild(i, loaded[i])
    \/ FinishBuild(i, loaded[i])

\* dataset_thd_main: epoch_number is a local copy of loaded_epoch.
BuildEpoch(i) ==
    \/ StartBuild(i, loaded[i])
    \/ FinishBuild(i, input[i])

DatasetThread(i) == LockExclusive(i) \/ BuildEpoch(i) \/ UnlockExclusive(i)

Next ==
    \/ \E c \in Callers : Return(c) \/ \E d \in Datasets : Submit(c, d)
    \/ \E h \in HashThreads : HashThread(h)
    \/ \E d \in Datasets : NotifyEpoch(d)
    \/ LoadEpoch
    \/ \E i \in Slots : DatasetThread(i)

vars == poolVars

\* Every thread that can run does.  The shared lock is granted again and again
\* between two rebuilds of a slot, and a reader that keeps asking gets it: the
\* default rwlock of glibc, under std::shared_timed_mutex, prefers readers.
\* The writer needs no such favour (see EveryLoadCompletes).
Fairness ==
    /\ \A c \in Callers : WF_vars(Return(c))
    /\ \A h \in HashThreads : WF_vars(HashThread(h)) /\ SF_vars(LockShared(h))
    /\ WF_vars(LoadEpoch)
    /\ \A i \in Slots : WF_vars(DatasetThread(i))

Safe == Init /\ [][Next]_vars
Spec == Safe /\ Fairness

-----------------------------------------------------------------------------
(* What the pool implements.                                               *)

Promise == INSTANCE ShareCheck WITH offered <- Offered, Strict <- Paced

\* The pool keeps the promise of ShareCheck: one answer per share, made with
\* the dataset the share names or an error, and an answer for every share.
KeepsPromise == Promise!Spec
=============================================================================
