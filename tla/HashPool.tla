------------------------------ MODULE HashPool ------------------------------
(***************************************************************************)
(* The part the two hash pools of epic_poold have in common.               *)
(*                                                                         *)
(* rx_hashpool and pp_hashpool are the same machine around two dataset     *)
(* slots.  Client threads push a pointer to a job on their own stack and   *)
(* sleep on its future; two hash threads pop jobs, look for the slot whose *)
(* ready id is the job's dataset, take the slot's lock shared, look again, *)
(* hash and answer; the node thread recycles the slots round robin and     *)
(* starts, for each load, a detached thread that rebuilds the slot under   *)
(* the exclusive lock.  What the node and the dataset threads do to a slot *)
(* differs, and is in RxHashpool and PpHashpool.                           *)
(*                                                                         *)
(* A definition commented as a slip is not the code's: it is a plausible   *)
(* error in the definition that follows it, kept to see that the           *)
(* properties notice.  NSlots is declared in SlotTurns.                    *)
(*                                                                         *)
(* A job is identified with the caller that owns it.  A dataset and the 64 *)
(* bit id that names it are one value: two seeds that agree on the 8 bytes *)
(* of vector32::get_id are not told apart by the code either.              *)
(***************************************************************************)
EXTENDS Integers, Sequences, SlotTurns

CONSTANTS
    Callers,        \* client_pool threads (each has one share in flight)
    HashThreads,    \* the hash threads: hash_thd_count = 2 in the code
    Datasets,       \* seeds or epochs the node may announce
    None,           \* invalid_id / invalid_epoch, and "nothing"
    Scrap,          \* contents that are no dataset: half built, or torn
    Error,          \* the answer of a job with error = true
    Paced,          \* TRUE: the node never reloads a slot still being built
    MaxPend         \* bound: dataset threads of a slot not yet in their lock

ASSUME HashPoolAssumption ==
    /\ NSlots \in Nat \ {0}
    /\ MaxPend \in Nat \ {0}
    /\ Paced \in BOOLEAN
    /\ None \notin Datasets /\ Scrap \notin Datasets /\ Error \notin Datasets
    /\ None \notin Callers
    /\ None # Scrap /\ None # Error /\ Scrap # Error

VARIABLES
    caller,     \* caller[c]: "idle", "waiting" (in future.wait) or "answered"
    want,       \* want[c]: the dataset c's job names
    answer,     \* answer[c]: the contents c's hash was made with, or Error
    jobs,       \* the thdq of job pointers
    pc,         \* pc[h]: where hash thread h stands
    job,        \* job[h]: the job h holds
    dsidx,      \* dsidx[h]: h's scan index, then the slot it settled on
    ready,      \* ready[i]: ready_seed_id / ready_epoch of slot i
    loaded,     \* loaded[i]: loaded_seed_id / loaded_epoch of slot i
    cache,      \* cache[i]: what the RandomX cache / epoch context holds
    builder,    \* builder[i]: "free", or where the holder of i's lock stands
    input,      \* input[i]: the dataset that holder is expanding
    pend,       \* pend[i]: dataset threads of i that do not hold its lock yet
    ctr,        \* ds_ctr % NSlots (NSlots = 2 divides 2^64: no wrap to model)
    nodepc,     \* "idle", or how far the node thread is in its load
    nslot,      \* i of that load
    nds,        \* the dataset of that load
    announced,  \* datasets a published job may name
    steady      \* history: want[c] has been ready all through c's call

callerVars == <<caller, want, answer>>
threadVars == <<jobs, pc, job, dsidx>>
slotVars == <<ready, loaded, cache, builder, input, pend>>
nodeVars == <<ctr, nodepc, nslot, nds, announced>>
poolVars == <<callerVars, threadVars, slotVars, nodeVars, steady>>

Slots == 0..(NSlots - 1)
\* Slip: the index is not taken modulo ds.size().
NextSlotUnwrapped(i) == i + 1

NextSlot(i) == IF i + 1 = NSlots THEN 0 ELSE i + 1

\* Hash threads inside the shared lock of slot i.
Readers(i) == {h \in HashThreads : pc[h] \in {"check", "hash", "unlock"} /\ dsidx[h] = i}

\* A dataset thread of slot i is running or about to.
Live(i) == pend[i] > 0 \/ builder[i] # "free"

Offered == {ready[i] : i \in Slots} \ {None, Scrap}

PoolInit ==
    /\ caller = [c \in Callers |-> "idle"]
    /\ want = [c \in Callers |-> None]
    /\ answer = [c \in Callers |-> None]
    /\ jobs = << >>
    /\ pc = [h \in HashThreads |-> "pop"]
    /\ job = [h \in HashThreads |-> None]
    /\ dsidx = [h \in HashThreads |-> 0]
    /\ ready = [i \in Slots |-> None]
    /\ loaded = [i \in Slots |-> None]
    /\ cache = [i \in Slots |-> Scrap]
    /\ builder = [i \in Slots |-> "free"]
    /\ input = [i \in Slots |-> None]
    /\ pend = [i \in Slots |-> 0]
    /\ ctr = 0
    /\ nodepc = "idle"
    /\ nslot = 0
    /\ nds = None
    /\ announced = {}
    /\ steady = [c \in Callers |-> FALSE]

-----------------------------------------------------------------------------
(* The calling client thread: check_client_work.                           *)

\* push_job, then future.wait().  A client holds a job the node published, so
\* the dataset it names was announced at some time, not necessarily lately.
Submit(c, d) ==
    /\ caller[c] = "idle"
    /\ d \in announced
    /\ caller' = [caller EXCEPT ![c] = "waiting"]
    /\ want' = [want EXCEPT ![c] = d]
    /\ jobs' = Append(jobs, c)
    /\ steady' = [steady EXCEPT ![c] = d \in Offered]
    /\ UNCHANGED <<answer, pc, job, dsidx, slotVars, nodeVars>>

\* future.wait() is over: the job on the caller's stack goes out of scope.
Return(c) ==
    /\ caller[c] = "answered"
    /\ caller' = [caller EXCEPT ![c] = "idle"]
    /\ want' = [want EXCEPT ![c] = None]
    /\ answer' = [answer EXCEPT ![c] = None]
    /\ steady' = [steady EXCEPT ![c] = FALSE]
    /\ UNCHANGED <<threadVars, slotVars, nodeVars>>

-----------------------------------------------------------------------------
(* The hash threads: hash_thd_main.                                        *)

\* job->ready.set_value(), after which the thread never touches the job again.
Answer(h, a) ==
    /\ caller' = [caller EXCEPT ![job[h]] = "answered"]
    /\ answer' = [answer EXCEPT ![job[h]] = a]
    /\ job' = [job EXCEPT ![h] = None]
    /\ UNCHANGED want

Pop(h) ==
    /\ pc[h] = "pop" /\ jobs # << >>
    /\ job' = [job EXCEPT ![h] = Head(jobs)]
    /\ jobs' = Tail(jobs)
    /\ dsidx' = [dsidx EXCEPT ![h] = 0]
    /\ pc' = [pc EXCEPT ![h] = "scan"]
    /\ UNCHANGED <<callerVars, slotVars, nodeVars, steady>>

\* One iteration of the search, which holds no lock.
ScanSlot(h) ==
    /\ pc[h] = "scan" /\ dsidx[h] \in Slots
    /\ IF ready[dsidx[h]] = want[job[h]]
       THEN pc' = [pc EXCEPT ![h] = "lock"] /\ UNCHANGED dsidx
       ELSE dsidx' = [dsidx EXCEPT ![h] = @ + 1] /\ UNCHANGED pc
    /\ UNCHANGED <<callerVars, jobs, job, slotVars, nodeVars, steady>>

\* Slip: the search stops one slot short.
NotFoundShort(h) ==
    /\ pc[h] = "scan" /\ dsidx[h] = NSlots - 1
    /\ Answer(h, Error)
    /\ pc' = [pc EXCEPT ![h] = "pop"]
    /\ dsidx' = [dsidx EXCEPT ![h] = 0]
    /\ UNCHANGED <<jobs, slotVars, nodeVars, steady>>

\* dsidx == ds.size(): "Precalculated dataset for a job was not found!"
NotFound(h) ==
    /\ pc[h] = "scan" /\ dsidx[h] = NSlots
    /\ Answer(h, Error)
    /\ pc' = [pc EXCEPT ![h] = "pop"]
    /\ dsidx' = [dsidx EXCEPT ![h] = 0]
    /\ UNCHANGED <<jobs, slotVars, nodeVars, steady>>

LockShared(h) ==
    /\ pc[h] = "lock" /\ builder[dsidx[h]] = "free"
    /\ pc' = [pc EXCEPT ![h] = "check"]
    /\ UNCHANGED <<callerVars, jobs, job, dsidx, slotVars, nodeVars, steady>>

\* Slip: what the search found is taken for granted.
RecheckForgotten(h) ==
    /\ pc[h] = "check"
    /\ pc' = [pc EXCEPT ![h] = "hash"]
    /\ UNCHANGED <<callerVars, jobs, job, dsidx, slotVars, nodeVars, steady>>

\* The slot still has the dataset.
Recheck(h) ==
    /\ pc[h] = "check" /\ ready[dsidx[h]] = want[job[h]]
    /\ pc' = [pc EXCEPT ![h] = "hash"]
    /\ UNCHANGED <<callerVars, jobs, job, dsidx, slotVars, nodeVars, steady>>

\* Slip: no continue, so the thread goes on with the job it has answered.
SwappedOutContinues(h) ==
    /\ pc[h] = "check" /\ ready[dsidx[h]] # want[job[h]]
    /\ caller' = [caller EXCEPT ![job[h]] = "answered"]
    /\ answer' = [answer EXCEPT ![job[h]] = Error]
    /\ pc' = [pc EXCEPT ![h] = "hash"]
    /\ UNCHANGED <<want, jobs, job, dsidx, slotVars, nodeVars, steady>>

\* Slip: no set_value on the error path.
SwappedOutSilent(h) ==
    /\ pc[h] = "check" /\ ready[dsidx[h]] # want[job[h]]
    /\ job' = [job EXCEPT ![h] = None]
    /\ pc' = [pc EXCEPT ![h] = "unlock"]
    /\ UNCHANGED <<callerVars, jobs, dsidx, slotVars, nodeVars, steady>>

\* "Precalculated dataset was swapped out before we locked."
SwappedOut(h) ==
    /\ pc[h] = "check" /\ ready[dsidx[h]] # want[job[h]]
    /\ Answer(h, Error)
    /\ pc' = [pc EXCEPT ![h] = "unlock"]
    /\ UNCHANGED <<jobs, dsidx, slotVars, nodeVars, steady>>

\* The hash is computed with what the slot's memory holds.
Hash(h) ==
    /\ pc[h] = "hash"
    /\ Answer(h, cache[dsidx[h]])
    /\ pc' = [pc EXCEPT ![h] = "unlock"]
    /\ UNCHANGED <<jobs, dsidx, slotVars, nodeVars, steady>>

\* The shared_lock goes out of scope at the end of the iteration.
Unlock(h) ==
    /\ pc[h] = "unlock"
    /\ pc' = [pc EXCEPT ![h] = "pop"]
    /\ dsidx' = [dsidx EXCEPT ![h] = 0]
    /\ UNCHANGED <<callerVars, jobs, job, slotVars, nodeVars, steady>>

HashStep(h) ==
    \/ Pop(h) \/ ScanSlot(h) \/ NotFound(h) \/ LockShared(h)
    \/ Recheck(h) \/ SwappedOut(h) \/ Hash(h) \/ Unlock(h)

-----------------------------------------------------------------------------
(* What the node thread and the dataset threads share.                     *)

\* Every write of a ready id is followed by this.
KeepSteady ==
    steady' = [c \in Callers |-> /\ steady[c]
                                 /\ caller[c] = "waiting" => want[c] \in Offered']

HasDataset(d) == \E i \in Slots : loaded[i] = d

\* The node publishes a job that names d, having seen to it that d is loaded
\* (for this job, or earlier, as another job's next dataset).
Announce(d) ==
    /\ nodepc = "idle" /\ HasDataset(d) /\ d \notin announced
    /\ announced' = announced \cup {d}
    /\ UNCHANGED <<callerVars, threadVars, slotVars, ctr, nodepc, nslot, nds, steady>>

\* Slip: the slot goes on serving the dataset that is about to be replaced.
InvalidateLate(d) ==
    /\ nodepc = "idle" /\ ~HasDataset(d)
    /\ Paced => ~Live(ctr)
    /\ pend[ctr] < MaxPend
    /\ nslot' = ctr
    /\ ctr' = NextSlot(ctr)
    /\ nds' = d
    /\ nodepc' = "invalidated"
    /\ UNCHANGED <<callerVars, threadVars, slotVars, announced, steady>>

\* !has_dataset(d): take the next slot, whatever it holds, and hide it.
Invalidate(d) ==
    /\ nodepc = "idle" /\ ~HasDataset(d)
    /\ Paced => ~Live(ctr)
    /\ pend[ctr] < MaxPend
    /\ nslot' = ctr
    /\ ctr' = NextSlot(ctr)
    /\ nds' = d
    /\ ready' = [ready EXCEPT ![ctr] = None]
    /\ nodepc' = "invalidated"
    /\ KeepSteady
    /\ UNCHANGED <<callerVars, threadVars, loaded, cache, builder, input, pend, announced>>

\* Slip: the counter is read again, after it has moved on.
SetLoadedAtCounter(from) ==
    /\ nodepc = from
    /\ loaded' = [loaded EXCEPT ![ctr] = nds]
    /\ nodepc' = "loaded"
    /\ UNCHANGED <<callerVars, threadVars, ready, cache, builder, input, pend,
                   ctr, nslot, nds, announced, steady>>

SetLoaded(from) ==
    /\ nodepc = from
    /\ loaded' = [loaded EXCEPT ![nslot] = nds]
    /\ nodepc' = "loaded"
    /\ UNCHANGED <<callerVars, threadVars, ready, cache, builder, input, pend,
                   ctr, nslot, nds, announced, steady>>

\* Slip: no new thread for a slot whose last one is still there.
SpawnUnlessLive ==
    /\ nodepc = "loaded"
    /\ pend' = [pend EXCEPT ![nslot] = IF Live(nslot) THEN @ ELSE @ + 1]
    /\ nodepc' = "idle"
    /\ nslot' = 0
    /\ nds' = None
    /\ UNCHANGED <<callerVars, threadVars, ready, loaded, cache, builder, input, ctr, announced,
                   steady>>

\* std::thread(...).detach()
Spawn ==
    /\ nodepc = "loaded"
    /\ pend' = [pend EXCEPT ![nslot] = @ + 1]
    /\ nodepc' = "idle"
    /\ nslot' = 0
    /\ nds' = None
    /\ UNCHANGED <<callerVars, threadVars, ready, loaded, cache, builder, input, ctr, announced,
                   steady>>

\* Slip: the lock excludes other dataset threads, and not the readers.
LockExclusiveWeak(i) ==
    /\ pend[i] > 0 /\ builder[i] = "free"
    /\ pend' = [pend EXCEPT ![i] = @ - 1]
    /\ builder' = [builder EXCEPT ![i] = "locked"]
    /\ UNCHANGED <<callerVars, threadVars, ready, loaded, cache, input, nodeVars, steady>>

\* lock_guard on the slot: no reader, no other dataset thread.
LockExclusive(i) ==
    /\ pend[i] > 0 /\ builder[i] = "free" /\ Readers(i) = {}
    /\ pend' = [pend EXCEPT ![i] = @ - 1]
    /\ builder' = [builder EXCEPT ![i] = "locked"]
    /\ UNCHANGED <<callerVars, threadVars, ready, loaded, cache, input, nodeVars, steady>>

\* The thread reads what it has to build, x, and destroys what was there.
StartBuild(i, x) ==
    /\ builder[i] = "locked"
    /\ input' = [input EXCEPT ![i] = x]
    /\ cache' = [cache EXCEPT ![i] = Scrap]
    /\ builder' = [builder EXCEPT ![i] = "building"]
    /\ UNCHANGED <<callerVars, threadVars, ready, loaded, pend, nodeVars, steady>>

\* The dataset is complete and the slot is declared ready for x, read just then.
FinishBuild(i, x) ==
    /\ builder[i] = "building"
    /\ cache' = [cache EXCEPT ![i] = input[i]]
    /\ ready' = [ready EXCEPT ![i] = x]
    /\ input' = [input EXCEPT ![i] = None]
    /\ builder' = [builder EXCEPT ![i] = "built"]
    /\ KeepSteady
    /\ UNCHANGED <<callerVars, threadVars, loaded, pend, nodeVars>>

UnlockExclusive(i) ==
    /\ builder[i] = "built"
    /\ builder' = [builder EXCEPT ![i] = "free"]
    /\ UNCHANGED <<callerVars, threadVars, ready, loaded, cache, input, pend, nodeVars, steady>>

-----------------------------------------------------------------------------
(* Properties of both pools.                                               *)

PoolTypeOK ==
    /\ caller \in [Callers -> {"idle", "waiting", "answered"}]
    /\ want \in [Callers -> Datasets \cup {None}]
    /\ answer \in [Callers -> Datasets \cup {None, Scrap, Error}]
    /\ jobs \in Seq(Callers)
    /\ pc \in [HashThreads -> {"pop", "scan", "lock", "check", "hash", "unlock"}]
    /\ job \in [HashThreads -> Callers \cup {None}]
    /\ dsidx \in [HashThreads -> 0..NSlots]
    /\ ready \in [Slots -> Datasets \cup {None, Scrap}]
    /\ loaded \in [Slots -> Datasets \cup {None}]
    /\ cache \in [Slots -> Datasets \cup {Scrap}]
    /\ builder \in [Slots -> {"free", "locked", "building", "built"}]
    /\ input \in [Slots -> Datasets \cup {None, Scrap}]
    /\ pend \in [Slots -> 0..MaxPend]
    /\ ctr \in Slots
    /\ nodepc \in {"idle", "invalidated", "copied", "loaded"}
    /\ nslot \in Slots
    /\ nds \in Datasets \cup {None}
    /\ announced \subseteq Datasets
    /\ steady \in [Callers -> BOOLEAN]

\* A share that is not answered with an error was hashed with the dataset its
\* job names: never with a cache being rebuilt, nor with the slot's successor
\* (the recheck under the shared lock, rx_hashpool.cpp:79, pp_hashpool.cpp:68).
RightDataset ==
    \A c \in Callers : caller[c] = "answered" /\ answer[c] # Error => answer[c] = want[c]

\* A share is lost only if its dataset was out of service at some moment of
\* the call, although the search holds no lock and the slots move meanwhile.
NoSpuriousError ==
    \A c \in Callers : caller[c] = "answered" /\ answer[c] = Error => ~steady[c]

\* "ready_seed_id - seed id that is ready (or zero), set after calculation"
\* (rx_hashpool.hpp:77-80): whoever can take the slot's lock finds there the
\* dataset the ready id names.
ReadyMeansBuilt ==
    \A i \in Slots : builder[i] = "free" /\ ready[i] # None => cache[i] = ready[i]

\* However loads and dataset threads overtook each other, once no dataset
\* thread of a slot is left and the node is not inside a load of it, the slot
\* is ready for the dataset it was last loaded with.
SettledSlotIsReady ==
    \A i \in Slots : /\ ~Live(i)
                     /\ loaded[i] # None
                     /\ ~(nodepc # "idle" /\ nslot = i)
        => ready[i] = loaded[i] /\ cache[i] = loaded[i]

Holding(h) == pc[h] \in {"scan", "lock", "check", "hash"}

QueuedJobsWaited ==
    /\ \A n \in DOMAIN jobs : caller[jobs[n]] = "waiting"
    /\ \A m, n \in DOMAIN jobs : jobs[m] = jobs[n] => m = n

HeldJobsWaited ==
    \A h \in HashThreads : Holding(h) =>
        /\ job[h] \in Callers /\ caller[job[h]] = "waiting"
        /\ \A n \in DOMAIN jobs : jobs[n] # job[h]
        /\ \A g \in HashThreads : Holding(g) /\ job[g] = job[h] => g = h

NoJobLost ==
    \A c \in Callers : caller[c] = "waiting" =>
        \/ \E n \in DOMAIN jobs : jobs[n] = c
        \/ \E h \in HashThreads : Holding(h) /\ job[h] = c

\* Job pointers point into a caller's stack: the owner of a queued job, or of
\* one a hash thread still uses, is inside future.wait(), and no job is in two
\* places.  Conversely every waiting caller's job is somewhere.
JobsBelongToWaiters == QueuedJobsWaited /\ HeldJobsWaited /\ NoJobLost

\* What the pool takes its thdq for.  A caller has an item under way from
\* push_job to the end of future.wait().
Fifo == INSTANCE BlockingFifo WITH
    Producers <- Callers, Consumers <- HashThreads, Nobody <- None,
    queue <- jobs, hand <- job, busy <- {c \in Callers : caller[c] # "idle"}

\* The pool uses its queue as BlockingFifo demands: a caller pushes only when
\* its last job is done with, a hash thread pops only when it has put its job
\* down, and a caller leaves only when no thread and no queue has its job.
UsesFifo == Fifo!Safe

\* The slot to be recycled next; the counter has moved on when loaded is set.
Oldest == IF nodepc \in {"invalidated", "copied"} THEN nslot ELSE ctr

\* The slot whose turn comes n-th.
Turn(n) == IF Oldest + n <= NSlots THEN Oldest + n - 1 ELSE Oldest + n - 1 - NSlots

\* What the node thread, the only one to set or to search the loaded ids, takes
\* the slots for.  Slots are used from the first on: the last one is empty
\* until all have been used.
Loaded ==
    IF loaded[NSlots - 1] = None
    THEN [n \in 1..Oldest |-> loaded[n - 1]]
    ELSE [n \in 1..NSlots |-> loaded[Turn(n)]]

\* A load replaces the dataset loaded longest ago, as Node has it in one step,
\* and nothing else that happens in a pool changes the order of the slots.
LoadsInTurn ==
    [][/\ loaded' = loaded => Loaded' = Loaded
       /\ loaded' # loaded => Loaded' = Load(Loaded, nds)]_poolVars

\* has_dataset answers what Node takes it to answer.
SearchesLoaded == \A d \in Datasets : HasDataset(d) <=> InSeq(d, Loaded)

\* A dataset the node loads comes into service, readers of the slot's former
\* dataset notwithstanding.
EveryLoadCompletes ==
    \A i \in Slots : \A d \in Datasets : loaded[i] = d /\ Live(i) ~> ready[i] = d
=============================================================================
