# Formal models of epic_poold

epic_poold is a mining pool daemon for Epic Cash. It takes block templates from
one Epic node, hands them as jobs to miners over TCP, checks the shares the
miners send back (RandomX or ProgPoW) and passes those that are good enough for
a block on to the node. This directory holds TLA+ models of it, the TLC runs
that check them on small instances, and TLAPS proofs of what matters most.
References are to files and lines under `src/`.

## 1. Inventory

### Threads

| thread | code | how many |
|---|---|---|
| node | `node.cpp:96` `thread_main` | 1 |
| accept (plain, TLS) | `server.cpp:112` `listen_main` | 1 per listener |
| client pool | `client_pool.hpp:181` `pool_main` | 1 per 256 (254) clients |
| hash | `rx_hashpool.cpp:50`, `pp_hashpool.cpp:43` `hash_thd_main` | 2 per algorithm |
| dataset | `rx_hashpool.cpp:102`, `pp_hashpool.cpp:93` `dataset_thd_main` | one, detached, per load |

### Components

For each component: its state, its operations, whom it talks to, what is hard
about it, and what makes it correct.

**RandomX hash pool** (`rx_hashpool.*`) and **ProgPoW hash pool**
(`pp_hashpool.*`).
*State*: two slots, each with a ready id, a loaded id, a shared mutex and a cache
or epoch context (RandomX: also the 32 byte seed); a queue of job pointers; a
round robin counter.
*Operations*: `push_job`; `has_dataset`, `calculate_dataset` / `notify_epoch`;
the hash loop (pop, unlocked search, shared lock, second look, hash, answer);
the dataset thread (exclusive lock, build, declare ready).
*Interaction*: a client pool thread pushes a pointer to a job on its own stack
and waits for its future; the node thread recycles slots.
*Hard*: slots move under an unlocked search; detached dataset threads overtake
each other and race with the node; job pointers into other threads' stacks;
a writer behind a reader-preferring lock.
*Correct if* a share is hashed with its own dataset or answered with an error,
never both, never neither; an error has a cause; a loaded dataset comes into
service.

**Thread queue** (`thdq.hpp`). *State*: a queue, a mutex, a condition variable.
*Operations*: `push`, `pop`. *Hard*: lost and spurious wakeups. *Correct if* it
is a blocking FIFO. (`thdv` in the same file has no user.)

**Client pools** (`client_pool.hpp`). *State*: `active_cnt`, `thd_finished`, a
pipe, an epoll instance, an array of client slots. *Operations*: `add_socket`,
`on_new_block` (both a write to the pipe, by other threads); `pool_main`,
`process_pipe`, `remove_client` (by its own). *Interaction*: accept thread and
node on one side, `client` on the other. *Hard*: edge triggered events handled
in batches, slots reused within a batch, a count kept by two threads, a thread
that decides to end while it is being given work. *Correct if* counts are exact,
no event is lost, no client is cut off for another, no socket is lost, every
miner hears of every block.

**Server** (`server.*`). *State*: a list of pools per listener, under a mutex.
*Operations*: `start`, `listen_main`, `iterate_pools` (search or notify, erasing
finished pools on the way), `notify_new_block`. *Hard*: erasing what another
thread is about to use. *Correct if* only pools without clients are erased and
every pool is notified.

**Client session** (`client.*`, `socks.h`). *State*: socket, receive and send
buffers, `aborting`, `logged_in`, current job, job id, flood counters.
*Operations*: `on_socket_read`, `process_line`, `login`, `submit`, `keepalive`,
`on_new_block`. *Hard*: a failed send in the middle of a buffer of requests;
job ids that outlive their jobs; memory that remembers the last client; targets
and difficulties on words of two sizes. *Correct if* a share is judged against
the job it names and by what it is worth, no two miners do the same work, only
those who call too often are slowed down, and an aborted client harms nobody
else.

**Node connection** (`node.*`). *State*: socket, receive buffer, list of jobs,
`current_job`, `last_job_ts`. *Operations*: connect, receive with timeouts,
`json_proc_msg` (validate, load datasets, publish, notify, drop an old job),
`send_job_result` (called by client pool threads). *Hard*: jobs freed while
copied; timers that reset each other; partial failures in the middle of a
message; datasets of which only two fit; a socket shared by threads. *Correct
if* a published job is complete, outlives its readers and has its datasets, and
jobs keep coming whatever is lost.

**Difficulty arithmetic** (`vector32.h`, `client.hpp:153-161`), **configuration**
(`jconf*`), **logger** (`log.*`, `loglevels.hpp`), **encoding** (`encdec.*`,
`itoa_ljust.*`), **JSON helpers** (`json.h`), **structures and time**
(`workstruct.hpp`, `time.hpp`, `check_job.hpp`), **entry point** (`main.cpp`).
Sequential code without shared state of interest (the logger's is its own).
rapidjson, RandomX, ethash, OpenSSL and the kernel are external.

`PROJECT.json` lists every component with its status, and under `hazards` what
is hard to test in this code, at its line, with the properties that cover it.

## 2. Modules

| module | models | state and actions |
|---|---|---|
| `ShareCheck` | nothing of the code's structure: what a hash pool promises | `Request`, `Reply`, `Return` for each caller; `Reoffer`: datasets come and go |
| `HashPool` | what the two hash pools share | the hash loop step by step (`Pop` ... `Unlock`), the callers, the node's and the dataset threads' steps |
| `PpHashpool` | `pp_hashpool` = `HashPool` + epoch copied to a local | `NotifyEpoch`, `LoadEpoch`, `BuildEpoch` |
| `RxHashpool` | `rx_hashpool` = `HashPool` + `ds_seed`, read twice and unprotected | `CopySeed`, `BuildCache` |
| `BlockingFifo` | what the users of a `thdq` take it for | `Put`, `Take`, `Finish`, `Leave` |
| `Thdq` | `thdq` with its mutex and condition variable, used as the hash pools use it | `Push*`, `Pop*`, `Return`, `Answer` |
| `ClientPools` | accept thread, node thread as notifier, list of pools, pool threads, clients as far as their connection goes | `Accept*`, `Publish`/`Notify*`, `Wait` ... `Finish`, `Read*`, `*Line`, `Pipe*`, `TellClient` |
| `ClientSession` | the requests of a client, jobs and their numbers, shares and what they are worth | `Connect`, `Leave`, `Publish`, `NewBlock`, one action per outcome of `process_line`, `Tick` |
| `SlotTurns` | the slots of a hash pool as the node thread sees them: what was loaded, in the order it will be replaced | the operator `Load`: `has_dataset` and, if not, the next slot |
| `Node` | the node's thread, the node as its peer, the slots of both hash pools as it sees them, clients that copy the current job | `Connect` ... `Close`, `RecvTimeout`, one action per kind of message, `LoadSeed` ... `PopFront` for a job, `LoadPointer`/`CopyJob` |
| `MCRxHashpool`, `MCPpHashpool`, `MCThdq`, `MCClientPools`, `MCClientSession`, `MCNode` | the above for TLC, with symmetry sets | |
| `HashPoolProofs`, `PpHashpoolProofs`, `RxHashpoolProofs`, `ThdqProofs`, `ClientPoolsLemmas`, `ClientPoolsProofs`, `ClientSessionProofs`, `NodeProofs` | theorems and their proofs (section 4) | |

`RxHashpool` and `PpHashpool` each EXTEND `HashPool` and instantiate
`ShareCheck` as their abstract specification. The refinement mapping is the
identity on the callers; `offered` is the set of ready ids. `Thdq` implements
`BlockingFifo`. The mapping is the identity on the queue and on what consumers
hold; a producer is busy from its append to the end of its wait. `HashPool` in
turn uses its queue as `BlockingFifo` asks its users to (`UsesFifo`): `Submit` is
a `Put`, `Pop` a `Take`, each of the three ways to answer a `Finish`, `Return` a
`Leave`. That is what makes the atomic queue of `HashPool` stand for a `thdq`:
`Thdq` assumes that a producer has one item under way and a consumer pops with
empty hands, and the pools keep to it.

The other modules meet at their edges. `Node` decides what `HashPool` leaves
open, which datasets are loaded and in what order; `HashPool` says when a slot
so loaded is ready. Both speak of the slots in the terms of `SlotTurns`: a load
is one step `Load` in `Node`, three or four steps in a pool, and `LoadsInTurn` and
`SearchesLoaded` say that these come to the same. `ClientPools` says that `on_new_block` is called and when,
`ClientSession` what it does to the job; both take `get_current_job` as one
step, which `Node` takes apart.

### What an action stands for

* *Hash pools.* One action per access to state another thread writes: each slot
  looked at by the search is a step, the lock is a step, the second look is a
  step, the answer is a step. The queue is atomic. A job is identified with the
  caller whose stack it is on. Seeds and their 64 bit ids are one value:
  `vector32::get_id` takes 8 of the 32 bytes, and seeds that agree on them are
  not told apart by the code either. The node's three stores in
  `calculate_dataset` are three steps. The copy of a seed is not atomic: a
  reader that overlaps it sees the old seed, the new one, or neither (`Scrap`).
  `steady` is a history variable: the caller's dataset has been in service since
  its call began.
* *Client pools.* A pool thread's steps are: `epoll_wait`, taking the next event
  of the batch, one `read`, one line, one pipe message, one client told. What
  other threads or peers do comes in between. The kernel's part is modelled from
  its use: an edge puts an entry on the ready list, `epoll_wait` reports those
  that have something to report and takes them off, and reports `EINTR` only
  when there is nothing to report. A write to a connection that was shut down,
  or reset after the peer had closed it, raises SIGPIPE; one to a connection
  just reset fails once. A request's contents are chosen when it is parsed:
  login, anything that gets one answer, or a line that is no JSON object.
  `submit` waits for a hash pool; that it comes back is what `KeepsPromise`
  says, so here it is one step.
* *Queue.* Taking the mutex, the change to the queue, the release and the
  notification are steps. A wait releases the mutex and falls asleep at once; a
  notification wakes one sleeper or is forgotten; a sleeper may wake for no
  reason. A producer has one item under way, as a client thread has one job.
* *Sessions.* A line is a step, as is a new block. A place is the memory of one
  client, where the next one finds `cur_job` as the last has left it: it is not
  initialised. A share's job id is anything; its hash is any number, and
  what is judged is the first 64 bits of it, two words of a smaller size. Time
  is in units of which `Window` make the minute. `sent` (the jobs
  sent) and `calls` (the calls made, how long ago, and whether they were served)
  are history. A failed send leaves the lines in the buffer to be processed, so
  requests of an aborted client are still served; a line that does not parse
  removes it at once, and its next new block does. A client may find any number
  of new blocks behind its own socket in the pipe when it is constructed.
* *Node.* `recv` with its timeout of a second, each message, and within a job
  each epoch of the list, each `notify_epoch`, the publication and the
  `pop_front` are steps, because client threads run in between. A pointer into
  the list is the position of its entry, 0 when that was freed; a copy starts
  with the load of the pointer and ends later. Time passes in the timeouts of
  `recv`, and by one unit before a message without a job. What the node may
  send: a proper job lists this RandomX epoch, or this one and the next; a
  flawed one has an algorithm without a name or without a difficulty, no
  epochs, one that is over, only the next one, or a prepow that does not parse.
  Heights go back by `MaxReorg` at most, counted from the greatest one that has
  made an entry: a message refused before that changes neither the list nor the
  pools, and counts for nothing (`top`, `strayed`). `block_diff` without an assignment
  may pass the test for zero or not.
* A definition commented as a *slip* is not the code: it is a plausible error in
  the definition after it, kept to see that the properties notice it.

### Left out of these modules

Exceptions that end a thread, and with it the process, for want of system
resources (pipe full, epoll and thread creation failures, the assertion on five
accept errors); in the RandomX pool, what runs between the read of `ds_seed`
after a build and the write of `ready_seed_id` (`rx_hashpool.cpp:107` is one
step: an old id read before and written after the node has put another seed in
its place is the id the cache was built from, with the next dataset thread
already on its way; a paced node does not get in between); reuse of descriptor
numbers; the second, TLS listener, which is the same template with a list of its
own; buffers that overflow with a line longer than the buffer (client and node:
an error like any other); what becomes of a block whose send to the node fails
or goes to a descriptor that was closed meanwhile; the proof that
`send_job_result` names `RandomX` whatever the job's type, and the order of
bytes in `full_nonce`, which the node would have to be read for; wrap-around of
job ids and extra nonces at 2^32; `node::shutdown`, which nothing reaches.

## 3. Runs

| run | instance | checks | outcome |
|---|---|---|---|
| `rx` | 1 caller, 1 hash thread, 2 slots, 3 seeds, paced | `TypeOK` `RightDataset` `NoSpuriousError` `JobsBelongToWaiters` `KeepsPromise` `LoadsInTurn` `EveryLoadCompletes` | hold, 101 thousand states |
| `rx_race` | the same, node not paced | `ReadyMeansBuilt` | **violated** |
| `pp` | 2 callers, 2 hash threads, 1 slot, 2 epochs, not paced | `PoolTypeOK` `RightDataset` `ReadyMeansBuilt` `SettledSlotIsReady` `KeepsPromise` `UsesFifo` | hold, 187 thousand states |
| `pools_safe` | 2 connections, 2 pools of size 1 or 2, 2 jobs | `Accounting` `FinishedServesNobody` `NoLostWakeup` `StaleMinersWillBeTold` `RemovedForCause` | hold, 2.7 million states |
| `pools_live` | 1 connection, 1 pool of size 2, 3 jobs, 2 lines | `TypeOK` `MinersHearOfJobs` `HungupIsRemoved` | hold, 43 thousand states |
| `pools_signal` | 1 connection, 1 pool of size 2, 3 jobs | `LateSignalsAreHarmless` | **violated** |
| `pools_erase` | 1 connection, 1 pool of size 1 | `ErasedPoolsAreEmpty` | **violated** |
| `pools_sigpipe` | 1 connection, 1 pool of size 1 | `SendFailureIsLocal` | **violated** |
| `node_jobs` | 1 reader, 2 kept entries, heights 1 to 5 in epochs of 2, 2 faults | `TypeOK` `GraceWindow` `CopiesAreComplete` `DatasetsOfCurrentJobStay` | hold, 3.8 million states |
| `node_link` | no reader, timeouts of 1 and 2, 2 faults | `SilenceIsNotFatal` `JobsKeepComing` | hold, 91 thousand states |
| `session` | 2 places, 2 clients, 2 jobs, 3 calls, words below 16 | `TypeOK` `CreditIsForTheJobSent` `DistinctWork` `JudgedByWorth` `CallsAreLimited` `OnlyTheFastSlowDown` | hold, 1.6 million states |
| `thdq` | 3 producers, 3 consumers | `TypeOK` `SleepersAreSpare` `KeepsFifo` | hold, 33 thousand states |

**Bounds.** `MaxPend`: dataset threads of one slot that wait for its lock; one
waiting beside one building is enough for them to overtake and for a reload in
the middle of a build. Three datasets on two slots make every slot change hands.
A dataset may be announced once it is loaded and stays so: a miner may send a
share for an old one. `rx` spends its states on slots: one caller and one thread
are enough for a search that slots move under, and liveness admits no symmetry.
`pp` spends them on threads: two callers and two hash threads are the smallest
number for which a job could be taken twice or a writer meet two readers, on one
slot that is reloaded in the middle of its builds. The hash loop is the same in
both pools, and the proofs are for any number.
`MaxJobs` 2 lets a block come while a client is between any two steps, 3 lets a
second one follow. `MaxLines` 1 is a client that logs in and says no more; 2
adds a request after it in the same read or the next. Pools of size 1 make the
list grow (the first is full with one client); size 2 lets a batch hold two
events. Connections are never reused, so runs end in states where nothing is
left to do: the `pools_*` configurations do not check for deadlock, nor do
`session` (every call has been made) and `node_*` (the process may exit). The
hash pools and the queue do, and have none.
`KeepJobs` 2 for 5, `RxEpoch` and `PpEpoch` 2 for thousands of blocks: heights 1
to 5 go through three seeds and three epochs, which start at different heights,
on two slots each. `MaxReorg` 1 takes the chain back over the start of an epoch.
`MaxFaults` 2 lets a message be rejected while another entry that was left
behind is still in the list. A template timeout of 1 and a fatal one of 2 keep the
order of the defaults (60 and 300); `node_jobs` does not look at time.
`Window` 1 and `MaxCalls` 1 make two minutes overlap within three calls. Words
below 16 and a difficulty of 4 keep what matters of 2^32 and 4096: the one
divides the other. All 256 hashes are judged.

**Symmetry** is used for callers, threads, datasets, connections and pools,
and for places of clients, only in runs without liveness properties.

**Pacing.** `Paced = TRUE` says that the node does not load a slot whose dataset
thread has not finished. RandomX seeds change every couple of thousand blocks,
a cache takes seconds, and the two slots are used in turn, so a slot is reloaded
during its own build only if seeds arrive in a burst, as from a node that
changes chains or resyncs. `rx_race` shows what happens then. Nothing in the
code enforces pacing, so the properties that hold without it (those of `pp`, and
for RandomX, by proof, `SettledSlotIsReady`, `JobsBelongToWaiters`, `UsesFifo` and
`LoadsInTurn`) are checked without it. `ReadyMeansBuilt` for a paced RandomX pool
is by proof too. `EveryLoadCompletes` needs it: a node that reloads a slot
for ever keeps it from ever being ready. `Paced` also decides what `ShareCheck` is
asked for: with `Strict`, that no share is lost without cause.

**SIGPIPE and hang-up bits.** `SigpipeIgnored = FALSE` is what the program does;
TRUE is used in the two violation runs that look for something else.
`HangupMasks = {"in"}` is Linux TCP, where a hang-up always raises EPOLLIN too;
`pools_live` also takes the code's other branch, "EPOLLERR EPOLLHUP".
`RemovedForCause` depends on it: with a bare EPOLLHUP a stale event could remove
the new tenant of a reused slot, where a read merely finds nothing.

**Fairness.** Hash and dataset threads, callers that were answered, accept and
node threads in mid-operation and pool threads are weakly fair: they are
runnable threads. Nobody has to submit, connect, send, hang up or announce.
Taking a slot's lock shared is strongly fair: `std::shared_timed_mutex` is
glibc's rwlock, which prefers readers, so a reader that keeps asking gets in
between two rebuilds. Taking it exclusively is only weakly fair: a writer could
starve, and `EveryLoadCompletes` holds because the node resets the ready id
first, which turns new readers away before the lock. The list's mutex is
strongly fair for its two users: each waits on a socket between two uses. The
mutex of a `thdq` is given to some thread that wants it, to none in particular:
that is enough, as consumers only pass it on while there is work.
The node's thread is fair, `recv` times out after a second without a message,
and an attempt to connect fails only as often as `MaxFaults` allows. Of the node
it is assumed that it answers a login and a request for a template as long as it
is there, and of TCP that it gives up on a peer that acknowledges nothing.

### What the checks of the node and the sessions show

* The five entries that are kept are entries, not jobs: those that rejected
  messages leave behind count, and each shortens the time a client has to copy
  a job (`GraceWindow` counts them as the code does, from the entry on). One is
  dropped only right after a publication, when the current job is the newest
  entry: what can be freed under a reader is an older entry it is still copying.
  `GraceWindow` says how long that takes, and with it that the code permits it.
* A job has its datasets as long as the chain does not go back over the start
  of an epoch and the node never lists the next seed without this one
  (`strayed`). After such a message a job can be published whose seed the same
  message has evicted, until the next one loads it again.
* With `template_timeout` below `fatal_node_timeout`, as in the defaults, each
  request restarts the clock: silence alone never ends the process, and a node
  that is connected and answers other things than jobs may.
* A share sent before the login is judged against job id 0 and whatever job the
  place's last client has left (`CreditIsForTheJobSent` is about miners that are
  logged in). A share for the current job may be refused as stale when a second
  notification has given the job another number. The same share sent twice is
  credited twice.
* The test for a block compares with 4096, the difficulty of a share, and not
  with the block's (the comparison is commented out in `client.cpp:276`):
  `JudgedByWorth` therefore calls a block what is harder than a share.

### What the violations show

* `rx_race` - `dataset_thd_main` reads `ds_seed` again after the build
  (`rx_hashpool.cpp:107`). Two loads of a slot within one build leave the slot
  ready for a seed its cache was not built from, and shares of that seed are
  hashed wrongly until the next dataset thread takes the lock. `pp_hashpool`
  copies the epoch to a local (`pp_hashpool.cpp:97`) and is immune.
* `pools_signal` - an answer to a client fails (its socket is shut down) after
  the node has written a new block to the pipe. One `epoll_wait` returns both:
  the new block removes the aborted client, and the client's event then calls
  `on_socket_read` on a null pointer (`client_pool.hpp:208`); only the other
  branch checks for that.
* `pools_erase` - the accept thread counts a client in and writes its socket to
  the pipe after the pool's thread has read a count of zero and before
  `thd_finished` is set (`client_pool.hpp:217-218`). The pool is erased; the
  connection stays open and is never served. `continue` at `client_pool.hpp:193`
  gives a brand new pool the same fate when its first wait is interrupted: with
  the one connection of the run, that is the variant TLC finds.
* `pools_sigpipe` - `sock_init` (`socks.h:40`), which ignores SIGPIPE, is called
  nowhere. Answering a miner that has closed its connection can end the process.

## 4. Proofs

Every theorem holds for every value of the constants that the named `ASSUME` of
its component admits: any number of callers, threads, slots, connections, pools,
readers, places, jobs. Those assumptions are:

* `HashPoolAssumption` - a positive number of slots and of waiting dataset
  threads; the special values are distinct and are neither datasets nor callers.
* `ThdqAssumption` - the two sets of threads are finite and disjoint.
* `ClientPoolsAssumption`, `NamesAssumption` - positive pool sizes, at least one
  job, pool names enough for every connection, names of connections, threads and
  messages that differ.
* `SessionAssumption` - a word has more than one value and the block difficulty
  divides their number, as 4096 divides 2^32 (with words of one value
  `JudgedByWorth` is false).
* `NodeAssumption` - positive epoch lengths, slots and kept entries; the chain
  goes back by an epoch at the most.

Where a theorem needs more, it says so itself (`ASSUME ... PROVE`), in the last
column.

| theorem | states | of | assumes besides |
|---|---|---|---|
| `PpTypeCorrect`, `PpRightDataset`, `PpReadyMeansBuilt`, `PpSettledSlotIsReady`, `PpJobsBelongToWaiters` | `PoolTypeOK` and the properties so named | `PpHashpool` | - |
| `PpNoSpuriousError` | `NoSpuriousError` | `PpHashpool` | `Paced` |
| `PpKeepsPromise` | implements `ShareCheck`, step by step | `PpHashpool` | - |
| `RxTypeCorrect`, `RxSettledSlotIsReady`, `RxJobsBelongToWaiters` | `TypeOK` and the properties so named | `RxHashpool` | - |
| `PpUsesFifo`, `RxUsesFifo` | uses its queue as `BlockingFifo` demands, step by step | `PpHashpool`, `RxHashpool` | - |
| `PpLoadsInTurn`, `RxLoadsInTurn` | `LoadsInTurn`, an action property | `PpHashpool`, `RxHashpool` | - |
| `PpSearchesLoaded`, `RxSearchesLoaded` | `SearchesLoaded` | `PpHashpool`, `RxHashpool` | - |
| `RxRightDataset`, `RxReadyMeansBuilt`, `RxNoSpuriousError` | the properties so named | `RxHashpool` | `Paced` |
| `RxKeepsPromise` | implements `ShareCheck`, step by step | `RxHashpool` | `Paced` |
| `ThdqTypeCorrect`, `ThdqSleepersAreSpare` | `TypeOK`, `SleepersAreSpare` | `Thdq` | - |
| `ThdqImplementsFifo` | implements `BlockingFifo`, step by step | `Thdq` | - |
| `PoolsTypeCorrect`, `PoolsAccounting`, `PoolsFinishedServesNobody`, `PoolsNoLostWakeup`, `PoolsStaleMinersWillBeTold` | `TypeOK` and the properties so named | `ClientPools` | - |
| `PoolsRemovedForCause` | `RemovedForCause`, an action property | `ClientPools` | `HangupMasks = {"in"}` |
| `PoolsRemovedOrHungUp` | `RemovedOrHungUp`: the same with the one exception named | `ClientPools` | - |
| `SessionTypeCorrect`, `SessionDistinctWork`, `SessionCreditIsForTheJobSent`, `SessionJudgedByWorth`, `SessionCallsAreLimited`, `SessionOnlyTheFastSlowDown` | `TypeOK` and the properties so named | `ClientSession` | - |
| `NodeTypeCorrect`, `NodeGraceWindow`, `NodeCopiesAreComplete`, `NodeSilenceIsNotFatal` | `TypeOK` and the properties so named | `Node` | - |
| `NodeDatasetsStay` | `DatasetsOfCurrentJobStay`, an action property | `Node` | two slots or more |

In each component one inductive invariant, `IInv`, carries all theorems. None of
the properties is inductive by itself; what follows is what each needs besides.

**Hash pools.** `HashPoolProofs` has the part both pools share:

* `IndexOK` - past its search a thread points at a slot, a waiting share names a
  dataset, a load in progress has room for its thread;
* `LockOK` - no hash thread is inside the shared lock of a slot whose dataset
  thread is inside the exclusive one;
* `JobsBelongToWaiters` - itself a strengthening: that the queue holds no job
  twice is preserved only together with "no held job is queued" and "no two
  threads hold the same job", and that none is lost comes with it;
* `HashOK` - a thread about to hash has its dataset before it. It is what the
  second look establishes: at that moment the ready id equals the job's id under
  the shared lock, hence (`ReadyMeansBuilt`, no builder) the cache does, and the
  lock keeps it so until the hash is made (`LockOK`). The unlocked search
  contributes nothing: dropping the second look breaks `RightDataset`;
* `FairInv` - for the other direction the search is what matters. It is not
  atomic, and could miss a dataset that is always in service if that moved to a
  slot already passed. It does not move: a dataset is in one slot only
  (`LoadedOnce`), and with a paced node a slot serves what it was loaded with or
  nothing (`ServeOK`). So the dataset of a share that is `steady` is in a slot
  the search has still before it, and what was found is still there under the
  lock (`SearchOK`).

Each pool then adds what is true of its slots. For ProgPoW: while a slot is
being built, the local copy is some epoch; a ready id is matched by the context
unless a builder is between destroying and declaring; a slot without dataset
threads and without a load in progress is ready for what was loaded last. The
last is the delicate one: a dataset thread that was started before a reload may
finish after it and declare the old epoch, and it is only the thread the reload
itself has started, necessarily still waiting, that puts it right, so the
invariant speaks of the *last* builder. For RandomX the same with the seed
instead of the loaded id, and, with a paced node only, that no seed is written
while a dataset thread of the slot lives, so both reads see the same.

`KeepsPromise` without its liveness follows from the invariant and one fact per
action: each is a `Request`, a `Reply`, a `Return` or a `Reoffer` of
`ShareCheck`, or changes nothing that it sees. For ProgPoW at any pace; what the
promise says about errors is then empty, as it is when the node is not `Paced`.

`UsesFifo` needs, besides `JobsBelongToWaiters`, that a thread between two jobs
holds none (`HandOK`). A caller returns when it has been answered; by
`JobsBelongToWaiters` its job is then in no queue and in no thread's hand, which
is the guard of `Leave`. With a node that is not paced the RandomX pool may hash
with the wrong seed, but this still holds: every share gets its one answer.

`LoadsInTurn` maps the ring of slots to a list. `Oldest` is the slot to be
replaced next: the counter, or the slot of the load under way, because the
counter moves on before the loaded id is set. `TurnOK` says that slots are used
from the first on until all are in use, and that during a load the counter is one
past the slot; `LoadedOnce` gives that what is being loaded is in no slot yet. A
load then appends to the list while there is room (`TurnFill`) and rotates it
from then on (`TurnRotate`).

**Queue.** A consumer has an item exactly when it has left the queue with one,
and the item of a busy producer is in one place. `SleepersAreSpare` counts: a
step that puts an item in adds a sender in the same step, one that takes an item
takes a consumer from those on their way, a notification turns a sender into a
consumer awake, and a wait, which needs an empty queue, puts one to sleep that
nothing is waiting for.

**Client pools.** `ThreadInv` - a pool is in the list exactly as long as its
thread is there, and who walks the list holds its mutex. `OwnInv` - a socket is
in the accept thread's hands, in one pipe or in one slot, never in two, and its
session begins when it has a slot; everything the thread does to a client
touches nobody else because of it. `CountInv` - the count is what is in slots,
in the pipe and under way (`Accounting`), and a pool found with room has room
for as long as the mutex is held. `Woken` is `NoLostWakeup` said slot by slot: a
pipe that is not empty and a client that wants attention are on the ready list,
in the batch, or being served. The step that matters is `Wait`: it takes a
prefix of the ready list, reports what is readable in it and drops the rest, and
what is dropped has nothing to say. `StaleMinersWillBeTold` is inductive with
these. `RemovedForCause` needs that no event asks for more than to read; it is
false where a hang-up may come as a bare EPOLLHUP, for the event of a client that
is gone then removes the one that was given its slot within the same batch (TLC
finds it). `RemovedOrHungUp` holds in any case and says that this is the only way.
`ClientPoolsLemmas` has what lists and counts do when something is put in or
taken out.

**Sessions.** Extra nonces of connected clients are distinct and below the
counter. A client's job ids are bounded by the jobs published and those it is
still owed, every number in `sent` but the current one is less than `jobid`, and
the current job bears the client's own extra nonce; a verdict is about that job.
`JudgedByWorth` is arithmetic on quotients and remainders, for any word.

For the limit on calls `Minute` says what a place's counter knows. While its
window lasts: since it began at least as many calls were made as are counted, no
more of them were served than are counted, nor than `MaxCalls`; and of the earlier
ones that are still within a minute no more than `MaxCalls` were served. When it
is over: of the last minute's calls no more than `MaxCalls` were served. So two
windows cover any minute (`CallsAreLimited`), and who is told to slow down has made
the calls of the present window within a minute (`OnlyTheFastSlowDown`). Both are
cardinalities of sets of calls, with one lemma for a call that is added
(`OneMoreCall`) and one for time that passes (`OlderCalls`).

**Node.** A client's pointer is lost exactly when `KeepJobs` newer entries exist
(`WindowOK`: the distance from the pointer to the end of the list is `late`). The
clock does not pass the template timeout unless the node chats (`SilenceOK`). For
the datasets `EpochInv`: as long as no message has strayed, the slots hold rising
epochs up to the one after the greatest so far, and that one only together with
the one before; so a load pushes out an older one, and two slots are enough.

**Model-checked only.** Liveness under fairness (`EveryLoadCompletes`,
`MinersHearOfJobs`, `HungupIsRemoved`, `JobsKeepComing`, and that of
`KeepsPromise` and `KeepsFifo`) is beyond the prover. The four violations are
TLC's by nature. Every other property of the runs, safety invariants and action
properties alike, is a theorem.

## 5. Files

`<run>.cfg` belongs to the MC module of its component: `rx*` to `MCRxHashpool`,
`pp` to `MCPpHashpool`, `pools_*` to `MCClientPools`, `node_*` to `MCNode`,
`session` to `MCClientSession`, `thdq` to `MCThdq`.

    tlc -workers 2 -config pp.cfg MCPpHashpool
    tlapm ClientPoolsProofs.tla

The proofs of `ClientPoolsProofs` take a few minutes, the others one or two at
most.

## 6. Not modelled, and plan

Not modelled: the **configuration**, parsed once before any thread starts, whose
values are constants here; the **logger**, which holds one mutex and takes no
other inside; **encoding**, **JSON helpers** and **structures**, pure functions
whose failures are the malformed requests of `ClientSession` and the flawed
messages of `Node`; the sockets of `server::start` and `main`. rapidjson,
RandomX, ethash, OpenSSL and the kernel are external.

What is left:

1. The liveness of the refinements, for any number of threads: a prover with
   fairness is needed, or a measure for each wait and its proof by hand.
2. One instance in which a pool's thread waits for a hash pool. `ClientPools` has
   `submit` as one step because `KeepsPromise` says that it comes back; that
   `MinersHearOfJobs` then holds is an argument of this page, not of a run.
3. Wrap-around of job ids and extra nonces at 2^32, once the properties are said
   modulo the word.
