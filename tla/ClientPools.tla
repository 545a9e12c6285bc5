----------------------------- MODULE ClientPools -----------------------------
(***************************************************************************)
(* The server: one accept thread, the node thread that announces blocks,   *)
(* and a list of client pools, each with a thread of its own.              *)
(*                                                                         *)
(* A pool's thread sleeps in an edge triggered epoll_wait on the pool's    *)
(* pipe and on the sockets of its clients.  The accept thread and the node *)
(* only ever touch a pool through its pipe and its count of clients; they  *)
(* share the list under a mutex, and erase from it the pools whose thread  *)
(* has declared itself finished.  A thread finishes when, after a round of *)
(* events, it finds its count at zero.                                     *)
(*                                                                         *)
(* The kernel's part (epoll's ready list, socket errors) is modelled from  *)
(* how the code uses it.  A socket is never reused.  A request is a line   *)
(* whose contents the pool thread chooses when it parses it.               *)
(***************************************************************************)
EXTENDS Integers, Sequences, FiniteSets

CONSTANTS
    Sockets,        \* the connections that may be accepted
    Pools,          \* bound: names for the pools that may be in the list
    PoolSizes,      \* the sizes a listener's pools may have: 256 and 254 in the code
    MaxJobs,        \* bound: jobs the node publishes
    MaxLines,       \* bound: lines a peer sends
    None,           \* no socket, no pool, an empty slot
    HangupMasks,    \* events a hang-up may raise: EPOLLIN ("in") or not ("hup")
    SigpipeIgnored  \* whether SIGPIPE is ignored in the process

ASSUME ClientPoolsAssumption ==
    /\ PoolSizes \subseteq Nat \ {0} /\ PoolSizes # {}
    /\ MaxJobs \in Nat \ {0} /\ MaxLines \in Nat
    /\ HangupMasks \subseteq {"in", "hup"} /\ HangupMasks # {}
    /\ SigpipeIgnored \in BOOLEAN
    /\ None \notin Sockets /\ None \notin Pools
    /\ \A n \in PoolSizes : Cardinality(Pools) * n >= Cardinality(Sockets)

VARIABLES
    size,       \* pool_size, the template parameter of this listener's pools
    list,       \* client_pools, under store_mtx
    mtx,        \* who holds store_mtx: "accept", "node" or None
    apc,        \* the accept thread: "idle", "lock", "scan", "found", "counted"
    asock,      \* cli_sck
    apos,       \* its iterator
    apool,      \* found_pool
    npc,        \* the node thread: "idle", "published" or "notify"
    npos,       \* its iterator
    current,    \* current_job, numbered
    active,     \* active[p]: active_cnt
    finished,   \* finished[p]: thd_finished
    pipe,       \* pipe[p]: sockets to add, and NewBlock
    rdy,        \* rdy[p]: epoll's ready list, oldest first
    tpc,        \* tpc[p]: where the pool's thread stands
    batch,      \* batch[p]: the events it has still to handle
    cur,        \* cur[p]: the slot it is busy with
    buf,        \* buf[p]: complete lines in that client's recv_buf
    slots,      \* slots[p][k]: the client in clients[k]
    conn,       \* conn[s]: "new", "up", "fin", "rst" or "broken" (by the peer), "gone"
    data,       \* data[s]: lines in the socket's receive queue
    sent,       \* sent[s]: lines the peer has sent
    aborting,   \* aborting[s]: hard_abort was called (and the socket shut down)
    logged,     \* logged[s]: logged_in
    known,      \* known[s]: cur_job
    dead        \* "no", or what killed the process: "segv" or "sigpipe"

listVars == <<list, mtx>>
acceptVars == <<apc, asock, apos, apool>>
nodeVars == <<npc, npos, current>>
sharedVars == <<active, finished, pipe>>
threadVars == <<tpc, batch, cur, buf, slots>>
sockVars == <<conn, data, sent>>
clientVars == <<aborting, logged, known>>
vars == <<size, listVars, acceptVars, nodeVars, sharedVars, rdy, threadVars, sockVars, clientVars, dead>>

Idx == 1..size
Event == [idx : 0..size, mask : {"in", "hup"}]
NewBlock == "new block"
Pipe == "pipe"

ASSUME NamesAssumption ==
    {NewBlock, Pipe} \cap Sockets = {} /\ None \notin {NewBlock, "accept", "node"}

InSeq(x, q) == \E i \in DOMAIN q : q[i] = x

\* A list that holds nothing twice, without x.
Without(q, x) ==
    IF InSeq(x, q)
    THEN LET n == CHOOSE i \in DOMAIN q : q[i] = x
         IN  SubSeq(q, 1, n - 1) \o SubSeq(q, n + 1, Len(q))
    ELSE q

Alive == dead = "no"

Open(s) == \E p \in Pools, k \in Idx : slots[p][k] = s
PoolOf(s) == CHOOSE p \in Pools : \E k \in Idx : slots[p][k] = s

Init ==
    /\ size \in PoolSizes
    /\ list = << >> /\ mtx = None
    /\ apc = "idle" /\ asock = None /\ apos = 1 /\ apool = None
    /\ npc = "idle" /\ npos = 1 /\ current = 1
    /\ active = [p \in Pools |-> 0]
    /\ finished = [p \in Pools |-> FALSE]
    /\ pipe = [p \in Pools |-> << >>]
    /\ rdy = [p \in Pools |-> << >>]
    /\ tpc = [p \in Pools |-> "none"]
    /\ batch = [p \in Pools |-> << >>]
    /\ cur = [p \in Pools |-> 1]
    /\ buf = [p \in Pools |-> 0]
    /\ slots = [p \in Pools |-> [k \in Idx |-> None]]
    /\ conn = [s \in Sockets |-> "new"]
    /\ data = [s \in Sockets |-> 0]
    /\ sent = [s \in Sockets |-> 0]
    /\ aborting = [s \in Sockets |-> FALSE]
    /\ logged = [s \in Sockets |-> FALSE]
    /\ known = [s \in Sockets |-> 0]
    /\ dead = "no"

-----------------------------------------------------------------------------
(* The kernel: epoll's ready lists.                                        *)

\* An edge on x, which is the pipe of p or a socket p watches.
Edge(p, x) == rdy' = [rdy EXCEPT ![p] = IF InSeq(x, @) THEN @ ELSE Append(@, x)]

\* Does x have an event to report when epoll_wait looks at it?
Readable(p, x) ==
    IF x = Pipe THEN pipe[p] # << >>
    ELSE data[x] > 0 \/ conn[x] # "up" \/ aborting[x]

\* The events x may be reported with; slot 0 stands for the pipe.
EventsOf(p, x) ==
    IF x = Pipe THEN {[idx |-> 0, mask |-> "in"]}
    ELSE {[idx |-> k, mask |-> m] : k \in {j \in Idx : slots[p][j] = x},
                                    m \in IF data[x] > 0 THEN {"in"} ELSE HangupMasks}

\* Bytes arrive; the peer closes ("fin"), resets the connection ("rst"), or
\* resets it after it closed, as it does when it is sent more ("broken").
PeerSends(s) ==
    /\ Alive /\ conn[s] = "up" /\ sent[s] < MaxLines
    /\ data' = [data EXCEPT ![s] = @ + 1]
    /\ sent' = [sent EXCEPT ![s] = @ + 1]
    /\ IF Open(s) THEN Edge(PoolOf(s), s) ELSE UNCHANGED rdy
    /\ UNCHANGED <<size, listVars, acceptVars, nodeVars, sharedVars, threadVars, conn, clientVars, dead>>

PeerCloses(s) ==
    /\ Alive
    /\ \E step \in {<<"up", "fin">>, <<"up", "rst">>, <<"fin", "broken">>} :
        /\ conn[s] = step[1]
        /\ conn' = [conn EXCEPT ![s] = step[2]]
    /\ data' = [data EXCEPT ![s] = IF conn'[s] = "fin" THEN @ ELSE 0]
    /\ IF Open(s) THEN Edge(PoolOf(s), s) ELSE UNCHANGED rdy
    /\ UNCHANGED <<size, listVars, acceptVars, nodeVars, sharedVars, threadVars, sent, clientVars, dead>>

-----------------------------------------------------------------------------
(* iterate_pools, for the thread at position i of the list.                *)

ErasePool(p) ==
    /\ list' = Without(list, p)
    /\ active' = [active EXCEPT ![p] = 0]
    /\ finished' = [finished EXCEPT ![p] = FALSE]
    /\ pipe' = [pipe EXCEPT ![p] = << >>]
    /\ rdy' = [rdy EXCEPT ![p] = << >>]
    /\ tpc' = [tpc EXCEPT ![p] = "none"]

\* The mutex is taken only by a thread that finds it free.
Lock(who) == mtx = None /\ mtx' = who

-----------------------------------------------------------------------------
(* The accept thread: listen_main.                                         *)

\* accept4 returns s; a failing setsockopt aborts it at once.
Accept(s) ==
    /\ Alive /\ apc = "idle" /\ conn[s] = "new"
    /\ \/ /\ conn' = [conn EXCEPT ![s] = "up"]
          /\ apc' = "lock" /\ asock' = s
       \/ /\ conn' = [conn EXCEPT ![s] = "gone"]
          /\ UNCHANGED <<apc, asock>>
    /\ UNCHANGED <<size, listVars, apos, apool, nodeVars, sharedVars, rdy, threadVars, data, sent,
                   clientVars, dead>>

AcceptLock ==
    /\ Alive /\ apc = "lock"
    /\ Lock("accept")
    /\ apc' = "scan" /\ apos' = 1
    /\ UNCHANGED <<size, list, asock, apool, nodeVars, sharedVars, rdy, threadVars, sockVars,
                   clientVars, dead>>

\* One pool of the search for one that is not full.
AcceptScan ==
    /\ Alive /\ apc = "scan" /\ apos <= Len(list)
    /\ LET p == list[apos] IN
       \/ /\ finished[p]
          /\ ErasePool(p)
          /\ UNCHANGED <<apc, apos, apool>>
       \/ /\ ~finished[p] /\ active[p] # size
          /\ apc' = "found" /\ apool' = p /\ apos' = 1
          /\ UNCHANGED <<list, sharedVars, rdy, tpc>>
       \/ /\ ~finished[p] /\ active[p] = size
          /\ apos' = apos + 1
          /\ UNCHANGED <<list, sharedVars, rdy, tpc, apc, apool>>
    /\ UNCHANGED <<size, mtx, asock, nodeVars, batch, cur, buf, slots, sockVars, clientVars, dead>>

\* None: pools.emplace_back(), which starts the pool's thread.
AcceptAllocate ==
    /\ Alive /\ apc = "scan" /\ apos > Len(list)
    /\ \E p \in Pools :
        /\ ~InSeq(p, list)
        /\ list' = Append(list, p)
        /\ tpc' = [tpc EXCEPT ![p] = "wait"]
        /\ apc' = "found" /\ apool' = p /\ apos' = 1
    /\ UNCHANGED <<size, mtx, asock, nodeVars, sharedVars, rdy, batch, cur, buf, slots, sockVars,
                   clientVars, dead>>

\* add_socket: active_cnt++, then the write to the pipe.
AcceptCount ==
    /\ Alive /\ apc = "found"
    /\ active' = [active EXCEPT ![apool] = @ + 1]
    /\ apc' = "counted"
    /\ UNCHANGED <<size, listVars, asock, apos, apool, nodeVars, finished, pipe, rdy, threadVars,
                   sockVars, clientVars, dead>>

AcceptWrite ==
    /\ Alive /\ apc = "counted"
    /\ pipe' = [pipe EXCEPT ![apool] = Append(@, asock)]
    /\ Edge(apool, Pipe)
    /\ apc' = "idle" /\ asock' = None /\ apool' = None
    /\ mtx' = None
    /\ UNCHANGED <<size, list, apos, nodeVars, active, finished, threadVars, sockVars, clientVars, dead>>

AcceptThread == AcceptLock \/ AcceptScan \/ AcceptAllocate \/ AcceptCount \/ AcceptWrite

-----------------------------------------------------------------------------
(* The node thread: a new job, and notify_new_block.                       *)

\* current_job = job
Publish ==
    /\ Alive /\ npc = "idle" /\ current < MaxJobs
    /\ current' = current + 1
    /\ npc' = "published"
    /\ UNCHANGED <<size, listVars, acceptVars, npos, sharedVars, rdy, threadVars, sockVars, clientVars, dead>>

NotifyLock ==
    /\ Alive /\ npc = "published"
    /\ Lock("node")
    /\ npc' = "notify" /\ npos' = 1
    /\ UNCHANGED <<size, list, acceptVars, current, sharedVars, rdy, threadVars, sockVars, clientVars, dead>>

\* One pool: erased if its thread has finished, told of the block if not.
NotifyPool ==
    /\ Alive /\ npc = "notify" /\ npos <= Len(list)
    /\ LET p == list[npos] IN
       \/ /\ finished[p]
          /\ ErasePool(p)
          /\ UNCHANGED npos
       \/ /\ ~finished[p]
          /\ pipe' = [pipe EXCEPT ![p] = Append(@, NewBlock)]
          /\ Edge(p, Pipe)
          /\ npos' = npos + 1
          /\ UNCHANGED <<list, active, finished, tpc>>
    /\ UNCHANGED <<size, mtx, acceptVars, npc, current, batch, cur, buf, slots, sockVars, clientVars, dead>>

NotifyUnlock ==
    /\ Alive /\ npc = "notify" /\ npos > Len(list)
    /\ mtx' = None
    /\ npc' = "idle" /\ npos' = 1
    /\ UNCHANGED <<size, list, acceptVars, current, sharedVars, rdy, threadVars, sockVars, clientVars, dead>>

NotifyThread == NotifyLock \/ NotifyPool \/ NotifyUnlock

-----------------------------------------------------------------------------
(* A pool's thread: pool_main.                                             *)

\* epoll_wait returns.  It looks through the first n entries, the oldest first,
\* until it has pool_size of them to report or there are no more.  Those with
\* nothing to report are dropped, as are those reported: the watches are edge
\* triggered.
Wait(p) ==
    /\ Alive /\ tpc[p] = "wait"
    /\ \E n \in DOMAIN rdy[p] :
        LET live == {i \in 1..n : Readable(p, rdy[p][i])}
            Rank(i) == Cardinality({j \in live : j <= i})
        IN  /\ IF Cardinality(live) = size THEN n \in live
               ELSE n = Len(rdy[p]) /\ Cardinality(live) \in 1..size
            /\ \E b \in [1..Cardinality(live) -> Event] :
                /\ \A i \in live : b[Rank(i)] \in EventsOf(p, rdy[p][i])
                /\ batch' = [batch EXCEPT ![p] = b]
            /\ rdy' = [rdy EXCEPT ![p] = SubSeq(@, n + 1, Len(@))]
    /\ tpc' = [tpc EXCEPT ![p] = "event"]
    /\ UNCHANGED <<size, listVars, acceptVars, nodeVars, sharedVars, cur, buf, slots, sockVars,
                   clientVars, dead>>

\* EINTR, which epoll_wait returns only when it had to sleep: "continue" in a
\* do-while goes to the loop's condition.
Interrupted(p) ==
    /\ Alive /\ tpc[p] = "wait"
    /\ \A i \in DOMAIN rdy[p] : ~Readable(p, rdy[p][i])
    /\ tpc' = [tpc EXCEPT ![p] = "event"]
    /\ UNCHANGED <<size, listVars, acceptVars, nodeVars, sharedVars, rdy, batch, cur, buf, slots,
                   sockVars, clientVars, dead>>

\* Slip: the loop ends one client too early.
LoopTestEarly(p) ==
    /\ Alive /\ tpc[p] = "event" /\ batch[p] = << >>
    /\ tpc' = [tpc EXCEPT ![p] = IF active[p] > 1 THEN "wait" ELSE "exit"]
    /\ UNCHANGED <<size, listVars, acceptVars, nodeVars, sharedVars, rdy, batch, cur, buf, slots,
                   sockVars, clientVars, dead>>

\* while(active_cnt > 0)
LoopTest(p) ==
    /\ Alive /\ tpc[p] = "event" /\ batch[p] = << >>
    /\ tpc' = [tpc EXCEPT ![p] = IF active[p] > 0 THEN "wait" ELSE "exit"]
    /\ UNCHANGED <<size, listVars, acceptVars, nodeVars, sharedVars, rdy, batch, cur, buf, slots,
                   sockVars, clientVars, dead>>

\* thd_finished = true
Finish(p) ==
    /\ Alive /\ tpc[p] = "exit"
    /\ finished' = [finished EXCEPT ![p] = TRUE]
    /\ tpc' = [tpc EXCEPT ![p] = "done"]
    /\ UNCHANGED <<size, listVars, acceptVars, nodeVars, active, pipe, rdy, batch, cur, buf, slots,
                   sockVars, clientVars, dead>>

\* remove_client of the slot k that s occupies: EPOLL_CTL_DEL, ~client (which
\* closes the socket), active_cnt--.
RemoveClient(p, k, s) ==
    /\ slots' = [slots EXCEPT ![p][k] = None]
    /\ active' = [active EXCEPT ![p] = @ - 1]
    /\ rdy' = [rdy EXCEPT ![p] = Without(@, s)]
    /\ conn' = [conn EXCEPT ![s] = "gone"]
    /\ data' = [data EXCEPT ![s] = 0]

\* The next event of the round.
PipeEvent(p) ==
    /\ Alive /\ tpc[p] = "event" /\ batch[p] # << >> /\ Head(batch[p]).idx = 0
    /\ batch' = [batch EXCEPT ![p] = Tail(@)]
    /\ tpc' = [tpc EXCEPT ![p] = "pipe"]
    /\ UNCHANGED <<size, listVars, acceptVars, nodeVars, sharedVars, rdy, cur, buf, slots, sockVars,
                   clientVars, dead>>

\* EPOLLIN: clients[idx].get()->on_socket_read(), whoever is there now.
ReadEvent(p) ==
    /\ Alive /\ tpc[p] = "event" /\ batch[p] # << >>
    /\ Head(batch[p]).idx # 0 /\ Head(batch[p]).mask = "in"
    /\ IF slots[p][Head(batch[p]).idx] = None
       THEN dead' = "segv" /\ UNCHANGED <<tpc, cur>>
       ELSE /\ tpc' = [tpc EXCEPT ![p] = "read"]
            /\ cur' = [cur EXCEPT ![p] = Head(batch[p]).idx]
            /\ UNCHANGED dead
    /\ batch' = [batch EXCEPT ![p] = Tail(@)]
    /\ UNCHANGED <<size, listVars, acceptVars, nodeVars, sharedVars, rdy, buf, slots, sockVars, clientVars>>

\* Slip: remove_client does not look whether the slot is empty.
HangupUnchecked(p) ==
    /\ Alive /\ tpc[p] = "event" /\ batch[p] # << >>
    /\ Head(batch[p]).idx # 0 /\ Head(batch[p]).mask = "hup"
    /\ RemoveClient(p, Head(batch[p]).idx, slots[p][Head(batch[p]).idx])
    /\ batch' = [batch EXCEPT ![p] = Tail(@)]
    /\ UNCHANGED <<size, listVars, acceptVars, nodeVars, finished, pipe, tpc, cur, buf, sent, clientVars, dead>>

\* EPOLLERR, EPOLLHUP: remove_client, which does nothing on an empty slot.
HangupEvent(p) ==
    /\ Alive /\ tpc[p] = "event" /\ batch[p] # << >>
    /\ Head(batch[p]).idx # 0 /\ Head(batch[p]).mask = "hup"
    /\ LET k == Head(batch[p]).idx IN
       IF slots[p][k] = None
       THEN UNCHANGED <<slots, active, rdy, conn, data>>
       ELSE RemoveClient(p, k, slots[p][k])
    /\ batch' = [batch EXCEPT ![p] = Tail(@)]
    /\ UNCHANGED <<size, listVars, acceptVars, nodeVars, finished, pipe, tpc, cur, buf, sent, clientVars, dead>>

-----------------------------------------------------------------------------
(* A pool's thread in client::on_socket_read.                              *)

\* What write() may return: EPIPE, with SIGPIPE, for a socket that was shut
\* down or that was reset after the peer had closed it; once ECONNRESET for one
\* that was just reset; any other may be unable to take the whole line.
SendResults(s) ==
    IF aborting[s] \/ conn[s] = "broken" THEN {"epipe"}
    ELSE IF conn[s] = "rst" THEN {"fail"}
    ELSE {"ok", "fail"}

\* net_send to client s of p: a failure is a hard_abort, whose shutdown() is
\* an edge on the socket.
Send(p, s) ==
    \E r \in SendResults(s) :
        \/ /\ r = "ok"
           /\ UNCHANGED <<aborting, rdy, dead>>
        \/ /\ r = "epipe" /\ ~SigpipeIgnored
           /\ dead' = "sigpipe"
           /\ UNCHANGED <<aborting, rdy>>
        \/ /\ r = "fail" \/ (r = "epipe" /\ SigpipeIgnored)
           /\ aborting' = [aborting EXCEPT ![s] = TRUE]
           /\ Edge(p, s)
           /\ UNCHANGED dead

\* net_recv has something: everything that is there goes to recv_buf.
ReadData(p) ==
    /\ Alive /\ tpc[p] = "read" /\ buf[p] = 0
    /\ LET s == slots[p][cur[p]] IN
        /\ ~aborting[s] /\ data[s] > 0
        /\ buf' = [buf EXCEPT ![p] = data[s]]
        /\ data' = [data EXCEPT ![s] = 0]
    /\ UNCHANGED <<size, listVars, acceptVars, nodeVars, sharedVars, rdy, tpc, batch, cur, slots, conn,
                   sent, clientVars, dead>>

\* Slip: one read for each event.
ReadOnce(p) ==
    /\ Alive /\ tpc[p] = "read" /\ buf[p] = 0
    /\ tpc' = [tpc EXCEPT ![p] = "event"]
    /\ UNCHANGED <<size, listVars, acceptVars, nodeVars, sharedVars, rdy, batch, cur, buf, slots,
                   sockVars, clientVars, dead>>

\* Slip: no data is taken for a failure.
ReadNothingFails(p) ==
    /\ Alive /\ tpc[p] = "read" /\ buf[p] = 0
    /\ LET s == slots[p][cur[p]] IN
        /\ aborting[s] \/ data[s] = 0
        /\ RemoveClient(p, cur[p], s)
    /\ tpc' = [tpc EXCEPT ![p] = "event"]
    /\ UNCHANGED <<size, listVars, acceptVars, nodeVars, finished, pipe, batch, cur, buf, sent, clientVars, dead>>

\* net_recv has nothing: -1 (no data, or aborting) keeps the client, 0 (the
\* peer is gone) removes it.
ReadNothing(p) ==
    /\ Alive /\ tpc[p] = "read" /\ buf[p] = 0
    /\ LET s == slots[p][cur[p]] IN
        \/ /\ aborting[s] \/ (data[s] = 0 /\ conn[s] = "up")
           /\ UNCHANGED <<slots, active, rdy, conn, data>>
        \/ /\ ~aborting[s] /\ data[s] = 0 /\ conn[s] # "up"
           /\ RemoveClient(p, cur[p], s)
    /\ tpc' = [tpc EXCEPT ![p] = "event"]
    /\ UNCHANGED <<size, listVars, acceptVars, nodeVars, finished, pipe, batch, cur, buf, sent, clientVars, dead>>

\* process_line on a login: the current job is copied and sent.
LoginLine(p) ==
    /\ Alive /\ tpc[p] = "read" /\ buf[p] > 0
    /\ LET s == slots[p][cur[p]] IN
        /\ ~logged[s]
        /\ known' = [known EXCEPT ![s] = current]
        /\ Send(p, s)
        /\ logged' = [logged EXCEPT ![s] = TRUE]
    /\ buf' = [buf EXCEPT ![p] = @ - 1]
    /\ UNCHANGED <<size, listVars, acceptVars, nodeVars, sharedVars, tpc, batch, cur, slots, sockVars>>

\* process_line on any other request: one answer.
RequestLine(p) ==
    /\ Alive /\ tpc[p] = "read" /\ buf[p] > 0
    /\ Send(p, slots[p][cur[p]])
    /\ buf' = [buf EXCEPT ![p] = @ - 1]
    /\ UNCHANGED <<size, listVars, acceptVars, nodeVars, sharedVars, tpc, batch, cur, slots, sockVars,
                   logged, known>>

\* process_line on what is not a JSON object: hard_abort, and the client goes.
BadLine(p) ==
    /\ Alive /\ tpc[p] = "read" /\ buf[p] > 0
    /\ LET s == slots[p][cur[p]] IN
        /\ aborting' = [aborting EXCEPT ![s] = TRUE]
        /\ RemoveClient(p, cur[p], s)
    /\ buf' = [buf EXCEPT ![p] = 0]
    /\ tpc' = [tpc EXCEPT ![p] = "event"]
    /\ UNCHANGED <<size, listVars, acceptVars, nodeVars, finished, pipe, batch, cur, sent, logged, known, dead>>

-----------------------------------------------------------------------------
(* A pool's thread in process_pipe.                                        *)

\* EAGAIN: the pipe is empty, process_pipe returns.
PipeEmpty(p) ==
    /\ Alive /\ tpc[p] = "pipe" /\ pipe[p] = << >>
    /\ tpc' = [tpc EXCEPT ![p] = "event"]
    /\ UNCHANGED <<size, listVars, acceptVars, nodeVars, sharedVars, rdy, batch, cur, buf, slots,
                   sockVars, clientVars, dead>>

\* A new block: one client after the other.
PipeNewBlock(p) ==
    /\ Alive /\ tpc[p] = "pipe" /\ pipe[p] # << >> /\ Head(pipe[p]) = NewBlock
    /\ pipe' = [pipe EXCEPT ![p] = Tail(@)]
    /\ cur' = [cur EXCEPT ![p] = 1]
    /\ tpc' = [tpc EXCEPT ![p] = "tell"]
    /\ UNCHANGED <<size, listVars, acceptVars, nodeVars, active, finished, rdy, batch, buf, slots,
                   sockVars, clientVars, dead>>

\* The cursor moves on from slot k; past the last one, back to the pipe.
NextClient(p) ==
    IF cur[p] = size
    THEN cur' = [cur EXCEPT ![p] = 1] /\ tpc' = [tpc EXCEPT ![p] = "pipe"]
    ELSE cur' = [cur EXCEPT ![p] = @ + 1] /\ UNCHANGED tpc

\* Slip: the search for clients to tell ends at the first empty slot.
TellUntilEmpty(p) ==
    /\ Alive /\ tpc[p] = "tell"
    /\ LET s == slots[p][cur[p]] IN
        \/ /\ s = None
           /\ cur' = [cur EXCEPT ![p] = 1] /\ tpc' = [tpc EXCEPT ![p] = "pipe"]
           /\ UNCHANGED <<known, aborting, rdy, dead>>
        \/ /\ s # None /\ ~aborting[s]
           /\ known' = [known EXCEPT ![s] = current]
           /\ IF logged[s] THEN Send(p, s) ELSE UNCHANGED <<aborting, rdy, dead>>
           /\ NextClient(p)
    /\ UNCHANGED <<size, listVars, acceptVars, nodeVars, sharedVars, batch, buf, slots, sockVars, logged>>

\* Slip: the client is sent the job it has.
TellOldJob(p) ==
    /\ Alive /\ tpc[p] = "tell"
    /\ LET s == slots[p][cur[p]] IN
        IF s # None /\ logged[s] /\ ~aborting[s] THEN Send(p, s) ELSE UNCHANGED <<aborting, rdy, dead>>
    /\ NextClient(p)
    /\ UNCHANGED <<size, listVars, acceptVars, nodeVars, sharedVars, batch, buf, slots, sockVars, logged, known>>

\* client::on_new_block: an aborting client is removed, the others take the
\* current job, and those who are logged in are sent it.
TellClient(p) ==
    /\ Alive /\ tpc[p] = "tell"
    /\ LET s == slots[p][cur[p]] IN
        \/ /\ s = None
           /\ UNCHANGED <<slots, active, rdy, conn, data, clientVars, dead>>
        \/ /\ s # None /\ aborting[s]
           /\ RemoveClient(p, cur[p], s)
           /\ UNCHANGED <<clientVars, dead>>
        \/ /\ s # None /\ ~aborting[s]
           /\ known' = [known EXCEPT ![s] = current]
           /\ IF logged[s] THEN Send(p, s) ELSE UNCHANGED <<aborting, rdy, dead>>
           /\ UNCHANGED <<slots, active, conn, data, logged>>
    /\ NextClient(p)
    /\ UNCHANGED <<size, listVars, acceptVars, nodeVars, finished, pipe, batch, buf, sent>>

FreeSlots(p) == {k \in Idx : slots[p][k] = None}

\* A new client: constructed in the first free slot and watched.  A socket
\* that is readable already is put on the ready list by EPOLL_CTL_ADD.
PipeAdd(p) ==
    /\ Alive /\ tpc[p] = "pipe" /\ pipe[p] # << >> /\ Head(pipe[p]) # NewBlock
    /\ FreeSlots(p) # {}
    /\ LET s == Head(pipe[p])
           k == CHOOSE j \in FreeSlots(p) : \A i \in FreeSlots(p) : j <= i
       IN  /\ slots' = [slots EXCEPT ![p][k] = s]
           /\ IF Readable(p, s) THEN Edge(p, s) ELSE UNCHANGED rdy
    /\ pipe' = [pipe EXCEPT ![p] = Tail(@)]
    /\ UNCHANGED <<size, listVars, acceptVars, nodeVars, active, finished, tpc, batch, cur, buf,
                   sockVars, clientVars, dead>>

\* Slip: the client that could not be watched is still counted.
PipeAddUncounted(p) ==
    /\ Alive /\ tpc[p] = "pipe" /\ pipe[p] # << >> /\ Head(pipe[p]) # NewBlock
    /\ conn' = [conn EXCEPT ![Head(pipe[p])] = "gone"]
    /\ data' = [data EXCEPT ![Head(pipe[p])] = 0]
    /\ pipe' = [pipe EXCEPT ![p] = Tail(@)]
    /\ UNCHANGED <<size, listVars, acceptVars, nodeVars, active, finished, rdy, threadVars, sent, clientVars, dead>>

\* epoll_ctl fails (max_user_watches): the client is destroyed again.
PipeAddFails(p) ==
    /\ Alive /\ tpc[p] = "pipe" /\ pipe[p] # << >> /\ Head(pipe[p]) # NewBlock
    /\ FreeSlots(p) # {}
    /\ conn' = [conn EXCEPT ![Head(pipe[p])] = "gone"]
    /\ data' = [data EXCEPT ![Head(pipe[p])] = 0]
    /\ pipe' = [pipe EXCEPT ![p] = Tail(@)]
    /\ active' = [active EXCEPT ![p] = @ - 1]
    /\ UNCHANGED <<size, listVars, acceptVars, nodeVars, finished, rdy, threadVars, sent, clientVars, dead>>

PoolThread(p) ==
    \/ Wait(p) \/ LoopTest(p) \/ Finish(p)
    \/ PipeEvent(p) \/ ReadEvent(p) \/ HangupEvent(p)
    \/ ReadData(p) \/ ReadNothing(p) \/ LoginLine(p) \/ RequestLine(p) \/ BadLine(p)
    \/ PipeEmpty(p) \/ PipeNewBlock(p) \/ TellClient(p) \/ PipeAdd(p) \/ PipeAddFails(p)

-----------------------------------------------------------------------------

Next ==
    \/ \E s \in Sockets : PeerSends(s) \/ PeerCloses(s) \/ Accept(s)
    \/ AcceptThread
    \/ Publish \/ NotifyThread
    \/ \E p \in Pools : PoolThread(p) \/ Interrupted(p)

\* The threads run; nobody has to connect, to send, to hang up or to publish.
\* std::mutex may be taken by either of its two users: neither holds it long
\* nor takes it again at once (accept4 and the node's socket come in between).
Fairness ==
    /\ WF_vars(AcceptThread) /\ SF_vars(AcceptLock)
    /\ WF_vars(NotifyThread) /\ SF_vars(NotifyLock)
    /\ \A p \in Pools : WF_vars(PoolThread(p))

Safe == Init /\ [][Next]_vars
Spec == Safe /\ Fairness

-----------------------------------------------------------------------------
(* Properties.                                                             *)

Message == Sockets \cup {NewBlock}
Distinct(q) == \A i, j \in DOMAIN q : q[i] = q[j] => i = j

\* Every variable has its type: the threads only ever stand where the code
\* lets them, and no list holds a thing twice.
TypeOK ==
    /\ size \in PoolSizes
    /\ list \in Seq(Pools) /\ Distinct(list)
    /\ mtx \in {"accept", "node", None}
    /\ apc \in {"idle", "lock", "scan", "found", "counted"}
    /\ asock \in Sockets \cup {None} /\ apos \in Nat \ {0} /\ apool \in Pools \cup {None}
    /\ npc \in {"idle", "published", "notify"} /\ npos \in Nat \ {0} /\ current \in 1..MaxJobs
    /\ active \in [Pools -> 0..size]
    /\ finished \in [Pools -> BOOLEAN]
    /\ pipe \in [Pools -> Seq(Message)]
    /\ rdy \in [Pools -> Seq(Sockets \cup {Pipe})]
    /\ tpc \in [Pools -> {"none", "wait", "event", "read", "pipe", "tell", "exit", "done"}]
    /\ batch \in [Pools -> Seq(Event)]
    /\ cur \in [Pools -> Idx] /\ buf \in [Pools -> 0..MaxLines]
    /\ slots \in [Pools -> [Idx -> Sockets \cup {None}]]
    /\ conn \in [Sockets -> {"new", "up", "fin", "rst", "broken", "gone"}]
    /\ data \in [Sockets -> 0..MaxLines] /\ sent \in [Sockets -> 0..MaxLines]
    /\ aborting \in [Sockets -> BOOLEAN] /\ logged \in [Sockets -> BOOLEAN]
    /\ known \in [Sockets -> 0..MaxJobs]
    /\ dead \in {"no", "segv", "sigpipe"}

\* active_cnt is kept by two threads: of a listed pool it is at all times the
\* clients in the slots, the sockets in the pipe and the one the accept thread
\* is about to write.  So "Pool size overflow" is never thrown: for every
\* socket that comes out of the pipe there is a free slot.
Accounting ==
    \A p \in Pools : InSeq(p, list) =>
        active[p] = Cardinality({k \in Idx : slots[p][k] # None})
                  + Cardinality({i \in DOMAIN pipe[p] : pipe[p][i] # NewBlock})
                  + (IF apc = "counted" /\ apool = p THEN 1 ELSE 0)

\* A pool whose thread has left its loop serves nobody: what iterate_pools
\* erases, and ~client_pool frees, holds no client.
FinishedServesNobody ==
    \A p \in Pools : tpc[p] \in {"none", "exit", "done"} => \A k \in Idx : slots[p][k] = None

\* A pool's thread will look at what lies in its pipe, and at a client with
\* lines to read or a peer that is gone: an edge that epoll_wait has consumed
\* is never forgotten half way.
Expected(p, x) ==
    \/ InSeq(x, rdy[p])
    \/ x = Pipe /\ tpc[p] \in {"pipe", "tell"}
    \/ x = Pipe /\ \E i \in DOMAIN batch[p] : batch[p][i].idx = 0
    \/ \E k \in Idx :
        /\ slots[p][k] = x
        /\ \/ tpc[p] = "read" /\ cur[p] = k
           \/ \E i \in DOMAIN batch[p] : batch[p][i].idx = k

NoLostWakeup ==
    \A p \in Pools :
        /\ pipe[p] # << >> => Expected(p, Pipe)
        /\ \A k \in Idx : LET s == slots[p][k] IN
            s # None /\ ~aborting[s] /\ (data[s] > 0 \/ conn[s] # "up") => Expected(p, s)

\* A miner that works on an old job is going to be told: the node is still on
\* its way to the pool, its message is in the pipe, or the pool's thread has
\* yet to come to the miner's slot.
StaleMinersWillBeTold ==
    \A p \in Pools, k \in Idx : LET s == slots[p][k] IN
        s # None /\ logged[s] /\ ~aborting[s] /\ known[s] # current =>
            \/ npc = "published"
            \/ npc = "notify" /\ \E i \in DOMAIN list : i >= npos /\ list[i] = p
            \/ InSeq(NewBlock, pipe[p])
            \/ tpc[p] = "tell" /\ cur[p] <= k

\* Nobody is disconnected for another's fault: a client whose peer is there
\* and that was not aborted keeps its connection, whatever happens to the
\* slots.  (A socket on its way to a slot may fail to be watched.)
RemovedForCause ==
    [][\A p \in Pools, k \in Idx : LET s == slots[p][k] IN
        s # None /\ conn'[s] = "gone" =>
            conn[s] # "up" \/ aborting[s] \/ aborting'[s]]_vars

\* The next event of the round is a hang-up that could not be read, for slot k.
HungUp(p, k) == batch[p] # << >> /\ Head(batch[p]).idx = k /\ Head(batch[p]).mask = "hup"

\* Whatever events a hang-up raises, one step alone may disconnect somebody for
\* another's fault: the one that handles such an event of his own slot.
RemovedOrHungUp ==
    [][\A p \in Pools, k \in Idx : LET s == slots[p][k] IN
        s # None /\ conn'[s] = "gone" =>
            conn[s] # "up" \/ aborting[s] \/ aborting'[s] \/ HungUp(p, k)]_vars

\* Every miner that is logged in learns of every new job, or is cut off.
MinersHearOfJobs ==
    \A s \in Sockets, j \in 1..MaxJobs :
        Open(s) /\ logged[s] /\ current = j
            ~> known[s] >= j \/ aborting[s] \/ ~Open(s) \/ ~Alive

\* A client whose peer is gone gives its slot back, unless it was aborted: that
\* one waits for the next block.
HungupIsRemoved ==
    \A s \in Sockets :
        Open(s) /\ conn[s] # "up" ~> ~Open(s) \/ aborting[s] \/ ~Alive

\* client_pool.hpp:170: several signals for one closed socket may arrive, so
\* an event may find its slot empty, and that is no error.
LateSignalsAreHarmless == dead # "segv"

\* server.hpp:77: iterate_pools removes the empty pools.
ErasedPoolsAreEmpty ==
    [][\A p \in Pools : InSeq(p, list) /\ ~InSeq(p, list') => active[p] = 0]_vars

\* client.hpp:127: a socket that is not writable is a fatal error, for that
\* socket.
SendFailureIsLocal == dead # "sigpipe"
=============================================================================
