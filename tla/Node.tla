-------------------------------- MODULE Node --------------------------------
(***************************************************************************)
(* The node connection: the thread that logs in to the Epic node, asks it  *)
(* for block templates, turns each into a job, sees to it that the hash    *)
(* pools load the datasets the job needs, publishes it, and frees an old   *)
(* one; and the client threads, which copy the current job without a lock. *)
(*                                                                         *)
(* A pointer into the list of jobs is the position of its entry, 0 once    *)
(* the entry is freed.  The hash pools are what SlotTurns makes of them.   *)
(* A message's contents are chosen when it is handled.  Time is counted in *)
(* timeouts of recv: a second each.                                        *)
(***************************************************************************)
EXTENDS Integers, Sequences, FiniteSets, SlotTurns

CONSTANTS
    Readers,            \* client pool threads
    KeepJobs,           \* entries that are kept: 5 in the code
    RxEpoch,            \* blocks that share a RandomX seed
    PpEpoch,            \* blocks that share a ProgPoW epoch
    MaxReorg,           \* blocks the node may take back
    TemplateTimeout,    \* template_timeout
    FatalTimeout,       \* fatal_node_timeout
    MaxHeight,          \* bound: heights of the chain
    MaxFaults           \* bound: errors of the node and of the connection

ASSUME NodeAssumption ==
    /\ KeepJobs \in Nat \ {0} /\ NSlots \in Nat \ {0}
    /\ RxEpoch \in Nat \ {0} /\ PpEpoch \in Nat \ {0}
    /\ MaxReorg \in Nat /\ MaxReorg <= RxEpoch /\ MaxReorg <= PpEpoch
    /\ TemplateTimeout \in Nat /\ FatalTimeout \in Nat
    /\ MaxHeight \in Nat \ {0} /\ MaxFaults \in Nat

VARIABLES
    npc,        \* where the node thread stands
    asked,      \* requests the node has received and not answered
    mute,       \* the node is gone and its side of the connection silent
    since,      \* get_timestamp_ms() - last_job_ts
    chatter,    \* history: messages without a job have come since last_job_ts
    faults,     \* faults so far
    jobs,       \* the list: "raw" or "full" entries
    current,    \* current_job
    height,     \* its height
    msg,        \* the job message last handled
    top,        \* the greatest height of a message that has made an entry
    todo,       \* the datasets the message has still to see loaded
    strayed,    \* history: a message has broken the order of the epochs
    rx,         \* loaded_seed_id of the slots of rx_hashpool
    pp,         \* loaded_epoch of the slots of pp_hashpool
    reading,    \* the clients inside get_current_job
    ptr,        \* ptr[r]: the pointer such a client has loaded
    late        \* late[r]: history: entries of the list newer than that one

linkVars == <<asked, mute, since, chatter>>
jobVars == <<jobs, current, height>>
readVars == <<reading, ptr, late>>
vars == <<npc, linkVars, faults, jobVars, msg, top, todo, strayed, rx, pp, readVars>>

Heights == 1..MaxHeight
Elapsed == 0..(FatalTimeout + 1)

\* The RandomX epoch of a block: [real_start + 1, real_end] in a message.
RxOf(h) == (h - 1) \div RxEpoch
\* ethash::get_epoch_number
PpOf(h) == h \div PpEpoch

Quiet(h) == [height |-> h, epochs |-> << >>, flaw |-> "none"]

Init ==
    /\ npc = "connect" /\ faults = 0
    /\ asked = {} /\ mute = FALSE /\ since = 0 /\ chatter = FALSE
    /\ jobs = << >> /\ current = 0 /\ height = 0
    /\ msg = Quiet(0) /\ top = 0 /\ todo = << >> /\ strayed = FALSE
    /\ rx = << >> /\ pp = << >>
    /\ reading = {} /\ ptr = [r \in Readers |-> 0] /\ late = [r \in Readers |-> 0]

Fault == faults < MaxFaults /\ faults' = faults + 1

-----------------------------------------------------------------------------
(* The connection: thread_main and recv_main.                              *)

\* node_connect (a failed attempt leaves nothing behind), then the login.
Connect ==
    /\ npc = "connect"
    /\ since' = 0 /\ chatter' = FALSE
    /\ \/ npc' = "recv" /\ asked' = {"login"} /\ UNCHANGED faults
       \/ npc' = "close" /\ Fault /\ UNCHANGED asked
    /\ UNCHANGED <<mute, jobVars, msg, top, todo, strayed, rx, pp, readVars>>

\* The node vanishes, and no packet says so.
FallSilent ==
    /\ npc = "recv" /\ ~mute
    /\ mute' = TRUE
    /\ Fault
    /\ UNCHANGED <<npc, asked, since, chatter, jobVars, msg, top, todo, strayed, rx, pp, readVars>>

\* recv fails or finds the connection closed ...
Broken ==
    /\ npc = "recv"
    /\ Fault
    /\ npc' = "close"
    /\ UNCHANGED <<linkVars, jobVars, msg, top, todo, strayed, rx, pp, readVars>>

\* ... which TCP tells of a silent peer only when what it was sent stays
\* unacknowledged.
GivenUp ==
    /\ npc = "recv" /\ mute /\ asked # {}
    /\ npc' = "close"
    /\ UNCHANGED <<linkVars, faults, jobVars, msg, top, todo, strayed, rx, pp, readVars>>

\* close, sock_fd = -1, a second's sleep.
Close ==
    /\ npc = "close"
    /\ npc' = "connect"
    /\ asked' = {} /\ mute' = FALSE
    /\ UNCHANGED <<since, chatter, faults, jobVars, msg, top, todo, strayed, rx, pp, readVars>>

Later == IF since < FatalTimeout + 1 THEN since + 1 ELSE since

\* Slip: the request does not restart the clock.
RecvTimeoutSameClock ==
    /\ npc = "recv"
    /\ since' = Later
    /\ npc' = IF since' > FatalTimeout THEN "exit" ELSE npc
    /\ asked' = IF npc' = "recv" /\ since' > TemplateTimeout THEN asked \cup {"template"} ELSE asked
    /\ UNCHANGED <<mute, chatter, faults, jobVars, msg, top, todo, strayed, rx, pp, readVars>>

\* Slip: the clock is restarted and nothing is sent.
RecvTimeoutUnsent ==
    /\ npc = "recv"
    /\ since' = IF Later > TemplateTimeout THEN 0 ELSE Later
    /\ UNCHANGED <<npc, asked, mute, chatter, faults, jobVars, msg, top, todo, strayed, rx, pp, readVars>>

\* A second without a message.  exit(0) after the fatal timeout; after the
\* other one a request, and last_job_ts is set as if a job had come.
RecvTimeout ==
    /\ npc = "recv"
    /\ \/ /\ Later > FatalTimeout
          /\ npc' = "exit" /\ since' = Later
          /\ UNCHANGED <<asked, chatter>>
       \/ /\ Later <= FatalTimeout /\ Later > TemplateTimeout
          /\ asked' = asked \cup {"template"}
          /\ since' = 0 /\ chatter' = FALSE
          /\ UNCHANGED npc
       \/ /\ Later <= FatalTimeout /\ Later <= TemplateTimeout
          /\ since' = Later
          /\ UNCHANGED <<npc, asked, chatter>>
    /\ UNCHANGED <<mute, faults, jobVars, msg, top, todo, strayed, rx, pp, readVars>>

-----------------------------------------------------------------------------
(* json_proc_msg: messages without a job.                                  *)

Reply == npc = "recv" /\ ~mute

\* "Node login OK": the first request.
LoginOk ==
    /\ Reply /\ "login" \in asked
    /\ asked' = (asked \ {"login"}) \cup {"template"}
    /\ UNCHANGED <<npc, mute, since, chatter, faults, jobVars, msg, top, todo, strayed, rx, pp, readVars>>

\* "Node RPC Error": logged, and that is all.
ErrorReply ==
    /\ Reply /\ Fault
    /\ \E x \in asked : asked' = asked \ {x}
    /\ UNCHANGED <<npc, mute, since, chatter, jobVars, msg, top, todo, strayed, rx, pp, readVars>>

\* "Ignoring 0-height job."
ZeroHeight ==
    /\ Reply /\ Fault
    /\ asked' = asked \cup {"template"}
    /\ UNCHANGED <<npc, mute, since, chatter, jobVars, msg, top, todo, strayed, rx, pp, readVars>>

\* "Block submit OK!": recv had no timeout meanwhile, so no clock is read.
Chat ==
    /\ Reply /\ since # Later
    /\ since' = Later /\ chatter' = TRUE
    /\ UNCHANGED <<npc, asked, mute, faults, jobVars, msg, top, todo, strayed, rx, pp, readVars>>

\* A line that is no JSON object, or no call: -1.
Garbage ==
    /\ Reply /\ Fault
    /\ npc' = "close"
    /\ UNCHANGED <<linkVars, jobVars, msg, top, todo, strayed, rx, pp, readVars>>

-----------------------------------------------------------------------------
(* json_proc_msg: a job.                                                   *)

\* What a node sends for height h: this epoch, and perhaps the next one.
Proper(h) ==
    [height : {h}, epochs : {<<RxOf(h)>>, <<RxOf(h), RxOf(h) + 1>>}, flaw : {"none"}]

\* What it may get wrong: the algorithm, no difficulty for it, the number of
\* epochs, an epoch that is over, none that is this one, the block itself.
Flawed(h) ==
    LET e == RxOf(h) IN
    {[height |-> h, epochs |-> <<e>>, flaw |-> f] : f \in {"algo", "diff", "prepow"}}
    \cup [height : {h}, epochs : {<< >>, <<e - 1, e>>, <<e + 1>>}, flaw : {"none"}]

\* Messages that load datasets out of turn: the chain goes back over the start
\* of an epoch, or the next seed is listed without the block's own.
Strays(m) ==
    \/ RxOf(m.height) < RxOf(top) \/ PpOf(m.height) < PpOf(top)
    \/ m.epochs = <<RxOf(m.height) + 1>>

\* Counts of newer entries matter up to KeepJobs.
Capped(n) == IF n < KeepJobs THEN n ELSE KeepJobs

OvertakeReaders == late' = [r \in Readers |-> IF r \in reading THEN Capped(late[r] + 1) ELSE 0]

\* jobs.emplace_back(), and the message is on its way to the hash pools.
Enter(m) ==
    /\ jobs' = Append(jobs, "raw")
    /\ OvertakeReaders
    /\ msg' = m /\ todo' = m.epochs
    /\ top' = IF m.height > top THEN m.height ELSE top
    /\ strayed' = (strayed \/ Strays(m))
    /\ npc' = "epochs"

\* Slip: the job is published before it is filled in.
ReceiveJobPublished(m) ==
    /\ Reply
    /\ asked' = asked \ {"template"}
    /\ Enter(m)
    /\ current' = Len(jobs) + 1 /\ height' = m.height
    /\ UNCHANGED <<mute, since, chatter, rx, pp, reading, ptr>>

\* The checks up to jobs.emplace_back().  Without a difficulty for the job's
\* algorithm block_diff is not assigned, so the test for zero may go either way.
ReceiveJob(m) ==
    /\ Reply
    /\ asked' = asked \ {"template"}
    /\ \/ /\ m.flaw \in {"algo", "diff"}
          /\ npc' = "close"
          /\ UNCHANGED <<jobs, msg, top, todo, strayed, late>>
       \/ m.flaw # "algo" /\ Enter(m)
    /\ UNCHANGED <<mute, since, chatter, current, height, rx, pp, reading, ptr>>

\* The node is on a chain that never loses more than MaxReorg blocks of those it
\* has sent jobs for (a message that is refused unread counts for nothing).
Announced(h) == h >= top - MaxReorg

ProperJob ==
    /\ \E h \in Heights : Announced(h) /\ \E m \in Proper(h) : ReceiveJob(m)
    /\ UNCHANGED faults

FlawedJob ==
    /\ \E h \in Heights : Announced(h) /\ \E m \in Flawed(h) : ReceiveJob(m)
    /\ Fault

\* An exception: the entry stays in the list as it is, and recv_main returns.
Reject ==
    /\ npc' = "close"
    /\ msg' = Quiet(msg.height) /\ todo' = << >>
    /\ UNCHANGED <<rx, pp, jobVars>>

\* Slip: the next epoch is notified first.
NotifyNextFirst(h) == <<PpOf(h + 1), PpOf(h)>>

\* notify_block
NotifyOrder(h) == <<PpOf(h), PpOf(h + 1)>>

\* One epoch of the message: this one or a later one has to be loaded.
LoadSeed ==
    /\ npc = "epochs" /\ todo # << >>
    /\ IF Head(todo) < RxOf(msg.height)
       THEN Reject
       ELSE /\ rx' = Load(rx, Head(todo))
            /\ todo' = Tail(todo)
            /\ UNCHANGED <<npc, msg, jobVars, pp>>
    /\ UNCHANGED <<linkVars, faults, top, strayed, readVars>>

\* All of them: the job's own has to be there.
EpochsDone ==
    /\ npc = "epochs" /\ todo = << >>
    /\ IF InSeq(RxOf(msg.height), msg.epochs)
       THEN /\ npc' = "notify"
            /\ todo' = NotifyOrder(msg.height)
            /\ UNCHANGED <<msg, jobVars, rx, pp>>
       ELSE Reject
    /\ UNCHANGED <<linkVars, faults, top, strayed, readVars>>

\* notify_epoch, for each.
NotifyEpoch ==
    /\ npc = "notify" /\ todo # << >>
    /\ pp' = Load(pp, Head(todo))
    /\ todo' = Tail(todo)
    /\ UNCHANGED <<npc, linkVars, faults, jobVars, msg, top, strayed, rx, readVars>>

\* The rest of the job, last_job_ts, current_job = job.
Publish ==
    /\ npc = "notify" /\ todo = << >>
    /\ IF msg.flaw = "prepow"
       THEN Reject /\ UNCHANGED <<since, chatter>>
       ELSE /\ jobs' = [jobs EXCEPT ![Len(jobs)] = "full"]
            /\ current' = Len(jobs) /\ height' = msg.height
            /\ since' = 0 /\ chatter' = FALSE
            /\ npc' = "pop"
            /\ msg' = Quiet(msg.height)
            /\ UNCHANGED <<todo, rx, pp>>
    /\ UNCHANGED <<asked, mute, faults, top, strayed, readVars>>

\* jobs.pop_front(), n times.
Free(n) ==
    LET Shift(p) == IF p > n THEN p - n ELSE 0 IN
    /\ jobs' = SubSeq(jobs, n + 1, Len(jobs))
    /\ current' = Shift(current)
    /\ ptr' = [r \in Readers |-> Shift(ptr[r])]

\* Slip: >= for >.
PopFrontEarly ==
    /\ npc = "pop"
    /\ Free(IF Len(jobs) >= KeepJobs THEN 1 ELSE 0)
    /\ npc' = "recv"
    /\ UNCHANGED <<linkVars, faults, height, msg, top, todo, strayed, rx, pp, reading, late>>

\* After server::notify_new_block: if(jobs.size() > 5) jobs.pop_front().
PopFront ==
    /\ npc = "pop"
    /\ Free(IF Len(jobs) > KeepJobs THEN 1 ELSE 0)
    /\ npc' = "recv"
    /\ UNCHANGED <<linkVars, faults, height, msg, top, todo, strayed, rx, pp, reading, late>>

-----------------------------------------------------------------------------
(* The client threads: get_current_job.  server::start has waited for      *)
(* has_first_job before the first of them exists.                          *)

LoadPointer(r) ==
    /\ npc # "exit" /\ r \notin reading /\ current # 0
    /\ reading' = reading \cup {r}
    /\ ptr' = [ptr EXCEPT ![r] = current]
    /\ late' = [late EXCEPT ![r] = Capped(Len(jobs) - current)]
    /\ UNCHANGED <<npc, linkVars, faults, jobVars, msg, top, todo, strayed, rx, pp>>

\* The end of the copy.
CopyJob(r) ==
    /\ npc # "exit" /\ r \in reading
    /\ reading' = reading \ {r}
    /\ ptr' = [ptr EXCEPT ![r] = 0]
    /\ late' = [late EXCEPT ![r] = 0]
    /\ UNCHANGED <<npc, linkVars, faults, jobVars, msg, top, todo, strayed, rx, pp>>

-----------------------------------------------------------------------------

NodeThread == Connect \/ Close \/ LoadSeed \/ EpochsDone \/ NotifyEpoch \/ Publish \/ PopFront

Next ==
    \/ NodeThread \/ RecvTimeout
    \/ FallSilent \/ Broken \/ GivenUp
    \/ LoginOk \/ ErrorReply \/ ZeroHeight \/ Chat \/ Garbage
    \/ ProperJob \/ FlawedJob
    \/ \E r \in Readers : LoadPointer(r) \/ CopyJob(r)

\* The thread runs, an attempt to connect succeeds in the end, TCP gives up on
\* a silent peer, and a node that is there answers what it is asked and does
\* not talk without a pause.
Fairness ==
    /\ WF_vars(NodeThread) /\ WF_vars(RecvTimeout) /\ WF_vars(GivenUp)
    /\ WF_vars(LoginOk)
    /\ WF_vars("template" \in asked /\ ProperJob)

Safe == Init /\ [][Next]_vars
Spec == Safe /\ Fairness

-----------------------------------------------------------------------------
(* Properties.                                                             *)

Message == [height : 0..MaxHeight, epochs : Seq(Int),
            flaw : {"none", "algo", "diff", "prepow"}]

\* Every variable has its type.
TypeOK ==
    /\ npc \in {"connect", "recv", "epochs", "notify", "pop", "close", "exit"}
    /\ asked \subseteq {"login", "template"} /\ mute \in BOOLEAN
    /\ since \in Elapsed /\ chatter \in BOOLEAN /\ faults \in 0..MaxFaults
    /\ jobs \in Seq({"raw", "full"}) /\ current \in 0..Len(jobs)
    /\ height \in 0..MaxHeight /\ msg \in Message /\ top \in 0..MaxHeight
    /\ todo \in Seq(Int) /\ strayed \in BOOLEAN /\ rx \in Seq(Nat) /\ pp \in Seq(Nat)
    /\ Len(rx) <= NSlots /\ Len(pp) <= NSlots
    /\ reading \subseteq Readers
    /\ ptr \in [Readers -> 0..Len(jobs)] /\ late \in [Readers -> 0..KeepJobs]

\* The copy of *current_job takes no lock: what a client copies from stays in the
\* list until KeepJobs newer entries have been made.  Entries, not jobs: those
\* that rejected messages leave behind count among the ones that are kept, and
\* shorten the time a slow client has.
GraceWindow ==
    \A r \in reading : late[r] < KeepJobs => ptr[r] # 0

\* What a client copies, if its entry is still there, is a complete job: the
\* entries of messages that were rejected half way are never current_job.
CopiesAreComplete ==
    /\ current # 0 => jobs[current] = "full"
    /\ \A r \in reading : ptr[r] # 0 => jobs[ptr[r]] = "full"

\* A job is published with both its datasets loaded.
PublishedLoaded ==
    npc # "pop" /\ npc' = "pop" => InSeq(RxOf(height'), rx') /\ InSeq(PpOf(height'), pp')

\* A message for the epoch of the current job leaves its dataset in its slot.
RxStays ==
    RxOf(msg'.height) = RxOf(height) /\ InSeq(RxOf(height), rx) => InSeq(RxOf(height), rx')
PpStays ==
    PpOf(msg'.height) = PpOf(height) /\ InSeq(PpOf(height), pp) => InSeq(PpOf(height), pp')

\* As long as the chain does not go back over the start of an epoch, a job is
\* published with both its datasets loaded; and a message for the same epoch as
\* the current job, even if it is rejected in the end, never takes the slot of
\* that job's dataset to load the next one.
DatasetsOfCurrentJobStay == [][~strayed' => PublishedLoaded /\ RxStays /\ PpStays]_vars

\* Every request restarts the clock of fatal_node_timeout, so with a template
\* timeout below it, as in config_json.tmpl, a node that says nothing at all
\* never ends the process: it takes one that goes on talking of other things.
SilenceIsNotFatal ==
    TemplateTimeout < FatalTimeout => (npc = "exit" => chatter)

\* Lost requests, refused logins, a silent peer, broken connections and flawed
\* messages notwithstanding, jobs keep coming.
JobsKeepComing == []<>(npc \in {"pop", "exit"})
=============================================================================
