---------------------------- MODULE ClientSession ----------------------------
(***************************************************************************)
(* What a miner's session is about: logging in, jobs and their numbers,    *)
(* shares and what they are worth, and the limit on calls per minute.  The *)
(* connection beneath it, and who calls on_new_block when, is in           *)
(* ClientPools; the check of a share by a hash pool is ShareCheck.         *)
(*                                                                         *)
(* A place is the memory of one client in a client pool, where one client  *)
(* after the other is constructed.  A request's contents are chosen when   *)
(* it is parsed, so a share may name any job id, old, new or made up.      *)
(*                                                                         *)
(* The first 64 bits of a hash are a number of two words below Word: Word  *)
(* is 2^32 in the code.  Time is in units of which Window make the minute. *)
(***************************************************************************)
EXTENDS Integers, FiniteSets, Sequences

CONSTANTS
    Places,         \* places for clients
    Word,           \* 2^32
    FixDiff,        \* fix_diff: 4096
    Window,         \* the 60 of process_line
    MaxCalls,       \* max_calls_per_min: 60
    MaxJobs,        \* bound: jobs the node publishes
    MaxClients,     \* bound: connections
    MaxLines        \* bound: lines that are calls

ASSUME SessionAssumption ==
    /\ Word \in Nat \ {0, 1} /\ FixDiff \in Nat \ {0} /\ Word % FixDiff = 0
    /\ Window \in Nat \ {0} /\ MaxCalls \in Nat \ {0}
    /\ MaxJobs \in Nat \ {0} /\ MaxClients \in Nat /\ MaxLines \in Nat

VARIABLES
    job,        \* node::current_job: its number and its type
    ctr,        \* g_extra_nonce_ctr
    conn,       \* conn[p]: "free", "open", or "in" once logged_in
    aborting,   \* the places whose client could not be sent something
    owed,       \* owed[p]: new blocks its pool has not told the client of yet
    jobid,      \* jobid[p]
    cur,        \* cur[p]: cur_job: number, type, the extra nonce in its prepow
    extra,      \* extra[p]: extra_nonce
    sent,       \* history: sent[p]: the jobs sent to the client, by job id
    age,        \* age[p]: time - flood_timestamp
    count,      \* count[p]: flood_count, up to MaxCalls + 1
    calls,      \* history: calls[p]: the client's calls, the first one first
    lines,      \* calls so far
    last        \* what the last step has decided on a share

idVars == <<ctr, conn, extra>>
jobVars == <<jobid, cur, sent>>
floodVars == <<age, count, calls, lines>>
vars == <<job, idVars, aborting, owed, jobVars, floodVars, last>>

Types == {"randomx", "progpow", "cuckoo"}

\* A call: how long ago it was made, up to Window + 1, and if it was let through.
Calls == [ago : 0..(Window + 1), served : BOOLEAN]
Nothing == [verdict |-> "none"]

\* placement_mem is zeroed: no job has been there yet.
Blank == [no |-> 0, type |-> "randomx", extra |-> 0]

Connected == {p \in Places : conn[p] # "free"}

\* server::start has waited for the first job.
Init ==
    /\ job \in [no : {1}, type : Types] /\ ctr = 0
    /\ conn = [p \in Places |-> "free"] /\ aborting = {}
    /\ owed = [p \in Places |-> 0] /\ jobid = [p \in Places |-> 0]
    /\ cur = [p \in Places |-> Blank] /\ extra = [p \in Places |-> 0]
    /\ sent = [p \in Places |-> {}]
    /\ age = [p \in Places |-> Window + 1] /\ count = [p \in Places |-> 0]
    /\ calls = [p \in Places |-> << >>]
    /\ lines = 0 /\ last = Nothing

-----------------------------------------------------------------------------
(* Hashes, targets and difficulties.                                       *)

Works == 0..(Word * Word - 1)

\* Slip: without the byte swap.
LowWord(work) == work % Word

\* vector32::get_work32; get_work64 is the work itself.
HighWord(work) == work \div Word

diff_to_target(diff) == (Word - 1) \div diff

work_to_diff(work) ==
    IF work = 0 THEN Word * Word - 1 ELSE (Word * Word - 1) \div work

-----------------------------------------------------------------------------
(* Connections.                                                            *)

\* The new blocks that lie behind the socket in the pipe: any of the jobs there
\* have been, the pool being late, and the first too if the node is.
Notified(p) == owed' \in {[owed EXCEPT ![p] = n] : n \in 0..job.no}

\* Slip: the counter's value after the increment.
ConnectLater(p) ==
    /\ conn[p] = "free" /\ ctr < MaxClients
    /\ ctr' = ctr + 1 /\ extra' = [extra EXCEPT ![p] = ctr + 1]
    /\ conn' = [conn EXCEPT ![p] = "open"]
    /\ Notified(p)
    /\ last' = Nothing
    /\ UNCHANGED <<job, aborting, jobVars, floodVars>>

\* client::client.  cur_job is not initialised: it is what the place's last
\* client has left there.
Connect(p) ==
    /\ conn[p] = "free" /\ ctr < MaxClients
    /\ ctr' = ctr + 1 /\ extra' = [extra EXCEPT ![p] = ctr]
    /\ conn' = [conn EXCEPT ![p] = "open"]
    /\ Notified(p)
    /\ last' = Nothing
    /\ UNCHANGED <<job, aborting, jobVars, floodVars>>

\* client::~client
Destroy(p) ==
    /\ conn' = [conn EXCEPT ![p] = "free"] /\ aborting' = aborting \ {p}
    /\ owed' = [owed EXCEPT ![p] = 0]
    /\ jobid' = [jobid EXCEPT ![p] = 0] /\ sent' = [sent EXCEPT ![p] = {}]
    /\ age' = [age EXCEPT ![p] = Window + 1] /\ count' = [count EXCEPT ![p] = 0]
    /\ calls' = [calls EXCEPT ![p] = << >>]
    /\ last' = Nothing
    /\ UNCHANGED <<job, ctr, cur, extra, lines>>

\* The miner hangs up: noticed unless the socket was shut down before.
Leave(p) == p \in Connected \ aborting /\ Destroy(p)

\* net_send, which may fail.
Send(p) == aborting' \in {aborting, aborting \cup {p}}

-----------------------------------------------------------------------------
(* Jobs.                                                                   *)

\* The node publishes a job and writes to the pipes of the pools.
Publish(type) ==
    /\ job.no < MaxJobs
    /\ job' = [no |-> job.no + 1, type |-> type]
    /\ owed' = [p \in Places |-> IF p \in Connected THEN owed[p] + 1 ELSE 0]
    /\ last' = Nothing
    /\ UNCHANGED <<idVars, aborting, jobVars, floodVars>>

\* Slip: a new job under the number of the old one, once there is one.
GetNewJobSameId(p, x) ==
    /\ cur' = [cur EXCEPT ![p] = [no |-> job.no, type |-> job.type, extra |-> x]]
    /\ jobid' = [jobid EXCEPT ![p] = IF @ = 0 THEN 1 ELSE @]

\* get_new_job, and the extra nonce that is in the prepow afterwards.
GetNewJob(p, x) ==
    /\ cur' = [cur EXCEPT ![p] = [no |-> job.no, type |-> job.type, extra |-> x]]
    /\ jobid' = [jobid EXCEPT ![p] = @ + 1]

\* The job goes to the miner: number, prepow and target.
Tell(p) ==
    sent' = [sent EXCEPT ![p] = @ \cup
                {[id |-> jobid'[p], no |-> cur'[p].no, extra |-> cur'[p].extra]}]

\* Slip: the extra nonce is only written at login.
NewBlockSamePrepow(p) ==
    /\ owed[p] > 0
    /\ IF p \in aborting THEN Destroy(p)
       ELSE /\ owed' = [owed EXCEPT ![p] = @ - 1]
            /\ GetNewJob(p, 0)
            /\ IF conn[p] = "in" THEN Tell(p) /\ Send(p) ELSE UNCHANGED <<sent, aborting>>
            /\ last' = Nothing
            /\ UNCHANGED <<job, idVars, floodVars>>

\* on_new_block: false if aborting, and the pool removes the client.  Before
\* the login the job is fetched all the same, with a prepow as the node sent it.
NewBlock(p) ==
    /\ owed[p] > 0
    /\ IF p \in aborting THEN Destroy(p)
       ELSE /\ owed' = [owed EXCEPT ![p] = @ - 1]
            /\ GetNewJob(p, IF conn[p] = "in" THEN extra[p] ELSE 0)
            /\ IF conn[p] = "in" THEN Tell(p) /\ Send(p) ELSE UNCHANGED <<sent, aborting>>
            /\ last' = Nothing
            /\ UNCHANGED <<job, idVars, floodVars>>

-----------------------------------------------------------------------------
(* process_line.  Lines that are in the buffer when a send fails are       *)
(* processed all the same.                                                 *)

\* No JSON object: hard_abort, and on_socket_read tells the pool to remove the
\* client, be its socket shut down already or not.
BadLine(p) == p \in Connected /\ Destroy(p)

\* "Malformed request": answered before anything is counted.
Malformed(p) ==
    /\ p \in Connected /\ Send(p) /\ last' = Nothing
    /\ UNCHANGED <<job, idVars, owed, jobVars, floodVars>>

\* Slip: flood_timestamp stays where it is.
CountedSameStart(p) ==
    IF age[p] > Window THEN count' = [count EXCEPT ![p] = 1] /\ UNCHANGED age
    ELSE /\ count' = [count EXCEPT ![p] = IF @ > MaxCalls THEN @ ELSE @ + 1]
         /\ UNCHANGED age

\* Slip: flood_count is not reset.
CountedForEver(p) ==
    /\ age' = [age EXCEPT ![p] = IF @ > Window THEN 0 ELSE @]
    /\ count' = [count EXCEPT ![p] = IF @ > MaxCalls THEN @ ELSE @ + 1]

\* A minute that starts with its first call.
Counted(p) ==
    IF age[p] > Window
    THEN age' = [age EXCEPT ![p] = 0] /\ count' = [count EXCEPT ![p] = 1]
    ELSE /\ count' = [count EXCEPT ![p] = IF @ > MaxCalls THEN @ ELSE @ + 1]
         /\ UNCHANGED age

Call(p, served) ==
    /\ p \in Connected /\ lines < MaxLines /\ lines' = lines + 1
    /\ Counted(p)
    /\ calls' = [calls EXCEPT ![p] = Append(@, [ago |-> 0, served |-> served])]
    /\ UNCHANGED <<job, ctr, extra, owed>>

\* "Slow down"
SlowDown(p) ==
    /\ Call(p, FALSE) /\ count'[p] > MaxCalls
    /\ Send(p)
    /\ last' = [verdict |-> "slow", place |-> p]
    /\ UNCHANGED <<conn, jobVars>>

LetThrough(p) == Call(p, TRUE) /\ count'[p] <= MaxCalls

\* A call with one answer and no effect: keepalived, an unknown method, a
\* second login, a submit that is malformed.
Answered(p) ==
    /\ LetThrough(p) /\ Send(p) /\ last' = Nothing
    /\ UNCHANGED <<conn, jobVars>>

Login(p) ==
    /\ LetThrough(p) /\ conn[p] = "open"
    /\ GetNewJob(p, extra[p])
    /\ Tell(p) /\ Send(p)
    /\ conn' = [conn EXCEPT ![p] = "in"]
    /\ last' = Nothing

\* What check_client_work has hashed, as far as clients differ in it.
HashedExtra(p) == IF cur[p].type = "randomx" THEN cur[p].extra ELSE extra[p]

\* Client threads give their job, a nonce and the hash to send_job_result: half
\* of full_nonce is the extra_nonce.
Share(p, id, j) ==
    [verdict |-> j.verdict, worth |-> j.worth, place |-> p, id |-> id, no |-> cur[p].no,
     hashed |-> HashedExtra(p), nonce |-> extra[p]]

\* How hard a hash is to find: work * d < 2^64 for one hash in d.
Worth(work) ==
    IF work * (FixDiff + 1) < Word * Word THEN "block"
    ELSE IF work * FixDiff < Word * Word THEN "share" ELSE "nothing"

\* The last of the checks of a share: a target, and a difficulty.
Judge(work) ==
    IF HighWord(work) > diff_to_target(FixDiff) THEN "bad"
    ELSE IF work_to_diff(work) > FixDiff THEN "block" ELSE "ok"

\* What may come of any hash, and what it is worth.
Judgements == {[verdict |-> Judge(work), worth |-> Worth(work)] : work \in Works}

\* process_method_submit.  "Stale job id", or a hash pool loses the share (and
\* none takes that of a third kind, or of a job that was never there), or it is
\* judged.
Submit(p, id) ==
    /\ LetThrough(p) /\ Send(p)
    /\ \/ last' = Nothing
       \/ /\ id = jobid[p] /\ cur[p].type # "cuckoo" /\ cur[p].no # 0
          /\ \E j \in Judgements : last' = Share(p, id, j)
    /\ UNCHANGED <<conn, jobVars>>

-----------------------------------------------------------------------------

\* A unit of time passes for all.
Tick ==
    LET Older(t) == IF t > Window THEN t ELSE t + 1 IN
    /\ age' = [p \in Places |-> Older(age[p])]
    /\ calls' = [p \in Places |->
                   [i \in DOMAIN calls[p] |-> [calls[p][i] EXCEPT !.ago = Older(@)]]]
    /\ last' = Nothing
    /\ UNCHANGED <<job, idVars, aborting, owed, jobVars, count, lines>>

Ids == 0..(MaxJobs + 2)

Session(p) ==
    \/ NewBlock(p) \/ BadLine(p) \/ Malformed(p)
    \/ SlowDown(p) \/ Answered(p) \/ Login(p)
    \/ \E id \in Ids : Submit(p, id)

Next ==
    \/ \E type \in Types : Publish(type)
    \/ \E p \in Places : Connect(p) \/ Leave(p) \/ Session(p)
    \/ Tick

Spec == Init /\ [][Next]_vars

-----------------------------------------------------------------------------
(* Properties.                                                             *)

\* Every variable has its type, and every client an extra_nonce of the past.
TypeOK ==
    /\ job \in [no : 1..MaxJobs, type : Types] /\ ctr \in 0..MaxClients
    /\ conn \in [Places -> {"free", "open", "in"}] /\ aborting \subseteq Connected
    /\ owed \in [Places -> 0..MaxJobs] /\ jobid \in [Places -> Ids]
    /\ cur \in [Places -> [no : 0..MaxJobs, type : Types, extra : 0..MaxClients]]
    /\ \A p \in Connected : extra[p] \in 0..(ctr - 1)
    /\ \A p \in Places : sent[p] \subseteq [id : Ids, no : 1..MaxJobs, extra : 0..MaxClients]
    /\ age \in [Places -> 0..(Window + 1)] /\ count \in [Places -> 0..(MaxCalls + 1)]
    /\ calls \in [Places -> Seq(Calls)] /\ lines \in 0..MaxLines

LoggedIn(p) == conn[p] = "in"

\* The share of a miner that is logged in is judged against the one job it was
\* sent under the number the share names, made with the extra nonce it was sent;
\* and if it is a block, the node is given that very nonce.  (A client that is
\* not logged in may be judged too, against a job it was never sent.)
CreditIsForTheJobSent ==
    last.verdict \in {"bad", "ok", "block"} /\ LoggedIn(last.place) =>
        /\ {s \in sent[last.place] : s.id = last.id} =
               {[id |-> last.id, no |-> last.no, extra |-> last.hashed]}
        /\ last.verdict = "block" => last.nonce = last.hashed

\* Two miners that are logged in never search the same nonces of a job,
\* however the job has reached them.
DistinctWork ==
    \A p, q \in Connected : LoggedIn(p) /\ LoggedIn(q) /\ p # q /\ cur[p].no = cur[q].no
        => cur[p].extra # cur[q].extra

\* The comparison of 32 bit words and the quotient of 64 bit words agree with
\* what the hash is worth: no block is refused as a bad share, and no share is
\* let pass that is easier than the difficulty.
JudgedByWorth ==
    /\ last.verdict = "bad" => last.worth = "nothing"
    /\ last.verdict = "ok" => last.worth = "share"
    /\ last.verdict = "block" => last.worth = "block"

\* The calls of the present unit of time and the t before it.
Within(c, t) == {i \in DOMAIN c : c[i].ago <= t}
Served(c, t) == {i \in Within(c, t) : c[i].served}

\* The minutes are the client's own, one after the other with gaps between: in
\* any span of their length it gets two minutes' calls at the most.
CallsAreLimited == \A p \in Places : Cardinality(Served(calls[p], Window)) <= 2 * MaxCalls

\* And a client is only told to slow down if it has called too often within the
\* last minute, whenever that minute began.
OnlyTheFastSlowDown ==
    last.verdict = "slow" => Cardinality(Within(calls[last.place], Window)) > MaxCalls
=============================================================================
