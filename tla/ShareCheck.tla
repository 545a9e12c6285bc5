----------------------------- MODULE ShareCheck -----------------------------
(***************************************************************************)
(* What a hash pool promises to the client threads that call it.           *)
(*                                                                         *)
(* A caller hands over one share that names a dataset (a RandomX seed or a *)
(* ProgPoW epoch) and blocks.  It is woken exactly once, with a hash made  *)
(* with the dataset it named, or with an error.  Which datasets the pool   *)
(* can serve changes all the time, on the node's behalf; with Strict, an   *)
(* error is allowed only when the dataset was out of service at some       *)
(* moment of the call.                                                     *)
(*                                                                         *)
(* The module knows no queue, thread, slot or lock.  RxHashpool and        *)
(* PpHashpool are shown to implement it.                                   *)
(***************************************************************************)
CONSTANTS
    Callers,    \* the client_pool threads that submit shares
    Datasets,   \* the seeds or epochs a share may name
    Error,      \* the answer "error = true"
    None,       \* no dataset
    Strict      \* TRUE: a share is lost only if its dataset was out of service

VARIABLES
    caller,     \* caller[c]: "idle", "waiting" or "answered"
    want,       \* want[c]: the dataset named by c's share
    answer,     \* answer[c]: the dataset the hash was made with, or Error
    offered,    \* the datasets in service
    steady      \* steady[c]: want[c] has been in service since c's request

vars == <<caller, want, answer, offered, steady>>

Init ==
    /\ caller = [c \in Callers |-> "idle"]
    /\ want = [c \in Callers |-> None]
    /\ answer = [c \in Callers |-> None]
    /\ offered = {}
    /\ steady = [c \in Callers |-> FALSE]

Request(c, d) ==
    /\ caller[c] = "idle"
    /\ caller' = [caller EXCEPT ![c] = "waiting"]
    /\ want' = [want EXCEPT ![c] = d]
    /\ steady' = [steady EXCEPT ![c] = d \in offered]
    /\ UNCHANGED <<answer, offered>>

Reply(c) ==
    /\ caller[c] = "waiting"
    /\ caller' = [caller EXCEPT ![c] = "answered"]
    /\ \/ answer' = [answer EXCEPT ![c] = want[c]]
       \/ /\ Strict => ~steady[c]
          /\ answer' = [answer EXCEPT ![c] = Error]
    /\ UNCHANGED <<want, offered, steady>>

Return(c) ==
    /\ caller[c] = "answered"
    /\ caller' = [caller EXCEPT ![c] = "idle"]
    /\ want' = [want EXCEPT ![c] = None]
    /\ answer' = [answer EXCEPT ![c] = None]
    /\ steady' = [steady EXCEPT ![c] = FALSE]
    /\ UNCHANGED offered

\* Datasets go out of service and come into service as the node decides.
Reoffer ==
    /\ offered' \in SUBSET Datasets
    /\ steady' = [c \in Callers |-> /\ steady[c]
                                    /\ caller[c] = "waiting" => want[c] \in offered']
    /\ UNCHANGED <<caller, want, answer>>

Next ==
    \/ Reoffer
    \/ \E c \in Callers : Reply(c) \/ Return(c) \/ \E d \in Datasets : Request(c, d)

Safe == Init /\ [][Next]_vars
Spec == Safe /\ \A c \in Callers : WF_vars(Reply(c)) /\ WF_vars(Return(c))
=============================================================================
