------------------------------ MODULE CurlClient ------------------------------
(***************************************************************************)
(* The asynchronous HTTP client of src/http_client_curl.cpp: submit hands  *)
(* a set of requests to a libcurl multi handle and detaches a monitor      *)
(* thread, which polls the handle, retries answers 429 and calls back when *)
(* every request of the set has an HTTP status.                            *)
(*                                                                         *)
(* Submissions are numbered 1 .. MaxSets.  The number stands for the       *)
(* objects a submission creates: its TrackedRequests, multi handle,        *)
(* MonitorThread object and detached thread.  The client itself knows only *)
(* the HTTPRequestSetId, which it reuses.  What runs while mtx is held is  *)
(* one step, except that the callback is separate from what follows it.    *)
(* libcurl and the network are external.                                   *)
(***************************************************************************)
EXTENDS Naturals, Sequences, FiniteSets

CONSTANTS
  MaxSets,      \* bound on the number of submissions
  Size,         \* requests per set
  Max429,       \* bound on the answers 429 to one request
  Faults,       \* what libcurl reports: "transport", "setup", "multi"
  Calls         \* {"erase"} if the application calls erase

ASSUME ClientAssumption ==
  /\ MaxSets \in Nat \ {0} /\ Size \in Nat \ {0}
  /\ Max429 \in Nat
  /\ Faults \subseteq {"transport", "setup", "multi"}
  /\ Calls \subseteq {"erase"}

Set == 1 .. MaxSets
None == 0                       \* no submission
HTTPRequestSetId == 0 .. MaxSets - 1
Index == 1 .. Size

(***************************************************************************)
(* Final answers.  Special are only 0 (no answer) and 429, which stands    *)
(* for a 429 whose Retry-After header must_retry can use; without one, the *)
(* answer is final like any other.                                         *)
(***************************************************************************)
Codes == {200, 404}

\* A response: the submission whose transfer wrote it, and its status, 0 at first.
Response == [from : Set, status : Codes \cup {0}]

VARIABLES
  mtx,              \* the submission whose monitor thread holds the lock, or None
  requests,         \* set id -> submission in the request map, or None
  responses,        \* set id -> its HTTPResponses, <<>> when not in the map
  monitor_threads,  \* set id -> submission whose MonitorThread is in the map
  submitted,        \* number of submissions so far
  id_of,            \* submission -> the set id it was given
  transfer,         \* submission, index -> "none", "running", "done", "gone"
  code,             \* submission, index -> the code its last transfer ended with
  attempts,         \* submission, index -> how often it was sent
  alive,            \* submissions whose MonitorThread object exists
  keep_going,       \* submission -> MonitorThread::keep_going
  cleaned,          \* submissions whose multi handle was cleaned up
  mpc,              \* submission -> program counter of its monitor thread
  delivered,        \* submission -> responses passed to its callback
  calls,            \* submission -> number of times its callback was invoked
  dangling,         \* a thread used a destroyed MonitorThread or multi handle
  terminated        \* an exception left a monitor thread: std::terminate

mapVars == <<requests, responses, monitor_threads>>
netVars == <<transfer, code, attempts>>
threadVars == <<mtx, alive, keep_going, cleaned, mpc>>
outVars == <<delivered, calls>>
faultVars == <<dangling, terminated>>
vars == <<mapVars, submitted, id_of, netVars, threadVars, outVars, faultVars>>

TypeOK ==
  /\ mtx \in Set \cup {None}
  /\ requests \in [HTTPRequestSetId -> Set \cup {None}]
  /\ responses \in [HTTPRequestSetId -> [Index -> Response] \cup {<<>>}]
  /\ monitor_threads \in [HTTPRequestSetId -> Set \cup {None}]
  /\ submitted \in 0 .. MaxSets
  /\ id_of \in [Set -> HTTPRequestSetId]
  /\ transfer \in [Set -> [Index -> {"none", "running", "done", "gone"}]]
  /\ code \in [Set -> [Index -> Codes \cup {0, 429}]]
  /\ attempts \in [Set -> [Index -> 0 .. Max429 + 1]]
  /\ alive \subseteq Set
  /\ keep_going \in [Set -> BOOLEAN]
  /\ cleaned \subseteq Set
  /\ mpc \in [Set -> {"none", "loop", "isComplete", "wait", "finish", "callback",
                      "continue", "stop", "cleanup", "ended"}]
  /\ delivered \in [Set -> [Index -> Response] \cup {<<>>}]
  /\ calls \in [Set -> Nat]
  /\ dangling \in BOOLEAN
  /\ terminated \in BOOLEAN

Init ==
  /\ mtx = None
  /\ requests = [i \in HTTPRequestSetId |-> None]
  /\ responses = [i \in HTTPRequestSetId |-> <<>>]
  /\ monitor_threads = [i \in HTTPRequestSetId |-> None]
  /\ submitted = 0
  /\ id_of = [k \in Set |-> 0]
  /\ transfer = [k \in Set |-> [i \in Index |-> "none"]]
  /\ code = [k \in Set |-> [i \in Index |-> 0]]
  /\ attempts = [k \in Set |-> [i \in Index |-> 0]]
  /\ alive = {}
  /\ keep_going = [k \in Set |-> FALSE]
  /\ cleaned = {}
  /\ mpc = [k \in Set |-> "none"]
  /\ delivered = [k \in Set |-> <<>>]
  /\ calls = [k \in Set |-> 0]
  /\ dangling = FALSE
  /\ terminated = FALSE

----------------------------------------------------------------------------
(***************************************************************************)
(* submit, under mtx.  The new id is the number of sets in the map, so it  *)
(* may be in use, and emplace then fails: std::bad_alloc.                  *)
(***************************************************************************)
NewId == Cardinality({i \in HTTPRequestSetId : requests[i] # None})

Unlocked == mtx = None /\ ~terminated

Submitting == Unlocked /\ submitted < MaxSets /\ submitted' = submitted + 1

\* Assigning to monitor_threads[id] destroys the MonitorThread that was there.
Start(k, id) ==
  /\ monitor_threads' = [monitor_threads EXCEPT ![id] = k]
  /\ alive' = (alive \ {monitor_threads[id]}) \cup {k}
  /\ keep_going' = [keep_going EXCEPT ![k] = TRUE]
  /\ mpc' = [mpc EXCEPT ![k] = "loop"]

Submit ==
  LET k == submitted + 1 id == NewId IN
  /\ Submitting
  /\ requests[id] = None
  /\ requests' = [requests EXCEPT ![id] = k]
  /\ responses' = [responses EXCEPT ![id] = [i \in Index |-> [from |-> k, status |-> 0]]]
  /\ id_of' = [id_of EXCEPT ![k] = id]
  /\ transfer' = [transfer EXCEPT ![k] = [i \in Index |-> "running"]]
  /\ attempts' = [attempts EXCEPT ![k] = [i \in Index |-> 1]]
  /\ Start(k, id)
  /\ UNCHANGED <<code, mtx, cleaned, outVars, faultVars>>

SubmitCollides ==
  /\ Submitting
  /\ requests[NewId] # None
  /\ UNCHANGED <<mapVars, id_of, netVars, threadVars, outVars, faultVars>>

\* curl_multi_perform fails: the handles are freed, the map entries stay.
SubmitFails ==
  LET k == submitted + 1 id == NewId IN
  /\ Submitting
  /\ "setup" \in Faults
  /\ requests[id] = None
  /\ requests' = [requests EXCEPT ![id] = k]
  /\ responses' = [responses EXCEPT ![id] = [i \in Index |-> [from |-> k, status |-> 0]]]
  /\ id_of' = [id_of EXCEPT ![k] = id]
  /\ cleaned' = cleaned \cup {k}
  /\ UNCHANGED <<monitor_threads, netVars, mtx, alive, keep_going, mpc, outVars, faultVars>>

\* libcurl ends a transfer, with the server's answer or (status 0) without one.
TransferEnds(k, i) ==
  /\ ~terminated
  /\ transfer[k][i] = "running"
  /\ transfer' = [transfer EXCEPT ![k][i] = "done"]
  /\ \E c \in Codes \cup (IF attempts[k][i] <= Max429 THEN {429} ELSE {})
                    \cup (IF "transport" \in Faults THEN {0} ELSE {}) :
       code' = [code EXCEPT ![k][i] = c]
  /\ UNCHANGED <<mapVars, submitted, id_of, attempts, threadVars, outVars, faultVars>>

----------------------------------------------------------------------------
(***************************************************************************)
(* The monitor thread.  It uses its MonitorThread object (keep_going and   *)
(* multi, and the callback that poll takes by reference), which another    *)
(* submission may have destroyed.                                          *)
(***************************************************************************)
On(k, p) == ~terminated /\ mpc[k] = p

Goto(k, p) == mpc' = [mpc EXCEPT ![k] = p]

UsesObject == {"loop", "finish", "continue", "stop", "cleanup"}

UseDestroyed(k) ==
  /\ ~terminated
  /\ mpc[k] \in UsesObject
  /\ k \notin alive
  /\ dangling' = TRUE
  /\ UNCHANGED <<mapVars, submitted, id_of, netVars, threadVars, outVars, terminated>>

Loop(k) ==
  /\ On(k, "loop") /\ k \in alive
  /\ Goto(k, IF keep_going[k] THEN "isComplete" ELSE "cleanup")
  /\ UNCHANGED <<mapVars, submitted, id_of, netVars, mtx, alive, keep_going, cleaned, outVars, faultVars>>

Terminate == terminated' = TRUE /\ UNCHANGED dangling

\* Mutant: a set is complete when no transfer runs.
NoneRunning(k, rs) == rs # <<>> /\ \A i \in Index : transfer[k][i] # "running"

\* No transfer runs and every response has a status.
AllAnswered(k, rs) ==
  /\ \A i \in Index : transfer[k][i] # "running"
  /\ rs # <<>>
  /\ \A i \in Index : rs[i].status # 0

IsComplete(k) ==
  /\ On(k, "isComplete") /\ mtx = None
  /\ IF requests[id_of[k]] = None
     THEN Terminate /\ UNCHANGED mpc
     ELSE LET owner == requests[id_of[k]] IN
          /\ \/ Goto(k, IF AllAnswered(owner, responses[id_of[k]]) THEN "finish" ELSE "wait")
             \/ "multi" \in Faults /\ Goto(k, "finish")
          /\ dangling' = (dangling \/ owner \in cleaned)
          /\ UNCHANGED terminated
  /\ UNCHANGED <<mapVars, submitted, id_of, netVars, mtx, alive, keep_going, cleaned, outVars>>

\* Mutants: nothing is sent again, or failed transfers are sent again too.
RetryNone(k, i) == FALSE
RetryFailed(k, i) == transfer[k][i] = "done" /\ code[k][i] \in {0, 429}

(***************************************************************************)
(* consume_msgs and complete, for every transfer of k's multi handle that  *)
(* has ended: one with code 429 is sent again, any other stores its code.  *)
(***************************************************************************)
Retry(k, i) == transfer[k][i] = "done" /\ code[k][i] = 429

Stored(k, i) == transfer[k][i] = "done" /\ code[k][i] # 429

ConsumeMsgs(k) ==
  LET id == id_of[k] IN
  IF requests[id] = None
  THEN UNCHANGED <<responses, transfer, attempts>>
  ELSE /\ responses' = [responses EXCEPT ![id] =
            [i \in Index |-> IF Stored(k, i) THEN [from |-> k, status |-> code[k][i]] ELSE @[i]]]
       /\ transfer' = [transfer EXCEPT ![k] =
            [i \in Index |-> IF Retry(k, i) THEN "running"
                             ELSE IF Stored(k, i) THEN "gone" ELSE @[i]]]
       /\ attempts' = [attempts EXCEPT ![k] =
            [i \in Index |-> IF Retry(k, i) THEN @[i] + 1 ELSE @[i]]]

Wait(k) ==
  /\ On(k, "wait") /\ mtx = None
  /\ ConsumeMsgs(k)
  /\ Goto(k, "continue")
  /\ UNCHANGED <<requests, monitor_threads, submitted, id_of, code, mtx, alive, keep_going, cleaned, outVars, faultVars>>

\* curl_multi_wait fails: an exception that nobody catches.
WaitFails(k) ==
  /\ On(k, "wait") /\ mtx = None
  /\ "multi" \in Faults
  /\ Terminate
  /\ UNCHANGED <<mapVars, submitted, id_of, netVars, threadVars, outVars>>

\* keep_going = poll(...), which returned true
Continue(k) ==
  /\ On(k, "continue") /\ k \in alive
  /\ keep_going' = [keep_going EXCEPT ![k] = TRUE]
  /\ Goto(k, "loop")
  /\ UNCHANGED <<mapVars, submitted, id_of, netVars, mtx, alive, cleaned, outVars, faultVars>>

\* poll on a complete set: take the responses and call back, holding mtx.
Finish(k) ==
  /\ On(k, "finish") /\ k \in alive /\ mtx = None
  /\ ConsumeMsgs(k)
  /\ IF responses[id_of[k]] = <<>>
     THEN Terminate /\ UNCHANGED <<mtx, mpc, outVars>>
     ELSE /\ mtx' = k
          /\ delivered' = [delivered EXCEPT ![k] = responses'[id_of[k]]]
          /\ calls' = [calls EXCEPT ![k] = @ + 1]
          /\ Goto(k, "callback")
          /\ UNCHANGED faultVars
  /\ UNCHANGED <<requests, monitor_threads, submitted, id_of, code, alive, keep_going, cleaned>>

\* Mutants: the set is kept and poll returns true; the responses are kept.
CallbackKeepsSet(k) ==
  /\ On(k, "callback")
  /\ mtx' = None
  /\ Goto(k, "continue")
  /\ UNCHANGED <<mapVars, submitted, id_of, netVars, alive, keep_going, cleaned, outVars, faultVars>>

CallbackKeepsResponses(k) ==
  /\ On(k, "callback")
  /\ requests' = [requests EXCEPT ![id_of[k]] = None]
  /\ keep_going' = [keep_going EXCEPT ![k] = FALSE]
  /\ mtx' = None
  /\ Goto(k, "stop")
  /\ UNCHANGED <<responses, monitor_threads, submitted, id_of, netVars, alive, cleaned, outVars, faultVars>>

\* The callback returns: drop the set (through an iterator that an unlocked
\* erase may have invalidated), stop its monitor, release mtx.
CallbackReturns(k) ==
  LET id == id_of[k] IN
  /\ On(k, "callback")
  /\ requests' = [requests EXCEPT ![id] = None]
  /\ responses' = [responses EXCEPT ![id] = <<>>]
  /\ dangling' = (dangling \/ responses[id] = <<>>)
  /\ keep_going' = IF monitor_threads[id] = None THEN keep_going
                   ELSE [keep_going EXCEPT ![monitor_threads[id]] = FALSE]
  /\ mtx' = None
  /\ Goto(k, "stop")
  /\ UNCHANGED <<monitor_threads, submitted, id_of, netVars, alive, cleaned, outVars, terminated>>

\* keep_going = poll(...), which returned false
Stop(k) ==
  /\ On(k, "stop") /\ k \in alive
  /\ keep_going' = [keep_going EXCEPT ![k] = FALSE]
  /\ Goto(k, "loop")
  /\ UNCHANGED <<mapVars, submitted, id_of, netVars, mtx, alive, cleaned, outVars, faultVars>>

Cleanup(k) ==
  /\ On(k, "cleanup") /\ k \in alive
  /\ cleaned' = cleaned \cup {k}
  /\ Goto(k, "ended")
  /\ UNCHANGED <<mapVars, submitted, id_of, netVars, mtx, alive, keep_going, outVars, faultVars>>

\* erase takes no lock; an id without a monitor erases the end iterator.
Erase(id) ==
  /\ ~terminated
  /\ "erase" \in Calls
  /\ \E k \in 1 .. submitted : id_of[k] = id
  /\ monitor_threads' = [monitor_threads EXCEPT ![id] = None]
  /\ alive' = alive \ {monitor_threads[id]}
  /\ dangling' = (dangling \/ monitor_threads[id] = None)
  /\ requests' = [requests EXCEPT ![id] = None]
  /\ responses' = [responses EXCEPT ![id] = <<>>]
  /\ UNCHANGED <<submitted, id_of, netVars, mtx, keep_going, cleaned, mpc, outVars, terminated>>

----------------------------------------------------------------------------
MonitorStep(k) ==
  \/ Loop(k) \/ IsComplete(k) \/ Wait(k) \/ WaitFails(k) \/ Continue(k) \/ Finish(k)
  \/ CallbackReturns(k) \/ Stop(k) \/ Cleanup(k) \/ UseDestroyed(k)

Next ==
  \/ Submit \/ SubmitCollides \/ SubmitFails
  \/ \E k \in Set : MonitorStep(k)
  \/ \E k \in Set, i \in Index : TransferEnds(k, i)
  \/ \E id \in HTTPRequestSetId : Erase(id)

Spec == Init /\ [][Next]_vars

(***************************************************************************)
(* Threads run, a thread that waits for mtx gets it (each holder releases  *)
(* it, and the std::mutex of the build hands it on), and every transfer    *)
(* ends, because libcurl is given a timeout.                               *)
(***************************************************************************)
Fairness ==
  /\ \A k \in Set : SF_vars(MonitorStep(k))
  /\ \A k \in Set, i \in Index : WF_vars(TransferEnds(k, i))

FairSpec == Spec /\ Fairness

----------------------------------------------------------------------------
(***************************************************************************)
(* What a callback receives are the responses to its own submission, all   *)
(* of them answered, although set ids are reused, monitor threads outlive  *)
(* their sets, and is_complete and the rest of poll take mtx separately.   *)
(***************************************************************************)
DeliveredOwn ==
  \A k \in Set : calls[k] > 0 =>
    \A i \in Index : delivered[k][i].from = k /\ delivered[k][i].status # 0

(***************************************************************************)
(* No submission is called back twice: poll drops the set and returns      *)
(* false, which ends the monitor's loop.                                   *)
(***************************************************************************)
CalledOnce == \A k \in Set : calls[k] <= 1

(***************************************************************************)
(* While mtx is free, a set id has responses exactly if it has requests,   *)
(* and at most one monitor thread that has its object still polls it.      *)
(***************************************************************************)
Polls(k) ==
  /\ k \in alive
  /\ \/ mpc[k] \in {"isComplete", "wait", "finish", "continue"}
     \/ mpc[k] = "loop" /\ keep_going[k]

SetsPaired ==
  /\ mtx = None => \A id \in HTTPRequestSetId : (requests[id] = None <=> responses[id] = <<>>)
  /\ \A k, l \in Set : Polls(k) /\ Polls(l) /\ id_of[k] = id_of[l] => k = l

(***************************************************************************)
(* No monitor thread uses a MonitorThread object after it was destroyed,   *)
(* or a multi handle after curl_multi_cleanup.                             *)
(***************************************************************************)
NoDanglingUse == ~dangling

(***************************************************************************)
(* Every accepted set of requests is called back, whatever other sets the  *)
(* application submits or erases, unless the application erases the set,   *)
(* an exception ends the process, or libcurl gives up on a transfer (a     *)
(* timeout, say) of the set or of an erased one with the same id: status 0 *)
(* stays "unanswered", and the set is polled for ever.                     *)
(***************************************************************************)
GivenUp(id) ==
  \E l \in Set, i \in Index : id_of[l] = id /\ transfer[l][i] = "gone" /\ code[l][i] = 0

EventuallyCalledBack ==
  \A k \in Set :
    mpc[k] # "none" ~> calls[k] > 0 \/ k \notin alive \/ terminated \/ GivenUp(id_of[k])
=============================================================================
