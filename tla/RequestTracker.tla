---------------------------- MODULE RequestTracker ----------------------------
(***************************************************************************)
(* The AttestationRequestTracker of include/ravl/request_tracker_impl.h:   *)
(* requests that wait for their endorsements to be downloaded, and are     *)
(* then verified, on whichever thread happens to advance them.             *)
(*                                                                         *)
(* A thread is a user thread, or the thread on which an asynchronous HTTP  *)
(* client delivers the responses of one request (named by the request's    *)
(* id).  A thread holds a program counter, the id of the request that it   *)
(* works on, and a stack of return points: with the synchronous client the *)
(* HTTP callback runs inside submit, and the user's callback runs inside   *)
(* advance.  A step is what a thread does between two points at which      *)
(* another thread can observe or change what it uses.  `advance` keeps a   *)
(* Request& across its steps without holding a lock, so every such step    *)
(* dereferences a request that another thread may have erased.             *)
(***************************************************************************)
EXTENDS Naturals, Sequences

CONSTANTS
  Users,        \* the application's threads
  MaxRequests,  \* bound on the number of submissions
  Clients,      \* the HTTP clients passed to submit: "sync", "async"
  Callbacks,    \* the user callbacks passed to submit: "null", "advance", "erase"
  Calls         \* what users call besides submit, completed and result:
                \* "advance", "erase" (any known id), "eraseResult" (after result)

ASSUME ConstantsAssumption ==
  /\ MaxRequests \in Nat \ {0}
  /\ Users \cap Nat = {}
  /\ Clients \subseteq {"sync", "async"}
  /\ Callbacks \subseteq {"null", "advance", "erase"}
  /\ Calls \subseteq {"advance", "erase", "eraseResult"}

RequestID == 0 .. MaxRequests - 1
Thread == Users \cup RequestID

RequestState == {"SUBMITTED", "WAITING_FOR_ENDORSEMENTS", "HAVE_ENDORSEMENTS",
                 "FINISHED", "ERROR"}
Completed == {"FINISHED", "ERROR"}

(***************************************************************************)
(* What the tracker can tell of an attestation: whether it can be prepared *)
(* ("malformed" cannot), whether its endorsements have to be downloaded    *)
(* ("bare" has none, "refresh" has some but the options ask for fresh      *)
(* ones) and whether it can be verified without a download ("complete" and *)
(* "refresh" carry endorsements).                                          *)
(***************************************************************************)
Attestation == {"malformed", "complete", "bare", "refresh"}
NeedsDownload(a) == a \in {"bare", "refresh"}

\* The endorsements that claims were verified with.
Claims == {"embedded", "fetched"}

VARIABLES
  next_request_id,
  state,           \* RequestState of each id; "absent" if not in the map
  attestation,     \* Request::attestation
  http_client,     \* Request::http_client
  callback,        \* Request::callback
  claims,          \* Request::claims
  http_responses,  \* ids with an entry in the response map
  in_flight,       \* ids the asynchronous client owes a callback
  pc, rid, stack,  \* thread: program counter, request, return points
  local_claims,    \* thread: the claims computed by verify, not yet stored
  returned,        \* ids whose submit has returned to the application
  seen,            \* user: the completed state last seen by completed()
  got,             \* user: the outcome of the last result()
  called,          \* how often each request's user callback was invoked
  dangling,        \* a thread used a request that was erased
  terminated       \* an exception left a client thread: std::terminate

requestVars == <<next_request_id, state, attestation, http_client, callback, claims>>
threadVars == <<pc, rid, stack, local_claims>>
userVars == <<returned, seen, got>>
faultVars == <<dangling, terminated>>
vars == <<requestVars, http_responses, in_flight, threadVars, userVars, called, faultVars>>

\* Program points at which a thread uses its Request&.
RefPoint == {"switch", "toWaiting", "prepare", "submitHTTP", "setId", "haveNow",
             "toHave", "verify", "setClaims", "finish", "callback", "catch", "return"}
Point == RefPoint \cup {"idle", "lookup", "advanceAgain", "store", "cbResult",
                        "cbErase", "submitted", "completed2", "result"}
ReturnPoint == {"setId", "advanceAgain", "return", "submitted"}

TypeOK ==
  /\ next_request_id \in 0 .. MaxRequests
  /\ state \in [RequestID -> RequestState \cup {"absent"}]
  /\ attestation \in [RequestID -> Attestation]
  /\ http_client \in [RequestID -> {"sync", "async"}]
  /\ callback \in [RequestID -> {"null", "advance", "erase"}]
  /\ claims \in [RequestID -> Claims \cup {"null"}]
  /\ http_responses \subseteq RequestID
  /\ in_flight \subseteq RequestID
  /\ pc \in [Thread -> Point]
  /\ rid \in [Thread -> RequestID]
  /\ stack \in [Thread -> Seq(ReturnPoint)]
  /\ local_claims \in [Thread -> Claims \cup {"null"}]
  /\ returned \subseteq RequestID
  /\ seen \in [Users -> Completed \cup {"none"}]
  /\ got \in [Users -> Claims \cup {"none", "exception"}]
  /\ called \in [RequestID -> Nat]
  /\ dangling \in BOOLEAN
  /\ terminated \in BOOLEAN

Init ==
  /\ next_request_id = 0
  /\ state = [i \in RequestID |-> "absent"]
  /\ attestation = [i \in RequestID |-> "complete"]
  /\ http_client = [i \in RequestID |-> "sync"]
  /\ callback = [i \in RequestID |-> "null"]
  /\ claims = [i \in RequestID |-> "null"]
  /\ http_responses = {}
  /\ in_flight = {}
  /\ pc = [t \in Thread |-> "idle"]
  /\ rid = [t \in Thread |-> 0]
  /\ stack = [t \in Thread |-> <<>>]
  /\ local_claims = [t \in Thread |-> "null"]
  /\ returned = {}
  /\ seen = [u \in Users |-> "none"]
  /\ got = [u \in Users |-> "none"]
  /\ called = [i \in RequestID |-> 0]
  /\ dangling = FALSE
  /\ terminated = FALSE

----------------------------------------------------------------------------
(***************************************************************************)
(* Control flow.                                                           *)
(***************************************************************************)
At(t, p) ==
  /\ ~terminated
  /\ pc[t] = p
  /\ p \in RefPoint => state[rid[t]] # "absent"

Goto(t, p) == pc' = [pc EXCEPT ![t] = p] /\ UNCHANGED <<rid, stack>>

Call(t, p, ret) ==
  /\ pc' = [pc EXCEPT ![t] = p]
  /\ stack' = [stack EXCEPT ![t] = <<ret>> \o @]
  /\ UNCHANGED rid

Return(t) ==
  /\ IF stack[t] = <<>>
     THEN pc' = [pc EXCEPT ![t] = "idle"] /\ UNCHANGED stack
     ELSE /\ pc' = [pc EXCEPT ![t] = Head(stack[t])]
          /\ stack' = [stack EXCEPT ![t] = Tail(@)]
  /\ UNCHANGED rid

(***************************************************************************)
(* An exception that advance(id) does not catch ("request not found") goes *)
(* to the caller of advance(id): through the HTTP callback, which catches  *)
(* nothing, to the advance below it on the stack, whose catch clause       *)
(* records an ERROR; to the application; or, on a client's thread, out of  *)
(* the thread.                                                             *)
(***************************************************************************)
Uncaught(t) ==
  IF stack[t] # <<>> /\ Head(stack[t]) = "advanceAgain" THEN Tail(stack[t]) ELSE stack[t]

Throw(t) ==
  /\ IF Uncaught(t) # <<>>
     THEN /\ pc' = [pc EXCEPT ![t] = "catch"]
          /\ stack' = [stack EXCEPT ![t] = Tail(Uncaught(t))]
          /\ UNCHANGED terminated
     ELSE /\ pc' = [pc EXCEPT ![t] = "idle"]
          /\ stack' = [stack EXCEPT ![t] = <<>>]
          /\ terminated' = (terminated \/ t \notin Users)
  /\ UNCHANGED rid

SetState(t, s) == state' = [state EXCEPT ![rid[t]] = s]

UnchangedRequest == UNCHANGED <<next_request_id, attestation, http_client, callback, claims>>

----------------------------------------------------------------------------
(***************************************************************************)
(* Calls of the application.                                               *)
(***************************************************************************)
Submit(u) ==
  /\ At(u, "idle")
  /\ next_request_id < MaxRequests
  /\ LET id == next_request_id IN
     /\ next_request_id' = id + 1
     /\ \E a \in Attestation, c \in Clients, f \in Callbacks :
          /\ attestation' = [attestation EXCEPT ![id] = a]
          /\ http_client' = [http_client EXCEPT ![id] = c]
          /\ callback' = [callback EXCEPT ![id] = f]
     /\ state' = [state EXCEPT ![id] = "SUBMITTED"]
     /\ pc' = [pc EXCEPT ![u] = "switch"]
     /\ rid' = [rid EXCEPT ![u] = id]
     /\ stack' = [stack EXCEPT ![u] = <<"submitted">>]
  /\ UNCHANGED <<claims, http_responses, in_flight, local_claims, userVars, called, faultVars>>

SubmitReturns(u) ==
  /\ At(u, "submitted")
  /\ returned' = returned \cup {rid[u]}
  /\ Goto(u, "idle")
  /\ UNCHANGED <<requestVars, http_responses, in_flight, local_claims, seen, got, called, faultVars>>

\* completed(id) reads the state twice, each time under requests_mtx; an id
\* that is not in the map reads as ERROR.
StateOf(id) == IF state[id] = "absent" THEN "ERROR" ELSE state[id]

CompletedFirst(u) ==
  /\ At(u, "idle")
  /\ \E id \in returned :
       /\ rid' = [rid EXCEPT ![u] = id]
       /\ IF StateOf(id) = "FINISHED"
          THEN /\ pc' = [pc EXCEPT ![u] = "result"]
               /\ seen' = [seen EXCEPT ![u] = "FINISHED"]
          ELSE /\ pc' = [pc EXCEPT ![u] = "completed2"]
               /\ seen' = [seen EXCEPT ![u] = "none"]
  /\ got' = [got EXCEPT ![u] = "none"]
  /\ UNCHANGED <<requestVars, http_responses, in_flight, stack, local_claims, returned, called, faultVars>>

CompletedSecond(u) ==
  /\ At(u, "completed2")
  /\ IF StateOf(rid[u]) = "ERROR"
     THEN Goto(u, "result") /\ seen' = [seen EXCEPT ![u] = "ERROR"]
     ELSE Goto(u, "idle") /\ UNCHANGED seen
  /\ UNCHANGED <<requestVars, http_responses, in_flight, local_claims, returned, got, called, faultVars>>

\* Mutant: result() that checks only that the request exists.
HasResultUnchecked(id) == state[id] # "absent"

HasResult(id) == state[id] = "FINISHED" /\ claims[id] # "null"

Result(u) ==
  /\ At(u, "result")
  /\ got' = [got EXCEPT ![u] = IF HasResult(rid[u]) THEN claims[rid[u]] ELSE "exception"]
  /\ Goto(u, "idle")
  /\ UNCHANGED <<requestVars, http_responses, in_flight, local_claims, returned, seen, called, faultVars>>

(***************************************************************************)
(* erase removes the map entry and nothing else: the tracker's own         *)
(* http_client member is never set, so the download is not cancelled, and  *)
(* responses that have arrived stay in http_responses.                     *)
(***************************************************************************)
Erased(id) ==
  /\ state' = [state EXCEPT ![id] = "absent"]
  /\ claims' = [claims EXCEPT ![id] = "null"]
  /\ UNCHANGED <<next_request_id, attestation, http_client, callback>>

Erase(u) ==
  /\ At(u, "idle")
  /\ \E id \in returned :
       /\ \/ "erase" \in Calls
          \/ "eraseResult" \in Calls /\ id = rid[u] /\ got[u] \in Claims
       /\ Erased(id)
  /\ UNCHANGED <<http_responses, in_flight, threadVars, userVars, called, faultVars>>

Advance(u) ==
  /\ At(u, "idle")
  /\ "advance" \in Calls
  /\ \E id \in returned :
       /\ pc' = [pc EXCEPT ![u] = "lookup"]
       /\ rid' = [rid EXCEPT ![u] = id]
  /\ UNCHANGED <<requestVars, http_responses, in_flight, stack, local_claims, userVars, called, faultVars>>

----------------------------------------------------------------------------
(***************************************************************************)
(* advance(id): find the request under requests_mtx, then go on without.   *)
(***************************************************************************)
Lookup(t) ==
  /\ At(t, "lookup")
  /\ IF state[rid[t]] # "absent"
     THEN Goto(t, "switch") /\ UNCHANGED terminated
     ELSE Throw(t)
  /\ UNCHANGED <<requestVars, http_responses, in_flight, local_claims, userVars, called, dangling>>

\* Mutants of the switch: the FINISHED case falls into the HAVE_ENDORSEMENTS
\* code, or into the default, which throws.
SwitchFinishedTo(t, p) ==
  /\ At(t, "switch")
  /\ Goto(t, CASE state[rid[t]] = "SUBMITTED" -> "toWaiting"
               [] state[rid[t]] = "WAITING_FOR_ENDORSEMENTS" -> "toHave"
               [] state[rid[t]] = "HAVE_ENDORSEMENTS" -> "verify"
               [] state[rid[t]] = "FINISHED" -> p
               [] state[rid[t]] = "ERROR" -> "catch")
  /\ UNCHANGED <<requestVars, http_responses, in_flight, local_claims, userVars, called, faultVars>>

SwitchNotifiesAgain(t) == SwitchFinishedTo(t, "callback")
SwitchRejectsFinished(t) == SwitchFinishedTo(t, "catch")

\* advance(id, req): the switch on req.state.
Switch(t) ==
  /\ At(t, "switch")
  /\ Goto(t, CASE state[rid[t]] = "SUBMITTED" -> "toWaiting"
               [] state[rid[t]] = "WAITING_FOR_ENDORSEMENTS" -> "toHave"
               [] state[rid[t]] = "HAVE_ENDORSEMENTS" -> "verify"
               [] state[rid[t]] = "FINISHED" -> "return"
               [] state[rid[t]] = "ERROR" -> "catch")
  /\ UNCHANGED <<requestVars, http_responses, in_flight, local_claims, userVars, called, faultVars>>

ToWaiting(t) ==
  /\ At(t, "toWaiting")
  /\ SetState(t, "WAITING_FOR_ENDORSEMENTS")
  /\ Goto(t, "prepare")
  /\ UnchangedRequest
  /\ UNCHANGED <<http_responses, in_flight, local_claims, userVars, called, faultVars>>

\* The attestation says which downloads it needs, or throws.
PrepareEndorsements(t) ==
  /\ At(t, "prepare")
  /\ LET a == attestation[rid[t]] IN
     Goto(t, IF a = "malformed" THEN "catch"
             ELSE IF NeedsDownload(a) THEN "submitHTTP" ELSE "haveNow")
  /\ UNCHANGED <<requestVars, http_responses, in_flight, local_claims, userVars, called, faultVars>>

\* The client throws, has the responses at once and calls back (synchronous),
\* or will call back on a thread of its own.
SubmitHTTPFails(t) ==
  /\ At(t, "submitHTTP")
  /\ Goto(t, "catch")
  /\ UNCHANGED <<requestVars, http_responses, in_flight, local_claims, userVars, called, faultVars>>

SubmitHTTPSync(t) ==
  /\ At(t, "submitHTTP")
  /\ http_client[rid[t]] = "sync"
  /\ Call(t, "store", "setId")
  /\ UNCHANGED <<requestVars, http_responses, in_flight, local_claims, userVars, called, faultVars>>

SubmitHTTPAsync(t) ==
  /\ At(t, "submitHTTP")
  /\ http_client[rid[t]] = "async"
  /\ in_flight' = in_flight \cup {rid[t]}
  /\ Goto(t, "setId")
  /\ UNCHANGED <<requestVars, http_responses, local_claims, userVars, called, faultVars>>

Deliver(id) ==
  /\ id \in in_flight
  /\ At(id, "idle")
  /\ in_flight' = in_flight \ {id}
  /\ pc' = [pc EXCEPT ![id] = "store"]
  /\ rid' = [rid EXCEPT ![id] = id]
  /\ UNCHANGED <<requestVars, http_responses, stack, local_claims, userVars, called, faultVars>>

\* request.http_request_set_id = ..., a write into the request.
SetRequestSetId(t) ==
  /\ At(t, "setId")
  /\ Goto(t, "return")
  /\ UNCHANGED <<requestVars, http_responses, in_flight, local_claims, userVars, called, faultVars>>

\* Mutants of the HTTP callback: it loses the responses, or advances once.
StoreNothing(t) ==
  /\ At(t, "store")
  /\ Call(t, "lookup", "advanceAgain")
  /\ UNCHANGED <<requestVars, http_responses, in_flight, local_claims, userVars, called, faultVars>>

StoreAndAdvanceOnce(t) ==
  /\ At(t, "store")
  /\ http_responses' = http_responses \cup {rid[t]}
  /\ Goto(t, "lookup")
  /\ UNCHANGED <<requestVars, in_flight, local_claims, userVars, called, faultVars>>

(***************************************************************************)
(* The HTTP callback: store the responses, then advance(id) twice.         *)
(***************************************************************************)
StoreResponses(t) ==
  /\ At(t, "store")
  /\ IF rid[t] \notin http_responses
     THEN /\ http_responses' = http_responses \cup {rid[t]}
          /\ Call(t, "lookup", "advanceAgain")
          /\ UNCHANGED terminated
     ELSE Throw(t) /\ UNCHANGED http_responses
  /\ UNCHANGED <<requestVars, in_flight, local_claims, userVars, called, dangling>>

AdvanceAgain(t) ==
  /\ At(t, "advanceAgain")
  /\ Goto(t, "lookup")
  /\ UNCHANGED <<requestVars, http_responses, in_flight, local_claims, userVars, called, faultVars>>

----------------------------------------------------------------------------
ToHave(t) ==
  /\ \/ At(t, "toHave") /\ Goto(t, "return")
     \/ At(t, "haveNow") /\ Goto(t, "switch")
  /\ SetState(t, "HAVE_ENDORSEMENTS")
  /\ UnchangedRequest
  /\ UNCHANGED <<http_responses, in_flight, local_claims, userVars, called, faultVars>>

\* Mutant: verification that does not miss absent endorsements.
VerifiableAlways(a, fetched) == {IF fetched THEN "fetched" ELSE "embedded"}

\* Claims that verification can produce: with the responses if there are any,
\* otherwise only from endorsements in the attestation.
Verifiable(a, fetched) ==
  IF fetched THEN {"fetched"} ELSE IF a = "bare" THEN {} ELSE {"embedded"}

\* Mutant: the responses are copied, not moved out of the map.
PeekResponses(id) == UNCHANGED http_responses

(***************************************************************************)
(* verify holds responses_mtx while it takes the responses and verifies;   *)
(* it succeeds or throws.                                                  *)
(***************************************************************************)
TakeResponses(id) == http_responses' = http_responses \ {id}

\* Mutant: FINISHED is published before the claims are stored.
VerifyPublishesFirst(t) ==
  /\ At(t, "verify")
  /\ TakeResponses(rid[t])
  /\ \E c \in Verifiable(attestation[rid[t]], rid[t] \in http_responses) :
       local_claims' = [local_claims EXCEPT ![t] = c]
  /\ SetState(t, "FINISHED")
  /\ Goto(t, "setClaims")
  /\ UnchangedRequest
  /\ UNCHANGED <<in_flight, userVars, called, faultVars>>

Verify(t) ==
  /\ At(t, "verify")
  /\ TakeResponses(rid[t])
  /\ \E c \in Verifiable(attestation[rid[t]], rid[t] \in http_responses) \cup {"null"} :
       /\ local_claims' = [local_claims EXCEPT ![t] = c]
       /\ Goto(t, IF c = "null" THEN "catch" ELSE "setClaims")
  /\ UNCHANGED <<requestVars, in_flight, userVars, called, faultVars>>

\* Mutant: the claims returned by verify are dropped.
DropClaims(t) ==
  /\ At(t, "setClaims")
  /\ Goto(t, "finish")
  /\ UNCHANGED <<requestVars, http_responses, in_flight, local_claims, userVars, called, faultVars>>

SetClaims(t) ==
  /\ At(t, "setClaims")
  /\ claims' = [claims EXCEPT ![rid[t]] = local_claims[t]]
  /\ Goto(t, "finish")
  /\ UNCHANGED <<next_request_id, state, attestation, http_client, callback>>
  /\ UNCHANGED <<http_responses, in_flight, local_claims, userVars, called, faultVars>>

Finish(t) ==
  /\ At(t, "finish")
  /\ SetState(t, "FINISHED")
  /\ Goto(t, "callback")
  /\ UnchangedRequest
  /\ UNCHANGED <<http_responses, in_flight, local_claims, userVars, called, faultVars>>

(***************************************************************************)
(* The user callback: none, the one of verify_synchronized, which calls    *)
(* advance(id), or the one of the wasm test, which takes the result and    *)
(* erases the request.                                                     *)
(***************************************************************************)
InvokeCallback(t) ==
  /\ At(t, "callback")
  /\ LET f == callback[rid[t]] IN
     IF f = "null"
     THEN Goto(t, "return") /\ UNCHANGED called
     ELSE /\ called' = [called EXCEPT ![rid[t]] = @ + 1]
          /\ Call(t, IF f = "advance" THEN "lookup" ELSE "cbResult", "return")
  /\ UNCHANGED <<requestVars, http_responses, in_flight, local_claims, userVars, faultVars>>

CallbackResult(t) ==
  /\ At(t, "cbResult")
  /\ IF HasResult(rid[t])
     THEN Goto(t, "cbErase") /\ UNCHANGED terminated
     ELSE Throw(t)
  /\ UNCHANGED <<requestVars, http_responses, in_flight, local_claims, userVars, called, dangling>>

CallbackErase(t) ==
  /\ At(t, "cbErase")
  /\ Erased(rid[t])
  /\ Return(t)
  /\ UNCHANGED <<http_responses, in_flight, local_claims, userVars, called, faultVars>>

\* The catch clause of advance.
Catch(t) ==
  /\ At(t, "catch")
  /\ SetState(t, "ERROR")
  /\ Goto(t, "return")
  /\ UnchangedRequest
  /\ UNCHANGED <<http_responses, in_flight, local_claims, userVars, called, faultVars>>

\* return req.state
AdvanceReturns(t) ==
  /\ At(t, "return")
  /\ Return(t)
  /\ UNCHANGED <<requestVars, http_responses, in_flight, local_claims, userVars, called, faultVars>>

(***************************************************************************)
(* A step that dereferences an erased request.  What follows is undefined; *)
(* the thread is not followed any further.                                 *)
(***************************************************************************)
UseAfterErase(t) ==
  /\ ~terminated
  /\ pc[t] \in RefPoint
  /\ state[rid[t]] = "absent"
  /\ dangling' = TRUE
  /\ UNCHANGED <<requestVars, http_responses, in_flight, threadVars, userVars, called, terminated>>

----------------------------------------------------------------------------
AdvanceStep(t) ==
  \/ Lookup(t) \/ Switch(t) \/ ToWaiting(t) \/ PrepareEndorsements(t)
  \/ SubmitHTTPFails(t) \/ SubmitHTTPSync(t) \/ SubmitHTTPAsync(t)
  \/ SetRequestSetId(t) \/ StoreResponses(t) \/ AdvanceAgain(t)
  \/ ToHave(t) \/ Verify(t) \/ SetClaims(t) \/ Finish(t)
  \/ InvokeCallback(t) \/ CallbackResult(t) \/ CallbackErase(t)
  \/ Catch(t) \/ AdvanceReturns(t) \/ UseAfterErase(t)

UserStep(u) == SubmitReturns(u) \/ CompletedSecond(u) \/ Result(u)
UserCall(u) == Submit(u) \/ CompletedFirst(u) \/ Erase(u) \/ Advance(u)

Next ==
  \/ \E u \in Users : UserCall(u) \/ UserStep(u)
  \/ \E t \in Thread : AdvanceStep(t)
  \/ \E id \in RequestID : Deliver(id)

Spec == Init /\ [][Next]_vars

(***************************************************************************)
(* A thread inside advance keeps running.  Nobody has to call, and a       *)
(* client that accepted a request set need not call back: the asynchronous *)
(* one polls a transfer without an HTTP status for ever, the fetch client  *)
(* throws on an answer 429.                                                *)
(***************************************************************************)
Fairness == \A t \in Thread : WF_vars(AdvanceStep(t))

FairSpec == Spec /\ Fairness

----------------------------------------------------------------------------
(***************************************************************************)
(* Properties.                                                             *)
(***************************************************************************)

\* The endorsements that an attestation's options require to be used.
Required(a) == IF NeedsDownload(a) THEN "fetched" ELSE "embedded"

(***************************************************************************)
(* A FINISHED request carries claims that were verified with the           *)
(* endorsements its options ask for: downloaded ones whenever              *)
(* prepare_endorsements asked for a download, whichever thread stored,     *)
(* took and verified them (request_tracker_impl.h, advance and verify).    *)
(***************************************************************************)
FinishedIsVerified ==
  \A id \in RequestID : state[id] = "FINISHED" => claims[id] = Required(attestation[id])

(***************************************************************************)
(* Whatever the application calls and in whichever order, an attestation   *)
(* without endorsements never has claims unless its download arrived and   *)
(* was used, a malformed one never has claims, and FINISHED is never       *)
(* published before the claims are stored (verify, then FINISHED).         *)
(***************************************************************************)
ClaimsJustified ==
  \A id \in RequestID :
    /\ claims[id] # "null" => /\ attestation[id] # "malformed"
                              /\ attestation[id] = "bare" => claims[id] = "fetched"
                              /\ attestation[id] = "complete" => claims[id] = "embedded"
    /\ state[id] = "FINISHED" => claims[id] # "null"

(***************************************************************************)
(* The user callback runs at most once per request, and only for a request *)
(* that is FINISHED (advance, the HAVE_ENDORSEMENTS case), although the    *)
(* HTTP callback advances the request twice and the callback of            *)
(* verify_synchronized advances it a third time.                           *)
(***************************************************************************)
CallbackOnce ==
  \A id \in RequestID : called[id] > 0 => called[id] = 1 /\ state[id] = "FINISHED"

(***************************************************************************)
(* A completed request has no download outstanding and left no responses   *)
(* behind: verify takes them out of http_responses on both of its exits.   *)
(***************************************************************************)
NothingOutstanding ==
  \A id \in RequestID : state[id] \in Completed => id \notin http_responses \cup in_flight

(***************************************************************************)
(* Once completed() was true because the request is FINISHED, result()     *)
(* returns claims: the polling loops of verify_synchronized and of the     *)
(* asynchronous unit tests never get an exception after FINISHED.          *)
(***************************************************************************)
ResultAfterFinished ==
  \A u \in Users : seen[u] = "FINISHED" => got[u] # "exception"

(***************************************************************************)
(* No thread uses a request that was erased from the map: advance keeps    *)
(* its Request& across prepare_endorsements, verify and both callbacks.    *)
(***************************************************************************)
NoDanglingAccess == ~dangling

Rank(s) == CASE s = "absent" -> 0
             [] s = "SUBMITTED" -> 1
             [] s = "WAITING_FOR_ENDORSEMENTS" -> 2
             [] s = "HAVE_ENDORSEMENTS" -> 3
             [] s \in Completed -> 4

(***************************************************************************)
(* A request only moves forward through the states in the order of         *)
(* RequestState, and FINISHED and ERROR are final.                         *)
(***************************************************************************)
StateOnlyAdvances ==
  [][\A id \in RequestID : state'[id] = state[id] \/ Rank(state'[id]) > Rank(state[id])]_state
=============================================================================
