----------------------------- MODULE HttpClients -----------------------------
(***************************************************************************)
(* The two other implementations of HTTPClient: SynchronousHTTPClient      *)
(* (src/http_client.cpp, and execute_synchronous over libcurl), and the    *)
(* FetchTracker of the WebAssembly build (wasm/http_client_fetch.cpp),     *)
(* whose fetches the browser runs and completes through a callback.        *)
(*                                                                         *)
(* Both keep a map of requests and a map of responses under an id that is  *)
(* the number of sets they hold.  Submissions are numbered, as in          *)
(* CurlClient, and the number stands for the requests submitted.  Code     *)
(* that runs to its end without giving way is one step.  libcurl, the      *)
(* browser and the network are external.                                   *)
(***************************************************************************)
EXTENDS Naturals, Sequences, FiniteSets, Functions

CONSTANTS
  Clients,        \* the implementations to run: "sync", "fetch"
  MaxSets,        \* bound on the number of submissions
  Sizes,          \* numbers of requests in a set
  max_attempts,   \* of the synchronous client
  Max429          \* bound on how often the server answers 429

ASSUME HttpAssumption ==
  /\ Clients \subseteq {"sync", "fetch"} /\ Clients # {}
  /\ MaxSets \in Nat \ {0} /\ max_attempts \in Nat /\ Max429 \in Nat
  /\ Sizes \subseteq Nat /\ Sizes # {}

Set == 1 .. MaxSets
None == 0
HTTPRequestSetId == 0 .. MaxSets - 1
Index == UNION {1 .. n : n \in Sizes}

(***************************************************************************)
(* An answer of the server: a status, 0 if there was none, and whether it  *)
(* has a Retry-After header.  A response also has the submission whose     *)
(* request was answered.                                                   *)
(***************************************************************************)
Answer == [status : {0, 200, 429, 503}, retry_after : BOOLEAN]
Response == [from : Set \cup {None}, answer : Answer]

NoResponse == [from |-> None, answer |-> [status |-> 0, retry_after |-> FALSE]]
HTTPResponses(n) == [i \in 1 .. n |-> NoResponse]

VARIABLES
  client,       \* the implementation in use
  requests,     \* set id -> the submission whose requests are stored
  responses,    \* set id -> HTTPResponses
  submitted,    \* number of submissions so far
  size,         \* submission -> number of its requests
  id_of,        \* submission -> the set id it was given
  fetches,      \* <<k, i>>: k's entry fetches[i] is not null
  inflight,     \* <<k, i>>: the browser has a fetch for request i of k
  running,      \* the synchronous submission in progress
  answered,     \* ... how many of its requests are answered
  attempts,     \* ... attempts left for the next one
  throttled,    \* number of answers 429 so far
  delivered,    \* submission -> responses passed to its callback
  calls,        \* submission -> number of times its callback was invoked
  raised,       \* submissions whose callback threw
  thrown,       \* submissions that met an exception, one of their callback too
  erased,       \* submissions in the maps when the application erased them
  shared,       \* submissions whose id an earlier one still used
  overrun       \* a response was written past the end of its vector

mapVars == <<requests, responses>>
setVars == <<client, submitted, size, id_of, shared>>
fetchVars == <<fetches, inflight>>
syncVars == <<running, answered, attempts>>
outVars == <<delivered, calls, raised>>
vars == <<setVars, mapVars, fetchVars, syncVars, throttled, outVars, thrown, erased, overrun>>

TypeOK ==
  /\ client \in Clients
  /\ DOMAIN requests \subseteq HTTPRequestSetId /\ Range(requests) \subseteq Set
  /\ DOMAIN responses \subseteq HTTPRequestSetId
  /\ \A rs \in Range(responses) \cup Range(delivered) :
       Len(rs) \in Sizes \cup {0} /\ Range(rs) \subseteq Response
  /\ submitted \in 0 .. MaxSets
  /\ size \in [Set -> Sizes \cup {0}]
  /\ id_of \in [Set -> HTTPRequestSetId]
  /\ fetches \subseteq Set \X Index /\ inflight \subseteq Set \X Index
  /\ running \in Set \cup {None}
  /\ answered \in Nat /\ attempts \in 0 .. max_attempts
  /\ throttled \in 0 .. Max429
  /\ calls \in [Set -> Nat]
  /\ raised \subseteq thrown /\ thrown \subseteq Set
  /\ erased \subseteq Set /\ shared \subseteq Set
  /\ overrun \in BOOLEAN

Init ==
  /\ client \in Clients
  /\ requests = <<>> /\ responses = <<>>
  /\ submitted = 0
  /\ size = [k \in Set |-> 0]
  /\ id_of = [k \in Set |-> 0]
  /\ fetches = {} /\ inflight = {}
  /\ running = None /\ answered = 0 /\ attempts = 0
  /\ throttled = 0
  /\ delivered = [k \in Set |-> <<>>]
  /\ calls = [k \in Set |-> 0]
  /\ raised = {} /\ thrown = {} /\ erased = {} /\ shared = {}
  /\ overrun = FALSE

----------------------------------------------------------------------------
(***************************************************************************)
(* The maps.  emplace leaves an entry that is there alone.                 *)
(***************************************************************************)
Emplace(f, id, v) == [i \in DOMAIN f \cup {id} |-> IF i \in DOMAIN f THEN f[i] ELSE v]

Without(f, id) == Restrict(f, DOMAIN f \ {id})

\* Mutant: counted with the set to come.
NewIdOffByOne == Cardinality(DOMAIN requests) + 1

NewId == Cardinality(DOMAIN requests)

Idle == running = None /\ ~overrun

\* The id is in use by the requests of an older submission (which the
\* synchronous client keeps), or by fetches the browser has not ended.
InUse(id) == id \in DOMAIN requests \/ \E f \in inflight : id_of[f[1]] = id

\* The next submission, k, of n requests.
Submitting(k, n) ==
  /\ Idle
  /\ submitted < MaxSets
  /\ k = submitted + 1
  /\ submitted' = k
  /\ size' = [size EXCEPT ![k] = n]
  /\ id_of' = [id_of EXCEPT ![k] = NewId]
  /\ shared' = IF InUse(NewId) THEN shared \cup {k} ELSE shared
  /\ UNCHANGED client

\* std::bad_alloc
Collides(k) ==
  /\ thrown' = thrown \cup {k}
  /\ UNCHANGED <<fetchVars, syncVars, throttled, outVars, erased, overrun>>

CallBack(k, rs) ==
  /\ delivered' = [delivered EXCEPT ![k] = rs]
  /\ calls' = [calls EXCEPT ![k] = @ + 1]

(***************************************************************************)
(* The callback of k returns, or throws, as the tracker's does for a       *)
(* request that was erased.  The responses were swapped out for it, and    *)
(* if it throws the rest of submit or complete is not reached.             *)
(***************************************************************************)
Returns == UNCHANGED <<raised, thrown>>

Raises(k, id) ==
  /\ raised' = raised \cup {k} /\ thrown' = thrown \cup {k}
  /\ responses' = [responses EXCEPT ![id] = <<>>]

\* erase(id), for an id the application was given.
Erase(id) ==
  /\ Idle
  /\ \E k \in 1 .. submitted : id_of[k] = id
  /\ requests' = Without(requests, id)
  /\ responses' = Without(responses, id)
  /\ erased' = erased \cup {requests[i] : i \in DOMAIN requests \cap {id}}
  /\ UNCHANGED <<setVars, fetchVars, syncVars, throttled, outVars, thrown, overrun>>

----------------------------------------------------------------------------
(***************************************************************************)
(* SynchronousHTTPClient::submit runs every request before it returns.  It *)
(* ignores whether the requests were inserted: if the id is in use, it     *)
(* goes on with the requests that are there.                               *)
(***************************************************************************)
SyncSubmit(k, n) ==
  /\ client = "sync"
  /\ Submitting(k, n)
  /\ requests' = Emplace(requests, NewId, k)
  /\ NewId \notin DOMAIN responses
  /\ responses' = Emplace(responses, NewId, HTTPResponses(n))
  /\ running' = k /\ answered' = 0 /\ attempts' = max_attempts
  /\ UNCHANGED <<fetchVars, throttled, outVars, thrown, erased, overrun>>

SyncCollides(k, n) ==
  /\ client = "sync"
  /\ Submitting(k, n)
  /\ requests' = Emplace(requests, NewId, k)
  /\ NewId \in DOMAIN responses
  /\ UNCHANGED responses
  /\ Collides(k)

Current == requests[id_of[running]]

Executing == running # None /\ ~overrun /\ answered < size[Current]

\* The exception leaves submit; both sets stay in the maps.
Throw ==
  /\ running' = None
  /\ thrown' = thrown \cup {running}
  /\ UNCHANGED <<setVars, requests, fetchVars, answered, outVars, erased>>

\* execute_synchronous, one attempt: 429 with a usable Retry-After.
SyncRetry ==
  /\ Executing
  /\ attempts > 0 /\ throttled < Max429
  /\ attempts' = attempts - 1
  /\ throttled' = throttled + 1
  /\ UNCHANGED <<setVars, mapVars, fetchVars, running, answered, outVars, thrown, erased, overrun>>

\* No attempt left; or a libcurl error.
SyncGivesUp ==
  /\ Executing
  /\ Throw
  /\ UNCHANGED <<responses, attempts, throttled, overrun>>

\* Mutant: execution goes on whatever the status.
SyncAnswerUnchecked(a) ==
  /\ Executing
  /\ attempts > 0
  /\ responses' = [responses EXCEPT ![id_of[running]] =
       [i \in DOMAIN @ |-> IF i = answered + 1 THEN [from |-> Current, answer |-> a] ELSE @[i]]]
  /\ overrun' = (answered + 1 > Len(responses[id_of[running]]))
  /\ answered' = answered + 1 /\ attempts' = max_attempts
  /\ UNCHANGED <<setVars, requests, fetchVars, running, throttled, outVars, thrown, erased>>

\* An answer that is not retried is stored, and must have status 200.
SyncAnswer(a) ==
  /\ Executing
  /\ attempts > 0
  /\ responses' = [responses EXCEPT ![id_of[running]] =
       [i \in DOMAIN @ |-> IF i = answered + 1 THEN [from |-> Current, answer |-> a] ELSE @[i]]]
  /\ overrun' = (answered + 1 > Len(responses[id_of[running]]))
  /\ attempts' = max_attempts
  /\ IF a.status = 200
     THEN /\ answered' = answered + 1
          /\ UNCHANGED <<setVars, requests, fetchVars, running, outVars, thrown, erased>>
     ELSE Throw
  /\ UNCHANGED throttled

\* Mutant: the response set stays when submit returns.
SyncReturnKeepsSet ==
  /\ running # None /\ ~overrun
  /\ answered = size[Current]
  /\ CallBack(running, responses[id_of[running]])
  /\ responses' = [responses EXCEPT ![id_of[running]] = <<>>]
  /\ Returns
  /\ running' = None
  /\ UNCHANGED <<setVars, requests, fetchVars, answered, attempts, throttled, erased, overrun>>

\* All requests are answered.  The requests stay in the map, and the
\* responses, too, if the callback throws; then so does submit.
SyncReturn ==
  /\ running # None /\ ~overrun
  /\ answered = size[Current]
  /\ CallBack(running, responses[id_of[running]])
  /\ \/ Returns /\ responses' = Without(responses, id_of[running])
     \/ Raises(running, id_of[running])
  /\ running' = None
  /\ UNCHANGED <<setVars, requests, fetchVars, answered, attempts, throttled, erased, overrun>>

----------------------------------------------------------------------------
(***************************************************************************)
(* FetchTracker.                                                           *)
(***************************************************************************)
FetchSubmit(k, n) ==
  /\ client = "fetch"
  /\ Submitting(k, n)
  /\ NewId \notin DOMAIN requests
  /\ requests' = Emplace(requests, NewId, k)
  /\ responses' = Emplace(responses, NewId, HTTPResponses(n))
  /\ fetches' = fetches \cup ({k} \X (1 .. n))
  /\ inflight' = inflight \cup ({k} \X (1 .. n))
  /\ UNCHANGED <<syncVars, throttled, outVars, thrown, erased, overrun>>

FetchCollides(k, n) ==
  /\ client = "fetch"
  /\ Submitting(k, n)
  /\ NewId \in DOMAIN requests
  /\ UNCHANGED mapVars
  /\ Collides(k)

\* The browser ends a fetch, which calls complete with the id of its set.
Completes(k, i) ==
  /\ <<k, i>> \in inflight
  /\ UNCHANGED <<setVars, syncVars, erased, overrun>>

\* The set is gone.
CompleteUnknown(k, i) ==
  /\ Completes(k, i)
  /\ id_of[k] \notin DOMAIN requests
  /\ inflight' = inflight \ {<<k, i>>}
  /\ UNCHANGED <<mapVars, fetches, throttled, outVars, thrown>>

\* The submission that has the id now has no such request: reqs.at(i) throws.
CompleteOutOfRange(k, i) ==
  /\ Completes(k, i)
  /\ id_of[k] \in DOMAIN requests
  /\ i > size[requests[id_of[k]]]
  /\ inflight' = inflight \ {<<k, i>>}
  /\ UNCHANGED <<mapVars, fetches, throttled, outVars, thrown>>

InRange(k, i) ==
  /\ Completes(k, i)
  /\ id_of[k] \in DOMAIN requests
  /\ i <= size[requests[id_of[k]]]

\* complete's resize, of a set whose callback threw: new responses are empty.
Resized(id) ==
  [j \in 1 .. size[requests[id]] |->
     IF j <= Len(responses[id]) THEN responses[id][j] ELSE NoResponse]

(***************************************************************************)
(* must_retry looks for Retry-After in the response, not in the fetch: an  *)
(* earlier answer must have put it there, or get_header_data throws.       *)
(***************************************************************************)
CompleteRetry(k, i) ==
  LET id == id_of[k]
      rs == Resized(id) IN
  /\ InRange(k, i)
  /\ throttled < Max429 /\ throttled' = throttled + 1
  /\ IF rs[i].answer.retry_after
     THEN /\ responses' = [responses EXCEPT ![id] = [rs EXCEPT ![i].answer = NoResponse.answer]]
          /\ fetches' = fetches \cup {<<requests[id], i>>}
          /\ UNCHANGED <<inflight, thrown>>
     ELSE /\ inflight' = inflight \ {<<k, i>>}
          /\ thrown' = thrown \cup {requests[id]}
          /\ responses' = [responses EXCEPT ![id] = rs]
          /\ UNCHANGED fetches
  /\ UNCHANGED <<requests, outVars>>

\* Mutant: completeness is tested before the fetch is cleared.
IsCompleteBefore(k) == \A i \in 1 .. size[k] : <<k, i>> \notin fetches

IsComplete(k) == \A i \in 1 .. size[k] : <<k, i>> \notin fetches'

\* Mutant: the set stays in the maps.
FinishKeepsSet(id, rs) ==
  /\ CallBack(requests[id], rs)
  /\ responses' = [responses EXCEPT ![id] = rs]
  /\ Returns
  /\ UNCHANGED requests

\* The callback, and then the set is dropped, unless the callback throws.
Finish(id, rs) ==
  /\ CallBack(requests[id], rs)
  /\ \/ /\ Returns
        /\ requests' = Without(requests, id) /\ responses' = Without(responses, id)
     \/ Raises(requests[id], id) /\ UNCHANGED requests

CompleteStore(k, i, a) ==
  LET id == id_of[k]
      owner == requests[id]
      rs == [Resized(id) EXCEPT ![i] = [from |-> k, answer |->
               [a EXCEPT !.retry_after = a.retry_after \/ Resized(id)[i].answer.retry_after]]] IN
  /\ InRange(k, i)
  /\ inflight' = inflight \ {<<k, i>>}
  /\ fetches' = fetches \ {<<owner, i>>}
  /\ IF IsComplete(owner)
     THEN Finish(id, rs)
     ELSE responses' = [responses EXCEPT ![id] = rs] /\ UNCHANGED <<requests, outVars, thrown>>
  /\ UNCHANGED throttled

----------------------------------------------------------------------------
\* The synchronous client also gets 429 without a usable Retry-After.
SyncAnswers == {[status |-> s, retry_after |-> FALSE] : s \in {200, 429}}

\* A fetch that ends without an answer has status 0, which complete treats
\* like 200.  A 503 may say when to retry, which complete stores.
FetchAnswers == {[status |-> s, retry_after |-> s = 503] : s \in {0, 503}}

SyncStep == SyncRetry \/ SyncGivesUp \/ SyncReturn \/ \E a \in SyncAnswers : SyncAnswer(a)

FetchEnds(k, i) ==
  \/ CompleteUnknown(k, i) \/ CompleteOutOfRange(k, i) \/ CompleteRetry(k, i)
  \/ \E a \in FetchAnswers : CompleteStore(k, i, a)

Next ==
  \/ \E k \in Set, n \in Sizes : SyncSubmit(k, n) \/ SyncCollides(k, n)
  \/ \E k \in Set, n \in Sizes : FetchSubmit(k, n) \/ FetchCollides(k, n)
  \/ SyncStep
  \/ \E k \in Set, i \in Index : FetchEnds(k, i)
  \/ \E id \in HTTPRequestSetId : Erase(id)

Spec == Init /\ [][Next]_vars

(***************************************************************************)
(* A synchronous submission runs to its end, and the browser ends every    *)
(* fetch: with an answer, an error or a timeout.                           *)
(***************************************************************************)
FairSpec ==
  /\ Spec
  /\ WF_vars(SyncStep)
  /\ \A k \in Set, i \in Index : WF_vars(FetchEnds(k, i))

----------------------------------------------------------------------------
(***************************************************************************)
(* A callback receives an answer to each request of its own submission,    *)
(* with status 200 in the synchronous client, unless the submission was    *)
(* given an id that was in use; and that takes an application that erases. *)
(***************************************************************************)
DeliveredOwn ==
  /\ (\E k \in shared : calls[k] > 0) => erased # {}
  /\ \A k \in Set \ shared :
       calls[k] > 0 =>
         /\ Len(delivered[k]) = size[k]
         /\ \A i \in 1 .. size[k] : /\ delivered[k][i].from = k
                                    /\ client = "sync" => delivered[k][i].answer.status = 200

(***************************************************************************)
(* No submission is called back twice, not even when a late fetch of an    *)
(* erased set completes it, except that in the fetch client a callback     *)
(* that threw is called again by such a fetch.  A synchronous submit that  *)
(* threw has called back only if it is the callback that threw.            *)
(***************************************************************************)
CalledOnce ==
  \A k \in Set :
    /\ calls[k] > 1 => client = "fetch" /\ k \in shared \cap raised
    /\ client = "sync" /\ k \in thrown => (calls[k] = 1 <=> k \in raised)

(***************************************************************************)
(* complete never reaches "response set not found", and the resize only    *)
(* for a set whose callback threw: in the fetch client the maps have the   *)
(* same ids, and a set in the map has a response for each of its requests  *)
(* and waits for a fetch (its own, or one of an erased set that was sent   *)
(* again for it), unless it has no requests or its retry or its callback   *)
(* threw.  In the last case it waits for none, and nothing but an erase or *)
(* the late fetch of an erased set will ever drop it.  Between             *)
(* submissions, the synchronous client keeps responses only for an id      *)
(* whose submission threw.                                                 *)
(***************************************************************************)
SetsPaired ==
  /\ client = "fetch" =>
       /\ DOMAIN requests = DOMAIN responses
       /\ \A id \in DOMAIN requests :
            LET k == requests[id] IN
            /\ id_of[k] = id
            /\ k \notin raised => Len(responses[id]) = size[k]
            /\ k \in raised =>
                 /\ \A i \in 1 .. size[k] : <<k, i>> \notin fetches
                 /\ \A f \in inflight : id_of[f[1]] = id => k \in shared
            /\ \/ size[k] = 0 \/ k \in thrown
               \/ \E i \in 1 .. size[k], l \in Set :
                    <<k, i>> \in fetches /\ <<l, i>> \in inflight /\ id_of[l] = id
  /\ client = "sync" /\ Idle =>
       \A id \in DOMAIN responses :
         id \in DOMAIN requests /\ \E k \in thrown : id_of[k] = id

(***************************************************************************)
(* Every submission comes to an end: its callback is invoked or its submit *)
(* throws, whatever the server answers.  In the fetch client there are two *)
(* ways out: a 429 throws in the browser's callback and leaves the set in  *)
(* the map for ever, and a set without requests waits for a fetch that     *)
(* nobody makes.                                                           *)
(***************************************************************************)
SubmissionsSettle ==
  \A k \in Set :
    submitted >= k ~> calls[k] > 0 \/ k \in thrown \/ k \in erased \/ overrun
                      \/ (client = "fetch" /\ size[k] = 0)
=============================================================================
