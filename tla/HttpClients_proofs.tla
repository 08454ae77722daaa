------------------------- MODULE HttpClients_proofs -------------------------
(***************************************************************************)
(* Proofs about HttpClients: what the synchronous and the fetch client     *)
(* keep in their maps and hand to the callbacks, for any number of         *)
(* submissions and requests, and for applications that erase sets at will. *)
(***************************************************************************)
EXTENDS HttpClients, TLAPS, FiniteSetTheorems

(***************************************************************************)
(* The types, with the domains of the maps spelled out.                    *)
(***************************************************************************)
MapTypes ==
  /\ requests \in [DOMAIN requests -> Set] /\ DOMAIN requests \subseteq HTTPRequestSetId
  /\ responses \in [DOMAIN responses -> Seq(Response)]
  /\ DOMAIN responses \subseteq HTTPRequestSetId
  /\ \A id \in DOMAIN responses : Len(responses[id]) \in Sizes \cup {0}

SetTypes ==
  /\ client \in Clients
  /\ submitted \in 0 .. MaxSets
  /\ size \in [Set -> Sizes \cup {0}]
  /\ id_of \in [Set -> HTTPRequestSetId]

OutTypes ==
  /\ delivered \in [Set -> Seq(Response)]
  /\ \A k \in Set : Len(delivered[k]) \in Sizes \cup {0}
  /\ calls \in [Set -> Nat]
  /\ raised \subseteq thrown /\ thrown \subseteq Set
  /\ erased \subseteq Set /\ shared \subseteq Set

ProgressTypes ==
  /\ fetches \subseteq Set \X Index /\ inflight \subseteq Set \X Index
  /\ running \in Set \cup {None}
  /\ answered \in Nat /\ attempts \in 0 .. max_attempts
  /\ throttled \in 0 .. Max429
  /\ overrun \in BOOLEAN

TypeInv == MapTypes /\ SetTypes /\ OutTypes /\ ProgressTypes

(***************************************************************************)
(* A set in the map is under the id it was given; a submission that is     *)
(* still to come has left no trace; a second call back takes a late fetch  *)
(* and a callback that threw.                                              *)
(***************************************************************************)
IdInv(id) == requests[id] <= submitted /\ id_of[requests[id]] = id

SubmissionInv(k) ==
  /\ calls[k] > 1 => client = "fetch" /\ k \in shared /\ k \in raised
  /\ k \in raised => calls[k] > 0
  /\ k > submitted =>
       /\ calls[k] = 0 /\ k \notin thrown /\ k \notin shared
       /\ \A i \in Index : <<k, i>> \notin fetches /\ <<k, i>> \notin inflight

SetInv ==
  /\ \A id \in DOMAIN requests : IdInv(id)
  /\ \A k \in Set : SubmissionInv(k)

(***************************************************************************)
(* The synchronous client.  The running submission is the last one; its    *)
(* answers so far are to the requests in the map, which are its own unless *)
(* its id was in use.                                                      *)
(***************************************************************************)
RunningInv ==
  /\ running = submitted /\ calls[running] = 0 /\ running \notin thrown
  /\ id_of[running] \in DOMAIN requests /\ id_of[running] \in DOMAIN responses
  /\ Len(responses[id_of[running]]) = size[running]
  /\ answered <= size[Current]
  /\ \A i \in 1 .. size[running] :
       i <= answered => /\ responses[id_of[running]][i].from = Current
                        /\ responses[id_of[running]][i].answer.status = 200
  /\ running \notin shared => Current = running

LeftInv(id) ==
  /\ id \in DOMAIN requests
  /\ (running # None /\ id = id_of[running]) \/ \E k \in thrown : id_of[k] = id

SyncInv ==
  client = "sync" =>
    /\ fetches = {} /\ inflight = {}
    /\ running # None => RunningInv
    /\ \A id \in DOMAIN responses : LeftInv(id)
    /\ \A k \in Set : calls[k] = 1 /\ k \in thrown => k \in raised
    /\ erased = {} => shared = {} /\ DOMAIN requests = 0 .. submitted - 1

(***************************************************************************)
(* The fetch client.  A set in the map has a fetch, and each of its        *)
(* fetches is with the browser, perhaps as one of an erased set that had   *)
(* the same id.  If the id was not in use, it is its own, and what is      *)
(* stored for the others is, too.  A set whose callback threw has neither  *)
(* fetches nor answers.                                                    *)
(***************************************************************************)
WaitInv(id) ==
  LET k == requests[id] IN
  /\ k \notin raised => Len(responses[id]) = size[k] /\ calls[k] = 0
  /\ k \notin thrown =>
       /\ size[k] # 0 => \E i \in 1 .. size[k] : <<k, i>> \in fetches
       /\ \A i \in 1 .. size[k] :
            <<k, i>> \in fetches => \E l \in Set : <<l, i>> \in inflight /\ id_of[l] = id

UnsharedInv(id) ==
  LET k == requests[id] IN
  k \notin shared =>
    /\ \A l \in Set, i \in Index :
         <<l, i>> \in inflight /\ id_of[l] = id => l = k /\ <<l, i>> \in fetches
    /\ k \notin raised =>
         \A i \in 1 .. size[k] : <<k, i>> \notin fetches => responses[id][i].from = k

RaisedInv(id) ==
  LET k == requests[id] IN
  k \in raised =>
    /\ \A i \in Index : <<k, i>> \notin fetches
    /\ \A j \in 1 .. Len(responses[id]) : responses[id][j] = NoResponse

EntryInv(id) == WaitInv(id) /\ UnsharedInv(id) /\ RaisedInv(id)

\* Without erase, the browser only has fetches of sets in the map.
CurrentInv(k, i) ==
  <<k, i>> \in inflight =>
    id_of[k] \in DOMAIN requests /\ requests[id_of[k]] = k /\ <<k, i>> \in fetches

FetchInv ==
  client = "fetch" =>
    /\ running = None
    /\ DOMAIN requests = DOMAIN responses
    /\ \A k \in Set, i \in Index : <<k, i>> \in fetches => i <= size[k]
    /\ \A id \in DOMAIN requests : EntryInv(id)
    /\ erased = {} =>
         /\ \A k \in Set, i \in Index : CurrentInv(k, i)
         /\ \A k \in shared : calls[k] = 0 /\ \A id \in DOMAIN requests : requests[id] # k

\* What was delivered.
DeliveredInv(k) ==
  calls[k] > 0 /\ k \notin shared =>
    /\ Len(delivered[k]) = size[k]
    /\ \A i \in 1 .. size[k] : /\ delivered[k][i].from = k
                               /\ client = "sync" => delivered[k][i].answer.status = 200

OwnInv == \A k \in Set : DeliveredInv(k)

HttpInv == TypeInv /\ SetInv /\ SyncInv /\ FetchInv /\ OwnInv

----------------------------------------------------------------------------
(***************************************************************************)
(* Facts about the operators of the model.                                 *)
(***************************************************************************)

\* A new vector of responses.
LEMMA NewResponses ==
  ASSUME NEW n \in Sizes
  PROVE  HTTPResponses(n) \in Seq(Response) /\ Len(HTTPResponses(n)) = n
<1>1. n \in Nat
  BY HttpAssumption
<1>2. NoResponse \in Response
  BY DEF NoResponse, Response, Answer
<1> QED BY <1>1, <1>2 DEF HTTPResponses

\* The requests of a set of one of the sizes have an index.
LEMMA IndexFacts ==
  ASSUME NEW n \in Sizes
  PROVE  n \in Nat /\ 1 .. n \subseteq Index
BY HttpAssumption DEF Index

\* The number of sets in the map is an id, since each was submitted.
LEMMA NewIdFacts ==
  ASSUME TypeInv, SetInv, submitted < MaxSets
  PROVE  /\ NewId \in HTTPRequestSetId
         /\ DOMAIN requests = 0 .. submitted - 1 => NewId = submitted
<1> DEFINE owner == [id \in DOMAIN requests |-> requests[id]]
<1>1. submitted \in Nat /\ MaxSets \in Nat
  BY HttpAssumption DEF TypeInv, SetTypes
<1>2. \A id \in DOMAIN requests : requests[id] \in 1 .. submitted /\ id_of[requests[id]] = id
  BY <1>1 DEF TypeInv, MapTypes, SetInv, IdInv, Set
<1>3. owner \in Injection(DOMAIN requests, 1 .. submitted)
  <2>1. owner \in [DOMAIN requests -> 1 .. submitted]
    BY <1>2
  <2>2. \A i, j \in DOMAIN requests : owner[i] = owner[j] => i = j
    BY <1>2
  <2> QED BY <2>1, <2>2 DEF Injection, IsInjective
<1>4. IsFiniteSet(1 .. submitted) /\ Cardinality(1 .. submitted) = submitted
  BY <1>1, FS_Interval
<1>5. IsFiniteSet(DOMAIN requests) /\ Cardinality(DOMAIN requests) <= submitted
  BY <1>3, <1>4, FS_Injection
<1>6. Cardinality(DOMAIN requests) \in Nat
  BY <1>5, FS_CardinalityType
<1>7. Cardinality(0 .. submitted - 1) = submitted
  BY <1>1, FS_Interval
<1> QED BY <1>1, <1>5, <1>6, <1>7 DEF NewId, HTTPRequestSetId

\* What every submission does.
LEMMA SubmitFacts ==
  ASSUME HttpInv, NEW k \in Set, NEW n \in Sizes, Submitting(k, n)
  PROVE  /\ running = None /\ ~overrun /\ NewId \in HTTPRequestSetId
         /\ submitted \in Nat /\ k = submitted + 1 /\ submitted' = k
         /\ SetTypes' /\ client' = client
         /\ size'[k] = n /\ id_of'[k] = NewId
         /\ \A l \in Set : l # k => size'[l] = size[l] /\ id_of'[l] = id_of[l]
         /\ shared \subseteq shared' /\ shared' \subseteq shared \cup {k} /\ shared' \subseteq Set
         /\ k \in shared' <=> InUse(NewId)
         /\ \A id \in DOMAIN requests : requests[id] # k
<1>1. /\ running = None /\ ~overrun /\ submitted < MaxSets /\ k = submitted + 1
      /\ submitted' = k /\ client' = client
      /\ size' = [size EXCEPT ![k] = n] /\ id_of' = [id_of EXCEPT ![k] = NewId]
      /\ shared' = IF InUse(NewId) THEN shared \cup {k} ELSE shared
  BY DEF Submitting, Idle
<1>2. submitted \in Nat /\ MaxSets \in Nat
  BY HttpAssumption DEF HttpInv, TypeInv, SetTypes
<1>3. NewId \in HTTPRequestSetId
  BY <1>1, NewIdFacts DEF HttpInv
<1>4. SetTypes'
  BY <1>1, <1>2, <1>3 DEF HttpInv, TypeInv, SetTypes, Set
<1>5. k \notin shared /\ shared \subseteq Set
  BY <1>1, <1>2 DEF HttpInv, TypeInv, OutTypes, SetInv, SubmissionInv
<1>6. \A id \in DOMAIN requests : requests[id] # k
  BY <1>1, <1>2 DEF HttpInv, TypeInv, MapTypes, Set, SetInv, IdInv
<1>7. /\ size'[k] = n /\ id_of'[k] = NewId
      /\ \A l \in Set : l # k => size'[l] = size[l] /\ id_of'[l] = id_of[l]
  BY <1>1 DEF HttpInv, TypeInv, SetTypes
<1>8. /\ shared \subseteq shared' /\ shared' \subseteq shared \cup {k} /\ shared' \subseteq Set
      /\ k \in shared' <=> InUse(NewId)
  BY <1>1, <1>5
<1> QED BY <1>1, <1>2, <1>3, <1>4, <1>6, <1>7, <1>8

\* The responses complete goes on with: those of the set, or after a callback
\* that threw new ones.
LEMMA ResizedFacts ==
  ASSUME HttpInv, client = "fetch", NEW d \in DOMAIN requests, NEW o, o = requests[d]
  PROVE  /\ Resized(d) \in Seq(Response) /\ Len(Resized(d)) = size[o]
         /\ size[o] \in Nat /\ size[o] \in Sizes \cup {0}
         /\ o \notin raised => \A j \in 1 .. size[o] : Resized(d)[j] = responses[d][j]
         /\ o \in raised => \A j \in 1 .. size[o] : Resized(d)[j] = NoResponse
<1>1. /\ d \in DOMAIN responses /\ o \in Set /\ WaitInv(d) /\ RaisedInv(d)
      /\ responses[d] \in Seq(Response)
  BY DEF HttpInv, TypeInv, MapTypes, FetchInv, EntryInv
<1>2. size[o] \in Nat /\ size[o] \in Sizes \cup {0}
  <2>1. size \in [Set -> Sizes \cup {0}]
    BY DEF HttpInv, TypeInv, SetTypes
  <2>2. \A m \in Sizes \cup {0} : m \in Nat
    BY HttpAssumption
  <2> QED BY <1>1, <2>1, <2>2
<1>3. NoResponse \in Response
  BY DEF NoResponse, Response, Answer
<1>4. /\ Resized(d) = [j \in 1 .. size[o] |->
                         IF j <= Len(responses[d]) THEN responses[d][j] ELSE NoResponse]
      /\ Len(responses[d]) \in Nat
  BY <1>1 DEF Resized
<1>5. \A j \in 1 .. size[o] : j <= Len(responses[d]) => j \in 1 .. Len(responses[d])
  BY <1>2, <1>4
<1>6. Resized(d) \in Seq(Response) /\ Len(Resized(d)) = size[o]
  <2>1. \A j \in 1 .. Len(responses[d]) : responses[d][j] \in Response
    BY <1>1
  <2>2. Resized(d) \in [1 .. size[o] -> Response]
    BY <1>3, <1>4, <1>5, <2>1
  <2> QED BY <1>2, <2>2
<1>7. o \notin raised => \A j \in 1 .. size[o] : Resized(d)[j] = responses[d][j]
  <2>1. o \notin raised => Len(responses[d]) = size[o]
    BY <1>1 DEF WaitInv
  <2>2. \A j \in 1 .. size[o] : j <= size[o]
    BY <1>2
  <2> QED BY <1>4, <2>1, <2>2
<1>8. o \in raised => \A j \in 1 .. size[o] : Resized(d)[j] = NoResponse
  BY <1>1, <1>4, <1>5 DEF RaisedInv
<1> QED BY <1>2, <1>6, <1>7, <1>8

\* Storing the requests of a new submission, if its id is not in use.
LEMMA StoredRequests ==
  ASSUME HttpInv, NEW k \in Set, NEW n \in Sizes, Submitting(k, n),
         requests' = Emplace(requests, NewId, k)
  PROVE  /\ requests' \in [DOMAIN requests' -> Set]
         /\ DOMAIN requests' = DOMAIN requests \cup {NewId}
         /\ DOMAIN requests' \subseteq HTTPRequestSetId
         /\ \A id \in DOMAIN requests : requests'[id] = requests[id]
         /\ NewId \notin DOMAIN requests => requests'[NewId] = k
         /\ \A id \in DOMAIN requests' : IdInv(id)'
<1>1. /\ DOMAIN requests' = DOMAIN requests \cup {NewId}
      /\ requests' \in [DOMAIN requests \cup {NewId} -> Set]
      /\ \A id \in DOMAIN requests : requests'[id] = requests[id]
      /\ NewId \notin DOMAIN requests => requests'[NewId] = k
  <2>1. requests \in [DOMAIN requests -> Set]
    BY DEF HttpInv, TypeInv, MapTypes
  <2> QED BY <2>1 DEF Emplace
<1>2. DOMAIN requests' \subseteq HTTPRequestSetId
  BY <1>1, SubmitFacts DEF HttpInv, TypeInv, MapTypes
<1>3. ASSUME NEW id \in DOMAIN requests' PROVE IdInv(id)'
  <2>1. CASE id \in DOMAIN requests
    <3>1. IdInv(id) /\ requests'[id] = requests[id] /\ requests[id] \in Set /\ requests[id] # k
      BY <2>1, <1>1, SubmitFacts DEF HttpInv, SetInv, TypeInv, MapTypes
    <3> QED BY <3>1, SubmitFacts DEF IdInv, Set
  <2>2. CASE id \notin DOMAIN requests
    <3>1. id = NewId /\ requests'[id] = k
      BY <2>2, <1>1, <1>3
    <3> QED BY <3>1, SubmitFacts DEF IdInv, Set
  <2> QED BY <2>1, <2>2
<1> QED BY <1>1, <1>2, <1>3

\* The invariant of the submissions, when only a submission is added.
LEMMA AnotherSubmission ==
  ASSUME HttpInv, NEW k \in Set, NEW n \in Sizes, Submitting(k, n),
         UNCHANGED <<calls, raised>>, thrown' \subseteq thrown \cup {k},
         fetches' \subseteq fetches \cup ({k} \X (1 .. n)),
         inflight' \subseteq inflight \cup ({k} \X (1 .. n))
  PROVE  \A l \in Set : SubmissionInv(l)'
<1> SUFFICES ASSUME NEW l \in Set PROVE SubmissionInv(l)'
  OBVIOUS
<1>1. SubmissionInv(l) /\ submitted \in Nat /\ submitted' = submitted + 1 /\ k = submitted + 1
  BY SubmitFacts DEF HttpInv, SetInv
<1>2. /\ calls'[l] > 1 => client' = "fetch" /\ l \in shared' /\ l \in raised'
      /\ l \in raised' => calls'[l] > 0
  BY <1>1, SubmitFacts DEF SubmissionInv
<1>3. ASSUME l > submitted'
      PROVE  /\ calls'[l] = 0 /\ l \notin thrown' /\ l \notin shared'
             /\ \A i \in Index : <<l, i>> \notin fetches' /\ <<l, i>> \notin inflight'
  <2>1. l > submitted /\ l # k
    BY <1>1, <1>3 DEF Set
  <2>2. calls'[l] = 0 /\ l \notin thrown' /\ l \notin shared'
    BY <2>1, <1>1, SubmitFacts DEF SubmissionInv
  <2>3. \A i \in Index : <<l, i>> \notin fetches' /\ <<l, i>> \notin inflight'
    BY <2>1, <1>1 DEF SubmissionInv
  <2> QED BY <2>2, <2>3
<1> QED BY <1>2, <1>3 DEF SubmissionInv

\* Nothing is delivered by a submission.
LEMMA NothingDelivered ==
  ASSUME HttpInv, NEW k \in Set, NEW n \in Sizes, Submitting(k, n), UNCHANGED outVars
  PROVE  OwnInv'
<1> SUFFICES ASSUME NEW l \in Set, calls[l] > 0, l \notin shared PROVE DeliveredInv(l)'
  BY SubmitFacts DEF OwnInv, DeliveredInv, outVars
<1>1. l # k
  BY SubmitFacts DEF HttpInv, SetInv, SubmissionInv
<1>2. DeliveredInv(l) /\ size'[l] = size[l] /\ client' = client
  BY <1>1, SubmitFacts DEF HttpInv, OwnInv
<1> QED BY <1>2 DEF DeliveredInv, outVars

----------------------------------------------------------------------------
(***************************************************************************)
(* The steps of the synchronous client.                                    *)
(***************************************************************************)

\* A submission starts.
LEMMA SyncSubmitSafe ==
  ASSUME HttpInv, NEW k \in Set, NEW n \in Sizes, SyncSubmit(k, n)
  PROVE  HttpInv'
<1>1. /\ client = "sync" /\ Submitting(k, n)
      /\ requests' = Emplace(requests, NewId, k) /\ NewId \notin DOMAIN responses
      /\ responses' = Emplace(responses, NewId, HTTPResponses(n))
      /\ running' = k /\ answered' = 0 /\ attempts' = max_attempts
      /\ fetches' = fetches /\ inflight' = inflight /\ throttled' = throttled
      /\ delivered' = delivered /\ calls' = calls /\ raised' = raised /\ thrown' = thrown
      /\ erased' = erased /\ overrun' = overrun
  BY DEF SyncSubmit, fetchVars, outVars
<1>2. client' = "sync" /\ "fetch" # "sync"
  BY <1>1, SubmitFacts
<1>3. /\ DOMAIN responses' = DOMAIN responses \cup {NewId}
      /\ responses' \in [DOMAIN responses \cup {NewId} -> Seq(Response)]
      /\ \A id \in DOMAIN responses : responses'[id] = responses[id]
      /\ responses'[NewId] = HTTPResponses(n)
  <2>1. responses \in [DOMAIN responses -> Seq(Response)]
    BY DEF HttpInv, TypeInv, MapTypes
  <2> QED BY <2>1, <1>1, NewResponses DEF Emplace
<1>4. MapTypes'
  <2>1. \A id \in DOMAIN responses' : Len(responses'[id]) \in Sizes \cup {0}
    BY <1>3, NewResponses DEF HttpInv, TypeInv, MapTypes
  <2>2. DOMAIN responses' \subseteq HTTPRequestSetId
    BY <1>1, <1>3, SubmitFacts DEF HttpInv, TypeInv, MapTypes
  <2> QED BY <1>1, <1>3, <2>1, <2>2, StoredRequests DEF MapTypes
<1>5. SetTypes' /\ OutTypes' /\ ProgressTypes'
  <2>1. SetTypes' /\ OutTypes'
    BY <1>1, SubmitFacts DEF HttpInv, TypeInv, OutTypes
  <2>2. ProgressTypes'
    BY <1>1, HttpAssumption DEF HttpInv, TypeInv, ProgressTypes
  <2> QED BY <2>1, <2>2
<1>6. SetInv'
  <2>1. \A id \in DOMAIN requests' : IdInv(id)'
    BY <1>1, StoredRequests
  <2>2. \A l \in Set : SubmissionInv(l)'
    BY <1>1, AnotherSubmission
  <2> QED BY <2>1, <2>2 DEF SetInv
<1>7. SyncInv'
  <2>1. fetches' = {} /\ inflight' = {}
    BY <1>1 DEF HttpInv, SyncInv
  <2>2. RunningInv'
    <3>1. k = submitted' /\ calls'[k] = 0 /\ k \notin thrown'
      BY <1>1, SubmitFacts DEF HttpInv, SetInv, SubmissionInv
    <3>2. NewId \in DOMAIN requests' /\ NewId \in DOMAIN responses'
      BY <1>1, <1>3, StoredRequests
    <3>3. Len(responses'[NewId]) = n
      BY <1>3, NewResponses
    <3>4. Current' = requests'[NewId] /\ requests'[NewId] \in Set
      BY <1>1, <3>2, SubmitFacts, StoredRequests DEF Current
    <3>5. size'[requests'[NewId]] \in Nat /\ n \in Nat
      <4>1. size' \in [Set -> Sizes \cup {0}]
        BY <1>5 DEF SetTypes
      <4>2. n \in Nat /\ \A m \in Sizes \cup {0} : m \in Nat
        BY HttpAssumption
      <4> QED BY <4>1, <4>2, <3>4
    <3>6. k \notin shared' => Current' = k
      BY <1>1, <3>4, SubmitFacts, StoredRequests DEF InUse
    <3>7. id_of'[k] = NewId /\ size'[k] = n
      BY <1>1, SubmitFacts
    <3> QED BY <1>1, <3>1, <3>2, <3>3, <3>4, <3>5, <3>6, <3>7 DEF RunningInv
  <2>3. ASSUME NEW id \in DOMAIN responses' PROVE LeftInv(id)'
    <3>1. CASE id = NewId
      BY <1>1, <3>1, SubmitFacts, StoredRequests DEF LeftInv, Set, None
    <3>2. CASE id # NewId
      <4>1. LeftInv(id) /\ running = None
        BY <3>2, <1>1, <1>3, SubmitFacts DEF HttpInv, SyncInv
      <4>2. PICK l \in thrown : id_of[l] = id
        BY <4>1 DEF LeftInv
      <4>3. l # k /\ l \in Set
        BY <1>1, SubmitFacts DEF HttpInv, TypeInv, OutTypes, SetInv, SubmissionInv
      <4> QED BY <4>1, <4>2, <4>3, <1>1, SubmitFacts, StoredRequests DEF LeftInv
    <3> QED BY <3>1, <3>2
  <2>4. \A l \in Set : calls'[l] = 1 /\ l \in thrown' => l \in raised'
    BY <1>1 DEF HttpInv, SyncInv
  <2>5. erased' = {} => shared' = {} /\ DOMAIN requests' = 0 .. submitted' - 1
    <3>1. SUFFICES ASSUME erased = {}
                   PROVE  shared' = {} /\ DOMAIN requests' = 0 .. submitted' - 1
      BY <1>1
    <3>2. /\ shared = {} /\ DOMAIN requests = 0 .. submitted - 1 /\ inflight = {}
          /\ submitted < MaxSets
      BY <1>1, <3>1 DEF HttpInv, SyncInv, Submitting
    <3>3. NewId = submitted
      BY <3>2, NewIdFacts DEF HttpInv
    <3>4. submitted \in Nat /\ submitted' = submitted + 1
      BY <1>1, SubmitFacts
    <3>5. ~InUse(NewId)
      BY <3>2, <3>3, <3>4 DEF InUse
    <3>6. shared' = {}
      BY <1>1, <3>2, <3>5, SubmitFacts
    <3>7. DOMAIN requests' = (0 .. submitted - 1) \cup {submitted}
      BY <1>1, <3>2, <3>3, StoredRequests
    <3> QED BY <3>4, <3>6, <3>7
  <2> QED BY <1>1, <2>1, <2>2, <2>3, <2>4, <2>5 DEF SyncInv
<1>8. FetchInv'
  BY <1>2 DEF FetchInv
<1>9. OwnInv'
  BY <1>1, NothingDelivered DEF outVars
<1> QED BY <1>4, <1>5, <1>6, <1>7, <1>8, <1>9 DEF HttpInv, TypeInv

\* The id has responses already: the requests stay, submit throws.
LEMMA SyncCollidesSafe ==
  ASSUME HttpInv, NEW k \in Set, NEW n \in Sizes, SyncCollides(k, n)
  PROVE  HttpInv'
<1>1. /\ client = "sync" /\ Submitting(k, n)
      /\ requests' = Emplace(requests, NewId, k) /\ NewId \in DOMAIN responses
      /\ responses' = responses /\ thrown' = thrown \cup {k}
      /\ running' = running /\ answered' = answered /\ attempts' = attempts
      /\ fetches' = fetches /\ inflight' = inflight /\ throttled' = throttled
      /\ delivered' = delivered /\ calls' = calls /\ raised' = raised
      /\ erased' = erased /\ overrun' = overrun
  BY DEF SyncCollides, Collides, fetchVars, outVars, syncVars
<1>2. client' = "sync" /\ "fetch" # "sync" /\ running = None
  BY <1>1, SubmitFacts
<1>3. NewId \in DOMAIN requests
  BY <1>1 DEF HttpInv, SyncInv, LeftInv
<1>4. MapTypes'
  <2>1. /\ responses' \in [DOMAIN responses' -> Seq(Response)]
        /\ DOMAIN responses' \subseteq HTTPRequestSetId
        /\ \A id \in DOMAIN responses' : Len(responses'[id]) \in Sizes \cup {0}
    BY <1>1 DEF HttpInv, TypeInv, MapTypes
  <2> QED BY <1>1, <2>1, StoredRequests DEF MapTypes
<1>5. SetTypes' /\ OutTypes' /\ ProgressTypes'
  <2>1. SetTypes' /\ OutTypes'
    BY <1>1, SubmitFacts DEF HttpInv, TypeInv, OutTypes
  <2>2. ProgressTypes'
    BY <1>1 DEF HttpInv, TypeInv, ProgressTypes
  <2> QED BY <2>1, <2>2
<1>6. SetInv'
  <2>1. \A id \in DOMAIN requests' : IdInv(id)'
    BY <1>1, StoredRequests
  <2>2. \A l \in Set : SubmissionInv(l)'
    BY <1>1, AnotherSubmission
  <2> QED BY <2>1, <2>2 DEF SetInv
<1>7. SyncInv'
  <2>1. fetches' = {} /\ inflight' = {}
    BY <1>1 DEF HttpInv, SyncInv
  <2>2. ASSUME NEW id \in DOMAIN responses' PROVE LeftInv(id)'
    <3>1. LeftInv(id) /\ running = None
      BY <1>1, <1>2 DEF HttpInv, SyncInv
    <3>2. PICK l \in thrown : id_of[l] = id
      BY <3>1 DEF LeftInv
    <3>3. l # k /\ l \in Set
      BY <1>1, SubmitFacts DEF HttpInv, TypeInv, OutTypes, SetInv, SubmissionInv
    <3> QED BY <3>1, <3>2, <3>3, <1>1, SubmitFacts, StoredRequests DEF LeftInv
  <2>3. \A l \in Set : calls'[l] = 1 /\ l \in thrown' => l \in raised'
    BY <1>1, SubmitFacts DEF HttpInv, SyncInv, SetInv, SubmissionInv
  <2>4. erased' # {}
    <3>1. SUFFICES ASSUME erased = {} PROVE FALSE
      BY <1>1
    <3>2. DOMAIN requests = 0 .. submitted - 1 /\ submitted < MaxSets
      BY <1>1, <3>1 DEF HttpInv, SyncInv, Submitting
    <3>3. NewId = submitted
      BY <3>2, NewIdFacts DEF HttpInv
    <3> QED BY <1>1, <1>3, <3>2, <3>3, SubmitFacts
  <2> QED BY <1>1, <1>2, <2>1, <2>2, <2>3, <2>4 DEF SyncInv
<1>8. FetchInv'
  BY <1>2 DEF FetchInv
<1>9. OwnInv'
  BY <1>1, NothingDelivered DEF outVars
<1> QED BY <1>4, <1>5, <1>6, <1>7, <1>8, <1>9 DEF HttpInv, TypeInv

\* A submission runs in the synchronous client only.
LEMMA RunningFacts ==
  ASSUME HttpInv, running # None
  PROVE  /\ client = "sync" /\ RunningInv /\ running \in Set /\ id_of[running] \in HTTPRequestSetId
         /\ Current \in Set /\ size[Current] \in Nat /\ size[running] \in Nat
         /\ fetches = {} /\ inflight = {}
         /\ responses[id_of[running]] \in Seq(Response)
<1>1. client = "sync"
  BY HttpAssumption DEF HttpInv, FetchInv, TypeInv, SetTypes
<1>2. RunningInv /\ fetches = {} /\ inflight = {}
  BY <1>1 DEF HttpInv, SyncInv
<1>3. running \in Set
  BY DEF HttpInv, TypeInv, ProgressTypes
<1>4. /\ Current \in Set /\ id_of[running] \in HTTPRequestSetId
      /\ responses[id_of[running]] \in Seq(Response)
  BY <1>2, <1>3 DEF HttpInv, TypeInv, MapTypes, SetTypes, RunningInv, Current
<1>5. \A l \in Set : size[l] \in Nat
  <2>1. size \in [Set -> Sizes \cup {0}]
    BY DEF HttpInv, TypeInv, SetTypes
  <2>2. \A m \in Sizes \cup {0} : m \in Nat
    BY HttpAssumption
  <2> QED BY <2>1, <2>2
<1> QED BY <1>1, <1>2, <1>3, <1>4, <1>5

\* A step of a running submission that does not call back.
LEMMA SyncStepFrame ==
  ASSUME HttpInv, running # None, UNCHANGED <<setVars, requests, fetchVars, outVars, erased>>,
         thrown \subseteq thrown', thrown' \subseteq thrown \cup {running}
  PROVE  /\ SetTypes' /\ OutTypes' /\ SetInv' /\ FetchInv' /\ OwnInv'
         /\ fetches' = {} /\ inflight' = {}
         /\ requests' \in [DOMAIN requests' -> Set] /\ DOMAIN requests' \subseteq HTTPRequestSetId
         /\ \A l \in Set : calls'[l] = 1 /\ l \in thrown' => l \in raised'
         /\ erased' = {} => shared' = {} /\ DOMAIN requests' = 0 .. submitted' - 1
<1>1. /\ client' = client /\ submitted' = submitted /\ size' = size /\ id_of' = id_of
      /\ shared' = shared /\ requests' = requests /\ fetches' = fetches /\ inflight' = inflight
      /\ delivered' = delivered /\ calls' = calls /\ raised' = raised /\ erased' = erased
  BY DEF setVars, fetchVars, outVars
<1>2. /\ client = "sync" /\ RunningInv /\ running \in Set
      /\ fetches = {} /\ inflight = {}
  BY RunningFacts
<1>3. SetTypes' /\ OutTypes'
  <2>1. SetTypes'
    BY <1>1 DEF HttpInv, TypeInv, SetTypes
  <2>2. OutTypes'
    BY <1>1, <1>2 DEF HttpInv, TypeInv, OutTypes
  <2> QED BY <2>1, <2>2
<1>4. SetInv'
  <2>1. \A id \in DOMAIN requests' : IdInv(id)'
    BY <1>1 DEF HttpInv, SetInv, IdInv
  <2>2. ASSUME NEW l \in Set PROVE SubmissionInv(l)'
    <3>1. SubmissionInv(l) /\ (l = running => ~(l > submitted))
      BY <1>2 DEF HttpInv, SetInv, RunningInv, Set
    <3> QED BY <1>1, <3>1 DEF SubmissionInv
  <2> QED BY <2>1, <2>2 DEF SetInv
<1>5. FetchInv'
  BY <1>1, <1>2 DEF FetchInv
<1>6. OwnInv'
  BY <1>1 DEF HttpInv, OwnInv, DeliveredInv
<1>7. /\ \A l \in Set : calls'[l] = 1 /\ l \in thrown' => l \in raised'
      /\ erased' = {} => shared' = {} /\ DOMAIN requests' = 0 .. submitted' - 1
  <2>1. calls[running] = 0
    BY <1>2 DEF RunningInv
  <2> QED BY <1>1, <1>2, <2>1 DEF HttpInv, SyncInv
<1>8. requests' \in [DOMAIN requests' -> Set] /\ DOMAIN requests' \subseteq HTTPRequestSetId
  BY <1>1 DEF HttpInv, TypeInv, MapTypes
<1> QED BY <1>1, <1>2, <1>3, <1>4, <1>5, <1>6, <1>7, <1>8

\* A request is sent again.
LEMMA SyncRetrySafe ==
  ASSUME HttpInv, SyncRetry
  PROVE  HttpInv'
<1>1. /\ running # None /\ attempts > 0 /\ throttled < Max429
      /\ attempts' = attempts - 1 /\ throttled' = throttled + 1
      /\ UNCHANGED <<setVars, requests, fetchVars, outVars, erased>>
      /\ responses' = responses /\ running' = running /\ answered' = answered
      /\ thrown' = thrown /\ overrun' = overrun
  BY DEF SyncRetry, Executing, mapVars
<1>2. /\ client' = client /\ submitted' = submitted /\ size' = size /\ id_of' = id_of
      /\ shared' = shared /\ requests' = requests /\ fetches' = fetches /\ inflight' = inflight
      /\ calls' = calls /\ raised' = raised
  BY <1>1 DEF setVars, fetchVars, outVars
<1>3. /\ SetTypes' /\ OutTypes' /\ SetInv' /\ FetchInv' /\ OwnInv'
      /\ fetches' = {} /\ inflight' = {}
      /\ \A l \in Set : calls'[l] = 1 /\ l \in thrown' => l \in raised'
      /\ erased' = {} => shared' = {} /\ DOMAIN requests' = 0 .. submitted' - 1
  BY <1>1, SyncStepFrame
<1>4. MapTypes'
  BY <1>1, <1>2 DEF HttpInv, TypeInv, MapTypes
<1>5. ProgressTypes'
  BY <1>1, <1>2, HttpAssumption DEF HttpInv, TypeInv, ProgressTypes
<1>6. SyncInv'
  <2>1. client = "sync" /\ RunningInv
    BY <1>1, RunningFacts
  <2>2. RunningInv'
    BY <1>1, <1>2, <2>1 DEF RunningInv, Current
  <2>3. \A id \in DOMAIN responses' : LeftInv(id)'
    BY <1>1, <1>2, <2>1 DEF HttpInv, SyncInv, LeftInv
  <2> QED BY <1>3, <2>2, <2>3 DEF SyncInv
<1> QED BY <1>3, <1>4, <1>5, <1>6 DEF HttpInv, TypeInv

\* An exception ends the submission; its id keeps its responses.
LEMMA ThrowSafe ==
  ASSUME HttpInv, running # None, Throw, throttled' = throttled,
         attempts' \in 0 .. max_attempts, overrun' \in BOOLEAN,
         responses' \in [DOMAIN responses -> Seq(Response)],
         \A id \in DOMAIN responses : Len(responses'[id]) = Len(responses[id])
  PROVE  HttpInv'
<1>1. /\ running' = None /\ thrown' = thrown \cup {running}
      /\ UNCHANGED <<setVars, requests, fetchVars, outVars, erased>>
      /\ answered' = answered
  BY DEF Throw
<1>2. requests' = requests /\ id_of' = id_of /\ fetches' = fetches /\ inflight' = inflight
  BY <1>1 DEF setVars, fetchVars
<1>3. /\ SetTypes' /\ OutTypes' /\ SetInv' /\ FetchInv' /\ OwnInv'
      /\ fetches' = {} /\ inflight' = {}
      /\ \A l \in Set : calls'[l] = 1 /\ l \in thrown' => l \in raised'
      /\ erased' = {} => shared' = {} /\ DOMAIN requests' = 0 .. submitted' - 1
  BY <1>1, SyncStepFrame
<1>4. MapTypes'
  BY <1>2 DEF HttpInv, TypeInv, MapTypes
<1>5. ProgressTypes'
  BY <1>1, <1>2 DEF HttpInv, TypeInv, ProgressTypes, None
<1>6. \A id \in DOMAIN responses' : LeftInv(id)'
  <2>1. \A id \in DOMAIN responses : LeftInv(id)
    BY RunningFacts DEF HttpInv, SyncInv
  <2> QED BY <1>1, <1>2, <2>1 DEF LeftInv
<1>7. SyncInv'
  BY <1>1, <1>3, <1>6 DEF SyncInv
<1> QED BY <1>3, <1>4, <1>5, <1>7 DEF HttpInv, TypeInv

\* No attempt left, or an error of libcurl.
LEMMA SyncGivesUpSafe ==
  ASSUME HttpInv, SyncGivesUp
  PROVE  HttpInv'
<1>1. /\ running # None /\ Throw /\ responses' = responses /\ attempts' = attempts
      /\ throttled' = throttled /\ overrun' = overrun
  BY DEF SyncGivesUp, Executing
<1>2. /\ attempts \in 0 .. max_attempts /\ overrun \in BOOLEAN
      /\ responses \in [DOMAIN responses -> Seq(Response)]
  BY DEF HttpInv, TypeInv, MapTypes, ProgressTypes
<1>3. /\ attempts' \in 0 .. max_attempts /\ overrun' \in BOOLEAN
      /\ responses' \in [DOMAIN responses -> Seq(Response)]
      /\ \A id \in DOMAIN responses : Len(responses'[id]) = Len(responses[id])
  BY <1>1, <1>2
<1> QED BY <1>1, <1>3, ThrowSafe

\* An answer is stored, and ends the submission unless it has status 200.
LEMMA SyncAnswerSafe ==
  ASSUME HttpInv, NEW a \in SyncAnswers, SyncAnswer(a)
  PROVE  HttpInv'
<1> DEFINE id == id_of[running]
           new == [i \in DOMAIN responses[id] |->
                     IF i = answered + 1 THEN [from |-> Current, answer |-> a] ELSE responses[id][i]]
<1>1. /\ running # None /\ ~overrun /\ answered < size[Current] /\ attempts > 0
      /\ responses' = [responses EXCEPT ![id] = new]
      /\ overrun' = (answered + 1 > Len(responses[id]))
      /\ attempts' = max_attempts /\ throttled' = throttled
      /\ IF a.status = 200
         THEN /\ answered' = answered + 1 /\ running' = running /\ thrown' = thrown
              /\ UNCHANGED <<setVars, requests, fetchVars, outVars, erased>>
         ELSE Throw
  BY DEF SyncAnswer, Executing
<1>2. /\ client = "sync" /\ RunningInv /\ running \in Set /\ Current \in Set
      /\ size[Current] \in Nat /\ size[running] \in Nat /\ responses[id] \in Seq(Response)
      /\ id \in DOMAIN responses
  BY <1>1, RunningFacts DEF RunningInv
<1>3. a \in Answer
  <2>1. PICK s \in {200, 429} : a = [status |-> s, retry_after |-> FALSE]
    BY DEF SyncAnswers
  <2> QED BY <2>1 DEF Answer
<1>4. new \in Seq(Response) /\ Len(new) = Len(responses[id])
  <2>1. [from |-> Current, answer |-> a] \in Response
    BY <1>2, <1>3 DEF Response
  <2> QED BY <1>2, <2>1
<1>5. /\ \A i \in 1 .. Len(responses[id]) : i # answered + 1 => new[i] = responses[id][i]
      /\ \A i \in 1 .. Len(responses[id]) :
           i = answered + 1 => new[i].from = Current /\ new[i].answer = a
  BY <1>2
<1> HIDE DEF new
<1>6. responses \in [DOMAIN responses -> Seq(Response)]
  BY DEF HttpInv, TypeInv, MapTypes
<1>7. /\ responses' \in [DOMAIN responses -> Seq(Response)] /\ DOMAIN responses' = DOMAIN responses
      /\ responses'[id] = new
      /\ \A j \in DOMAIN responses : Len(responses'[j]) = Len(responses[j])
  BY <1>1, <1>2, <1>4, <1>6
<1>8. attempts' \in 0 .. max_attempts /\ overrun' \in BOOLEAN
  BY <1>1, HttpAssumption
<1>9. CASE a.status # 200
  BY <1>1, <1>7, <1>8, <1>9, ThrowSafe
<1>10. CASE a.status = 200
  <2>1. /\ answered' = answered + 1 /\ running' = running /\ thrown' = thrown
        /\ UNCHANGED <<setVars, requests, fetchVars, outVars, erased>>
    BY <1>1, <1>10
  <2>2. /\ client' = client /\ submitted' = submitted /\ size' = size /\ id_of' = id_of
        /\ shared' = shared /\ requests' = requests /\ fetches' = fetches /\ inflight' = inflight
        /\ calls' = calls /\ raised' = raised
    BY <2>1 DEF setVars, fetchVars, outVars
  <2>3. /\ SetTypes' /\ OutTypes' /\ SetInv' /\ FetchInv' /\ OwnInv'
        /\ fetches' = {} /\ inflight' = {}
        /\ \A l \in Set : calls'[l] = 1 /\ l \in thrown' => l \in raised'
        /\ erased' = {} => shared' = {} /\ DOMAIN requests' = 0 .. submitted' - 1
    BY <1>1, <2>1, SyncStepFrame
  <2>4. MapTypes'
    BY <1>7, <2>2 DEF HttpInv, TypeInv, MapTypes
  <2>5. ProgressTypes'
    BY <1>8, <1>1, <2>1, <2>2 DEF HttpInv, TypeInv, ProgressTypes
  <2>6. RunningInv'
    <3>1. id_of'[running'] = id /\ Current' = Current
      BY <2>1, <2>2 DEF Current
    <3>2. answered \in Nat /\ answered' <= size[Current]
      BY <1>1, <1>2, <2>1 DEF HttpInv, TypeInv, ProgressTypes
    <3>3. Len(responses[id]) = size[running]
      BY <1>2 DEF RunningInv
    <3>4. ASSUME NEW i \in 1 .. size[running], i <= answered'
          PROVE  new[i].from = Current /\ new[i].answer.status = 200
      <4>1. CASE i = answered + 1
        BY <4>1, <3>3, <1>5, <1>10
      <4>2. CASE i # answered + 1
        <5>1. i <= answered
          BY <4>2, <3>4, <3>2, <1>2, <2>1
        <5> QED BY <5>1, <4>2, <3>3, <1>5, <1>2 DEF RunningInv
      <4> QED BY <4>1, <4>2
    <3>5. Len(new) = size[running]
      BY <1>4, <3>3
    <3>6. /\ running = submitted /\ calls[running] = 0 /\ running \notin thrown
          /\ id \in DOMAIN requests /\ (running \notin shared => Current = running)
      BY <1>2 DEF RunningInv
    <3> QED BY <1>2, <1>7, <2>1, <2>2, <3>1, <3>2, <3>4, <3>5, <3>6 DEF RunningInv
  <2>7. \A j \in DOMAIN responses' : LeftInv(j)'
    BY <1>2, <1>7, <2>1, <2>2 DEF HttpInv, SyncInv, LeftInv
  <2>8. SyncInv'
    BY <2>3, <2>6, <2>7 DEF SyncInv
  <2> QED BY <2>3, <2>4, <2>5, <2>8 DEF HttpInv, TypeInv
<1> QED BY <1>9, <1>10

\* The callback, and then the responses are dropped, unless it throws.
LEMMA SyncReturnSafe ==
  ASSUME HttpInv, SyncReturn
  PROVE  HttpInv'
<1> DEFINE id == id_of[running]
<1>1. /\ running # None /\ ~overrun /\ answered = size[Current]
      /\ delivered' = [delivered EXCEPT ![running] = responses[id]]
      /\ calls' = [calls EXCEPT ![running] = calls[running] + 1]
      /\ running' = None
      /\ client' = client /\ submitted' = submitted /\ size' = size /\ id_of' = id_of
      /\ shared' = shared /\ requests' = requests /\ fetches' = fetches /\ inflight' = inflight
      /\ answered' = answered /\ attempts' = attempts /\ throttled' = throttled
      /\ erased' = erased /\ overrun' = overrun
      /\ \/ /\ raised' = raised /\ thrown' = thrown /\ responses' = Without(responses, id)
         \/ /\ raised' = raised \cup {running} /\ thrown' = thrown \cup {running}
            /\ responses' = [responses EXCEPT ![id] = <<>>]
  BY DEF SyncReturn, CallBack, Returns, Raises, setVars, fetchVars
<1>2. /\ client = "sync" /\ RunningInv /\ running \in Set /\ Current \in Set
      /\ size[Current] \in Nat /\ size[running] \in Nat /\ responses[id] \in Seq(Response)
      /\ id \in DOMAIN responses /\ fetches = {} /\ inflight = {}
  BY <1>1, RunningFacts DEF RunningInv
<1>3. responses \in [DOMAIN responses -> Seq(Response)]
  BY DEF HttpInv, TypeInv, MapTypes
\* What is left under the id depends on the callback.
<1>4. /\ DOMAIN responses' \subseteq DOMAIN responses
      /\ responses' \in [DOMAIN responses' -> Seq(Response)]
      /\ \A j \in DOMAIN responses' : j # id => responses'[j] = responses[j]
      /\ \A j \in DOMAIN responses' : j = id => running \in thrown' /\ Len(responses'[j]) = 0
  <2>1. CASE responses' = Without(responses, id)
    BY <2>1, <1>3 DEF Without, Restrict
  <2>2. CASE thrown' = thrown \cup {running} /\ responses' = [responses EXCEPT ![id] = <<>>]
    BY <2>2, <1>2, <1>3
  <2> QED BY <1>1, <2>1, <2>2
<1>5. /\ \A l \in Set : l # running => delivered'[l] = delivered[l] /\ calls'[l] = calls[l]
      /\ delivered'[running] = responses[id] /\ calls'[running] = 1
      /\ delivered' \in [Set -> Seq(Response)] /\ calls' \in [Set -> Nat]
  BY <1>1, <1>2 DEF HttpInv, TypeInv, OutTypes, RunningInv
<1>6. MapTypes'
  <2>1. \A j \in DOMAIN responses' : Len(responses'[j]) \in Sizes \cup {0}
    BY <1>4 DEF HttpInv, TypeInv, MapTypes
  <2> QED BY <1>1, <1>4, <2>1 DEF HttpInv, TypeInv, MapTypes
<1>7. /\ raised \subseteq thrown /\ thrown \subseteq Set
      /\ raised' \subseteq thrown' /\ thrown' \subseteq thrown \cup {running}
      /\ raised \subseteq raised' /\ thrown \subseteq thrown'
      /\ \A l \in Set : l # running =>
           (l \in raised' <=> l \in raised) /\ (l \in thrown' <=> l \in thrown)
      /\ running \in thrown' => running \in raised'
  <2>1. raised \subseteq thrown /\ thrown \subseteq Set /\ running \notin thrown
    BY <1>2 DEF HttpInv, TypeInv, OutTypes, RunningInv
  <2> QED BY <1>1, <2>1
<1>8. SetTypes' /\ OutTypes' /\ ProgressTypes'
  <2>1. SetTypes'
    BY <1>1 DEF HttpInv, TypeInv, SetTypes
  <2>2. \A l \in Set : Len(delivered'[l]) \in Sizes \cup {0}
    BY <1>2, <1>5 DEF HttpInv, TypeInv, MapTypes, OutTypes
  <2>3. OutTypes'
    BY <1>1, <1>2, <1>5, <1>7, <2>2 DEF HttpInv, TypeInv, OutTypes
  <2>4. ProgressTypes'
    BY <1>1 DEF HttpInv, TypeInv, ProgressTypes
  <2> QED BY <2>1, <2>3, <2>4
<1>9. SetInv'
  <2>1. \A j \in DOMAIN requests' : IdInv(j)'
    BY <1>1 DEF HttpInv, SetInv, IdInv
  <2>2. ASSUME NEW l \in Set PROVE SubmissionInv(l)'
    <3>1. SubmissionInv(l) /\ (l = running => ~(l > submitted))
      BY <1>2 DEF HttpInv, SetInv, RunningInv, Set
    <3>2. CASE l = running
      BY <3>1, <3>2, <1>1, <1>5 DEF SubmissionInv
    <3>3. CASE l # running
      BY <3>1, <3>3, <1>1, <1>5, <1>7 DEF SubmissionInv
    <3> QED BY <3>2, <3>3
  <2> QED BY <2>1, <2>2 DEF SetInv
<1>10. SyncInv'
  <2>1. ASSUME NEW j \in DOMAIN responses' PROVE LeftInv(j)'
    <3>1. LeftInv(j)
      BY <1>2, <1>4 DEF HttpInv, SyncInv
    <3>2. CASE j = id
      BY <3>1, <3>2, <1>1, <1>4 DEF LeftInv
    <3>3. CASE j # id
      BY <3>1, <3>3, <1>1, <1>7 DEF LeftInv
    <3> QED BY <3>2, <3>3
  <2>2. \A l \in Set : calls'[l] = 1 /\ l \in thrown' => l \in raised'
    BY <1>2, <1>5, <1>7 DEF HttpInv, SyncInv
  <2>3. erased' = {} => shared' = {} /\ DOMAIN requests' = 0 .. submitted' - 1
    BY <1>1, <1>2 DEF HttpInv, SyncInv
  <2> QED BY <1>1, <1>2, <2>1, <2>2, <2>3 DEF SyncInv
<1>11. FetchInv'
  BY <1>1, <1>2 DEF FetchInv
<1>12. OwnInv'
  <2> SUFFICES ASSUME NEW l \in Set PROVE DeliveredInv(l)'
    BY DEF OwnInv
  <2>1. CASE l # running
    BY <2>1, <1>1, <1>5 DEF HttpInv, OwnInv, DeliveredInv
  <2>2. CASE l = running
    <3>1. SUFFICES ASSUME running \notin shared
                   PROVE  /\ Len(responses[id]) = size[running]
                          /\ \A i \in 1 .. size[running] :
                               responses[id][i].from = running /\ responses[id][i].answer.status = 200
      BY <2>2, <1>1, <1>5 DEF DeliveredInv
    <3>2. Current = running /\ answered = size[running] /\ Len(responses[id]) = size[running]
      BY <3>1, <1>1, <1>2 DEF RunningInv
    <3>3. \A i \in 1 .. size[running] : i <= answered
      BY <3>2, <1>2
    <3> QED BY <3>2, <3>3, <1>2 DEF RunningInv
  <2> QED BY <2>1, <2>2
<1> QED BY <1>6, <1>8, <1>9, <1>10, <1>11, <1>12 DEF HttpInv, TypeInv

----------------------------------------------------------------------------
(***************************************************************************)
(* The steps of the fetch client.                                          *)
(***************************************************************************)

\* A submission that is still to come has no fetches.
LEMMA NoFetchYet ==
  ASSUME HttpInv, NEW l \in Set, l > submitted, NEW i
  PROVE  <<l, i>> \notin fetches /\ <<l, i>> \notin inflight
<1>1. SubmissionInv(l) /\ fetches \subseteq Set \X Index /\ inflight \subseteq Set \X Index
  BY DEF HttpInv, SetInv, TypeInv, ProgressTypes
<1>2. <<l, i>> \in fetches \/ <<l, i>> \in inflight => i \in Index
  BY <1>1
<1> QED BY <1>1, <1>2 DEF SubmissionInv

\* A set is stored, and a fetch of each of its requests is handed out.
LEMMA FetchSubmitSafe ==
  ASSUME HttpInv, NEW k \in Set, NEW n \in Sizes, FetchSubmit(k, n)
  PROVE  HttpInv'
<1>1. /\ client = "fetch" /\ Submitting(k, n) /\ NewId \notin DOMAIN requests
      /\ requests' = Emplace(requests, NewId, k)
      /\ responses' = Emplace(responses, NewId, HTTPResponses(n))
      /\ fetches' = fetches \cup ({k} \X (1 .. n))
      /\ inflight' = inflight \cup ({k} \X (1 .. n))
      /\ running' = running /\ answered' = answered /\ attempts' = attempts
      /\ throttled' = throttled /\ delivered' = delivered /\ calls' = calls /\ raised' = raised
      /\ thrown' = thrown /\ erased' = erased /\ overrun' = overrun
  BY DEF FetchSubmit, outVars, syncVars
<1>2. /\ client' = "fetch" /\ running = None /\ NewId \notin DOMAIN responses
      /\ DOMAIN requests = DOMAIN responses
  BY <1>1, SubmitFacts DEF HttpInv, FetchInv
<1>3. /\ DOMAIN responses' = DOMAIN responses \cup {NewId}
      /\ responses' \in [DOMAIN responses \cup {NewId} -> Seq(Response)]
      /\ \A id \in DOMAIN responses : responses'[id] = responses[id]
      /\ responses'[NewId] = HTTPResponses(n)
  <2>1. responses \in [DOMAIN responses -> Seq(Response)]
    BY DEF HttpInv, TypeInv, MapTypes
  <2> QED BY <2>1, <1>1, <1>2, NewResponses DEF Emplace
<1>4. /\ requests' \in [DOMAIN requests' -> Set]
      /\ DOMAIN requests' = DOMAIN requests \cup {NewId}
      /\ DOMAIN requests' \subseteq HTTPRequestSetId
      /\ \A id \in DOMAIN requests : requests'[id] = requests[id]
      /\ requests'[NewId] = k
      /\ \A id \in DOMAIN requests' : IdInv(id)'
  BY <1>1, StoredRequests
<1>5. MapTypes'
  <2>1. \A id \in DOMAIN responses' : Len(responses'[id]) \in Sizes \cup {0}
    BY <1>3, NewResponses DEF HttpInv, TypeInv, MapTypes
  <2> QED BY <1>2, <1>3, <1>4, <2>1 DEF MapTypes
<1>6. SetTypes' /\ OutTypes' /\ ProgressTypes'
  <2>1. SetTypes' /\ OutTypes'
    BY <1>1, SubmitFacts DEF HttpInv, TypeInv, OutTypes
  <2>2. {k} \X (1 .. n) \subseteq Set \X Index
    BY IndexFacts
  <2>3. ProgressTypes'
    BY <1>1, <2>2 DEF HttpInv, TypeInv, ProgressTypes
  <2> QED BY <2>1, <2>3
<1>7. SetInv'
  <2>1. \A l \in Set : SubmissionInv(l)'
    BY <1>1, AnotherSubmission
  <2> QED BY <1>4, <2>1 DEF SetInv
<1>8. /\ submitted \in Nat /\ k > submitted /\ n \in Nat /\ size'[k] = n /\ id_of'[k] = NewId
      /\ \A l \in Set : l # k => size'[l] = size[l] /\ id_of'[l] = id_of[l]
      /\ shared \subseteq shared' /\ shared' \subseteq shared \cup {k}
      /\ k \in shared' <=> InUse(NewId)
      /\ calls[k] = 0 /\ k \notin thrown /\ k \notin raised
      /\ \A id \in DOMAIN requests : requests[id] # k /\ requests[id] \in Set
  <2>1. SubmissionInv(k) /\ raised \subseteq thrown
    BY DEF HttpInv, SetInv, TypeInv, OutTypes
  <2>2. submitted \in Nat /\ k > submitted /\ n \in Nat
    BY <1>1, SubmitFacts, IndexFacts
  <2> QED BY <1>1, <2>1, <2>2, SubmitFacts DEF SubmissionInv, HttpInv, TypeInv, MapTypes
<1>9. \A i : <<k, i>> \notin fetches /\ <<k, i>> \notin inflight
  BY <1>8, NoFetchYet
<1>10. \A l, i : /\ <<l, i>> \in fetches' <=> <<l, i>> \in fetches \/ (l = k /\ i \in 1 .. n)
                 /\ <<l, i>> \in inflight' <=> <<l, i>> \in inflight \/ (l = k /\ i \in 1 .. n)
  BY <1>1
<1>11. FetchInv'
  <2>1. \A l \in Set, i \in Index : <<l, i>> \in fetches' => i <= size'[l]
    <3> SUFFICES ASSUME NEW l \in Set, NEW i \in Index, <<l, i>> \in fetches' PROVE i <= size'[l]
      OBVIOUS
    <3>1. CASE l = k
      BY <3>1, <1>8, <1>9, <1>10
    <3>2. CASE l # k
      BY <3>2, <1>1, <1>8, <1>10 DEF HttpInv, FetchInv
    <3> QED BY <3>1, <3>2
  <2>2. ASSUME NEW id \in DOMAIN requests' PROVE EntryInv(id)'
    <3>1. CASE id \in DOMAIN requests
      <4>1. PICK o \in Set : o = requests[id] /\ o # k
        BY <3>1, <1>8
      <4>2. /\ requests'[id] = o /\ responses'[id] = responses[id] /\ id # NewId
            /\ size'[o] = size[o] /\ (o \in shared' <=> o \in shared)
        BY <3>1, <4>1, <1>1, <1>2, <1>3, <1>4, <1>8
      <4>3. EntryInv(id)
        BY <3>1, <1>1 DEF HttpInv, FetchInv
      <4>4. /\ \A i : <<o, i>> \in fetches' <=> <<o, i>> \in fetches
            /\ \A l \in Set : \A i : <<l, i>> \in inflight
                                    => <<l, i>> \in inflight' /\ id_of'[l] = id_of[l]
            /\ \A l \in Set : \A i : <<l, i>> \in inflight' /\ id_of'[l] = id
                                 => <<l, i>> \in inflight /\ id_of[l] = id
        BY <4>1, <4>2, <1>8, <1>9, <1>10
      <4>5. WaitInv(id)'
        <5>1. o \notin raised => Len(responses[id]) = size[o] /\ calls[o] = 0
          BY <4>1, <4>3 DEF EntryInv, WaitInv
        <5>2. ASSUME o \notin thrown, size[o] # 0
              PROVE  \E i \in 1 .. size[o] : <<o, i>> \in fetches'
          BY <5>2, <4>1, <4>3, <4>4 DEF EntryInv, WaitInv
        <5>3. ASSUME o \notin thrown, NEW i \in 1 .. size[o], <<o, i>> \in fetches'
              PROVE  \E l \in Set : <<l, i>> \in inflight' /\ id_of'[l] = id
          <6>1. PICK l \in Set : <<l, i>> \in inflight /\ id_of[l] = id
            BY <5>3, <4>1, <4>3, <4>4 DEF EntryInv, WaitInv
          <6> QED BY <6>1, <4>4
        <5> QED BY <4>2, <5>1, <5>2, <5>3, <1>1 DEF EntryInv, WaitInv
      <4>6. UnsharedInv(id)'
        BY <4>1, <4>2, <4>3, <4>4, <1>1 DEF EntryInv, UnsharedInv
      <4>7. RaisedInv(id)'
        BY <4>1, <4>2, <4>3, <4>4, <1>1 DEF EntryInv, RaisedInv
      <4> QED BY <4>5, <4>6, <4>7 DEF EntryInv
    <3>2. CASE id \notin DOMAIN requests
      <4>1. id = NewId /\ requests'[id] = k /\ Len(responses'[id]) = n
        BY <3>2, <1>3, <1>4, NewResponses
      <4>2. WaitInv(id)'
        <5>1. n # 0 => <<k, 1>> \in fetches' /\ 1 \in 1 .. n
          BY <1>8, <1>10
        <5>2. \A i \in 1 .. n : <<k, i>> \in inflight' /\ id_of'[k] = id
          BY <4>1, <1>8, <1>10
        <5> QED BY <4>1, <5>1, <5>2, <1>1, <1>8 DEF EntryInv, WaitInv
      <4>3. UnsharedInv(id)'
        <5>1. SUFFICES ASSUME k \notin shared'
                       PROVE  /\ \A l \in Set, i \in Index :
                                   <<l, i>> \in inflight' /\ id_of'[l] = id
                                     => l = k /\ <<l, i>> \in fetches'
                              /\ \A i \in 1 .. n : <<k, i>> \in fetches'
          BY <4>1, <1>8 DEF EntryInv, UnsharedInv
        <5>2. ~InUse(NewId)
          BY <5>1, <1>8
        <5>3. \A l \in Set, i \in Index : <<l, i>> \in inflight => id_of[l] # NewId
          BY <5>2 DEF InUse
        <5>4. ASSUME NEW l \in Set, NEW i \in Index, <<l, i>> \in inflight', id_of'[l] = id
              PROVE  l = k /\ <<l, i>> \in fetches'
          <6>1. l = k
            BY <4>1, <5>3, <5>4, <1>8, <1>10
          <6>2. i \in 1 .. n
            BY <6>1, <5>4, <1>9, <1>10
          <6> QED BY <6>1, <6>2, <1>10
        <5>5. \A i \in 1 .. n : <<k, i>> \in fetches'
          BY <1>10
        <5> QED BY <5>4, <5>5
      <4>4. RaisedInv(id)'
        BY <4>1, <1>1, <1>8 DEF RaisedInv
      <4> QED BY <4>2, <4>3, <4>4 DEF EntryInv
    <3> QED BY <3>1, <3>2
  <2>3. ASSUME erased' = {}
        PROVE  /\ \A l \in Set, i \in Index : CurrentInv(l, i)'
               /\ \A l \in shared' : calls'[l] = 0 /\ \A id \in DOMAIN requests' : requests'[id] # l
    <3>1. /\ \A l \in Set, i \in Index : CurrentInv(l, i)
          /\ \A l \in shared : calls[l] = 0 /\ \A id \in DOMAIN requests : requests[id] # l
      BY <1>1, <2>3 DEF HttpInv, FetchInv
    <3>2. ASSUME NEW l \in Set, NEW i \in Index PROVE CurrentInv(l, i)'
      <4>1. CASE l = k
        BY <4>1, <1>4, <1>8, <1>9, <1>10 DEF CurrentInv
      <4>2. CASE l # k
        BY <4>2, <3>1, <1>4, <1>8, <1>10 DEF CurrentInv
      <4> QED BY <4>1, <4>2
    <3>3. ~InUse(NewId)
      <4>1. SUFFICES ASSUME NEW f \in inflight, id_of[f[1]] = NewId PROVE FALSE
        BY <1>1 DEF InUse
      <4>2. PICK l \in Set, i \in Index : f = <<l, i>>
        BY DEF HttpInv, TypeInv, ProgressTypes
      <4> QED BY <4>1, <4>2, <3>1, <1>1 DEF CurrentInv
    <3>4. shared' = shared /\ k \notin shared
      BY <3>3, <1>8
    <3> QED BY <3>1, <3>2, <3>4, <1>1, <1>4
  <2> QED BY <1>1, <1>2, <1>3, <1>4, <2>1, <2>2, <2>3 DEF FetchInv
<1>12. SyncInv'
  BY <1>2 DEF SyncInv
<1>13. OwnInv'
  BY <1>1, NothingDelivered DEF outVars
<1> QED BY <1>5, <1>6, <1>7, <1>11, <1>12, <1>13 DEF HttpInv, TypeInv

\* The id is in use: submit throws and nothing else happens.
LEMMA FetchCollidesSafe ==
  ASSUME HttpInv, NEW k \in Set, NEW n \in Sizes, FetchCollides(k, n)
  PROVE  HttpInv'
<1>1. /\ client = "fetch" /\ Submitting(k, n) /\ NewId \in DOMAIN requests
      /\ requests' = requests /\ responses' = responses /\ thrown' = thrown \cup {k}
      /\ fetches' = fetches /\ inflight' = inflight
      /\ running' = running /\ answered' = answered /\ attempts' = attempts
      /\ throttled' = throttled /\ delivered' = delivered /\ calls' = calls /\ raised' = raised
      /\ erased' = erased /\ overrun' = overrun
  BY DEF FetchCollides, Collides, mapVars, fetchVars, outVars, syncVars
<1>2. client' = "fetch" /\ running = None
  BY <1>1, SubmitFacts
<1>3. /\ submitted \in Nat /\ k > submitted /\ submitted' = submitted + 1
      /\ \A l \in Set : l # k => size'[l] = size[l] /\ id_of'[l] = id_of[l]
      /\ shared \subseteq shared' /\ shared' \subseteq shared \cup {k}
      /\ calls[k] = 0
      /\ \A id \in DOMAIN requests : requests[id] # k /\ requests[id] \in Set
  <2>1. SubmissionInv(k)
    BY DEF HttpInv, SetInv
  <2>2. submitted \in Nat /\ k > submitted
    BY <1>1, SubmitFacts
  <2> QED BY <1>1, <2>1, <2>2, SubmitFacts DEF SubmissionInv, HttpInv, TypeInv, MapTypes
<1>4. \A i : <<k, i>> \notin fetches /\ <<k, i>> \notin inflight
  BY <1>3, NoFetchYet
<1>5. MapTypes' /\ SetTypes' /\ OutTypes' /\ ProgressTypes'
  <2>1. SetTypes' /\ OutTypes'
    BY <1>1, SubmitFacts DEF HttpInv, TypeInv, OutTypes
  <2>2. MapTypes'
    BY <1>1 DEF HttpInv, TypeInv, MapTypes
  <2>3. ProgressTypes'
    BY <1>1 DEF HttpInv, TypeInv, ProgressTypes
  <2> QED BY <2>1, <2>2, <2>3
<1>6. SetInv'
  <2>1. \A id \in DOMAIN requests' : IdInv(id)'
    BY <1>1, <1>3 DEF HttpInv, SetInv, IdInv, Set
  <2>2. \A l \in Set : SubmissionInv(l)'
    BY <1>1, AnotherSubmission
  <2> QED BY <2>1, <2>2 DEF SetInv
<1>7. FetchInv'
  <2>1. \A l \in Set, i \in Index : <<l, i>> \in fetches' => i <= size'[l]
    BY <1>1, <1>3, <1>4 DEF HttpInv, FetchInv
  <2>2. ASSUME NEW id \in DOMAIN requests' PROVE EntryInv(id)'
    <3>1. PICK o \in Set : o = requests[id] /\ o # k
      BY <1>1, <1>3
    <3>2. size'[o] = size[o] /\ (o \in shared' <=> o \in shared) /\ (o \in thrown' <=> o \in thrown)
      BY <3>1, <1>1, <1>3
    <3>3. EntryInv(id)
      BY <1>1 DEF HttpInv, FetchInv
    <3>4. \A l \in Set : \A i : <<l, i>> \in inflight => id_of'[l] = id_of[l]
      BY <1>3, <1>4
    <3>5. WaitInv(id)'
      BY <3>1, <3>2, <3>3, <3>4, <1>1 DEF EntryInv, WaitInv
    <3>6. UnsharedInv(id)'
      BY <3>1, <3>2, <3>3, <3>4, <1>1 DEF EntryInv, UnsharedInv
    <3>7. RaisedInv(id)'
      BY <3>1, <3>3, <1>1 DEF EntryInv, RaisedInv
    <3> QED BY <3>5, <3>6, <3>7 DEF EntryInv
  <2>3. ASSUME erased' = {}
        PROVE  /\ \A l \in Set, i \in Index : CurrentInv(l, i)'
               /\ \A l \in shared' : calls'[l] = 0 /\ \A id \in DOMAIN requests' : requests'[id] # l
    <3>1. /\ \A l \in Set, i \in Index : CurrentInv(l, i)
          /\ \A l \in shared : calls[l] = 0 /\ \A id \in DOMAIN requests : requests[id] # l
      BY <1>1, <2>3 DEF HttpInv, FetchInv
    <3>2. \A l \in Set, i \in Index : CurrentInv(l, i)'
      BY <3>1, <1>1, <1>3, <1>4 DEF CurrentInv
    <3> QED BY <3>1, <3>2, <1>1, <1>3
  <2> QED BY <1>1, <1>2, <2>1, <2>2, <2>3 DEF HttpInv, FetchInv
<1>8. SyncInv'
  BY <1>2 DEF SyncInv
<1>9. OwnInv'
  BY <1>1, NothingDelivered DEF outVars
<1> QED BY <1>5, <1>6, <1>7, <1>8, <1>9 DEF HttpInv, TypeInv

\* A fetch ends in the fetch client; every set in the map has an id of its own.
LEMMA CompletesFacts ==
  ASSUME HttpInv, NEW k \in Set, NEW i \in Index, Completes(k, i)
  PROVE  /\ client = "fetch" /\ running = None /\ <<k, i>> \in inflight /\ k <= submitted
         /\ client' = client /\ submitted' = submitted /\ size' = size /\ id_of' = id_of
         /\ shared' = shared /\ running' = running /\ answered' = answered
         /\ attempts' = attempts /\ erased' = erased /\ overrun' = overrun
         /\ DOMAIN requests = DOMAIN responses
         /\ \A id, j \in DOMAIN requests : requests[id] = requests[j] => id = j
         /\ \A id \in DOMAIN requests : requests[id] \in Set /\ requests[id] <= submitted
         /\ \A l \in Set : size[l] \in Nat
<1>1. /\ <<k, i>> \in inflight
      /\ client' = client /\ submitted' = submitted /\ size' = size /\ id_of' = id_of
      /\ shared' = shared /\ running' = running /\ answered' = answered
      /\ attempts' = attempts /\ erased' = erased /\ overrun' = overrun
  BY DEF Completes, setVars, syncVars
<1>2. client # "sync"
  BY <1>1 DEF HttpInv, SyncInv
<1>3. client = "fetch"
  BY <1>2, HttpAssumption DEF HttpInv, TypeInv, SetTypes
<1>4. submitted \in Nat
  BY HttpAssumption DEF HttpInv, TypeInv, SetTypes
<1>5. k <= submitted
  BY <1>1, <1>4, NoFetchYet DEF Set
<1>6. \A l \in Set : size[l] \in Nat
  <2>1. size \in [Set -> Sizes \cup {0}]
    BY DEF HttpInv, TypeInv, SetTypes
  <2>2. \A m \in Sizes \cup {0} : m \in Nat
    BY HttpAssumption
  <2> QED BY <2>1, <2>2
<1>7. /\ \A id, j \in DOMAIN requests : requests[id] = requests[j] => id = j
      /\ \A id \in DOMAIN requests : requests[id] \in Set /\ requests[id] <= submitted
  BY DEF HttpInv, SetInv, IdInv, TypeInv, MapTypes
<1> QED BY <1>1, <1>3, <1>5, <1>6, <1>7 DEF HttpInv, FetchInv

\* What a fetch that ends leaves alone, unless it calls back.
LEMMA CompletesFrame ==
  ASSUME HttpInv, NEW k \in Set, NEW i \in Index, Completes(k, i),
         requests' = requests, UNCHANGED outVars,
         NEW o \in Set, o <= submitted,
         thrown \subseteq thrown', thrown' \subseteq thrown \cup {o},
         fetches' \subseteq fetches \cup {<<o, i>>}, inflight' \subseteq inflight,
         throttled' \in 0 .. Max429
  PROVE  SetTypes' /\ OutTypes' /\ ProgressTypes' /\ SetInv' /\ SyncInv' /\ OwnInv'
<1>1. /\ client = "fetch" /\ client' = client /\ submitted' = submitted /\ size' = size
      /\ id_of' = id_of /\ shared' = shared /\ running' = running /\ answered' = answered
      /\ attempts' = attempts /\ erased' = erased /\ overrun' = overrun
      /\ delivered' = delivered /\ calls' = calls /\ raised' = raised
  BY CompletesFacts DEF outVars
<1>2. SetTypes'
  BY <1>1 DEF HttpInv, TypeInv, SetTypes
<1>3. OutTypes'
  BY <1>1 DEF HttpInv, TypeInv, OutTypes
<1>4. ProgressTypes'
  <2>1. fetches' \subseteq Set \X Index /\ inflight' \subseteq Set \X Index
    BY DEF HttpInv, TypeInv, ProgressTypes
  <2> QED BY <1>1, <2>1 DEF HttpInv, TypeInv, ProgressTypes
<1>5. SetInv'
  <2>1. \A id \in DOMAIN requests' : IdInv(id)'
    BY <1>1 DEF HttpInv, SetInv, IdInv
  <2>2. ASSUME NEW l \in Set PROVE SubmissionInv(l)'
    <3>1. SubmissionInv(l) /\ (l > submitted => l # o)
      BY DEF HttpInv, SetInv, TypeInv, SetTypes, Set
    <3> QED BY <1>1, <3>1 DEF SubmissionInv
  <2> QED BY <2>1, <2>2 DEF SetInv
<1>6. SyncInv'
  BY <1>1 DEF SyncInv
<1>7. OwnInv'
  BY <1>1 DEF HttpInv, OwnInv, DeliveredInv
<1> QED BY <1>2, <1>3, <1>4, <1>5, <1>6, <1>7

\* A set of another id does not notice that a fetch of this id ends.
LEMMA OthersUndisturbed ==
  ASSUME HttpInv, NEW k \in Set, NEW i \in Index, Completes(k, i),
         NEW id \in DOMAIN requests, id # id_of[k],
         id \in DOMAIN requests', requests'[id] = requests[id], responses'[id] = responses[id],
         calls'[requests[id]] = calls[requests[id]],
         requests[id] \in thrown' <=> requests[id] \in thrown,
         requests[id] \in raised' <=> requests[id] \in raised,
         \A j : <<requests[id], j>> \in fetches' <=> <<requests[id], j>> \in fetches,
         \A l, j : l # k => (<<l, j>> \in inflight' <=> <<l, j>> \in inflight),
         inflight' \subseteq inflight
  PROVE  EntryInv(id)'
<1>1. PICK o \in Set : o = requests[id]
  BY DEF HttpInv, TypeInv, MapTypes
<1>2. client = "fetch" /\ size' = size /\ id_of' = id_of /\ shared' = shared
  BY CompletesFacts
<1>3. EntryInv(id)
  BY <1>2 DEF HttpInv, FetchInv
<1>4. WaitInv(id)'
  <2>1. o \notin raised => Len(responses[id]) = size[o] /\ calls[o] = 0
    BY <1>1, <1>3 DEF EntryInv, WaitInv
  <2>2. ASSUME o \notin thrown, size[o] # 0
        PROVE  \E j \in 1 .. size[o] : <<o, j>> \in fetches'
    BY <2>2, <1>1, <1>3 DEF EntryInv, WaitInv
  <2>3. ASSUME o \notin thrown, NEW j \in 1 .. size[o], <<o, j>> \in fetches'
        PROVE  \E l \in Set : <<l, j>> \in inflight' /\ id_of[l] = id
    <3>1. PICK l \in Set : <<l, j>> \in inflight /\ id_of[l] = id
      BY <2>3, <1>1, <1>3 DEF EntryInv, WaitInv
    <3> QED BY <3>1
  <2> QED BY <2>1, <2>2, <2>3, <1>1, <1>2 DEF EntryInv, WaitInv
<1>5. UnsharedInv(id)'
  BY <1>1, <1>2, <1>3 DEF EntryInv, UnsharedInv
<1>6. RaisedInv(id)'
  BY <1>1, <1>3 DEF EntryInv, RaisedInv
<1> QED BY <1>4, <1>5, <1>6 DEF EntryInv

\* The fetch of a set that is gone.
LEMMA CompleteUnknownSafe ==
  ASSUME HttpInv, NEW k \in Set, NEW i \in Index, CompleteUnknown(k, i)
  PROVE  HttpInv'
<1>1. /\ Completes(k, i) /\ id_of[k] \notin DOMAIN requests
      /\ inflight' = inflight \ {<<k, i>>}
      /\ requests' = requests /\ responses' = responses /\ fetches' = fetches
      /\ throttled' = throttled /\ calls' = calls /\ raised' = raised /\ thrown' = thrown /\ UNCHANGED outVars
  BY DEF CompleteUnknown, mapVars, outVars
<1>2. /\ client = "fetch" /\ running = None /\ k <= submitted
      /\ client' = client /\ size' = size /\ id_of' = id_of /\ shared' = shared
      /\ running' = running /\ erased' = erased /\ DOMAIN requests = DOMAIN responses
  BY <1>1, CompletesFacts
<1>3. MapTypes'
  BY <1>1 DEF HttpInv, TypeInv, MapTypes
<1>4. SetTypes' /\ OutTypes' /\ ProgressTypes' /\ SetInv' /\ SyncInv' /\ OwnInv'
  <2>1. throttled' \in 0 .. Max429 /\ inflight' \subseteq inflight
    BY <1>1 DEF HttpInv, TypeInv, ProgressTypes
  <2> QED BY <1>1, <1>2, <2>1, CompletesFrame
<1>5. \A id \in DOMAIN requests' : EntryInv(id)'
  <2> SUFFICES ASSUME NEW id \in DOMAIN requests PROVE EntryInv(id)'
    BY <1>1
  <2>1. id # id_of[k]
    BY <1>1
  <2>2. /\ inflight' \subseteq inflight
        /\ \A l, j : l # k => (<<l, j>> \in inflight' <=> <<l, j>> \in inflight)
    BY <1>1
  <2> QED BY <1>1, <2>1, <2>2, OthersUndisturbed
<1>6. erased' = {} => /\ \A l \in Set, j \in Index : CurrentInv(l, j)'
                      /\ \A l \in shared' : /\ calls'[l] = 0
                                            /\ \A id \in DOMAIN requests' : requests'[id] # l
  BY <1>1, <1>2 DEF HttpInv, FetchInv, CurrentInv
<1>7. \A l \in Set, j \in Index : <<l, j>> \in fetches' => j <= size'[l]
  BY <1>1, <1>2 DEF HttpInv, FetchInv
<1>8. FetchInv'
  BY <1>1, <1>2, <1>5, <1>6, <1>7 DEF FetchInv
<1> QED BY <1>3, <1>4, <1>8 DEF HttpInv, TypeInv

\* The fetch of a request that the set with its id does not have.
LEMMA CompleteOutOfRangeSafe ==
  ASSUME HttpInv, NEW k \in Set, NEW i \in Index, CompleteOutOfRange(k, i)
  PROVE  HttpInv'
<1>1. /\ Completes(k, i) /\ id_of[k] \in DOMAIN requests /\ i > size[requests[id_of[k]]]
      /\ inflight' = inflight \ {<<k, i>>}
      /\ requests' = requests /\ responses' = responses /\ fetches' = fetches
      /\ throttled' = throttled /\ calls' = calls /\ raised' = raised /\ thrown' = thrown /\ UNCHANGED outVars
  BY DEF CompleteOutOfRange, mapVars, outVars
<1>2. /\ client = "fetch" /\ running = None /\ k <= submitted
      /\ client' = client /\ size' = size /\ id_of' = id_of /\ shared' = shared
      /\ running' = running /\ erased' = erased /\ DOMAIN requests = DOMAIN responses
      /\ \A id \in DOMAIN requests : requests[id] \in Set
      /\ \A l \in Set : size[l] \in Nat
  BY <1>1, CompletesFacts
<1>3. MapTypes'
  BY <1>1 DEF HttpInv, TypeInv, MapTypes
<1>4. SetTypes' /\ OutTypes' /\ ProgressTypes' /\ SetInv' /\ SyncInv' /\ OwnInv'
  <2>1. throttled' \in 0 .. Max429 /\ inflight' \subseteq inflight
    BY <1>1 DEF HttpInv, TypeInv, ProgressTypes
  <2> QED BY <1>1, <1>2, <2>1, CompletesFrame
<1>5. /\ inflight' \subseteq inflight
      /\ \A l, j : l # k => (<<l, j>> \in inflight' <=> <<l, j>> \in inflight)
  BY <1>1
<1>6. ASSUME NEW id \in DOMAIN requests PROVE EntryInv(id)'
  <2>1. CASE id # id_of[k]
    BY <1>1, <1>5, <2>1, OthersUndisturbed
  <2>2. CASE id = id_of[k]
    <3>1. PICK o \in Set : o = requests[id]
      BY <1>2
    <3>2. EntryInv(id)
      BY <1>2 DEF HttpInv, FetchInv
    <3>3. \A j \in 1 .. size[o] : \A l : <<l, j>> \in inflight' <=> <<l, j>> \in inflight
      <4>1. \A j \in 1 .. size[o] : j # i
        BY <3>1, <2>2, <1>1, <1>2
      <4> QED BY <4>1, <1>1
    <3>4. WaitInv(id)'
      <4>1. o \notin raised => Len(responses[id]) = size[o] /\ calls[o] = 0
        BY <3>1, <3>2 DEF EntryInv, WaitInv
      <4>2. ASSUME o \notin thrown, size[o] # 0
            PROVE  \E j \in 1 .. size[o] : <<o, j>> \in fetches
        BY <4>2, <3>1, <3>2 DEF EntryInv, WaitInv
      <4>3. ASSUME o \notin thrown, NEW j \in 1 .. size[o], <<o, j>> \in fetches
            PROVE  \E l \in Set : <<l, j>> \in inflight' /\ id_of[l] = id
        <5>1. PICK l \in Set : <<l, j>> \in inflight /\ id_of[l] = id
          BY <4>3, <3>1, <3>2 DEF EntryInv, WaitInv
        <5> QED BY <5>1, <3>3
      <4> QED BY <4>1, <4>2, <4>3, <3>1, <1>1, <1>2 DEF EntryInv, WaitInv
    <3>5. UnsharedInv(id)'
      BY <3>1, <3>2, <1>1, <1>2 DEF EntryInv, UnsharedInv
    <3>6. RaisedInv(id)'
      BY <3>1, <3>2, <1>1 DEF EntryInv, RaisedInv
    <3> QED BY <3>4, <3>5, <3>6 DEF EntryInv
  <2> QED BY <2>1, <2>2
<1>7. erased' = {} => /\ \A l \in Set, j \in Index : CurrentInv(l, j)'
                      /\ \A l \in shared' : /\ calls'[l] = 0
                                            /\ \A id \in DOMAIN requests' : requests'[id] # l
  BY <1>1, <1>2 DEF HttpInv, FetchInv, CurrentInv
<1>8. \A l \in Set, j \in Index : <<l, j>> \in fetches' => j <= size'[l]
  BY <1>1, <1>2 DEF HttpInv, FetchInv
<1>9. FetchInv'
  BY <1>1, <1>2, <1>6, <1>7, <1>8 DEF FetchInv
<1> QED BY <1>3, <1>4, <1>9 DEF HttpInv, TypeInv

\* A 429: the request is sent again, or the header is missing and the
\* browser's callback throws.
LEMMA CompleteRetrySafe ==
  ASSUME HttpInv, NEW k \in Set, NEW i \in Index, CompleteRetry(k, i)
  PROVE  HttpInv'
<1>1. PICK d : d = id_of[k]
  OBVIOUS
<1>0. PICK rs : rs = Resized(d)
  OBVIOUS
<1>2. /\ Completes(k, i) /\ d \in DOMAIN requests /\ i <= size[requests[d]]
      /\ throttled < Max429 /\ throttled' = throttled + 1
      /\ IF rs[i].answer.retry_after
         THEN /\ responses' = [responses EXCEPT ![d] = [rs EXCEPT ![i].answer = NoResponse.answer]]
              /\ fetches' = fetches \cup {<<requests[d], i>>}
              /\ inflight' = inflight /\ thrown' = thrown
         ELSE /\ inflight' = inflight \ {<<k, i>>}
              /\ thrown' = thrown \cup {requests[d]}
              /\ responses' = [responses EXCEPT ![d] = rs] /\ fetches' = fetches
      /\ requests' = requests /\ UNCHANGED outVars
      /\ calls' = calls /\ raised' = raised
  BY <1>0, <1>1 DEF CompleteRetry, InRange, outVars
<1>3. /\ client = "fetch" /\ running = None /\ <<k, i>> \in inflight
      /\ client' = client /\ size' = size /\ id_of' = id_of /\ shared' = shared
      /\ running' = running /\ erased' = erased /\ DOMAIN requests = DOMAIN responses
      /\ \A id, j \in DOMAIN requests : requests[id] = requests[j] => id = j
      /\ \A id \in DOMAIN requests : requests[id] \in Set /\ requests[id] <= submitted
      /\ \A l \in Set : size[l] \in Nat
  BY <1>2, CompletesFacts
<1>4. PICK o \in Set : o = requests[d] /\ o <= submitted /\ i <= size[o]
  BY <1>2, <1>3
<1>5. \A id \in DOMAIN requests : EntryInv(id)
  BY <1>3 DEF HttpInv, FetchInv
<1>13. /\ rs \in Seq(Response) /\ Len(rs) = size[o] /\ size[o] \in Sizes \cup {0}
       /\ o \notin raised => \A j \in 1 .. size[o] : rs[j] = responses[d][j]
       /\ o \in raised => \A j \in 1 .. size[o] : rs[j] = NoResponse
       /\ i \in 1 .. size[o]
  <2>1. i \in Nat /\ i >= 1
    BY HttpAssumption DEF Index
  <2>2. i \in 1 .. size[o]
    BY <2>1, <1>3, <1>4
  <2> QED BY <2>2, <1>0, <1>2, <1>3, <1>4, ResizedFacts
<1>14. responses \in [DOMAIN responses -> Seq(Response)] /\ d \in DOMAIN responses
  BY <1>2, <1>3 DEF HttpInv, TypeInv, MapTypes
<1>6. throttled' \in 0 .. Max429
  BY <1>2, HttpAssumption DEF HttpInv, TypeInv, ProgressTypes
<1>7. SetTypes' /\ OutTypes' /\ ProgressTypes' /\ SetInv' /\ SyncInv' /\ OwnInv'
  <2>1. /\ thrown \subseteq thrown' /\ thrown' \subseteq thrown \cup {o} /\ fetches' \subseteq fetches \cup {<<o, i>>}
        /\ inflight' \subseteq inflight
    BY <1>2, <1>4
  <2> QED BY <1>2, <1>4, <1>6, <2>1, CompletesFrame
<1>8. \A id \in DOMAIN requests : id # d => requests[id] # o
  BY <1>2, <1>3, <1>4
<1>9. \A l \in Set, j \in Index : <<l, j>> \in fetches' => j <= size'[l]
  BY <1>2, <1>3, <1>4 DEF HttpInv, FetchInv
<1>10. ASSUME NEW id \in DOMAIN requests, id # d, responses'[id] = responses[id]
       PROVE  EntryInv(id)'
  <2>1. /\ requests[id] \in thrown' <=> requests[id] \in thrown
        /\ \A j : <<requests[id], j>> \in fetches' <=> <<requests[id], j>> \in fetches
        /\ \A l, j : l # k => (<<l, j>> \in inflight' <=> <<l, j>> \in inflight)
        /\ inflight' \subseteq inflight
    BY <1>2, <1>4, <1>8, <1>10
  <2> QED BY <1>1, <1>2, <1>10, <2>1, OthersUndisturbed
<1>11. CASE rs[i].answer.retry_after
  <2>1. /\ responses' = [responses EXCEPT ![d] = [rs EXCEPT ![i].answer = NoResponse.answer]]
        /\ fetches' = fetches \cup {<<o, i>>} /\ inflight' = inflight /\ thrown' = thrown
    BY <1>2, <1>4, <1>11
  \* The header is there, so the callback has not thrown.
  <2>2. o \notin raised
    <3>1. NoResponse.answer.retry_after = FALSE
      BY DEF NoResponse
    <3> QED BY <3>1, <1>11, <1>13
  <2>3. PICK new : new = [rs EXCEPT ![i].answer = NoResponse.answer]
    OBVIOUS
  <2>4. /\ new \in Seq(Response) /\ Len(new) = size[o]
        /\ \A j \in 1 .. size[o] : new[j].from = responses[d][j].from
    <3>1. NoResponse.answer \in Answer
      BY DEF NoResponse, Answer
    <3>2. rs[i] \in Response
      BY <1>13
    <3>3. PICK f \in Set \cup {None}, b \in Answer : rs[i] = [from |-> f, answer |-> b]
      BY <3>2 DEF Response
    <3>4. PICK r : r = [from |-> f, answer |-> NoResponse.answer]
      OBVIOUS
    <3>5. r \in Response /\ r.from = rs[i].from
      BY <3>1, <3>3, <3>4 DEF Response
    <3>9. [rs[i] EXCEPT !.answer = NoResponse.answer] = r
      BY <3>3, <3>4
    <3>6. new = [rs EXCEPT ![i] = r]
      BY <2>3, <3>9
    <3>7. \A j \in 1 .. size[o] : new[j].from = rs[j].from
      BY <1>13, <3>5, <3>6
    <3>8. new \in Seq(Response) /\ Len(new) = size[o]
      BY <1>13, <3>5, <3>6
    <3> QED BY <3>7, <3>8, <2>2, <1>13
  <2>5. responses' = [responses EXCEPT ![d] = new]
    BY <2>1, <2>3
  <2>6. /\ responses' \in [DOMAIN responses -> Seq(Response)] /\ responses'[d] = new
        /\ \A id \in DOMAIN responses : id # d => responses'[id] = responses[id]
    BY <1>14, <2>4, <2>5
  <2>7. MapTypes'
    <3>1. \A id \in DOMAIN responses' : Len(responses'[id]) \in Sizes \cup {0}
      BY <1>13, <2>4, <2>6 DEF HttpInv, TypeInv, MapTypes
    <3> QED BY <1>2, <2>6, <3>1 DEF HttpInv, TypeInv, MapTypes
  <2>8. EntryInv(d)'
    <3>1. i \in 1 .. size[o] /\ WaitInv(d) /\ UnsharedInv(d)
      BY <1>13, <1>2, <1>5 DEF EntryInv
    <3>2. WaitInv(d)'
      <4>1. calls[o] = 0 /\ <<o, i>> \in fetches'
        BY <1>4, <3>1, <2>1, <2>2 DEF WaitInv
      <4>2. ASSUME o \notin thrown, NEW j \in 1 .. size[o], <<o, j>> \in fetches'
            PROVE  \E l \in Set : <<l, j>> \in inflight /\ id_of[l] = d
        <5>1. CASE j = i
          BY <5>1, <1>1, <1>3
        <5>2. CASE j # i
          BY <5>2, <4>2, <2>1, <3>1, <1>4 DEF WaitInv
        <5> QED BY <5>1, <5>2
      <4> QED BY <4>1, <4>2, <3>1, <2>1, <2>4, <2>6, <1>2, <1>3, <1>4 DEF WaitInv
    <3>3. UnsharedInv(d)'
      <4>1. SUFFICES ASSUME o \notin shared
                     PROVE  /\ \A l \in Set, j \in Index :
                                 <<l, j>> \in inflight /\ id_of[l] = d
                                   => l = o /\ <<l, j>> \in fetches'
                            /\ \A j \in 1 .. size[o] : <<o, j>> \notin fetches' => new[j].from = o
        BY <1>2, <1>3, <1>4, <2>1, <2>6 DEF UnsharedInv
      <4>2. /\ \A l \in Set, j \in Index :
                  <<l, j>> \in inflight /\ id_of[l] = d => l = o /\ <<l, j>> \in fetches
            /\ \A j \in 1 .. size[o] : <<o, j>> \notin fetches => responses[d][j].from = o
        BY <4>1, <3>1, <2>2, <1>4 DEF UnsharedInv
      <4> QED BY <4>2, <2>1, <2>4
    <3>4. RaisedInv(d)'
      BY <1>2, <1>4, <2>2 DEF RaisedInv
    <3> QED BY <3>2, <3>3, <3>4 DEF EntryInv
  <2>9. \A id \in DOMAIN requests' : EntryInv(id)'
    BY <2>6, <2>8, <1>2, <1>3, <1>10
  <2>10. erased' = {} => /\ \A l \in Set, j \in Index : CurrentInv(l, j)'
                         /\ \A l \in shared' : /\ calls'[l] = 0
                                               /\ \A id \in DOMAIN requests' : requests'[id] # l
    BY <1>2, <1>3, <2>1 DEF HttpInv, FetchInv, CurrentInv
  <2>11. FetchInv'
    BY <1>2, <1>3, <1>9, <2>6, <2>9, <2>10 DEF FetchInv
  <2> QED BY <1>7, <2>7, <2>11 DEF HttpInv, TypeInv
<1>12. CASE ~rs[i].answer.retry_after
  <2>1. /\ inflight' = inflight \ {<<k, i>>} /\ thrown' = thrown \cup {o}
        /\ responses' = [responses EXCEPT ![d] = rs] /\ fetches' = fetches
    BY <1>2, <1>4, <1>12
  <2>2. /\ responses' \in [DOMAIN responses -> Seq(Response)] /\ responses'[d] = rs
        /\ \A id \in DOMAIN responses : id # d => responses'[id] = responses[id]
    BY <1>13, <1>14, <2>1
  <2>3. MapTypes'
    <3>1. \A id \in DOMAIN responses' : Len(responses'[id]) \in Sizes \cup {0}
      BY <1>13, <2>2 DEF HttpInv, TypeInv, MapTypes
    <3> QED BY <1>2, <2>2, <3>1 DEF HttpInv, TypeInv, MapTypes
  <2>4. EntryInv(d)'
    <3>1. WaitInv(d) /\ UnsharedInv(d) /\ RaisedInv(d)
      BY <1>2, <1>5 DEF EntryInv
    <3>2. WaitInv(d)'
      BY <1>2, <1>3, <1>4, <1>13, <2>1, <2>2, <3>1 DEF WaitInv
    <3>3. UnsharedInv(d)'
      BY <1>2, <1>3, <1>4, <1>13, <2>1, <2>2, <3>1 DEF UnsharedInv
    <3>4. RaisedInv(d)'
      BY <1>2, <1>4, <1>13, <2>1, <2>2, <3>1 DEF RaisedInv
    <3> QED BY <3>2, <3>3, <3>4 DEF EntryInv
  <2>5. \A id \in DOMAIN requests' : EntryInv(id)'
    BY <2>2, <2>4, <1>2, <1>3, <1>10
  <2>6. erased' = {} => /\ \A l \in Set, j \in Index : CurrentInv(l, j)'
                        /\ \A l \in shared' : /\ calls'[l] = 0
                                              /\ \A id \in DOMAIN requests' : requests'[id] # l
    BY <1>2, <1>3, <2>1 DEF HttpInv, FetchInv, CurrentInv
  <2>7. FetchInv'
    BY <1>2, <1>3, <1>9, <2>2, <2>5, <2>6 DEF FetchInv
  <2> QED BY <1>7, <2>3, <2>7 DEF HttpInv, TypeInv
<1> QED BY <1>11, <1>12

\* What complete stores is a response.
LEMMA StoredResponse ==
  ASSUME NEW k \in Set, NEW a \in FetchAnswers, NEW old \in Response
  PROVE  [from |-> k, answer |->
            [a EXCEPT !.retry_after = a.retry_after \/ old.answer.retry_after]] \in Response
<1>1. PICK s \in {0, 503} : a = [status |-> s, retry_after |-> s = 503]
  BY DEF FetchAnswers
<1>2. old.answer.retry_after \in BOOLEAN
  BY DEF Response, Answer
<1>3. PICK b \in BOOLEAN : b = (a.retry_after \/ old.answer.retry_after)
  BY <1>1, <1>2
<1>4. [a EXCEPT !.retry_after = b] = [status |-> s, retry_after |-> b]
  BY <1>1
<1>5. [status |-> s, retry_after |-> b] \in Answer
  BY DEF Answer
<1> QED BY <1>3, <1>4, <1>5 DEF Response

\* An answer is stored; the last one calls back and drops the set, unless the
\* callback throws.
LEMMA CompleteStoreSafe ==
  ASSUME HttpInv, NEW k \in Set, NEW i \in Index, NEW a \in FetchAnswers, CompleteStore(k, i, a)
  PROVE  HttpInv'
<1>1. PICK d : d = id_of[k]
  OBVIOUS
<1>2. PICK r : r = [from |-> k, answer |->
                     [a EXCEPT !.retry_after = a.retry_after \/ Resized(d)[i].answer.retry_after]]
  OBVIOUS
<1>3. PICK new : new = [Resized(d) EXCEPT ![i] = r]
  OBVIOUS
<1>4. /\ Completes(k, i) /\ d \in DOMAIN requests /\ i <= size[requests[d]]
      /\ inflight' = inflight \ {<<k, i>>} /\ fetches' = fetches \ {<<requests[d], i>>}
      /\ IF IsComplete(requests[d])
         THEN Finish(d, new)
         ELSE /\ responses' = [responses EXCEPT ![d] = new] /\ requests' = requests
              /\ UNCHANGED outVars /\ thrown' = thrown
      /\ throttled' = throttled
  BY <1>1, <1>2, <1>3 DEF CompleteStore, InRange
<1>5. /\ client = "fetch" /\ running = None /\ <<k, i>> \in inflight
      /\ client' = client /\ submitted' = submitted /\ size' = size /\ id_of' = id_of
      /\ shared' = shared /\ running' = running /\ answered' = answered
      /\ attempts' = attempts /\ erased' = erased /\ overrun' = overrun
      /\ DOMAIN requests = DOMAIN responses
      /\ \A id, j \in DOMAIN requests : requests[id] = requests[j] => id = j
      /\ \A id \in DOMAIN requests : requests[id] \in Set /\ requests[id] <= submitted
      /\ \A l \in Set : size[l] \in Nat
  BY <1>4, CompletesFacts
<1>6. PICK o \in Set : o = requests[d] /\ o <= submitted /\ i <= size[o]
  BY <1>4, <1>5
<1>7. \A id \in DOMAIN requests : EntryInv(id)
  BY <1>5 DEF HttpInv, FetchInv
<1>8. /\ responses \in [DOMAIN responses -> Seq(Response)] /\ d \in DOMAIN responses
      /\ size[o] \in Sizes \cup {0} /\ i \in 1 .. size[o]
      /\ o \notin raised => calls[o] = 0
      /\ o \in raised => \A j \in Index : <<o, j>> \notin fetches
      /\ 1 .. size[o] \subseteq Index
  <2>1. i \in Nat /\ i >= 1
    BY HttpAssumption DEF Index
  <2>2. size[o] \in Sizes \cup {0}
    BY DEF HttpInv, TypeInv, SetTypes
  <2>3. size[o] \in Sizes
    BY <2>1, <2>2, <1>6
  <2> QED BY <2>1, <2>3, <1>4, <1>5, <1>6, <1>7, IndexFacts
      DEF HttpInv, TypeInv, MapTypes, EntryInv, WaitInv, RaisedInv
<1>9. /\ new \in Seq(Response) /\ Len(new) = size[o] /\ new[i].from = k
      /\ o \notin raised => \A j \in 1 .. size[o] : j # i => new[j] = responses[d][j]
  <2>1. /\ Resized(d) \in Seq(Response) /\ Len(Resized(d)) = size[o]
        /\ o \notin raised => \A j \in 1 .. size[o] : Resized(d)[j] = responses[d][j]
    BY <1>4, <1>5, <1>6, ResizedFacts
  <2>2. Resized(d)[i] \in Response
    BY <1>8, <2>1
  <2>3. r \in Response
    BY <1>2, <2>2, StoredResponse
  <2>4. r.from = k
    BY <1>2
  <2>5. new \in Seq(Response) /\ Len(new) = size[o] /\ new[i].from = k
    BY <1>3, <1>8, <2>1, <2>3, <2>4
  <2>6. \A j \in 1 .. size[o] : j # i => new[j] = Resized(d)[j]
    BY <1>3, <1>8, <2>1
  <2> QED BY <2>1, <2>5, <2>6
<1>10. /\ inflight' = inflight \ {<<k, i>>} /\ fetches' = fetches \ {<<o, i>>}
       /\ throttled' = throttled
  BY <1>4, <1>6
<1>11. \A id \in DOMAIN requests : id # d => requests[id] # o
  BY <1>4, <1>5, <1>6
<1>12. \A l \in Set, j \in Index : <<l, j>> \in fetches' => j <= size'[l]
  BY <1>5, <1>10 DEF HttpInv, FetchInv
<1>13. ASSUME NEW id \in DOMAIN requests, id # d, id \in DOMAIN requests',
              requests'[id] = requests[id], responses'[id] = responses[id],
              calls'[requests[id]] = calls[requests[id]],
              requests[id] \in thrown' <=> requests[id] \in thrown,
              requests[id] \in raised' <=> requests[id] \in raised
       PROVE  EntryInv(id)'
  <2>1. /\ \A j : <<requests[id], j>> \in fetches' <=> <<requests[id], j>> \in fetches
        /\ \A l, j : l # k => (<<l, j>> \in inflight' <=> <<l, j>> \in inflight)
        /\ inflight' \subseteq inflight
    BY <1>10, <1>11, <1>13
  <2> QED BY <1>1, <1>4, <1>13, <2>1, OthersUndisturbed
<1>14. o \notin shared => /\ k = o /\ o \notin raised
                          /\ \A j \in 1 .. size[o] : <<o, j>> \notin fetches' => new[j].from = o
  <2>1. SUFFICES ASSUME o \notin shared
                 PROVE  /\ k = o /\ o \notin raised
                        /\ \A j \in 1 .. size[o] : <<o, j>> \notin fetches' => new[j].from = o
    OBVIOUS
  <2>2. /\ \A l \in Set, j \in Index :
             <<l, j>> \in inflight /\ id_of[l] = d => l = o /\ <<l, j>> \in fetches
        /\ o \notin raised =>
             \A j \in 1 .. size[o] : <<o, j>> \notin fetches => responses[d][j].from = o
    BY <2>1, <1>4, <1>6, <1>7 DEF EntryInv, UnsharedInv
  <2>3. k = o /\ o \notin raised
    BY <2>2, <1>1, <1>5, <1>8
  <2>4. ASSUME NEW j \in 1 .. size[o], <<o, j>> \notin fetches' PROVE new[j].from = o
    <3>1. CASE j = i
      BY <3>1, <2>3, <1>9
    <3>2. CASE j # i
      BY <3>2, <2>2, <2>3, <2>4, <1>9, <1>10
    <3> QED BY <3>1, <3>2
  <2> QED BY <2>3, <2>4
\* Without erase, the fetch that ended was the set's own.
<1>15. ASSUME erased = {}
       PROVE  /\ k = o /\ o \notin shared
              /\ \A l \in Set, j \in Index :
                   <<l, j>> \in inflight' => /\ id_of[l] \in DOMAIN requests
                                             /\ requests[id_of[l]] = l /\ <<l, j>> \in fetches'
              /\ \A l \in shared : calls[l] = 0 /\ \A id \in DOMAIN requests : requests[id] # l
  <2>1. /\ \A l \in Set, j \in Index : CurrentInv(l, j)
        /\ \A l \in shared : calls[l] = 0 /\ \A id \in DOMAIN requests : requests[id] # l
    BY <1>5, <1>15 DEF HttpInv, FetchInv
  <2>2. k = o
    BY <2>1, <1>1, <1>5, <1>6 DEF CurrentInv
  <2>3. o \notin shared
    BY <2>1, <1>4, <1>6
  <2>4. ASSUME NEW l \in Set, NEW j \in Index, <<l, j>> \in inflight'
        PROVE  id_of[l] \in DOMAIN requests /\ requests[id_of[l]] = l /\ <<l, j>> \in fetches'
    <3>1. id_of[l] \in DOMAIN requests /\ requests[id_of[l]] = l /\ <<l, j>> \in fetches
      BY <2>1, <2>4, <1>10 DEF CurrentInv
    <3>2. <<l, j>> # <<o, i>>
      BY <2>2, <2>4, <1>10
    <3> QED BY <3>1, <3>2, <1>10
  <2> QED BY <2>1, <2>2, <2>3, <2>4
<1>16. CASE ~IsComplete(requests[d])
  <2>1. /\ responses' = [responses EXCEPT ![d] = new] /\ requests' = requests /\ UNCHANGED outVars
        /\ calls' = calls /\ raised' = raised /\ thrown' = thrown
    BY <1>4, <1>16 DEF outVars
  <2>2. /\ responses' \in [DOMAIN responses -> Seq(Response)] /\ responses'[d] = new
        /\ \A id \in DOMAIN responses : id # d => responses'[id] = responses[id]
    BY <1>8, <1>9, <2>1
  <2>3. MapTypes'
    <3>1. \A id \in DOMAIN responses' : Len(responses'[id]) \in Sizes \cup {0}
      BY <1>8, <1>9, <2>2 DEF HttpInv, TypeInv, MapTypes
    <3> QED BY <2>1, <2>2, <3>1 DEF HttpInv, TypeInv, MapTypes
  <2>4. SetTypes' /\ OutTypes' /\ ProgressTypes' /\ SetInv' /\ SyncInv' /\ OwnInv'
    <3>1. /\ thrown \subseteq thrown' /\ thrown' \subseteq thrown \cup {o}
          /\ fetches' \subseteq fetches \cup {<<o, i>>}
          /\ inflight' \subseteq inflight /\ throttled' \in 0 .. Max429
      BY <1>10, <2>1 DEF HttpInv, TypeInv, ProgressTypes
    <3> QED BY <1>4, <1>6, <2>1, <3>1, CompletesFrame
  <2>5. EntryInv(d)'
    <3>1. WaitInv(d) /\ UnsharedInv(d)
      BY <1>4, <1>7 DEF EntryInv
    <3>2. PICK m \in 1 .. size[o] : <<o, m>> \in fetches'
      BY <1>6, <1>16 DEF IsComplete
    <3>3. o \notin raised
      BY <3>2, <1>8, <1>10
    <3>4. ASSUME o \notin thrown, NEW j \in 1 .. size[o], <<o, j>> \in fetches'
          PROVE  \E l \in Set : <<l, j>> \in inflight' /\ id_of[l] = d
      <4>1. j # i /\ <<o, j>> \in fetches
        BY <3>4, <1>10
      <4>2. PICK l \in Set : <<l, j>> \in inflight /\ id_of[l] = d
        BY <3>1, <3>4, <4>1, <1>6 DEF WaitInv
      <4> QED BY <4>1, <4>2, <1>10
    <3>5. WaitInv(d)'
      BY <3>2, <3>4, <2>1, <2>2, <1>5, <1>6, <1>8, <1>9, <1>10 DEF WaitInv
    <3>6. o \notin shared =>
            \A l \in Set, j \in Index :
              <<l, j>> \in inflight' /\ id_of[l] = d => l = o /\ <<l, j>> \in fetches'
      <4>1. SUFFICES ASSUME o \notin shared, NEW l \in Set, NEW j \in Index,
                            <<l, j>> \in inflight', id_of[l] = d
                     PROVE  l = o /\ <<l, j>> \in fetches'
        OBVIOUS
      <4>2. k = o /\ <<l, j>> \in inflight /\ <<l, j>> # <<k, i>>
        BY <4>1, <1>10, <1>14
      <4>3. l = o /\ <<l, j>> \in fetches
        BY <3>1, <4>1, <4>2, <1>6 DEF UnsharedInv
      <4> QED BY <4>2, <4>3, <1>10
    <3>7. UnsharedInv(d)'
      BY <3>6, <2>1, <2>2, <1>5, <1>6, <1>14 DEF UnsharedInv
    <3>8. RaisedInv(d)'
      BY <3>3, <2>1, <1>6 DEF RaisedInv
    <3> QED BY <3>5, <3>7, <3>8 DEF EntryInv
  <2>6. \A id \in DOMAIN requests' : EntryInv(id)'
    BY <2>1, <2>2, <2>5, <1>5, <1>13
  <2>7. erased' = {} => /\ \A l \in Set, j \in Index : CurrentInv(l, j)'
                        /\ \A l \in shared' : /\ calls'[l] = 0
                                              /\ \A id \in DOMAIN requests' : requests'[id] # l
    BY <2>1, <1>5, <1>15 DEF CurrentInv
  <2>8. FetchInv'
    BY <1>5, <1>12, <2>1, <2>2, <2>6, <2>7 DEF FetchInv
  <2> QED BY <2>3, <2>4, <2>8 DEF HttpInv, TypeInv
<1>17. CASE IsComplete(requests[d])
  <2>1. /\ delivered' = [delivered EXCEPT ![o] = new]
        /\ calls' = [calls EXCEPT ![o] = calls[o] + 1]
        /\ \/ /\ raised' = raised /\ thrown' = thrown
              /\ requests' = Without(requests, d) /\ responses' = Without(responses, d)
           \/ /\ raised' = raised \cup {o} /\ thrown' = thrown \cup {o}
              /\ requests' = requests /\ responses' = [responses EXCEPT ![d] = <<>>]
    BY <1>4, <1>6, <1>17 DEF Finish, CallBack, Returns, Raises
  <2>2. requests \in [DOMAIN requests -> Set]
    BY DEF HttpInv, TypeInv, MapTypes
  \* The set is gone, or its callback threw and it has no responses.
  <2>3. /\ DOMAIN requests' \subseteq DOMAIN requests /\ DOMAIN requests' = DOMAIN responses'
        /\ requests' \in [DOMAIN requests' -> Set]
        /\ \A j \in DOMAIN requests' : requests'[j] = requests[j]
        /\ responses' \in [DOMAIN responses' -> Seq(Response)]
        /\ \A j \in DOMAIN responses' : j # d => responses'[j] = responses[j]
        /\ \A j \in DOMAIN responses' : j = d => responses'[d] = <<>> /\ o \in raised'
        /\ \A j \in DOMAIN requests : j # d => j \in DOMAIN requests'
    <3>1. CASE requests' = Without(requests, d) /\ responses' = Without(responses, d)
      BY <3>1, <2>2, <1>5, <1>8 DEF Without, Restrict
    <3>2. CASE /\ raised' = raised \cup {o}
               /\ requests' = requests /\ responses' = [responses EXCEPT ![d] = <<>>]
      BY <3>2, <2>2, <1>5, <1>8
    <3> QED BY <2>1, <3>1, <3>2
  <2>4. /\ \A l \in Set : l # o => delivered'[l] = delivered[l] /\ calls'[l] = calls[l]
        /\ delivered'[o] = new /\ calls[o] \in Nat /\ calls'[o] = calls[o] + 1
        /\ delivered' \in [Set -> Seq(Response)] /\ calls' \in [Set -> Nat]
    BY <2>1, <1>9 DEF HttpInv, TypeInv, OutTypes
  <2>14. /\ raised' \subseteq thrown' /\ thrown' \subseteq thrown \cup {o}
         /\ raised \subseteq raised' /\ thrown \subseteq thrown' /\ thrown \subseteq Set
         /\ \A l : l # o => (l \in raised' <=> l \in raised) /\ (l \in thrown' <=> l \in thrown)
    <3>1. raised \subseteq thrown /\ thrown \subseteq Set
      BY DEF HttpInv, TypeInv, OutTypes
    <3> QED BY <2>1, <3>1
  <2>5. MapTypes'
    <3>1. ASSUME NEW j \in DOMAIN responses' PROVE Len(responses'[j]) \in Sizes \cup {0}
      <4>1. CASE j = d
        <5>1. responses'[j] = <<>>
          BY <4>1, <2>3
        <5> QED BY <5>1
      <4>2. CASE j # d
        BY <4>2, <2>3, <1>5 DEF HttpInv, TypeInv, MapTypes
      <4> QED BY <4>1, <4>2
    <3> QED BY <2>3, <3>1 DEF HttpInv, TypeInv, MapTypes
  <2>6. SetTypes' /\ OutTypes' /\ ProgressTypes'
    <3>1. SetTypes'
      BY <1>5 DEF HttpInv, TypeInv, SetTypes
    <3>2. \A l \in Set : Len(delivered'[l]) \in Sizes \cup {0}
      BY <1>8, <1>9, <2>4 DEF HttpInv, TypeInv, OutTypes
    <3>3. OutTypes'
      BY <1>5, <2>4, <2>14, <3>2 DEF HttpInv, TypeInv, OutTypes
    <3>4. ProgressTypes'
      BY <1>5, <1>10 DEF HttpInv, TypeInv, ProgressTypes
    <3> QED BY <3>1, <3>3, <3>4
  <2>7. SetInv'
    <3>1. \A id \in DOMAIN requests' : IdInv(id)'
      BY <1>5, <2>3 DEF HttpInv, SetInv, IdInv
    <3>2. ASSUME NEW l \in Set PROVE SubmissionInv(l)'
      <4>1. SubmissionInv(l) /\ (l > submitted => l # o)
        BY <1>6 DEF HttpInv, SetInv, TypeInv, SetTypes, Set
      <4>2. CASE l # o
        <5>1. /\ calls'[l] = calls[l] /\ (l \in raised' <=> l \in raised)
              /\ (l \in thrown' <=> l \in thrown)
          BY <4>2, <2>4, <2>14
        <5> QED BY <4>1, <5>1, <1>5, <1>10 DEF SubmissionInv
      <4>3. CASE l = o
        <5>1. calls'[o] > 0 /\ ~(o > submitted)
          BY <2>4, <4>1, <4>3
        <5>2. calls'[o] > 1 => o \in raised' /\ o \in shared
          <6>1. calls'[o] > 1 => calls[o] # 0
            BY <2>4
          <6>2. calls'[o] > 1 => o \in raised
            BY <6>1, <1>8
          <6> QED BY <6>2, <1>14, <2>14
        <5> QED BY <4>3, <5>1, <5>2, <1>5 DEF SubmissionInv
      <4> QED BY <4>2, <4>3
    <3> QED BY <3>1, <3>2 DEF SetInv
  <2>8. SyncInv'
    BY <1>5 DEF SyncInv
  <2>9. \A j \in 1 .. size[o] : <<o, j>> \notin fetches'
    BY <1>6, <1>17 DEF IsComplete
  <2>15. \A j \in Index : <<o, j>> \notin fetches'
    <3> SUFFICES ASSUME NEW j \in Index, <<o, j>> \in fetches' PROVE FALSE
      OBVIOUS
    <3>1. j <= size[o] /\ j \in Nat /\ j >= 1
      BY <1>5, <1>12, HttpAssumption DEF Index
    <3> QED BY <3>1, <2>9, <1>5
  <2>10. OwnInv'
    <3> SUFFICES ASSUME NEW l \in Set PROVE DeliveredInv(l)'
      BY DEF OwnInv
    <3>1. CASE l # o
      <4>1. DeliveredInv(l)
        BY DEF HttpInv, OwnInv
      <4>2. delivered'[l] = delivered[l] /\ calls'[l] = calls[l]
        BY <3>1, <2>4
      <4> QED BY <4>1, <4>2, <1>5 DEF DeliveredInv
    <3>2. CASE l = o
      BY <3>2, <1>5, <1>9, <1>14, <2>4, <2>9 DEF DeliveredInv
    <3> QED BY <3>1, <3>2
  <2>11. ASSUME NEW id \in DOMAIN requests' PROVE EntryInv(id)'
    <3>1. CASE id # d
      <4>1. /\ id \in DOMAIN requests /\ requests'[id] = requests[id]
            /\ responses'[id] = responses[id] /\ requests[id] # o /\ requests[id] \in Set
        BY <3>1, <1>5, <1>11, <2>3
      <4>2. /\ calls'[requests[id]] = calls[requests[id]]
            /\ requests[id] \in thrown' <=> requests[id] \in thrown
            /\ requests[id] \in raised' <=> requests[id] \in raised
        BY <4>1, <2>4, <2>14
      <4> QED BY <3>1, <4>1, <4>2, <1>13
    <3>2. CASE id = d
      <4>1. /\ requests'[d] = o /\ responses'[d] = <<>> /\ o \in raised' /\ o \in thrown'
        BY <3>2, <1>6, <2>3, <2>14
      <4>2. WaitInv(d)'
        BY <4>1 DEF WaitInv
      <4>3. UnsharedInv(d)'
        <5>1. SUFFICES ASSUME o \notin shared, NEW l \in Set, NEW j \in Index,
                              <<l, j>> \in inflight', id_of[l] = d
                       PROVE  FALSE
          BY <4>1, <1>5 DEF UnsharedInv
        <5>2. k = o /\ <<l, j>> \in inflight /\ <<l, j>> # <<k, i>>
          BY <5>1, <1>10, <1>14
        <5>3. UnsharedInv(d)
          BY <1>4, <1>7 DEF EntryInv
        <5>4. l = o /\ <<l, j>> \in fetches
          BY <5>1, <5>2, <5>3, <1>6 DEF UnsharedInv
        <5>5. <<o, j>> \in fetches'
          BY <5>2, <5>4, <1>10
        <5> QED BY <5>5, <2>15
      <4>4. RaisedInv(d)'
        BY <4>1, <2>15 DEF RaisedInv
      <4> QED BY <3>2, <4>2, <4>3, <4>4 DEF EntryInv
    <3> QED BY <3>1, <3>2
  <2>12. ASSUME erased' = {}
         PROVE  /\ \A l \in Set, j \in Index : CurrentInv(l, j)'
                /\ \A l \in shared' : /\ calls'[l] = 0
                                      /\ \A id \in DOMAIN requests' : requests'[id] # l
    <3>1. erased = {}
      BY <1>5, <2>12
    <3>2. ASSUME NEW l \in Set, NEW j \in Index, <<l, j>> \in inflight'
          PROVE  id_of[l] \in DOMAIN requests' /\ requests'[id_of[l]] = l /\ <<l, j>> \in fetches'
      <4>1. id_of[l] \in DOMAIN requests /\ requests[id_of[l]] = l /\ <<l, j>> \in fetches'
        BY <3>1, <3>2, <1>15
      <4>2. id_of[l] # d
        <5>1. SUFFICES ASSUME l = o PROVE FALSE
          BY <4>1, <1>6
        <5> QED BY <5>1, <4>1, <2>15
      <4> QED BY <4>1, <4>2, <2>3
    <3>3. \A l \in shared' : calls'[l] = 0 /\ \A id \in DOMAIN requests' : requests'[id] # l
      BY <3>1, <1>5, <1>15, <2>3, <2>4 DEF HttpInv, TypeInv, OutTypes
    <3> QED BY <3>2, <3>3, <1>5 DEF CurrentInv
  <2>13. FetchInv'
    BY <1>5, <1>12, <2>3, <2>11, <2>12 DEF FetchInv
  <2> QED BY <2>5, <2>6, <2>7, <2>8, <2>10, <2>13 DEF HttpInv, TypeInv
<1> QED BY <1>16, <1>17

----------------------------------------------------------------------------
\* The application erases an id it was given.
LEMMA EraseSafe ==
  ASSUME HttpInv, NEW d \in HTTPRequestSetId, Erase(d)
  PROVE  HttpInv'
<1>1. /\ running = None
      /\ requests' = Without(requests, d) /\ responses' = Without(responses, d)
      /\ erased' = erased \cup {requests[j] : j \in DOMAIN requests \cap {d}}
      /\ client' = client /\ submitted' = submitted /\ size' = size /\ id_of' = id_of
      /\ shared' = shared /\ fetches' = fetches /\ inflight' = inflight
      /\ running' = running /\ answered' = answered /\ attempts' = attempts
      /\ throttled' = throttled /\ delivered' = delivered /\ calls' = calls /\ raised' = raised
      /\ thrown' = thrown /\ overrun' = overrun
  BY DEF Erase, Idle, setVars, fetchVars, syncVars, outVars
<1>2. /\ DOMAIN responses' = DOMAIN responses \ {d}
      /\ responses' \in [DOMAIN responses \ {d} -> Seq(Response)]
      /\ \A j \in DOMAIN responses \ {d} : responses'[j] = responses[j]
  <2>1. responses \in [DOMAIN responses -> Seq(Response)]
    BY DEF HttpInv, TypeInv, MapTypes
  <2> QED BY <2>1, <1>1 DEF Without, Restrict
<1>3. requests \in [DOMAIN requests -> Set]
  BY DEF HttpInv, TypeInv, MapTypes
<1>4. /\ DOMAIN requests' = DOMAIN requests \ {d}
      /\ requests' \in [DOMAIN requests \ {d} -> Set]
      /\ \A j \in DOMAIN requests \ {d} : requests'[j] = requests[j]
  BY <1>1, <1>3 DEF Without, Restrict
<1>5. erased' = {} => erased = {} /\ DOMAIN requests' = DOMAIN requests
  BY <1>1, <1>4
<1>6. MapTypes'
  BY <1>2, <1>4 DEF HttpInv, TypeInv, MapTypes
<1>7. SetTypes' /\ OutTypes' /\ ProgressTypes'
  <2>1. SetTypes'
    BY <1>1 DEF HttpInv, TypeInv, SetTypes
  <2>2. erased' \subseteq Set
    BY <1>1, <1>3 DEF HttpInv, TypeInv, OutTypes
  <2>3. OutTypes'
    BY <1>1, <2>2 DEF HttpInv, TypeInv, OutTypes
  <2>4. ProgressTypes'
    BY <1>1 DEF HttpInv, TypeInv, ProgressTypes
  <2> QED BY <2>1, <2>3, <2>4
<1>8. SetInv'
  <2>1. \A id \in DOMAIN requests' : IdInv(id)'
    BY <1>1, <1>4 DEF HttpInv, SetInv, IdInv
  <2>2. \A l \in Set : SubmissionInv(l)'
    BY <1>1 DEF HttpInv, SetInv, SubmissionInv
  <2> QED BY <2>1, <2>2 DEF SetInv
<1>9. SyncInv'
  BY <1>1, <1>2, <1>4, <1>5 DEF HttpInv, SyncInv, LeftInv
<1>10. FetchInv'
  <2>1. SUFFICES ASSUME client = "fetch" PROVE FetchInv'
    BY <1>1 DEF FetchInv
  <2>2. ASSUME NEW id \in DOMAIN requests' PROVE EntryInv(id)'
    <3>1. id \in DOMAIN requests /\ requests'[id] = requests[id] /\ responses'[id] = responses[id]
      BY <1>2, <1>4, <2>1 DEF HttpInv, FetchInv
    <3>2. EntryInv(id)
      BY <3>1, <2>1 DEF HttpInv, FetchInv
    <3>3. WaitInv(id)'
      BY <3>1, <3>2, <1>1 DEF EntryInv, WaitInv
    <3>4. UnsharedInv(id)'
      BY <3>1, <3>2, <1>1 DEF EntryInv, UnsharedInv
    <3>5. RaisedInv(id)'
      BY <3>1, <3>2, <1>1 DEF EntryInv, RaisedInv
    <3> QED BY <3>3, <3>4, <3>5 DEF EntryInv
  <2>3. erased' = {} => /\ \A l \in Set, j \in Index : CurrentInv(l, j)'
                        /\ \A l \in shared' : /\ calls'[l] = 0
                                              /\ \A id \in DOMAIN requests' : requests'[id] # l
    BY <1>1, <1>4, <1>5, <2>1 DEF HttpInv, FetchInv, CurrentInv
  <2>4. DOMAIN requests' = DOMAIN responses'
    BY <1>2, <1>4, <2>1 DEF HttpInv, FetchInv
  <2>5. \A l \in Set, j \in Index : <<l, j>> \in fetches' => j <= size'[l]
    BY <1>1, <2>1 DEF HttpInv, FetchInv
  <2> QED BY <1>1, <2>2, <2>3, <2>4, <2>5 DEF FetchInv
<1>11. OwnInv'
  BY <1>1 DEF HttpInv, OwnInv, DeliveredInv
<1> QED BY <1>6, <1>7, <1>8, <1>9, <1>10, <1>11 DEF HttpInv, TypeInv

----------------------------------------------------------------------------
\* The invariant holds before anything is submitted.
LEMMA HttpInvInit == Init => HttpInv
<1> SUFFICES ASSUME Init PROVE HttpInv
  OBVIOUS
<1>1. MaxSets \in Nat \ {0} /\ max_attempts \in Nat /\ Max429 \in Nat
  BY HttpAssumption
<1>2. DOMAIN requests = {} /\ DOMAIN responses = {}
  BY DEF Init
<1>3. MapTypes
  <2>1. requests = [x \in {} |-> x] /\ responses = [x \in {} |-> x]
    BY DEF Init
  <2> QED BY <1>2, <2>1 DEF MapTypes
<1>4. SetTypes
  BY <1>1 DEF Init, SetTypes, Set, HTTPRequestSetId
<1>5. OutTypes
  BY DEF Init, OutTypes
<1>6. ProgressTypes
  <2>1. fetches \subseteq Set \X Index /\ inflight \subseteq Set \X Index /\ overrun \in BOOLEAN
    BY DEF Init
  <2>2. running \in Set \cup {None}
    BY DEF Init
  <2>3. answered \in Nat /\ attempts \in 0 .. max_attempts /\ throttled \in 0 .. Max429
    BY <1>1 DEF Init
  <2> QED BY <2>1, <2>2, <2>3 DEF ProgressTypes
<1>7. SetInv
  BY <1>2 DEF Init, SetInv, SubmissionInv
<1>8. SyncInv
  BY <1>2 DEF Init, SyncInv
<1>9. FetchInv
  BY <1>2 DEF Init, FetchInv, CurrentInv
<1>10. OwnInv
  BY DEF Init, OwnInv, DeliveredInv
<1> QED BY <1>3, <1>4, <1>5, <1>6, <1>7, <1>8, <1>9, <1>10 DEF HttpInv, TypeInv

\* Every step of either client, and every erase, keeps the invariant.
LEMMA HttpInvStep == HttpInv /\ [Next]_vars => HttpInv'
<1> SUFFICES ASSUME HttpInv, [Next]_vars PROVE HttpInv'
  OBVIOUS
<1>1. CASE UNCHANGED vars
  <2>1. /\ client' = client /\ submitted' = submitted /\ size' = size /\ id_of' = id_of
        /\ shared' = shared /\ requests' = requests /\ responses' = responses
        /\ fetches' = fetches /\ inflight' = inflight /\ running' = running
        /\ answered' = answered /\ attempts' = attempts /\ throttled' = throttled
        /\ delivered' = delivered /\ calls' = calls /\ raised' = raised /\ thrown' = thrown
        /\ erased' = erased /\ overrun' = overrun
    BY <1>1 DEF vars, setVars, mapVars, fetchVars, syncVars, outVars
  <2>2. TypeInv'
    BY <2>1 DEF HttpInv, TypeInv, MapTypes, SetTypes, OutTypes, ProgressTypes
  <2>3. SetInv'
    BY <2>1 DEF HttpInv, SetInv, IdInv, SubmissionInv
  <2>4. SyncInv'
    BY <2>1 DEF HttpInv, SyncInv, RunningInv, LeftInv, Current
  <2>5. FetchInv'
    BY <2>1 DEF HttpInv, FetchInv, EntryInv, WaitInv, UnsharedInv, RaisedInv, CurrentInv
  <2>6. OwnInv'
    BY <2>1 DEF HttpInv, OwnInv, DeliveredInv
  <2> QED BY <2>2, <2>3, <2>4, <2>5, <2>6 DEF HttpInv
<1>2. CASE \E k \in Set, n \in Sizes : SyncSubmit(k, n) \/ SyncCollides(k, n)
  BY <1>2, SyncSubmitSafe, SyncCollidesSafe
<1>3. CASE \E k \in Set, n \in Sizes : FetchSubmit(k, n) \/ FetchCollides(k, n)
  BY <1>3, FetchSubmitSafe, FetchCollidesSafe
<1>4. CASE SyncStep
  BY <1>4, SyncRetrySafe, SyncGivesUpSafe, SyncReturnSafe, SyncAnswerSafe DEF SyncStep
<1>5. CASE \E k \in Set, i \in Index : FetchEnds(k, i)
  BY <1>5, CompleteUnknownSafe, CompleteOutOfRangeSafe, CompleteRetrySafe, CompleteStoreSafe
     DEF FetchEnds
<1>6. CASE \E id \in HTTPRequestSetId : Erase(id)
  BY <1>6, EraseSafe
<1> QED BY <1>1, <1>2, <1>3, <1>4, <1>5, <1>6 DEF Next

\* The invariant always holds.
LEMMA HttpInvHolds == Spec => []HttpInv
BY HttpInvInit, HttpInvStep, PTL DEF Spec

(***************************************************************************)
(* Type correctness of both clients, for any number of submissions, sizes, *)
(* attempts and 429s: the maps hold ids below the bound and vectors of the *)
(* size some set had.                                                      *)
(***************************************************************************)
THEOREM TypeCorrect == Spec => []TypeOK
<1>1. HttpInv => TypeOK
  <2> SUFFICES ASSUME HttpInv PROVE TypeOK
    OBVIOUS
  <2>1. /\ requests \in [DOMAIN requests -> Set] /\ DOMAIN requests \subseteq HTTPRequestSetId
        /\ responses \in [DOMAIN responses -> Seq(Response)]
        /\ DOMAIN responses \subseteq HTTPRequestSetId
        /\ \A id \in DOMAIN responses : Len(responses[id]) \in Sizes \cup {0}
    BY DEF HttpInv, TypeInv, MapTypes
  <2>2. /\ delivered \in [Set -> Seq(Response)]
        /\ \A k \in Set : Len(delivered[k]) \in Sizes \cup {0}
    BY DEF HttpInv, TypeInv, OutTypes
  <2>3. Range(requests) \subseteq Set
    BY <2>1 DEF Range
  <2>4. ASSUME NEW rs \in Range(responses) \cup Range(delivered)
        PROVE  Len(rs) \in Sizes \cup {0} /\ Range(rs) \subseteq Response
    <3>1. rs \in Seq(Response) /\ Len(rs) \in Sizes \cup {0}
      BY <2>1, <2>2 DEF Range
    <3> QED BY <3>1 DEF Range
  <2> QED BY <2>1, <2>3, <2>4 DEF HttpInv, TypeInv, SetTypes, OutTypes, ProgressTypes, TypeOK
<1> QED BY <1>1, HttpInvHolds, PTL

(***************************************************************************)
(* A callback only receives answers to the requests of its own submission, *)
(* one for each, all with status 200 in the synchronous client; a          *)
(* submission whose id was in use is called back only after the            *)
(* application erased a set.  SynchronousHTTPClient::submit and            *)
(* FetchTracker::complete key everything by the id; the invariant shows    *)
(* that without erase no two submissions have the same one.                *)
(***************************************************************************)
THEOREM AlwaysDeliveredOwn == Spec => []DeliveredOwn
<1>1. HttpInv => DeliveredOwn
  <2> SUFFICES ASSUME HttpInv PROVE DeliveredOwn
    OBVIOUS
  <2>1. client \in {"sync", "fetch"} /\ shared \subseteq Set
    BY HttpAssumption DEF HttpInv, TypeInv, SetTypes, OutTypes
  <2>2. (\E k \in shared : calls[k] > 0) => erased # {}
    <3>1. CASE client = "sync"
      BY <3>1 DEF HttpInv, SyncInv
    <3>2. CASE client = "fetch"
      BY <3>2 DEF HttpInv, FetchInv
    <3> QED BY <2>1, <3>1, <3>2
  <2>3. \A k \in Set \ shared :
          calls[k] > 0 =>
            /\ Len(delivered[k]) = size[k]
            /\ \A i \in 1 .. size[k] : /\ delivered[k][i].from = k
                                       /\ client = "sync" => delivered[k][i].answer.status = 200
    BY DEF HttpInv, OwnInv, DeliveredInv
  <2> QED BY <2>2, <2>3 DEF DeliveredOwn
<1> QED BY <1>1, HttpInvHolds, PTL

(***************************************************************************)
(* No callback is invoked twice, not even by the late fetch of an erased   *)
(* set, unless it threw the first time; and a synchronous submission that  *)
(* threw was called back only if it is its callback that threw.            *)
(***************************************************************************)
THEOREM AlwaysCalledOnce == Spec => []CalledOnce
<1>1. HttpInv => CalledOnce
  <2> SUFFICES ASSUME HttpInv, NEW k \in Set
               PROVE  /\ calls[k] > 1 => client = "fetch" /\ k \in shared \cap raised
                      /\ client = "sync" /\ k \in thrown => (calls[k] = 1 <=> k \in raised)
    BY DEF CalledOnce
  <2>1. SubmissionInv(k) /\ calls[k] \in Nat
    BY DEF HttpInv, TypeInv, OutTypes, SetInv
  <2>2. calls[k] > 1 => client = "fetch" /\ k \in shared \cap raised
    BY <2>1 DEF SubmissionInv
  <2>3. ASSUME client = "sync", k \in thrown PROVE calls[k] = 1 <=> k \in raised
    <3>1. calls[k] = 1 => k \in raised
      BY <2>3 DEF HttpInv, SyncInv
    <3>2. k \in raised => calls[k] > 0 /\ ~(calls[k] > 1)
      BY <2>1, <2>3 DEF SubmissionInv
    <3>3. k \in raised => calls[k] = 1
      BY <2>1, <3>2
    <3> QED BY <3>1, <3>3
  <2> QED BY <2>2, <2>3
<1> QED BY <1>1, HttpInvHolds, PTL

(***************************************************************************)
(* FetchTracker::complete never finds a set without its responses, nor too *)
(* few of them unless the callback of the set threw, and any other set in  *)
(* the map is waited for; the synchronous client keeps no responses of a   *)
(* submission that returned.                                               *)
(***************************************************************************)
THEOREM SetsAlwaysPaired == Spec => []SetsPaired
<1>1. HttpInv => SetsPaired
  <2> SUFFICES ASSUME HttpInv PROVE SetsPaired
    OBVIOUS
  <2>1. ASSUME client = "fetch", NEW id \in DOMAIN requests, NEW k, k = requests[id]
        PROVE  /\ id_of[k] = id
               /\ k \notin raised => Len(responses[id]) = size[k]
               /\ k \in raised =>
                    /\ \A i \in 1 .. size[k] : <<k, i>> \notin fetches
                    /\ \A f \in inflight : id_of[f[1]] = id => k \in shared
               /\ \/ size[k] = 0 \/ k \in thrown
                  \/ \E i \in 1 .. size[k], l \in Set :
                       <<k, i>> \in fetches /\ <<l, i>> \in inflight /\ id_of[l] = id
    <3>1. WaitInv(id) /\ UnsharedInv(id) /\ RaisedInv(id) /\ IdInv(id)
      BY <2>1 DEF HttpInv, SetInv, FetchInv, EntryInv
    <3>2. ASSUME size[k] # 0, k \notin thrown
          PROVE  \E i \in 1 .. size[k], l \in Set :
                   <<k, i>> \in fetches /\ <<l, i>> \in inflight /\ id_of[l] = id
      <4>1. PICK i \in 1 .. size[k] : <<k, i>> \in fetches
        BY <3>1, <2>1, <3>2 DEF WaitInv
      <4>2. PICK l \in Set : <<l, i>> \in inflight /\ id_of[l] = id
        BY <3>1, <2>1, <3>2, <4>1 DEF WaitInv
      <4> QED BY <4>1, <4>2
    <3>3. ASSUME k \in raised, NEW i \in 1 .. size[k] PROVE <<k, i>> \notin fetches
      <4>1. \A j \in Index : <<k, j>> \notin fetches
        BY <3>1, <3>3, <2>1 DEF RaisedInv
      <4>2. fetches \subseteq Set \X Index
        BY DEF HttpInv, TypeInv, ProgressTypes
      <4> QED BY <4>1, <4>2
    <3>4. ASSUME k \in raised, NEW f \in inflight, id_of[f[1]] = id, k \notin shared PROVE FALSE
      <4>1. PICK l \in Set, j \in Index : f = <<l, j>>
        BY DEF HttpInv, TypeInv, ProgressTypes
      <4>2. l = k /\ <<l, j>> \in fetches
        BY <4>1, <3>1, <3>4, <2>1 DEF UnsharedInv
      <4> QED BY <4>1, <4>2, <3>1, <3>4, <2>1 DEF RaisedInv
    <3> QED BY <3>1, <3>2, <3>3, <3>4, <2>1 DEF WaitInv, IdInv
  <2>2. client = "fetch" => DOMAIN requests = DOMAIN responses
    BY DEF HttpInv, FetchInv
  <2>3. client = "sync" /\ Idle =>
          \A id \in DOMAIN responses :
            id \in DOMAIN requests /\ \E k \in thrown : id_of[k] = id
    BY DEF HttpInv, SyncInv, LeftInv, Idle
  <2> QED BY <2>1, <2>2, <2>3 DEF SetsPaired
<1> QED BY <1>1, HttpInvHolds, PTL
=============================================================================
