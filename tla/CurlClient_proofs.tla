-------------------------- MODULE CurlClient_proofs --------------------------
(***************************************************************************)
(* Proofs about the asynchronous HTTP client, for any number of sets, any  *)
(* size of a set and any number of retries.  What is said of the maps and  *)
(* of the number of callbacks holds whatever libcurl reports and whatever  *)
(* the application erases; what is said of the delivered responses needs   *)
(* an application that does not erase and a libcurl whose multi interface  *)
(* does not fail.                                                          *)
(***************************************************************************)
EXTENDS CurlClient, FiniteSetTheorems, TLAPS

----------------------------------------------------------------------------
(***************************************************************************)
(* The invariant.                                                          *)
(***************************************************************************)

\* The three maps name a submission only under the set id it was given, and
\* requests and responses have the same keys.
MapInv(id) ==
  /\ requests[id] = None <=> responses[id] = <<>>
  /\ requests[id] # None => id_of[requests[id]] = id /\ requests[id] <= submitted
  /\ monitor_threads[id] # None =>
       id_of[monitor_threads[id]] = id /\ monitor_threads[id] <= submitted

\* A MonitorThread object is in the map; its thread calls back once, and does
\* not come back to poll after that.
MonitorInv(k) ==
  /\ k > submitted => mpc[k] = "none" /\ calls[k] = 0 /\ k \notin alive
  /\ k \in alive => monitor_threads[id_of[k]] = k
  /\ \/ calls[k] = 0
     \/ /\ calls[k] = 1
        /\ \/ mpc[k] \in {"callback", "stop", "cleanup", "ended"}
           \/ mpc[k] = "loop" /\ ~keep_going[k]

\* A transfer that ended with 429 can still be sent again.
RetryInv(k, i) == transfer[k][i] = "done" /\ code[k][i] = 429 => attempts[k][i] <= Max429

ClientInv ==
  /\ \A id \in HTTPRequestSetId : MapInv(id)
  /\ \A k \in Set : MonitorInv(k)
  /\ \A k \in Set, i \in Index : RetryInv(k, i)

(***************************************************************************)
(* An application that leaves running sets alone, and a multi interface    *)
(* that does not fail.                                                     *)
(***************************************************************************)
Undisturbed == Calls = {} /\ "multi" \notin Faults

\* The thread still polls its set, or is in its callback.
Active(k) ==
  \/ mpc[k] \in {"isComplete", "wait", "finish", "continue", "callback"}
  \/ mpc[k] = "loop" /\ keep_going[k]

\* An active thread has its object and its set, and its set is complete when
\* it takes the responses; what it delivered was its own and complete.
DeliveryInv(k) ==
  /\ Active(k) => k \in alive /\ requests[id_of[k]] = k
  /\ mpc[k] = "finish" => \A i \in Index : responses[id_of[k]][i].status # 0
  /\ calls[k] > 0 => \A i \in Index : delivered[k][i].from = k /\ delivered[k][i].status # 0

\* The responses in the map are those of the submission in the map, and one
\* with a status is not written again.
ResponseInv(id, i) ==
  requests[id] # None =>
    /\ responses[id][i].from = requests[id]
    /\ responses[id][i].status # 0 => transfer[requests[id]][i] = "gone"

OwnInv ==
  /\ \A k \in Set : DeliveryInv(k)
  /\ \A id \in HTTPRequestSetId, i \in Index : ResponseInv(id, i)

----------------------------------------------------------------------------
(***************************************************************************)
(* Facts about the operators of the model.                                 *)
(***************************************************************************)

\* A vector of responses is not the empty one that stands for "not in the map".
LEMMA NotEmpty ==
  ASSUME NEW f \in [Index -> Response]
  PROVE  f # <<>>
<1>1. 1 \in Index /\ DOMAIN f = Index
  BY ClientAssumption DEF Index
<1>2. DOMAIN <<>> = {}
  OBVIOUS
<1>. QED
  BY <1>1, <1>2

\* The number of sets in the map, which submit takes for the new id, is an id
\* of the model: no more sets are in the map than were submitted.
LEMMA NewIdType ==
  ASSUME TypeOK, ClientInv, submitted < MaxSets
  PROVE  NewId \in HTTPRequestSetId
<1>. DEFINE Used == {i \in HTTPRequestSetId : requests[i] # None}
            owner == [i \in Used |-> requests[i]]
<1>1. submitted \in Nat /\ MaxSets \in Nat
  BY ClientAssumption DEF TypeOK
<1>2. \A i \in Used : requests[i] \in 1 .. submitted /\ id_of[requests[i]] = i
  BY ClientAssumption DEF ClientInv, MapInv, TypeOK, Set, None
<1>3. owner \in Injection(Used, 1 .. submitted)
  <2>1. owner \in [Used -> 1 .. submitted]
    BY <1>2
  <2>2. \A i, j \in Used : owner[i] = owner[j] => i = j
    BY <1>2
  <2>. QED
    BY <2>1, <2>2 DEF Injection, IsInjective
<1>4. IsFiniteSet(1 .. submitted) /\ Cardinality(1 .. submitted) = submitted
  BY <1>1, FS_Interval
<1>5. IsFiniteSet(Used) /\ Cardinality(Used) <= submitted
  BY <1>3, <1>4, FS_Injection
<1>6. Cardinality(Used) \in Nat
  BY <1>5, FS_CardinalityType
<1>7. NewId = Cardinality(Used)
  BY DEF NewId
<1>. HIDE DEF Used
<1>. QED
  BY <1>1, <1>5, <1>6, <1>7 DEF HTTPRequestSetId

\* consume_msgs keeps the types and the keys of the maps, and sends a request
\* again only while the bound on answers 429 allows another answer.
LEMMA ConsumeType ==
  ASSUME TypeOK, ClientInv, NEW k \in Set, ConsumeMsgs(k), code' = code
  PROVE  /\ responses' \in [HTTPRequestSetId -> [Index -> Response] \cup {<<>>}]
         /\ \A id \in HTTPRequestSetId : responses'[id] = <<>> <=> responses[id] = <<>>
         /\ transfer' \in [Set -> [Index -> {"none", "running", "done", "gone"}]]
         /\ attempts' \in [Set -> [Index -> 0 .. Max429 + 1]]
         /\ \A l \in Set, i \in Index : RetryInv(l, i)'
<1>. DEFINE id == id_of[k]
<1>0. id \in HTTPRequestSetId
  BY DEF TypeOK
<1>1. CASE requests[id] = None
  <2>1. UNCHANGED <<responses, transfer, attempts>>
    BY <1>1 DEF ConsumeMsgs
  <2>. QED
    BY <2>1 DEF TypeOK, ClientInv, RetryInv
<1>2. CASE requests[id] # None
  <2>1. /\ responses' = [responses EXCEPT ![id] =
             [i \in Index |-> IF Stored(k, i) THEN [from |-> k, status |-> code[k][i]]
                              ELSE responses[id][i]]]
        /\ transfer' = [transfer EXCEPT ![k] =
             [i \in Index |-> IF Retry(k, i) THEN "running"
                              ELSE IF Stored(k, i) THEN "gone" ELSE transfer[k][i]]]
        /\ attempts' = [attempts EXCEPT ![k] =
             [i \in Index |-> IF Retry(k, i) THEN attempts[k][i] + 1 ELSE attempts[k][i]]]
    BY <1>2 DEF ConsumeMsgs
  <2>2. responses[id] \in [Index -> Response]
    BY <1>0, <1>2 DEF ClientInv, MapInv, TypeOK
  <2>3. ASSUME NEW i \in Index, Stored(k, i)
        PROVE  [from |-> k, status |-> code[k][i]] \in Response
    BY <2>3 DEF Stored, TypeOK, Response
  <2>4. [i \in Index |-> IF Stored(k, i) THEN [from |-> k, status |-> code[k][i]]
                         ELSE responses[id][i]] \in [Index -> Response]
    BY <2>2, <2>3
  <2>5. /\ responses' \in [HTTPRequestSetId -> [Index -> Response] \cup {<<>>}]
        /\ \A j \in HTTPRequestSetId : responses'[j] = <<>> <=> responses[j] = <<>>
    BY <1>0, <2>1, <2>2, <2>4, NotEmpty DEF TypeOK
  <2>6. transfer' \in [Set -> [Index -> {"none", "running", "done", "gone"}]]
    BY <2>1 DEF TypeOK
  <2>7. ASSUME NEW i \in Index, Retry(k, i) PROVE attempts[k][i] + 1 \in 0 .. Max429 + 1
    BY <2>7, ClientAssumption DEF Retry, ClientInv, RetryInv, TypeOK
  <2>8. attempts' \in [Set -> [Index -> 0 .. Max429 + 1]]
    BY <2>1, <2>7 DEF TypeOK
  <2>9. ASSUME NEW l \in Set, NEW i \in Index PROVE RetryInv(l, i)'
    <3>1. RetryInv(l, i)
      BY DEF ClientInv
    <3>2. CASE l # k
      <4>1. transfer'[l] = transfer[l] /\ attempts'[l] = attempts[l]
        BY <2>1, <3>2 DEF TypeOK
      <4>. QED
        BY <3>1, <4>1 DEF RetryInv
    <3>3. CASE l = k
      <4>1. transfer'[l][i] = (IF Retry(k, i) THEN "running"
                               ELSE IF Stored(k, i) THEN "gone" ELSE transfer[k][i])
        BY <2>1, <3>3 DEF TypeOK
      <4>2. ~(transfer'[l][i] = "done")
        BY <4>1 DEF Retry, Stored
      <4>. QED
        BY <4>2 DEF RetryInv
    <3>. QED
      BY <3>2, <3>3
  <2>. QED
    BY <2>5, <2>6, <2>8, <2>9
<1>. QED
  BY <1>1, <1>2

----------------------------------------------------------------------------
(***************************************************************************)
(* Every step keeps the types and the invariant.                           *)
(***************************************************************************)

MonitorPoint == {"none", "loop", "isComplete", "wait", "finish", "callback", "continue",
                 "stop", "cleanup", "ended"}

\* A monitor thread that has called back is past polling.
Past(p, going) == p \in {"callback", "stop", "cleanup", "ended"} \/ (p = "loop" /\ ~going)

\* A step of a monitor thread that changes neither the maps nor the transfers.
LEMMA MonitorMoves ==
  ASSUME TypeOK, ClientInv, NEW k \in Set, mpc[k] # "none",
         UNCHANGED <<requests, responses, monitor_threads, submitted, id_of, transfer, code,
                     attempts, mtx, alive, delivered, calls>>,
         \A l \in Set : l # k => mpc'[l] = mpc[l] /\ keep_going'[l] = keep_going[l],
         mpc' \in [Set -> MonitorPoint], keep_going' \in [Set -> BOOLEAN],
         cleaned' \subseteq Set, dangling' \in BOOLEAN, terminated' \in BOOLEAN,
         Past(mpc[k], keep_going[k]) => Past(mpc'[k], keep_going'[k])
  PROVE  TypeOK' /\ ClientInv'
<1>1. TypeOK'
  BY DEF TypeOK, MonitorPoint
<1>2. \A id \in HTTPRequestSetId : MapInv(id)'
  BY DEF ClientInv, MapInv
<1>3. \A l \in Set, i \in Index : RetryInv(l, i)'
  BY DEF ClientInv, RetryInv
<1>4. ASSUME NEW l \in Set PROVE MonitorInv(l)'
  <2>1. MonitorInv(l) /\ MonitorInv(k)
    BY DEF ClientInv
  <2>2. CASE l # k
    BY <2>1, <2>2 DEF MonitorInv
  <2>3. CASE l = k
    BY <2>1, <2>3 DEF MonitorInv, Past
  <2>. QED
    BY <2>2, <2>3
<1>. QED
  BY <1>1, <1>2, <1>3, <1>4 DEF ClientInv

\* The steps of a monitor thread that change neither.
LEMMA MovesKeep ==
  ASSUME TypeOK, ClientInv, NEW k \in Set,
         \/ Loop(k) \/ IsComplete(k) \/ WaitFails(k) \/ Continue(k) \/ Stop(k)
         \/ Cleanup(k) \/ UseDestroyed(k)
  PROVE  TypeOK' /\ ClientInv'
<1>0. /\ mpc \in [Set -> MonitorPoint] /\ keep_going \in [Set -> BOOLEAN]
      /\ cleaned \subseteq Set /\ dangling \in BOOLEAN /\ terminated \in BOOLEAN
  BY DEF TypeOK, MonitorPoint
<1>. DEFINE Same == UNCHANGED <<requests, responses, monitor_threads, submitted, id_of,
                                transfer, code, attempts, mtx, alive, delivered, calls>>
            Others == \A l \in Set : l # k => mpc'[l] = mpc[l] /\ keep_going'[l] = keep_going[l]
            Typed == /\ mpc' \in [Set -> MonitorPoint] /\ keep_going' \in [Set -> BOOLEAN]
                     /\ cleaned' \subseteq Set /\ dangling' \in BOOLEAN /\ terminated' \in BOOLEAN
            Moves == Past(mpc[k], keep_going[k]) => Past(mpc'[k], keep_going'[k])
<1>1. CASE Loop(k)
  <2>1. /\ mpc[k] = "loop" /\ Same /\ UNCHANGED <<keep_going, cleaned, dangling, terminated>>
        /\ mpc' = [mpc EXCEPT ![k] = IF keep_going[k] THEN "isComplete" ELSE "cleanup"]
    BY <1>1 DEF Loop, On, Goto, mapVars, netVars, outVars, faultVars
  <2>2. Others /\ Typed /\ Moves
    BY <1>0, <2>1 DEF Past, MonitorPoint
  <2>. QED
    BY <2>1, <2>2, MonitorMoves
<1>2. CASE IsComplete(k)
  <2>1. /\ mpc[k] = "isComplete" /\ Same /\ UNCHANGED <<keep_going, cleaned>>
        /\ dangling' \in BOOLEAN /\ terminated' \in BOOLEAN
    BY <1>0, <1>2 DEF IsComplete, On, Terminate, mapVars, netVars, outVars
  <2>2. PICK q \in MonitorPoint : mpc' = [mpc EXCEPT ![k] = q]
    <3>1. CASE requests[id_of[k]] = None
      <4>1. mpc' = mpc
        BY <1>2, <3>1 DEF IsComplete
      <4>2. mpc = [mpc EXCEPT ![k] = mpc[k]] /\ mpc[k] \in MonitorPoint
        BY <1>0
      <4>. QED
        BY <4>1, <4>2
    <3>2. CASE requests[id_of[k]] # None
      BY <1>2, <3>2 DEF IsComplete, Goto, MonitorPoint
    <3>. QED
      BY <3>1, <3>2
  <2>3. Others /\ Typed /\ Moves
    BY <1>0, <2>1, <2>2 DEF Past
  <2>. QED
    BY <2>1, <2>3, MonitorMoves
<1>3. CASE WaitFails(k)
  <2>1. /\ mpc[k] = "wait" /\ Same /\ UNCHANGED <<keep_going, cleaned, mpc, dangling>>
        /\ terminated' \in BOOLEAN
    BY <1>0, <1>3 DEF WaitFails, On, Terminate, mapVars, netVars, threadVars, outVars
  <2>2. Others /\ Typed /\ Moves
    BY <1>0, <2>1
  <2>. QED
    BY <2>1, <2>2, MonitorMoves
<1>4. CASE Continue(k)
  <2>1. /\ mpc[k] = "continue" /\ Same /\ UNCHANGED <<cleaned, dangling, terminated>>
        /\ mpc' = [mpc EXCEPT ![k] = "loop"] /\ keep_going' = [keep_going EXCEPT ![k] = TRUE]
    BY <1>4 DEF Continue, On, Goto, mapVars, netVars, outVars, faultVars
  <2>2. Others /\ Typed /\ Moves
    BY <1>0, <2>1 DEF Past, MonitorPoint
  <2>. QED
    BY <2>1, <2>2, MonitorMoves
<1>5. CASE Stop(k)
  <2>1. /\ mpc[k] = "stop" /\ Same /\ UNCHANGED <<cleaned, dangling, terminated>>
        /\ mpc' = [mpc EXCEPT ![k] = "loop"] /\ keep_going' = [keep_going EXCEPT ![k] = FALSE]
    BY <1>5 DEF Stop, On, Goto, mapVars, netVars, outVars, faultVars
  <2>2. Others /\ Typed /\ Moves
    BY <1>0, <2>1 DEF Past, MonitorPoint
  <2>. QED
    BY <2>1, <2>2, MonitorMoves
<1>6. CASE Cleanup(k)
  <2>1. /\ mpc[k] = "cleanup" /\ Same /\ UNCHANGED <<keep_going, dangling, terminated>>
        /\ mpc' = [mpc EXCEPT ![k] = "ended"] /\ cleaned' = cleaned \cup {k}
    BY <1>6 DEF Cleanup, On, Goto, mapVars, netVars, outVars, faultVars
  <2>2. Others /\ Typed /\ Moves
    BY <1>0, <2>1 DEF Past, MonitorPoint
  <2>. QED
    BY <2>1, <2>2, MonitorMoves
<1>7. CASE UseDestroyed(k)
  <2>1. /\ mpc[k] # "none" /\ Same /\ UNCHANGED <<keep_going, cleaned, mpc, terminated>>
        /\ dangling' \in BOOLEAN
    BY <1>7 DEF UseDestroyed, UsesObject, mapVars, netVars, threadVars, outVars
  <2>2. Others /\ Typed /\ Moves
    BY <1>0, <2>1
  <2>. QED
    BY <2>1, <2>2, MonitorMoves
<1>. QED
  BY <1>1, <1>2, <1>3, <1>4, <1>5, <1>6, <1>7

\* A new submission: with its monitor thread, or refused by libcurl.
LEMMA SubmitKeeps ==
  ASSUME TypeOK, ClientInv, Submit \/ SubmitFails
  PROVE  TypeOK' /\ ClientInv'
<1>0. PICK k \in Set, id \in HTTPRequestSetId : k = submitted + 1 /\ id = NewId
  <2>1. submitted < MaxSets
    BY DEF Submit, SubmitFails, Submitting
  <2>2. submitted + 1 \in Set
    BY <2>1, ClientAssumption DEF Set, TypeOK
  <2>. QED
    BY <2>1, <2>2, NewIdType
<1>. DEFINE fresh == [i \in Index |-> [from |-> k, status |-> 0]]
<1>1. /\ requests[id] = None /\ submitted' = k /\ k \in Nat /\ submitted' \in 0 .. MaxSets
      /\ requests' = [requests EXCEPT ![id] = k]
      /\ responses' = [responses EXCEPT ![id] = fresh]
      /\ id_of' = [id_of EXCEPT ![k] = id]
      /\ UNCHANGED <<mtx, code, delivered, calls, dangling, terminated>>
  <2>1. CASE Submit
    BY <1>0, <2>1, ClientAssumption DEF Submit, Submitting, outVars, faultVars, Set, TypeOK
  <2>2. CASE SubmitFails
    BY <1>0, <2>2, ClientAssumption DEF SubmitFails, Submitting, netVars, outVars, faultVars, Set, TypeOK
  <2>. QED
    BY <2>1, <2>2
<1>2. fresh \in [Index -> Response]
  BY DEF Response
<1>3. /\ requests' \in [HTTPRequestSetId -> Set \cup {None}]
      /\ responses' \in [HTTPRequestSetId -> [Index -> Response] \cup {<<>>}]
      /\ id_of' \in [Set -> HTTPRequestSetId]
  BY <1>1, <1>2 DEF TypeOK
<1>4. \/ /\ monitor_threads' = [monitor_threads EXCEPT ![id] = k]
         /\ alive' = (alive \ {monitor_threads[id]}) \cup {k}
         /\ keep_going' = [keep_going EXCEPT ![k] = TRUE]
         /\ mpc' = [mpc EXCEPT ![k] = "loop"] /\ cleaned' = cleaned
         /\ transfer' = [transfer EXCEPT ![k] = [i \in Index |-> "running"]]
         /\ attempts' = [attempts EXCEPT ![k] = [i \in Index |-> 1]]
      \/ /\ UNCHANGED <<monitor_threads, alive, keep_going, mpc, transfer, attempts>>
         /\ cleaned' = cleaned \cup {k}
  BY <1>0 DEF Submit, Start, SubmitFails, netVars
<1>5. 1 \in 0 .. Max429 + 1
  BY ClientAssumption
<1>6. TypeOK'
  <2>1. /\ monitor_threads' \in [HTTPRequestSetId -> Set \cup {None}]
        /\ alive' \subseteq Set /\ keep_going' \in [Set -> BOOLEAN] /\ cleaned' \subseteq Set
    <3>1. /\ monitor_threads \in [HTTPRequestSetId -> Set \cup {None}]
          /\ alive \subseteq Set /\ cleaned \subseteq Set
      BY DEF TypeOK
    <3>2. keep_going \in [Set -> BOOLEAN]
      BY DEF TypeOK
    <3>3. monitor_threads' \in [HTTPRequestSetId -> Set \cup {None}]
      BY <1>4, <3>1
    <3>4. alive' \subseteq Set /\ cleaned' \subseteq Set
      BY <1>4, <3>1
    <3>5. keep_going' \in [Set -> BOOLEAN]
      BY <1>4, <3>2
    <3>. QED
      BY <3>3, <3>4, <3>5
  <2>2. mpc' \in [Set -> MonitorPoint]
    <3>1. mpc \in [Set -> MonitorPoint] /\ "loop" \in MonitorPoint
      BY DEF TypeOK, MonitorPoint
    <3>. QED
      BY <1>4, <3>1
  <2>3. transfer' \in [Set -> [Index -> {"none", "running", "done", "gone"}]]
    <3>1. [i \in Index |-> "running"] \in [Index -> {"none", "running", "done", "gone"}]
      OBVIOUS
    <3>2. transfer \in [Set -> [Index -> {"none", "running", "done", "gone"}]]
      BY DEF TypeOK
    <3>. QED
      BY <1>4, <3>1, <3>2
  <2>4. attempts' \in [Set -> [Index -> 0 .. Max429 + 1]]
    <3>1. [i \in Index |-> 1] \in [Index -> 0 .. Max429 + 1]
      BY <1>5
    <3>2. attempts \in [Set -> [Index -> 0 .. Max429 + 1]]
      BY DEF TypeOK
    <3>. QED
      BY <1>4, <3>1, <3>2
  <2>. QED
    BY <1>1, <1>3, <2>1, <2>2, <2>3, <2>4 DEF TypeOK, MonitorPoint
<1>7. /\ id_of'[k] = id
      /\ \A l \in Set : l <= submitted => l # k /\ id_of'[l] = id_of[l]
  BY <1>0, <1>1, ClientAssumption DEF TypeOK, Set
<1>8. k # None
  BY ClientAssumption DEF Set, None
<1>9. ASSUME NEW j \in HTTPRequestSetId PROVE MapInv(j)'
  <2>1. MapInv(j) /\ requests[j] \in Set \cup {None} /\ monitor_threads[j] \in Set \cup {None}
    BY DEF ClientInv, TypeOK
  <2>2. /\ requests'[j] = IF j = id THEN k ELSE requests[j]
        /\ responses'[j] = IF j = id THEN fresh ELSE responses[j]
        /\ monitor_threads'[j] = monitor_threads[j] \/ (j = id /\ monitor_threads'[j] = k)
    BY <1>1, <1>4 DEF TypeOK
  <2>3. \A l \in Set : l <= submitted => l <= submitted'
    BY <1>0, <1>1, ClientAssumption DEF Set, TypeOK
  <2>4. k <= submitted'
    BY <1>1
  <2>5. (requests'[j] = None) <=> (responses'[j] = <<>>)
    BY <1>2, <1>8, <2>1, <2>2, NotEmpty DEF MapInv
  <2>6. requests'[j] # None => id_of'[requests'[j]] = j /\ requests'[j] <= submitted'
    BY <1>7, <2>1, <2>2, <2>3, <2>4 DEF MapInv
  <2>7. monitor_threads'[j] # None =>
          id_of'[monitor_threads'[j]] = j /\ monitor_threads'[j] <= submitted'
    BY <1>7, <2>1, <2>2, <2>3, <2>4 DEF MapInv
  <2>. QED
    BY <2>5, <2>6, <2>7 DEF MapInv
<1>10. ASSUME NEW l \in Set PROVE MonitorInv(l)'
  <2>1. MonitorInv(l) /\ MonitorInv(k) /\ k > submitted
    BY <1>0, ClientAssumption DEF ClientInv, TypeOK
  <2>2. CASE l = k
    <3>1. ~(k > submitted') /\ calls'[k] = 0
      BY <1>1, <2>1 DEF MonitorInv
    <3>2. k \in alive' => monitor_threads'[id] = k
      BY <1>4, <2>1 DEF MonitorInv, TypeOK
    <3>. QED
      BY <1>7, <2>2, <3>1, <3>2 DEF MonitorInv
  <2>3. CASE l # k
    <3>1. /\ l > submitted' => l > submitted
          /\ mpc'[l] = mpc[l] /\ keep_going'[l] = keep_going[l] /\ calls'[l] = calls[l]
          /\ l \in alive' => l \in alive
      BY <1>0, <1>1, <1>4, <2>3, ClientAssumption DEF TypeOK, Set
    <3>2. l \in alive' => monitor_threads'[id_of'[l]] = l
      <4>. SUFFICES ASSUME l \in alive' PROVE monitor_threads'[id_of'[l]] = l
        OBVIOUS
      <4>1. l \in alive /\ monitor_threads[id_of[l]] = l /\ id_of[l] \in HTTPRequestSetId
        BY <2>1, <3>1 DEF MonitorInv, TypeOK
      <4>2. id_of'[l] = id_of[l]
        BY <1>1, <2>3 DEF TypeOK
      <4>. QED
        BY <1>4, <4>1, <4>2 DEF TypeOK
    <3>. QED
      BY <2>1, <3>1, <3>2 DEF MonitorInv
  <2>. QED
    BY <2>2, <2>3
<1>11. ASSUME NEW l \in Set, NEW i \in Index PROVE RetryInv(l, i)'
  <2>1. RetryInv(l, i) /\ code'[l][i] = code[l][i]
    BY <1>1 DEF ClientInv
  <2>2. CASE l # k \/ UNCHANGED <<transfer, attempts>>
    <3>1. transfer'[l] = transfer[l] /\ attempts'[l] = attempts[l]
      BY <1>4, <2>2 DEF TypeOK
    <3>. QED
      BY <2>1, <3>1 DEF RetryInv
  <2>3. CASE l = k /\ ~UNCHANGED <<transfer, attempts>>
    <3>1. transfer'[l][i] = "running"
      BY <1>4, <2>3 DEF TypeOK
    <3>. QED
      BY <3>1 DEF RetryInv
  <2>. QED
    BY <2>2, <2>3
<1>. QED
  BY <1>6, <1>9, <1>10, <1>11 DEF ClientInv

\* wait_perform_and_consume: the transfers that ended are consumed.
LEMMA WaitKeeps ==
  ASSUME TypeOK, ClientInv, NEW k \in Set, Wait(k)
  PROVE  TypeOK' /\ ClientInv'
<1>1. /\ mpc[k] = "wait" /\ mpc' = [mpc EXCEPT ![k] = "continue"]
      /\ UNCHANGED <<requests, monitor_threads, submitted, id_of, code, mtx, alive, keep_going,
                     cleaned, delivered, calls, dangling, terminated>>
      /\ ConsumeMsgs(k)
  BY DEF Wait, On, Goto, outVars, faultVars
<1>2. /\ responses' \in [HTTPRequestSetId -> [Index -> Response] \cup {<<>>}]
      /\ \A id \in HTTPRequestSetId : responses'[id] = <<>> <=> responses[id] = <<>>
      /\ transfer' \in [Set -> [Index -> {"none", "running", "done", "gone"}]]
      /\ attempts' \in [Set -> [Index -> 0 .. Max429 + 1]]
      /\ \A l \in Set, i \in Index : RetryInv(l, i)'
  BY <1>1, ConsumeType
<1>3. TypeOK'
  BY <1>1, <1>2 DEF TypeOK
<1>4. \A id \in HTTPRequestSetId : MapInv(id)'
  BY <1>1, <1>2 DEF ClientInv, MapInv
<1>5. \A l \in Set : MonitorInv(l)'
  BY <1>1 DEF ClientInv, MonitorInv, TypeOK
<1>. QED
  BY <1>2, <1>3, <1>4, <1>5 DEF ClientInv

\* poll on a complete set: a thread that has not called back yet calls back.
LEMMA FinishKeeps ==
  ASSUME TypeOK, ClientInv, NEW k \in Set, Finish(k)
  PROVE  TypeOK' /\ ClientInv'
<1>1. /\ mpc[k] = "finish" /\ ConsumeMsgs(k)
      /\ UNCHANGED <<requests, monitor_threads, submitted, id_of, code, alive, keep_going,
                     cleaned>>
  BY DEF Finish, On
<1>2. /\ responses' \in [HTTPRequestSetId -> [Index -> Response] \cup {<<>>}]
      /\ \A id \in HTTPRequestSetId : responses'[id] = <<>> <=> responses[id] = <<>>
      /\ transfer' \in [Set -> [Index -> {"none", "running", "done", "gone"}]]
      /\ attempts' \in [Set -> [Index -> 0 .. Max429 + 1]]
      /\ \A l \in Set, i \in Index : RetryInv(l, i)'
  BY <1>1, ConsumeType
<1>3. \/ terminated' = TRUE /\ UNCHANGED <<mtx, mpc, delivered, calls, dangling>>
      \/ /\ mtx' = k /\ delivered' = [delivered EXCEPT ![k] = responses'[id_of[k]]]
         /\ calls' = [calls EXCEPT ![k] = calls[k] + 1]
         /\ mpc' = [mpc EXCEPT ![k] = "callback"] /\ UNCHANGED <<dangling, terminated>>
  BY DEF Finish, Goto, Terminate, outVars, faultVars
<1>4. calls[k] = 0
  BY <1>1 DEF ClientInv, MonitorInv
<1>5. TypeOK'
  <2>1. id_of[k] \in HTTPRequestSetId
    BY DEF TypeOK
  <2>2. /\ mtx' \in Set \cup {None} /\ delivered' \in [Set -> [Index -> Response] \cup {<<>>}]
        /\ terminated' \in BOOLEAN /\ dangling' \in BOOLEAN
    <3>1. mtx' \in Set \cup {None} /\ terminated' \in BOOLEAN /\ dangling' \in BOOLEAN
      BY <1>3 DEF TypeOK
    <3>2. /\ responses'[id_of[k]] \in [Index -> Response] \cup {<<>>}
          /\ delivered \in [Set -> [Index -> Response] \cup {<<>>}]
      BY <1>2, <2>1 DEF TypeOK
    <3>. QED
      BY <1>3, <3>1, <3>2
  <2>3. calls' \in [Set -> Nat]
    BY <1>3, <1>4 DEF TypeOK
  <2>4. mpc' \in [Set -> MonitorPoint]
    <3>1. mpc \in [Set -> MonitorPoint] /\ "callback" \in MonitorPoint
      BY DEF TypeOK, MonitorPoint
    <3>. QED
      BY <1>3, <3>1
  <2>. QED
    BY <1>1, <1>2, <2>2, <2>3, <2>4 DEF TypeOK, MonitorPoint
<1>6. \A id \in HTTPRequestSetId : MapInv(id)'
  BY <1>1, <1>2 DEF ClientInv, MapInv
<1>7. ASSUME NEW l \in Set PROVE MonitorInv(l)'
  <2>1. MonitorInv(l)
    BY DEF ClientInv
  <2>2. CASE l # k
    BY <1>1, <1>3, <2>1, <2>2 DEF MonitorInv, TypeOK
  <2>3. CASE l = k
    BY <1>1, <1>3, <1>4, <2>1, <2>3 DEF MonitorInv, TypeOK
  <2>. QED
    BY <2>2, <2>3
<1>. QED
  BY <1>2, <1>5, <1>6, <1>7 DEF ClientInv

\* The callback returns: the set leaves both maps and the thread stops.
LEMMA CallbackReturnsKeeps ==
  ASSUME TypeOK, ClientInv, NEW k \in Set, CallbackReturns(k)
  PROVE  TypeOK' /\ ClientInv'
<1>1. PICK id \in HTTPRequestSetId : id = id_of[k]
  BY DEF TypeOK
<1>2. /\ mpc[k] = "callback" /\ mpc' = [mpc EXCEPT ![k] = "stop"] /\ mtx' = None
      /\ requests' = [requests EXCEPT ![id] = None]
      /\ responses' = [responses EXCEPT ![id] = <<>>]
      /\ dangling' \in BOOLEAN
      /\ UNCHANGED <<monitor_threads, submitted, id_of, transfer, code, attempts, alive,
                     cleaned, delivered, calls, terminated>>
  BY <1>1 DEF CallbackReturns, On, Goto, netVars, outVars, TypeOK
<1>3. \/ keep_going' = keep_going
      \/ \E l \in Set : keep_going' = [keep_going EXCEPT ![l] = FALSE]
  <2>1. monitor_threads[id] \in Set \cup {None}
    BY DEF TypeOK
  <2>. QED
    BY <1>1, <2>1 DEF CallbackReturns
<1>4. TypeOK'
  <2>1. keep_going' \in [Set -> BOOLEAN]
    BY <1>3 DEF TypeOK
  <2>2. mpc' \in [Set -> MonitorPoint]
    <3>1. mpc \in [Set -> MonitorPoint] /\ "stop" \in MonitorPoint
      BY DEF TypeOK, MonitorPoint
    <3>. QED
      BY <1>2, <3>1
  <2>3. /\ requests' \in [HTTPRequestSetId -> Set \cup {None}]
        /\ responses' \in [HTTPRequestSetId -> [Index -> Response] \cup {<<>>}]
    BY <1>2 DEF TypeOK
  <2>. QED
    BY <1>2, <2>1, <2>2, <2>3 DEF TypeOK, MonitorPoint
<1>5. ASSUME NEW j \in HTTPRequestSetId PROVE MapInv(j)'
  <2>1. MapInv(j)
    BY DEF ClientInv
  <2>2. /\ requests'[j] = IF j = id THEN None ELSE requests[j]
        /\ responses'[j] = IF j = id THEN <<>> ELSE responses[j]
    BY <1>2 DEF TypeOK
  <2>. QED
    BY <1>2, <2>1, <2>2 DEF MapInv
<1>6. ASSUME NEW l \in Set PROVE MonitorInv(l)'
  <2>1. MonitorInv(l)
    BY DEF ClientInv
  <2>2. keep_going'[l] => keep_going[l]
    BY <1>3 DEF TypeOK
  <2>3. CASE l = k
    BY <1>2, <2>1, <2>3 DEF MonitorInv, TypeOK
  <2>4. CASE l # k
    BY <1>2, <2>1, <2>2, <2>4 DEF MonitorInv, TypeOK
  <2>. QED
    BY <2>3, <2>4
<1>7. \A l \in Set, i \in Index : RetryInv(l, i)'
  BY <1>2 DEF ClientInv, RetryInv
<1>. QED
  BY <1>4, <1>5, <1>6, <1>7 DEF ClientInv

\* erase takes the set out of the three maps and destroys its monitor object.
LEMMA EraseKeeps ==
  ASSUME TypeOK, ClientInv, NEW id \in HTTPRequestSetId, Erase(id)
  PROVE  TypeOK' /\ ClientInv'
<1>1. /\ monitor_threads' = [monitor_threads EXCEPT ![id] = None]
      /\ alive' = alive \ {monitor_threads[id]}
      /\ requests' = [requests EXCEPT ![id] = None]
      /\ responses' = [responses EXCEPT ![id] = <<>>]
      /\ dangling' \in BOOLEAN
      /\ UNCHANGED <<submitted, id_of, transfer, code, attempts, mtx, keep_going, cleaned, mpc,
                     delivered, calls, terminated>>
  BY DEF Erase, netVars, outVars, TypeOK
<1>2. TypeOK'
  BY <1>1 DEF TypeOK
<1>3. ASSUME NEW j \in HTTPRequestSetId PROVE MapInv(j)'
  <2>1. MapInv(j)
    BY DEF ClientInv
  <2>2. /\ requests'[j] = IF j = id THEN None ELSE requests[j]
        /\ responses'[j] = IF j = id THEN <<>> ELSE responses[j]
        /\ monitor_threads'[j] = IF j = id THEN None ELSE monitor_threads[j]
    BY <1>1 DEF TypeOK
  <2>. QED
    BY <1>1, <2>1, <2>2 DEF MapInv
<1>4. ASSUME NEW l \in Set PROVE MonitorInv(l)'
  <2>1. MonitorInv(l) /\ id_of[l] \in HTTPRequestSetId
    BY DEF ClientInv, TypeOK
  <2>2. l \in alive' => l \in alive /\ monitor_threads'[id_of[l]] = l
    BY <1>1, <2>1 DEF MonitorInv, TypeOK
  <2>. QED
    BY <1>1, <2>1, <2>2 DEF MonitorInv
<1>5. \A l \in Set, i \in Index : RetryInv(l, i)'
  BY <1>1 DEF ClientInv, RetryInv
<1>. QED
  BY <1>2, <1>3, <1>4, <1>5 DEF ClientInv

\* A transfer ends: 429 is answered only within the bound.
LEMMA TransferKeeps ==
  ASSUME TypeOK, ClientInv, NEW k \in Set, NEW i \in Index, TransferEnds(k, i)
  PROVE  TypeOK' /\ ClientInv'
<1>1. PICK c \in Codes \cup {0, 429} : /\ code' = [code EXCEPT ![k][i] = c]
                                       /\ c = 429 => attempts[k][i] <= Max429
  <2>1. PICK c \in Codes \cup (IF attempts[k][i] <= Max429 THEN {429} ELSE {})
                         \cup (IF "transport" \in Faults THEN {0} ELSE {}) :
          code' = [code EXCEPT ![k][i] = c]
    BY DEF TransferEnds
  <2>2. c \in Codes \cup {0, 429} /\ (c = 429 => attempts[k][i] <= Max429)
    <3>1. 429 \notin Codes
      BY DEF Codes
    <3>. QED
      BY <3>1
  <2>. QED
    BY <2>1, <2>2
<1>2. /\ transfer' = [transfer EXCEPT ![k][i] = "done"]
      /\ UNCHANGED <<requests, responses, monitor_threads, submitted, id_of, attempts, mtx,
                     alive, keep_going, cleaned, mpc, delivered, calls, dangling, terminated>>
  BY DEF TransferEnds, mapVars, threadVars, outVars, faultVars
<1>3. /\ code' \in [Set -> [Index -> Codes \cup {0, 429}]]
      /\ transfer' \in [Set -> [Index -> {"none", "running", "done", "gone"}]]
  BY <1>1, <1>2 DEF TypeOK
<1>4. TypeOK'
  BY <1>2, <1>3 DEF TypeOK
<1>5. ASSUME NEW l \in Set, NEW j \in Index PROVE RetryInv(l, j)'
  <2>1. RetryInv(l, j)
    BY DEF ClientInv
  <2>2. CASE l = k /\ j = i
    <3>1. code'[l][j] = c
      BY <1>1, <2>2 DEF TypeOK
    <3>. QED
      BY <1>1, <1>2, <2>2, <3>1 DEF RetryInv
  <2>3. CASE ~(l = k /\ j = i)
    <3>1. code'[l][j] = code[l][j] /\ transfer'[l][j] = transfer[l][j]
      BY <1>1, <1>2, <2>3 DEF TypeOK
    <3>. QED
      BY <1>2, <2>1, <3>1 DEF RetryInv
  <2>. QED
    BY <2>2, <2>3
<1>6. /\ \A id \in HTTPRequestSetId : MapInv(id)'
      /\ \A l \in Set : MonitorInv(l)'
  BY <1>2 DEF ClientInv, MapInv, MonitorInv
<1>. QED
  BY <1>4, <1>5, <1>6 DEF ClientInv

\* An id in use: submit throws, and only the count of submissions grows.
LEMMA CollisionKeeps ==
  ASSUME TypeOK, ClientInv, SubmitCollides
  PROVE  TypeOK' /\ ClientInv'
<1>1. /\ submitted < MaxSets /\ submitted' = submitted + 1
      /\ UNCHANGED <<requests, responses, monitor_threads, id_of, transfer, code, attempts, mtx,
                     alive, keep_going, cleaned, mpc, delivered, calls, dangling, terminated>>
  BY DEF SubmitCollides, Submitting, mapVars, netVars, threadVars, outVars, faultVars
<1>2. TypeOK'
  BY <1>1, ClientAssumption DEF TypeOK
<1>3. \A l \in Set : (l <= submitted => l <= submitted') /\ (l > submitted' => l > submitted)
  BY <1>1, ClientAssumption DEF Set, TypeOK
<1>4. ASSUME NEW j \in HTTPRequestSetId PROVE MapInv(j)'
  <2>1. MapInv(j) /\ requests[j] \in Set \cup {None} /\ monitor_threads[j] \in Set \cup {None}
    BY DEF ClientInv, TypeOK
  <2>. QED
    BY <1>1, <1>3, <2>1 DEF MapInv
<1>5. \A l \in Set : MonitorInv(l)'
  BY <1>1, <1>3 DEF ClientInv, MonitorInv
<1>6. \A l \in Set, i \in Index : RetryInv(l, i)'
  BY <1>1 DEF ClientInv, RetryInv
<1>. QED
  BY <1>2, <1>4, <1>5, <1>6 DEF ClientInv

\* Every step keeps the types and the invariant.
LEMMA ClientStep ==
  ASSUME TypeOK, ClientInv, [Next]_vars
  PROVE  TypeOK' /\ ClientInv'
<1>1. CASE UNCHANGED vars
  BY <1>1 DEF vars, mapVars, netVars, threadVars, outVars, faultVars, TypeOK, ClientInv, MapInv,
     MonitorInv, RetryInv
<1>. QED
  BY <1>1, SubmitKeeps, CollisionKeeps, MovesKeep, WaitKeeps, FinishKeeps, CallbackReturnsKeeps,
     TransferKeeps, EraseKeeps DEF Next, MonitorStep

\* Initially.
LEMMA ClientStart ==
  ASSUME Init PROVE TypeOK /\ ClientInv
<1>1. 0 \in HTTPRequestSetId /\ 0 \in 0 .. MaxSets /\ 0 \in 0 .. Max429 + 1
  BY ClientAssumption DEF HTTPRequestSetId
<1>2. TypeOK
  BY <1>1 DEF Init, TypeOK
<1>3. ClientInv
  BY DEF Init, ClientInv, MapInv, MonitorInv, RetryInv
<1>. QED
  BY <1>2, <1>3

\* The invariant holds throughout, with the types.
LEMMA ClientInvHolds == Spec => [](TypeOK /\ ClientInv)
<1>1. Init => TypeOK /\ ClientInv
  BY ClientStart
<1>2. TypeOK /\ ClientInv /\ [Next]_vars => TypeOK' /\ ClientInv'
  BY ClientStep
<1>. QED
  BY <1>1, <1>2, PTL DEF Spec

\* Whatever libcurl reports and the application calls, every variable keeps
\* its type: the new id, the size of the request map, is always in range, and
\* no vector of responses is indexed that is not there.
THEOREM TypeCorrect == Spec => []TypeOK
BY ClientInvHolds, PTL

(***************************************************************************)
(* No set is called back twice, whatever libcurl reports and even if the   *)
(* application erases sets that are being polled.                          *)
(***************************************************************************)
THEOREM AlwaysCalledOnce == Spec => []CalledOnce
<1>1. ClientInv => CalledOnce
  BY DEF ClientInv, MonitorInv, CalledOnce
<1>. QED
  BY <1>1, ClientInvHolds, PTL

(***************************************************************************)
(* The request and the response map have the same keys, and among the      *)
(* threads whose object exists at most one polls a set id: the assignment  *)
(* to monitor_threads[id] in submit destroys the object of the other.      *)
(***************************************************************************)
THEOREM SetsAlwaysPaired == Spec => []SetsPaired
<1>1. TypeOK /\ ClientInv => SetsPaired
  <2>. SUFFICES ASSUME TypeOK, ClientInv PROVE SetsPaired
    OBVIOUS
  <2>1. \A id \in HTTPRequestSetId : (requests[id] = None <=> responses[id] = <<>>)
    BY DEF ClientInv, MapInv
  <2>2. ASSUME NEW k \in Set, NEW l \in Set, Polls(k), Polls(l), id_of[k] = id_of[l]
        PROVE  k = l
    BY <2>2 DEF Polls, ClientInv, MonitorInv
  <2>. QED
    BY <2>1, <2>2 DEF SetsPaired
<1>. QED
  BY <1>1, ClientInvHolds, PTL

----------------------------------------------------------------------------
(***************************************************************************)
(* What is delivered.                                                      *)
(***************************************************************************)

\* Consuming the messages of an active thread writes only the responses of its
\* own set, and none that has a status.
LEMMA ConsumeOwn ==
  ASSUME TypeOK, ClientInv, OwnInv, NEW k \in Set, Active(k), ConsumeMsgs(k),
         requests' = requests
  PROVE  /\ \A j \in HTTPRequestSetId, i \in Index : ResponseInv(j, i)'
         /\ \A j \in HTTPRequestSetId : j # id_of[k] => responses'[j] = responses[j]
         /\ \A i \in Index : responses[id_of[k]][i].status # 0 =>
                               responses'[id_of[k]][i] = responses[id_of[k]][i]
<1>1. PICK id \in HTTPRequestSetId : id = id_of[k]
  BY DEF TypeOK
<1>2. requests[id] = k /\ k # None
  BY <1>1, ClientAssumption DEF OwnInv, DeliveryInv, Set, None
<1>3. /\ responses' = [responses EXCEPT ![id] =
           [i \in Index |-> IF Stored(k, i) THEN [from |-> k, status |-> code[k][i]]
                            ELSE responses[id][i]]]
      /\ transfer' = [transfer EXCEPT ![k] =
           [i \in Index |-> IF Retry(k, i) THEN "running"
                            ELSE IF Stored(k, i) THEN "gone" ELSE transfer[k][i]]]
  BY <1>1, <1>2 DEF ConsumeMsgs
<1>4. /\ \A j \in HTTPRequestSetId : j # id => responses'[j] = responses[j]
      /\ \A l \in Set : l # k => transfer'[l] = transfer[l]
      /\ \A i \in Index : responses'[id][i] = IF Stored(k, i)
                                              THEN [from |-> k, status |-> code[k][i]]
                                              ELSE responses[id][i]
      /\ \A i \in Index : transfer'[k][i] = IF Retry(k, i) THEN "running"
                                            ELSE IF Stored(k, i) THEN "gone" ELSE transfer[k][i]
  BY <1>3 DEF TypeOK
<1>5. ASSUME NEW i \in Index PROVE ResponseInv(id, i)
  BY DEF OwnInv
<1>6. ASSUME NEW i \in Index, responses[id][i].status # 0
      PROVE  responses'[id][i] = responses[id][i]
  BY <1>2, <1>4, <1>5, <1>6 DEF ResponseInv, Stored
<1>7. ASSUME NEW j \in HTTPRequestSetId, NEW i \in Index PROVE ResponseInv(j, i)'
  <2>1. ResponseInv(j, i) /\ MapInv(j) /\ requests[j] \in Set \cup {None}
    BY DEF OwnInv, ClientInv, TypeOK
  <2>2. CASE j # id
    <3>1. requests[j] # k
      BY <1>1, <1>2, <2>1, <2>2 DEF MapInv
    <3>. QED
      BY <1>4, <2>1, <2>2, <3>1 DEF ResponseInv
  <2>3. CASE j = id
    <3>1. /\ responses[id][i].from = k
          /\ responses[id][i].status # 0 => transfer[k][i] = "gone"
      BY <1>2, <1>5 DEF ResponseInv
    <3>2. CASE Stored(k, i)
      <4>1. responses'[id][i] = [from |-> k, status |-> code[k][i]]
        BY <1>4, <3>2
      <4>2. responses'[id][i].from = k
        BY <4>1
      <4>3. transfer'[k][i] = "gone"
        BY <1>4, <3>2 DEF Stored, Retry
      <4>. QED
        BY <1>2, <2>3, <4>2, <4>3 DEF ResponseInv
    <3>3. CASE ~Stored(k, i)
      <4>1. responses'[id][i] = responses[id][i]
        BY <1>4, <3>3
      <4>2. transfer[k][i] = "gone" => transfer'[k][i] = "gone"
        BY <1>4, <3>3 DEF Retry
      <4>. QED
        BY <1>2, <2>3, <3>1, <4>1, <4>2 DEF ResponseInv
    <3>. QED
      BY <3>2, <3>3
  <2>. QED
    BY <2>2, <2>3
<1>. QED
  BY <1>1, <1>4, <1>6, <1>7

\* A thread that takes part in a step of another active thread's set has
\* another set id.
LEMMA OtherId ==
  ASSUME TypeOK, OwnInv, NEW k \in Set, NEW l \in Set, Active(k), Active(l), l # k
  PROVE  id_of[l] # id_of[k]
BY DEF OwnInv, DeliveryInv

\* The steps of a monitor thread that change neither maps nor transfers.
LEMMA MovesOwn ==
  ASSUME Undisturbed, TypeOK, ClientInv, OwnInv, NEW k \in Set,
         \/ Loop(k) \/ IsComplete(k) \/ WaitFails(k) \/ Continue(k) \/ Stop(k)
         \/ Cleanup(k) \/ UseDestroyed(k)
  PROVE  OwnInv'
<1>1. /\ UNCHANGED <<requests, responses, id_of, transfer, alive, delivered, calls>>
      /\ \A l \in Set : l # k => mpc'[l] = mpc[l] /\ keep_going'[l] = keep_going[l]
  BY DEF Loop, IsComplete, WaitFails, Continue, Stop, Cleanup, UseDestroyed, Terminate, Goto,
     mapVars, netVars, threadVars, outVars, TypeOK
<1>2. \A id \in HTTPRequestSetId, i \in Index : ResponseInv(id, i)'
  BY <1>1 DEF OwnInv, ResponseInv
<1>3. Active(k)' => Active(k)
  BY DEF Loop, IsComplete, WaitFails, Continue, Stop, Cleanup, UseDestroyed, Goto, On, Active,
     threadVars, TypeOK
<1>4. mpc'[k] = "finish" => \A i \in Index : responses[id_of[k]][i].status # 0
  <2>1. CASE IsComplete(k)
    <3>1. CASE requests[id_of[k]] = None
      BY <2>1, <3>1 DEF IsComplete, On
    <3>2. CASE requests[id_of[k]] # None
      BY <2>1, <3>2 DEF IsComplete, AllAnswered, Goto, Undisturbed, TypeOK
    <3>. QED
      BY <3>1, <3>2
  <2>2. CASE mpc' = mpc
    BY <2>2 DEF OwnInv, DeliveryInv
  <2>3. CASE Loop(k) \/ Continue(k) \/ Stop(k) \/ Cleanup(k)
    BY <2>3 DEF Loop, Continue, Stop, Cleanup, Goto, TypeOK
  <2>. QED
    BY <2>1, <2>2, <2>3 DEF WaitFails, UseDestroyed, threadVars
<1>5. ASSUME NEW l \in Set PROVE DeliveryInv(l)'
  <2>1. DeliveryInv(l)
    BY DEF OwnInv
  <2>2. CASE l # k
    BY <1>1, <2>1, <2>2 DEF DeliveryInv, Active
  <2>3. CASE l = k
    BY <1>1, <1>3, <1>4, <2>1, <2>3 DEF DeliveryInv
  <2>. QED
    BY <2>2, <2>3
<1>. QED
  BY <1>2, <1>5 DEF OwnInv

\* A new submission gets an id whose maps are empty: no active thread has it.
LEMMA SubmitOwn ==
  ASSUME TypeOK, ClientInv, OwnInv, Submit \/ SubmitFails
  PROVE  OwnInv'
<1>0. PICK k \in Set, id \in HTTPRequestSetId : k = submitted + 1 /\ id = NewId
  <2>1. submitted < MaxSets
    BY DEF Submit, SubmitFails, Submitting
  <2>2. submitted + 1 \in Set
    BY <2>1, ClientAssumption DEF Set, TypeOK
  <2>. QED
    BY <2>1, <2>2, NewIdType
<1>1. /\ requests[id] = None
      /\ requests' = [requests EXCEPT ![id] = k]
      /\ responses' = [responses EXCEPT ![id] = [i \in Index |-> [from |-> k, status |-> 0]]]
      /\ id_of' = [id_of EXCEPT ![k] = id]
      /\ UNCHANGED <<delivered, calls>>
  BY <1>0 DEF Submit, SubmitFails, outVars
<1>2. \/ /\ alive' = (alive \ {monitor_threads[id]}) \cup {k}
         /\ keep_going' = [keep_going EXCEPT ![k] = TRUE]
         /\ mpc' = [mpc EXCEPT ![k] = "loop"]
         /\ transfer' = [transfer EXCEPT ![k] = [i \in Index |-> "running"]]
      \/ UNCHANGED <<alive, keep_going, mpc, transfer>>
  BY <1>0 DEF Submit, Start, SubmitFails, netVars
<1>3. /\ \A l \in Set : l # k => /\ mpc'[l] = mpc[l] /\ keep_going'[l] = keep_going[l]
                                 /\ transfer'[l] = transfer[l] /\ id_of'[l] = id_of[l]
      /\ \A j \in HTTPRequestSetId : j # id => requests'[j] = requests[j] /\ responses'[j] = responses[j]
      /\ requests'[id] = k /\ id_of'[k] = id
      /\ \A i \in Index : responses'[id][i] = [from |-> k, status |-> 0]
  BY <1>1, <1>2 DEF TypeOK
<1>4. mpc[k] = "none" /\ calls[k] = 0
  BY <1>0, ClientAssumption DEF ClientInv, MonitorInv, TypeOK
<1>5. ASSUME NEW j \in HTTPRequestSetId, NEW i \in Index PROVE ResponseInv(j, i)'
  <2>1. ResponseInv(j, i) /\ MapInv(j) /\ requests[j] \in Set \cup {None}
    BY DEF OwnInv, ClientInv, TypeOK
  <2>2. CASE j = id
    BY <1>3, <2>2 DEF ResponseInv
  <2>3. CASE j # id
    <3>1. requests[j] # k
      BY <1>0, <2>1, ClientAssumption DEF MapInv, TypeOK, Set, None
    <3>. QED
      BY <1>3, <2>1, <2>3, <3>1 DEF ResponseInv
  <2>. QED
    BY <2>2, <2>3
<1>6. ASSUME NEW l \in Set PROVE DeliveryInv(l)'
  <2>1. DeliveryInv(l) /\ id_of[l] \in HTTPRequestSetId
    BY DEF OwnInv, TypeOK
  <2>2. CASE l # k
    <3>1. Active(l)' <=> Active(l)
      BY <1>3, <2>2 DEF Active
    <3>2. Active(l) => id_of[l] # id /\ l # None
      BY <1>1, <2>1, ClientAssumption DEF DeliveryInv, Set, None
    <3>3. Active(l) => l \in alive'
      BY <1>2, <2>1, <3>2 DEF DeliveryInv, ClientInv, MapInv
    <3>4. mpc[l] = "finish" => Active(l)
      BY DEF Active
    <3>. QED
      BY <1>1, <1>3, <2>1, <2>2, <3>1, <3>2, <3>3, <3>4 DEF DeliveryInv
  <2>3. CASE l = k
    <3>1. (mpc'[k] = "loop" /\ k \in alive') \/ mpc'[k] = "none"
      BY <1>2, <1>4 DEF TypeOK
    <3>. QED
      BY <1>1, <1>3, <1>4, <2>3, <3>1 DEF DeliveryInv, Active
  <2>. QED
    BY <2>2, <2>3
<1>. QED
  BY <1>5, <1>6 DEF OwnInv

\* Consuming, with or without the callback: the set was complete when
\* is_complete looked, and nothing it looked at was written since.
LEMMA ConsumeKeepsOwn ==
  ASSUME TypeOK, ClientInv, OwnInv, NEW k \in Set, Wait(k) \/ Finish(k)
  PROVE  OwnInv'
<1>1. /\ mpc[k] \in {"wait", "finish"} /\ ConsumeMsgs(k)
      /\ UNCHANGED <<requests, id_of, alive, keep_going>>
      /\ \A l \in Set : l # k => /\ mpc'[l] = mpc[l] /\ calls'[l] = calls[l]
                                 /\ delivered'[l] = delivered[l]
  BY DEF Wait, Finish, On, Goto, outVars, TypeOK
<1>2. Active(k)
  BY <1>1 DEF Active
<1>3. /\ \A j \in HTTPRequestSetId, i \in Index : ResponseInv(j, i)'
      /\ \A j \in HTTPRequestSetId : j # id_of[k] => responses'[j] = responses[j]
      /\ \A i \in Index : responses[id_of[k]][i].status # 0 =>
                            responses'[id_of[k]][i] = responses[id_of[k]][i]
  BY <1>1, <1>2, ConsumeOwn
<1>4. /\ id_of[k] \in HTTPRequestSetId /\ requests[id_of[k]] = k /\ k \in alive /\ k # None
      /\ responses[id_of[k]] # <<>> /\ calls[k] = 0
  <2>1. id_of[k] \in HTTPRequestSetId
    BY DEF TypeOK
  <2>2. requests[id_of[k]] = k /\ k \in alive
    BY <1>2 DEF OwnInv, DeliveryInv
  <2>3. k # None
    BY ClientAssumption DEF Set, None
  <2>4. responses[id_of[k]] # <<>>
    BY <2>1, <2>2, <2>3 DEF ClientInv, MapInv
  <2>5. MonitorInv(k)
    BY DEF ClientInv
  <2>6. calls[k] = 0
    BY <1>1, <2>5 DEF MonitorInv
  <2>. QED
    BY <2>1, <2>2, <2>3, <2>4, <2>6
<1>5. ASSUME NEW l \in Set, l # k PROVE DeliveryInv(l)'
  <2>1. DeliveryInv(l) /\ id_of[l] \in HTTPRequestSetId
    BY DEF OwnInv, TypeOK
  <2>2. Active(l)' <=> Active(l)
    BY <1>1, <1>5 DEF Active
  <2>3. mpc[l] = "finish" => responses'[id_of[l]] = responses[id_of[l]]
    BY <1>2, <1>3, <1>5, <2>1, OtherId DEF Active
  <2>. QED
    BY <1>1, <1>5, <2>1, <2>2, <2>3 DEF DeliveryInv
<1>6. DeliveryInv(k)'
  <2>1. CASE Wait(k)
    <3>1. mpc'[k] = "continue" /\ calls'[k] = 0
      BY <1>4, <2>1 DEF Wait, Goto, outVars, TypeOK
    <3>. QED
      BY <1>1, <1>4, <3>1 DEF DeliveryInv
  <2>2. CASE Finish(k)
    <3>1. mpc'[k] = "callback" /\ delivered'[k] = responses'[id_of[k]]
      BY <1>4, <2>2 DEF Finish, Goto, TypeOK
    <3>2. \A i \in Index : responses[id_of[k]][i].status # 0
      BY <2>2 DEF Finish, On, OwnInv, DeliveryInv
    <3>3. \A i \in Index : ResponseInv(id_of[k], i)
      BY <1>4 DEF OwnInv
    <3>4. \A i \in Index : delivered'[k][i].from = k /\ delivered'[k][i].status # 0
      BY <1>3, <1>4, <3>1, <3>2, <3>3 DEF ResponseInv
    <3>. QED
      BY <1>1, <1>4, <3>1, <3>4 DEF DeliveryInv
  <2>. QED
    BY <2>1, <2>2
<1>. QED
  BY <1>3, <1>5, <1>6 DEF OwnInv

\* The callback returns: only its own set leaves the maps.
LEMMA CallbackReturnsOwn ==
  ASSUME TypeOK, ClientInv, OwnInv, NEW k \in Set, CallbackReturns(k)
  PROVE  OwnInv'
<1>1. PICK id \in HTTPRequestSetId : id = id_of[k]
  BY DEF TypeOK
<1>2. /\ mpc[k] = "callback" /\ mpc' = [mpc EXCEPT ![k] = "stop"]
      /\ requests' = [requests EXCEPT ![id] = None]
      /\ responses' = [responses EXCEPT ![id] = <<>>]
      /\ UNCHANGED <<id_of, transfer, alive, delivered, calls>>
  BY <1>1 DEF CallbackReturns, On, Goto, netVars, outVars
<1>3. Active(k) /\ k \in alive /\ requests[id] = k
  BY <1>1, <1>2 DEF Active, OwnInv, DeliveryInv
<1>4. monitor_threads[id] = k /\ k # None
  BY <1>1, <1>3, ClientAssumption DEF ClientInv, MonitorInv, Set, None
<1>5. keep_going' = [keep_going EXCEPT ![k] = FALSE]
  BY <1>1, <1>4 DEF CallbackReturns
<1>6. ASSUME NEW j \in HTTPRequestSetId, NEW i \in Index PROVE ResponseInv(j, i)'
  <2>1. ResponseInv(j, i)
    BY DEF OwnInv
  <2>2. /\ j = id => requests'[j] = None
        /\ j # id => requests'[j] = requests[j] /\ responses'[j] = responses[j]
    BY <1>2 DEF TypeOK
  <2>. QED
    BY <1>2, <2>1, <2>2 DEF ResponseInv
<1>7. ASSUME NEW l \in Set PROVE DeliveryInv(l)'
  <2>1. DeliveryInv(l) /\ id_of[l] \in HTTPRequestSetId
    BY DEF OwnInv, TypeOK
  <2>2. CASE l = k
    BY <1>2, <2>1, <2>2 DEF DeliveryInv, Active, TypeOK
  <2>3. CASE l # k
    <3>1. mpc'[l] = mpc[l] /\ keep_going'[l] = keep_going[l]
      BY <1>2, <1>5, <2>3 DEF TypeOK
    <3>2. (Active(l)' <=> Active(l)) /\ (mpc[l] = "finish" => Active(l))
      BY <3>1 DEF Active
    <3>3. Active(l) => id_of[l] # id
      BY <1>1, <1>3, <2>3, OtherId
    <3>4. Active(l) => /\ requests'[id_of[l]] = requests[id_of[l]]
                       /\ responses'[id_of[l]] = responses[id_of[l]]
      BY <1>2, <2>1, <3>3 DEF TypeOK
    <3>. QED
      BY <1>2, <2>1, <3>1, <3>2, <3>4 DEF DeliveryInv
  <2>. QED
    BY <2>2, <2>3
<1>. QED
  BY <1>6, <1>7 DEF OwnInv

\* A transfer that ends was running, so its response has no status yet.
LEMMA TransferOwn ==
  ASSUME TypeOK, OwnInv, NEW k \in Set, NEW i \in Index, TransferEnds(k, i)
  PROVE  OwnInv'
<1>1. /\ transfer[k][i] = "running" /\ transfer' = [transfer EXCEPT ![k][i] = "done"]
      /\ UNCHANGED <<requests, responses, id_of, alive, keep_going, mpc, delivered, calls>>
  BY DEF TransferEnds, mapVars, threadVars, outVars
<1>2. \A l \in Set, j \in Index : transfer[l][j] = "gone" => transfer'[l][j] = "gone"
  BY <1>1 DEF TypeOK
<1>3. ASSUME NEW id \in HTTPRequestSetId, NEW j \in Index PROVE ResponseInv(id, j)'
  <2>1. ResponseInv(id, j) /\ requests[id] \in Set \cup {None}
    BY DEF OwnInv, TypeOK
  <2>. QED
    BY <1>1, <1>2, <2>1 DEF ResponseInv
<1>4. \A l \in Set : DeliveryInv(l)'
  BY <1>1 DEF OwnInv, DeliveryInv, Active
<1>. QED
  BY <1>3, <1>4 DEF OwnInv

\* Every step of an undisturbed client keeps it.
LEMMA OwnStep ==
  ASSUME Undisturbed, TypeOK, ClientInv, OwnInv, [Next]_vars
  PROVE  OwnInv'
<1>1. CASE UNCHANGED vars \/ SubmitCollides
  BY <1>1 DEF SubmitCollides, vars, mapVars, netVars, threadVars, outVars, OwnInv, DeliveryInv,
     ResponseInv, Active
<1>2. ASSUME NEW id \in HTTPRequestSetId PROVE ~Erase(id)
  BY DEF Erase, Undisturbed
<1>. QED
  BY <1>1, <1>2, SubmitOwn, MovesOwn, ConsumeKeepsOwn, CallbackReturnsOwn, TransferOwn
  DEF Next, MonitorStep

(***************************************************************************)
(* A callback receives the responses to its own submission, all of them    *)
(* answered, although is_complete and the rest of poll take mtx            *)
(* separately, ids are reused as soon as a set leaves the map, and monitor *)
(* threads outlive their sets.                                             *)
(***************************************************************************)
THEOREM AlwaysDeliveredOwn ==
  ASSUME Undisturbed PROVE Spec => []DeliveredOwn
<1>1. Init => OwnInv
  BY DEF Init, OwnInv, DeliveryInv, ResponseInv, Active
<1>2. TypeOK /\ ClientInv /\ OwnInv /\ [Next]_vars => OwnInv'
  BY OwnStep
<1>3. OwnInv => DeliveredOwn
  BY DEF OwnInv, DeliveryInv, DeliveredOwn
<1>. QED
  BY <1>1, <1>2, <1>3, ClientInvHolds, PTL DEF Spec
=============================================================================
