------------------------ MODULE RequestTracker_proofs ------------------------
(***************************************************************************)
(* Proofs about the request tracker, for any number of user threads and    *)
(* requests, any clients and callbacks, and any calls of the application.  *)
(***************************************************************************)
EXTENDS RequestTracker, TLAPS

----------------------------------------------------------------------------
(***************************************************************************)
(* The control-flow operators keep program counters, request ids and       *)
(* return stacks well-typed.                                               *)
(***************************************************************************)

\* The types of the variables that control flow changes.
ThreadOK ==
  /\ pc \in [Thread -> Point]
  /\ rid \in [Thread -> RequestID]
  /\ stack \in [Thread -> Seq(ReturnPoint)]

\* A thread that goes on at a program point of the tracker stays well-typed.
LEMMA GotoType ==
  ASSUME ThreadOK, NEW t \in Thread, NEW p \in Point, Goto(t, p)
  PROVE  ThreadOK'
BY DEF ThreadOK, Goto

\* A call of advance or of a callback pushes a return point on the stack.
LEMMA CallType ==
  ASSUME ThreadOK, NEW t \in Thread, NEW p \in Point, NEW r \in ReturnPoint, Call(t, p, r)
  PROVE  ThreadOK'
<1>1. <<r>> \o stack[t] \in Seq(ReturnPoint)
  BY DEF ThreadOK
<1>. QED
  BY <1>1 DEF ThreadOK, Call

\* Every return point is a program point, so a return goes on at one.
LEMMA ReturnType ==
  ASSUME ThreadOK, NEW t \in Thread, Return(t)
  PROVE  ThreadOK'
<1>1. ReturnPoint \subseteq Point /\ "idle" \in Point
  BY DEF ReturnPoint, Point, RefPoint
<1>2. CASE stack[t] = <<>>
  BY <1>1, <1>2 DEF ThreadOK, Return
<1>3. CASE stack[t] # <<>>
  <2>1. Head(stack[t]) \in ReturnPoint /\ Tail(stack[t]) \in Seq(ReturnPoint)
    BY <1>3 DEF ThreadOK
  <2>. QED
    BY <1>1, <1>3, <2>1 DEF ThreadOK, Return
<1>. QED
  BY <1>2, <1>3

\* Unwinding drops at most the frame of the HTTP callback.
LEMMA UncaughtType ==
  ASSUME ThreadOK, NEW t \in Thread
  PROVE  Uncaught(t) \in Seq(ReturnPoint)
BY DEF ThreadOK, Uncaught

\* An exception ends in a catch clause of the tracker or ends the call.
LEMMA ThrowType ==
  ASSUME ThreadOK, terminated \in BOOLEAN, NEW t \in Thread, Throw(t)
  PROVE  ThreadOK' /\ terminated' \in BOOLEAN
<1>1. Uncaught(t) \in Seq(ReturnPoint)
  BY UncaughtType
<1>2. {"catch", "idle"} \subseteq Point
  BY DEF Point, RefPoint
<1>3. CASE Uncaught(t) # <<>>
  <2>1. Tail(Uncaught(t)) \in Seq(ReturnPoint)
    BY <1>1, <1>3
  <2>2. /\ pc' = [pc EXCEPT ![t] = "catch"]
        /\ stack' = [stack EXCEPT ![t] = Tail(Uncaught(t))]
        /\ rid' = rid /\ terminated' = terminated
    BY <1>3 DEF Throw
  <2>. QED
    BY <1>2, <2>1, <2>2 DEF ThreadOK
<1>4. CASE Uncaught(t) = <<>>
  <2>1. /\ pc' = [pc EXCEPT ![t] = "idle"]
        /\ stack' = [stack EXCEPT ![t] = <<>>]
        /\ rid' = rid /\ terminated' = (terminated \/ t \notin Users)
    BY <1>4 DEF Throw
  <2>2. terminated' \in BOOLEAN
    BY <2>1
  <2>3. <<>> \in Seq(ReturnPoint)
    OBVIOUS
  <2>. QED
    BY <1>2, <2>1, <2>2, <2>3 DEF ThreadOK
<1>. QED
  BY <1>3, <1>4

----------------------------------------------------------------------------
(***************************************************************************)
(* Type correctness.                                                       *)
(***************************************************************************)

\* The types of the variables that control flow does not change.
DataOK ==
  /\ next_request_id \in 0 .. MaxRequests
  /\ state \in [RequestID -> RequestState \cup {"absent"}]
  /\ attestation \in [RequestID -> Attestation]
  /\ http_client \in [RequestID -> {"sync", "async"}]
  /\ callback \in [RequestID -> {"null", "advance", "erase"}]
  /\ claims \in [RequestID -> Claims \cup {"null"}]
  /\ http_responses \subseteq RequestID
  /\ in_flight \subseteq RequestID
  /\ local_claims \in [Thread -> Claims \cup {"null"}]
  /\ returned \subseteq RequestID
  /\ seen \in [Users -> Completed \cup {"none"}]
  /\ got \in [Users -> Claims \cup {"none", "exception"}]
  /\ called \in [RequestID -> Nat]

FaultOK == dangling \in BOOLEAN /\ terminated \in BOOLEAN

\* The three parts are the type invariant.
LEMMA TypeParts == TypeOK <=> ThreadOK /\ DataOK /\ FaultOK
BY DEF TypeOK, ThreadOK, DataOK, FaultOK

\* Every step of the tracker keeps every variable in its type.
LEMMA TypeStep ==
  ASSUME TypeOK, [Next]_vars
  PROVE  TypeOK'
<1>0. Users \subseteq Thread /\ ThreadOK /\ DataOK /\ FaultOK
  BY TypeParts DEF Thread
<1>1. ASSUME NEW u \in Users, Submit(u) PROVE TypeOK'
  <2>1. next_request_id \in RequestID /\ next_request_id + 1 \in 0 .. MaxRequests
    BY <1>0, <1>1, ConstantsAssumption DEF Submit, DataOK, RequestID
  <2>2. <<"submitted">> \in Seq(ReturnPoint)
    BY DEF ReturnPoint
  <2>3. ThreadOK'
    BY <1>0, <1>1, <2>1, <2>2 DEF Submit, ThreadOK, Point, RefPoint
  <2>4. PICK a \in Attestation, c \in Clients, f \in Callbacks :
          /\ attestation' = [attestation EXCEPT ![next_request_id] = a]
          /\ http_client' = [http_client EXCEPT ![next_request_id] = c]
          /\ callback' = [callback EXCEPT ![next_request_id] = f]
    BY <1>1 DEF Submit
  <2>5. DataOK'
    BY <1>0, <1>1, <2>1, <2>4, ConstantsAssumption DEF Submit, DataOK, RequestState, userVars
  <2>6. FaultOK'
    BY <1>0, <1>1 DEF Submit, FaultOK, faultVars
  <2>. QED
    BY <2>3, <2>5, <2>6 DEF TypeOK, ThreadOK, DataOK, FaultOK
<1>2. ASSUME NEW u \in Users, SubmitReturns(u) PROVE TypeOK'
  <2>1. ThreadOK'
    BY <1>0, <1>2, GotoType DEF SubmitReturns, Point, RefPoint
  <2>2. DataOK'
    BY <1>0, <1>2 DEF SubmitReturns, DataOK, ThreadOK, requestVars
  <2>3. FaultOK'
    BY <1>0, <1>2 DEF SubmitReturns, FaultOK, faultVars
  <2>. QED
    BY <2>1, <2>2, <2>3 DEF TypeOK, ThreadOK, DataOK, FaultOK
<1>3. ASSUME NEW u \in Users, CompletedFirst(u) PROVE TypeOK'
  <2>1. ThreadOK'
    <3>1. PICK id \in RequestID : rid' = [rid EXCEPT ![u] = id]
      BY <1>0, <1>3 DEF CompletedFirst, DataOK
    <3>2. PICK p \in Point : pc' = [pc EXCEPT ![u] = p]
      BY <1>3 DEF CompletedFirst, Point, RefPoint
    <3>. QED
      BY <1>0, <1>3, <3>1, <3>2 DEF CompletedFirst, ThreadOK
  <2>2. DataOK'
    BY <1>0, <1>3 DEF CompletedFirst, DataOK, Completed, requestVars
  <2>3. FaultOK'
    BY <1>0, <1>3 DEF CompletedFirst, FaultOK, faultVars
  <2>. QED
    BY <2>1, <2>2, <2>3 DEF TypeOK, ThreadOK, DataOK, FaultOK
<1>4. ASSUME NEW u \in Users, CompletedSecond(u) PROVE TypeOK'
  <2>1. ThreadOK'
    BY <1>0, <1>4, GotoType DEF CompletedSecond, Point, RefPoint
  <2>2. DataOK'
    BY <1>0, <1>4 DEF CompletedSecond, DataOK, Completed, requestVars
  <2>3. FaultOK'
    BY <1>0, <1>4 DEF CompletedSecond, FaultOK, faultVars
  <2>. QED
    BY <2>1, <2>2, <2>3 DEF TypeOK, ThreadOK, DataOK, FaultOK
<1>5. ASSUME NEW u \in Users, Result(u) PROVE TypeOK'
  <2>1. ThreadOK'
    BY <1>0, <1>5, GotoType DEF Result, Point, RefPoint
  <2>2. DataOK'
    BY <1>0, <1>5 DEF Result, DataOK, ThreadOK, HasResult, Goto, requestVars
  <2>3. FaultOK'
    BY <1>0, <1>5 DEF Result, FaultOK, faultVars
  <2>. QED
    BY <2>1, <2>2, <2>3 DEF TypeOK, ThreadOK, DataOK, FaultOK
<1>6. ASSUME NEW u \in Users, Erase(u) PROVE TypeOK'
  <2>1. ThreadOK'
    BY <1>0, <1>6 DEF Erase, ThreadOK, threadVars
  <2>2. DataOK'
    BY <1>0, <1>6 DEF Erase, Erased, DataOK, threadVars, userVars
  <2>3. FaultOK'
    BY <1>0, <1>6 DEF Erase, FaultOK, faultVars
  <2>. QED
    BY <2>1, <2>2, <2>3 DEF TypeOK, ThreadOK, DataOK, FaultOK
<1>7. ASSUME NEW u \in Users, Advance(u) PROVE TypeOK'
  <2>1. ThreadOK'
    BY <1>0, <1>7 DEF Advance, ThreadOK, DataOK, Point, RefPoint
  <2>2. DataOK'
    BY <1>0, <1>7 DEF Advance, DataOK, requestVars, userVars
  <2>3. FaultOK'
    BY <1>0, <1>7 DEF Advance, FaultOK, faultVars
  <2>. QED
    BY <2>1, <2>2, <2>3 DEF TypeOK, ThreadOK, DataOK, FaultOK
<1>8. ASSUME NEW t \in Thread, Lookup(t) PROVE TypeOK'
  <2>1. ThreadOK' /\ terminated' \in BOOLEAN
    BY <1>0, <1>8, GotoType, CallType, ThrowType DEF Lookup, FaultOK, Point, RefPoint, ReturnPoint
  <2>2. DataOK'
    BY <1>0, <1>8 DEF Lookup, DataOK, requestVars, userVars
  <2>3. dangling' \in BOOLEAN
    BY <1>0, <1>8 DEF Lookup, FaultOK, faultVars
  <2>. QED
    BY <2>1, <2>2, <2>3 DEF TypeOK, ThreadOK, DataOK
<1>9. ASSUME NEW t \in Thread, Switch(t) PROVE TypeOK'
  <2>1. ThreadOK'
    BY <1>0, <1>9, GotoType DEF Switch, At, ThreadOK, DataOK, RequestState, Point, RefPoint
  <2>2. DataOK'
    BY <1>0, <1>9 DEF Switch, DataOK, requestVars, userVars
  <2>3. FaultOK'
    BY <1>0, <1>9 DEF Switch, FaultOK, faultVars
  <2>. QED
    BY <2>1, <2>2, <2>3 DEF TypeOK, ThreadOK, DataOK, FaultOK
<1>10. ASSUME NEW t \in Thread, ToWaiting(t) PROVE TypeOK'
  <2>1. ThreadOK'
    BY <1>0, <1>10, GotoType DEF ToWaiting, Point, RefPoint
  <2>2. DataOK'
    BY <1>0, <1>10 DEF ToWaiting, DataOK, SetState, UnchangedRequest, At, RequestState, userVars
  <2>3. FaultOK'
    BY <1>0, <1>10 DEF ToWaiting, FaultOK, faultVars
  <2>. QED
    BY <2>1, <2>2, <2>3 DEF TypeOK, ThreadOK, DataOK, FaultOK
<1>11. ASSUME NEW t \in Thread, PrepareEndorsements(t) PROVE TypeOK'
  <2>1. ThreadOK'
    BY <1>0, <1>11, GotoType DEF PrepareEndorsements, Point, RefPoint
  <2>2. DataOK'
    BY <1>0, <1>11 DEF PrepareEndorsements, DataOK, requestVars, userVars
  <2>3. FaultOK'
    BY <1>0, <1>11 DEF PrepareEndorsements, FaultOK, faultVars
  <2>. QED
    BY <2>1, <2>2, <2>3 DEF TypeOK, ThreadOK, DataOK, FaultOK
<1>12. ASSUME NEW t \in Thread, SubmitHTTPFails(t) PROVE TypeOK'
  <2>1. ThreadOK'
    BY <1>0, <1>12, GotoType DEF SubmitHTTPFails, Point, RefPoint
  <2>2. DataOK'
    BY <1>0, <1>12 DEF SubmitHTTPFails, DataOK, requestVars, userVars
  <2>3. FaultOK'
    BY <1>0, <1>12 DEF SubmitHTTPFails, FaultOK, faultVars
  <2>. QED
    BY <2>1, <2>2, <2>3 DEF TypeOK, ThreadOK, DataOK, FaultOK
<1>13. ASSUME NEW t \in Thread, SubmitHTTPSync(t) PROVE TypeOK'
  <2>1. ThreadOK'
    BY <1>0, <1>13, CallType DEF SubmitHTTPSync, Point, RefPoint, ReturnPoint
  <2>2. DataOK'
    BY <1>0, <1>13 DEF SubmitHTTPSync, DataOK, requestVars, userVars
  <2>3. FaultOK'
    BY <1>0, <1>13 DEF SubmitHTTPSync, FaultOK, faultVars
  <2>. QED
    BY <2>1, <2>2, <2>3 DEF TypeOK, ThreadOK, DataOK, FaultOK
<1>14. ASSUME NEW t \in Thread, SubmitHTTPAsync(t) PROVE TypeOK'
  <2>1. ThreadOK'
    BY <1>0, <1>14, GotoType DEF SubmitHTTPAsync, Point, RefPoint
  <2>2. DataOK'
    BY <1>0, <1>14 DEF SubmitHTTPAsync, DataOK, ThreadOK, requestVars, userVars
  <2>3. FaultOK'
    BY <1>0, <1>14 DEF SubmitHTTPAsync, FaultOK, faultVars
  <2>. QED
    BY <2>1, <2>2, <2>3 DEF TypeOK, ThreadOK, DataOK, FaultOK
<1>15. ASSUME NEW id \in RequestID, Deliver(id) PROVE TypeOK'
  <2>1. ThreadOK'
    BY <1>0, <1>15 DEF Deliver, ThreadOK, Thread, Point, RefPoint
  <2>2. DataOK'
    BY <1>0, <1>15 DEF Deliver, DataOK, requestVars, userVars
  <2>3. FaultOK'
    BY <1>0, <1>15 DEF Deliver, FaultOK, faultVars
  <2>. QED
    BY <2>1, <2>2, <2>3 DEF TypeOK, ThreadOK, DataOK, FaultOK
<1>16. ASSUME NEW t \in Thread, SetRequestSetId(t) PROVE TypeOK'
  <2>1. ThreadOK'
    BY <1>0, <1>16, GotoType DEF SetRequestSetId, Point, RefPoint
  <2>2. DataOK'
    BY <1>0, <1>16 DEF SetRequestSetId, DataOK, requestVars, userVars
  <2>3. FaultOK'
    BY <1>0, <1>16 DEF SetRequestSetId, FaultOK, faultVars
  <2>. QED
    BY <2>1, <2>2, <2>3 DEF TypeOK, ThreadOK, DataOK, FaultOK
<1>17. ASSUME NEW t \in Thread, StoreResponses(t) PROVE TypeOK'
  <2>1. ThreadOK' /\ terminated' \in BOOLEAN
    BY <1>0, <1>17, GotoType, CallType, ThrowType DEF StoreResponses, FaultOK, Point, RefPoint, ReturnPoint
  <2>2. DataOK'
    BY <1>0, <1>17 DEF StoreResponses, DataOK, ThreadOK, requestVars, userVars
  <2>3. dangling' \in BOOLEAN
    BY <1>0, <1>17 DEF StoreResponses, FaultOK, faultVars
  <2>. QED
    BY <2>1, <2>2, <2>3 DEF TypeOK, ThreadOK, DataOK
<1>18. ASSUME NEW t \in Thread, AdvanceAgain(t) PROVE TypeOK'
  <2>1. ThreadOK'
    BY <1>0, <1>18, GotoType DEF AdvanceAgain, Point, RefPoint
  <2>2. DataOK'
    BY <1>0, <1>18 DEF AdvanceAgain, DataOK, requestVars, userVars
  <2>3. FaultOK'
    BY <1>0, <1>18 DEF AdvanceAgain, FaultOK, faultVars
  <2>. QED
    BY <2>1, <2>2, <2>3 DEF TypeOK, ThreadOK, DataOK, FaultOK
<1>19. ASSUME NEW t \in Thread, ToHave(t) PROVE TypeOK'
  <2>1. ThreadOK'
    BY <1>0, <1>19, GotoType DEF ToHave, Point, RefPoint
  <2>2. DataOK'
    BY <1>0, <1>19 DEF ToHave, DataOK, SetState, UnchangedRequest, At, RequestState, userVars
  <2>3. FaultOK'
    BY <1>0, <1>19 DEF ToHave, FaultOK, faultVars
  <2>. QED
    BY <2>1, <2>2, <2>3 DEF TypeOK, ThreadOK, DataOK, FaultOK
<1>20. ASSUME NEW t \in Thread, Verify(t) PROVE TypeOK'
  <2>1. ThreadOK'
    BY <1>0, <1>20, GotoType DEF Verify, Point, RefPoint
  <2>2. DataOK'
    BY <1>0, <1>20 DEF Verify, DataOK, TakeResponses, Verifiable, Claims, requestVars, userVars
  <2>3. FaultOK'
    BY <1>0, <1>20 DEF Verify, FaultOK, faultVars
  <2>. QED
    BY <2>1, <2>2, <2>3 DEF TypeOK, ThreadOK, DataOK, FaultOK
<1>21. ASSUME NEW t \in Thread, SetClaims(t) PROVE TypeOK'
  <2>1. ThreadOK'
    BY <1>0, <1>21, GotoType DEF SetClaims, Point, RefPoint
  <2>2. DataOK'
    BY <1>0, <1>21 DEF SetClaims, DataOK, requestVars, userVars
  <2>3. FaultOK'
    BY <1>0, <1>21 DEF SetClaims, FaultOK, faultVars
  <2>. QED
    BY <2>1, <2>2, <2>3 DEF TypeOK, ThreadOK, DataOK, FaultOK
<1>22. ASSUME NEW t \in Thread, Finish(t) PROVE TypeOK'
  <2>1. ThreadOK'
    BY <1>0, <1>22, GotoType DEF Finish, Point, RefPoint
  <2>2. DataOK'
    BY <1>0, <1>22 DEF Finish, DataOK, SetState, UnchangedRequest, At, RequestState, userVars
  <2>3. FaultOK'
    BY <1>0, <1>22 DEF Finish, FaultOK, faultVars
  <2>. QED
    BY <2>1, <2>2, <2>3 DEF TypeOK, ThreadOK, DataOK, FaultOK
<1>23. ASSUME NEW t \in Thread, InvokeCallback(t) PROVE TypeOK'
  <2>1. ThreadOK'
    BY <1>0, <1>23, GotoType, CallType DEF InvokeCallback, Point, RefPoint, ReturnPoint
  <2>2. DataOK'
    BY <1>0, <1>23 DEF InvokeCallback, DataOK, requestVars, userVars
  <2>3. FaultOK'
    BY <1>0, <1>23 DEF InvokeCallback, FaultOK, faultVars
  <2>. QED
    BY <2>1, <2>2, <2>3 DEF TypeOK, ThreadOK, DataOK, FaultOK
<1>24. ASSUME NEW t \in Thread, CallbackResult(t) PROVE TypeOK'
  <2>1. ThreadOK' /\ terminated' \in BOOLEAN
    BY <1>0, <1>24, GotoType, CallType, ThrowType DEF CallbackResult, FaultOK, Point, RefPoint, ReturnPoint
  <2>2. DataOK'
    BY <1>0, <1>24 DEF CallbackResult, DataOK, requestVars, userVars
  <2>3. dangling' \in BOOLEAN
    BY <1>0, <1>24 DEF CallbackResult, FaultOK, faultVars
  <2>. QED
    BY <2>1, <2>2, <2>3 DEF TypeOK, ThreadOK, DataOK
<1>25. ASSUME NEW t \in Thread, CallbackErase(t) PROVE TypeOK'
  <2>1. ThreadOK'
    BY <1>0, <1>25, ReturnType DEF CallbackErase
  <2>2. DataOK'
    BY <1>0, <1>25 DEF CallbackErase, Erased, DataOK, userVars
  <2>3. FaultOK'
    BY <1>0, <1>25 DEF CallbackErase, FaultOK, faultVars
  <2>. QED
    BY <2>1, <2>2, <2>3 DEF TypeOK, ThreadOK, DataOK, FaultOK
<1>26. ASSUME NEW t \in Thread, Catch(t) PROVE TypeOK'
  <2>1. ThreadOK'
    BY <1>0, <1>26, GotoType DEF Catch, Point, RefPoint
  <2>2. DataOK'
    BY <1>0, <1>26 DEF Catch, DataOK, SetState, UnchangedRequest, At, RequestState, userVars
  <2>3. FaultOK'
    BY <1>0, <1>26 DEF Catch, FaultOK, faultVars
  <2>. QED
    BY <2>1, <2>2, <2>3 DEF TypeOK, ThreadOK, DataOK, FaultOK
<1>27. ASSUME NEW t \in Thread, AdvanceReturns(t) PROVE TypeOK'
  <2>1. ThreadOK'
    BY <1>0, <1>27, ReturnType DEF AdvanceReturns
  <2>2. DataOK'
    BY <1>0, <1>27 DEF AdvanceReturns, DataOK, requestVars, userVars
  <2>3. FaultOK'
    BY <1>0, <1>27 DEF AdvanceReturns, FaultOK, faultVars
  <2>. QED
    BY <2>1, <2>2, <2>3 DEF TypeOK, ThreadOK, DataOK, FaultOK
<1>28. ASSUME NEW t \in Thread, UseAfterErase(t) PROVE TypeOK'
  <2>1. ThreadOK'
    BY <1>0, <1>28 DEF UseAfterErase, ThreadOK, threadVars
  <2>2. DataOK'
    BY <1>0, <1>28 DEF UseAfterErase, DataOK, requestVars, threadVars, userVars
  <2>3. FaultOK'
    BY <1>0, <1>28 DEF UseAfterErase, FaultOK, faultVars
  <2>. QED
    BY <2>1, <2>2, <2>3 DEF TypeOK, ThreadOK, DataOK, FaultOK
<1>29. CASE UNCHANGED vars
  BY <1>29 DEF vars, requestVars, threadVars, userVars, faultVars, TypeOK
<1>. QED
  BY <1>1, <1>2, <1>3, <1>4, <1>5, <1>6, <1>7, <1>8, <1>9, <1>10, <1>11, <1>12, <1>13, <1>14, <1>15, <1>16, <1>17, <1>18, <1>19, <1>20, <1>21, <1>22, <1>23, <1>24, <1>25, <1>26, <1>27, <1>28, <1>29 DEF Next, UserCall, UserStep, AdvanceStep

(***************************************************************************)
(* Type correctness of the tracker: every variable keeps its type under    *)
(* every step of request_tracker_impl.h.                                   *)
(***************************************************************************)
THEOREM TypeCorrect == Spec => []TypeOK
<1>1. Init => TypeOK
  <2>1. ASSUME Init PROVE ThreadOK
    BY <2>1, ConstantsAssumption DEF Init, ThreadOK, RequestID, Point
  <2>2. ASSUME Init PROVE DataOK
    BY <2>2, ConstantsAssumption DEF Init, DataOK, Attestation
  <2>. QED
    BY <2>1, <2>2, TypeParts DEF Init, FaultOK
<1>2. TypeOK /\ [Next]_vars => TypeOK'
  BY TypeStep
<1>. QED
  BY <1>1, <1>2, PTL DEF Spec

----------------------------------------------------------------------------
(***************************************************************************)
(* ClaimsJustified for every use of the tracker: any calls in any order,   *)
(* erasing requests that are still waiting included.  The inductive        *)
(* invariant says where claims come from.                                  *)
(***************************************************************************)

\* The points a thread can reach with a malformed attestation.
MalformedPoint == {"idle", "switch", "toWaiting", "prepare", "catch", "return", "submitted",
                   "lookup", "advanceAgain", "setId", "completed2", "result"}

\* Claims that verification can produce for attestation a.
Justified(a, c) ==
  /\ c # "null"
  /\ a # "malformed"
  /\ a = "bare" => c = "fetched"
  /\ a = "complete" => c = "embedded"

(***************************************************************************)
(* Of a request id: nothing refers to it before submit hands it out; its   *)
(* endorsements are only downloaded if its attestation needs that; FINISHED*)
(* comes after its claims; and a malformed attestation never gets past     *)
(* prepare_endorsements.                                                   *)
(***************************************************************************)
IdOK(i) ==
  /\ i >= next_request_id =>
       /\ state[i] = "absent" /\ claims[i] = "null"
       /\ i \notin returned /\ i \notin in_flight /\ i \notin http_responses
  /\ i \in in_flight \/ i \in http_responses => NeedsDownload(attestation[i])
  /\ claims[i] # "null" => Justified(attestation[i], claims[i])
  /\ state[i] = "FINISHED" => claims[i] # "null"
  /\ attestation[i] = "malformed" =>
       /\ state[i] \in {"absent", "SUBMITTED", "WAITING_FOR_ENDORSEMENTS", "ERROR"}
       /\ i \in returned => state[i] \in {"absent", "ERROR"}

\* What a thread at point p knows of a request i with a malformed attestation.
MalformedAt(p, i) ==
  /\ p \in MalformedPoint
  /\ p \in {"return", "submitted", "advanceAgain", "setId", "lookup"}
       => state[i] \in {"absent", "ERROR"}
  /\ p = "switch" => state[i] # "WAITING_FOR_ENDORSEMENTS"
  /\ p \in {"toWaiting", "prepare"} => i \notin returned

\* What a thread at point p, with local claims c, knows of its request i.
PointOK(p, i, c) ==
  /\ p # "idle" => i < next_request_id
  /\ p \in {"submitHTTP", "store"} => NeedsDownload(attestation[i])
  /\ p = "setClaims" => Justified(attestation[i], c)
  /\ p = "finish" /\ state[i] # "absent" => claims[i] # "null"
  /\ attestation[i] = "malformed" => MalformedAt(p, i)

\* Until submit returns, only the submitting thread works on a request whose
\* attestation is malformed.
SoleOwner ==
  \A t, v \in Thread :
    /\ rid[t] = rid[v] /\ pc[t] # "idle" /\ pc[v] # "idle"
    /\ attestation[rid[t]] = "malformed" /\ rid[t] \notin returned
    => t = v

ClaimsInv ==
  /\ \A i \in RequestID : IdOK(i)
  /\ \A t \in Thread : PointOK(pc[t], rid[t], local_claims[t])
  /\ SoleOwner

\* A return goes on at a return point, or ends the call.
LEMMA ReturnMoves ==
  ASSUME ThreadOK, NEW t \in Thread, Return(t)
  PROVE  /\ rid' = rid
         /\ \E q \in ReturnPoint \cup {"idle"} : pc' = [pc EXCEPT ![t] = q]
<1>1. CASE stack[t] = <<>>
  BY <1>1 DEF Return
<1>2. CASE stack[t] # <<>>
  <2>1. Head(stack[t]) \in ReturnPoint
    BY <1>2 DEF ThreadOK
  <2>. QED
    BY <1>2, <2>1 DEF Return
<1>. QED
  BY <1>1, <1>2

\* An exception goes on in a catch clause, or ends the call.
LEMMA ThrowMoves ==
  ASSUME NEW t \in Thread, Throw(t)
  PROVE  /\ rid' = rid
         /\ \E q \in {"catch", "idle"} : pc' = [pc EXCEPT ![t] = q]
BY DEF Throw

\* Ownership survives a step in which no idle thread takes up a request.
LEMMA SoleOwnerKept ==
  ASSUME SoleOwner, rid' = rid, attestation' = attestation, returned \subseteq returned',
         NEW t \in Thread, NEW q, pc \in [Thread -> Point],
         pc' = [pc EXCEPT ![t] = q], q = "idle" \/ pc[t] # "idle"
  PROVE  SoleOwner'
<1>1. \A v \in Thread : pc'[v] # "idle" => pc[v] # "idle"
  OBVIOUS
<1>. QED
  BY <1>1 DEF SoleOwner

(***************************************************************************)
(* A step in which thread t goes to point q with request i, and at most    *)
(* takes responses or a delivery, keeps the invariant if q allows it.      *)
(***************************************************************************)
LEMMA MoveStep ==
  ASSUME TypeOK, ClaimsInv, NEW t \in Thread, NEW q \in Point, NEW i \in RequestID,
         PointOK(q, i, local_claims[t]),
         \/ pc[t] # "idle" /\ i = rid[t]
         \/ attestation[i] # "malformed"
         \/ i \in returned,
         pc' = [pc EXCEPT ![t] = q], rid' = [rid EXCEPT ![t] = i],
         UNCHANGED <<next_request_id, attestation, state, claims, returned, local_claims>>,
         in_flight' \subseteq in_flight, http_responses' \subseteq http_responses
  PROVE  ClaimsInv'
<1>1. ASSUME NEW j \in RequestID PROVE IdOK(j)'
  <2>1. IdOK(j)
    BY DEF ClaimsInv
  <2>. QED
    BY <2>1 DEF IdOK
<1>2. ASSUME NEW v \in Thread PROVE PointOK(pc[v], rid[v], local_claims[v])'
  <2>1. PointOK(pc[v], rid[v], local_claims[v])
    BY DEF ClaimsInv
  <2>2. PointOK(pc'[v], rid'[v], local_claims[v])
    BY <2>1 DEF TypeOK
  <2>. QED
    BY <2>2 DEF PointOK, MalformedAt
<1>3. SoleOwner'
  BY DEF ClaimsInv, SoleOwner, TypeOK
<1>. QED
  BY <1>1, <1>2, <1>3 DEF ClaimsInv

(***************************************************************************)
(* A step in which thread t sets the state of its request to s and goes to *)
(* point q keeps the invariant: a malformed attestation may only go to     *)
(* ERROR, or to waiting when its submitter is still the only one to know.  *)
(***************************************************************************)
LEMMA StateStep ==
  ASSUME TypeOK, ClaimsInv, NEW t \in Thread, NEW q \in Point, NEW s \in RequestState,
         state[rid[t]] # "absent", pc[t] # "idle",
         s = "FINISHED" => claims[rid[t]] # "null",
         attestation[rid[t]] = "malformed" =>
           s = "ERROR" \/ (s = "WAITING_FOR_ENDORSEMENTS" /\ pc[t] = "toWaiting"),
         state' = [state EXCEPT ![rid[t]] = s],
         PointOK(q, rid[t], local_claims[t])',
         pc' = [pc EXCEPT ![t] = q],
         UNCHANGED <<next_request_id, attestation, claims, returned, rid, local_claims,
                     in_flight, http_responses>>
  PROVE  ClaimsInv'
<1>1. rid[t] \in RequestID /\ PointOK(pc[t], rid[t], local_claims[t]) /\ IdOK(rid[t])
  BY DEF TypeOK, ClaimsInv
<1>2. attestation[rid[t]] = "malformed" /\ s # "ERROR" => rid[t] \notin returned
  BY <1>1 DEF PointOK, MalformedAt
<1>3. ASSUME NEW j \in RequestID PROVE IdOK(j)'
  <2>1. IdOK(j)
    BY DEF ClaimsInv
  <2>2. j # rid[t] => state'[j] = state[j]
    BY DEF TypeOK
  <2>3. j = rid[t] => state'[j] = s
    BY DEF TypeOK
  <2>4. CASE j # rid[t]
    BY <2>1, <2>2, <2>4 DEF IdOK
  <2>5. CASE j = rid[t]
    BY <1>2, <2>1, <2>3, <2>5 DEF IdOK, RequestState
  <2>. QED
    BY <2>4, <2>5
<1>4. ASSUME NEW v \in Thread PROVE PointOK(pc[v], rid[v], local_claims[v])'
  <2>1. PointOK(pc[v], rid[v], local_claims[v])
    BY DEF ClaimsInv
  <2>2. CASE v = t
    BY <2>2 DEF TypeOK, PointOK, MalformedAt
  <2>3. CASE v # t /\ rid[v] # rid[t]
    <3>1. state'[rid[v]] = state[rid[v]] /\ pc'[v] = pc[v]
      BY <2>3 DEF TypeOK
    <3>. QED
      BY <2>1, <3>1 DEF PointOK, MalformedAt
  <2>4. CASE v # t /\ rid[v] = rid[t]
    <3>1. state'[rid[v]] = s /\ pc'[v] = pc[v]
      BY <1>1, <2>4 DEF TypeOK
    <3>2. attestation[rid[t]] = "malformed" /\ s # "ERROR" => pc[v] = "idle"
      BY <1>2, <2>4 DEF ClaimsInv, SoleOwner
    <3>. QED
      BY <2>1, <2>4, <3>1, <3>2 DEF PointOK, MalformedAt, MalformedPoint
  <2>. QED
    BY <2>2, <2>3, <2>4
<1>5. SoleOwner'
  BY SoleOwnerKept DEF ClaimsInv, TypeOK
<1>. QED
  BY <1>3, <1>4, <1>5 DEF ClaimsInv

\* Erasing a request leaves no claims and no state that could be unjustified.
LEMMA EraseStep ==
  ASSUME TypeOK, ClaimsInv, NEW i \in RequestID, Erased(i),
         NEW t \in Thread, NEW q \in ReturnPoint \cup {"idle"},
         \/ pc[t] # "idle" /\ pc' = [pc EXCEPT ![t] = q] /\ attestation[rid[t]] # "malformed"
         \/ pc' = pc,
         UNCHANGED <<returned, rid, local_claims, in_flight, http_responses>>
  PROVE  ClaimsInv'
<1>1. /\ \A j \in RequestID : j # i => state'[j] = state[j] /\ claims'[j] = claims[j]
      /\ state'[i] = "absent" /\ claims'[i] = "null"
      /\ next_request_id' = next_request_id /\ attestation' = attestation
  BY DEF TypeOK, Erased
<1>2. ASSUME NEW j \in RequestID PROVE IdOK(j)'
  <2>1. IdOK(j)
    BY DEF ClaimsInv
  <2>. QED
    BY <1>1, <2>1 DEF IdOK
<1>3. ASSUME NEW v \in Thread PROVE PointOK(pc[v], rid[v], local_claims[v])'
  <2>1. PointOK(pc[v], rid[v], local_claims[v]) /\ rid[v] \in RequestID
    BY DEF ClaimsInv, TypeOK
  <2>2. CASE pc'[v] = pc[v]
    BY <1>1, <2>1, <2>2 DEF PointOK, MalformedAt
  <2>3. CASE pc'[v] # pc[v]
    <3>1. v = t /\ pc[t] # "idle" /\ pc'[v] = q /\ attestation[rid[v]] # "malformed"
      BY <2>3 DEF TypeOK
    <3>. QED
      BY <1>1, <2>1, <3>1 DEF PointOK, ReturnPoint
  <2>. QED
    BY <2>2, <2>3
<1>4. SoleOwner'
  <2>1. CASE pc' = pc
    BY <1>1, <2>1 DEF ClaimsInv, SoleOwner
  <2>2. CASE pc' # pc
    BY <1>1, <2>2, SoleOwnerKept DEF ClaimsInv, TypeOK
  <2>. QED
    BY <2>1, <2>2
<1>. QED
  BY <1>2, <1>3, <1>4 DEF ClaimsInv

(***************************************************************************)
(* Every step of the tracker keeps the invariant.                          *)
(***************************************************************************)
LEMMA ClaimsStep ==
  ASSUME TypeOK, ClaimsInv, [Next]_vars
  PROVE  ClaimsInv'
<1>0. /\ Users \subseteq Thread /\ RequestID \subseteq Thread
      /\ \A t \in Thread : /\ rid[t] \in RequestID /\ pc[t] \in Point
                           /\ IdOK(rid[t])
                           /\ PointOK(pc[t], rid[t], local_claims[t])
                           /\ rid = [rid EXCEPT ![t] = rid[t]]
                           /\ pc = [pc EXCEPT ![t] = pc[t]]
      /\ ThreadOK
  BY DEF Thread, TypeOK, ThreadOK, ClaimsInv
<1>1. ASSUME NEW u \in Users, Submit(u) PROVE ClaimsInv'
  <2>1. next_request_id \in RequestID /\ next_request_id' = next_request_id + 1
    BY <1>1, ConstantsAssumption DEF Submit, TypeOK, RequestID
  <2>2. IdOK(next_request_id)
    BY <2>1 DEF ClaimsInv
  <2>3. /\ \A i \in RequestID : i # next_request_id =>
             state'[i] = state[i] /\ attestation'[i] = attestation[i]
        /\ state'[next_request_id] = "SUBMITTED"
    BY <1>1, <2>1 DEF Submit, TypeOK
  <2>4. /\ pc' = [pc EXCEPT ![u] = "switch"] /\ rid' = [rid EXCEPT ![u] = next_request_id]
        /\ UNCHANGED <<claims, returned, local_claims, in_flight, http_responses>>
        /\ pc[u] = "idle"
    BY <1>1 DEF Submit, At, userVars
  <2>5. ASSUME NEW j \in RequestID PROVE IdOK(j)'
    <3>1. IdOK(j) /\ j \in Nat /\ next_request_id \in Nat
      BY <2>1 DEF ClaimsInv, RequestID, TypeOK
    <3>2. CASE j # next_request_id
      BY <2>1, <2>3, <2>4, <3>1, <3>2 DEF IdOK
    <3>3. CASE j = next_request_id
      BY <2>1, <2>2, <2>3, <2>4, <3>1, <3>3 DEF IdOK
    <3>. QED
      BY <3>2, <3>3
  <2>6. ASSUME NEW v \in Thread PROVE PointOK(pc[v], rid[v], local_claims[v])'
    <3>1. PointOK(pc[v], rid[v], local_claims[v]) /\ rid[v] \in Nat /\ next_request_id \in Nat
      BY <1>0, <2>1 DEF RequestID, TypeOK
    <3>2. CASE v = u
      <4>1. pc'[v] = "switch" /\ rid'[v] = next_request_id
        BY <1>0, <2>4, <3>2 DEF TypeOK
      <4>. QED
        BY <2>1, <2>3, <4>1, <3>1 DEF PointOK, MalformedAt, MalformedPoint
    <3>3. CASE v # u /\ pc[v] = "idle"
      <4>1. pc'[v] = "idle"
        BY <2>4, <3>3 DEF TypeOK
      <4>. QED
        BY <4>1 DEF PointOK, MalformedAt, MalformedPoint
    <3>4. CASE v # u /\ pc[v] # "idle"
      <4>1. pc'[v] = pc[v] /\ rid'[v] = rid[v] /\ rid[v] # next_request_id
        BY <2>4, <3>1, <3>4 DEF TypeOK, PointOK
      <4>2. state'[rid[v]] = state[rid[v]] /\ attestation'[rid[v]] = attestation[rid[v]]
        BY <1>0, <2>3, <4>1
      <4>. QED
        BY <2>1, <2>4, <3>1, <4>1, <4>2 DEF PointOK, MalformedAt
    <3>. QED
      BY <3>2, <3>3, <3>4
  <2>7. SoleOwner'
    <3>1. \A v \in Thread : v # u => /\ pc'[v] = pc[v] /\ rid'[v] = rid[v]
                                     /\ pc[v] # "idle" => rid[v] < next_request_id
      BY <1>0, <2>4 DEF TypeOK, PointOK
    <3>2. pc'[u] = "switch" /\ rid'[u] = next_request_id
      BY <1>0, <2>4 DEF TypeOK
    <3>3. \A v \in Thread : v # u /\ pc[v] # "idle" =>
            rid[v] # next_request_id /\ attestation'[rid[v]] = attestation[rid[v]]
      BY <1>0, <2>1, <2>3, <3>1 DEF RequestID
    <3>. QED
      BY <1>0, <2>4, <3>1, <3>2, <3>3 DEF ClaimsInv, SoleOwner
  <2>. QED
    BY <2>5, <2>6, <2>7 DEF ClaimsInv
<1>2. ASSUME NEW u \in Users, SubmitReturns(u) PROVE ClaimsInv'
  <2>1. /\ pc' = [pc EXCEPT ![u] = "idle"] /\ returned' = returned \cup {rid[u]}
        /\ pc[u] = "submitted"
        /\ UNCHANGED <<next_request_id, attestation, state, claims, rid, local_claims,
                       in_flight, http_responses>>
    BY <1>2 DEF SubmitReturns, At, Goto, requestVars
  <2>2. /\ rid[u] < next_request_id /\ next_request_id \in Nat /\ rid[u] \in Nat
        /\ attestation[rid[u]] = "malformed" => state[rid[u]] \in {"absent", "ERROR"}
    BY <1>0, <2>1 DEF PointOK, MalformedAt, TypeOK, RequestID
  <2>3. ASSUME NEW j \in RequestID PROVE IdOK(j)'
    <3>1. IdOK(j)
      BY DEF ClaimsInv
    <3>. QED
      BY <2>1, <2>2, <3>1 DEF IdOK
  <2>4. ASSUME NEW v \in Thread PROVE PointOK(pc[v], rid[v], local_claims[v])'
    <3>1. PointOK(pc[v], rid[v], local_claims[v])
      BY <1>0
    <3>2. CASE v = u
      BY <1>0, <2>1, <3>2 DEF TypeOK, PointOK, MalformedAt, MalformedPoint
    <3>3. CASE v # u
      <4>1. pc'[v] = pc[v]
        BY <2>1, <3>3 DEF TypeOK
      <4>2. attestation[rid[v]] = "malformed" /\ rid[v] = rid[u] /\ rid[u] \notin returned
              => pc[v] = "idle"
        BY <1>0, <2>1, <3>3 DEF ClaimsInv, SoleOwner
      <4>. QED
        BY <2>1, <3>1, <4>1, <4>2 DEF PointOK, MalformedAt
    <3>. QED
      BY <3>2, <3>3
  <2>5. SoleOwner'
    BY <1>0, <2>1, SoleOwnerKept DEF ClaimsInv, TypeOK
  <2>. QED
    BY <2>3, <2>4, <2>5 DEF ClaimsInv
<1>3. ASSUME NEW u \in Users, CompletedFirst(u) PROVE ClaimsInv'
  <2>1. PICK i \in returned : rid' = [rid EXCEPT ![u] = i]
    BY <1>3 DEF CompletedFirst
  <2>2. PICK q \in {"result", "completed2"} : pc' = [pc EXCEPT ![u] = q]
    BY <1>3 DEF CompletedFirst
  <2>3. i \in RequestID /\ q \in Point /\ IdOK(i)
    BY <2>1, <2>2 DEF TypeOK, Point, ClaimsInv
  <2>4. PointOK(q, i, local_claims[u])
    BY <2>1, <2>2, <2>3 DEF PointOK, IdOK, MalformedAt, MalformedPoint, TypeOK, RequestID
  <2>. QED
    BY <1>0, <1>3, <2>1, <2>2, <2>3, <2>4, MoveStep DEF CompletedFirst, requestVars
<1>4. ASSUME NEW u \in Users, CompletedSecond(u) PROVE ClaimsInv'
  <2>1. PICK q \in {"result", "idle"} : pc' = [pc EXCEPT ![u] = q]
    BY <1>4 DEF CompletedSecond, Goto
  <2>2. q \in Point /\ PointOK(q, rid[u], local_claims[u]) /\ pc[u] # "idle"
    BY <1>0, <1>4, <2>1 DEF CompletedSecond, At, Point, PointOK, MalformedAt, MalformedPoint
  <2>3. rid' = rid
    BY <1>4 DEF CompletedSecond, Goto
  <2>. QED
    BY <1>0, <1>4, <2>1, <2>2, <2>3, MoveStep DEF CompletedSecond, requestVars
<1>5. ASSUME NEW u \in Users, Result(u) PROVE ClaimsInv'
  <2>1. PointOK("idle", rid[u], local_claims[u]) /\ "idle" \in Point
    BY DEF PointOK, MalformedAt, MalformedPoint, Point
  <2>. QED
    BY <1>0, <1>5, <2>1, MoveStep DEF Result, At, Goto, requestVars
<1>6. ASSUME NEW u \in Users, Erase(u) PROVE ClaimsInv'
  <2>1. PICK i \in RequestID : Erased(i)
    BY <1>6 DEF Erase, TypeOK
  <2>. QED
    BY <1>0, <1>6, <2>1, EraseStep DEF Erase, threadVars, userVars
<1>7. ASSUME NEW u \in Users, Advance(u) PROVE ClaimsInv'
  <2>1. PICK i \in returned : pc' = [pc EXCEPT ![u] = "lookup"] /\ rid' = [rid EXCEPT ![u] = i]
    BY <1>7 DEF Advance
  <2>2. i \in RequestID /\ "lookup" \in Point /\ IdOK(i)
    BY <2>1 DEF TypeOK, Point, ClaimsInv
  <2>3. PointOK("lookup", i, local_claims[u])
    BY <2>1, <2>2 DEF PointOK, IdOK, MalformedAt, MalformedPoint, TypeOK, RequestID
  <2>. QED
    BY <1>0, <1>7, <2>1, <2>2, <2>3, MoveStep DEF Advance, requestVars, userVars
<1>8. ASSUME NEW t \in Thread, Lookup(t) PROVE ClaimsInv'
  <2>1. rid' = rid /\ \E q \in {"switch", "catch", "idle"} :
          pc' = [pc EXCEPT ![t] = q]
    BY <1>8, ThrowMoves DEF Lookup, Goto
  <2>2. PICK q \in {"switch", "catch", "idle"} : pc' = [pc EXCEPT ![t] = q]
    BY <2>1
  <2>3. q \in Point /\ PointOK(q, rid[t], local_claims[t]) /\ pc[t] # "idle"
    BY <1>0, <1>8, <2>2 DEF Lookup, At, Point, RefPoint, PointOK, MalformedAt, MalformedPoint
  <2>. QED
    BY <1>0, <1>8, <2>1, <2>2, <2>3, MoveStep DEF Lookup, requestVars, userVars
<1>9. ASSUME NEW t \in Thread, Switch(t) PROVE ClaimsInv'
  <2>1. /\ pc[t] = "switch" /\ state[rid[t]] # "absent" /\ rid' = rid
        /\ UNCHANGED <<requestVars, http_responses, in_flight, local_claims, userVars>>
    BY <1>9 DEF Switch, At, RefPoint, Goto
  <2>2. \E q \in {"toWaiting", "toHave", "verify", "return", "catch"} :
          /\ pc' = [pc EXCEPT ![t] = q]
          /\ q = "toWaiting" => state[rid[t]] = "SUBMITTED"
          /\ q = "toHave" => state[rid[t]] = "WAITING_FOR_ENDORSEMENTS"
          /\ q = "verify" => state[rid[t]] = "HAVE_ENDORSEMENTS"
          /\ q = "return" => state[rid[t]] = "FINISHED"
    <3>1. state[rid[t]] \in RequestState
      BY <1>0, <2>1 DEF TypeOK
    <3>. QED
      BY <1>9, <3>1 DEF Switch, Goto, RequestState
  <2>3. PICK q \in {"toWaiting", "toHave", "verify", "return", "catch"} :
          /\ pc' = [pc EXCEPT ![t] = q]
          /\ q = "toWaiting" => state[rid[t]] = "SUBMITTED"
          /\ q = "toHave" => state[rid[t]] = "WAITING_FOR_ENDORSEMENTS"
          /\ q = "verify" => state[rid[t]] = "HAVE_ENDORSEMENTS"
          /\ q = "return" => state[rid[t]] = "FINISHED"
    BY <2>2
  <2>4. q \in Point /\ PointOK(q, rid[t], local_claims[t])
    BY <1>0, <2>1, <2>3 DEF Point, RefPoint, PointOK, IdOK, MalformedAt, MalformedPoint
  <2>. QED
    BY <1>0, <2>1, <2>3, <2>4, MoveStep DEF requestVars, userVars
<1>10. ASSUME NEW t \in Thread, ToWaiting(t) PROVE ClaimsInv'
  <2>1. PointOK("prepare", rid[t], local_claims[t])'
    BY <1>0, <1>10 DEF ToWaiting, At, Goto, UnchangedRequest, userVars,
       PointOK, MalformedAt, MalformedPoint
  <2>2. /\ "prepare" \in Point /\ "WAITING_FOR_ENDORSEMENTS" \in RequestState
    BY DEF Point, RefPoint, RequestState
  <2>. QED
    BY <1>0, <1>10, <2>1, <2>2, StateStep
    DEF ToWaiting, At, RefPoint, Goto, SetState, UnchangedRequest, userVars
<1>11. ASSUME NEW t \in Thread, PrepareEndorsements(t) PROVE ClaimsInv'
  <2>1. PICK q \in {"catch", "submitHTTP", "haveNow"} :
          /\ pc' = [pc EXCEPT ![t] = q]
          /\ q = "submitHTTP" => NeedsDownload(attestation[rid[t]])
          /\ q # "catch" => attestation[rid[t]] # "malformed"
    BY <1>11 DEF PrepareEndorsements, Goto
  <2>2. q \in Point /\ PointOK(q, rid[t], local_claims[t]) /\ pc[t] # "idle"
    BY <1>0, <1>11, <2>1
    DEF PrepareEndorsements, At, Point, RefPoint, PointOK, MalformedAt, MalformedPoint
  <2>3. rid' = rid
    BY <1>11 DEF PrepareEndorsements, Goto
  <2>. QED
    BY <1>0, <1>11, <2>1, <2>2, <2>3, MoveStep DEF PrepareEndorsements, requestVars, userVars
<1>12. ASSUME NEW t \in Thread, SubmitHTTPFails(t) PROVE ClaimsInv'
  <2>1. "catch" \in Point /\ PointOK("catch", rid[t], local_claims[t]) /\ pc[t] # "idle"
    BY <1>0, <1>12 DEF SubmitHTTPFails, At, Point, RefPoint, PointOK, MalformedAt, MalformedPoint
  <2>. QED
    BY <1>0, <1>12, <2>1, MoveStep DEF SubmitHTTPFails, Goto, requestVars, userVars
<1>13. ASSUME NEW t \in Thread, SubmitHTTPSync(t) PROVE ClaimsInv'
  <2>1. "store" \in Point /\ PointOK("store", rid[t], local_claims[t]) /\ pc[t] # "idle"
    BY <1>0, <1>13 DEF SubmitHTTPSync, At, Point, PointOK, NeedsDownload
  <2>. QED
    BY <1>0, <1>13, <2>1, MoveStep DEF SubmitHTTPSync, Call, requestVars, userVars
<1>14. ASSUME NEW t \in Thread, SubmitHTTPAsync(t) PROVE ClaimsInv'
  <2>1. /\ pc[t] = "submitHTTP" /\ pc' = [pc EXCEPT ![t] = "setId"]
        /\ in_flight' = in_flight \cup {rid[t]}
        /\ UNCHANGED <<next_request_id, attestation, state, claims, returned, rid, local_claims,
                       http_responses>>
    BY <1>14 DEF SubmitHTTPAsync, At, Goto, requestVars, userVars
  <2>2. /\ rid[t] < next_request_id /\ NeedsDownload(attestation[rid[t]])
        /\ next_request_id \in Nat /\ rid[t] \in Nat
    BY <1>0, <2>1 DEF PointOK, TypeOK, RequestID
  <2>3. ASSUME NEW j \in RequestID PROVE IdOK(j)'
    <3>1. IdOK(j)
      BY DEF ClaimsInv
    <3>. QED
      BY <2>1, <2>2, <3>1 DEF IdOK
  <2>4. ASSUME NEW v \in Thread PROVE PointOK(pc[v], rid[v], local_claims[v])'
    <3>1. PointOK(pc[v], rid[v], local_claims[v])
      BY <1>0
    <3>2. v # t => pc'[v] = pc[v]
      BY <2>1 DEF TypeOK
    <3>3. v = t => pc'[v] = "setId"
      BY <1>0, <2>1 DEF TypeOK
    <3>. QED
      BY <2>1, <2>2, <3>1, <3>2, <3>3 DEF PointOK, MalformedAt, MalformedPoint, NeedsDownload
  <2>5. SoleOwner'
    BY <2>1, SoleOwnerKept DEF ClaimsInv, TypeOK
  <2>. QED
    BY <2>3, <2>4, <2>5 DEF ClaimsInv
<1>15. ASSUME NEW id \in RequestID, Deliver(id) PROVE ClaimsInv'
  <2>1. IdOK(id) /\ id \in in_flight
    BY <1>15 DEF ClaimsInv, Deliver
  <2>2. "store" \in Point /\ PointOK("store", id, local_claims[id]) /\ attestation[id] # "malformed"
    BY <2>1 DEF Point, PointOK, IdOK, NeedsDownload, TypeOK, RequestID
  <2>. QED
    BY <1>0, <1>15, <2>2, MoveStep DEF Deliver, requestVars, userVars
<1>16. ASSUME NEW t \in Thread, SetRequestSetId(t) PROVE ClaimsInv'
  <2>1. "return" \in Point /\ PointOK("return", rid[t], local_claims[t]) /\ pc[t] # "idle"
    BY <1>0, <1>16 DEF SetRequestSetId, At, Point, RefPoint, PointOK, MalformedAt, MalformedPoint
  <2>. QED
    BY <1>0, <1>16, <2>1, MoveStep DEF SetRequestSetId, Goto, requestVars, userVars
<1>17. ASSUME NEW t \in Thread, StoreResponses(t) PROVE ClaimsInv'
  <2>1. /\ pc[t] = "store" /\ rid' = rid
        /\ UNCHANGED <<next_request_id, attestation, state, claims, returned, local_claims, in_flight>>
    BY <1>17, ThrowMoves DEF StoreResponses, At, Call, requestVars, userVars
  <2>2. /\ rid[t] < next_request_id /\ NeedsDownload(attestation[rid[t]])
        /\ next_request_id \in Nat /\ rid[t] \in Nat
    BY <1>0, <2>1 DEF PointOK, TypeOK, RequestID
  <2>3. PICK q \in {"lookup", "catch", "idle"} : pc' = [pc EXCEPT ![t] = q]
    BY <1>17, ThrowMoves DEF StoreResponses, Call
  <2>4. http_responses' = http_responses \/ http_responses' = http_responses \cup {rid[t]}
    BY <1>17 DEF StoreResponses
  <2>5. ASSUME NEW j \in RequestID PROVE IdOK(j)'
    <3>1. IdOK(j)
      BY DEF ClaimsInv
    <3>. QED
      BY <2>1, <2>2, <2>4, <3>1 DEF IdOK
  <2>6. ASSUME NEW v \in Thread PROVE PointOK(pc[v], rid[v], local_claims[v])'
    <3>1. PointOK(pc[v], rid[v], local_claims[v])
      BY <1>0
    <3>2. v # t => pc'[v] = pc[v]
      BY <2>3 DEF TypeOK
    <3>3. v = t => pc'[v] = q
      BY <1>0, <2>3 DEF TypeOK
    <3>. QED
      BY <2>1, <2>2, <3>1, <3>2, <3>3 DEF PointOK, MalformedAt, NeedsDownload
  <2>7. SoleOwner'
    BY <2>1, <2>3, SoleOwnerKept DEF ClaimsInv, TypeOK
  <2>. QED
    BY <2>5, <2>6, <2>7 DEF ClaimsInv
<1>18. ASSUME NEW t \in Thread, AdvanceAgain(t) PROVE ClaimsInv'
  <2>1. "lookup" \in Point /\ PointOK("lookup", rid[t], local_claims[t]) /\ pc[t] # "idle"
    BY <1>0, <1>18 DEF AdvanceAgain, At, Point, PointOK, MalformedAt, MalformedPoint
  <2>. QED
    BY <1>0, <1>18, <2>1, MoveStep DEF AdvanceAgain, Goto, requestVars, userVars
<1>19. ASSUME NEW t \in Thread, ToHave(t) PROVE ClaimsInv'
  <2>1. /\ pc[t] \in {"toHave", "haveNow"} /\ state[rid[t]] # "absent" /\ rid' = rid
        /\ state' = [state EXCEPT ![rid[t]] = "HAVE_ENDORSEMENTS"]
        /\ UNCHANGED <<next_request_id, attestation, claims, returned, rid, local_claims,
                       in_flight, http_responses>>
    BY <1>19 DEF ToHave, At, RefPoint, Goto, SetState, UnchangedRequest, userVars
  <2>2. PICK q \in {"return", "switch"} : pc' = [pc EXCEPT ![t] = q]
    BY <1>19 DEF ToHave, Goto
  <2>3. attestation[rid[t]] # "malformed"
    BY <1>0, <2>1 DEF PointOK, MalformedAt, MalformedPoint
  <2>4. /\ q \in Point /\ "HAVE_ENDORSEMENTS" \in RequestState
        /\ PointOK(q, rid[t], local_claims[t])'
    BY <1>0, <2>1, <2>2, <2>3 DEF Point, RefPoint, RequestState, PointOK
  <2>. QED
    BY <1>0, <2>1, <2>2, <2>3, <2>4, StateStep
<1>20. ASSUME NEW t \in Thread, Verify(t) PROVE ClaimsInv'
  <2>1. PICK c \in Verifiable(attestation[rid[t]], rid[t] \in http_responses) \cup {"null"} :
          /\ local_claims' = [local_claims EXCEPT ![t] = c]
          /\ pc' = [pc EXCEPT ![t] = IF c = "null" THEN "catch" ELSE "setClaims"]
    BY <1>20 DEF Verify, Goto
  <2>2. /\ pc[t] = "verify" /\ http_responses' = http_responses \ {rid[t]}
        /\ UNCHANGED <<next_request_id, attestation, state, claims, returned, rid, in_flight>>
    BY <1>20 DEF Verify, At, Goto, TakeResponses, requestVars, userVars
  <2>3. attestation[rid[t]] # "malformed" /\ rid[t] < next_request_id
    BY <1>0, <2>2 DEF PointOK, MalformedAt, MalformedPoint
  <2>4. c # "null" => Justified(attestation[rid[t]], c)
    BY <1>0, <2>1, <2>3 DEF Justified, Verifiable, IdOK, NeedsDownload
  <2>5. ASSUME NEW j \in RequestID PROVE IdOK(j)'
    <3>1. IdOK(j)
      BY DEF ClaimsInv
    <3>. QED
      BY <2>2, <3>1 DEF IdOK
  <2>6. ASSUME NEW v \in Thread PROVE PointOK(pc[v], rid[v], local_claims[v])'
    <3>1. PointOK(pc[v], rid[v], local_claims[v])
      BY <1>0
    <3>2. CASE v # t
      <4>1. pc'[v] = pc[v] /\ local_claims'[v] = local_claims[v]
        BY <2>1, <3>2 DEF TypeOK
      <4>. QED
        BY <2>2, <3>1, <4>1 DEF PointOK, MalformedAt
    <3>3. CASE v = t
      <4>1. /\ pc'[v] = (IF c = "null" THEN "catch" ELSE "setClaims")
            /\ local_claims'[v] = c
        BY <1>0, <2>1, <3>3 DEF TypeOK
      <4>. QED
        BY <2>2, <2>3, <2>4, <3>3, <4>1 DEF PointOK
    <3>. QED
      BY <3>2, <3>3
  <2>7. SoleOwner'
    BY <2>1, <2>2, SoleOwnerKept DEF ClaimsInv, TypeOK
  <2>. QED
    BY <2>5, <2>6, <2>7 DEF ClaimsInv
<1>21. ASSUME NEW t \in Thread, SetClaims(t) PROVE ClaimsInv'
  <2>1. /\ pc[t] = "setClaims" /\ pc' = [pc EXCEPT ![t] = "finish"] /\ state[rid[t]] # "absent"
        /\ claims' = [claims EXCEPT ![rid[t]] = local_claims[t]]
        /\ UNCHANGED <<next_request_id, attestation, state, returned, rid, local_claims,
                       in_flight, http_responses>>
    BY <1>21 DEF SetClaims, At, RefPoint, Goto, userVars
  <2>2. Justified(attestation[rid[t]], local_claims[t]) /\ rid[t] < next_request_id
    BY <1>0, <2>1 DEF PointOK
  <2>3. /\ \A j \in RequestID : j # rid[t] => claims'[j] = claims[j]
        /\ claims'[rid[t]] = local_claims[t]
    BY <1>0, <2>1 DEF TypeOK
  <2>4. ASSUME NEW j \in RequestID PROVE IdOK(j)'
    <3>1. IdOK(j)
      BY DEF ClaimsInv
    <3>2. CASE j # rid[t]
      BY <2>1, <2>3, <3>1, <3>2 DEF IdOK
    <3>3. CASE j = rid[t]
      <4>1. ~(j >= next_request_id)
        BY <2>1, <3>1, <3>3 DEF IdOK
      <4>. QED
        BY <2>1, <2>2, <2>3, <3>1, <3>3, <4>1 DEF IdOK, Justified
    <3>. QED
      BY <3>2, <3>3
  <2>5. ASSUME NEW v \in Thread PROVE PointOK(pc[v], rid[v], local_claims[v])'
    <3>1. PointOK(pc[v], rid[v], local_claims[v]) /\ rid[v] \in RequestID
      BY <1>0
    <3>2. claims[rid[v]] # "null" => claims'[rid[v]] # "null"
      BY <2>2, <2>3, <3>1 DEF Justified
    <3>3. CASE v # t
      <4>1. pc'[v] = pc[v]
        BY <2>1, <3>3 DEF TypeOK
      <4>. QED
        BY <2>1, <3>1, <3>2, <4>1 DEF PointOK, MalformedAt
    <3>4. CASE v = t
      <4>1. pc'[v] = "finish"
        BY <1>0, <2>1, <3>4 DEF TypeOK
      <4>. QED
        BY <2>1, <2>2, <2>3, <3>4, <4>1 DEF PointOK, Justified
    <3>. QED
      BY <3>3, <3>4
  <2>6. SoleOwner'
    BY <2>1, SoleOwnerKept DEF ClaimsInv, TypeOK
  <2>. QED
    BY <2>4, <2>5, <2>6 DEF ClaimsInv
<1>22. ASSUME NEW t \in Thread, Finish(t) PROVE ClaimsInv'
  <2>1. /\ pc[t] = "finish" /\ state[rid[t]] # "absent" /\ pc' = [pc EXCEPT ![t] = "callback"]
        /\ state' = [state EXCEPT ![rid[t]] = "FINISHED"]
        /\ UNCHANGED <<next_request_id, attestation, claims, returned, rid, local_claims,
                       in_flight, http_responses>>
    BY <1>22 DEF Finish, At, RefPoint, Goto, SetState, UnchangedRequest, userVars
  <2>2. claims[rid[t]] # "null" /\ attestation[rid[t]] # "malformed"
    BY <1>0, <2>1 DEF PointOK, MalformedAt, MalformedPoint
  <2>3. /\ "callback" \in Point /\ "FINISHED" \in RequestState
        /\ PointOK("callback", rid[t], local_claims[t])'
    BY <1>0, <2>1, <2>2 DEF Point, RefPoint, RequestState, PointOK
  <2>. QED
    BY <1>0, <2>1, <2>2, <2>3, StateStep
<1>23. ASSUME NEW t \in Thread, InvokeCallback(t) PROVE ClaimsInv'
  <2>1. pc[t] = "callback" /\ rid' = rid
    BY <1>23 DEF InvokeCallback, At, Goto, Call
  <2>2. PICK q \in {"return", "lookup", "cbResult"} : pc' = [pc EXCEPT ![t] = q]
    BY <1>23 DEF InvokeCallback, Goto, Call
  <2>3. q \in Point /\ PointOK(q, rid[t], local_claims[t])
    BY <1>0, <2>1, <2>2 DEF Point, RefPoint, PointOK, MalformedAt, MalformedPoint
  <2>. QED
    BY <1>0, <1>23, <2>1, <2>2, <2>3, MoveStep DEF InvokeCallback, requestVars, userVars
<1>24. ASSUME NEW t \in Thread, CallbackResult(t) PROVE ClaimsInv'
  <2>1. pc[t] = "cbResult" /\ rid' = rid
    BY <1>24, ThrowMoves DEF CallbackResult, At, Goto
  <2>2. PICK q \in {"cbErase", "catch", "idle"} : pc' = [pc EXCEPT ![t] = q]
    BY <1>24, ThrowMoves DEF CallbackResult, Goto
  <2>3. q \in Point /\ PointOK(q, rid[t], local_claims[t])
    BY <1>0, <2>1, <2>2 DEF Point, RefPoint, PointOK, MalformedAt, MalformedPoint
  <2>. QED
    BY <1>0, <1>24, <2>1, <2>2, <2>3, MoveStep DEF CallbackResult, requestVars, userVars
<1>25. ASSUME NEW t \in Thread, CallbackErase(t) PROVE ClaimsInv'
  <2>1. PICK q \in ReturnPoint \cup {"idle"} : pc' = [pc EXCEPT ![t] = q]
    BY <1>0, <1>25, ReturnMoves DEF CallbackErase
  <2>2. rid' = rid /\ pc[t] = "cbErase" /\ Erased(rid[t])
    BY <1>0, <1>25, ReturnMoves DEF CallbackErase, At
  <2>3. attestation[rid[t]] # "malformed"
    BY <1>0, <2>2 DEF PointOK, MalformedAt, MalformedPoint
  <2>. QED
    BY <1>0, <1>25, <2>1, <2>2, <2>3, EraseStep DEF CallbackErase, userVars
<1>26. ASSUME NEW t \in Thread, Catch(t) PROVE ClaimsInv'
  <2>1. /\ pc[t] = "catch" /\ state[rid[t]] # "absent" /\ pc' = [pc EXCEPT ![t] = "return"]
        /\ state' = [state EXCEPT ![rid[t]] = "ERROR"]
        /\ UNCHANGED <<next_request_id, attestation, claims, returned, rid, local_claims,
                       in_flight, http_responses>>
    BY <1>26 DEF Catch, At, RefPoint, Goto, SetState, UnchangedRequest, userVars
  <2>2. state'[rid[t]] = "ERROR"
    BY <1>0, <2>1 DEF TypeOK
  <2>3. /\ "return" \in Point /\ "ERROR" \in RequestState
        /\ PointOK("return", rid[t], local_claims[t])'
    BY <1>0, <2>1, <2>2
    DEF Point, RefPoint, RequestState, PointOK, MalformedAt, MalformedPoint
  <2>. QED
    BY <1>0, <2>1, <2>3, StateStep
<1>27. ASSUME NEW t \in Thread, AdvanceReturns(t) PROVE ClaimsInv'
  <2>1. PICK q \in ReturnPoint \cup {"idle"} : pc' = [pc EXCEPT ![t] = q]
    BY <1>0, <1>27, ReturnMoves DEF AdvanceReturns
  <2>2. rid' = rid /\ pc[t] = "return"
    BY <1>0, <1>27, ReturnMoves DEF AdvanceReturns, At
  <2>3. q \in Point /\ PointOK(q, rid[t], local_claims[t])
    BY <1>0, <2>1, <2>2 DEF ReturnPoint, Point, RefPoint, PointOK, MalformedAt, MalformedPoint
  <2>. QED
    BY <1>0, <1>27, <2>1, <2>2, <2>3, MoveStep DEF AdvanceReturns, requestVars, userVars
<1>28. ASSUME NEW t \in Thread, UseAfterErase(t) PROVE ClaimsInv'
  <2>1. PointOK(pc[t], rid[t], local_claims[t]) /\ pc[t] # "idle"
    BY <1>0, <1>28 DEF UseAfterErase, RefPoint
  <2>. QED
    BY <1>0, <1>28, <2>1, MoveStep DEF UseAfterErase, requestVars, threadVars, userVars
<1>29. CASE UNCHANGED vars
  BY <1>29 DEF vars, requestVars, threadVars, userVars, ClaimsInv, IdOK, PointOK, MalformedAt,
     SoleOwner
<1>. QED
  BY <1>1, <1>2, <1>3, <1>4, <1>5, <1>6, <1>7, <1>8, <1>9, <1>10, <1>11, <1>12, <1>13, <1>14,
     <1>15, <1>16, <1>17, <1>18, <1>19, <1>20, <1>21, <1>22, <1>23, <1>24, <1>25, <1>26, <1>27,
     <1>28, <1>29
  DEF Next, UserCall, UserStep, AdvanceStep

(***************************************************************************)
(* Whatever the application calls and in whichever order (completed,       *)
(* result, advance and erase at any time, from any number of threads), and *)
(* whenever responses arrive, a request never holds claims its attestation *)
(* and its downloads do not justify, and is never FINISHED without claims. *)
(***************************************************************************)
THEOREM ClaimsAlwaysJustified == Spec => []ClaimsJustified
<1>1. Init => ClaimsInv
  BY ConstantsAssumption DEF Init, ClaimsInv, IdOK, PointOK, SoleOwner, RequestID, MalformedAt
<1>2. TypeOK /\ ClaimsInv /\ [Next]_vars => ClaimsInv'
  BY ClaimsStep
<1>3. ClaimsInv => ClaimsJustified
  BY DEF ClaimsInv, IdOK, Justified, ClaimsJustified
<1>. QED
  BY <1>1, <1>2, <1>3, TypeCorrect, PTL DEF Spec
=============================================================================
