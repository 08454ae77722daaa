------------------------ MODULE TrackerService_proofs ------------------------
(***************************************************************************)
(* Proofs about the request tracker as verify_synchronized and the polling *)
(* unit tests use it: the application submits, polls completed() and takes *)
(* the result, and leaves advancing to the HTTP callback.  Any number of   *)
(* user threads and requests, both kinds of HTTP client.                   *)
(*                                                                         *)
(* The argument.  A request is worked on by one thread at a time: the      *)
(* thread that submitted it, until the HTTP client has accepted the        *)
(* download, then nobody while the download is in flight, then the thread  *)
(* on which the response is delivered.  Nothing in the code enforces this  *)
(* hand-over, and no lock is held across it: it is an invariant of the     *)
(* program points, the return stacks and in_flight together.               *)
(***************************************************************************)
EXTENDS TrackerImplementsService, RequestTracker_proofs, SequenceTheorems

----------------------------------------------------------------------------
(***************************************************************************)
(* The use of the tracker that these theorems are about.                   *)
(***************************************************************************)
Disciplined == Calls = {} /\ Callbacks \subseteq {"null", "advance"}

(***************************************************************************)
(* Return stacks.  A user thread works inside submit; with a synchronous   *)
(* client, inside the HTTP client's submit below that.  A client thread    *)
(* starts from nothing.                                                    *)
(***************************************************************************)
InSubmit == <<"submitted">>
InClient == <<"setId", "submitted">>
Outer(t) == IF t \in Users THEN {InSubmit, InClient} ELSE {<<>>}

\* Where the HTTP callback of a thread returns to, and its first advance(id).
CallbackBase(t) == IF t \in Users THEN InClient ELSE <<>>
FirstAdvance(t) ==
  IF t \in Users THEN <<"advanceAgain", "setId", "submitted">> ELSE <<"advanceAgain">>

\* The user callback runs inside an advance.
InUserCallback(t) ==
  IF t \in Users THEN {<<"return", "submitted">>, <<"return", "setId", "submitted">>}
  ELSE {<<"return">>}

----------------------------------------------------------------------------
(***************************************************************************)
(* The thread t at program point p with return stack k holds the request:  *)
(* it may still read or write it before the request is completed, or has   *)
(* completed it and still owes its callback.                               *)
(***************************************************************************)
HoldsAt(t, p, k) ==
  \/ p \in {"switch", "toWaiting", "prepare", "submitHTTP", "haveNow", "store", "lookup",
            "advanceAgain", "toHave", "verify", "setClaims", "finish", "callback", "catch"}
  \/ p = "return" /\ k = FirstAdvance(t)

Holds(t) == HoldsAt(t, pc[t], stack[t])

\* The responses of a request that needs them have arrived.
Arrived(a, r) == NeedsDownload(a) /\ r

\* A thread in submit, before it called the HTTP client.
Submitting(t, k, r) == t \in Users /\ k = InSubmit /\ ~r

\* A thread about to find its request: in the first or second advance(id) of
\* the HTTP callback, or in the one that the user callback makes.
Advancing(t, k, s, a, r) ==
  \/ k = FirstAdvance(t) /\ s = "WAITING_FOR_ENDORSEMENTS" /\ Arrived(a, r)
  \/ k = CallbackBase(t) /\ s = "HAVE_ENDORSEMENTS" /\ Arrived(a, r)
  \/ k \in InUserCallback(t) /\ s = "FINISHED"

(***************************************************************************)
(* What is true of a thread t at point p with return stack k and computed  *)
(* claims l, whose request has state s, attestation a, responses iff r,    *)
(* claims c and n calls of its callback.                                   *)
(***************************************************************************)
PointInv(t, p, k, l, s, a, r, c, n) ==
  \/ p = "idle" /\ k = <<>>
  \/ p \in {"submitted", "completed2", "result"} /\ t \in Users /\ k = <<>>
  \/ p = "toWaiting" /\ Submitting(t, k, r) /\ s = "SUBMITTED"
  \/ p = "prepare" /\ Submitting(t, k, r) /\ s = "WAITING_FOR_ENDORSEMENTS"
  \/ p = "submitHTTP" /\ Submitting(t, k, r) /\ s = "WAITING_FOR_ENDORSEMENTS" /\ NeedsDownload(a)
  \/ p = "haveNow" /\ Submitting(t, k, r) /\ s = "WAITING_FOR_ENDORSEMENTS" /\ a = "complete"
  \/ p = "setId" /\ t \in Users /\ k = InSubmit /\ s # "absent"
  \/ p = "store" /\ k = CallbackBase(t) /\ s = "WAITING_FOR_ENDORSEMENTS" /\ NeedsDownload(a) /\ ~r
  \/ p = "lookup" /\ Advancing(t, k, s, a, r)
  \/ p = "switch" /\ \/ Advancing(t, k, s, a, r)
                     \/ Submitting(t, k, r) /\ s = "SUBMITTED"
                     \/ Submitting(t, k, r) /\ s = "HAVE_ENDORSEMENTS" /\ a = "complete"
  \/ p = "toHave" /\ k = FirstAdvance(t) /\ s = "WAITING_FOR_ENDORSEMENTS" /\ Arrived(a, r)
  \/ p = "advanceAgain" /\ k = CallbackBase(t) /\ s = "HAVE_ENDORSEMENTS" /\ Arrived(a, r)
  \/ p = "verify" /\ s = "HAVE_ENDORSEMENTS" /\ \/ k = CallbackBase(t) /\ Arrived(a, r)
                                                \/ Submitting(t, k, r) /\ a = "complete"
  \/ /\ p = "setClaims" /\ k \in Outer(t) /\ s = "HAVE_ENDORSEMENTS" /\ ~r
     /\ a # "malformed" /\ l = Required(a)
  \/ /\ p = "finish" /\ k \in Outer(t) /\ s = "HAVE_ENDORSEMENTS" /\ ~r
     /\ a # "malformed" /\ c = Required(a)
  \/ p = "callback" /\ k \in Outer(t) /\ s = "FINISHED" /\ n = 0
  \/ p = "catch" /\ k \in Outer(t) /\ s \in {"WAITING_FOR_ENDORSEMENTS", "HAVE_ENDORSEMENTS"} /\ ~r
  \/ p = "return" /\ \/ k = FirstAdvance(t) /\ s = "HAVE_ENDORSEMENTS" /\ Arrived(a, r)
                     \/ k \in InUserCallback(t) \cup Outer(t) /\ s # "absent"

ThreadInv ==
  \A t \in Thread :
    PointInv(t, pc[t], stack[t], local_claims[t], state[rid[t]], attestation[rid[t]],
             rid[t] \in http_responses, claims[rid[t]], called[rid[t]])

\* At most one thread holds a request.
OneHolder == \A t, v \in Thread : Holds(t) /\ Holds(v) /\ rid[t] = rid[v] => t = v

\* Nobody holds a request whose download is in flight.
FlightInv ==
  \A id \in in_flight :
    /\ state[id] = "WAITING_FOR_ENDORSEMENTS"
    /\ NeedsDownload(attestation[id])
    /\ id \notin http_responses
    /\ \A t \in Thread : Holds(t) => rid[t] # id

RequestInv(id) ==
  /\ id >= next_request_id => state[id] = "absent" /\ id \notin http_responses /\ called[id] = 0
  /\ state[id] \in Completed => id \notin http_responses
  /\ state[id] = "FINISHED" => /\ attestation[id] # "malformed"
                               /\ claims[id] = Required(attestation[id])
  /\ called[id] > 0 => called[id] = 1 /\ state[id] = "FINISHED"
  /\ callback[id] \in {"null", "advance"}

UserInv ==
  \A u \in Users :
    /\ pc[u] = "result" /\ seen[u] = "FINISHED" => state[rid[u]] = "FINISHED"
    /\ pc[u] = "completed2" => seen[u] = "none"
    /\ seen[u] = "FINISHED" => got[u] # "exception"

NoFault == ~dangling /\ ~terminated

HandoverInv ==
  /\ ThreadInv
  /\ OneHolder
  /\ FlightInv
  /\ \A id \in RequestID : RequestInv(id)
  /\ UserInv
  /\ NoFault

----------------------------------------------------------------------------
(***************************************************************************)
(* Return stacks: what pushing and popping a frame gives.                  *)
(***************************************************************************)

\* A client thread is not a user thread, and starts with no frames.
LEMMA ClientBase ==
  ASSUME NEW id \in RequestID
  PROVE  id \notin Users /\ CallbackBase(id) = <<>>
<1>1. id \in Nat
  BY ConstantsAssumption DEF RequestID
<1>. QED
  BY <1>1, ConstantsAssumption DEF CallbackBase

\* A return pops it.
LEMMA Popped ==
  ASSUME NEW t \in Thread
  PROVE  /\ FirstAdvance(t) # <<>> /\ Head(FirstAdvance(t)) = "advanceAgain"
         /\ Tail(FirstAdvance(t)) = CallbackBase(t)
         /\ \A k \in InUserCallback(t) : /\ k # <<>> /\ Head(k) = "return"
                                         /\ Tail(k) \in Outer(t)
         /\ InSubmit # <<>> /\ Head(InSubmit) = "submitted" /\ Tail(InSubmit) = <<>>
         /\ InClient # <<>> /\ Head(InClient) = "setId" /\ Tail(InClient) = InSubmit
<1>1. /\ FirstAdvance(t) # <<>> /\ Head(FirstAdvance(t)) = "advanceAgain"
      /\ Tail(FirstAdvance(t)) = CallbackBase(t)
  BY DEF InClient, CallbackBase, FirstAdvance
<1>2. /\ InSubmit # <<>> /\ Head(InSubmit) = "submitted" /\ Tail(InSubmit) = <<>>
      /\ InClient # <<>> /\ Head(InClient) = "setId" /\ Tail(InClient) = InSubmit
  BY DEF InSubmit, InClient
<1>3. ASSUME NEW k \in InUserCallback(t)
      PROVE  k # <<>> /\ Head(k) = "return" /\ Tail(k) \in Outer(t)
  <2>1. CASE k = <<"return">> /\ t \notin Users
    BY <2>1 DEF Outer
  <2>2. CASE k = <<"return", "submitted">> /\ t \in Users
    BY <2>2 DEF Outer, InSubmit
  <2>3. CASE k = <<"return", "setId", "submitted">> /\ t \in Users
    BY <2>3 DEF Outer, InClient
  <2>. QED
    BY <2>1, <2>2, <2>3 DEF InUserCallback
<1>. QED
  BY <1>1, <1>2, <1>3

\* A sequence is its head in front of its tail.
LEMMA HeadTail ==
  ASSUME NEW S, NEW w \in Seq(S), w # <<>>
  PROVE  <<Head(w)>> \o Tail(w) = w
<1>1. /\ <<Head(w)>> \o Tail(w) \in Seq(S)
      /\ Len(<<Head(w)>> \o Tail(w)) = Len(w) /\ Len(w) \in Nat
      /\ Len(Tail(w)) + 1 = Len(w)
  OBVIOUS
<1>2. ASSUME NEW i \in 1 .. Len(w) PROVE (<<Head(w)>> \o Tail(w))[i] = w[i]
  <2>1. CASE i = 1
    BY <2>1
  <2>2. CASE i # 1
    <3>1. i - 1 \in 1 .. Len(Tail(w)) /\ Tail(w)[i - 1] = w[i]
      BY <1>1, <2>2
    <3>. QED
      BY <1>1, <2>2, <3>1
  <2>. QED
    BY <2>1, <2>2
<1>. QED
  BY <1>1, <1>2, SeqEqual

\* The frames of the first advance, of the user callback and of the outermost
\* advance are told apart.
LEMMA Apart ==
  ASSUME NEW t \in Thread
  PROVE  /\ FirstAdvance(t) \notin InUserCallback(t) \cup Outer(t)
         /\ CallbackBase(t) \in Outer(t)
         /\ InUserCallback(t) \cap Outer(t) = {}
         /\ t \in Users => InSubmit \in Outer(t)
         /\ t \in Users => Outer(t) = {InSubmit, InClient}
         /\ t \notin Users => Outer(t) = {<<>>}
BY DEF InSubmit, InClient, CallbackBase, FirstAdvance, Outer, InUserCallback

\* A call pushes the frame that the invariant names.
LEMMA Pushed ==
  ASSUME NEW t \in Thread
  PROVE  /\ <<"setId">> \o InSubmit = InClient
         /\ t \in Users => CallbackBase(t) = InClient
         /\ <<"advanceAgain">> \o CallbackBase(t) = FirstAdvance(t)
         /\ \A k \in Outer(t) : <<"return">> \o k \in InUserCallback(t)
<1>1. InClient \in Seq(ReturnPoint) /\ FirstAdvance(t) \in Seq(ReturnPoint)
  <2>1. InClient \in Seq(ReturnPoint)
    BY DEF InClient, ReturnPoint
  <2>2. CASE t \in Users
    BY <2>1, <2>2 DEF FirstAdvance, ReturnPoint
  <2>3. CASE t \notin Users
    BY <2>1, <2>3 DEF FirstAdvance, ReturnPoint
  <2>. QED
    BY <2>2, <2>3
<1>2. <<"setId">> \o InSubmit = InClient
  BY <1>1, Popped, HeadTail
<1>3. <<"advanceAgain">> \o CallbackBase(t) = FirstAdvance(t)
  BY <1>1, Popped, HeadTail
<1>4. ASSUME NEW k \in Outer(t) PROVE <<"return">> \o k \in InUserCallback(t)
  <2>1. CASE t \notin Users
    <3>1. k = <<>> /\ <<"return">> \o <<>> = <<"return">>
      BY <2>1, Apart
    <3>. QED
      BY <2>1, <3>1 DEF InUserCallback
  <2>2. CASE t \in Users /\ k = InSubmit
    <3>1. /\ <<"return", "submitted">> \in Seq(ReturnPoint) \ {<<>>}
          /\ Head(<<"return", "submitted">>) = "return"
          /\ Tail(<<"return", "submitted">>) = k
      BY <2>2 DEF InSubmit, ReturnPoint
    <3>2. <<"return">> \o k = <<"return", "submitted">>
      BY <3>1, HeadTail
    <3>. QED
      BY <2>2, <3>2 DEF InUserCallback
  <2>3. CASE t \in Users /\ k = InClient
    <3>1. /\ <<"return", "setId", "submitted">> \in Seq(ReturnPoint) \ {<<>>}
          /\ Head(<<"return", "setId", "submitted">>) = "return"
          /\ Tail(<<"return", "setId", "submitted">>) = k
      BY <2>3 DEF InClient, ReturnPoint
    <3>2. <<"return">> \o k = <<"return", "setId", "submitted">>
      BY <3>1, HeadTail
    <3>. QED
      BY <2>3, <3>2 DEF InUserCallback
  <2>. QED
    BY <2>1, <2>2, <2>3, Apart
<1>. QED
  BY <1>2, <1>3, <1>4 DEF CallbackBase

----------------------------------------------------------------------------
(***************************************************************************)
(* The frame of a step: what a step of one thread leaves alone.            *)
(***************************************************************************)

\* A thread that holds a request holds one that is in the map.
LEMMA HolderPresent ==
  ASSUME NEW t \in Thread, NEW p, NEW k, NEW l, NEW s, NEW a, NEW r, NEW c, NEW n,
         PointInv(t, p, k, l, s, a, r, c, n), HoldsAt(t, p, k)
  PROVE  s # "absent"
BY DEF PointInv, HoldsAt, Submitting, Advancing

\* A thread that does not hold its request only relies on its being there.
LEMMA Bystander ==
  ASSUME NEW t \in Thread, NEW p, NEW k, NEW l,
         NEW s, NEW a, NEW r, NEW c, NEW n, NEW s2, NEW a2, NEW r2, NEW c2, NEW n2,
         PointInv(t, p, k, l, s, a, r, c, n), ~HoldsAt(t, p, k), s2 # "absent"
  PROVE  PointInv(t, p, k, l, s2, a2, r2, c2, n2)
BY Apart DEF PointInv, HoldsAt

\* The request i is not touched by a step.
SameRequest(i) ==
  /\ state'[i] = state[i] /\ attestation'[i] = attestation[i] /\ callback'[i] = callback[i]
  /\ claims'[i] = claims[i] /\ called'[i] = called[i]
  /\ i \in http_responses' <=> i \in http_responses

\* The thread v is not touched by a step.
SameThread(v) ==
  /\ pc'[v] = pc[v] /\ rid'[v] = rid[v] /\ stack'[v] = stack[v]
  /\ local_claims'[v] = local_claims[v]
  /\ v \in Users => seen'[v] = seen[v] /\ got'[v] = got[v]

\* What ThreadInv and UserInv say of one thread.
ThreadInvOf(t) ==
  PointInv(t, pc[t], stack[t], local_claims[t], state[rid[t]], attestation[rid[t]],
           rid[t] \in http_responses, claims[rid[t]], called[rid[t]])

UserInvOf(u) ==
  /\ pc[u] = "result" /\ seen[u] = "FINISHED" => state[rid[u]] = "FINISHED"
  /\ pc[u] = "completed2" => seen[u] = "none"
  /\ seen[u] = "FINISHED" => got[u] # "exception"

(***************************************************************************)
(* A step of the thread t that touches only requests J, which no other     *)
(* thread holds and which are not in flight, keeps the invariant if it     *)
(* keeps what the invariant says of t and of J.                            *)
(***************************************************************************)
LEMMA Handover ==
  ASSUME TypeOK, TypeOK', HandoverInv, NEW t \in Thread, NEW J \in SUBSET RequestID,
         \A v \in Thread : v # t => SameThread(v),
         \A i \in RequestID : i \notin J => SameRequest(i),
         \A j \in J : /\ state'[j] # "absent" /\ j \notin in_flight /\ RequestInv(j)'
                      /\ state[j] = "FINISHED" => state'[j] = "FINISHED",
         \A v \in Thread : v # t /\ Holds(v) => rid[v] \notin J,
         next_request_id' \in {next_request_id, next_request_id + 1},
         ThreadInvOf(t)', t \in Users => UserInvOf(t)',
         Holds(t)' => /\ rid'[t] \notin in_flight'
                      /\ \A v \in Thread : v # t /\ Holds(v) => rid[v] # rid'[t],
         \A i \in in_flight' \ in_flight :
            /\ state'[i] = "WAITING_FOR_ENDORSEMENTS" /\ NeedsDownload(attestation'[i])
            /\ i \notin http_responses'
            /\ \A v \in Thread : v # t /\ Holds(v) => rid[v] # i,
         NoFault'
  PROVE  HandoverInv'
<1>1. ThreadInv'
  <2>. SUFFICES ASSUME NEW v \in Thread PROVE ThreadInvOf(v)'
    BY DEF ThreadInv, ThreadInvOf
  <2>1. CASE v = t
    BY <2>1
  <2>2. CASE v # t
    <3>1. ThreadInvOf(v) /\ SameThread(v) /\ rid[v] \in RequestID
      BY <2>2 DEF HandoverInv, ThreadInv, ThreadInvOf, TypeOK
    <3>2. CASE rid[v] \notin J
      <4>1. SameRequest(rid[v])
        BY <3>1, <3>2
      <4>. QED
        BY <3>1, <4>1 DEF ThreadInvOf, SameThread, SameRequest
    <3>3. CASE rid[v] \in J
      <4>1. ~HoldsAt(v, pc[v], stack[v]) /\ state'[rid[v]] # "absent"
        BY <2>2, <3>3 DEF Holds
      <4>. QED
        BY <3>1, <4>1, Bystander DEF ThreadInvOf, SameThread
    <3>. QED
      BY <3>2, <3>3
  <2>. QED
    BY <2>1, <2>2
<1>2. ASSUME NEW v \in Thread, v # t PROVE (Holds(v)' <=> Holds(v)) /\ rid'[v] = rid[v]
  BY <1>2 DEF Holds, SameThread
<1>3. OneHolder'
  BY <1>2 DEF HandoverInv, OneHolder
<1>4. FlightInv'
  <2>. SUFFICES ASSUME NEW i \in in_flight'
                PROVE  /\ state'[i] = "WAITING_FOR_ENDORSEMENTS" /\ NeedsDownload(attestation'[i])
                       /\ i \notin http_responses'
                       /\ \A v \in Thread : Holds(v)' => rid'[v] # i
    BY DEF FlightInv
  <2>1. CASE i \notin in_flight
    BY <2>1, <1>2
  <2>2. CASE i \in in_flight
    <3>1. SameRequest(i)
      BY <2>2 DEF TypeOK
    <3>. QED
      BY <2>2, <3>1, <1>2 DEF HandoverInv, FlightInv, SameRequest
  <2>. QED
    BY <2>1, <2>2
<1>5. ASSUME NEW i \in RequestID PROVE RequestInv(i)'
  <2>1. CASE i \notin J
    <3>1. SameRequest(i) /\ RequestInv(i)
      BY <2>1 DEF HandoverInv
    <3>2. i >= next_request_id' => i >= next_request_id
      BY ConstantsAssumption DEF TypeOK, RequestID
    <3>. QED
      BY <3>1, <3>2 DEF SameRequest, RequestInv
  <2>. QED
    BY <2>1
<1>6. UserInv'
  <2>. SUFFICES ASSUME NEW u \in Users PROVE UserInvOf(u)'
    BY DEF UserInv, UserInvOf
  <2>1. CASE u # t
    <3>1. u \in Thread /\ UserInvOf(u)
      BY DEF Thread, HandoverInv, UserInv, UserInvOf
    <3>2. SameThread(u) /\ rid[u] \in RequestID
      BY <2>1, <3>1 DEF TypeOK
    <3>3. state[rid[u]] = "FINISHED" => state'[rid[u]] = "FINISHED"
      BY <3>2 DEF SameRequest
    <3>. QED
      BY <3>1, <3>2, <3>3 DEF UserInvOf, SameThread
  <2>. QED
    BY <2>1
<1>. QED
  BY <1>1, <1>3, <1>4, <1>5, <1>6 DEF HandoverInv

\* A step of t that moves only t, and t does not come to hold a request it
\* did not hold: the case of a step that changes no request.
LEMMA ControlStep ==
  ASSUME TypeOK, TypeOK', HandoverInv, NEW t \in Thread, NEW q, NEW k,
         pc' = [pc EXCEPT ![t] = q], stack' = [stack EXCEPT ![t] = k],
         UNCHANGED <<requestVars, http_responses, in_flight, rid, local_claims, seen, got,
                     called, faultVars>>,
         q \notin {"result", "completed2"}, HoldsAt(t, q, k) => Holds(t),
         PointInv(t, q, k, local_claims[t], state[rid[t]], attestation[rid[t]],
                  rid[t] \in http_responses, claims[rid[t]], called[rid[t]])
  PROVE  HandoverInv'
<1>1. /\ UNCHANGED <<next_request_id, state, attestation, callback, claims, http_responses,
                     in_flight, rid, local_claims, seen, got, called, dangling, terminated>>
      /\ pc'[t] = q /\ stack'[t] = k
  BY DEF requestVars, faultVars, TypeOK
<1>2. /\ \A v \in Thread : v # t => SameThread(v)
      /\ \A i \in RequestID : SameRequest(i)
  BY <1>1 DEF SameThread, SameRequest, TypeOK
<1>3. ThreadInvOf(t)'
  BY <1>1 DEF ThreadInvOf
<1>4. t \in Users => UserInvOf(t)'
  BY <1>1 DEF UserInvOf, HandoverInv, UserInv
<1>5. Holds(t)' => /\ rid'[t] \notin in_flight'
                   /\ \A v \in Thread : v # t /\ Holds(v) => rid[v] # rid'[t]
  BY <1>1 DEF Holds, HandoverInv, FlightInv, OneHolder
<1>6. NoFault'
  BY <1>1 DEF NoFault, HandoverInv
<1>. QED
  BY <1>1, <1>2, <1>3, <1>4, <1>5, <1>6, Handover, {} \in SUBSET RequestID

\* A step of a thread that holds its request and changes that request only.
LEMMA HolderStep ==
  ASSUME TypeOK, TypeOK', HandoverInv, NEW t \in Thread, Holds(t),
         UNCHANGED <<next_request_id, in_flight, rid, seen, got, faultVars>>,
         \A v \in Thread : v # t => /\ pc'[v] = pc[v] /\ stack'[v] = stack[v]
                                    /\ local_claims'[v] = local_claims[v],
         \A i \in RequestID : i # rid[t] => SameRequest(i),
         state'[rid[t]] # "absent", RequestInv(rid[t])',
         state[rid[t]] = "FINISHED" => state'[rid[t]] = "FINISHED",
         pc'[t] \notin {"result", "completed2"},
         PointInv(t, pc'[t], stack'[t], local_claims'[t], state'[rid[t]], attestation'[rid[t]],
                  rid[t] \in http_responses', claims'[rid[t]], called'[rid[t]])
  PROVE  HandoverInv'
<1>1. /\ UNCHANGED <<next_request_id, in_flight, rid, seen, got, dangling, terminated>>
      /\ rid[t] \in RequestID
  BY DEF faultVars, TypeOK
<1>2. \A v \in Thread : v # t => SameThread(v)
  BY <1>1 DEF SameThread, TypeOK
<1>3. ThreadInvOf(t)'
  BY <1>1 DEF ThreadInvOf
<1>4. t \in Users => UserInvOf(t)'
  BY <1>1 DEF UserInvOf, HandoverInv, UserInv
<1>5. /\ rid[t] \notin in_flight
      /\ \A v \in Thread : v # t /\ Holds(v) => rid[v] # rid[t]
  BY DEF HandoverInv, FlightInv, OneHolder
<1>6. NoFault'
  BY <1>1 DEF NoFault, HandoverInv
<1>7. /\ \A i \in RequestID : i \notin {rid[t]} => SameRequest(i)
      /\ \A j \in {rid[t]} : /\ state'[j] # "absent" /\ j \notin in_flight /\ RequestInv(j)'
                             /\ state[j] = "FINISHED" => state'[j] = "FINISHED"
      /\ \A v \in Thread : v # t /\ Holds(v) => rid[v] \notin {rid[t]}
  BY <1>1, <1>5
<1>. QED
  BY <1>1, <1>2, <1>3, <1>4, <1>5, <1>6, <1>7, Handover, {rid[t]} \in SUBSET RequestID

----------------------------------------------------------------------------
(***************************************************************************)
(* Every step keeps the invariant, one lemma per group of actions.         *)
(***************************************************************************)

\* The calls of the application: submit, the two reads of completed and result.
LEMMA UserKeeps ==
  ASSUME Disciplined, TypeOK, TypeOK', HandoverInv, NEW u \in Users,
         UserCall(u) \/ UserStep(u)
  PROVE  HandoverInv'
<1>0. /\ u \in Thread /\ ThreadInvOf(u) /\ UserInvOf(u) /\ rid[u] \in RequestID
      /\ \A id \in RequestID : RequestInv(id)
      /\ NoFault
  BY DEF Thread, HandoverInv, ThreadInv, ThreadInvOf, UserInv, UserInvOf, TypeOK
<1>1. CASE Submit(u)
  <2>0. PICK id \in RequestID : id = next_request_id
    BY <1>1, ConstantsAssumption DEF Submit, TypeOK, RequestID
  <2>1. PICK a \in Attestation, c \in Clients, f \in Callbacks :
          /\ attestation' = [attestation EXCEPT ![id] = a]
          /\ http_client' = [http_client EXCEPT ![id] = c]
          /\ callback' = [callback EXCEPT ![id] = f]
    BY <1>1, <2>0 DEF Submit
  <2>2. /\ next_request_id' = id + 1 /\ pc[u] = "idle"
        /\ state' = [state EXCEPT ![id] = "SUBMITTED"]
        /\ pc' = [pc EXCEPT ![u] = "switch"]
        /\ rid' = [rid EXCEPT ![u] = id]
        /\ stack' = [stack EXCEPT ![u] = InSubmit]
        /\ UNCHANGED <<claims, http_responses, in_flight, local_claims, seen, got, called,
                       dangling, terminated>>
    BY <1>1, <2>0 DEF Submit, At, userVars, faultVars, InSubmit
  <2>3. state[id] = "absent" /\ id \notin http_responses /\ called[id] = 0
    BY <1>0, <2>0, ConstantsAssumption DEF RequestInv, RequestID
  <2>4. ASSUME NEW v \in Thread, Holds(v) PROVE rid[v] # id
    BY <2>3, <2>4, HolderPresent DEF Holds, HandoverInv, ThreadInv
  <2>5. /\ \A v \in Thread : v # u => SameThread(v)
        /\ \A i \in RequestID : i \notin {id} => SameRequest(i)
    BY <2>1, <2>2 DEF SameThread, SameRequest, TypeOK
  <2>6. /\ state'[id] = "SUBMITTED" /\ attestation'[id] = a /\ callback'[id] = f
        /\ pc'[u] = "switch" /\ rid'[u] = id /\ stack'[u] = InSubmit
    BY <1>0, <2>1, <2>2 DEF TypeOK
  <2>7. RequestInv(id)' /\ id \notin in_flight
    <3>1. f \in {"null", "advance"} /\ id \notin in_flight
      BY <2>3 DEF Disciplined, HandoverInv, FlightInv
    <3>2. ~(id >= next_request_id')
      BY <2>2, ConstantsAssumption DEF RequestID
    <3>. QED
      BY <2>2, <2>3, <2>6, <3>1, <3>2 DEF RequestInv, Completed
  <2>8. ThreadInvOf(u)'
    BY <2>2, <2>3, <2>6 DEF ThreadInvOf, PointInv, Submitting
  <2>9. UserInvOf(u)' /\ NoFault'
    BY <1>0, <2>2, <2>6 DEF UserInvOf, NoFault
  <2>10. /\ {id} \in SUBSET RequestID
         /\ \A j \in {id} : /\ state'[j] # "absent" /\ j \notin in_flight /\ RequestInv(j)'
                            /\ state[j] = "FINISHED" => state'[j] = "FINISHED"
         /\ \A v \in Thread : v # u /\ Holds(v) => rid[v] \notin {id}
    BY <2>2, <2>3, <2>4, <2>6, <2>7
  <2>11. next_request_id' \in {next_request_id, next_request_id + 1}
    BY <2>0, <2>2
  <2>12. /\ rid'[u] \notin in_flight' /\ in_flight' \ in_flight = {}
         /\ \A v \in Thread : v # u /\ Holds(v) => rid[v] # rid'[u]
    BY <2>2, <2>4, <2>6, <2>7
  <2>. QED
    BY <1>0, <2>5, <2>8, <2>9, <2>10, <2>11, <2>12, Handover
<1>2. CASE CompletedFirst(u)
  <2>1. PICK id \in RequestID :
          /\ rid' = [rid EXCEPT ![u] = id]
          /\ IF StateOf(id) = "FINISHED"
             THEN /\ pc' = [pc EXCEPT ![u] = "result"]
                  /\ seen' = [seen EXCEPT ![u] = "FINISHED"]
             ELSE /\ pc' = [pc EXCEPT ![u] = "completed2"]
                  /\ seen' = [seen EXCEPT ![u] = "none"]
    BY <1>2 DEF CompletedFirst, TypeOK
  <2>2. /\ pc[u] = "idle" /\ got' = [got EXCEPT ![u] = "none"]
        /\ UNCHANGED <<next_request_id, state, attestation, callback, claims, http_responses,
                       in_flight, stack, local_claims, called, dangling, terminated>>
    BY <1>2 DEF CompletedFirst, At, requestVars, faultVars
  <2>3. stack[u] = <<>>
    BY <1>0, <2>2 DEF ThreadInvOf, PointInv
  <2>4. /\ \A v \in Thread : v # u => SameThread(v)
        /\ \A i \in RequestID : SameRequest(i)
    BY <2>1, <2>2 DEF SameThread, SameRequest, TypeOK
  <2>5. /\ rid'[u] = id /\ got'[u] = "none" /\ stack'[u] = <<>>
        /\ \/ pc'[u] = "result" /\ seen'[u] = "FINISHED" /\ state'[id] = "FINISHED"
           \/ pc'[u] = "completed2" /\ seen'[u] = "none"
    BY <1>0, <2>1, <2>2, <2>3 DEF TypeOK, StateOf
  <2>6. ThreadInvOf(u)' /\ UserInvOf(u)' /\ ~Holds(u)' /\ NoFault'
    BY <1>0, <2>2, <2>5 DEF ThreadInvOf, PointInv, UserInvOf, Holds, HoldsAt, NoFault
  <2>. QED
    BY <1>0, <2>2, <2>4, <2>6, Handover, {} \in SUBSET RequestID
<1>3. CASE Erase(u)
  BY <1>3 DEF Erase, Disciplined
<1>4. CASE Advance(u)
  BY <1>4 DEF Advance, Disciplined
<1>5. CASE SubmitReturns(u)
  <2>1. /\ pc[u] = "submitted" /\ pc' = [pc EXCEPT ![u] = "idle"] /\ rid' = rid
        /\ stack' = [stack EXCEPT ![u] = stack[u]]
        /\ UNCHANGED <<requestVars, http_responses, in_flight, local_claims, seen, got,
                       called, faultVars>>
    BY <1>5 DEF SubmitReturns, At, Goto, TypeOK
  <2>2. PointInv(u, "idle", stack[u], local_claims[u], state[rid[u]], attestation[rid[u]],
                 rid[u] \in http_responses, claims[rid[u]], called[rid[u]])
    BY <1>0, <2>1 DEF ThreadInvOf, PointInv
  <2>3. ~HoldsAt(u, "idle", stack[u])
    BY DEF HoldsAt
  <2>. QED
    BY <1>0, <2>1, <2>2, <2>3, ControlStep
<1>6. CASE CompletedSecond(u) \/ Result(u)
  <2>1. /\ pc[u] \in {"completed2", "result"} /\ stack' = stack /\ rid' = rid
        /\ UNCHANGED <<next_request_id, state, attestation, callback, claims, http_responses,
                       in_flight, local_claims, called, dangling, terminated>>
        /\ \A v \in Users : v # u => seen'[v] = seen[v] /\ got'[v] = got[v]
    BY <1>6 DEF CompletedSecond, Result, At, Goto, TypeOK, requestVars, faultVars
  <2>2. PICK q \in {"idle", "result"} : pc' = [pc EXCEPT ![u] = q]
    BY <1>6 DEF CompletedSecond, Result, Goto
  <2>3. /\ pc'[u] = q /\ stack[u] = <<>>
        /\ \A v \in Thread : v # u => SameThread(v)
        /\ \A i \in RequestID : SameRequest(i)
    BY <1>0, <2>1, <2>2 DEF SameThread, SameRequest, TypeOK, ThreadInvOf, PointInv
  <2>4. ThreadInvOf(u)' /\ ~Holds(u)' /\ NoFault'
    BY <1>0, <2>1, <2>3 DEF ThreadInvOf, PointInv, Holds, HoldsAt, NoFault
  <2>5. UserInvOf(u)'
    <3>1. CASE CompletedSecond(u)
      <4>1. /\ pc[u] = "completed2" /\ got' = got
            /\ IF StateOf(rid[u]) = "ERROR"
               THEN seen' = [seen EXCEPT ![u] = "ERROR"]
               ELSE pc' = [pc EXCEPT ![u] = "idle"] /\ seen' = seen
        BY <3>1 DEF CompletedSecond, At, Goto
      <4>2. seen[u] = "none" /\ seen'[u] \in {"none", "ERROR"} /\ pc'[u] # "completed2"
        BY <1>0, <2>3, <4>1 DEF UserInvOf, TypeOK
      <4>. QED
        BY <4>1, <4>2 DEF UserInvOf
    <3>2. CASE Result(u)
      <4>1. /\ pc[u] = "result" /\ pc'[u] = "idle" /\ seen' = seen
            /\ got'[u] = IF HasResult(rid[u]) THEN claims[rid[u]] ELSE "exception"
        BY <1>0, <3>2 DEF Result, At, Goto, TypeOK
      <4>2. claims[rid[u]] # "exception"
        BY <1>0 DEF TypeOK, Claims
      <4>3. seen[u] = "FINISHED" => HasResult(rid[u])
        BY <1>0, <4>1 DEF UserInvOf, RequestInv, HasResult, Required
      <4>. QED
        BY <4>1, <4>2, <4>3 DEF UserInvOf
    <3>. QED
      BY <1>6, <3>1, <3>2
  <2>. QED
    BY <1>0, <2>1, <2>3, <2>4, <2>5, Handover, {} \in SUBSET RequestID
<1>. QED
  BY <1>1, <1>2, <1>3, <1>4, <1>5, <1>6 DEF UserCall, UserStep

\* The HTTP client delivers a response on its thread: nobody else holds the
\* request, and the thread becomes its holder.
LEMMA DeliverKeeps ==
  ASSUME TypeOK, TypeOK', HandoverInv, NEW id \in RequestID, Deliver(id)
  PROVE  HandoverInv'
<1>1. /\ id \in Thread /\ id \notin Users /\ id \in in_flight /\ pc[id] = "idle"
      /\ in_flight' = in_flight \ {id}
      /\ pc' = [pc EXCEPT ![id] = "store"] /\ rid' = [rid EXCEPT ![id] = id]
      /\ UNCHANGED <<next_request_id, state, attestation, callback, claims, http_responses,
                     stack, local_claims, seen, got, called, dangling, terminated>>
  BY ClientBase DEF Deliver, At, Thread, requestVars, userVars, faultVars
<1>2. /\ \A v \in Thread : v # id => SameThread(v)
      /\ \A i \in RequestID : SameRequest(i)
      /\ pc'[id] = "store" /\ rid'[id] = id
  BY <1>1 DEF SameThread, SameRequest, TypeOK
<1>3. /\ state[id] = "WAITING_FOR_ENDORSEMENTS" /\ NeedsDownload(attestation[id])
      /\ id \notin http_responses
      /\ \A v \in Thread : Holds(v) => rid[v] # id
      /\ stack[id] = CallbackBase(id)
  BY <1>1, ClientBase DEF HandoverInv, FlightInv, ThreadInv, PointInv
<1>4. ThreadInvOf(id)'
  BY <1>1, <1>2, <1>3 DEF ThreadInvOf, PointInv
<1>5. NoFault'
  BY <1>1 DEF NoFault, HandoverInv
<1>6. /\ rid'[id] \notin in_flight' /\ in_flight' \ in_flight = {}
      /\ \A v \in Thread : v # id /\ Holds(v) => rid[v] # rid'[id]
  BY <1>1, <1>2, <1>3
<1>. QED
  BY <1>1, <1>2, <1>4, <1>5, <1>6, Handover, {} \in SUBSET RequestID

\* The steps of advance and of the HTTP callback that change no request.
LEMMA ControlKeeps ==
  ASSUME TypeOK, TypeOK', HandoverInv, NEW t \in Thread,
         \/ Lookup(t) \/ Switch(t) \/ PrepareEndorsements(t) \/ SubmitHTTPFails(t)
         \/ SubmitHTTPSync(t) \/ SetRequestSetId(t) \/ AdvanceAgain(t) \/ AdvanceReturns(t)
  PROVE  HandoverInv'
<1>. DEFINE Same == UNCHANGED <<requestVars, http_responses, in_flight, rid, local_claims, seen,
                                got, called, faultVars>>
            Inv(q, k) == PointInv(t, q, k, local_claims[t], state[rid[t]], attestation[rid[t]],
                                  rid[t] \in http_responses, claims[rid[t]], called[rid[t]])
<1>0. Inv(pc[t], stack[t]) /\ rid[t] \in RequestID
  BY DEF HandoverInv, ThreadInv, TypeOK
<1>. HIDE DEF Same
<1>. SUFFICES \E q, k : /\ pc' = [pc EXCEPT ![t] = q] /\ stack' = [stack EXCEPT ![t] = k]
                        /\ Same /\ q \notin {"result", "completed2"}
                        /\ HoldsAt(t, q, k) => Holds(t)
                        /\ Inv(q, k)
  BY ControlStep DEF Same
<1>1. stack = [stack EXCEPT ![t] = stack[t]]
  BY DEF TypeOK
<1>2. CASE Lookup(t)
  <2>1. pc[t] = "lookup" /\ state[rid[t]] # "absent"
    BY <1>0, <1>2 DEF Lookup, At, PointInv, Advancing
  <2>2. pc' = [pc EXCEPT ![t] = "switch"] /\ stack' = stack /\ Same
    BY <1>2, <2>1 DEF Lookup, Goto, Same, userVars, faultVars
  <2>3. Inv("switch", stack[t]) /\ Holds(t)
    BY <1>0, <2>1 DEF PointInv, Holds, HoldsAt
  <2>. QED
    BY <1>1, <2>2, <2>3
<1>3. CASE Switch(t)
  <2>1. pc[t] = "switch" /\ stack' = stack /\ Same /\ Holds(t)
    BY <1>3 DEF Switch, At, Goto, Same, userVars, Holds, HoldsAt
  <2>2. PICK q : /\ pc' = [pc EXCEPT ![t] = q]
                 /\ q = CASE state[rid[t]] = "SUBMITTED" -> "toWaiting"
                          [] state[rid[t]] = "WAITING_FOR_ENDORSEMENTS" -> "toHave"
                          [] state[rid[t]] = "HAVE_ENDORSEMENTS" -> "verify"
                          [] state[rid[t]] = "FINISHED" -> "return"
                          [] state[rid[t]] = "ERROR" -> "catch"
    BY <1>3 DEF Switch, Goto
  <2>3. q \notin {"result", "completed2"} /\ Inv(q, stack[t])
    <3>1. \/ Advancing(t, stack[t], state[rid[t]], attestation[rid[t]], rid[t] \in http_responses)
          \/ /\ Submitting(t, stack[t], rid[t] \in http_responses)
             /\ \/ state[rid[t]] = "SUBMITTED"
                \/ state[rid[t]] = "HAVE_ENDORSEMENTS" /\ attestation[rid[t]] = "complete"
      BY <1>0, <2>1 DEF PointInv
    <3>2. CASE state[rid[t]] = "SUBMITTED"
      BY <2>2, <3>1, <3>2 DEF PointInv, Advancing
    <3>3. CASE state[rid[t]] = "WAITING_FOR_ENDORSEMENTS"
      BY <2>2, <3>1, <3>3 DEF PointInv, Advancing
    <3>4. CASE state[rid[t]] = "HAVE_ENDORSEMENTS"
      BY <2>2, <3>1, <3>4 DEF PointInv, Advancing
    <3>5. CASE state[rid[t]] = "FINISHED"
      BY <2>2, <3>1, <3>5 DEF PointInv, Advancing
    <3>. QED
      BY <3>1, <3>2, <3>3, <3>4, <3>5 DEF Advancing
  <2>. QED
    BY <1>1, <2>1, <2>2, <2>3
<1>4. CASE PrepareEndorsements(t)
  <2>1. pc[t] = "prepare" /\ stack' = stack /\ Same /\ Holds(t)
    BY <1>4 DEF PrepareEndorsements, At, Goto, Same, userVars, Holds, HoldsAt
  <2>2. PICK q \in {"catch", "submitHTTP", "haveNow"} :
          /\ pc' = [pc EXCEPT ![t] = q]
          /\ q = "submitHTTP" => NeedsDownload(attestation[rid[t]])
          /\ q = "haveNow" => /\ attestation[rid[t]] # "malformed"
                              /\ ~NeedsDownload(attestation[rid[t]])
    BY <1>4 DEF PrepareEndorsements, Goto
  <2>3. q = "haveNow" => attestation[rid[t]] = "complete"
    BY <1>0, <2>2 DEF TypeOK, Attestation, NeedsDownload
  <2>4. Inv(q, stack[t])
    BY <1>0, <2>1, <2>2, <2>3, Apart DEF PointInv, Submitting
  <2>. QED
    BY <1>1, <2>1, <2>2, <2>4
<1>5. CASE SubmitHTTPFails(t)
  <2>1. /\ pc[t] = "submitHTTP" /\ pc' = [pc EXCEPT ![t] = "catch"] /\ stack' = stack
        /\ Same /\ Holds(t)
    BY <1>5 DEF SubmitHTTPFails, At, Goto, Same, userVars, Holds, HoldsAt
  <2>2. Inv("catch", stack[t])
    BY <1>0, <2>1, Apart DEF PointInv, Submitting
  <2>. QED
    BY <1>1, <2>1, <2>2
<1>6. CASE SubmitHTTPSync(t)
  <2>1. /\ pc[t] = "submitHTTP" /\ pc' = [pc EXCEPT ![t] = "store"]
        /\ stack' = [stack EXCEPT ![t] = <<"setId">> \o stack[t]]
        /\ Same /\ Holds(t)
    BY <1>6 DEF SubmitHTTPSync, At, Call, Same, userVars, Holds, HoldsAt
  <2>2. <<"setId">> \o stack[t] = CallbackBase(t)
    BY <1>0, <2>1, Pushed DEF PointInv, Submitting
  <2>3. Inv("store", CallbackBase(t))
    BY <1>0, <2>1 DEF PointInv, Submitting
  <2>. QED
    BY <2>1, <2>2, <2>3
<1>7. CASE SetRequestSetId(t)
  <2>1. /\ pc[t] = "setId" /\ pc' = [pc EXCEPT ![t] = "return"] /\ stack' = stack /\ Same
    BY <1>7 DEF SetRequestSetId, At, Goto, Same, userVars
  <2>2. Inv("return", stack[t]) /\ ~HoldsAt(t, "return", stack[t])
    BY <1>0, <2>1, Apart DEF PointInv, HoldsAt
  <2>. QED
    BY <1>1, <2>1, <2>2
<1>8. CASE AdvanceAgain(t)
  <2>1. /\ pc[t] = "advanceAgain" /\ pc' = [pc EXCEPT ![t] = "lookup"] /\ stack' = stack
        /\ Same /\ Holds(t)
    BY <1>8 DEF AdvanceAgain, At, Goto, Same, userVars, Holds, HoldsAt
  <2>2. Inv("lookup", stack[t])
    BY <1>0, <2>1 DEF PointInv, Advancing
  <2>. QED
    BY <1>1, <2>1, <2>2
<1>9. CASE AdvanceReturns(t)
  <2>1. pc[t] = "return" /\ Same /\ Return(t)
    BY <1>9 DEF AdvanceReturns, At, Return, Same, userVars
  <2>2. CASE stack[t] = FirstAdvance(t)
    <3>1. /\ pc' = [pc EXCEPT ![t] = "advanceAgain"]
          /\ stack' = [stack EXCEPT ![t] = CallbackBase(t)]
      BY <2>1, <2>2, Popped DEF Return
    <3>2. Inv("advanceAgain", CallbackBase(t)) /\ Holds(t)
      BY <1>0, <2>1, <2>2, Apart DEF PointInv, Holds, HoldsAt
    <3>. QED
      BY <2>1, <3>1, <3>2
  <2>3. CASE stack[t] \in InUserCallback(t)
    <3>1. PICK k \in Outer(t) :
            pc' = [pc EXCEPT ![t] = "return"] /\ stack' = [stack EXCEPT ![t] = k]
      BY <2>1, <2>3, Popped DEF Return
    <3>2. Inv("return", k) /\ ~HoldsAt(t, "return", k)
      BY <1>0, <2>1, <2>3, <3>1, Apart DEF PointInv, HoldsAt
    <3>. QED
      BY <2>1, <3>1, <3>2
  <2>4. CASE stack[t] \in Outer(t) /\ t \notin Users
    <3>1. stack[t] = <<>> /\ pc' = [pc EXCEPT ![t] = "idle"] /\ stack' = stack
      BY <2>1, <2>4, Apart DEF Return
    <3>2. Inv("idle", stack[t]) /\ ~HoldsAt(t, "idle", stack[t])
      BY <3>1 DEF PointInv, HoldsAt
    <3>. QED
      BY <1>1, <2>1, <3>1, <3>2
  <2>5. CASE stack[t] = InSubmit /\ t \in Users
    <3>1. pc' = [pc EXCEPT ![t] = "submitted"] /\ stack' = [stack EXCEPT ![t] = <<>>]
      BY <2>1, <2>5, Popped DEF Return
    <3>2. Inv("submitted", <<>>) /\ ~HoldsAt(t, "submitted", <<>>)
      BY <2>5 DEF PointInv, HoldsAt
    <3>. QED
      BY <2>1, <3>1, <3>2
  <2>6. CASE stack[t] = InClient /\ t \in Users
    <3>1. pc' = [pc EXCEPT ![t] = "setId"] /\ stack' = [stack EXCEPT ![t] = InSubmit]
      BY <2>1, <2>6, Popped DEF Return
    <3>2. state[rid[t]] # "absent"
      BY <1>0, <2>1 DEF PointInv
    <3>3. Inv("setId", InSubmit) /\ ~HoldsAt(t, "setId", InSubmit)
      BY <2>6, <3>2 DEF PointInv, HoldsAt
    <3>. QED
      BY <2>1, <3>1, <3>3
  <2>7. stack[t] = FirstAdvance(t) \/ stack[t] \in InUserCallback(t) \cup Outer(t)
    BY <1>0, <2>1 DEF PointInv
  <2>. QED
    BY <2>2, <2>3, <2>4, <2>5, <2>6, <2>7, Apart
<1>. QED
  BY <1>2, <1>3, <1>4, <1>5, <1>6, <1>7, <1>8, <1>9

\* A step that sets the state of the request its thread holds.
LEMMA StateKeeps ==
  ASSUME TypeOK, TypeOK', HandoverInv, NEW t \in Thread, Holds(t),
         \A i \in RequestID : i # rid[t] => state'[i] = state[i],
         \A v \in Thread : v # t => pc'[v] = pc[v],
         UNCHANGED <<next_request_id, attestation, callback, claims, http_responses, in_flight,
                     rid, stack, local_claims, seen, got, called, faultVars>>,
         state[rid[t]] \notin Completed, state'[rid[t]] # "absent",
         pc'[t] \notin {"result", "completed2"},
         state'[rid[t]] \in Completed => rid[t] \notin http_responses,
         state'[rid[t]] = "FINISHED" => /\ attestation[rid[t]] # "malformed"
                                        /\ claims[rid[t]] = Required(attestation[rid[t]]),
         PointInv(t, pc'[t], stack[t], local_claims[t], state'[rid[t]],
                  attestation[rid[t]], rid[t] \in http_responses, claims[rid[t]], called[rid[t]])
  PROVE  HandoverInv'
<1>1. rid[t] \in RequestID /\ RequestInv(rid[t])
  BY DEF TypeOK, HandoverInv
<1>2. \A i \in RequestID : i # rid[t] => SameRequest(i)
  BY DEF SameRequest
<1>3. ~(rid[t] >= next_request_id)
  BY <1>1, HolderPresent DEF RequestInv, Holds, HandoverInv, ThreadInv
<1>4. called[rid[t]] = 0
  BY <1>1 DEF RequestInv, TypeOK, Completed
<1>5. ASSUME NEW j \in RequestID, j = rid[t] PROVE RequestInv(j)'
  BY <1>1, <1>3, <1>4, <1>5 DEF RequestInv, Completed
<1>. QED
  BY <1>1, <1>2, <1>5, HolderStep DEF Completed

\* The steps of advance and of the HTTP callback that change a request.
LEMMA HolderKeeps ==
  ASSUME TypeOK, TypeOK', HandoverInv, NEW t \in Thread,
         \/ ToWaiting(t) \/ StoreResponses(t) \/ ToHave(t) \/ Verify(t) \/ SetClaims(t)
         \/ Finish(t) \/ InvokeCallback(t) \/ Catch(t)
  PROVE  HandoverInv'
<1>. DEFINE Inv(q, k) == PointInv(t, q, k, local_claims[t], state[rid[t]], attestation[rid[t]],
                                  rid[t] \in http_responses, claims[rid[t]], called[rid[t]])
<1>0. Inv(pc[t], stack[t]) /\ rid[t] \in RequestID /\ RequestInv(rid[t]) /\ NoFault
  BY DEF HandoverInv, ThreadInv, TypeOK
<1>1. stack = [stack EXCEPT ![t] = stack[t]]
  BY DEF TypeOK
<1>2. CASE ToWaiting(t)
  <2>1. /\ pc[t] = "toWaiting" /\ pc' = [pc EXCEPT ![t] = "prepare"]
        /\ state' = [state EXCEPT ![rid[t]] = "WAITING_FOR_ENDORSEMENTS"]
        /\ UNCHANGED <<next_request_id, attestation, callback, claims, http_responses,
                       in_flight, rid, stack, local_claims, seen, got, called, faultVars>>
    BY <1>2 DEF ToWaiting, At, Goto, SetState, UnchangedRequest, userVars
  <2>2. Holds(t) /\ state[rid[t]] \notin Completed
    BY <1>0, <2>1 DEF Holds, HoldsAt, PointInv, Completed
  <2>3. PointInv(t, "prepare", stack[t], local_claims[t], "WAITING_FOR_ENDORSEMENTS",
                 attestation[rid[t]], rid[t] \in http_responses, claims[rid[t]], called[rid[t]])
    BY <1>0, <2>1 DEF PointInv
  <2>4. "WAITING_FOR_ENDORSEMENTS" \notin Completed
    BY DEF Completed
  <2>5. /\ pc'[t] = "prepare" /\ \A v \in Thread : v # t => pc'[v] = pc[v]
        /\ state'[rid[t]] = "WAITING_FOR_ENDORSEMENTS"
        /\ \A i \in RequestID : i # rid[t] => state'[i] = state[i]
    BY <1>0, <2>1 DEF TypeOK
  <2>. QED
    BY <2>1, <2>2, <2>3, <2>4, <2>5, StateKeeps
<1>3. CASE ToHave(t)
  <2>1. /\ state' = [state EXCEPT ![rid[t]] = "HAVE_ENDORSEMENTS"]
        /\ UNCHANGED <<next_request_id, attestation, callback, claims, http_responses,
                       in_flight, rid, stack, local_claims, seen, got, called, faultVars>>
    BY <1>3 DEF ToHave, Goto, SetState, UnchangedRequest, userVars
  <2>2. PICK q : /\ pc' = [pc EXCEPT ![t] = q]
                 /\ \/ pc[t] = "toHave" /\ q = "return"
                    \/ pc[t] = "haveNow" /\ q = "switch"
    BY <1>3 DEF ToHave, At, Goto
  <2>3. Holds(t) /\ state[rid[t]] \notin Completed
    BY <1>0, <2>2 DEF Holds, HoldsAt, PointInv, Completed
  <2>4. PointInv(t, q, stack[t], local_claims[t], "HAVE_ENDORSEMENTS", attestation[rid[t]],
                 rid[t] \in http_responses, claims[rid[t]], called[rid[t]])
    BY <1>0, <2>2 DEF PointInv
  <2>5. /\ pc'[t] = q /\ \A v \in Thread : v # t => pc'[v] = pc[v]
        /\ state'[rid[t]] = "HAVE_ENDORSEMENTS"
        /\ \A i \in RequestID : i # rid[t] => state'[i] = state[i]
    BY <1>0, <2>1, <2>2 DEF TypeOK
  <2>. QED
    BY <2>1, <2>2, <2>3, <2>4, <2>5, StateKeeps DEF Completed
<1>4. CASE Finish(t)
  <2>1. /\ pc[t] = "finish" /\ pc' = [pc EXCEPT ![t] = "callback"]
        /\ state' = [state EXCEPT ![rid[t]] = "FINISHED"]
        /\ UNCHANGED <<next_request_id, attestation, callback, claims, http_responses,
                       in_flight, rid, stack, local_claims, seen, got, called, faultVars>>
    BY <1>4 DEF Finish, At, Goto, SetState, UnchangedRequest, userVars
  <2>2. /\ Holds(t) /\ state[rid[t]] = "HAVE_ENDORSEMENTS" /\ rid[t] \notin http_responses
        /\ attestation[rid[t]] # "malformed" /\ stack[t] \in Outer(t)
        /\ claims[rid[t]] = Required(attestation[rid[t]])
    BY <1>0, <2>1 DEF Holds, HoldsAt, PointInv
  <2>3. called[rid[t]] = 0
    BY <1>0, <2>2 DEF RequestInv, TypeOK
  <2>4. PointInv(t, "callback", stack[t], local_claims[t], "FINISHED", attestation[rid[t]],
                 rid[t] \in http_responses, claims[rid[t]], called[rid[t]])
    BY <2>2, <2>3 DEF PointInv
  <2>5. state[rid[t]] \notin Completed
    BY <2>2 DEF Completed
  <2>6. /\ pc'[t] = "callback" /\ \A v \in Thread : v # t => pc'[v] = pc[v]
        /\ state'[rid[t]] = "FINISHED"
        /\ \A i \in RequestID : i # rid[t] => state'[i] = state[i]
    BY <1>0, <2>1 DEF TypeOK
  <2>. QED
    BY <2>1, <2>2, <2>4, <2>5, <2>6, StateKeeps
<1>5. CASE Catch(t)
  <2>1. /\ pc[t] = "catch" /\ pc' = [pc EXCEPT ![t] = "return"]
        /\ state' = [state EXCEPT ![rid[t]] = "ERROR"]
        /\ UNCHANGED <<next_request_id, attestation, callback, claims, http_responses,
                       in_flight, rid, stack, local_claims, seen, got, called, faultVars>>
    BY <1>5 DEF Catch, At, Goto, SetState, UnchangedRequest, userVars
  <2>2. /\ Holds(t) /\ state[rid[t]] \notin Completed /\ rid[t] \notin http_responses
        /\ stack[t] \in Outer(t)
    BY <1>0, <2>1 DEF Holds, HoldsAt, PointInv, Completed
  <2>3. PointInv(t, "return", stack[t], local_claims[t], "ERROR", attestation[rid[t]],
                 rid[t] \in http_responses, claims[rid[t]], called[rid[t]])
    BY <2>2 DEF PointInv
  <2>4. /\ pc'[t] = "return" /\ \A v \in Thread : v # t => pc'[v] = pc[v]
        /\ state'[rid[t]] = "ERROR"
        /\ \A i \in RequestID : i # rid[t] => state'[i] = state[i]
    BY <1>0, <2>1 DEF TypeOK
  <2>. QED
    BY <2>1, <2>2, <2>3, <2>4, StateKeeps
<1>6. CASE StoreResponses(t)
  <2>1. /\ pc[t] = "store" /\ Holds(t) /\ stack[t] = CallbackBase(t)
        /\ state[rid[t]] = "WAITING_FOR_ENDORSEMENTS" /\ NeedsDownload(attestation[rid[t]])
        /\ rid[t] \notin http_responses
    BY <1>0, <1>6 DEF StoreResponses, At, Holds, HoldsAt, PointInv
  <2>2. /\ pc' = [pc EXCEPT ![t] = "lookup"]
        /\ stack' = [stack EXCEPT ![t] = FirstAdvance(t)]
        /\ http_responses' = http_responses \cup {rid[t]}
        /\ UNCHANGED <<next_request_id, state, attestation, callback, claims,
                       in_flight, rid, local_claims, seen, got, called, faultVars>>
    BY <1>6, <2>1, Pushed DEF StoreResponses, Call, requestVars, userVars, faultVars
  <2>3. \A i \in RequestID : i # rid[t] => SameRequest(i)
    BY <2>2 DEF SameRequest
  <2>4. ASSUME NEW j \in RequestID, j = rid[t] PROVE RequestInv(j)'
    BY <1>0, <2>1, <2>2, <2>4 DEF RequestInv, Completed
  <2>5. /\ pc'[t] = "lookup" /\ stack'[t] = FirstAdvance(t)
        /\ \A v \in Thread : v # t => /\ pc'[v] = pc[v] /\ stack'[v] = stack[v]
                                      /\ local_claims'[v] = local_claims[v]
    BY <2>2 DEF TypeOK
  <2>6. PointInv(t, pc'[t], stack'[t], local_claims'[t], state'[rid[t]],
                 attestation'[rid[t]], rid[t] \in http_responses', claims'[rid[t]],
                 called'[rid[t]])
    BY <2>1, <2>2, <2>5 DEF PointInv, Advancing, Arrived
  <2>7. state'[rid[t]] # "absent" /\ (state[rid[t]] = "FINISHED" => state'[rid[t]] = "FINISHED")
    BY <2>1, <2>2
  <2>. QED
    BY <1>0, <2>1, <2>2, <2>3, <2>4, <2>6, <2>7, <2>5, HolderStep
<1>7. CASE Verify(t)
  <2>1. PICK c \in Verifiable(attestation[rid[t]], rid[t] \in http_responses) \cup {"null"} :
          /\ local_claims' = [local_claims EXCEPT ![t] = c]
          /\ pc' = [pc EXCEPT ![t] = IF c = "null" THEN "catch" ELSE "setClaims"]
    BY <1>7 DEF Verify, Goto
  <2>2. /\ pc[t] = "verify" /\ http_responses' = http_responses \ {rid[t]} /\ stack' = stack
        /\ UNCHANGED <<next_request_id, state, attestation, callback, claims,
                       in_flight, rid, seen, got, called, faultVars>>
    BY <1>7 DEF Verify, At, Goto, TakeResponses, requestVars, userVars
  <2>3. /\ Holds(t) /\ state[rid[t]] = "HAVE_ENDORSEMENTS" /\ stack[t] \in Outer(t)
        /\ \/ Arrived(attestation[rid[t]], rid[t] \in http_responses)
           \/ rid[t] \notin http_responses /\ attestation[rid[t]] = "complete"
    BY <1>0, <2>2, Apart DEF Holds, HoldsAt, PointInv, Submitting
  <2>4. c # "null" => attestation[rid[t]] # "malformed" /\ c = Required(attestation[rid[t]])
    BY <2>1, <2>3 DEF Verifiable, Required, Arrived, NeedsDownload
  <2>5. \A i \in RequestID : i # rid[t] => SameRequest(i)
    BY <2>2 DEF SameRequest
  <2>6. ASSUME NEW j \in RequestID, j = rid[t] PROVE RequestInv(j)'
    BY <1>0, <2>2, <2>6 DEF RequestInv
  <2>7. /\ local_claims'[t] = c /\ stack'[t] = stack[t]
        /\ pc'[t] \in {"catch", "setClaims"} /\ (pc'[t] = "setClaims" => c # "null")
        /\ \A v \in Thread : v # t => /\ pc'[v] = pc[v] /\ stack'[v] = stack[v]
                                      /\ local_claims'[v] = local_claims[v]
    BY <2>1, <2>2 DEF TypeOK
  <2>8. state'[rid[t]] # "absent" /\ (state[rid[t]] = "FINISHED" => state'[rid[t]] = "FINISHED")
    BY <2>2, <2>3
  <2>9. PointInv(t, pc'[t], stack'[t], local_claims'[t], state'[rid[t]],
                 attestation'[rid[t]], rid[t] \in http_responses', claims'[rid[t]],
                 called'[rid[t]])
    BY <2>2, <2>3, <2>4, <2>7 DEF PointInv
  <2>. QED
    BY <1>0, <2>2, <2>3, <2>5, <2>6, <2>7, <2>8, <2>9, HolderStep
<1>8. CASE SetClaims(t)
  <2>1. /\ pc[t] = "setClaims" /\ pc' = [pc EXCEPT ![t] = "finish"] /\ stack' = stack
        /\ claims' = [claims EXCEPT ![rid[t]] = local_claims[t]]
        /\ UNCHANGED <<next_request_id, state, attestation, callback, http_responses,
                       in_flight, rid, local_claims, seen, got, called, faultVars>>
    BY <1>8 DEF SetClaims, At, Goto, userVars
  <2>2. /\ Holds(t) /\ state[rid[t]] = "HAVE_ENDORSEMENTS" /\ rid[t] \notin http_responses
        /\ attestation[rid[t]] # "malformed" /\ stack[t] \in Outer(t)
        /\ local_claims[t] = Required(attestation[rid[t]])
    BY <1>0, <2>1 DEF Holds, HoldsAt, PointInv
  <2>3. /\ \A i \in RequestID : i # rid[t] => SameRequest(i)
        /\ claims'[rid[t]] = local_claims[t]
    BY <1>0, <2>1 DEF SameRequest, TypeOK
  <2>4. ASSUME NEW j \in RequestID, j = rid[t] PROVE RequestInv(j)'
    BY <1>0, <2>1, <2>2, <2>4 DEF RequestInv
  <2>5. /\ pc'[t] = "finish" /\ stack'[t] = stack[t]
        /\ \A v \in Thread : v # t => /\ pc'[v] = pc[v] /\ stack'[v] = stack[v]
                                      /\ local_claims'[v] = local_claims[v]
    BY <2>1 DEF TypeOK
  <2>6. PointInv(t, pc'[t], stack'[t], local_claims'[t], state'[rid[t]],
                 attestation'[rid[t]], rid[t] \in http_responses', claims'[rid[t]],
                 called'[rid[t]])
    BY <2>1, <2>2, <2>3, <2>5 DEF PointInv
  <2>7. state'[rid[t]] # "absent" /\ (state[rid[t]] = "FINISHED" => state'[rid[t]] = "FINISHED")
    BY <2>1, <2>2
  <2>. QED
    BY <1>0, <2>1, <2>2, <2>3, <2>4, <2>6, <2>7, <2>5, HolderStep
<1>9. CASE InvokeCallback(t)
  <2>1. /\ pc[t] = "callback" /\ Holds(t) /\ stack[t] \in Outer(t)
        /\ state[rid[t]] = "FINISHED" /\ called[rid[t]] = 0
        /\ callback[rid[t]] \in {"null", "advance"}
    BY <1>0, <1>9 DEF InvokeCallback, At, Holds, HoldsAt, PointInv, RequestInv
  <2>2. UNCHANGED <<next_request_id, state, attestation, callback, claims, http_responses,
                    in_flight, rid, local_claims, seen, got, faultVars>>
    BY <1>9 DEF InvokeCallback, Goto, Call, requestVars, userVars
  <2>3. PICK q, k : /\ pc' = [pc EXCEPT ![t] = q] /\ stack' = [stack EXCEPT ![t] = k]
                    /\ \/ q = "return" /\ k = stack[t] /\ called' = called
                       \/ /\ q = "lookup" /\ k \in InUserCallback(t)
                          /\ called' = [called EXCEPT ![rid[t]] = called[rid[t]] + 1]
    <3>1. CASE callback[rid[t]] = "null"
      BY <1>1, <1>9, <3>1 DEF InvokeCallback, Goto
    <3>2. CASE callback[rid[t]] = "advance"
      <4>1. <<"return">> \o stack[t] \in InUserCallback(t)
        BY <2>1, Pushed
      <4>. QED
        BY <1>9, <3>2, <4>1 DEF InvokeCallback, Call
    <3>. QED
      BY <2>1, <3>1, <3>2
  <2>4. /\ \A i \in RequestID : i # rid[t] => SameRequest(i)
        /\ called'[rid[t]] \in {0, 1}
    BY <1>0, <2>1, <2>2, <2>3 DEF SameRequest, TypeOK
  <2>5. ASSUME NEW j \in RequestID, j = rid[t] PROVE RequestInv(j)'
    <3>1. ~(j >= next_request_id)
      BY <1>0, <2>1, <2>5 DEF RequestInv
    <3>. QED
      BY <1>0, <2>1, <2>2, <2>4, <2>5, <3>1 DEF RequestInv
  <2>6. /\ pc'[t] = q /\ stack'[t] = k
        /\ state'[rid[t]] # "absent" /\ (state[rid[t]] = "FINISHED" => state'[rid[t]] = "FINISHED")
        /\ \A v \in Thread : v # t => /\ pc'[v] = pc[v] /\ stack'[v] = stack[v]
                                      /\ local_claims'[v] = local_claims[v]
    BY <2>1, <2>2, <2>3 DEF TypeOK
  <2>7. PointInv(t, pc'[t], stack'[t], local_claims'[t], state'[rid[t]],
                 attestation'[rid[t]], rid[t] \in http_responses', claims'[rid[t]],
                 called'[rid[t]])
    BY <2>1, <2>2, <2>3, <2>6 DEF PointInv, Advancing
  <2>. QED
    BY <1>0, <2>1, <2>2, <2>3, <2>4, <2>5, <2>7, <2>6, HolderStep
<1>. QED
  BY <1>2, <1>3, <1>4, <1>5, <1>6, <1>7, <1>8, <1>9

\* The asynchronous client accepts the download: the submitting thread gives
\* the request up in the step that puts it in flight.
LEMMA GiveUpKeeps ==
  ASSUME TypeOK, TypeOK', HandoverInv, NEW t \in Thread, SubmitHTTPAsync(t)
  PROVE  HandoverInv'
<1>1. /\ pc[t] = "submitHTTP" /\ in_flight' = in_flight \cup {rid[t]}
      /\ pc' = [pc EXCEPT ![t] = "setId"]
      /\ UNCHANGED <<next_request_id, state, attestation, callback, claims, http_responses,
                     rid, stack, local_claims, seen, got, called, dangling, terminated>>
  BY DEF SubmitHTTPAsync, At, Goto, requestVars, userVars, faultVars
<1>2. /\ Holds(t) /\ t \in Users /\ stack[t] = InSubmit /\ rid[t] \notin http_responses
      /\ state[rid[t]] = "WAITING_FOR_ENDORSEMENTS" /\ NeedsDownload(attestation[rid[t]])
  BY <1>1 DEF Holds, HoldsAt, HandoverInv, ThreadInv, PointInv, Submitting
<1>3. /\ \A v \in Thread : v # t => SameThread(v)
      /\ \A i \in RequestID : SameRequest(i)
      /\ pc'[t] = "setId"
  BY <1>1 DEF SameThread, SameRequest, TypeOK
<1>4. ThreadInvOf(t)' /\ UserInvOf(t)' /\ ~Holds(t)' /\ NoFault'
  BY <1>1, <1>2, <1>3
  DEF ThreadInvOf, PointInv, UserInvOf, Holds, HoldsAt, HandoverInv, UserInv, NoFault
<1>5. \A v \in Thread : v # t /\ Holds(v) => rid[v] # rid[t]
  BY <1>2 DEF HandoverInv, OneHolder
<1>6. ASSUME NEW i \in in_flight' \ in_flight
      PROVE  /\ state'[i] = "WAITING_FOR_ENDORSEMENTS" /\ NeedsDownload(attestation'[i])
             /\ i \notin http_responses'
             /\ \A v \in Thread : v # t /\ Holds(v) => rid[v] # i
  BY <1>1, <1>2, <1>5
<1>. QED
  BY <1>1, <1>3, <1>4, <1>6, Handover, {} \in SUBSET RequestID

\* The steps that this use of the tracker never takes: an erase in the user
\* callback, and the use of an erased request.
LEMMA NeverTaken ==
  ASSUME TypeOK, HandoverInv, NEW t \in Thread
  PROVE  ~(CallbackResult(t) \/ CallbackErase(t) \/ UseAfterErase(t))
<1>1. PointInv(t, pc[t], stack[t], local_claims[t], state[rid[t]], attestation[rid[t]],
               rid[t] \in http_responses, claims[rid[t]], called[rid[t]])
  BY DEF HandoverInv, ThreadInv
<1>2. pc[t] \notin {"cbResult", "cbErase"}
  BY <1>1 DEF PointInv
<1>3. pc[t] \in RefPoint => state[rid[t]] # "absent"
  BY <1>1 DEF PointInv, RefPoint, Submitting, Advancing
<1>. QED
  BY <1>2, <1>3 DEF CallbackResult, CallbackErase, UseAfterErase, At

\* Every step keeps the invariant.
LEMMA HandoverStep ==
  ASSUME Disciplined, TypeOK, HandoverInv, [Next]_vars
  PROVE  HandoverInv'
<1>0. TypeOK'
  BY TypeStep
<1>1. ASSUME NEW u \in Users, UserCall(u) \/ UserStep(u) PROVE HandoverInv'
  BY <1>0, <1>1, UserKeeps
<1>2. ASSUME NEW id \in RequestID, Deliver(id) PROVE HandoverInv'
  BY <1>0, <1>2, DeliverKeeps
<1>3. ASSUME NEW t \in Thread, AdvanceStep(t) PROVE HandoverInv'
  BY <1>0, <1>3, ControlKeeps, HolderKeeps, GiveUpKeeps, NeverTaken DEF AdvanceStep
<1>4. CASE UNCHANGED vars
  BY <1>4 DEF vars, requestVars, threadVars, userVars, faultVars, HandoverInv, ThreadInv,
     OneHolder, Holds, FlightInv, RequestInv, UserInv, NoFault
<1>. QED
  BY <1>1, <1>2, <1>3, <1>4 DEF Next

\* The invariant holds throughout, with the types.
LEMMA HandoverHolds ==
  ASSUME Disciplined
  PROVE  Spec => [](TypeOK /\ HandoverInv)
<1>1. Init => HandoverInv
  <2>. SUFFICES ASSUME Init PROVE HandoverInv
    OBVIOUS
  <2>1. ThreadInv /\ OneHolder /\ FlightInv
    BY DEF Init, ThreadInv, PointInv, OneHolder, Holds, HoldsAt, FlightInv
  <2>2. \A id \in RequestID : RequestInv(id)
    BY DEF Init, RequestInv, Completed
  <2>3. UserInv /\ NoFault
    BY DEF Init, UserInv, NoFault, Thread
  <2>. QED
    BY <2>1, <2>2, <2>3 DEF HandoverInv
<1>2. TypeOK /\ HandoverInv /\ [Next]_vars => HandoverInv'
  BY HandoverStep
<1>. QED
  BY <1>1, <1>2, TypeCorrect, PTL DEF Spec

(***************************************************************************)
(* Used with the HTTP callback alone to advance requests, the tracker      *)
(* finishes a request only with claims verified with the endorsements its  *)
(* options ask for: with downloaded ones whenever prepare_endorsements     *)
(* asked for a download, although advance holds no lock from its switch    *)
(* to the write of the claims.                                             *)
(***************************************************************************)
THEOREM FinishedAlwaysVerified ==
  ASSUME Disciplined PROVE Spec => []FinishedIsVerified
<1>1. HandoverInv => FinishedIsVerified
  BY DEF HandoverInv, RequestInv, FinishedIsVerified
<1>. QED
  BY <1>1, HandoverHolds, PTL

(***************************************************************************)
(* The user callback runs at most once per request and only for a FINISHED *)
(* one, although the HTTP callback advances the request twice and the      *)
(* callback of verify_synchronized advances it again.                      *)
(***************************************************************************)
THEOREM CallbackAlwaysOnce ==
  ASSUME Disciplined PROVE Spec => []CallbackOnce
<1>1. HandoverInv => CallbackOnce
  BY DEF HandoverInv, RequestInv, CallbackOnce
<1>. QED
  BY <1>1, HandoverHolds, PTL

(***************************************************************************)
(* A completed request has no download in flight and no responses left in  *)
(* http_responses: verify takes them out on both of its exits, and every   *)
(* other way to ERROR happens before they arrive.                          *)
(***************************************************************************)
THEOREM NothingStaysOutstanding ==
  ASSUME Disciplined PROVE Spec => []NothingOutstanding
<1>1. HandoverInv => NothingOutstanding
  BY DEF HandoverInv, RequestInv, FlightInv, NothingOutstanding, Completed
<1>. QED
  BY <1>1, HandoverHolds, PTL

(***************************************************************************)
(* After completed() has seen FINISHED, result() returns claims: no step   *)
(* of another thread between the two calls takes them away.                *)
(***************************************************************************)
THEOREM ResultAlwaysAfterFinished ==
  ASSUME Disciplined PROVE Spec => []ResultAfterFinished
<1>1. HandoverInv => ResultAfterFinished
  BY DEF HandoverInv, UserInv, ResultAfterFinished
<1>. QED
  BY <1>1, HandoverHolds, PTL

(***************************************************************************)
(* No thread uses an erased request, and no exception leaves a client's    *)
(* thread: "request not found" and "unexpected HTTP responses" are never   *)
(* thrown in this use (the erase of verify_synchronized is what breaks it, *)
(* as the run tracker_verify_synchronized shows).                          *)
(***************************************************************************)
THEOREM NeverDangling ==
  ASSUME Disciplined PROVE Spec => [](NoDanglingAccess /\ ~terminated)
<1>1. HandoverInv => NoDanglingAccess /\ ~terminated
  BY DEF HandoverInv, NoFault, NoDanglingAccess
<1>. QED
  BY <1>1, HandoverHolds, PTL

----------------------------------------------------------------------------
(***************************************************************************)
(* What a step does to the states.                                         *)
(***************************************************************************)
Forward == {<<"absent", "SUBMITTED">>, <<"SUBMITTED", "WAITING_FOR_ENDORSEMENTS">>,
            <<"WAITING_FOR_ENDORSEMENTS", "HAVE_ENDORSEMENTS">>,
            <<"HAVE_ENDORSEMENTS", "FINISHED">>,
            <<"WAITING_FOR_ENDORSEMENTS", "ERROR">>, <<"HAVE_ENDORSEMENTS", "ERROR">>}

\* What the invariant says at the points where the state is written.
LEMMA StateAtPoint ==
  ASSUME HandoverInv, NEW t \in Thread
  PROVE  /\ pc[t] = "toWaiting" => state[rid[t]] = "SUBMITTED"
         /\ pc[t] \in {"toHave", "haveNow"} => state[rid[t]] = "WAITING_FOR_ENDORSEMENTS"
         /\ pc[t] = "setClaims" => state[rid[t]] = "HAVE_ENDORSEMENTS"
         /\ pc[t] = "finish" => /\ state[rid[t]] = "HAVE_ENDORSEMENTS"
                                /\ attestation[rid[t]] # "malformed"
                                /\ claims[rid[t]] = Required(attestation[rid[t]])
         /\ pc[t] = "catch" => state[rid[t]] \in {"WAITING_FOR_ENDORSEMENTS", "HAVE_ENDORSEMENTS"}
         /\ pc[t] = "callback" => state[rid[t]] = "FINISHED" /\ called[rid[t]] = 0
BY DEF HandoverInv, ThreadInv, PointInv

\* The steps of the tracker that write a state, and what the others leave alone.
LEMMA StateWrites ==
  ASSUME Disciplined, TypeOK, HandoverInv, [Next]_vars
  PROVE  \/ state' = state
         \/ \E id \in RequestID, s \in RequestState :
              state' = [state EXCEPT ![id] = s] /\ <<state[id], s>> \in Forward
<1>1. ASSUME NEW u \in Users, Submit(u)
      PROVE  \E id \in RequestID : /\ state' = [state EXCEPT ![id] = "SUBMITTED"]
                                   /\ state[id] = "absent"
  <2>1. next_request_id \in RequestID
    BY <1>1, ConstantsAssumption DEF Submit, TypeOK, RequestID
  <2>2. state[next_request_id] = "absent"
    BY <2>1, ConstantsAssumption DEF HandoverInv, RequestInv, RequestID
  <2>. QED
    BY <1>1, <2>1, <2>2 DEF Submit
<1>2. ASSUME NEW t \in Thread, ToWaiting(t) \/ ToHave(t) \/ Finish(t) \/ Catch(t)
      PROVE  \E s \in RequestState : /\ state' = [state EXCEPT ![rid[t]] = s]
                                     /\ <<state[rid[t]], s>> \in Forward
  BY <1>2, StateAtPoint
  DEF ToWaiting, ToHave, Finish, Catch, At, SetState, Forward, RequestState
<1>3. ASSUME NEW u \in Users, UserCall(u) \/ UserStep(u), ~Submit(u) PROVE state' = state
  BY <1>3 DEF UserCall, UserStep, CompletedFirst, Erase, Advance, SubmitReturns,
     CompletedSecond, Result, requestVars, Disciplined
<1>4. ASSUME NEW t \in Thread, AdvanceStep(t), ~(ToWaiting(t) \/ ToHave(t) \/ Finish(t) \/ Catch(t))
      PROVE  state' = state
  BY <1>4, NeverTaken
  DEF AdvanceStep, Lookup, Switch, PrepareEndorsements, SubmitHTTPFails, SubmitHTTPSync,
      SubmitHTTPAsync, SetRequestSetId, StoreResponses, AdvanceAgain, Verify, SetClaims,
      InvokeCallback, AdvanceReturns, requestVars
<1>5. ASSUME NEW id \in RequestID, Deliver(id) PROVE state' = state
  BY <1>5 DEF Deliver, requestVars
<1>6. CASE UNCHANGED vars
  BY <1>6 DEF vars, requestVars
<1>7. \A t \in Thread : rid[t] \in RequestID
  BY DEF TypeOK
<1>. QED
  BY <1>1, <1>2, <1>3, <1>4, <1>5, <1>6, <1>7 DEF Next, UserCall, Forward, RequestState

(***************************************************************************)
(* A request only moves forward through the states of RequestState, and    *)
(* FINISHED and ERROR are final: the second advance(id) of the HTTP        *)
(* callback and a late catch never take a completed request back.          *)
(***************************************************************************)
THEOREM AlwaysAdvances ==
  ASSUME Disciplined PROVE Spec => StateOnlyAdvances
<1>1. ASSUME NEW a, NEW b, <<a, b>> \in Forward PROVE Rank(b) > Rank(a)
  BY <1>1 DEF Forward, Rank, Completed
<1>2. TypeOK /\ HandoverInv /\ [Next]_vars
        => [\A id \in RequestID : state'[id] = state[id] \/ Rank(state'[id]) > Rank(state[id])]_state
  <2>. SUFFICES ASSUME TypeOK, HandoverInv, [Next]_vars, NEW id \in RequestID
                PROVE  state'[id] = state[id] \/ Rank(state'[id]) > Rank(state[id])
    OBVIOUS
  <2>. QED
    BY <1>1, StateWrites DEF TypeOK
<1>. QED
  BY <1>2, HandoverHolds, PTL DEF Spec, StateOnlyAdvances

----------------------------------------------------------------------------
(***************************************************************************)
(* Refinement: each step of the tracker is a step of the verification      *)
(* service on one request, or the service does not see it.                 *)
(***************************************************************************)

\* The phases of the states.
LEMMA Phases ==
  /\ Phase("absent") = "new" /\ Phase("SUBMITTED") = "pending"
  /\ Phase("WAITING_FOR_ENDORSEMENTS") = "pending" /\ Phase("HAVE_ENDORSEMENTS") = "pending"
  /\ Phase("FINISHED") = "verified" /\ Phase("ERROR") = "rejected"
BY DEF Phase, RequestState, Completed

\* What the service sees of the tracker.
phaseBar == [id \in RequestID |-> Phase(state[id])]
requiresBar == [id \in RequestID |-> IF attestation[id] = "malformed" THEN {}
                                     ELSE {Required(attestation[id])}]
evidenceBar == [id \in RequestID |-> IF state[id] = "FINISHED" THEN {claims[id]} ELSE {}]
listeningBar == [id \in RequestID |-> callback[id] # "null"]
notifiedBar == [id \in RequestID |-> called[id] > 0]

\* A step that keeps phases, attestations, callbacks, the claims of FINISHED
\* requests and the count of callbacks is invisible.
LEMMA Invisible ==
  ASSUME \A id \in RequestID : /\ Phase(state'[id]) = Phase(state[id])
                               /\ state'[id] = "FINISHED" <=> state[id] = "FINISHED"
                               /\ state[id] = "FINISHED" => claims'[id] = claims[id],
         UNCHANGED <<attestation, callback, called>>
  PROVE  UNCHANGED Service!serviceVars
<1>1. phaseBar' = phaseBar
  BY DEF phaseBar
<1>2. requiresBar' = requiresBar /\ listeningBar' = listeningBar /\ notifiedBar' = notifiedBar
  BY DEF requiresBar, listeningBar, notifiedBar
<1>3. evidenceBar' = evidenceBar
  BY DEF evidenceBar
<1>. QED
  BY <1>1, <1>2, <1>3
  DEF Service!serviceVars, phaseBar, requiresBar, evidenceBar, listeningBar, notifiedBar

\* A change of one state to another state of the same phase is invisible.
LEMMA PhaseKept ==
  ASSUME TypeOK, NEW id \in RequestID, NEW s, state' = [state EXCEPT ![id] = s],
         Phase(s) = Phase(state[id]), s # "FINISHED", state[id] # "FINISHED",
         UNCHANGED <<attestation, callback, called, claims>>
  PROVE  UNCHANGED Service!serviceVars
<1>1. \A i \in RequestID : state'[i] = IF i = id THEN s ELSE state[i]
  BY DEF TypeOK
<1>. QED
  BY <1>1, Invisible

\* submit accepts a request.
LEMMA SubmitAccepts ==
  ASSUME TypeOK, HandoverInv, NEW u \in Users, Submit(u)
  PROVE  \E id \in RequestID : Service!Accept(id)
<1>1. PICK id \in RequestID : id = next_request_id
  BY ConstantsAssumption DEF Submit, TypeOK, RequestID
<1>2. PICK a \in Attestation, f \in Callbacks :
        /\ attestation' = [attestation EXCEPT ![id] = a]
        /\ callback' = [callback EXCEPT ![id] = f]
        /\ state' = [state EXCEPT ![id] = "SUBMITTED"]
        /\ claims' = claims /\ called' = called
  BY <1>1 DEF Submit
<1>3. state[id] = "absent"
  BY <1>1, ConstantsAssumption DEF HandoverInv, RequestInv, RequestID
<1>4. /\ phaseBar[id] = "new" /\ phaseBar' = [phaseBar EXCEPT ![id] = "pending"]
  BY <1>2, <1>3, Phases DEF phaseBar, TypeOK
<1>5. \E n \in SUBSET Claims : requiresBar' = [requiresBar EXCEPT ![id] = n]
  <2>. DEFINE n == IF a = "malformed" THEN {} ELSE {Required(a)}
  <2>1. n \in SUBSET Claims
    BY DEF Required, Claims
  <2>2. requiresBar' = [requiresBar EXCEPT ![id] = n]
    BY <1>2 DEF requiresBar, TypeOK
  <2>. QED
    BY <2>1, <2>2
<1>6. \E l \in BOOLEAN : listeningBar' = [listeningBar EXCEPT ![id] = l]
  <2>1. listeningBar' = [listeningBar EXCEPT ![id] = (f # "null")]
    BY <1>2 DEF listeningBar, TypeOK
  <2>. QED
    BY <2>1
<1>7. evidenceBar' = evidenceBar /\ notifiedBar' = notifiedBar
  BY <1>2, <1>3 DEF evidenceBar, notifiedBar, TypeOK
<1>. QED
  BY <1>4, <1>5, <1>6, <1>7
  DEF Service!Accept, phaseBar, requiresBar, evidenceBar, listeningBar, notifiedBar

\* FINISHED approves a request, with endorsements that it requires.
LEMMA FinishApproves ==
  ASSUME TypeOK, HandoverInv, NEW t \in Thread, Finish(t)
  PROVE  \E id \in RequestID : Service!Approve(id)
<1>1. PICK id \in RequestID : id = rid[t]
  BY DEF TypeOK
<1>2. /\ state' = [state EXCEPT ![id] = "FINISHED"]
      /\ UNCHANGED <<attestation, callback, claims, called>>
  BY <1>1 DEF Finish, SetState, UnchangedRequest
<1>3. /\ state[id] = "HAVE_ENDORSEMENTS" /\ attestation[id] # "malformed"
      /\ claims[id] = Required(attestation[id])
  BY <1>1, StateAtPoint DEF Finish, At
<1>4. phaseBar[id] = "pending" /\ phaseBar' = [phaseBar EXCEPT ![id] = "verified"]
  BY <1>2, <1>3, Phases DEF phaseBar, TypeOK
<1>5. \E e \in requiresBar[id] : evidenceBar' = [evidenceBar EXCEPT ![id] = {e}]
  <2>1. claims[id] \in requiresBar[id]
    BY <1>3 DEF requiresBar
  <2>2. evidenceBar' = [evidenceBar EXCEPT ![id] = {claims[id]}]
    BY <1>2 DEF evidenceBar, TypeOK
  <2>. QED
    BY <2>1, <2>2
<1>6. requiresBar' = requiresBar /\ listeningBar' = listeningBar /\ notifiedBar' = notifiedBar
  BY <1>2 DEF requiresBar, listeningBar, notifiedBar
<1>. QED
  BY <1>4, <1>5, <1>6
  DEF Service!Approve, phaseBar, requiresBar, evidenceBar, listeningBar, notifiedBar

\* The catch clause rejects a request.
LEMMA CatchRejects ==
  ASSUME TypeOK, HandoverInv, NEW t \in Thread, Catch(t)
  PROVE  \E id \in RequestID : Service!Reject(id)
<1>1. PICK id \in RequestID : id = rid[t]
  BY DEF TypeOK
<1>2. /\ state' = [state EXCEPT ![id] = "ERROR"]
      /\ UNCHANGED <<attestation, callback, claims, called>>
  BY <1>1 DEF Catch, SetState, UnchangedRequest
<1>3. state[id] \in {"WAITING_FOR_ENDORSEMENTS", "HAVE_ENDORSEMENTS"}
  BY <1>1, StateAtPoint DEF Catch, At
<1>4. phaseBar[id] = "pending" /\ phaseBar' = [phaseBar EXCEPT ![id] = "rejected"]
  BY <1>2, <1>3, Phases DEF phaseBar, TypeOK
<1>5. requiresBar' = requiresBar /\ listeningBar' = listeningBar /\ notifiedBar' = notifiedBar
  BY <1>2 DEF requiresBar, listeningBar, notifiedBar
<1>6. evidenceBar' = evidenceBar
  BY <1>2, <1>3 DEF evidenceBar, TypeOK
<1>. QED
  BY <1>4, <1>5, <1>6
  DEF Service!Reject, phaseBar, requiresBar, evidenceBar, listeningBar, notifiedBar

\* The call of the user callback notifies the listener; without one nothing
\* is seen.
LEMMA CallbackNotifies ==
  ASSUME TypeOK, HandoverInv, NEW t \in Thread, InvokeCallback(t)
  PROVE  UNCHANGED Service!serviceVars \/ \E id \in RequestID : Service!Notify(id)
<1>1. PICK id \in RequestID : id = rid[t]
  BY DEF TypeOK
<1>2. UNCHANGED <<state, attestation, callback, claims>>
  BY DEF InvokeCallback, requestVars
<1>3. CASE callback[id] = "null"
  <2>1. called' = called
    BY <1>1, <1>3 DEF InvokeCallback
  <2>. QED
    BY <1>2, <2>1, Invisible
<1>4. CASE callback[id] # "null"
  <2>1. called' = [called EXCEPT ![id] = called[id] + 1]
    BY <1>1, <1>4 DEF InvokeCallback
  <2>2. state[id] = "FINISHED" /\ called[id] = 0
    BY <1>1, StateAtPoint DEF InvokeCallback, At
  <2>3. phaseBar[id] = "verified" /\ listeningBar[id] /\ ~notifiedBar[id]
    <3>1. phaseBar[id] = "verified"
      BY <2>2, Phases DEF phaseBar
    <3>2. ~(called[id] > 0)
      BY <2>2
    <3>. QED
      BY <1>4, <3>1, <3>2, Zenon DEF listeningBar, notifiedBar
  <2>4. notifiedBar' = [notifiedBar EXCEPT ![id] = TRUE]
    <3>1. /\ called'[id] > 0
          /\ \A i \in RequestID : i # id => called'[i] = called[i]
      BY <2>1, <2>2 DEF TypeOK
    <3>2. ASSUME NEW i \in RequestID
          PROVE  (called'[i] > 0) = (IF i = id THEN TRUE ELSE called[i] > 0)
      BY <3>1
    <3>3. [notifiedBar EXCEPT ![id] = TRUE] =
            [i \in RequestID |-> IF i = id THEN TRUE ELSE called[i] > 0]
      BY Zenon DEF notifiedBar
    <3>. QED
      BY <3>2, <3>3, Zenon DEF notifiedBar
  <2>5. /\ phaseBar' = phaseBar /\ requiresBar' = requiresBar
        /\ evidenceBar' = evidenceBar /\ listeningBar' = listeningBar
    BY <1>2 DEF phaseBar, requiresBar, evidenceBar, listeningBar
  <2>. QED
    BY <2>3, <2>4, <2>5
    DEF Service!Notify, phaseBar, requiresBar, evidenceBar, listeningBar, notifiedBar
<1>. QED
  BY <1>3, <1>4

\* The remaining steps of advance and of the HTTP callback are invisible: the
\* intermediate states are one phase, and claims are written before FINISHED.
LEMMA AdvanceInvisible ==
  ASSUME TypeOK, HandoverInv, NEW t \in Thread, AdvanceStep(t),
         ~(Finish(t) \/ Catch(t) \/ InvokeCallback(t))
  PROVE  UNCHANGED Service!serviceVars
<1>0. rid[t] \in RequestID
  BY DEF TypeOK
<1>1. CASE ToWaiting(t)
  <2>1. /\ state' = [state EXCEPT ![rid[t]] = "WAITING_FOR_ENDORSEMENTS"]
        /\ UNCHANGED <<attestation, callback, called, claims>> /\ state[rid[t]] = "SUBMITTED"
    BY <1>1, StateAtPoint DEF ToWaiting, At, SetState, UnchangedRequest
  <2>. QED
    BY <1>0, <2>1, Phases, PhaseKept
<1>2. CASE ToHave(t)
  <2>1. /\ state' = [state EXCEPT ![rid[t]] = "HAVE_ENDORSEMENTS"]
        /\ UNCHANGED <<attestation, callback, called, claims>>
        /\ state[rid[t]] = "WAITING_FOR_ENDORSEMENTS"
    BY <1>2, StateAtPoint DEF ToHave, At, SetState, UnchangedRequest
  <2>. QED
    BY <1>0, <2>1, Phases, PhaseKept
<1>3. CASE SetClaims(t)
  <2>1. /\ claims' = [claims EXCEPT ![rid[t]] = local_claims[t]]
        /\ UNCHANGED <<state, attestation, callback, called>>
        /\ state[rid[t]] = "HAVE_ENDORSEMENTS"
    BY <1>3, StateAtPoint DEF SetClaims, At
  <2>2. \A i \in RequestID : state[i] = "FINISHED" => claims'[i] = claims[i]
    BY <2>1 DEF TypeOK
  <2>. QED
    BY <2>1, <2>2, Invisible
<1>4. CASE ~(ToWaiting(t) \/ ToHave(t) \/ SetClaims(t))
  <2>1. UNCHANGED <<state, attestation, callback, called, claims>>
    BY <1>4, NeverTaken
    DEF AdvanceStep, Lookup, Switch, PrepareEndorsements, SubmitHTTPFails, SubmitHTTPSync,
        SubmitHTTPAsync, SetRequestSetId, StoreResponses, AdvanceAgain, Verify,
        AdvanceReturns, requestVars
  <2>. QED
    BY <2>1, Invisible
<1>. QED
  BY <1>1, <1>2, <1>3, <1>4

(***************************************************************************)
(* The tracker implements the verification service (the safety part of the *)
(* comments of request_tracker.h): each request is decided once, with the  *)
(* endorsements it requires, and its listener is told once, whatever the   *)
(* number of threads and requests and however their steps interleave.      *)
(***************************************************************************)
THEOREM TrackerRefinesService ==
  ASSUME Disciplined PROVE Spec => ImplementsService
<1>1. Init => Service!ServiceInit
  <2>. SUFFICES ASSUME Init PROVE Service!ServiceInit
    OBVIOUS
  <2>1. /\ phaseBar = [id \in RequestID |-> "new"]
        /\ evidenceBar = [id \in RequestID |-> {}]
    BY Phases DEF Init, phaseBar, evidenceBar
  <2>2. notifiedBar = [id \in RequestID |-> FALSE]
    <3>1. \A id \in RequestID : (called[id] > 0) = FALSE
      BY DEF Init
    <3>. QED
      BY <3>1, Zenon DEF notifiedBar
  <2>3. requiresBar \in [RequestID -> SUBSET Claims]
    BY DEF requiresBar, Required, Claims
  <2>4. listeningBar \in [RequestID -> BOOLEAN]
    BY DEF listeningBar
  <2>. QED
    BY <2>1, <2>2, <2>3, <2>4
    DEF Service!ServiceInit, phaseBar, requiresBar, evidenceBar, listeningBar, notifiedBar
<1>2. TypeOK /\ HandoverInv /\ [Next]_vars => [Service!ServiceNext]_(Service!serviceVars)
  <2>. SUFFICES ASSUME TypeOK, HandoverInv, [Next]_vars
                PROVE  \/ UNCHANGED Service!serviceVars
                       \/ \E id \in RequestID : \/ Service!Accept(id) \/ Service!Approve(id)
                                                \/ Service!Reject(id) \/ Service!Notify(id)
    BY DEF Service!ServiceNext
  <2>1. ASSUME NEW u \in Users, UserCall(u) \/ UserStep(u), ~Submit(u)
        PROVE  UNCHANGED Service!serviceVars
    <3>1. UNCHANGED <<state, attestation, callback, called, claims>>
      BY <2>1 DEF UserCall, UserStep, CompletedFirst, Erase, Advance, SubmitReturns,
         CompletedSecond, Result, requestVars, Disciplined
    <3>. QED
      BY <3>1, Invisible
  <2>2. ASSUME NEW id \in RequestID, Deliver(id) PROVE UNCHANGED Service!serviceVars
    <3>1. UNCHANGED <<state, attestation, callback, called, claims>>
      BY <2>2 DEF Deliver, requestVars
    <3>. QED
      BY <3>1, Invisible
  <2>3. CASE UNCHANGED vars
    <3>1. UNCHANGED <<state, attestation, callback, called, claims>>
      BY <2>3 DEF vars, requestVars
    <3>. QED
      BY <3>1, Invisible
  <2>. QED
    BY <2>1, <2>2, <2>3, SubmitAccepts, FinishApproves, CatchRejects, CallbackNotifies,
       AdvanceInvisible DEF Next
<1>. QED
  BY <1>1, <1>2, HandoverHolds, PTL DEF Spec, ImplementsService, Service!ServiceSpec
=============================================================================
