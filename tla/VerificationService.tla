-------------------------- MODULE VerificationService --------------------------
(***************************************************************************)
(* What the request tracker promises the application (the comments of      *)
(* include/ravl/request_tracker.h): a submitted request is verified with   *)
(* the endorsements it requires, or rejected, once and for all, and its    *)
(* listener is told of a success once.  Threads, downloads, responses and  *)
(* the order in which they are used do not appear.                         *)
(***************************************************************************)
CONSTANT Request,   \* the requests that can be submitted
         Evidence   \* the kinds of endorsements verification can use

VARIABLES
  phase,      \* "new", "pending", "verified" or "rejected"
  requires,   \* the endorsements the request may be verified with
  evidence,   \* those it was verified with
  listening,  \* the request has a user callback
  notified    \* the user callback was invoked

serviceVars == <<phase, requires, evidence, listening, notified>>

ServiceInit ==
  /\ phase = [r \in Request |-> "new"]
  /\ requires \in [Request -> SUBSET Evidence]
  /\ evidence = [r \in Request |-> {}]
  /\ listening \in [Request -> BOOLEAN]
  /\ notified = [r \in Request |-> FALSE]

Accept(r) ==
  /\ phase[r] = "new"
  /\ phase' = [phase EXCEPT ![r] = "pending"]
  /\ \E n \in SUBSET Evidence : requires' = [requires EXCEPT ![r] = n]
  /\ \E l \in BOOLEAN : listening' = [listening EXCEPT ![r] = l]
  /\ UNCHANGED <<evidence, notified>>

Approve(r) ==
  /\ phase[r] = "pending"
  /\ phase' = [phase EXCEPT ![r] = "verified"]
  /\ \E e \in requires[r] : evidence' = [evidence EXCEPT ![r] = {e}]
  /\ UNCHANGED <<requires, listening, notified>>

Reject(r) ==
  /\ phase[r] = "pending"
  /\ phase' = [phase EXCEPT ![r] = "rejected"]
  /\ UNCHANGED <<requires, evidence, listening, notified>>

Notify(r) ==
  /\ phase[r] = "verified"
  /\ listening[r]
  /\ ~notified[r]
  /\ notified' = [notified EXCEPT ![r] = TRUE]
  /\ UNCHANGED <<phase, requires, evidence, listening>>

ServiceNext ==
  \E r \in Request : Accept(r) \/ Approve(r) \/ Reject(r) \/ Notify(r)

ServiceSpec == ServiceInit /\ [][ServiceNext]_serviceVars
=============================================================================
