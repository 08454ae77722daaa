----------------------- MODULE TrackerImplementsService -----------------------
(***************************************************************************)
(* The request tracker, used by applications that poll for completion and  *)
(* leave advancing to the HTTP callback, implements the verification       *)
(* service.                                                                *)
(***************************************************************************)
EXTENDS RequestTracker

Phase(s) == CASE s = "absent" -> "new"
              [] s \in RequestState \ Completed -> "pending"
              [] s = "FINISHED" -> "verified"
              [] s = "ERROR" -> "rejected"

Service == INSTANCE VerificationService WITH
  Request <- RequestID,
  Evidence <- Claims,
  phase <- [id \in RequestID |-> Phase(state[id])],
  requires <- [id \in RequestID |-> IF attestation[id] = "malformed" THEN {}
                                    ELSE {Required(attestation[id])}],
  evidence <- [id \in RequestID |-> IF state[id] = "FINISHED" THEN {claims[id]} ELSE {}],
  listening <- [id \in RequestID |-> callback[id] # "null"],
  notified <- [id \in RequestID |-> called[id] > 0]

(***************************************************************************)
(* Every step of the tracker (request_tracker_impl.h) is a step of the     *)
(* service or invisible to it: one decision per request, with the          *)
(* endorsements its options require, and one notification after a success. *)
(***************************************************************************)
ImplementsService == Service!ServiceSpec

\* Undecided, or verified and the listener not called.
Unsettled(id) ==
  \/ state[id] \in RequestState \ Completed
  \/ state[id] = "FINISHED" /\ callback[id] # "null" /\ called[id] = 0

(***************************************************************************)
(* The tracker itself never loses a request: one that its client does not  *)
(* owe a download is decided, whichever thread carries it, and the         *)
(* listener of a FINISHED one is called.  In particular a request whose    *)
(* responses were delivered is decided by the two calls of advance in the  *)
(* HTTP callback, without anybody else advancing it                        *)
(* (request_tracker_impl.h, prepare_endorsements and advance).             *)
(***************************************************************************)
NeverForgotten ==
  \A id \in RequestID : Unsettled(id) ~> (~Unsettled(id) \/ id \in in_flight)
=============================================================================
