--------------------------- MODULE MCRequestTracker ---------------------------
(***************************************************************************)
(* RequestTracker for TLC: the user threads are interchangeable.           *)
(***************************************************************************)
EXTENDS RequestTracker, TLC

UserSymmetry == Permutations(Users)
=============================================================================
