-------------------------- MODULE MCSessionService --------------------------
(***************************************************************************)
(* The session handlers on a small instance.                               *)
(***************************************************************************)
EXTENDS SessionService, TLC

\* Requests are interchangeable; not used where liveness is checked.
MCSymmetry == Permutations(Requests)
=============================================================================
