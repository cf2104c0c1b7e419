------------------------- MODULE MCSessionLifecycle -------------------------
(***************************************************************************)
(* The invariants say nothing of what follows an unprotected step, so TLC  *)
(* does not explore it.                                                    *)
(***************************************************************************)
EXTENDS SessionLifecycle

Protected == gap = "none"
=============================================================================
