---------------------------- MODULE MCFrameReplay ----------------------------
(* Instances of FrameReplay for TLC. *)
EXTENDS FrameReplay
=============================================================================
