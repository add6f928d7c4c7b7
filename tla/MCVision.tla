------------------------------ MODULE MCVision ------------------------------
(* Values for Vision's constants, for TLC. *)
EXTENDS Vision
=============================================================================
