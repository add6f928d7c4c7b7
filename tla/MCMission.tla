----------------------------- MODULE MCMission -----------------------------
(* Two Drones, of which the Logbook has a Student on one, a child with a   *)
(* tablet, and one or two lessons.                                         *)
EXTENDS Mission

CONSTANTS d1, d2, s1
=============================================================================
