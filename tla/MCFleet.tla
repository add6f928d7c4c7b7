------------------------------- MODULE MCFleet -------------------------------
(* Values for FleetBoard's constants, for TLC. *)
EXTENDS FleetBoard

Fit == [emergency |-> FALSE, airborne |-> FALSE, fault |-> FALSE, low |-> FALSE]
OnePad == {Fit, [Fit EXCEPT !.airborne = TRUE]}
=============================================================================
