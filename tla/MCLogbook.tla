------------------------------ MODULE MCLogbook ------------------------------
(* Instances of Logbook for TLC. *)
EXTENDS Logbook

\* Two names that leave one slug.
McSlug == [n \in Names |-> 1]
=============================================================================
