------------------------------ MODULE MCFlight ------------------------------
(* Values for Commands' constants, for TLC. *)
EXTENDS Commands

CONSTANT d1

BenchAtWest == [d \in Drones |-> West]

\* One route: out to the east wall.
OneRoute == {<<East>>}

\* Lessons, each with a few keys, the Commands pressed in it and what breaks.
Lessons == {{"take off", "hold", "emergency-stop", "break", "reopen"},
            {"take off", "drift", "fly home", "auto-land"},
            {"route", "return-home", "land"},
            {"route", "emergency-stop", "release"},
            {"take off", "drain", "return-home"},
            {"plug in", "unplug", "reset", "flatten", "drain", "take"},
            {"drop link", "restore link", "take", "emergency-stop"},
            {"fault", "clear fault", "carry", "take"},
            {"take off", "spontaneous", "take"},
            {"altitude", "emergency-stop", "take"}}

\* The Teacher looks at another page while a Drone is up.
LookAway == {{"take off", "drift", "reopen"}}
=============================================================================
