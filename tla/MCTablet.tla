------------------------------ MODULE MCTablet ------------------------------
(***************************************************************************)
(* StudentTablet on seven scenes, each with what it needs and no more: a    *)
(* product of all of it is too large to explore.                           *)
(***************************************************************************)
EXTENDS StudentTablet

CONSTANTS A, B, c1, c2

\* From the code to the Teacher's answer, with a board that may fall silent.
Answers ==
  [rooms |-> {A}, ids |-> {c1}, sights |-> Sky, time |-> 2,
   presses |-> {"code", "name", "drone", "ask", "read", "grant", "hold", "beat"}]

\* From the Drone to the landing, under every sight of the craft.
Flight ==
  [rooms |-> {A}, ids |-> {c1}, sights |-> Sky, time |-> 1,
   presses |-> {"code", "name", "drone", "read", "instruct", "reach", "approve"}]

\* A lesson sealed and ended under a child, flying or not.
Score ==
  [rooms |-> {A}, ids |-> {c1}, sights |-> {"down", "up", "red"}, time |-> 1,
   presses |-> {"code", "name", "drone", "ask", "read", "grant", "open", "close"}]

\* A board that falls silent over a child who is told to land.
Silence ==
  [rooms |-> {A}, ids |-> {c1}, sights |-> {"down", "up"}, time |-> 2,
   presses |-> {"code", "name", "drone", "leave", "close", "beat"}]

\* From room to room and back, by one child and then another.
TwoRooms ==
  [rooms |-> {A, B}, ids |-> {c1, c2}, sights |-> {"down"}, time |-> 1,
   presses |-> {"code", "name", "leave", "change"}]

\* Rooms whose lessons end while a child changes from one to the other.
Ends ==
  [rooms |-> {A, B}, ids |-> {c1}, sights |-> {"down"}, time |-> 1,
   presses |-> {"code", "name", "change", "close"}]

\* A page loaded again, and a Drone taken back by the child who held it.
Reloaded ==
  [rooms |-> {A}, ids |-> {c1, c2}, sights |-> {"down"}, time |-> 1,
   presses |-> {"code", "name", "drone", "leave", "reload"}]

MCScenes == {Answers, Flight, Score, Silence, TwoRooms, Ends, Reloaded}
=============================================================================
