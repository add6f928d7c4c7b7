------------------------------ MODULE MCRecords ------------------------------
(* Instances of LessonRecords for TLC: what may be in the room. *)
EXTENDS LessonRecords

Seat(student, drone, reached) == [student |-> student, drone |-> drone, reached |-> reached]
Team(id, members, drone) == [id |-> id, members |-> members, drone |-> drone]
Drone(id, label) == [id |-> id, label |-> label]

\* Nobody has joined and nothing is planned.
McNoRoom == [drones |-> {}, seats |-> {}, teams |-> {}, points |-> <<>>, planned |-> FALSE]

\* Two teams on two Drones, two points, one of them reached.
Flown == [drones |-> {Drone(1, "A"), Drone(2, "B")},
          seats |-> {Seat(1, 1, {1}), Seat(2, 2, {})},
          teams |-> {Team(1, {1}, 1), Team(2, {2}, 2)},
          points |-> <<1, 2>>, planned |-> TRUE]

\* One child went home, and with them their team.
Smaller == [Flown EXCEPT !.seats = {Seat(1, 1, {1})}, !.teams = {Team(1, {1}, 1)}]

\* A Student put on a team from the roster never joined on a tablet.
Unseated == [Flown EXCEPT !.seats = {Seat(1, 1, {1})}]

\* Two Drones carry the same label.
SameLabel == [Flown EXCEPT !.drones = {Drone(1, "A"), Drone(2, "A")}]

McRooms == {McNoRoom, Flown, Smaller, Unseated, SameLabel}
=============================================================================
