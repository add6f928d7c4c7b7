------------------------------- MODULE MCTabs -------------------------------
(* Values for ClassroomTabs's constants, for TLC. *)
EXTENDS ClassroomTabs

CONSTANTS screen, code, tablet, board, student, s1, s2, n1

Pages == [p \in Panel |-> IF p = tablet THEN student ELSE board]
Chained == [p \in Panel |-> IF p = screen THEN 2 ELSE 1]
Once == [w \in Tab \cup {"elsewhere"} |-> 1]
Spent(who) == [w \in Tab \cup {"elsewhere"} |-> IF w \in who THEN 1 ELSE 0]

\* The Mission has started and the child of the Student tab is on a Drone.
Room ==
  [EmptySession EXCEPT !.rev = 2, !.live = TRUE,
     !.seats[s1] = [NewSeat(n1, CHOOSE d \in Drone : TRUE) EXCEPT !.rev = 2]]

\* The Teacher's page alone, with two panels: the Teacher presses, or a child
\* joins across the room.
OnePage ==
  /\ Opened(Room, {screen, code})
  /\ \E idle \in {board, "elsewhere"} : writes = Spent({student, idle})

\* The Teacher's page and a Student page side by side: the child presses.
TwoPages == Opened(Room, {screen, tablet}) /\ writes = Spent({board, "elsewhere"})

RoomSpec == (OnePage \/ TwoPages) /\ [][Next]_vars /\ Fairness
=============================================================================
