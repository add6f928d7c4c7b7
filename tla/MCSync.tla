------------------------------- MODULE MCSync -------------------------------
(* Values for ClassroomSync's constants, for TLC. *)
EXTENDS ClassroomSync

CONSTANTS t1, t2, h1, n1, n2

\* Every tablet carries a name of its own.
OwnNames == [t \in Tablet |-> IF t = t1 THEN n1 ELSE n2]

\* Counted writes: the board's, the first tablet's and the other's.
Budget(b, x, y) == [d \in Tablet \cup {Board} |-> IF d = Board THEN b
                                                ELSE IF d = t1 THEN x ELSE y]
Budget210 == Budget(2, 1, 0)
Budget011 == Budget(0, 1, 1)
Budget110 == Budget(1, 1, 0)
Budget220 == Budget(2, 2, 0)
Budget12 == Budget(1, 2, 0)
Budget34 == Budget(3, 4, 0)

(***************************************************************************)
(* Lessons already under way: every device and the store hold the same     *)
(* copy and nothing is in flight, a state Spec reaches when the network    *)
(* has been quiet for a while.                                             *)
(***************************************************************************)
Settled(doc) ==
  /\ disk = [d \in Device |-> doc]
  /\ screen = disk
  /\ pending = [d \in Device |-> NoDoc]
  /\ puts = [d \in Device |-> {}]
  /\ replies = [d \in Device |-> {}]
  /\ store = doc
  /\ writes = [d \in Device |-> 0]

\* The same, with every tablet back at the door: a child who pressed Leave keeps
\* their seat in the room (leaveClassroom clears the tablet only).
AtTheDoor(doc) ==
  /\ disk = [d \in Device |-> IF d = Board THEN doc ELSE NoDoc]
  /\ screen = disk
  /\ pending = [d \in Device |-> NoDoc]
  /\ puts = [d \in Device |-> {}]
  /\ replies = [d \in Device |-> {}]
  /\ store = doc
  /\ writes = [d \in Device |-> 0]

\* The brief is up and the Mission started; nobody has joined.
OpenRoom == [EmptySession EXCEPT !.rev = 2, !.live = TRUE]

\* Every tablet has joined and none has a Drone.
JoinedRoom ==
  [OpenRoom EXCEPT !.seats =
     [s \in Student |-> IF s \in Tablet THEN [NewSeat(NameOf[s], NoDrone) EXCEPT !.rev = 1]
                                         ELSE NoSeat]]

\* The first tablet's child is on a Drone.
OnDroneRoom ==
  [JoinedRoom EXCEPT !.seats[t1].drone = CHOOSE d \in Drone : TRUE, !.seats[t1].rev = 2]

\* ... and has asked to take off.
AskedRoom ==
  [OnDroneRoom EXCEPT !.seats[t1].phase = "awaiting-clearance", !.seats[t1].rev = 3]

OpenFairSpec == Settled(OpenRoom) /\ [][Next]_vars /\ Fairness /\ BeatFairness
OnDroneSpec == Settled(OnDroneRoom) /\ [][Next]_vars
AskedSpec == Settled(AskedRoom) /\ [][Next]_vars
DoorSpec == AtTheDoor(JoinedRoom) /\ [][Next]_vars
JoinedSpec == Settled(JoinedRoom) /\ [][Next]_vars
JoinedFairSpec == Settled(JoinedRoom) /\ [][Next]_vars /\ Fairness /\ BeatFairness
AskedFairSpec == Settled(AskedRoom) /\ [][Next]_vars /\ Fairness
=============================================================================
