--------------------------- MODULE StudentScreens ---------------------------
(***************************************************************************)
(* Which screen a Student's tablet is on, which of the twelve steps its    *)
(* rail points at, and what each screen lets a child press                 *)
(* (web/components/StudentMissionScreen.tsx, web/lib/student-steps.ts).    *)
(* Nothing a child presses chooses a screen: the seat, the room, the board *)
(* and Telemetry do.  A screen is the set of its buttons here; its words   *)
(* are left out, and so is Understood, which moves nothing on.             *)
(*                                                                         *)
(* Telemetry of the child's own craft is one of four: down, up, up inside  *)
(* a No-fly Zone, up with an Alert a Student has an answer to.             *)
(***************************************************************************)
EXTENDS ClassroomDoc, Integers

CONSTANTS
  QuietAfter,   \* QUIET_AFTER_MS: how old a beat is when the board counts as quiet
  SealedBrief   \* the rewriting of the brief that carries the sealed outcome

Sky == {"down", "up", "red", "alert"}

outcome(doc) == doc.brief >= SealedBrief

\* Null (0) is a board that never spoke, which is not a lost one.
boardQuiet(doc, now) == doc.boardSeen # 0 /\ now - doc.boardSeen >= QuietAfter

\* Mutant: silence is not taken into account.
mayLeaveWhenDown(airborne, quiet) == ~airborne

\* Silence is not flight.
mayLeaveClassroom(airborne, quiet) == ~airborne \/ quiet

\* A craft is heard of only once a seat is on it.
Airborne(seat, sky) == seat.drone # NoDrone /\ sky # "down"

-----------------------------------------------------------------------------
(* The rail. *)

\* An instruction counts as waiting for as long as there is one, read or not.
instructionWaiting(doc) == doc.posts > 0

StepInTheAir(doc, seat, sky) ==
  IF sky = "red" THEN 8
  ELSE IF instructionWaiting(doc) THEN 9
  ELSE IF allPointsReached(seat) THEN 10
  ELSE 7

\* Down again after flying and not approved is still the flying half.
StepOnTheGround(doc, seat) ==
  IF seat.flown THEN 7
  ELSE IF seat.phase = "cleared" THEN 6
  ELSE IF seat.phase \in {"awaiting-clearance", "held"} THEN 5
  ELSE IF seat.drone # NoDrone THEN 4
  ELSE IF doc.live THEN 2
  ELSE 1

\* Later wins over earlier. The seat's own score, which nothing writes, is left out.
studentStep(doc, seat, sky) ==
  IF outcome(doc) THEN 12
  ELSE IF seat.phase \in {"returning", "complete"} THEN 11
  ELSE IF Airborne(seat, sky) THEN StepInTheAir(doc, seat, sky)
  ELSE StepOnTheGround(doc, seat)

\* A step already done can be read again; a later one is not a button.
studentStepState(step, current) ==
  IF step = current THEN "now" ELSE IF step < current THEN "done" ELSE "ahead"

-----------------------------------------------------------------------------
(* The screens of a child with a Drone in a lesson that is running.        *)

pointsLeft(seat) == Cardinality(Point \ seat.reached)

InRedZone(seat, sky) == Airborne(seat, sky) /\ sky = "red"

\* What does not wait for somebody to finish reading.
Shouting(doc, seat, sky, now) == InRedZone(seat, sky) \/ boardQuiet(doc, now)

LooksBack(doc, seat, sky, now, reading) ==
  /\ reading # 0 /\ studentStepState(reading, studentStep(doc, seat, sky)) = "done"
  /\ ~Shouting(doc, seat, sky, now)

FlyingScreen(seat) == IF Point # {} /\ pointsLeft(seat) = 0 THEN "TaskDone" ELSE "Flying"

Finished(doc, seat, sky) ==
  (seat.phase = "complete" \/ outcome(doc)) /\ ~Airborne(seat, sky) /\ seat.flown

\* The order is the rule: what is read again, then the end, then what shouts.
StudentPhase(doc, seat, sky, now, reading) ==
  IF LooksBack(doc, seat, sky, now, reading) THEN "LookingBack"
  ELSE IF Finished(doc, seat, sky) THEN "BackOnTheGround"
  ELSE IF seat.phase = "returning" THEN "LandOnYourPad"
  ELSE IF InRedZone(seat, sky) THEN "RedZone"
  ELSE IF boardQuiet(doc, now) THEN "LostTheBoard"
  ELSE IF Airborne(seat, sky) THEN IF sky = "alert" THEN "WhatIf" ELSE FlyingScreen(seat)
  ELSE IF seat.flown THEN "BackOnTheGround"
  ELSE "MissionBrief"

SeatedStudent(doc, seat, sky, now, reading) ==
  IF ~doc.ended THEN StudentPhase(doc, seat, sky, now, reading)
  ELSE IF Airborne(seat, sky) THEN "LandNow" ELSE "ClassroomOver"

HasDrone(seat) == seat # NoSeat /\ seat.drone # NoDrone

\* The screens above a Drone: a room that ended, a name, a Drone.
StudentMission(doc, seat, sky, now, reading) ==
  IF HasDrone(seat) THEN SeatedStudent(doc, seat, sky, now, reading)
  ELSE IF doc.ended THEN "ClassroomOver"
  ELSE IF seat = NoSeat THEN "WhatIsYourName"
  ELSE "WhichDrone"

-----------------------------------------------------------------------------
(* What each screen offers. *)

\* The frame's foot: Change and Leave come together, or neither does.
StudentFrame(canLeave) == IF canLeave THEN {"change", "leave"} ELSE {}

JoinClassroomDoor == {"code"}
ClassroomOver == {"leave"}
WhatIsYourName == {"name"} \cup StudentFrame(TRUE)
WhichDroneAreYouHolding == {"drone"} \cup StudentFrame(TRUE)

TakeoffAnswer(seat) ==
  IF seat.phase \in {"awaiting-clearance", "cleared"} \/ seat.cleared THEN {} ELSE {"ask"}

MissionBrief(seat) == TakeoffAnswer(seat) \cup StudentFrame(TRUE)

Buttons(screen, seat, canLeave) ==
  CASE screen = "Door" -> JoinClassroomDoor
    [] screen = "ClassroomOver" -> ClassroomOver
    [] screen = "WhatIsYourName" -> WhatIsYourName
    [] screen = "WhichDrone" -> WhichDroneAreYouHolding
    [] screen \in {"LandNow", "LandOnYourPad"} -> StudentFrame(canLeave)
    [] screen \in {"LostTheBoard", "BackOnTheGround"} -> StudentFrame(TRUE)
    [] screen = "MissionBrief" -> MissionBrief(seat)
    [] screen \in {"LookingBack", "TaskDone", "RedZone", "WhatIf", "Flying"} -> {}
=============================================================================
