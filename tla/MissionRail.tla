---------------------------- MODULE MissionRail ----------------------------
(***************************************************************************)
(* The twelve steps of a Mission run as web/lib/mission-flow.ts reads them *)
(* off the records: which step is open, which is done, what stands in the  *)
(* way of one that is not, and where the Teacher is.  No state of its own. *)
(***************************************************************************)
EXTENDS Integers

MissionSteps == 1..12
LiveSteps == 7..10

MissionFlowFacts ==
    [scenarioChosen : BOOLEAN, noFlyZoneDrawn : BOOLEAN, teamOnCraft : BOOLEAN,
     preFlightPassed : BOOLEAN, briefed : BOOLEAN, cleared : BOOLEAN, flown : BOOLEAN,
     airborne : BOOLEAN, sealed : BOOLEAN, reviewed : BOOLEAN]

noMissionYet ==
    [scenarioChosen |-> FALSE, noFlyZoneDrawn |-> FALSE, teamOnCraft |-> FALSE,
     preFlightPassed |-> FALSE, briefed |-> FALSE, cleared |-> FALSE, flown |-> FALSE,
     airborne |-> FALSE, sealed |-> FALSE, reviewed |-> FALSE]

isUnderWay(f) == f.cleared \/ f.flown \/ f.airborne

isMissionStepOpen(n, f) ==
    \/ n = 1
    \/ n \in {2, 3} /\ f.scenarioChosen
    \/ n = 4 /\ f.teamOnCraft
    \/ n = 5 /\ f.preFlightPassed
    \/ n = 6 /\ f.briefed
    \/ n \in LiveSteps \cup {11} /\ isUnderWay(f)
    \/ n = 12 /\ f.sealed

isMissionStepDone(n, f) ==
    \/ n = 1 /\ f.scenarioChosen
    \/ n = 2 /\ f.noFlyZoneDrawn
    \/ n = 3 /\ f.teamOnCraft
    \/ n = 4 /\ f.preFlightPassed
    \/ n = 5 /\ f.briefed
    \/ n = 6 /\ f.cleared
    \/ n \in LiveSteps \cup {11} /\ f.sealed
    \/ n = 12 /\ f.reviewed

\* The step whose work the words of a locked step send the Teacher to.
missionStepBlockedBy(n) ==
    CASE n \in {2, 3}              -> 1
      [] n = 4                     -> 3
      [] n = 5                     -> 4
      [] n = 6                     -> 5
      [] n \in LiveSteps \cup {11} -> 6
      [] n = 12                    -> 11

\* Later work wins over earlier work.
currentMissionStep(f) ==
    IF f.reviewed \/ f.sealed THEN 12
    ELSE IF isUnderWay(f) THEN (IF f.airborne THEN 7 ELSE 11)
    ELSE IF f.briefed THEN 6
    ELSE IF f.preFlightPassed THEN 5
    ELSE IF f.teamOnCraft THEN 4
    ELSE IF f.noFlyZoneDrawn THEN 3
    ELSE IF f.scenarioChosen THEN 2
    ELSE 1

\* Done is asked before open: a step behind the Teacher may have closed again.
missionStepMark(n, f) ==
    IF n \in LiveSteps /\ isUnderWay(f) /\ ~f.sealed THEN "live"
    ELSE IF isMissionStepDone(n, f) THEN "done"
    ELSE IF isMissionStepOpen(n, f) /\ n = currentMissionStep(f) THEN "current"
    ELSE "locked"

=============================================================================
