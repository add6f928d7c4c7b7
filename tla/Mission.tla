------------------------------ MODULE Mission ------------------------------
(***************************************************************************)
(* One lesson after another, as the Teacher's board keeps it: the Mission  *)
(* draft, the pre-flight ticks, the brief, the teams, the takeoff          *)
(* clearances and the room the tablets sit in.  Each lives under one key   *)
(* of the browser with the id of the lesson it is of, and is read as empty *)
(* under any other id.  The Teacher works on one step of the rail at a     *)
(* time, and only on a step the records have opened.                       *)
(* The Fleet is simulated: a grant is what puts a Drone in the air.        *)
(***************************************************************************)
EXTENDS FiniteSets, MissionRail

CONSTANTS
    Drones, Students,
    NoDrone,       \* a seat that has taken none
    Rostered,      \* Drones the Logbook has a Student on, tablet or no tablet
    Walked,        \* steps of the rail the Teacher goes to: bound
    MaxLessons,    \* lessons started: bound
    MaxUndone      \* things taken back, started over or gone wrong: bound

ASSUME MissionAssumption ==
    /\ Rostered \subseteq Drones /\ NoDrone \notin Drones
    /\ Walked \subseteq MissionSteps
    /\ MaxLessons \in Nat /\ MaxUndone \in Nat

VARIABLES
    lesson,     \* the running lesson, NoLesson between two
    begun,      \* how many lessons have been started
    draft,      \* MISSION_DRAFT_KEY
    ticks,      \* PRE_FLIGHT_SEVEN_KEY: the propellers looked at
    brief,      \* MISSION_BRIEFING_KEY: whether every rule was said
    clearances, \* CLEARANCES_KEY
    onTeam,     \* the Drones of TEAMS_KEY, which is of no lesson
    page,       \* the ?step= of the Mission run, NoStep, or Elsewhere
    room,       \* the lesson the classroom is open for, Shut when it is not
    seats,      \* the classroom's seats
    craft,      \* what the Fleet says of each Drone
    logged,     \* lessons whose sealed Mission is in the Logbook
    undone,     \* how much has been taken back (bound)
    granted,    \* Drones granted since the lesson started (history)
    ticked      \* Drones ticked since the lesson started (history)

board == <<draft, ticks, brief, clearances, onTeam>>
classroom == <<room, seats>>
history == <<granted, ticked>>
vars == <<lesson, begun, board, page, classroom, craft, logged, undone, history>>

NoLesson == 0
Shut == -1
LessonId == 0..MaxLessons
NoStep == 0
Elsewhere == -1
Pages == Walked \cup {NoStep, Elsewhere}
Plan == [made : BOOLEAN, zoned : BOOLEAN, started : BOOLEAN, sealed : BOOLEAN,
         drones : SUBSET Drones]
NoPlan == [made |-> FALSE, zoned |-> FALSE, started |-> FALSE, sealed |-> FALSE, drones |-> {}]
Answer == {"none", "waiting", "held", "granted"}
Nobody == [d \in Drones |-> "none"]
SeatPhase == {"absent", "ready", "asked", "held", "cleared"}
Absent == [drone |-> NoDrone, phase |-> "absent"]
Empty == [s \in Students |-> Absent]

MissionTypeOK ==
    /\ lesson \in LessonId /\ begun \in LessonId
    /\ draft \in [lesson : LessonId, mission : Plan]
    /\ ticks \in [lesson : LessonId, of : SUBSET Drones]
    /\ brief \in [lesson : LessonId, said : BOOLEAN]
    /\ clearances \in [lesson : LessonId, of : [Drones -> Answer]]
    /\ onTeam \subseteq Drones
    /\ page \in Pages
    /\ room \in LessonId \cup {Shut}
    /\ seats \in [Students -> [drone : Drones \cup {NoDrone}, phase : SeatPhase]]
    /\ \A s \in Students : seats[s].drone = NoDrone <=> seats[s].phase = "absent"
    /\ craft \in [Drones -> {"ready", "unready", "up"}]
    /\ logged \subseteq 1..MaxLessons
    /\ undone \in 0..MaxUndone
    /\ granted \subseteq Drones /\ ticked \subseteq Drones

Init ==
    /\ lesson = NoLesson /\ begun = 0
    /\ draft = [lesson |-> NoLesson, mission |-> NoPlan]
    /\ ticks = [lesson |-> NoLesson, of |-> {}]
    /\ brief = [lesson |-> NoLesson, said |-> FALSE]
    /\ clearances = [lesson |-> NoLesson, of |-> Nobody]
    /\ onTeam = {}
    /\ page = NoStep
    /\ room = Shut /\ seats = Empty
    /\ craft = [d \in Drones |-> "ready"]
    /\ logged = {} /\ undone = 0
    /\ granted = {} /\ ticked = {}

(***************************************************************************)
(* What is read from the keys.                                             *)
(***************************************************************************)
\* Mutant: the ticks of another lesson count.
TicksOfAnyLesson(l) == ticks.of

readPreFlightSeven(l) == IF ticks.lesson = l THEN ticks.of ELSE {}
readMissionBriefing(l) == brief.lesson = l /\ brief.said
readMission(l) == IF draft.lesson = l THEN draft.mission ELSE NoPlan
readClearances(l) == IF clearances.lesson = l THEN clearances.of ELSE Nobody

mission == readMission(lesson)
answers == readClearances(lesson)

missionCraftIds == IF onTeam # {} THEN onTeam ELSE mission.drones

isActiveMission == mission.started /\ ~mission.sealed

seatsOn(d) == {s \in Students : seats[s].drone = d}
studentOnDrone(d) == seatsOn(d) # {} \/ d \in Rostered

\* ControlScreen keeps the Mission's craft, shouldAwaitClearance the rest.
shouldAwaitClearance(d) ==
    /\ d \in missionCraftIds
    /\ craft[d] = "ready"
    /\ studentOnDrone(d)
    /\ d \in readPreFlightSeven(lesson)
    /\ isActiveMission /\ d \in mission.drones
    /\ answers[d] # "granted"

syncClearanceQueue ==
    [d \in Drones |-> IF shouldAwaitClearance(d) /\ answers[d] = "none"
                      THEN "waiting" ELSE answers[d]]

awaitingClearance ==
    {d \in Drones : shouldAwaitClearance(d) /\ syncClearanceQueue[d] \in {"waiting", "held"}}

\* The other six items of a simulated craft pass by themselves.
isPreFlightSevenDone(d) == d \in readPreFlightSeven(lesson)

anyAirborne == \E d \in Drones : craft[d] = "up"

missionFlowFacts ==
    IF ~mission.made THEN [noMissionYet EXCEPT !.airborne = anyAirborne]
    ELSE [scenarioChosen |-> TRUE,
          noFlyZoneDrawn |-> mission.zoned,
          teamOnCraft |-> missionCraftIds # {},
          preFlightPassed |-> \E d \in missionCraftIds : isPreFlightSevenDone(d),
          briefed |-> readMissionBriefing(lesson),
          cleared |-> \E d \in Drones : answers[d] = "granted",
          flown |-> mission.started,
          airborne |-> anyAirborne,
          sealed |-> mission.sealed,
          reviewed |-> FALSE]

\* The step in the query wins, open or not; without one the records choose.
shownAt(p) == IF p = NoStep THEN currentMissionStep(missionFlowFacts) ELSE p

Works(p, steps) == shownAt(p) \in steps /\ isMissionStepOpen(shownAt(p), missionFlowFacts)

Shows(n) == Works(page, {n})
LessonSteps == 1..5
ControlSteps == 6..11

Undo == undone < MaxUndone /\ undone' = undone + 1
Kept == undone' = undone

(***************************************************************************)
(* Writing the draft tells ClassroomOpen, which opens a room for a lesson  *)
(* that has a Mission and no room: a new code, and nobody in it.           *)
(***************************************************************************)
Opened(l, plan) ==
    IF plan.made /\ room # l
    THEN room' = l /\ seats' = Empty
    ELSE UNCHANGED classroom

Write(plan) ==
    /\ draft' = [lesson |-> lesson, mission |-> plan]
    /\ Opened(lesson, plan)

\* Mutant: a draft of an earlier lesson is adopted too.
adoptAnyDraft(l) ==
    IF draft.mission.made THEN [lesson |-> l, mission |-> draft.mission] ELSE draft

adoptMissionDraft(l) ==
    IF draft.lesson = NoLesson /\ draft.mission.made
    THEN [lesson |-> l, mission |-> draft.mission] ELSE draft

Adopted(l) ==
    IF l = NoLesson
    THEN UNCHANGED <<draft, classroom>>
    ELSE /\ draft' = adoptMissionDraft(l)
         /\ Opened(l, IF draft'.lesson = l THEN draft'.mission ELSE NoPlan)

(***************************************************************************)
(* Setting up, with or without a lesson running.                           *)
(***************************************************************************)
\* A press on the rail, or on the bar.  LessonScreen adopts when it mounts.
GoTo(p) ==
    /\ page # p /\ p # Elsewhere
    /\ page' = p
    /\ IF Works(p, LessonSteps) THEN Adopted(lesson) ELSE UNCHANGED <<draft, classroom>>
    /\ UNCHANGED <<lesson, begun, ticks, brief, clearances, onTeam, craft, logged, undone,
                    history>>

\* Mutant: choosing again begins the Mission again.
chooseAfresh == [NoPlan EXCEPT !.made = TRUE]

\* Choosing again changes the Scenario, which is not kept here, and nothing else.
chooseScenario == [mission EXCEPT !.made = TRUE]

ChooseScenario ==
    /\ Shows(1)
    /\ Write(chooseScenario)
    /\ UNCHANGED <<lesson, begun, ticks, brief, clearances, onTeam, page, craft, logged,
                    undone, history>>

\* The first zone that encloses anything, and the last one undone.
SetMissionZones ==
    /\ Shows(2)
    /\ Write([mission EXCEPT !.zoned = ~mission.zoned])
    /\ IF mission.zoned THEN Undo ELSE Kept
    /\ UNCHANGED <<lesson, begun, ticks, brief, clearances, onTeam, page, craft, logged,
                    history>>

\* A team without a Drone is given one, or a team is moved from another Drone.
AssignDroneToTeam(d) ==
    /\ Shows(3) /\ d \notin onTeam
    /\ \/ onTeam' = onTeam \cup {d} /\ Kept
       \/ \E e \in onTeam : onTeam' = (onTeam \ {e}) \cup {d} /\ Undo
    /\ UNCHANGED <<lesson, begun, draft, ticks, brief, clearances, page, classroom, craft,
                    logged, history>>

RemoveTeam(d) ==
    /\ Shows(3) /\ d \in onTeam
    /\ Undo
    /\ onTeam' = onTeam \ {d}
    /\ UNCHANGED <<lesson, begun, draft, ticks, brief, clearances, page, classroom, craft,
                    logged, history>>

\* The button of step 3, there only when it would change something.
SetMissionDrones ==
    /\ Shows(3)
    /\ missionCraftIds \notin {{}, mission.drones}
    /\ Write([mission EXCEPT !.drones = missionCraftIds])
    /\ IF mission.drones = {} THEN Kept ELSE Undo
    /\ UNCHANGED <<lesson, begun, ticks, brief, clearances, onTeam, page, craft, logged,
                    history>>

Ticked(of) ==
    /\ Shows(4)
    /\ ticks' = [lesson |-> lesson, of |-> of]
    /\ ticked' = ticked \cup (of \ readPreFlightSeven(lesson))
    /\ UNCHANGED <<lesson, begun, draft, brief, clearances, onTeam, page, classroom, craft,
                    logged,
                   granted>>

TogglePropellersTick(d) ==
    /\ d \in missionCraftIds
    /\ LET was == readPreFlightSeven(lesson)
       IN /\ Ticked(IF d \in was THEN was \ {d} ELSE was \cup {d})
          /\ IF d \in was THEN Undo ELSE Kept

TickAllPropellers ==
    /\ ~(missionCraftIds \subseteq readPreFlightSeven(lesson))
    /\ Ticked(readPreFlightSeven(lesson) \cup missionCraftIds)
    /\ Kept

\* Every rule of every section, one by one or in one press; one unsaid, or all.
MissionBriefing ==
    /\ Shows(5)
    /\ brief' = [lesson |-> lesson, said |-> ~readMissionBriefing(lesson)]
    /\ IF readMissionBriefing(lesson) THEN Undo ELSE Kept
    /\ UNCHANGED <<lesson, begun, draft, ticks, clearances, onTeam, page, classroom, craft,
                    logged,
                   history>>

demonstration == [NoPlan EXCEPT !.made = TRUE, !.zoned = TRUE, !.drones = Drones]

demoMission == Write(demonstration)

\* Its panel is on another page, which the Teacher goes to.
SetUpDemonstration ==
    /\ page' = Elsewhere
    /\ demoMission
    /\ Undo
    /\ UNCHANGED <<lesson, begun, ticks, brief, clearances, onTeam, craft, logged, history>>

(***************************************************************************)
(* The lesson begins and ends.                                             *)
(***************************************************************************)
StartLesson ==
    /\ Shows(1) /\ lesson = NoLesson /\ begun < MaxLessons
    /\ begun' = begun + 1 /\ lesson' = begun + 1
    /\ Adopted(begun + 1)
    /\ granted' = {} /\ ticked' = {}
    /\ UNCHANGED <<ticks, brief, clearances, onTeam, page, craft, logged, undone>>

EndLesson ==
    /\ Works(page, ControlSteps) /\ lesson # NoLesson
    /\ lesson' = NoLesson
    /\ room' = Shut
    /\ granted' = {} /\ ticked' = {}
    /\ UNCHANGED <<begun, board, page, seats, craft, logged, undone>>

(***************************************************************************)
(* Control, the steps in the air.  Having it open is what starts the       *)
(* Mission of a running lesson: an effect, as what the queue records is.   *)
(***************************************************************************)
StartMission ==
    /\ Works(page, ControlSteps)
    /\ mission.made /\ lesson # NoLesson /\ ~mission.started
    /\ Write([mission EXCEPT !.started = TRUE])
    /\ UNCHANGED <<lesson, begun, ticks, brief, clearances, onTeam, page, craft, logged,
                    undone, history>>

Shown == Shows(6) /\ mission.made

writeClearances(of) == clearances' = [lesson |-> lesson, of |-> of]

\* The effect of ClearanceQueue: what became eligible is put on record.
SyncQueue ==
    /\ Shown
    /\ syncClearanceQueue # answers
    /\ writeClearances(syncClearanceQueue)
    /\ UNCHANGED <<lesson, begun, draft, ticks, brief, onTeam, page, classroom, craft,
                    logged, undone, history>>

\* Mutant: every Drone granted so far is granted now.
grantedSoFar(before, next) == {d \in Drones : next[d] = "granted"}

grantedNow(before, next) == {d \in Drones : next[d] = "granted" /\ before[d] # "granted"}

seatsForDrone(d) ==
    IF seatsOn(d) # {} THEN seatsOn(d) ELSE {s \in Students : seats[s].phase = "asked"}

\* The room hears it, and the simulated Drone flies unless something keeps it down.
Grant(d) ==
    /\ Shown
    /\ d \in awaitingClearance
    /\ LET next == [syncClearanceQueue EXCEPT ![d] = "granted"]
           now == grantedNow(answers, next)
           told == UNION {seatsForDrone(e) : e \in now}
       IN /\ writeClearances(next)
          /\ seats' = [s \in Students |-> IF s \in told
                                          THEN [seats[s] EXCEPT !.phase = "cleared"] ELSE seats[s]]
          /\ \E fly \in SUBSET now :
                craft' = [e \in Drones |-> IF e \in fly THEN "up" ELSE craft[e]]
    /\ granted' = granted \cup {d}
    /\ UNCHANGED <<lesson, begun, draft, ticks, brief, onTeam, page, room, logged, undone,
                    ticked>>

Hold(d) ==
    /\ Shown
    /\ d \in awaitingClearance /\ answers[d] # "held"
    /\ writeClearances([syncClearanceQueue EXCEPT ![d] = "held"])
    /\ seats' = [s \in Students |-> IF s \in seatsForDrone(d) /\ seats[s].phase = "asked"
                                    THEN [seats[s] EXCEPT !.phase = "held"] ELSE seats[s]]
    /\ UNCHANGED <<lesson, begun, draft, ticks, brief, onTeam, page, room, craft, logged,
                    undone, history>>

canConfirmMissionComplete ==
    /\ isActiveMission
    /\ mission.drones # {}
    /\ \A d \in mission.drones : d \in missionCraftIds /\ craft[d] # "up"

putMissionOnLesson(l) == logged \cup ({l} \ {NoLesson})

ConfirmMissionComplete ==
    /\ Shows(11) /\ mission.made
    /\ canConfirmMissionComplete
    /\ Write([mission EXCEPT !.sealed = TRUE])
    /\ logged' = putMissionOnLesson(lesson)
    /\ UNCHANGED <<lesson, begun, ticks, brief, clearances, onTeam, page, craft, undone,
                    history>>

(***************************************************************************)
(* The tablets, the Teacher's Free, and the Fleet.                         *)
(***************************************************************************)
TakeDroneSeat(s, d) ==
    /\ room = lesson /\ d \in mission.drones
    /\ seats[s].drone = NoDrone /\ seatsOn(d) = {}
    /\ seats' = [seats EXCEPT ![s] = [drone |-> d, phase |-> "ready"]]
    /\ UNCHANGED <<lesson, begun, board, page, room, craft, logged, undone, history>>

RequestTakeoff(s) ==
    /\ room # Shut
    /\ seats[s].phase \in {"ready", "held"}
    /\ seats' = [seats EXCEPT ![s].phase = "asked"]
    /\ UNCHANGED <<lesson, begun, board, page, room, craft, logged, undone, history>>

freeDroneSeat(s) == [seats EXCEPT ![s] = Absent]

FreeDroneSeat(s) ==
    /\ Shows(3) /\ room # Shut
    /\ seats[s].drone # NoDrone
    /\ seats' = freeDroneSeat(s)
    /\ Undo
    /\ UNCHANGED <<lesson, begun, board, page, room, craft, logged, history>>

\* A Drone comes down, turns unready, or is ready again.
FleetSays(d) ==
    /\ \E says \in {"ready", "unready"} \ {craft[d]} :
          /\ craft' = [craft EXCEPT ![d] = says]
          /\ IF says = "unready" THEN Undo ELSE Kept
    /\ UNCHANGED <<lesson, begun, board, page, classroom, logged, history>>

Teacher ==
    \/ ChooseScenario \/ SetMissionZones \/ SetMissionDrones
    \/ TickAllPropellers \/ MissionBriefing \/ SetUpDemonstration
    \/ StartLesson \/ EndLesson
    \/ StartMission \/ SyncQueue \/ ConfirmMissionComplete
    \/ \E p \in Pages : GoTo(p)
    \/ \E d \in Drones : \/ AssignDroneToTeam(d) \/ RemoveTeam(d)
                         \/ TogglePropellersTick(d) \/ Grant(d) \/ Hold(d)

Others ==
    \/ \E s \in Students : \/ RequestTakeoff(s) \/ FreeDroneSeat(s)
                           \/ \E d \in Drones : TakeDroneSeat(s, d)
    \/ \E d \in Drones : FleetSays(d)

Next == Teacher \/ Others

Spec == Init /\ [][Next]_vars

(***************************************************************************)
(* Properties.                                                             *)
(***************************************************************************)
\* A Drone granted in this lesson had its propellers looked at in this lesson:
\* what was ticked before it, or for the class before, is nobody's word today
\* (preflight-seven.ts, readPreFlightSeven; clearance.ts, shouldAwaitClearance).
GrantedWasTicked == granted \subseteq ticked

\* Once a takeoff has been granted the records never choose a step before the air
\* again in that lesson, whatever is chosen, redrawn or demonstrated afterwards
\* (mission-flow.ts, isUnderWay and currentMissionStep).
GrantedIsUnderWay ==
    granted # {} => mission.made /\ currentMissionStep(missionFlowFacts) \in {7, 11, 12}

\* A Mission the board says is sealed is sealed in the Logbook too, where the
\* records of the lesson are written from (ControlScreen.tsx, onConfirmed).
SealedIsLogged == mission.sealed => lesson \in logged

\* What a step that is not open tells the Teacher to go and do has not been done,
\* and is nearer the start: no step is locked behind nothing, and none behind work
\* that is optional (mission-flow.ts, isMissionStepOpen and missionStepBlockedBy).
LocksHaveKeys ==
    LET facts == missionFlowFacts
    IN  \A n \in MissionSteps : ~isMissionStepOpen(n, facts) =>
            /\ missionStepBlockedBy(n) < n
            /\ ~isMissionStepDone(missionStepBlockedBy(n), facts)

\* What the rail has ticked stays ticked in its lesson while the Teacher takes
\* nothing back and moves no team: choosing again, the clearances, the flights and
\* the tablets undo no step (mission-draft.ts, missionStepMark).
TicksStay ==
    [][lesson' = lesson /\ undone' = undone /\ onTeam' = onTeam =>
          LET facts == missionFlowFacts
          IN  \A n \in MissionSteps :
                  missionStepMark(n, facts) = "done" => missionStepMark(n, facts') = "done"]_vars

\* A lesson that starts opens at set-up, with a Mission nobody has flown and no
\* clearance of the class before (adoptMissionDraft, readClearances).
LessonStartsFresh ==
    [][lesson' # lesson /\ lesson' # NoLesson =>
          /\ ~mission'.started /\ ~mission'.sealed
          /\ answers' = Nobody]_vars

\* A grant puts up the Drone it is about and no other, and no Drone twice in a
\* lesson: one that has landed does not take off again because another is
\* granted (ControlScreen.tsx, grantedNow).
FliesOncePerGrant ==
    [][\A d \in Drones : craft[d] # "up" /\ craft'[d] = "up" =>
          d \notin granted /\ granted' = granted \cup {d}]_vars

=============================================================================
