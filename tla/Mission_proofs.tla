--------------------------- MODULE Mission_proofs ---------------------------
(***************************************************************************)
(* What holds of the board's lesson for any number of Drones, children and *)
(* lessons.  The invariant is what ties the four keys and the room to the  *)
(* lesson that is running:                                                 *)
(*                                                                         *)
(*   Past       no key is of a lesson that has not begun;                  *)
(*   Unflown    a draft of no lesson was never started, so it was never    *)
(*              sealed and no takeoff was granted on it;                   *)
(*   TicksHeard what is ticked for the running lesson was ticked in it;    *)
(*   GrantsKept a grant stays on record, under a Mission that is made;     *)
(*   SealKept   a sealed draft is in the Logbook under its own lesson.     *)
(***************************************************************************)
EXTENDS Mission, TLAPS

Past ==
    /\ lesson \in {NoLesson, begun}
    /\ draft.lesson <= begun /\ ticks.lesson <= begun /\ clearances.lesson <= begun

Unflown ==
    draft.lesson = NoLesson => ~draft.mission.started /\ ~draft.mission.sealed

TicksHeard == lesson # NoLesson /\ ticks.lesson = lesson => ticks.of \subseteq ticked

GrantsKept ==
    /\ granted \subseteq ticked
    /\ \A d \in granted : answers[d] = "granted"
    /\ granted # {} => lesson # NoLesson /\ mission.made

SealKept == draft.mission.sealed => draft.lesson \in logged

DraftType == [lesson : LessonId, mission : Plan]
SeatsType == [Students -> [drone : Drones \cup {NoDrone}, phase : SeatPhase]]
SeatsOK == /\ seats \in SeatsType
           /\ \A s \in Students : seats[s].drone = NoDrone <=> seats[s].phase = "absent"

(***************************************************************************)
(* What the helpers return.                                                *)
(***************************************************************************)
LEMMA EmptySeats == Empty \in SeatsType /\ \A s \in Students : Empty[s] = Absent
BY DEF Empty, Absent, SeatsType, SeatPhase

LEMMA MissionType == MissionTypeOK => mission \in Plan
BY DEF MissionTypeOK, mission, readMission, NoPlan, Plan

LEMMA AnswersType == MissionTypeOK => answers \in [Drones -> Answer]
BY DEF MissionTypeOK, answers, readClearances, Nobody, Answer

LEMMA SyncType ==
    MissionTypeOK => /\ syncClearanceQueue \in [Drones -> Answer]
                     /\ \A d \in Drones : answers[d] = "granted" <=> syncClearanceQueue[d] = "granted"
BY AnswersType DEF syncClearanceQueue, Answer

\* A write leaves a draft of the running lesson, and a room that is of a lesson.
LEMMA WriteType ==
    ASSUME MissionTypeOK, NEW plan \in Plan, Write(plan)
    PROVE  /\ draft' = [lesson |-> lesson, mission |-> plan] /\ draft' \in DraftType
           /\ room' \in LessonId \cup {Shut}
           /\ SeatsOK'
<1>1. draft' \in DraftType
  BY DEF Write, DraftType, MissionTypeOK
<1>2. CASE plan.made /\ room # lesson
  BY <1>1, <1>2, EmptySeats DEF Write, Opened, MissionTypeOK, SeatsOK, SeatsType, Absent
<1>3. CASE ~(plan.made /\ room # lesson)
  BY <1>1, <1>3 DEF Write, Opened, MissionTypeOK, SeatsOK, SeatsType, classroom
<1>4. QED BY <1>2, <1>3

\* What a page that reads the draft for lesson l does to it.
LEMMA AdoptedType ==
    ASSUME MissionTypeOK, NEW l \in LessonId, Adopted(l)
    PROVE  /\ draft' \in DraftType
           /\ \/ draft' = draft
              \/ /\ draft.lesson = NoLesson /\ l # NoLesson
                 /\ draft' = [lesson |-> l, mission |-> draft.mission]
           /\ room' \in LessonId \cup {Shut}
           /\ SeatsOK'
<1>1. CASE l = NoLesson
  BY <1>1 DEF Adopted, MissionTypeOK, SeatsOK, SeatsType, DraftType, classroom
<1>2. CASE l # NoLesson
  <2>1. draft' = adoptMissionDraft(l)
    BY <1>2 DEF Adopted
  <2>2. draft' \in DraftType
    BY <2>1 DEF adoptMissionDraft, MissionTypeOK, DraftType
  <2>3. (room' = l /\ seats' = Empty) \/ UNCHANGED classroom
    BY <1>2 DEF Adopted, Opened
  <2>4. SeatsOK' /\ room' \in LessonId \cup {Shut}
    BY <2>3, EmptySeats DEF SeatsOK, SeatsType, classroom, MissionTypeOK, Absent
  <2>5. QED BY <1>2, <2>1, <2>2, <2>4 DEF adoptMissionDraft
<1>3. QED BY <1>1, <1>2

(***************************************************************************)
(* Every step keeps the types.                                             *)
(***************************************************************************)
LEMMA TypeStep == MissionTypeOK /\ [Next]_vars => MissionTypeOK'
<1> SUFFICES ASSUME MissionTypeOK, [Next]_vars PROVE MissionTypeOK'
  OBVIOUS
<1> USE DEF board, classroom, history, Undo, Kept
<1>0. lesson \in LessonId /\ mission \in Plan /\ SeatsOK
  BY MissionType DEF MissionTypeOK, SeatsOK, SeatsType
<1>1. ASSUME NEW p \in Pages, GoTo(p) PROVE MissionTypeOK'
  <2>1. CASE Works(p, LessonSteps)
    BY <1>0, <1>1, <2>1, AdoptedType DEF GoTo, MissionTypeOK, SeatsOK, SeatsType, DraftType
  <2>2. CASE ~Works(p, LessonSteps)
    BY <1>1, <2>2 DEF GoTo, MissionTypeOK
  <2>3. QED BY <2>1, <2>2
<1>2. CASE SetMissionZones
  <2>1. [mission EXCEPT !.zoned = ~mission.zoned] \in Plan
    BY <1>0 DEF Plan
  <2>2. undone' \in 0..MaxUndone
    BY <1>2, MissionAssumption DEF SetMissionZones, MissionTypeOK
  <2>3. QED
    BY <1>2, <2>1, <2>2, WriteType DEF SetMissionZones, MissionTypeOK, SeatsOK, SeatsType, DraftType
<1>3. CASE ChooseScenario
  <2>1. chooseScenario \in Plan
    BY <1>0 DEF Plan, chooseScenario
  <2>2. QED
    BY <1>3, <2>1, WriteType DEF ChooseScenario, MissionTypeOK, SeatsOK, SeatsType, DraftType
<1>4. CASE SetMissionDrones
  <2>1. [mission EXCEPT !.drones = missionCraftIds] \in Plan
    BY <1>0 DEF Plan, missionCraftIds, MissionTypeOK
  <2>2. undone' \in 0..MaxUndone
    BY <1>4 , MissionAssumption DEF SetMissionDrones, MissionTypeOK
  <2>3. QED
    BY <1>4, <2>1, <2>2, WriteType DEF SetMissionDrones, MissionTypeOK, SeatsOK, SeatsType, DraftType
<1>5. CASE TickAllPropellers
  <2>1. missionCraftIds \subseteq Drones /\ readPreFlightSeven(lesson) \subseteq Drones
    BY <1>0 DEF missionCraftIds, readPreFlightSeven, MissionTypeOK, Plan
  <2>2. QED
    BY <1>5, <2>1 DEF TickAllPropellers, Ticked, MissionTypeOK
<1>6. CASE SetUpDemonstration
  <2>1. demonstration \in Plan
    BY DEF Plan, NoPlan, demonstration
  <2>2. undone' \in 0..MaxUndone
    BY <1>6, MissionAssumption DEF SetUpDemonstration, MissionTypeOK
  <2>3. QED
    BY <1>6, <2>1, <2>2, WriteType
       DEF SetUpDemonstration, demoMission, MissionTypeOK, SeatsOK, SeatsType, DraftType, Pages
<1>7. CASE StartLesson
  <2>1. begun + 1 \in LessonId
    BY <1>7, MissionAssumption DEF StartLesson, MissionTypeOK, LessonId
  <2>2. QED
    BY <1>7, <2>1, AdoptedType DEF StartLesson, MissionTypeOK, SeatsOK, SeatsType, DraftType
<1>8. CASE EndLesson
  BY <1>8, MissionAssumption DEF EndLesson, MissionTypeOK, LessonId, NoLesson
<1>9. CASE StartMission
  <2>1. [mission EXCEPT !.started = TRUE] \in Plan
    BY <1>0 DEF Plan
  <2>2. QED
    BY <1>9, <2>1, WriteType DEF StartMission, MissionTypeOK, SeatsOK, SeatsType, DraftType
<1>10. CASE SyncQueue
  BY <1>10, SyncType DEF SyncQueue, writeClearances, MissionTypeOK
<1>11. CASE ConfirmMissionComplete
  <2>1. [mission EXCEPT !.sealed = TRUE] \in Plan
    BY <1>0 DEF Plan
  <2>2. logged' \subseteq 1..MaxLessons
    BY <1>11, MissionAssumption
       DEF ConfirmMissionComplete, putMissionOnLesson, MissionTypeOK, LessonId, NoLesson
  <2>3. QED
    BY <1>11, <2>1, <2>2, WriteType
       DEF ConfirmMissionComplete, MissionTypeOK, SeatsOK, SeatsType, DraftType
<1>12. ASSUME NEW d \in Drones, AssignDroneToTeam(d) PROVE MissionTypeOK'
  <2>1. undone' \in 0..MaxUndone /\ onTeam' \subseteq Drones
    BY <1>12, MissionAssumption DEF AssignDroneToTeam, MissionTypeOK
  <2>2. QED BY <1>12, <2>1 DEF AssignDroneToTeam, MissionTypeOK
<1>13. ASSUME NEW d \in Drones, RemoveTeam(d) PROVE MissionTypeOK'
  BY <1>13, MissionAssumption DEF RemoveTeam, MissionTypeOK
<1>14. ASSUME NEW d \in Drones, TogglePropellersTick(d) PROVE MissionTypeOK'
  <2>1. readPreFlightSeven(lesson) \subseteq Drones
    BY DEF readPreFlightSeven, MissionTypeOK
  <2>2. undone' \in 0..MaxUndone
    BY <1>14, MissionAssumption DEF TogglePropellersTick, MissionTypeOK
  <2>3. QED BY <1>14, <2>1, <2>2 DEF TogglePropellersTick, Ticked, MissionTypeOK
<1>15. ASSUME NEW d \in Drones, Grant(d) PROVE MissionTypeOK'
  <2>1. clearances' \in [lesson : LessonId, of : [Drones -> Answer]]
    BY <1>0, <1>15, SyncType DEF Grant, writeClearances, Answer
  <2>2. craft' \in [Drones -> {"ready", "unready", "up"}]
    BY <1>15 DEF Grant, MissionTypeOK
  <2>3. SeatsOK'
    <3> DEFINE next == [syncClearanceQueue EXCEPT ![d] = "granted"]
               told == UNION {seatsForDrone(e) : e \in grantedNow(answers, next)}
    <3>1. seats' = [s \in Students |->
              IF s \in told THEN [seats[s] EXCEPT !.phase = "cleared"] ELSE seats[s]]
      BY <1>15 DEF Grant
    <3>2. \A e \in Drones : \A s \in seatsForDrone(e) : s \in Students /\ seats[s].drone # NoDrone
      BY <1>0, MissionAssumption DEF seatsForDrone, seatsOn, SeatsOK
    <3>3. \A s \in told : s \in Students /\ seats[s].drone # NoDrone
      BY <3>2 DEF grantedNow
    <3> HIDE DEF told
    <3>4. QED BY <1>0, <3>1, <3>3 DEF SeatsOK, SeatsType, SeatPhase
  <2>4. QED
    BY <1>15, <2>1, <2>2, <2>3 DEF Grant, MissionTypeOK, SeatsOK, SeatsType
<1>16. ASSUME NEW d \in Drones, Hold(d) PROVE MissionTypeOK'
  <2>1. clearances' \in [lesson : LessonId, of : [Drones -> Answer]]
    BY <1>0, <1>16, SyncType DEF Hold, writeClearances, Answer
  <2>2. SeatsOK'
    BY <1>0, <1>16 DEF Hold, SeatsOK, SeatsType, SeatPhase
  <2>3. QED
    BY <1>16, <2>1, <2>2 DEF Hold, MissionTypeOK, SeatsOK, SeatsType
<1>17. ASSUME NEW s \in Students, RequestTakeoff(s) PROVE MissionTypeOK'
  <2>1. SeatsOK'
    BY <1>0, <1>17 DEF RequestTakeoff, SeatsOK, SeatsType, SeatPhase
  <2>2. QED BY <1>17, <2>1 DEF RequestTakeoff, MissionTypeOK, SeatsOK, SeatsType
<1>18. ASSUME NEW s \in Students, FreeDroneSeat(s) PROVE MissionTypeOK'
  <2>1. SeatsOK'
    BY <1>0, <1>18 DEF FreeDroneSeat, freeDroneSeat, Absent, SeatsOK, SeatsType, SeatPhase
  <2>2. undone' \in 0..MaxUndone
    BY <1>18, MissionAssumption DEF FreeDroneSeat, MissionTypeOK
  <2>3. QED BY <1>18, <2>1, <2>2 DEF FreeDroneSeat, MissionTypeOK, SeatsOK, SeatsType
<1>19. ASSUME NEW s \in Students, NEW d \in Drones, TakeDroneSeat(s, d) PROVE MissionTypeOK'
  <2>1. SeatsOK'
    BY <1>0, <1>19, MissionAssumption DEF TakeDroneSeat, SeatsOK, SeatsType, SeatPhase
  <2>2. QED BY <1>19, <2>1 DEF TakeDroneSeat, MissionTypeOK, SeatsOK, SeatsType
<1>20. ASSUME NEW d \in Drones, FleetSays(d) PROVE MissionTypeOK'
  <2>1. undone' \in 0..MaxUndone
    BY <1>20, MissionAssumption DEF FleetSays, MissionTypeOK
  <2>2. QED BY <1>20, <2>1 DEF FleetSays, MissionTypeOK
<1>21. CASE MissionBriefing
  <2>1. brief' \in [lesson : LessonId, said : BOOLEAN]
    BY <1>0, <1>21 DEF MissionBriefing, readMissionBriefing, MissionTypeOK
  <2>2. undone' \in 0..MaxUndone
    BY <1>21, MissionAssumption DEF MissionBriefing, MissionTypeOK
  <2>3. QED BY <1>21, <2>1, <2>2 DEF MissionBriefing, MissionTypeOK
<1>22. CASE UNCHANGED vars
  BY <1>22 DEF vars, MissionTypeOK
<1>23. QED
  BY <1>1, <1>2, <1>3, <1>4, <1>5, <1>6, <1>7, <1>8, <1>9, <1>10, <1>11, <1>12, <1>13,
     <1>14, <1>15, <1>16, <1>17, <1>18, <1>19, <1>20, <1>21, <1>22 DEF Next, Teacher, Others

(***************************************************************************)
(* Every step keeps what ties the keys to the running lesson.  The steps   *)
(* fall into those that touch no key, those that write the draft, those    *)
(* that adopt it, those that tick and those that answer.                   *)
(***************************************************************************)
Ties == Past /\ Unflown /\ TicksHeard /\ GrantsKept /\ SealKept

keys == <<lesson, begun, draft, ticks, clearances, logged, granted, ticked>>

LEMMA Untouched == Ties /\ UNCHANGED keys => Ties'
BY DEF Ties, keys, Past, Unflown, TicksHeard, GrantsKept, SealKept,
       answers, readClearances, mission, readMission

\* A plan put in the draft of the running lesson.
LEMMA Written ==
    ASSUME MissionTypeOK, Ties, NEW plan \in Plan, Write(plan), plan.made,
           lesson = NoLesson => ~plan.started /\ ~plan.sealed,
           plan.sealed => lesson \in logged', logged \subseteq logged',
           UNCHANGED <<lesson, begun, ticks, clearances, granted, ticked>>
    PROVE  Ties'
<1>1. draft' = [lesson |-> lesson, mission |-> plan]
  BY DEF Write
<1>2. Past' /\ Unflown'
  BY <1>1 DEF Ties, Past, Unflown, MissionTypeOK, LessonId, NoLesson
<1>3. TicksHeard'
  BY DEF Ties, TicksHeard
<1>4. GrantsKept'
  BY <1>1 DEF Ties, GrantsKept, answers, readClearances, mission, readMission
<1>5. SealKept'
  BY <1>1 DEF SealKept
<1>6. QED BY <1>2, <1>3, <1>4, <1>5 DEF Ties

\* Answers written for the running lesson, of which d may be a new grant.
LEMMA Answering ==
    ASSUME MissionTypeOK, Ties, NEW next \in [Drones -> Answer], writeClearances(next),
           \A d \in Drones : answers[d] = "granted" => next[d] = "granted",
           granted \subseteq granted',
           \A d \in granted' \ granted :
              d \in ticked /\ next[d] = "granted" /\ mission.made /\ lesson # NoLesson,
           UNCHANGED <<lesson, begun, draft, ticks, logged, ticked>>
    PROVE  Ties'
<1>1. clearances' = [lesson |-> lesson, of |-> next] /\ answers' = next
  BY DEF writeClearances, answers, readClearances
<1>2. Past' /\ Unflown' /\ TicksHeard' /\ SealKept'
  BY <1>1 DEF Ties, Past, Unflown, TicksHeard, SealKept, MissionTypeOK, LessonId, NoLesson
<1>3. mission' = mission
  BY DEF mission, readMission
<1>4. GrantsKept'
  BY <1>1, <1>3 DEF Ties, GrantsKept, MissionTypeOK
<1>5. QED BY <1>2, <1>4 DEF Ties

LEMMA Ticking ==
    ASSUME MissionTypeOK, Ties, NEW of, Ticked(of) PROVE Ties'
BY DEF Ties, Ticked, Past, Unflown, TicksHeard, GrantsKept, SealKept, readPreFlightSeven,
       answers, readClearances, mission, readMission, classroom, MissionTypeOK, LessonId, NoLesson

\* A Mission of no lesson is of no started one: outside a lesson nothing flies.
LEMMA StartedInALesson ==
    MissionTypeOK /\ Ties =>
        /\ mission.started \/ mission.sealed => lesson # NoLesson
        /\ mission.sealed => lesson \in logged
BY DEF Ties, Unflown, SealKept, mission, readMission, NoPlan, MissionTypeOK, Plan

\* Planning is open under a Mission only: before one, no step but the first.
LEMMA MadeToOpen ==
    ASSUME NEW n \in 2..6, isMissionStepOpen(n, missionFlowFacts)
    PROVE  mission.made
BY DEF isMissionStepOpen, missionFlowFacts, noMissionYet, LiveSteps

\* The invariant is kept by every step.
LEMMA TiesStep == MissionTypeOK /\ Ties /\ [Next]_vars => Ties'
<1> SUFFICES ASSUME MissionTypeOK, Ties, [Next]_vars PROVE Ties'
  OBVIOUS
<1> USE DEF board, classroom, history
<1>0. lesson \in LessonId /\ mission \in Plan
  BY MissionType DEF MissionTypeOK
<1>1. ASSUME NEW p \in Pages, GoTo(p) PROVE Ties'
  <2>1. \/ draft' = draft
        \/ /\ draft.lesson = NoLesson /\ lesson # NoLesson
           /\ draft' = [lesson |-> lesson, mission |-> draft.mission]
    BY <1>0, <1>1, AdoptedType DEF GoTo
  <2>2. CASE draft' = draft
    BY <1>1, <2>2, Untouched DEF GoTo, keys
  <2>3. CASE draft.lesson = NoLesson /\ lesson # NoLesson
                /\ draft' = [lesson |-> lesson, mission |-> draft.mission]
    <3>1. granted = {} /\ ~mission.made
      BY <2>3 DEF Ties, GrantsKept, mission, readMission, NoPlan
    <3>2. QED
      BY <1>1, <2>3, <3>1 DEF GoTo, Ties, Past, Unflown, TicksHeard, GrantsKept, SealKept,
         MissionTypeOK, LessonId, NoLesson
  <2>4. QED BY <2>1, <2>2, <2>3
<1>2. CASE ChooseScenario
  <2>1. chooseScenario \in Plan
    BY <1>0 DEF Plan, chooseScenario
  <2>2. QED
    BY <1>0, <1>2, <2>1, Written, StartedInALesson DEF ChooseScenario, chooseScenario, Plan
<1>3. CASE SetMissionDrones
  <2>1. [mission EXCEPT !.drones = missionCraftIds] \in Plan
    BY <1>0 DEF Plan, missionCraftIds, MissionTypeOK
  <2>2. mission.made
    BY <1>3, MadeToOpen DEF SetMissionDrones, Shows, Works
  <2>3. QED
    BY <1>0, <1>3, <2>1, <2>2, Written, StartedInALesson DEF SetMissionDrones, Plan
<1>4. CASE SetUpDemonstration
  <2>1. demonstration \in Plan
    BY DEF Plan, NoPlan, demonstration
  <2>2. QED
    BY <1>0, <1>4, <2>1, Written DEF SetUpDemonstration, demoMission, demonstration, NoPlan
<1>5. CASE StartLesson
  <2>1. begun + 1 \in LessonId /\ begun + 1 # NoLesson
    BY <1>5, MissionAssumption DEF StartLesson, MissionTypeOK, LessonId, NoLesson
  <2>2. \/ draft' = draft
        \/ /\ draft.lesson = NoLesson
           /\ draft' = [lesson |-> begun + 1, mission |-> draft.mission]
    BY <1>5, <2>1, AdoptedType DEF StartLesson
  <2>3. Past' /\ Unflown' /\ TicksHeard'
    BY <1>5, <2>1, <2>2
       DEF StartLesson, Ties, Past, Unflown, TicksHeard, MissionTypeOK, LessonId, NoLesson
  <2>4. GrantsKept' /\ SealKept'
    BY <1>5, <2>2 DEF StartLesson, Ties, Unflown, GrantsKept, SealKept
  <2>5. QED BY <2>3, <2>4 DEF Ties
<1>6. CASE EndLesson
  BY <1>6 DEF EndLesson, Ties, Past, Unflown, TicksHeard, GrantsKept, SealKept
<1>7. CASE StartMission
  <2>1. [mission EXCEPT !.started = TRUE] \in Plan
    BY <1>0 DEF Plan
  <2>2. QED
    BY <1>0, <1>7, <2>1, Written, StartedInALesson DEF StartMission, Plan
<1>8. CASE SyncQueue
  BY <1>8, SyncType, Answering DEF SyncQueue
<1>9. CASE ConfirmMissionComplete
  <2>1. [mission EXCEPT !.sealed = TRUE] \in Plan
    BY <1>0 DEF Plan
  <2>2. lesson # NoLesson
    BY <1>9, StartedInALesson DEF ConfirmMissionComplete, canConfirmMissionComplete, isActiveMission
  <2>3. lesson \in logged' /\ logged \subseteq logged'
    BY <1>9, <2>2 DEF ConfirmMissionComplete, putMissionOnLesson
  <2>4. QED
    BY <1>0, <1>9, <2>1, <2>2, <2>3, Written DEF ConfirmMissionComplete, Shown, Plan
<1>10. ASSUME NEW d \in Drones, Grant(d) PROVE Ties'
  <2> DEFINE next == [syncClearanceQueue EXCEPT ![d] = "granted"]
  <2>1. next \in [Drones -> Answer] /\ next[d] = "granted"
    BY SyncType DEF Answer
  <2>2. \A e \in Drones : answers[e] = "granted" => next[e] = "granted"
    BY SyncType
  <2>3. mission.made /\ lesson # NoLesson /\ d \in readPreFlightSeven(lesson)
    BY <1>10, StartedInALesson
       DEF Grant, Shown, awaitingClearance, shouldAwaitClearance, isActiveMission
  <2>4. d \in ticked
    BY <2>3 DEF readPreFlightSeven, Ties, TicksHeard
  <2>5. /\ writeClearances(next)
        /\ granted' = granted \cup {d}
        /\ UNCHANGED <<lesson, begun, draft, ticks, logged, ticked>>
    BY <1>10 DEF Grant
  <2> HIDE DEF next
  <2>6. QED
    BY <2>1, <2>2, <2>3, <2>4, <2>5, Answering
<1>11. ASSUME NEW d \in Drones, Hold(d) PROVE Ties'
  <2> DEFINE next == [syncClearanceQueue EXCEPT ![d] = "held"]
  <2>1. next \in [Drones -> Answer]
    BY SyncType DEF Answer
  <2>2. \A e \in Drones : answers[e] = "granted" => next[e] = "granted"
    BY <1>11, SyncType DEF Hold, awaitingClearance, shouldAwaitClearance
  <2>3. /\ writeClearances(next)
        /\ UNCHANGED <<lesson, begun, draft, ticks, logged, granted, ticked>>
    BY <1>11 DEF Hold
  <2> HIDE DEF next
  <2>4. QED BY <2>1, <2>2, <2>3, Answering
<1>12. CASE TickAllPropellers
  BY <1>12, Ticking DEF TickAllPropellers
<1>13. ASSUME NEW d \in Drones, TogglePropellersTick(d) PROVE Ties'
  BY <1>13, Ticking DEF TogglePropellersTick
<1>14. CASE \/ MissionBriefing \/ UNCHANGED vars
            \/ \E d \in Drones : AssignDroneToTeam(d) \/ RemoveTeam(d) \/ FleetSays(d)
            \/ \E s \in Students : \/ RequestTakeoff(s) \/ FreeDroneSeat(s)
                                   \/ \E d \in Drones : TakeDroneSeat(s, d)
  <2>1. UNCHANGED keys
    BY <1>14 DEF keys, vars, MissionBriefing, AssignDroneToTeam, RemoveTeam, FleetSays,
       RequestTakeoff, FreeDroneSeat, TakeDroneSeat
  <2>2. QED BY <2>1, Untouched
<1>15. CASE SetMissionZones
  <2>1. [mission EXCEPT !.zoned = ~mission.zoned] \in Plan
    BY <1>0 DEF Plan
  <2>2. mission.made
    BY <1>15, MadeToOpen DEF SetMissionZones, Shows, Works
  <2>3. QED
    BY <1>0, <1>15, <2>1, <2>2, Written, StartedInALesson DEF SetMissionZones, Plan
<1>16. QED
  BY <1>1, <1>2, <1>3, <1>4, <1>5, <1>6, <1>7, <1>8, <1>9, <1>10, <1>11, <1>12, <1>13, <1>14,
     <1>15
     DEF Next, Teacher, Others

LEMMA InitInv == Init => MissionTypeOK /\ Ties
<1> SUFFICES ASSUME Init PROVE MissionTypeOK /\ Ties
  OBVIOUS
<1>1. MissionTypeOK
  BY EmptySeats, MissionAssumption
     DEF Init, MissionTypeOK, LessonId, NoLesson, Plan, NoPlan, Nobody, Answer, SeatsType, Absent, Shut,
     Pages, NoStep
<1>2. Ties
  BY DEF Init, Ties, Past, Unflown, TicksHeard, GrantsKept, SealKept, NoPlan, NoLesson
<1>3. QED BY <1>1, <1>2

\* The invariant of every lesson the board ever runs.
THEOREM LessonsHangTogether == Spec => [](MissionTypeOK /\ Ties)
<1>1. MissionTypeOK /\ Ties /\ [Next]_vars => (MissionTypeOK /\ Ties)'
  BY TypeStep, TiesStep
<1>2. QED BY InitInv, <1>1, PTL DEF Spec

\* Every key of the browser and the room hold what they should, for ever
\* (mission-draft.ts, clearance-store.ts, preflight-seven.ts, classroom-session.ts).
THEOREM MissionTypeCorrect == Spec => []MissionTypeOK
BY LessonsHangTogether, PTL

\* No takeoff is granted on propellers nobody looked at in this lesson, whatever
\* was ticked for a class before it (preflight-seven.ts, readPreFlightSeven).
THEOREM NoGrantUnticked == Spec => []GrantedWasTicked
<1>1. Ties => GrantedWasTicked
  BY DEF Ties, GrantsKept, GrantedWasTicked
<1>2. QED BY <1>1, LessonsHangTogether, PTL

\* A grant is not forgotten by the rail when the draft is written over
\* (mission-flow.ts, isUnderWay).
THEOREM RailNeverFallsBack == Spec => []GrantedIsUnderWay
<1>1. MissionTypeOK /\ Ties => GrantedIsUnderWay
  <2> SUFFICES ASSUME MissionTypeOK, Ties, granted # {}
               PROVE  mission.made /\ currentMissionStep(missionFlowFacts) \in {7, 11, 12}
    BY DEF GrantedIsUnderWay
  <2>1. PICK d \in granted : d \in Drones /\ answers[d] = "granted"
    BY DEF Ties, GrantsKept, MissionTypeOK
  <2>2. mission.made
    BY DEF Ties, GrantsKept
  <2>3. isUnderWay(missionFlowFacts)
    BY <2>1, <2>2 DEF isUnderWay, missionFlowFacts
  <2>4. QED BY <2>2, <2>3 DEF currentMissionStep
<1>2. QED BY <1>1, LessonsHangTogether, PTL

\* Whatever the records say, a step that is locked names earlier work that is still
\* to do: the rail never leaves a Teacher in front of a door without a key
\* (mission-flow.ts, missionStepBlockedBy).
THEOREM NoLockWithoutKey == Spec => []LocksHaveKeys
<1>1. ASSUME NEW f, NEW n \in MissionSteps, ~isMissionStepOpen(n, f)
      PROVE  missionStepBlockedBy(n) < n /\ ~isMissionStepDone(missionStepBlockedBy(n), f)
  <2>1. CASE n \in {2, 3, 4, 5, 6}
    BY <1>1, <2>1 DEF LiveSteps, isMissionStepOpen, isMissionStepDone, missionStepBlockedBy
  <2>2. CASE n \in LiveSteps \cup {11}
    BY <1>1, <2>2 DEF LiveSteps, isMissionStepOpen, isMissionStepDone, missionStepBlockedBy,
       isUnderWay
  <2>3. CASE n = 12
    BY <1>1, <2>3 DEF LiveSteps, isMissionStepOpen, isMissionStepDone, missionStepBlockedBy
  <2>4. QED BY <1>1, <2>1, <2>2, <2>3 DEF MissionSteps, LiveSteps, isMissionStepOpen
<1>2. LocksHaveKeys
  BY <1>1 DEF LocksHaveKeys
<1>3. QED BY <1>2, PTL

(***************************************************************************)
(* What the rail has ticked.  A step leaves the records it reads no        *)
(* poorer: the plan is kept under a Mission that is made, the keys of the  *)
(* lesson only gain.                                                       *)
(***************************************************************************)
Gains ==
    /\ mission'.made
    /\ mission.zoned => mission'.zoned
    /\ mission.sealed => mission'.sealed
    /\ missionCraftIds' = missionCraftIds
    /\ readPreFlightSeven(lesson) \subseteq readPreFlightSeven(lesson)'
    /\ readMissionBriefing(lesson) => readMissionBriefing(lesson)'
    /\ \A d \in Drones : answers[d] = "granted" => answers'[d] = "granted"

LEMMA NothingDoneYet ==
    ASSUME ~mission.made, NEW n \in MissionSteps
    PROVE  missionStepMark(n, missionFlowFacts) # "done"
BY DEF missionStepMark, missionFlowFacts, noMissionYet, isMissionStepDone, LiveSteps, MissionSteps

LEMMA GainsKeepTicks ==
    ASSUME mission.made, Gains, NEW n \in MissionSteps,
           missionStepMark(n, missionFlowFacts) = "done"
    PROVE  missionStepMark(n, missionFlowFacts') = "done"
<1> DEFINE f == missionFlowFacts
           g == missionFlowFacts'
<1>1. /\ g.scenarioChosen
      /\ f.noFlyZoneDrawn => g.noFlyZoneDrawn
      /\ f.teamOnCraft => g.teamOnCraft
      /\ f.preFlightPassed => g.preFlightPassed
      /\ f.briefed => g.briefed
      /\ f.cleared => g.cleared
      /\ f.sealed => g.sealed
      /\ ~f.reviewed
  BY DEF Gains, missionFlowFacts, isPreFlightSevenDone
<1> HIDE DEF f, g
<1>2. missionStepMark(n, f) = "done"
  BY DEF f
<1>3. isMissionStepDone(n, f) /\ ~(n \in LiveSteps /\ isUnderWay(f) /\ ~f.sealed)
  BY <1>2 DEF missionStepMark
<1>4. isMissionStepDone(n, g)
  BY <1>1, <1>3 DEF isMissionStepDone
<1>5. n \in LiveSteps => g.sealed
  BY <1>1, <1>3 DEF isMissionStepDone, LiveSteps
<1>6. missionStepMark(n, g) = "done"
  BY <1>4, <1>5 DEF missionStepMark
<1>7. QED BY <1>6 DEF g

\* What the board calls sealed, the Logbook has as sealed (ControlScreen.tsx).
THEOREM EverySealIsLogged == Spec => []SealedIsLogged
<1>1. MissionTypeOK /\ Ties => SealedIsLogged
  BY StartedInALesson DEF SealedIsLogged
<1>2. QED BY <1>1, LessonsHangTogether, PTL

\* A lesson begins with nothing of the class before it (adoptMissionDraft,
\* readClearances).
THEOREM EveryLessonStartsFresh == Spec => LessonStartsFresh
<1> DEFINE Fresh == lesson' # lesson /\ lesson' # NoLesson =>
                        /\ ~mission'.started /\ ~mission'.sealed
                        /\ answers' = Nobody
<1>1. MissionTypeOK /\ Ties /\ [Next]_vars => [Fresh]_vars
  <2> SUFFICES ASSUME MissionTypeOK, Ties, [Next]_vars, lesson' # lesson, lesson' # NoLesson
               PROVE  /\ ~mission'.started /\ ~mission'.sealed
                      /\ answers' = Nobody
    OBVIOUS
  <2> USE DEF board, classroom, history
  <2>1. StartLesson
    BY DEF Next, Teacher, Others, vars, GoTo, SetMissionZones, MissionBriefing, ChooseScenario, SetMissionDrones,
       TickAllPropellers, Ticked, SetUpDemonstration, EndLesson, StartMission, SyncQueue,
       ConfirmMissionComplete, AssignDroneToTeam, RemoveTeam, TogglePropellersTick, Grant, Hold,
       RequestTakeoff, FreeDroneSeat, TakeDroneSeat, FleetSays
  <2>2. begun + 1 \in LessonId /\ begun + 1 # NoLesson /\ lesson' = begun + 1
    BY <2>1, MissionAssumption DEF StartLesson, MissionTypeOK, LessonId, NoLesson
  <2>3. \/ draft' = draft
        \/ /\ draft.lesson = NoLesson
           /\ draft' = [lesson |-> begun + 1, mission |-> draft.mission]
    BY <2>1, <2>2, AdoptedType DEF StartLesson
  <2>4. ~mission'.started /\ ~mission'.sealed
    BY <2>2, <2>3
       DEF Ties, Past, Unflown, mission, readMission, NoPlan, MissionTypeOK, LessonId
  <2>5. answers' = Nobody
    BY <2>1, <2>2
       DEF StartLesson, Ties, Past, answers, readClearances, MissionTypeOK, LessonId, Nobody
  <2>6. QED BY <2>4, <2>5
<1>2. QED BY <1>1, LessonsHangTogether, PTL DEF Spec, LessonStartsFresh

\* A grant puts up its own Drone only, and no Drone twice (ControlScreen.tsx).
THEOREM EveryGrantFliesOnce == Spec => FliesOncePerGrant
<1> DEFINE Once == \A d \in Drones : craft[d] # "up" /\ craft'[d] = "up" =>
                       d \notin granted /\ granted' = granted \cup {d}
<1>1. MissionTypeOK /\ Ties /\ [Next]_vars => [Once]_vars
  <2> SUFFICES ASSUME MissionTypeOK, Ties, [Next]_vars,
                      NEW d \in Drones, craft[d] # "up", craft'[d] = "up"
               PROVE  d \notin granted /\ granted' = granted \cup {d}
    OBVIOUS
  <2> USE DEF board, classroom, history
  <2>1. PICK e \in Drones : Grant(e)
    BY DEF Next, Teacher, Others, vars, GoTo, SetMissionZones, MissionBriefing, ChooseScenario, SetMissionDrones,
       TickAllPropellers, Ticked, SetUpDemonstration, StartLesson, EndLesson, StartMission, SyncQueue,
       ConfirmMissionComplete, AssignDroneToTeam, RemoveTeam, TogglePropellersTick, Hold,
       RequestTakeoff, FreeDroneSeat, TakeDroneSeat, FleetSays, MissionTypeOK
  <2> DEFINE next == [syncClearanceQueue EXCEPT ![e] = "granted"]
  <2>2. d \in grantedNow(answers, next)
    BY <2>1 DEF Grant, MissionTypeOK
  <2>3. d = e /\ answers[d] # "granted"
    BY <2>2, SyncType DEF grantedNow
  <2>4. d \notin granted
    BY <2>3 DEF Ties, GrantsKept
  <2>5. QED BY <2>1, <2>3, <2>4 DEF Grant
<1>2. QED BY <1>1, LessonsHangTogether, PTL DEF Spec, FliesOncePerGrant

\* In a lesson the rail unticks nothing by itself: only a Teacher who takes something
\* back, or moves a team, has a step to do again (mission-flow.ts, mission-draft.ts).
THEOREM RailKeepsItsTicks == Spec => TicksStay
<1> DEFINE Stay == lesson' = lesson /\ undone' = undone /\ onTeam' = onTeam =>
                       LET facts == missionFlowFacts
                       IN  \A n \in MissionSteps :
                               missionStepMark(n, facts) = "done" =>
                                   missionStepMark(n, facts') = "done"
<1>1. MissionTypeOK /\ Ties /\ [Next]_vars => [Stay]_vars
  <2> SUFFICES ASSUME MissionTypeOK, Ties, [Next]_vars, mission.made,
                      lesson' = lesson, undone' = undone, onTeam' = onTeam
               PROVE  Gains
    BY NothingDoneYet, GainsKeepTicks
  <2> USE DEF board, classroom, history
  <2> DEFINE stay == <<draft, ticks, brief, clearances>>
  <2>0. mission \in Plan /\ lesson \in LessonId /\ undone + 1 # undone
    BY MissionType DEF MissionTypeOK
  <2>1. CASE UNCHANGED stay
    BY <2>1 DEF Gains, mission, readMission, missionCraftIds, readPreFlightSeven,
       readMissionBriefing, answers, readClearances
  <2>2. ASSUME NEW plan \in Plan, Write(plan), plan.made, UNCHANGED <<ticks, brief, clearances>>,
               mission.zoned => plan.zoned, mission.sealed => plan.sealed,
               onTeam = {} => plan.drones = mission.drones
        PROVE  Gains
    <3>1. mission' = plan
      BY <2>2 DEF Write, mission, readMission
    <3>2. QED
      BY <2>2, <3>1 DEF Gains, missionCraftIds, readPreFlightSeven, readMissionBriefing, answers,
         readClearances
  <2>3. ASSUME NEW next \in [Drones -> Answer], writeClearances(next),
               \A d \in Drones : answers[d] = "granted" => next[d] = "granted",
               UNCHANGED <<draft, ticks, brief>>
        PROVE  Gains
    BY <2>3 DEF Gains, writeClearances, mission, readMission, missionCraftIds,
       readPreFlightSeven, readMissionBriefing, answers, readClearances
  <2>4. CASE ChooseScenario
    <3>1. chooseScenario \in Plan
      BY <2>0 DEF Plan, chooseScenario
    <3>2. QED BY <2>0, <2>2, <2>4, <3>1 DEF ChooseScenario, chooseScenario, Plan
  <2>5. CASE SetMissionZones
    <3>1. [mission EXCEPT !.zoned = ~mission.zoned] \in Plan /\ ~mission.zoned
      BY <2>0, <2>5 DEF SetMissionZones, Plan, Undo
    <3>2. QED BY <2>0, <2>2, <2>5, <3>1 DEF SetMissionZones, Plan
  <2>6. CASE SetMissionDrones
    <3>1. [mission EXCEPT !.drones = missionCraftIds] \in Plan
      BY <2>0 DEF Plan, missionCraftIds, MissionTypeOK
    <3>2. onTeam # {}
      BY <2>6 DEF SetMissionDrones, missionCraftIds
    <3>3. QED BY <2>0, <2>2, <2>6, <3>1, <3>2 DEF SetMissionDrones, Plan
  <2>7. CASE StartMission
    <3>1. [mission EXCEPT !.started = TRUE] \in Plan
      BY <2>0 DEF Plan
    <3>2. QED BY <2>0, <2>2, <2>7, <3>1 DEF StartMission, Plan
  <2>8. CASE ConfirmMissionComplete
    <3>1. [mission EXCEPT !.sealed = TRUE] \in Plan
      BY <2>0 DEF Plan
    <3>2. QED BY <2>0, <2>2, <2>8, <3>1 DEF ConfirmMissionComplete, Plan
  <2>9. CASE SyncQueue
    BY <2>3, <2>9, SyncType DEF SyncQueue
  <2>10. ASSUME NEW d \in Drones, Grant(d) PROVE Gains
    <3> DEFINE next == [syncClearanceQueue EXCEPT ![d] = "granted"]
    <3>1. next \in [Drones -> Answer] /\ \A e \in Drones : answers[e] = "granted" => next[e] = "granted"
      BY SyncType DEF Answer
    <3>2. writeClearances(next) /\ UNCHANGED <<draft, ticks, brief>>
      BY <2>10 DEF Grant
    <3> HIDE DEF next
    <3>3. QED BY <2>3, <3>1, <3>2
  <2>11. ASSUME NEW d \in Drones, Hold(d) PROVE Gains
    <3> DEFINE next == [syncClearanceQueue EXCEPT ![d] = "held"]
    <3>1. next \in [Drones -> Answer] /\ \A e \in Drones : answers[e] = "granted" => next[e] = "granted"
      BY <2>11, SyncType DEF Answer, Hold, awaitingClearance, shouldAwaitClearance
    <3>2. writeClearances(next) /\ UNCHANGED <<draft, ticks, brief>>
      BY <2>11 DEF Hold
    <3> HIDE DEF next
    <3>3. QED BY <2>3, <3>1, <3>2
  <2>12. ASSUME NEW of, Ticked(of), readPreFlightSeven(lesson) \subseteq of PROVE Gains
    BY <2>12 DEF Ticked, Gains, mission, readMission, missionCraftIds,
       readPreFlightSeven, readMissionBriefing, answers, readClearances
  <2>13. CASE TickAllPropellers
    BY <2>12, <2>13 DEF TickAllPropellers
  <2>14. ASSUME NEW d \in Drones, TogglePropellersTick(d) PROVE Gains
    BY <2>0, <2>12, <2>14 DEF TogglePropellersTick, Undo
  <2>15. CASE MissionBriefing
    <3>1. ~readMissionBriefing(lesson)
      BY <2>0, <2>15 DEF MissionBriefing, Undo
    <3>2. QED
      BY <2>15, <3>1 DEF MissionBriefing, Gains, mission, readMission, missionCraftIds,
         readPreFlightSeven, readMissionBriefing, answers, readClearances
  <2>16. ASSUME NEW p \in Pages, GoTo(p) PROVE Gains
    <3>1. draft.lesson = lesson
      BY DEF mission, readMission, NoPlan
    <3>2. lesson # NoLesson => adoptMissionDraft(lesson) = draft
      BY <3>1 DEF adoptMissionDraft
    <3>3. draft' = draft
      BY <2>16, <3>2 DEF GoTo, Adopted
    <3>4. QED BY <2>1, <2>16, <3>3 DEF GoTo
  <2>17. ~SetUpDemonstration
    BY <2>0 DEF SetUpDemonstration, Undo
  <2>18. ~StartLesson
    BY DEF StartLesson, MissionTypeOK, LessonId, NoLesson
  <2>19. CASE \/ EndLesson \/ UNCHANGED vars
              \/ \E d \in Drones : AssignDroneToTeam(d) \/ RemoveTeam(d) \/ FleetSays(d)
              \/ \E s \in Students : \/ RequestTakeoff(s) \/ FreeDroneSeat(s)
                                     \/ \E d \in Drones : TakeDroneSeat(s, d)
    BY <2>1, <2>19 DEF vars, EndLesson, AssignDroneToTeam, RemoveTeam, FleetSays,
       RequestTakeoff, FreeDroneSeat, TakeDroneSeat
  <2>20. QED
    BY <2>4, <2>5, <2>6, <2>7, <2>8, <2>9, <2>10, <2>11, <2>13, <2>14, <2>15, <2>16, <2>17, <2>18,
       <2>19 DEF Next, Teacher, Others
<1>2. QED BY <1>1, LessonsHangTogether, PTL DEF Spec, TicksStay
=============================================================================
