--------------------------- MODULE SimulatedFleet ---------------------------
(***************************************************************************)
(* SimulatedTelemetrySource: the Fleet that flies in the browser or in the *)
(* ground station when there is no hardware.  A craft is a record; what    *)
(* the Teacher's Commands, the demonstration keys and the scenario panel   *)
(* do to it are actions, and one Tick is one report interval of every      *)
(* craft.  The room is its east axis in steps a craft flies in one         *)
(* interval, a height is a number of climbs, a charge a number of levels.  *)
(***************************************************************************)
EXTENDS Integers, Sequences, FiniteSets

CONSTANTS
    Drones,        \* the registrations
    CanAutoLand,   \* the airframes that can bring themselves down
    West, East,    \* the walls of the room
    Bench,         \* where each craft stands when the Fleet is built
    Top,           \* the highest hover, in climbs
    Full, Flat,    \* the charge of a full pack, and the one that lands a craft
    Low,           \* below this a Drone on the bench may be plugged in
    Routes,        \* the routes somebody may send a craft on
    Panels         \* sets of what may happen in one lesson: keys, presses, breaks

ASSUME FleetAssumption ==
    /\ West \in Int /\ East \in Int /\ West <= East
    /\ Bench \in [Drones -> West..East]
    /\ Top \in Nat \ {0}
    /\ Full \in Nat /\ Flat \in Nat /\ Low \in Nat /\ Flat < Full
    /\ CanAutoLand \subseteq Drones
    /\ Routes \subseteq Seq(Int)

VARIABLES
    craft,  \* the simulator's Drones
    panel   \* what may happen in this lesson

fleetVars == <<craft, panel>>

Place == West..East
Height == 0..Top
Charge == 0..Full

\* What a craft is: where it is, what it is doing, and what is wrong with it.
Craft == [airborne : BOOLEAN, height : Height, target : Height,
          place : Place, home : Place,
          cut : BOOLEAN, autoLanding : BOOLEAN, returning : BOOLEAN,
          route : Routes \cup {<<>>}, next : Nat,
          linkUp : BOOLEAN, fault : BOOLEAN, charging : BOOLEAN, charge : Charge]

FleetTypeOK == craft \in [Drones -> Craft] /\ panel \in Panels

\* A craft as the Fleet is built: on the bench, level, on the air.
Built(d) == [airborne |-> FALSE, height |-> 0, target |-> 0,
             place |-> Bench[d], home |-> Bench[d],
             cut |-> FALSE, autoLanding |-> FALSE, returning |-> FALSE,
             route |-> <<>>, next |-> 1,
             linkUp |-> TRUE, fault |-> FALSE, charging |-> FALSE, charge |-> Full]

FleetInit == craft = [d \in Drones |-> Built(d)] /\ panel \in Panels

Clamp(p) == IF p < West THEN West ELSE IF p > East THEN East ELSE p

(***************************************************************************)
(* What is asked of one craft.  Each is the method of the same name, as a  *)
(* function of the craft it is called on.                                  *)
(***************************************************************************)
NoRoute(c) == [c EXCEPT !.route = <<>>, !.next = 1]

land(c) ==
    [NoRoute(c) EXCEPT !.airborne = FALSE, !.autoLanding = FALSE,
                       !.returning = FALSE, !.target = 0]

\* Mutant: a held craft finishes its climb.
HoldFinishesTheClimb(c) == IF c.airborne THEN [c EXCEPT !.autoLanding = FALSE] ELSE c

hold(c) ==
    IF c.airborne THEN [c EXCEPT !.autoLanding = FALSE, !.target = c.height] ELSE c

beginAutoLanding(c, able) ==
    IF able /\ c.airborne THEN [c EXCEPT !.autoLanding = TRUE, !.target = 0] ELSE c

triggerEmergencyStop(c) ==
    [NoRoute(c) EXCEPT !.cut = TRUE, !.airborne = FALSE, !.autoLanding = FALSE,
                       !.returning = FALSE, !.target = 0]

\* Mutant: a recalled craft comes down at once.
ReturnComingDown(c) ==
    IF c.airborne /\ ~c.cut
    THEN [c EXCEPT !.returning = TRUE, !.autoLanding = FALSE, !.target = 0] ELSE c

returnHome(c) ==
    IF c.airborne /\ ~c.cut
    THEN [c EXCEPT !.returning = TRUE, !.autoLanding = FALSE, !.target = c.height]
    ELSE c

flyHome(c) == IF c.airborne /\ ~c.cut THEN NoRoute(returnHome(c)) ELSE c

\* Mutant: a cut craft takes off.
TakeOffCutToo(c, hover) ==
    IF c.airborne THEN NoRoute(c)
    ELSE [NoRoute(c) EXCEPT !.home = c.place, !.airborne = TRUE, !.target = hover]

\* takeOff to a hover height: only a craft on the ground gets a home and a hover.
takeOff(c, hover) ==
    IF c.cut THEN c
    ELSE LET ready == [NoRoute(c) EXCEPT !.charging = FALSE, !.returning = FALSE]
         IN IF c.airborne THEN ready
            ELSE [ready EXCEPT !.home = c.place, !.airborne = TRUE, !.target = hover]

flyRoute(c, hover, route) ==
    IF c.cut THEN c ELSE [takeOff(c, hover) EXCEPT !.route = route, !.next = 1]

setAltitude(c, h) ==
    LET at == [c EXCEPT !.height = h, !.target = h, !.airborne = (h > 0)]
    IN IF h > 0 THEN [at EXCEPT !.charging = FALSE]
       ELSE [at EXCEPT !.autoLanding = FALSE, !.returning = FALSE]

plugIn(c) == IF c.airborne THEN c ELSE [c EXCEPT !.charging = TRUE]

\* resetClassroom parks the craft at its home: the bench, or where it last took off.
resetClassroom(c) ==
    [NoRoute(c) EXCEPT !.charge = Full, !.airborne = FALSE, !.fault = FALSE,
                       !.linkUp = TRUE, !.charging = FALSE, !.place = c.home,
                       !.height = 0, !.target = 0, !.cut = FALSE,
                       !.autoLanding = FALSE, !.returning = FALSE]

(***************************************************************************)
(* One report interval of one craft.  A draw is what Math.random decides   *)
(* in it: the roll of #wander, whether the charge moves a level, and the   *)
(* drift of a craft that hovers (the last two in the lessons long enough   *)
(* for them to show).                                                      *)
(***************************************************************************)
\* The thresholds of #wander, in order: a roll under one is under the later ones.
LinkRoll == 0
FaultRoll == 1
PlugRoll == 2
QuietRoll == 3
Draws == [roll : IF "spontaneous" \in panel THEN LinkRoll..QuietRoll ELSE {QuietRoll},
          moves : IF "drain" \in panel THEN BOOLEAN ELSE {FALSE},
          drift : IF "drift" \in panel THEN {-1, 0, 1} ELSE {0}]

wander(c, roll) ==
    IF ~c.linkUp THEN [c EXCEPT !.linkUp = (roll <= PlugRoll)]
    ELSE [c EXCEPT
            !.linkUp = (roll > LinkRoll),
            !.fault = c.fault \/ (roll = FaultRoll /\ c.airborne),
            !.charging = \/ c.charging
                         \/ ~c.airborne /\ c.charge < Low /\ roll <= PlugRoll]

\* Charge in on the bench, charge out anywhere else; a flat battery lands the craft.
charged(c, moves) ==
    IF c.charging /\ ~c.airborne
    THEN LET level == IF moves /\ c.charge < Full THEN c.charge + 1 ELSE c.charge
         IN [c EXCEPT !.charge = level, !.charging = (level < Full)]
    ELSE LET level == IF moves /\ c.charge > 0 THEN c.charge - 1 ELSE c.charge
             drained == [c EXCEPT !.charge = level]
         IN IF c.airborne /\ level <= Flat THEN land(drained) ELSE drained

Toward(from, to) == IF to > from THEN 1 ELSE IF to < from THEN -1 ELSE 0

\* Mutant: a recalled craft that is down goes on being recalled.
ClimbedStillReturning(c) ==
    LET target == IF c.cut \/ c.autoLanding THEN 0 ELSE c.target
        height == c.height + Toward(c.height, target)
    IN [c EXCEPT !.target = target, !.height = height,
                 !.autoLanding = c.autoLanding /\ height > 0]

\* The height after one interval: a cut craft falls five times as fast as it climbs.
Climbed(c) ==
    LET target == IF c.cut \/ c.autoLanding THEN 0 ELSE c.target
        rate == IF c.cut THEN 5 ELSE 1
        height == IF target > c.height
                  THEN IF c.height + rate < target THEN c.height + rate ELSE target
                  ELSE IF c.height - rate > target THEN c.height - rate ELSE target
        settled == height = 0 /\ target = 0
        down == c.returning /\ height = 0
    IN [c EXCEPT !.target = target, !.height = height,
                 !.autoLanding = c.autoLanding /\ ~settled,
                 !.returning = c.returning /\ ~down,
                 !.airborne = c.airborne /\ ~down]

\* Where it goes: home, the next point of its route, or wherever it drifts.
fly(before, drift) ==
    LET c == Climbed(before)
        hasPoint == c.next <= Len(c.route)
    IN CASE c.airborne /\ c.returning ->
              [c EXCEPT !.place = Clamp(@ + Toward(@, c.home)),
                        !.target = IF c.place = c.home THEN 0 ELSE @]
         [] c.airborne /\ ~c.returning /\ hasPoint ->
              IF c.place = c.route[c.next] THEN [c EXCEPT !.next = @ + 1]
              ELSE [c EXCEPT !.place = Clamp(@ + Toward(@, c.route[c.next]))]
         [] c.airborne /\ ~c.returning /\ ~hasPoint /\ c.route # <<>> -> c
         [] c.airborne /\ ~c.returning /\ c.route = <<>> ->
              [c EXCEPT !.place = Clamp(@ + drift)]
         [] ~c.airborne /\ c.height = 0 -> [c EXCEPT !.place = c.home]
         [] OTHER -> c

Interval(c, draw) ==
    LET w == IF "spontaneous" \in panel THEN wander(c, draw.roll) ELSE c
    IN IF w.linkUp THEN fly(charged(w, draw.moves), draw.drift) ELSE w

Tick == \E draw \in [Drones -> Draws] :
            craft' = [d \in Drones |-> Interval(craft[d], draw[d])] /\ panel' = panel

\* What a craft on the air says about itself: #emit.
Reading(c) == [airborne |-> c.airborne, place |-> c.place,
               cut |-> c.cut, landing |-> c.autoLanding, fault |-> c.fault,
               flat |-> c.charge < Low]

(***************************************************************************)
(* Actions.  Becomes is one method called on one craft from outside.       *)
(***************************************************************************)
Becomes(d, c) == craft' = [craft EXCEPT ![d] = c] /\ panel' = panel

CommandKind == {"land", "hold", "auto-land", "emergency-stop", "return-home"}

\* command(): what each kind of Command asks of the craft.
Commanded(d, kind) ==
    LET c == craft[d] IN
    CASE kind = "land" -> land(c)
      [] kind = "hold" -> hold(c)
      [] kind = "auto-land" -> beginAutoLanding(c, d \in CanAutoLand)
      [] kind = "emergency-stop" -> triggerEmergencyStop(c)
      [] kind = "return-home" -> returnHome(c)

Offered(key) == key \in panel

TakeOff(d) == Offered("take off")
              /\ \E hover \in 1..Top : Becomes(d, takeOff(craft[d], hover))
FlyRoute(d) == Offered("route") /\ \E hover \in 1..Top, r \in Routes :
                                      Becomes(d, flyRoute(craft[d], hover, r))
FlyHome(d) == Offered("fly home") /\ Becomes(d, flyHome(craft[d]))
BeginAutoLanding(d) == Offered("auto-land")
                       /\ Becomes(d, beginAutoLanding(craft[d], d \in CanAutoLand))
ReleaseStop(d) == Offered("release") /\ Becomes(d, [craft[d] EXCEPT !.cut = FALSE])
InjectFault(d) == Offered("fault") /\ Becomes(d, [craft[d] EXCEPT !.fault = TRUE])
ClearFault(d) == Offered("clear fault") /\ Becomes(d, [craft[d] EXCEPT !.fault = FALSE])
LoseLink(d) == Offered("drop link") /\ Becomes(d, [craft[d] EXCEPT !.linkUp = FALSE])
RestoreLink(d) == Offered("restore link") /\ Becomes(d, [craft[d] EXCEPT !.linkUp = TRUE])
SetBattery(d) == Offered("flatten") /\ Becomes(d, [craft[d] EXCEPT !.charge = Flat + 1])
PlugIn(d) == Offered("plug in") /\ Becomes(d, plugIn(craft[d]))
Unplug(d) == Offered("unplug") /\ Becomes(d, [craft[d] EXCEPT !.charging = FALSE])
\* Put somewhere: by place, or next to another Drone (placeNear).
SetPosition(d) == Offered("carry") /\ \E p \in Place : Becomes(d, [craft[d] EXCEPT !.place = p])
SetAltitude(d) == Offered("altitude") /\ \E h \in Height : Becomes(d, setAltitude(craft[d], h))
ResetClassroom == Offered("reset")
                  /\ craft' = [d \in Drones |-> resetClassroom(craft[d])]
                  /\ panel' = panel

\* Everything the demonstration can do to the Fleet.
Demonstrate ==
    \/ ResetClassroom
    \/ \E d \in Drones :
        \/ TakeOff(d) \/ FlyRoute(d) \/ FlyHome(d) \/ BeginAutoLanding(d) \/ ReleaseStop(d)
        \/ InjectFault(d) \/ ClearFault(d) \/ LoseLink(d) \/ RestoreLink(d)
        \/ SetBattery(d) \/ PlugIn(d) \/ Unplug(d)
        \/ SetPosition(d) \/ SetAltitude(d)
=============================================================================
