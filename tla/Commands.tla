------------------------------ MODULE Commands ------------------------------
(***************************************************************************)
(* What the Teacher asks of the Fleet from the board, and what comes of    *)
(* it: CommandTracker, the socket a Command goes down, GroundStation's     *)
(* answer, the Telemetry that follows, the vitals derived from it, and the *)
(* Alerts the Teacher takes off the Attention queue.                       *)
(***************************************************************************)
EXTENDS SimulatedFleet

CONSTANTS
    NoFly,         \* the places of the Mission's No-fly Zone
    Window,        \* RESPONSE_WINDOW_MS, in seconds of the board's clock
    StaleAfter,    \* seconds without contact before no-response is raised
    OfflineAfter,  \* intervals without contact before the station says Offline
    MaxPresses,    \* Commands the Teacher sends: bound
    MaxBreaks,     \* times the socket breaks: bound
    MaxWire        \* messages in flight to the board: bound

ASSUME BoardAssumption ==
    /\ NoFly \subseteq Int
    /\ Window \in Nat /\ StaleAfter \in Nat /\ OfflineAfter \in Nat \ {0}
    /\ MaxPresses \in Nat /\ MaxBreaks \in Nat /\ MaxWire \in Nat \ {0}

VARIABLES
    source,    \* what the station is connected to
    station,   \* the station's record of each Drone
    connected, \* whether the board's socket is open
    up, down,  \* the socket, towards the station and towards the board
    board,     \* the Fleet State on screen, Unknown before the first
    tracker,   \* CommandTracker's latest Command for each Drone
    parked,    \* HomePointTracker: where each Drone was last seen on the ground
    homePoint, \* ... and where the board says a Recall would take it
    taken,     \* AcknowledgementTracker: the severity each Alert was taken at
    presses, breaks,
    lid        \* how high each Drone may be since its last Command (history)

wire == <<connected, up, down, breaks>>
homes == <<parked, homePoint>>
tracked == <<tracker, taken, homes>>
vars == <<fleetVars, source, station, wire, board, tracked, presses, lid>>

None == [kind |-> "none"]
NoPoint == West - 1
Unknown == <<>>

(***************************************************************************)
(* Vitals.  A row of the board is a reading, the way its height has gone   *)
(* over AltitudeTracker's window, whether the station says Offline, and how  *)
(* long ago contact was.  Moving is climbing, descending, or no rate yet.  *)
(***************************************************************************)
Readings == [airborne : BOOLEAN, place : Place, cut : BOOLEAN, landing : BOOLEAN,
             fault : BOOLEAN, flat : BOOLEAN]
Trend == {"moving", "level"}
Row == [reading : Readings, trend : Trend, offline : BOOLEAN, age : 0..StaleAfter + 1]

flightPhase(row) ==
    CASE row.reading.cut -> "emergency"
      [] ~row.reading.cut /\ row.offline -> "no-contact"
      [] ~row.reading.cut /\ ~row.offline /\ row.reading.landing -> "auto-landing"
      [] OTHER -> IF row.reading.airborne THEN row.trend ELSE "on-ground"

\* The conditions of the Fleet itself, and the one only a Mission can raise.
FleetAlert == {"emergency-stop", "fault", "no-response", "battery-low"}
AlertKind == FleetAlert \cup {"no-fly"}
Severity == {"critical", "warning", "info"}

Raised(row, kind) ==
    CASE kind = "emergency-stop" -> row.reading.cut
      [] kind = "fault" -> row.reading.fault
      [] kind = "no-response" -> row.age > StaleAfter
      [] kind = "battery-low" -> ~row.reading.airborne /\ row.reading.flat
      [] kind = "no-fly" -> row.reading.airborne /\ row.reading.place \in NoFly

severityOf(row, kind) ==
    CASE kind = "battery-low" -> "info"
      [] kind = "no-response" -> IF row.reading.airborne THEN "critical" ELSE "warning"
      [] OTHER -> "critical"

SeverityOrder(s) == CASE s = "critical" -> 0 [] s = "warning" -> 1 [] s = "info" -> 2

isTaken(d, row, kind) ==
    /\ taken[d][kind] # "none"
    /\ SeverityOrder(severityOf(row, kind)) >= SeverityOrder(taken[d][kind])

alertQueue == IF board = Unknown THEN {}
              ELSE {e \in Drones \X AlertKind :
                        Raised(board[e[1]], e[2]) /\ ~isTaken(e[1], board[e[1]], e[2])}

(***************************************************************************)
(* The trackers, read against a Fleet on screen.                           *)
(***************************************************************************)
Stage == {"sent", "waiting", "done", "refused", "no-response"}
Outstanding == {"sent", "waiting"}

satisfied(kind, row) ==
    CASE kind \in {"land", "auto-land", "return-home"} -> ~row.reading.airborne
      [] kind = "emergency-stop" -> flightPhase(row) = "emergency"
      [] kind = "hold" -> ~row.reading.airborne \/ flightPhase(row) = "level"

\* Mutant: a Command nothing came of is waited for.
ObservedForEver(t, row) ==
    IF t = None \/ t.stage \in {"refused", "done"} \/ ~satisfied(t.kind, row) THEN t
    ELSE IF t.kind = "emergency-stop" THEN None ELSE [t EXCEPT !.stage = "done"]

Observed(t, row) ==
    IF t = None \/ t.stage \in {"refused", "done"} THEN t
    ELSE IF satisfied(t.kind, row)
         THEN IF t.kind = "emergency-stop" THEN None ELSE [t EXCEPT !.stage = "done"]
    ELSE IF t.age > Window THEN [t EXCEPT !.stage = "no-response"] ELSE t

\* Mutant: what was taken stays taken.
RememberedForEver(of, row) == of

\* AcknowledgementTracker.observe: what the Fleet no longer raises is forgotten.
Remembered(of, row) ==
    [kind \in AlertKind |-> IF kind \in FleetAlert /\ Raised(row, kind) THEN of[kind] ELSE "none"]

\* The effects that run when the Fleet on screen, or the clock, changes.
Effects(shown, now) ==
    /\ tracker' = [d \in Drones |-> Observed(now[d], shown[d])]
    /\ taken' = [d \in Drones |-> Remembered(taken[d], shown[d])]

\* HomePointTracker.observe: grounded frames keep the parked spot fresh, and the
\* first frame off the ground makes it the home.
Homing(shown, spot, home, wasAirborne) ==
    /\ parked' = [d \in Drones |-> IF shown[d].reading.airborne THEN spot[d]
                                  ELSE shown[d].reading.place]
    /\ homePoint' = [d \in Drones |->
         IF ~shown[d].reading.airborne \/ wasAirborne[d] THEN home[d]
         ELSE IF spot[d] # NoPoint THEN spot[d] ELSE shown[d].reading.place]

(***************************************************************************)
(* The station.                                                            *)
(***************************************************************************)
Snapshot(records) == [type |-> "state", records |-> records]
Outcome(id, how) == [type |-> "outcome", id |-> id, how |-> how]

\* What the station knows after an interval: a reading, or a silence one longer.
Recorded == [d \in Drones |->
               IF craft'[d].linkUp THEN [reading |-> Reading(craft'[d]), silent |-> 0]
               ELSE [station[d] EXCEPT !.silent = IF @ < OfflineAfter THEN @ + 1 ELSE @]]

Init ==
    /\ FleetInit
    /\ source \in {"simulator", "hardware"}
    /\ station = [d \in Drones |-> [reading |-> Reading(Built(d)), silent |-> 0]]
    /\ connected = FALSE /\ up = <<>> /\ down = <<>> /\ board = Unknown
    /\ tracker = [d \in Drones |-> None]
    /\ taken = [d \in Drones |-> [kind \in AlertKind |-> "none"]]
    /\ parked = [d \in Drones |-> NoPoint] /\ homePoint = parked
    /\ presses = 0 /\ breaks = 0
    /\ lid = [d \in Drones |-> Top]

\* One interval of the Fleet: every craft moves, the station records and publishes.
Report ==
    /\ Len(down) < MaxWire
    /\ Tick
    /\ station' = Recorded
    /\ down' = IF connected THEN Append(down, Snapshot(station')) ELSE down
    /\ UNCHANGED <<source, connected, up, breaks, board, tracked, presses, lid>>

isCommandable == source = "simulator"

\* A Command reaches the station: a simulator carries it, hardware refuses.
Carry ==
    /\ up # <<>> /\ Len(down) < MaxWire
    /\ LET m == Head(up) IN
       /\ up' = Tail(up)
       /\ IF isCommandable
          THEN /\ Becomes(m.drone, Commanded(m.drone, m.kind))
               /\ lid' = [lid EXCEPT ![m.drone] = craft[m.drone].height]
               /\ down' = Append(down, Outcome(m.id, "accepted"))
          ELSE /\ UNCHANGED <<fleetVars, lid>>
               /\ down' = Append(down, Outcome(m.id, "refused"))
    /\ UNCHANGED <<source, station, connected, breaks, board, tracked, presses>>

\* A scenario key: what it does may take a Drone higher than its last Command left it.
Scenario ==
    /\ source = "simulator"
    /\ Demonstrate
    /\ lid' = [d \in Drones |-> IF craft'[d].target > craft[d].target
                                   \/ craft'[d].height > craft[d].height THEN Top ELSE lid[d]]
    /\ UNCHANGED <<source, station, wire, board, tracked, presses>>

(***************************************************************************)
(* The socket and the board.                                               *)
(***************************************************************************)
Connect ==
    /\ ~connected
    /\ connected' = TRUE /\ up' = <<>> /\ down' = <<Snapshot(station)>>
    /\ UNCHANGED <<fleetVars, source, station, breaks, board, tracked, presses, lid>>

Break ==
    /\ Offered("break") /\ connected /\ breaks < MaxBreaks
    /\ connected' = FALSE /\ up' = <<>> /\ down' = <<>> /\ breaks' = breaks + 1
    /\ UNCHANGED <<fleetVars, source, station, board, tracked, presses, lid>>

HearState ==
    /\ down # <<>> /\ Head(down).type = "state"
    /\ \E trend \in [Drones -> Trend] :
         /\ board' = [d \in Drones |->
                        LET r == Head(down).records[d] IN
                        [reading |-> r.reading,
                         trend |-> IF r.reading.airborne THEN trend[d] ELSE "level",
                         offline |-> r.silent >= OfflineAfter,
                         age |-> IF r.silent > StaleAfter THEN StaleAfter + 1 ELSE r.silent]]
         /\ Effects(board', tracker)
         /\ Homing(board', parked, homePoint,
                   [d \in Drones |-> board # Unknown /\ board[d].reading.airborne])
    /\ down' = Tail(down)
    /\ UNCHANGED <<fleetVars, source, station, connected, up, breaks, presses, lid>>

\* CommandTracker.record: the Command of that id, whatever its stage was.
HearOutcome ==
    /\ down # <<>> /\ Head(down).type = "outcome"
    /\ tracker' = [d \in Drones |->
                     IF tracker[d] # None /\ tracker[d].id = Head(down).id
                     THEN [tracker[d] EXCEPT !.stage =
                             IF Head(down).how = "refused" THEN "refused" ELSE "waiting"]
                     ELSE tracker[d]]
    /\ down' = Tail(down)
    /\ UNCHANGED <<fleetVars, source, station, connected, up, breaks, board, taken, homes, presses, lid>>

\* A second of the board's clock: ages count up, and both trackers look again.
Second ==
    /\ board # Unknown
    /\ board' = [d \in Drones |-> [board[d] EXCEPT !.age = IF @ > StaleAfter THEN @ ELSE @ + 1]]
    /\ Effects(board', [d \in Drones |->
                          IF tracker[d] = None \/ tracker[d].age > Window THEN tracker[d]
                          ELSE [tracker[d] EXCEPT !.age = @ + 1]])
    /\ UNCHANGED <<fleetVars, source, station, wire, homes, presses, lid>>

\* The kinds the strips offer: auto-land is a key of the station's only.
BoardKind == CommandKind \ {"auto-land"}

\* The Teacher presses a Command of a strip: recorded as sent, and sent if it can be.
Press(d, kind) ==
    /\ Offered(kind) /\ board # Unknown /\ presses < MaxPresses
    /\ board[d].reading.airborne \/ kind = "emergency-stop"
    /\ presses' = presses + 1
    /\ tracker' = [tracker EXCEPT ![d] =
                     [kind |-> kind, id |-> presses', stage |-> "sent", age |-> 0]]
    /\ up' = IF connected THEN Append(up, [drone |-> d, kind |-> kind, id |-> presses']) ELSE up
    /\ UNCHANGED <<fleetVars, source, station, connected, down, breaks, board, taken, homes, lid>>

\* "I have this" on an entry of the Attention queue.
Take ==
    /\ Offered("take")
    /\ \E e \in alertQueue :
         taken' = [taken EXCEPT ![e[1]][e[2]] = severityOf(board[e[1]], e[2])]
    /\ UNCHANGED <<fleetVars, source, station, wire, board, tracker, homes, presses, lid>>

\* Away from /control and back: the screen's own trackers start again.
Reopen ==
    /\ Offered("reopen") /\ board # Unknown
    /\ Homing(board, [d \in Drones |-> NoPoint], [d \in Drones |-> NoPoint],
              [d \in Drones |-> FALSE])
    /\ UNCHANGED <<fleetVars, source, station, wire, board, tracker, taken, presses, lid>>

Next ==
    \/ Report \/ Carry \/ Scenario \/ Connect \/ Break
    \/ HearState \/ HearOutcome \/ Second \/ Take \/ Reopen
    \/ \E d \in Drones, kind \in BoardKind : Press(d, kind)

Fairness == /\ WF_vars(Report) /\ WF_vars(Carry) /\ WF_vars(Connect)
            /\ WF_vars(HearState) /\ WF_vars(HearOutcome) /\ WF_vars(Second)

Spec == Init /\ [][Next]_vars /\ Fairness

(***************************************************************************)
(* Properties.                                                             *)
(***************************************************************************)
CommandsTypeOK ==
    /\ FleetTypeOK
    /\ source \in {"simulator", "hardware"} /\ connected \in BOOLEAN
    /\ station \in [Drones -> [reading : Readings, silent : 0..OfflineAfter]]
    /\ board = Unknown \/ board \in [Drones -> Row]
    /\ \A d \in Drones : tracker[d] # None => tracker[d].stage \in Stage
    /\ taken \in [Drones -> [AlertKind -> Severity \cup {"none"}]]
    /\ parked \in [Drones -> Place \cup {NoPoint}] /\ homePoint \in [Drones -> Place \cup {NoPoint}]
    /\ presses \in 0..MaxPresses /\ breaks \in 0..MaxBreaks
    /\ lid \in [Drones -> Height]

\* No Command takes a Drone higher than it was when the Fleet carried it, not
\* even one already on its way up, until somebody takes it up again: "None of
\* them takes off, climbs, goes faster, or picks a new destination" (command()).
NeverHigherAfterCommand == \A d \in Drones : craft[d].height <= lid[d]

\* A Drone whose motors were cut is never flown again before it is released,
\* by any Command, key or answered request, except by the altitude slider.
CutStaysDown ==
    "altitude" \notin panel => \A d \in Drones : craft[d].cut => ~craft[d].airborne

\* Keys that put a Drone where no flight would.
ByHand == {"altitude", "carry"}

\* A recalled Drone crosses the room at its height: what brings it down away
\* from its home is a cut, a flat battery, or the station's auto-land key, and
\* never "into the room it is trying to cross" (returnHome).
RecalledDescendsAtHome ==
    [][panel \cap ByHand = {} =>
         \A d \in Drones :
           craft[d].returning /\ craft[d]'.returning /\ craft[d]'.height < craft[d].height
             => craft[d].place = craft[d].home \/ craft[d].autoLanding]_vars

\* An Alert that was taken has been raised without a break since: one that
\* clears and comes back is asked about again (AcknowledgementTracker.observe).
TakenIsStillRaised ==
    \A d \in Drones, kind \in AlertKind :
        taken[d][kind] # "none" => board # Unknown /\ Raised(board[d], kind)

\* A strip never goes on saying sent or waiting: the Fleet's answer, its
\* Telemetry or the ten seconds of the window settle every Command.
CommandSettles ==
    \A d \in Drones : (tracker[d] # None /\ tracker[d].stage \in Outstanding)
                        ~> (tracker[d] = None \/ tracker[d].stage \notin Outstanding)

\* A recalled Drone that keeps its link comes down; asked to fly home over and
\* over, each time with its height held again, it need not.
RecallEnds ==
    "fly home" \notin panel =>
        \A d \in Drones : craft[d].returning ~> (~craft[d].returning \/ ~craft[d].linkUp)
=============================================================================
