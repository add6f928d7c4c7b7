----------------------------- MODULE FleetBoard -----------------------------
(***************************************************************************)
(* A board reading the ground station over one WebSocket                   *)
(* (ground-station/src/server.ts, web/lib/fleet-connection.ts): a snapshot *)
(* and the past on connecting, every publication after that, and a retry   *)
(* whenever the socket closes.  The stream keeps its order and loses what  *)
(* was in flight when it breaks.  The wait before a retry is any time.     *)
(***************************************************************************)
EXTENDS FleetStation

CONSTANTS
  MaxRetained,  \* MAX_RETAINED_EVENTS
  MaxWire,      \* bound: the station moves on only while this few messages are in flight
  MaxDrops,     \* bound: sockets that break or are refused
  NoState,      \* snapshot.state: null
  NoHistory     \* snapshot.history: undefined

ASSUME BoardAssumption ==
  MaxRetained \in Nat \ {0} /\ MaxWire \in Nat /\ MaxDrops \in Nat

VARIABLES
  socket,      \* "closed" | "opening" | "served"
  wire,        \* what the station has sent down it and the board has not handled
  connection,  \* snapshot.connection
  state,       \* snapshot.state, the last Fleet State received
  history,     \* snapshot.history, or NoHistory
  drops        \* for the bound

board == <<socket, wire, connection, state, history, drops>>
vars == <<station, board>>

FleetStates == [at : Nat, drones : [Drone -> DroneState]]
Histories == [events : Seq(Event), since : Nat]
ASSUME HistoryAssumption == NoHistory \notin Histories /\ NoState \notin FleetStates

Message ==
  [type : {"open"}] \cup [type : {"fleet-state"}, state : FleetStates]
    \cup [type : {"fleet-history"}, history : Histories]
    \cup [type : {"fleet-events"}, events : Seq(Event)]

TypeOK ==
  /\ now \in Nat
  /\ telemetry \in [Drone -> Telemetry \cup {NoReading}]
  /\ lastContact \in [Drone -> Nat \cup {Never}]
  /\ lastPublished \in [Drone -> DroneState]
  /\ events \in Seq(Event)
  /\ batteries \in [Drone -> Seq(Nat)]
  /\ openedAt \in Nat /\ trimmedBefore \in Nat /\ restarts \in Nat
  /\ socket \in {"closed", "opening", "served"}
  /\ wire \in Seq(Message)
  /\ connection \in {"connecting", "live", "unreachable"}
  /\ state \in FleetStates \cup {NoState}
  /\ history \in Histories \cup {NoHistory}
  /\ drops \in Nat

BoardInit ==
  /\ Init
  /\ socket = "opening"
  /\ wire = <<>>
  /\ connection = "connecting"
  /\ state = NoState
  /\ history = NoHistory
  /\ drops = 0

-----------------------------------------------------------------------------
(* The server's end. *)

StateMessage(fleet) == [type |-> "fleet-state", state |-> fleet]
HistoryMessage == [type |-> "fleet-history", history |-> [events |-> events, since |-> Since]]

\* Snapshot first, then the past; then it is subscribed.
Connect ==
  /\ socket = "opening"
  /\ socket' = "served"
  /\ wire' = <<[type |-> "open"], StateMessage(fleetState), HistoryMessage>>
  /\ UNCHANGED <<station, connection, state, history, drops>>

\* A publication of the station, sent to a board that is served: the recorder was
\* subscribed first, so the events go out before the state that shows them.
Sent(step) ==
  LET fresh == Fresh(lastPublished')
      said == IF fresh = <<>> THEN <<>> ELSE <<[type |-> "fleet-events", events |-> fresh]>>
  IN  /\ Len(wire) <= MaxWire
      /\ step
      /\ wire' = IF socket = "served"
                 THEN wire \o Append(said, StateMessage([at |-> now, drones |-> lastPublished']))
                 ELSE wire
      /\ UNCHANGED <<socket, connection, state, history, drops>>

\* Bound: the clock's unit is fine enough that a Drone is heard once in it at most.
Observe ==
  \E d \in Drone, reading \in Reading :
    lastContact[d] # now /\ Sent(Observation(d, reading))
Recheck == Sent(Tick)
Wait == Len(wire) <= MaxWire /\ Advance /\ UNCHANGED board

-----------------------------------------------------------------------------
(* The board's end. *)

Id(e) == <<e.droneId, e.at, e.kind>>

\* Oldest first, and in the order they came where the times agree.
ByTime(list) ==
  LET Before(j, k) == list[j].at < list[k].at \/ (list[j].at = list[k].at /\ j < k)
  IN  [i \in DOMAIN list |->
         list[CHOOSE k \in DOMAIN list :
                Cardinality({j \in DOMAIN list : Before(j, k)}) = i - 1]]

\* Mutant: a batch replaces what was held.
EventsOfThisBatch(held, incoming) ==
  [events |-> incoming, since |-> IF held = NoHistory THEN incoming[1].at ELSE held.since]

\* The first of each Id, in the order they came.
ById(list) ==
  LET firsts == InOrder({i \in DOMAIN list : \A k \in 1 .. i - 1 : Id(list[k]) # Id(list[i])})
  IN  [i \in DOMAIN firsts |-> list[firsts[i]]]

mergeEvents(held, incoming) ==
  LET base == IF held = NoHistory THEN [events |-> <<>>, since |-> incoming[1].at] ELSE held
      all == ByTime(ById(base.events \o incoming))
  IN  [base EXCEPT !.events = Trim(all, MaxRetained).kept]

Handle(message) ==
  /\ connection' = IF message.type = "fleet-events" THEN connection ELSE "live"
  /\ state' = IF message.type = "fleet-state" THEN message.state ELSE state
  /\ history' = IF message.type = "fleet-history" THEN message.history
                ELSE IF message.type = "fleet-events" THEN mergeEvents(history, message.events)
                ELSE history

Deliver ==
  /\ wire # <<>>
  /\ Handle(Head(wire))
  /\ wire' = Tail(wire)
  /\ UNCHANGED <<station, socket, drops>>

\* onClose: what was in flight is gone, what was shown is kept, a retry is due.
Close ==
  /\ connection' = "unreachable"
  /\ socket' = "closed"
  /\ wire' = <<>>
  /\ UNCHANGED <<state, history>>

\* The room's Wi-Fi drops, or nothing answers at that address.
Drop ==
  /\ socket # "closed"
  /\ drops < MaxDrops
  /\ drops' = drops + 1
  /\ Close
  /\ UNCHANGED station

scheduleRetry ==
  /\ socket = "closed"
  /\ socket' = "opening"
  /\ UNCHANGED <<station, wire, connection, state, history, drops>>

\* The laptop's process restarts, and takes every socket with it.
StationRestarts ==
  /\ Restart
  /\ IF socket = "closed" THEN UNCHANGED <<socket, wire, connection, state, history>> ELSE Close
  /\ UNCHANGED drops

Next ==
  \/ Connect
  \/ Observe
  \/ Recheck
  \/ Wait
  \/ Deliver
  \/ Drop
  \/ scheduleRetry
  \/ StationRestarts

Spec == BoardInit /\ [][Next]_vars

\* Timers fire and messages arrive: the re-check each second, the retry, the stream.
Fairness ==
  /\ WF_vars(Connect) /\ WF_vars(Deliver) /\ WF_vars(scheduleRetry)
  /\ WF_vars(Recheck)
FairSpec == Spec /\ Fairness

-----------------------------------------------------------------------------
(* What a Teacher may rely on. *)

Heard(list) == {list[i] : i \in DOMAIN list}

\* "Only Offline when nothing is heard, and never while its readings still claim to
\* be current" (readThresholds): on the board as in the station, whichever
\* publication it was.
OfflineIsStale ==
  state # NoState =>
    \A d \in Drone :
      LET drone == state.drones[d] IN
      drone.status = "Offline" => drone.lastContact = Never \/ drone.stale

\* The timeline of a Drone is one story: each event starts from the Status the one
\* before it ended in, and the last one ends in the Status published (classify,
\* deriveEvents, the seeded first observation).
OneStory(list, fleet) ==
  \A i \in DOMAIN list :
    LET later == {j \in DOMAIN list : i < j /\ list[j].droneId = list[i].droneId} IN
    /\ later = {} => list[i].to = fleet[list[i].droneId].status
    /\ \A j \in later : (\A k \in later : j <= k) => list[j].from = list[i].to
TimelineIsOneStory == OneStory(events, lastPublished)

\* `since` never covers a moment retention has eaten: an event or a battery sample
\* that leaves the record is no later than the `since` it is then sent with.
SinceIsCovered ==
  [][/\ \A e \in Heard(events) : e \in Heard(events') \/ e.at <= Since'
     /\ \A d \in Drone : \A t \in Heard(batteries[d]) :
          t \in Heard(batteries'[d]) \/ t <= Since']_vars

\* A board that has handled everything sent to it holds every event the station
\* holds, though sockets broke in between and what was in flight on them was lost;
\* but for what its own bound leaves no room for.
CaughtUp == socket = "served" /\ wire = <<>>
BoardMissesNothing ==
  CaughtUp =>
    \A e \in Heard(events) :
      \/ \E f \in Heard(history.events) : Id(f) = Id(e)
      \/ /\ Len(history.events) = MaxRetained
         /\ \A f \in Heard(history.events) : f.at >= e.at

\* Silence is not an event: a Drone nobody hears is Offline on the board in the end,
\* unless it is heard again, whatever sockets broke in between.
Silent(d) == outOfContact(lastContact[d], now)
SilenceIsSeen ==
  \A d \in Drone :
    Silent(d) ~> ~Silent(d) \/ (state # NoState /\ state.drones[d].status = "Offline")
=============================================================================
