---------------------------- MODULE FleetStation ----------------------------
(***************************************************************************)
(* The ground station's core: Telemetry observed and aged into a Status    *)
(* (fleet-core/src/fleet.ts, status.ts), and the bounded record of what    *)
(* happened, derived from two Fleet States in a row (history.ts).          *)
(*                                                                         *)
(* Telemetry is the four answers deriveStatus asks of it.  An observation  *)
(* always publishes, since sameFleet compares Telemetry by reference; a    *)
(* tick publishes when ageing changed something.  lastPublished is also    *)
(* the history's #previous: both start from the same Fleet State and every *)
(* publication replaces both.  The charge forecast depends on observations *)
(* only and is left out.                                                   *)
(***************************************************************************)
EXTENDS Naturals, Sequences, FiniteSets

CONSTANTS
  Drones,        \* how many Drones are registered; a Drone is its boardOrder
  Reading,       \* the Telemetry this instance explores
  StaleAfter, OfflineAfter,             \* FleetThresholds
  MaxEvents, MaxSamples, MinInterval,   \* HistoryOptions
  MaxTime,       \* bound: the clock stops here
  MaxRestarts,   \* bound: restarts of the laptop
  Never,         \* lastContact: null
  NoReading      \* telemetry: null

Telemetry == [emergency : BOOLEAN, airborne : BOOLEAN, fault : BOOLEAN, low : BOOLEAN]

\* readThresholds refuses to start the other way round.
ASSUME FleetAssumption ==
  /\ Drones \in Nat /\ Reading \subseteq Telemetry
  /\ StaleAfter \in Nat /\ OfflineAfter \in Nat /\ StaleAfter < OfflineAfter
  /\ MaxEvents \in Nat \ {0} /\ MaxSamples \in Nat \ {0}
  /\ MinInterval \in Nat /\ MaxTime \in Nat /\ MaxRestarts \in Nat
  /\ Never \notin Nat /\ NoReading \notin Telemetry

Drone == 1 .. Drones
Status == {"Offline", "Fault", "Flying", "Not Ready", "Ready"}

DroneState == [status : Status, stale : BOOLEAN, lastContact : Nat \cup {Never}]
EventKind == {"first-contact", "contact-lost", "contact-restored", "took-off",
              "landed", "fault-raised", "fault-cleared", "charge-low", "became-ready"}
NoStatus == "no status"    \* from: null
Event == [droneId : Drone, at : Nat, kind : EventKind,
          from : Status \cup {NoStatus}, to : Status]

VARIABLES
  now,            \* the clock
  telemetry,      \* of each Drone, or NoReading
  lastContact,    \* of each Drone, or Never
  lastPublished,  \* #lastPublished, and the history's #previous
  events,         \* the history's events, in the order they were derived
  batteries,      \* of each Drone, the moments of its battery samples
  openedAt,       \* when this record was opened
  trimmedBefore,  \* the latest moment retention has dropped
  restarts        \* for the bound

station == <<now, telemetry, lastContact, lastPublished, events, batteries,
             openedAt, trimmedBefore, restarts>>

-----------------------------------------------------------------------------
(* Status. *)

outOfContact(contact, t) == contact = Never \/ t - contact >= OfflineAfter

\* Mutant: a Drone out of contact is Offline and no longer asked whether it is stale.
StaleOnlyInContact(contact, t) ==
  contact # Never /\ ~outOfContact(contact, t) /\ t - contact >= StaleAfter

isStale(contact, t) == contact # Never /\ t - contact >= StaleAfter

deriveStatus(reading, contact, t) ==
  IF outOfContact(contact, t) \/ reading = NoReading THEN "Offline"
  ELSE IF reading.emergency THEN "Fault"
  ELSE IF reading.airborne THEN "Flying"
  ELSE IF reading.fault THEN "Fault"
  ELSE IF reading.low THEN "Not Ready" ELSE "Ready"

\* A Fleet State's drones, as of t.
FleetAt(readings, contacts, t) ==
  [d \in Drone |-> [status |-> deriveStatus(readings[d], contacts[d], t),
                    stale |-> isStale(contacts[d], t),
                    lastContact |-> contacts[d]]]

fleetState == [at |-> now, drones |-> FleetAt(telemetry, lastContact, now)]

Unheard == [d \in Drone |-> [status |-> "Offline", stale |-> FALSE, lastContact |-> Never]]

-----------------------------------------------------------------------------
(* What happened between two Fleet States. *)

\* The order of the branches is the whole design; the statuses differ.
classify(from, to) ==
  IF to = "Offline" THEN "contact-lost"
  ELSE IF from = "Offline" THEN "contact-restored"
  ELSE IF to = "Fault" THEN "fault-raised"
  ELSE IF to = "Flying" THEN "took-off"
  ELSE IF from = "Fault" THEN "fault-cleared"
  ELSE IF from = "Flying" THEN "landed"
  ELSE IF to = "Not Ready" THEN "charge-low" ELSE "became-ready"

FirstContact(was, is) == was.lastContact = Never /\ is.lastContact # Never

\* Mutant: only what a Drone was heard to do is told.
NewsOfContact(was, is) == was.status # is.status /\ is.lastContact # was.lastContact

\* Something to tell of one Drone.
News(was, is) == FirstContact(was, is) \/ was.status # is.status

EventOf(d, was, is, t) ==
  [droneId |-> d,
   at |-> IF is.lastContact = Never THEN t ELSE is.lastContact,
   kind |-> IF FirstContact(was, is) THEN "first-contact" ELSE classify(was.status, is.status),
   from |-> IF FirstContact(was, is) THEN NoStatus ELSE was.status,
   to |-> is.status]

\* A set of numbers as a list, the least first: Drones by boardOrder, places as they come.
InOrder(numbers) ==
  [i \in 1 .. Cardinality(numbers) |->
     CHOOSE n \in numbers : Cardinality({m \in numbers : m < n}) = i - 1]

deriveEvents(before, after, t) ==
  LET told == InOrder({d \in Drone : News(before[d], after[d])})
  IN  [i \in DOMAIN told |-> EventOf(told[i], before[told[i]], after[told[i]], t)]

\* Mutant: the oldest go and nothing says so.
TrimSilently(all, limit) ==
  [kept |-> IF Len(all) <= limit THEN all ELSE SubSeq(all, Len(all) - limit + 1, Len(all)),
   dropped |-> {}]

\* What is left of a list that may hold `limit`, and what fell off its front.
Trim(all, limit) ==
  IF Len(all) <= limit THEN [kept |-> all, dropped |-> {}]
  ELSE [kept |-> SubSeq(all, Len(all) - limit + 1, Len(all)),
        dropped |-> {all[i] : i \in 1 .. Len(all) - limit}]

\* A reading is kept when it is new, and late enough or different enough.
Samples(held, is, moved) ==
  IF /\ is.lastContact # Never
     /\ \/ held = <<>>
        \/ /\ is.lastContact > held[Len(held)]
           /\ is.lastContact - held[Len(held)] >= MinInterval \/ moved
  THEN Append(held, is.lastContact) ELSE held

-----------------------------------------------------------------------------

Init ==
  /\ now = 0
  /\ telemetry = [d \in Drone |-> NoReading]
  /\ lastContact = [d \in Drone |-> Never]
  /\ lastPublished = Unheard
  /\ events = <<>>
  /\ batteries = [d \in Drone |-> <<>>]
  /\ openedAt = 0
  /\ trimmedBefore = 0
  /\ restarts = 0

\* The events a publication of `next` derives.
Fresh(next) == deriveEvents(lastPublished, next, now)

\* publishIfChanged's listeners, the recorder first: FleetHistoryRecorder.observe.
Publish(next) ==
  \E moved \in [Drone -> BOOLEAN] :
    LET told == Trim(events \o Fresh(next), MaxEvents)
        sampled == [d \in Drone |-> Trim(Samples(batteries[d], next[d], moved[d]), MaxSamples)]
        gone == {trimmedBefore} \cup {e.at : e \in told.dropped}
                  \cup UNION {sampled[d].dropped : d \in Drone}
    IN  /\ lastPublished' = next
        /\ events' = told.kept
        /\ batteries' = [d \in Drone |-> sampled[d].kept]
        /\ trimmedBefore' \in gone
        /\ \A t \in gone : t <= trimmedBefore'

Observation(d, reading) ==
  /\ telemetry' = [telemetry EXCEPT ![d] = reading]
  /\ lastContact' = [lastContact EXCEPT ![d] = now]
  /\ Publish(FleetAt(telemetry', lastContact', now))
  /\ UNCHANGED <<now, openedAt, restarts>>

\* Mutant: what was heard is compared, not what it has aged into.
SameContact(before, after) ==
  \A d \in Drone : before[d].lastContact = after[d].lastContact

sameFleet(before, after) == before = after

\* The interval's re-check of ageing, where it finds something to say.
Tick ==
  LET next == FleetAt(telemetry, lastContact, now)
  IN  /\ ~sameFleet(lastPublished, next)
      /\ Publish(next)
      /\ UNCHANGED <<now, telemetry, lastContact, openedAt, restarts>>

Advance ==
  /\ now < MaxTime
  /\ now' = now + 1
  /\ UNCHANGED <<telemetry, lastContact, lastPublished, events, batteries,
                 openedAt, trimmedBefore, restarts>>

\* The process is started again: nothing of the past was written down.
Restart ==
  /\ restarts < MaxRestarts
  /\ restarts' = restarts + 1
  /\ telemetry' = [d \in Drone |-> NoReading]
  /\ lastContact' = [d \in Drone |-> Never]
  /\ lastPublished' = Unheard
  /\ events' = <<>>
  /\ batteries' = [d \in Drone |-> <<>>]
  /\ openedAt' = now
  /\ trimmedBefore' = 0
  /\ UNCHANGED now

\* FleetHistory.since.
Since == IF openedAt > trimmedBefore THEN openedAt ELSE trimmedBefore
=============================================================================
