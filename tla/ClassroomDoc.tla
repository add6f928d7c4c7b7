---------------------------- MODULE ClassroomDoc ----------------------------
(***************************************************************************)
(* The classroom document of web/lib/classroom-session.ts: the one JSON    *)
(* blob a Teacher's board, several Student tablets and a store all hold a  *)
(* copy of, and the pure functions over it: how a write is stamped, how    *)
(* two copies are merged, when two copies count as different, and what     *)
(* each press does to the seats.                                           *)
(*                                                                         *)
(* A timestamp that is null or set is a Boolean here (clearedAt, flownAt,  *)
(* approvedAt, endedAt); a heartbeat is a natural number, 0 meaning null.  *)
(* The brief (Scenario, rules, zones, craft, clock) is the number of times *)
(* the Teacher rewrote it, the instruction list the number pushed.         *)
(* updatedAt is not here: no rule of this document is settled on it.       *)
(***************************************************************************)
EXTENDS Naturals, FiniteSets

CONSTANTS
  Student,   \* every studentId a seat can carry
  Drone,     \* the craft in the Lesson (session.drones)
  Name,      \* names a child or a Teacher types
  Point,     \* the required checkpoints of the Mission
  NoDrone,   \* droneId: null
  NoSeat,    \* no row for this studentId
  NoDoc      \* no document at all

ASSUME DroneAssumption == NoDrone \notin Drone

\* The phases a seat is ever given; 'objective', 'prepare', 'connect' and
\* 'request-takeoff' are in the type and no writer sets them.
Phase == {"briefing", "awaiting-clearance", "held", "cleared", "flying",
          "returning", "complete"}

Seat == [rev : Nat, name : Name, drone : Drone \cup {NoDrone}, phase : Phase,
         cleared : BOOLEAN, flown : BOOLEAN, reached : SUBSET Point,
         approved : BOOLEAN, seen : Nat]

Doc == [rev : Nat, brief : Nat, posts : Nat, live : BOOLEAN, ended : BOOLEAN,
        freed : SUBSET Student, boardSeen : Nat,
        seats : [Student -> Seat \cup {NoSeat}]]

ASSUME NullAssumption == NoSeat \notin Seat /\ NoDoc \notin Doc

Seated(doc) == {s \in Student : doc.seats[s] # NoSeat}

Higher(a, b) == IF a > b THEN a ELSE b

\* Null is 0 and never later than a beat that happened.
laterOf(a, b) == Higher(a, b)

-----------------------------------------------------------------------------
(* Counting writes. *)

seatContent(seat) == [seat EXCEPT !.rev = 0, !.seen = 0]

roomContent(doc) == <<doc.brief, doc.posts, doc.live, doc.ended, doc.freed>>

\* Mutant: a write drops the seats its screen had not seen.
CarryNothing(prior, session) == session.seats

\* A seat the write has never heard of is carried over, unless it names it freed.
CarryOver(prior, session) ==
  [s \in Student |->
     IF session.seats[s] = NoSeat /\ s \notin session.freed
     THEN prior.seats[s] ELSE session.seats[s]]

StampSeat(before, seat) ==
  IF seat = NoSeat THEN NoSeat
  ELSE IF before = NoSeat THEN [seat EXCEPT !.rev = @ + 1]
  ELSE IF seatContent(before) # seatContent(seat)
       THEN [seat EXCEPT !.rev = Higher(@, before.rev) + 1]
       ELSE [seat EXCEPT !.rev = Higher(@, before.rev)]

stampRevisions(prior, session) ==
  LET seats == CarryOver(prior, session)
      highestRoom == Higher(session.rev, prior.rev)
  IN  [session EXCEPT
         !.rev = IF roomContent(prior) # roomContent(session)
                 THEN highestRoom + 1 ELSE highestRoom,
         !.seats = [s \in Student |-> StampSeat(prior.seats[s], seats[s])]]

-----------------------------------------------------------------------------
(* Merging two copies. The same rule three times in the source: the        *)
(* browser's, the laptop's and the Worker's. A tie goes to `theirs`, which *)
(* is the store's copy on every caller.                                    *)

\* Mutant: a tie goes to the copy that is not the store's.
MergeSeatTieToMine(mine, theirs) ==
  IF mine = NoSeat THEN theirs
  ELSE IF theirs = NoSeat THEN mine
  ELSE [(IF mine.rev >= theirs.rev THEN mine ELSE theirs)
          EXCEPT !.seen = laterOf(mine.seen, theirs.seen)]

\* Mutant: the store's copy of a seat is swapped in, as before revisions existed.
MergeSeatSwappedIn(mine, theirs) == IF theirs = NoSeat THEN mine ELSE theirs

MergeSeat(mine, theirs) ==
  IF mine = NoSeat THEN theirs
  ELSE IF theirs = NoSeat THEN mine
  ELSE [(IF mine.rev > theirs.rev THEN mine ELSE theirs)
          EXCEPT !.seen = laterOf(mine.seen, theirs.seen)]

Merge(mine, theirs) ==
  LET room == IF mine.rev > theirs.rev THEN mine ELSE theirs
      freed == mine.freed \cup theirs.freed
  IN  [room EXCEPT
         !.rev = Higher(mine.rev, theirs.rev),
         !.freed = freed,
         !.boardSeen = laterOf(mine.boardSeen, theirs.boardSeen),
         !.seats = [s \in Student |->
                      IF s \in freed THEN NoSeat
                      ELSE MergeSeat(mine.seats[s], theirs.seats[s])]]

\* What the store holds after a PUT: never refused, taken whole when it held nothing.
mergeClassrooms(incoming, stored) ==
  IF stored = NoDoc THEN incoming ELSE Merge(incoming, stored)

\* Mutant: only who is seated is compared, not how often each seat was written.
SeatsDifferBySize(a, b) == Cardinality(Seated(a)) # Cardinality(Seated(b))

\* By the counts, not by the contents; lengths of removedSeatIds, not members.
classroomSeatsDiffer(a, b) ==
  \/ Cardinality(Seated(a)) # Cardinality(Seated(b))
  \/ Cardinality(a.freed) # Cardinality(b.freed)
  \/ \E s \in Seated(a) : b.seats[s] = NoSeat \/ a.seats[s].rev # b.seats[s].rev

\* Mutant: the poll asks about the people only.
DifferBySeats(a, b) == classroomSeatsDiffer(a, b)

classroomsDiffer(a, b) ==
  \/ a.rev # b.rev
  \/ a.boardSeen # b.boardSeen
  \/ \E s \in Seated(a) \cap Seated(b) : a.seats[s].seen # b.seats[s].seen
  \/ classroomSeatsDiffer(a, b)

-----------------------------------------------------------------------------
(* What each press does to the document it is handed. Each of these is the *)
(* session a writer passes to writeClassroomSession, before it is stamped. *)

NewSeat(name, drone) ==
  [rev |-> 0, name |-> name, drone |-> drone, phase |-> "briefing",
   cleared |-> FALSE, flown |-> FALSE, reached |-> {}, approved |-> FALSE,
   seen |-> 0]

\* The room openClassroom writes the first time: nobody in it, not live.
EmptySession ==
  [rev |-> 1, brief |-> 0, posts |-> 0, live |-> FALSE, ended |-> FALSE,
   freed |-> {}, boardSeen |-> 0, seats |-> [s \in Student |-> NoSeat]]

WithSeat(doc, s, seat) == [doc EXCEPT !.seats[s] = seat]

\* session.seats.find takes the earliest joinedAt, a device's clock: any of them here.
SeatsOnDrone(doc, d) == {s \in Seated(doc) : doc.seats[s].drone = d}

\* Mutant: rejoining leaves the id on the freed list.
JoinStillFreed(doc, s, name) == WithSeat(doc, s, NewSeat(name, NoDrone))

joinClassroomAsStudent(doc, s, name) ==
  [WithSeat(doc, s, NewSeat(name, NoDrone)) EXCEPT !.freed = @ \ {s}]

sameChild(doc, s, t) == doc.seats[s].name = doc.seats[t].name

Dropped(doc, s) == [doc EXCEPT !.seats[s] = NoSeat, !.freed = @ \cup {s}]

\* The Drone is free, or held under this child's own name by a tablet that died.
TakenBy(doc, s, d) == WithSeat(doc, s, [doc.seats[s] EXCEPT !.drone = d])
Reclaimed(doc, held, s, d) == TakenBy(Dropped(doc, held), s, d)

updateSeatPhase(doc, s, phase) == WithSeat(doc, s, [doc.seats[s] EXCEPT !.phase = phase])

markSeatFlown(doc, s) ==
  WithSeat(doc, s, [doc.seats[s] EXCEPT !.phase = "flying", !.flown = TRUE])

markPointsReached(doc, d, points) ==
  [doc EXCEPT !.seats =
     [s \in Student |-> IF s \in SeatsOnDrone(doc, d)
                        THEN [doc.seats[s] EXCEPT !.reached = @ \cup points]
                        ELSE doc.seats[s]]]

allPointsReached(seat) == Point # {} /\ Point \subseteq seat.reached

approveSeatTask(doc, s) ==
  WithSeat(doc, s, [doc.seats[s] EXCEPT !.phase = "returning", !.approved = TRUE])

\* The seats on the craft, or everybody still waiting when nobody is paired to it.
seatsForDrone(doc, d) ==
  IF SeatsOnDrone(doc, d) # {} THEN SeatsOnDrone(doc, d)
  ELSE {s \in Seated(doc) : doc.seats[s].phase = "awaiting-clearance"}

Answered(doc, who, phase, cleared) ==
  [doc EXCEPT !.seats =
     [s \in Student |-> IF s \in who
                        THEN [@[s] EXCEPT !.phase = phase, !.cleared = cleared]
                        ELSE @[s]]]

grantSeatsForDrone(doc, d) == Answered(doc, seatsForDrone(doc, d), "cleared", TRUE)

Waiting(doc, d) ==
  {s \in seatsForDrone(doc, d) : doc.seats[s].phase = "awaiting-clearance"}
holdSeatsForDrone(doc, d) == Answered(doc, Waiting(doc, d), "held", FALSE)
=============================================================================
