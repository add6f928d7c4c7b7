------------------------- MODULE ClassroomDoc_proofs -------------------------
(***************************************************************************)
(* Lemmas about the classroom document: what stamping and merging keep.    *)
(***************************************************************************)
EXTENDS ClassroomDoc, TLAPS

\* A seat told to come home, or down, was approved with every point flown.
GoodSeat ==
  {seat \in Seat : seat.phase \in {"returning", "complete"} =>
                     seat.approved /\ allPointsReached(seat)}

MaybeSeat == GoodSeat \cup {NoSeat}

\* What every copy of the document satisfies, wherever it is.
Good == {doc \in Doc : /\ \A s \in Student : doc.seats[s] \in MaybeSeat
                       /\ \A s \in doc.freed : doc.seats[s] = NoSeat}

\* Every write is counted by a natural number, and the higher of two is one of them.
LEMMA HigherIsNat ==
  ASSUME NEW a \in Nat, NEW b \in Nat
  PROVE  Higher(a, b) \in Nat /\ Higher(a, b) >= a /\ Higher(a, b) >= b
                              /\ Higher(a, b) \in {a, b}
BY DEF Higher

\* The parts of a good copy.
LEMMA GoodFields ==
  ASSUME NEW doc \in Good
  PROVE  /\ doc \in Doc
         /\ doc.rev \in Nat /\ doc.brief \in Nat /\ doc.posts \in Nat
         /\ doc.live \in BOOLEAN /\ doc.ended \in BOOLEAN
         /\ doc.freed \in SUBSET Student /\ doc.boardSeen \in Nat
         /\ doc.seats \in [Student -> MaybeSeat]
         /\ \A s \in doc.freed : doc.seats[s] = NoSeat
<1>1. doc \in Doc /\ (\A s \in Student : doc.seats[s] \in MaybeSeat)
                  /\ \A s \in doc.freed : doc.seats[s] = NoSeat
  BY DEF Good
<1>2. doc.seats \in [Student -> Seat \cup {NoSeat}]
  BY <1>1 DEF Doc
<1>3. doc.seats \in [Student -> MaybeSeat]
  BY <1>1, <1>2
<1> QED BY <1>1, <1>3 DEF Doc

\* Changing the fields of a good copy to good values gives a good copy.
LEMMA GoodAgain ==
  ASSUME NEW doc \in Doc, NEW new \in Doc,
         new.seats \in [Student -> MaybeSeat],
         \A s \in new.freed : new.seats[s] = NoSeat
  PROVE  new \in Good
BY DEF Good

\* A good seat is a row, not the absence of one.
LEMMA SeatIsNotNull ==
  /\ NoSeat \notin GoodSeat
  /\ GoodSeat \subseteq Seat
  /\ MaybeSeat \subseteq Seat \cup {NoSeat}
BY NullAssumption DEF GoodSeat, MaybeSeat

\* A new count or a new beat leaves a seat as good as it was.
LEMMA RecountedSeat ==
  ASSUME NEW seat \in GoodSeat, NEW n \in Nat
  PROVE  /\ [seat EXCEPT !.rev = n] \in GoodSeat
         /\ [seat EXCEPT !.seen = n] \in GoodSeat
BY DEF GoodSeat, Seat, allPointsReached

\* mergeClassrooms settles a seat as one of its two copies, with the later beat.
LEMMA MergeSeatKeeps ==
  ASSUME NEW a \in MaybeSeat, NEW b \in MaybeSeat
  PROVE  /\ MergeSeat(a, b) \in MaybeSeat
         /\ MergeSeat(a, b) = NoSeat <=> a = NoSeat /\ b = NoSeat
<1>1. CASE a = NoSeat \/ b = NoSeat
  BY <1>1 DEF MergeSeat, MaybeSeat
<1>2. CASE a \in GoodSeat /\ b \in GoodSeat
  <2> DEFINE win == IF a.rev > b.rev THEN a ELSE b
             seen == laterOf(a.seen, b.seen)
  <2>1. seen \in Nat
    BY <1>2, HigherIsNat DEF Seat, GoodSeat, laterOf
  <2>2. win \in GoodSeat
    BY <1>2
  <2>3. MergeSeat(a, b) = [win EXCEPT !.seen = seen]
    BY <1>2, SeatIsNotNull DEF MergeSeat
  <2> HIDE DEF win, seen
  <2> QED BY <1>2, <2>1, <2>2, <2>3, RecountedSeat, SeatIsNotNull DEF MaybeSeat
<1> QED BY <1>1, <1>2 DEF MaybeSeat

\* mergeClassroomSessions and mergeClassrooms keep a good copy good: a freed seat
\* is gone, every other seat is one the two copies held.
LEMMA MergeKeeps ==
  ASSUME NEW a \in Good, NEW b \in Good
  PROVE  Merge(a, b) \in Good
<1> DEFINE room == IF a.rev > b.rev THEN a ELSE b
           freed == a.freed \cup b.freed
           seats == [s \in Student |-> IF s \in freed THEN NoSeat
                                       ELSE MergeSeat(a.seats[s], b.seats[s])]
           rev == Higher(a.rev, b.rev)
           boardSeen == laterOf(a.boardSeen, b.boardSeen)
           merged == [room EXCEPT !.rev = rev, !.freed = freed,
                                  !.boardSeen = boardSeen, !.seats = seats]
<1>1. Merge(a, b) = merged
  BY DEF Merge
<1>2. rev \in Nat /\ boardSeen \in Nat /\ freed \in SUBSET Student
  BY HigherIsNat, GoodFields DEF laterOf
<1>3. \A s \in Student : MergeSeat(a.seats[s], b.seats[s]) \in MaybeSeat
  BY GoodFields, MergeSeatKeeps
<1>4. seats \in [Student -> MaybeSeat]
  BY <1>3 DEF MaybeSeat
<1>5. \A s \in freed : seats[s] = NoSeat
  BY <1>2
<1>6. room \in Doc
  BY GoodFields
<1> HIDE DEF room, freed, seats, rev, boardSeen
<1>7. merged \in Doc /\ merged.freed = freed /\ merged.seats = seats
  BY <1>2, <1>4, <1>6, SeatIsNotNull DEF Doc
<1> HIDE DEF merged
<1> QED BY <1>1, <1>4, <1>5, <1>7, GoodAgain

\* stampRevisions changes nothing of a seat but its count.
LEMMA StampSeatKeeps ==
  ASSUME NEW before \in MaybeSeat, NEW seat \in MaybeSeat
  PROVE  /\ StampSeat(before, seat) \in MaybeSeat
         /\ StampSeat(before, seat) = NoSeat <=> seat = NoSeat
<1>1. CASE seat = NoSeat
  BY <1>1 DEF StampSeat, MaybeSeat
<1>2. CASE seat \in GoodSeat
  <2>1. seat.rev \in Nat /\ seat # NoSeat
    BY <1>2, SeatIsNotNull DEF Seat
  <2>2. ASSUME before = NoSeat
        PROVE  StampSeat(before, seat) = [seat EXCEPT !.rev = seat.rev + 1]
    BY <2>1, <2>2 DEF StampSeat
  <2>3. ASSUME before \in GoodSeat
        PROVE  \E rev \in Nat : StampSeat(before, seat) = [seat EXCEPT !.rev = rev]
    <3>1. before.rev \in Nat /\ before # NoSeat
      BY <2>3, SeatIsNotNull DEF Seat
    <3>2. /\ Higher(seat.rev, before.rev) \in Nat
          /\ Higher(seat.rev, before.rev) + 1 \in Nat
      BY <2>1, <3>1 DEF Higher
    <3> QED BY <2>1, <3>1, <3>2 DEF StampSeat
  <2>4. seat.rev + 1 \in Nat
    BY <2>1
  <2>5. \E rev \in Nat : StampSeat(before, seat) = [seat EXCEPT !.rev = rev]
    BY <2>2, <2>3, <2>4 DEF MaybeSeat
  <2> QED BY <1>2, <2>5, RecountedSeat, SeatIsNotNull DEF MaybeSeat
<1> QED BY <1>1, <1>2 DEF MaybeSeat

\* A stamped write is good, names the same seats freed, and drops no seat of the
\* copy it replaces but those: the carry-over of stampRevisions.
LEMMA StampKeeps ==
  ASSUME NEW prior \in Good, NEW session \in Good
  PROVE  /\ stampRevisions(prior, session) \in Good
         /\ stampRevisions(prior, session).freed = session.freed
         /\ \A s \in Student : prior.seats[s] # NoSeat =>
              stampRevisions(prior, session).seats[s] # NoSeat \/ s \in session.freed
<1> DEFINE carried == CarryOver(prior, session)
           seats == [s \in Student |-> StampSeat(prior.seats[s], carried[s])]
           high == Higher(session.rev, prior.rev)
           rev == IF roomContent(prior) # roomContent(session) THEN high + 1 ELSE high
           next == [session EXCEPT !.rev = rev, !.seats = seats]
<1>1. stampRevisions(prior, session) = next
  BY DEF stampRevisions
<1>2. rev \in Nat
  <2>1. high \in Nat
    BY HigherIsNat, GoodFields
  <2> HIDE DEF high
  <2> QED BY <2>1
<1>3. \A s \in Student : /\ carried[s] \in MaybeSeat
                         /\ s \in session.freed => carried[s] = NoSeat
                         /\ prior.seats[s] # NoSeat =>
                              carried[s] # NoSeat \/ s \in session.freed
  BY GoodFields DEF CarryOver
<1> HIDE DEF carried
<1>4. \A s \in Student : /\ StampSeat(prior.seats[s], carried[s]) \in MaybeSeat
                         /\ StampSeat(prior.seats[s], carried[s]) = NoSeat
                              <=> carried[s] = NoSeat
  BY <1>3, GoodFields, StampSeatKeeps
<1>5. seats \in [Student -> MaybeSeat]
  BY <1>4
<1>6. \A s \in session.freed : seats[s] = NoSeat
  BY <1>3, <1>4, GoodFields
<1>7. \A s \in Student : prior.seats[s] # NoSeat => seats[s] # NoSeat \/ s \in session.freed
  BY <1>3, <1>4
<1> HIDE DEF seats, rev
<1>8. next \in Doc /\ next.freed = session.freed /\ next.seats = seats
  BY <1>2, <1>5, GoodFields, SeatIsNotNull DEF Doc
<1> HIDE DEF next
<1> QED BY <1>1, <1>5, <1>6, <1>7, <1>8, GoodAgain

-----------------------------------------------------------------------------
(* What a press may do to one seat. *)

\* A seated child of a good copy is on a good seat and is not named freed.
LEMMA SeatedIsGood ==
  ASSUME NEW doc \in Good, NEW s \in Seated(doc)
  PROVE  s \in Student /\ s \notin doc.freed /\ doc.seats[s] \in GoodSeat
<1>1. s \in Student /\ doc.seats[s] # NoSeat
  BY DEF Seated
<1>2. doc.seats[s] \in MaybeSeat
  BY <1>1, GoodFields
<1> QED BY <1>1, <1>2, GoodFields DEF MaybeSeat

\* The seat joinClassroomAsStudent and seatStudentByHand create is a good one.
LEMMA NewSeatIsGood ==
  ASSUME NEW name \in Name, NEW drone \in Drone \cup {NoDrone}
  PROVE  NewSeat(name, drone) \in GoodSeat
BY DEF NewSeat, GoodSeat, Seat, Phase

\* Renaming, pairing, marking flown and marking points leave the approval alone.
LEMMA SeatEdited ==
  ASSUME NEW seat \in GoodSeat, NEW name \in Name, NEW drone \in Drone \cup {NoDrone},
         NEW points \in SUBSET Point
  PROVE  /\ [seat EXCEPT !.name = name] \in GoodSeat
         /\ [seat EXCEPT !.drone = drone] \in GoodSeat
         /\ [seat EXCEPT !.phase = "flying", !.flown = TRUE] \in GoodSeat
         /\ [seat EXCEPT !.reached = seat.reached \cup points] \in GoodSeat
BY DEF GoodSeat, Seat, Phase, allPointsReached

\* The phases of the clearance need no approval.
LEMMA SeatAnswered ==
  ASSUME NEW seat \in GoodSeat, NEW cleared \in BOOLEAN,
         NEW phase \in {"awaiting-clearance", "held", "cleared"}
  PROVE  /\ [seat EXCEPT !.phase = phase] \in GoodSeat
         /\ [seat EXCEPT !.phase = phase, !.cleared = cleared] \in GoodSeat
BY DEF GoodSeat, Seat, Phase

\* Only a seat with every point flown is approved, and only an approved one lands.
LEMMA SeatFinished ==
  ASSUME NEW seat \in GoodSeat
  PROVE  /\ allPointsReached(seat) =>
              [seat EXCEPT !.phase = "returning", !.approved = TRUE] \in GoodSeat
         /\ seat.phase = "returning" => [seat EXCEPT !.phase = "complete"] \in GoodSeat
BY DEF GoodSeat, Seat, Phase, allPointsReached

-----------------------------------------------------------------------------
(* What a press may do to the document. *)

\* Replacing the seat of a child who is not freed keeps a copy good.
LEMMA WithSeatKeeps ==
  ASSUME NEW doc \in Good, NEW s \in Student, s \notin doc.freed, NEW seat \in GoodSeat
  PROVE  WithSeat(doc, s, seat) \in Good
<1> DEFINE seats == [doc.seats EXCEPT ![s] = seat]
           new == [doc EXCEPT !.seats = seats]
<1>1. WithSeat(doc, s, seat) = new
  BY GoodFields DEF WithSeat, Doc
<1>2. seats \in [Student -> MaybeSeat]
  BY GoodFields DEF MaybeSeat
<1>3. \A u \in doc.freed : seats[u] = NoSeat
  BY GoodFields
<1> HIDE DEF seats
<1>4. new \in Doc /\ new.freed = doc.freed /\ new.seats = seats
  BY <1>2, GoodFields, SeatIsNotNull DEF Doc
<1> HIDE DEF new
<1> QED BY <1>1, <1>2, <1>3, <1>4, GoodAgain

\* Editing every seat of a good copy, and seating nobody, keeps it good.
LEMMA SeatsEditedKeep ==
  ASSUME NEW doc \in Good, NEW seats \in [Student -> MaybeSeat],
         \A s \in Student : doc.seats[s] = NoSeat => seats[s] = NoSeat
  PROVE  [doc EXCEPT !.seats = seats] \in Good
<1> DEFINE new == [doc EXCEPT !.seats = seats]
<1>1. new \in Doc /\ new.freed = doc.freed /\ new.seats = seats
  BY GoodFields, SeatIsNotNull DEF Doc
<1>2. \A s \in doc.freed : seats[s] = NoSeat
  BY GoodFields
<1>3. new \in Good
  <2> HIDE DEF new
  <2> QED BY <1>1, <1>2, GoodAgain
<1> QED BY <1>3

\* Changing the room's own fields keeps a copy good.
LEMMA RoomEditedKeeps ==
  ASSUME NEW doc \in Good, NEW n \in Nat, NEW live \in BOOLEAN, NEW ended \in BOOLEAN
  PROVE  /\ [doc EXCEPT !.brief = n, !.live = live] \in Good
         /\ [doc EXCEPT !.posts = n] \in Good
         /\ [doc EXCEPT !.ended = ended, !.live = live] \in Good
         /\ [doc EXCEPT !.boardSeen = n] \in Good
BY GoodFields DEF Good, Doc

\* openClassroom's first write.
LEMMA EmptyIsGood == EmptySession \in Good
<1>1. EmptySession \in Doc
  BY DEF EmptySession, Doc
<1> QED BY <1>1 DEF EmptySession, Good, MaybeSeat

\* joinClassroomAsStudent seats the child and takes them off the freed list.
LEMMA JoinKeeps ==
  ASSUME NEW doc \in Good, NEW s \in Student, NEW name \in Name
  PROVE  joinClassroomAsStudent(doc, s, name) \in Good
<1> DEFINE seat == NewSeat(name, NoDrone)
           seats == [doc.seats EXCEPT ![s] = seat]
           freed == doc.freed \ {s}
           new == [doc EXCEPT !.seats = seats, !.freed = freed]
<1>1. joinClassroomAsStudent(doc, s, name) = new
  BY GoodFields DEF joinClassroomAsStudent, WithSeat, Doc
<1>2. seat \in GoodSeat
  BY NewSeatIsGood
<1> HIDE DEF seat
<1>3. seats \in [Student -> MaybeSeat] /\ \A u \in freed : seats[u] = NoSeat
  BY <1>2, GoodFields DEF MaybeSeat
<1>4. freed \in SUBSET Student
  BY GoodFields
<1> HIDE DEF seats, freed
<1>5. new \in Doc /\ new.freed = freed /\ new.seats = seats
  BY <1>3, <1>4, GoodFields, SeatIsNotNull DEF Doc
<1> HIDE DEF new
<1> QED BY <1>1, <1>3, <1>5, GoodAgain

\* freeDroneSeat takes the row off and names the child.
LEMMA DroppedKeeps ==
  ASSUME NEW doc \in Good, NEW s \in Student
  PROVE  /\ Dropped(doc, s) \in Good
         /\ Dropped(doc, s).freed = doc.freed \cup {s}
         /\ \A u \in Student \ {s} : Dropped(doc, s).seats[u] = doc.seats[u]
<1> DEFINE seats == [doc.seats EXCEPT ![s] = NoSeat]
           freed == doc.freed \cup {s}
           new == [doc EXCEPT !.seats = seats, !.freed = freed]
<1>1. Dropped(doc, s) = new
  BY GoodFields DEF Dropped, Doc
<1>2. /\ seats \in [Student -> MaybeSeat]
      /\ \A u \in freed : seats[u] = NoSeat
      /\ \A u \in Student \ {s} : seats[u] = doc.seats[u]
  BY GoodFields DEF MaybeSeat
<1>3. freed \in SUBSET Student
  BY GoodFields
<1> HIDE DEF seats, freed
<1>4. new \in Doc /\ new.freed = freed /\ new.seats = seats
  BY <1>2, <1>3, GoodFields, SeatIsNotNull DEF Doc
<1>5. new \in Good
  <2> HIDE DEF new
  <2> QED BY <1>2, <1>4, GoodAgain
<1> QED BY <1>1, <1>2, <1>4, <1>5 DEF freed

\* takeDroneSeat pairs a seated child with a Drone, freeing the row it reclaims.
LEMMA TakenKeeps ==
  ASSUME NEW doc \in Good, NEW s \in Seated(doc), NEW d \in Drone
  PROVE  /\ TakenBy(doc, s, d) \in Good
         /\ \A held \in Seated(doc) \ {s} : Reclaimed(doc, held, s, d) \in Good
<1>1. ASSUME NEW other \in Good, s \notin other.freed, other.seats[s] \in GoodSeat
      PROVE  TakenBy(other, s, d) \in Good
  <2>1. [other.seats[s] EXCEPT !.drone = d] \in GoodSeat
    BY <1>1, SeatEdited, SeatedIsGood DEF GoodSeat, Seat, allPointsReached
  <2> QED BY <1>1, <2>1, SeatedIsGood, WithSeatKeeps DEF TakenBy
<1>2. ASSUME NEW held \in Seated(doc) \ {s}
      PROVE  Reclaimed(doc, held, s, d) \in Good
  <2>1. Dropped(doc, held) \in Good /\ s \notin Dropped(doc, held).freed
        /\ Dropped(doc, held).seats[s] \in GoodSeat
    BY <1>2, SeatedIsGood, DroppedKeeps
  <2> QED BY <1>1, <2>1 DEF Reclaimed
<1> QED BY <1>1, <1>2, SeatedIsGood

\* The presses on one seat: requestTakeoff, markSeatFlown, markSeatComplete,
\* approveSeatTask, and the rename and the new seat of seatStudentByHand.
LEMMA SeatPressKeeps ==
  ASSUME NEW doc \in Good, NEW s \in Seated(doc), NEW name \in Name
  PROVE  /\ updateSeatPhase(doc, s, "awaiting-clearance") \in Good
         /\ doc.seats[s].phase = "returning" => updateSeatPhase(doc, s, "complete") \in Good
         /\ markSeatFlown(doc, s) \in Good
         /\ allPointsReached(doc.seats[s]) => approveSeatTask(doc, s) \in Good
         /\ WithSeat(doc, s, [doc.seats[s] EXCEPT !.name = name]) \in Good
<1> DEFINE seat == doc.seats[s]
<1>1. seat \in GoodSeat /\ s \in Student /\ s \notin doc.freed
  BY SeatedIsGood
<1> HIDE DEF seat
<1>2. /\ [seat EXCEPT !.phase = "awaiting-clearance"] \in GoodSeat
      /\ seat.phase = "returning" => [seat EXCEPT !.phase = "complete"] \in GoodSeat
      /\ [seat EXCEPT !.phase = "flying", !.flown = TRUE] \in GoodSeat
      /\ allPointsReached(seat) =>
            [seat EXCEPT !.phase = "returning", !.approved = TRUE] \in GoodSeat
      /\ [seat EXCEPT !.name = name] \in GoodSeat
  BY <1>1 DEF GoodSeat, Seat, Phase, allPointsReached
<1> QED BY <1>1, <1>2, WithSeatKeeps
        DEF updateSeatPhase, markSeatFlown, approveSeatTask, seat

\* seatStudentByHand on a free Drone.
LEMMA HandSeatKeeps ==
  ASSUME NEW doc \in Good, NEW s \in Student, s \notin doc.freed,
         NEW name \in Name, NEW d \in Drone
  PROVE  WithSeat(doc, s, NewSeat(name, d)) \in Good
BY NewSeatIsGood, WithSeatKeeps

\* grantSeatsForDrone and holdSeatsForDrone.
LEMMA AnsweredKeeps ==
  ASSUME NEW doc \in Good, NEW who \in SUBSET Seated(doc),
         NEW phase \in {"held", "cleared"}, NEW cleared \in BOOLEAN
  PROVE  Answered(doc, who, phase, cleared) \in Good
<1> DEFINE seats == [s \in Student |->
                       IF s \in who
                       THEN [doc.seats[s] EXCEPT !.phase = phase, !.cleared = cleared]
                       ELSE doc.seats[s]]
<1>1. Answered(doc, who, phase, cleared) = [doc EXCEPT !.seats = seats]
  BY GoodFields DEF Answered, Doc
<1>2. \A s \in who : [doc.seats[s] EXCEPT !.phase = phase, !.cleared = cleared] \in GoodSeat
  BY SeatedIsGood, SeatAnswered
<1>3. seats \in [Student -> MaybeSeat]
  BY <1>2, GoodFields DEF MaybeSeat
<1>4. \A s \in Student : doc.seats[s] = NoSeat => seats[s] = NoSeat
  BY DEF Seated
<1> HIDE DEF seats
<1> QED BY <1>1, <1>3, <1>4, SeatsEditedKeep

\* markPointsReached.
LEMMA ReachedKeeps ==
  ASSUME NEW doc \in Good, NEW d \in Drone, NEW points \in SUBSET Point
  PROVE  markPointsReached(doc, d, points) \in Good
<1> DEFINE seats == [s \in Student |->
                       IF s \in SeatsOnDrone(doc, d)
                       THEN [doc.seats[s] EXCEPT !.reached = doc.seats[s].reached \cup points]
                       ELSE doc.seats[s]]
<1>1. markPointsReached(doc, d, points) = [doc EXCEPT !.seats = seats]
  BY GoodFields DEF markPointsReached, Doc
<1>2. \A s \in SeatsOnDrone(doc, d) :
        [doc.seats[s] EXCEPT !.reached = doc.seats[s].reached \cup points] \in GoodSeat
  <2> TAKE s \in SeatsOnDrone(doc, d)
  <2> DEFINE seat == doc.seats[s]
  <2>1. seat \in GoodSeat
    BY SeatedIsGood DEF SeatsOnDrone
  <2> HIDE DEF seat
  <2>2. [seat EXCEPT !.reached = seat.reached \cup points] \in GoodSeat
    BY <2>1 DEF GoodSeat, Seat, allPointsReached
  <2> QED BY <2>2 DEF seat
<1>3. seats \in [Student -> MaybeSeat]
  BY <1>2, GoodFields DEF MaybeSeat
<1>4. \A s \in Student : doc.seats[s] = NoSeat => seats[s] = NoSeat
  BY DEF Seated, SeatsOnDrone
<1> HIDE DEF seats
<1> QED BY <1>1, <1>3, <1>4, SeatsEditedKeep
=============================================================================
