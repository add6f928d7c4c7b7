--------------------------- MODULE ClassroomRecord ---------------------------
(***************************************************************************)
(* What the classroom store promises, without saying how: "the store is    *)
(* the one place every device's writes are put in an order"                *)
(* (web/lib/classroom-session.ts, ClassroomSeat.rev).  The record of a     *)
(* room only moves forward: a higher count replaces a lower one, an equal  *)
(* count never changes what it says, a freed seat never comes back and     *)
(* nothing but a Free removes one, and heartbeats only advance.            *)
(***************************************************************************)
EXTENDS ClassroomDoc

VARIABLE record

RoomKept(old, new) ==
  /\ new.brief = old.brief
  /\ new.posts = old.posts
  /\ new.live = old.live
  /\ new.ended = old.ended

RoomAdvances(old, new) ==
  \/ new.rev > old.rev
  \/ new.rev = old.rev /\ RoomKept(old, new)

SeatAdvances(old, new) ==
  /\ new # NoSeat
  /\ new.seen >= old.seen
  /\ \/ new.rev > old.rev
     \/ new.rev = old.rev /\ seatContent(new) = seatContent(old)

\* A seat is freed for good, arrives, or moves forward in place.
SeatMoves(s, old, new) ==
  IF s \in new.freed THEN new.seats[s] = NoSeat
  ELSE old.seats[s] # NoSeat => SeatAdvances(old.seats[s], new.seats[s])

Init == record \in Doc \cup {NoDoc}

Open == record = NoDoc /\ record' \in Doc

Advance ==
  /\ record # NoDoc
  /\ record' \in Doc
  /\ RoomAdvances(record, record')
  /\ record.freed \subseteq record'.freed
  /\ record'.boardSeen >= record.boardSeen
  /\ \A s \in Student : SeatMoves(s, record, record')

Next == Open \/ Advance

Spec == Init /\ [][Next]_record
=============================================================================
