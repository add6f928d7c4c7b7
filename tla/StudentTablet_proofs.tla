------------------------ MODULE StudentTablet_proofs ------------------------
(***************************************************************************)
(* Theorems about StudentTablet, for any rooms, children, Drones, points,  *)
(* scenes and bounds: its types, that rooms do not mix, that there is a    *)
(* way out when there should be, and that reading again hides no step.     *)
(***************************************************************************)
EXTENDS StudentTablet, ClassroomDoc_proofs

\* A good document that seats only these.
Holds(doc, who) == doc \in Good /\ Seated(doc) \subseteq who

SoundCopy(copy, who) == Holds(copy.doc, who[copy.room])

\* Every copy of a room, wherever it is, seats only ids that took a seat in it.
Sound ==
  /\ disk # NoCopy => SoundCopy(disk, joined)
  /\ pending # NoCopy => SoundCopy(pending, joined)
  /\ asked # NoCopy => SoundCopy(asked, joined)
  /\ \A remote \in polls : SoundCopy(remote, joined)
  /\ \A r \in Room : Holds(store[r], joined[r])

\* What is read was tapped on the last step the rail showed.
Tapped == look.reading # 0 => look.tapped = look.live

IInv == TypeOK /\ Sound /\ Tapped

-----------------------------------------------------------------------------
(* Whom a document seats, after a merge and after a press. *)

LEMMA MergeHolds ==
  ASSUME NEW who, NEW a, NEW b, Holds(a, who), Holds(b, who)
  PROVE  Holds(Merge(a, b), who)
<1>1. a \in Good /\ b \in Good
  BY DEF Holds
<1> DEFINE room == IF a.rev > b.rev THEN a ELSE b
           freed == a.freed \cup b.freed
           seats == [s \in Student |-> IF s \in freed THEN NoSeat
                                       ELSE MergeSeat(a.seats[s], b.seats[s])]
<1>2. Merge(a, b).seats = seats
  BY <1>1, GoodFields DEF Merge, Doc
<1>3. ASSUME NEW s \in Student, seats[s] # NoSeat
      PROVE  a.seats[s] # NoSeat \/ b.seats[s] # NoSeat
  <2>1. a.seats[s] \in MaybeSeat /\ b.seats[s] \in MaybeSeat
    BY <1>1, GoodFields
  <2> QED BY <1>3, <2>1, MergeSeatKeeps
<1>4. Seated(Merge(a, b)) \subseteq Seated(a) \cup Seated(b)
  BY <1>2, <1>3 DEF Seated
<1> QED BY <1>1, <1>4, MergeKeeps DEF Holds

LEMMA StampHolds ==
  ASSUME NEW who, NEW prior, NEW session, Holds(prior, who), Holds(session, who)
  PROVE  Holds(stampRevisions(prior, session), who)
<1>1. prior \in Good /\ session \in Good
  BY DEF Holds
<1> DEFINE carried == CarryOver(prior, session)
           seats == [s \in Student |-> StampSeat(prior.seats[s], carried[s])]
<1>2. stampRevisions(prior, session).seats = seats
  BY <1>1, GoodFields DEF stampRevisions, Doc
<1>3. ASSUME NEW s \in Student, seats[s] # NoSeat
      PROVE  prior.seats[s] # NoSeat \/ session.seats[s] # NoSeat
  <2>1. carried[s] \in {prior.seats[s], session.seats[s]}
    BY DEF CarryOver
  <2>2. prior.seats[s] \in MaybeSeat /\ carried[s] \in MaybeSeat
    BY <1>1, <2>1, GoodFields
  <2>3. seats[s] = StampSeat(prior.seats[s], carried[s])
    OBVIOUS
  <2> HIDE DEF carried, seats
  <2>4. carried[s] # NoSeat
    BY <1>3, <2>2, <2>3, StampSeatKeeps
  <2> QED BY <2>1, <2>4
<1> HIDE DEF seats
<1>4. Seated(stampRevisions(prior, session)) \subseteq Seated(prior) \cup Seated(session)
  BY <1>2, <1>3 DEF Seated
<1> QED BY <1>1, <1>4, StampKeeps DEF Holds

\* Replacing the row of a child who is seated seats nobody else.
LEMMA RowHolds ==
  ASSUME NEW who, NEW doc, Holds(doc, who), NEW s \in Seated(doc), NEW seat,
         WithSeat(doc, s, seat) \in Good
  PROVE  Holds(WithSeat(doc, s, seat), who)
<1>1. doc \in Good /\ Seated(doc) \subseteq who
  BY DEF Holds
<1>2. \A u \in Student \ {s} : WithSeat(doc, s, seat).seats[u] = doc.seats[u]
  BY <1>1, GoodFields DEF WithSeat, Doc
<1>3. Seated(WithSeat(doc, s, seat)) \subseteq Seated(doc)
  BY <1>2 DEF Seated
<1> QED BY <1>1, <1>3 DEF Holds

\* Whatever else is rewritten, rows that were empty and stay empty seat nobody.
LEMMA SameRowsHold ==
  ASSUME NEW who, NEW doc, Holds(doc, who), NEW new \in Good,
         \A s \in Student : doc.seats[s] = NoSeat => new.seats[s] = NoSeat
  PROVE  Holds(new, who)
BY DEF Holds, Seated

LEMMA JoinHolds ==
  ASSUME NEW who, NEW doc, Holds(doc, who), NEW s \in Student, NEW name \in Name
  PROVE  Holds(joinClassroomAsStudent(doc, s, name), who \cup {s})
<1>1. doc \in Good /\ Seated(doc) \subseteq who
  BY DEF Holds
<1>2. \A u \in Student \ {s} : joinClassroomAsStudent(doc, s, name).seats[u] = doc.seats[u]
  BY <1>1, GoodFields DEF joinClassroomAsStudent, WithSeat, Doc
<1>3. Seated(joinClassroomAsStudent(doc, s, name)) \subseteq Seated(doc) \cup {s}
  BY <1>2 DEF Seated
<1> QED BY <1>1, <1>3, JoinKeeps DEF Holds

LEMMA TakeHolds ==
  ASSUME NEW who, NEW doc, Holds(doc, who), NEW s \in Seated(doc), NEW d \in Drone
  PROVE  /\ Holds(TakenBy(doc, s, d), who)
         /\ \A held \in Seated(doc) \ {s} : Holds(Reclaimed(doc, held, s, d), who)
<1>1. doc \in Good /\ Seated(doc) \subseteq who /\ s \in Student /\ s \in who
  BY DEF Holds, Seated
<1>2. Holds(TakenBy(doc, s, d), who)
  BY <1>1, TakenKeeps, RowHolds DEF TakenBy
<1>3. ASSUME NEW held \in Seated(doc) \ {s}
      PROVE  Holds(Reclaimed(doc, held, s, d), who)
  <2> DEFINE other == Dropped(doc, held)
  <2>1. held \in Student /\ other \in Good
        /\ \A u \in Student \ {held} : other.seats[u] = doc.seats[u]
    BY <1>1, DroppedKeeps DEF Seated
  <2>2. other.seats[held] = NoSeat
    BY <1>1, <2>1, GoodFields DEF Dropped, Doc
  <2>3. Holds(other, who) /\ s \in Seated(other)
    BY <1>1, <2>1, <2>2 DEF Holds, Seated
  <2>4. Reclaimed(doc, held, s, d) \in Good
    BY <1>1, TakenKeeps
  <2> HIDE DEF other
  <2>5. Reclaimed(doc, held, s, d)
          = WithSeat(other, s, [other.seats[s] EXCEPT !.drone = d])
    BY DEF Reclaimed, TakenBy, other
  <2> QED BY <2>3, <2>4, <2>5, RowHolds
<1> QED BY <1>2, <1>3

\* A seated child's own presses, and the board's approval.
LEMMA PressHolds ==
  ASSUME NEW who, NEW doc, Holds(doc, who), NEW s \in Seated(doc)
  PROVE  /\ Holds(updateSeatPhase(doc, s, "awaiting-clearance"), who)
         /\ doc.seats[s].phase = "returning" => Holds(updateSeatPhase(doc, s, "complete"), who)
         /\ Holds(markSeatFlown(doc, s), who)
         /\ allPointsReached(doc.seats[s]) => Holds(approveSeatTask(doc, s), who)
         /\ \A name \in Name : Holds(WithSeat(doc, s, [doc.seats[s] EXCEPT !.name = name]), who)
<1>1. doc \in Good
  BY DEF Holds
<1>2. doc.seats[s].name \in Name
  BY <1>1, SeatedIsGood DEF GoodSeat, Seat
<1> QED BY <1>1, <1>2, SeatPressKeeps, RowHolds DEF updateSeatPhase, markSeatFlown, approveSeatTask

\* What the board writes for a Drone.
LEMMA DroneHolds ==
  ASSUME NEW who, NEW doc, Holds(doc, who), NEW d \in Drone
  PROVE  /\ Holds(grantSeatsForDrone(doc, d), who)
         /\ Holds(holdSeatsForDrone(doc, d), who)
         /\ \A point \in Point : Holds(markPointsReached(doc, d, {point}), who)
<1>1. doc \in Good
  BY DEF Holds
<1>2. /\ seatsForDrone(doc, d) \in SUBSET Seated(doc)
      /\ Waiting(doc, d) \in SUBSET Seated(doc)
  BY DEF seatsForDrone, Waiting, SeatsOnDrone
<1>3. ASSUME NEW some \in SUBSET Seated(doc), NEW phase \in {"held", "cleared"},
             NEW cleared \in BOOLEAN
      PROVE  Holds(Answered(doc, some, phase, cleared), who)
  <2>1. Answered(doc, some, phase, cleared) \in Good
    BY <1>1, AnsweredKeeps
  <2>2. \A s \in Student : s \notin some =>
            Answered(doc, some, phase, cleared).seats[s] = doc.seats[s]
    BY <1>1, GoodFields DEF Answered, Doc
  <2> QED BY <2>1, <2>2, SameRowsHold DEF Seated
<1>4. ASSUME NEW point \in Point
      PROVE  Holds(markPointsReached(doc, d, {point}), who)
  <2>1. markPointsReached(doc, d, {point}) \in Good
    BY <1>1, ReachedKeeps
  <2>2. \A s \in Student : s \notin Seated(doc) =>
              markPointsReached(doc, d, {point}).seats[s] = doc.seats[s]
    BY <1>1, GoodFields DEF markPointsReached, SeatsOnDrone, Doc
  <2> QED BY <2>1, <2>2, SameRowsHold DEF Seated
<1> QED
  BY <1>2, <1>3, <1>4 DEF grantSeatsForDrone, holdSeatsForDrone

\* What the board writes about the room.
LEMMA RoomHolds ==
  ASSUME NEW who, NEW doc, Holds(doc, who), NEW n \in Nat
  PROVE  /\ Holds([doc EXCEPT !.brief = doc.brief + 1], who)
         /\ Holds([doc EXCEPT !.posts = doc.posts + 1], who)
         /\ Holds([doc EXCEPT !.ended = TRUE, !.live = FALSE], who)
         /\ Holds([doc EXCEPT !.boardSeen = n], who)
<1>1. doc \in Good /\ doc.live \in BOOLEAN /\ doc.brief + 1 \in Nat /\ doc.posts + 1 \in Nat
  BY GoodFields DEF Holds
<1>2. [doc EXCEPT !.brief = doc.brief + 1]
        = [doc EXCEPT !.brief = doc.brief + 1, !.live = doc.live]
  BY <1>1, GoodFields DEF Doc
<1>3. /\ [doc EXCEPT !.brief = doc.brief + 1, !.live = doc.live] \in Good
      /\ [doc EXCEPT !.posts = doc.posts + 1] \in Good
      /\ [doc EXCEPT !.ended = TRUE, !.live = FALSE] \in Good
      /\ [doc EXCEPT !.boardSeen = n] \in Good
  BY <1>1, RoomEditedKeeps
<1>4. /\ [doc EXCEPT !.brief = doc.brief + 1].seats = doc.seats
      /\ [doc EXCEPT !.posts = doc.posts + 1].seats = doc.seats
      /\ [doc EXCEPT !.ended = TRUE, !.live = FALSE].seats = doc.seats
      /\ [doc EXCEPT !.boardSeen = n].seats = doc.seats
  BY <1>1, GoodFields DEF Doc
<1> QED BY <1>2, <1>3, <1>4, SameRowsHold

-----------------------------------------------------------------------------
(* The tablet. *)

LEMMA HoldsIsDoc ==
  ASSUME NEW who, NEW doc, Holds(doc, who)
  PROVE  doc \in Good /\ doc \in Doc
BY DEF Holds, Good

\* More ids seated in a room does no harm to what was sound.
LEMMA HoldsMore ==
  ASSUME NEW who, NEW doc, Holds(doc, who), NEW more, who \subseteq more
  PROVE  Holds(doc, more)
BY DEF Holds

\* A screen that offers a Drone or a takeoff is the screen of a seated child.
LEMMA OfferedToTheSeated ==
  ASSUME TypeOK
  PROVE  /\ "name" \in Offers => disk # NoCopy
         /\ "drone" \in Offers \/ "ask" \in Offers => disk # NoCopy /\ me \in Seated(disk.doc)
         /\ "drone" \in Offers => disk.doc.seats[me].drone = NoDrone
<1> USE DEF Offers, Buttons, Screen
<1>1. disk = NoCopy => Offers = {"code"}
  BY DEF JoinClassroomDoor
<1>2. CASE disk # NoCopy
  <2>1. MySeat # NoSeat => me \in Seated(disk.doc) /\ MySeat = disk.doc.seats[me]
    BY <1>2 DEF TypeOK, MySeat, SeatIn, Seated
  <2>2. CASE HasDrone(MySeat)
    <3>1. Screen \in {"ClassroomOver", "LandNow", "LookingBack", "BackOnTheGround",
                      "LandOnYourPad", "RedZone", "LostTheBoard", "WhatIf", "TaskDone",
                      "Flying", "MissionBrief"}
      BY <1>2, <2>2 DEF StudentMission, SeatedStudent, StudentPhase, FlyingScreen
    <3>2. "name" \notin Offers /\ "drone" \notin Offers
      BY <1>2, <3>1 DEF ClassroomOver, StudentFrame, MissionBrief, TakeoffAnswer
    <3> QED BY <1>2, <2>1, <2>2, <3>2 DEF HasDrone
  <2>3. CASE ~HasDrone(MySeat)
    <3>1. CASE disk.doc.ended
      <4>1. Offers = {"leave"}
        BY <1>2, <2>3, <3>1 DEF StudentMission, ClassroomOver
      <4> QED BY <4>1
    <3>2. CASE ~disk.doc.ended /\ MySeat = NoSeat
      <4>1. "drone" \notin Offers /\ "ask" \notin Offers
        BY <1>2, <2>3, <3>2 DEF StudentMission, WhatIsYourName, StudentFrame
      <4> QED BY <1>2, <4>1
    <3>3. CASE ~disk.doc.ended /\ MySeat # NoSeat
      BY <1>2, <2>1, <2>3, <3>3 DEF HasDrone
    <3> QED BY <3>1, <3>2, <3>3
  <2> QED BY <2>2, <2>3
<1> QED BY <1>1, <1>2

\* Writing a session that holds leaves a copy that holds, on the disk and pending.
LEMMA WriteKeeps ==
  ASSUME TypeOK, Sound, disk # NoCopy, NEW who, NEW session,
         joined[disk.room] \subseteq who, Holds(session, who), Write(session)
  PROVE  /\ disk' \in Copy /\ pending' = disk' /\ disk'.room = disk.room
         /\ Holds(disk'.doc, who)
<1>1. disk \in Copy
  BY DEF TypeOK
<1>2. Holds(disk.doc, who)
  BY HoldsMore DEF Sound, SoundCopy
<1> DEFINE doc == stampRevisions(disk.doc, session)
<1>3. Holds(doc, who)
  BY <1>2, StampHolds
<1>4. doc \in Doc
  BY <1>3, HoldsIsDoc
<1> HIDE DEF doc
<1>5. disk' = [disk EXCEPT !.doc = doc] /\ pending' = disk'
  BY DEF Write, doc
<1>6. disk' \in Copy /\ disk'.room = disk.room /\ disk'.doc = doc
  BY <1>1, <1>4, <1>5 DEF Copy
<1> QED BY <1>3, <1>5, <1>6

\* A press that writes the room and moves nothing else keeps the invariant.
LEMMA PressedKeeps ==
  ASSUME IInv, disk # NoCopy, NEW session, Holds(session, joined[disk.room]), Write(session),
         UNCHANGED <<kept, me, door, look, polls, asked, store, sky, now, minted, joined, scene>>
  PROVE  IInv'
<1>1. /\ disk' \in Copy /\ pending' = disk' /\ disk'.room = disk.room
      /\ Holds(disk'.doc, joined[disk.room])
  BY WriteKeeps DEF IInv
<1> QED BY <1>1 DEF IInv, TypeOK, Sound, SoundCopy, Tapped

\* Taking a seat keeps it too: the id is then one that took a seat in the room.
LEMMA JoinAsKeeps ==
  ASSUME IInv, disk # NoCopy, NEW id \in Student, NEW name \in Name, JoinAs(id, name),
         minted' \subseteq Student,
         UNCHANGED <<door, look, polls, asked, store, sky, now, scene>>
  PROVE  IInv'
<1>1. disk \in Copy /\ disk.room \in Room /\ Holds(disk.doc, joined[disk.room])
  BY DEF IInv, TypeOK, Copy, Sound, SoundCopy
<1> DEFINE who == joined[disk.room] \cup {id}
           again == WithSeat(disk.doc, id, [disk.doc.seats[id] EXCEPT !.name = name])
           fresh == joinClassroomAsStudent(disk.doc, id, name)
           session == IF disk.doc.seats[id] # NoSeat THEN again ELSE fresh
<1>2. Holds(session, who)
  <2>1. disk.doc.seats[id] # NoSeat => Holds(again, joined[disk.room])
    BY <1>1, PressHolds DEF Seated
  <2>2. Holds(fresh, who)
    BY <1>1, JoinHolds
  <2> HIDE DEF again, fresh
  <2> QED BY <2>1, <2>2, HoldsMore
<1> HIDE DEF session
<1>3. Write(session) /\ kept' = [room |-> disk.room, id |-> id] /\ me' = id
      /\ joined' = [joined EXCEPT ![disk.room] = joined[disk.room] \cup {id}]
  BY DEF JoinAs, session
<1>4. /\ disk' \in Copy /\ pending' = disk' /\ disk'.room = disk.room
      /\ Holds(disk'.doc, who)
  BY <1>2, <1>3, WriteKeeps DEF IInv
<1>5. joined \in [Room -> SUBSET Student]
  BY DEF IInv, TypeOK
<1>6. /\ joined' \in [Room -> SUBSET Student] /\ joined'[disk.room] = who
      /\ \A r \in Room : joined[r] \subseteq joined'[r]
  BY <1>1, <1>3, <1>5
<1>7. TypeOK'
  BY <1>1, <1>3, <1>4, <1>6 DEF IInv, TypeOK, Kept
<1>8. Sound'
  <2>1. SoundCopy(disk', joined')
    BY <1>4, <1>6 DEF SoundCopy
  <2>2. ASSUME NEW c \in Copy, SoundCopy(c, joined)  PROVE SoundCopy(c, joined')
    BY <1>6, <2>2, HoldsMore DEF SoundCopy, Copy
  <2>3. asked' # NoCopy => SoundCopy(asked', joined')
    BY <2>2 DEF IInv, TypeOK, Sound
  <2>4. \A remote \in polls' : SoundCopy(remote, joined')
    BY <2>2 DEF IInv, TypeOK, Sound
  <2>5. \A r \in Room : Holds(store'[r], joined'[r])
    BY <1>6, HoldsMore DEF IInv, Sound
  <2> QED BY <1>4, <2>1, <2>3, <2>4, <2>5 DEF Sound
<1>9. Tapped'
  BY DEF IInv, Tapped
<1> QED BY <1>7, <1>8, <1>9 DEF IInv

\* What the board writes in a room keeps it.
LEMMA WritesKeeps ==
  ASSUME IInv, NEW r \in Room, NEW session, Holds(session, joined[r]), Writes(r, session)
  PROVE  IInv'
<1> DEFINE doc == stampRevisions(store[r], session)
<1>1. Holds(doc, joined[r])
  BY StampHolds DEF IInv, Sound
<1>2. doc \in Doc
  BY <1>1, HoldsIsDoc
<1> HIDE DEF doc
<1>3. store' = [store EXCEPT ![r] = doc]
      /\ UNCHANGED <<disk, kept, me, door, look, polls, asked, pending, sky, now, minted, joined, scene>>
  BY DEF Writes, doc
<1>4. TypeOK' /\ \A q \in Room : Holds(store'[q], joined'[q])
  BY <1>1, <1>2, <1>3 DEF IInv, TypeOK, Sound
<1> QED BY <1>3, <1>4 DEF IInv, Sound, SoundCopy, Tapped

-----------------------------------------------------------------------------
(* Every step. *)

LEMMA InitHolds == Init => IInv
<1>1. EmptySession \in Good /\ Seated(EmptySession) = {}
  BY EmptyIsGood DEF EmptySession, Seated
<1>2. [EmptySession EXCEPT !.live = TRUE] \in Good
  BY <1>1, GoodFields DEF Good, Doc
<1>3. [EmptySession EXCEPT !.live = TRUE].seats = EmptySession.seats
  BY DEF EmptySession
<1>4. Holds([EmptySession EXCEPT !.live = TRUE], {})
  BY <1>1, <1>2, <1>3 DEF Holds, Seated
<1>5. [EmptySession EXCEPT !.live = TRUE] \in Doc
  BY <1>4, HoldsIsDoc
<1> SUFFICES ASSUME Init PROVE IInv
  OBVIOUS
<1> DEFINE opened == [EmptySession EXCEPT !.live = TRUE]
<1>6. store = [r \in Room |-> opened] /\ opened \in Doc /\ Holds(opened, {})
  BY <1>4, <1>5 DEF Init
<1> HIDE DEF opened
<1>7. TypeOK
  <2>1. scene \in Scenes /\ sky \in scene.sights /\ now \in 1 .. scene.time
    BY TabletAssumption DEF Init
  <2>2. look \in [live : 0 .. 12, reading : 0 .. 12, tapped : 0 .. 12]
    BY DEF Init, NoLook
  <2>3. store \in [Room -> Doc] /\ joined \in [Room -> SUBSET Student]
    BY <1>6 DEF Init
  <2> QED BY <2>1, <2>2, <2>3 DEF Init, TypeOK
<1>8. Sound
  BY <1>6 DEF Init, Sound
<1> QED BY <1>7, <1>8 DEF Init, IInv, Tapped, NoLook

\* What the tablet does by itself.
LEMMA EffectKeeps == ASSUME IInv, Effect  PROVE IInv'
<1>1. ASSUME AutoSeat  PROVE IInv'
  <2>1. PICK name \in Name : JoinAs(kept.id, name)
    BY <1>1 DEF AutoSeat
  <2>2. disk # NoCopy /\ kept.id \in Student
    BY <1>1 DEF AutoSeat, NeedsSeat, IInv, TypeOK, Kept
  <2>3. minted' \subseteq Student
    BY <1>1 DEF AutoSeat, IInv, TypeOK
  <2> QED BY <1>1, <2>1, <2>2, <2>3, JoinAsKeeps DEF AutoSeat
<1>2. ASSUME disk # NoCopy, MySeat # NoSeat
      PROVE  Holds(disk.doc, joined[disk.room]) /\ me \in Seated(disk.doc)
             /\ MySeat = disk.doc.seats[me]
  BY <1>2 DEF IInv, TypeOK, Sound, SoundCopy, MySeat, SeatIn, Seated
<1>3. ASSUME SeeFlown  PROVE IInv'
  <2>1. disk # NoCopy /\ MySeat # NoSeat
    BY <1>3 DEF SeeFlown, NeedsFlown, HasDrone
  <2>2. Holds(markSeatFlown(disk.doc, me), joined[disk.room])
    BY <1>2, <2>1, PressHolds
  <2> QED BY <1>3, <2>1, <2>2, PressedKeeps DEF SeeFlown
<1>4. ASSUME SeeComplete  PROVE IInv'
  <2>1. disk # NoCopy /\ MySeat # NoSeat /\ MySeat.phase = "returning"
    BY <1>4 DEF SeeComplete, NeedsComplete, Mounted, HasDrone
  <2>2. Holds(updateSeatPhase(disk.doc, me, "complete"), joined[disk.room])
    BY <1>2, <2>1, PressHolds
  <2> QED BY <1>4, <2>1, <2>2, PressedKeeps DEF SeeComplete
<1>5. ASSUME Render  PROVE IInv'
  <2>1. studentStep(disk.doc, MySeat, sky) \in 0 .. 12
    BY DEF studentStep, StepInTheAir, StepOnTheGround
  <2>2. look' \in [live : 0 .. 12, reading : 0 .. 12, tapped : 0 .. 12] /\ Tapped'
    BY <1>5, <2>1 DEF Render, Rendered, PutAway, NoLook, IInv, TypeOK, Tapped
  <2> QED BY <1>5, <2>2 DEF Render, IInv, TypeOK, Sound, SoundCopy
<1> QED BY <1>1, <1>3, <1>4, <1>5 DEF Effect

\* What the child presses.
LEMMA ChildKeeps == ASSUME IInv, Child  PROVE IInv'
<1> USE DEF Pressed
<1>0. TypeOK /\ Sound
  BY DEF IInv
<1>1. ASSUME NEW r \in scene.rooms, TypeCode(r)  PROVE IInv'
  <2>1. r \in Room
    BY <1>0, TabletAssumption DEF TypeOK
  <2>2. asked' \in Copy /\ Holds(asked'.doc, joined[asked'.room])
    BY <1>0, <1>1, <2>1 DEF TypeCode, TypeOK, Sound, Copy
  <2> QED BY <1>1, <2>2 DEF TypeCode, IInv, TypeOK, Sound, SoundCopy, Tapped
<1>2. ASSUME TypeName  PROVE IInv'
  <2>1. PICK id \in scene.ids \ minted, name \in Name :
            JoinAs(id, name) /\ minted' = minted \cup {id}
    BY <1>2 DEF TypeName
  <2>2. id \in Student /\ minted' \subseteq Student
    BY <1>0, <2>1, TabletAssumption DEF TypeOK
  <2>3. disk # NoCopy
    BY <1>0, <1>2, OfferedToTheSeated DEF TypeName
  <2> QED BY <1>2, <2>1, <2>2, <2>3, JoinAsKeeps DEF TypeName
<1>3. ASSUME NEW d \in Drone, takeDroneSeat(d)  PROVE IInv'
  <2>1. disk # NoCopy /\ me \in Seated(disk.doc) /\ disk.doc.seats[me].drone = NoDrone
    BY <1>0, <1>3, OfferedToTheSeated DEF takeDroneSeat
  <2>2. Holds(disk.doc, joined[disk.room])
    BY <1>0, <2>1 DEF Sound, SoundCopy
  <2>3. CASE Write(TakenBy(disk.doc, me, d))
    <3>1. Holds(TakenBy(disk.doc, me, d), joined[disk.room])
      BY <2>1, <2>2, TakeHolds
    <3> QED BY <1>3, <2>1, <2>3, <3>1, PressedKeeps DEF takeDroneSeat
  <2>4. CASE \E held \in SeatsOnDrone(disk.doc, d) : Write(Reclaimed(disk.doc, held, me, d))
    <3>1. PICK held \in SeatsOnDrone(disk.doc, d) : Write(Reclaimed(disk.doc, held, me, d))
      BY <2>4
    <3>2. held \in Seated(disk.doc) \ {me}
      BY <2>1, DroneAssumption DEF SeatsOnDrone
    <3>3. Holds(Reclaimed(disk.doc, held, me, d), joined[disk.room])
      BY <2>1, <2>2, <3>2, TakeHolds
    <3> QED BY <1>3, <2>1, <3>1, <3>3, PressedKeeps DEF takeDroneSeat
  <2> QED BY <1>3, <2>3, <2>4 DEF takeDroneSeat
<1>4. ASSUME requestTakeoff  PROVE IInv'
  <2>1. disk # NoCopy /\ me \in Seated(disk.doc)
    BY <1>0, <1>4, OfferedToTheSeated DEF requestTakeoff
  <2>2. Holds(disk.doc, joined[disk.room])
    BY <1>0, <2>1 DEF Sound, SoundCopy
  <2>3. Holds(updateSeatPhase(disk.doc, me, "awaiting-clearance"), joined[disk.room])
    BY <2>1, <2>2, PressHolds
  <2> QED BY <1>4, <2>1, <2>3, PressedKeeps DEF requestTakeoff
<1>5. ASSUME NEW k \in Reread, LookBack(k)  PROVE IInv'
  <2>1. k \in 1 .. 12
    BY TabletAssumption
  <2>2. look \in [live : 0 .. 12, reading : 0 .. 12, tapped : 0 .. 12]
    BY <1>0 DEF TypeOK
  <2>3. look' = [live |-> look.live, reading |-> k, tapped |-> look.live]
    BY <1>5, <2>2 DEF LookBack
  <2>4. look' \in [live : 0 .. 12, reading : 0 .. 12, tapped : 0 .. 12] /\ Tapped'
    BY <2>1, <2>2, <2>3 DEF Tapped
  <2> QED BY <1>5, <2>4 DEF LookBack, IInv, TypeOK, Sound, SoundCopy
<1>6. ASSUME BackToNow  PROVE IInv'
  BY <1>6 DEF BackToNow, PutAway, NoLook, IInv, TypeOK, Sound, SoundCopy, Tapped
<1>7. ASSUME leaveClassroom \/ changeClassroom  PROVE IInv'
  BY <1>7 DEF leaveClassroom, changeClassroom, NoLook, IInv, TypeOK, Sound, SoundCopy, Tapped
<1>8. ASSUME Reload  PROVE IInv'
  BY <1>8 DEF Reload, NoLook, IInv, TypeOK, Kept, Sound, SoundCopy, Tapped
<1> QED BY <1>1, <1>2, <1>3, <1>4, <1>5, <1>6, <1>7, <1>8 DEF Child

\* What the network carries, in whichever order.
LEMMA NetworkKeeps == ASSUME IInv, Network  PROVE IInv'
<1>0. TypeOK /\ Sound
  BY DEF IInv
<1>1. ASSUME AskPoll  PROVE IInv'
  <2>1. disk.room \in Room
    BY <1>0, <1>1 DEF AskPoll, TypeOK, Copy
  <2> DEFINE answer == [room |-> disk.room, doc |-> store[disk.room]]
  <2>2. answer \in Copy /\ SoundCopy(answer, joined)
    BY <1>0, <2>1 DEF TypeOK, Copy, Sound, SoundCopy
  <2> HIDE DEF answer
  <2>3. polls' = polls \cup {answer}
    BY <1>1 DEF AskPoll, answer
  <2> QED BY <1>1, <2>2, <2>3 DEF AskPoll, IInv, TypeOK, Sound, SoundCopy, Tapped
<1>2. ASSUME LandPoll  PROVE IInv'
  <2>1. PICK remote \in polls :
          LET merged == mergeClassroomSessions(disk, remote)
          IN  /\ disk' \in {merged, disk} /\ (disk = NoCopy => disk' = merged)
              /\ pending' \in {merged, pending}
              /\ polls' = polls \ {remote}
              /\ UNCHANGED <<kept, me, door, look, asked, store, sky, now, minted, joined, scene>>
    BY <1>2 DEF LandPoll
  <2> DEFINE merged == mergeClassroomSessions(disk, remote)
  <2>2. remote \in Copy /\ SoundCopy(remote, joined)
    BY <1>0, <2>1 DEF TypeOK, Sound
  <2>3. merged \in Copy /\ SoundCopy(merged, joined)
    <3>1. CASE disk = NoCopy
      BY <2>2, <3>1 DEF mergeClassroomSessions
    <3>2. CASE disk # NoCopy
      <4>1. disk \in Copy /\ SoundCopy(disk, joined)
        BY <1>0, <3>2 DEF TypeOK, Sound
      <4>2. CASE disk.room # remote.room
        BY <3>2, <4>1, <4>2 DEF mergeClassroomSessions
      <4>3. CASE disk.room = remote.room
        <5> DEFINE doc == Merge(disk.doc, remote.doc)
        <5>1. Holds(doc, joined[disk.room])
          BY <2>2, <4>1, <4>3, MergeHolds DEF SoundCopy
        <5>2. doc \in Doc
          BY <5>1, HoldsIsDoc
        <5> HIDE DEF doc
        <5>3. merged = [disk EXCEPT !.doc = doc]
          BY <3>2, <4>3 DEF mergeClassroomSessions, doc
        <5>4. merged \in Copy /\ merged.room = disk.room /\ merged.doc = doc
          BY <4>1, <5>2, <5>3 DEF Copy
        <5> QED BY <5>1, <5>4 DEF SoundCopy
      <4> QED BY <4>2, <4>3
    <3> QED BY <3>1, <3>2
  <2> HIDE DEF merged
  <2>4. /\ disk' \in {merged, disk} /\ pending' \in {merged, pending}
        /\ polls' = polls \ {remote}
        /\ UNCHANGED <<kept, me, door, look, asked, store, sky, now, minted, joined, scene>>
    BY <2>1 DEF merged
  <2>5. TypeOK'
    BY <1>0, <2>3, <2>4 DEF TypeOK
  <2>6. Sound'
    BY <1>0, <2>3, <2>4 DEF Sound, SoundCopy
  <2> QED BY <2>4, <2>5, <2>6 DEF IInv, Tapped
<1>3. ASSUME loadClassroomByCode  PROVE IInv'
  BY <1>3 DEF loadClassroomByCode, IInv, TypeOK, Sound, SoundCopy, Tapped
<1>4. ASSUME pushClassroomToCloud  PROVE IInv'
  <2> DEFINE doc == mergeClassrooms(pending.doc, store[pending.room])
  <2>1. pending \in Copy /\ SoundCopy(pending, joined)
    BY <1>0, <1>4 DEF pushClassroomToCloud, TypeOK, Sound
  <2>2. pending.room \in Room /\ store[pending.room] # NoDoc
    BY <1>0, <2>1, NullAssumption DEF TypeOK, Copy
  <2>3. Holds(doc, joined[pending.room])
    BY <1>0, <2>1, <2>2, MergeHolds DEF mergeClassrooms, Sound, SoundCopy
  <2>4. doc \in Doc
    BY <2>3, HoldsIsDoc
  <2> HIDE DEF doc
  <2>5. store' = [store EXCEPT ![pending.room] = doc]
    BY <1>4 DEF pushClassroomToCloud, doc
  <2>6. store' \in [Room -> Doc] /\ \A r \in Room : Holds(store'[r], joined[r])
    BY <1>0, <2>2, <2>3, <2>4, <2>5 DEF TypeOK, Sound
  <2> QED BY <1>4, <2>6 DEF pushClassroomToCloud, IInv, TypeOK, Sound, SoundCopy, Tapped
<1>5. ASSUME LosePush  PROVE IInv'
  BY <1>5 DEF LosePush, IInv, TypeOK, Sound, SoundCopy, Tapped
<1> QED BY <1>1, <1>2, <1>3, <1>4, <1>5 DEF Network

\* What the board writes.
LEMMA TeacherKeeps == ASSUME IInv, Teacher  PROVE IInv'
<1>1. PICK r \in Room :
        \/ openClassroom(r) \/ pushClassroomInstruction(r)
        \/ closeClassroom(r) \/ touchBoard(r)
        \/ \E d \in Drone :
             Grant(r, d) \/ Hold(r, d) \/ \E point \in Point : Reach(r, d, point)
        \/ \E s \in Student : Approve(r, s)
  BY TabletAssumption DEF Teacher, IInv, TypeOK
<1>2. Holds(store[r], joined[r]) /\ now \in Nat
  BY <1>1, TabletAssumption DEF IInv, Sound, TypeOK
<1>3. ASSUME openClassroom(r) \/ pushClassroomInstruction(r) \/ closeClassroom(r) \/ touchBoard(r)
      PROVE  IInv'
  BY <1>2, <1>3, RoomHolds, WritesKeeps
     DEF openClassroom, pushClassroomInstruction, closeClassroom, touchBoard
<1>4. ASSUME NEW d \in Drone, Grant(r, d) \/ Hold(r, d)  PROVE IInv'
  <2>1. Holds(grantSeatsForDrone(store[r], d), joined[r])
        /\ Holds(holdSeatsForDrone(store[r], d), joined[r])
    BY <1>2, DroneHolds
  <2> QED BY <1>4, <2>1, WritesKeeps DEF Grant, Hold
<1>5. ASSUME NEW d \in Drone, NEW point \in Point, Reach(r, d, point)  PROVE IInv'
  <2>1. Holds(markPointsReached(store[r], d, {point}), joined[r])
    BY <1>2, DroneHolds
  <2> QED BY <1>5, <2>1, WritesKeeps DEF Reach
<1>6. ASSUME NEW s \in Student, Approve(r, s)  PROVE IInv'
  <2>1. s \in Seated(store[r]) /\ allPointsReached(store[r].seats[s])
    BY <1>6 DEF Approve
  <2>2. Holds(approveSeatTask(store[r], s), joined[r])
    BY <1>2, <2>1, PressHolds
  <2> QED BY <1>6, <2>2, WritesKeeps DEF Approve
<1> QED BY <1>1, <1>3, <1>4, <1>5, <1>6

-----------------------------------------------------------------------------
(* The theorems. *)

\* The types, the rows of every copy of a room and what the rail remembers are kept
\* by every press, effect, answer, lost push and reload.
THEOREM TabletInductive == Spec => []IInv
<1>1. ASSUME IInv, [Next]_vars  PROVE IInv'
  <2>1. CASE Fly
    BY <1>1, <2>1 DEF Fly, IInv, TypeOK, Sound, SoundCopy, Tapped
  <2>2. CASE Tick
    <3>1. now' \in 1 .. scene.time
      <4>1. scene.time \in Nat /\ now \in 1 .. scene.time
        BY <1>1, TabletAssumption DEF IInv, TypeOK
      <4> QED BY <2>2, <4>1 DEF Tick
    <3> QED BY <1>1, <2>2, <3>1 DEF Tick, IInv, TypeOK, Sound, SoundCopy, Tapped
  <2>3. CASE UNCHANGED vars
    BY <1>1, <2>3 DEF vars, IInv, TypeOK, Sound, SoundCopy, Tapped
  <2> QED
    BY <1>1, <2>1, <2>2, <2>3, EffectKeeps, ChildKeeps, NetworkKeeps, TeacherKeeps DEF Next
<1> QED BY <1>1, InitHolds, PTL DEF Spec

\* Every variable keeps its type.
THEOREM TabletTypeCorrect == Spec => []TypeOK
<1>1. IInv => TypeOK
  BY DEF IInv
<1> QED BY <1>1, TabletInductive, PTL

\* A room's store seats only ids that took a seat in that room, however often the
\* tablet changes rooms with answers and a push of the old one on their way.
THEOREM RoomsNeverMix == Spec => []RoomsStayApart
<1>1. IInv => RoomsStayApart
  BY DEF IInv, Sound, Holds, RoomsStayApart
<1> QED BY <1>1, TabletInductive, PTL

\* A flying child is not sent to the door while the board speaks, and a quiet board
\* shuts nobody in, on any screen, in any room and phase.
THEOREM ThereIsAWayOut == Spec => []WayOut
<1>1. TypeOK => WayOut
  <2> SUFFICES ASSUME TypeOK, disk # NoCopy
               PROVE  LET quiet == boardQuiet(disk.doc, now)
                          up == HasDrone(MySeat) /\ Airborne(MySeat, sky)
                      IN  /\ up /\ ~quiet => Offers \cap {"leave", "change"} = {}
                          /\ quiet /\ Screen # "RedZone" => "leave" \in Offers
    BY DEF WayOut
  <2> DEFINE quiet == boardQuiet(disk.doc, now)
             up == HasDrone(MySeat) /\ Airborne(MySeat, sky)
  <2>1. canLeave <=> ~up \/ quiet
    BY DEF canLeave, mayLeaveClassroom
  <2>2. CASE up
    <3>1. Screen \in {"LandNow", "LookingBack", "LandOnYourPad", "RedZone",
                      "LostTheBoard", "WhatIf", "TaskDone", "Flying"}
          /\ (quiet => Screen \in {"LandNow", "LandOnYourPad", "RedZone", "LostTheBoard"})
          /\ (~quiet => Screen # "LostTheBoard")
      BY <2>2 DEF Screen, StudentMission, SeatedStudent, StudentPhase, FlyingScreen,
                  LooksBack, Shouting, Finished
    <3> QED BY <2>1, <2>2, <3>1 DEF Offers, Buttons, StudentFrame
  <2>3. CASE ~up
    <3>1. Screen \in {"ClassroomOver", "WhatIsYourName", "WhichDrone", "LookingBack",
                      "BackOnTheGround", "LandOnYourPad", "LostTheBoard", "MissionBrief"}
          /\ (quiet => Screen # "LookingBack")
      BY <2>3 DEF Screen, StudentMission, SeatedStudent, StudentPhase, LooksBack,
                  Shouting, InRedZone
    <3> QED BY <2>1, <2>3, <3>1
            DEF Offers, Buttons, StudentFrame, ClassroomOver, WhatIsYourName,
                WhichDroneAreYouHolding, MissionBrief
  <2> QED BY <2>2, <2>3
<1>2. IInv => TypeOK
  BY DEF IInv
<1> QED BY <1>1, <1>2, TabletInductive, PTL

\* An old step stays open only while the lesson is where it was when it was tapped.
THEOREM ReadingHidesNoStep == Spec => []ReadingStepsAside
<1>1. IInv => ReadingStepsAside
  <2> SUFFICES ASSUME IInv, Settled, Screen = "LookingBack"
               PROVE  /\ look.tapped = studentStep(disk.doc, MySeat, sky)
                      /\ ~InRedZone(MySeat, sky) /\ ~boardQuiet(disk.doc, now)
    BY DEF ReadingStepsAside
  <2>1. Mounted /\ LooksBack(disk.doc, MySeat, sky, now, look.reading)
    BY DEF Screen, StudentMission, SeatedStudent, StudentPhase, FlyingScreen, Mounted
  <2>2. look.reading # 0 /\ ~InRedZone(MySeat, sky) /\ ~boardQuiet(disk.doc, now)
    BY <2>1 DEF LooksBack, Shouting
  <2>3. look.live = studentStep(disk.doc, MySeat, sky)
    <3>1. look = Rendered
      BY DEF Settled
    <3>2. CASE look.live = studentStep(disk.doc, MySeat, sky)
      BY <3>2
    <3>3. CASE look.live # studentStep(disk.doc, MySeat, sky)
      <4>1. look = PutAway(studentStep(disk.doc, MySeat, sky))
        BY <2>1, <3>1, <3>3 DEF Rendered
      <4>2. look.reading = 0
        BY <4>1 DEF PutAway, NoLook
      <4> QED BY <2>2, <4>2
    <3> QED BY <3>2, <3>3
  <2> QED BY <2>2, <2>3 DEF IInv, Tapped
<1> QED BY <1>1, TabletInductive, PTL
=============================================================================
