------------------------ MODULE ClassroomSync_proofs ------------------------
(***************************************************************************)
(* What ClassroomSync keeps, for every set of tablets, Drones, names and   *)
(* points, every press and every bound: the inductive invariant IInv says  *)
(* that every copy of the document, wherever it is, is a good one, and     *)
(* that a device shows a room only once it has one.  On top of it, and for *)
(* devices whose screen follows their disk: TapInv (the copies agree on    *)
(* each child's Drone) and EndInv (what is newer than an ended room ended).*)
(***************************************************************************)
EXTENDS ClassroomSync, ClassroomDoc_proofs

MaybeGood == Good \cup {NoDoc}

IInv ==
  /\ disk \in [Device -> MaybeGood]
  /\ screen \in [Device -> MaybeGood]
  /\ pending \in [Device -> MaybeGood]
  /\ puts \in [Device -> SUBSET Good]
  /\ replies \in [Device -> SUBSET Good]
  /\ store \in MaybeGood
  /\ writes \in [Device -> Nat]
  /\ screen[Board] # NoDoc
  /\ \A d \in Device : screen[d] # NoDoc => disk[d] # NoDoc

\* The step of OnlyFreedLeave.
NoneLost == \A d \in Device : disk[d] # NoDoc => SeatStays(disk[d], disk'[d])

\* A good copy is a document, not the absence of one.
LEMMA GoodIsNotNull == NoDoc \notin Good
BY NullAssumption DEF Good

\* The board is a device, and no tablet is the board.
LEMMA BoardIsADevice == Board \in Device /\ \A t \in Tablet : t \in Device /\ t # Board
BY DeviceAssumption DEF Device

\* The board always has a room, on disk and on screen.
LEMMA BoardHasARoom ==
  ASSUME IInv
  PROVE  disk[Board] \in Good /\ screen[Board] \in Good
BY BoardIsADevice DEF IInv, MaybeGood

\* A device that has a room has a good one; what it shows is good as well.
LEMMA RoomsAreGood ==
  ASSUME IInv, NEW d \in Device
  PROVE  /\ disk[d] # NoDoc => disk[d] \in Good
         /\ screen[d] # NoDoc => screen[d] \in Good /\ disk[d] \in Good
BY DEF IInv, MaybeGood

-----------------------------------------------------------------------------
(* Writing. *)

\* writeClassroomSession leaves a good copy on the disk that lost nobody.
LEMMA SaveKeeps ==
  ASSUME IInv, NEW d \in Device, disk[d] # NoDoc, NEW session \in Good,
         NEW cloud \in BOOLEAN, Save(d, session, cloud)
  PROVE  /\ disk' \in [Device -> MaybeGood] /\ disk'[d] \in Good
         /\ pending' \in [Device -> MaybeGood]
         /\ \A e \in Device : disk[e] # NoDoc => disk'[e] # NoDoc
         /\ NoneLost
<1> DEFINE next == stampRevisions(disk[d], session)
<1>1. disk[d] \in Good
  BY RoomsAreGood
<1>2. /\ next \in Good
      /\ next.freed = session.freed
      /\ \A s \in Student : disk[d].seats[s] # NoSeat =>
           next.seats[s] # NoSeat \/ s \in session.freed
  BY <1>1, StampKeeps
<1>3. SeatStays(disk[d], next)
  BY <1>2 DEF SeatStays, Seated
<1>4. /\ disk' = [disk EXCEPT ![d] = next]
      /\ pending' = IF cloud THEN [pending EXCEPT ![d] = next] ELSE pending
  BY DEF Save
<1> HIDE DEF next
<1>5. disk' \in [Device -> MaybeGood] /\ disk'[d] = next
      /\ \A e \in Device \ {d} : disk'[e] = disk[e]
  BY <1>2, <1>4 DEF IInv, MaybeGood
<1>6. pending' \in [Device -> MaybeGood]
  BY <1>2, <1>4 DEF IInv, MaybeGood
<1>7. NoneLost
  BY <1>3, <1>5 DEF NoneLost, SeatStays, Seated
<1> QED BY <1>2, <1>5, <1>6, <1>7, GoodIsNotNull

\* A press from the screen, of a good session, keeps the invariant.
LEMMA PressShownKeeps ==
  ASSUME IInv, NEW d \in Device, disk[d] # NoDoc, NEW session \in Good,
         PressShown(d, session)
  PROVE  IInv' /\ NoneLost /\ UNCHANGED store
<1>1. Save(d, session, TRUE)
  BY DEF PressShown
<1>2. /\ disk' \in [Device -> MaybeGood] /\ disk'[d] \in Good
      /\ pending' \in [Device -> MaybeGood]
      /\ \A e \in Device : disk[e] # NoDoc => disk'[e] # NoDoc
      /\ NoneLost
  BY <1>1, SaveKeeps
<1>3. /\ screen' = [screen EXCEPT ![d] = disk'[d]]
      /\ writes' = [writes EXCEPT ![d] = writes[d] + 1]
      /\ UNCHANGED <<puts, replies, store>>
  BY DEF PressShown, Count
<1>4. screen' \in [Device -> MaybeGood] /\ writes' \in [Device -> Nat]
  BY <1>2, <1>3 DEF IInv, MaybeGood
<1>5. screen'[Board] # NoDoc /\ \A e \in Device : screen'[e] # NoDoc => disk'[e] # NoDoc
  BY <1>2, <1>3, GoodIsNotNull, BoardIsADevice DEF IInv
<1> QED BY <1>2, <1>3, <1>4, <1>5 DEF IInv

\* ... and so does a save whose result the screen learns of through the channel.
LEMMA EchoKeeps ==
  ASSUME IInv, NEW d \in Device, disk[d] # NoDoc, NEW session \in Good,
         NEW cloud \in BOOLEAN, Save(d, session, cloud), Echo(d),
         puts' \in [Device -> SUBSET Good], writes' \in [Device -> Nat],
         UNCHANGED <<replies, store>>
  PROVE  IInv' /\ NoneLost /\ UNCHANGED store
<1>1. /\ disk' \in [Device -> MaybeGood] /\ disk'[d] \in Good
      /\ pending' \in [Device -> MaybeGood]
      /\ \A e \in Device : disk[e] # NoDoc => disk'[e] # NoDoc
      /\ NoneLost
  BY SaveKeeps
<1>2. screen' = screen \/ screen' = [screen EXCEPT ![d] = disk'[d]]
  BY DEF Echo
<1>3. screen' \in [Device -> MaybeGood]
  BY <1>1, <1>2 DEF IInv, MaybeGood
<1>4. screen'[Board] # NoDoc /\ \A e \in Device : screen'[e] # NoDoc => disk'[e] # NoDoc
  BY <1>1, <1>2, GoodIsNotNull, BoardIsADevice DEF IInv
<1> QED BY <1>1, <1>3, <1>4 DEF IInv

\* A press that starts from the disk, of a good session, keeps the invariant.
LEMMA PressFreshKeeps ==
  ASSUME IInv, NEW d \in Device, disk[d] # NoDoc, NEW session \in Good,
         PressFresh(d, session)
  PROVE  IInv' /\ NoneLost /\ UNCHANGED store
<1>1. /\ Save(d, session, TRUE) /\ Echo(d) /\ UNCHANGED <<puts, replies, store>>
      /\ writes' = [writes EXCEPT ![d] = writes[d] + 1]
  BY DEF PressFresh, Count
<1>2. puts' \in [Device -> SUBSET Good] /\ writes' \in [Device -> Nat]
  BY <1>1 DEF IInv
<1> QED BY <1>1, <1>2, EchoKeeps

-----------------------------------------------------------------------------
(* Every press. *)

\* The effect of ClassroomOpen.
LEMMA OpenKeeps ==
  ASSUME IInv, NEW brief \in Nat, NEW live \in BOOLEAN, OpenClassroom(brief, live)
  PROVE  IInv' /\ NoneLost /\ UNCHANGED store
<1> DEFINE next == [disk[Board] EXCEPT !.brief = brief, !.live = live]
<1>1. disk[Board] \in Good /\ disk[Board] # NoDoc
  BY BoardHasARoom, GoodIsNotNull
<1>2. next \in Good
  BY <1>1, RoomEditedKeeps
<1>3. /\ Save(Board, next, TRUE) /\ Echo(Board) /\ UNCHANGED <<replies, store>>
      /\ writes' = writes \/ writes' = [writes EXCEPT ![Board] = writes[Board] + 1]
      /\ puts' = [puts EXCEPT ![Board] = puts[Board] \cup {disk'[Board]}]
  BY DEF OpenClassroom, Count, Sent
<1> HIDE DEF next
<1>4. disk'[Board] \in Good
  BY <1>1, <1>2, <1>3, BoardIsADevice, SaveKeeps
<1>5. puts' \in [Device -> SUBSET Good] /\ writes' \in [Device -> Nat]
  BY <1>3, <1>4, BoardIsADevice DEF IInv
<1> QED BY <1>1, <1>2, <1>3, <1>5, BoardIsADevice, EchoKeeps

\* Everything the Teacher presses.
LEMMA BoardKeeps ==
  ASSUME IInv, BoardWrites
  PROVE  IInv' /\ NoneLost /\ UNCHANGED store
<1>1. /\ Board \in Device /\ disk[Board] \in Good /\ disk[Board] # NoDoc
      /\ screen[Board] \in Good
  BY BoardHasARoom, BoardIsADevice, GoodIsNotNull
<1>2. CASE OpensClassroom
  <2>1. disk[Board].brief \in Nat /\ disk[Board].live \in BOOLEAN
    BY <1>1, GoodFields
  <2>2. PICK brief \in {disk[Board].brief, disk[Board].brief + 1},
             live \in {disk[Board].live, TRUE} : OpenClassroom(brief, live)
    BY <1>2 DEF OpensClassroom
  <2>3. brief \in Nat
    BY <2>1
  <2>4. live \in BOOLEAN
    BY <2>1, Zenon
  <2> QED BY <2>2, <2>3, <2>4, OpenKeeps
<1>3. CASE pushClassroomInstruction
  <2> DEFINE next == [disk[Board] EXCEPT !.posts = disk[Board].posts + 1]
  <2>1. PressFresh(Board, next)
    BY <1>3 DEF pushClassroomInstruction
  <2>2. next \in Good
    <3>1. disk[Board].posts + 1 \in Nat
      BY <1>1, GoodFields
    <3> QED BY <1>1, <3>1, RoomEditedKeeps
  <2> QED BY <1>1, <2>1, <2>2, PressFreshKeeps
<1>4. CASE closeClassroom
  <2> DEFINE next == [disk[Board] EXCEPT !.ended = TRUE, !.live = FALSE]
  <2>1. PressFresh(Board, next)
    BY <1>4 DEF closeClassroom
  <2>2. next \in Good
    BY <1>1, RoomEditedKeeps
  <2> QED BY <1>1, <2>1, <2>2, PressFreshKeeps
<1>5. ASSUME NEW d \in Drone, Grant(d) \/ Hold(d)
      PROVE  IInv' /\ NoneLost /\ UNCHANGED store
  <2>1. /\ seatsForDrone(disk[Board], d) \in SUBSET Seated(disk[Board])
        /\ Waiting(disk[Board], d) \in SUBSET Seated(disk[Board])
    BY DEF seatsForDrone, Waiting, SeatsOnDrone
  <2>2. /\ grantSeatsForDrone(disk[Board], d) \in Good
        /\ holdSeatsForDrone(disk[Board], d) \in Good
    BY <1>1, <2>1, AnsweredKeeps DEF grantSeatsForDrone, holdSeatsForDrone
  <2> QED BY <1>1, <1>5, <2>2, PressFreshKeeps DEF Grant, Hold
<1>6. ASSUME NEW d \in Drone, NEW point \in Point, Reach(d, point)
      PROVE  IInv' /\ NoneLost /\ UNCHANGED store
  <2>1. markPointsReached(disk[Board], d, {point}) \in Good
    BY <1>1, ReachedKeeps
  <2> QED BY <1>1, <1>6, <2>1, PressFreshKeeps DEF Reach
<1>7. ASSUME NEW d \in Drone, Free(d)
      PROVE  IInv' /\ NoneLost /\ UNCHANGED store
  <2>1. PICK held \in SeatsOnDrone(screen[Board], d) :
           PressShown(Board, Dropped(screen[Board], held))
    BY <1>7 DEF Free
  <2>2. Dropped(screen[Board], held) \in Good
    BY <1>1, DroppedKeeps DEF SeatsOnDrone, Seated
  <2> QED BY <1>1, <2>1, <2>2, PressShownKeeps
<1>8. ASSUME NEW d \in Drone, NEW name \in Name, RenameByHand(d, name)
      PROVE  IInv' /\ NoneLost /\ UNCHANGED store
  <2>1. PICK held \in SeatsOnDrone(screen[Board], d) :
           PressShown(Board, WithSeat(screen[Board], held,
                               [screen[Board].seats[held] EXCEPT !.name = name]))
    BY <1>8 DEF RenameByHand
  <2>2. WithSeat(screen[Board], held, [screen[Board].seats[held] EXCEPT !.name = name])
          \in Good
    BY <1>1, SeatPressKeeps DEF SeatsOnDrone
  <2> QED BY <1>1, <2>1, <2>2, PressShownKeeps
<1>9. ASSUME NEW d \in Drone, NEW name \in Name, SeatByHand(d, name)
      PROVE  IInv' /\ NoneLost /\ UNCHANGED store
  <2>1. PICK h \in HandId :
           /\ Minted(h)
           /\ PressShown(Board, WithSeat(screen[Board], h, NewSeat(name, d)))
    BY <1>9 DEF SeatByHand
  <2>2. h \in Student /\ h \notin screen[Board].freed
    BY <1>1, <2>1, DeviceAssumption, GoodIsNotNull DEF Minted, Docs
  <2>3. WithSeat(screen[Board], h, NewSeat(name, d)) \in Good
    BY <1>1, <2>2, HandSeatKeeps
  <2> QED BY <1>1, <2>1, <2>3, PressShownKeeps
<1>10. ASSUME NEW s \in Student, Approve(s)
       PROVE  IInv' /\ NoneLost /\ UNCHANGED store
  <2>1. /\ s \in Seated(screen[Board]) /\ allPointsReached(screen[Board].seats[s])
        /\ PressShown(Board, approveSeatTask(screen[Board], s))
    BY <1>10 DEF Approve
  <2>2. approveSeatTask(screen[Board], s) \in Good
    <3>1. PICK name \in Name : TRUE
      BY <1>1, <2>1, SeatedIsGood DEF GoodSeat, Seat
    <3> QED BY <1>1, <2>1, <3>1, SeatPressKeeps
  <2> QED BY <1>1, <2>1, <2>2, PressShownKeeps
<1> QED BY <1>2, <1>3, <1>4, <1>5, <1>6, <1>7, <1>8, <1>9, <1>10 DEF BoardWrites

\* Everything a Student's tablet presses.
LEMMA TabletKeeps ==
  ASSUME IInv, NEW t \in Tablet, TabletWrites(t)
  PROVE  IInv' /\ NoneLost /\ UNCHANGED store
<1> DEFINE doc == screen[t]
<1>1. t \in Device /\ t \in Student /\ NameOf[t] \in Name
  BY DeviceAssumption DEF Device
<1>2. Shown(t)
  BY DEF TabletWrites, Join, requestTakeoff, SeeFlown, markSeatComplete,
         TakeFreeDrone, ReclaimDrone, AsksForADrone, IsSeated
<1>3. doc \in Good /\ disk[t] # NoDoc
  BY <1>1, <1>2, RoomsAreGood, GoodIsNotNull DEF Shown
<1>4. CASE Join(t)
  <2>1. joinClassroomAsStudent(doc, t, NameOf[t]) \in Good
    BY <1>1, <1>3, JoinKeeps
  <2> QED BY <1>1, <1>3, <1>4, <2>1, PressShownKeeps DEF Join
<1>5. CASE requestTakeoff(t)
  <2>1. t \in Seated(doc) /\ PressShown(t, updateSeatPhase(doc, t, "awaiting-clearance"))
    BY <1>1, <1>5 DEF requestTakeoff, IsSeated, MySeat, Seated
  <2>2. updateSeatPhase(doc, t, "awaiting-clearance") \in Good
    BY <1>1, <1>3, <2>1, SeatPressKeeps
  <2> QED BY <1>1, <1>3, <2>1, <2>2, PressShownKeeps
<1>6. CASE SeeFlown(t)
  <2>1. t \in Seated(doc) /\ PressShown(t, markSeatFlown(doc, t))
    BY <1>1, <1>6 DEF SeeFlown, IsSeated, MySeat, Seated
  <2>2. markSeatFlown(doc, t) \in Good
    BY <1>1, <1>3, <2>1, SeatPressKeeps
  <2> QED BY <1>1, <1>3, <2>1, <2>2, PressShownKeeps
<1>7. CASE markSeatComplete(t)
  <2>1. /\ t \in Seated(doc) /\ doc.seats[t].phase = "returning"
        /\ PressShown(t, updateSeatPhase(doc, t, "complete"))
    BY <1>1, <1>7 DEF markSeatComplete, IsSeated, MySeat, Seated
  <2>2. updateSeatPhase(doc, t, "complete") \in Good
    BY <1>1, <1>3, <2>1, SeatPressKeeps
  <2> QED BY <1>1, <1>3, <2>1, <2>2, PressShownKeeps
<1>8. ASSUME NEW d \in Drone, TakeFreeDrone(t, d)
      PROVE  IInv' /\ NoneLost /\ UNCHANGED store
  <2>1. t \in Seated(doc) /\ PressShown(t, TakenBy(doc, t, d))
    BY <1>1, <1>8 DEF TakeFreeDrone, AsksForADrone, IsSeated, MySeat, Seated
  <2>2. TakenBy(doc, t, d) \in Good
    BY <1>3, <2>1, TakenKeeps
  <2> QED BY <1>1, <1>3, <2>1, <2>2, PressShownKeeps
<1>9. ASSUME NEW d \in Drone, ReclaimDrone(t, d)
      PROVE  IInv' /\ NoneLost /\ UNCHANGED store
  <2>1. t \in Seated(doc) /\ doc.seats[t].drone = NoDrone
    BY <1>1, <1>9 DEF ReclaimDrone, AsksForADrone, IsSeated, MySeat, Seated
  <2>2. PICK held \in SeatsOnDrone(doc, d) : PressShown(t, Reclaimed(doc, held, t, d))
    BY <1>9 DEF ReclaimDrone
  <2>3. held \in Seated(doc) \ {t}
    BY <2>1, <2>2, DroneAssumption DEF SeatsOnDrone
  <2>4. Reclaimed(doc, held, t, d) \in Good
    BY <1>3, <2>1, <2>3, TakenKeeps
  <2> QED BY <1>1, <1>3, <2>2, <2>4, PressShownKeeps
<1> QED BY <1>4, <1>5, <1>6, <1>7, <1>8, <1>9 DEF TabletWrites

\* The heartbeats.
LEMMA BeatKeeps ==
  ASSUME IInv, NEW cloud \in BOOLEAN,
         touchBoard(cloud) \/ \E t \in Tablet : touchSeat(t, cloud)
  PROVE  IInv' /\ NoneLost /\ UNCHANGED store
<1>1. \A b \in Nat : Beat(b) \in Nat
  BY DEF Beat
<1>2. CASE touchBoard(cloud)
  <2> DEFINE next == [disk[Board] EXCEPT !.boardSeen = Beat(disk[Board].boardSeen)]
  <2>1. disk[Board] \in Good /\ disk[Board] # NoDoc
    BY BoardHasARoom, GoodIsNotNull
  <2>2. next \in Good
    <3>1. Beat(disk[Board].boardSeen) \in Nat
      BY <1>1, <2>1, GoodFields
    <3> QED BY <2>1, <3>1, RoomEditedKeeps
  <2>3. /\ Save(Board, next, cloud) /\ Echo(Board)
        /\ UNCHANGED <<puts, replies, store, writes>>
    BY <1>2 DEF touchBoard
  <2>4. puts' \in [Device -> SUBSET Good] /\ writes' \in [Device -> Nat]
    BY <2>3 DEF IInv
  <2> QED BY <2>1, <2>2, <2>3, <2>4, BoardIsADevice, EchoKeeps
<1>3. ASSUME NEW t \in Tablet, touchSeat(t, cloud)
      PROVE  IInv' /\ NoneLost /\ UNCHANGED store
  <2> DEFINE doc == disk[t]
             seat == doc.seats[t]
             next == [doc EXCEPT !.seats[t].seen = Beat(seat.seen)]
             beaten == [seat EXCEPT !.seen = Beat(seat.seen)]
  <2>1. t \in Device /\ t \in Student /\ doc # NoDoc /\ doc \in Good /\ seat # NoSeat
    BY <1>3, DeviceAssumption, RoomsAreGood DEF Device, touchSeat
  <2>2. t \notin doc.freed /\ seat \in GoodSeat
    BY <2>1, SeatedIsGood DEF Seated
  <2>3. Beat(seat.seen) \in Nat
    BY <1>1, <2>2 DEF GoodSeat, Seat
  <2>4. beaten \in GoodSeat
    BY <2>2, <2>3, RecountedSeat
  <2>5. next = WithSeat(doc, t, beaten)
    BY <2>1, GoodFields DEF WithSeat, Doc
  <2>6. next \in Good
    <3> HIDE DEF doc, beaten, next
    <3> QED BY <2>1, <2>2, <2>4, <2>5, WithSeatKeeps
  <2>7. /\ Save(t, next, cloud) /\ Echo(t)
        /\ UNCHANGED <<puts, replies, store, writes>>
    BY <1>3 DEF touchSeat
  <2>8. puts' \in [Device -> SUBSET Good] /\ writes' \in [Device -> Nat]
    BY <2>7 DEF IInv
  <2> HIDE DEF next
  <2> QED BY <2>1, <2>6, <2>7, <2>8, EchoKeeps
<1> QED BY <1>2, <1>3

-----------------------------------------------------------------------------
(* The wire. *)

\* A merge loses only the seats one of the copies names freed.
LEMMA MergeStays ==
  ASSUME NEW mine \in Good, NEW theirs \in Good
  PROVE  SeatStays(mine, Merge(mine, theirs))
<1> DEFINE freed == mine.freed \cup theirs.freed
<1>1. /\ Merge(mine, theirs).freed = freed
      /\ Merge(mine, theirs).seats =
           [s \in Student |-> IF s \in freed THEN NoSeat
                              ELSE MergeSeat(mine.seats[s], theirs.seats[s])]
  BY GoodFields DEF Merge, Doc
<1>2. \A s \in Seated(mine) : MergeSeat(mine.seats[s], theirs.seats[s]) # NoSeat
  BY GoodFields, MergeSeatKeeps DEF Seated
<1> HIDE DEF freed
<1> QED BY <1>1, <1>2 DEF SeatStays, Seated

\* The answer to a poll, merged into a device's room.
LEMMA PollKeeps ==
  ASSUME IInv, NEW d \in Device, subscribeClassroom(d)
  PROVE  IInv' /\ NoneLost /\ UNCHANGED store
<1>1. disk[d] # NoDoc /\ disk[d] \in Good
  BY RoomsAreGood DEF subscribeClassroom
<1>2. PICK remote \in replies[d] :
        /\ Poll(d, remote)
        /\ replies' = [replies EXCEPT ![d] = replies[d] \ {remote}]
        /\ UNCHANGED <<puts, store, writes>>
  BY DEF subscribeClassroom
<1> DEFINE merged == Merge(disk[d], remote)
<1>3. remote \in Good
  BY <1>2 DEF IInv
<1>4. merged \in Good /\ SeatStays(disk[d], merged)
  BY <1>1, <1>3, MergeKeeps, MergeStays
<1>5. /\ disk' = disk \/ disk' = [disk EXCEPT ![d] = merged]
      /\ pending' = pending \/ pending' = [pending EXCEPT ![d] = merged]
      /\ screen' = screen \/ screen' = [screen EXCEPT ![d] = disk'[d]]
  BY <1>2 DEF Poll
<1> HIDE DEF merged
<1>6. /\ disk' \in [Device -> MaybeGood] /\ disk'[d] \in Good
      /\ pending' \in [Device -> MaybeGood]
      /\ replies' \in [Device -> SUBSET Good]
      /\ \A e \in Device : disk[e] # NoDoc => disk'[e] # NoDoc
  BY <1>1, <1>2, <1>4, <1>5, GoodIsNotNull DEF IInv, MaybeGood
<1>7. /\ screen' \in [Device -> MaybeGood] /\ screen'[Board] # NoDoc
      /\ \A e \in Device : screen'[e] # NoDoc => disk'[e] # NoDoc
  BY <1>5, <1>6, GoodIsNotNull, BoardIsADevice DEF IInv, MaybeGood
<1>8. NoneLost
  BY <1>4, <1>5 DEF NoneLost, SeatStays, Seated, IInv
<1> QED BY <1>2, <1>6, <1>7, <1>8 DEF IInv

\* What a PUT, and its loss, leave behind.
LEMMA StoreKeeps ==
  ASSUME IInv, NEW d \in Device,
         \/ scheduleClassroomCloudPush(d) \/ writeClassroom(d)
         \/ LosePut(d) \/ readClassroom(d)
  PROVE  IInv' /\ NoneLost
<1>1. disk' = disk /\ screen' = screen /\ writes' = writes
  BY DEF scheduleClassroomCloudPush, writeClassroom, LosePut, readClassroom
<1>2. NoneLost
  BY <1>1 DEF NoneLost, SeatStays, Seated
<1>3. CASE scheduleClassroomCloudPush(d)
  <2>1. /\ pending[d] \in Good
        /\ puts' = [puts EXCEPT ![d] = puts[d] \cup {pending[d]}]
        /\ pending' = [pending EXCEPT ![d] = NoDoc]
        /\ UNCHANGED <<replies, store>>
    BY <1>3 DEF scheduleClassroomCloudPush, Sent, IInv, MaybeGood
  <2>2. puts' \in [Device -> SUBSET Good] /\ pending' \in [Device -> MaybeGood]
    BY <2>1 DEF IInv, MaybeGood
  <2> QED BY <1>1, <1>2, <2>1, <2>2 DEF IInv
<1>4. CASE writeClassroom(d)
  <2>1. PICK incoming \in puts[d] :
          /\ store' = mergeClassrooms(incoming, store)
          /\ puts' = [puts EXCEPT ![d] = puts[d] \ {incoming}]
          /\ UNCHANGED <<pending, replies>>
    BY <1>4 DEF writeClassroom
  <2>2. incoming \in Good /\ store \in MaybeGood
    BY <2>1 DEF IInv
  <2>3. store' \in MaybeGood
    BY <2>1, <2>2, MergeKeeps DEF mergeClassrooms, MaybeGood
  <2>4. puts' \in [Device -> SUBSET Good]
    BY <2>1 DEF IInv
  <2> QED BY <1>1, <1>2, <2>1, <2>3, <2>4 DEF IInv
<1>5. CASE LosePut(d)
  <2>1. PICK lost \in puts[d] :
          /\ puts' = [puts EXCEPT ![d] = puts[d] \ {lost}]
          /\ UNCHANGED <<pending, replies, store>>
    BY <1>5 DEF LosePut
  <2>2. puts' \in [Device -> SUBSET Good]
    BY <2>1 DEF IInv
  <2> QED BY <1>1, <1>2, <2>1, <2>2 DEF IInv
<1>6. CASE readClassroom(d)
  <2>1. /\ store \in Good
        /\ replies' = [replies EXCEPT ![d] = replies[d] \cup {store}]
        /\ UNCHANGED <<pending, puts, store>>
    BY <1>6 DEF readClassroom, IInv, MaybeGood
  <2>2. replies' \in [Device -> SUBSET Good]
    BY <2>1 DEF IInv
  <2> QED BY <1>1, <1>2, <2>1, <2>2 DEF IInv
<1> QED BY <1>3, <1>4, <1>5, <1>6

\* A tablet at the door, and a screen catching up with its disk.
LEMMA ShowKeeps ==
  ASSUME IInv, NEW d \in Device, loadClassroomByCode(d) \/ Render(d)
  PROVE  IInv' /\ NoneLost /\ UNCHANGED store
<1>1. CASE loadClassroomByCode(d)
  <2>1. PICK remote \in replies[d] :
          /\ disk' = IF remote.ended THEN disk ELSE [disk EXCEPT ![d] = remote]
          /\ screen' = [screen EXCEPT ![d] = disk'[d]]
          /\ replies' = [replies EXCEPT ![d] = replies[d] \ {remote}]
          /\ UNCHANGED <<pending, puts, store, writes>>
    BY <1>1 DEF loadClassroomByCode
  <2>2. remote \in Good /\ disk[d] = NoDoc /\ disk[Board] # NoDoc
    BY <1>1, <2>1, BoardHasARoom, GoodIsNotNull DEF loadClassroomByCode, IInv
  <2>3. /\ disk' \in [Device -> MaybeGood]
        /\ \A e \in Device : disk[e] # NoDoc => disk'[e] = disk[e]
    BY <2>1, <2>2 DEF IInv, MaybeGood
  <2>4. /\ screen' \in [Device -> MaybeGood] /\ screen'[Board] # NoDoc
        /\ \A e \in Device : screen'[e] # NoDoc => disk'[e] # NoDoc
    BY <2>1, <2>2, <2>3 DEF IInv, MaybeGood
  <2>5. replies' \in [Device -> SUBSET Good]
    BY <2>1 DEF IInv
  <2>6. NoneLost
    BY <2>3 DEF NoneLost, SeatStays, Seated
  <2> QED BY <2>1, <2>3, <2>4, <2>5, <2>6 DEF IInv
<1>2. CASE Render(d)
  <2>1. screen' = [screen EXCEPT ![d] = disk[d]]
        /\ UNCHANGED <<disk, pending, puts, replies, store, writes>>
    BY <1>2 DEF Render
  <2>2. /\ screen' \in [Device -> MaybeGood] /\ screen'[Board] # NoDoc
        /\ \A e \in Device : screen'[e] # NoDoc => disk[e] # NoDoc
    BY <2>1, BoardHasARoom, GoodIsNotNull DEF IInv
  <2>3. NoneLost
    BY <2>1 DEF NoneLost, SeatStays, Seated
  <2> QED BY <2>1, <2>2, <2>3 DEF IInv
<1> QED BY <1>1, <1>2

-----------------------------------------------------------------------------
(* The invariant, and what follows from it. *)

\* The room the board has just opened is a good one.
LEMMA InitGood == Init => IInv
<1> SUFFICES ASSUME Init PROVE IInv
  OBVIOUS
<1>1. EmptySession \in Good /\ EmptySession # NoDoc
  BY EmptyIsGood, GoodIsNotNull
<1> QED BY <1>1, BoardIsADevice DEF Init, IInv, MaybeGood

\* Every press, beat and message keeps the invariant and loses no seat but a freed one.
LEMMA StepKeeps ==
  ASSUME IInv, [Next]_vars
  PROVE  IInv' /\ NoneLost
<1>1. CASE BoardWrites
  BY <1>1, BoardKeeps
<1>2. ASSUME NEW cloud \in BOOLEAN, touchBoard(cloud) \/ \E t \in Tablet : touchSeat(t, cloud)
      PROVE  IInv' /\ NoneLost
  BY <1>2, BeatKeeps
<1>3. ASSUME NEW t \in Tablet, TabletWrites(t)
      PROVE  IInv' /\ NoneLost
  BY <1>3, TabletKeeps
<1>4. ASSUME NEW d \in Device, Wire(d)
      PROVE  IInv' /\ NoneLost
  BY <1>4, PollKeeps, StoreKeeps, ShowKeeps DEF Wire
<1>5. CASE UNCHANGED vars
  BY <1>5 DEF vars, IInv, NoneLost, SeatStays, Seated
<1> QED BY <1>1, <1>2, <1>3, <1>4, <1>5 DEF Next

\* Every copy of the classroom a device shows, saves, is about to send or has in
\* flight, and the store's, is a good one: well typed, with no freed child seated
\* and nobody returning unapproved.  What every save and every merge relies on.
THEOREM Inductive == Spec => []IInv
<1>1. IInv /\ [Next]_vars => IInv'
  BY StepKeeps
<1> QED BY InitGood, <1>1, PTL DEF Spec

\* Every copy, held or in flight, is a classroom document or nothing.
THEOREM TypeCorrect == Spec => []TypeOK
<1>1. Good \subseteq Doc
  BY DEF Good
<1>2. IInv => TypeOK
  BY <1>1 DEF IInv, TypeOK, MaybeGood, MaybeDoc
<1> QED BY Inductive, <1>2, PTL

\* Every copy there is, is a good one.
LEMMA DocsAreGood ==
  ASSUME IInv
  PROVE  Docs \ {NoDoc} \subseteq Good
BY DEF IInv, Docs, MaybeGood

\* No copy anywhere seats a child it names as freed, whatever the order in which
\* writes, PUTs and polls land: the room of every tablet and the store.
THEOREM NoGhostsAnywhere == Spec => []NoGhosts
<1>1. IInv => NoGhosts
  BY DocsAreGood, SeatedIsGood DEF NoGhosts
<1> QED BY Inductive, <1>1, PTL

\* No copy anywhere tells a child to come home, or says they have, unless the
\* Teacher approved a task with every point flown.
THEOREM NobodyFinishesUnapproved == Spec => []CompleteWasApproved
<1>1. IInv => CompleteWasApproved
  BY DocsAreGood, SeatedIsGood DEF CompleteWasApproved, GoodSeat
<1> QED BY Inductive, <1>1, PTL

\* No write and no merge takes a child off a device but a Free or a reclaim,
\* however stale the screen the write started from.
THEOREM OnlyTheFreedLeave == Spec => OnlyFreedLeave
<1>1. IInv /\ [Next]_vars =>
        [\A d \in Device : disk[d] # NoDoc => SeatStays(disk[d], disk'[d])]_vars
  BY StepKeeps DEF NoneLost
<1> QED BY Inductive, <1>1, PTL DEF Spec, OnlyFreedLeave

-----------------------------------------------------------------------------
(* The store implements ClassroomRecord. *)

\* The store's copy of a seat moves forward, or stays.
LEMMA MergeSeatAdvances ==
  ASSUME NEW mine \in MaybeSeat, NEW theirs \in GoodSeat
  PROVE  Record!SeatAdvances(theirs, MergeSeat(mine, theirs))
<1> DEFINE new == MergeSeat(mine, theirs)
<1>1. theirs \in Seat /\ theirs # NoSeat
  BY SeatIsNotNull
<1>2. CASE mine = NoSeat
  <2>1. new = theirs
    BY <1>2 DEF MergeSeat
  <2> QED BY <1>1, <2>1 DEF Record!SeatAdvances, Record!seatContent, Seat
<1>3. CASE mine \in GoodSeat
  <2> DEFINE seen == laterOf(mine.seen, theirs.seen)
  <2>1. mine \in Seat /\ mine # NoSeat
    BY <1>3, SeatIsNotNull
  <2>2. seen \in Nat /\ seen >= theirs.seen
    BY <1>1, <2>1, HigherIsNat DEF laterOf, Seat
  <2>3. new = [(IF mine.rev > theirs.rev THEN mine ELSE theirs) EXCEPT !.seen = seen]
    BY <1>1, <2>1 DEF MergeSeat
  <2>4. new # NoSeat
    BY <1>3, MergeSeatKeeps, SeatIsNotNull DEF MaybeSeat
  <2> HIDE DEF seen, new
  <2>5. CASE mine.rev > theirs.rev
    <3>1. new.rev = mine.rev /\ new.seen = seen
      BY <2>1, <2>3, <2>5 DEF Seat
    <3> QED BY <2>2, <2>4, <2>5, <3>1 DEF Record!SeatAdvances, new
  <2>6. CASE ~(mine.rev > theirs.rev)
    <3>1. new = [theirs EXCEPT !.seen = seen]
      BY <2>3, <2>6
    <3>2. /\ new.rev = theirs.rev /\ new.seen = seen
          /\ Record!seatContent(new) = Record!seatContent(theirs)
      BY <1>1, <3>1 DEF Record!seatContent, Seat
    <3> QED BY <2>2, <2>4, <3>2 DEF Record!SeatAdvances, new
  <2> QED BY <2>5, <2>6
<1> QED BY <1>2, <1>3 DEF MaybeSeat

\* A PUT advances the record.
LEMMA MergeAdvances ==
  ASSUME NEW mine \in Good, NEW theirs \in Good
  PROVE  /\ Record!RoomAdvances(theirs, Merge(mine, theirs))
         /\ theirs.freed \subseteq Merge(mine, theirs).freed
         /\ Merge(mine, theirs).boardSeen >= theirs.boardSeen
         /\ \A s \in Student : Record!SeatMoves(s, theirs, Merge(mine, theirs))
<1> DEFINE room == IF mine.rev > theirs.rev THEN mine ELSE theirs
           freed == mine.freed \cup theirs.freed
           new == Merge(mine, theirs)
<1>1. /\ new.rev = Higher(mine.rev, theirs.rev)
      /\ new.brief = room.brief /\ new.posts = room.posts
      /\ new.live = room.live /\ new.ended = room.ended
      /\ new.freed = freed
      /\ new.boardSeen = laterOf(mine.boardSeen, theirs.boardSeen)
      /\ new.seats = [s \in Student |-> IF s \in freed THEN NoSeat
                                        ELSE MergeSeat(mine.seats[s], theirs.seats[s])]
  BY GoodFields DEF Merge, Doc
<1>2. mine.rev \in Nat /\ theirs.rev \in Nat
      /\ mine.boardSeen \in Nat /\ theirs.boardSeen \in Nat
  BY GoodFields
<1> HIDE DEF new
<1>3. Record!RoomAdvances(theirs, new)
  BY <1>1, <1>2 DEF Record!RoomAdvances, Record!RoomKept, Higher
<1>4. new.boardSeen >= theirs.boardSeen
  BY <1>1, <1>2 DEF laterOf, Higher
<1>5. \A s \in Student : theirs.seats[s] # NoSeat =>
        Record!SeatAdvances(theirs.seats[s], MergeSeat(mine.seats[s], theirs.seats[s]))
  BY GoodFields, MergeSeatAdvances DEF MaybeSeat
<1>6. \A s \in Student : Record!SeatMoves(s, theirs, new)
  BY <1>1, <1>5 DEF Record!SeatMoves
<1> QED BY <1>1, <1>3, <1>4, <1>6 DEF new

\* Whatever order the PUTs of the devices land in, and whichever are lost, the
\* store is a record that only moves forward (ClassroomRecord).
THEOREM StoreImplementsRecord == Spec => StoreIsTheRecord
<1>1. Init => Record!Init
  BY DEF Init, Record!Init
<1>2. IInv /\ [Next]_vars => [Record!Next]_store
  <2> SUFFICES ASSUME IInv, [Next]_vars, store' # store
               PROVE  Record!Next
    OBVIOUS
  <2>1. PICK d \in Device : writeClassroom(d)
    <3>1. ~BoardWrites /\ \A t \in Tablet : ~TabletWrites(t)
      BY BoardKeeps, TabletKeeps
    <3>2. \A cloud \in BOOLEAN : ~touchBoard(cloud) /\ \A t \in Tablet : ~touchSeat(t, cloud)
      BY BeatKeeps
    <3>3. PICK d \in Device : Wire(d)
      BY <3>1, <3>2 DEF Next, vars
    <3> QED BY <3>3 DEF Wire, scheduleClassroomCloudPush, LosePut, readClassroom,
                        loadClassroomByCode, subscribeClassroom, Render
  <2>2. PICK incoming \in puts[d] : store' = mergeClassrooms(incoming, store)
    BY <2>1 DEF writeClassroom
  <2>3. incoming \in Good /\ store \in MaybeGood
    BY <2>2 DEF IInv
  <2>4. CASE store = NoDoc
    <3>1. store' \in Record!Doc
      BY <2>2, <2>3, <2>4 DEF mergeClassrooms, Good, Doc, Record!Doc, Seat, Record!Seat,
                             Phase, Record!Phase
    <3> QED BY <2>4, <3>1 DEF Record!Next, Record!Open
  <2>5. CASE store \in Good
    <3>1. store' = Merge(incoming, store) /\ store # NoDoc
      BY <2>2, <2>5, GoodIsNotNull DEF mergeClassrooms
    <3>2. store' \in Record!Doc
      BY <2>3, <2>5, <3>1, MergeKeeps
         DEF Good, Doc, Record!Doc, Seat, Record!Seat, Phase, Record!Phase
    <3> QED BY <2>3, <2>5, <3>1, <3>2, MergeAdvances DEF Record!Next, Record!Advance
  <2> QED BY <2>3, <2>4, <2>5 DEF MaybeGood
<1> QED BY Inductive, <1>1, <1>2, PTL DEF Spec, StoreIsTheRecord, Record!Spec

-----------------------------------------------------------------------------
(* A tap sticks, on devices that press from what their disk holds.  Of every *)
(* child the store has not freed the copies agree: TapInv.                   *)

\* Everything the copies there are say of one child.
Rows(s) == {doc.seats[s] : doc \in Docs \ {NoDoc}} \ {NoSeat}

\* A row without a Drone is the one a tablet joined with; a tap comes after it.
SoundRow(s, row) ==
  IF row.drone = NoDrone
  THEN s \in Tablet /\ row.rev = 1 /\ row.phase = "briefing" /\ row.reached = {}
  ELSE s \in Tablet => row.rev >= 2

SameTap(a, b) == a.drone = NoDrone \/ b.drone = NoDrone \/ a.drone = b.drone

\* A tablet is the first to know of its own seat, and of its own Drone.
KnownAtHome(s) ==
  s \in Tablet =>
    \A row \in Rows(s) :
      /\ disk[s] # NoDoc /\ disk[s].seats[s] # NoSeat
      /\ row.drone # NoDrone => disk[s].seats[s].drone = row.drone

OneTap(s) ==
  /\ \A row \in Rows(s) : SoundRow(s, row)
  /\ \A a, b \in Rows(s) : SameTap(a, b)
  /\ KnownAtHome(s)

\* A tablet loses its own seat only to a Free the store has heard of.
FreedIsHeard ==
  /\ \A d \in Device : \A doc \in replies[d] : doc.freed \subseteq Gone
  /\ \A t \in Tablet : disk[t] # NoDoc /\ t \in disk[t].freed => t \in Gone

TapInv ==
  /\ screen = disk
  /\ FreedIsHeard
  /\ \A s \in Student \ Gone : OneTap(s)

\* The step of TapSticks, for one child.
TapKept(s) ==
  \A d \in Device :
    /\ disk[d] # NoDoc /\ disk[d].seats[s] # NoSeat /\ disk'[d].seats[s] # NoSeat
    /\ disk[d].seats[s].drone # NoDrone
    => disk'[d].seats[s].drone = disk[d].seats[s].drone

\* A row of a copy is a row.
LEMMA RowOfCopy ==
  ASSUME NEW s \in Student, NEW doc \in Docs, doc # NoDoc, doc.seats[s] # NoSeat
  PROVE  doc.seats[s] \in Rows(s)
BY DEF Rows

\* What a device holds, and what is in flight, are copies.
LEMMA Copies ==
  /\ store \in Docs
  /\ \A d \in Device : /\ disk[d] \in Docs /\ screen[d] \in Docs /\ pending[d] \in Docs
                       /\ puts[d] \subseteq Docs /\ replies[d] \subseteq Docs
BY DEF Docs

\* Every row is a good seat.
LEMMA RowsAreGood ==
  ASSUME IInv, NEW s \in Student, NEW row \in Rows(s)
  PROVE  row \in GoodSeat
<1>1. PICK doc \in Docs \ {NoDoc} : row = doc.seats[s] /\ row # NoSeat
  BY DEF Rows
<1>2. doc \in Good
  BY <1>1, DocsAreGood
<1> QED BY <1>1, <1>2, GoodFields DEF MaybeSeat

\* The merge of two rows that agree is one of them, and keeps the tap.
LEMMA MergedTap ==
  ASSUME NEW s \in Student, NEW a \in GoodSeat, NEW b \in GoodSeat,
         SoundRow(s, a), SoundRow(s, b), SameTap(a, b)
  PROVE  /\ SoundRow(s, MergeSeat(a, b))
         /\ MergeSeat(a, b).drone \in {a.drone, b.drone}
         /\ a.drone # NoDrone => MergeSeat(a, b).drone = a.drone
<1> DEFINE win == IF a.rev > b.rev THEN a ELSE b
           seen == laterOf(a.seen, b.seen)
           new == [win EXCEPT !.seen = seen]
<1>1. a \in Seat /\ b \in Seat /\ a # NoSeat /\ b # NoSeat
  BY SeatIsNotNull
<1>2. MergeSeat(a, b) = new
  BY <1>1 DEF MergeSeat
<1>3. win \in {a, b} /\ win \in Seat
  BY <1>1
<1>4. a.drone # NoDrone => win.drone = a.drone
  <2> SUFFICES ASSUME a.drone # NoDrone, b.drone = NoDrone PROVE win = a
    BY <1>3 DEF SameTap
  <2>1. a.rev >= 2 /\ b.rev = 1 /\ a.rev \in Nat
    BY <1>1 DEF SoundRow, Seat
  <2> QED BY <2>1
<1> HIDE DEF win, seen
<1>5. /\ new.drone = win.drone /\ new.rev = win.rev
      /\ new.phase = win.phase /\ new.reached = win.reached
  BY <1>3 DEF Seat
<1>6. SoundRow(s, win)
  BY <1>3
<1>7. SoundRow(s, new)
  BY <1>5, <1>6 DEF SoundRow
<1> QED BY <1>2, <1>3, <1>4, <1>5, <1>7

\* What a merge of two copies says of a child.
LEMMA MergedCopy ==
  ASSUME IInv, NEW s \in Student, OneTap(s),
         NEW a \in Docs, a # NoDoc, NEW b \in Docs, b # NoDoc
  PROVE  LET row == Merge(a, b).seats[s] IN
         /\ row # NoSeat => /\ SoundRow(s, row)
                            /\ \E old \in Rows(s) : old.drone = row.drone
         /\ a.seats[s] # NoSeat /\ a.seats[s].drone # NoDrone /\ row # NoSeat =>
              row.drone = a.seats[s].drone
         /\ a.seats[s] # NoSeat /\ s \notin a.freed \cup b.freed => row # NoSeat
<1> DEFINE row == Merge(a, b).seats[s]
           mine == a.seats[s]
           theirs == b.seats[s]
<1>1. a \in Good /\ b \in Good
  BY DocsAreGood
<1>2. row = IF s \in a.freed \cup b.freed THEN NoSeat ELSE MergeSeat(mine, theirs)
  BY <1>1, GoodFields DEF Merge, Doc
<1>3. mine \in MaybeSeat /\ theirs \in MaybeSeat
  BY <1>1, GoodFields
<1>4. mine # NoSeat => mine \in Rows(s)
  BY RowOfCopy
<1>5. theirs # NoSeat => theirs \in Rows(s)
  BY RowOfCopy
<1> HIDE DEF row, mine, theirs
<1>6. mine # NoSeat => MergeSeat(mine, theirs) # NoSeat
  BY <1>3, MergeSeatKeeps
<1>7. MergeSeat(mine, theirs) # NoSeat =>
        /\ SoundRow(s, MergeSeat(mine, theirs))
        /\ \E old \in Rows(s) : old.drone = MergeSeat(mine, theirs).drone
        /\ mine # NoSeat /\ mine.drone # NoDrone =>
             MergeSeat(mine, theirs).drone = mine.drone
  <2>1. CASE mine = NoSeat
    BY <1>5, <2>1 DEF MergeSeat, OneTap
  <2>2. CASE theirs = NoSeat
    BY <1>4, <2>2 DEF MergeSeat, OneTap
  <2>3. CASE mine # NoSeat /\ theirs # NoSeat
    <3>1. mine \in GoodSeat /\ theirs \in GoodSeat
      BY <1>3, <2>3 DEF MaybeSeat
    <3>2. SoundRow(s, mine) /\ SoundRow(s, theirs) /\ SameTap(mine, theirs)
      BY <1>4, <1>5, <2>3 DEF OneTap
    <3> HIDE DEF OneTap
    <3> QED BY <1>4, <1>5, <2>3, <3>1, <3>2, MergedTap
  <2> QED BY <2>1, <2>2, <2>3
<1> QED BY <1>2, <1>6, <1>7 DEF row, mine, theirs

\* A press leaves a child alone: their row stays, is freed, or is rewritten with
\* the Drone it had; a row without one gets nothing but a beat.
Tame(s, old, new) ==
  \/ new.seats[s] = old.seats[s]
  \/ new.seats[s] = NoSeat /\ s \in new.freed
  \/ /\ old.seats[s] # NoSeat /\ new.seats[s] # NoSeat
     /\ new.seats[s].drone = old.seats[s].drone
     /\ old.seats[s].drone = NoDrone =>
          /\ seatContent(new.seats[s]) = seatContent(old.seats[s])
          /\ new.seats[s].rev = old.seats[s].rev

\* Stamping such a press keeps the row sound, on the same Drone.
LEMMA StampTame ==
  ASSUME NEW s \in Student, NEW old \in Good, NEW session \in Good,
         Tame(s, old, session),
         old.seats[s] # NoSeat => SoundRow(s, old.seats[s])
  PROVE  LET row == stampRevisions(old, session).seats[s] IN
         row # NoSeat => /\ old.seats[s] # NoSeat
                         /\ row.drone = old.seats[s].drone
                         /\ SoundRow(s, row)
<1> DEFINE before == old.seats[s]
           seat == session.seats[s]
           row == stampRevisions(old, session).seats[s]
<1>1. row = StampSeat(before, CarryOver(old, session)[s])
  BY GoodFields DEF stampRevisions, Doc
<1>2. CarryOver(old, session)[s] = IF seat = NoSeat /\ s \notin session.freed
                                   THEN before ELSE seat
  BY DEF CarryOver
<1>3. before \in MaybeSeat /\ seat \in MaybeSeat
  BY GoodFields
<1>4. CASE seat = before \/ (seat = NoSeat /\ s \in session.freed)
  <2>1. row = NoSeat \/ row = StampSeat(before, before)
    BY <1>1, <1>2, <1>4 DEF StampSeat
  <2>2. ASSUME before # NoSeat PROVE StampSeat(before, before) = before
    <3>1. before \in Seat
      BY <1>3, <2>2, SeatIsNotNull
    <3>2. Higher(before.rev, before.rev) = before.rev
      BY DEF Higher
    <3> QED BY <2>2, <3>1, <3>2 DEF StampSeat, Seat
  <2>3. before = NoSeat => StampSeat(before, before) = NoSeat
    BY DEF StampSeat
  <2> QED BY <2>1, <2>2, <2>3
<1>5. CASE before # NoSeat /\ seat # NoSeat /\ seat.drone = before.drone
           /\ (before.drone = NoDrone => seatContent(seat) = seatContent(before)
                                         /\ seat.rev = before.rev)
  <2>1. row = StampSeat(before, seat)
    BY <1>1, <1>2, <1>5
  <2>2. before \in Seat /\ seat \in Seat /\ before.rev \in Nat /\ seat.rev \in Nat
    BY <1>3, <1>5, SeatIsNotNull DEF Seat
  <2> DEFINE high == Higher(seat.rev, before.rev)
  <2>3. high \in Nat /\ high >= before.rev /\ (seat.rev = before.rev => high = before.rev)
    BY <2>2 DEF Higher
  <2>4. row = [seat EXCEPT !.rev = IF seatContent(before) # seatContent(seat)
                                   THEN high + 1 ELSE high]
    BY <1>5, <2>1 DEF StampSeat
  <2>5. SoundRow(s, before)
    BY <1>5
  <2> HIDE DEF high, row, seat, before
  <2>6. row.drone = seat.drone /\ row.phase = seat.phase /\ row.reached = seat.reached
        /\ row.rev = IF seatContent(before) # seatContent(seat) THEN high + 1 ELSE high
    BY <2>2, <2>4 DEF Seat
  <2>7. CASE before.drone = NoDrone
    <3>1. seat.phase = before.phase /\ seat.reached = before.reached /\ row.rev = before.rev
      BY <1>5, <2>2, <2>3, <2>6, <2>7 DEF seatContent, Seat
    <3> QED BY <1>5, <2>5, <2>6, <2>7, <3>1 DEF SoundRow, row, seat, before
  <2>8. CASE before.drone # NoDrone
    <3>1. row.rev >= before.rev /\ row.rev \in Nat
      BY <2>2, <2>3, <2>6
    <3>2. SoundRow(s, row)
      BY <1>5, <2>2, <2>5, <2>6, <2>8, <3>1 DEF SoundRow
    <3> QED BY <1>5, <2>6, <3>2 DEF row, seat, before
  <2> QED BY <2>7, <2>8
<1> QED BY <1>4, <1>5 DEF Tame

\* A step that makes at most one new copy, which says of the child what a copy
\* said before, keeps what the copies say of that child in agreement.
LEMMA OneTapStays ==
  ASSUME NEW s \in Student, OneTap(s), NEW next,
         Docs' \subseteq Docs \cup {next, NoDoc},
         next # NoDoc /\ next.seats[s] # NoSeat =>
           /\ SoundRow(s, next.seats[s])
           /\ \E old \in Rows(s) : old.drone = next.seats[s].drone,
         s \in Tablet /\ disk[s] # NoDoc /\ disk[s].seats[s] # NoSeat =>
           /\ disk'[s] # NoDoc /\ disk'[s].seats[s] # NoSeat
           /\ disk[s].seats[s].drone # NoDrone =>
                disk'[s].seats[s].drone = disk[s].seats[s].drone
  PROVE  OneTap(s)'
<1>1. \A row \in Rows(s)' : /\ SoundRow(s, row)
                            /\ \E old \in Rows(s) : old.drone = row.drone
  <2> SUFFICES ASSUME NEW doc \in Docs' \ {NoDoc}, doc.seats[s] # NoSeat
               PROVE  /\ SoundRow(s, doc.seats[s])
                      /\ \E old \in Rows(s) : old.drone = doc.seats[s].drone
    BY DEF Rows
  <2>1. CASE doc \in Docs
    BY <2>1, RowOfCopy DEF OneTap
  <2>2. CASE doc = next
    BY <2>2
  <2> QED BY <2>1, <2>2
<1>2. \A a, b \in Rows(s)' : SameTap(a, b)
  BY <1>1 DEF OneTap, SameTap
<1>3. ASSUME s \in Tablet, NEW row \in Rows(s)'
      PROVE  /\ disk'[s] # NoDoc /\ disk'[s].seats[s] # NoSeat
             /\ row.drone # NoDrone => disk'[s].seats[s].drone = row.drone
  <2>1. PICK old \in Rows(s) : old.drone = row.drone
    BY <1>1, <1>3
  <2> QED BY <1>3, <2>1 DEF OneTap, KnownAtHome
<1>4. KnownAtHome(s)'
  BY <1>3 DEF KnownAtHome
<1>5. \A row \in Rows(s)' : SoundRow(s, row)'
  BY <1>1 DEF SoundRow
<1>6. \A a, b \in Rows(s)' : SameTap(a, b)'
  BY <1>2 DEF SameTap
<1> QED BY <1>4, <1>5, <1>6 DEF OneTap

\* What a write comes down to on a device whose screen follows its disk.
Written(d, session) ==
  /\ \E cloud \in BOOLEAN : Save(d, session, cloud)
  /\ screen' = [screen EXCEPT ![d] = disk'[d]]
  /\ puts' = puts \/ puts' = [puts EXCEPT ![d] = puts[d] \cup {disk'[d]}]
  /\ UNCHANGED <<replies, store>>

\* No write by a device frees the device's own seat.
OwnStays(d, session) ==
  d \in Tablet /\ d \in session.freed => d \in disk[d].freed

\* A write makes one new copy.
LEMMA WrittenDocs ==
  ASSUME IInv, screen = disk, NEW d \in Device, disk[d] # NoDoc,
         NEW session \in Good, Written(d, session)
  PROVE  LET next == stampRevisions(disk[d], session) IN
         /\ next \in Good /\ next.freed = session.freed
         /\ disk' = [disk EXCEPT ![d] = next] /\ screen' = disk'
         /\ Docs' \subseteq Docs \cup {next, NoDoc}
<1> DEFINE next == stampRevisions(disk[d], session)
<1>1. disk[d] \in Good
  BY RoomsAreGood
<1>2. next \in Good /\ next.freed = session.freed
  BY <1>1, StampKeeps
<1>3. /\ disk' = [disk EXCEPT ![d] = next]
      /\ pending' = pending \/ pending' = [pending EXCEPT ![d] = next]
  BY DEF Written, Save
<1> HIDE DEF next
<1>4. disk'[d] = next /\ \A e \in Device \ {d} : disk'[e] = disk[e]
  BY <1>3 DEF IInv
<1>5. screen' = disk'
  BY <1>3, <1>4 DEF Written
<1>6. \A e \in Device : /\ disk'[e] \in Docs \cup {next} /\ screen'[e] \in Docs \cup {next}
                        /\ pending'[e] \in Docs \cup {next}
                        /\ puts'[e] \subseteq Docs \cup {next}
                        /\ replies'[e] \subseteq Docs
  <2>1. ASSUME NEW e \in Device
        PROVE  disk'[e] \in Docs \cup {next} /\ pending'[e] \in Docs \cup {next}
    BY <1>3, <1>4, Copies DEF IInv
  <2>2. ASSUME NEW e \in Device
        PROVE  puts'[e] \subseteq Docs \cup {next} /\ replies'[e] \subseteq Docs
    BY <1>4, Copies DEF Written, IInv
  <2> QED BY <1>5, <2>1, <2>2
<1>7. Docs' \subseteq Docs \cup {next, NoDoc}
  <2>1. store' \in Docs
    BY Copies DEF Written
  <2> QED BY <1>6, <2>1 DEF Docs
<1> QED BY <1>2, <1>3, <1>5, <1>7 DEF next

\* Nothing else that TapInv asks about changes.
LEMMA WrittenCopy ==
  ASSUME IInv, screen = disk, FreedIsHeard, NEW d \in Device, disk[d] # NoDoc,
         NEW session \in Good, Written(d, session), OwnStays(d, session)
  PROVE  LET next == stampRevisions(disk[d], session) IN
         /\ next \in Good /\ next.freed = session.freed
         /\ disk' = [disk EXCEPT ![d] = next]
         /\ Docs' \subseteq Docs \cup {next, NoDoc}
         /\ Gone' = Gone /\ screen' = disk' /\ FreedIsHeard'
<1> DEFINE next == stampRevisions(disk[d], session)
<1>1. /\ next \in Good /\ next.freed = session.freed
      /\ disk' = [disk EXCEPT ![d] = next] /\ screen' = disk'
      /\ Docs' \subseteq Docs \cup {next, NoDoc}
  BY WrittenDocs
<1> HIDE DEF next
<1>2. disk'[d] = next /\ \A e \in Device \ {d} : disk'[e] = disk[e]
  BY <1>1 DEF IInv
<1>3. Gone' = Gone
  BY DEF Written, Gone
<1>4. FreedIsHeard'
  <2>1. \A e \in Device : \A doc \in replies'[e] : doc.freed \subseteq Gone
    BY DEF FreedIsHeard, Written
  <2>2. \A t \in Tablet : disk'[t] # NoDoc /\ t \in disk'[t].freed => t \in Gone
    BY <1>1, <1>2, BoardIsADevice DEF FreedIsHeard, OwnStays
  <2> QED BY <1>3, <2>1, <2>2 DEF FreedIsHeard
<1> QED BY <1>1, <1>3, <1>4 DEF next

\* What the device's copy says of a child is one of the rows.
LEMMA RowOnDisk ==
  ASSUME NEW s \in Student, OneTap(s), NEW d \in Device, disk[d] # NoDoc,
         disk[d].seats[s] # NoSeat
  PROVE  disk[d].seats[s] \in Rows(s) /\ SoundRow(s, disk[d].seats[s])
BY Copies, RowOfCopy DEF OneTap

\* A tame write keeps what the copies say of a child in agreement.
LEMMA TameWrite ==
  ASSUME IInv, screen = disk, FreedIsHeard, NEW d \in Device, disk[d] # NoDoc,
         NEW session \in Good, Written(d, session), OwnStays(d, session),
         NEW s \in Student, OneTap(s), Tame(s, disk[d], session)
  PROVE  OneTap(s)' /\ TapKept(s)
<1> DEFINE next == stampRevisions(disk[d], session)
           old == disk[d].seats[s]
           row == next.seats[s]
<1>1. disk[d] \in Good
  BY RoomsAreGood
<1>2. /\ next \in Good /\ disk' = [disk EXCEPT ![d] = next]
      /\ Docs' \subseteq Docs \cup {next, NoDoc}
  BY WrittenCopy
<1>3. old # NoSeat => row # NoSeat \/ s \in session.freed
  BY <1>1, StampKeeps
<1>4. old # NoSeat => old \in Rows(s) /\ SoundRow(s, old)
  BY RowOnDisk
<1>5. row # NoSeat => old # NoSeat /\ row.drone = old.drone /\ SoundRow(s, row)
  BY <1>1, <1>4, StampTame
<1>6. old # NoSeat => s \notin disk[d].freed
  BY <1>1, GoodFields
<1> HIDE DEF next
<1>7. disk'[d] = next /\ \A e \in Device \ {d} : disk'[e] = disk[e]
  BY <1>2 DEF IInv
<1>8. s \in Tablet /\ disk[s] # NoDoc /\ disk[s].seats[s] # NoSeat =>
        /\ disk'[s] # NoDoc /\ disk'[s].seats[s] # NoSeat
        /\ disk[s].seats[s].drone # NoDrone => disk'[s].seats[s].drone = disk[s].seats[s].drone
  BY <1>2, <1>3, <1>5, <1>6, <1>7, GoodIsNotNull, BoardIsADevice DEF OwnStays
<1>9. OneTap(s)'
  BY <1>2, <1>4, <1>5, <1>8, OneTapStays
<1>10. TapKept(s)
  BY <1>5, <1>7 DEF TapKept
<1> QED BY <1>9, <1>10

\* A child's first row, and a child's tap, which no copy has gone before.
LEMMA FirstTap ==
  ASSUME IInv, screen = disk, FreedIsHeard, NEW d \in Device, disk[d] # NoDoc,
         NEW session \in Good, Written(d, session), OwnStays(d, session),
         NEW s \in Student, OneTap(s), s \in Tablet => d = s,
         \A row \in Rows(s) : row.drone = NoDrone,
         stampRevisions(disk[d], session).seats[s] # NoSeat,
         SoundRow(s, stampRevisions(disk[d], session).seats[s])
  PROVE  OneTap(s)' /\ TapKept(s)
<1> DEFINE next == stampRevisions(disk[d], session)
<1>1. /\ next \in Good /\ disk' = [disk EXCEPT ![d] = next]
      /\ Docs' \subseteq Docs \cup {next, NoDoc}
  BY WrittenCopy
<1> HIDE DEF next
<1>2. disk'[d] = next /\ \A e \in Device \ {d} : disk'[e] = disk[e]
  BY <1>1 DEF IInv
<1>3. \A row \in Rows(s)' : \/ row = next.seats[s]
                            \/ row.drone = NoDrone /\ SoundRow(s, row)
  <2> SUFFICES ASSUME NEW doc \in Docs' \ {NoDoc}, doc.seats[s] # NoSeat, doc # next
               PROVE  doc.seats[s].drone = NoDrone /\ SoundRow(s, doc.seats[s])
    BY DEF Rows
  <2>1. doc \in Docs
    BY <1>1
  <2> QED BY <2>1, RowOfCopy DEF OneTap
<1>4. \A row \in Rows(s)' : SoundRow(s, row)'
  BY <1>3 DEF SoundRow, next
<1>5. \A a, b \in Rows(s)' : SameTap(a, b)'
  BY <1>3 DEF SameTap
<1>6. KnownAtHome(s)'
  BY <1>1, <1>2, <1>3, GoodIsNotNull DEF KnownAtHome, next
<1>7. OneTap(s)'
  BY <1>4, <1>5, <1>6 DEF OneTap
<1>8. disk[d].seats[s] # NoSeat => disk[d].seats[s].drone = NoDrone
  BY RowOnDisk
<1>9. TapKept(s)
  BY <1>2, <1>8 DEF TapKept
<1> QED BY <1>7, <1>9

\* How stampRevisions counts one row.
LEMMA StampedRow ==
  ASSUME NEW s \in Student, NEW old \in Good, NEW session \in Good,
         session.seats[s] # NoSeat
  PROVE  stampRevisions(old, session).seats[s] = StampSeat(old.seats[s], session.seats[s])
<1>1. stampRevisions(old, session).seats[s] =
        StampSeat(old.seats[s], CarryOver(old, session)[s])
  BY GoodFields DEF stampRevisions, Doc
<1>2. CarryOver(old, session)[s] = session.seats[s]
  BY DEF CarryOver
<1> QED BY <1>1, <1>2

\* A new row is counted once, and says what the press says.
LEMMA StampedNewRow ==
  ASSUME NEW s \in Student, NEW old \in Good, NEW session \in Good,
         old.seats[s] = NoSeat, NEW name \in Name, NEW drone \in Drone \cup {NoDrone},
         session.seats[s] = NewSeat(name, drone)
  PROVE  LET row == stampRevisions(old, session).seats[s] IN
         /\ row # NoSeat /\ row.drone = drone
         /\ row.rev = 1 /\ row.phase = "briefing" /\ row.reached = {}
<1> DEFINE new == NewSeat(name, drone)
           row == stampRevisions(old, session).seats[s]
<1>1. new \in GoodSeat /\ new # NoSeat
  BY NewSeatIsGood, SeatIsNotNull
<1> HIDE DEF new
<1>2. row = [new EXCEPT !.rev = new.rev + 1]
  <2>1. row = StampSeat(NoSeat, new)
    BY <1>1, StampedRow DEF new
  <2> HIDE DEF row
  <2> QED BY <1>1, <2>1 DEF StampSeat
<1>3. new.rev = 0 /\ new.drone = drone /\ new.phase = "briefing" /\ new.reached = {}
  BY DEF NewSeat, new
<1>4. row.drone = drone /\ row.rev = 1 /\ row.phase = "briefing" /\ row.reached = {}
  BY <1>1, <1>2, <1>3, SeatIsNotNull DEF Seat
<1>5. row # NoSeat
  <2>1. new.rev + 1 \in Nat
    BY <1>3
  <2> HIDE DEF row
  <2> QED BY <1>1, <1>2, <2>1, RecountedSeat, SeatIsNotNull
<1> QED BY <1>4, <1>5

\* A tap is counted after the row the tablet joined with.
LEMMA StampedTap ==
  ASSUME NEW s \in Student, NEW old \in Good, NEW session \in Good,
         old.seats[s] # NoSeat, SoundRow(s, old.seats[s]), old.seats[s].drone = NoDrone,
         NEW drone \in Drone, session.seats[s] = [old.seats[s] EXCEPT !.drone = drone]
  PROVE  LET row == stampRevisions(old, session).seats[s] IN
         row # NoSeat /\ SoundRow(s, row)
<1> DEFINE before == old.seats[s]
           seat == [before EXCEPT !.drone = drone]
           row == stampRevisions(old, session).seats[s]
<1>1. before \in GoodSeat /\ before \in Seat /\ before.rev = 1 /\ drone # NoDrone
  BY GoodFields, SeatIsNotNull, DroneAssumption DEF MaybeSeat, SoundRow
<1>2. seat \in Seat /\ seat.rev = 1 /\ seat.drone = drone /\ seat # NoSeat
  BY <1>1, NullAssumption DEF Seat
<1>3. seatContent(before) # seatContent(seat)
  <2>1. seatContent(before).drone = NoDrone /\ seatContent(seat).drone = drone
    BY <1>1, <1>2 DEF seatContent, Seat
  <2> QED BY <1>1, <2>1
<1>4. row = StampSeat(before, seat)
  BY <1>2, StampedRow
<1> HIDE DEF before, seat, row
<1>5. row = [seat EXCEPT !.rev = 2]
  BY <1>1, <1>2, <1>3, <1>4, SeatIsNotNull DEF StampSeat, Higher
<1>6. row.rev = 2 /\ row.drone = drone /\ row \in Seat
  BY <1>2, <1>5 DEF Seat
<1>7. SoundRow(s, row)
  BY <1>1, <1>6 DEF SoundRow
<1> QED BY <1>6, <1>7, NullAssumption DEF row

\* What a step keeps of every child the store has not freed.
TapHolds == TapInv' /\ \A s \in Student \ Gone : TapKept(s)

\* A press on a device whose screen follows its disk is one such write.
LEMMA PressIsWritten ==
  ASSUME ~ScreenLag, NEW d \in Device, NEW session,
         PressShown(d, session) \/ PressFresh(d, session)
  PROVE  Written(d, session)
BY DEF PressShown, PressFresh, Echo, Written

\* It is enough to look at one child at a time.
LEMMA WriteHolds ==
  ASSUME IInv, TapInv, NEW d \in Device, disk[d] # NoDoc,
         NEW session \in Good, Written(d, session), OwnStays(d, session),
         \A s \in Student \ Gone : Tame(s, disk[d], session) \/ (OneTap(s)' /\ TapKept(s))
  PROVE  TapHolds
<1>1. screen = disk /\ FreedIsHeard /\ \A s \in Student \ Gone : OneTap(s)
  BY DEF TapInv
<1>2. Gone' = Gone /\ screen' = disk' /\ FreedIsHeard'
  BY <1>1, WrittenCopy
<1>3. ASSUME NEW s \in Student \ Gone PROVE OneTap(s)' /\ TapKept(s)
  BY <1>1, TameWrite
<1>4. \A s \in Student \ Gone' : OneTap(s)'
  BY <1>2, <1>3
<1> QED BY <1>2, <1>3, <1>4 DEF TapInv, TapHolds

\* What replacing one seat leaves.
LEMMA WithSeatSays ==
  ASSUME NEW doc \in Good, NEW s \in Student, NEW seat
  PROVE  /\ WithSeat(doc, s, seat).seats[s] = seat
         /\ \A u \in Student \ {s} : WithSeat(doc, s, seat).seats[u] = doc.seats[u]
         /\ WithSeat(doc, s, seat).freed = doc.freed
BY GoodFields DEF WithSeat, Doc

\* Rewriting a row that keeps its Drone is tame.
LEMMA RewriteIsTame ==
  ASSUME NEW doc \in Good, NEW s \in Seated(doc), NEW seat \in GoodSeat,
         doc.seats[s].drone # NoDrone, seat.drone = doc.seats[s].drone
  PROVE  \A u \in Student : Tame(u, doc, WithSeat(doc, s, seat))
BY WithSeatSays, SeatIsNotNull DEF Tame, Seated

\* The parts of a seat a press may touch leave its Drone alone.
LEMMA SameDrone ==
  ASSUME NEW seat \in GoodSeat, NEW name, NEW phase, NEW cleared, NEW reached
  PROVE  /\ [seat EXCEPT !.name = name].drone = seat.drone
         /\ [seat EXCEPT !.phase = phase].drone = seat.drone
         /\ [seat EXCEPT !.phase = phase, !.cleared = cleared].drone = seat.drone
         /\ [seat EXCEPT !.phase = phase, !.approved = cleared].drone = seat.drone
         /\ [seat EXCEPT !.phase = phase, !.flown = cleared].drone = seat.drone
         /\ [seat EXCEPT !.reached = reached].drone = seat.drone
BY DEF GoodSeat, Seat

\* The Teacher's answers go to rows with a Drone.
LEMMA AnswerIsTame ==
  ASSUME NEW doc \in Good, NEW who \in SUBSET Seated(doc),
         NEW phase \in {"held", "cleared"}, NEW cleared \in BOOLEAN, NEW s \in Student,
         s \in who => doc.seats[s].drone # NoDrone
  PROVE  Tame(s, doc, Answered(doc, who, phase, cleared))
<1> DEFINE new == Answered(doc, who, phase, cleared)
<1>1. new.seats[s] = IF s \in who
                     THEN [doc.seats[s] EXCEPT !.phase = phase, !.cleared = cleared]
                     ELSE doc.seats[s]
  BY GoodFields DEF Answered, Doc
<1>2. ASSUME s \in who
      PROVE  /\ doc.seats[s] \in GoodSeat
             /\ [doc.seats[s] EXCEPT !.phase = phase, !.cleared = cleared] \in GoodSeat
  BY <1>2, SeatedIsGood, SeatAnswered
<1> HIDE DEF new
<1> QED BY <1>1, <1>2, SameDrone, SeatIsNotNull DEF Tame, new

\* Flying over a point is written on rows with a Drone.
LEMMA ReachIsTame ==
  ASSUME NEW doc \in Good, NEW d \in Drone, NEW points \in SUBSET Point, NEW s \in Student
  PROVE  Tame(s, doc, markPointsReached(doc, d, points))
<1> DEFINE new == markPointsReached(doc, d, points)
           seat == [doc.seats[s] EXCEPT !.reached = doc.seats[s].reached \cup points]
<1>1. new.seats[s] = IF s \in SeatsOnDrone(doc, d) THEN seat ELSE doc.seats[s]
  BY GoodFields DEF markPointsReached, Doc
<1>2. ASSUME s \in SeatsOnDrone(doc, d)
      PROVE  /\ doc.seats[s] \in GoodSeat /\ doc.seats[s].drone = d
             /\ seat.drone = d /\ seat # NoSeat
  <2>1. doc.seats[s] \in GoodSeat /\ doc.seats[s].drone = d
    BY <1>2, SeatedIsGood DEF SeatsOnDrone
  <2>2. seat \in Seat
    BY <2>1 DEF GoodSeat, Seat
  <2> QED BY <2>1, <2>2, SameDrone, NullAssumption
<1> HIDE DEF new, seat
<1> QED BY <1>1, <1>2, SeatIsNotNull, DroneAssumption DEF Tame, new

\* Nothing the Teacher presses moves a child to another Drone.
LEMMA BoardHolds ==
  ASSUME ~ScreenLag, IInv, TapInv, BoardWrites
  PROVE  TapHolds
<1> DEFINE doc == disk[Board]
<1>1. /\ Board \in Device /\ doc \in Good /\ doc # NoDoc /\ screen[Board] = doc
  BY BoardHasARoom, BoardIsADevice, GoodIsNotNull DEF TapInv
<1>2. \A session \in Good : OwnStays(Board, session)
  BY DeviceAssumption DEF OwnStays
<1>3. \A s \in Student \ Gone : OneTap(s)
  BY DEF TapInv
<1>4. \A s \in Student \ Gone : doc.seats[s] # NoSeat => SoundRow(s, doc.seats[s])
  BY <1>1, <1>3, RowOnDisk
<1> HIDE DEF doc
<1>5. ASSUME NEW session \in Good, Written(Board, session),
             \A s \in Student \ Gone : Tame(s, doc, session)
      PROVE  TapHolds
  <2>1. \A s \in Student \ Gone :
          Tame(s, disk[Board], session) \/ (OneTap(s)' /\ TapKept(s))
    BY <1>5 DEF doc
  <2>2. OwnStays(Board, session) /\ disk[Board] # NoDoc
    BY <1>1, <1>2 DEF doc
  <2> QED BY <1>1, <1>5, <2>1, <2>2, WriteHolds
<1>6. CASE OpensClassroom
  <2>1. PICK brief \in {doc.brief, doc.brief + 1}, live \in {doc.live, TRUE} :
           OpenClassroom(brief, live)
    BY <1>6 DEF OpensClassroom, doc
  <2> DEFINE next == [doc EXCEPT !.brief = brief, !.live = live]
  <2>2. brief \in Nat /\ live \in BOOLEAN
    <3>1. doc.brief \in Nat /\ doc.live \in BOOLEAN
      BY <1>1, GoodFields
    <3>2. brief \in Nat
      BY <3>1
    <3>3. live \in BOOLEAN
      BY <3>1, Zenon
    <3> QED BY <3>2, <3>3
  <2>3. next \in Good /\ next.seats = doc.seats
    BY <1>1, <2>2, RoomEditedKeeps, GoodFields DEF Doc
  <2>4. Written(Board, next)
    BY <2>1 DEF OpenClassroom, Sent, Echo, Written, doc
  <2>5. \A s \in Student : Tame(s, doc, next)
    BY <2>3 DEF Tame
  <2> HIDE DEF next
  <2> QED BY <1>5, <2>3, <2>4, <2>5
<1>7. CASE pushClassroomInstruction
  <2> DEFINE next == [doc EXCEPT !.posts = doc.posts + 1]
  <2>1. next \in Good /\ next.seats = doc.seats
    <3>1. doc.posts + 1 \in Nat
      BY <1>1, GoodFields
    <3> QED BY <1>1, <3>1, RoomEditedKeeps, GoodFields DEF Doc
  <2>2. Written(Board, next)
    BY <1>1, <1>7, PressIsWritten DEF pushClassroomInstruction, doc
  <2>3. \A s \in Student : Tame(s, doc, next)
    BY <2>1 DEF Tame
  <2> HIDE DEF next
  <2> QED BY <1>5, <2>1, <2>2, <2>3
<1>8. CASE closeClassroom
  <2> DEFINE next == [doc EXCEPT !.ended = TRUE, !.live = FALSE]
  <2>1. next \in Good /\ next.seats = doc.seats
    BY <1>1, RoomEditedKeeps, GoodFields DEF Doc
  <2>2. Written(Board, next)
    BY <1>1, <1>8, PressIsWritten DEF closeClassroom, doc
  <2>3. \A s \in Student : Tame(s, doc, next)
    BY <2>1 DEF Tame
  <2> HIDE DEF next
  <2> QED BY <1>5, <2>1, <2>2, <2>3
<1>9. ASSUME NEW d \in Drone, Grant(d) \/ Hold(d) PROVE TapHolds
  <2> DEFINE who == seatsForDrone(doc, d)
  <2>1. who \in SUBSET Seated(doc) /\ Waiting(doc, d) \in SUBSET who
    BY DEF seatsForDrone, Waiting, SeatsOnDrone
  <2>2. \A s \in (Student \ Gone) \cap who : doc.seats[s].drone # NoDrone
    <3> SUFFICES ASSUME NEW s \in Student \ Gone, s \in who, doc.seats[s].drone = NoDrone
                 PROVE  FALSE
      OBVIOUS
    <3>1. doc.seats[s].phase = "briefing"
      BY <1>4, <2>1 DEF SoundRow, Seated
    <3> QED BY <3>1, DroneAssumption DEF seatsForDrone, SeatsOnDrone
  <2> HIDE DEF who
  <2>3. ASSUME NEW them \in SUBSET who, NEW phase \in {"held", "cleared"},
               NEW cleared \in BOOLEAN, PressFresh(Board, Answered(doc, them, phase, cleared))
        PROVE  TapHolds
    <3>1. them \in SUBSET Seated(doc)
      BY <2>1
    <3>2. Answered(doc, them, phase, cleared) \in Good
      BY <1>1, <3>1, AnsweredKeeps
    <3>3. \A s \in Student \ Gone : Tame(s, doc, Answered(doc, them, phase, cleared))
      BY <1>1, <2>2, <3>1, AnswerIsTame
    <3> QED BY <1>1, <1>5, <2>3, <3>2, <3>3, PressIsWritten
  <2>4. CASE Grant(d)
    BY <2>3, <2>4 DEF Grant, grantSeatsForDrone, doc, who
  <2>5. CASE Hold(d)
    BY <2>1, <2>3, <2>5 DEF Hold, holdSeatsForDrone, doc
  <2> QED BY <1>9, <2>4, <2>5
<1>10. ASSUME NEW d \in Drone, NEW point \in Point, Reach(d, point) PROVE TapHolds
  <2>1. markPointsReached(doc, d, {point}) \in Good
    BY <1>1, ReachedKeeps
  <2>2. \A s \in Student \ Gone : Tame(s, doc, markPointsReached(doc, d, {point}))
    BY <1>1, ReachIsTame
  <2>3. Written(Board, markPointsReached(doc, d, {point}))
    BY <1>1, <1>10, PressIsWritten DEF Reach, doc
  <2> QED BY <1>5, <2>1, <2>2, <2>3
<1>11. ASSUME NEW d \in Drone, Free(d) PROVE TapHolds
  <2>1. PICK held \in SeatsOnDrone(doc, d) : PressShown(Board, Dropped(doc, held))
    BY <1>1, <1>11 DEF Free
  <2>2. held \in Student
    BY DEF SeatsOnDrone, Seated
  <2>3. Dropped(doc, held) \in Good /\ Written(Board, Dropped(doc, held))
    BY <1>1, <2>1, <2>2, DroppedKeeps, PressIsWritten
  <2>4. \A s \in Student \ Gone : Tame(s, doc, Dropped(doc, held))
    <3>1. /\ Dropped(doc, held).seats[held] = NoSeat
          /\ Dropped(doc, held).freed = doc.freed \cup {held}
          /\ \A s \in Student \ {held} : Dropped(doc, held).seats[s] = doc.seats[s]
      BY <1>1, <2>2, DroppedKeeps, GoodFields
    <3> QED BY <3>1 DEF Tame
  <2> QED BY <1>5, <2>3, <2>4
<1>12. ASSUME NEW d \in Drone, NEW name \in Name, RenameByHand(d, name) PROVE TapHolds
  <2>1. PICK held \in SeatsOnDrone(doc, d) :
           PressShown(Board, WithSeat(doc, held, [doc.seats[held] EXCEPT !.name = name]))
    BY <1>1, <1>12 DEF RenameByHand
  <2> DEFINE seat == doc.seats[held]
             new == [seat EXCEPT !.name = name]
  <2>2. held \in Seated(doc) /\ seat \in GoodSeat /\ seat.drone # NoDrone
    BY <1>1, <2>1, SeatedIsGood, DroneAssumption DEF SeatsOnDrone
  <2>3. new \in GoodSeat /\ new.drone = seat.drone
    <3> HIDE DEF seat
    <3>1. [seat EXCEPT !.drone = seat.drone] = seat
      BY <2>2 DEF GoodSeat, Seat
    <3> QED BY <2>2, SameDrone DEF GoodSeat, Seat, allPointsReached
  <2>4. WithSeat(doc, held, new) \in Good
    BY <1>1, <2>2, SeatPressKeeps
  <2>5. Written(Board, WithSeat(doc, held, new))
    BY <1>1, <2>1, PressIsWritten
  <2> HIDE DEF new
  <2>6. \A s \in Student : Tame(s, doc, WithSeat(doc, held, new))
    BY <1>1, <2>2, <2>3, RewriteIsTame
  <2> QED BY <1>5, <2>4, <2>5, <2>6
<1>13. ASSUME NEW d \in Drone, NEW name \in Name, SeatByHand(d, name) PROVE TapHolds
  <2>1. PICK h \in HandId :
           Minted(h) /\ PressShown(Board, WithSeat(doc, h, NewSeat(name, d)))
    BY <1>1, <1>13 DEF SeatByHand
  <2> DEFINE next == WithSeat(doc, h, NewSeat(name, d))
  <2>2. h \in Student /\ h \notin Tablet /\ h \notin doc.freed /\ Rows(h) = {}
        /\ doc.seats[h] = NoSeat
    <3>1. h \in Student /\ h \notin Tablet
      BY DeviceAssumption
    <3>2. \A copy \in Docs \ {NoDoc} : copy.seats[h] = NoSeat /\ h \notin copy.freed
      BY <2>1, <3>1 DEF Minted, Seated
    <3>3. doc \in Docs \ {NoDoc}
      BY <1>1, Copies DEF doc
    <3> QED BY <3>1, <3>2, <3>3 DEF Rows
  <2>3. next \in Good /\ Written(Board, next)
    BY <1>1, <2>1, <2>2, HandSeatKeeps, PressIsWritten
  <2>4. /\ next.seats[h] = NewSeat(name, d)
        /\ \A s \in Student \ {h} : next.seats[s] = doc.seats[s]
    BY <1>1, <2>2, WithSeatSays
  <2> HIDE DEF next
  <2>5. /\ stampRevisions(doc, next).seats[h] # NoSeat
        /\ stampRevisions(doc, next).seats[h].drone = d
    BY <1>1, <2>2, <2>3, <2>4, StampedNewRow
  <2>6. SoundRow(h, stampRevisions(doc, next).seats[h])
    BY <2>2, <2>5, DroneAssumption DEF SoundRow
  <2>7. h \notin Gone => OneTap(h)' /\ TapKept(h)
    BY <1>1, <1>2, <1>3, <2>2, <2>3, <2>5, <2>6, FirstTap DEF TapInv, doc
  <2>8. \A s \in Student \ {h} : Tame(s, doc, next)
    BY <2>4 DEF Tame
  <2>9. OwnStays(Board, next) /\ disk[Board] # NoDoc
    BY <1>1, <1>2, <2>3 DEF doc
  <2>10. \A s \in Student \ Gone :
           Tame(s, disk[Board], next) \/ (OneTap(s)' /\ TapKept(s))
    BY <2>7, <2>8 DEF doc
  <2> QED BY <1>1, <2>3, <2>9, <2>10, WriteHolds
<1>14. ASSUME NEW s \in Student, Approve(s) PROVE TapHolds
  <2>1. /\ s \in Seated(doc) /\ allPointsReached(doc.seats[s])
        /\ PressShown(Board, approveSeatTask(doc, s))
    BY <1>1, <1>14 DEF Approve
  <2> DEFINE seat == doc.seats[s]
             new == [seat EXCEPT !.phase = "returning", !.approved = TRUE]
  <2>2. approveSeatTask(doc, s) \in Good /\ approveSeatTask(doc, s) = WithSeat(doc, s, new)
    <3>1. PICK name \in Name : TRUE
      BY <1>1, <2>1, SeatedIsGood DEF GoodSeat, Seat
    <3> QED BY <1>1, <2>1, <3>1, SeatPressKeeps DEF approveSeatTask
  <2>3. seat \in GoodSeat /\ new \in GoodSeat /\ new.drone = seat.drone
    <3>1. seat \in GoodSeat
      BY <1>1, <2>1, SeatedIsGood
    <3>2. allPointsReached(seat)
      BY <2>1
    <3> HIDE DEF seat
    <3>3. new \in GoodSeat
      BY <3>1, <3>2, SeatFinished
    <3>4. new.drone = seat.drone
      BY <3>1 DEF GoodSeat, Seat
    <3> QED BY <3>1, <3>3, <3>4
  <2> HIDE DEF new
  <2>4. CASE s \in Gone
    <3>1. \A u \in Student \ Gone : Tame(u, doc, WithSeat(doc, s, new))
      BY <1>1, <2>1, <2>4, WithSeatSays DEF Tame, Seated
    <3> QED BY <1>1, <1>5, <2>1, <2>2, <3>1, PressIsWritten
  <2>5. CASE s \notin Gone
    <3>1. seat.drone # NoDrone
      BY <1>4, <2>1, <2>5 DEF SoundRow, allPointsReached, Seated
    <3>2. \A u \in Student : Tame(u, doc, WithSeat(doc, s, new))
      BY <1>1, <2>1, <2>3, <3>1, RewriteIsTame
    <3> QED BY <1>1, <1>5, <2>1, <2>2, <3>2, PressIsWritten
  <2> QED BY <2>4, <2>5
<1> QED BY <1>6, <1>7, <1>8, <1>9, <1>10, <1>11, <1>12, <1>13, <1>14 DEF BoardWrites

\* A tablet's own presses: nothing but the first tap gives its child a Drone.
LEMMA TabletHolds ==
  ASSUME ~ScreenLag, IInv, TapInv, NEW t \in Tablet, TabletWrites(t)
  PROVE  TapHolds
<1> DEFINE doc == disk[t]
           seat == doc.seats[t]
<1>1. /\ t \in Device /\ t \in Student /\ NameOf[t] \in Name /\ screen[t] = doc
      /\ doc # NoDoc /\ doc \in Good
  <2>1. t \in Device /\ t \in Student /\ NameOf[t] \in Name /\ screen[t] = doc
    BY DeviceAssumption DEF Device, TapInv
  <2>2. Shown(t)
    BY DEF TabletWrites, Join, requestTakeoff, SeeFlown, markSeatComplete,
           TakeFreeDrone, ReclaimDrone, AsksForADrone, IsSeated
  <2> QED BY <2>1, <2>2, RoomsAreGood, GoodIsNotNull DEF Shown
<1>2. \A s \in Student \ Gone : OneTap(s)
  BY DEF TapInv
<1>3. \A s \in Student \ Gone : doc.seats[s] # NoSeat => SoundRow(s, doc.seats[s])
  BY <1>1, <1>2, RowOnDisk
<1>4. t \notin Gone => \A row \in Rows(t) : row.drone # NoDrone => seat # NoSeat /\ seat.drone = row.drone
  BY <1>1, <1>2 DEF OneTap, KnownAtHome
<1> HIDE DEF doc, seat
<1>5. ASSUME NEW session \in Good, Written(t, session), OwnStays(t, session),
             \A s \in Student \ Gone : Tame(s, doc, session)
      PROVE  TapHolds
  <2>1. \A s \in Student \ Gone :
          Tame(s, disk[t], session) \/ (OneTap(s)' /\ TapKept(s))
    BY <1>5 DEF doc
  <2>2. disk[t] # NoDoc
    BY <1>1 DEF doc
  <2> QED BY <1>1, <1>5, <2>1, <2>2, WriteHolds
<1>6. ASSUME NEW session \in Good, Written(t, session), OwnStays(t, session),
             \A s \in Student \ {t} : Tame(s, doc, session),
             seat = NoSeat \/ (SoundRow(t, seat) /\ seat.drone = NoDrone) \/ t \in Gone,
             LET row == stampRevisions(doc, session).seats[t] IN
               (row # NoSeat /\ SoundRow(t, row)) \/ t \in Gone
      PROVE  TapHolds
  <2>1. ASSUME t \notin Gone PROVE OneTap(t)' /\ TapKept(t)
    <3>1. \A row \in Rows(t) : row.drone = NoDrone
      BY <1>4, <1>6, <2>1
    <3>2. /\ stampRevisions(disk[t], session).seats[t] # NoSeat
          /\ SoundRow(t, stampRevisions(disk[t], session).seats[t])
      BY <1>6, <2>1 DEF doc
    <3>3. disk[t] # NoDoc /\ OneTap(t)
      BY <1>1, <1>2, <2>1 DEF doc
    <3> QED BY <1>1, <1>6, <3>1, <3>2, <3>3, FirstTap DEF TapInv
  <2>2. \A s \in Student \ Gone :
          Tame(s, disk[t], session) \/ (OneTap(s)' /\ TapKept(s))
    BY <1>6, <2>1 DEF doc
  <2>3. disk[t] # NoDoc
    BY <1>1 DEF doc
  <2> QED BY <1>1, <1>6, <2>2, <2>3, WriteHolds
<1>7. CASE Join(t)
  <2> DEFINE next == joinClassroomAsStudent(doc, t, NameOf[t])
  <2>1. seat = NoSeat /\ PressShown(t, next)
    BY <1>1, <1>7 DEF Join, MySeat, seat
  <2>2. next \in Good /\ Written(t, next)
    BY <1>1, <2>1, JoinKeeps, PressIsWritten
  <2>3. /\ next.seats[t] = NewSeat(NameOf[t], NoDrone) /\ t \notin next.freed
        /\ \A s \in Student \ {t} : next.seats[s] = doc.seats[s]
    BY <1>1, GoodFields DEF joinClassroomAsStudent, WithSeat, Doc
  <2> HIDE DEF next
  <2>4. LET row == stampRevisions(doc, next).seats[t] IN
        /\ row # NoSeat /\ row.drone = NoDrone
        /\ row.rev = 1 /\ row.phase = "briefing" /\ row.reached = {}
    BY <1>1, <2>1, <2>2, <2>3, StampedNewRow DEF seat
  <2>5. SoundRow(t, stampRevisions(doc, next).seats[t])
    BY <2>4 DEF SoundRow
  <2>6. OwnStays(t, next) /\ \A s \in Student \ {t} : Tame(s, doc, next)
    BY <2>3 DEF OwnStays, Tame
  <2> QED BY <1>6, <2>1, <2>2, <2>4, <2>5, <2>6
<1>8. ASSUME NEW new \in GoodSeat, seat # NoSeat, seat.drone # NoDrone,
             new.drone = seat.drone, PressShown(t, WithSeat(doc, t, new))
      PROVE  TapHolds
  <2>1. t \in Seated(doc) /\ t \notin doc.freed
    BY <1>1, <1>8, GoodFields DEF Seated, seat
  <2>2. WithSeat(doc, t, new) \in Good /\ Written(t, WithSeat(doc, t, new))
    BY <1>1, <1>8, <2>1, WithSeatKeeps, PressIsWritten
  <2>3. \A s \in Student : Tame(s, doc, WithSeat(doc, t, new))
    BY <1>1, <1>8, <2>1, RewriteIsTame DEF seat
  <2>4. OwnStays(t, WithSeat(doc, t, new))
    BY <1>1, <2>1, WithSeatSays DEF OwnStays
  <2> QED BY <1>5, <2>2, <2>3, <2>4
<1>9. seat # NoSeat => seat \in GoodSeat
  BY <1>1, GoodFields DEF MaybeSeat, seat
<1>10. CASE requestTakeoff(t)
  <2>1. seat # NoSeat /\ seat.drone # NoDrone
        /\ PressShown(t, updateSeatPhase(doc, t, "awaiting-clearance"))
    BY <1>1, <1>10 DEF requestTakeoff, IsSeated, MySeat, seat
  <2> DEFINE new == [seat EXCEPT !.phase = "awaiting-clearance"]
  <2>2. new \in GoodSeat /\ new.drone = seat.drone
    BY <1>9, <2>1, SeatAnswered, SameDrone
  <2>3. updateSeatPhase(doc, t, "awaiting-clearance") = WithSeat(doc, t, new)
    BY DEF updateSeatPhase, seat
  <2> HIDE DEF new
  <2> QED BY <1>8, <2>1, <2>2, <2>3
<1>11. CASE SeeFlown(t)
  <2>1. seat # NoSeat /\ seat.drone # NoDrone /\ PressShown(t, markSeatFlown(doc, t))
    BY <1>1, <1>11 DEF SeeFlown, IsSeated, MySeat, seat
  <2> DEFINE new == [seat EXCEPT !.phase = "flying", !.flown = TRUE]
  <2>2. new \in GoodSeat /\ new.drone = seat.drone
    BY <1>9, <2>1 DEF GoodSeat, Seat, Phase
  <2>3. markSeatFlown(doc, t) = WithSeat(doc, t, new)
    BY DEF markSeatFlown, seat
  <2> HIDE DEF new
  <2> QED BY <1>8, <2>1, <2>2, <2>3
<1>12. CASE markSeatComplete(t)
  <2>1. seat # NoSeat /\ seat.drone # NoDrone /\ seat.phase = "returning"
        /\ PressShown(t, updateSeatPhase(doc, t, "complete"))
    BY <1>1, <1>12 DEF markSeatComplete, IsSeated, MySeat, seat
  <2> DEFINE new == [seat EXCEPT !.phase = "complete"]
  <2>2. new \in GoodSeat /\ new.drone = seat.drone
    BY <1>9, <2>1, SeatFinished, SameDrone
  <2>3. updateSeatPhase(doc, t, "complete") = WithSeat(doc, t, new)
    BY DEF updateSeatPhase, seat
  <2> HIDE DEF new
  <2> QED BY <1>8, <2>1, <2>2, <2>3
<1>13. ASSUME NEW d \in Drone, TakeFreeDrone(t, d) PROVE TapHolds
  <2> DEFINE next == TakenBy(doc, t, d)
  <2>1. seat # NoSeat /\ seat.drone = NoDrone /\ PressShown(t, next)
    BY <1>1, <1>13 DEF TakeFreeDrone, AsksForADrone, IsSeated, MySeat, seat
  <2>2. t \in Seated(doc) /\ t \notin doc.freed
    BY <1>1, <2>1, GoodFields DEF Seated, seat
  <2>3. next \in Good /\ Written(t, next)
    BY <1>1, <2>1, <2>2, TakenKeeps, PressIsWritten
  <2>4. /\ next.seats[t] = [seat EXCEPT !.drone = d] /\ next.freed = doc.freed
        /\ \A s \in Student \ {t} : next.seats[s] = doc.seats[s]
    BY <1>1, WithSeatSays DEF TakenBy, seat
  <2> HIDE DEF next
  <2>5. t \notin Gone =>
          LET row == stampRevisions(doc, next).seats[t] IN row # NoSeat /\ SoundRow(t, row)
    BY <1>1, <1>3, <2>1, <2>3, <2>4, StampedTap DEF seat
  <2>6. OwnStays(t, next) /\ \A s \in Student \ {t} : Tame(s, doc, next)
    BY <2>2, <2>4 DEF OwnStays, Tame
  <2>7. SoundRow(t, seat) \/ t \in Gone
    BY <1>1, <1>3, <2>1 DEF seat
  <2> QED BY <1>6, <2>1, <2>3, <2>5, <2>6, <2>7
<1>14. ASSUME NEW d \in Drone, ReclaimDrone(t, d) PROVE TapHolds
  <2>1. seat # NoSeat /\ seat.drone = NoDrone
    BY <1>1, <1>14 DEF ReclaimDrone, AsksForADrone, IsSeated, MySeat, seat
  <2>2. PICK held \in SeatsOnDrone(doc, d) : PressShown(t, Reclaimed(doc, held, t, d))
    BY <1>1, <1>14 DEF ReclaimDrone
  <2> DEFINE dropped == Dropped(doc, held)
             next == Reclaimed(doc, held, t, d)
  <2>3. t \in Seated(doc) /\ t \notin doc.freed /\ held \in Seated(doc) \ {t}
    BY <1>1, <2>1, <2>2, GoodFields, DroneAssumption DEF SeatsOnDrone, Seated, seat
  <2>4. next \in Good /\ Written(t, next)
    BY <1>1, <2>2, <2>3, TakenKeeps, PressIsWritten
  <2>5. /\ dropped \in Good /\ dropped.freed = doc.freed \cup {held}
        /\ dropped.seats[held] = NoSeat
        /\ \A s \in Student \ {held} : dropped.seats[s] = doc.seats[s]
    BY <1>1, <2>3, DroppedKeeps, GoodFields DEF Seated
  <2>6. next = WithSeat(dropped, t, [dropped.seats[t] EXCEPT !.drone = d])
    BY DEF Reclaimed, TakenBy
  <2> HIDE DEF dropped, next
  <2>7. /\ next.seats[t] = [seat EXCEPT !.drone = d]
        /\ next.freed = doc.freed \cup {held} /\ next.seats[held] = NoSeat
        /\ \A s \in Student \ {t, held} : next.seats[s] = doc.seats[s]
    BY <1>1, <2>3, <2>5, <2>6, WithSeatSays DEF seat, Seated
  <2>8. t \notin Gone =>
          LET row == stampRevisions(doc, next).seats[t] IN row # NoSeat /\ SoundRow(t, row)
    BY <1>1, <1>3, <2>1, <2>4, <2>7, StampedTap DEF seat
  <2>9. OwnStays(t, next) /\ \A s \in Student \ {t} : Tame(s, doc, next)
    BY <2>3, <2>7 DEF OwnStays, Tame
  <2>10. SoundRow(t, seat) \/ t \in Gone
    BY <1>1, <1>3, <2>1 DEF seat
  <2> QED BY <1>6, <2>1, <2>4, <2>8, <2>9, <2>10
<1> QED BY <1>7, <1>10, <1>11, <1>12, <1>13, <1>14 DEF TabletWrites

\* A beat is no tap.
LEMMA BeatHolds ==
  ASSUME ~ScreenLag, IInv, TapInv, NEW cloud \in BOOLEAN,
         touchBoard(cloud) \/ \E t \in Tablet : touchSeat(t, cloud)
  PROVE  TapHolds
<1>1. \A b \in Nat : Beat(b) \in Nat
  BY DEF Beat
<1>2. CASE touchBoard(cloud)
  <2> DEFINE doc == disk[Board]
             next == [doc EXCEPT !.boardSeen = Beat(doc.boardSeen)]
  <2>1. Board \in Device /\ doc \in Good /\ doc # NoDoc
    BY BoardHasARoom, BoardIsADevice, GoodIsNotNull
  <2>2. next \in Good /\ next.seats = doc.seats
    <3>1. Beat(doc.boardSeen) \in Nat
      BY <1>1, <2>1, GoodFields
    <3> QED BY <2>1, <3>1, RoomEditedKeeps, GoodFields DEF Doc
  <2>3. Written(Board, next)
    BY <1>2 DEF touchBoard, Echo, Written
  <2>4. \A s \in Student : Tame(s, doc, next)
    BY <2>2 DEF Tame
  <2>5. OwnStays(Board, next)
    BY DeviceAssumption DEF OwnStays
  <2> HIDE DEF next
  <2> QED BY <2>1, <2>2, <2>3, <2>4, <2>5, WriteHolds
<1>3. ASSUME NEW t \in Tablet, touchSeat(t, cloud) PROVE TapHolds
  <2> DEFINE doc == disk[t]
             seat == doc.seats[t]
             beaten == [seat EXCEPT !.seen = Beat(seat.seen)]
             next == [doc EXCEPT !.seats[t].seen = Beat(seat.seen)]
  <2>1. t \in Device /\ t \in Student /\ doc # NoDoc /\ doc \in Good /\ seat # NoSeat
    BY <1>3, DeviceAssumption, RoomsAreGood DEF Device, touchSeat
  <2>2. t \notin doc.freed /\ seat \in GoodSeat
    BY <2>1, SeatedIsGood DEF Seated
  <2>3. Beat(seat.seen) \in Nat
    BY <1>1, <2>2 DEF GoodSeat, Seat
  <2>4. beaten \in GoodSeat
    BY <2>2, <2>3, RecountedSeat
  <2>5. next = WithSeat(doc, t, beaten)
    BY <2>1, GoodFields DEF WithSeat, Doc
  <2>6. Written(t, next)
    BY <1>3 DEF touchSeat, Echo, Written
  <2>7. beaten.drone = seat.drone /\ beaten.rev = seat.rev
        /\ seatContent(beaten) = seatContent(seat)
    BY <2>2, <2>3 DEF GoodSeat, Seat, seatContent
  <2> HIDE DEF doc, beaten, next
  <2>8. next \in Good /\ next.seats[t] = beaten /\ next.freed = doc.freed
        /\ \A s \in Student \ {t} : next.seats[s] = doc.seats[s]
    BY <2>1, <2>2, <2>4, <2>5, WithSeatKeeps, WithSeatSays
  <2>9. \A s \in Student : Tame(s, doc, next)
    BY <2>1, <2>4, <2>7, <2>8, SeatIsNotNull DEF Tame
  <2>10. OwnStays(t, next)
    BY <2>8 DEF OwnStays, doc
  <2> QED BY <2>1, <2>6, <2>8, <2>9, <2>10, WriteHolds DEF doc
<1> QED BY <1>2, <1>3

\* A step that makes no new copy, and leaves every disk as it is.
LEMMA NoNewsHolds ==
  ASSUME TapInv, UNCHANGED <<disk, screen>>, Docs' \subseteq Docs \cup {NoDoc},
         Gone' = Gone, \A d \in Device : \A doc \in replies'[d] : doc.freed \subseteq Gone
  PROVE  TapHolds
<1>1. ASSUME NEW s \in Student \ Gone PROVE OneTap(s)' /\ TapKept(s)
  <2>1. OneTap(s)
    BY DEF TapInv
  <2>2. OneTap(s)'
    BY <2>1, OneTapStays
  <2> QED BY <2>2 DEF TapKept
<1>2. FreedIsHeard'
  BY DEF TapInv, FreedIsHeard
<1> QED BY <1>1, <1>2 DEF TapInv, TapHolds

\* What leaves a device, gets lost, or is read from the store is a copy already.
LEMMA PostHolds ==
  ASSUME IInv, TapInv, NEW d \in Device,
         scheduleClassroomCloudPush(d) \/ LosePut(d) \/ readClassroom(d)
  PROVE  TapHolds
<1>1. /\ UNCHANGED <<disk, screen, store>> /\ Gone' = Gone
      /\ \A e \in Device : /\ pending'[e] \in Docs \cup {NoDoc}
                           /\ puts'[e] \subseteq Docs
                           /\ replies'[e] \subseteq replies[e] \cup ({store} \ {NoDoc})
  <2>1. CASE scheduleClassroomCloudPush(d)
    BY <2>1, Copies DEF scheduleClassroomCloudPush, Sent, Gone, IInv
  <2>2. CASE LosePut(d)
    BY <2>2, Copies DEF LosePut, Gone, IInv
  <2>3. CASE readClassroom(d)
    BY <2>3, Copies DEF readClassroom, Gone, IInv
  <2> QED BY <2>1, <2>2, <2>3
<1>2. Docs' \subseteq Docs \cup {NoDoc}
  BY <1>1, Copies DEF Docs
<1>3. store # NoDoc => store.freed \subseteq Gone
  BY DEF Gone
<1>4. \A e \in Device : \A doc \in replies'[e] : doc.freed \subseteq Gone
  BY <1>1, <1>3 DEF TapInv, FreedIsHeard
<1> QED BY <1>1, <1>2, <1>4, NoNewsHolds

\* A PUT lands: what the store says of a child is what some copy said.
LEMMA PutHolds ==
  ASSUME IInv, TapInv, NEW d \in Device, writeClassroom(d)
  PROVE  TapHolds
<1>1. PICK incoming \in puts[d] :
        /\ store' = mergeClassrooms(incoming, store)
        /\ puts' = [puts EXCEPT ![d] = puts[d] \ {incoming}]
        /\ UNCHANGED <<disk, screen, pending, replies>>
  BY DEF writeClassroom
<1>2. incoming \in Docs /\ incoming \in Good /\ incoming # NoDoc /\ store \in MaybeGood
  BY <1>1, Copies, GoodIsNotNull DEF IInv
<1>3. Docs' \subseteq Docs \cup {store', NoDoc}
  <2>1. \A e \in Device : puts'[e] \subseteq Docs
    BY <1>1, Copies DEF IInv
  <2> QED BY <1>1, <2>1, Copies DEF Docs
<1>4. Gone \subseteq Gone'
  <2>1. CASE store = NoDoc
    BY <2>1 DEF Gone
  <2>2. CASE store \in Good
    <3>1. store' = Merge(incoming, store) /\ store # NoDoc
      BY <1>1, <2>2, GoodIsNotNull DEF mergeClassrooms
    <3>2. store' \in Good /\ store'.freed = incoming.freed \cup store.freed
      BY <1>2, <2>2, <3>1, MergeKeeps, GoodFields DEF Merge, Doc
    <3> QED BY <3>1, <3>2, GoodIsNotNull DEF Gone
  <2> QED BY <1>2, <2>1, <2>2 DEF MaybeGood
<1>5. FreedIsHeard'
  BY <1>1, <1>4 DEF TapInv, FreedIsHeard
<1>6. ASSUME NEW s \in Student \ Gone PROVE OneTap(s)' /\ TapKept(s)
  <2>1. OneTap(s)
    BY DEF TapInv
  <2>2. store' # NoDoc /\ store'.seats[s] # NoSeat =>
          /\ SoundRow(s, store'.seats[s])
          /\ \E old \in Rows(s) : old.drone = store'.seats[s].drone
    <3>1. CASE store = NoDoc
      BY <1>1, <1>2, <2>1, <3>1, RowOfCopy DEF mergeClassrooms, OneTap
    <3>2. CASE store # NoDoc
      BY <1>1, <1>2, <2>1, <3>2, MergedCopy, Copies DEF mergeClassrooms
    <3> QED BY <3>1, <3>2
  <2>3. OneTap(s)'
    BY <1>1, <1>3, <2>1, <2>2, OneTapStays
  <2>4. TapKept(s)
    BY <1>1 DEF TapKept
  <2> QED BY <2>3, <2>4
<1> QED BY <1>1, <1>4, <1>5, <1>6 DEF TapInv, TapHolds

\* The answer to a poll, however old, moves nobody to another Drone.
LEMMA PollHolds ==
  ASSUME ~ScreenLag, IInv, TapInv, NEW d \in Device, subscribeClassroom(d)
  PROVE  TapHolds
<1>1. PICK remote \in replies[d] :
        /\ Poll(d, remote)
        /\ replies' = [replies EXCEPT ![d] = replies[d] \ {remote}]
        /\ UNCHANGED <<puts, store, writes>>
  BY DEF subscribeClassroom
<1> DEFINE merged == Merge(disk[d], remote)
<1>2. /\ disk[d] \in Docs /\ disk[d] # NoDoc /\ disk[d] \in Good
      /\ remote \in Docs /\ remote # NoDoc /\ remote \in Good
  BY <1>1, Copies, RoomsAreGood, GoodIsNotNull DEF subscribeClassroom, IInv
<1>3. merged \in Good /\ merged # NoDoc /\ merged.freed = disk[d].freed \cup remote.freed
  <2>1. merged \in Good
    BY <1>2, MergeKeeps
  <2>2. merged.freed = disk[d].freed \cup remote.freed
    BY <1>2, GoodFields DEF Merge, Doc
  <2> QED BY <2>1, <2>2, GoodIsNotNull
<1>4. /\ disk' = disk \/ disk' = [disk EXCEPT ![d] = merged]
      /\ pending' = pending \/ pending' = [pending EXCEPT ![d] = merged]
      /\ screen' = IF disk'[d] = disk[d] THEN screen ELSE [screen EXCEPT ![d] = disk'[d]]
  BY <1>1 DEF Poll
<1>5. \A s \in Student : OneTap(s) =>
        /\ merged.seats[s] # NoSeat =>
             /\ SoundRow(s, merged.seats[s])
             /\ \E old \in Rows(s) : old.drone = merged.seats[s].drone
        /\ disk[d].seats[s] # NoSeat /\ disk[d].seats[s].drone # NoDrone
             /\ merged.seats[s] # NoSeat =>
             merged.seats[s].drone = disk[d].seats[s].drone
        /\ disk[d].seats[s] # NoSeat /\ s \notin disk[d].freed \cup remote.freed =>
             merged.seats[s] # NoSeat
  BY <1>2, MergedCopy
<1> HIDE DEF merged
<1>6. /\ disk'[d] \in {disk[d], merged} /\ \A e \in Device \ {d} : disk'[e] = disk[e]
      /\ screen' = disk'
  BY <1>4 DEF IInv, TapInv
<1>7. Docs' \subseteq Docs \cup {merged, NoDoc}
  <2>1. \A e \in Device : /\ disk'[e] \in Docs \cup {merged}
                          /\ pending'[e] \in Docs \cup {merged}
                          /\ puts'[e] \subseteq Docs /\ replies'[e] \subseteq Docs
    BY <1>1, <1>4, <1>6, Copies DEF IInv
  <2> QED BY <1>1, <1>6, <2>1, Copies DEF Docs
<1>8. Gone' = Gone
  BY <1>1 DEF Gone
<1>9. remote.freed \subseteq Gone
  BY <1>1 DEF TapInv, FreedIsHeard
<1>10. FreedIsHeard'
  <2>1. \A e \in Device : \A doc \in replies'[e] : doc.freed \subseteq Gone
    BY <1>1 DEF TapInv, FreedIsHeard, IInv
  <2>2. \A t \in Tablet : disk'[t] # NoDoc /\ t \in disk'[t].freed => t \in Gone
    BY <1>2, <1>3, <1>6, <1>9, BoardIsADevice DEF TapInv, FreedIsHeard
  <2> QED BY <1>8, <2>1, <2>2 DEF FreedIsHeard
<1>11. ASSUME NEW s \in Student \ Gone PROVE OneTap(s)' /\ TapKept(s)
  <2>1. OneTap(s)
    BY DEF TapInv
  <2>2. s \in Tablet /\ disk[s] # NoDoc /\ disk[s].seats[s] # NoSeat =>
          /\ disk'[s] # NoDoc /\ disk'[s].seats[s] # NoSeat
          /\ disk[s].seats[s].drone # NoDrone =>
               disk'[s].seats[s].drone = disk[s].seats[s].drone
    <3>1. s \in Tablet /\ disk[s] # NoDoc => s \notin disk[s].freed
      BY DEF TapInv, FreedIsHeard
    <3> QED BY <1>3, <1>5, <1>6, <1>9, <2>1, <3>1, BoardIsADevice
  <2>3. OneTap(s)'
    BY <1>5, <1>7, <2>1, <2>2, OneTapStays
  <2>4. TapKept(s)
    BY <1>5, <1>6, <2>1 DEF TapKept
  <2> QED BY <2>3, <2>4
<1> QED BY <1>6, <1>8, <1>10, <1>11 DEF TapInv, TapHolds

\* A tablet at the door is in no copy yet, unless the store has freed it.
LEMMA DoorHolds ==
  ASSUME IInv, TapInv, NEW d \in Device, loadClassroomByCode(d)
  PROVE  TapHolds
<1>1. PICK remote \in replies[d] :
        /\ disk' = IF remote.ended THEN disk ELSE [disk EXCEPT ![d] = remote]
        /\ screen' = [screen EXCEPT ![d] = disk'[d]]
        /\ replies' = [replies EXCEPT ![d] = replies[d] \ {remote}]
        /\ UNCHANGED <<pending, puts, store, writes>>
  BY DEF loadClassroomByCode
<1>2. disk[d] = NoDoc /\ remote \in Docs /\ remote.freed \subseteq Gone
  BY <1>1, Copies DEF loadClassroomByCode, TapInv, FreedIsHeard
<1>3. /\ disk'[d] \in {NoDoc, remote} /\ \A e \in Device \ {d} : disk'[e] = disk[e]
      /\ screen' = disk'
  BY <1>1, <1>2 DEF IInv, TapInv
<1>4. Docs' \subseteq Docs \cup {remote, NoDoc}
  <2>1. \A e \in Device : disk'[e] \in Docs \cup {NoDoc} /\ replies'[e] \subseteq Docs
    BY <1>1, <1>2, <1>3, Copies DEF IInv
  <2> QED BY <1>1, <1>3, <2>1, Copies DEF Docs
<1>5. Gone' = Gone
  BY <1>1 DEF Gone
<1>6. FreedIsHeard'
  <2>1. \A e \in Device : \A doc \in replies'[e] : doc.freed \subseteq Gone
    BY <1>1 DEF TapInv, FreedIsHeard, IInv
  <2>2. \A t \in Tablet : disk'[t] # NoDoc /\ t \in disk'[t].freed => t \in Gone
    BY <1>2, <1>3, BoardIsADevice DEF TapInv, FreedIsHeard
  <2> QED BY <1>5, <2>1, <2>2 DEF FreedIsHeard
<1>7. ASSUME NEW s \in Student \ Gone PROVE OneTap(s)' /\ TapKept(s)
  <2>1. OneTap(s)
    BY DEF TapInv
  <2>2. remote # NoDoc /\ remote.seats[s] # NoSeat =>
          /\ SoundRow(s, remote.seats[s])
          /\ \E old \in Rows(s) : old.drone = remote.seats[s].drone
    BY <1>2, <2>1, RowOfCopy DEF OneTap
  <2>3. s \in Tablet /\ disk[s] # NoDoc => disk'[s] = disk[s]
    BY <1>2, <1>3, BoardIsADevice
  <2>4. OneTap(s)'
    BY <1>4, <2>1, <2>2, <2>3, OneTapStays
  <2>5. TapKept(s)
    BY <1>2, <1>3 DEF TapKept
  <2> QED BY <2>4, <2>5
<1> QED BY <1>3, <1>5, <1>6, <1>7 DEF TapInv, TapHolds

\* The step, for every child at once.
LEMMA StepHolds ==
  ASSUME ~ScreenLag, IInv, TapInv, [Next]_vars
  PROVE  /\ TapInv'
         /\ \A d \in Device : disk[d] # NoDoc => KeepsItsDrone(disk[d], disk'[d])
<1>1. ASSUME BoardWrites PROVE TapHolds
  BY <1>1, BoardHolds
<1>2. ASSUME NEW cloud \in BOOLEAN, touchBoard(cloud) \/ \E t \in Tablet : touchSeat(t, cloud)
      PROVE  TapHolds
  BY <1>2, BeatHolds
<1>3. ASSUME NEW t \in Tablet, TabletWrites(t)
      PROVE  TapHolds
  BY <1>3, TabletHolds
<1>4. ASSUME NEW d \in Device, Wire(d)
      PROVE  TapHolds
  <2>1. ~Render(d)
    BY DEF Render
  <2> QED BY <1>4, <2>1, PostHolds, PutHolds, PollHolds, DoorHolds DEF Wire
<1>5. ASSUME UNCHANGED vars PROVE TapHolds
  <2>1. Docs' = Docs /\ Gone' = Gone /\ replies' = replies /\ UNCHANGED <<disk, screen>>
    BY <1>5 DEF vars, Docs, Gone
  <2>2. \A d \in Device : \A doc \in replies'[d] : doc.freed \subseteq Gone
    BY <2>1 DEF TapInv, FreedIsHeard
  <2> QED BY <2>1, <2>2, NoNewsHolds
<1>6. TapHolds
  BY <1>1, <1>2, <1>3, <1>4, <1>5 DEF Next
<1> QED BY <1>6 DEF TapHolds, TapKept, KeepsItsDrone, Seated

\* The room the board has just opened seats nobody.
LEMMA InitTap == Init => TapInv
<1> SUFFICES ASSUME Init PROVE TapInv
  OBVIOUS
<1>1. \A doc \in Docs \ {NoDoc} : doc = EmptySession
  BY DEF Init, Docs
<1>2. \A s \in Student : Rows(s) = {}
  BY <1>1 DEF Rows, EmptySession
<1>3. FreedIsHeard
  BY DeviceAssumption DEF Init, FreedIsHeard, Device
<1>4. screen = disk
  BY DEF Init
<1> QED BY <1>2, <1>3, <1>4 DEF TapInv, OneTap, KnownAtHome

\* Of every child the store has not freed, all copies name one Drone at most,
\* and the child's own tablet names it, as long as no screen is behind its disk.
THEOREM OneTapInductive ==
  ASSUME ~ScreenLag
  PROVE  Spec => []TapInv
<1>1. IInv /\ TapInv /\ [Next]_vars => TapInv'
  BY StepHolds
<1> QED BY Inductive, InitTap, <1>1, PTL DEF Spec

\* On devices whose screen follows their disk a tapped Drone stays the child's,
\* whatever old document a poll, a PUT or the door brings, and whatever is lost.
THEOREM TapAlwaysSticks ==
  ASSUME ~ScreenLag
  PROVE  Spec => TapSticks
<1>1. IInv /\ TapInv /\ [Next]_vars =>
        [\A d \in Device : disk[d] # NoDoc => KeepsItsDrone(disk[d], disk'[d])]_vars
  BY StepHolds
<1> QED BY Inductive, OneTapInductive, <1>1, PTL DEF Spec, TapSticks

-----------------------------------------------------------------------------
(* A finished Lesson stays finished, where no tablet writes the room: nobody *)
(* is freed or reclaimed, and the board presses from what its disk holds.    *)

\* The board has the newest room, and a copy that is newer than an ended one has
\* ended too.
EndInv ==
  /\ screen = disk
  /\ \A a \in Docs \ {NoDoc} : a.freed = {} /\ a.rev <= disk[Board].rev
  /\ \A a, b \in Docs \ {NoDoc} : a.ended /\ b.rev >= a.rev => b.ended

\* The step of EndIsFinal, with its invariant.
EndHolds == EndInv' /\ (store # NoDoc /\ store.ended => store'.ended)

\* A step that makes at most one new copy, with the room of a copy there was.
LEMMA SameRoomHolds ==
  ASSUME IInv, IInv', EndInv, NEW next, Docs' \subseteq Docs \cup {next, NoDoc},
         screen' = disk', disk'[Board].rev >= disk[Board].rev,
         next # NoDoc =>
           /\ next.freed = {}
           /\ \E a \in Docs \ {NoDoc} : next.rev = a.rev /\ next.ended = a.ended
  PROVE  EndInv'
<1>1. ASSUME NEW b \in Docs' \ {NoDoc}
      PROVE  /\ b.freed = {}
             /\ \E a \in Docs \ {NoDoc} : b.rev = a.rev /\ b.ended = a.ended
  BY DEF EndInv
<1>2. /\ disk[Board].rev \in Nat /\ disk'[Board].rev \in Nat
      /\ \A a \in Docs \ {NoDoc} : a.rev \in Nat
  <2>1. disk[Board].rev \in Nat /\ \A a \in Docs \ {NoDoc} : a.rev \in Nat
    BY BoardHasARoom, DocsAreGood, GoodFields
  <2>2. disk'[Board] \in MaybeGood /\ disk'[Board] # NoDoc
    BY BoardIsADevice DEF IInv
  <2> QED BY <2>1, <2>2, GoodFields DEF MaybeGood
<1>3. \A b \in Docs' \ {NoDoc} : b.freed = {} /\ b.rev <= disk'[Board].rev
  BY <1>1, <1>2 DEF EndInv
<1>4. \A a, b \in Docs' \ {NoDoc} : a.ended /\ b.rev >= a.rev => b.ended
  BY <1>1 DEF EndInv
<1> QED BY <1>3, <1>4 DEF EndInv

\* How stampRevisions counts the room.
LEMMA StampedRoom ==
  ASSUME NEW old \in Good, NEW session \in Good, session.rev = old.rev
  PROVE  LET next == stampRevisions(old, session) IN
         /\ next.ended = session.ended
         /\ next.rev = IF roomContent(old) = roomContent(session)
                       THEN old.rev ELSE old.rev + 1
<1>1. Higher(session.rev, old.rev) = old.rev
  BY DEF Higher
<1> QED BY <1>1, GoodFields DEF stampRevisions, Doc

\* What a press writes of the room, when it frees nobody: nothing, or it is the
\* board's and does not un-end it.
RoomLeft(doc, session) ==
  session.rev = doc.rev /\ roomContent(session) = roomContent(doc)

RoomGoesOn(doc, session) ==
  /\ session.rev = doc.rev /\ session.freed = doc.freed
  /\ doc.ended => session.ended

\* A press that leaves the room alone.
LEMMA RoomLeftHolds ==
  ASSUME IInv, IInv', EndInv, NEW d \in Device, disk[d] # NoDoc,
         NEW session \in Good, Written(d, session), RoomLeft(disk[d], session)
  PROVE  EndHolds
<1> DEFINE next == stampRevisions(disk[d], session)
<1>1. disk[d] \in Good /\ disk[d] \in Docs \ {NoDoc}
  BY RoomsAreGood, Copies
<1>2. session.ended = disk[d].ended /\ session.freed = disk[d].freed
  BY DEF RoomLeft, roomContent
<1>3. next.rev = disk[d].rev /\ next.ended = disk[d].ended
  BY <1>1, <1>2, StampedRoom DEF RoomLeft
<1>4. /\ next.freed = session.freed /\ disk' = [disk EXCEPT ![d] = next]
      /\ screen' = disk' /\ Docs' \subseteq Docs \cup {next, NoDoc}
  BY WrittenDocs DEF EndInv
<1> HIDE DEF next
<1>5. disk'[Board].rev = disk[Board].rev
  BY <1>3, <1>4, BoardIsADevice DEF IInv
<1>6. disk'[Board].rev >= disk[Board].rev
  BY <1>5, BoardHasARoom, GoodFields
<1>7. EndInv'
  BY <1>1, <1>2, <1>3, <1>4, <1>6, SameRoomHolds DEF EndInv
<1> QED BY <1>7 DEF EndHolds, Written

\* A write of the room by the board is newer than every copy.
LEMMA RoomGoesOnHolds ==
  ASSUME IInv, IInv', EndInv, NEW session \in Good, Written(Board, session),
         RoomGoesOn(disk[Board], session)
  PROVE  EndHolds
<1> DEFINE doc == disk[Board]
           next == stampRevisions(doc, session)
<1>1. doc \in Good /\ doc # NoDoc /\ Board \in Device /\ doc \in Docs \ {NoDoc}
  BY BoardHasARoom, GoodIsNotNull, BoardIsADevice, Copies
<1>2. CASE roomContent(session) = roomContent(doc)
  BY <1>1, <1>2, RoomLeftHolds DEF RoomGoesOn, RoomLeft
<1>3. CASE roomContent(session) # roomContent(doc)
  <2>1. next.rev = doc.rev + 1 /\ next.ended = session.ended
    BY <1>1, <1>3, StampedRoom DEF RoomGoesOn
  <2>2. /\ next.freed = session.freed /\ disk' = [disk EXCEPT ![Board] = next]
        /\ screen' = disk' /\ Docs' \subseteq Docs \cup {next, NoDoc}
    BY <1>1, WrittenDocs DEF EndInv
  <2> HIDE DEF doc, next
  <2>3. disk'[Board] = next
    BY <1>1, <2>2 DEF IInv
  <2>4. /\ doc.rev \in Nat /\ doc.freed = {}
        /\ \A a \in Docs \ {NoDoc} : a.rev \in Nat /\ a.rev <= doc.rev /\ a.freed = {}
    BY <1>1, DocsAreGood, GoodFields DEF EndInv, doc
  <2>5. \A a \in Docs \ {NoDoc} : a.ended => next.ended
    BY <1>1, <2>1, <2>4 DEF EndInv, RoomGoesOn, doc
  <2>6. \A a \in Docs' \ {NoDoc} : a.freed = {} /\ a.rev <= disk'[Board].rev
    BY <2>1, <2>2, <2>3, <2>4 DEF RoomGoesOn, doc
  <2>7. \A a, b \in Docs' \ {NoDoc} : a.ended /\ b.rev >= a.rev => b.ended
    <3> SUFFICES ASSUME NEW a \in Docs' \ {NoDoc}, NEW b \in Docs' \ {NoDoc},
                        a.ended, b.rev >= a.rev
                 PROVE  b.ended
      OBVIOUS
    <3>1. CASE b = next
      BY <2>2, <2>5, <3>1
    <3>2. CASE b # next /\ a = next
      <4>1. b \in Docs \ {NoDoc}
        BY <2>2, <3>2
      <4> QED BY <2>1, <2>4, <3>2, <4>1
    <3>3. CASE b # next /\ a # next
      <4>1. a \in Docs \ {NoDoc} /\ b \in Docs \ {NoDoc}
        BY <2>2, <3>3
      <4> QED BY <4>1 DEF EndInv
    <3> QED BY <3>1, <3>2, <3>3
  <2> QED BY <2>2, <2>6, <2>7 DEF EndInv, EndHolds, Written
<1> QED BY <1>2, <1>3

\* A press on the seats leaves the room alone.
LEMMA SeatsLeaveRoom ==
  ASSUME NEW doc \in Good
  PROVE  /\ \A s \in Student : \A seat : RoomLeft(doc, WithSeat(doc, s, seat))
         /\ \A who, phase, cleared : RoomLeft(doc, Answered(doc, who, phase, cleared))
         /\ \A d, points : RoomLeft(doc, markPointsReached(doc, d, points))
BY GoodFields DEF RoomLeft, roomContent, WithSeat, Answered, markPointsReached, Doc

\* Nothing the Teacher presses re-opens the room.
LEMMA BoardEnds ==
  ASSUME ~ScreenLag, "free" \notin Press, IInv, IInv', EndInv, BoardWrites
  PROVE  EndHolds
<1> DEFINE doc == disk[Board]
<1>1. /\ Board \in Device /\ doc \in Good /\ doc # NoDoc /\ screen[Board] = doc
  BY BoardHasARoom, BoardIsADevice, GoodIsNotNull DEF EndInv
<1> HIDE DEF doc
<1>2. ASSUME NEW session \in Good, Written(Board, session), RoomLeft(doc, session)
      PROVE  EndHolds
  BY <1>1, <1>2, RoomLeftHolds DEF doc
<1>3. ASSUME NEW session \in Good, Written(Board, session), RoomGoesOn(doc, session)
      PROVE  EndHolds
  BY <1>3, RoomGoesOnHolds DEF doc
<1>4. CASE OpensClassroom
  <2>1. PICK brief \in {doc.brief, doc.brief + 1}, live \in {doc.live, TRUE} :
           OpenClassroom(brief, live)
    BY <1>4 DEF OpensClassroom, doc
  <2> DEFINE next == [doc EXCEPT !.brief = brief, !.live = live]
  <2>2. brief \in Nat /\ live \in BOOLEAN
    <3>1. doc.brief \in Nat /\ doc.live \in BOOLEAN
      BY <1>1, GoodFields
    <3>2. brief \in Nat
      BY <3>1
    <3>3. live \in BOOLEAN
      BY <3>1, Zenon
    <3> QED BY <3>2, <3>3
  <2>3. next \in Good /\ next.rev = doc.rev /\ next.freed = doc.freed
    BY <1>1, <2>2, RoomEditedKeeps, GoodFields DEF Doc
  <2>4. Written(Board, next) /\ ~doc.ended
    BY <2>1 DEF OpenClassroom, Sent, Echo, Written, doc
  <2> HIDE DEF next
  <2> QED BY <1>3, <2>3, <2>4 DEF RoomGoesOn
<1>5. CASE pushClassroomInstruction
  <2> DEFINE next == [doc EXCEPT !.posts = doc.posts + 1]
  <2>1. next \in Good /\ next.rev = doc.rev /\ next.freed = doc.freed /\ next.ended = doc.ended
    <3>1. doc.posts + 1 \in Nat
      BY <1>1, GoodFields
    <3> QED BY <1>1, <3>1, RoomEditedKeeps, GoodFields DEF Doc
  <2>2. Written(Board, next)
    BY <1>1, <1>5, PressIsWritten DEF pushClassroomInstruction, doc
  <2> HIDE DEF next
  <2> QED BY <1>3, <2>1, <2>2 DEF RoomGoesOn
<1>6. CASE closeClassroom
  <2> DEFINE next == [doc EXCEPT !.ended = TRUE, !.live = FALSE]
  <2>1. next \in Good /\ next.rev = doc.rev /\ next.freed = doc.freed /\ next.ended
    BY <1>1, RoomEditedKeeps, GoodFields DEF Doc
  <2>2. Written(Board, next)
    BY <1>1, <1>6, PressIsWritten DEF closeClassroom, doc
  <2> HIDE DEF next
  <2> QED BY <1>3, <2>1, <2>2 DEF RoomGoesOn
<1>7. ASSUME NEW d \in Drone, Grant(d) \/ Hold(d) PROVE EndHolds
  <2>1. ASSUME NEW who \in SUBSET Seated(doc), NEW phase \in {"held", "cleared"},
               NEW cleared \in BOOLEAN, PressFresh(Board, Answered(doc, who, phase, cleared))
        PROVE  EndHolds
    BY <1>1, <1>2, <2>1, AnsweredKeeps, SeatsLeaveRoom, PressIsWritten
  <2>2. /\ seatsForDrone(doc, d) \in SUBSET Seated(doc)
        /\ Waiting(doc, d) \in SUBSET Seated(doc)
    BY DEF seatsForDrone, Waiting, SeatsOnDrone
  <2>3. CASE Grant(d)
    BY <2>1, <2>2, <2>3 DEF Grant, grantSeatsForDrone, doc
  <2>4. CASE Hold(d)
    BY <2>1, <2>2, <2>4 DEF Hold, holdSeatsForDrone, doc
  <2> QED BY <1>7, <2>3, <2>4
<1>8. ASSUME NEW d \in Drone, NEW point \in Point, Reach(d, point) PROVE EndHolds
  <2>1. Written(Board, markPointsReached(doc, d, {point}))
    BY <1>1, <1>8, PressIsWritten DEF Reach, doc
  <2> QED BY <1>1, <1>2, <2>1, ReachedKeeps, SeatsLeaveRoom
<1>9. \A d \in Drone : ~Free(d)
  BY DEF Free
<1>10. ASSUME NEW d \in Drone, NEW name \in Name, RenameByHand(d, name) PROVE EndHolds
  <2>1. PICK held \in SeatsOnDrone(doc, d) :
           PressShown(Board, WithSeat(doc, held, [doc.seats[held] EXCEPT !.name = name]))
    BY <1>1, <1>10 DEF RenameByHand
  <2>2. held \in Seated(doc) /\ held \in Student
    BY DEF SeatsOnDrone, Seated
  <2>3. WithSeat(doc, held, [doc.seats[held] EXCEPT !.name = name]) \in Good
    BY <1>1, <2>2, SeatPressKeeps
  <2> QED BY <1>1, <1>2, <2>1, <2>2, <2>3, PressIsWritten, SeatsLeaveRoom
<1>11. ASSUME NEW d \in Drone, NEW name \in Name, SeatByHand(d, name) PROVE EndHolds
  <2>1. PICK h \in HandId :
           Minted(h) /\ PressShown(Board, WithSeat(doc, h, NewSeat(name, d)))
    BY <1>1, <1>11 DEF SeatByHand
  <2>2. h \in Student /\ h \notin doc.freed
    BY <1>1, <2>1, DeviceAssumption, Copies DEF Minted, doc
  <2>3. WithSeat(doc, h, NewSeat(name, d)) \in Good
    BY <1>1, <2>2, HandSeatKeeps
  <2> QED BY <1>1, <1>2, <2>1, <2>2, <2>3, PressIsWritten, SeatsLeaveRoom
<1>12. ASSUME NEW s \in Student, Approve(s) PROVE EndHolds
  <2>1. /\ s \in Seated(doc) /\ allPointsReached(doc.seats[s])
        /\ PressShown(Board, approveSeatTask(doc, s))
    BY <1>1, <1>12 DEF Approve
  <2>2. approveSeatTask(doc, s) \in Good
    <3>1. PICK name \in Name : TRUE
      BY <1>1, <2>1, SeatedIsGood DEF GoodSeat, Seat
    <3> QED BY <1>1, <2>1, <3>1, SeatPressKeeps
  <2>3. RoomLeft(doc, approveSeatTask(doc, s))
    BY <1>1, SeatsLeaveRoom DEF approveSeatTask
  <2> QED BY <1>1, <1>2, <2>1, <2>2, <2>3, PressIsWritten
<1> QED BY <1>4, <1>5, <1>6, <1>7, <1>8, <1>9, <1>10, <1>11, <1>12 DEF BoardWrites

\* No tablet writes the room, as long as there is nobody to come back or reclaim.
LEMMA TabletEnds ==
  ASSUME ~ScreenLag, "reclaim" \notin Press, IInv, IInv', EndInv,
         NEW t \in Tablet, TabletWrites(t)
  PROVE  EndHolds
<1> DEFINE doc == disk[t]
<1>1. /\ t \in Device /\ t \in Student /\ NameOf[t] \in Name /\ screen[t] = doc
      /\ doc # NoDoc /\ doc \in Good /\ doc.freed = {}
  <2>1. t \in Device /\ t \in Student /\ NameOf[t] \in Name /\ screen[t] = doc
    BY DeviceAssumption DEF Device, EndInv
  <2>2. Shown(t)
    BY DEF TabletWrites, Join, requestTakeoff, SeeFlown, markSeatComplete,
           TakeFreeDrone, ReclaimDrone, AsksForADrone, IsSeated
  <2> QED BY <2>1, <2>2, RoomsAreGood, GoodIsNotNull, Copies DEF Shown, EndInv
<1> HIDE DEF doc
<1>2. ASSUME NEW session \in Good, PressShown(t, session), RoomLeft(doc, session)
      PROVE  EndHolds
  BY <1>1, <1>2, PressIsWritten, RoomLeftHolds DEF doc
<1>3. CASE Join(t)
  <2> DEFINE next == joinClassroomAsStudent(doc, t, NameOf[t])
  <2>1. next \in Good /\ PressShown(t, next)
    BY <1>1, <1>3, JoinKeeps DEF Join
  <2>2. next.freed = doc.freed
    BY <1>1, GoodFields DEF joinClassroomAsStudent, WithSeat, Doc
  <2>3. RoomLeft(doc, next)
    BY <1>1, <2>2, GoodFields DEF RoomLeft, roomContent, joinClassroomAsStudent, WithSeat, Doc
  <2> HIDE DEF next
  <2> QED BY <1>2, <2>1, <2>3
<1>4. ASSUME IsSeated(t) PROVE t \in Seated(doc)
  BY <1>1, <1>4 DEF IsSeated, MySeat, Seated
<1>5. PICK name \in Name : TRUE
  BY <1>1
<1>6. CASE requestTakeoff(t)
  BY <1>1, <1>2, <1>4, <1>5, <1>6, SeatPressKeeps, SeatsLeaveRoom
     DEF requestTakeoff, updateSeatPhase
<1>7. CASE SeeFlown(t)
  BY <1>1, <1>2, <1>4, <1>5, <1>7, SeatPressKeeps, SeatsLeaveRoom DEF SeeFlown, markSeatFlown
<1>8. CASE markSeatComplete(t)
  <2>1. doc.seats[t].phase = "returning" /\ t \in Seated(doc)
        /\ PressShown(t, updateSeatPhase(doc, t, "complete"))
    BY <1>1, <1>4, <1>8 DEF markSeatComplete, MySeat
  <2>2. updateSeatPhase(doc, t, "complete") \in Good
    BY <1>1, <1>5, <2>1, SeatPressKeeps
  <2>3. RoomLeft(doc, updateSeatPhase(doc, t, "complete"))
    BY <1>1, SeatsLeaveRoom DEF updateSeatPhase
  <2> QED BY <1>2, <2>1, <2>2, <2>3
<1>9. ASSUME NEW d \in Drone, TakeFreeDrone(t, d) PROVE EndHolds
  <2>1. t \in Seated(doc) /\ PressShown(t, TakenBy(doc, t, d))
    BY <1>1, <1>4, <1>9 DEF TakeFreeDrone, AsksForADrone
  <2>2. TakenBy(doc, t, d) \in Good
    BY <1>1, <2>1, TakenKeeps
  <2>3. RoomLeft(doc, TakenBy(doc, t, d))
    BY <1>1, SeatsLeaveRoom DEF TakenBy
  <2> QED BY <1>2, <2>1, <2>2, <2>3
<1>10. \A d \in Drone : ~ReclaimDrone(t, d)
  BY DEF ReclaimDrone
<1> QED BY <1>3, <1>6, <1>7, <1>8, <1>9, <1>10 DEF TabletWrites

\* A beat is not a write of the room.
LEMMA BeatEnds ==
  ASSUME ~ScreenLag, IInv, IInv', EndInv, NEW cloud \in BOOLEAN,
         touchBoard(cloud) \/ \E t \in Tablet : touchSeat(t, cloud)
  PROVE  EndHolds
<1>1. \A b \in Nat : Beat(b) \in Nat
  BY DEF Beat
<1>2. CASE touchBoard(cloud)
  <2> DEFINE doc == disk[Board]
             next == [doc EXCEPT !.boardSeen = Beat(doc.boardSeen)]
  <2>1. Board \in Device /\ doc \in Good /\ doc # NoDoc
    BY BoardHasARoom, BoardIsADevice, GoodIsNotNull
  <2>2. next \in Good /\ RoomLeft(doc, next)
    <3>1. Beat(doc.boardSeen) \in Nat
      BY <1>1, <2>1, GoodFields
    <3>2. RoomLeft(doc, next)
      BY <2>1, GoodFields DEF RoomLeft, roomContent, Doc
    <3> QED BY <2>1, <3>1, <3>2, RoomEditedKeeps
  <2>3. Written(Board, next)
    BY <1>2 DEF touchBoard, Echo, Written
  <2> HIDE DEF next
  <2> QED BY <2>1, <2>2, <2>3, RoomLeftHolds
<1>3. ASSUME NEW t \in Tablet, touchSeat(t, cloud) PROVE EndHolds
  <2> DEFINE doc == disk[t]
             seat == doc.seats[t]
             beaten == [seat EXCEPT !.seen = Beat(seat.seen)]
             next == [doc EXCEPT !.seats[t].seen = Beat(seat.seen)]
  <2>1. t \in Device /\ t \in Student /\ doc # NoDoc /\ doc \in Good /\ seat # NoSeat
    BY <1>3, DeviceAssumption, RoomsAreGood DEF Device, touchSeat
  <2>2. t \notin doc.freed /\ seat \in GoodSeat
    BY <2>1, SeatedIsGood DEF Seated
  <2>3. Beat(seat.seen) \in Nat
    BY <1>1, <2>2 DEF GoodSeat, Seat
  <2>4. beaten \in GoodSeat
    BY <2>2, <2>3, RecountedSeat
  <2>5. next = WithSeat(doc, t, beaten)
    BY <2>1, GoodFields DEF WithSeat, Doc
  <2>6. Written(t, next)
    BY <1>3 DEF touchSeat, Echo, Written
  <2> HIDE DEF doc, beaten, next
  <2>7. next \in Good /\ RoomLeft(doc, next)
    BY <2>1, <2>2, <2>4, <2>5, WithSeatKeeps, SeatsLeaveRoom
  <2> QED BY <2>1, <2>6, <2>7, RoomLeftHolds DEF doc
<1> QED BY <1>2, <1>3

\* The room of a merge is the room of one of the two copies.
LEMMA MergedRoom ==
  ASSUME IInv, EndInv, NEW mine \in Docs, mine # NoDoc, NEW theirs \in Docs, theirs # NoDoc
  PROVE  LET merged == Merge(mine, theirs) IN
         /\ merged \in Good /\ merged.freed = {}
         /\ merged.rev >= mine.rev /\ merged.rev >= theirs.rev
         /\ \E a \in Docs \ {NoDoc} : merged.rev = a.rev /\ merged.ended = a.ended
         /\ theirs.ended => merged.ended
<1> DEFINE room == IF mine.rev > theirs.rev THEN mine ELSE theirs
           merged == Merge(mine, theirs)
<1>1. mine \in Good /\ theirs \in Good /\ mine.freed = {} /\ theirs.freed = {}
  BY DocsAreGood DEF EndInv
<1>2. mine.rev \in Nat /\ theirs.rev \in Nat
  BY <1>1, GoodFields
<1>3. /\ merged.rev = Higher(mine.rev, theirs.rev) /\ merged.ended = room.ended
      /\ merged.freed = mine.freed \cup theirs.freed
  BY <1>1, GoodFields DEF Merge, Doc
<1>4. merged \in Good
  BY <1>1, MergeKeeps
<1> HIDE DEF merged
<1>5. CASE mine.rev > theirs.rev
  BY <1>1, <1>2, <1>3, <1>4, <1>5 DEF Higher, EndInv, merged
<1>6. CASE ~(mine.rev > theirs.rev)
  BY <1>1, <1>2, <1>3, <1>4, <1>6 DEF Higher, EndInv, merged
<1> QED BY <1>5, <1>6

\* Nothing on the wire re-opens the room.
LEMMA WireEnds ==
  ASSUME ~ScreenLag, IInv, IInv', EndInv, NEW d \in Device, Wire(d)
  PROVE  EndHolds
<1>1. disk[Board].rev \in Nat /\ disk[Board].rev >= disk[Board].rev
  BY BoardHasARoom, GoodFields
<1>2. ASSUME UNCHANGED <<disk, screen, store>>, Docs' \subseteq Docs \cup {NoDoc}
      PROVE  EndHolds
  BY <1>1, <1>2, SameRoomHolds DEF EndHolds, EndInv
<1>3. CASE scheduleClassroomCloudPush(d) \/ LosePut(d) \/ readClassroom(d)
  <2>1. /\ UNCHANGED <<disk, screen, store>>
        /\ \A e \in Device : /\ pending'[e] \in Docs \cup {NoDoc}
                             /\ puts'[e] \subseteq Docs /\ replies'[e] \subseteq Docs
    BY <1>3, Copies DEF scheduleClassroomCloudPush, LosePut, readClassroom, Sent, IInv
  <2>2. Docs' \subseteq Docs \cup {NoDoc}
    BY <2>1, Copies DEF Docs
  <2> QED BY <1>2, <2>1, <2>2
<1>4. CASE writeClassroom(d)
  <2>1. PICK incoming \in puts[d] :
          /\ store' = mergeClassrooms(incoming, store)
          /\ puts' = [puts EXCEPT ![d] = puts[d] \ {incoming}]
          /\ UNCHANGED <<disk, screen, pending, replies>>
    BY <1>4 DEF writeClassroom
  <2>2. incoming \in Docs /\ incoming # NoDoc
    BY <2>1, Copies, GoodIsNotNull DEF IInv
  <2>3. Docs' \subseteq Docs \cup {store', NoDoc}
    <3>1. \A e \in Device : puts'[e] \subseteq Docs
      BY <2>1, Copies DEF IInv
    <3> QED BY <2>1, <3>1, Copies DEF Docs
  <2>4. /\ store'.freed = {}
        /\ \E a \in Docs \ {NoDoc} : store'.rev = a.rev /\ store'.ended = a.ended
        /\ store # NoDoc /\ store.ended => store'.ended
    <3>1. CASE store = NoDoc
      BY <2>1, <2>2, <3>1 DEF mergeClassrooms, EndInv
    <3>2. CASE store # NoDoc
      <4>1. store' = Merge(incoming, store)
        BY <2>1, <3>2 DEF mergeClassrooms
      <4> QED BY <2>2, <3>2, <4>1, MergedRoom, Copies
    <3> QED BY <3>1, <3>2
  <2>5. screen' = disk' /\ disk'[Board].rev >= disk[Board].rev
    BY <1>1, <2>1 DEF EndInv
  <2>6. EndInv'
    BY <2>3, <2>4, <2>5, SameRoomHolds
  <2> QED BY <2>4, <2>6 DEF EndHolds
<1>5. CASE loadClassroomByCode(d)
  <2>1. PICK remote \in replies[d] :
          /\ disk' = IF remote.ended THEN disk ELSE [disk EXCEPT ![d] = remote]
          /\ screen' = [screen EXCEPT ![d] = disk'[d]]
          /\ replies' = [replies EXCEPT ![d] = replies[d] \ {remote}]
          /\ UNCHANGED <<pending, puts, store, writes>>
    BY <1>5 DEF loadClassroomByCode
  <2>2. disk[d] = NoDoc /\ remote \in Docs /\ d # Board
    BY <1>5, <2>1, Copies, BoardHasARoom, GoodIsNotNull DEF loadClassroomByCode
  <2>3. /\ disk'[d] \in {NoDoc, remote} /\ \A e \in Device \ {d} : disk'[e] = disk[e]
        /\ screen' = disk'
    BY <2>1, <2>2 DEF IInv, EndInv
  <2>4. Docs' \subseteq Docs \cup {NoDoc}
    <3>1. \A e \in Device : disk'[e] \in Docs \cup {NoDoc} /\ replies'[e] \subseteq Docs
      BY <2>1, <2>2, <2>3, Copies DEF IInv
    <3> QED BY <2>1, <2>3, <3>1, Copies DEF Docs
  <2>5. disk'[Board].rev >= disk[Board].rev
    BY <1>1, <2>2, <2>3, BoardIsADevice
  <2> QED BY <2>1, <2>3, <2>4, <2>5, SameRoomHolds DEF EndHolds
<1>6. CASE subscribeClassroom(d)
  <2>1. PICK remote \in replies[d] :
          /\ Poll(d, remote)
          /\ replies' = [replies EXCEPT ![d] = replies[d] \ {remote}]
          /\ UNCHANGED <<puts, store, writes>>
    BY <1>6 DEF subscribeClassroom
  <2> DEFINE merged == Merge(disk[d], remote)
  <2>2. /\ disk[d] \in Docs /\ disk[d] # NoDoc /\ remote \in Docs /\ remote # NoDoc
    BY <1>6, <2>1, Copies, GoodIsNotNull DEF subscribeClassroom, IInv
  <2>3. /\ disk' = disk \/ disk' = [disk EXCEPT ![d] = merged]
        /\ pending' = pending \/ pending' = [pending EXCEPT ![d] = merged]
        /\ screen' = IF disk'[d] = disk[d] THEN screen ELSE [screen EXCEPT ![d] = disk'[d]]
    BY <2>1 DEF Poll
  <2>4. /\ merged.freed = {} /\ merged.rev >= disk[d].rev
        /\ \E a \in Docs \ {NoDoc} : merged.rev = a.rev /\ merged.ended = a.ended
    BY <2>2, MergedRoom
  <2> HIDE DEF merged
  <2>5. /\ disk'[d] \in {disk[d], merged} /\ \A e \in Device \ {d} : disk'[e] = disk[e]
        /\ screen' = disk'
    BY <2>3 DEF IInv, EndInv
  <2>6. Docs' \subseteq Docs \cup {merged, NoDoc}
    <3>1. \A e \in Device : /\ disk'[e] \in Docs \cup {merged}
                            /\ pending'[e] \in Docs \cup {merged}
                            /\ puts'[e] \subseteq Docs /\ replies'[e] \subseteq Docs
      BY <2>1, <2>3, <2>5, Copies DEF IInv
    <3> QED BY <2>1, <2>5, <3>1, Copies DEF Docs
  <2>7. disk'[Board].rev >= disk[Board].rev
    BY <1>1, <2>4, <2>5, BoardIsADevice
  <2> QED BY <2>1, <2>4, <2>5, <2>6, <2>7, SameRoomHolds DEF EndHolds
<1>7. ~Render(d)
  BY DEF Render
<1> QED BY <1>3, <1>4, <1>5, <1>6, <1>7 DEF Wire

\* The step.
LEMMA StepEnds ==
  ASSUME ~ScreenLag, {"free", "reclaim"} \cap Press = {}, IInv, EndInv, [Next]_vars
  PROVE  EndHolds
<1>1. IInv'
  BY StepKeeps
<1>2. "free" \notin Press /\ "reclaim" \notin Press
  OBVIOUS
<1>3. ASSUME BoardWrites PROVE EndHolds
  BY <1>1, <1>2, <1>3, BoardEnds
<1>4. ASSUME NEW cloud \in BOOLEAN, touchBoard(cloud) \/ \E t \in Tablet : touchSeat(t, cloud)
      PROVE  EndHolds
  BY <1>1, <1>4, BeatEnds
<1>5. ASSUME NEW t \in Tablet, TabletWrites(t) PROVE EndHolds
  BY <1>1, <1>2, <1>5, TabletEnds
<1>6. ASSUME NEW d \in Device, Wire(d) PROVE EndHolds
  BY <1>1, <1>6, WireEnds
<1>7. ASSUME UNCHANGED vars PROVE EndHolds
  <2>1. Docs' = Docs /\ UNCHANGED <<disk, screen, store>>
    BY <1>7 DEF vars, Docs
  <2> QED BY <2>1 DEF EndInv, EndHolds
<1> QED BY <1>3, <1>4, <1>5, <1>6, <1>7 DEF Next

\* A finished Lesson stays finished in the store, whatever copies of it are still
\* in flight, as long as no child is freed or reclaims a Drone (a tablet that does
\* writes the room, and may re-open it) and no screen is behind its disk.
THEOREM EndIsAlwaysFinal ==
  ASSUME ~ScreenLag, {"free", "reclaim"} \cap Press = {}
  PROVE  Spec => EndIsFinal
<1>1. Init => EndInv
  <2> SUFFICES ASSUME Init PROVE EndInv
    OBVIOUS
  <2>1. \A doc \in Docs \ {NoDoc} : doc = EmptySession
    BY DEF Init, Docs
  <2>2. disk[Board] = EmptySession /\ screen = disk
    BY BoardIsADevice DEF Init
  <2> QED BY <2>1, <2>2 DEF EndInv, EmptySession
<1>2. IInv /\ EndInv /\ [Next]_vars =>
        /\ EndInv'
        /\ [store # NoDoc /\ store.ended => store'.ended]_vars
  BY StepEnds DEF EndHolds
<1> QED BY Inductive, <1>1, <1>2, PTL DEF Spec, EndIsFinal
=============================================================================
