---------------------------- MODULE ClassroomSync ----------------------------
(***************************************************************************)
(* One classroom code, the Teacher's board and the tablets in the room,    *)
(* and the store they all poll (web/lib/classroom-session.ts over          *)
(* ground-station/src/classroom-store.ts or classroom-worker/worker.js).   *)
(*                                                                         *)
(* A device keeps a copy on disk (localStorage) and shows one on screen    *)
(* (React state, which follows the disk a render later).  A press stamps   *)
(* and saves the copy and leaves a snapshot pending for the debounced PUT. *)
(* PUTs and answers to polls are in flight until they land, in any order;  *)
(* a PUT may be lost and is not retried.  The store merges what lands.     *)
(***************************************************************************)
EXTENDS ClassroomDoc

CONSTANTS
  Board,       \* the Teacher's device
  Tablet,      \* the Students' devices: a tablet is its studentId
  HandId,      \* ids minted for children the Teacher seats by hand
  NameOf,      \* the name typed on each tablet
  Press,       \* the presses this instance explores
  MaxWrites,   \* bound: counted writes of each device
  MaxBeat,     \* bound: a heartbeat saturates here
  MaxReplies,  \* bound: overlapping polls of one device
  MaxPuts,     \* bound: PUTs of one device in flight
  ScreenLag,   \* whether a poll's merge reaches the screen a step later
  LosesPuts    \* whether the network loses PUTs

ASSUME DeviceAssumption ==
  /\ Student = Tablet \cup HandId
  /\ Tablet \cap HandId = {}
  /\ Board \notin Tablet
  /\ NameOf \in [Tablet -> Name]
  /\ MaxWrites \in [Tablet \cup {Board} -> Nat] /\ MaxBeat \in Nat
  /\ MaxReplies \in Nat /\ MaxPuts \in Nat

Device == Tablet \cup {Board}

VARIABLES
  disk,     \* localStorage of each device
  screen,   \* what each device's React state holds
  pending,  \* pendingPush: the snapshot waiting out the debounce
  puts,     \* PUTs of each device on their way to the store
  replies,  \* answers to each device's polls on their way back
  store,    \* the document the store holds
  writes    \* counted writes so far, for the bound

vars == <<disk, screen, pending, puts, replies, store, writes>>

MaybeDoc == Doc \cup {NoDoc}

TypeOK ==
  /\ disk \in [Device -> MaybeDoc]
  /\ screen \in [Device -> MaybeDoc]
  /\ pending \in [Device -> MaybeDoc]
  /\ puts \in [Device -> SUBSET Doc]
  /\ replies \in [Device -> SUBSET Doc]
  /\ store \in MaybeDoc
  /\ writes \in [Device -> Nat]

\* The board has just opened the room: saved, pushed at once, and pending as well.
Init ==
  /\ disk = [d \in Device |-> IF d = Board THEN EmptySession ELSE NoDoc]
  /\ screen = disk
  /\ pending = disk
  /\ puts = [d \in Device |-> IF d = Board THEN {EmptySession} ELSE {}]
  /\ replies = [d \in Device |-> {}]
  /\ store = NoDoc
  /\ writes = [d \in Device |-> 0]

-----------------------------------------------------------------------------
(* Writing. *)

\* Every copy there is, held or in flight.
Docs == {disk[d] : d \in Device} \cup {screen[d] : d \in Device}
          \cup {pending[d] : d \in Device} \cup {store}
          \cup (UNION {puts[d] \cup replies[d] : d \in Device})

\* `hand-${droneId}-${now}`: an id no copy has heard of.
Minted(id) == \A doc \in Docs \ {NoDoc} : id \notin Seated(doc) \cup doc.freed

Sent(d, doc) ==
  /\ Cardinality(puts[d]) < MaxPuts
  /\ puts' = [puts EXCEPT ![d] = @ \cup {doc}]

Count(d) == writes[d] < MaxWrites[d] /\ writes' = [writes EXCEPT ![d] = @ + 1]

\* writeClassroomSession: stamp against the disk, save, schedule the push.
Save(d, session, cloud) ==
  LET next == stampRevisions(disk[d], session)
  IN  /\ disk' = [disk EXCEPT ![d] = next]
      /\ pending' = IF cloud THEN [pending EXCEPT ![d] = next] ELSE pending

\* A press that starts from the screen, whose result the screen shows at once.
PressShown(d, session) ==
  /\ Count(d)
  /\ Save(d, session, TRUE)
  /\ screen' = [screen EXCEPT ![d] = disk'[d]]
  /\ UNCHANGED <<puts, replies, store>>

\* A saved copy the screen learns of through the channel, like a poll's.
Echo(d) == screen' = IF ScreenLag THEN screen ELSE [screen EXCEPT ![d] = disk'[d]]

\* A press that reads the disk afresh.
PressFresh(d, session) ==
  /\ Count(d)
  /\ Save(d, session, TRUE)
  /\ Echo(d)
  /\ UNCHANGED <<puts, replies, store>>

-----------------------------------------------------------------------------
(* The Teacher's board. *)

\* Mutant: the run after an ended Lesson carries its room on.
OpenEndedClassroom(brief, live) ==
  LET doc == disk[Board]
      next == [doc EXCEPT !.brief = brief, !.live = live, !.ended = FALSE]
  IN  /\ IF next = doc THEN "refresh" \in Press /\ UNCHANGED writes
                       ELSE "open" \in Press /\ Count(Board)
      /\ Save(Board, next, TRUE)
      /\ Sent(Board, disk'[Board])
      /\ Echo(Board)
      /\ UNCHANGED <<replies, store>>

\* ClassroomOpen's effect: on every change of the Mission, and on every fleet
\* state published while there is one.  An ended room is never carried on.
OpenClassroom(brief, live) ==
  LET doc == disk[Board]
      next == [doc EXCEPT !.brief = brief, !.live = live]
  IN  /\ ~doc.ended
      /\ IF next = doc THEN "refresh" \in Press /\ UNCHANGED writes
                       ELSE "open" \in Press /\ Count(Board)
      /\ Save(Board, next, TRUE)
      /\ Sent(Board, disk'[Board])
      /\ Echo(Board)
      /\ UNCHANGED <<replies, store>>

OpensClassroom ==
  \E brief \in {disk[Board].brief, disk[Board].brief + 1},
     live \in {disk[Board].live, TRUE} : OpenClassroom(brief, live)

pushClassroomInstruction ==
  /\ "instruct" \in Press
  /\ PressFresh(Board, [disk[Board] EXCEPT !.posts = @ + 1])

closeClassroom ==
  /\ "close" \in Press
  /\ ~disk[Board].ended
  /\ PressFresh(Board, [disk[Board] EXCEPT !.ended = TRUE, !.live = FALSE])

Grant(d) ==
  /\ "grant" \in Press
  /\ \E s \in seatsForDrone(disk[Board], d) : ~disk[Board].seats[s].cleared
  /\ PressFresh(Board, grantSeatsForDrone(disk[Board], d))

Hold(d) ==
  /\ "hold" \in Press
  /\ Waiting(disk[Board], d) # {}
  /\ PressFresh(Board, holdSeatsForDrone(disk[Board], d))

\* The board's own sighting of an airborne craft at a point.
Reach(d, point) ==
  /\ "reach" \in Press
  /\ \E s \in SeatsOnDrone(disk[Board], d) : point \notin disk[Board].seats[s].reached
  /\ PressFresh(Board, markPointsReached(disk[Board], d, {point}))

Approve(s) ==
  /\ "approve" \in Press
  /\ s \in Seated(screen[Board])
  /\ allPointsReached(screen[Board].seats[s])
  /\ ~screen[Board].seats[s].approved
  /\ PressShown(Board, approveSeatTask(screen[Board], s))

Free(d) ==
  /\ "free" \in Press
  /\ \E held \in SeatsOnDrone(screen[Board], d) :
        PressShown(Board, Dropped(screen[Board], held))

\* The Teacher types a name: a held Drone is renamed, a free one gets a new seat.
RenameByHand(d, name) ==
  /\ "hand" \in Press
  /\ \E held \in SeatsOnDrone(screen[Board], d) :
       LET seat == screen[Board].seats[held]
       IN  PressShown(Board, WithSeat(screen[Board], held, [seat EXCEPT !.name = name]))

SeatByHand(d, name) ==
  /\ "hand" \in Press
  /\ SeatsOnDrone(screen[Board], d) = {}
  /\ \E h \in HandId :
        /\ Minted(h)
        /\ PressShown(Board, WithSeat(screen[Board], h, NewSeat(name, d)))

Beat(b) == IF b < MaxBeat THEN b + 1 ELSE b

\* Every ten seconds while live; to the cloud at most once a minute.
touchBoard(cloud) ==
  /\ "board-beat" \in Press
  /\ disk[Board].live
  /\ Save(Board, [disk[Board] EXCEPT !.boardSeen = Beat(@)], cloud)
  /\ Echo(Board)
  /\ UNCHANGED <<puts, replies, store, writes>>

BoardWrites ==
  \/ OpensClassroom
  \/ pushClassroomInstruction
  \/ closeClassroom
  \/ \E d \in Drone :
       \/ Grant(d) \/ Hold(d) \/ Free(d)
       \/ \E point \in Point : Reach(d, point)
       \/ \E name \in Name : RenameByHand(d, name) \/ SeatByHand(d, name)
  \/ \E s \in Student : Approve(s)

-----------------------------------------------------------------------------
(* A tablet. *)

Shown(t) == screen[t] # NoDoc
MySeat(t) == screen[t].seats[t]
IsSeated(t) == Shown(t) /\ MySeat(t) # NoSeat

\* Typing a name, or the effect that re-seats a remembered child.
Join(t) ==
  /\ "join" \in Press
  /\ Shown(t) /\ MySeat(t) = NoSeat /\ ~screen[t].ended
  /\ PressShown(t, joinClassroomAsStudent(screen[t], t, NameOf[t]))

AsksForADrone(t) == IsSeated(t) /\ MySeat(t).drone = NoDrone /\ ~screen[t].ended

TakeFreeDrone(t, d) ==
  /\ "take" \in Press
  /\ AsksForADrone(t)
  /\ SeatsOnDrone(screen[t], d) = {}
  /\ PressShown(t, TakenBy(screen[t], t, d))

ReclaimDrone(t, d) ==
  /\ "reclaim" \in Press
  /\ AsksForADrone(t)
  /\ \E held \in SeatsOnDrone(screen[t], d) :
       /\ sameChild(screen[t], held, t)
       /\ PressShown(t, Reclaimed(screen[t], held, t, d))

\* The one button of the clearance screen, which is not shown once answered yes.
requestTakeoff(t) ==
  /\ "request" \in Press
  /\ IsSeated(t) /\ ~screen[t].ended
  /\ LET seat == MySeat(t) IN
       /\ seat.drone # NoDrone /\ seat.phase \in {"briefing", "held"}
       /\ ~seat.cleared /\ ~seat.flown
  /\ PressShown(t, updateSeatPhase(screen[t], t, "awaiting-clearance"))

\* The tablet's own Telemetry shows its craft off the ground for the first time.
SeeFlown(t) ==
  /\ "fly" \in Press
  /\ IsSeated(t)
  /\ MySeat(t).drone # NoDrone /\ ~MySeat(t).flown
  /\ PressShown(t, markSeatFlown(screen[t], t))

\* Mutant: any touch-down finishes the Mission.
CompleteOnAnyLanding(t) ==
  /\ "complete" \in Press
  /\ IsSeated(t) /\ ~screen[t].ended
  /\ MySeat(t).drone # NoDrone /\ MySeat(t).phase # "complete"
  /\ PressShown(t, updateSeatPhase(screen[t], t, "complete"))

\* Its Telemetry shows the craft down after the Teacher approved the task.
markSeatComplete(t) ==
  /\ "complete" \in Press
  /\ IsSeated(t) /\ ~screen[t].ended
  /\ MySeat(t).drone # NoDrone /\ MySeat(t).phase = "returning"
  /\ PressShown(t, updateSeatPhase(screen[t], t, "complete"))

touchSeat(t, cloud) ==
  /\ "seat-beat" \in Press
  /\ disk[t] # NoDoc /\ disk[t].seats[t] # NoSeat
  /\ Save(t, [disk[t] EXCEPT !.seats[t].seen = Beat(@)], cloud)
  /\ Echo(t)
  /\ UNCHANGED <<puts, replies, store, writes>>

TabletWrites(t) ==
  \/ Join(t)
  \/ requestTakeoff(t)
  \/ SeeFlown(t)
  \/ markSeatComplete(t)
  \/ \E d \in Drone : TakeFreeDrone(t, d) \/ ReclaimDrone(t, d)

-----------------------------------------------------------------------------
(* The wire. *)

\* Eight hundred milliseconds after the last write, the snapshot goes out.
scheduleClassroomCloudPush(d) ==
  /\ pending[d] # NoDoc
  /\ Sent(d, pending[d])
  /\ pending' = [pending EXCEPT ![d] = NoDoc]
  /\ UNCHANGED <<disk, screen, replies, store, writes>>

writeClassroom(d) ==
  /\ \E incoming \in puts[d] :
       /\ store' = mergeClassrooms(incoming, store)
       /\ puts' = [puts EXCEPT ![d] = @ \ {incoming}]
  /\ UNCHANGED <<disk, screen, pending, replies, writes>>

\* pushClassroomToCloud answers 'skipped' or 'error', and nobody is listening.
LosePut(d) ==
  /\ LosesPuts
  /\ \E lost \in puts[d] : puts' = [puts EXCEPT ![d] = @ \ {lost}]
  /\ UNCHANGED <<disk, screen, pending, replies, store, writes>>

\* A poll, or a tablet at the door, is answered with what the store holds now.
readClassroom(d) ==
  /\ store # NoDoc
  /\ Cardinality(replies[d]) < MaxReplies
  /\ replies' = [replies EXCEPT ![d] = @ \cup {store}]
  /\ UNCHANGED <<disk, screen, pending, puts, store, writes>>

\* The answer lands on a device at the door: a finished lesson is refused.
loadClassroomByCode(d) ==
  /\ disk[d] = NoDoc
  /\ \E remote \in replies[d] :
       /\ disk' = IF remote.ended THEN disk ELSE [disk EXCEPT ![d] = remote]
       /\ screen' = [screen EXCEPT ![d] = disk'[d]]
       /\ replies' = [replies EXCEPT ![d] = @ \ {remote}]
  /\ UNCHANGED <<pending, puts, store, writes>>

\* Mutant: what the store lacks is not pushed back.
PollWithoutPushBack(d, remote) ==
  LET merged == Merge(disk[d], remote)
  IN  /\ disk' = IF classroomsDiffer(merged, disk[d])
                 THEN [disk EXCEPT ![d] = merged] ELSE disk
      /\ pending' = pending
      /\ screen' = IF disk'[d] = disk[d] \/ ScreenLag THEN screen
                   ELSE [screen EXCEPT ![d] = disk'[d]]

\* The answer lands on a device in the room: merged with the disk of now.
Poll(d, remote) ==
  LET merged == Merge(disk[d], remote)
  IN  /\ disk' = IF classroomsDiffer(merged, disk[d])
                 THEN [disk EXCEPT ![d] = merged] ELSE disk
      /\ pending' = IF classroomSeatsDiffer(merged, remote)
                    THEN [pending EXCEPT ![d] = merged] ELSE pending
      /\ screen' = IF disk'[d] = disk[d] \/ ScreenLag THEN screen
                   ELSE [screen EXCEPT ![d] = disk'[d]]

subscribeClassroom(d) ==
  /\ disk[d] # NoDoc
  /\ \E remote \in replies[d] :
       /\ Poll(d, remote)
       /\ replies' = [replies EXCEPT ![d] = @ \ {remote}]
  /\ UNCHANGED <<puts, store, writes>>

Render(d) ==
  /\ ScreenLag /\ screen[d] # disk[d]
  /\ screen' = [screen EXCEPT ![d] = disk[d]]
  /\ UNCHANGED <<disk, pending, puts, replies, store, writes>>

Wire(d) ==
  \/ scheduleClassroomCloudPush(d)
  \/ writeClassroom(d)
  \/ LosePut(d)
  \/ readClassroom(d)
  \/ loadClassroomByCode(d)
  \/ subscribeClassroom(d)
  \/ Render(d)

Next ==
  \/ BoardWrites
  \/ \E cloud \in BOOLEAN : touchBoard(cloud)
  \/ \E t \in Tablet : TabletWrites(t) \/ \E cloud \in BOOLEAN : touchSeat(t, cloud)
  \/ \E d \in Device : Wire(d)

Spec == Init /\ [][Next]_vars

-----------------------------------------------------------------------------
(* What the synchronisation must never do. *)

\* No copy anywhere, held or in flight, seats a child it also names as freed:
\* freeDroneSeat, the reclaim of takeDroneSeat, joinClassroomAsStudent, the
\* carry-over of stampRevisions and both merges keep the two lists apart.
NoGhosts == \A doc \in Docs \ {NoDoc} : Seated(doc) \cap doc.freed = {}

\* The store is the order of record: it implements ClassroomRecord, whatever
\* order the PUTs of the devices land in and whichever are lost.
Record == INSTANCE ClassroomRecord WITH record <- store
StoreIsTheRecord == Record!Spec

\* Only a Free (or a reclaim) takes a row off a device's copy: a write from a
\* screen that never saw the seat, and a merge with a copy that lacks it, keep
\* it ("saving a Scenario would then delete them", stampRevisions).
SeatStays(old, new) ==
  \A s \in Seated(old) : new.seats[s] # NoSeat \/ s \in new.freed

OnlyFreedLeave ==
  [][\A d \in Device : disk[d] # NoDoc => SeatStays(disk[d], disk'[d])]_vars

\* The children the store lists as freed, whom no merge with it seats again.
Gone == IF store = NoDoc THEN {} ELSE store.freed

\* A child who tapped a Drone keeps it: on no device does the Drone of a seat the
\* store has not freed change once it has one, however old the document a poll or
\* a PUT brings ("the screen bounced back to the Drone picker", subscribeClassroom).
KeepsItsDrone(old, new) ==
  \A s \in (Seated(old) \cap Seated(new)) \ Gone :
     old.seats[s].drone # NoDrone => new.seats[s].drone = old.seats[s].drone

TapSticks ==
  [][\A d \in Device : disk[d] # NoDoc => KeepsItsDrone(disk[d], disk'[d])]_vars

\* Nobody finishes, or is told to come home, without the Teacher's approval of a
\* task whose every point was flown (approveSeatTask, markSeatComplete): on no
\* copy, whichever half of a seat each merge took.
CompleteWasApproved ==
  \A doc \in Docs \ {NoDoc} : \A s \in Seated(doc) :
     doc.seats[s].phase \in {"returning", "complete"} =>
       doc.seats[s].approved /\ allPointsReached(doc.seats[s])

\* A finished lesson stays finished: once the store's room has ended no PUT, no
\* beat and no re-open of the board's effect un-ends it (closeClassroom,
\* carriesOn in openClassroom).  Of Lessons in which nobody is freed: a tablet that
\* rejoins takes its id off the freed list, a write of the room, and its room,
\* written often enough, comes back over the ended one.
EndIsFinal == [][store # NoDoc /\ store.ended => store'.ended]_vars

-----------------------------------------------------------------------------
(* What must eventually happen.  Timers and polls fire (setTimeout,        *)
(* setInterval), and a device whose PUTs keep being sent is not cut off    *)
(* for ever.  No press is fair: a Teacher or a child may do nothing.       *)

Fairness ==
  \A d \in Device :
    /\ SF_vars(scheduleClassroomCloudPush(d))
    /\ SF_vars(writeClassroom(d))
    /\ WF_vars(readClassroom(d))
    /\ WF_vars(loadClassroomByCode(d))
    /\ WF_vars(subscribeClassroom(d))
    /\ WF_vars(Render(d))

\* A live board's beat reaches the cloud about once a minute.
BeatFairness == SF_vars(touchBoard(TRUE))

Phased(doc, t, phases) ==
  doc # NoDoc /\ doc.seats[t] # NoSeat /\ doc.seats[t].phase \in phases

\* A takeoff asked for on a tablet is in front of the Teacher in the end, though
\* the PUT that carried it was lost: the next poll finds a seat the store lacks
\* and pushes again (subscribeClassroom's classroomSeatsDiffer).
RequestReachesBoard ==
  \A t \in Tablet :
    Phased(disk[t], t, {"awaiting-clearance"}) ~>
      Phased(disk[Board], t, {"awaiting-clearance"})

\* What the Teacher wrote of the room while it is live reaches every tablet in
\* it, though the PUT that carried it was lost and no poll pushes the room: the
\* beat sends the whole document (touchBoard).
RoomReachesTablets ==
  \A t \in Tablet : \A n \in 1 .. MaxWrites[Board] :
    /\ disk[Board].posts >= n ~> disk[t].posts >= n
    /\ disk[Board].brief >= n ~> disk[t].brief >= n

\* Once everybody has stopped pressing, every copy counts the same writes of
\* every seat ("what makes two devices converge", mergeClassroomSessions).
SameCounts(a, b) ==
  /\ a.rev = b.rev
  /\ Seated(a) = Seated(b)
  /\ \A s \in Seated(a) : a.seats[s].rev = b.seats[s].rev

CountsSettle ==
  <>[](\A d \in Device : disk[d] # NoDoc /\ SameCounts(disk[d], store))
=============================================================================
