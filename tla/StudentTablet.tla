---------------------------- MODULE StudentTablet ----------------------------
(***************************************************************************)
(* One Student's tablet from the door to the end of a lesson, and from one *)
(* classroom to another (web/components/StudentMissionScreen.tsx over      *)
(* web/lib/classroom-session.ts): one browser, one tab, several rooms.     *)
(*                                                                         *)
(* The room the tablet is in is its copy of that room's document.  Screens *)
(* follow from the copy, the seat, Telemetry and the clock, and what the   *)
(* tablet does by itself (take its seat again, record a flight, put a      *)
(* finished reading away) is an effect, run after the change that calls    *)
(* for it and before the next press.  A press is one a screen offers.      *)
(*                                                                         *)
(* The Teacher's board writes the store at once here, and a PUT of the     *)
(* tablet lands or is lost: devices racing over one room are               *)
(* ClassroomSync's.  So is the tablet's own heartbeat, which no screen     *)
(* reads.  The Teacher does not Free a seat here: a freed child's tablet   *)
(* takes the seat again and every merge drops it again, without end.       *)
(***************************************************************************)
EXTENDS StudentScreens

CONSTANTS
  Room,       \* the classrooms, by code
  Reread,     \* the steps a child reads again
  Nobody,     \* studentId: null
  NoCopy,     \* no classroom in localStorage
  NoKept,     \* no seat in localStorage
  Scenes,     \* bound: what each behaviour this instance explores is made of
  MaxRev,     \* bound: a seat written this often is not held again
  MaxPosts,   \* bound: instructions pushed to a room
  MaxPolls    \* bound: answers to polls in flight at once

\* What a child and a Teacher press, or the board records by itself.
Press == {"code", "name", "drone", "ask", "read", "leave", "change", "reload",
          "open", "instruct", "grant", "hold", "reach", "approve", "close", "beat"}

ASSUME TabletAssumption ==
  /\ Reread \subseteq 1 .. 12
  /\ Nobody \notin Student
  /\ Scenes \subseteq [rooms : SUBSET Room, ids : SUBSET Student, sights : SUBSET Sky,
                       presses : SUBSET Press, time : Nat \ {0}]
  /\ \A s \in Scenes : "down" \in s.sights
  /\ MaxRev \in Nat /\ MaxPosts \in Nat /\ MaxPolls \in Nat

Copy == [room : Room, doc : Doc]
Kept == [room : Room, id : Student]

VARIABLES
  disk,     \* the classroom in localStorage, and on the screen
  kept,     \* STUDENT_SEAT_KEY: whose tablet this is, and in which room last
  me,       \* the studentId this tab holds
  door,     \* why the tablet is at the door
  look,     \* the mounted StudentPhase: its last step, what is read, since when
  polls,    \* answers to this tablet's polls on their way back
  asked,    \* the answer to a typed code on its way back
  pending,  \* pendingPush: one slot, whatever the room
  store,    \* the document the store holds of each room
  sky,      \* Telemetry of the craft in the child's hands
  now,      \* the clock
  minted,   \* studentIds this tablet has made up
  joined,   \* history: the ids that took a seat in each room
  scene     \* the rooms, ids, sights, presses and time of this behaviour

vars == <<disk, kept, me, door, look, polls, asked, pending, store, sky, now,
          minted, joined, scene>>

NoLook == [live |-> 0, reading |-> 0, tapped |-> 0]

TypeOK ==
  /\ disk \in Copy \cup {NoCopy} /\ kept \in Kept \cup {NoKept}
  /\ me \in Student \cup {Nobody} /\ door \in {"none", "left", "change"}
  /\ look \in [live : 0 .. 12, reading : 0 .. 12, tapped : 0 .. 12]
  /\ polls \subseteq Copy /\ asked \in Copy \cup {NoCopy}
  /\ pending \in Copy \cup {NoCopy} /\ store \in [Room -> Doc]
  /\ scene \in Scenes /\ sky \in scene.sights /\ now \in 1 .. scene.time
  /\ minted \subseteq Student /\ joined \in [Room -> SUBSET Student]

\* Every board has opened its room, and nobody has come in.
Init ==
  /\ disk = NoCopy /\ kept = NoKept /\ me = Nobody /\ door = "none"
  /\ look = NoLook /\ polls = {} /\ asked = NoCopy /\ pending = NoCopy
  /\ store = [r \in Room |-> [EmptySession EXCEPT !.live = TRUE]]
  /\ sky = "down" /\ now = 1 /\ minted = {} /\ joined = [r \in Room |-> {}]
  /\ scene \in Scenes

-----------------------------------------------------------------------------
(* What the tablet shows. *)

SeatIn(copy) == IF copy = NoCopy \/ me = Nobody THEN NoSeat ELSE copy.doc.seats[me]
MySeat == SeatIn(disk)

Screen ==
  IF disk = NoCopy THEN "Door"
  ELSE StudentMission(disk.doc, MySeat, sky, now, look.reading)

canLeave ==
  mayLeaveClassroom(HasDrone(MySeat) /\ Airborne(MySeat, sky), boardQuiet(disk.doc, now))

Offers == Buttons(Screen, MySeat, disk # NoCopy /\ canLeave)

Mounted == disk # NoCopy /\ ~disk.doc.ended /\ HasDrone(MySeat)

-----------------------------------------------------------------------------
(* Writing. *)

\* writeClassroomSession: the copy is stamped against the disk and the push scheduled.
Write(session) ==
  LET next == [disk EXCEPT !.doc = stampRevisions(disk.doc, session)]
  IN  disk' = next /\ pending' = next

\* joinClassroomAsStudent: a seat under this id is taken up as it stands.
JoinAs(id, name) ==
  /\ Write(IF disk.doc.seats[id] # NoSeat
           THEN WithSeat(disk.doc, id, [disk.doc.seats[id] EXCEPT !.name = name])
           ELSE joinClassroomAsStudent(disk.doc, id, name))
  /\ kept' = [room |-> disk.room, id |-> id]
  /\ me' = id
  /\ joined' = [joined EXCEPT ![disk.room] = @ \cup {id}]

-----------------------------------------------------------------------------
(* What the tablet does by itself. *)

NeedsSeat == disk # NoCopy /\ ~disk.doc.ended /\ MySeat = NoSeat /\ kept # NoKept

\* A tablet that knows whose it is takes its own seat.
AutoSeat ==
  /\ NeedsSeat
  /\ \E name \in Name : JoinAs(kept.id, name)
  /\ UNCHANGED <<door, look, polls, asked, store, sky, now, minted, scene>>

NeedsFlown ==
  disk # NoCopy /\ HasDrone(MySeat) /\ Airborne(MySeat, sky) /\ ~MySeat.flown

SeeFlown ==
  /\ NeedsFlown
  /\ Write(markSeatFlown(disk.doc, me))
  /\ UNCHANGED <<kept, me, door, look, polls, asked, store, sky, now, minted, joined, scene>>

NeedsComplete == Mounted /\ ~Airborne(MySeat, sky) /\ MySeat.phase = "returning"

SeeComplete ==
  /\ NeedsComplete
  /\ Write(updateSeatPhase(disk.doc, me, "complete"))
  /\ UNCHANGED <<kept, me, door, look, polls, asked, store, sky, now, minted, joined, scene>>

\* Mutant: what is being read is never put away.
KeepReading(step) == [look EXCEPT !.live = step]

\* The reading clears itself the instant the lesson moves.
PutAway(step) == [NoLook EXCEPT !.live = step]

\* StudentPhase mounted, unmounted or on another step than it last was.
Rendered ==
  IF ~Mounted THEN NoLook
  ELSE LET step == studentStep(disk.doc, MySeat, sky)
       IN  IF look.live = step THEN look ELSE PutAway(step)

Render ==
  /\ look # Rendered
  /\ look' = Rendered
  /\ UNCHANGED <<disk, kept, me, door, polls, asked, pending, store, sky, now, minted, joined, scene>>

Settled == ~NeedsSeat /\ ~NeedsFlown /\ ~NeedsComplete /\ look = Rendered

Effect == AutoSeat \/ SeeFlown \/ SeeComplete \/ Render

-----------------------------------------------------------------------------
(* What the child presses. *)

Allowed(press) == press \in scene.presses

Pressed(button) == Allowed(button) /\ Settled /\ button \in Offers

\* A code is asked for, and the store answers with what it holds.
TypeCode(r) ==
  /\ Pressed("code") /\ asked = NoCopy
  /\ asked' = [room |-> r, doc |-> store[r]]
  /\ UNCHANGED <<disk, kept, me, door, look, polls, pending, store, sky, now, minted, joined, scene>>

TypeName ==
  /\ Pressed("name")
  /\ \E id \in scene.ids \ minted, name \in Name :
       /\ JoinAs(id, name)
       /\ minted' = minted \cup {id}
  /\ UNCHANGED <<door, look, polls, asked, store, sky, now, scene>>

\* canTakeDrone: free, or held under this child's own name.
takeDroneSeat(d) ==
  /\ Pressed("drone")
  /\ \/ SeatsOnDrone(disk.doc, d) = {} /\ Write(TakenBy(disk.doc, me, d))
     \/ \E held \in SeatsOnDrone(disk.doc, d) :
          sameChild(disk.doc, held, me) /\ Write(Reclaimed(disk.doc, held, me, d))
  /\ UNCHANGED <<kept, me, door, look, polls, asked, store, sky, now, minted, joined, scene>>

requestTakeoff ==
  /\ Pressed("ask")
  /\ Write(updateSeatPhase(disk.doc, me, "awaiting-clearance"))
  /\ UNCHANGED <<kept, me, door, look, polls, asked, store, sky, now, minted, joined, scene>>

\* The rail is on every screen of StudentPhase, and only a done step is a button.
LookBack(k) ==
  /\ Allowed("read") /\ Settled /\ Mounted
  /\ studentStepState(k, look.live) = "done"
  /\ look' = [look EXCEPT !.reading = k, !.tapped = look.live]
  /\ UNCHANGED <<disk, kept, me, door, polls, asked, pending, store, sky, now, minted, joined, scene>>

BackToNow ==
  /\ Settled /\ Mounted /\ look.reading # 0
  /\ look' = PutAway(look.live)
  /\ UNCHANGED <<disk, kept, me, door, polls, asked, pending, store, sky, now, minted, joined, scene>>

\* Forgets the seat and the room.
leaveClassroom ==
  /\ Pressed("leave")
  /\ disk' = NoCopy /\ kept' = NoKept /\ me' = Nobody /\ door' = "left" /\ look' = NoLook
  /\ UNCHANGED <<polls, asked, pending, store, sky, now, minted, joined, scene>>

\* Forgets the room, and keeps whose tablet it is.
changeClassroom ==
  /\ Pressed("change")
  /\ disk' = NoCopy /\ me' = Nobody /\ door' = "change" /\ look' = NoLook
  /\ UNCHANGED <<kept, polls, asked, pending, store, sky, now, minted, joined, scene>>

\* The page is loaded again: what the tab held is gone, what the browser kept is read.
Reload ==
  /\ Allowed("reload")
  /\ me' = IF kept = NoKept THEN Nobody ELSE kept.id
  /\ door' = "none" /\ look' = NoLook /\ polls' = {}
  /\ asked' = NoCopy /\ pending' = NoCopy
  /\ UNCHANGED <<disk, kept, store, sky, now, minted, joined, scene>>

Child ==
  \/ \E r \in scene.rooms : TypeCode(r)
  \/ TypeName \/ requestTakeoff \/ BackToNow \/ leaveClassroom \/ changeClassroom
  \/ \E d \in Drone : takeDroneSeat(d)
  \/ \E k \in Reread : LookBack(k)
  \/ Reload

-----------------------------------------------------------------------------
(* The network. *)

AskPoll ==
  /\ disk # NoCopy /\ Cardinality(polls) < MaxPolls
  /\ polls' = polls \cup {[room |-> disk.room, doc |-> store[disk.room]]}
  /\ UNCHANGED <<disk, kept, me, door, look, asked, pending, store, sky, now, minted, joined, scene>>

\* Mutant: two different rooms merge.
MergeAcrossRooms(mine, theirs) ==
  IF mine = NoCopy THEN theirs
  ELSE [mine EXCEPT !.doc = Merge(mine.doc, theirs.doc)]

\* A tablet that has moved on holds the room it moved to.
mergeClassroomSessions(mine, theirs) ==
  IF mine = NoCopy THEN theirs
  ELSE IF mine.room # theirs.room THEN mine
  ELSE [mine EXCEPT !.doc = Merge(mine.doc, theirs.doc)]

\* The answer lands, and is compared with the disk of now.
LandPoll ==
  \E remote \in polls :
    LET merged == mergeClassroomSessions(disk, remote)
    IN  /\ disk' = IF disk = NoCopy \/ classroomsDiffer(merged.doc, disk.doc)
                   THEN merged ELSE disk
        /\ pending' = IF classroomSeatsDiffer(merged.doc, remote.doc)
                      THEN merged ELSE pending
        /\ polls' = polls \ {remote}
        /\ UNCHANGED <<kept, me, door, look, asked, store, sky, now, minted, joined, scene>>

\* A code for a finished lesson is not a code.
loadClassroomByCode ==
  /\ asked # NoCopy
  /\ disk' = IF asked.doc.ended THEN disk ELSE asked
  /\ asked' = NoCopy
  /\ UNCHANGED <<kept, me, door, look, polls, pending, store, sky, now, minted, joined, scene>>

pushClassroomToCloud ==
  /\ pending # NoCopy
  /\ store' = [store EXCEPT ![pending.room] = mergeClassrooms(pending.doc, @)]
  /\ pending' = NoCopy
  /\ UNCHANGED <<disk, kept, me, door, look, polls, asked, sky, now, minted, joined, scene>>

LosePush ==
  /\ pending # NoCopy /\ pending' = NoCopy
  /\ UNCHANGED <<disk, kept, me, door, look, polls, asked, store, sky, now, minted, joined, scene>>

Network == AskPoll \/ LandPoll \/ loadClassroomByCode \/ pushClassroomToCloud \/ LosePush

-----------------------------------------------------------------------------
(* The Teacher, the craft and the clock. *)

Writes(r, session) ==
  /\ store' = [store EXCEPT ![r] = stampRevisions(@, session)]
  /\ UNCHANGED <<disk, kept, me, door, look, polls, asked, pending, sky, now, minted, joined, scene>>

openClassroom(r) ==
  /\ Allowed("open")
  /\ ~store[r].ended /\ ~outcome(store[r])
  /\ Writes(r, [store[r] EXCEPT !.brief = @ + 1])

pushClassroomInstruction(r) ==
  /\ Allowed("instruct") /\ store[r].posts < MaxPosts
  /\ Writes(r, [store[r] EXCEPT !.posts = @ + 1])

Grant(r, d) ==
  /\ Allowed("grant")
  /\ \E s \in seatsForDrone(store[r], d) : ~store[r].seats[s].cleared
  /\ Writes(r, grantSeatsForDrone(store[r], d))

Hold(r, d) ==
  /\ Allowed("hold")
  /\ \E s \in Waiting(store[r], d) : store[r].seats[s].rev < MaxRev
  /\ Writes(r, holdSeatsForDrone(store[r], d))

Reach(r, d, point) ==
  /\ Allowed("reach")
  /\ \E s \in SeatsOnDrone(store[r], d) : point \notin store[r].seats[s].reached
  /\ Airborne([drone |-> d], sky)
  /\ Writes(r, markPointsReached(store[r], d, {point}))

Approve(r, s) ==
  /\ Allowed("approve") /\ s \in Seated(store[r])
  /\ allPointsReached(store[r].seats[s]) /\ ~store[r].seats[s].approved
  /\ Writes(r, approveSeatTask(store[r], s))

closeClassroom(r) ==
  /\ Allowed("close") /\ ~store[r].ended
  /\ Writes(r, [store[r] EXCEPT !.ended = TRUE, !.live = FALSE])

touchBoard(r) ==
  /\ Allowed("beat") /\ store[r].live /\ store[r].boardSeen # now
  /\ Writes(r, [store[r] EXCEPT !.boardSeen = now])

Teacher ==
  \E r \in scene.rooms :
       \/ openClassroom(r) \/ pushClassroomInstruction(r)
       \/ closeClassroom(r) \/ touchBoard(r)
       \/ \E d \in Drone :
            Grant(r, d) \/ Hold(r, d) \/ \E point \in Point : Reach(r, d, point)
       \/ \E s \in Student : Approve(r, s)

\* By hand, whatever any screen says.
Fly ==
  /\ sky' \in scene.sights \ {sky}
  /\ UNCHANGED <<disk, kept, me, door, look, polls, asked, pending, store, now, minted, joined, scene>>

Tick ==
  /\ now < scene.time /\ now' = now + 1
  /\ UNCHANGED <<disk, kept, me, door, look, polls, asked, pending, store, sky, minted, joined, scene>>

Next == Effect \/ Child \/ Network \/ Teacher \/ Fly \/ Tick

Spec == Init /\ [][Next]_vars

\* A tablet keeps asking, and what answers it lands. Nobody is made to press.
Fairness == WF_vars(AskPoll) /\ WF_vars(LandPoll)

FairSpec == Spec /\ Fairness

-----------------------------------------------------------------------------
(* What the tablet must never do. *)

\* Nobody loses the screen of a craft that is up while the board still speaks, and
\* nobody is shut in by a board that went quiet: whatever the screen, Leave is
\* offered then, but for the one inside a No-fly Zone ("silence is not flight",
\* mayLeaveClassroom; LostTheBoard, "this was the trap").
WayOut ==
  disk # NoCopy =>
    LET quiet == boardQuiet(disk.doc, now)
        up == HasDrone(MySeat) /\ Airborne(MySeat, sky)
    IN  /\ up /\ ~quiet => Offers \cap {"leave", "change"} = {}
        /\ quiet /\ Screen # "RedZone" => "leave" \in Offers

\* A child who reads an old step again is on the step they were on when they
\* tapped it, in no No-fly Zone and not cut off: what moves the lesson meanwhile,
\* a clearance, a flight, an approval, an ended lesson or another room, has taken
\* the reading away ("it clears itself the instant the lesson moves", ADR-0031).
ReadingStepsAside ==
  Settled /\ Screen = "LookingBack" =>
    /\ look.tapped = studentStep(disk.doc, MySeat, sky)
    /\ ~InRedZone(MySeat, sky) /\ ~boardQuiet(disk.doc, now)

\* A tablet that goes from one room to another, with answers of either still on
\* their way and one pending push for both, carries nobody along: a room holds
\* only seats that were taken in it ("two different rooms do not merge").
RoomsStayApart == \A r \in Room : Seated(store[r]) \subseteq joined[r]

InRoom(r) == disk # NoCopy /\ disk.room = r

\* A tablet in a room whose lesson is over learns of it, unless it has walked out
\* (closeClassroom, "Said out loud, to the tablets") or the end is overwritten.
LessonOverIsHeard ==
  \A r \in Room :
    InRoom(r) /\ store[r].ended ~>
      ~InRoom(r) \/ disk.doc.ended \/ ~store[r].ended

=============================================================================
