# TechTech Flight: a TLA+ model of the classroom and its Fleet

TechTech Flight puts a Fleet of small Drones in front of a class. A Teacher runs a board
(a Next.js application), the Students each hold a tablet, and a laptop in the room (the
ground station) ages Telemetry into a Fleet State and keeps the classroom document, the
Logbook and the Lesson records. This directory models the parts of it whose correctness
depends on the order things happen in.

## The system

| Part | State it keeps | Operations | Talks to |
|---|---|---|---|
| Classroom document and its synchronisation (`web/lib/classroom-session.ts` and the screens that call it) | one JSON document per device in `localStorage`, the copy on screen, one pending push | open, close, join, take / reclaim / free a Drone, seat by hand, ask / grant / hold takeoff, mark flown / points / complete, approve, instruct, beat | the store by `PUT` and polled `GET`, other tabs by `BroadcastChannel` |
| Student's tablet (`web/components/StudentMissionScreen.tsx`, `web/lib/student-steps.ts`) | whose tablet this is, why it is at the door, what a child reads again | the presses each screen offers, effects that run by themselves, leave, change room, reload | the document above, Telemetry of one craft |
| Classroom store (`ground-station/src/classroom-store.ts`, `classroom-worker/worker.js`) | the merged document of each code | read, merge-and-write | every device |
| Vercel stores (`api/*.ts`) | a Blob per code | read; compare `updatedAt` and overwrite | devices configured to use them |
| Ground station core (`fleet-core/src`) | last Telemetry, last contact and charge of each Drone; the bounded history | observation, tick, command, publish, observe history | a Telemetry source; the socket server |
| Telemetry sources (`fleet-adapters`, `fleet-core/src/simulator`) | sockets, simulated flights | report, command, the demonstration's keys | the core |
| Fleet stream (`ground-station/src/server.ts`, `web/lib/fleet-connection.ts`) | sockets; the board's last snapshot and its history | connect, close, retry, message | core and board |
| Command tracking, vitals and Alerts (`web/lib/command-tracker.ts`, `vitals.ts`, `acknowledgement.ts`, `home-point.ts`) | one stage per Drone, what was taken, where a Recall goes | issue, record an outcome, observe, take | the stream |
| Mission and clearance on the board (`web/lib/mission*.ts`, `clearance*.ts`, `preflight-seven.ts`, `teams.ts`) | draft, ticks, teams and clearances, one key of the browser each | plan, tick, grant, hold, confirm, end | the classroom document, the Fleet, the Logbook |
| Logbook (`web/lib/logbook.ts`, `assignment-undo.ts`, `roster-csv.ts`) | roster, who flies what, who is away, prepared Lessons | every press of the Students screen, the strips and the plan panel | Lesson records |
| Lesson records (`web/lib/lesson-records.ts`, `ground-station/src/records-*.ts`, `db/schema.sql`) | the Lessons in `localStorage`, `logbook.json`, `records.db` | start and end a Lesson, save, the two PUTs, hydrate | browser and laptop |
| Detection (`web/components/CameraPane.tsx`, `VisionCheckScreen.tsx`, `walls/DetectWall.tsx`, `web/lib/*detector*.ts`) | one stream and one loop per mounted surface, one loaded detector per page, its last error | start and stop the camera, grant and refuse, load, infer, self-test | the browser's camera, the AI service |
| Screens, scripts | derived values and layout | | |

The behaviours that are hard here: every device of the room writes the *same* document
while holding an older copy of it; a push is a debounced snapshot over a network that may
lose it, and nobody retries; polls overlap and answer late, also after their tablet has left
the room; the store is the only place writes are put in an order; a heartbeat stops when the
lesson does; Status changes because nothing was heard; a socket drops and replays; Commands
and the demonstration's keys share one target height; a lesson's state lies under several
keys that must all be of one lesson; a camera is granted, and an inference lands, after what asked
for it is gone; a Lesson is written row by row into tables whose keys
cascade; a browser and a file each believe theirs is the newer book.

## What is modelled

### The classroom's document and the devices that share it

**`ClassroomDoc`** is the document and the pure functions over it. `Seat` and `Doc` keep
the fields a decision reads. A timestamp that is null or set is a Boolean; a heartbeat is a
number, 0 for null; the brief (Scenario, rules, zones, craft, clock) is the number of times
it was rewritten and the instruction list the number pushed. `stampRevisions`, `Merge`
(`mergeClassroomSessions` in the browser and its two copies in the stores),
`classroomsDiffer`, `classroomSeatsDiffer` and the presses carry the source's names.

**`ClassroomSync`** is one code, the `Board`, the `Tablet`s and the store.

| Variable | Code |
|---|---|
| `disk[d]` | `localStorage[CLASSROOM_SESSION_KEY]` of device `d` |
| `screen[d]` | the React state of its screen; it follows `disk` at once, or a step later when `ScreenLag` |
| `pending[d]` | `pendingPush` of `scheduleClassroomCloudPush` |
| `puts[d]`, `replies[d]` | requests and answers in flight, delivered in any order |
| `store` | the document of this code in the store |

Each press is one action that computes the session the handler builds, stamps it against
the disk as `writeClassroomSession` does, saves it and leaves it pending. Presses that
start from React state (`PressShown`: every Student press, approve, free, seat by hand) are
told apart from those that read `localStorage` afresh (`PressFresh`: grant, hold, points,
instruction, close). JavaScript runs a handler to its end, so a press is atomic; a request
and its answer are separate steps, and `subscribeClassroom` merges with the disk of the
moment the answer lands, as the code does.

**`ClassroomRecord`** is the abstract specification of the store: a record that only moves
forward. A higher count replaces a lower one, an equal count changes nothing it counts, a
freed seat never comes back and only a Free removes one.  **`MCSync`** gives the constants their values.

**`ClassroomTabs`** is what `ClassroomSync` calls one device, opened up: a browser with the
Teacher's page and a Student page, each with panels that subscribe to the room
(`subscribeClassroom`), over the same document and the same store (**`MCTabs`**).

| Variable | Code |
|---|---|
| `disk`, `shown[p]` | the one `localStorage` entry; the React state of each panel |
| `mail[p]`, `stirred` | copies posted on the `BroadcastChannel` and storage events, not yet heard |
| `waits[p]`, `answers[p]` | the chains of polls of a subscription: timer set or request out; answer on its way |
| `mounted`, `pending[t]` | panels on screen; the debounced push of each page |

A copy heard on the channel is stored whole (`HearChannel`), a storage event reads the disk
again, a poll tells only its own panel, a press wakes the polls of its page, and
`ClassroomCodePanel` PUTs every copy it is told of (`reportClassroomSync`).

**`StudentScreens`** is what a tablet shows: `stepFor`, the twelve steps of
`deriveStudentSteps`, `mayLeaveClassroom`, the branch of `StudentMissionScreen` and
`StudentPhase` each step renders, and what each screen lets a child press. **`StudentTablet`**
is one tablet going through rooms: the code, the name, the Drone, leaving, changing room,
a reload, the polls (`polls`) and the one pending push (`pending`), with the effects the
screen runs by itself (take the seat again, record a flight, put a finished reading away)
run to the end before the next press. **`MCTablet`** gives its scenes.

### The Fleet and its board

**`FleetStation`** is the ground station's core: an observation and the re-check each
second age the last Telemetry into a Fleet State (`Observation`, `Tick`), a publication
derives events from the Fleet State before it and appends them to a bounded record
(`Publish`, `Trim`, `Samples`), and a restart loses all of it (`Restart`). **`FleetBoard`**
composes it with one board on one WebSocket; **`MCFleet`** instantiates it.

| Variable | Code |
|---|---|
| `telemetry`, `lastContact` | `DroneRecord` of each Drone |
| `lastPublished` | `GroundStation.#lastPublished`, and the recorder's `#previous`: both start from one Fleet State and every publication replaces both |
| `events`, `batteries`, `openedAt`, `trimmedBefore` | `FleetHistoryRecorder` |
| `socket`, `wire` | the WebSocket and what is in flight on it, in order |
| `connection`, `state`, `history` | `FleetSnapshot` of the board |

The server subscribes a board in the call that sends it the snapshot and the history, so
`Connect` is one action; a publication is sent to a served board events first, since the
recorder was subscribed before the server. A close loses what is in flight and is followed
by a retry.

**`SimulatedFleet`** is `SimulatedTelemetrySource`: a craft is one record, every Command and
every demonstration key (auto-land, release, charge, slider, fault, link) an action, and
`TickAll` is one report interval of every craft (route, drain, landing, climb). The room is
one axis counted in intervals of flight. **`Commands`** composes it with the socket a Command
goes down, `GroundStation.command`, the Telemetry that follows, `CommandTracker`
(`Issue`, `Outcome`, `Observe`, the response window), `HomePointTracker`, the vitals and
Alerts derived from a Fleet State, and `AcknowledgementTracker`. **`MCFlight`** gives its lessons.

### The Teacher's side

**`MissionRail`** is `mission-flow.ts`: which of the twelve steps the records have opened,
which are done, what stands in the way, where the Teacher is. **`Mission`** walks it: one
Teacher's tab over several lessons, on the step `?step=` names or the one the records choose.
The draft, the propeller ticks, the brief, the clearances and the teams are each under their
own key of the browser, read as empty under another lesson's id; then the room and its seats;
granting, holding, confirming and ending. A step that is shown and not open offers nothing.
**`Logbook`** is the class list: roster and ids, who flies what, who is away, prepared
Lessons, and the undo point, with every press that changes them. **`LessonRecords`** takes a
Lesson from `startLesson` and `endLesson` through `localStorage` to the two PUTs and the
laptop's two files and back (`hydrateRecordsFromFile`), over **`RecordsFile`**, the tables of
`records.db` with their cascades and unique indexes and the rows `writeLesson` writes.
`MCMission`, `MCLogbook` and `MCRecords` instantiate them.

### The camera and the detector

**`Vision`** is one tab of the board with a Drone's camera pane (`SimulatedFeed`), the Detect
wall and the Vision check. A page opens and closes at any moment, the Drone starts and stops
filming, and three things outlive the surface that asked for them: a question to the browser
for its camera (`asks`), an inference (`runs`), and the detector the page loaded once
(`cached`, `lastError`). What a surface keeps in React state is `view`. Each effect's cleanup
(`cancelled`, `stopped`) marks what it started as unanswered-for (`AsksLeft`, `RunsLeft`).
`Verdict` is `verdictFor`, line by line. **`MCVision`** instantiates it.

### Abstractions worth knowing

- `joinedAt` is a device's clock, so "the first seat on this Drone" is any of them.
- Re-granting a seat already cleared re-stamps `clearedAt`, and no property reads the time:
  `Grant` is enabled while some seat in its reach is not cleared.
- `takeoffRequestedAt` and `heldAt` are dropped; the phase carries what is decided on them.
- In `ClassroomSync` whether a craft is airborne is an input; in `StudentTablet` it is `sky`,
  one of four answers Telemetry gives; in `Commands` it follows from the flight.
- In `StudentTablet` the board writes its store at once: devices racing over one room are
  `ClassroomSync`'s. The Teacher does not Free there (see the disagreements).
- In `ClassroomTabs` a beat carries no count (`MaxBeat` is 0 in the run), a report's PUT lands
  at once or is refused, and a request out and a timer set are both a chain that waits.
- In `FleetStation` Telemetry is the four answers `deriveStatus` asks of it. An observation
  always publishes: `sameFleet` compares Telemetry by reference. The charge forecast is left
  out; `moved` in `Publish`, whether a charge moved enough to be sampled early, is any answer.
- In `Mission` the rules of the brief are one answer, said or not, and the zones one, drawn or
  not: the rail reads no more. A simulated craft passes the six items of its pre-flight that
  are not ticked. Being on another page does nothing of itself, so the Teacher leaves the rail
  only to set the demonstration up.
- In `Logbook` a name is its place in the alphabet, and `Slug` may leave the same of two names;
  a row of a CSV may bring any id, a serial or a slug given out before among them, and names
  nobody twice. `Undo` types the names back in any order of the Drones (the record has one). A
  name typed that reads like an id (`logbook.ts:580` takes it for the id) is left out.
- In `Vision` one Drone films, a frame holds something or nothing, and `framesRun` stops
  counting at `ENOUGH_FRAMES`. One self-test runs at a time. That the promise of `play()` is
  not the first decoded frame is kept apart (`PixelsArrive`); the pane looks at an undecoded
  picture as the code does, with no source.
- In `LessonRecords` what a room holds at a boundary is one of five, two of which the tables
  refuse; two saves never fall in one millisecond. A delete takes along five levels of rows
  (`Below`), as many as the tables have.

## The runs

| Run | Asks | Bounds |
|---|---|---|
| `sync_seats` | `NoGhosts`, `StoreIsTheRecord`, `OnlyFreedLeave` | one tablet and one child seated by hand, one Drone, two counted writes each, the screen a step behind the disk, starting with a child on a Drone. Two writes each are enough to free and rejoin, free and seat by hand and reclaim, and to press on a copy that has not heard of either. |
| `sync_flight` | `CompleteWasApproved`, `TapSticks`, `EndIsFinal` | one tablet back at the door of a room that still seats it, four writes of its own (take, ask, fly, land) and three of the board; nobody is freed |
| `sync_live` | `RequestReachesBoard`, `RoomReachesTablets`, `CountsSettle` | lost PUTs, two writes of a tablet, one of the board, its beat |
| `tabs` | `EveryPanelLearns`, `RequestReachesStore` | the Teacher's page with two panels, one of them reporting, and one instruction or one child joining across the room; or that page and a Student page and one press of the child. One panel comes and goes. Two copies unheard, one panel with two chains of polls, one PUT: a beat's copy and a press's meet in every order. |
| `tablet` | `WayOut`, `ReadingStepsAside`, `RoomsStayApart`, `LessonOverIsHeard` | one tablet in seven scenes (the Teacher's answers, the flight, the score, a silent board, two rooms, rooms that end, a reload); a seat written three times is held no more, one instruction, one poll in flight |
| `fleet` | `OfflineIsStale`, `TimelineIsOneStory`, `BoardMissesNothing`, `SilenceIsSeen`, `SinceIsCovered` | one Drone on the ground or in the air, four units of time against thresholds of one and two, a record of two events and one sample, one broken socket and one restart |
| `flight` | `NeverHigherAfterCommand`, `CutStaysDown`, `TakenIsStillRaised`, `RecalledDescendsAtHome`, `CommandSettles`, `RecallEnds` | one Drone in a room two places wide, two Commands, one broken socket; ten lessons, each a set of keys, presses and upsets, so that every pair of them meets |
| `mission` | `GrantedWasTicked`, `LessonStartsFresh`, `FliesOncePerGrant`, `TicksStay` | two lessons of two Drones and one child's tablet (the Logbook has a Student on the other Drone), one thing taken back; the Teacher goes back to steps 1, 3 and 6 (`Walked`) and reaches the others as the records choose them |
| `logbook` | `NothingDangles`, `NobodyIsOverwritten`, `OnlyAPlanDoubles`, `UndoGivesBack` | two names that leave one slug, two Drones, one prepared Lesson, two serials the board gives out and an id of a file's own, one child away |
| `records` | `LessonIsWhole`, `HydrateForgetsNothing` | three saves, one pair of PUTs outstanding when the next is sent, two upsets, a book that keeps one Lesson so that it forgets |
| `vision` | `FeedsPutTheLightOut`, `OneFrameAtATime`, `PassIsEarned`, `CheckAnswers` | two questions or inferences unanswered at once (`MaxAwaited`): enough for one of a surface that is gone to meet one of a surface that is there; two frames are enough (`Enough`, 12 in the code) |
| `claim_records` | `LessonsAreKept`: the second Lesson's `insert or replace into school` deletes the first | two Lessons |

In `ClassroomSync` one poll and one PUT of each device are in flight at a time
(`MaxReplies`, `MaxPuts`); together with the pending snapshot that is already two generations
of a document on the way, and orders between devices are all explored. A heartbeat saturates
at `MaxBeat`. `MCSync`'s `Settled` and `AtTheDoor` start some runs in a lesson already under
way with nothing in flight: the state a quiet network leaves. `AtTheDoor` is the room after
its tablets pressed Leave, which clears the tablet and leaves the seat (`leaveClassroom`).
`MaxWire` stops the station while that many messages wait, so a burst is handled before the
next; what a broken socket loses is any suffix of it. Retention is far below the 500 of the
code so that it bites within a run.

Deadlock is checked in `flight`, `mission` and `logbook`, where there is always something to
press. Elsewhere the presses of an instance are bounded and a room may simply go quiet, or a
clock stops at its bound.

**Fairness.** Nothing a person presses is fair. In `ClassroomSync` the push, the polls and
the renders are timers and callbacks that do fire (weak; strong for the push and the PUT,
since another press may keep replacing the snapshot and a lossy network that is used again
and again lets something through). `BeatFairness` is the board's ten-second interval, which
reaches the cloud about once a minute while live. In `FleetBoard` the re-check, the retry,
the connection and the stream are weakly fair: an interval, a timeout, a listening server
and TCP. In `Commands` so are the report interval, the carrying of a Command, the
connection, what comes down the socket, and the board's clock. In `StudentTablet` the poll is
asked and its answer lands. In `ClassroomTabs` messages and events are heard, pushes and PUTs
land, the board's beat goes on (ten seconds after the last, so when the channel is quiet), and
polls do not fall into the milliseconds of every beat's delivery for ever: strong fairness of a
poll while the channel is `Quiet`. Without that last one a beat can go on storing its older
copy over what each poll brought. In `Vision` the timer of the next frame fires, a stream that is on
shows its first picture, and an inference finishes or fails (the service's by its timeout);
whether the person allows the camera, and what is in the picture, is nobody's promise.

### What the properties say

Classroom:

- `NoGhosts`: no copy anywhere, held or in flight, seats a child it names freed.
- `OnlyFreedLeave`: a write from a screen that never saw a seat, or a merge with a copy
  lacking it, does not delete the child.
- `StoreIsTheRecord`: the store implements `ClassroomRecord`.
- `CompleteWasApproved`: no copy says returning or complete without the approval and every
  point, whichever half each merge took.
- `TapSticks`: a tapped Drone is not taken back by an older document, on whatever device.
  It speaks of children the store has not freed: one who was freed, sat down again and took
  another Drone can be given the first one back by a copy written before the Free.
- `EndIsFinal`: the store's room, once ended, stays ended, in Lessons in which nobody is
  freed: a freed child's tablet that joins again writes the room, and may re-open it. Both
  need the board's screen to have followed its disk: see the hazards for the render lag.
- `RequestReachesBoard`, `RoomReachesTablets`, `CountsSettle`: what lost PUTs may not lose.
- `EveryPanelLearns`: whatever a copy stored whole, a missed poll or a screen left and come
  back to did, every panel ends at the room the store holds. `RequestReachesStore`: the
  press a stale copy was stored over still arrives, by the snapshot that waits to be pushed.
- `WayOut`: whatever screen, a flying child is not sent to the door while the board speaks,
  and a quiet board shuts nobody in. `ReadingStepsAside`: an old step stays open only while
  the lesson is where it was when it was tapped. `RoomsStayApart`: a room's store seats only
  ids that sat down in it. `LessonOverIsHeard`: an ended lesson is heard by its tablet.

Fleet:

- `OfflineIsStale`: whichever publication a board shows, an Offline Drone never claims
  current readings. `SilenceIsSeen`: a Drone nobody hears is Offline on the board in the end.
- `TimelineIsOneStory`: in the station's record each event of a Drone starts where its
  next earlier one ended, and the last ends in the Status published, whatever retention
  dropped and through restarts.
- `SinceIsCovered`: what leaves the station's record is no later than the `since` sent next;
  `BoardMissesNothing`: what was lost with a socket comes back on the next one.
- `NeverHigherAfterCommand`: no Command takes a Drone above where it was when the Fleet
  carried it. `CutStaysDown`: a craft whose motors were cut does not fly until released, but
  by the altitude slider. `RecalledDescendsAtHome`: a recalled Drone crosses the room at its
  height. `RecallEnds`, `CommandSettles`: both come to an end, the second through breaks.
- `TakenIsStillRaised`: nothing stays taken once its Alert clears.

Teacher:

- `GrantedWasTicked`: no takeoff on propellers last looked at for another lesson.
  `TicksStay`: no step shown as done comes undone but by taking back or moving a team.
  `LessonStartsFresh`: nothing of a class before answers for the next. `FliesOncePerGrant`:
  granting a pair of Drones at once, or again, takes each up once.
- The class list stays one thing through typing, registering, importing, swapping, removing,
  applying a plan and undoing. `NothingDangles`: a prepared seat and a Drone flown name who is
  on the roster (the marks of who is away are not covered: `removeStudent` leaves them).
  `NobodyIsOverwritten`: only a removal or an import takes a name away. `OnlyAPlanDoubles`: a
  Student comes to fly two Drones only by a plan, or by sharing an id. `UndoGivesBack`:
  everybody who flew when the undo point was kept flies one of the Drones they had, exactly
  one, unless they share an id; a Drone nobody had is nobody's.
- `LessonIsWhole`: a Lesson in the
  tables is the whole of the last snapshot that landed. `HydrateForgetsNothing`: an answer
  from the file takes no Lesson from a board whose book is what it saved last, whatever was
  saved between the question and the answer (cleared browsing data does undo a book).

Camera:

- `FeedsPutTheLightOut`: a feed left, or whose Drone stopped filming, while the browser was
  asking leaves no track on. `OneFrameAtATime`: no loop has two inferences under way.
- `PassIsEarned`: what is counted as recognised was found at the check that is open, while its
  camera was on, by the detector it names; "Working" comes up as such a frame lands, or as the
  camera comes on again at a check that had earned it (see the disagreements), and never of
  the stand-in. `CheckAnswers`: with the model in the browser and a
  camera that stays on, the check comes to an answer.

## What is proved

Theorems hold for every value of the constants under their named assumptions.

- **`ClassroomDoc_proofs`**, **`ClassroomSync_proofs`**: `IInv`, that every copy (disk,
  screen, pending, PUT, answer, store) is in `Good`: typed documents in which no freed id is
  seated and no seat is returning or complete unless approved with every point reached. The
  two visible invariants are not inductive alone: a press reads the screen, a poll an answer,
  the store a PUT, so the invariant has to hold of every copy at once. `TypeCorrect`,
  `NoGhostsAnywhere`, `NobodyFinishesUnapproved` follow; `OnlyTheFreedLeave` from it and the
  carry-over lemma `StampKeeps`. `StoreImplementsRecord` is the refinement; its step is
  `MergeAdvances`: a merge whose ties go to the store's copy only moves the record forward.
  - `TapInv` (`TapAlwaysSticks`, without `ScreenLag`): of a child the store has not freed,
    all copies that name a Drone name the same one, which the child's own tablet knows, and
    a seat without one is as the tablet joined and counts lower (`OneTap`); a tablet loses its
    own seat only to a Free the store has heard of (`FreedIsHeard`). With the lag a press of
    the board from the screen before the tap stamps the untapped seat as the newer one.
  - `EndInv` (`EndIsAlwaysFinal`, without `ScreenLag`, "free" and "reclaim"): the board holds
    the highest count of the room there is, and whatever counts as high as an ended room has
    ended. It is the board alone that writes the room then.
- **`FleetBoard_proofs`**: `IInv`. The station's record is well typed and speaks of the past,
  a Drone without readings was never heard, every Fleet State in flight or shown is honest.
  `OfflineIsAlwaysStale` follows; `SinceAlwaysCovers` from `TrimKeeps`, `PublishKeeps` and
  `RestartKeeps`. That a finite set of Drones has a list in board order (`AscendingList`) is
  proved with a least counterexample, `LeastNat`, which stands in for induction. It needs the
  thresholds in order, the check `readThresholds` makes.
  - `StoryInv` (`TimelineIsAlwaysOneStory`, `IdsNameOneEvent`): besides the story, what is
    published is the ageing of what was last heard (so a publication finds a Drone as it was,
    Offline, or heard just now), and no event is later than its Drone's last contact
    (`Heeded`). Hence no two events have one id, which `mergeEvents` takes for granted: it
    drops one of two. As in the model, a Drone is heard at most once at one reading of the
    clock (`Observe`): two readings in a millisecond could share an id.
  - `PastInv` (`BoardNeverMisses`): each event the station holds is on the board, or in a
    message still to come, or was pushed out by a full record of later ones (`Answers`,
    `Coming`). It rests on what `mergeEvents` returns (`mergeEventsAnswers`: dropping
    repeated ids, sorting by time and keeping the newest loses nothing but what the bound
    has no room for). `HistoryAssumption` says only that "none yet" is not a history.
- **`StudentTablet_proofs`**: `TypeOK`, `Sound` (a copy of a room, wherever it is, seats only
  ids that joined it; the tablet's own id joined the room it is kept for) and `Tapped` (what
  the rail remembers matches the step it was tapped on). `RoomsNeverMix`, `ThereIsAWayOut` and
  `ReadingHidesNoStep` follow. A poll and the push must be covered too: both outlive the room.
- **`Commands_proofs`**: `Flying` (typed craft, a cut one is down), `Lidded` (no craft is, or
  aims, above its lid unless a hand moved it), `Orders` (what is on the wire is of the board's
  kinds) and `Watched` (what is taken is raised). `NoCommandTakesUp`, `CutIsDown`,
  `NothingStaysTaken` and the step property `RecallCrossesTheRoom` follow.
- **`Mission_proofs`**: `MissionTypeOK` with `Past` (no key is of a lesson to come),
  `Unflown`, `TicksHeard`, `GrantsKept` and `SealKept`; the properties of the run follow, and
  `SealedIsLogged`, that a sealed Mission is in the Logbook under its own lesson. `TicksStay`
  rests on `Gains`: a step of the lesson leaves the records the rail reads no poorer.
  `RailNeverFallsBack`: no rewriting of the draft takes a granted lesson's rail back to set-up.
  `NoLockWithoutKey`: whatever the records, what a locked step sends the Teacher to do is
  earlier and still to do, so the rail has no dead end.
- **`Logbook_proofs`**: `Sound book`, the conjunction that lets a swap, an import and an undo
  keep ids, names, chairs and plans consistent. `StudentsKeepTheirIds`: however names and slugs
  fall and whatever ids a file brings, two share an id only if it is the slug of one of them.
  With `TypedApart`, that a name typed before there was a roster flies one Drone, it carries
  the three step properties: `NobodyIsEverOverwritten`, `PlansAloneDouble` and
  `UndoAlwaysGivesBack`. The walks over the board (an undo, an import, a promotion) are
  proved one Drone at a time. `UndoAssumption` says only that "nothing to undo" is no undo point.
- **`Logbook_proofs`** also holds the theorems of `LessonRecords`, for any rooms, saves and
  upsets. `RoomsAssumption` says that what a room holds are lists of a document: they end.
  - `LessonStaysWhole`, from `WholeInv`: the file's rows name only rows that are there and hang
    from one school, the scenario's apart (`Settled`). `LessonIsWhole` alone is not inductive:
    that a write leaves nothing of another Lesson is so because every row goes when the
    school's is replaced (`SchoolTakesAll`), which needs every row to hang from it. From that
    first row on, the file and an empty one written with the same snapshot are twins: they hold
    the same but for the scenario, which goes with nothing, and accept and refuse alike
    (`TwinStep`); the scenario's own row makes them the same (`WrittenTwins`). The rows
    written are a recursive function of their number; the first place where the two would
    part stands in for induction (`LeastOf`).
  - `FileHoldsOneLesson`: by the same lemmas, what `claim_records` meets with two Lessons.
  - `HydrateNeverForgets`, from `PagesInv`: of all the pages of the Logbook there are (the
    board's, the file's, an answer's, those on their way) no two of one time differ, and none
    is later than the last save. Of the board and the file alone that is not inductive: a
    page on its way lands later. `RecordsTyped` is the type invariant, over the same pages.
- **`Vision_proofs`**: `Wanted` (only what is mounted is asked for or run), `Current` (a live
  inference is of the detector, the page and the camera there are now) and one frame at a time.
  `FeedsLeaveNoLight` and `LoopsNeverPileUp` follow. `PassIsAlwaysEarned` needs `Counted` too:
  what is recognised was counted in a frame, at the open check, under the one detector that was
  loaded, so no change of detector or page can carry it over. A frame is counted only while it
  is live, and it is live only while nothing under it changed.

Every safety property a run checks is a theorem. Only model-checked: liveness
(`SilenceIsSeen`, `RequestReachesBoard`, `RoomReachesTablets`, `CountsSettle`,
`CommandSettles`, `RecallEnds`, `LessonOverIsHeard`, `EveryPanelLearns`,
`RequestReachesStore`, `CheckAnswers`), which is out of the prover's reach; and that the
bounds of a run are enough to meet what the properties speak of, which the mutants show.

## Where the code and its words part

One run ends in a counterexample of a sentence of the source: `claim_records`
(`records-db.ts:15`). Met while modelling, and kept out of the properties or of the model:

- A grant that ties with the tablet's own write is thrown away by the merge, against
  `ControlScreen.tsx:600`. A poll on its way when Leave or Change is pressed puts the tablet
  back in the room (`classroom-session.ts:1545`, against `StudentMissionScreen.tsx:841`).
- `VisionCheckScreen.tsx:109` keeps a stream whoever asked for it is still there or not: leaving
  while the browser asks, or pressing Start twice before it answers, leaves the camera on with
  no button to stop it, against its line 126. What it has counted is never reset
  (`stopCamera`), so after Stop and Start it says "Working" as soon as the camera is on, before
  any frame of it, against "Waiting on the model, the camera, or the first frames" and "real
  pixels" (`detector-verdict.ts:19` and 12). `PassIsEarned` names that step.
- An AI service that fails each frame leaves the check at "checking"; the model in the browser
  failing each frame is said to be running. Invented boxes stay on the pane under the real
  detector's name until its first frame; the wall never says its count is the stand-in's
  (against `object-detection.ts:52`), and its interval lets inferences pile up and land out of
  order (against `CameraPane.tsx:503`).

- A freed child's live tablet takes its seat again and the merges drop it again, without end;
  the room count it writes meanwhile can override the board's, and re-open an ended lesson.
- The PUT that ends a lesson is sent once: lost, the store stays open. Two tablets may tap
  one Drone; a first sighting off the ground overwrites a later phase.
- The outcome can be sealed over a Drone in the air if the Drones are moved off their team
  first (`ConfirmMissionComplete.tsx:42` against `mission-flow.ts:148`); clearances are never
  ended by the Mission's end (`clearance.ts:9`); the Scenario stays changeable after the first
  clearance (`mission-flow.ts:58` against `LessonScreen.tsx:386`); between a grant and the
  first sighting in the air the rail says the Mission is complete.
- A No-fly Alert cannot be taken off the queue: `AcknowledgementTracker.observe` is told of the
  Fleet's own Alerts only (`FleetProvider.tsx`), forgets the No-fly one at the next Telemetry
  or second, and it asks again, against "an item they have dealt with stops asking"
  (`acknowledgement.ts:8`). Nor does `AlertTracker` ever stamp it, against
  `no-fly-alert.ts:86`: it is always the newest. `Remembered` in `Commands` is written so.
- `beginAutoLanding` leaves the craft airborne; a takeoff right after `land` stamps a home in
  mid-air; the altitude slider lifts a craft whose motors were cut.
- On a tablet `instructionWaiting` ignores the acknowledgement (`student-steps.ts:65`): after
  any instruction step 9 does not end. A second instruction, or a Hold at step 5, does not end
  reading again. A red zone over a quiet board offers no Leave.
- In one browser: a press wakes the polls of its own page, not "every poll on this device"
  (`classroom-session.ts:1465`); a press made while a poll is out starts a second chain of
  polls for good; a copy heard on the channel is stored whole, so a beat posted before a press
  takes it off the disk until the press's own copy or a poll brings it back; and
  `ClassroomCodePanel` PUTs the room at every beat it hears, against "`cloud: false` writes to
  this device only" (`classroom-session.ts:888`) and the minute of `HEARTBEAT_CLOUD_EVERY_MS`.
- `pendingPush` is one slot for all rooms: changing rooms within its debounce drops the old
  room's last write.
- Undo brings a removed child back under another id. A map in which a plan gave one Student
  two Drones is not restored "exactly" (`assignment-undo.ts:15` and 43): `assignStudent` refuses
  the second (`logbook.ts:578`), so they get one back. Hence `UndoGivesBack` as it is worded.
- Names of one slug (`stu-unnamed` for every name with no Latin letter) share an id, against
  "studentId must be unique" (`logbook.ts:993`): a strip then shows the first of them, on
  both Drones when each has one, and Undo may miss them. Removing one removes both.
- Removing a Student leaves the mark that they are away (`logbook.ts:1023`): typed again, under
  the same slug, they are away from the start.
- A second save after the browser's data was cleared overwrites the laptop's Logbook.

## Plan

1. The door and the PIN of one browser, and its Leave, in `ClassroomTabs`.
2. `stop()` and `start()` of the Fleet links (a late close of the old socket).
3. The Logbook's synchronisation with the cloud and the Vercel stores: `updatedAt`, a 409 and
   one retry.

## Not modelled

Most lines outside the map are what the screens print: the JSX of some hundred components,
the geometry of the Scope and of the zone editor, exports and wording. The presses on them
that write the shared document, the Mission's records, the class list or a Command are actions
of the modules above; which corners a zone has, which Drone a team's target goes to, photos,
clips and settings are not. What is in a picture, the adapters' byte layouts and the developer
scripts have no order of events to get wrong. The notes on a Drone, its service and its tallies in the
Logbook change nothing the rest of the Logbook decides by. PROJECT.json lists every part with
its status and its reason, and the hazards with the properties that watch them.
