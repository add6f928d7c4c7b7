---------------------------- MODULE LessonRecords ----------------------------
(***************************************************************************)
(* A Lesson's record, from the Teacher's browser to the two files on the   *)
(* laptop and back: startLesson, endLesson and save of web/lib/logbook.ts, *)
(* persistLessonRecords and hydrateRecordsFromFile of web/lib/             *)
(* lesson-records.ts, and the /api/records routes of the ground station.   *)
(* The two PUTs of a boundary are not awaited and not retried; they are on *)
(* connections of their own and land in either order, or never.            *)
(***************************************************************************)
EXTENDS RecordsFile

CONSTANTS Rooms,       \* what the classroom, the teams and the draft may hold at a boundary
          Kept,        \* Lessons a Logbook keeps (100 in the code)
          MaxSaves,    \* bound: saves
          MaxWires,    \* bound: PUTs on their way when another pair is sent
          MaxUpsets    \* bound: clearings, reloads, station stops and power cuts together

ASSUME RecordsBoundsAssumption ==
    Kept \in Nat \ {0} /\ MaxSaves \in Nat /\ MaxWires \in Nat /\ MaxUpsets \in Nat

\* What a room holds are lists of a document.
ASSUME RoomsAssumption == \A room \in Rooms :
    /\ IsFiniteSet(room.drones) /\ IsFiniteSet(DOMAIN room.points)
    /\ IsFiniteSet(room.seats) /\ \A seat \in room.seats : IsFiniteSet(seat.reached)
    /\ IsFiniteSet(room.teams) /\ \A team \in room.teams : IsFiniteSet(team.members)

VARIABLES logbook,     \* the Logbook in localStorage: the Lessons, whether there is a roll, revisedAt
          clock,       \* Date.now() at the last save
          due,         \* Lessons whose persistLessonRecords is still being imported
          hydrate,     \* hydrateRecordsFromFile: "asking", "answered" (on its way), "done"
          answer,      \* the answer on its way
          wires,       \* PUTs on their way
          up,          \* the ground station answers
          file,        \* logbook.json as readLogbookFile returns it
          db,          \* records.db
          landed,      \* ghost: all that the last snapshot written of each Lesson says
          upsets
recordsVars == <<logbook, clock, due, hydrate, answer, wires, up, file, db, landed, upsets>>

Running == 0                              \* endedAt = null
NoFile == [at |-> 0, lessons |-> <<>>, roll |-> FALSE, none |-> TRUE]
EmptyLogbook == [lessons |-> <<>>, roll |-> FALSE, revisedAt |-> 0]

LessonIds(lessons) == {lessons[i].id : i \in DOMAIN lessons}
LessonOf(b, id) == b.lessons[CHOOSE i \in DOMAIN b.lessons : b.lessons[i].id = id]
runningLesson(b) == {id \in LessonIds(b.lessons) : LessonOf(b, id).ended = Running}

RecordsInit ==
    /\ logbook = EmptyLogbook /\ clock = 0 /\ due = {}
    /\ hydrate = "asking" /\ answer = NoFile /\ wires = {} /\ up = TRUE
    /\ file = NoFile /\ db = {} /\ landed = <<>>
    /\ upsets = 0

(***************************************************************************)
(* The browser. A save is a tick of the clock: no two share a millisecond. *)
(***************************************************************************)
save(b) == /\ clock < MaxSaves
           /\ clock' = clock + 1
           /\ logbook' = [b EXCEPT !.revisedAt = clock + 1]

withLesson(lessons, lesson) ==
    SubSeq(<<lesson>> \o lessons, 1, Min({Kept, 1 + Len(lessons)}))

startLesson ==
    /\ runningLesson(logbook) = {}
    /\ save([logbook EXCEPT !.lessons = withLesson(@, [id |-> clock + 1, ended |-> Running])])
    /\ due' = due \cup {clock + 1}
    /\ UNCHANGED <<hydrate, answer, wires, up, file, db, landed, upsets>>

endLesson(id) ==
    /\ id \in runningLesson(logbook)
    /\ save([logbook EXCEPT !.lessons = [i \in DOMAIN @ |->
                IF @[i].id = id THEN [@[i] EXCEPT !.ended = clock + 1] ELSE @[i]]])
    /\ due' = due \cup {id}
    /\ UNCHANGED <<hydrate, answer, wires, up, file, db, landed, upsets>>

\* Any other save: a Student registered, a note, an incident; or the last one removed.
RollSaved(roll) == /\ save([logbook EXCEPT !.roll = roll])
                   /\ UNCHANGED <<due, hydrate, answer, wires, up, file, db, landed, upsets>>
studentRegistered == RollSaved(TRUE)
lastStudentRemoved == logbook.roll /\ RollSaved(FALSE)

\* The room is what the classroom, the teams and the draft hold at that moment.
lessonSnapshotFromBrowser(id, room) ==
    [lesson |-> id, label |-> "Untitled lesson", ended |-> LessonOf(logbook, id).ended,
     drones |-> room.drones, seats |-> room.seats, teams |-> room.teams, points |-> room.points,
     mission |-> IF room.planned THEN id ELSE NoMission]

persistLessonRecords(id, room) ==
    /\ id \in due /\ Cardinality(wires) <= MaxWires
    /\ due' = due \ {id}
    /\ wires' = IF id \notin LessonIds(logbook.lessons) THEN wires
                ELSE wires \cup
                     {[to |-> "lesson", snapshot |-> lessonSnapshotFromBrowser(id, room)],
                      [to |-> "logbook",
                       snapshot |-> [at |-> logbook.revisedAt, lessons |-> logbook.lessons,
                                     roll |-> logbook.roll, none |-> FALSE]]}
    /\ UNCHANGED <<logbook, clock, hydrate, answer, up, file, db, landed, upsets>>

(***************************************************************************)
(* The board is opened: it asks for the file once.                         *)
(***************************************************************************)
Upset == upsets < MaxUpsets /\ upsets' = upsets + 1

Opened == due' = {} /\ hydrate' = "asking" /\ answer' = NoFile

Reload == /\ Upset /\ Opened
          /\ UNCHANGED <<logbook, clock, wires, up, file, db, landed>>

ClearBrowsingData ==
    /\ Upset /\ Opened
    /\ logbook' = EmptyLogbook
    /\ UNCHANGED <<clock, wires, up, file, db, landed>>

\* The GET is answered from the file as it is now, or not at all.
AnswerGet ==
    /\ hydrate = "asking"
    /\ IF up /\ ~file.none THEN hydrate' = "answered" /\ answer' = file
       ELSE hydrate' = "done" /\ UNCHANGED answer
    /\ UNCHANGED <<logbook, clock, due, wires, up, file, db, landed, upsets>>

Vacant(b) == b.lessons = <<>> /\ ~b.roll

\* Mutant: the file wins, whatever has happened since it was asked for.
FileAlways(b, a) == TRUE

\* Read when the answer is here, not when it was asked for.
FileWins(b, a) == Vacant(b) \/ a.at >= b.revisedAt

replaceLogbookFromCloud(a) == [lessons |-> a.lessons, roll |-> a.roll, revisedAt |-> a.at]

hydrateRecordsFromFile ==
    /\ hydrate = "answered"
    /\ hydrate' = "done" /\ answer' = NoFile
    /\ logbook' = IF FileWins(logbook, answer) THEN replaceLogbookFromCloud(answer) ELSE logbook
    /\ UNCHANGED <<clock, due, wires, up, file, db, landed, upsets>>

(***************************************************************************)
(* The laptop.                                                             *)
(***************************************************************************)
Station == UNCHANGED <<logbook, clock, due, hydrate, answer>>

\* What an empty file would say of a Lesson after this snapshot of it.
Alone(snapshot) == LessonIn(writeLesson({}, snapshot), snapshot.lesson)

\* PUT /api/records.
LandLesson(w) ==
    /\ up /\ w \in wires /\ w.to = "lesson"
    /\ wires' = wires \ {w}
    /\ db' = writeLesson(db, w.snapshot)
    /\ landed' = IF ~Written(db, w.snapshot).ok THEN landed
                 ELSE [id \in DOMAIN landed \cup {w.snapshot.lesson} |->
                          IF id = w.snapshot.lesson THEN Alone(w.snapshot) ELSE landed[id]]
    /\ Station /\ UNCHANGED <<up, file, upsets>>

\* PUT /api/records/logbook: written over whatever is there.
LandLogbook(w) ==
    /\ up /\ w \in wires /\ w.to = "logbook"
    /\ wires' = wires \ {w}
    /\ file' = w.snapshot
    /\ Station /\ UNCHANGED <<up, db, landed, upsets>>

\* The power goes while a PUT is being written. A transaction is as if it had
\* not begun; logbook.json, written in place, is torn and reads as none.
PowerCut(w) ==
    /\ Upset /\ up /\ w \in wires
    /\ up' = FALSE /\ wires' = wires \ {w}
    /\ file' = IF w.to = "logbook" THEN NoFile ELSE file
    /\ Station /\ UNCHANGED <<db, landed>>

StationStops == Upset /\ up /\ up' = FALSE
                  /\ Station /\ UNCHANGED <<wires, file, db, landed>>
StationStarts == ~up /\ up' = TRUE
                   /\ Station /\ UNCHANGED <<wires, file, db, landed, upsets>>

\* Nobody was listening: the fetch fails, and is not tried again.
Lose(w) == ~up /\ w \in wires /\ wires' = wires \ {w}
             /\ Station /\ UNCHANGED <<up, file, db, landed, upsets>>

RecordsNext ==
    \/ startLesson \/ studentRegistered \/ lastStudentRemoved
    \/ \E id \in LessonIds(logbook.lessons) : endLesson(id)
    \/ \E id \in due, room \in Rooms : persistLessonRecords(id, room)
    \/ Reload \/ ClearBrowsingData \/ AnswerGet \/ hydrateRecordsFromFile
    \/ \E w \in wires : LandLesson(w) \/ LandLogbook(w) \/ PowerCut(w) \/ Lose(w)
    \/ StationStops \/ StationStarts

RecordsSpec == RecordsInit /\ [][RecordsNext]_recordsVars

(***************************************************************************)
(* Properties.                                                             *)
(***************************************************************************)
\* Every variable holds what its type says; a Logbook keeps Kept Lessons, no
\* two of one id.
Times == 0..MaxSaves
Lessons(lessons) ==
    /\ Len(lessons) <= Kept
    /\ \A i \in DOMAIN lessons : lessons[i].id \in Times /\ lessons[i].ended \in Times
    /\ \A i, j \in DOMAIN lessons : lessons[i].id = lessons[j].id => i = j
RecordsTypeOK ==
    /\ Lessons(logbook.lessons) /\ logbook.revisedAt \in Times /\ logbook.roll \in BOOLEAN
    /\ Lessons(file.lessons) /\ file.at \in Times
    /\ clock \in Times /\ due \subseteq Times
    /\ hydrate \in {"asking", "answered", "done"} /\ up \in BOOLEAN

\* What the file says of a Lesson is what its last accepted snapshot said, all
\* of it and nothing else: writing it again does not double it, a later
\* Lesson does not take a part of it, and a snapshot the file refuses leaves
\* the one before it as it was.
LessonIsWhole ==
    \A id \in 1..MaxSaves :
        LessonIn(db, id) # {} =>
            /\ id \in DOMAIN landed
            /\ LessonIn(db, id) = landed[id]

\* An answer from the file takes no Lesson back from a board whose book is what it
\* saved last, though saves came between the question and the answer: a book is
\* undone only where browsing data was cleared, or the file taken, since.
HydrateForgetsNothing ==
    [][hydrateRecordsFromFile /\ logbook.revisedAt = clock =>
          \A id \in LessonIds(logbook.lessons) :
              /\ id \in LessonIds(logbook'.lessons)
              /\ LessonOf(logbook', id) = LessonOf(logbook, id)]_recordsVars

\* records-db.ts:15: "A term of attendance must not depend on somebody
\* remembering to copy it out first." A Lesson once written stays in the file.
LessonsAreKept == \A id \in DOMAIN landed : LessonIn(db, id) # {}
=============================================================================
