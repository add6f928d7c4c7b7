------------------------------- MODULE Logbook -------------------------------
(***************************************************************************)
(* The class list of web/lib/logbook.ts: the roster, who is flying what,   *)
(* who is away, and the prepared Lessons with their Drones and their       *)
(* Students, as one Teacher's board edits them from the Students screen,   *)
(* the Control strips and the Lesson plan panel.                           *)
(*                                                                         *)
(* A name is a number, its place in the alphabet; a Student's id is the    *)
(* slug of a name, a serial the board gave, or one a CSV brought. Slug is  *)
(* what slugForId leaves of a name, which may be the same of two; a CSV    *)
(* may bring any id, a serial or a slug given out before among them. Left  *)
(* out: a name typed that reads like somebody's id, which the code takes   *)
(* for the id (logbook.ts:580).                                            *)
(***************************************************************************)
EXTENDS Integers, FiniteSetsExt, Functions

CONSTANTS Names,         \* the names a Teacher may type, in alphabetical order
          Slug,          \* slugForId of each
          DroneCount,    \* on the board, numbered in board order
          NoUndo,        \* what there is to undo when there is nothing
          CsvIds,        \* the other studentIds a CSV file may carry
          MaxSerial,     \* bound: serials the board gives out
          MaxPlans,      \* bound: prepared Lessons
          MaxAway        \* bound: Students marked away at once

ASSUME NamesAssumption == Names \subseteq Nat \ {0} /\ IsFiniteSet(Names)
ASSUME DronesAssumption == DroneCount \in Nat
ASSUME BoundsAssumption == MaxSerial \in Nat /\ MaxPlans \in Nat /\ MaxAway \in Nat

VARIABLES book, undoPoint
vars == <<book, undoPoint>>

Nobody == 0
Free == <<"free", 0>>                      \* no entry in book.students

Serial(k) == <<"S", k>>
legacyStudentIdFor(name) == <<"stu", Slug[name]>>
CsvId(k) == <<"csv", k>>
Ids == {Serial(k) : k \in 1..MaxSerial} \cup {legacyStudentIdFor(n) : n \in Names}
          \cup {CsvId(k) : k \in CsvIds}
TypedName(name) == <<"name", name>>         \* the value of a record from before the roster

Drones == 1..DroneCount
ASSUME UndoAssumption == NoUndo \notin [Drones -> {Nobody} \cup Names]
PlanIds == 1..MaxPlans

EmptyBook ==
    [roster |-> {}, roll |-> {}, students |-> [d \in Drones |-> Free], absent |-> {},
     plans |-> {}, lessonDrones |-> {}, lessonAssignments |-> {}]

(***************************************************************************)
(* Reading the book.                                                       *)
(***************************************************************************)
rollFromRoster(roster) == {s.name : s \in roster}

First(rows) == CHOOSE r \in rows : \A s \in rows : r.name <= s.name

RowsOf(b, id) == {s \in b.roster : s.studentId = id}
RowsNamed(b, name) == {s \in b.roster : s.name = name}

displayNameForAssignment(b, value) ==
    IF RowsOf(b, value) # {} THEN First(RowsOf(b, value)).name
    ELSE IF value[1] = "name" THEN value[2] ELSE Nobody

studentOf(b, d) == displayNameForAssignment(b, b.students[d])

Flying(b) == [d \in Drones |-> studentOf(b, d)]

studentAssignedElsewhere(b, name, d) == \E e \in Drones \ {d} : studentOf(b, e) = name

unassignedRosterNames(b) ==
    (IF b.roster # {} THEN rollFromRoster(b.roster) ELSE b.roll)
        \ {studentOf(b, d) : d \in Drones}

(***************************************************************************)
(* Serial ids: one more than the highest taken, whatever else is there.    *)
(***************************************************************************)
\* Mutant: one more than there are of them.
CountSerials(b) == Cardinality({s \in b.roster : s.studentId[1] = "S"}) + 1

allocateSerialId(b) ==
    1 + Max({0} \cup {s.studentId[2] : s \in {r \in b.roster : r.studentId[1] = "S"}})

(***************************************************************************)
(* A name-only record from before the roster is promoted on any write.     *)
(***************************************************************************)
migrateRosterForward(b) ==
    IF b.roster # {} THEN [b EXCEPT !.roll = rollFromRoster(b.roster)]
    ELSE LET names == b.roll \cup {studentOf(b, d) : d \in {e \in Drones : b.students[e] # Free}}
             roster == {[studentId |-> legacyStudentIdFor(n), name |-> n] : n \in names}
         IN  [b EXCEPT !.roster = roster, !.roll = rollFromRoster(roster),
                       !.students = [d \in Drones |->
                           IF b.students[d] = Free THEN Free
                           ELSE legacyStudentIdFor(studentOf(b, d))]]

(***************************************************************************)
(* The operations, each from a book to a book.                             *)
(***************************************************************************)
Cleared(b, d) == [migrateRosterForward(b) EXCEPT !.students[d] = Free]

\* Refused when the name already flies another Drone.
assignStudent(b0, d, name) ==
    LET b == migrateRosterForward(b0)
        known == RowsNamed(b, name)
        row == IF known # {} THEN First(known)
               ELSE [studentId |-> legacyStudentIdFor(name), name |-> name]
        roster == b.roster \cup {row}
    IN  IF studentAssignedElsewhere(b, name, d) THEN b0
        ELSE [b EXCEPT !.students[d] = row.studentId, !.roster = roster,
                       !.roll = rollFromRoster(roster)]

clearStudents(b) == [migrateRosterForward(b) EXCEPT !.students = [d \in Drones |-> Free]]

saveRoll(b0, wanted) ==
    LET b == migrateRosterForward(b0)
        roster == {s \in b.roster : s.name \in wanted}
                  \cup {[studentId |-> legacyStudentIdFor(n), name |-> n] :
                            n \in wanted \ rollFromRoster(b.roster)}
        kept == {s.studentId : s \in roster}
    IN  [b EXCEPT !.roster = roster, !.roll = rollFromRoster(roster),
                  !.students = [d \in Drones |->
                      IF b.students[d] \in kept THEN b.students[d] ELSE Free],
                  !.lessonAssignments = {row \in @ : row.studentId \in kept}]

rememberStudent(b, name) ==
    LET m == migrateRosterForward(b)
    IN  IF RowsNamed(m, name) # {} THEN b ELSE saveRoll(b, m.roll \cup {name})

assignNextRosterName(b0, d) ==
    LET b == migrateRosterForward(b0)
        waiting == unassignedRosterNames(b)
    IN  IF studentOf(b, d) # Nobody \/ waiting = {} THEN b0
        ELSE rememberStudent(assignStudent(b0, d, Min(waiting)), Min(waiting))

\* The same for every Drone in board order.
assignEveryone(b) ==
    LET upTo[n \in 0..DroneCount] ==
            IF n = 0 THEN b
            ELSE assignNextRosterName(upTo[n - 1], n)
    IN  upTo[DroneCount]

upsertStudent(b0, id, name) ==
    LET b == migrateRosterForward(b0)
        roster == {s \in b.roster : s.studentId # id} \cup {[studentId |-> id, name |-> name]}
    IN  [b EXCEPT !.roster = roster, !.roll = rollFromRoster(roster)]

registerStudent(b0, name) ==
    LET b == migrateRosterForward(b0)
    IN  IF RowsNamed(b, name) # {} THEN b0
        ELSE upsertStudent(b0, Serial(allocateSerialId(b)), name)

\* Mutant: the prepared Lessons keep the row of a Student who was removed.
removeFromRosterOnly(b0, id) ==
    LET b == migrateRosterForward(b0)
        roster == {s \in b.roster : s.studentId # id}
    IN  [b EXCEPT !.roster = roster, !.roll = rollFromRoster(roster),
                  !.students = [d \in Drones |-> IF @[d] = id THEN Free ELSE @[d]]]

removeStudent(b0, id) ==
    LET b == migrateRosterForward(b0)
        roster == {s \in b.roster : s.studentId # id}
    IN  [b EXCEPT !.roster = roster, !.roll = rollFromRoster(roster),
                  !.students = [d \in Drones |-> IF @[d] = id THEN Free ELSE @[d]],
                  !.lessonAssignments = {row \in @ : row.studentId # id}]

setStudentAbsent(b, id, away) ==
    [migrateRosterForward(b) EXCEPT !.absent = IF away THEN @ \cup {id} ELSE @ \ {id}]

\* The mark, and the first Drone they were flying handed back.
markAbsentAndFreeCraft(b, row) ==
    LET theirs == {d \in Drones : studentOf(b, d) = row.name}
        freed == IF theirs = {} THEN b ELSE Cleared(b, Min(theirs))
    IN  setStudentAbsent(freed, row.studentId, TRUE)

\* Mutant: a Drone whose partner had nobody keeps its Student.
swapKeepingOne(b0, d, e) ==
    LET b == migrateRosterForward(b0)
    IN  IF b.students[d] = Free /\ b.students[e] = Free THEN b0
        ELSE [b EXCEPT !.students[e] = b.students[d],
                       !.students[d] = IF b.students[e] = Free THEN @ ELSE b.students[e]]

swapStudentAssignments(b0, d, e) ==
    LET b == migrateRosterForward(b0)
    IN  IF b.students[d] = Free /\ b.students[e] = Free THEN b0
        ELSE [b EXCEPT !.students[d] = b.students[e], !.students[e] = b.students[d]]

\* The names a board had, typed back one Drone after another, in the order the
\* Drones were given out in: the record keeps that order, the model any.
typedBack(b, point, order) ==
    LET upTo[n \in 0..DroneCount] ==
            IF n = 0 THEN b
            ELSE IF point[order[n]] = Nobody THEN upTo[n - 1]
            ELSE assignStudent(upTo[n - 1], order[n], point[order[n]])
    IN  upTo[DroneCount]

\* Mutant: the names are put back over what is there now.
undoOver(b, point, order) == typedBack(b, point, order)

undoLastAssignment(b, point, order) == typedBack(clearStudents(b), point, order)

createTrainerLesson(b0) ==
    LET b == migrateRosterForward(b0)
    IN  [b EXCEPT !.plans = @ \cup {1 + Max({0} \cup b.plans)}]

attachDroneToLesson(b, l, d) ==
    [migrateRosterForward(b) EXCEPT !.lessonDrones = @ \cup {[lessonId |-> l, droneId |-> d]}]

On(row, l, d) == row.lessonId = l /\ row.droneId = d

detachDroneFromLesson(b, l, d) ==
    [migrateRosterForward(b) EXCEPT
        !.lessonDrones = {row \in @ : ~On(row, l, d)},
        !.lessonAssignments = {row \in @ : ~On(row, l, d)}]

removeTrainerDrone(b, d) ==
    [migrateRosterForward(b) EXCEPT
        !.lessonDrones = {row \in @ : row.droneId # d},
        !.lessonAssignments = {row \in @ : row.droneId # d}]

clearLessonDroneAssignment(b, l, d) ==
    [migrateRosterForward(b) EXCEPT !.lessonAssignments = {row \in @ : ~On(row, l, d)}]

assignStudentToLessonDrone(b, l, d, id) ==
    [migrateRosterForward(b) EXCEPT !.lessonAssignments =
        {row \in @ : ~On(row, l, d) /\ ~(row.lessonId = l /\ row.studentId = id)}
        \cup {[lessonId |-> l, droneId |-> d, studentId |-> id]}]

applyLessonAssignments(b0, l) ==
    LET b == migrateRosterForward(b0)
        rows == {row \in b.lessonAssignments : row.lessonId = l}
    IN  IF rows = {} THEN b0
        ELSE [b EXCEPT !.students = [d \in Drones |->
                 IF \E row \in rows : row.droneId = d
                   THEN (CHOOSE row \in rows : row.droneId = d).studentId ELSE @[d]]]

(***************************************************************************)
(* The Teacher's board. A board first opened has an empty book, or one     *)
(* kept as names only from before there was a roster.                      *)
(***************************************************************************)
NameOnlyBook(names, flying) == [EmptyBook EXCEPT !.roll = names, !.students = flying]
TypedOnceEach ==
    {f \in [Drones -> {Free} \cup {TypedName(n) : n \in Names}] :
        \A d, e \in Drones : d # e /\ f[d] # Free => f[d] # f[e]}

Init == /\ \E names \in SUBSET Names, flying \in TypedOnceEach : book = NameOnlyBook(names, flying)
        /\ undoPoint = NoUndo

Becomes(b) == book' = b /\ UNCHANGED undoPoint
captureAssignmentUndoPoint == undoPoint' = Flying(book)

TypeName(d, n) == Becomes(rememberStudent(assignStudent(book, d, n), n))
EditStrip(d, n) == Becomes(assignStudent(book, d, n))
ClearStrip(d) == Becomes(Cleared(book, d))
AssignNext(d) == Becomes(assignNextRosterName(book, d))
ClearAll == (\E d \in Drones : studentOf(book, d) # Nobody) /\ Becomes(clearStudents(book))

AssignEveryone == book' = assignEveryone(book) /\ captureAssignmentUndoPoint
Swap(d, e) == d # e /\ book' = swapStudentAssignments(book, d, e) /\ captureAssignmentUndoPoint
MarkAway(row) ==
    /\ row.studentId \notin book.absent /\ Cardinality(book.absent) < MaxAway
    /\ book' = markAbsentAndFreeCraft(book, row)
    /\ captureAssignmentUndoPoint
Undo == /\ undoPoint # NoUndo
        /\ \E order \in Bijection(Drones, Drones) : book' = undoLastAssignment(book, undoPoint, order)
        /\ undoPoint' = NoUndo

Register(n) == allocateSerialId(migrateRosterForward(book)) <= MaxSerial
                  /\ Becomes(registerStudent(book, n))
RemoveStudent(row) == Becomes(removeStudent(book, row.studentId))
SetAway(row) ==
    LET away == row.studentId \in book.absent
    IN  /\ ~away => Cardinality(book.absent) < MaxAway
        /\ Becomes(setStudentAbsent(book, row.studentId, ~away))

\* A CSV with ids is one upsert a row. Bound: it names nobody twice.
CsvRow(id, n) == /\ \A s \in RowsNamed(migrateRosterForward(book), n) : s.studentId = id
                 /\ Becomes(upsertStudent(book, id, n))
CsvNames(names) == Becomes(saveRoll(book, names))

Prepare == 1 + Max({0} \cup book.plans) \in PlanIds /\ Becomes(createTrainerLesson(book))
IsIn(l, d) == [lessonId |-> l, droneId |-> d] \in book.lessonDrones
Attach(l, d) == ~IsIn(l, d) /\ Becomes(attachDroneToLesson(book, l, d))
Detach(l, d) == IsIn(l, d) /\ Becomes(detachDroneFromLesson(book, l, d))
PlanStudent(l, d, id) ==
    IsIn(l, d) /\ Becomes(assignStudentToLessonDrone(book, l, d, id))
PlanNobody(l, d) == IsIn(l, d) /\ Becomes(clearLessonDroneAssignment(book, l, d))
RemoveDrone(d) == Becomes(removeTrainerDrone(book, d))
ApplyPlan(l) == Becomes(applyLessonAssignments(book, l))

Next ==
    \/ \E d \in Drones : \/ ClearStrip(d) \/ AssignNext(d) \/ RemoveDrone(d)
                         \/ \E n \in Names : TypeName(d, n) \/ EditStrip(d, n)
                         \/ \E e \in Drones : Swap(d, e)
    \/ ClearAll \/ AssignEveryone \/ Undo \/ Prepare
    \/ \E row \in book.roster : \/ MarkAway(row) \/ RemoveStudent(row) \/ SetAway(row)
    \/ \E n \in Names : Register(n) \/ \E id \in Ids : CsvRow(id, n)
    \/ \E names \in SUBSET Names \ {{}} : CsvNames(names)
    \/ \E l \in book.plans :
          \/ ApplyPlan(l)
          \/ \E d \in Drones : \/ Attach(l, d) \/ Detach(l, d) \/ PlanNobody(l, d)
                               \/ \E s \in book.roster : PlanStudent(l, d, s.studentId)

Spec == Init /\ [][Next]_vars

(***************************************************************************)
(* Properties.                                                             *)
(***************************************************************************)
\* Every field holds what its type says, and the roll is the roster's names.
LogbookTypeOK ==
    /\ book.roster \subseteq [studentId : Ids, name : Names]
    /\ book.roll \subseteq Names
    /\ book.roster # {} => book.roll = rollFromRoster(book.roster)
    /\ book.students \in [Drones -> {Free} \cup Ids \cup {TypedName(n) : n \in Names}]
    /\ book.absent \subseteq Ids
    /\ book.plans \subseteq PlanIds
    /\ book.lessonDrones \subseteq [lessonId : PlanIds, droneId : Drones]
    /\ book.lessonAssignments \subseteq [lessonId : PlanIds, droneId : Drones, studentId : Ids]
    /\ undoPoint = NoUndo \/ undoPoint \in [Drones -> {Nobody} \cup Names]

\* Two Students share an id only if it is the slug of one of them, whichever of the
\* four ways they came onto the roster by: typed on a strip, registered, carried in
\* a CSV, or promoted. A serial, and an id of a file's own, are one Student's.
Slugged(s) == s.studentId = legacyStudentIdFor(s.name)
StudentIdsDiffer ==
    \A s, t \in book.roster : s.studentId = t.studentId => s = t \/ Slugged(s) \/ Slugged(t)

\* A name leaves the roster only when the Teacher removes it or imports a file, which
\* may bring an id somebody has. What registering writes never takes a name away, even
\* where a row of a file could say the same: no serial is one given out already.
Registers == \E n \in Names : Register(n)
NobodyIsOverwritten ==
    [][\/ \E row \in book.roster : RemoveStudent(row)
       \/ (\E n \in Names, id \in Ids : CsvRow(id, n)) /\ ~Registers
       \/ \E names \in SUBSET Names : CsvNames(names)
       \/ rollFromRoster(book.roster) \subseteq rollFromRoster(book'.roster)]_vars

\* Nothing points at what is gone. A prepared seat is on a Drone of that
\* Lesson and names a Student on the roster; so does a Drone being flown. (The
\* marks of who is away are not among these: removeStudent leaves them.)
NothingDangles ==
    /\ \A row \in book.lessonAssignments :
          /\ RowsOf(book, row.studentId) # {}
          /\ \E seat \in book.lessonDrones : On(seat, row.lessonId, row.droneId)
    /\ \A d \in Drones : book.students[d] \in Ids => RowsOf(book, book.students[d]) # {}

\* In one prepared Lesson a Student has one Drone and a Drone one Student.
OneEachInALesson ==
    \A r, s \in book.lessonAssignments :
        r.lessonId = s.lessonId /\ (r.droneId = s.droneId \/ r.studentId = s.studentId) => r = s

\* A Student comes to fly two Drones only by a plan copied onto the board, or by
\* sharing an id with somebody on the roster, before or after: no other press or
\* import does it, in any order.
Doubled(b) == {id \in Ids : \E d, e \in Drones : d # e /\ b.students[d] = id /\ b.students[e] = id}
Shared(b) == {s.studentId : s \in {r \in b.roster : \E t \in RowsOf(b, r.studentId) : t # r}}
OnlyAPlanDoubles ==
    [][(~\E l \in PlanIds : ApplyPlan(l)) =>
           Doubled(book') \subseteq
               Doubled(book) \cup Shared(migrateRosterForward(book)) \cup Shared(book')]_vars

\* After Undo, whatever was pressed in between: a Drone nobody had is nobody's, and
\* everybody who was flying when it was captured flies exactly one Drone, one of
\* those they had. So whoever had one has it back; whoever a plan had given two
\* gets one of them (assignStudent refuses the other). Only of a Student who
\* shares an id does it say nothing: their strip shows the other one's name.
IdIsOwn(b, name) == \A s \in RowsNamed(b, name) : RowsOf(b, s.studentId) = {s}
GivenBack(b, point) ==
    /\ \A d \in Drones : point[d] = Nobody => studentOf(b, d) = Nobody
    /\ \A n \in Names : IdIsOwn(b, n) /\ (\E d \in Drones : point[d] = n) =>
          \E e \in Drones : point[e] = n /\ \A d \in Drones : studentOf(b, d) = n <=> d = e
UndoGivesBack ==
    [][undoPoint # NoUndo /\ undoPoint' = NoUndo => GivenBack(book', undoPoint)]_vars
=============================================================================
