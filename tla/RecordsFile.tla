----------------------------- MODULE RecordsFile -----------------------------
(***************************************************************************)
(* The tables of records.db (db/schema.sql, opened by records-db.ts) and   *)
(* what writeLesson of records-writer.ts does to them. A row is the        *)
(* table and key that identify it, the rows whose deletion takes it along  *)
(* (on delete cascade), the rows it only refers to, the value a unique     *)
(* index holds for it, and what it says.                                   *)
(***************************************************************************)
EXTENDS Integers, FiniteSets, SequencesExt

NoUnique == <<"none">>
NoMission == 0
NoDrone == 0

Row(table, key, of, uses, unique, says) ==
    [id |-> <<table, key>>, of |-> of, uses |-> uses, unique |-> unique, says |-> says]

(***************************************************************************)
(* SQLite, with foreign_keys = on.                                         *)
(***************************************************************************)
IdsOf(db) == {r.id : r \in db}

Under(db, going) == LET gone == IdsOf(going) IN going \cup {r \in db : r.of \cap gone # {}}

\* These rows of db, and the rows that go when they go: from school down to class_group,
\* lesson, mission, flight and checkpoint_reached.
Below(db, rows) == Under(db, Under(db, Under(db, Under(db, Under(db, rows)))))

Clash(db, row) ==
    {r \in db : r.id = row.id \/ (row.unique # NoUnique /\ r.unique = row.unique)}

\* Every row a row belongs to or refers to is there.
Consistent(db) == LET ids == IdsOf(db) IN \A r \in db : r.of \cup r.uses \subseteq ids

\* insert or replace: what clashes is deleted first, with all that hangs below it.
InsertOrReplace(file, row) ==
    IF ~file.ok THEN file
    ELSE LET rows == (file.rows \ Below(file.rows, Clash(file.rows, row))) \cup {row}
         IN  [rows |-> rows, ok |-> Consistent(rows)]

(***************************************************************************)
(* The rows of one Lesson, in the order they are written.                  *)
(***************************************************************************)
SchoolId == <<"school", "School">>                 \* ANONYMOUS of lesson-records.ts
ClassId(s) == <<"class_group", s.label>>
TeacherId == <<"teacher", "Teacher">>
StudentId(s, student) == <<"student", <<s.label, student>>>>
LessonId(s) == <<"lesson", s.lesson>>
MissionId(s) == <<"mission", s.mission>>

RoomRows(s) ==
    << Row("school", "School", {}, {}, NoUnique, ""),
       Row("class_group", s.label, {SchoolId}, {}, NoUnique, ""),
       Row("teacher", "Teacher", {SchoolId}, {}, NoUnique, "") >>
    \o SetToSeq({Row("drone", d.id, {SchoolId}, {}, <<"label", d.label>>, "") : d \in s.drones})
    \o SetToSeq({Row("student", <<s.label, seat.student>>, {ClassId(s)}, {}, NoUnique, "") :
                    seat \in s.seats})
    \o << Row("lesson", s.lesson, {ClassId(s)}, {TeacherId}, NoUnique, s.ended) >>

TeamRows(s, team) ==
    << Row("team", team.id, {MissionId(s)}, {}, NoUnique, "") >>
    \o SetToSeq({Row("team_member", <<team.id, m>>, {<<"team", team.id>>, StudentId(s, m)},
                     {}, NoUnique, "") : m \in team.members})

PointRows(s) ==
    SetToSeq({Row("checkpoint", s.points[i], {MissionId(s)}, {}, <<"ordinal", s.mission, i>>, "") :
                 i \in DOMAIN s.points})

TeamOf(s, seat) == {team \in s.teams : team.drone = seat.drone}

FlightRows(s, seat) ==
    LET key == <<s.mission, seat.student>>
    IN  IF seat.drone = NoDrone \/ TeamOf(s, seat) = {} THEN <<>>
        ELSE << Row("flight", key, {MissionId(s)},
                    {<<"team", (CHOOSE t \in TeamOf(s, seat) : TRUE).id>>, <<"drone", seat.drone>>},
                    NoUnique, "") >>
             \o SetToSeq({Row("checkpoint_reached", <<key, p>>,
                              {<<"flight", key>>, <<"checkpoint", p>>}, {}, NoUnique, "") :
                             p \in seat.reached})

MissionRows(s) ==
    IF s.mission = NoMission THEN <<>>
    ELSE << Row("scenario", "Scenario", {}, {}, NoUnique, ""),
            Row("mission", s.mission, {LessonId(s)}, {<<"scenario", "Scenario">>}, NoUnique, "") >>
         \o FlattenSeq([i \in 1..Cardinality(s.teams) |-> TeamRows(s, SetToSeq(s.teams)[i])])
         \o PointRows(s)
         \o FlattenSeq([i \in 1..Cardinality(s.seats) |-> FlightRows(s, SetToSeq(s.seats)[i])])

LessonRows(s) == RoomRows(s) \o MissionRows(s)

(***************************************************************************)
(* One transaction: all of the Lesson, or none of it.                      *)
(***************************************************************************)
WriteAll(db, rows) ==
    LET file[n \in 0..Len(rows)] ==
          IF n = 0 THEN [rows |-> db, ok |-> TRUE] ELSE InsertOrReplace(file[n - 1], rows[n])
    IN  file[Len(rows)]

Written(db, s) == WriteAll(db, LessonRows(s))

\* Mutant: what was written before the failure stays.
writeWithoutRollback(db, s) == Written(db, s).rows

writeLesson(db, s) == LET written == Written(db, s) IN IF written.ok THEN written.rows ELSE db

\* What the file says of a Lesson: its row, and every row that would go with it.
LessonIn(db, id) == Below(db, {r \in db : r.id = <<"lesson", id>>})
=============================================================================
