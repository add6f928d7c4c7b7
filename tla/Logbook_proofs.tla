--------------------------- MODULE Logbook_proofs ---------------------------
(***************************************************************************)
(* What holds of the class list for any number of names, Drones, serials   *)
(* and plans, whatever slugs the names leave.  A book is sound when its    *)
(* fields have their types, the roll is the roster's names, two Students   *)
(* share no id but the slug of one of them, and nothing points at what is  *)
(* gone.  Every operation takes a sound book to a sound book; the two that *)
(* walk over the board do so because each of their steps does.  A sound    *)
(* book in which a typed name flies one Drone (TypedApart) then changes,   *)
(* step by step, only as the Teacher may rely on.                          *)
(*                                                                         *)
(* And of a Lesson's record (LessonRecords, the other half of the          *)
(* Logbook), for any rooms, saves and upsets: the file's rows hang from    *)
(* one school, which the first row of every Lesson replaces, so what a     *)
(* snapshot leaves does not depend on what was there; and two pages of the *)
(* Logbook of one time are one page.                                       *)
(***************************************************************************)
EXTENDS Logbook, LessonRecords, FiniteSetTheorems, SequenceTheorems, TLAPS, WellFoundedInduction

RosterRow == [studentId : Ids, name : Names]
Value == {Free} \cup Ids \cup {TypedName(n) : n \in Names}
Book == [roster : SUBSET RosterRow, roll : SUBSET Names, students : [Drones -> Value],
         absent : SUBSET Ids, plans : SUBSET PlanIds,
         lessonDrones : SUBSET [lessonId : PlanIds, droneId : Drones],
         lessonAssignments : SUBSET [lessonId : PlanIds, droneId : Drones, studentId : Ids]]

RollIsRoster(b) == b.roster # {} => b.roll = rollFromRoster(b.roster)
IdsDiffer(b) == \A s, t \in b.roster : s.studentId = t.studentId => s = t \/ Slugged(s) \/ Slugged(t)
Known(b, id) == \E s \in b.roster : s.studentId = id
FlyersKnown(b) == \A d \in Drones : b.students[d] \in Ids => Known(b, b.students[d])
PlansKnown(b) ==
    \A row \in b.lessonAssignments :
        /\ Known(b, row.studentId)
        /\ \E seat \in b.lessonDrones : On(seat, row.lessonId, row.droneId)
OneEach(b) ==
    \A r, s \in b.lessonAssignments :
        r.lessonId = s.lessonId /\ (r.droneId = s.droneId \/ r.studentId = s.studentId) => r = s

Sound(b) ==
    /\ b \in Book
    /\ RollIsRoster(b) /\ IdsDiffer(b)
    /\ FlyersKnown(b) /\ PlansKnown(b) /\ OneEach(b)

Points == [Drones -> {Nobody} \cup Names]

(***************************************************************************)
(* Numbers.                                                                *)
(***************************************************************************)
\* A set of numbers has a least one.
LEMMA LeastOf ==
    ASSUME NEW T \in SUBSET Nat, T # {}
    PROVE  \E n \in T : \A m \in T : n <= m
<1> DEFINE R == {p \in Nat \X Nat : p[1] < p[2]}
<1>1. OpToRel(<, Nat) = R
  BY DEF OpToRel
<1>2. IsWellFoundedOn(R, Nat)
  BY <1>1, NatLessThanWellFounded
<1>3. \E n \in T : \A m \in T : ~(<<m, n>> \in R)
  <2> HIDE DEF R
  <2> QED BY <1>2, WFMin
<1>4. ASSUME NEW n \in T, NEW m \in T, ~(<<m, n>> \in R)
      PROVE  n <= m
  BY <1>4
<1>5. QED BY <1>3, <1>4

\* The least number taken is one of them.
LEMMA MinOf ==
    ASSUME NEW T \in SUBSET Nat, T # {}
    PROVE  Min(T) \in T
BY LeastOf DEF Min

\* The greatest of numbers up to a bound is one of them.
LEMMA MaxOf ==
    ASSUME NEW M \in Nat, NEW T \in SUBSET (0..M), T # {}
    PROVE  Max(T) \in T /\ \A n \in T : Max(T) >= n
<1> DEFINE Above == {m \in Nat : \A n \in T : n <= m}
<1>1. M \in Above
  OBVIOUS
<1>2. PICK m \in Above : \A k \in Above : m <= k
  BY <1>1, LeastOf
<1>3. m \in T
  <2>1. SUFFICES ASSUME m \notin T PROVE FALSE
    OBVIOUS
  <2>2. PICK n \in T : n \in Nat /\ n < m
    <3>1. PICK n \in T : TRUE
      OBVIOUS
    <3>2. n \in Nat /\ n <= m /\ n # m /\ m \in Nat
      BY <2>1, <1>2
    <3>3. QED BY <3>2
  <2>3. m - 1 \in Above
    <3>1. m - 1 \in Nat
      BY <2>2, <1>2
    <3>2. \A k \in T : k \in Nat /\ k <= m /\ k # m
      BY <2>1, <1>2
    <3>3. \A k \in T : k <= m - 1
      BY <3>2, <1>2
    <3>4. QED BY <3>1, <3>3
  <2>4. QED BY <2>3, <1>2
<1>4. \A n \in T : m >= n
  BY <1>2
<1>5. QED BY <1>3, <1>4 DEF Max

Walks(B, N, G, b) ==
    {f \in [0..N -> B] : f[0] = b /\ \A n \in 1..N : f[n] = G[n][f[n - 1]]}

\* A walk of N steps over a set that no step leaves exists ...
LEMMA WalkExists ==
    ASSUME NEW B, NEW N \in Nat, NEW G \in [1..N -> [B -> B]], NEW b \in B
    PROVE  Walks(B, N, G, b) # {}
<1> DEFINE Walk(f, k) == /\ f \in [0..k -> B] /\ f[0] = b
                         /\ \A n \in 1..k : f[n] = G[n][f[n - 1]]
           T == {k \in Nat : k <= N /\ ~\E f : Walk(f, k)}
<1>1. SUFFICES ASSUME T # {} PROVE FALSE
  <2>1. ASSUME NEW f, Walk(f, N)
        PROVE  f \in Walks(B, N, G, b)
    BY <2>1 DEF Walks
  <2> HIDE DEF Walk
  <2>2. ASSUME N \notin T PROVE \E f : Walk(f, N)
    BY <2>2
  <2>3. T = {} => N \notin T
    OBVIOUS
  <2> HIDE DEF T
  <2>4. QED BY <2>1, <2>2, <2>3
<1>2. PICK k \in T : \A m \in T : k <= m
  <2>1. T \in SUBSET Nat
    OBVIOUS
  <2> HIDE DEF T
  <2>2. QED BY <1>1, <2>1, LeastOf
<1>3. k # 0
  <2> DEFINE still == [n \in 0..0 |-> b]
  <2>1. Walk(still, 0)
    <3>1. still \in [0..0 -> B] /\ still[0] = b
      OBVIOUS
    <3>2. 1..0 = {}
      OBVIOUS
    <3> HIDE DEF still
    <3>3. QED BY <3>1, <3>2
  <2>2. QED BY <2>1, <1>2
<1>4. PICK f : Walk(f, k - 1)
  <2> HIDE DEF Walk
  <2>1. k - 1 \in Nat /\ k - 1 <= N /\ k - 1 \notin T
    BY <1>2, <1>3
  <2>2. QED BY <2>1
<1> DEFINE g == [n \in 0..k |-> IF n = k THEN G[k][f[k - 1]] ELSE f[n]]
<1>5. f[k - 1] \in B /\ k \in 1..N
  BY <1>2, <1>3, <1>4
<1>6. g \in [0..k -> B] /\ g[0] = b
  BY <1>3, <1>4, <1>5
<1>7. \A n \in 1..k : g[n] = G[n][g[n - 1]]
  BY <1>3, <1>4, <1>5
<1>8. Walk(g, k)
  <2> HIDE DEF g
  <2> QED BY <1>6, <1>7
<1>9. QED
  <2> HIDE DEF Walk, g
  <2> QED BY <1>2, <1>8

\* ... and is each time where its steps take it ...
LEMMA WalkKeeps ==
    ASSUME NEW N \in Nat, NEW f, NEW P, f[0] \in P[0],
           \A n \in 1..N : f[n - 1] \in P[n - 1] => f[n] \in P[n]
    PROVE  \A n \in 0..N : f[n] \in P[n]
<1> DEFINE T == {n \in 0..N : f[n] \notin P[n]}
<1>1. SUFFICES ASSUME T # {} PROVE FALSE
  OBVIOUS
<1>2. PICK n \in T : \A m \in T : n <= m
  <2>1. T \in SUBSET Nat
    OBVIOUS
  <2> HIDE DEF T
  <2>2. QED BY <1>1, <2>1, LeastOf
<1>3. n \in 1..N /\ n - 1 \in 0..N
  BY <1>2
<1>4. n - 1 \notin T
  BY <1>2, <1>3
<1>5. f[n - 1] \in P[n - 1]
  BY <1>3, <1>4
<1>6. QED BY <1>2, <1>3, <1>5

\* ... so where no step leaves.
LEMMA WalkStays ==
    ASSUME NEW B, NEW N \in Nat, NEW f, f[0] \in B,
           \A n \in 1..N : f[n - 1] \in B => f[n] \in B
    PROVE  \A n \in 0..N : f[n] \in B
<1> DEFINE P == [n \in 0..N |-> B]
<1>1. f[0] \in P[0] /\ \A n \in 1..N : f[n - 1] \in P[n - 1] => f[n] \in P[n]
  OBVIOUS
<1>2. \A n \in 0..N : P[n] = B
  OBVIOUS
<1> HIDE DEF P
<1>3. QED BY <1>1, <1>2, WalkKeeps

(***************************************************************************)
(* Ids, rows and names.                                                    *)
(***************************************************************************)
\* The three kinds of id, and the value of a record with no id, are different.
LEMMA KindsDiffer ==
    /\ \A k, n : Serial(k) # legacyStudentIdFor(n) /\ CsvId(k) # legacyStudentIdFor(n)
    /\ \A n \in Names : legacyStudentIdFor(n) \in Ids /\ legacyStudentIdFor(n) # Free
    /\ \A n : TypedName(n) \notin Ids /\ TypedName(n)[1] = "name" /\ TypedName(n)[2] = n
    /\ \A id \in Ids : id[1] # "name" /\ id # Free
    /\ Free[1] # "name" /\ Free \notin Ids
BY DEF Serial, CsvId, legacyStudentIdFor, TypedName, Free, Ids

\* The first of some rows is one of them.
LEMMA FirstOf ==
    ASSUME NEW rows \in SUBSET RosterRow, rows # {}
    PROVE  First(rows) \in rows
<1> DEFINE T == {r.name : r \in rows}
<1>1. T \in SUBSET Nat /\ T # {}
  BY NamesAssumption DEF RosterRow
<1> HIDE DEF T
<1>2. PICK n \in T : \A m \in T : n <= m
  BY <1>1, LeastOf
<1>3. PICK r \in rows : r.name = n
  BY <1>2 DEF T
<1>4. \A s \in rows : r.name <= s.name
  BY <1>2, <1>3 DEF T
<1>5. QED BY <1>4 DEF First

LEMMA NamedRow ==
    ASSUME NEW b, Sound(b), NEW n, RowsNamed(b, n) # {}
    PROVE  First(RowsNamed(b, n)) \in b.roster /\ First(RowsNamed(b, n)).name = n
<1>1. RowsNamed(b, n) \in SUBSET RosterRow
  BY DEF Sound, Book, RowsNamed
<1>2. First(RowsNamed(b, n)) \in RowsNamed(b, n)
  BY <1>1, FirstOf DEF RowsNamed
<1>3. QED BY <1>2 DEF RowsNamed

\* Who a Drone is said to be flown by is a name, or nobody.
LEMMA StudentIsNamed ==
    ASSUME NEW b, Sound(b), NEW d \in Drones
    PROVE  /\ studentOf(b, d) \in Names \cup {Nobody}
           /\ b.roster = {} /\ b.students[d] # Free => studentOf(b, d) \in Names
<1>1. b.students[d] \in Value
  BY DEF Sound, Book
<1>2. CASE RowsOf(b, b.students[d]) # {}
  <2>1. RowsOf(b, b.students[d]) \in SUBSET RosterRow
    BY DEF Sound, Book, RowsOf
  <2>3. First(RowsOf(b, b.students[d])) \in RowsOf(b, b.students[d])
    BY <1>2, <2>1, FirstOf
  <2>4. First(RowsOf(b, b.students[d])).name \in Names
    BY <2>1, <2>3 DEF RosterRow
  <2>5. b.roster # {}
    BY <1>2 DEF RowsOf
  <2>6. studentOf(b, d) = First(RowsOf(b, b.students[d])).name
    <3>1. b.students[d] \in Ids
      BY <1>2, <2>1 DEF RosterRow, RowsOf
    <3>2. b.students[d][1] # "name"
      BY <3>1, KindsDiffer
    <3>3. QED BY <1>2, <3>2 DEF studentOf, displayNameForAssignment
  <2>7. QED BY <2>4, <2>5, <2>6
<1>3. CASE RowsOf(b, b.students[d]) = {}
  <2>1. b.students[d] \in {Free} \cup {TypedName(n) : n \in Names}
    BY <1>1, <1>3 DEF Value, Sound, FlyersKnown, Known, RowsOf
  <2>2. QED BY <1>3, <2>1, KindsDiffer DEF studentOf, displayNameForAssignment
<1>4. QED BY <1>2, <1>3

(***************************************************************************)
(* What may be changed in a sound book.                                    *)
(***************************************************************************)
LEMMA StudentsSound ==
    ASSUME NEW b, Sound(b), NEW f \in [Drones -> Value],
           \A d \in Drones : f[d] \in Ids => Known(b, f[d])
    PROVE  Sound([b EXCEPT !.students = f])
<1> DEFINE c == [b EXCEPT !.students = f]
<1>1. c \in Book
  BY DEF Sound, Book
<1>2. /\ c.roster = b.roster /\ c.roll = b.roll /\ c.students = f
      /\ c.lessonAssignments = b.lessonAssignments /\ c.lessonDrones = b.lessonDrones
  BY DEF Sound, Book
<1> HIDE DEF c
<1>3. RollIsRoster(c) /\ IdsDiffer(c) /\ FlyersKnown(c)
  BY <1>2 DEF Sound, RollIsRoster, IdsDiffer, FlyersKnown, Known
<1>4. PlansKnown(c) /\ OneEach(c)
  BY <1>2 DEF Sound, PlansKnown, OneEach, Known
<1>5. Sound(c)
  BY <1>1, <1>3, <1>4 DEF Sound
<1>6. QED BY <1>5 DEF c

LEMMA RosterSound ==
    ASSUME NEW b, Sound(b), NEW roster \in SUBSET RosterRow, NEW f \in [Drones -> Value],
           NEW rows \in SUBSET b.lessonAssignments,
           \A s, t \in roster : s.studentId = t.studentId => s = t \/ Slugged(s) \/ Slugged(t),
           \A d \in Drones : f[d] \in Ids => \E s \in roster : s.studentId = f[d],
           \A row \in rows : \E s \in roster : s.studentId = row.studentId
    PROVE  Sound([b EXCEPT !.roster = roster, !.roll = rollFromRoster(roster),
                           !.students = f, !.lessonAssignments = rows])
<1> DEFINE c == [b EXCEPT !.roster = roster, !.roll = rollFromRoster(roster),
                          !.students = f, !.lessonAssignments = rows]
<1>1. rollFromRoster(roster) \in SUBSET Names
  BY DEF rollFromRoster, RosterRow
<1>2. c \in Book
  BY <1>1 DEF Sound, Book
<1>3. /\ c.roster = roster /\ c.roll = rollFromRoster(roster) /\ c.students = f
      /\ c.lessonAssignments = rows /\ c.lessonDrones = b.lessonDrones
  BY DEF Sound, Book
<1> HIDE DEF c
<1>4. RollIsRoster(c) /\ IdsDiffer(c) /\ FlyersKnown(c)
  BY <1>3 DEF RollIsRoster, IdsDiffer, FlyersKnown, Known
<1>5. PlansKnown(c) /\ OneEach(c)
  BY <1>3 DEF Sound, PlansKnown, OneEach, Known
<1>6. Sound(c)
  BY <1>2, <1>4, <1>5 DEF Sound
<1>7. QED BY <1>6 DEF c

LEMMA PlansSound ==
    ASSUME NEW b, Sound(b),
           NEW seats \in SUBSET [lessonId : PlanIds, droneId : Drones],
           NEW rows \in SUBSET [lessonId : PlanIds, droneId : Drones, studentId : Ids],
           \A row \in rows : /\ Known(b, row.studentId)
                             /\ \E seat \in seats : On(seat, row.lessonId, row.droneId),
           \A r, s \in rows :
               r.lessonId = s.lessonId /\ (r.droneId = s.droneId \/ r.studentId = s.studentId) => r = s
    PROVE  Sound([b EXCEPT !.lessonDrones = seats, !.lessonAssignments = rows])
<1> DEFINE c == [b EXCEPT !.lessonDrones = seats, !.lessonAssignments = rows]
<1>1. c \in Book
  BY DEF Sound, Book
<1>2. /\ c.roster = b.roster /\ c.roll = b.roll /\ c.students = b.students
      /\ c.lessonAssignments = rows /\ c.lessonDrones = seats
  BY DEF Sound, Book
<1> HIDE DEF c
<1>3. RollIsRoster(c) /\ IdsDiffer(c) /\ FlyersKnown(c)
  BY <1>2 DEF Sound, RollIsRoster, IdsDiffer, FlyersKnown, Known
<1>4. PlansKnown(c) /\ OneEach(c)
  BY <1>2 DEF PlansKnown, OneEach, Known
<1>5. Sound(c)
  BY <1>1, <1>3, <1>4 DEF Sound
<1>6. QED BY <1>5 DEF c

(***************************************************************************)
(* Each operation.                                                         *)
(***************************************************************************)
\* A record from before the roster is promoted to one with ids, and nothing
\* else of the book is touched.
LEMMA Migrated ==
    ASSUME NEW b, Sound(b)
    PROVE  /\ Sound(migrateRosterForward(b))
           /\ migrateRosterForward(b).roll = rollFromRoster(migrateRosterForward(b).roster)
           /\ b.roll \subseteq migrateRosterForward(b).roll
           /\ \A s \in b.roster : s \in migrateRosterForward(b).roster
           /\ \A row \in b.roster : migrateRosterForward(b).roster = b.roster
           /\ migrateRosterForward(b).lessonDrones = b.lessonDrones
           /\ migrateRosterForward(b).lessonAssignments = b.lessonAssignments
           /\ migrateRosterForward(b).plans = b.plans
           /\ migrateRosterForward(b).absent = b.absent
<1> DEFINE m == migrateRosterForward(b)
<1>1. CASE b.roster # {}
  <2>1. m = [b EXCEPT !.roll = rollFromRoster(b.roster)]
    BY <1>1 DEF migrateRosterForward
  <2>2. m = b /\ b.roll = rollFromRoster(b.roster)
    BY <1>1, <2>1 DEF Sound, RollIsRoster, Book
  <2>3. QED BY <1>1, <2>2
<1>2. CASE b.roster = {}
  <2> DEFINE names == b.roll \cup {studentOf(b, d) : d \in {e \in Drones : b.students[e] # Free}}
             roster == {[studentId |-> legacyStudentIdFor(n), name |-> n] : n \in names}
             f == [d \in Drones |-> IF b.students[d] = Free THEN Free
                                    ELSE legacyStudentIdFor(studentOf(b, d))]
  <2>1. m = [b EXCEPT !.roster = roster, !.roll = rollFromRoster(roster), !.students = f]
    BY <1>2 DEF migrateRosterForward
  <2>2. names \subseteq Names /\ \A d \in Drones : b.students[d] # Free => studentOf(b, d) \in names
    BY <1>2, StudentIsNamed DEF Sound, Book
  <2>3. roster \in SUBSET RosterRow
    BY <2>2, KindsDiffer DEF RosterRow
  <2>4. f \in [Drones -> Value]
    BY <2>2, KindsDiffer DEF Value
  <2>5. \A s \in roster : Slugged(s)
    BY DEF Slugged
  <2>a. \A n \in names : \E s \in roster : s.studentId = legacyStudentIdFor(n) /\ s.name = n
    <3>1. SUFFICES ASSUME NEW n \in names
                   PROVE  \E s \in roster : s.studentId = legacyStudentIdFor(n) /\ s.name = n
      OBVIOUS
    <3>2. WITNESS [studentId |-> legacyStudentIdFor(n), name |-> n] \in roster
    <3>3. QED OBVIOUS
  <2>7. \A d \in Drones : f[d] \in Ids => \E s \in roster : s.studentId = f[d]
    <3> HIDE DEF roster, names
    <3>1. QED BY <2>2, <2>a, KindsDiffer
  <2>8. b.lessonAssignments = {}
    BY <1>2 DEF Sound, PlansKnown, Known
  <2>9. names \subseteq rollFromRoster(roster)
    <3> HIDE DEF roster, names
    <3>1. QED BY <2>a DEF rollFromRoster
  <2> HIDE DEF roster, f, names
  <2>10. Sound([b EXCEPT !.roster = roster, !.roll = rollFromRoster(roster),
                         !.students = f, !.lessonAssignments = {}])
    BY <2>3, <2>4, <2>5, <2>7, RosterSound
  <2>11. m = [b EXCEPT !.roster = roster, !.roll = rollFromRoster(roster),
                       !.students = f, !.lessonAssignments = {}]
    BY <2>1, <2>8 DEF Sound, Book
  <2>12. b.roll \subseteq rollFromRoster(roster)
    BY <2>9 DEF names
  <2>13. /\ m.roster = roster /\ m.roll = rollFromRoster(roster)
         /\ m.lessonDrones = b.lessonDrones /\ m.plans = b.plans /\ m.absent = b.absent
         /\ m.lessonAssignments = {}
    BY <2>11 DEF Sound, Book
  <2>14. QED BY <1>2, <2>8, <2>10, <2>11, <2>12, <2>13
<1>3. QED BY <1>1, <1>2

\* One Student more, under the slug of the name.
LEMMA RowAdded ==
    ASSUME NEW b, Sound(b), NEW row \in RosterRow, row \in b.roster \/ Slugged(row),
           NEW f \in [Drones -> Value],
           \A d \in Drones : f[d] \in Ids => Known(b, f[d]) \/ f[d] = row.studentId
    PROVE  Sound([b EXCEPT !.students = f, !.roster = b.roster \cup {row},
                           !.roll = rollFromRoster(b.roster \cup {row})])
<1> DEFINE roster == b.roster \cup {row}
<1>1. roster \in SUBSET RosterRow
  BY DEF Sound, Book
<1>2. \A s, t \in roster : s.studentId = t.studentId => s = t \/ Slugged(s) \/ Slugged(t)
  BY DEF Sound, IdsDiffer
<1>4. \A d \in Drones : f[d] \in Ids => \E s \in roster : s.studentId = f[d]
  BY DEF Known
<1>5. \A r \in b.lessonAssignments : \E s \in roster : s.studentId = r.studentId
  BY DEF Sound, PlansKnown, Known
<1> HIDE DEF roster
<1>6. Sound([b EXCEPT !.roster = roster, !.roll = rollFromRoster(roster),
                      !.students = f, !.lessonAssignments = b.lessonAssignments])
  BY <1>1, <1>2, <1>4, <1>5, RosterSound
<1>7. [b EXCEPT !.roster = roster, !.roll = rollFromRoster(roster),
                !.students = f, !.lessonAssignments = b.lessonAssignments]
      = [b EXCEPT !.students = f, !.roster = roster, !.roll = rollFromRoster(roster)]
  BY DEF Sound, Book
<1>8. QED BY <1>6, <1>7 DEF roster

LEMMA Assigned ==
    ASSUME NEW b, Sound(b), NEW d \in Drones, NEW n \in Names
    PROVE  Sound(assignStudent(b, d, n))
<1> DEFINE m == migrateRosterForward(b)
           known == RowsNamed(m, n)
           row == IF known # {} THEN First(known)
                  ELSE [studentId |-> legacyStudentIdFor(n), name |-> n]
           f == [m.students EXCEPT ![d] = row.studentId]
           c == [m EXCEPT !.students = f, !.roster = m.roster \cup {row},
                          !.roll = rollFromRoster(m.roster \cup {row})]
<1>1. Sound(m)
  BY Migrated
<1>2. row \in RosterRow /\ row.name = n
  <2>1. CASE known # {}
    BY <1>1, <2>1, NamedRow DEF Sound, Book
  <2>2. CASE known = {}
    BY <2>2, KindsDiffer DEF RosterRow
  <2>3. QED BY <2>1, <2>2
<1>3. row \in m.roster \/ Slugged(row)
  BY <1>1, NamedRow DEF Slugged
<1> HIDE DEF row, m
<1>6. f \in [Drones -> Value] /\ \A e \in Drones : f[e] \in Ids => Known(m, f[e]) \/ f[e] = row.studentId
  BY <1>1, <1>2 DEF Sound, Book, FlyersKnown, RosterRow, Value
<1> HIDE DEF f
<1>7. Sound(c)
  BY <1>1, <1>2, <1>3, <1>6, RowAdded
<1>8. assignStudent(b, d, n) = b \/ assignStudent(b, d, n) = c
  <2>1. [m EXCEPT !.students[d] = row.studentId, !.roster = m.roster \cup {row},
                  !.roll = rollFromRoster(m.roster \cup {row})] = c
    BY <1>1 DEF Sound, Book, f
  <2>2. QED BY <2>1 DEF assignStudent, row, m
<1>9. QED BY <1>7, <1>8

LEMMA SavedRollSound ==
    ASSUME NEW b, Sound(b), NEW wanted \in SUBSET Names
    PROVE  Sound(saveRoll(b, wanted))
<1> DEFINE m == migrateRosterForward(b)
           fresh == {[studentId |-> legacyStudentIdFor(n), name |-> n] :
                         n \in wanted \ rollFromRoster(m.roster)}
           roster == {s \in m.roster : s.name \in wanted} \cup fresh
           kept == {s.studentId : s \in roster}
           f == [d \in Drones |-> IF m.students[d] \in kept THEN m.students[d] ELSE Free]
           rows == {row \in m.lessonAssignments : row.studentId \in kept}
<1>1. Sound(m)
  BY Migrated
<1>2. \A s \in fresh : /\ s.name \in wanted /\ s.studentId = legacyStudentIdFor(s.name)
                       /\ s \in RosterRow
                       /\ \A t \in m.roster : t.name # s.name
  BY KindsDiffer DEF RosterRow, rollFromRoster
<1>3. \A s \in m.roster : s \in RosterRow
  BY <1>1 DEF Sound, Book
<1> HIDE DEF m, fresh
<1>4. roster \in SUBSET RosterRow
  BY <1>2, <1>3
<1>6. \A s, t \in roster : s.studentId = t.studentId => s = t \/ Slugged(s) \/ Slugged(t)
  BY <1>1, <1>2 DEF Sound, IdsDiffer, Slugged
<1> HIDE DEF roster
<1>7. f \in [Drones -> Value] /\ \A d \in Drones : f[d] \in Ids => \E s \in roster : s.studentId = f[d]
  <2>1. m.students \in [Drones -> Value]
    BY <1>1 DEF Sound, Book
  <2>2. QED BY <2>1, KindsDiffer DEF Value
<1>8. rows \in SUBSET m.lessonAssignments /\ \A row \in rows : \E s \in roster : s.studentId = row.studentId
  OBVIOUS
<1> HIDE DEF f, rows
<1>9. Sound([m EXCEPT !.roster = roster, !.roll = rollFromRoster(roster),
                      !.students = f, !.lessonAssignments = rows])
  BY <1>1, <1>4, <1>6, <1>7, <1>8, RosterSound
<1>10. saveRoll(b, wanted) = [m EXCEPT !.roster = roster, !.roll = rollFromRoster(roster),
                                       !.students = f, !.lessonAssignments = rows]
  BY <1>1 DEF saveRoll, m, fresh, roster, f, rows, Sound, Book
<1>11. QED BY <1>9, <1>10

LEMMA Remembered ==
    ASSUME NEW b, Sound(b), NEW n \in Names
    PROVE  Sound(rememberStudent(b, n))
<1>1. migrateRosterForward(b).roll \cup {n} \in SUBSET Names
  BY Migrated DEF Sound, Book
<1>2. Sound(saveRoll(b, migrateRosterForward(b).roll \cup {n}))
  BY <1>1, SavedRollSound
<1>3. QED BY <1>2 DEF rememberStudent

LEMMA NextAssigned ==
    ASSUME NEW b, Sound(b), NEW d \in Drones
    PROVE  Sound(assignNextRosterName(b, d))
<1> DEFINE m == migrateRosterForward(b)
           waiting == unassignedRosterNames(m)
<1>1. Sound(m)
  BY Migrated
<1>2. waiting \in SUBSET Names
  BY <1>1 DEF unassignedRosterNames, rollFromRoster, Sound, Book, RosterRow
<1>3. CASE waiting = {} \/ studentOf(m, d) # Nobody
  BY <1>3 DEF assignNextRosterName
<1>4. CASE waiting # {} /\ studentOf(m, d) = Nobody
  <2>1. Min(waiting) \in Names
    BY <1>2, <1>4, NamesAssumption, MinOf
  <2>2. Sound(rememberStudent(assignStudent(b, d, Min(waiting)), Min(waiting)))
    BY <2>1, Assigned, Remembered
  <2>3. QED BY <1>4, <2>2 DEF assignNextRosterName
<1>5. QED BY <1>3, <1>4

LEMMA Upserted ==
    ASSUME NEW b, Sound(b), NEW id \in Ids, NEW name \in Names
    PROVE  Sound(upsertStudent(b, id, name))
<1> DEFINE m == migrateRosterForward(b)
           row == [studentId |-> id, name |-> name]
           roster == {s \in m.roster : s.studentId # id} \cup {row}
<1>1. Sound(m)
  BY Migrated
<1>2. row \in RosterRow /\ row.studentId = id
  BY DEF RosterRow
<1>3. roster \in SUBSET RosterRow
  BY <1>1, <1>2 DEF Sound, Book
<1>4. \A s, t \in roster : s.studentId = t.studentId => s = t \/ Slugged(s) \/ Slugged(t)
  BY <1>1 DEF Sound, IdsDiffer
<1>6. \A i : Known(m, i) => \E s \in roster : s.studentId = i
  BY <1>2 DEF Known
<1> HIDE DEF m, row, roster
<1>7. m.students \in [Drones -> Value] /\ \A d \in Drones : m.students[d] \in Ids => Known(m, m.students[d])
  BY <1>1 DEF Sound, Book, FlyersKnown
<1>8. \A r \in m.lessonAssignments : Known(m, r.studentId)
  BY <1>1 DEF Sound, PlansKnown
<1>9. Sound([m EXCEPT !.roster = roster, !.roll = rollFromRoster(roster),
                      !.students = m.students, !.lessonAssignments = m.lessonAssignments])
  BY <1>1, <1>3, <1>4, <1>6, <1>7, <1>8, RosterSound
<1>10. upsertStudent(b, id, name) =
           [m EXCEPT !.roster = roster, !.roll = rollFromRoster(roster),
                     !.students = m.students, !.lessonAssignments = m.lessonAssignments]
  BY <1>1 DEF upsertStudent, m, row, roster, Sound, Book
<1>11. QED BY <1>9, <1>10

LEMMA Removed ==
    ASSUME NEW b, Sound(b), NEW id
    PROVE  Sound(removeStudent(b, id))
<1> DEFINE m == migrateRosterForward(b)
           roster == {s \in m.roster : s.studentId # id}
           f == [d \in Drones |-> IF m.students[d] = id THEN Free ELSE m.students[d]]
           rows == {row \in m.lessonAssignments : row.studentId # id}
<1>1. Sound(m)
  BY Migrated
<1>2. roster \in SUBSET RosterRow
  BY <1>1 DEF Sound, Book
<1>3. \A s, t \in roster : s.studentId = t.studentId => s = t \/ Slugged(s) \/ Slugged(t)
  BY <1>1 DEF Sound, IdsDiffer
<1>5. \A i : i # id /\ Known(m, i) => \E s \in roster : s.studentId = i
  BY DEF Known
<1> HIDE DEF m, roster
<1>6. f \in [Drones -> Value] /\ \A d \in Drones : f[d] \in Ids => \E s \in roster : s.studentId = f[d]
  BY <1>1, <1>5, KindsDiffer DEF Sound, Book, FlyersKnown, Value
<1>7. rows \in SUBSET m.lessonAssignments /\ \A row \in rows : \E s \in roster : s.studentId = row.studentId
  BY <1>1, <1>5 DEF Sound, PlansKnown
<1> HIDE DEF f, rows
<1>8. Sound([m EXCEPT !.roster = roster, !.roll = rollFromRoster(roster),
                      !.students = f, !.lessonAssignments = rows])
  BY <1>1, <1>2, <1>3, <1>6, <1>7, RosterSound
<1>9. removeStudent(b, id) = [m EXCEPT !.roster = roster, !.roll = rollFromRoster(roster),
                                       !.students = f, !.lessonAssignments = rows]
  BY <1>1 DEF removeStudent, m, roster, f, rows, Sound, Book
<1>10. QED BY <1>8, <1>9

\* A Drone handed back, all of them, or two exchanged.
LEMMA ClearedOne ==
    ASSUME NEW b, Sound(b), NEW d \in Drones
    PROVE  Sound(Cleared(b, d))
<1> DEFINE m == migrateRosterForward(b)
           f == [m.students EXCEPT ![d] = Free]
<1>1. Sound(m)
  BY Migrated
<1> HIDE DEF m
<1>2. f \in [Drones -> Value] /\ \A e \in Drones : f[e] \in Ids => Known(m, f[e])
  BY <1>1, KindsDiffer DEF Sound, Book, FlyersKnown, Value
<1> HIDE DEF f
<1>3. Sound([m EXCEPT !.students = f])
  BY <1>1, <1>2, StudentsSound
<1>4. Cleared(b, d) = [m EXCEPT !.students = f]
  BY <1>1 DEF Cleared, m, f, Sound, Book
<1>5. QED BY <1>3, <1>4

LEMMA ClearedAll ==
    ASSUME NEW b, Sound(b)
    PROVE  Sound(clearStudents(b))
<1> DEFINE f == [d \in Drones |-> Free]
<1>1. Sound(migrateRosterForward(b))
  BY Migrated
<1>2. f \in [Drones -> Value] /\ \A d \in Drones : f[d] \notin Ids
  BY KindsDiffer DEF Value
<1> HIDE DEF f
<1>3. Sound([migrateRosterForward(b) EXCEPT !.students = f])
  BY <1>1, <1>2, StudentsSound
<1>4. QED BY <1>3 DEF clearStudents, f

LEMMA Swapped ==
    ASSUME NEW b, Sound(b), NEW d \in Drones, NEW e \in Drones
    PROVE  Sound(swapStudentAssignments(b, d, e))
<1> DEFINE m == migrateRosterForward(b)
           f == [m.students EXCEPT ![d] = m.students[e], ![e] = m.students[d]]
<1>1. Sound(m)
  BY Migrated
<1> HIDE DEF m
<1>2. f \in [Drones -> Value] /\ \A k \in Drones : f[k] \in Ids => Known(m, f[k])
  BY <1>1 DEF Sound, Book, FlyersKnown
<1> HIDE DEF f
<1>3. Sound([m EXCEPT !.students = f])
  BY <1>1, <1>2, StudentsSound
<1>4. [m EXCEPT !.students[d] = m.students[e], !.students[e] = m.students[d]]
      = [m EXCEPT !.students = f]
  BY <1>1 DEF f, Sound, Book
<1>5. QED BY <1>3, <1>4 DEF swapStudentAssignments, m

\* The marks and the numbers of the plans are nobody's but their own.
LEMMA MarksSound ==
    ASSUME NEW b, Sound(b), NEW away \in SUBSET Ids, NEW plans \in SUBSET PlanIds
    PROVE  Sound([b EXCEPT !.absent = away]) /\ Sound([b EXCEPT !.plans = plans])
<1>1. ASSUME NEW c \in Book, c.roster = b.roster, c.roll = b.roll, c.students = b.students,
             c.lessonDrones = b.lessonDrones, c.lessonAssignments = b.lessonAssignments
      PROVE  Sound(c)
  BY <1>1 DEF Sound, RollIsRoster, IdsDiffer, FlyersKnown, PlansKnown, OneEach, Known
<1> DEFINE c == [b EXCEPT !.absent = away]
           e == [b EXCEPT !.plans = plans]
<1>2. /\ c \in Book /\ c.roster = b.roster /\ c.roll = b.roll /\ c.students = b.students
      /\ c.lessonDrones = b.lessonDrones /\ c.lessonAssignments = b.lessonAssignments
  BY DEF Sound, Book
<1>3. /\ e \in Book /\ e.roster = b.roster /\ e.roll = b.roll /\ e.students = b.students
      /\ e.lessonDrones = b.lessonDrones /\ e.lessonAssignments = b.lessonAssignments
  BY DEF Sound, Book
<1> HIDE DEF c, e
<1>4. Sound(c) /\ Sound(e)
  BY <1>1, <1>2, <1>3
<1>5. QED BY <1>4 DEF c, e

LEMMA MarkedAway ==
    ASSUME NEW b, Sound(b), NEW id \in Ids, NEW away \in BOOLEAN
    PROVE  Sound(setStudentAbsent(b, id, away))
<1> DEFINE m == migrateRosterForward(b)
           marks == IF away THEN m.absent \cup {id} ELSE m.absent \ {id}
<1>1. Sound(m)
  BY Migrated
<1>2. marks \in SUBSET Ids
  BY <1>1 DEF Sound, Book
<1> HIDE DEF m, marks
<1>3. Sound([m EXCEPT !.absent = marks])
  BY <1>1, <1>2, MarksSound
<1>4. QED BY <1>3 DEF setStudentAbsent, m, marks

LEMMA FreedAndAway ==
    ASSUME NEW b, Sound(b), NEW row \in RosterRow
    PROVE  Sound(markAbsentAndFreeCraft(b, row))
<1> DEFINE theirs == {d \in Drones : studentOf(b, d) = row.name}
           freed == IF theirs = {} THEN b ELSE Cleared(b, Min(theirs))
<1>1. theirs # {} => Min(theirs) \in Drones
  <2>1. theirs \in SUBSET Nat /\ theirs \subseteq Drones
    BY DronesAssumption DEF Drones
  <2> HIDE DEF theirs
  <2>2. QED BY <2>1, MinOf
<1> HIDE DEF theirs
<1>2. Sound(freed)
  BY <1>1, ClearedOne
<1>3. row.studentId \in Ids
  BY DEF RosterRow
<1> HIDE DEF freed
<1>4. Sound(setStudentAbsent(freed, row.studentId, TRUE))
  BY <1>2, <1>3, MarkedAway
<1>5. QED BY <1>4 DEF markAbsentAndFreeCraft, freed, theirs

LEMMA PlanCreated ==
    ASSUME NEW b, Sound(b), 1 + Max({0} \cup b.plans) \in PlanIds
    PROVE  Sound(createTrainerLesson(b))
<1> DEFINE m == migrateRosterForward(b)
           plans == m.plans \cup {1 + Max({0} \cup m.plans)}
<1>1. Sound(m) /\ m.plans = b.plans
  BY Migrated
<1>2. plans \in SUBSET PlanIds
  BY <1>1 DEF Sound, Book
<1>3. createTrainerLesson(b) = [m EXCEPT !.plans = plans]
  BY DEF createTrainerLesson
<1> HIDE DEF m, plans
<1>4. QED BY <1>1, <1>2, <1>3, MarksSound

\* The seats of a prepared Lesson.
LEMMA PlanChanged ==
    ASSUME NEW b, Sound(b), NEW l \in PlanIds, NEW d \in Drones
    PROVE  /\ Sound(attachDroneToLesson(b, l, d))
           /\ Sound(detachDroneFromLesson(b, l, d))
           /\ Sound(removeTrainerDrone(b, d))
           /\ Sound(clearLessonDroneAssignment(b, l, d))
<1> DEFINE m == migrateRosterForward(b)
           Seats == [lessonId : PlanIds, droneId : Drones]
           Rows == [lessonId : PlanIds, droneId : Drones, studentId : Ids]
           seat == [lessonId |-> l, droneId |-> d]
           S == m.lessonDrones
           R == m.lessonAssignments
<1>1. Sound(m)
  BY Migrated
<1>2. /\ S \in SUBSET Seats /\ R \in SUBSET Rows
      /\ PlansKnown(m) /\ OneEach(m)
  BY <1>1 DEF Sound, Book
<1> HIDE DEF m
<1>3. Sound([m EXCEPT !.lessonDrones = S \cup {seat}, !.lessonAssignments = R])
  <2> DEFINE seats == S \cup {seat}
  <2>1. seats \in SUBSET Seats /\ S \subseteq seats
    BY <1>2
  <2> HIDE DEF seats
  <2>2. \A row \in R : Known(m, row.studentId) /\ \E s \in seats : On(s, row.lessonId, row.droneId)
    BY <1>2, <2>1 DEF PlansKnown
  <2>3. QED BY <1>1, <1>2, <2>1, <2>2, PlansSound DEF seats, OneEach
<1>4. Sound([m EXCEPT !.lessonDrones = {row \in S : ~On(row, l, d)},
                      !.lessonAssignments = {row \in R : ~On(row, l, d)}])
  <2> DEFINE seats == {row \in S : ~On(row, l, d)}
             rows == {row \in R : ~On(row, l, d)}
  <2>1. seats \in SUBSET Seats /\ rows \in SUBSET Rows /\ rows \subseteq R
    BY <1>2
  <2>2. \A row \in rows : Known(m, row.studentId) /\ \E s \in seats : On(s, row.lessonId, row.droneId)
    BY <1>2 DEF PlansKnown, On
  <2> HIDE DEF seats, rows
  <2>3. QED BY <1>1, <1>2, <2>1, <2>2, PlansSound DEF seats, rows, OneEach
<1>5. Sound([m EXCEPT !.lessonDrones = {row \in S : row.droneId # d},
                      !.lessonAssignments = {row \in R : row.droneId # d}])
  <2> DEFINE seats == {row \in S : row.droneId # d}
             rows == {row \in R : row.droneId # d}
  <2>1. seats \in SUBSET Seats /\ rows \in SUBSET Rows /\ rows \subseteq R
    BY <1>2
  <2>2. \A row \in rows : Known(m, row.studentId) /\ \E s \in seats : On(s, row.lessonId, row.droneId)
    BY <1>2 DEF PlansKnown, On
  <2> HIDE DEF seats, rows
  <2>3. QED BY <1>1, <1>2, <2>1, <2>2, PlansSound DEF seats, rows, OneEach
<1>6. Sound([m EXCEPT !.lessonDrones = S, !.lessonAssignments = {row \in R : ~On(row, l, d)}])
  BY <1>1, <1>2, PlansSound DEF PlansKnown, OneEach
<1>7. attachDroneToLesson(b, l, d) = [m EXCEPT !.lessonDrones = S \cup {seat}, !.lessonAssignments = R]
  BY <1>1 DEF attachDroneToLesson, m, Sound, Book
<1>8. clearLessonDroneAssignment(b, l, d) =
          [m EXCEPT !.lessonDrones = S, !.lessonAssignments = {row \in R : ~On(row, l, d)}]
  BY <1>1 DEF clearLessonDroneAssignment, m, Sound, Book
<1>9. QED
  BY <1>3, <1>4, <1>5, <1>6, <1>7, <1>8 DEF detachDroneFromLesson, removeTrainerDrone, m

LEMMA PlanSeated ==
    ASSUME NEW b, Sound(b), NEW l \in PlanIds, NEW d \in Drones, NEW s \in b.roster,
           [lessonId |-> l, droneId |-> d] \in b.lessonDrones
    PROVE  Sound(assignStudentToLessonDrone(b, l, d, s.studentId))
<1> DEFINE m == migrateRosterForward(b)
           new == [lessonId |-> l, droneId |-> d, studentId |-> s.studentId]
           rows == {row \in m.lessonAssignments :
                       ~On(row, l, d) /\ ~(row.lessonId = l /\ row.studentId = s.studentId)} \cup {new}
<1>1. Sound(m) /\ s \in m.roster /\ m.lessonDrones = b.lessonDrones
  BY Migrated
<1>2. /\ m.lessonDrones \in SUBSET [lessonId : PlanIds, droneId : Drones]
      /\ m.lessonAssignments \in SUBSET [lessonId : PlanIds, droneId : Drones, studentId : Ids]
      /\ PlansKnown(m) /\ OneEach(m) /\ s.studentId \in Ids /\ Known(m, s.studentId)
  BY <1>1 DEF Sound, Book, Known, RosterRow
<1> HIDE DEF m
<1>3. rows \in SUBSET [lessonId : PlanIds, droneId : Drones, studentId : Ids]
  BY <1>2
<1>4. \E seat \in m.lessonDrones : On(seat, l, d)
  BY <1>1 DEF On
<1>5. \A row \in rows : /\ Known(m, row.studentId)
                        /\ \E seat \in m.lessonDrones : On(seat, row.lessonId, row.droneId)
  BY <1>2, <1>4 DEF PlansKnown
<1>6. \A r, t \in rows :
          r.lessonId = t.lessonId /\ (r.droneId = t.droneId \/ r.studentId = t.studentId) => r = t
  BY <1>2 DEF OneEach, On
<1> HIDE DEF rows
<1>7. Sound([m EXCEPT !.lessonDrones = m.lessonDrones, !.lessonAssignments = rows])
  BY <1>1, <1>2, <1>3, <1>5, <1>6, PlansSound
<1>8. assignStudentToLessonDrone(b, l, d, s.studentId) =
          [m EXCEPT !.lessonDrones = m.lessonDrones, !.lessonAssignments = rows]
  BY <1>1 DEF assignStudentToLessonDrone, m, rows, Sound, Book
<1>9. QED BY <1>7, <1>8

LEMMA PlanApplied ==
    ASSUME NEW b, Sound(b), NEW l \in PlanIds
    PROVE  Sound(applyLessonAssignments(b, l))
<1> DEFINE m == migrateRosterForward(b)
           rows == {row \in m.lessonAssignments : row.lessonId = l}
           f == [d \in Drones |->
                   IF \E row \in rows : row.droneId = d
                     THEN (CHOOSE row \in rows : row.droneId = d).studentId ELSE m.students[d]]
<1>1. Sound(m)
  BY Migrated
<1> HIDE DEF m
<1>2. \A row \in rows : row.studentId \in Ids /\ Known(m, row.studentId)
  BY <1>1 DEF Sound, Book, PlansKnown
<1>3. m.students \in [Drones -> Value] /\ FlyersKnown(m)
  BY <1>1 DEF Sound, Book
<1> HIDE DEF rows
<1>4. \A d \in Drones : \/ f[d] = m.students[d]
                        \/ \E row \in rows : f[d] = row.studentId
  OBVIOUS
<1>5. f \in [Drones -> Value]
  BY <1>2, <1>3 DEF Value
<1> HIDE DEF f
<1>6. \A d \in Drones : f[d] \in Ids => Known(m, f[d])
  BY <1>2, <1>3, <1>4 DEF FlyersKnown
<1>7. Sound([m EXCEPT !.students = f])
  BY <1>1, <1>5, <1>6, StudentsSound
<1>8. applyLessonAssignments(b, l) \in {b, [m EXCEPT !.students = f]}
  BY <1>1 DEF applyLessonAssignments, m, rows, f, Sound, Book
<1>9. QED BY <1>7, <1>8

(***************************************************************************)
(* The two operations that go over the board Drone by Drone.               *)
(***************************************************************************)
LEMMA EveryoneWalks ==
    ASSUME NEW b, Sound(b), NEW P, b \in P[0],
           \A n \in Drones : \A c : Sound(c) /\ c \in P[n - 1] => assignNextRosterName(c, n) \in P[n]
    PROVE  Sound(assignEveryone(b)) /\ assignEveryone(b) \in P[DroneCount]
<1> DEFINE B == {c \in Book : Sound(c)}
           step == [n \in Drones |-> [c \in B |-> assignNextRosterName(c, n)]]
           upTo[n \in 0..DroneCount] == IF n = 0 THEN b ELSE assignNextRosterName(upTo[n - 1], n)
<1>1. b \in B /\ \A c : c \in B <=> Sound(c)
  BY DEF Sound
<1> HIDE DEF B
<1>2. step \in [1..DroneCount -> [B -> B]]
  BY <1>1, NextAssigned DEF Drones
<1>3. PICK f \in [0..DroneCount -> B] :
          f[0] = b /\ \A n \in 1..DroneCount : f[n] = step[n][f[n - 1]]
  <2> HIDE DEF step
  <2>1. b \in B /\ DroneCount \in Nat
    BY <1>1, DronesAssumption
  <2>2. Walks(B, DroneCount, step, b) # {}
    BY <1>2, <2>1, WalkExists
  <2>3. QED BY <2>2 DEF Walks
<1>4. f = [n \in 0..DroneCount |-> IF n = 0 THEN b ELSE assignNextRosterName(f[n - 1], n)]
  <2>1. ASSUME NEW n \in 1..DroneCount PROVE f[n] = assignNextRosterName(f[n - 1], n)
    <3>1. f[n - 1] \in B
      BY DronesAssumption
    <3>2. QED BY <1>3, <3>1 DEF Drones
  <2>2. \A n \in 0..DroneCount : n = 0 \/ n \in 1..DroneCount
    BY DronesAssumption
  <2> HIDE DEF step
  <2>3. QED BY <1>3, <2>1, <2>2
<1>5. upTo = [n \in 0..DroneCount |-> IF n = 0 THEN b ELSE assignNextRosterName(upTo[n - 1], n)]
  <2> DEFINE Def(g) == g = [n \in 0..DroneCount |-> IF n = 0 THEN b
                                                    ELSE assignNextRosterName(g[n - 1], n)]
  <2>1. Def(f)
    BY <1>4
  <2>2. upTo = CHOOSE g : Def(g)
    OBVIOUS
  <2> HIDE DEF Def, upTo
  <2>3. Def(upTo)
    BY <2>1, <2>2
  <2>4. QED BY <2>3 DEF Def
<1>6. assignEveryone(b) = upTo[DroneCount]
  BY DEF assignEveryone
<1> HIDE DEF upTo
<1>7. upTo[0] = b /\ upTo[0] \in B /\ upTo[0] \in P[0]
  BY <1>1, <1>5, DronesAssumption
<1>8. \A n \in 1..DroneCount : n \in Drones /\ upTo[n] = assignNextRosterName(upTo[n - 1], n)
  BY <1>5, DronesAssumption DEF Drones
<1>9. \A n \in 1..DroneCount : upTo[n - 1] \in B => upTo[n] \in B
  <2>1. SUFFICES ASSUME NEW n \in 1..DroneCount, upTo[n - 1] \in B PROVE upTo[n] \in B
    OBVIOUS
  <2>2. QED BY <1>1, <1>8, <2>1, NextAssigned
<1>10. \A n \in 0..DroneCount : upTo[n] \in B
  BY <1>7, <1>9, DronesAssumption, WalkStays
<1>11. \A n \in 1..DroneCount : upTo[n - 1] \in P[n - 1] => upTo[n] \in P[n]
  <2>1. SUFFICES ASSUME NEW n \in 1..DroneCount, upTo[n - 1] \in P[n - 1] PROVE upTo[n] \in P[n]
    OBVIOUS
  <2>2. n - 1 \in 0..DroneCount
    BY DronesAssumption
  <2>3. Sound(upTo[n - 1])
    BY <1>1, <1>10, <2>2
  <2>4. QED BY <1>8, <2>1, <2>3
<1>12. upTo[DroneCount] \in P[DroneCount]
  BY <1>7, <1>11, DronesAssumption, WalkKeeps
<1>13. QED BY <1>1, <1>6, <1>10, <1>12, DronesAssumption

LEMMA EverySeatFilled ==
    ASSUME NEW b, Sound(b)
    PROVE  Sound(assignEveryone(b))
<1> DEFINE P == [n \in 0..DroneCount |-> {c \in Book : Sound(c)}]
<1>1. b \in P[0]
  BY DronesAssumption DEF Sound
<1>2. ASSUME NEW n \in Drones, NEW c, Sound(c) PROVE assignNextRosterName(c, n) \in P[n]
  <2>1. Sound(assignNextRosterName(c, n))
    BY <1>2, NextAssigned
  <2>2. n \in 0..DroneCount /\ assignNextRosterName(c, n) \in Book
    BY <2>1, DronesAssumption DEF Drones, Sound
  <2>3. QED BY <2>1, <2>2
<1> HIDE DEF P
<1>3. QED BY <1>1, <1>2, EveryoneWalks

\* One name of those to be typed back.
BackOn(c, n, point) == IF point[n] = Nobody THEN c ELSE assignStudent(c, n, point[n])

LEMMA BackOnSound ==
    ASSUME NEW c, Sound(c), NEW n \in Drones, NEW point \in Points
    PROVE  Sound(BackOn(c, n, point))
BY Assigned DEF BackOn, Points

LEMMA TypedBackWalks ==
    ASSUME NEW b, Sound(b), NEW point \in Points, NEW order \in [Drones -> Drones],
           NEW P, b \in P[0],
           \A n \in Drones : \A c : Sound(c) /\ c \in P[n - 1] => BackOn(c, order[n], point) \in P[n]
    PROVE  Sound(typedBack(b, point, order)) /\ typedBack(b, point, order) \in P[DroneCount]
<1> DEFINE B == {c \in Book : Sound(c)}
           step == [n \in Drones |-> [c \in B |-> BackOn(c, order[n], point)]]
           upTo[n \in 0..DroneCount] ==
               IF n = 0 THEN b
               ELSE IF point[order[n]] = Nobody THEN upTo[n - 1]
               ELSE assignStudent(upTo[n - 1], order[n], point[order[n]])
           Def(g) == g = [n \in 0..DroneCount |-> IF n = 0 THEN b ELSE BackOn(g[n - 1], order[n], point)]
<1>1. b \in B /\ \A c : c \in B <=> Sound(c)
  BY DEF Sound
<1> HIDE DEF B
<1>2. \A c \in B, n \in Drones : BackOn(c, n, point) \in B
  BY <1>1, BackOnSound
<1>3. upTo = CHOOSE g : Def(g)
  BY DEF BackOn
<1>4. typedBack(b, point, order) = upTo[DroneCount]
  BY DEF typedBack
<1> HIDE DEF upTo
<1>5. step \in [1..DroneCount -> [B -> B]]
  BY <1>2 DEF Drones
<1>6. PICK f \in [0..DroneCount -> B] :
          f[0] = b /\ \A n \in 1..DroneCount : f[n] = step[n][f[n - 1]]
  <2> HIDE DEF step
  <2>1. b \in B /\ DroneCount \in Nat
    BY <1>1, DronesAssumption
  <2>2. Walks(B, DroneCount, step, b) # {}
    BY <1>5, <2>1, WalkExists
  <2>3. QED BY <2>2 DEF Walks
<1>7. Def(f)
  <2>1. ASSUME NEW n \in 1..DroneCount PROVE f[n] = BackOn(f[n - 1], order[n], point)
    <3>1. f[n - 1] \in B
      BY DronesAssumption
    <3>2. QED BY <1>6, <3>1 DEF Drones
  <2>2. \A n \in 0..DroneCount : n = 0 \/ n \in 1..DroneCount
    BY DronesAssumption
  <2> HIDE DEF step
  <2>3. QED BY <1>6, <2>1, <2>2
<1> HIDE DEF Def
<1>8. Def(upTo)
  BY <1>3, <1>7
<1>9. upTo[0] = b /\ upTo[0] \in B /\ upTo[0] \in P[0]
  BY <1>1, <1>8, DronesAssumption DEF Def
<1>10. \A n \in 1..DroneCount : n \in Drones /\ order[n] \in Drones /\ upTo[n] = BackOn(upTo[n - 1], order[n], point)
  <2>1. SUFFICES ASSUME NEW n \in 1..DroneCount
                 PROVE  n \in Drones /\ order[n] \in Drones /\ upTo[n] = BackOn(upTo[n - 1], order[n], point)
    OBVIOUS
  <2>2. n \in Drones /\ n \in 0..DroneCount /\ n # 0
    BY DronesAssumption DEF Drones
  <2>3. upTo[n] = BackOn(upTo[n - 1], order[n], point)
    BY <1>8, <2>2 DEF Def
  <2>4. QED BY <2>2, <2>3
<1> HIDE DEF step
<1>11. \A n \in 1..DroneCount : upTo[n - 1] \in B => upTo[n] \in B
  <2>1. SUFFICES ASSUME NEW n \in 1..DroneCount, upTo[n - 1] \in B PROVE upTo[n] \in B
    OBVIOUS
  <2>2. QED BY <1>2, <1>10, <2>1
<1>12. \A n \in 0..DroneCount : upTo[n] \in B
  BY <1>9, <1>11, DronesAssumption, WalkStays
<1>13. \A n \in 1..DroneCount : upTo[n - 1] \in P[n - 1] => upTo[n] \in P[n]
  <2>1. SUFFICES ASSUME NEW n \in 1..DroneCount, upTo[n - 1] \in P[n - 1] PROVE upTo[n] \in P[n]
    OBVIOUS
  <2>2. n - 1 \in 0..DroneCount
    BY DronesAssumption
  <2>3. Sound(upTo[n - 1])
    BY <1>1, <1>12, <2>2
  <2>4. QED BY <1>10, <2>1, <2>3
<1>14. upTo[DroneCount] \in P[DroneCount]
  <2>1. DroneCount \in Nat /\ upTo[0] \in P[0]
    BY <1>9, DronesAssumption
  <2> HIDE DEF upTo
  <2>2. \A n \in 0..DroneCount : upTo[n] \in P[n]
    BY <1>13, <2>1, WalkKeeps
  <2>3. QED BY <2>1, <2>2
<1>15. QED BY <1>1, <1>4, <1>12, <1>14, DronesAssumption

LEMMA AllTypedBack ==
    ASSUME NEW b, Sound(b), NEW point \in Points, NEW order \in [Drones -> Drones]
    PROVE  Sound(typedBack(b, point, order))
<1> DEFINE P == [n \in 0..DroneCount |-> {c \in Book : Sound(c)}]
<1>1. b \in P[0]
  BY DronesAssumption DEF Sound
<1>2. ASSUME NEW n \in Drones, NEW c, Sound(c) PROVE BackOn(c, order[n], point) \in P[n]
  <2>1. Sound(BackOn(c, order[n], point))
    BY <1>2, BackOnSound
  <2>2. n \in 0..DroneCount /\ BackOn(c, order[n], point) \in Book
    BY <2>1, DronesAssumption DEF Drones, Sound
  <2>3. QED BY <2>1, <2>2
<1> HIDE DEF P
<1>3. QED BY <1>1, <1>2, TypedBackWalks

(***************************************************************************)
(* Who is on the roster before and after, and who flies twice.             *)
(***************************************************************************)
\* Nobody leaves the roster a press finds, once it is promoted.
Keeps(b, c) == c = b \/ migrateRosterForward(b).roster \subseteq c.roster

\* Once there is a roster every Drone is flown by an id; a name typed before
\* there was one flies one Drone.
NoneTyped(b) == \A d \in Drones : b.students[d] \in Ids \cup {Free}
TypedApart(b) ==
    /\ b.roster # {} => NoneTyped(b)
    /\ \A d, e \in Drones :
          d # e /\ b.students[d] # Free /\ b.students[d] \notin Ids => b.students[d] # b.students[e]

\* Nobody comes to fly two Drones, but who shares an id.
Calm(b, c) ==
    \/ c = b
    \/ NoneTyped(c) /\ Doubled(c) \subseteq Doubled(b) \cup Shared(migrateRosterForward(b)) \cup Shared(c)

LEMMA CalmStaysApart ==
    ASSUME NEW b, TypedApart(b), NEW c, Calm(b, c)
    PROVE  TypedApart(c)
BY DEF Calm, NoneTyped, TypedApart

\* Rows that are kept are shared as they were.
LEMMA SharedGrows ==
    ASSUME NEW b, NEW c, b.roster \subseteq c.roster
    PROVE  Shared(b) \subseteq Shared(c)
BY DEF Shared, RowsOf

LEMMA GoesOn ==
    ASSUME NEW b, NEW c, Sound(c), NEW e, Keeps(b, c), Calm(b, c), Keeps(c, e), Calm(c, e)
    PROVE  Keeps(b, e) /\ Calm(b, e)
<1>1. c.roster \subseteq migrateRosterForward(c).roster
  BY Migrated
<1>2. CASE e = c
  BY <1>2
<1>3. CASE c = b
  BY <1>3
<1>4. CASE e # c /\ c # b
  <2>1. c.roster \subseteq e.roster /\ migrateRosterForward(c).roster \subseteq e.roster
    BY <1>1, <1>4 DEF Keeps
  <2>2. Shared(c) \subseteq Shared(e) /\ Shared(migrateRosterForward(c)) \subseteq Shared(e)
    BY <2>1, SharedGrows
  <2>3. QED BY <1>4, <2>1, <2>2 DEF Keeps, Calm
<1>5. QED BY <1>2, <1>3, <1>4

\* Who flies a Drone, when nobody typed before the roster does.
LEMMA FlownBy ==
    ASSUME NEW b, Sound(b), NEW d \in Drones
    PROVE  /\ b.students[d] = Free => studentOf(b, d) = Nobody
           /\ b.students[d] \in Ids =>
                  \E s \in RowsOf(b, b.students[d]) : studentOf(b, d) = s.name
           /\ \A n \in Names : b.roster = {} /\ b.students[d] = TypedName(n) => studentOf(b, d) = n
<1>1. ASSUME b.students[d] = Free PROVE studentOf(b, d) = Nobody
  <2>1. RowsOf(b, Free) = {}
    <3>1. \A s \in b.roster : s.studentId \in Ids
      BY DEF Sound, Book, RosterRow
    <3>2. QED BY <3>1, KindsDiffer DEF RowsOf
  <2>2. QED BY <1>1, <2>1, KindsDiffer DEF studentOf, displayNameForAssignment
<1>2. ASSUME b.students[d] \in Ids
      PROVE  \E s \in RowsOf(b, b.students[d]) : studentOf(b, d) = s.name
  <2>1. RowsOf(b, b.students[d]) \in SUBSET RosterRow /\ RowsOf(b, b.students[d]) # {}
    BY <1>2 DEF RowsOf, Sound, Book, FlyersKnown, Known
  <2>2. First(RowsOf(b, b.students[d])) \in RowsOf(b, b.students[d])
    BY <2>1, FirstOf
  <2>3. QED BY <2>1, <2>2 DEF studentOf, displayNameForAssignment
<1>3. ASSUME NEW n \in Names, b.roster = {}, b.students[d] = TypedName(n) PROVE studentOf(b, d) = n
  <2>1. RowsOf(b, b.students[d]) = {}
    BY <1>3 DEF RowsOf
  <2>2. QED BY <1>3, <2>1, KindsDiffer DEF studentOf, displayNameForAssignment
<1>4. QED BY <1>1, <1>2, <1>3

LEMMA MigratedCalm ==
    ASSUME NEW b, Sound(b), TypedApart(b)
    PROVE  /\ NoneTyped(migrateRosterForward(b))
           /\ Doubled(migrateRosterForward(b)) \subseteq Doubled(b) \cup Shared(migrateRosterForward(b))
           /\ (\A d \in Drones : b.students[d] = Free) =>
                  \A d \in Drones : migrateRosterForward(b).students[d] = Free
           /\ b.roster # {} => migrateRosterForward(b) = b
<1> DEFINE m == migrateRosterForward(b)
<1>2. CASE b.roster # {}
  <2>1. m = [b EXCEPT !.roll = rollFromRoster(b.roster)]
    BY <1>2 DEF migrateRosterForward
  <2>2. m = b
    BY <1>2, <2>1 DEF Sound, RollIsRoster, Book
  <2>3. QED BY <1>2, <2>2 DEF TypedApart
<1>3. CASE b.roster = {}
  <2> DEFINE f == [d \in Drones |-> IF b.students[d] = Free THEN Free
                                    ELSE legacyStudentIdFor(studentOf(b, d))]
  <2>1. m.students = f
    BY <1>3 DEF migrateRosterForward, Sound, Book
  <2>2. \A d \in Drones : b.students[d] # Free =>
            \E n \in Names : b.students[d] = TypedName(n) /\ studentOf(b, d) = n
    <3>1. SUFFICES ASSUME NEW d \in Drones, b.students[d] # Free
                   PROVE  \E n \in Names : b.students[d] = TypedName(n) /\ studentOf(b, d) = n
      OBVIOUS
    <3>2. b.students[d] \in Value /\ b.students[d] \notin Ids
      BY <1>3 DEF Sound, Book, FlyersKnown, Known
    <3>3. PICK n \in Names : b.students[d] = TypedName(n)
      BY <3>1, <3>2 DEF Value
    <3>4. QED BY <1>3, <3>3, FlownBy
  <2>3. \A d \in Drones : f[d] = Free \/ (b.students[d] # Free /\ f[d] = legacyStudentIdFor(studentOf(b, d)))
    OBVIOUS
  <2>4. NoneTyped(m)
    BY <2>1, <2>2, <2>3, KindsDiffer DEF NoneTyped
  <2>a. \A d \in Drones : b.students[d] # Free =>
            [studentId |-> legacyStudentIdFor(studentOf(b, d)), name |-> studentOf(b, d)] \in m.roster
    BY <1>3 DEF migrateRosterForward, Sound, Book
  <2> HIDE DEF f, m
  <2>5. ASSUME NEW d \in Drones, NEW e \in Drones, d # e, f[d] \in Ids, f[d] = f[e]
        PROVE  f[d] \in Shared(m)
    <3>1. b.students[d] # Free /\ b.students[e] # Free
      BY <2>3, <2>5, KindsDiffer DEF f
    <3>2. PICK n \in Names : b.students[d] = TypedName(n) /\ studentOf(b, d) = n
      BY <2>2, <3>1
    <3>3. PICK k \in Names : b.students[e] = TypedName(k) /\ studentOf(b, e) = k
      BY <2>2, <3>1
    <3>4. legacyStudentIdFor(n) = legacyStudentIdFor(k)
      BY <2>5, <3>1, <3>2, <3>3 DEF f
    <3>5. b.students[d] \notin Ids
      BY <3>2, KindsDiffer
    <3>6. n # k
      BY <2>5, <3>1, <3>2, <3>3, <3>5 DEF TypedApart
    <3> DEFINE s == [studentId |-> legacyStudentIdFor(n), name |-> n]
               t == [studentId |-> legacyStudentIdFor(k), name |-> k]
    <3>7. s \in m.roster /\ t \in m.roster
      BY <2>a, <3>1, <3>2, <3>3
    <3>8. s # t /\ s.studentId = f[d] /\ t.studentId = f[d]
      BY <3>1, <3>2, <3>4, <3>6 DEF f
    <3> HIDE DEF s, t
    <3>9. QED BY <3>7, <3>8 DEF Shared, RowsOf
  <2>6. Doubled(m) \subseteq Shared(m)
    BY <2>1, <2>5 DEF Doubled
  <2>7. (\A d \in Drones : b.students[d] = Free) => \A d \in Drones : m.students[d] = Free
    BY <2>1 DEF f
  <2>8. QED BY <1>3, <2>4, <2>6, <2>7 DEF m
<1>4. QED BY <1>2, <1>3

\* A Drone handed back, and nothing else, seats nobody twice.
LEMMA FreeingIsCalm ==
    ASSUME NEW m, NoneTyped(m), NEW c,
           \A d \in Drones : c.students[d] = m.students[d] \/ c.students[d] = Free
    PROVE  NoneTyped(c) /\ Doubled(c) \subseteq Doubled(m)
BY KindsDiffer DEF NoneTyped, Doubled

LEMMA MigratedThen ==
    ASSUME NEW b, Sound(b), TypedApart(b), NEW c,
           \A d \in Drones : \/ c.students[d] = migrateRosterForward(b).students[d]
                             \/ c.students[d] = Free
    PROVE  /\ Calm(b, c)
           /\ migrateRosterForward(b).roster \subseteq c.roster => Keeps(b, c)
<1>1. NoneTyped(c) /\ Doubled(c) \subseteq Doubled(migrateRosterForward(b))
  BY MigratedCalm, FreeingIsCalm
<1>2. Calm(b, c)
  BY <1>1, MigratedCalm DEF Calm
<1>3. migrateRosterForward(b).roster \subseteq c.roster => Keeps(b, c)
  BY DEF Keeps
<1>4. QED BY <1>2, <1>3

\* What leaves the roster alone and gives nobody a Drone.
LEMMA QuietPresses ==
    ASSUME NEW b, Sound(b), TypedApart(b)
    PROVE  /\ Keeps(b, b) /\ Calm(b, b)
           /\ \A d \in Drones : Keeps(b, Cleared(b, d)) /\ Calm(b, Cleared(b, d))
           /\ Keeps(b, clearStudents(b)) /\ Calm(b, clearStudents(b))
           /\ \A id, away : Keeps(b, setStudentAbsent(b, id, away)) /\ Calm(b, setStudentAbsent(b, id, away))
           /\ Keeps(b, createTrainerLesson(b)) /\ Calm(b, createTrainerLesson(b))
           /\ \A l, d : /\ Keeps(b, attachDroneToLesson(b, l, d)) /\ Calm(b, attachDroneToLesson(b, l, d))
                        /\ Keeps(b, detachDroneFromLesson(b, l, d)) /\ Calm(b, detachDroneFromLesson(b, l, d))
                        /\ Keeps(b, removeTrainerDrone(b, d)) /\ Calm(b, removeTrainerDrone(b, d))
                        /\ Keeps(b, clearLessonDroneAssignment(b, l, d))
                        /\ Calm(b, clearLessonDroneAssignment(b, l, d))
                        /\ \A id : /\ Keeps(b, assignStudentToLessonDrone(b, l, d, id))
                                   /\ Calm(b, assignStudentToLessonDrone(b, l, d, id))
<1> DEFINE m == migrateRosterForward(b)
<1>1. Sound(m) /\ m \in Book
  BY Migrated DEF Sound
<1>2. ASSUME NEW c, c.roster = m.roster,
             \A d \in Drones : c.students[d] = m.students[d] \/ c.students[d] = Free
      PROVE  Keeps(b, c) /\ Calm(b, c)
  BY <1>2, MigratedThen
<1>3. Keeps(b, b) /\ Calm(b, b)
  BY DEF Keeps, Calm
<1>4. ASSUME NEW d \in Drones PROVE Keeps(b, Cleared(b, d)) /\ Calm(b, Cleared(b, d))
  <2> DEFINE c == Cleared(b, d)
  <2>1. c.roster = m.roster /\ \A e \in Drones : c.students[e] = m.students[e] \/ c.students[e] = Free
    BY <1>1 DEF Cleared, Book
  <2> HIDE DEF c, m
  <2>2. QED BY <1>2, <2>1 DEF c
<1>5. Keeps(b, clearStudents(b)) /\ Calm(b, clearStudents(b))
  <2> DEFINE c == clearStudents(b)
  <2>1. c.roster = m.roster /\ \A e \in Drones : c.students[e] = Free
    BY <1>1 DEF clearStudents, Book
  <2> HIDE DEF c, m
  <2>2. QED BY <1>2, <2>1 DEF c
<1>6. ASSUME NEW id, NEW away
      PROVE  Keeps(b, setStudentAbsent(b, id, away)) /\ Calm(b, setStudentAbsent(b, id, away))
  <2> DEFINE c == setStudentAbsent(b, id, away)
  <2>1. c.roster = m.roster /\ c.students = m.students
    BY <1>1 DEF setStudentAbsent, Book
  <2> HIDE DEF c, m
  <2>2. QED BY <1>2, <2>1 DEF c
<1>7. Keeps(b, createTrainerLesson(b)) /\ Calm(b, createTrainerLesson(b))
  <2> DEFINE c == createTrainerLesson(b)
  <2>1. c.roster = m.roster /\ c.students = m.students
    BY <1>1 DEF createTrainerLesson, Book
  <2> HIDE DEF c, m
  <2>2. QED BY <1>2, <2>1 DEF c
<1>8. ASSUME NEW l, NEW d
      PROVE  /\ Keeps(b, attachDroneToLesson(b, l, d)) /\ Calm(b, attachDroneToLesson(b, l, d))
             /\ Keeps(b, detachDroneFromLesson(b, l, d)) /\ Calm(b, detachDroneFromLesson(b, l, d))
             /\ Keeps(b, removeTrainerDrone(b, d)) /\ Calm(b, removeTrainerDrone(b, d))
             /\ Keeps(b, clearLessonDroneAssignment(b, l, d))
             /\ Calm(b, clearLessonDroneAssignment(b, l, d))
  <2>1. ASSUME NEW c \in {attachDroneToLesson(b, l, d), detachDroneFromLesson(b, l, d),
                          removeTrainerDrone(b, d), clearLessonDroneAssignment(b, l, d)}
        PROVE  c.roster = m.roster /\ c.students = m.students
    BY <1>1 DEF attachDroneToLesson, detachDroneFromLesson, removeTrainerDrone,
                clearLessonDroneAssignment, Book
  <2> HIDE DEF m
  <2>2. QED BY <1>2, <2>1
<1>9. ASSUME NEW l, NEW d, NEW id
      PROVE  /\ Keeps(b, assignStudentToLessonDrone(b, l, d, id))
             /\ Calm(b, assignStudentToLessonDrone(b, l, d, id))
  <2> DEFINE c == assignStudentToLessonDrone(b, l, d, id)
  <2>1. c.roster = m.roster /\ c.students = m.students
    BY <1>1 DEF assignStudentToLessonDrone, Book
  <2> HIDE DEF c, m
  <2>2. QED BY <1>2, <2>1 DEF c
<1>10. QED BY <1>3, <1>4, <1>5, <1>6, <1>7, <1>8, <1>9

\* A Student marked away hands a Drone back.
LEMMA AwayIsQuiet ==
    ASSUME NEW b, Sound(b), TypedApart(b), NEW row
    PROVE  Keeps(b, markAbsentAndFreeCraft(b, row)) /\ Calm(b, markAbsentAndFreeCraft(b, row))
<1> DEFINE theirs == {d \in Drones : studentOf(b, d) = row.name}
           freed == IF theirs = {} THEN b ELSE Cleared(b, Min(theirs))
           c == setStudentAbsent(freed, row.studentId, TRUE)
<1>1. theirs # {} => Min(theirs) \in Drones
  <2>1. theirs \in SUBSET Nat /\ theirs \subseteq Drones
    BY DronesAssumption DEF Drones
  <2> HIDE DEF theirs
  <2>2. QED BY <2>1, MinOf
<1>2. markAbsentAndFreeCraft(b, row) = c
  BY DEF markAbsentAndFreeCraft
<1> HIDE DEF theirs
<1>3. Sound(freed) /\ Keeps(b, freed) /\ Calm(b, freed)
  BY <1>1, ClearedOne, QuietPresses
<1> HIDE DEF freed
<1>4. TypedApart(freed)
  BY <1>3, CalmStaysApart
<1>5. Keeps(freed, c) /\ Calm(freed, c)
  BY <1>3, <1>4, QuietPresses
<1> HIDE DEF c
<1>6. Keeps(b, c) /\ Calm(b, c)
  BY <1>3, <1>5, GoesOn
<1>7. QED BY <1>2, <1>6

\* A swap gives each of two Drones the other's Student.
LEMMA SwapIsCalm ==
    ASSUME NEW b, Sound(b), TypedApart(b), NEW d \in Drones, NEW e \in Drones
    PROVE  /\ Keeps(b, swapStudentAssignments(b, d, e))
           /\ Calm(b, swapStudentAssignments(b, d, e))
<1> DEFINE m == migrateRosterForward(b)
           f == [m.students EXCEPT ![d] = m.students[e], ![e] = m.students[d]]
           c == [m EXCEPT !.students[d] = m.students[e], !.students[e] = m.students[d]]
<1>1. Sound(m) /\ m \in Book /\ m.students \in [Drones -> Value]
  BY Migrated DEF Sound, Book
<1>2. c.roster = m.roster /\ c.students = f
  BY <1>1 DEF Book
<1>3. swapStudentAssignments(b, d, e) = b \/ swapStudentAssignments(b, d, e) = c
  BY DEF swapStudentAssignments
<1>4. NoneTyped(m) /\ Doubled(m) \subseteq Doubled(b) \cup Shared(m)
  BY MigratedCalm
<1> HIDE DEF c
<1>a. Keeps(b, c)
  BY <1>2 DEF Keeps
<1> HIDE DEF m
<1>5. NoneTyped(c)
  BY <1>1, <1>2, <1>4 DEF NoneTyped
<1>6. Doubled(c) \subseteq Doubled(m)
  <2> DEFINE there == [k \in Drones |-> IF k = d THEN e ELSE IF k = e THEN d ELSE k]
  <2>1. \A k \in Drones : there[k] \in Drones /\ f[k] = m.students[there[k]]
    BY <1>1
  <2>2. \A j, k \in Drones : j # k => there[j] # there[k]
    OBVIOUS
  <2> HIDE DEF there, f
  <2>3. QED BY <1>2, <2>1, <2>2 DEF Doubled
<1>7. Calm(b, c)
  BY <1>4, <1>5, <1>6 DEF Calm, m
<1>8. QED BY <1>3, <1>7, <1>a, QuietPresses

\* A Student who is given a Drone has no other, but who shares an id; and the
\* Drone is theirs.
LEMMA AssigningIsCalm ==
    ASSUME NEW b, Sound(b), TypedApart(b), NEW d \in Drones, NEW n \in Names
    PROVE  /\ Keeps(b, assignStudent(b, d, n)) /\ Calm(b, assignStudent(b, d, n))
           /\ ~studentAssignedElsewhere(migrateRosterForward(b), n, d) =>
                  /\ NoneTyped(assignStudent(b, d, n))
                  /\ migrateRosterForward(b).roster \subseteq assignStudent(b, d, n).roster
                  /\ \E row \in assignStudent(b, d, n).roster :
                        /\ row.name = n /\ row.studentId \in Ids
                        /\ assignStudent(b, d, n).students =
                              [migrateRosterForward(b).students EXCEPT ![d] = row.studentId]
<1> DEFINE m == migrateRosterForward(b)
           known == RowsNamed(m, n)
           row == IF known # {} THEN First(known)
                  ELSE [studentId |-> legacyStudentIdFor(n), name |-> n]
           c == [m EXCEPT !.students[d] = row.studentId, !.roster = m.roster \cup {row},
                          !.roll = rollFromRoster(m.roster \cup {row})]
<1>1. Sound(m) /\ m \in Book /\ m.students \in [Drones -> Value]
  BY Migrated DEF Sound, Book
<1>2. row \in RosterRow /\ row.name = n
  <2>1. CASE known # {}
    BY <1>1, <2>1, NamedRow DEF Sound, Book
  <2>2. CASE known = {}
    BY <2>2, KindsDiffer DEF RosterRow
  <2>3. QED BY <2>1, <2>2
<1>5. NoneTyped(m) /\ Doubled(m) \subseteq Doubled(b) \cup Shared(m)
  BY MigratedCalm
<1>6. c.roster = m.roster \cup {row} /\ c.students = [m.students EXCEPT ![d] = row.studentId]
  BY <1>1 DEF Book
<1>7. CASE studentAssignedElsewhere(m, n, d)
  <2>1. assignStudent(b, d, n) = b
    BY <1>7 DEF assignStudent
  <2>2. QED BY <1>7, <2>1, QuietPresses
<1>8. CASE ~studentAssignedElsewhere(m, n, d)
  <2>1. assignStudent(b, d, n) = c
    BY <1>8 DEF assignStudent
  <2>3. \A e \in Drones \ {d} : studentOf(m, e) # n
    BY <1>8 DEF studentAssignedElsewhere
  <2>4. Keeps(b, c)
    BY <1>6 DEF Keeps
  <2> HIDE DEF m, c, row, known
  <2>5. \A e \in Drones \ {d} : m.students[e] = row.studentId => row.studentId \in Shared(c)
    <3>1. SUFFICES ASSUME NEW e \in Drones \ {d}, m.students[e] = row.studentId
                   PROVE  row.studentId \in Shared(c)
      OBVIOUS
    <3>2. PICK s \in RowsOf(m, row.studentId) : studentOf(m, e) = s.name
      BY <1>1, <1>2, <3>1, FlownBy DEF RosterRow
    <3>3. s \in c.roster /\ row \in c.roster /\ s # row /\ s.studentId = row.studentId
      BY <1>2, <1>6, <2>3, <3>2 DEF RowsOf
    <3>4. QED BY <3>3 DEF Shared, RowsOf
  <2>6. NoneTyped(c)
    BY <1>1, <1>2, <1>5, <1>6 DEF NoneTyped, RosterRow
  <2>7. Doubled(c) \subseteq Doubled(m) \cup Shared(c)
    BY <1>1, <1>6, <2>5 DEF Doubled
  <2>8. Calm(b, c)
    BY <1>5, <2>6, <2>7 DEF Calm, m
  <2>9. /\ row \in c.roster /\ row.studentId \in Ids /\ m.roster \subseteq c.roster
    BY <1>2, <1>6 DEF RosterRow
  <2>10. QED BY <1>2, <1>6, <2>1, <2>4, <2>6, <2>8, <2>9 DEF m
<1>9. QED BY <1>7, <1>8 DEF m

\* A roll saved with everybody on it keeps them all.
LEMMA SavingIsCalm ==
    ASSUME NEW b, Sound(b), TypedApart(b), NEW wanted
    PROVE  /\ Calm(b, saveRoll(b, wanted))
           /\ migrateRosterForward(b).roll \subseteq wanted => Keeps(b, saveRoll(b, wanted))
<1> DEFINE m == migrateRosterForward(b)
           c == saveRoll(b, wanted)
           fresh == {[studentId |-> legacyStudentIdFor(n), name |-> n] :
                         n \in wanted \ rollFromRoster(m.roster)}
           roster == {s \in m.roster : s.name \in wanted} \cup fresh
           kept == {s.studentId : s \in roster}
           f == [d \in Drones |-> IF m.students[d] \in kept THEN m.students[d] ELSE Free]
<1>1. Sound(m) /\ m \in Book /\ m.roll = rollFromRoster(m.roster)
  BY Migrated DEF Sound
<1>2. c.students = f /\ c.roster = roster
  BY <1>1 DEF saveRoll, Book
<1>3. ASSUME m.roll \subseteq wanted PROVE m.roster \subseteq c.roster
  BY <1>1, <1>2, <1>3 DEF rollFromRoster
<1>4. \A d \in Drones : c.students[d] = m.students[d] \/ c.students[d] = Free
  BY <1>2
<1> HIDE DEF c, f, roster
<1>5. Calm(b, c) /\ (m.roster \subseteq c.roster => Keeps(b, c))
  BY <1>4, MigratedThen
<1>6. QED BY <1>3, <1>5 DEF c, m

LEMMA RememberingIsCalm ==
    ASSUME NEW b, Sound(b), TypedApart(b), NEW n
    PROVE  Keeps(b, rememberStudent(b, n)) /\ Calm(b, rememberStudent(b, n))
<1> DEFINE wanted == migrateRosterForward(b).roll \cup {n}
<1>1. migrateRosterForward(b).roll \subseteq wanted
  OBVIOUS
<1>2. rememberStudent(b, n) \in {b, saveRoll(b, wanted)}
  BY DEF rememberStudent
<1> HIDE DEF wanted
<1>3. QED BY <1>1, <1>2, SavingIsCalm, QuietPresses

\* The next name waiting, on one Drone and on every Drone.
LEMMA NextIsCalm ==
    ASSUME NEW b, Sound(b), TypedApart(b), NEW d \in Drones
    PROVE  Keeps(b, assignNextRosterName(b, d)) /\ Calm(b, assignNextRosterName(b, d))
<1> DEFINE m == migrateRosterForward(b)
           waiting == unassignedRosterNames(m)
           c == assignStudent(b, d, Min(waiting))
           e == rememberStudent(c, Min(waiting))
<1>1. Sound(m)
  BY Migrated
<1>2. waiting \in SUBSET Names
  BY <1>1 DEF unassignedRosterNames, rollFromRoster, Sound, Book, RosterRow
<1>3. CASE waiting = {} \/ studentOf(m, d) # Nobody
  BY <1>3, QuietPresses DEF assignNextRosterName
<1>4. CASE waiting # {} /\ studentOf(m, d) = Nobody
  <2>1. Min(waiting) \in Names
    BY <1>2, <1>4, NamesAssumption, MinOf
  <2>2. assignNextRosterName(b, d) = e
    BY <1>4 DEF assignNextRosterName
  <2> HIDE DEF waiting
  <2>3. Sound(c) /\ Keeps(b, c) /\ Calm(b, c)
    BY <2>1, Assigned, AssigningIsCalm
  <2> HIDE DEF c
  <2>4. TypedApart(c)
    BY <2>3, CalmStaysApart
  <2>5. Keeps(c, e) /\ Calm(c, e)
    BY <2>3, <2>4, RememberingIsCalm
  <2> HIDE DEF e
  <2>6. Keeps(b, e) /\ Calm(b, e)
    BY <2>3, <2>5, GoesOn
  <2>7. QED BY <2>2, <2>6
<1>5. QED BY <1>3, <1>4

LEMMA EveryoneIsCalm ==
    ASSUME NEW b, Sound(b), TypedApart(b)
    PROVE  Keeps(b, assignEveryone(b)) /\ Calm(b, assignEveryone(b))
<1> DEFINE P == [n \in 0..DroneCount |-> {c \in Book : Keeps(b, c) /\ Calm(b, c)}]
<1>1. b \in P[0]
  BY DronesAssumption, QuietPresses DEF Sound
<1>2. ASSUME NEW n \in Drones, NEW c, Sound(c), c \in P[n - 1] PROVE assignNextRosterName(c, n) \in P[n]
  <2> DEFINE e == assignNextRosterName(c, n)
  <2>1. n \in 0..DroneCount /\ n - 1 \in 0..DroneCount
    BY DronesAssumption DEF Drones
  <2>2. Keeps(b, c) /\ Calm(b, c)
    BY <1>2, <2>1
  <2>3. TypedApart(c)
    BY <1>2, <2>2, CalmStaysApart
  <2>4. Sound(e) /\ Keeps(c, e) /\ Calm(c, e)
    BY <1>2, <2>3, NextAssigned, NextIsCalm
  <2> HIDE DEF e
  <2>5. Keeps(b, e) /\ Calm(b, e) /\ e \in Book
    BY <1>2, <2>2, <2>4, GoesOn DEF Sound
  <2>6. QED BY <2>1, <2>5 DEF e
<1>3. P[DroneCount] = {c \in Book : Keeps(b, c) /\ Calm(b, c)}
  BY DronesAssumption
<1> HIDE DEF P
<1>4. assignEveryone(b) \in P[DroneCount]
  BY <1>1, <1>2, EveryoneWalks
<1>5. QED BY <1>3, <1>4

\* Once no Drone is flown by a typed name, promoting the book changes no Drone.
LEMMA MigratedFliesOn ==
    ASSUME NEW c, Sound(c), NoneTyped(c), NEW d \in Drones
    PROVE  migrateRosterForward(c).students[d] = c.students[d]
<1>1. TypedApart(c)
  BY DEF TypedApart, NoneTyped
<1>2. CASE c.roster # {}
  BY <1>1, <1>2, MigratedCalm
<1>3. CASE c.roster = {}
  <2>1. \A e \in Drones : c.students[e] = Free
    BY <1>3 DEF NoneTyped, Sound, FlyersKnown, Known
  <2>2. QED BY <1>1, <2>1, MigratedCalm
<1>4. QED BY <1>2, <1>3

\* While the names are typed back one by one: nobody flies a Drone not yet come to,
\* or one nobody had; every Drone flown is flown under the id of who had it; everybody
\* come to flies a Drone, under the id of a row of theirs; and who flies two of those
\* they had shares the id with somebody else.
FreeYet(c, point, done) ==
    \A d \in Drones : d \notin done \/ point[d] = Nobody => c.students[d] = Free
Theirs(c, point) ==
    \A d \in Drones : c.students[d] # Free =>
        \E s \in c.roster : s.studentId = c.students[d] /\ s.name = point[d]
AllFly(c, point, done) ==
    \A d \in done : point[d] # Nobody =>
        \E e \in Drones, s \in c.roster : s.name = point[d] /\ s.studentId = c.students[e]
SharersDouble(c, point) ==
    \A d, e \in Drones : d # e /\ c.students[d] # Free /\ c.students[e] # Free /\ point[d] = point[e] =>
        \E s, t \in c.roster : s.name = point[d] /\ s # t /\ s.studentId = t.studentId
Back(c, point, done) ==
    FreeYet(c, point, done) /\ Theirs(c, point) /\ AllFly(c, point, done) /\ SharersDouble(c, point)

LEMMA OneTypedBack ==
    ASSUME NEW c, Sound(c), NoneTyped(c), NEW point \in Points,
           NEW done \in SUBSET Drones, NEW d \in Drones \ done, Back(c, point, done)
    PROVE  /\ Keeps(c, BackOn(c, d, point)) /\ Calm(c, BackOn(c, d, point))
           /\ NoneTyped(BackOn(c, d, point)) /\ Back(BackOn(c, d, point), point, done \cup {d})
<1> DEFINE m == migrateRosterForward(c)
           e == BackOn(c, d, point)
           n == point[d]
<1>1. TypedApart(c) /\ Sound(m)
  BY Migrated DEF TypedApart, NoneTyped
<1>2. CASE n = Nobody
  <2>1. e = c
    BY <1>2 DEF BackOn
  <2>2. Back(c, point, done \cup {d})
    BY <1>2 DEF Back, FreeYet, AllFly
  <2>3. QED BY <1>1, <2>1, <2>2, QuietPresses
<1>3. CASE n # Nobody
  <2>1. n \in Names /\ e = assignStudent(c, d, n)
    BY <1>3 DEF Points, BackOn
  <2>2. \A k \in Drones : m.students[k] = c.students[k]
    BY MigratedFliesOn
  <2>3. Keeps(c, e) /\ Calm(c, e)
    BY <1>1, <2>1, AssigningIsCalm
  <2>4. NoneTyped(e)
    BY <2>3 DEF Calm
  <2>a. \A k \in Drones : studentOf(m, k) = n =>
            /\ m.students[k] \in Ids
            /\ \E s \in m.roster : s.studentId = m.students[k] /\ s.name = n
    <3>1. SUFFICES ASSUME NEW k \in Drones, studentOf(m, k) = n
                   PROVE  /\ m.students[k] \in Ids
                          /\ \E s \in m.roster : s.studentId = m.students[k] /\ s.name = n
      OBVIOUS
    <3>2. m.students[k] \in Ids
      BY <1>1, <1>3, <2>2, <3>1, FlownBy DEF NoneTyped
    <3>3. QED BY <1>1, <3>1, <3>2, FlownBy DEF RowsOf
  <2>5. CASE studentAssignedElsewhere(m, n, d)
    <3>1. e = c
      BY <2>1, <2>5 DEF assignStudent
    <3>2. PICK k \in Drones : studentOf(m, k) = n
      BY <2>5 DEF studentAssignedElsewhere
    <3>3. PICK s \in m.roster : s.studentId = c.students[k] /\ s.name = n
      BY <2>2, <2>a, <3>2
    <3>4. s \in c.roster
      <4>1. c.roster # {}
        BY <2>2, <2>a, <3>2 DEF Sound, FlyersKnown, Known
      <4>2. QED BY <3>3, <4>1, Migrated
    <3>5. Back(c, point, done \cup {d})
      BY <3>3, <3>4 DEF Back, FreeYet, AllFly
    <3>6. QED BY <2>3, <2>4, <3>1, <3>5
  <2>6. CASE ~studentAssignedElsewhere(m, n, d)
    <3> HIDE DEF m, e
    <3>1. PICK row \in e.roster : /\ row.name = n /\ row.studentId \in Ids
                                  /\ e.students = [m.students EXCEPT ![d] = row.studentId]
      <4>1. e = assignStudent(c, d, n)
        BY <2>1
      <4>2. n \in Names /\ d \in Drones /\ TypedApart(c)
        BY <1>1, <2>1
      <4> HIDE DEF n
      <4>3. \E row \in assignStudent(c, d, n).roster :
                /\ row.name = n /\ row.studentId \in Ids
                /\ assignStudent(c, d, n).students = [m.students EXCEPT ![d] = row.studentId]
        BY <2>6, <4>2, AssigningIsCalm DEF m
      <4>4. QED BY <4>1, <4>3
    <3>2. c.roster \subseteq m.roster /\ m.roster \subseteq e.roster
      BY <1>1, <2>1, <2>6, Migrated, AssigningIsCalm DEF m
    <3>3. e.students[d] = row.studentId /\ \A k \in Drones \ {d} : e.students[k] = c.students[k]
      BY <1>1, <2>2, <3>1 DEF Sound, Book
    <3>4. FreeYet(e, point, done \cup {d})
      BY <1>3, <3>3 DEF Back, FreeYet
    <3>5. Theirs(e, point)
      <4>1. SUFFICES ASSUME NEW k \in Drones, e.students[k] # Free
                     PROVE  \E s \in e.roster : s.studentId = e.students[k] /\ s.name = point[k]
        BY DEF Theirs
      <4>2. CASE k = d
        BY <3>1, <3>3, <4>2
      <4>3. CASE k # d
        BY <3>2, <3>3, <4>1, <4>3 DEF Back, Theirs
      <4>4. QED BY <4>2, <4>3
    <3>6. AllFly(e, point, done \cup {d})
      <4>1. SUFFICES ASSUME NEW k \in done \cup {d}, point[k] # Nobody
                     PROVE  \E j \in Drones, s \in e.roster : s.name = point[k] /\ s.studentId = e.students[j]
        BY DEF AllFly
      <4>2. CASE k = d
        BY <3>1, <3>3, <4>2
      <4>3. CASE k # d
        <5>1. PICK j \in Drones, s \in c.roster : s.name = point[k] /\ s.studentId = c.students[j]
          BY <4>1, <4>3 DEF Back, AllFly
        <5>2. s.studentId # Free
          BY KindsDiffer DEF Sound, Book, RosterRow
        <5>3. c.students[d] = Free
          BY DEF Back, FreeYet
        <5>4. QED BY <3>2, <3>3, <5>1, <5>2, <5>3
      <4>4. QED BY <4>2, <4>3
    <3>7. ASSUME NEW k \in Drones, k # d, c.students[k] # Free, point[k] = n
          PROVE  \E s, t \in e.roster : s.name = n /\ s # t /\ s.studentId = t.studentId
      <4>1. PICK s \in c.roster : s.studentId = c.students[k] /\ s.name = n
        BY <3>7 DEF Back, Theirs
      <4>2. m.students[k] \in Ids
        BY <2>2, <3>7 DEF NoneTyped
      <4>3. PICK t \in RowsOf(m, m.students[k]) : studentOf(m, k) = t.name
        BY <1>1, <4>2, FlownBy
      <4>4. t.name # n
        BY <2>6, <3>7, <4>3 DEF studentAssignedElsewhere
      <4>5. t \in e.roster /\ t.studentId = s.studentId /\ s \in e.roster
        BY <2>2, <3>2, <4>1, <4>3 DEF RowsOf
      <4>6. QED BY <4>1, <4>4, <4>5
    <3>8. SharersDouble(e, point)
      <4>1. SUFFICES ASSUME NEW j \in Drones, NEW k \in Drones, j # k, e.students[j] # Free,
                            e.students[k] # Free, point[j] = point[k]
                     PROVE  \E s, t \in e.roster : s.name = point[j] /\ s # t /\ s.studentId = t.studentId
        BY DEF SharersDouble
      <4>2. CASE j = d
        BY <3>3, <3>7, <4>1, <4>2
      <4>3. CASE k = d
        BY <3>3, <3>7, <4>1, <4>3
      <4>4. CASE j # d /\ k # d
        BY <3>2, <3>3, <4>1, <4>4 DEF Back, SharersDouble
      <4>5. QED BY <4>2, <4>3, <4>4
    <3>9. QED BY <2>3, <2>4, <3>4, <3>5, <3>6, <3>8 DEF Back, e
  <2>7. QED BY <2>5, <2>6
<1>4. QED BY <1>2, <1>3

\* Everybody come to, the Drones are given back.
LEMMA AllBack ==
    ASSUME NEW c, Sound(c), NoneTyped(c), NEW point \in Points, Back(c, point, Drones)
    PROVE  GivenBack(c, point)
<1>1. \A d \in Drones : point[d] = Nobody => studentOf(c, d) = Nobody
  BY FlownBy DEF Back, FreeYet
<1>2. ASSUME NEW n \in Names, IdIsOwn(c, n), NEW d \in Drones, point[d] = n
      PROVE  \E e \in Drones : point[e] = n /\ \A k \in Drones : studentOf(c, k) = n <=> k = e
  <2>0. n # Nobody
    BY NamesAssumption DEF Nobody
  <2>1. \A k \in Drones, s \in c.roster : s.name = n /\ s.studentId = c.students[k] =>
            point[k] = n /\ studentOf(c, k) = n /\ c.students[k] # Free
    <3>1. SUFFICES ASSUME NEW k \in Drones, NEW s \in c.roster, s.name = n, s.studentId = c.students[k]
                   PROVE  point[k] = n /\ studentOf(c, k) = n /\ c.students[k] # Free
      OBVIOUS
    <3>2. c.students[k] \in Ids /\ c.students[k] # Free
      BY <3>1, KindsDiffer DEF Sound, Book, RosterRow
    <3>3. RowsOf(c, c.students[k]) = {s}
      BY <1>2, <3>1 DEF IdIsOwn, RowsNamed
    <3>4. studentOf(c, k) = n
      BY <3>1, <3>2, <3>3, FlownBy
    <3>5. PICK t \in c.roster : t.studentId = c.students[k] /\ t.name = point[k]
      BY <3>2 DEF Back, Theirs
    <3>6. t = s
      BY <3>3, <3>5 DEF RowsOf
    <3>7. QED BY <3>1, <3>2, <3>4, <3>5, <3>6
  <2>2. PICK e \in Drones, s \in c.roster : s.name = n /\ s.studentId = c.students[e]
    BY <1>2, <2>0 DEF Back, AllFly
  <2>3. point[e] = n /\ studentOf(c, e) = n /\ c.students[e] # Free
    BY <2>1, <2>2
  <2>4. ASSUME NEW k \in Drones, studentOf(c, k) = n PROVE k = e
    <3>1. c.students[k] \in Ids
      BY <2>0, <2>4, FlownBy DEF NoneTyped
    <3>2. PICK t \in RowsOf(c, c.students[k]) : t.name = n
      BY <2>4, <3>1, FlownBy
    <3>3. point[k] = n /\ c.students[k] # Free
      BY <2>1, <3>2 DEF RowsOf
    <3>4. ASSUME k # e PROVE FALSE
      <4>1. PICK u \in c.roster, v \in c.roster : u.name = n /\ u # v /\ u.studentId = v.studentId
        BY <2>3, <3>3, <3>4 DEF Back, SharersDouble
      <4>2. QED BY <1>2, <4>1 DEF IdIsOwn, RowsNamed, RowsOf
    <3>5. QED BY <3>4
  <2>5. QED BY <2>3, <2>4
<1>3. QED BY <1>1, <1>2 DEF GivenBack

LEMMA UndoGoesBack ==
    ASSUME NEW b, Sound(b), TypedApart(b), NEW point \in Points, NEW order \in Bijection(Drones, Drones)
    PROVE  /\ Keeps(b, undoLastAssignment(b, point, order))
           /\ Calm(b, undoLastAssignment(b, point, order))
           /\ GivenBack(undoLastAssignment(b, point, order), point)
<1> DEFINE c0 == clearStudents(b)
           done(n) == {order[i] : i \in 1..n}
           Good(n) == {c \in Book : /\ Sound(c) /\ Keeps(b, c) /\ Calm(b, c) /\ NoneTyped(c)
                                    /\ Back(c, point, done(n))}
           P == [n \in 0..DroneCount |-> Good(n)]
           last == typedBack(c0, point, order)
<1>0. /\ order \in [Drones -> Drones]
      /\ \A i, j \in Drones : order[i] = order[j] => i = j
      /\ \A d \in Drones : \E i \in Drones : order[i] = d
  BY DEF Bijection, Injection, Surjection, IsInjective
<1>a. /\ done(0) = {} /\ done(DroneCount) = Drones
      /\ \A n \in Drones : /\ done(n - 1) \in SUBSET Drones
                            /\ order[n] \in Drones \ done(n - 1)
                            /\ done(n) = done(n - 1) \cup {order[n]}
  <2>1. done(0) = {}
    OBVIOUS
  <2>2. done(DroneCount) = Drones
    <3>1. done(DroneCount) = {order[i] : i \in Drones}
      BY DEF Drones
    <3>2. {order[i] : i \in Drones} \subseteq Drones
      BY <1>0
    <3> HIDE DEF done
    <3>3. QED BY <1>0, <3>1, <3>2
  <2>3. ASSUME NEW n \in Drones
        PROVE  /\ done(n - 1) \in SUBSET Drones
               /\ order[n] \in Drones \ done(n - 1)
               /\ done(n) = done(n - 1) \cup {order[n]}
    <3>1. n \in 1..DroneCount
      BY DEF Drones
    <3>2. 1..(n - 1) \subseteq Drones /\ n \notin 1..(n - 1) /\ 1..n = 1..(n - 1) \cup {n}
      BY <3>1, DronesAssumption DEF Drones
    <3>3. QED BY <1>0, <3>2
  <2>4. QED BY <2>1, <2>2, <2>3
<1> HIDE DEF done
<1>1. Sound(c0) /\ Keeps(b, c0) /\ Calm(b, c0)
  BY ClearedAll, QuietPresses
<1>2. \A d \in Drones : c0.students[d] = Free
  BY Migrated DEF clearStudents, Sound, Book
<1> HIDE DEF c0
<1>3. c0 \in Good(0)
  <2>1. NoneTyped(c0)
    BY <1>2 DEF NoneTyped
  <2>2. Back(c0, point, {})
    BY <1>2 DEF Back, FreeYet, Theirs, AllFly, SharersDouble
  <2>3. QED BY <1>1, <1>a, <2>1, <2>2 DEF Sound
<1>4. ASSUME NEW n \in Drones, NEW c, c \in Good(n - 1)
      PROVE  BackOn(c, order[n], point) \in Good(n)
  <2> DEFINE e == BackOn(c, order[n], point)
  <2>0. Sound(c) /\ NoneTyped(c) /\ Back(c, point, done(n - 1)) /\ Keeps(b, c) /\ Calm(b, c)
    BY <1>4
  <2>1. /\ Keeps(c, e) /\ Calm(c, e) /\ NoneTyped(e) /\ Back(e, point, done(n))
    BY <1>a, <2>0, OneTypedBack
  <2>2. Sound(e) /\ e \in Book
    BY <1>0, <2>0, BackOnSound DEF Sound
  <2> HIDE DEF e
  <2>3. Keeps(b, e) /\ Calm(b, e)
    BY <2>0, <2>1, GoesOn
  <2>4. QED BY <2>1, <2>2, <2>3 DEF e
<1>5. \A n \in Drones : n \in 0..DroneCount /\ n - 1 \in 0..DroneCount
  BY DronesAssumption DEF Drones
<1>6. 0 \in 0..DroneCount /\ DroneCount \in 0..DroneCount
  BY DronesAssumption
<1> HIDE DEF Good
<1>7. \A n \in 0..DroneCount : P[n] = Good(n)
  OBVIOUS
<1> HIDE DEF P
<1>8. last \in P[DroneCount]
  <2>1. c0 \in P[0]
    BY <1>3, <1>6, <1>7
  <2>2. \A n \in Drones : \A c : Sound(c) /\ c \in P[n - 1] => BackOn(c, order[n], point) \in P[n]
    BY <1>4, <1>5, <1>7
  <2>3. QED BY <1>0, <1>1, <2>1, <2>2, TypedBackWalks
<1> HIDE DEF last
<1>9. last \in Good(DroneCount)
  BY <1>6, <1>7, <1>8
<1>10. Keeps(b, last) /\ Calm(b, last) /\ GivenBack(last, point)
  BY <1>9, <1>a, AllBack DEF Good
<1>11. undoLastAssignment(b, point, order) = last
  BY DEF undoLastAssignment, last, c0
<1>12. QED BY <1>10, <1>11

\* A row put in, or taken out, gives nobody a Drone; under an id nobody has, it
\* takes nobody's place.
LEMMA UpsertIsCalm ==
    ASSUME NEW b, Sound(b), TypedApart(b), NEW id, NEW name
    PROVE  /\ Calm(b, upsertStudent(b, id, name))
           /\ ~Known(migrateRosterForward(b), id) => Keeps(b, upsertStudent(b, id, name))
<1> DEFINE m == migrateRosterForward(b)
           c == upsertStudent(b, id, name)
<1>1. m \in Book
  BY Migrated DEF Sound
<1>2. /\ c.students = m.students
      /\ c.roster = {s \in m.roster : s.studentId # id} \cup {[studentId |-> id, name |-> name]}
  BY <1>1 DEF upsertStudent, Book
<1>3. ~Known(m, id) => m.roster \subseteq c.roster
  BY <1>2 DEF Known
<1> HIDE DEF c
<1>4. QED BY <1>2, <1>3, MigratedThen DEF c

LEMMA RemovalIsCalm ==
    ASSUME NEW b, Sound(b), TypedApart(b), NEW id
    PROVE  Calm(b, removeStudent(b, id))
<1> DEFINE m == migrateRosterForward(b)
           c == removeStudent(b, id)
<1>1. m \in Book
  BY Migrated DEF Sound
<1>2. \A d \in Drones : c.students[d] = m.students[d] \/ c.students[d] = Free
  BY <1>1 DEF removeStudent, Book
<1> HIDE DEF c
<1>3. QED BY <1>2, MigratedThen DEF c

\* The serial a registered Student gets takes nobody's place.
LEMMA RegisterIsCalm ==
    ASSUME NEW b, Sound(b), TypedApart(b), NEW n \in Names
    PROVE  Keeps(b, registerStudent(b, n)) /\ Calm(b, registerStudent(b, n))
<1> DEFINE m == migrateRosterForward(b)
           k == allocateSerialId(m)
           T == {0} \cup {s.studentId[2] : s \in {r \in m.roster : r.studentId[1] = "S"}}
<1>1. Sound(m)
  BY Migrated
<1>2. \A s \in m.roster : s.studentId \in Ids
  BY <1>1 DEF Sound, Book, RosterRow
<1> HIDE DEF m
<1>3. \A id \in Ids : id[1] = "S" => id[2] \in 1..MaxSerial
  BY DEF Ids, Serial, legacyStudentIdFor, CsvId
<1>4. T \in SUBSET (0..MaxSerial) /\ T # {}
  BY <1>2, <1>3, BoundsAssumption
<1>5. k = 1 + Max(T)
  BY DEF allocateSerialId
<1>6. \A s \in m.roster : s.studentId[1] = "S" => s.studentId[2] \in T
  OBVIOUS
<1> HIDE DEF T, k
<1>7. Max(T) \in T /\ \A j \in T : Max(T) >= j
  BY <1>4, BoundsAssumption, MaxOf
<1>8. \A j \in T : j \in Nat
  BY <1>4, BoundsAssumption
<1>9. ~Known(m, Serial(k))
  <2>1. SUFFICES ASSUME NEW s \in m.roster, s.studentId = Serial(k) PROVE FALSE
    BY DEF Known
  <2>2. s.studentId[1] = "S" /\ s.studentId[2] = k
    BY <2>1 DEF Serial
  <2>3. k \in T
    BY <1>6, <2>2
  <2>4. QED BY <1>5, <1>7, <1>8, <2>3
<1>10. registerStudent(b, n) \in {b, upsertStudent(b, Serial(k), n)}
  BY DEF registerStudent, k, m
<1>11. QED BY <1>9, <1>10, UpsertIsCalm, QuietPresses DEF m

(***************************************************************************)
(* The board.                                                              *)
(***************************************************************************)
LogbookInv == Sound(book) /\ (undoPoint = NoUndo \/ undoPoint \in Points)

LEMMA FirstBookSound == Init => LogbookInv
<1> SUFFICES ASSUME Init PROVE Sound(book)
  BY DEF Init, LogbookInv
<1>0. PICK names \in SUBSET Names, f \in TypedOnceEach : book = NameOnlyBook(names, f)
  BY DEF Init
<1>1. \A d \in Drones : f[d] \notin Ids
  BY KindsDiffer DEF TypedOnceEach
<1>2. book = [roster |-> {}, roll |-> names, students |-> f, absent |-> {},
              plans |-> {}, lessonDrones |-> {}, lessonAssignments |-> {}]
  BY <1>0 DEF EmptyBook, NameOnlyBook
<1>3. f \in [Drones -> Value]
  BY DEF Value, TypedOnceEach
<1>4. book \in Book
  BY <1>2, <1>3 DEF Book
<1>5. book.roster = {} /\ book.lessonAssignments = {} /\ book.students = f
  BY <1>2
<1>6. QED BY <1>1, <1>4, <1>5 DEF Sound, RollIsRoster, IdsDiffer, FlyersKnown,
                                  PlansKnown, OneEach

\* What is kept to undo is a name, or nobody, for every Drone.
LEMMA PointKept ==
    ASSUME NEW b, Sound(b)
    PROVE  Flying(b) \in Points
BY StudentIsNamed DEF Flying, Points

\* The serial a registered Student gets is one nobody has.
LEMMA Registered ==
    ASSUME NEW b, Sound(b), NEW n \in Names,
           allocateSerialId(migrateRosterForward(b)) <= MaxSerial
    PROVE  Sound(registerStudent(b, n))
<1> DEFINE m == migrateRosterForward(b)
           taken == {s.studentId[2] : s \in {r \in m.roster : r.studentId[1] = "S"}}
           T == {0} \cup taken
<1>1. Sound(m)
  BY Migrated
<1>2. \A s \in m.roster : s.studentId \in Ids
  BY <1>1 DEF Sound, Book, RosterRow
<1> HIDE DEF m
<1>3. \A id \in Ids : id[1] = "S" => id[2] \in 1..MaxSerial
  BY DEF Ids, Serial, legacyStudentIdFor, CsvId
<1>4. T \in SUBSET (0..MaxSerial) /\ T # {}
  BY <1>2, <1>3, BoundsAssumption
<1>5. allocateSerialId(m) = 1 + Max(T)
  BY DEF allocateSerialId
<1> HIDE DEF T
<1>6. Max(T) \in Nat
  <2> HIDE DEF taken
  <2>1. MaxSerial \in Nat
    BY BoundsAssumption
  <2>2. Max(T) \in T
    BY <1>4, <2>1, MaxOf
  <2>3. \A k \in T : k \in Nat
    BY <1>4, <2>1
  <2>4. QED BY <2>2, <2>3, Zenon
<1>7. allocateSerialId(m) \in 1..MaxSerial
  BY <1>5, <1>6, BoundsAssumption DEF m
<1>8. Serial(allocateSerialId(m)) \in Ids
  BY <1>7 DEF Ids
<1>9. Sound(upsertStudent(b, Serial(allocateSerialId(m)), n))
  BY <1>8, Upserted
<1>10. QED
  <2>1. registerStudent(b, n) \in {b, upsertStudent(b, Serial(allocateSerialId(m)), n)}
    BY DEF registerStudent, m
  <2>2. QED BY <1>9, <2>1

\* Every press and every import takes a sound book to a sound book.
LEMMA EveryPressSound == LogbookInv /\ [Next]_vars => LogbookInv'
<1> SUFFICES ASSUME LogbookInv, [Next]_vars PROVE LogbookInv'
  OBVIOUS
<1>1. Sound(book) /\ (undoPoint = NoUndo \/ undoPoint \in Points)
  BY DEF LogbookInv
<1>2. \A row \in book.roster : row \in RosterRow
  BY <1>1 DEF Sound, Book
<1>3. \A row \in book.roster : row.studentId \in Ids
  BY <1>2 DEF RosterRow
<1>4. \A l \in book.plans : l \in PlanIds
  BY <1>1 DEF Sound, Book
<1>5. Flying(book) \in Points
  BY <1>1, PointKept
<1>6. ASSUME NEW b, Sound(b), Becomes(b) PROVE LogbookInv'
  BY <1>1, <1>6 DEF Becomes, LogbookInv
<1>7. ASSUME NEW b, Sound(b), book' = b, captureAssignmentUndoPoint PROVE LogbookInv'
  BY <1>5, <1>7 DEF captureAssignmentUndoPoint, LogbookInv
<1>8. ASSUME NEW d \in Drones, ClearStrip(d) PROVE LogbookInv'
  BY <1>1, <1>6, <1>8, ClearedOne DEF ClearStrip
<1>9. ASSUME NEW d \in Drones, AssignNext(d) PROVE LogbookInv'
  BY <1>1, <1>6, <1>9, NextAssigned DEF AssignNext
<1>10. ASSUME NEW d \in Drones, RemoveDrone(d) PROVE LogbookInv'
  <2>1. CASE PlanIds # {}
    BY <1>1, <1>6, <1>10, <2>1, PlanChanged DEF RemoveDrone
  <2>2. CASE PlanIds = {}
    <3> DEFINE m == migrateRosterForward(book)
    <3>1. Sound(m)
      BY <1>1, Migrated
    <3> HIDE DEF m
    <3>2. m.lessonDrones = {} /\ m.lessonAssignments = {}
      BY <2>2, <3>1 DEF Sound, Book
    <3>3. m = [m EXCEPT !.lessonDrones = {}, !.lessonAssignments = {}]
      BY <3>1, <3>2 DEF Sound, Book
    <3>4. removeTrainerDrone(book, d) = m
      BY <3>2, <3>3 DEF removeTrainerDrone, m
    <3>5. QED BY <1>6, <1>10, <3>1, <3>4 DEF RemoveDrone
  <2>3. QED BY <2>1, <2>2
<1>11. ASSUME NEW d \in Drones, NEW n \in Names, TypeName(d, n) PROVE LogbookInv'
  <2>1. Sound(assignStudent(book, d, n))
    BY <1>1, Assigned
  <2>2. QED BY <1>6, <1>11, <2>1, Remembered DEF TypeName
<1>12. ASSUME NEW d \in Drones, NEW n \in Names, EditStrip(d, n) PROVE LogbookInv'
  BY <1>1, <1>6, <1>12, Assigned DEF EditStrip
<1>13. ASSUME NEW d \in Drones, NEW e \in Drones, Swap(d, e) PROVE LogbookInv'
  BY <1>1, <1>7, <1>13, Swapped DEF Swap
<1>14. ASSUME ClearAll PROVE LogbookInv'
  BY <1>1, <1>6, <1>14, ClearedAll DEF ClearAll
<1>15. ASSUME AssignEveryone PROVE LogbookInv'
  BY <1>1, <1>7, <1>15, EverySeatFilled DEF AssignEveryone
<1>16. ASSUME Undo PROVE LogbookInv'
  <2>1. Sound(clearStudents(book)) /\ undoPoint \in Points
    BY <1>1, <1>16, ClearedAll DEF Undo
  <2>2. PICK order \in Bijection(Drones, Drones) : book' = undoLastAssignment(book, undoPoint, order)
    BY <1>16 DEF Undo
  <2>3. order \in [Drones -> Drones]
    BY DEF Bijection, Injection
  <2>4. Sound(book')
    BY <2>1, <2>2, <2>3, AllTypedBack DEF undoLastAssignment
  <2>5. QED BY <1>16, <2>4 DEF Undo, LogbookInv
<1>17. ASSUME Prepare PROVE LogbookInv'
  BY <1>1, <1>6, <1>17, PlanCreated DEF Prepare
<1>18. ASSUME NEW row \in book.roster, MarkAway(row) PROVE LogbookInv'
  BY <1>1, <1>2, <1>7, <1>18, FreedAndAway DEF MarkAway
<1>19. ASSUME NEW row \in book.roster, RemoveStudent(row) PROVE LogbookInv'
  BY <1>1, <1>6, <1>19, Removed DEF RemoveStudent
<1>20. ASSUME NEW row \in book.roster, SetAway(row) PROVE LogbookInv'
  BY <1>1, <1>3, <1>6, <1>20, MarkedAway DEF SetAway
<1>21. ASSUME NEW n \in Names, Register(n) PROVE LogbookInv'
  BY <1>1, <1>6, <1>21, Registered DEF Register
<1>22. ASSUME NEW n \in Names, NEW id \in Ids, CsvRow(id, n) PROVE LogbookInv'
  BY <1>1, <1>6, <1>22, Upserted DEF CsvRow
<1>23. ASSUME NEW names \in SUBSET Names, CsvNames(names) PROVE LogbookInv'
  BY <1>1, <1>6, <1>23, SavedRollSound DEF CsvNames
<1>24. ASSUME NEW l \in book.plans, ApplyPlan(l) PROVE LogbookInv'
  BY <1>1, <1>4, <1>6, <1>24, PlanApplied DEF ApplyPlan
<1>25. ASSUME NEW l \in book.plans, NEW d \in Drones,
              Attach(l, d) \/ Detach(l, d) \/ PlanNobody(l, d)
       PROVE  LogbookInv'
  BY <1>1, <1>4, <1>6, <1>25, PlanChanged DEF Attach, Detach, PlanNobody
<1>26. ASSUME NEW l \in book.plans, NEW d \in Drones, NEW s \in book.roster,
              PlanStudent(l, d, s.studentId)
       PROVE  LogbookInv'
  BY <1>1, <1>4, <1>6, <1>26, PlanSeated DEF PlanStudent, IsIn
<1>27. ASSUME UNCHANGED vars PROVE LogbookInv'
  BY <1>1, <1>27 DEF vars, LogbookInv
<1>28. QED BY <1>8, <1>9, <1>10, <1>11, <1>12, <1>13, <1>14, <1>15, <1>16, <1>17, <1>18, <1>19,
              <1>20, <1>21, <1>22, <1>23, <1>24, <1>25, <1>26, <1>27 DEF Next

\* The book stays sound from the first page, whatever is pressed (logbook.ts).
THEOREM BookIsSound == Spec => []LogbookInv
<1>1. QED BY FirstBookSound, EveryPressSound, PTL DEF Spec

\* Every field of the book holds what its type in logbook.ts says, and the
\* roll is the roster's names.
THEOREM LogbookTypeCorrect == Spec => []LogbookTypeOK
<1>1. LogbookInv => LogbookTypeOK
  BY DEF LogbookInv, Sound, Book, RosterRow, Value, Points, RollIsRoster, LogbookTypeOK
<1>2. QED BY <1>1, BookIsSound, PTL

\* Two Students share an id only if it is the slug of one of them, however they
\* came onto the roster and whatever slugs the names leave: no serial, and no id
\* of a file's own, becomes two Students' (upsertStudent, allocateSerialId).
THEOREM StudentsKeepTheirIds == Spec => []StudentIdsDiffer
<1>1. LogbookInv => StudentIdsDiffer
  BY DEF LogbookInv, Sound, IdsDiffer, StudentIdsDiffer
<1>2. QED BY <1>1, BookIsSound, PTL

\* No assignment and no prepared seat names a Student who was removed, and no
\* seat is left on a Drone that was taken off the Lesson.
THEOREM NothingEverDangles == Spec => []NothingDangles
<1>1. LogbookInv => NothingDangles
  BY DEF LogbookInv, Sound, FlyersKnown, PlansKnown, Known, RowsOf, NothingDangles
<1>2. QED BY <1>1, BookIsSound, PTL

\* A prepared Lesson never gives one Student two Drones, or one Drone two
\* Students (assignStudentToLessonDrone).
THEOREM SeatsAreOneEach == Spec => []OneEachInALesson
<1>1. LogbookInv => OneEachInALesson
  BY DEF LogbookInv, Sound, OneEach, OneEachInALesson
<1>2. QED BY <1>1, BookIsSound, PTL

(***************************************************************************)
(* What a press may do.                                                    *)
(***************************************************************************)
\* A plan copied onto the board leaves no name typed before the roster.
LEMMA PlanLeavesNoneTyped ==
    ASSUME NEW b, Sound(b), TypedApart(b), NEW l
    PROVE  Keeps(b, applyLessonAssignments(b, l)) /\ TypedApart(applyLessonAssignments(b, l))
<1> DEFINE m == migrateRosterForward(b)
           rows == {row \in m.lessonAssignments : row.lessonId = l}
           f == [d \in Drones |->
                   IF \E row \in rows : row.droneId = d
                     THEN (CHOOSE row \in rows : row.droneId = d).studentId ELSE m.students[d]]
           c == [m EXCEPT !.students = f]
<1>1. Sound(m) /\ m \in Book /\ NoneTyped(m)
  BY Migrated, MigratedCalm DEF Sound
<1>2. applyLessonAssignments(b, l) \in {b, c}
  BY <1>1 DEF applyLessonAssignments, Book
<1>3. c.roster = m.roster /\ c.students = f
  BY <1>1 DEF Book
<1>a. Keeps(b, c)
  BY <1>3 DEF Keeps
<1> HIDE DEF m, c
<1>4. \A row \in rows : row.studentId \in Ids
  BY <1>1 DEF Book
<1> HIDE DEF rows
<1>5. \A d \in Drones : f[d] = m.students[d] \/ \E row \in rows : f[d] = row.studentId
  OBVIOUS
<1> HIDE DEF f
<1>6. NoneTyped(c)
  BY <1>1, <1>3, <1>4, <1>5 DEF NoneTyped
<1>7. TypedApart(c)
  BY <1>6 DEF TypedApart, NoneTyped
<1>8. QED BY <1>2, <1>7, <1>a, QuietPresses

Removes == \/ \E row \in book.roster : RemoveStudent(row)
           \/ \E n \in Names, id \in Ids : CsvRow(id, n)
           \/ \E names \in SUBSET Names : CsvNames(names)
Copies == \E l \in PlanIds : ApplyPlan(l)

LEMMA WhatAPressDoes ==
    ASSUME LogbookInv, TypedApart(book), [Next]_vars
    PROVE  /\ Keeps(book, book') \/ Removes
           /\ Calm(book, book') \/ Copies
           /\ TypedApart(book')
           /\ undoPoint # NoUndo /\ undoPoint' = NoUndo => GivenBack(book', undoPoint)
<1> DEFINE Quiet == Keeps(book, book') /\ Calm(book, book')
           Marked == undoPoint' = undoPoint \/ undoPoint' = Flying(book)
<1>1. Sound(book) /\ (undoPoint = NoUndo \/ undoPoint \in Points) /\ Sound(book')
  BY EveryPressSound DEF LogbookInv
<1>2. Flying(book) # NoUndo
  <2>1. Flying(book) \in Points
    BY <1>1, PointKept
  <2>2. NoUndo \notin Points
    BY UndoAssumption DEF Points
  <2>3. QED BY <2>1, <2>2
<1>3. ASSUME NEW b, Becomes(b) PROVE book' = b /\ Marked
  BY <1>3 DEF Becomes
<1>4. ASSUME NEW d \in Drones, ClearStrip(d) \/ RemoveDrone(d) PROVE Quiet /\ Marked
  BY <1>1, <1>3, <1>4, QuietPresses DEF ClearStrip, RemoveDrone
<1>5. ASSUME NEW d \in Drones, AssignNext(d) PROVE Quiet /\ Marked
  BY <1>1, <1>3, <1>5, NextIsCalm DEF AssignNext
<1>6. ASSUME NEW d \in Drones, NEW n \in Names, TypeName(d, n) PROVE Quiet /\ Marked
  <2> DEFINE c == assignStudent(book, d, n)
  <2>1. Sound(c) /\ Keeps(book, c) /\ Calm(book, c)
    BY <1>1, Assigned, AssigningIsCalm
  <2>2. book' = rememberStudent(c, n) /\ Marked
    BY <1>3, <1>6 DEF TypeName
  <2> HIDE DEF c
  <2>3. TypedApart(c)
    BY <2>1, CalmStaysApart
  <2>4. Keeps(c, book') /\ Calm(c, book')
    BY <2>1, <2>2, <2>3, RememberingIsCalm
  <2>5. QED BY <2>1, <2>2, <2>4, GoesOn
<1>7. ASSUME NEW d \in Drones, NEW n \in Names, EditStrip(d, n) PROVE Quiet /\ Marked
  BY <1>1, <1>3, <1>7, AssigningIsCalm DEF EditStrip
<1>8. ASSUME NEW d \in Drones, NEW e \in Drones, Swap(d, e) PROVE Quiet /\ Marked
  BY <1>1, <1>8, SwapIsCalm DEF Swap, captureAssignmentUndoPoint
<1>9. ASSUME ClearAll PROVE Quiet /\ Marked
  BY <1>1, <1>3, <1>9, QuietPresses DEF ClearAll
<1>10. ASSUME AssignEveryone PROVE Quiet /\ Marked
  BY <1>1, <1>10, EveryoneIsCalm DEF AssignEveryone, captureAssignmentUndoPoint
<1>11. ASSUME Undo PROVE Quiet /\ GivenBack(book', undoPoint)
  <2>1. undoPoint \in Points
    BY <1>1, <1>11 DEF Undo
  <2>2. PICK order \in Bijection(Drones, Drones) : book' = undoLastAssignment(book, undoPoint, order)
    BY <1>11 DEF Undo
  <2>3. QED BY <1>1, <2>1, <2>2, UndoGoesBack
<1>12. ASSUME Prepare PROVE Quiet /\ Marked
  BY <1>1, <1>3, <1>12, QuietPresses DEF Prepare
<1>13. ASSUME NEW row \in book.roster, MarkAway(row) PROVE Quiet /\ Marked
  BY <1>1, <1>13, AwayIsQuiet DEF MarkAway, captureAssignmentUndoPoint
<1>14. ASSUME NEW row \in book.roster, SetAway(row) PROVE Quiet /\ Marked
  BY <1>1, <1>3, <1>14, QuietPresses DEF SetAway
<1>15. ASSUME NEW n \in Names, Register(n) PROVE Quiet /\ Marked
  BY <1>1, <1>3, <1>15, RegisterIsCalm DEF Register
<1>16. ASSUME NEW l \in book.plans, NEW d \in Drones,
              Attach(l, d) \/ Detach(l, d) \/ PlanNobody(l, d)
       PROVE  Quiet /\ Marked
  BY <1>1, <1>3, <1>16, QuietPresses DEF Attach, Detach, PlanNobody
<1>17. ASSUME NEW l \in book.plans, NEW d \in Drones, NEW s \in book.roster,
              PlanStudent(l, d, s.studentId)
       PROVE  Quiet /\ Marked
  <2> DEFINE c == assignStudentToLessonDrone(book, l, d, s.studentId)
  <2>1. book' = c /\ Marked
    BY <1>3, <1>17 DEF PlanStudent
  <2>2. Keeps(book, c) /\ Calm(book, c)
    BY <1>1, QuietPresses
  <2> HIDE DEF c
  <2>3. QED BY <2>1, <2>2
<1>18. ASSUME UNCHANGED vars PROVE Quiet /\ Marked
  BY <1>1, <1>18, QuietPresses DEF vars
<1>19. ASSUME NEW row \in book.roster, RemoveStudent(row) PROVE Removes /\ Calm(book, book') /\ Marked
  BY <1>1, <1>3, <1>19, RemovalIsCalm DEF RemoveStudent, Removes
<1>20. ASSUME NEW n \in Names, NEW id \in Ids, CsvRow(id, n)
       PROVE  Removes /\ Calm(book, book') /\ Marked
  BY <1>1, <1>3, <1>20, UpsertIsCalm DEF CsvRow, Removes
<1>21. ASSUME NEW names \in SUBSET Names, CsvNames(names)
       PROVE  Removes /\ Calm(book, book') /\ Marked
  BY <1>1, <1>3, <1>21, SavingIsCalm DEF CsvNames, Removes
<1>22. ASSUME NEW l \in book.plans, ApplyPlan(l)
       PROVE  Copies /\ Keeps(book, book') /\ TypedApart(book') /\ Marked
  <2>1. l \in PlanIds
    BY <1>1 DEF Sound, Book
  <2>2. QED BY <1>1, <1>3, <1>22, <2>1, PlanLeavesNoneTyped DEF ApplyPlan, Copies
<1>23. \/ Quiet /\ Marked
       \/ Quiet /\ GivenBack(book', undoPoint)
       \/ Removes /\ Calm(book, book') /\ Marked
       \/ Copies /\ Keeps(book, book') /\ TypedApart(book') /\ Marked
  BY <1>4, <1>5, <1>6, <1>7, <1>8, <1>9, <1>10, <1>11, <1>12, <1>13, <1>14, <1>15, <1>16, <1>17,
     <1>18, <1>19, <1>20, <1>21, <1>22 DEF Next
<1>24. Calm(book, book') => TypedApart(book')
  BY <1>1, CalmStaysApart
<1>25. QED BY <1>2, <1>23, <1>24

\* The book is sound, and a name typed before there was a roster flies one Drone:
\* inductive over every press and every import (migrateRosterForward).
THEOREM BookIsOrderly == Spec => [](LogbookInv /\ TypedApart(book))
<1>1. Init => TypedApart(book)
  <2>1. SUFFICES ASSUME Init PROVE TypedApart(book)
    OBVIOUS
  <2>2. PICK names \in SUBSET Names, f \in TypedOnceEach : book = NameOnlyBook(names, f)
    BY <2>1 DEF Init
  <2>3. book.roster = {} /\ book.students = f
    BY <2>2 DEF EmptyBook, NameOnlyBook
  <2>4. QED BY <2>3 DEF TypedApart, TypedOnceEach
<1>2. LogbookInv /\ TypedApart(book) /\ [Next]_vars => TypedApart(book)'
  BY WhatAPressDoes
<1>3. QED BY <1>1, <1>2, FirstBookSound, EveryPressSound, PTL DEF Spec

\* A name leaves the roster only when the Teacher removes it or imports a file: the
\* serial a Student is registered under is never somebody's already (allocateSerialId).
THEOREM NobodyIsEverOverwritten == Spec => NobodyIsOverwritten
<1>1. LogbookInv /\ TypedApart(book) /\ [Next]_vars =>
         [\/ \E row \in book.roster : RemoveStudent(row)
          \/ (\E n \in Names, id \in Ids : CsvRow(id, n)) /\ ~Registers
          \/ \E names \in SUBSET Names : CsvNames(names)
          \/ rollFromRoster(book.roster) \subseteq rollFromRoster(book'.roster)]_vars
  <2>1. ASSUME LogbookInv, Keeps(book, book')
        PROVE  rollFromRoster(book.roster) \subseteq rollFromRoster(book'.roster)
    <3>1. book.roster \subseteq book'.roster
      BY <2>1, Migrated DEF LogbookInv, Keeps
    <3>2. QED BY <3>1 DEF rollFromRoster
  <2>2. ASSUME LogbookInv, TypedApart(book), Registers PROVE Keeps(book, book')
    BY <2>2, RegisterIsCalm DEF LogbookInv, Registers, Register, Becomes
  <2>3. QED BY <2>1, <2>2, WhatAPressDoes DEF Removes
<1>2. QED BY <1>1, BookIsOrderly, PTL DEF Spec, NobodyIsOverwritten

\* Only a plan copied onto the board, or an id shared with somebody, gives one Student
\* two Drones: no name typed, no swap, no walk over the board, no Undo and no import
\* does (assignStudent).
THEOREM PlansAloneDouble == Spec => OnlyAPlanDoubles
<1>1. LogbookInv /\ TypedApart(book) /\ [Next]_vars =>
         [(~\E l \in PlanIds : ApplyPlan(l)) =>
             Doubled(book') \subseteq
                 Doubled(book) \cup Shared(migrateRosterForward(book)) \cup Shared(book')]_vars
  BY WhatAPressDoes DEF Copies, Calm
<1>2. QED BY <1>1, BookIsOrderly, PTL DEF Spec, OnlyAPlanDoubles

\* Undo gives everybody who flew when it was captured one of the Drones they had,
\* Students removed since among them, and leaves nobody on a Drone nobody had;
\* only who shares an id may miss theirs (undoLastAssignment).
THEOREM UndoAlwaysGivesBack == Spec => UndoGivesBack
<1>1. LogbookInv /\ TypedApart(book) /\ [Next]_vars =>
         [undoPoint # NoUndo /\ undoPoint' = NoUndo => GivenBack(book', undoPoint)]_vars
  BY WhatAPressDoes
<1>2. QED BY <1>1, BookIsOrderly, PTL DEF Spec, UndoGivesBack

(***************************************************************************)
(* A file of rows, written one after the other.                            *)
(***************************************************************************)
\* What every write leaves: the file after each row follows from the file before it.
Files(old, rows) == [rows : SUBSET (old \cup {rows[i] : i \in DOMAIN rows}), ok : BOOLEAN]

LEMMA InsertTyped ==
    ASSUME NEW old, NEW rows, NEW w \in Files(old, rows), NEW n \in DOMAIN rows
    PROVE  InsertOrReplace(w, rows[n]) \in Files(old, rows)
BY DEF InsertOrReplace, Files, Consistent

LEMMA WriteAllWalks ==
    ASSUME NEW old, NEW T, NEW rows \in Seq(T)
    PROVE  \E f \in [0..Len(rows) -> Files(old, rows)] :
              /\ f[0] = [rows |-> old, ok |-> TRUE]
              /\ \A n \in 1..Len(rows) : f[n] = InsertOrReplace(f[n - 1], rows[n])
              /\ WriteAll(old, rows) = f[Len(rows)]
<1> DEFINE N == Len(rows)
           B == Files(old, rows)
           G == [n \in 1..N |-> [w \in B |-> InsertOrReplace(w, rows[n])]]
           b == [rows |-> old, ok |-> TRUE]
           Is(f) == f = [n \in 0..N |-> IF n = 0 THEN b ELSE InsertOrReplace(f[n - 1], rows[n])]
<1>1. N \in Nat /\ DOMAIN rows = 1..N
  OBVIOUS
<1>2. b \in B
  BY DEF Files
<1>3. G \in [1..N -> [B -> B]]
  BY <1>1, InsertTyped
<1>4. PICK g \in Walks(B, N, G, b) : TRUE
  <2> HIDE DEF N, B, G, b
  <2> QED BY <1>1, <1>2, <1>3, WalkExists
<1>5. Is(g)
  <2>1. g \in [0..N -> B] /\ g[0] = b /\ \A n \in 1..N : g[n] = G[n][g[n - 1]]
    BY <1>4 DEF Walks
  <2>2. ASSUME NEW n \in 1..N
        PROVE  n - 1 \in 0..N /\ g[n] = InsertOrReplace(g[n - 1], rows[n])
    <3>1. n - 1 \in 0..N /\ g[n] = G[n][g[n - 1]] /\ n \in 1..N
      BY <1>1, <2>1
    <3>2. g[n - 1] \in B
      <4> HIDE DEF B, N
      <4> QED BY <2>1, <3>1
    <3>3. G[n][g[n - 1]] = InsertOrReplace(g[n - 1], rows[n])
      <4> HIDE DEF B, N
      <4> QED BY <3>1, <3>2
    <3> QED BY <3>1, <3>3
  <2> QED BY <2>1, <2>2, <1>1
<1>6. WriteAll(old, rows) = (CHOOSE f : Is(f))[N]
  BY DEF WriteAll
<1> DEFINE f == CHOOSE f : Is(f)
<1>7. Is(f)
  <2> HIDE DEF Is
  <2> QED BY <1>5
<1> HIDE DEF f
<1>8. f[0] = b /\ \A n \in 1..N : f[n] = InsertOrReplace(f[n - 1], rows[n])
  <2> HIDE DEF N, b
  <2>1. 0 \in 0..N /\ \A n \in 1..N : n \in 0..N /\ n # 0
    BY <1>1
  <2>2. \A n \in 0..N : f[n] = IF n = 0 THEN b ELSE InsertOrReplace(f[n - 1], rows[n])
    BY <1>7
  <2>3. f[0] = b
    BY <2>1, <2>2
  <2> QED BY <2>1, <2>2, <2>3
<1>9. f \in [0..N -> B]
  <2>1. \A n \in 1..N : f[n - 1] \in B => f[n] \in B
    BY <1>1, <1>8, InsertTyped
  <2>2. f[0] \in B
    BY <1>2, <1>8
  <2> HIDE DEF N, B
  <2>3. \A n \in 0..N : f[n] \in B
    BY <1>1, <2>1, <2>2, WalkStays
  <2> QED BY <1>1, <1>7, <2>3
<1> QED BY <1>6, <1>8, <1>9 DEF f

LEMMA FlattenStays ==
    ASSUME NEW T, NEW N \in Nat, NEW seqs \in [1..N -> Seq(T)]
    PROVE  FlattenSeq(seqs) \in Seq(T)
<1>1. Len(seqs) = N /\ DOMAIN seqs = 1..N
  OBVIOUS
<1>2. CASE N = 0
  BY <1>1, <1>2 DEF FlattenSeq
<1>3. CASE N # 0
  <2> DEFINE Is(f) == f = [i \in 1..N |-> IF i = 1 THEN seqs[i] ELSE f[i - 1] \o seqs[i]]
             B == Seq(T)
             G == [n \in 1..N |-> [x \in B |-> IF n = 1 THEN seqs[n] ELSE x \o seqs[n]]]
  <2>1. FlattenSeq(seqs) = (CHOOSE f : Is(f))[N]
    BY <1>1, <1>3 DEF FlattenSeq
  <2>2. \A n \in 1..N, x \in B : (IF n = 1 THEN seqs[n] ELSE x \o seqs[n]) \in B
    OBVIOUS
  <2>3. PICK g \in Walks(B, N, G, <<>>) : TRUE
    <3>1. G \in [1..N -> [B -> B]]
      BY <2>2
    <3>2. <<>> \in B
      OBVIOUS
    <3> HIDE DEF G, B
    <3> QED BY <3>1, <3>2, WalkExists
  <2>4. /\ \A n \in 0..N : g[n] \in B
        /\ \A n \in 1..N : g[n] = IF n = 1 THEN seqs[n] ELSE g[n - 1] \o seqs[n]
    <3>1. g \in [0..N -> B] /\ \A n \in 1..N : g[n] = G[n][g[n - 1]]
      BY <2>3 DEF Walks
    <3>2. \A n \in 1..N : n - 1 \in 0..N
      OBVIOUS
    <3>3. \A n \in 1..N, x \in B : G[n][x] = IF n = 1 THEN seqs[n] ELSE x \o seqs[n]
      <4> HIDE DEF B
      <4> QED OBVIOUS
    <3> HIDE DEF G, B
    <3> QED BY <3>1, <3>2, <3>3
  <2> DEFINE h == [i \in 1..N |-> g[i]]
  <2>5. Is(h)
    <3>1. \A i \in 1..N : h[i] = IF i = 1 THEN seqs[i] ELSE h[i - 1] \o seqs[i]
      <4>1. \A i \in 1..N : i # 1 => i - 1 \in 1..N
        OBVIOUS
      <4> QED BY <2>4, <4>1
    <3> QED BY <3>1
  <2> DEFINE f == CHOOSE f : Is(f)
  <2>6. Is(f)
    <3> HIDE DEF Is, h
    <3> QED BY <2>5
  <2> HIDE DEF f
  <2>7. \A i \in 1..N : f[i] = IF i = 1 THEN seqs[i] ELSE f[i - 1] \o seqs[i]
    BY <2>6
  <2> DEFINE k == [n \in 0..N |-> IF n = 0 THEN <<>> ELSE f[n]]
  <2>8. k[0] \in B
    OBVIOUS
  <2>9. ASSUME NEW n \in 1..N, k[n - 1] \in B
        PROVE  k[n] \in B
    <3>1. n \in 0..N /\ n # 0 /\ k[n] = f[n] /\ seqs[n] \in B
      OBVIOUS
    <3>2. n # 1 => n - 1 \in 0..N /\ n - 1 # 0 /\ k[n - 1] = f[n - 1]
      OBVIOUS
    <3>3. n # 1 => f[n - 1] \in B
      BY <2>9, <3>2
    <3>4. n # 1 => f[n - 1] \o seqs[n] \in B
      BY <3>1, <3>3
    <3> QED BY <2>7, <3>1, <3>4
  <2>10. k[N] = f[N] /\ N \in 0..N
    BY <1>3
  <2> HIDE DEF k, B
  <2>11. \A n \in 0..N : k[n] \in B
    BY <2>8, <2>9, WalkStays
  <2>12. f[N] \in B
    BY <2>10, <2>11
  <2>13. FlattenSeq(seqs) = f[N]
    BY <2>1 DEF f
  <2> QED BY <2>12, <2>13 DEF B
<1> QED BY <1>2, <1>3

\* A finite set is listed by its members.
LEMMA ListedBy ==
    ASSUME NEW S, IsFiniteSet(S)
    PROVE  SetToSeq(S) \in [1..Cardinality(S) -> S] /\ Cardinality(S) \in Nat
<1>1. Cardinality(S) \in Nat /\ ExistsBijection(1..Cardinality(S), S)
  BY FS_CardinalityType
<1>2. PICK f \in [1..Cardinality(S) -> S] : IsInjective(f)
  <2>1. PICK f \in Bijection(1..Cardinality(S), S) : TRUE
    BY <1>1 DEF ExistsBijection
  <2>2. f \in [1..Cardinality(S) -> S] /\ \A a, b \in DOMAIN f : f[a] = f[b] => a = b
    BY <2>1 DEF Bijection, Injection, Surjection, IsInjective
  <2> QED BY <2>2 DEF IsInjective
<1> QED BY <1>1, <1>2 DEF SetToSeq

(***************************************************************************)
(* The rows of a snapshot, and where they hang.                            *)
(***************************************************************************)
SchoolRow == Row("school", "School", {}, {}, NoUnique, "")
ScenarioId == <<"scenario", "Scenario">>
ScenarioRow == Row("scenario", "Scenario", {}, {}, NoUnique, "")

Tables1 == {"class_group", "teacher", "drone"}
Tables2 == {"student", "lesson"}
Tables3 == {"mission"}
Tables4 == {"team", "checkpoint", "flight"}
Tables5 == {"team_member", "checkpoint_reached"}

\* A row goes when the school goes: it belongs to a row of the table above it.
Hangs(r) ==
    \/ r.id = SchoolId
    \/ r.id[1] \in Tables1 /\ SchoolId \in r.of
    \/ r.id[1] \in Tables2 /\ \E p \in r.of : p[1] \in Tables1
    \/ r.id[1] \in Tables3 /\ \E p \in r.of : p[1] \in Tables2
    \/ r.id[1] \in Tables4 /\ \E p \in r.of : p[1] \in Tables3
    \/ r.id[1] \in Tables5 /\ \E p \in r.of : p[1] \in Tables4

\* Every row but the scenario's hangs below the school, and nothing below the scenario.
Placed(r) ==
    /\ ScenarioId \notin r.of
    /\ r = ScenarioRow \/ (r.id # ScenarioId /\ Hangs(r))

\* What is enough for a snapshot to be written down: its lists are lists.
Listed(s) ==
    /\ IsFiniteSet(s.drones) /\ IsFiniteSet(DOMAIN s.points)
    /\ IsFiniteSet(s.seats) /\ \A seat \in s.seats : IsFiniteSet(seat.reached)
    /\ IsFiniteSet(s.teams) /\ \A team \in s.teams : IsFiniteSet(team.members)

DroneRow(d) == Row("drone", d.id, {SchoolId}, {}, <<"label", d.label>>, "")
StudentRow(s, seat) == Row("student", <<s.label, seat.student>>, {ClassId(s)}, {}, NoUnique, "")
LessonRow(s) == Row("lesson", s.lesson, {ClassId(s)}, {TeacherId}, NoUnique, s.ended)
RoomPart(s) ==
    {SchoolRow, Row("class_group", s.label, {SchoolId}, {}, NoUnique, ""),
     Row("teacher", "Teacher", {SchoolId}, {}, NoUnique, ""), LessonRow(s)}
    \cup {DroneRow(d) : d \in s.drones} \cup {StudentRow(s, seat) : seat \in s.seats}

LEMMA RowIs ==
    ASSUME NEW a, NEW b, NEW of, NEW uses, NEW u, NEW says
    PROVE  /\ Row(a, b, of, uses, u, says).id = <<a, b>>
           /\ Row(a, b, of, uses, u, says).of = of
           /\ Row(a, b, of, uses, u, says).uses = uses
           /\ Row(a, b, of, uses, u, says).unique = u
           /\ <<a, b>>[1] = a
BY DEF Row

LEMMA SetListed ==
    ASSUME NEW S, IsFiniteSet(S), NEW T, S \subseteq T
    PROVE  SetToSeq(S) \in Seq(T) /\ \A i \in DOMAIN SetToSeq(S) : SetToSeq(S)[i] \in S
<1>1. SetToSeq(S) \in [1..Cardinality(S) -> S] /\ Cardinality(S) \in Nat
  BY ListedBy
<1> DEFINE q == SetToSeq(S)
           n == Cardinality(S)
<1> HIDE DEF q, n
<1>2. q \in [1..n -> S] /\ n \in Nat
  BY <1>1 DEF q, n
<1> QED BY <1>2 DEF q

LEMMA ImageFinite ==
    ASSUME NEW S, IsFiniteSet(S), NEW f, DOMAIN f = S
    PROVE  IsFiniteSet({f[x] : x \in S})
<1> DEFINE T == {f[x] : x \in S}
           g == [x \in S |-> f[x]]
<1>1. g \in Surjection(S, T)
  BY DEF Surjection
<1> HIDE DEF T, g
<1>2. IsFiniteSet(T)
  BY <1>1, FS_Surjection
<1> QED BY <1>2 DEF T

\* What is put behind a list leaves its places as they were.
LEMMA Followed ==
    ASSUME NEW T, NEW a \in Seq(T), NEW b \in Seq(T)
    PROVE  /\ a \o b \in Seq(T) /\ Len(a \o b) = Len(a) + Len(b)
           /\ \A i \in 1..Len(a) : (a \o b)[i] = a[i]
           /\ \A i \in 1..Len(b) : (a \o b)[Len(a) + i] = b[i]
BY ConcatProperties

LEMMA Headed ==
    ASSUME NEW T, NEW a \in Seq(T), NEW b \in Seq(T), Len(a) >= 1
    PROVE  a \o b \in Seq(T) /\ Len(a \o b) >= Len(a) /\ (a \o b)[1] = a[1]
<1>1. Len(a) \in Nat /\ Len(b) \in Nat /\ 1 \in 1..Len(a)
  OBVIOUS
<1> QED BY <1>1, Followed

LEMMA RoomRowsListed ==
    ASSUME NEW s, Listed(s)
    PROVE  /\ RoomRows(s) \in Seq(RoomPart(s)) /\ Len(RoomRows(s)) >= 1
           /\ RoomRows(s)[1] = SchoolRow
<1> DEFINE P == RoomPart(s)
           A == << SchoolRow, Row("class_group", s.label, {SchoolId}, {}, NoUnique, ""),
                   Row("teacher", "Teacher", {SchoolId}, {}, NoUnique, "") >>
           B == SetToSeq({DroneRow(d) : d \in s.drones})
           C == SetToSeq({StudentRow(s, seat) : seat \in s.seats})
           D == << LessonRow(s) >>
<1>1. RoomRows(s) = A \o B \o C \o D
  BY DEF RoomRows, SchoolRow, DroneRow, StudentRow, LessonRow
<1>2. A \in Seq(P) /\ Len(A) = 3 /\ A[1] = SchoolRow /\ D \in Seq(P) /\ Len(D) = 1
  BY DEF RoomPart
<1>3. B \in Seq(P)
  <2>1. IsFiniteSet({DroneRow(d) : d \in s.drones})
    <3> DEFINE f == [d \in s.drones |-> DroneRow(d)]
    <3>1. DOMAIN f = s.drones /\ IsFiniteSet(s.drones) /\ {f[x] : x \in s.drones} = {DroneRow(d) : d \in s.drones}
      BY DEF Listed
    <3> HIDE DEF f
    <3> QED BY <3>1, ImageFinite
  <2>2. {DroneRow(d) : d \in s.drones} \subseteq P
    BY DEF RoomPart
  <2> QED BY <2>1, <2>2, SetListed
<1>4. C \in Seq(P)
  <2>1. IsFiniteSet({StudentRow(s, seat) : seat \in s.seats})
    <3> DEFINE f == [seat \in s.seats |-> StudentRow(s, seat)]
    <3>1. DOMAIN f = s.seats /\ IsFiniteSet(s.seats) /\ {f[x] : x \in s.seats} = {StudentRow(s, seat) : seat \in s.seats}
      BY DEF Listed
    <3> HIDE DEF f
    <3> QED BY <3>1, ImageFinite
  <2>2. {StudentRow(s, seat) : seat \in s.seats} \subseteq P
    BY DEF RoomPart
  <2> QED BY <2>1, <2>2, SetListed
<1> HIDE DEF A, B, C, D, P
<1>5. A \o B \o C \o D \in Seq(P) /\ Len(A \o B \o C \o D) >= 1 /\ (A \o B \o C \o D)[1] = SchoolRow
  <2>1. A \o B \in Seq(P) /\ Len(A \o B) >= 3 /\ (A \o B)[1] = SchoolRow
    <3>1. A \in Seq(P) /\ B \in Seq(P) /\ Len(A) >= 1
      BY <1>2, <1>3
    <3>2. A \o B \in Seq(P) /\ Len(A \o B) >= Len(A) /\ (A \o B)[1] = A[1]
      BY <3>1, Headed
    <3> QED BY <1>2, <3>2
  <2>2. A \o B \o C \in Seq(P) /\ Len(A \o B \o C) >= 3 /\ (A \o B \o C)[1] = SchoolRow
    BY <2>1, <1>4, Headed
  <2> QED BY <2>2, <1>2, Headed
<1> QED BY <1>1, <1>5 DEF P

MissionRow(s) == Row("mission", s.mission, {LessonId(s)}, {ScenarioId}, NoUnique, "")
TeamRow(s, team) == Row("team", team.id, {MissionId(s)}, {}, NoUnique, "")
MemberRow(s, team, m) ==
    Row("team_member", <<team.id, m>>, {<<"team", team.id>>, StudentId(s, m)}, {}, NoUnique, "")
PointRow(s, i) == Row("checkpoint", s.points[i], {MissionId(s)}, {}, <<"ordinal", s.mission, i>>, "")
FlightKey(s, seat) == <<s.mission, seat.student>>
FlightRow(s, seat) ==
    Row("flight", FlightKey(s, seat), {MissionId(s)},
        {<<"team", (CHOOSE t \in TeamOf(s, seat) : TRUE).id>>, <<"drone", seat.drone>>}, NoUnique, "")
ReachedRow(s, seat, p) ==
    Row("checkpoint_reached", <<FlightKey(s, seat), p>>,
        {<<"flight", FlightKey(s, seat)>>, <<"checkpoint", p>>}, {}, NoUnique, "")
TeamPart(s, team) == {TeamRow(s, team)} \cup {MemberRow(s, team, m) : m \in team.members}
FlightPart(s, seat) == {FlightRow(s, seat)} \cup {ReachedRow(s, seat, p) : p \in seat.reached}
TeamParts(s) == UNION {TeamPart(s, team) : team \in s.teams}
FlightParts(s) == UNION {FlightPart(s, seat) : seat \in s.seats}
PointPart(s) == {PointRow(s, i) : i \in DOMAIN s.points}
MissionPart(s) ==
    {ScenarioRow, MissionRow(s)} \cup PointPart(s) \cup TeamParts(s) \cup FlightParts(s)

LEMMA TeamRowsListed ==
    ASSUME NEW s, Listed(s), NEW team \in s.teams
    PROVE  TeamRows(s, team) \in Seq(MissionPart(s))
<1> DEFINE S == {MemberRow(s, team, m) : m \in team.members}
           P == MissionPart(s)
<1>1. TeamRows(s, team) = << TeamRow(s, team) >> \o SetToSeq(S)
  BY DEF TeamRows, TeamRow, MemberRow
<1>2. IsFiniteSet(S)
  <2> DEFINE f == [m \in team.members |-> MemberRow(s, team, m)]
  <2>1. DOMAIN f = team.members /\ IsFiniteSet(team.members) /\ {f[x] : x \in team.members} = S
    BY DEF Listed
  <2> HIDE DEF f, S
  <2> QED BY <2>1, ImageFinite
<1>3. S \subseteq P /\ TeamRow(s, team) \in P
  <2>1. S \subseteq TeamPart(s, team) /\ TeamRow(s, team) \in TeamPart(s, team)
    BY DEF TeamPart
  <2>2. TeamPart(s, team) \subseteq TeamParts(s)
    BY DEF TeamParts
  <2>3. TeamParts(s) \subseteq P
    BY DEF MissionPart
  <2> QED BY <2>1, <2>2, <2>3
<1> HIDE DEF S, P
<1>4. SetToSeq(S) \in Seq(P) /\ << TeamRow(s, team) >> \in Seq(P)
  BY <1>2, <1>3, SetListed
<1> QED BY <1>1, <1>4, Followed DEF P

LEMMA FlightRowsListed ==
    ASSUME NEW s, Listed(s), NEW seat \in s.seats
    PROVE  FlightRows(s, seat) \in Seq(MissionPart(s))
<1> DEFINE S == {ReachedRow(s, seat, p) : p \in seat.reached}
           P == MissionPart(s)
<1>1. FlightRows(s, seat) \in {<<>>, << FlightRow(s, seat) >> \o SetToSeq(S)}
  BY DEF FlightRows, FlightRow, ReachedRow, FlightKey
<1>2. IsFiniteSet(S)
  <2> DEFINE f == [p \in seat.reached |-> ReachedRow(s, seat, p)]
  <2>1. DOMAIN f = seat.reached /\ IsFiniteSet(seat.reached) /\ {f[x] : x \in seat.reached} = S
    BY DEF Listed
  <2> HIDE DEF f, S
  <2> QED BY <2>1, ImageFinite
<1>3. S \subseteq P /\ FlightRow(s, seat) \in P
  <2>1. S \subseteq FlightPart(s, seat) /\ FlightRow(s, seat) \in FlightPart(s, seat)
    BY DEF FlightPart
  <2>2. FlightPart(s, seat) \subseteq FlightParts(s)
    BY DEF FlightParts
  <2>3. FlightParts(s) \subseteq P
    BY DEF MissionPart
  <2> QED BY <2>1, <2>2, <2>3
<1> HIDE DEF S, P
<1>4. SetToSeq(S) \in Seq(P) /\ << FlightRow(s, seat) >> \in Seq(P) /\ <<>> \in Seq(P)
  BY <1>2, <1>3, SetListed
<1>5. << FlightRow(s, seat) >> \o SetToSeq(S) \in Seq(P)
  BY <1>4, Followed
<1> QED BY <1>1, <1>4, <1>5 DEF P

LEMMA MissionRowsListed ==
    ASSUME NEW s, Listed(s)
    PROVE  /\ MissionRows(s) \in Seq(MissionPart(s))
           /\ MissionRows(s) # <<>> => Len(MissionRows(s)) >= 1 /\ MissionRows(s)[1] = ScenarioRow
<1> DEFINE P == MissionPart(s)
           A == << ScenarioRow, MissionRow(s) >>
           B == FlattenSeq([i \in 1..Cardinality(s.teams) |-> TeamRows(s, SetToSeq(s.teams)[i])])
           C == PointRows(s)
           D == FlattenSeq([i \in 1..Cardinality(s.seats) |-> FlightRows(s, SetToSeq(s.seats)[i])])
<1>1. MissionRows(s) \in {<<>>, A \o B \o C \o D}
  BY DEF MissionRows, ScenarioRow, MissionRow, ScenarioId
<1>2. A \in Seq(P) /\ Len(A) = 2 /\ A[1] = ScenarioRow /\ <<>> \in Seq(P)
  BY DEF MissionPart
<1>3. B \in Seq(P)
  <2>1. SetToSeq(s.teams) \in [1..Cardinality(s.teams) -> s.teams] /\ Cardinality(s.teams) \in Nat
    BY ListedBy DEF Listed
  <2>2. \A i \in 1..Cardinality(s.teams) : TeamRows(s, SetToSeq(s.teams)[i]) \in Seq(P)
    BY <2>1, TeamRowsListed
  <2> HIDE DEF P
  <2> QED BY <2>1, <2>2, FlattenStays
<1>4. C \in Seq(P)
  <2> DEFINE S == {PointRow(s, i) : i \in DOMAIN s.points}
             f == [i \in DOMAIN s.points |-> PointRow(s, i)]
  <2>1. DOMAIN f = DOMAIN s.points /\ IsFiniteSet(DOMAIN s.points) /\ {f[x] : x \in DOMAIN s.points} = S
    BY DEF Listed
  <2>2. S \subseteq P /\ C = SetToSeq(S)
    <3>1. S \subseteq P
      BY DEF MissionPart, PointPart
    <3>2. C = SetToSeq(S)
      BY Zenon DEF PointRows, PointRow
    <3> QED BY <3>1, <3>2
  <2> HIDE DEF f, S, P, C
  <2>3. IsFiniteSet(S)
    BY <2>1, ImageFinite
  <2> QED BY <2>2, <2>3, SetListed
<1>5. D \in Seq(P)
  <2>1. SetToSeq(s.seats) \in [1..Cardinality(s.seats) -> s.seats] /\ Cardinality(s.seats) \in Nat
    BY ListedBy DEF Listed
  <2>2. \A i \in 1..Cardinality(s.seats) : FlightRows(s, SetToSeq(s.seats)[i]) \in Seq(P)
    BY <2>1, FlightRowsListed
  <2> HIDE DEF P
  <2> QED BY <2>1, <2>2, FlattenStays
<1> HIDE DEF A, B, C, D, P
<1>6. A \o B \o C \o D \in Seq(P) /\ Len(A \o B \o C \o D) >= 1 /\ (A \o B \o C \o D)[1] = ScenarioRow
  <2>1. A \o B \in Seq(P) /\ Len(A \o B) >= 2 /\ (A \o B)[1] = ScenarioRow
    <3>1. A \in Seq(P) /\ B \in Seq(P) /\ Len(A) >= 1
      BY <1>2, <1>3
    <3>2. A \o B \in Seq(P) /\ Len(A \o B) >= Len(A) /\ (A \o B)[1] = A[1]
      BY <3>1, Headed
    <3> QED BY <1>2, <3>2
  <2>2. A \o B \o C \in Seq(P) /\ Len(A \o B \o C) >= 2 /\ (A \o B \o C)[1] = ScenarioRow
    BY <2>1, <1>4, Headed
  <2> QED BY <2>2, <1>5, Headed
<1> QED BY <1>1, <1>2, <1>6 DEF P

\* The tables a row of each table hangs from.
Hung(table, of) ==
    \/ table \in Tables1 /\ SchoolId \in of
    \/ table \in Tables2 /\ \E p \in of : p[1] \in Tables1
    \/ table \in Tables3 /\ \E p \in of : p[1] \in Tables2
    \/ table \in Tables4 /\ \E p \in of : p[1] \in Tables3
    \/ table \in Tables5 /\ \E p \in of : p[1] \in Tables4

\* A row that hangs from the table above its own is placed, and is not the scenario's.
LEMMA HungPlaced ==
    ASSUME NEW r, NEW of, r.of = of, \A p \in of : p[1] # "scenario", Hung(r.id[1], of)
    PROVE  Placed(r) /\ r # ScenarioRow
<1>1. r.id[1] # "scenario"
  BY DEF Hung, Tables1, Tables2, Tables3, Tables4, Tables5
<1>2. ScenarioRow.id = ScenarioId /\ ScenarioId[1] = "scenario"
  BY DEF ScenarioRow, ScenarioId, Row
<1>3. ScenarioId \notin r.of /\ r.id # ScenarioId /\ r # ScenarioRow
  BY <1>1, <1>2
<1>4. Hangs(r)
  BY DEF Hangs, Hung
<1> QED BY <1>3, <1>4 DEF Placed

LEMMA RowPlaced ==
    ASSUME NEW table, NEW key, NEW of, NEW uses, NEW unique, NEW says,
           \A p \in of : p[1] # "scenario", Hung(table, of)
    PROVE  /\ Placed(Row(table, key, of, uses, unique, says))
           /\ Row(table, key, of, uses, unique, says) # ScenarioRow
           /\ Row(table, key, of, uses, unique, says).id[1] = table
<1> DEFINE r == Row(table, key, of, uses, unique, says)
<1>1. r.of = of /\ r.id[1] = table
  BY DEF Row
<1> HIDE DEF r
<1>2. Placed(r) /\ r # ScenarioRow
  BY <1>1, HungPlaced
<1> QED BY <1>1, <1>2 DEF r

\* The rows of a room hang where they should, its lesson is the snapshot's, and
\* none of them refers to a scenario.
LEMMA RoomPlaced ==
    ASSUME NEW s, NEW r \in RoomPart(s)
    PROVE  Placed(r) /\ r # ScenarioRow /\ ScenarioId \notin r.uses
           /\ (r.id[1] = "lesson" => r.id = LessonId(s))
<1>1. CASE r = SchoolRow
  <2>1. r.id = SchoolId /\ r.of = {} /\ r.uses = {}
    BY <1>1 DEF SchoolRow, SchoolId, Row
  <2>2. SchoolId[1] = "school" /\ SchoolId # ScenarioId /\ ScenarioRow.id = ScenarioId
    BY DEF SchoolId, ScenarioId, ScenarioRow, Row
  <2> QED BY <2>1, <2>2 DEF Placed, Hangs
<1>2. CASE r = Row("class_group", s.label, {SchoolId}, {}, NoUnique, "")
  <2>1. r = Row("class_group", s.label, {SchoolId}, {}, NoUnique, "")
    BY <1>2
  <2>2. Hung("class_group", {SchoolId}) /\ \A p \in {SchoolId} : p[1] # "scenario"
    BY DEF Hung, SchoolId, Tables1
  <2>3. r.uses = {} /\ ScenarioId \notin {} /\ "class_group" # "lesson"
    BY <2>1 DEF Row, ScenarioId, TeacherId, LessonId
  <2>4. r.of = {SchoolId} /\ r.id[1] = "class_group"
    BY <2>1 DEF Row
  <2>5. Placed(r) /\ r # ScenarioRow
    BY <2>2, <2>4, HungPlaced
  <2> QED BY <2>3, <2>4, <2>5
<1>3. CASE r = Row("teacher", "Teacher", {SchoolId}, {}, NoUnique, "")
  <2>1. r = Row("teacher", "Teacher", {SchoolId}, {}, NoUnique, "")
    BY <1>3
  <2>2. Hung("teacher", {SchoolId}) /\ \A p \in {SchoolId} : p[1] # "scenario"
    BY DEF Hung, SchoolId, Tables1
  <2>3. r.uses = {} /\ ScenarioId \notin {} /\ "teacher" # "lesson"
    BY <2>1 DEF Row, ScenarioId, TeacherId, LessonId
  <2>4. r.of = {SchoolId} /\ r.id[1] = "teacher"
    BY <2>1 DEF Row
  <2>5. Placed(r) /\ r # ScenarioRow
    BY <2>2, <2>4, HungPlaced
  <2> QED BY <2>3, <2>4, <2>5
<1>4. CASE r = LessonRow(s)
  <2>1. r = Row("lesson", s.lesson, {ClassId(s)}, {TeacherId}, NoUnique, s.ended)
    BY <1>4 DEF LessonRow
  <2>2. Hung("lesson", {ClassId(s)}) /\ \A p \in {ClassId(s)} : p[1] # "scenario"
    BY DEF Hung, ClassId, Tables1, Tables2
  <2>3. r.uses = {TeacherId} /\ ScenarioId \notin {TeacherId} /\ r.id = LessonId(s)
    BY <2>1 DEF Row, ScenarioId, TeacherId, LessonId
  <2>4. r.of = {ClassId(s)} /\ r.id[1] = "lesson"
    BY <2>1 DEF Row
  <2>5. Placed(r) /\ r # ScenarioRow
    BY <2>2, <2>4, HungPlaced
  <2> QED BY <2>3, <2>4, <2>5
<1>5. CASE r \in {DroneRow(d) : d \in s.drones}
  <2>0. PICK d \in s.drones : r = DroneRow(d)
    BY <1>5
  <2>1. r = Row("drone", d.id, {SchoolId}, {}, <<"label", d.label>>, "")
    BY <2>0 DEF DroneRow
  <2>2. Hung("drone", {SchoolId}) /\ \A p \in {SchoolId} : p[1] # "scenario"
    BY DEF Hung, SchoolId, Tables1
  <2>3. r.uses = {} /\ ScenarioId \notin {} /\ "drone" # "lesson"
    BY <2>1 DEF Row, ScenarioId, TeacherId, LessonId
  <2>4. r.of = {SchoolId} /\ r.id[1] = "drone"
    BY <2>1 DEF Row
  <2>5. Placed(r) /\ r # ScenarioRow
    BY <2>2, <2>4, HungPlaced
  <2> QED BY <2>3, <2>4, <2>5
<1>6. CASE r \in {StudentRow(s, seat) : seat \in s.seats}
  <2>0. PICK seat \in s.seats : r = StudentRow(s, seat)
    BY <1>6
  <2>1. r = Row("student", <<s.label, seat.student>>, {ClassId(s)}, {}, NoUnique, "")
    BY <2>0 DEF StudentRow
  <2>2. Hung("student", {ClassId(s)}) /\ \A p \in {ClassId(s)} : p[1] # "scenario"
    BY DEF Hung, ClassId, Tables1, Tables2
  <2>3. r.uses = {} /\ ScenarioId \notin {} /\ "student" # "lesson"
    BY <2>1 DEF Row, ScenarioId, TeacherId, LessonId
  <2>4. r.of = {ClassId(s)} /\ r.id[1] = "student"
    BY <2>1 DEF Row
  <2>5. Placed(r) /\ r # ScenarioRow
    BY <2>2, <2>4, HungPlaced
  <2> QED BY <2>3, <2>4, <2>5
<1> QED BY <1>1, <1>2, <1>3, <1>4, <1>5, <1>6 DEF RoomPart

LEMMA MissionPlaced ==
    ASSUME NEW s, NEW r \in MissionPart(s)
    PROVE  Placed(r) /\ r.id[1] # "lesson"
<1>1. CASE r = ScenarioRow
  <2>1. r.id = ScenarioId /\ r.of = {} /\ ScenarioId[1] = "scenario"
    BY <1>1 DEF ScenarioRow, ScenarioId, Row
  <2> QED BY <1>1, <2>1 DEF Placed
<1>2. CASE r = MissionRow(s)
  <2>1. r = Row("mission", s.mission, {LessonId(s)},
                {ScenarioId}, NoUnique, "")
    BY <1>2 DEF MissionRow
  <2>2. Hung("mission", {LessonId(s)}) /\ \A p \in {LessonId(s)} : p[1] # "scenario"
    BY DEF Hung, LessonId, Tables2, Tables3
  <2> QED BY <2>1, <2>2, RowPlaced
<1>3. CASE r \in PointPart(s)
  <2>0. PICK i \in DOMAIN s.points : r = PointRow(s, i)
    BY <1>3 DEF PointPart
  <2>1. r = Row("checkpoint", s.points[i], {MissionId(s)},
                {}, <<"ordinal", s.mission, i>>, "")
    BY <2>0 DEF PointRow
  <2>2. Hung("checkpoint", {MissionId(s)}) /\ \A p \in {MissionId(s)} : p[1] # "scenario"
    BY DEF Hung, MissionId, Tables3, Tables4
  <2> QED BY <2>1, <2>2, RowPlaced
<1>4. CASE r \in TeamParts(s)
  <2>1. PICK team \in s.teams : r \in TeamPart(s, team)
    BY <1>4 DEF TeamParts
  <2>2. CASE r = TeamRow(s, team)
    <3>1. r = Row("team", team.id, {MissionId(s)},
                  {}, NoUnique, "")
      BY <2>2 DEF TeamRow
    <3>2. Hung("team", {MissionId(s)}) /\ \A p \in {MissionId(s)} : p[1] # "scenario"
      BY DEF Hung, MissionId, Tables3, Tables4
    <3> QED BY <3>1, <3>2, RowPlaced
  <2>3. CASE r \in {MemberRow(s, team, m) : m \in team.members}
    <3>0. PICK m \in team.members : r = MemberRow(s, team, m)
      BY <2>3
    <3>1. r = Row("team_member", <<team.id, m>>, {<<"team", team.id>>, StudentId(s, m)},
                  {}, NoUnique, "")
      BY <3>0 DEF MemberRow
    <3>2. Hung("team_member", {<<"team", team.id>>, StudentId(s, m)}) /\ \A p \in {<<"team", team.id>>, StudentId(s, m)} : p[1] # "scenario"
      BY DEF Hung, StudentId, Tables4, Tables5
    <3> QED BY <3>1, <3>2, RowPlaced
  <2> QED BY <2>1, <2>2, <2>3 DEF TeamPart
<1>5. CASE r \in FlightParts(s)
  <2>1. PICK seat \in s.seats : r \in FlightPart(s, seat)
    BY <1>5 DEF FlightParts
  <2>2. CASE r = FlightRow(s, seat)
    <3>1. r = Row("flight", FlightKey(s, seat), {MissionId(s)},
                  {<<"team", (CHOOSE t \in TeamOf(s, seat) : TRUE).id>>, <<"drone", seat.drone>>}, NoUnique, "")
      BY <2>2 DEF FlightRow
    <3>2. Hung("flight", {MissionId(s)}) /\ \A p \in {MissionId(s)} : p[1] # "scenario"
      BY DEF Hung, MissionId, Tables3, Tables4
    <3> QED BY <3>1, <3>2, RowPlaced
  <2>3. CASE r \in {ReachedRow(s, seat, p) : p \in seat.reached}
    <3>0. PICK q \in seat.reached : r = ReachedRow(s, seat, q)
      BY <2>3
    <3>1. r = Row("checkpoint_reached", <<FlightKey(s, seat), q>>, {<<"flight", FlightKey(s, seat)>>, <<"checkpoint", q>>},
                  {}, NoUnique, "")
      BY <3>0 DEF ReachedRow
    <3>2. Hung("checkpoint_reached", {<<"flight", FlightKey(s, seat)>>, <<"checkpoint", q>>}) /\ \A p \in {<<"flight", FlightKey(s, seat)>>, <<"checkpoint", q>>} : p[1] # "scenario"
      BY DEF Hung, FlightKey, Tables4, Tables5
    <3> QED BY <3>1, <3>2, RowPlaced
  <2> QED BY <2>1, <2>2, <2>3 DEF FlightPart
<1> QED BY <1>1, <1>2, <1>3, <1>4, <1>5 DEF MissionPart

Parts(s) == RoomPart(s) \cup MissionPart(s)

LEMMA LessonRowsListed ==
    ASSUME NEW s, Listed(s)
    PROVE  /\ LessonRows(s) \in Seq(Parts(s)) /\ LessonRows(s)[1] = SchoolRow
           /\ Len(RoomRows(s)) \in 1..Len(LessonRows(s))
           /\ \A i \in 1..Len(RoomRows(s)) : LessonRows(s)[i] \in RoomPart(s)
           /\ Len(RoomRows(s)) < Len(LessonRows(s)) => LessonRows(s)[Len(RoomRows(s)) + 1] = ScenarioRow
<1> DEFINE P == Parts(s)
           A == RoomRows(s)
           B == MissionRows(s)
<1>1. A \in Seq(RoomPart(s)) /\ Len(A) >= 1 /\ A[1] = SchoolRow
  BY RoomRowsListed
<1>2. A \in Seq(P) /\ B \in Seq(P) /\ (B # <<>> => Len(B) >= 1 /\ B[1] = ScenarioRow)
  BY <1>1, MissionRowsListed DEF Parts
<1>3. LessonRows(s) = A \o B
  BY DEF LessonRows
<1> HIDE DEF A, B, P
<1>4. /\ A \o B \in Seq(P) /\ Len(A \o B) = Len(A) + Len(B)
      /\ \A i \in 1..Len(A) : (A \o B)[i] = A[i]
      /\ \A i \in 1..Len(B) : (A \o B)[Len(A) + i] = B[i]
  BY <1>2, Followed
<1>5. Len(A) \in Nat /\ Len(B) \in Nat /\ (Len(B) > 0 => B # <<>>)
  BY <1>2
<1>6. (A \o B)[1] = SchoolRow /\ Len(A) \in 1..Len(A \o B)
  BY <1>1, <1>4, <1>5
<1>7. \A i \in 1..Len(A) : (A \o B)[i] \in RoomPart(s)
  BY <1>1, <1>4
<1>8. ASSUME Len(A) < Len(A \o B) PROVE (A \o B)[Len(A) + 1] = ScenarioRow
  <2>1. Len(B) > 0 /\ 1 \in 1..Len(B)
    BY <1>4, <1>5, <1>8
  <2> QED BY <1>2, <1>4, <1>5, <2>1
<1> QED BY <1>3, <1>4, <1>6, <1>7, <1>8 DEF A, P

(***************************************************************************)
(* The school row takes everything with it.                                *)
(***************************************************************************)
Settled(rows) == Consistent(rows) /\ \A r \in rows : Placed(r)

LEMMA UnderTakes ==
    ASSUME NEW X, NEW going, NEW r \in X, NEW q \in going, q.id \in r.of
    PROVE  r \in Under(X, going)
BY DEF Under, IdsOf

LEMMA UnderKeeps ==
    ASSUME NEW X, NEW going
    PROVE  going \subseteq Under(X, going)
BY DEF Under

\* A row of a table hangs below a row of the table above it, which is in the file.
LEMMA HangsBelow ==
    ASSUME NEW X, Settled(X), NEW r \in X, r # ScenarioRow
    PROVE  \/ r.id = SchoolId
           \/ r.id[1] \in Tables1 /\ \E q \in X : q.id = SchoolId /\ q.id \in r.of
           \/ r.id[1] \in Tables2 /\ \E q \in X : q.id[1] \in Tables1 /\ q.id \in r.of
           \/ r.id[1] \in Tables3 /\ \E q \in X : q.id[1] \in Tables2 /\ q.id \in r.of
           \/ r.id[1] \in Tables4 /\ \E q \in X : q.id[1] \in Tables3 /\ q.id \in r.of
           \/ r.id[1] \in Tables5 /\ \E q \in X : q.id[1] \in Tables4 /\ q.id \in r.of
<1>1. \A p \in r.of : \E q \in X : q.id = p
  BY DEF Settled, Consistent, IdsOf
<1>2. Hangs(r)
  BY DEF Settled, Placed
<1>3. SchoolId \in r.of => \E q \in X : q.id = SchoolId /\ q.id \in r.of
  BY <1>1
<1>4. ASSUME NEW T, \E p \in r.of : p[1] \in T
      PROVE  \E q \in X : q.id[1] \in T /\ q.id \in r.of
  BY <1>1, <1>4
<1> QED BY <1>2, <1>3, <1>4 DEF Hangs

LEMMA SchoolTakesAll ==
    ASSUME NEW X, Settled(X), NEW r \in X, r # ScenarioRow
    PROVE  r \in Below(X, Clash(X, SchoolRow))
<1> DEFINE U0 == Clash(X, SchoolRow)
           U1 == Under(X, U0)
           U2 == Under(X, U1)
           U3 == Under(X, U2)
           U4 == Under(X, U3)
           U5 == Under(X, U4)
           Of(T) == {q \in X : q.id[1] \in T}
<1>1. {q \in X : q.id = SchoolId} \subseteq U0
  BY DEF Clash, SchoolRow, SchoolId, Row
<1>2. U0 \subseteq U1 /\ U1 \subseteq U2 /\ U2 \subseteq U3 /\ U3 \subseteq U4 /\ U4 \subseteq U5
  <2> HIDE DEF U0
  <2> QED BY UnderKeeps
<1>3. SchoolId[1] = "school" /\ ScenarioRow.id[1] = "scenario"
  BY DEF SchoolId, ScenarioRow, Row
<1>4. Of(Tables1) \subseteq U1
  <2>1. SUFFICES ASSUME NEW q \in Of(Tables1) PROVE q \in U1
    OBVIOUS
  <2>2. q \in X /\ q # ScenarioRow /\ q.id[1] \in Tables1 /\ q.id # SchoolId
    BY <1>3 DEF Tables1
  <2>3. PICK p \in X : p.id = SchoolId /\ p.id \in q.of
    BY <2>2, HangsBelow DEF Tables1, Tables2, Tables3, Tables4, Tables5
  <2> HIDE DEF U0
  <2> QED BY <1>1, <2>2, <2>3, UnderTakes
<1>5. Of(Tables2) \subseteq U2
  <2>1. SUFFICES ASSUME NEW q \in Of(Tables2) PROVE q \in U2
    OBVIOUS
  <2>2. q \in X /\ q # ScenarioRow /\ q.id[1] \in Tables2 /\ q.id # SchoolId
    BY <1>3 DEF Tables2
  <2>3. PICK p \in Of(Tables1) : p.id \in q.of
    BY <2>2, HangsBelow DEF Tables1, Tables2, Tables3, Tables4, Tables5
  <2> HIDE DEF U0, U1, Of
  <2> QED BY <1>4, <2>2, <2>3, UnderTakes
<1>6. Of(Tables3) \subseteq U3
  <2>1. SUFFICES ASSUME NEW q \in Of(Tables3) PROVE q \in U3
    OBVIOUS
  <2>2. q \in X /\ q # ScenarioRow /\ q.id[1] \in Tables3 /\ q.id # SchoolId
    BY <1>3 DEF Tables3
  <2>3. PICK p \in Of(Tables2) : p.id \in q.of
    BY <2>2, HangsBelow DEF Tables1, Tables2, Tables3, Tables4, Tables5
  <2> HIDE DEF U0, U1, U2, Of
  <2> QED BY <1>5, <2>2, <2>3, UnderTakes
<1>7. Of(Tables4) \subseteq U4
  <2>1. SUFFICES ASSUME NEW q \in Of(Tables4) PROVE q \in U4
    OBVIOUS
  <2>2. q \in X /\ q # ScenarioRow /\ q.id[1] \in Tables4 /\ q.id # SchoolId
    BY <1>3 DEF Tables4
  <2>3. PICK p \in Of(Tables3) : p.id \in q.of
    BY <2>2, HangsBelow DEF Tables1, Tables2, Tables3, Tables4, Tables5
  <2> HIDE DEF U0, U1, U2, U3, Of
  <2> QED BY <1>6, <2>2, <2>3, UnderTakes
<1>8. Of(Tables5) \subseteq U5
  <2>1. SUFFICES ASSUME NEW q \in Of(Tables5) PROVE q \in U5
    OBVIOUS
  <2>2. q \in X /\ q # ScenarioRow /\ q.id[1] \in Tables5 /\ q.id # SchoolId
    BY <1>3 DEF Tables5
  <2>3. PICK p \in Of(Tables4) : p.id \in q.of
    BY <2>2, HangsBelow DEF Tables1, Tables2, Tables3, Tables4, Tables5
  <2> HIDE DEF U0, U1, U2, U3, U4, Of
  <2> QED BY <1>7, <2>2, <2>3, UnderTakes
<1>9. r \in U5
  <2>1. \/ r \in {q \in X : q.id = SchoolId} \/ r \in Of(Tables1) \/ r \in Of(Tables2)
        \/ r \in Of(Tables3) \/ r \in Of(Tables4) \/ r \in Of(Tables5)
    BY HangsBelow
  <2> HIDE DEF U0, U1, U2, U3, U4, U5, Of
  <2> QED BY <2>1, <1>1, <1>2, <1>4, <1>5, <1>6, <1>7, <1>8
<1> QED BY <1>9 DEF Below

\* So the first row of a Lesson empties the file, but for the scenario.
LEMMA SchoolFirst ==
    ASSUME NEW X, Settled(X), NEW a, a.ok = TRUE, a.rows = X
    PROVE  /\ InsertOrReplace(a, SchoolRow).ok
           /\ \E E \in SUBSET {ScenarioRow} :
                 InsertOrReplace(a, SchoolRow).rows = {SchoolRow} \cup E
<1> DEFINE B == Below(X, Clash(X, SchoolRow))
           Z == (X \ B) \cup {SchoolRow}
<1>1. X \ B \subseteq {ScenarioRow}
  BY SchoolTakesAll
<1>2. Z = {SchoolRow} \cup (X \ B)
  OBVIOUS
<1>3. Consistent(Z)
  <2>1. SchoolRow.of \cup SchoolRow.uses = {} /\ ScenarioRow.of \cup ScenarioRow.uses = {}
    BY DEF SchoolRow, ScenarioRow, Row
  <2> HIDE DEF B
  <2>2. \A r \in Z : r = SchoolRow \/ r = ScenarioRow
    BY <1>1
  <2> QED BY <2>1, <2>2 DEF Consistent
<1>4. InsertOrReplace(a, SchoolRow) = [rows |-> Z, ok |-> Consistent(Z)]
  BY DEF InsertOrReplace
<1> HIDE DEF B, Z
<1>5. InsertOrReplace(a, SchoolRow).ok /\ InsertOrReplace(a, SchoolRow).rows = Z
  BY <1>3, <1>4
<1>6. X \ B \in SUBSET {ScenarioRow}
  BY <1>1
<1> QED BY <1>2, <1>5, <1>6

(***************************************************************************)
(* The same snapshot written to two files.                                 *)
(***************************************************************************)
\* Until the scenario is written, the two hold the same but for the scenario.
Twin(s, a, b) ==
    /\ a.ok \in BOOLEAN /\ b.ok = a.ok
    /\ a.ok => /\ b.rows \subseteq RoomPart(s)
               /\ \E E \in SUBSET {ScenarioRow} : a.rows = b.rows \cup E

\* From then on they hold the same.
Same(a, b) == a.ok \in BOOLEAN /\ b.ok = a.ok /\ (a.ok => a.rows = b.rows)

LEMMA UnderWithin ==
    ASSUME NEW Y, NEW U \in SUBSET Y
    PROVE  Under(Y, U) \in SUBSET Y
BY DEF Under

LEMMA BelowWithin ==
    ASSUME NEW Y, NEW U \in SUBSET Y
    PROVE  Below(Y, U) \in SUBSET Y
<1>1. Under(Y, U) \in SUBSET Y
  BY UnderWithin
<1>2. Under(Y, Under(Y, U)) \in SUBSET Y
  BY <1>1, UnderWithin
<1>3. Under(Y, Under(Y, Under(Y, U))) \in SUBSET Y
  BY <1>2, UnderWithin
<1>4. Under(Y, Under(Y, Under(Y, Under(Y, U)))) \in SUBSET Y
  BY <1>3, UnderWithin
<1>5. Under(Y, Under(Y, Under(Y, Under(Y, Under(Y, U))))) \in SUBSET Y
  BY <1>4, UnderWithin
<1> QED BY <1>5 DEF Below

\* The scenario belongs to nothing, so it never goes with what is deleted.
LEMMA BelowTwin ==
    ASSUME NEW Y, NEW U, NEW E \in SUBSET {ScenarioRow}
    PROVE  Below(Y \cup E, U) = Below(Y, U)
<1>1. ASSUME NEW V PROVE Under(Y \cup E, V) = Under(Y, V)
  <2>1. ScenarioRow.of = {}
    BY DEF ScenarioRow, Row
  <2>2. \A r \in E : r.of \cap IdsOf(V) = {}
    BY <2>1
  <2> QED BY <2>2 DEF Under
<1> QED BY <1>1 DEF Below

Replaced(Y, x) == (Y \ Below(Y, Clash(Y, x))) \cup {x}

LEMMA RoomRowInserted ==
    ASSUME NEW s, NEW x \in RoomPart(s), NEW Y \in SUBSET RoomPart(s),
           NEW E \in SUBSET {ScenarioRow}, NEW w, w.ok = TRUE, w.rows = Y \cup E
    PROVE  /\ Replaced(Y, x) \in SUBSET RoomPart(s)
           /\ InsertOrReplace(w, x) =
                 [rows |-> Replaced(Y, x) \cup E, ok |-> Consistent(Replaced(Y, x))]
<1> DEFINE B == Below(Y, Clash(Y, x))
           Z == (Y \ B) \cup {x}
<1>0. ScenarioRow.id = ScenarioId /\ ScenarioRow.unique = NoUnique
      /\ ScenarioRow.of = {} /\ ScenarioRow.uses = {}
  BY DEF ScenarioRow, ScenarioId, Row
<1>1. \A r \in RoomPart(s) : /\ r # ScenarioRow /\ r.id # ScenarioId
                             /\ ScenarioId \notin r.of /\ ScenarioId \notin r.uses
  BY RoomPlaced DEF Placed
<1>2. Clash(Y \cup E, x) = Clash(Y, x)
  BY <1>0, <1>1 DEF Clash
<1>3. B \in SUBSET Y
  BY BelowWithin DEF Clash
<1>4. Below(Y \cup E, Clash(Y \cup E, x)) = B
  BY <1>2, BelowTwin
<1> HIDE DEF B
<1>5. ((Y \cup E) \ B) \cup {x} = Z \cup E
  BY <1>1, <1>3
<1>6. Z \in SUBSET RoomPart(s)
  OBVIOUS
<1>7. Consistent(Z \cup E) = Consistent(Z)
  <2>1. \A r \in E : r.of \cup r.uses = {} /\ r.id = ScenarioId
    BY <1>0
  <2>2. \A r \in Z : ScenarioId \notin r.of \cup r.uses
    BY <1>1, <1>6
  <2> HIDE DEF Z
  <2>3. ASSUME Consistent(Z) PROVE Consistent(Z \cup E)
    BY <2>1, <2>3 DEF Consistent, IdsOf
  <2>4. ASSUME Consistent(Z \cup E) PROVE Consistent(Z)
    BY <2>1, <2>2, <2>4 DEF Consistent, IdsOf
  <2>5. Consistent(Z) \in BOOLEAN /\ Consistent(Z \cup E) \in BOOLEAN
    BY DEF Consistent
  <2> QED BY <2>3, <2>4, <2>5
<1>8. InsertOrReplace(w, x) =
          LET rows == (w.rows \ Below(w.rows, Clash(w.rows, x))) \cup {x}
          IN  [rows |-> rows, ok |-> Consistent(rows)]
  BY DEF InsertOrReplace
<1>9. (w.rows \ Below(w.rows, Clash(w.rows, x))) \cup {x} = Z \cup E
  BY <1>4, <1>5
<1>10. Z = Replaced(Y, x)
  BY DEF Replaced, B
<1> HIDE DEF Z
<1> QED BY <1>6, <1>7, <1>8, <1>9, <1>10

LEMMA TwinStep ==
    ASSUME NEW s, NEW x \in RoomPart(s), NEW a, NEW b, Twin(s, a, b)
    PROVE  Twin(s, InsertOrReplace(a, x), InsertOrReplace(b, x))
<1>1. CASE ~a.ok
  BY <1>1 DEF Twin, InsertOrReplace
<1>2. CASE a.ok
  <2>1. PICK E \in SUBSET {ScenarioRow} : a.rows = b.rows \cup E
    BY <1>2 DEF Twin
  <2>2. a.ok = TRUE /\ b.ok = TRUE /\ b.rows \in SUBSET RoomPart(s)
    BY <1>2 DEF Twin
  <2> DEFINE Z == Replaced(b.rows, x)
  <2>3. /\ Z \in SUBSET RoomPart(s)
        /\ InsertOrReplace(a, x) = [rows |-> Z \cup E, ok |-> Consistent(Z)]
    BY <2>1, <2>2, RoomRowInserted
  <2>4. InsertOrReplace(b, x) = [rows |-> Z, ok |-> Consistent(Z)]
    <3>1. {} \in SUBSET {ScenarioRow} /\ b.rows = b.rows \cup {} /\ Z = Z \cup {}
      OBVIOUS
    <3> HIDE DEF Z
    <3>2. InsertOrReplace(b, x) = [rows |-> Z \cup {}, ok |-> Consistent(Z)]
      BY <2>2, <3>1, RoomRowInserted DEF Z
    <3> QED BY <3>1, <3>2
  <2>5. Consistent(Z) \in BOOLEAN
    BY DEF Consistent
  <2> HIDE DEF Z
  <2> QED BY <2>3, <2>4, <2>5 DEF Twin
<1> QED BY <1>1, <1>2 DEF Twin

LEMMA SameStep ==
    ASSUME NEW x, NEW a, NEW b, Same(a, b)
    PROVE  Same(InsertOrReplace(a, x), InsertOrReplace(b, x))
<1>1. CASE ~a.ok
  BY <1>1 DEF Same, InsertOrReplace
<1>2. CASE a.ok
  <2>1. a.ok = TRUE /\ b.ok = TRUE /\ a.rows = b.rows
    BY <1>2 DEF Same
  <2>2. InsertOrReplace(a, x) = InsertOrReplace(b, x)
    BY <2>1 DEF InsertOrReplace
  <2>3. InsertOrReplace(a, x).ok \in BOOLEAN
    BY <2>1 DEF InsertOrReplace, Consistent
  <2> QED BY <2>2, <2>3 DEF Same
<1> QED BY <1>1, <1>2

\* The scenario replaces the one that was there, and nothing goes with it.
LEMMA ScenarioInserted ==
    ASSUME NEW s, NEW Y \in SUBSET RoomPart(s), NEW E \in SUBSET {ScenarioRow}, NEW w,
           w.ok = TRUE, w.rows = Y \cup E
    PROVE  InsertOrReplace(w, ScenarioRow) =
              [rows |-> Y \cup {ScenarioRow}, ok |-> Consistent(Y \cup {ScenarioRow})]
<1> DEFINE X == Y \cup E
<1>0. ScenarioRow.id = ScenarioId /\ ScenarioRow.unique = NoUnique /\ ScenarioRow.of = {}
  BY DEF ScenarioRow, ScenarioId, Row
<1>1. \A r \in X : ScenarioId \notin r.of
  BY <1>0, RoomPlaced DEF Placed
<1>2. \A r \in Y : r.id # ScenarioId /\ r # ScenarioRow
  BY RoomPlaced DEF Placed
<1>3. Clash(X, ScenarioRow) = E
  BY <1>0, <1>2 DEF Clash
<1>4. Under(X, E) = E
  <2>1. IdsOf(E) \subseteq {ScenarioId}
    BY <1>0 DEF IdsOf
  <2>2. {r \in X : r.of \cap IdsOf(E) # {}} = {}
    BY <2>1, <1>1
  <2> HIDE DEF X
  <2> QED BY <2>2 DEF Under
<1> HIDE DEF X
<1>5. Below(X, E) = E
  BY <1>4 DEF Below
<1>6. (X \ Below(X, Clash(X, ScenarioRow))) \cup {ScenarioRow} = Y \cup {ScenarioRow}
  BY <1>2, <1>3, <1>5 DEF X
<1>7. InsertOrReplace(w, ScenarioRow) =
            LET rows == (X \ Below(X, Clash(X, ScenarioRow))) \cup {ScenarioRow}
            IN  [rows |-> rows, ok |-> Consistent(rows)]
  BY DEF InsertOrReplace, X
<1> QED BY <1>6, <1>7

LEMMA TwinScenario ==
    ASSUME NEW s, NEW a, NEW b, Twin(s, a, b)
    PROVE  Same(InsertOrReplace(a, ScenarioRow), InsertOrReplace(b, ScenarioRow))
<1>1. CASE ~a.ok
  BY <1>1 DEF Twin, Same, InsertOrReplace
<1>2. CASE a.ok
  <2>1. PICK E \in SUBSET {ScenarioRow} : a.rows = b.rows \cup E
    BY <1>2 DEF Twin
  <2>2. a.ok = TRUE /\ b.ok = TRUE /\ b.rows \in SUBSET RoomPart(s)
    BY <1>2 DEF Twin
  <2> DEFINE Z == b.rows \cup {ScenarioRow}
  <2>3. InsertOrReplace(a, ScenarioRow) = [rows |-> Z, ok |-> Consistent(Z)]
    BY <2>1, <2>2, ScenarioInserted
  <2>4. b.rows = b.rows \cup {} /\ {} \in SUBSET {ScenarioRow}
    OBVIOUS
  <2>5. InsertOrReplace(b, ScenarioRow) = [rows |-> Z, ok |-> Consistent(Z)]
    BY <2>2, <2>4, ScenarioInserted
  <2>6. Consistent(Z) \in BOOLEAN
    BY DEF Consistent
  <2> HIDE DEF Z
  <2> QED BY <2>3, <2>5, <2>6 DEF Same
<1> QED BY <1>1, <1>2

LEMMA InsertedConsistent ==
    ASSUME NEW a, NEW x, InsertOrReplace(a, x).ok
    PROVE  Consistent(InsertOrReplace(a, x).rows)
<1>1. a.ok
  BY DEF InsertOrReplace
<1> QED BY <1>1 DEF InsertOrReplace

\* The first row makes twins of any settled file and an empty one.
LEMMA TwinsBegin ==
    ASSUME NEW s, NEW a, NEW b, a.ok = TRUE, b.ok = TRUE, Settled(a.rows), b.rows = {}
    PROVE  Twin(s, InsertOrReplace(a, SchoolRow), InsertOrReplace(b, SchoolRow))
<1>1. /\ InsertOrReplace(a, SchoolRow).ok
      /\ \E E \in SUBSET {ScenarioRow} : InsertOrReplace(a, SchoolRow).rows = {SchoolRow} \cup E
  BY SchoolFirst
<1>2. Settled({})
  BY DEF Settled, Consistent
<1>3. InsertOrReplace(b, SchoolRow).ok
  BY <1>2, SchoolFirst
<1>4. InsertOrReplace(b, SchoolRow).rows = {SchoolRow}
  BY DEF InsertOrReplace
<1>5. /\ InsertOrReplace(a, SchoolRow).ok \in BOOLEAN
      /\ InsertOrReplace(b, SchoolRow).ok = InsertOrReplace(a, SchoolRow).ok
  BY <1>1, <1>3 DEF InsertOrReplace, Consistent
<1>6. {SchoolRow} \subseteq RoomPart(s)
  BY DEF RoomPart
<1> QED BY <1>1, <1>4, <1>5, <1>6 DEF Twin

\* A snapshot is refused by a settled file when an empty file would refuse it;
\* when it is not, the two hold the same, but for the scenario.
LEMMA WrittenTwins ==
    ASSUME NEW s, Listed(s), NEW old, Settled(old)
    PROVE  /\ Written(old, s).ok \in BOOLEAN
           /\ Written({}, s).ok = Written(old, s).ok
           /\ Written(old, s).ok =>
                 /\ Settled(Written(old, s).rows)
                 /\ Written({}, s).rows \subseteq Parts(s)
                 /\ \E E \in SUBSET {ScenarioRow} :
                       Written(old, s).rows = Written({}, s).rows \cup E
<1> DEFINE rows == LessonRows(s)
           N == Len(rows)
           k == Len(RoomRows(s))
<1>1. /\ rows \in Seq(Parts(s)) /\ rows[1] = SchoolRow /\ N \in Nat
      /\ k \in 1..N /\ \A i \in 1..k : rows[i] \in RoomPart(s)
      /\ k < N => rows[k + 1] = ScenarioRow
  BY LessonRowsListed
<1> HIDE DEF rows, N, k
<1>2. PICK f \in [0..N -> Files(old, rows)] :
              /\ f[0] = [rows |-> old, ok |-> TRUE]
              /\ \A n \in 1..N : f[n] = InsertOrReplace(f[n - 1], rows[n])
              /\ WriteAll(old, rows) = f[N]
  BY <1>1, WriteAllWalks DEF N
<1>3. PICK g \in [0..N -> Files({}, rows)] :
              /\ g[0] = [rows |-> {}, ok |-> TRUE]
              /\ \A n \in 1..N : g[n] = InsertOrReplace(g[n - 1], rows[n])
              /\ WriteAll({}, rows) = g[N]
  BY <1>1, WriteAllWalks DEF N
<1>4. Written(old, s) = f[N] /\ Written({}, s) = g[N]
  BY <1>2, <1>3 DEF Written, rows
<1> DEFINE Good(n) == IF n <= k THEN Twin(s, f[n], g[n]) ELSE Same(f[n], g[n])
           T == {n \in 1..N : ~Good(n)}
<1>5. Good(1)
  <2>1. f[0].ok = TRUE /\ g[0].ok = TRUE /\ f[0].rows = old /\ g[0].rows = {}
    BY <1>2, <1>3
  <2>2. 1 \in 1..N /\ 1 - 1 = 0 /\ 1 <= k
    BY <1>1
  <2>3. f[1] = InsertOrReplace(f[0], SchoolRow) /\ g[1] = InsertOrReplace(g[0], SchoolRow)
    BY <1>1, <1>2, <1>3, <2>2
  <2>4. Twin(s, InsertOrReplace(f[0], SchoolRow), InsertOrReplace(g[0], SchoolRow))
    BY <2>1, TwinsBegin
  <2> QED BY <2>2, <2>3, <2>4
<1>6. ASSUME NEW n \in 1..N, n # 1, Good(n - 1)
      PROVE  Good(n)
  <2>1. f[n] = InsertOrReplace(f[n - 1], rows[n]) /\ g[n] = InsertOrReplace(g[n - 1], rows[n])
    BY <1>2, <1>3
  <2>2. CASE n <= k
    <3>1. Twin(s, f[n - 1], g[n - 1])
      BY <1>1, <1>6, <2>2
    <3>2. rows[n] \in RoomPart(s)
      BY <1>1, <2>2
    <3> QED BY <2>1, <2>2, <3>1, <3>2, TwinStep
  <2>3. CASE n = k + 1
    <3>1. Twin(s, f[n - 1], g[n - 1]) /\ ~(n <= k)
      BY <1>1, <1>6, <2>3
    <3>2. rows[n] = ScenarioRow
      BY <1>1, <2>3
    <3> QED BY <2>1, <3>1, <3>2, TwinScenario
  <2>4. CASE n > k + 1
    <3>1. Same(f[n - 1], g[n - 1]) /\ ~(n <= k)
      BY <1>1, <1>6, <2>4
    <3> QED BY <2>1, <3>1, SameStep
  <2> QED BY <1>1, <2>2, <2>3, <2>4
<1>7. Good(N)
  <2> HIDE DEF Good
  <2>1. T = {}
    <3>1. SUFFICES ASSUME T # {} PROVE FALSE
      OBVIOUS
    <3>2. T \in SUBSET Nat
      OBVIOUS
    <3>3. PICK n \in T : \A m \in T : n <= m
      <4> HIDE DEF T
      <4> QED BY <3>1, <3>2, LeastOf
    <3>4. n \in 1..N /\ n # 1 /\ n - 1 \in 1..N /\ ~(n <= n - 1)
      BY <1>1, <1>5, <3>3
    <3>5. n - 1 \notin T
      BY <3>3, <3>4
    <3>6. Good(n - 1)
      BY <3>4, <3>5
    <3>7. Good(n)
      BY <1>6, <3>4, <3>6
    <3> QED BY <3>3, <3>7
  <2>2. N \in 1..N
    BY <1>1
  <2> QED BY <2>1, <2>2
<1>8. /\ f[N].ok \in BOOLEAN /\ g[N].ok = f[N].ok
      /\ f[N].ok => \E E \in SUBSET {ScenarioRow} : f[N].rows = g[N].rows \cup E
  <2>1. CASE Twin(s, f[N], g[N])
    BY <2>1 DEF Twin
  <2>2. CASE Same(f[N], g[N])
    <3>1. f[N].ok \in BOOLEAN /\ g[N].ok = f[N].ok /\ (f[N].ok => f[N].rows = g[N].rows)
      BY <2>2 DEF Same
    <3>2. {} \in SUBSET {ScenarioRow} /\ g[N].rows = g[N].rows \cup {}
      OBVIOUS
    <3> QED BY <3>1, <3>2
  <2> QED BY <1>7, <2>1, <2>2
<1>9. g[N].rows \subseteq Parts(s)
  <2>1. g[N] \in Files({}, rows)
    BY <1>1, <1>3
  <2>2. {rows[i] : i \in DOMAIN rows} \subseteq Parts(s)
    BY <1>1
  <2> QED BY <2>1, <2>2 DEF Files
<1>10. ASSUME f[N].ok PROVE Settled(f[N].rows)
  <2>1. Consistent(f[N].rows)
    <3>1. N \in 1..N /\ f[N] = InsertOrReplace(f[N - 1], rows[N])
      BY <1>1, <1>2
    <3> QED BY <1>10, <3>1, InsertedConsistent
  <2>2. \A r \in Parts(s) : Placed(r)
    BY RoomPlaced, MissionPlaced DEF Parts
  <2>3. Placed(ScenarioRow)
    BY DEF Placed, ScenarioRow, Row
  <2> QED BY <1>8, <1>9, <1>10, <2>1, <2>2, <2>3 DEF Settled
<1> QED BY <1>4, <1>8, <1>9, <1>10

(***************************************************************************)
(* What a Lesson is in the file.                                           *)
(***************************************************************************)
LEMMA LessonTwin ==
    ASSUME NEW Y, NEW E \in SUBSET {ScenarioRow}, NEW id
    PROVE  LessonIn(Y \cup E, id) = LessonIn(Y, id)
<1>1. ScenarioRow.id # <<"lesson", id>>
  BY DEF ScenarioRow, Row
<1>2. {r \in Y \cup E : r.id = <<"lesson", id>>} = {r \in Y : r.id = <<"lesson", id>>}
  BY <1>1
<1> QED BY <1>2, BelowTwin DEF LessonIn

LEMMA LessonAbsent ==
    ASSUME NEW Y, NEW id, \A r \in Y : r.id # <<"lesson", id>>
    PROVE  LessonIn(Y, id) = {}
<1>1. {r \in Y : r.id = <<"lesson", id>>} = {}
  OBVIOUS
<1>2. Under(Y, {}) = {}
  BY DEF Under, IdsOf
<1> QED BY <1>1, <1>2 DEF LessonIn, Below

\* The rows of a snapshot are of no other Lesson.
LEMMA OneLesson ==
    ASSUME NEW s, NEW Y \in SUBSET Parts(s), NEW id, id # s.lesson
    PROVE  LessonIn(Y, id) = {}
<1>1. ASSUME NEW r \in Y, r.id = <<"lesson", id>> PROVE FALSE
  <2>1. r.id[1] = "lesson" /\ r.id # LessonId(s)
    BY <1>1 DEF LessonId
  <2> QED BY <2>1, RoomPlaced, MissionPlaced DEF Parts
<1> QED BY <1>1, LessonAbsent

(***************************************************************************)
(* A Lesson in the file is its last accepted snapshot, all of it.          *)
(***************************************************************************)
\* The file holds no row that hangs from nothing, and what is on its way to it are
\* lists of a document.
WholeInv ==
    /\ Settled(db)
    /\ \A w \in wires : w.to = "lesson" => Listed(w.snapshot)
    /\ LessonIsWhole

LEMMA WholeInit == RecordsInit => WholeInv
<1> SUFFICES ASSUME RecordsInit PROVE WholeInv
  OBVIOUS
<1>1. db = {} /\ wires = {}
  BY DEF RecordsInit
<1>2. \A id : LessonIn({}, id) = {}
  BY LessonAbsent
<1> QED BY <1>1, <1>2 DEF WholeInv, Settled, Consistent, LessonIsWhole

\* A PUT of a Lesson is taken as a whole or leaves the file as it was.
LEMMA WholeLands ==
    ASSUME WholeInv, NEW w \in wires, LandLesson(w)
    PROVE  WholeInv'
<1> DEFINE s == w.snapshot
           A == Written(db, s)
           B == Written({}, s)
<1>1. Listed(s) /\ Settled(db) /\ LessonIsWhole /\ w.to = "lesson"
  BY DEF WholeInv, LandLesson
<1>2. \A v \in wires' : v.to = "lesson" => Listed(v.snapshot)
  BY DEF WholeInv, LandLesson
<1>3. /\ A.ok \in BOOLEAN /\ B.ok = A.ok
      /\ A.ok => /\ Settled(A.rows) /\ B.rows \subseteq Parts(s)
                 /\ \E E \in SUBSET {ScenarioRow} : A.rows = B.rows \cup E
  BY <1>1, WrittenTwins
<1>4. /\ db' = IF A.ok THEN A.rows ELSE db
      /\ landed' = IF ~A.ok THEN landed
                   ELSE [id \in DOMAIN landed \cup {s.lesson} |->
                            IF id = s.lesson THEN Alone(s) ELSE landed[id]]
      /\ Alone(s) = LessonIn(IF B.ok THEN B.rows ELSE {}, s.lesson)
  BY DEF LandLesson, writeLesson, Alone
<1> HIDE DEF s, A, B
<1>5. CASE ~A.ok
  <2>1. db' = db /\ landed' = landed
    BY <1>4, <1>5
  <2> QED BY <1>1, <1>2, <2>1 DEF WholeInv, LessonIsWhole, Settled
<1>6. CASE A.ok
  <2>1. PICK E \in SUBSET {ScenarioRow} : A.rows = B.rows \cup E
    BY <1>3, <1>6
  <2>2. db' = B.rows \cup E /\ Settled(db')
    BY <1>3, <1>4, <1>6, <2>1
  <2>3. \A id : LessonIn(db', id) = LessonIn(B.rows, id)
    BY <2>2, LessonTwin
  <2>4. s.lesson \in DOMAIN landed' /\ landed'[s.lesson] = LessonIn(B.rows, s.lesson)
    BY <1>3, <1>4, <1>6
  <2>5. \A id : id # s.lesson => LessonIn(B.rows, id) = {}
    BY <1>3, <1>6, OneLesson
  <2>6. LessonIsWhole'
    BY <2>3, <2>4, <2>5 DEF LessonIsWhole
  <2>7. Settled(db)'
    BY <2>2 DEF Settled, Placed, Consistent
  <2> QED BY <1>2, <2>6, <2>7 DEF WholeInv
<1> QED BY <1>3, <1>5, <1>6

\* What is put on its way at a boundary was read from the document.
LEMMA WholeSent ==
    ASSUME WholeInv, NEW id \in due, NEW room \in Rooms, persistLessonRecords(id, room)
    PROVE  WholeInv'
<1>1. db' = db /\ landed' = landed
  BY DEF persistLessonRecords
<1>2. ASSUME NEW v \in wires', v.to = "lesson" PROVE Listed(v.snapshot)
  <2>1. CASE v \in wires
    BY <1>2, <2>1 DEF WholeInv
  <2>2. CASE v \notin wires
    <3>1. v = [to |-> "lesson", snapshot |-> lessonSnapshotFromBrowser(id, room)]
      BY <1>2, <2>2 DEF persistLessonRecords
    <3>2. /\ v.snapshot.drones = room.drones /\ v.snapshot.seats = room.seats
          /\ v.snapshot.teams = room.teams /\ v.snapshot.points = room.points
      BY <3>1 DEF lessonSnapshotFromBrowser
    <3> QED BY <3>2, RoomsAssumption DEF Listed
  <2> QED BY <2>1, <2>2
<1> QED BY <1>1, <1>2 DEF WholeInv, LessonIsWhole, Settled

\* Everything else leaves the file as it is, and sends nothing.
LEMMA WholeStays ==
    ASSUME WholeInv, db' = db, landed' = landed, wires' \subseteq wires
    PROVE  WholeInv'
BY DEF WholeInv, LessonIsWhole, Settled

LEMMA WholeStep == WholeInv /\ [RecordsNext]_recordsVars => WholeInv'
<1> SUFFICES ASSUME WholeInv, [RecordsNext]_recordsVars PROVE WholeInv'
  OBVIOUS
<1>1. CASE startLesson \/ studentRegistered \/ lastStudentRemoved
  <2>1. db' = db /\ landed' = landed /\ wires' = wires
    BY <1>1 DEF startLesson, studentRegistered, lastStudentRemoved, RollSaved
  <2> QED BY <2>1, WholeStays
<1>2. CASE \E id \in LessonIds(logbook.lessons) : endLesson(id)
  BY <1>2, WholeStays DEF endLesson
<1>3. CASE \E id \in due, room \in Rooms : persistLessonRecords(id, room)
  BY <1>3, WholeSent
<1>4. CASE Reload \/ ClearBrowsingData \/ AnswerGet \/ hydrateRecordsFromFile
  BY <1>4, WholeStays DEF Reload, ClearBrowsingData, AnswerGet, hydrateRecordsFromFile
<1>5. ASSUME NEW w \in wires, LandLesson(w) PROVE WholeInv'
  BY <1>5, WholeLands
<1>6. ASSUME NEW w \in wires, LandLogbook(w) \/ PowerCut(w) \/ Lose(w) PROVE WholeInv'
  BY <1>6, WholeStays DEF LandLogbook, PowerCut, Lose
<1>7. CASE StationStops \/ StationStarts
  BY <1>7, WholeStays DEF StationStops, StationStarts
<1>8. CASE UNCHANGED recordsVars
  BY <1>8, WholeStays DEF recordsVars
<1> QED BY <1>1, <1>2, <1>3, <1>4, <1>5, <1>6, <1>7, <1>8 DEF RecordsNext

\* The file says of a Lesson all that its last accepted snapshot said, and
\* nothing else, whatever was written before it and in what order the PUTs land.
THEOREM LessonStaysWhole == RecordsSpec => []LessonIsWhole
<1>1. WholeInv => LessonIsWhole
  BY DEF WholeInv
<1> QED BY WholeInit, WholeStep, <1>1, PTL DEF RecordsSpec

\* records.db holds one Lesson at a time: the school row of the one takes the other along.
OneLessonInFile == \A i, j \in Times : LessonIn(db, i) # {} /\ LessonIn(db, j) # {} => i = j

LEMMA OneLands ==
    ASSUME WholeInv, OneLessonInFile, NEW w \in wires, LandLesson(w)
    PROVE  OneLessonInFile'
<1> DEFINE s == w.snapshot
           A == Written(db, s)
           B == Written({}, s)
<1>1. Listed(s) /\ Settled(db)
  BY DEF WholeInv, LandLesson
<1>2. A.ok => /\ B.rows \subseteq Parts(s)
              /\ \E E \in SUBSET {ScenarioRow} : A.rows = B.rows \cup E
  BY <1>1, WrittenTwins
<1>3. db' = IF A.ok THEN A.rows ELSE db
  BY DEF LandLesson, writeLesson
<1> HIDE DEF s, A, B
<1>4. CASE ~A.ok
  BY <1>3, <1>4 DEF OneLessonInFile, Times
<1>5. CASE A.ok
  <2>1. PICK E \in SUBSET {ScenarioRow} : A.rows = B.rows \cup E
    BY <1>2, <1>5
  <2>2. db' = B.rows \cup E /\ B.rows \in SUBSET Parts(s)
    BY <1>2, <1>3, <1>5, <2>1
  <2>3. \A id : LessonIn(db', id) = LessonIn(B.rows, id)
    BY <2>2, LessonTwin
  <2>4. \A id : id # s.lesson => LessonIn(B.rows, id) = {}
    BY <2>2, OneLesson
  <2>5. \A id : LessonIn(db', id) # {} => id = s.lesson
    BY <2>3, <2>4
  <2> QED BY <2>5 DEF OneLessonInFile
<1> QED BY <1>4, <1>5

\* However long the term, the file holds the record of one Lesson: the finding that
\* the run of LessonsAreKept meets with two Lessons is so of any number of them.
THEOREM FileHoldsOneLesson == RecordsSpec => []OneLessonInFile
<1>1. RecordsInit => OneLessonInFile
  <2>1. \A id : LessonIn({}, id) = {}
    BY LessonAbsent
  <2> QED BY <2>1 DEF RecordsInit, OneLessonInFile
<1>2. WholeInv /\ OneLessonInFile /\ [RecordsNext]_recordsVars => OneLessonInFile'
  <2> SUFFICES ASSUME WholeInv, OneLessonInFile, [RecordsNext]_recordsVars
               PROVE  OneLessonInFile'
    OBVIOUS
  <2>1. CASE \E w \in wires : LandLesson(w)
    BY <2>1, OneLands
  <2>2. CASE db' = db
    BY <2>2 DEF OneLessonInFile, Times
  <2>3. (\E w \in wires : LandLesson(w)) \/ db' = db
    BY DEF RecordsNext, recordsVars, startLesson, studentRegistered, lastStudentRemoved, RollSaved,
           endLesson, persistLessonRecords, Reload, ClearBrowsingData, AnswerGet,
           hydrateRecordsFromFile, LandLogbook, PowerCut, Lose, StationStops, StationStarts
  <2> QED BY <2>1, <2>2, <2>3
<1> QED BY WholeInit, WholeStep, <1>1, <1>2, PTL DEF RecordsSpec

(***************************************************************************)
(* What the file takes from a board.                                       *)
(***************************************************************************)
\* Every page of the Logbook that is anywhere: the board's, the file's, the
\* answer's, and those on their way; a cleared board has the page of no save.
Pages ==
    {<<0, <<>>>>, <<logbook.revisedAt, logbook.lessons>>, <<file.at, file.lessons>>,
     <<answer.at, answer.lessons>>}
    \cup {<<w.snapshot.at, w.snapshot.lessons>> : w \in {v \in wires : v.to = "logbook"}}

\* No page is of a later time than the last save, and two of one time are one page.
PagesAgree(pages) ==
    /\ \A p \in pages : p[1] \in Nat /\ p[1] <= clock
    /\ \A p, q \in pages : p[1] = q[1] => p[2] = q[2]

PagesInv ==
    /\ clock \in Nat
    /\ logbook = [lessons |-> logbook.lessons, roll |-> logbook.roll, revisedAt |-> logbook.revisedAt]
    /\ PagesAgree(Pages)

LEMMA PagesInit == RecordsInit => PagesInv
<1> SUFFICES ASSUME RecordsInit PROVE PagesInv
  OBVIOUS
<1>1. Pages = {<<0, <<>>>>}
  BY DEF RecordsInit, Pages, EmptyLogbook, NoFile
<1> QED BY <1>1 DEF RecordsInit, PagesInv, PagesAgree, EmptyLogbook

\* A step that makes no page but of pages there were leaves them agreeing.
LEMMA PagesStay ==
    ASSUME PagesInv, clock' = clock,
           \/ logbook' = logbook
           \/ \E a, b, c : logbook' = [lessons |-> a, roll |-> b, revisedAt |-> c],
           <<logbook'.revisedAt, logbook'.lessons>> \in Pages,
           <<file'.at, file'.lessons>> \in Pages,
           <<answer'.at, answer'.lessons>> \in Pages,
           \A w \in wires' : w.to = "logbook" => <<w.snapshot.at, w.snapshot.lessons>> \in Pages
    PROVE  PagesInv'
<1>1. Pages' \subseteq Pages
  <2>1. <<0, <<>>>> \in Pages
    BY DEF Pages
  <2> QED BY <2>1 DEF Pages
<1>2. PagesAgree(Pages)'
  BY <1>1 DEF PagesInv, PagesAgree
<1>3. logbook' = [lessons |-> logbook'.lessons, roll |-> logbook'.roll, revisedAt |-> logbook'.revisedAt]
  BY DEF PagesInv
<1> QED BY <1>2, <1>3 DEF PagesInv

\* A save makes one page, of a time no page has.
LEMMA PagesSaved ==
    ASSUME PagesInv, NEW b, save(b),
           b = [lessons |-> b.lessons, roll |-> b.roll, revisedAt |-> b.revisedAt],
           UNCHANGED <<file, answer, wires>>
    PROVE  PagesInv'
<1>1. /\ clock' = clock + 1 /\ clock \in Nat
      /\ logbook' = [lessons |-> b.lessons, roll |-> b.roll, revisedAt |-> clock + 1]
  BY DEF save, PagesInv
<1>2. Pages' \subseteq Pages \cup {<<clock + 1, b.lessons>>}
  BY <1>1 DEF Pages
<1>3. \A p \in Pages' : p \in Pages \/ p = <<clock + 1, b.lessons>>
  BY <1>2
<1>4. \A p \in Pages : p[1] \in Nat /\ p[1] <= clock
  BY DEF PagesInv, PagesAgree
<1>5. ASSUME NEW p \in Pages', NEW q \in Pages', p[1] = q[1] PROVE p[2] = q[2]
  <2>1. CASE p \in Pages /\ q \in Pages
    BY <1>5, <2>1 DEF PagesInv, PagesAgree
  <2>2. CASE p = <<clock + 1, b.lessons>> /\ q \in Pages
    BY <1>1, <1>4, <1>5, <2>2
  <2>3. CASE q = <<clock + 1, b.lessons>> /\ p \in Pages
    BY <1>1, <1>4, <1>5, <2>3
  <2>4. CASE p = q
    BY <2>4
  <2> QED BY <1>3, <2>1, <2>2, <2>3, <2>4
<1>6. \A p \in Pages' : p[1] \in Nat /\ p[1] <= clock'
  BY <1>1, <1>3, <1>4
<1>7. PagesAgree(Pages)'
  BY <1>5, <1>6 DEF PagesAgree
<1> QED BY <1>1, <1>7 DEF PagesInv

\* The pages there are at a step.
LEMMA PagesAre ==
    /\ <<0, <<>>>> \in Pages
    /\ <<logbook.revisedAt, logbook.lessons>> \in Pages
    /\ <<file.at, file.lessons>> \in Pages
    /\ <<answer.at, answer.lessons>> \in Pages
    /\ \A w \in wires : w.to = "logbook" => <<w.snapshot.at, w.snapshot.lessons>> \in Pages
BY DEF Pages

LEMMA PagesStep == PagesInv /\ [RecordsNext]_recordsVars => PagesInv'
<1> SUFFICES ASSUME PagesInv, [RecordsNext]_recordsVars PROVE PagesInv'
  OBVIOUS
<1>0. NoFile.at = 0 /\ NoFile.lessons = <<>>
      /\ EmptyLogbook = [lessons |-> <<>>, roll |-> FALSE, revisedAt |-> 0]
  BY DEF NoFile, EmptyLogbook
<1>1. ASSUME startLesson PROVE PagesInv'
  <2> DEFINE b == [logbook EXCEPT !.lessons = withLesson(@, [id |-> clock + 1, ended |-> Running])]
  <2>1. save(b) /\ UNCHANGED <<file, answer, wires>>
    BY <1>1 DEF startLesson
  <2>2. b = [lessons |-> b.lessons, roll |-> b.roll, revisedAt |-> b.revisedAt]
    BY DEF PagesInv
  <2> HIDE DEF b
  <2> QED BY <2>1, <2>2, PagesSaved
<1>2. ASSUME NEW id \in LessonIds(logbook.lessons), endLesson(id) PROVE PagesInv'
  <2> DEFINE b == [logbook EXCEPT !.lessons = [i \in DOMAIN @ |->
                IF @[i].id = id THEN [@[i] EXCEPT !.ended = clock + 1] ELSE @[i]]]
  <2>1. save(b) /\ UNCHANGED <<file, answer, wires>>
    BY <1>2 DEF endLesson
  <2>2. b = [lessons |-> b.lessons, roll |-> b.roll, revisedAt |-> b.revisedAt]
    BY DEF PagesInv
  <2> HIDE DEF b
  <2> QED BY <2>1, <2>2, PagesSaved
<1>3. ASSUME NEW roll, RollSaved(roll) PROVE PagesInv'
  <2> DEFINE b == [logbook EXCEPT !.roll = roll]
  <2>1. save(b) /\ UNCHANGED <<file, answer, wires>>
    BY <1>3 DEF RollSaved
  <2>2. b = [lessons |-> b.lessons, roll |-> b.roll, revisedAt |-> b.revisedAt]
    BY DEF PagesInv
  <2> HIDE DEF b
  <2> QED BY <2>1, <2>2, PagesSaved
<1>4. ASSUME NEW id \in due, NEW room \in Rooms, persistLessonRecords(id, room) PROVE PagesInv'
  <2>1. UNCHANGED <<clock, logbook, file, answer>>
    BY <1>4 DEF persistLessonRecords
  <2>2. ASSUME NEW w \in wires', w.to = "logbook"
        PROVE  <<w.snapshot.at, w.snapshot.lessons>> \in Pages
    <3>1. CASE w \in wires
      BY <2>2, <3>1, PagesAre
    <3>2. CASE w \notin wires
      <4>1. w.snapshot.at = logbook.revisedAt /\ w.snapshot.lessons = logbook.lessons
        BY <1>4, <2>2, <3>2 DEF persistLessonRecords
      <4> QED BY <4>1, PagesAre
    <3> QED BY <3>1, <3>2
  <2> QED BY <2>1, <2>2, PagesAre, PagesStay
<1>5. CASE Reload
  BY <1>0, <1>5, PagesAre, PagesStay DEF Reload, Opened
<1>6. CASE ClearBrowsingData
  <2>1. logbook' = [lessons |-> <<>>, roll |-> FALSE, revisedAt |-> 0]
    BY <1>0, <1>6 DEF ClearBrowsingData
  <2>2. logbook'.revisedAt = 0 /\ logbook'.lessons = <<>>
    BY <2>1
  <2>3. clock' = clock /\ file' = file /\ wires' = wires /\ answer' = NoFile
    BY <1>6 DEF ClearBrowsingData, Opened
  <2> QED BY <1>0, <2>1, <2>2, <2>3, PagesAre, PagesStay
<1>7. CASE AnswerGet
  <2>1. answer' = file \/ answer' = answer
    BY <1>7 DEF AnswerGet
  <2>2. UNCHANGED <<clock, logbook, file, wires>>
    BY <1>7 DEF AnswerGet
  <2> QED BY <2>1, <2>2, PagesAre, PagesStay
<1>8. CASE hydrateRecordsFromFile
  <2>1. UNCHANGED <<clock, file, wires>> /\ answer' = NoFile
    BY <1>8 DEF hydrateRecordsFromFile
  <2>2. \/ logbook' = logbook
        \/ logbook' = [lessons |-> answer.lessons, roll |-> answer.roll, revisedAt |-> answer.at]
    BY <1>8 DEF hydrateRecordsFromFile, replaceLogbookFromCloud
  <2>3. <<logbook'.revisedAt, logbook'.lessons>> \in Pages
    BY <2>2, PagesAre
  <2> QED BY <1>0, <2>1, <2>2, <2>3, PagesAre, PagesStay
<1>9. ASSUME NEW w \in wires, LandLesson(w) \/ LandLogbook(w) \/ PowerCut(w) \/ Lose(w)
      PROVE  PagesInv'
  <2>1. UNCHANGED <<clock, logbook, answer>> /\ wires' \subseteq wires
    BY <1>9 DEF LandLesson, LandLogbook, PowerCut, Lose, Station
  <2>2. \/ file' = file \/ file' = NoFile
        \/ w.to = "logbook" /\ file' = w.snapshot
    BY <1>9 DEF LandLesson, LandLogbook, PowerCut, Lose
  <2>3. <<file'.at, file'.lessons>> \in Pages
    BY <1>0, <2>2, PagesAre
  <2> QED BY <2>1, <2>3, PagesAre, PagesStay
<1>10. CASE StationStops \/ StationStarts
  BY <1>10, PagesAre, PagesStay DEF StationStops, StationStarts, Station
<1>11. CASE UNCHANGED recordsVars
  BY <1>11, PagesAre, PagesStay DEF recordsVars
<1> QED
  BY <1>1, <1>2, <1>3, <1>4, <1>5, <1>6, <1>7, <1>8, <1>9, <1>10, <1>11
  DEF RecordsNext, studentRegistered, lastStudentRemoved

\* A board whose book is what it saved last keeps its Lessons when an answer comes:
\* the answer wins only if it is of that save, or the board had none.
LEMMA HydrateKeeps ==
    ASSUME PagesInv, hydrateRecordsFromFile, logbook.revisedAt = clock,
           NEW id \in LessonIds(logbook.lessons)
    PROVE  id \in LessonIds(logbook'.lessons) /\ LessonOf(logbook', id) = LessonOf(logbook, id)
<1>1. logbook'.lessons = logbook.lessons
  <2>1. CASE ~FileWins(logbook, answer)
    BY <2>1 DEF hydrateRecordsFromFile
  <2>2. CASE FileWins(logbook, answer)
    <3>1. logbook.lessons # <<>>
      BY DEF LessonIds
    <3>2. answer.at >= clock
      BY <2>2, <3>1 DEF FileWins, Vacant
    <3>3. answer.at \in Nat /\ answer.at <= clock /\ clock \in Nat
      BY PagesAre DEF PagesInv, PagesAgree
    <3>4. answer.at = logbook.revisedAt
      BY <3>2, <3>3
    <3>5. answer.lessons = logbook.lessons
      BY <3>4, PagesAre DEF PagesInv, PagesAgree
    <3> QED BY <2>2, <3>5 DEF hydrateRecordsFromFile, replaceLogbookFromCloud
  <2> QED BY <2>1, <2>2
<1> QED BY <1>1 DEF LessonOf

\* No answer from the file takes a Lesson back from a board whose book is what it
\* saved last, whatever was saved, sent and landed since it was asked for.
THEOREM HydrateNeverForgets == RecordsSpec => HydrateForgetsNothing
<1>1. PagesInv /\ [RecordsNext]_recordsVars =>
         [hydrateRecordsFromFile /\ logbook.revisedAt = clock =>
             \A id \in LessonIds(logbook.lessons) :
                 /\ id \in LessonIds(logbook'.lessons)
                 /\ LessonOf(logbook', id) = LessonOf(logbook, id)]_recordsVars
  BY HydrateKeeps
<1> QED BY PagesInit, PagesStep, <1>1, PTL DEF RecordsSpec, HydrateForgetsNothing

(***************************************************************************)
(* What the variables of the records hold.                                 *)
(***************************************************************************)
Entry(now) == [id : 0..now, ended : 0..now]

\* A list of Lessons no longer than a Logbook keeps, none later than now, no two of one id.
Paper(lessons, now) ==
    /\ lessons \in Seq(Entry(now)) /\ Len(lessons) <= Kept
    /\ \A i, j \in DOMAIN lessons : lessons[i].id = lessons[j].id => i = j

Rolls == {logbook.roll, file.roll, answer.roll}
         \cup {w.snapshot.roll : w \in {v \in wires : v.to = "logbook"}}

RecordsInv ==
    /\ clock \in 0..MaxSaves /\ due \subseteq 0..clock
    /\ hydrate \in {"asking", "answered", "done"} /\ up \in BOOLEAN
    /\ \A p \in Pages : Paper(p[2], clock)
    /\ \A roll \in Rolls : roll \in BOOLEAN

LEMMA EntryGrows ==
    ASSUME NEW now \in Nat
    PROVE  Entry(now) \subseteq Entry(now + 1)
BY DEF Entry

LEMMA PaperListed ==
    ASSUME NEW now \in Nat, NEW lessons, Paper(lessons, now)
    PROVE  /\ lessons \in Seq(Entry(now + 1)) /\ Len(lessons) \in Nat
           /\ DOMAIN lessons = 1..Len(lessons)
           /\ \A i \in DOMAIN lessons : lessons[i] \in Entry(now) /\ lessons[i].id \in 0..now
<1>1. lessons \in Seq(Entry(now)) /\ Entry(now) \subseteq Entry(now + 1)
  BY EntryGrows DEF Paper
<1>2. \A i \in DOMAIN lessons : lessons[i] \in Entry(now)
  BY <1>1
<1>3. \A i \in DOMAIN lessons : lessons[i].id \in 0..now
  BY <1>2 DEF Entry
<1>4. Seq(Entry(now)) \subseteq Seq(Entry(now + 1))
  BY <1>1
<1>5. Len(lessons) \in Nat /\ DOMAIN lessons = 1..Len(lessons)
  BY <1>1
<1> QED BY <1>1, <1>2, <1>3, <1>4, <1>5

\* A Lesson begun now goes in front, and the last one falls off a full Logbook.
LEMMA LessonBegun ==
    ASSUME NEW now \in Nat, NEW lessons, Paper(lessons, now)
    PROVE  Paper(withLesson(lessons, [id |-> now + 1, ended |-> Running]), now + 1)
<1> DEFINE new == [id |-> now + 1, ended |-> Running]
           T == Entry(now + 1)
           all == <<new>> \o lessons
           m == Min({Kept, 1 + Len(lessons)})
           kept == SubSeq(all, 1, m)
<1>1. lessons \in Seq(T) /\ new \in T /\ Len(lessons) \in Nat /\ Kept \in Nat \ {0}
  <2>1. new \in T
    BY DEF Running, Entry
  <2> QED BY <2>1, PaperListed, RecordsBoundsAssumption
<1>2. m \in {Kept, 1 + Len(lessons)} /\ m \in Nat /\ m >= 1
  <2>1. m \in {Kept, 1 + Len(lessons)}
    <3>1. {Kept, 1 + Len(lessons)} \in SUBSET Nat /\ {Kept, 1 + Len(lessons)} # {}
      BY <1>1
    <3> QED BY <3>1, MinOf
  <2> QED BY <1>1, <2>1
<1>3. m <= Kept /\ m <= 1 + Len(lessons)
  <2> DEFINE S == {Kept, 1 + Len(lessons)}
  <2>1. S \in SUBSET Nat /\ S # {}
    BY <1>1
  <2>2. PICK n \in S : \A k \in S : n <= k
    <3> HIDE DEF S
    <3> QED BY <2>1, LeastOf
  <2>3. \A k \in S : m <= k
    BY <2>2 DEF Min
  <2> QED BY <2>3
<1>4. /\ all \in Seq(T) /\ Len(all) = 1 + Len(lessons) /\ all[1] = new
      /\ \A i \in 1..Len(lessons) : all[1 + i] = lessons[i]
  <2> HIDE DEF T, new
  <2>1. <<new>> \in Seq(T) /\ Len(<<new>>) = 1 /\ <<new>>[1] = new /\ 1 \in 1..1
    BY <1>1
  <2> QED BY <1>1, <2>1, Followed
<1>5. \A i \in 2..Len(all) : all[i] = lessons[i - 1] /\ i - 1 \in DOMAIN lessons
  <2> SUFFICES ASSUME NEW i \in 2..Len(all)
               PROVE  all[i] = lessons[i - 1] /\ i - 1 \in DOMAIN lessons
    OBVIOUS
  <2> HIDE DEF all
  <2>1. i - 1 \in 1..Len(lessons) /\ 1 + (i - 1) = i
    BY <1>1, <1>4
  <2>2. all[1 + (i - 1)] = lessons[i - 1]
    BY <1>4, <2>1
  <2> QED BY <2>1, <2>2, PaperListed
<1> HIDE DEF all, m, T
<1>6. kept \in Seq(T) /\ Len(kept) = m /\ \A i \in 1..m : kept[i] = all[i] /\ i \in 1..Len(all)
  BY <1>1, <1>2, <1>3, <1>4
<1>7. \A i \in 2..m : i \in 2..Len(all)
  BY <1>1, <1>2, <1>3, <1>4
<1>8. \A i \in DOMAIN lessons : lessons[i].id \in 0..now
  BY PaperListed
<1>10. kept = withLesson(lessons, new) /\ new.id = now + 1
  BY DEF withLesson, all, m
<1> HIDE DEF kept, new
<1>9. ASSUME NEW i \in 1..m, NEW j \in 1..m, kept[i].id = kept[j].id PROVE i = j
  <2>1. ASSUME NEW k \in 2..m PROVE kept[k].id = lessons[k - 1].id /\ kept[k].id \in 0..now
    <3>1. k \in 1..m /\ k \in 2..Len(all)
      BY <1>7
    <3>2. kept[k] = lessons[k - 1] /\ k - 1 \in DOMAIN lessons
      BY <3>1, <1>5, <1>6
    <3> QED BY <3>2, <1>8
  <2>2. kept[1].id = now + 1
    <3>1. 1 \in 1..m /\ kept[1] = all[1]
      BY <1>2, <1>6
    <3> QED BY <3>1, <1>4, <1>10
  <2>3. CASE i = 1 /\ j # 1
    <3>1. j \in 2..m
      BY <2>3
    <3> QED BY <2>1, <2>2, <2>3, <3>1, <1>9
  <2>4. CASE j = 1 /\ i # 1
    <3>1. i \in 2..m
      BY <2>4
    <3> QED BY <2>1, <2>2, <2>4, <3>1, <1>9
  <2>5. CASE i # 1 /\ j # 1
    <3>1. i \in 2..m /\ j \in 2..m
      BY <2>5
    <3>2. lessons[i - 1].id = lessons[j - 1].id
      BY <2>1, <3>1, <1>9
    <3>3. i - 1 \in DOMAIN lessons /\ j - 1 \in DOMAIN lessons
      BY <1>5, <1>7, <3>1
    <3>4. i - 1 = j - 1
      BY <3>2, <3>3 DEF Paper
    <3> QED BY <3>1, <3>4
  <2> QED BY <2>3, <2>4, <2>5
<1>11. DOMAIN kept = 1..m
  BY <1>6
<1>12. Paper(kept, now + 1)
  BY <1>3, <1>6, <1>9, <1>11 DEF Paper, T
<1> QED BY <1>10, <1>12 DEF new

LEMMA LessonEnded ==
    ASSUME NEW now \in Nat, NEW lessons, Paper(lessons, now), NEW id
    PROVE  Paper([i \in DOMAIN lessons |->
                    IF lessons[i].id = id THEN [lessons[i] EXCEPT !.ended = now + 1]
                    ELSE lessons[i]], now + 1)
<1> DEFINE U == Entry(now + 1)
           then == [i \in DOMAIN lessons |->
                      IF lessons[i].id = id THEN [lessons[i] EXCEPT !.ended = now + 1]
                      ELSE lessons[i]]
<1>1. lessons \in Seq(U) /\ Len(lessons) \in Nat /\ DOMAIN lessons = 1..Len(lessons)
  BY PaperListed
<1>2. \A i \in DOMAIN lessons : lessons[i] \in Entry(now)
  BY PaperListed
<1>3. \A i \in DOMAIN lessons : then[i] \in U /\ then[i].id = lessons[i].id
  BY <1>2 DEF Entry
<1>4. then \in Seq(U) /\ Len(then) = Len(lessons) /\ DOMAIN then = DOMAIN lessons
  <2> HIDE DEF U
  <2>1. \A i \in 1..Len(lessons) : then[i] \in U
    BY <1>1, <1>3
  <2>2. then = [i \in 1..Len(lessons) |-> then[i]]
    BY <1>1
  <2> HIDE DEF then
  <2> QED BY <1>1, <2>1, <2>2
<1> HIDE DEF then
<1>5. Paper(then, now + 1)
  BY <1>3, <1>4 DEF Paper
<1> QED BY <1>5 DEF then

LEMMA PaperLater ==
    ASSUME NEW now \in Nat, NEW lessons, Paper(lessons, now)
    PROVE  Paper(lessons, now + 1)
BY PaperListed DEF Paper

LEMMA TypeInit == RecordsInit => RecordsInv
<1> SUFFICES ASSUME RecordsInit PROVE RecordsInv
  OBVIOUS
<1>1. Pages = {<<0, <<>>>>} /\ Rolls = {FALSE}
  BY DEF RecordsInit, Pages, Rolls, EmptyLogbook, NoFile
<1>2. Paper(<<>>, 0)
  BY RecordsBoundsAssumption DEF Paper
<1>3. clock = 0 /\ due = {} /\ hydrate = "asking" /\ up = TRUE
  BY DEF RecordsInit
<1>4. \A p \in Pages : Paper(p[2], 0)
  BY <1>1, <1>2
<1> QED BY <1>1, <1>3, <1>4, RecordsBoundsAssumption DEF RecordsInv

\* A step that makes no page of its own, and saves nothing.
LEMMA TypeStays ==
    ASSUME RecordsInv, clock' = clock, due' \subseteq due,
           hydrate' \in {"asking", "answered", "done"}, up' \in BOOLEAN,
           <<logbook'.revisedAt, logbook'.lessons>> \in Pages, logbook'.roll \in BOOLEAN,
           <<file'.at, file'.lessons>> \in Pages, file'.roll \in BOOLEAN,
           <<answer'.at, answer'.lessons>> \in Pages, answer'.roll \in BOOLEAN,
           \A w \in wires' : w.to = "logbook" =>
              <<w.snapshot.at, w.snapshot.lessons>> \in Pages /\ w.snapshot.roll \in BOOLEAN
    PROVE  RecordsInv'
<1>1. Pages' \subseteq Pages
  <2>1. <<0, <<>>>> \in Pages
    BY DEF Pages
  <2> QED BY <2>1 DEF Pages
<1>2. \A p \in Pages' : Paper(p[2], clock')
  BY <1>1 DEF RecordsInv
<1>3. \A roll \in Rolls' : roll \in BOOLEAN
  BY DEF Rolls
<1> QED BY <1>2, <1>3 DEF RecordsInv, Paper

\* A save of one.
LEMMA TypeSaved ==
    ASSUME RecordsInv, PagesInv, NEW b, save(b),
           b = [lessons |-> b.lessons, roll |-> b.roll, revisedAt |-> b.revisedAt],
           Paper(b.lessons, clock + 1), b.roll \in BOOLEAN,
           due' \subseteq 0..(clock + 1), UNCHANGED <<hydrate, up, file, answer, wires>>
    PROVE  RecordsInv'
<1>1. /\ clock' = clock + 1 /\ clock \in 0..MaxSaves /\ clock < MaxSaves
      /\ logbook' = [lessons |-> b.lessons, roll |-> b.roll, revisedAt |-> clock + 1]
  BY DEF save, RecordsInv
<1>2. clock \in Nat /\ clock' \in 0..MaxSaves
  BY <1>1, RecordsBoundsAssumption
<1>3. Pages' \subseteq Pages \cup {<<clock + 1, b.lessons>>}
  BY <1>1 DEF Pages
<1>4. \A p \in Pages : Paper(p[2], clock + 1)
  BY <1>2, PaperLater DEF RecordsInv
<1>5. \A p \in Pages' : Paper(p[2], clock + 1)
  <2>1. \A p \in Pages' : p \in Pages \/ p[2] = b.lessons
    BY <1>3
  <2> QED BY <2>1, <1>4
<1>6. Rolls' \subseteq Rolls \cup {b.roll}
  BY <1>1 DEF Rolls
<1>7. \A p \in Pages' : Paper(p[2], clock')
  BY <1>1, <1>5
<1>8. \A roll \in Rolls' : roll \in BOOLEAN
  BY <1>6 DEF RecordsInv
<1>9. due' \subseteq 0..clock' /\ hydrate' \in {"asking", "answered", "done"} /\ up' \in BOOLEAN
  BY <1>1 DEF RecordsInv
<1> QED BY <1>2, <1>7, <1>8, <1>9 DEF RecordsInv, Paper

\* What a step begins with.
LEMMA TypeFacts ==
    ASSUME RecordsInv
    PROVE  /\ clock \in Nat /\ Paper(logbook.lessons, clock) /\ Paper(file.lessons, clock)
           /\ logbook.roll \in BOOLEAN /\ file.roll \in BOOLEAN /\ answer.roll \in BOOLEAN
           /\ \A w \in wires : w.to = "logbook" => w.snapshot.roll \in BOOLEAN
           /\ hydrate \in {"asking", "answered", "done"} /\ up \in BOOLEAN
           /\ due \subseteq 0..clock
<1>1. Paper(logbook.lessons, clock) /\ Paper(file.lessons, clock)
  BY PagesAre DEF RecordsInv
<1>2. /\ logbook.roll \in Rolls /\ file.roll \in Rolls /\ answer.roll \in Rolls
      /\ \A w \in wires : w.to = "logbook" => w.snapshot.roll \in Rolls
  BY DEF Rolls
<1> QED BY <1>1, <1>2, RecordsBoundsAssumption DEF RecordsInv

LEMMA TypeStep == RecordsInv /\ PagesInv /\ [RecordsNext]_recordsVars => RecordsInv'
<1> SUFFICES ASSUME RecordsInv, PagesInv, [RecordsNext]_recordsVars PROVE RecordsInv'
  OBVIOUS
<1>0. NoFile.at = 0 /\ NoFile.lessons = <<>> /\ NoFile.roll = FALSE
      /\ EmptyLogbook = [lessons |-> <<>>, roll |-> FALSE, revisedAt |-> 0]
  BY DEF NoFile, EmptyLogbook
<1>1. ASSUME startLesson PROVE RecordsInv'
  <2> DEFINE l == withLesson(logbook.lessons, [id |-> clock + 1, ended |-> Running])
             b == [logbook EXCEPT !.lessons = l]
  <2>1. save(b) /\ UNCHANGED <<hydrate, up, file, answer, wires>>
    BY <1>1 DEF startLesson
  <2>2. due' = due \cup {clock + 1}
    BY <1>1 DEF startLesson
  <2>3. due' \subseteq 0..(clock + 1)
    BY <2>2, TypeFacts
  <2>4. Paper(l, clock + 1)
    BY TypeFacts, LessonBegun
  <2> HIDE DEF l
  <2>5. /\ b = [lessons |-> b.lessons, roll |-> b.roll, revisedAt |-> b.revisedAt]
        /\ b.lessons = l /\ b.roll = logbook.roll
    BY DEF PagesInv
  <2> HIDE DEF b
  <2> QED BY <2>1, <2>3, <2>4, <2>5, TypeFacts, TypeSaved
<1>2. ASSUME NEW id \in LessonIds(logbook.lessons), endLesson(id) PROVE RecordsInv'
  <2> DEFINE l == [i \in DOMAIN logbook.lessons |->
                     IF logbook.lessons[i].id = id THEN [logbook.lessons[i] EXCEPT !.ended = clock + 1]
                     ELSE logbook.lessons[i]]
             b == [logbook EXCEPT !.lessons = l]
  <2>1. save(b) /\ UNCHANGED <<hydrate, up, file, answer, wires>>
    BY <1>2 DEF endLesson
  <2>2. due' = due \cup {id}
    BY <1>2 DEF endLesson
  <2>3. due' \subseteq 0..(clock + 1)
    <3>1. id \in 0..clock
      BY TypeFacts, PaperListed DEF LessonIds
    <3> QED BY <2>2, <3>1, TypeFacts
  <2>4. Paper(l, clock + 1)
    BY TypeFacts, LessonEnded
  <2> HIDE DEF l
  <2>5. /\ b = [lessons |-> b.lessons, roll |-> b.roll, revisedAt |-> b.revisedAt]
        /\ b.lessons = l /\ b.roll = logbook.roll
    BY DEF PagesInv
  <2> HIDE DEF b
  <2> QED BY <2>1, <2>3, <2>4, <2>5, TypeFacts, TypeSaved
<1>3. ASSUME NEW roll \in BOOLEAN, RollSaved(roll) PROVE RecordsInv'
  <2> DEFINE b == [logbook EXCEPT !.roll = roll]
  <2>1. save(b) /\ UNCHANGED <<due, hydrate, up, file, answer, wires>>
    BY <1>3 DEF RollSaved
  <2>2. due' \subseteq 0..(clock + 1)
    BY <2>1, TypeFacts
  <2>3. Paper(logbook.lessons, clock + 1)
    BY TypeFacts, PaperLater
  <2>4. /\ b = [lessons |-> b.lessons, roll |-> b.roll, revisedAt |-> b.revisedAt]
        /\ b.lessons = logbook.lessons /\ b.roll = roll
    BY DEF PagesInv
  <2> HIDE DEF b
  <2> QED BY <1>3, <2>1, <2>2, <2>3, <2>4, TypeSaved
<1>4. ASSUME NEW id \in due, NEW room \in Rooms, persistLessonRecords(id, room) PROVE RecordsInv'
  <2>1. UNCHANGED <<clock, logbook, hydrate, up, file, answer>> /\ due' \subseteq due
    BY <1>4 DEF persistLessonRecords
  <2>2. ASSUME NEW w \in wires', w.to = "logbook"
        PROVE  <<w.snapshot.at, w.snapshot.lessons>> \in Pages /\ w.snapshot.roll \in BOOLEAN
    <3>1. CASE w \in wires
      BY <2>2, <3>1, PagesAre, TypeFacts
    <3>2. CASE w \notin wires
      <4>1. /\ w.snapshot.at = logbook.revisedAt /\ w.snapshot.lessons = logbook.lessons
            /\ w.snapshot.roll = logbook.roll
        BY <1>4, <2>2, <3>2 DEF persistLessonRecords
      <4> QED BY <4>1, PagesAre, TypeFacts
    <3> QED BY <3>1, <3>2
  <2> QED BY <2>1, <2>2, PagesAre, TypeFacts, TypeStays
<1>5. CASE Reload
  <2>1. /\ UNCHANGED <<clock, logbook, up, file, wires>> /\ answer' = NoFile
        /\ due' \subseteq due /\ hydrate' = "asking"
    BY <1>5 DEF Reload, Opened
  <2> QED BY <1>0, <2>1, PagesAre, TypeFacts, TypeStays
<1>6. CASE ClearBrowsingData
  <2>1. /\ UNCHANGED <<clock, up, file, wires>> /\ answer' = NoFile
        /\ due' \subseteq due /\ hydrate' = "asking" /\ logbook' = EmptyLogbook
    BY <1>6 DEF ClearBrowsingData, Opened
  <2>2. logbook'.revisedAt = 0 /\ logbook'.lessons = <<>> /\ logbook'.roll = FALSE
    BY <1>0, <2>1
  <2> QED BY <1>0, <2>1, <2>2, PagesAre, TypeFacts, TypeStays
<1>7. CASE AnswerGet
  <2>1. answer' = file \/ answer' = answer
    BY <1>7 DEF AnswerGet
  <2>2. /\ UNCHANGED <<clock, logbook, due, up, file, wires>>
        /\ hydrate' \in {"asking", "answered", "done"}
    BY <1>7 DEF AnswerGet
  <2> QED BY <2>1, <2>2, PagesAre, TypeFacts, TypeStays
<1>8. CASE hydrateRecordsFromFile
  <2>1. UNCHANGED <<clock, due, up, file, wires>> /\ answer' = NoFile /\ hydrate' = "done"
    BY <1>8 DEF hydrateRecordsFromFile
  <2>2. \/ logbook' = logbook
        \/ logbook' = [lessons |-> answer.lessons, roll |-> answer.roll, revisedAt |-> answer.at]
    BY <1>8 DEF hydrateRecordsFromFile, replaceLogbookFromCloud
  <2>3. <<logbook'.revisedAt, logbook'.lessons>> \in Pages /\ logbook'.roll \in BOOLEAN
    BY <2>2, PagesAre, TypeFacts
  <2> QED BY <1>0, <2>1, <2>3, PagesAre, TypeFacts, TypeStays
<1>9. ASSUME NEW w \in wires, LandLesson(w) \/ LandLogbook(w) \/ PowerCut(w) \/ Lose(w)
      PROVE  RecordsInv'
  <2>1. UNCHANGED <<clock, logbook, answer, due, hydrate>> /\ wires' \subseteq wires
    BY <1>9 DEF LandLesson, LandLogbook, PowerCut, Lose, Station
  <2>2. \/ file' = file \/ file' = NoFile
        \/ w.to = "logbook" /\ file' = w.snapshot
    BY <1>9 DEF LandLesson, LandLogbook, PowerCut, Lose
  <2>3. <<file'.at, file'.lessons>> \in Pages /\ file'.roll \in BOOLEAN
    BY <1>0, <2>2, PagesAre, TypeFacts
  <2>4. up' = up \/ up' = FALSE
    BY <1>9 DEF LandLesson, LandLogbook, PowerCut, Lose
  <2> QED BY <2>1, <2>3, <2>4, PagesAre, TypeFacts, TypeStays
<1>10. CASE StationStops \/ StationStarts
  <2>1. UNCHANGED <<clock, logbook, answer, due, hydrate, wires, file>> /\ up' \in BOOLEAN
    BY <1>10 DEF StationStops, StationStarts, Station
  <2> QED BY <2>1, PagesAre, TypeFacts, TypeStays
<1>11. CASE UNCHANGED recordsVars
  <2>1. UNCHANGED <<clock, logbook, answer, due, hydrate, wires, file, up>>
    BY <1>11 DEF recordsVars
  <2> QED BY <2>1, PagesAre, TypeFacts, TypeStays
<1> QED
  BY <1>1, <1>2, <1>3, <1>4, <1>5, <1>6, <1>7, <1>8, <1>9, <1>10, <1>11
  DEF RecordsNext, studentRegistered, lastStudentRemoved

\* Every variable holds what its type says, and the browser's book and the file's
\* hold no more Lessons than a Logbook keeps, no two of one id.
THEOREM RecordsTyped == RecordsSpec => []RecordsTypeOK
<1>1. RecordsInv /\ PagesInv => RecordsTypeOK
  <2> SUFFICES ASSUME RecordsInv, PagesInv PROVE RecordsTypeOK
    OBVIOUS
  <2>0. 0..clock \subseteq Times /\ clock \in Times
    BY TypeFacts, RecordsBoundsAssumption DEF Times, RecordsInv
  <2>1. ASSUME NEW lessons, Paper(lessons, clock) PROVE Lessons(lessons)
    <3>1. \A i \in DOMAIN lessons : lessons[i] \in Entry(clock)
      BY <2>1, TypeFacts, PaperListed
    <3>2. Entry(clock) \subseteq [id : Times, ended : Times]
      BY <2>0 DEF Entry
    <3>3. \A i \in DOMAIN lessons : lessons[i].id \in Times /\ lessons[i].ended \in Times
      BY <3>1, <3>2
    <3> QED BY <2>1, <3>3 DEF Lessons, Paper
  <2>2. \A p \in Pages : p[1] \in Nat /\ p[1] <= clock
    BY DEF PagesInv, PagesAgree
  <2>3. logbook.revisedAt \in 0..clock /\ file.at \in 0..clock
    BY <2>2, PagesAre, TypeFacts
  <2>4. Lessons(logbook.lessons) /\ Lessons(file.lessons)
    BY <2>1, TypeFacts
  <2> QED BY <2>0, <2>3, <2>4, TypeFacts DEF RecordsTypeOK
<1>2. RecordsInit => RecordsInv /\ PagesInv
  BY TypeInit, PagesInit
<1>3. RecordsInv /\ PagesInv /\ [RecordsNext]_recordsVars => (RecordsInv /\ PagesInv)'
  BY TypeStep, PagesStep
<1> QED BY <1>1, <1>2, <1>3, PTL DEF RecordsSpec
=============================================================================
