------------------------- MODULE FleetBoard_proofs -------------------------
(***************************************************************************)
(* What the ground station's record and the board's Fleet State keep, for  *)
(* every number of Drones, every threshold in the order readThresholds     *)
(* asks for, and every bound on the record: an Offline Drone's readings    *)
(* are stale (IInv), its timeline is one story and no two events share an  *)
(* id (StoryInv), and a board that has caught up has missed no event       *)
(* (PastInv).                                                              *)
(***************************************************************************)
EXTENDS FleetBoard, FiniteSetTheorems, SequenceTheorems, WellFoundedInduction, TLAPS

-----------------------------------------------------------------------------
(* Lists in board order. *)

\* A set of naturals that is not empty has a least one.
LEMMA LeastNat ==
  ASSUME NEW T \in SUBSET Nat, T # {}
  PROVE  \E n \in T : \A m \in T : n <= m
<1> DEFINE R == {p \in Nat \X Nat : p[1] < p[2]}
<1>1. IsWellFoundedOn(OpToRel(<, Nat), Nat)
  BY NatLessThanWellFounded
<1>2. OpToRel(<, Nat) = R
  BY DEF OpToRel
<1>3. IsWellFoundedOn(R, Nat)
  BY <1>1, <1>2
<1>4. \E n \in T : \A m \in T : ~(<<m, n>> \in R)
  <2> HIDE DEF R
  <2> QED BY <1>3, WFMin
<1>5. ASSUME NEW n \in T, NEW m \in T, ~(<<m, n>> \in R)
      PROVE  n <= m
  BY <1>5
<1> QED
  BY <1>4, <1>5

Ascends(list, S) ==
  /\ list \in [1 .. Cardinality(S) -> S]
  /\ \A i, j \in 1 .. Cardinality(S) : i < j => list[i] < list[j]

\* One more than a list: what goes before it.
LEMMA AscendsFrom ==
  ASSUME NEW S \in SUBSET Nat, IsFiniteSet(S), NEW m \in S, \A n \in S : m <= n,
         NEW rest, Ascends(rest, S \ {m})
  PROVE  \E list : Ascends(list, S)
<1> DEFINE k == Cardinality(S)
           list == [i \in 1 .. k |-> IF i = 1 THEN m ELSE rest[i - 1]]
<1>1. k \in Nat /\ Cardinality(S \ {m}) = k - 1
  BY FS_CardinalityType, FS_RemoveElement
<1>2. \A i \in 1 .. k : i # 1 => i - 1 \in 1 .. k - 1 /\ rest[i - 1] \in S \ {m}
  BY <1>1 DEF Ascends
<1>3. list \in [1 .. k -> S]
  BY <1>2
<1>4. ASSUME NEW i \in 1 .. k, NEW j \in 1 .. k, i < j
      PROVE  list[i] < list[j]
  <2>1. CASE i = 1
    <3>1. j # 1 /\ list[i] = m /\ list[j] = rest[j - 1] /\ rest[j - 1] \in S \ {m}
      BY <1>1, <1>2, <1>4, <2>1
    <3>2. \A n \in S \ {m} : m < n
      OBVIOUS
    <3> HIDE DEF list
    <3> QED BY <3>1, <3>2
  <2>2. CASE i # 1
    <3>1. j # 1 /\ i - 1 \in 1 .. k - 1 /\ j - 1 \in 1 .. k - 1 /\ i - 1 < j - 1
      BY <1>1, <1>4, <2>2
    <3>2. list[i] = rest[i - 1] /\ list[j] = rest[j - 1]
      BY <2>2, <3>1
    <3> HIDE DEF list
    <3> QED BY <1>1, <3>1, <3>2 DEF Ascends
  <2> QED BY <2>1, <2>2
<1> HIDE DEF list
<1> QED
  BY <1>3, <1>4 DEF Ascends

\* Every finite set of naturals can be listed in order.
LEMMA AscendingList ==
  ASSUME NEW S \in SUBSET Nat, IsFiniteSet(S)
  PROVE  \E list : Ascends(list, S)
<1> DEFINE Bad(X) == IsFiniteSet(X) /\ ~\E list : Ascends(list, X)
           T == {n \in Nat : \E X \in SUBSET Nat : Bad(X) /\ Cardinality(X) = n}
<1>1. SUFFICES ASSUME Bad(S) PROVE FALSE
  OBVIOUS
<1>2. Cardinality(S) \in T
  BY <1>1, FS_CardinalityType
<1>3. PICK n \in T : \A m \in T : n <= m
  <2>1. T \in SUBSET Nat /\ T # {}
    BY <1>2
  <2> HIDE DEF T
  <2> QED BY <2>1, LeastNat
<1>4. PICK X \in SUBSET Nat : Bad(X) /\ Cardinality(X) = n
  BY <1>3
<1>5. X # {}
  <2>1. ASSUME X = {} PROVE FALSE
    <3>1. Ascends([i \in 1 .. 0 |-> 0], {})
      BY FS_EmptySet DEF Ascends
    <3> QED BY <1>4, <2>1, <3>1
  <2> QED BY <2>1
<1>6. PICK m \in X : \A k \in X : m <= k
  BY <1>5, LeastNat
<1>7. IsFiniteSet(X \ {m}) /\ Cardinality(X \ {m}) = n - 1 /\ n - 1 \in Nat
  BY <1>3, <1>4, <1>6, FS_RemoveElement, FS_CardinalityType, FS_EmptySet
<1>8. \E rest : Ascends(rest, X \ {m})
  <2>1. ASSUME Bad(X \ {m}) PROVE FALSE
    <3>1. n - 1 \in T
      BY <1>7, <2>1
    <3>2. n <= n - 1
      BY <1>3, <3>1
    <3> QED BY <1>3, <3>2
  <2> QED BY <1>7, <2>1
<1> QED
  BY <1>4, <1>6, <1>8, AscendsFrom

\* A function that never repeats itself, between sets of one size, leaves nothing out.
LEMMA InjectionCovers ==
  ASSUME NEW S, IsFiniteSet(S), NEW n \in Nat, Cardinality(S) = n, NEW f \in [1 .. n -> S],
         \A i, j \in 1 .. n : f[i] = f[j] => i = j
  PROVE  \A s \in S : \E i \in 1 .. n : f[i] = s
<1>1. IsFiniteSet(1 .. n) /\ Cardinality(1 .. n) = n
  BY FS_Interval
<1>2. f \in Injection(1 .. n, S)
  BY DEF Injection, IsInjective
<1>3. f \in Surjection(1 .. n, S)
  BY <1>1, <1>2, FS_Injection
<1> QED
  BY <1>3 DEF Surjection

\* Listed in order, a number comes after as many as there are less than it.
LEMMA InOrderAscends ==
  ASSUME NEW S \in SUBSET Nat, IsFiniteSet(S)
  PROVE  Ascends(InOrder(S), S)
<1> DEFINE n == Cardinality(S)
           less(s) == {m \in S : m < s}
           list == InOrder(S)
<1>1. n \in Nat
  BY FS_CardinalityType
<1>2. PICK g : Ascends(g, S)
  BY AscendingList
<1>3. list = [i \in 1 .. n |-> CHOOSE s \in S : Cardinality(less(s)) = i - 1]
  BY DEF InOrder
<1> HIDE DEF n, list
<1>4. g \in [1 .. n -> S] /\ \A i, j \in 1 .. n : i < j => g[i] < g[j]
  BY <1>2 DEF Ascends, n
<1>5. \A i \in 1 .. n : g[i] \in Nat
  BY <1>4
<1>6. \A i, j \in 1 .. n : g[i] = g[j] => i = j
  <2>1. \A i, j \in 1 .. n : i = j \/ i < j \/ j < i
    BY <1>1
  <2> QED BY <1>4, <1>5, <2>1
<1>7. \A s \in S : \E i \in 1 .. n : g[i] = s
  BY <1>1, <1>4, <1>6, InjectionCovers DEF n
<1>8. ASSUME NEW i \in 1 .. n PROVE Cardinality(less(g[i])) = i - 1
  <2> DEFINE h == [j \in 1 .. i - 1 |-> g[j]]
  <2>1. \A j \in 1 .. i - 1 : j \in 1 .. n /\ j < i
    BY <1>1
  <2>2. h \in [1 .. i - 1 -> less(g[i])]
    BY <1>4, <2>1
  <2>3. \A j, k \in 1 .. i - 1 : h[j] = h[k] => j = k
    BY <1>6, <2>1
  <2>4. \A s \in less(g[i]) : \E j \in 1 .. i - 1 : h[j] = s
    <3>1. SUFFICES ASSUME NEW s \in S, s < g[i] PROVE \E j \in 1 .. i - 1 : g[j] = s
      OBVIOUS
    <3>2. PICK j \in 1 .. n : g[j] = s
      BY <1>7
    <3>3. j # i /\ ~(i < j)
      BY <1>4, <1>5, <3>1, <3>2
    <3>4. j \in 1 .. i - 1
      BY <1>1, <3>3
    <3> QED BY <3>2, <3>4
  <2> HIDE DEF h, less
  <2>5. h \in Bijection(1 .. i - 1, less(g[i]))
    BY <2>2, <2>3, <2>4 DEF Bijection, Injection, Surjection, IsInjective
  <2>6. ExistsBijection(1 .. i - 1, less(g[i])) /\ i - 1 \in Nat
    BY <1>1, <2>5 DEF ExistsBijection
  <2> QED BY <2>6, FS_CountingElements
<1> HIDE DEF less
<1>9. ASSUME NEW i \in 1 .. n PROVE list[i] = g[i]
  <2>1. g[i] \in S /\ Cardinality(less(g[i])) = i - 1
    BY <1>4, <1>8
  <2>2. list[i] \in S /\ Cardinality(less(list[i])) = i - 1
    BY <1>3, <2>1
  <2>3. PICK j \in 1 .. n : g[j] = list[i]
    BY <1>7, <2>2
  <2>4. j - 1 = i - 1
    BY <1>8, <2>2, <2>3
  <2>5. i = j
    BY <1>1, <2>4
  <2> QED BY <2>3, <2>5
<1>10. list \in [1 .. n -> S]
  <2>1. \A i \in 1 .. n : list[i] \in S
    BY <1>4, <1>9
  <2> QED BY <1>3, <2>1
<1>11. \A i, j \in 1 .. n : i < j => list[i] < list[j]
  BY <1>4, <1>9
<1> QED
  BY <1>10, <1>11 DEF Ascends, n, list

-----------------------------------------------------------------------------
(* What happened between two Fleet States. *)

\* The Drones there is news of, in board order, are Drones.
LEMMA InOrderLists ==
  ASSUME NEW S \in SUBSET Drone
  PROVE  Ascends(InOrder(S), S) /\ Cardinality(S) \in Nat
<1>1. IsFiniteSet(Drone) /\ S \in SUBSET Nat
  BY FleetAssumption, FS_Interval DEF Drone
<1>2. IsFiniteSet(S)
  BY <1>1, FS_Subset
<1> QED
  BY <1>1, <1>2, InOrderAscends, FS_CardinalityType

\* The contacts of a Fleet are no later than t.
PastContact(fleet, t) ==
  \A d \in Drone : fleet[d].lastContact # Never => fleet[d].lastContact <= t

\* A function on 1 .. n is a sequence.
LEMMA FunctionIsASeq ==
  ASSUME NEW S, NEW n \in Nat, NEW f \in [1 .. n -> S]
  PROVE  f \in Seq(S) /\ DOMAIN f = 1 .. n
OBVIOUS

\* Events are events, and carry a moment no later than the Fleet State's.
LEMMA deriveEventsType ==
  ASSUME NEW before \in [Drone -> DroneState], NEW after \in [Drone -> DroneState],
         NEW t \in Nat, PastContact(after, t)
  PROVE  /\ deriveEvents(before, after, t) \in Seq(Event)
         /\ \A i \in DOMAIN deriveEvents(before, after, t) :
              deriveEvents(before, after, t)[i].at <= t
<1> DEFINE S == {d \in Drone : News(before[d], after[d])}
           told == InOrder(S)
           fresh == deriveEvents(before, after, t)
<1>1. Ascends(told, S) /\ Cardinality(S) \in Nat
  BY InOrderLists
<1>2. DOMAIN told = 1 .. Cardinality(S) /\ \A i \in DOMAIN told : told[i] \in Drone
  BY <1>1 DEF Ascends
<1>3. ASSUME NEW d \in Drone
      PROVE  /\ EventOf(d, before[d], after[d], t) \in Event
             /\ EventOf(d, before[d], after[d], t).at <= t
  <2>1. before[d] \in DroneState /\ after[d] \in DroneState
    OBVIOUS
  <2>2. classify(before[d].status, after[d].status) \in EventKind
    BY DEF classify, EventKind
  <2>3. /\ before[d].status \in Status /\ after[d].status \in Status
        /\ after[d].lastContact # Never => after[d].lastContact \in Nat
    BY <2>1 DEF DroneState
  <2>4. after[d].lastContact # Never => after[d].lastContact <= t
    BY DEF PastContact
  <2> QED
    BY <2>2, <2>3, <2>4 DEF EventOf, Event, EventKind
<1>4. fresh = [i \in DOMAIN told |-> EventOf(told[i], before[told[i]], after[told[i]], t)]
  BY DEF deriveEvents
<1> HIDE DEF told, fresh
<1>5. \A i \in 1 .. Cardinality(S) : fresh[i] \in Event /\ fresh[i].at <= t
  BY <1>2, <1>3, <1>4
<1>6. fresh \in [1 .. Cardinality(S) -> Event]
  BY <1>2, <1>4, <1>5
<1>7. fresh \in Seq(Event) /\ DOMAIN fresh = 1 .. Cardinality(S)
  <2> DEFINE n == Cardinality(S)
  <2> HIDE DEF n, S
  <2> QED BY <1>1, <1>6, FunctionIsASeq DEF n
<1> QED
  BY <1>5, <1>7 DEF fresh

-----------------------------------------------------------------------------
(* Retention. *)

\* What is trimmed is kept or dropped, and nothing else is.
LEMMA TrimKeeps ==
  ASSUME NEW S, NEW all \in Seq(S), NEW limit \in Nat
  PROVE  /\ Trim(all, limit).kept \in Seq(S)
         /\ Trim(all, limit).dropped \subseteq Heard(all)
         /\ Heard(Trim(all, limit).kept) \subseteq Heard(all)
         /\ \A e \in Heard(all) :
              e \in Heard(Trim(all, limit).kept) \/ e \in Trim(all, limit).dropped
<1>1. CASE Len(all) <= limit
  BY <1>1 DEF Trim, Heard
<1>2. CASE Len(all) > limit
  <2> DEFINE a == Len(all) - limit + 1
             kept == SubSeq(all, a, Len(all))
             dropped == {all[i] : i \in 1 .. Len(all) - limit}
  <2>1. Trim(all, limit) = [kept |-> kept, dropped |-> dropped]
    BY <1>2, LenProperties DEF Trim
  <2>2. Len(all) \in Nat /\ DOMAIN all = 1 .. Len(all) /\ a \in 2 .. Len(all) + 1
    BY <1>2, LenProperties
  <2>3. \A i \in a .. Len(all) : all[i] \in S
    BY <2>2, ElementOfSeq
  <2>4. /\ kept \in Seq(S)
        /\ Len(kept) = IF a <= Len(all) THEN Len(all) - a + 1 ELSE 0
        /\ \A i \in 1 .. Len(all) - a + 1 : kept[i] = all[a + i - 1]
    <3>1. a \in 1 .. Len(all) + 1 /\ Len(all) \in a - 1 .. Len(all)
      BY <2>2
    <3> HIDE DEF a
    <3> QED BY <2>2, <3>1, SubSeqProperties
  <2>5. Len(kept) = limit /\ DOMAIN kept = 1 .. limit
    BY <2>2, <2>4, LenProperties
  <2>6. \A i \in 1 .. limit : kept[i] = all[a + i - 1] /\ a + i - 1 \in DOMAIN all
    BY <2>2, <2>4
  <2>7. Heard(kept) \subseteq Heard(all) /\ dropped \subseteq Heard(all)
    <3>1. 1 .. Len(all) - limit \subseteq DOMAIN all
      BY <2>2
    <3> HIDE DEF kept
    <3> QED BY <2>5, <2>6, <3>1 DEF Heard
  <2>8. ASSUME NEW i \in DOMAIN all
        PROVE  all[i] \in Heard(kept) \/ all[i] \in dropped
    <3>1. CASE i <= Len(all) - limit
      BY <2>2, <3>1
    <3>2. CASE i > Len(all) - limit
      <4>1. i - a + 1 \in 1 .. limit /\ a + (i - a + 1) - 1 = i
        BY <2>2, <3>2
      <4>2. kept[i - a + 1] = all[i]
        BY <2>6, <4>1
      <4> HIDE DEF kept, a
      <4> QED BY <2>5, <4>1, <4>2 DEF Heard
    <3> QED BY <2>2, <3>1, <3>2
  <2> HIDE DEF kept, dropped
  <2>9. Trim(all, limit).kept = kept /\ Trim(all, limit).dropped = dropped
    BY <2>1
  <2>10. \A e \in Heard(all) : e \in Heard(kept) \/ e \in dropped
    BY <2>8 DEF Heard
  <2> QED
    BY <2>4, <2>7, <2>9, <2>10
<1> QED
  BY <1>1, <1>2, LenProperties

\* Battery samples stay in the past, and none is lost by sampling.
LEMMA SamplesKeep ==
  ASSUME NEW held \in Seq(Nat), NEW is \in DroneState, NEW moved \in BOOLEAN
  PROVE  /\ Samples(held, is, moved) \in Seq(Nat)
         /\ Heard(held) \subseteq Heard(Samples(held, is, moved))
         /\ \A x \in Heard(Samples(held, is, moved)) :
              x \in Heard(held) \/ (is.lastContact # Never /\ x = is.lastContact)
<1> DEFINE next == Samples(held, is, moved)
<1>1. CASE next = held
  BY <1>1
<1>2. CASE next # held
  <2>1. is.lastContact # Never /\ is.lastContact \in Nat /\ next = Append(held, is.lastContact)
    BY <1>2 DEF Samples, DroneState
  <2>2. /\ next \in Seq(Nat) /\ DOMAIN next = 1 .. Len(held) + 1
        /\ \A i \in 1 .. Len(held) : next[i] = held[i]
        /\ next[Len(held) + 1] = is.lastContact
    BY <2>1, AppendProperties, LenProperties
  <2>3. Len(held) \in Nat /\ DOMAIN held = 1 .. Len(held)
    BY LenProperties
  <2> HIDE DEF next
  <2>4. Heard(held) \subseteq Heard(next)
    BY <2>2, <2>3 DEF Heard
  <2>5. \A x \in Heard(next) : x \in Heard(held) \/ x = is.lastContact
    BY <2>2, <2>3 DEF Heard
  <2> QED BY <2>1, <2>2, <2>4, <2>5 DEF next
<1> QED
  BY <1>1, <1>2

-----------------------------------------------------------------------------
(* The timeline. *)

\* A set of numbers listed in order is all of it, each once.
LEMMA InOrderCovers ==
  ASSUME NEW S \in SUBSET Nat, IsFiniteSet(S)
  PROVE  /\ Ascends(InOrder(S), S) /\ Cardinality(S) \in Nat
         /\ \A i, j \in 1 .. Cardinality(S) : InOrder(S)[i] = InOrder(S)[j] => i = j
         /\ \A s \in S : \E i \in 1 .. Cardinality(S) : InOrder(S)[i] = s
<1> DEFINE n == Cardinality(S)
           list == InOrder(S)
<1>1. n \in Nat
  BY FS_CardinalityType
<1>2. Ascends(list, S)
  BY InOrderAscends
<1> HIDE DEF n, list
<1>3. list \in [1 .. n -> S] /\ \A i, j \in 1 .. n : i < j => list[i] < list[j]
  BY <1>2 DEF Ascends, n
<1>4. \A i, j \in 1 .. n : list[i] = list[j] => i = j
  <2> SUFFICES ASSUME NEW i \in 1 .. n, NEW j \in 1 .. n, list[i] = list[j], i < j \/ j < i
               PROVE  FALSE
    BY <1>1
  <2>1. list[i] \in Nat /\ list[j] \in Nat
    BY <1>3
  <2> QED BY <1>3, <2>1
<1>5. \A s \in S : \E i \in 1 .. n : list[i] = s
  BY <1>1, <1>3, <1>4, InjectionCovers DEF n
<1> QED
  BY <1>1, <1>2, <1>4, <1>5 DEF n, list

\* Intervals from one that are equal end where each other does.
LEMMA SameLength ==
  ASSUME NEW m \in Nat, NEW n \in Nat, 1 .. m = 1 .. n
  PROVE  m = n
<1>1. m > 0 => m \in 1 .. n
  OBVIOUS
<1>2. n > 0 => n \in 1 .. m
  OBVIOUS
<1> QED
  BY <1>1, <1>2

\* A publication tells once of each Drone there is news of, and of no other.
LEMMA FreshTells ==
  ASSUME NEW next
  PROVE  \E n \in Nat :
           /\ DOMAIN Fresh(next) = 1 .. n
           /\ \A i \in 1 .. n :
                \E d \in Drone :
                  /\ News(lastPublished[d], next[d])
                  /\ Fresh(next)[i] = EventOf(d, lastPublished[d], next[d], now)
           /\ \A i, j \in 1 .. n :
                Fresh(next)[i].droneId = Fresh(next)[j].droneId => i = j
           /\ \A d \in Drone : News(lastPublished[d], next[d]) =>
                \E i \in 1 .. n : Fresh(next)[i].droneId = d
<1> DEFINE S == {d \in Drone : News(lastPublished[d], next[d])}
           n == Cardinality(S)
           told == InOrder(S)
           fresh == Fresh(next)
<1>1. S \in SUBSET Nat /\ IsFiniteSet(S)
  <2>1. IsFiniteSet(Drone) /\ Drone \subseteq Nat
    BY FleetAssumption, FS_Interval DEF Drone
  <2> QED BY <2>1, FS_Subset
<1>2. fresh = [i \in DOMAIN told |->
                 EventOf(told[i], lastPublished[told[i]], next[told[i]], now)]
  BY DEF Fresh, deriveEvents
<1>3. \A d \in S : d \in Drone /\ News(lastPublished[d], next[d])
  OBVIOUS
<1>4. \A d \in Drone : News(lastPublished[d], next[d]) => d \in S
  OBVIOUS
<1>5. \A d : EventOf(d, lastPublished[d], next[d], now).droneId = d
  BY DEF EventOf
<1> HIDE DEF S
<1>6. /\ n \in Nat /\ Ascends(told, S)
      /\ \A i, j \in 1 .. n : told[i] = told[j] => i = j
      /\ \A s \in S : \E i \in 1 .. n : told[i] = s
  BY <1>1, InOrderCovers
<1> HIDE DEF told, n, fresh
<1>7. told \in [1 .. n -> S]
  BY <1>6 DEF Ascends, n
<1>8. DOMAIN fresh = 1 .. n /\ \A i \in 1 .. n :
        fresh[i] = EventOf(told[i], lastPublished[told[i]], next[told[i]], now)
  BY <1>2, <1>7
<1>9. \A i \in 1 .. n : fresh[i].droneId = told[i] /\ told[i] \in S
  BY <1>5, <1>7, <1>8
<1>10. \A i \in 1 .. n : \E d \in Drone :
         /\ News(lastPublished[d], next[d])
         /\ fresh[i] = EventOf(d, lastPublished[d], next[d], now)
  BY <1>3, <1>8, <1>9
<1>11. \A d \in Drone : News(lastPublished[d], next[d]) => \E i \in 1 .. n : fresh[i].droneId = d
  BY <1>4, <1>6, <1>9
<1>12. \A i, j \in 1 .. n : fresh[i].droneId = fresh[j].droneId => i = j
  BY <1>6, <1>9
<1> QED
  BY <1>6, <1>8, <1>10, <1>11, <1>12 DEF fresh

\* What retention keeps is the end of what there was.
LEMMA TrimIsTheEnd ==
  ASSUME NEW S, NEW all \in Seq(S), NEW limit \in Nat
  PROVE  \E a \in 0 .. Len(all) :
           /\ Trim(all, limit).kept \in Seq(S)
           /\ Len(Trim(all, limit).kept) = Len(all) - a
           /\ \A i \in 1 .. Len(all) - a : Trim(all, limit).kept[i] = all[a + i]
           /\ a = 0 \/ Len(all) - a = limit
           /\ Len(all) - a <= limit
<1>1. CASE Len(all) <= limit
  <2>1. Trim(all, limit).kept = all
    BY <1>1 DEF Trim
  <2>2. Len(all) \in Nat /\ 0 \in 0 .. Len(all)
    BY LenProperties
  <2>3. \A i \in 1 .. Len(all) - 0 : all[i] = all[0 + i]
    OBVIOUS
  <2>4. Len(all) = Len(all) - 0 /\ Len(all) - 0 <= limit
    BY <1>1, <2>2
  <2> QED BY <2>1, <2>2, <2>3, <2>4
<1>2. CASE Len(all) > limit
  <2> DEFINE a == Len(all) - limit
             kept == SubSeq(all, a + 1, Len(all))
  <2>1. Trim(all, limit).kept = kept
    BY <1>2, LenProperties DEF Trim
  <2>2. Len(all) \in Nat /\ a \in 1 .. Len(all) /\ Len(all) - a = limit
        /\ Len(all) - a <= limit /\ a \in 0 .. Len(all)
    BY <1>2, LenProperties
  <2>3. \A i \in a + 1 .. Len(all) : all[i] \in S
    BY <2>2, ElementOfSeq
  <2>4. /\ kept \in Seq(S)
        /\ Len(kept) = IF a + 1 <= Len(all) THEN Len(all) - (a + 1) + 1 ELSE 0
        /\ \A i \in 1 .. Len(all) - (a + 1) + 1 : kept[i] = all[(a + 1) + i - 1]
    <3>1. a + 1 \in 1 .. Len(all) + 1 /\ Len(all) \in (a + 1) - 1 .. Len(all)
      BY <2>2
    <3> HIDE DEF a
    <3> QED BY <2>2, <2>3, <3>1, SubSeqProperties
  <2>5. Len(kept) = Len(all) - a /\ \A i \in 1 .. Len(all) - a : kept[i] = all[a + i]
    <3> HIDE DEF kept
    <3>1. (IF a + 1 <= Len(all) THEN Len(all) - (a + 1) + 1 ELSE 0) = Len(all) - a
      BY <2>2
    <3>2. \A i \in 1 .. Len(all) - a : i \in 1 .. Len(all) - (a + 1) + 1 /\ (a + 1) + i - 1 = a + i
      BY <2>2
    <3> HIDE DEF a
    <3> QED BY <2>4, <3>1, <3>2
  <2> HIDE DEF kept, a
  <2> QED BY <2>1, <2>2, <2>4, <2>5
<1> QED
  BY <1>1, <1>2, LenProperties

\* The end of one story is one story.
LEMMA EndOfAStory ==
  ASSUME NEW list \in Seq(Event), NEW fleet, OneStory(list, fleet),
         NEW a \in 0 .. Len(list), NEW kept \in Seq(Event), Len(kept) = Len(list) - a,
         \A i \in 1 .. Len(list) - a : kept[i] = list[a + i]
  PROVE  OneStory(kept, fleet)
<1>1. Len(list) \in Nat /\ DOMAIN list = 1 .. Len(list) /\ DOMAIN kept = 1 .. Len(list) - a
  BY LenProperties
<1> SUFFICES ASSUME NEW i \in DOMAIN kept
             PROVE  LET later == {j \in DOMAIN kept : i < j /\ kept[j].droneId = kept[i].droneId} IN
                    /\ later = {} => kept[i].to = fleet[kept[i].droneId].status
                    /\ \A j \in later : (\A k \in later : j <= k) => kept[j].from = kept[i].to
  BY DEF OneStory
<1> DEFINE later == {j \in DOMAIN kept : i < j /\ kept[j].droneId = kept[i].droneId}
           were == {j \in DOMAIN list : a + i < j /\ list[j].droneId = list[a + i].droneId}
<1>2. a + i \in DOMAIN list /\ kept[i] = list[a + i]
  BY <1>1
<1>3. \A j \in later : j \in Nat /\ a + j \in were /\ kept[j] = list[a + j]
  BY <1>1, <1>2
<1>4. \A j \in were : j - a \in later /\ a + (j - a) = j
  BY <1>1, <1>2
<1>5. /\ were = {} => list[a + i].to = fleet[list[a + i].droneId].status
      /\ \A j \in were : (\A k \in were : j <= k) => list[j].from = list[a + i].to
  BY <1>2 DEF OneStory
<1>6. were \subseteq Nat
  BY <1>1
<1> HIDE DEF later, were
<1>7. later = {} => kept[i].to = fleet[kept[i].droneId].status
  BY <1>2, <1>4, <1>5
<1>8. ASSUME NEW j \in later, \A k \in later : j <= k
      PROVE  kept[j].from = kept[i].to
  <2>1. \A k \in were : a + j <= k
    BY <1>1, <1>3, <1>4, <1>6, <1>8
  <2> QED BY <1>2, <1>3, <1>5, <2>1
<1> QED
  BY <1>7, <1>8 DEF later

\* A story goes on with at most one event of each Drone, from where it stood to where
\* it stands, and none of a Drone that stands where it stood.
LEMMA StoryGoesOn ==
  ASSUME NEW list \in Seq(Event), NEW was, NEW is, OneStory(list, was),
         NEW fresh \in Seq(Event),
         \A i, j \in DOMAIN fresh : fresh[i].droneId = fresh[j].droneId => i = j,
         \A i \in DOMAIN fresh : fresh[i].to = is[fresh[i].droneId].status,
         \A i \in DOMAIN fresh : \A k \in DOMAIN list :
           list[k].droneId = fresh[i].droneId => fresh[i].from = was[fresh[i].droneId].status,
         \A d \in Drone : (\A i \in DOMAIN fresh : fresh[i].droneId # d) =>
           is[d].status = was[d].status
  PROVE  OneStory(list \o fresh, is)
<1> DEFINE all == list \o fresh
           n == Len(list)
<1>1. /\ n \in Nat /\ Len(fresh) \in Nat /\ DOMAIN all = 1 .. n + Len(fresh)
      /\ DOMAIN list = 1 .. n /\ DOMAIN fresh = 1 .. Len(fresh)
      /\ \A i \in 1 .. n : all[i] = list[i]
      /\ \A i \in n + 1 .. n + Len(fresh) : all[i] = fresh[i - n]
  BY ConcatProperties, LenProperties
<1> HIDE DEF all
<1>2. \A i \in 1 .. n : list[i].droneId \in Drone
  <2>1. \A i \in 1 .. n : list[i] \in Event
    BY <1>1, ElementOfSeq
  <2> QED BY <2>1 DEF Event
<1> HIDE DEF n
<1>3. \A i \in n + 1 .. n + Len(fresh) : i - n \in DOMAIN fresh
  BY <1>1
<1>4. \A i \in DOMAIN fresh : n + i \in DOMAIN all /\ all[n + i] = fresh[i]
  BY <1>1
<1> SUFFICES ASSUME NEW i \in DOMAIN all
             PROVE  LET later == {j \in DOMAIN all : i < j /\ all[j].droneId = all[i].droneId} IN
                    /\ later = {} => all[i].to = is[all[i].droneId].status
                    /\ \A j \in later : (\A k \in later : j <= k) => all[j].from = all[i].to
  BY DEF OneStory, all
<1> DEFINE later == {j \in DOMAIN all : i < j /\ all[j].droneId = all[i].droneId}
<1>5. CASE i > n
  <2>1. i - n \in DOMAIN fresh /\ all[i] = fresh[i - n]
    BY <1>1, <1>5
  <2>2. later = {}
    <3> SUFFICES ASSUME NEW j \in later PROVE FALSE
      OBVIOUS
    <3>1. j - n \in DOMAIN fresh /\ all[j] = fresh[j - n] /\ j - n # i - n
      BY <1>1, <1>5
    <3> QED BY <2>1, <3>1
  <2> QED BY <2>1, <2>2
<1>6. CASE i <= n
  <2> DEFINE were == {j \in DOMAIN list : i < j /\ list[j].droneId = list[i].droneId}
             d == list[i].droneId
  <2>1. i \in 1 .. n /\ i \in DOMAIN list /\ all[i] = list[i] /\ d \in Drone
    BY <1>1, <1>2, <1>6
  <2>2. \A j \in were : j \in later /\ j <= n
    BY <1>1, <2>1
  <2>3. \A j \in later : j <= n => j \in were /\ all[j] = list[j]
    BY <1>1, <2>1
  <2>4. \A j \in later : j > n => j - n \in DOMAIN fresh /\ all[j] = fresh[j - n]
                                  /\ fresh[j - n].droneId = d
    BY <1>1, <2>1
  <2>5. \A j \in DOMAIN fresh : fresh[j].droneId = d => n + j \in later
    BY <1>1, <1>4, <2>1
  <2>6. /\ were = {} => list[i].to = was[d].status
        /\ \A j \in were : (\A k \in were : j <= k) => list[j].from = list[i].to
    BY <2>1 DEF OneStory
  <2>7. later \subseteq Nat /\ were \subseteq Nat
    BY <1>1
  <2> HIDE DEF later, were
  <2>8. later = {} => all[i].to = is[all[i].droneId].status
    BY <2>1, <2>2, <2>5, <2>6
  <2>9. ASSUME NEW j \in later, \A k \in later : j <= k
        PROVE  all[j].from = all[i].to
    <3>1. CASE j <= n
      BY <2>1, <2>2, <2>3, <2>6, <2>9, <3>1
    <3>2. CASE j > n
      <4>1. were = {}
        BY <1>1, <2>2, <2>7, <2>9, <3>2
      <4>2. fresh[j - n].from = was[d].status
        BY <2>1, <2>4, <3>2
      <4> QED BY <2>1, <2>4, <2>6, <3>2, <4>1, <4>2
    <3> QED BY <1>1, <2>7, <3>1, <3>2
  <2> QED BY <2>8, <2>9 DEF later
<1> QED
  BY <1>1, <1>5, <1>6

-----------------------------------------------------------------------------
(* The inductive invariant. *)

\* A Drone shown as Offline has never been heard, or says its readings are old.
Honest(fleet) ==
  \A d \in Drone :
    fleet[d].status = "Offline" => fleet[d].lastContact = Never \/ fleet[d].stale

\* The record speaks of the past, and a Drone without readings was never heard.
StationInv ==
  /\ now \in Nat
  /\ telemetry \in [Drone -> Telemetry \cup {NoReading}]
  /\ lastContact \in [Drone -> Nat \cup {Never}]
  /\ \A d \in Drone : lastContact[d] # Never => lastContact[d] <= now
  /\ \A d \in Drone : telemetry[d] = NoReading => lastContact[d] = Never
  /\ lastPublished \in [Drone -> DroneState]
  /\ events \in Seq(Event)
  /\ \A e \in Heard(events) : e.at <= now
  /\ batteries \in [Drone -> Seq(Nat)]
  /\ \A d \in Drone : \A t \in Heard(batteries[d]) : t <= now
  /\ openedAt \in Nat
  /\ trimmedBefore \in Nat

HonestStates == {s \in FleetStates : Honest(s.drones)}
HonestMessages ==
  [type : {"open"}] \cup [type : {"fleet-state"}, state : HonestStates]
    \cup [type : {"fleet-history"}, history : Histories]
    \cup [type : {"fleet-events"}, events : Seq(Event)]

IInv ==
  /\ StationInv
  /\ wire \in Seq(HonestMessages)
  /\ state \in HonestStates \cup {NoState}

\* Of the events and samples the station held, each is held still or is no later
\* than t.
CoveredBy(t) ==
  /\ \A e \in Heard(events) : e \in Heard(events') \/ e.at <= t
  /\ \A d \in Drone : \A x \in Heard(batteries[d]) : x \in Heard(batteries'[d]) \/ x <= t

\* Ageing gives a Fleet that is well typed, speaks of the past and is honest:
\* readings stop being current before the Drone stops being in contact.
LEMMA FleetAtIsHonest ==
  ASSUME NEW readings \in [Drone -> Telemetry \cup {NoReading}],
         NEW contacts \in [Drone -> Nat \cup {Never}], NEW t \in Nat,
         \A d \in Drone : contacts[d] # Never => contacts[d] <= t,
         \A d \in Drone : readings[d] = NoReading => contacts[d] = Never
  PROVE  /\ FleetAt(readings, contacts, t) \in [Drone -> DroneState]
         /\ PastContact(FleetAt(readings, contacts, t), t)
         /\ Honest(FleetAt(readings, contacts, t))
<1> DEFINE fleet == FleetAt(readings, contacts, t)
<1>1. ASSUME NEW d \in Drone
      PROVE  /\ fleet[d] \in DroneState
             /\ fleet[d].lastContact = contacts[d]
             /\ fleet[d].status = "Offline" => contacts[d] = Never \/ fleet[d].stale
  <2>1. fleet[d] = [status |-> deriveStatus(readings[d], contacts[d], t),
                    stale |-> isStale(contacts[d], t), lastContact |-> contacts[d]]
    BY DEF FleetAt
  <2>2. deriveStatus(readings[d], contacts[d], t) \in Status
    BY DEF deriveStatus, Status
  <2>3. isStale(contacts[d], t) \in BOOLEAN
    BY DEF isStale
  <2>4. deriveStatus(readings[d], contacts[d], t) = "Offline" =>
          contacts[d] = Never \/ isStale(contacts[d], t)
    <3>1. contacts[d] # Never /\ t - contacts[d] >= OfflineAfter => t - contacts[d] >= StaleAfter
      BY FleetAssumption
    <3> QED
      BY <3>1 DEF deriveStatus, outOfContact, isStale
  <2> HIDE DEF fleet
  <2>5. fleet[d].status = deriveStatus(readings[d], contacts[d], t)
        /\ fleet[d].stale = isStale(contacts[d], t) /\ fleet[d].lastContact = contacts[d]
    BY <2>1
  <2>6. fleet[d] \in DroneState
    BY <2>1, <2>2, <2>3 DEF DroneState
  <2> QED BY <2>4, <2>5, <2>6
<1>2. fleet = [d \in Drone |-> fleet[d]]
  BY DEF FleetAt
<1> HIDE DEF fleet
<1> QED
  BY <1>1, <1>2 DEF PastContact, Honest, fleet

\* A publication keeps the record, and what it drops is covered.
LEMMA PublishKeeps ==
  ASSUME StationInv, NEW next \in [Drone -> DroneState], PastContact(next, now),
         Publish(next)
  PROVE  /\ lastPublished' = next
         /\ Fresh(next) \in Seq(Event)
         /\ events' \in Seq(Event)
         /\ \A e \in Heard(events') : e.at <= now
         /\ batteries' \in [Drone -> Seq(Nat)]
         /\ \A d \in Drone : \A t \in Heard(batteries'[d]) : t <= now
         /\ trimmedBefore' \in Nat
         /\ CoveredBy(trimmedBefore')
<1> DEFINE fresh == Fresh(next)
           all == events \o fresh
           told == Trim(all, MaxEvents)
<1>1. PICK moved \in [Drone -> BOOLEAN] :
        LET sampled == [d \in Drone |-> Trim(Samples(batteries[d], next[d], moved[d]), MaxSamples)]
            gone == {trimmedBefore} \cup {e.at : e \in told.dropped}
                      \cup UNION {sampled[d].dropped : d \in Drone}
        IN  /\ lastPublished' = next
            /\ events' = told.kept
            /\ batteries' = [d \in Drone |-> sampled[d].kept]
            /\ trimmedBefore' \in gone
            /\ \A t \in gone : t <= trimmedBefore'
  BY DEF Publish
<1> DEFINE samples(d) == Samples(batteries[d], next[d], moved[d])
           sampled == [d \in Drone |-> Trim(samples(d), MaxSamples)]
           gone == {trimmedBefore} \cup {e.at : e \in told.dropped}
                     \cup UNION {sampled[d].dropped : d \in Drone}
<1>2. fresh \in Seq(Event) /\ \A e \in Heard(fresh) : e.at <= now
  BY deriveEventsType DEF StationInv, Fresh, Heard
<1>3. /\ all \in Seq(Event) /\ Heard(events) \subseteq Heard(all)
      /\ \A e \in Heard(all) : e \in Event /\ e.at <= now
  <2> HIDE DEF fresh
  <2>1. events \in Seq(Event) /\ \A e \in Heard(events) : e.at <= now
    BY DEF StationInv
  <2>2. /\ all \in Seq(Event) /\ DOMAIN all = 1 .. Len(events) + Len(fresh)
        /\ \A i \in 1 .. Len(events) : all[i] = events[i]
        /\ \A i \in Len(events) + 1 .. Len(events) + Len(fresh) : all[i] = fresh[i - Len(events)]
    BY <1>2, <2>1, ConcatProperties, LenProperties
  <2>3. /\ DOMAIN events = 1 .. Len(events) /\ DOMAIN fresh = 1 .. Len(fresh)
        /\ Len(events) \in Nat /\ Len(fresh) \in Nat
    BY <1>2, <2>1, LenProperties
  <2> HIDE DEF all
  <2>4. Heard(events) \subseteq Heard(all)
    BY <2>2, <2>3 DEF Heard
  <2>5. ASSUME NEW i \in DOMAIN all PROVE all[i] \in Event /\ all[i].at <= now
    <3>1. CASE i <= Len(events)
      BY <2>1, <2>2, <2>3, <3>1, ElementOfSeq DEF Heard
    <3>2. CASE i > Len(events)
      <4>1. i - Len(events) \in DOMAIN fresh /\ all[i] = fresh[i - Len(events)]
        BY <2>2, <2>3, <3>2
      <4> QED BY <1>2, <4>1, ElementOfSeq, <2>2 DEF Heard
    <3> QED BY <2>2, <2>3, <3>1, <3>2
  <2> QED BY <2>2, <2>4, <2>5 DEF Heard
<1>4. /\ told.kept \in Seq(Event) /\ told.dropped \subseteq Heard(all)
      /\ Heard(told.kept) \subseteq Heard(all)
      /\ \A e \in Heard(all) : e \in Heard(told.kept) \/ e \in told.dropped
  <2>1. MaxEvents \in Nat
    BY FleetAssumption
  <2> HIDE DEF all
  <2> QED BY <1>3, <2>1, TrimKeeps
<1>5. ASSUME NEW d \in Drone
      PROVE  /\ sampled[d].kept \in Seq(Nat)
             /\ sampled[d].dropped \subseteq Nat
             /\ \A t \in Heard(sampled[d].kept) : t <= now
             /\ \A t \in Heard(batteries[d]) :
                  t \in Heard(sampled[d].kept) \/ t \in sampled[d].dropped
  <2>1. batteries[d] \in Seq(Nat) /\ \A t \in Heard(batteries[d]) : t <= now
    BY DEF StationInv
  <2>2. /\ samples(d) \in Seq(Nat) /\ Heard(batteries[d]) \subseteq Heard(samples(d))
        /\ \A x \in Heard(samples(d)) :
             x \in Heard(batteries[d]) \/ (next[d].lastContact # Never /\ x = next[d].lastContact)
    <3>1. next[d] \in DroneState /\ moved[d] \in BOOLEAN
      OBVIOUS
    <3> QED BY <2>1, <3>1, SamplesKeep
  <2> HIDE DEF samples
  <2>3. \A x \in Heard(samples(d)) : x <= now
    BY <2>1, <2>2 DEF PastContact
  <2>4. Heard(samples(d)) \subseteq Nat
    BY <2>2, ElementOfSeq, LenProperties DEF Heard
  <2>5. sampled[d] = Trim(samples(d), MaxSamples) /\ MaxSamples \in Nat
    BY FleetAssumption
  <2> HIDE DEF sampled
  <2>6. /\ sampled[d].kept \in Seq(Nat) /\ sampled[d].dropped \subseteq Heard(samples(d))
        /\ Heard(sampled[d].kept) \subseteq Heard(samples(d))
        /\ \A e \in Heard(samples(d)) :
             e \in Heard(sampled[d].kept) \/ e \in sampled[d].dropped
    BY <2>2, <2>5, TrimKeeps
  <2> QED BY <2>2, <2>3, <2>4, <2>6
<1>6. /\ lastPublished' = next /\ events' = told.kept
      /\ batteries' = [d \in Drone |-> sampled[d].kept]
      /\ trimmedBefore' \in gone /\ \A t \in gone : t <= trimmedBefore'
  BY <1>1
<1> HIDE DEF told, sampled, fresh, all
<1>7. gone \subseteq Nat
  <2>1. {e.at : e \in told.dropped} \subseteq Nat
    BY <1>3, <1>4 DEF Event
  <2>2. UNION {sampled[d].dropped : d \in Drone} \subseteq Nat
    BY <1>5
  <2> QED BY <2>1, <2>2 DEF StationInv
<1>8. /\ \A e \in told.dropped : e.at <= trimmedBefore'
      /\ \A d \in Drone : \A t \in sampled[d].dropped : t <= trimmedBefore'
  BY <1>6
<1>9. CoveredBy(trimmedBefore')
  <2>1. \A e \in Heard(events) : e \in Heard(events') \/ e.at <= trimmedBefore'
    BY <1>3, <1>4, <1>6, <1>8
  <2>2. \A d \in Drone : \A x \in Heard(batteries[d]) :
          x \in Heard(batteries'[d]) \/ x <= trimmedBefore'
    BY <1>5, <1>6, <1>8
  <2> QED BY <2>1, <2>2 DEF CoveredBy
<1>10. batteries' \in [Drone -> Seq(Nat)] /\ \A d \in Drone : batteries'[d] = sampled[d].kept
  BY <1>5, <1>6
<1> HIDE DEF gone
<1> QED
  BY <1>2, <1>3, <1>4, <1>5, <1>6, <1>7, <1>9, <1>10 DEF fresh

-----------------------------------------------------------------------------
(* The station's steps. *)

\* The Fleet as it is now is honest.
LEMMA fleetStateIsHonest ==
  ASSUME StationInv
  PROVE  /\ fleetState \in HonestStates
         /\ FleetAt(telemetry, lastContact, now) \in [Drone -> DroneState]
         /\ PastContact(FleetAt(telemetry, lastContact, now), now)
         /\ Honest(FleetAt(telemetry, lastContact, now))
<1>1. /\ FleetAt(telemetry, lastContact, now) \in [Drone -> DroneState]
      /\ PastContact(FleetAt(telemetry, lastContact, now), now)
      /\ Honest(FleetAt(telemetry, lastContact, now))
  BY FleetAtIsHonest DEF StationInv
<1> QED
  BY <1>1 DEF fleetState, HonestStates, FleetStates, StationInv

\* What follows from a publication, whoever publishes.
Published ==
  /\ StationInv'
  /\ now' = now
  /\ Honest(lastPublished')
  /\ Fresh(lastPublished') \in Seq(Event)
  /\ CoveredBy(Since')

\* Since covers what retention has dropped and what was before the record.
LEMMA SinceCovers ==
  ASSUME StationInv
  PROVE  /\ Since \in Nat
         /\ trimmedBefore <= Since /\ openedAt <= Since
BY DEF StationInv, Since

\* What a list holds is what it is a list of.
LEMMA HeardIsIn ==
  ASSUME NEW S, NEW list \in Seq(S)
  PROVE  Heard(list) \subseteq S
BY ElementOfSeq, LenProperties DEF Heard

\* Every event and every sample of the record carries a moment.
LEMMA RecordIsTimed ==
  ASSUME StationInv
  PROVE  /\ \A e \in Heard(events) : e.at \in Nat
         /\ \A d \in Drone : \A x \in Heard(batteries[d]) : x \in Nat
<1>1. Heard(events) \subseteq Event
  BY HeardIsIn DEF StationInv
<1>2. \A d \in Drone : Heard(batteries[d]) \subseteq Nat
  BY HeardIsIn DEF StationInv
<1> QED
  BY <1>1, <1>2 DEF Event

\* Later is covered too.
LEMMA CoveredLater ==
  ASSUME NEW t \in Nat, NEW u \in Nat, t <= u, StationInv, CoveredBy(t)
  PROVE  CoveredBy(u)
<1>1. /\ \A e \in Heard(events) : e.at \in Nat
      /\ \A d \in Drone : \A x \in Heard(batteries[d]) : x \in Nat
  BY RecordIsTimed
<1> QED
  BY <1>1 DEF CoveredBy

\* A Drone is heard: its contact is now, and the Fleet it makes is published.
LEMMA ObservationKeeps ==
  ASSUME StationInv, NEW d \in Drone, NEW reading \in Reading, Observation(d, reading)
  PROVE  Published
<1> DEFINE next == FleetAt(telemetry', lastContact', now)
<1>1. /\ telemetry' = [telemetry EXCEPT ![d] = reading]
      /\ lastContact' = [lastContact EXCEPT ![d] = now]
      /\ Publish(next) /\ now' = now /\ openedAt' = openedAt
  BY DEF Observation
<1>2. /\ telemetry' \in [Drone -> Telemetry \cup {NoReading}]
      /\ lastContact' \in [Drone -> Nat \cup {Never}]
      /\ \A e \in Drone : lastContact'[e] # Never => lastContact'[e] <= now
      /\ \A e \in Drone : telemetry'[e] = NoReading => lastContact'[e] = Never
  BY <1>1, FleetAssumption DEF StationInv
<1>3. next \in [Drone -> DroneState] /\ PastContact(next, now) /\ Honest(next)
  BY <1>2, FleetAtIsHonest DEF StationInv
<1> HIDE DEF next
<1>4. /\ lastPublished' = next /\ Fresh(next) \in Seq(Event)
      /\ events' \in Seq(Event) /\ \A e \in Heard(events') : e.at <= now
      /\ batteries' \in [Drone -> Seq(Nat)]
      /\ \A e \in Drone : \A t \in Heard(batteries'[e]) : t <= now
      /\ trimmedBefore' \in Nat /\ CoveredBy(trimmedBefore')
  BY <1>1, <1>3, PublishKeeps
<1>5. StationInv'
  BY <1>1, <1>2, <1>3, <1>4 DEF StationInv, Heard
<1>6. CoveredBy(Since')
  <2>1. Since' \in Nat /\ trimmedBefore' <= Since'
    BY <1>5 DEF StationInv, Since
  <2> QED BY <1>4, <2>1, CoveredLater
<1> QED
  BY <1>1, <1>3, <1>4, <1>5, <1>6 DEF Published

\* The re-check publishes the Fleet as it has aged.
LEMMA TickKeeps ==
  ASSUME StationInv, Tick
  PROVE  Published
<1> DEFINE next == FleetAt(telemetry, lastContact, now)
<1>1. /\ Publish(next) /\ now' = now /\ openedAt' = openedAt
      /\ telemetry' = telemetry /\ lastContact' = lastContact
  BY DEF Tick
<1>2. next \in [Drone -> DroneState] /\ PastContact(next, now) /\ Honest(next)
  BY fleetStateIsHonest
<1> HIDE DEF next
<1>3. /\ lastPublished' = next /\ Fresh(next) \in Seq(Event)
      /\ events' \in Seq(Event) /\ \A e \in Heard(events') : e.at <= now
      /\ batteries' \in [Drone -> Seq(Nat)]
      /\ \A e \in Drone : \A t \in Heard(batteries'[e]) : t <= now
      /\ trimmedBefore' \in Nat /\ CoveredBy(trimmedBefore')
  BY <1>1, <1>2, PublishKeeps
<1>4. StationInv'
  BY <1>1, <1>2, <1>3 DEF StationInv, Heard
<1>5. CoveredBy(Since')
  <2>1. Since' \in Nat /\ trimmedBefore' <= Since'
    BY <1>4 DEF StationInv, Since
  <2> QED BY <1>3, <2>1, CoveredLater
<1> QED
  BY <1>1, <1>2, <1>3, <1>4, <1>5 DEF Published

\* A station that is started again has lost everything up to now, and says so.
LEMMA RestartKeeps ==
  ASSUME StationInv, Restart
  PROVE  StationInv' /\ CoveredBy(Since')
<1>1. /\ telemetry' = [d \in Drone |-> NoReading]
      /\ lastContact' = [d \in Drone |-> Never]
      /\ lastPublished' = Unheard /\ events' = <<>>
      /\ batteries' = [d \in Drone |-> <<>>]
      /\ openedAt' = now /\ trimmedBefore' = 0 /\ now' = now
  BY DEF Restart
<1>2. Unheard \in [Drone -> DroneState]
  BY DEF Unheard, DroneState, Status
<1>3. Heard(events') = {} /\ \A d \in Drone : Heard(batteries'[d]) = {}
  BY <1>1 DEF Heard
<1>4. StationInv'
  <2>1. events' \in Seq(Event) /\ batteries' \in [Drone -> Seq(Nat)]
    BY <1>1
  <2> QED BY <1>1, <1>2, <1>3, <2>1 DEF StationInv, Heard
<1>5. CoveredBy(now)
  BY DEF StationInv, CoveredBy
<1>6. Since' \in Nat /\ now <= Since'
  BY <1>1, <1>4 DEF StationInv, Since
<1> QED
  BY <1>4, <1>5, <1>6, CoveredLater DEF StationInv

\* Nothing of the record changes.
LEMMA Unmoved ==
  ASSUME StationInv, UNCHANGED station
  PROVE  StationInv' /\ CoveredBy(Since')
<1>1. StationInv'
  BY DEF station, StationInv, Heard
<1>2. CoveredBy(Since')
  BY DEF station, CoveredBy
<1> QED
  BY <1>1, <1>2

\* Time goes by.
LEMMA AdvanceKeeps ==
  ASSUME StationInv, Advance
  PROVE  StationInv' /\ CoveredBy(Since')
<1>1. /\ now' = now + 1 /\ telemetry' = telemetry /\ lastContact' = lastContact
      /\ lastPublished' = lastPublished /\ events' = events /\ batteries' = batteries
      /\ openedAt' = openedAt /\ trimmedBefore' = trimmedBefore
  BY DEF Advance
<1>2. /\ \A e \in Heard(events) : e.at <= now + 1
      /\ \A d \in Drone : \A t \in Heard(batteries[d]) : t <= now + 1
  BY RecordIsTimed DEF StationInv
<1>3. StationInv'
  BY <1>1, <1>2 DEF StationInv, Heard
<1> QED
  BY <1>1, <1>3 DEF CoveredBy

-----------------------------------------------------------------------------
(* The stream's steps. *)

\* What the station says of a publication is honest, and follows what it said before.
LEMMA SentIsHonest ==
  ASSUME IInv, Published,
         NEW said \in Seq(HonestMessages),
         wire' = wire \/ wire' = wire \o Append(said, StateMessage([at |-> now, drones |-> lastPublished']))
  PROVE  wire' \in Seq(HonestMessages)
<1> DEFINE message == StateMessage([at |-> now, drones |-> lastPublished'])
<1>1. [at |-> now, drones |-> lastPublished'] \in HonestStates
  BY DEF Published, StationInv, IInv, HonestStates, FleetStates
<1>2. message \in HonestMessages
  BY <1>1 DEF StateMessage, HonestMessages
<1> HIDE DEF message
<1>3. Append(said, message) \in Seq(HonestMessages)
  BY <1>2, AppendProperties
<1>4. wire \o Append(said, message) \in Seq(HonestMessages)
  BY <1>3, ConcatProperties DEF IInv
<1> QED
  BY <1>4 DEF message, IInv

\* The events of a publication, before the state.
LEMMA EventsSaid ==
  ASSUME NEW fresh \in Seq(Event)
  PROVE  (IF fresh = <<>> THEN <<>> ELSE <<[type |-> "fleet-events", events |-> fresh]>>)
            \in Seq(HonestMessages)
<1>1. [type |-> "fleet-events", events |-> fresh] \in HonestMessages
  BY DEF HonestMessages
<1>2. <<[type |-> "fleet-events", events |-> fresh]>> \in Seq(HonestMessages)
  BY <1>1
<1>3. <<>> \in Seq(HonestMessages)
  OBVIOUS
<1> QED
  BY <1>2, <1>3

\* An observation heard, a re-check published.
LEMMA ObserveKeeps ==
  ASSUME IInv, Observe
  PROVE  IInv' /\ CoveredBy(Since')
<1>1. PICK d \in Drone, reading \in Reading : Sent(Observation(d, reading))
  BY DEF Observe
<1>2. Published
  BY <1>1, ObservationKeeps DEF Sent, IInv
<1>3. state' = state
  BY <1>1 DEF Sent
<1>4. wire' \in Seq(HonestMessages)
  BY <1>1, <1>2, SentIsHonest, EventsSaid DEF Sent, Published
<1> QED
  BY <1>2, <1>3, <1>4 DEF IInv, Published

LEMMA RecheckKeeps ==
  ASSUME IInv, Recheck
  PROVE  IInv' /\ CoveredBy(Since')
<1>1. Published
  BY TickKeeps DEF Recheck, Sent, IInv
<1>2. state' = state
  BY DEF Recheck, Sent
<1>3. wire' \in Seq(HonestMessages)
  BY <1>1, SentIsHonest, EventsSaid DEF Recheck, Sent, Published
<1> QED
  BY <1>1, <1>2, <1>3 DEF IInv, Published

\* A board that connects is sent an honest snapshot and the record.
LEMMA ConnectKeeps ==
  ASSUME IInv, Connect
  PROVE  IInv' /\ CoveredBy(Since')
<1>1. StationInv' /\ CoveredBy(Since')
  BY Unmoved DEF Connect, IInv
<1>2. [type |-> "open"] \in HonestMessages
  BY DEF HonestMessages
<1>3. StateMessage(fleetState) \in HonestMessages
  BY fleetStateIsHonest DEF IInv, StateMessage, HonestMessages
<1>4. HistoryMessage \in HonestMessages
  BY SinceCovers DEF IInv, StationInv, HistoryMessage, HonestMessages, Histories
<1>5. wire' \in Seq(HonestMessages)
  BY <1>2, <1>3, <1>4 DEF Connect
<1> QED
  BY <1>1, <1>5 DEF Connect, IInv

\* The board handles the oldest message in flight.
LEMMA DeliverKeeps ==
  ASSUME IInv, Deliver
  PROVE  IInv' /\ CoveredBy(Since')
<1>1. StationInv' /\ CoveredBy(Since')
  BY Unmoved DEF Deliver, IInv
<1>2. Head(wire) \in HonestMessages /\ Tail(wire) \in Seq(HonestMessages)
  BY HeadTailProperties DEF Deliver, IInv
<1>3. Head(wire).type = "fleet-state" => Head(wire).state \in HonestStates
  BY <1>2 DEF HonestMessages
<1>4. state' \in HonestStates \cup {NoState}
  BY <1>3 DEF Deliver, Handle, IInv
<1> QED
  BY <1>1, <1>2, <1>4 DEF Deliver, IInv

-----------------------------------------------------------------------------
(* What holds. *)

\* A step of Spec keeps the invariant, and drops nothing `since` does not cover.
LEMMA Step ==
  ASSUME IInv, [Next]_vars
  PROVE  IInv' /\ CoveredBy(Since')
<1>1. CASE Connect
  BY <1>1, ConnectKeeps
<1>2. CASE Observe
  BY <1>2, ObserveKeeps
<1>3. CASE Recheck
  BY <1>3, RecheckKeeps
<1>4. CASE Wait
  BY <1>4, AdvanceKeeps DEF Wait, board, IInv
<1>5. CASE Deliver
  BY <1>5, DeliverKeeps
<1>6. CASE Drop
  BY <1>6, Unmoved DEF Drop, Close, IInv
<1>7. CASE scheduleRetry
  BY <1>7, Unmoved DEF scheduleRetry, IInv
<1>8. CASE StationRestarts
  <2>1. StationInv' /\ CoveredBy(Since')
    BY <1>8, RestartKeeps DEF StationRestarts, IInv
  <2>2. state' = state /\ (wire' = wire \/ wire' = <<>>)
    BY <1>8 DEF StationRestarts, Close
  <2>3. wire' \in Seq(HonestMessages)
    <3>1. CASE wire' = wire
      BY <3>1 DEF IInv
    <3>2. CASE wire' = <<>>
      <4>1. <<>> \in Seq(HonestMessages)
        OBVIOUS
      <4> QED BY <3>2, <4>1
    <3> QED BY <2>2, <3>1, <3>2
  <2> QED BY <2>1, <2>2, <2>3 DEF IInv
<1>9. CASE UNCHANGED vars
  BY <1>9, Unmoved DEF vars, board, IInv
<1> QED
  BY <1>1, <1>2, <1>3, <1>4, <1>5, <1>6, <1>7, <1>8, <1>9 DEF Next

\* A station that starts has heard nobody and says nothing that is not so.
LEMMA Starts == BoardInit => IInv
<1> SUFFICES ASSUME BoardInit PROVE IInv
  OBVIOUS
<1>1. Unheard \in [Drone -> DroneState]
  BY DEF Unheard, DroneState, Status
<1>2. Heard(events) = {} /\ \A d \in Drone : Heard(batteries[d]) = {}
  BY DEF BoardInit, Init, Heard
<1>3. events \in Seq(Event) /\ batteries \in [Drone -> Seq(Nat)]
  BY DEF BoardInit, Init
<1>4. StationInv
  BY <1>1, <1>2, <1>3 DEF BoardInit, Init, StationInv
<1>5. wire \in Seq(HonestMessages)
  BY DEF BoardInit
<1> QED
  BY <1>4, <1>5 DEF BoardInit, IInv

\* The station's record and everything sent of the Fleet are well typed, speak of
\* the past and are honest, whatever is heard, lost or restarted.
THEOREM RecordInductive == Spec => []IInv
<1>1. BoardInit => IInv
  BY Starts
<1>2. IInv /\ [Next]_vars => IInv'
  BY Step
<1> QED
  BY <1>1, <1>2, PTL DEF Spec

\* No board ever shows a Drone as Offline while its readings claim to be current
\* (readThresholds, deriveStatus, isStale).
THEOREM OfflineIsAlwaysStale == Spec => []OfflineIsStale
<1>1. IInv => OfflineIsStale
  BY DEF IInv, HonestStates, Honest, OfflineIsStale
<1> QED
  BY <1>1, RecordInductive, PTL

\* An event or a battery sample leaves the station's record only when `since` covers
\* it, for every bound on the record (trimEvents, sampleBatteries, history).
THEOREM SinceAlwaysCovers == Spec => SinceIsCovered
<1> DEFINE A == /\ \A e \in Heard(events) : e \in Heard(events') \/ e.at <= Since'
                /\ \A d \in Drone : \A t \in Heard(batteries[d]) :
                     t \in Heard(batteries'[d]) \/ t <= Since'
<1>1. IInv /\ [Next]_vars => [A]_vars
  BY Step DEF CoveredBy
<1>2. Spec => [][A]_vars
  BY <1>1, RecordInductive, PTL DEF Spec
<1> QED
  BY <1>2 DEF SinceIsCovered

-----------------------------------------------------------------------------
(* The timeline's steps. *)

\* No two events have one Id.
Distinct(list) == \A i, j \in DOMAIN list : Id(list[i]) = Id(list[j]) => i = j

\* What is told was heard: an event is of a Drone that was, is no later than it was
\* last, and says that contact was lost since then only of a Drone that is Offline.
Heeded(list, fleet) ==
  \A i \in DOMAIN list :
    LET is == fleet[list[i].droneId] IN
    /\ is.lastContact # Never /\ list[i].at <= is.lastContact
    /\ list[i].kind = "contact-lost" /\ list[i].at = is.lastContact => is.status = "Offline"

StoryInv ==
  /\ OneStory(events, lastPublished)
  /\ Heeded(events, lastPublished)
  /\ Distinct(events)
  /\ \A d \in Drone :
       /\ lastPublished[d].lastContact = lastContact[d]
       /\ \E t \in Nat : t <= now /\ lastPublished[d].status = deriveStatus(telemetry[d], lastContact[d], t)

\* Of one Drone between two publications: it has aged, and is what it was or Offline;
\* or it was heard now, and not before.
Aged(was, is) == is.lastContact = was.lastContact /\ (is.status = was.status \/ is.status = "Offline")
HeardNow(was, is) ==
  /\ is.lastContact = now /\ is.status # "Offline"
  /\ was.lastContact # Never => was.lastContact < now
StillUnheard(was, is) == is.lastContact = Never => was.status = "Offline" /\ is.status = "Offline"
Grows(was, is) == StillUnheard(was, is) /\ (Aged(was, is) \/ HeardNow(was, is))

\* What a publication tells of one Drone.
LEMMA EventTells ==
  ASSUME NEW d \in Drone, NEW was \in DroneState, NEW is \in DroneState, now \in Nat,
         Grows(was, is), News(was, is), NEW e, e = EventOf(d, was, is, now)
  PROVE  /\ e.droneId = d /\ e.to = is.status
         /\ is.lastContact # Never /\ e.at = is.lastContact
         /\ was.lastContact # Never => e.from = was.status
         /\ e.kind = "contact-lost" => is.status = "Offline"
         /\ Aged(was, is) /\ was.lastContact # Never =>
              was.status # "Offline" /\ e.kind = "contact-lost"
<1>1. is.lastContact # Never
  BY DEF Grows, StillUnheard, News, FirstContact
<1>2. classify(was.status, is.status) = "contact-lost" <=> is.status = "Offline"
  BY DEF classify
<1>3. /\ e.droneId = d /\ e.to = is.status /\ e.at = is.lastContact
      /\ e.kind = IF FirstContact(was, is) THEN "first-contact" ELSE classify(was.status, is.status)
      /\ e.from = IF FirstContact(was, is) THEN NoStatus ELSE was.status
  BY <1>1 DEF EventOf
<1>4. e.kind = "contact-lost" => is.status = "Offline"
  BY <1>2, <1>3
<1>5. was.lastContact # Never => ~FirstContact(was, is)
  BY DEF FirstContact
<1>6. Aged(was, is) /\ was.lastContact # Never => is.status = "Offline" /\ was.status # "Offline"
  BY <1>5 DEF Aged, News
<1> QED
  BY <1>1, <1>2, <1>3, <1>4, <1>5, <1>6

\* What holds of the events and of what is told after them, holds of all.
LEMMA PublishTells ==
  ASSUME StationInv, StoryInv, NEW next \in [Drone -> DroneState], PastContact(next, now),
         \A d \in Drone : Grows(lastPublished[d], next[d])
  PROVE  LET all == events \o Fresh(next) IN
         all \in Seq(Event) /\ OneStory(all, next) /\ Heeded(all, next) /\ Distinct(all)
<1> DEFINE fresh == Fresh(next)
           all == events \o fresh
           n == Len(events)
<1>1. PICK m \in Nat :
        /\ DOMAIN fresh = 1 .. m
        /\ \A i \in 1 .. m :
             \E d \in Drone :
               /\ News(lastPublished[d], next[d])
               /\ fresh[i] = EventOf(d, lastPublished[d], next[d], now)
        /\ \A i, j \in 1 .. m : fresh[i].droneId = fresh[j].droneId => i = j
        /\ \A d \in Drone : News(lastPublished[d], next[d]) =>
             \E i \in 1 .. m : fresh[i].droneId = d
  BY FreshTells
<1>2. fresh \in Seq(Event) /\ events \in Seq(Event) /\ now \in Nat
      /\ lastPublished \in [Drone -> DroneState]
  BY deriveEventsType DEF StationInv, Fresh
<1> HIDE DEF fresh
<1>3. ASSUME NEW i \in 1 .. m
      PROVE  LET d == fresh[i].droneId
                 was == lastPublished[d]
                 is == next[d]
             IN  /\ d \in Drone /\ was \in DroneState /\ is \in DroneState
                 /\ News(was, is) /\ Grows(was, is) /\ fresh[i].to = is.status
                 /\ is.lastContact # Never /\ fresh[i].at = is.lastContact
                 /\ was.lastContact # Never => fresh[i].from = was.status
                 /\ fresh[i].kind = "contact-lost" => is.status = "Offline"
                 /\ Aged(was, is) /\ was.lastContact # Never =>
                      was.status # "Offline" /\ fresh[i].kind = "contact-lost"
  <2>1. PICK d \in Drone : /\ News(lastPublished[d], next[d])
                           /\ fresh[i] = EventOf(d, lastPublished[d], next[d], now)
    BY <1>1
  <2>2. lastPublished[d] \in DroneState /\ next[d] \in DroneState
    BY <1>2
  <2>3. Grows(lastPublished[d], next[d])
    OBVIOUS
  <2> QED BY <1>2, <2>1, <2>2, <2>3, EventTells
<1>4. ASSUME NEW k \in DOMAIN events
      PROVE  LET d == events[k].droneId
                 was == lastPublished[d]
             IN  /\ events[k] \in Event /\ events[k].at \in Nat
                 /\ d \in Drone /\ was \in DroneState /\ next[d] \in DroneState
                 /\ Grows(was, next[d])
                 /\ was.lastContact # Never /\ events[k].at <= was.lastContact
                 /\ events[k].kind = "contact-lost" /\ events[k].at = was.lastContact =>
                      was.status = "Offline"
  <2>1. events[k] \in Event
    BY <1>2, ElementOfSeq, LenProperties
  <2>2. events[k].droneId \in Drone /\ events[k].at \in Nat
    BY <2>1 DEF Event
  <2> QED BY <1>2, <2>1, <2>2 DEF StoryInv, Heeded
<1>5. \A i \in DOMAIN fresh : \A k \in DOMAIN events : events[k].droneId = fresh[i].droneId =>
        fresh[i].from = lastPublished[fresh[i].droneId].status
  BY <1>1, <1>3, <1>4
<1>6. \A d \in Drone : (\A i \in DOMAIN fresh : fresh[i].droneId # d) =>
        next[d].status = lastPublished[d].status
  BY <1>1 DEF News
<1>7. OneStory(all, next)
  <2>1. /\ \A i, j \in DOMAIN fresh : fresh[i].droneId = fresh[j].droneId => i = j
        /\ \A i \in DOMAIN fresh : fresh[i].to = next[fresh[i].droneId].status
    BY <1>1, <1>3
  <2>2. OneStory(events, lastPublished)
    BY DEF StoryInv
  <2> QED BY <1>2, <1>5, <1>6, <2>1, <2>2, StoryGoesOn
<1>8. /\ all \in Seq(Event) /\ n \in Nat /\ Len(fresh) = m /\ DOMAIN all = 1 .. n + m
      /\ DOMAIN events = 1 .. n
      /\ \A i \in 1 .. n : all[i] = events[i]
      /\ \A i \in n + 1 .. n + m : all[i] = fresh[i - n]
  <2>1. Len(fresh) = m
    BY <1>1, <1>2, LenProperties, SameLength
  <2>2. n \in Nat /\ Len(fresh) \in Nat /\ DOMAIN events = 1 .. n
    BY <1>2, LenProperties
  <2>3. /\ all \in Seq(Event) /\ DOMAIN all = 1 .. n + Len(fresh)
        /\ \A i \in 1 .. n : all[i] = events[i]
        /\ \A i \in n + 1 .. n + Len(fresh) : all[i] = fresh[i - n]
    BY <1>2, ConcatProperties, LenProperties
  <2> HIDE DEF all, n
  <2> QED BY <2>1, <2>2, <2>3
<1> HIDE DEF all, n
<1>9. \A i \in n + 1 .. n + m : i - n \in 1 .. m
  BY <1>8
<1>10. Heeded(all, next)
  <2> SUFFICES ASSUME NEW i \in DOMAIN all
               PROVE  LET is == next[all[i].droneId] IN
                      /\ is.lastContact # Never /\ all[i].at <= is.lastContact
                      /\ all[i].kind = "contact-lost" /\ all[i].at = is.lastContact
                           => is.status = "Offline"
    BY DEF Heeded
  <2>1. CASE i > n
    <3>1. all[i] = fresh[i - n] /\ i - n \in 1 .. m
      BY <1>8, <1>9, <2>1
    <3>2. next[fresh[i - n].droneId].lastContact \in Nat \cup {Never}
      BY <1>3, <3>1 DEF DroneState
    <3> QED BY <1>3, <3>1, <3>2
  <2>2. CASE i <= n
    <3> DEFINE d == events[i].droneId
               was == lastPublished[d]
               is == next[d]
    <3>1. i \in DOMAIN events /\ all[i] = events[i]
      BY <1>8, <2>2
    <3>2. /\ events[i].at \in Nat /\ Grows(was, is)
          /\ was.lastContact # Never /\ events[i].at <= was.lastContact
          /\ events[i].kind = "contact-lost" /\ events[i].at = was.lastContact =>
               was.status = "Offline"
          /\ was.lastContact \in Nat
      BY <1>4, <3>1 DEF DroneState
    <3> HIDE DEF was, is
    <3>3. CASE Aged(was, is)
      BY <3>1, <3>2, <3>3 DEF Aged, was, is
    <3>4. CASE HeardNow(was, is)
      <4>1. is.lastContact = now /\ was.lastContact < now
        BY <3>2, <3>4 DEF HeardNow
      <4>2. now # Never
        BY <1>2, FleetAssumption
      <4>3. events[i].at < now
        BY <1>2, <3>2, <4>1
      <4> QED BY <1>2, <3>1, <3>2, <4>1, <4>2, <4>3 DEF is
    <3> QED BY <3>2, <3>3, <3>4 DEF Grows
  <2> QED BY <1>8, <2>1, <2>2
<1>11. ASSUME NEW k \in 1 .. n, NEW i \in 1 .. m PROVE Id(events[k]) # Id(fresh[i])
  <2> SUFFICES ASSUME Id(events[k]) = Id(fresh[i]) PROVE FALSE
    OBVIOUS
  <2>1. /\ events[k].droneId = fresh[i].droneId /\ events[k].at = fresh[i].at
        /\ events[k].kind = fresh[i].kind
    BY DEF Id
  <2> DEFINE d == fresh[i].droneId
             was == lastPublished[d]
             is == next[d]
  <2>2. /\ Grows(was, is) /\ was.lastContact # Never /\ was.lastContact \in Nat
        /\ events[k].at <= was.lastContact /\ events[k].at = is.lastContact
        /\ events[k].at \in Nat
    <3>1. k \in DOMAIN events /\ events[k].droneId = d
      BY <1>8, <2>1
    <3>2. /\ Grows(was, is) /\ was.lastContact # Never /\ events[k].at <= was.lastContact
          /\ events[k].at \in Nat /\ was \in DroneState
      BY <1>4, <3>1
    <3>3. fresh[i].at = is.lastContact
      BY <1>3
    <3>4. was.lastContact \in Nat
      BY <3>2 DEF DroneState
    <3> QED BY <2>1, <3>2, <3>3, <3>4
  <2>3. /\ events[k].kind = "contact-lost" /\ events[k].at = was.lastContact =>
             was.status = "Offline"
        /\ Aged(was, is) => was.status # "Offline" /\ events[k].kind = "contact-lost"
    <3>1. k \in DOMAIN events /\ events[k].droneId = d
      BY <1>8, <2>1
    <3>2. /\ was = lastPublished[events[k].droneId]
          /\ events[k].kind = "contact-lost" /\ events[k].at = was.lastContact =>
               was.status = "Offline"
      BY <1>4, <3>1
    <3>3. Aged(was, is) => was.status # "Offline" /\ fresh[i].kind = "contact-lost"
      BY <1>3, <2>2
    <3> HIDE DEF was, is
    <3> QED BY <2>1, <3>2, <3>3
  <2> HIDE DEF was, is
  <2>4. CASE Aged(was, is)
    BY <2>2, <2>3, <2>4 DEF Aged
  <2>5. CASE HeardNow(was, is)
    BY <1>2, <2>2, <2>5 DEF HeardNow
  <2> QED BY <2>2, <2>4, <2>5 DEF Grows
<1>12. Distinct(all)
  <2> SUFFICES ASSUME NEW i \in DOMAIN all, NEW j \in DOMAIN all, Id(all[i]) = Id(all[j])
               PROVE  i = j
    BY DEF Distinct
  <2>1. CASE i <= n /\ j <= n
    BY <1>8, <2>1 DEF StoryInv, Distinct
  <2>2. CASE i <= n /\ j > n
    BY <1>8, <1>9, <1>11, <2>2
  <2>3. CASE i > n /\ j <= n
    BY <1>8, <1>9, <1>11, <2>3
  <2>4. CASE i > n /\ j > n
    <3>1. i - n \in 1 .. m /\ j - n \in 1 .. m /\ all[i] = fresh[i - n] /\ all[j] = fresh[j - n]
      BY <1>8, <1>9, <2>4
    <3>2. fresh[i - n].droneId = fresh[j - n].droneId
      BY <3>1 DEF Id
    <3>3. i - n = j - n
      BY <1>1, <3>1, <3>2
    <3> QED BY <1>8, <3>3
  <2> QED BY <1>8, <2>1, <2>2, <2>3, <2>4
<1> QED
  BY <1>7, <1>8, <1>10, <1>12 DEF all, fresh

\* What retention leaves of it.
LEMMA EndIsDistinct ==
  ASSUME NEW all \in Seq(Event), Distinct(all),
         NEW a \in 0 .. Len(all), NEW kept \in Seq(Event), Len(kept) = Len(all) - a,
         \A i \in 1 .. Len(all) - a : kept[i] = all[a + i]
  PROVE  Distinct(kept)
<1>1. /\ Len(all) \in Nat /\ DOMAIN all = 1 .. Len(all) /\ DOMAIN kept = 1 .. Len(all) - a
      /\ \A i \in DOMAIN kept : a + i \in DOMAIN all /\ kept[i] = all[a + i] /\ i \in Nat
  BY LenProperties
<1> SUFFICES ASSUME NEW i \in DOMAIN kept, NEW j \in DOMAIN kept, Id(kept[i]) = Id(kept[j])
             PROVE  i = j
  BY DEF Distinct
<1>2. a + i = a + j
  BY <1>1 DEF Distinct
<1> QED
  BY <1>1, <1>2

LEMMA EndIsHeeded ==
  ASSUME NEW all \in Seq(Event), NEW fleet, Heeded(all, fleet),
         NEW a \in 0 .. Len(all), NEW kept \in Seq(Event), Len(kept) = Len(all) - a,
         \A i \in 1 .. Len(all) - a : kept[i] = all[a + i]
  PROVE  Heeded(kept, fleet)
<1>1. \A i \in DOMAIN kept : a + i \in DOMAIN all /\ kept[i] = all[a + i]
  BY LenProperties
<1> QED
  BY <1>1 DEF Heeded

\* A publication leaves one story, and no Id in it twice.
LEMMA PublishKeepsStory ==
  ASSUME StationInv, StoryInv, NEW next \in [Drone -> DroneState], PastContact(next, now),
         \A d \in Drone : Grows(lastPublished[d], next[d]), Publish(next)
  PROVE  OneStory(events', next) /\ Heeded(events', next) /\ Distinct(events')
<1> DEFINE all == events \o Fresh(next)
<1>1. all \in Seq(Event) /\ OneStory(all, next) /\ Heeded(all, next) /\ Distinct(all)
  BY PublishTells
<1>2. events' = Trim(all, MaxEvents).kept
  BY DEF Publish
<1> HIDE DEF all
<1>3. MaxEvents \in Nat
  BY FleetAssumption
<1>4. PICK a \in 0 .. Len(all) :
        /\ events' \in Seq(Event) /\ Len(events') = Len(all) - a
        /\ \A i \in 1 .. Len(all) - a : events'[i] = all[a + i]
  <2> DEFINE kept == Trim(all, MaxEvents).kept
  <2>1. \E a \in 0 .. Len(all) :
          /\ kept \in Seq(Event) /\ Len(kept) = Len(all) - a
          /\ \A i \in 1 .. Len(all) - a : kept[i] = all[a + i]
          /\ a = 0 \/ Len(all) - a = MaxEvents
          /\ Len(all) - a <= MaxEvents
    BY <1>1, <1>3, TrimIsTheEnd
  <2> QED BY <1>2, <2>1
<1> QED
  BY <1>1, <1>4, EndOfAStory, EndIsHeeded, EndIsDistinct

\* Readings only age: out of contact at one moment, out of contact at a later one.
LEMMA AgesToOffline ==
  ASSUME NEW reading, NEW contact \in Nat \cup {Never}, NEW t \in Nat, NEW u \in Nat, t <= u
  PROVE  \/ deriveStatus(reading, contact, u) = deriveStatus(reading, contact, t)
         \/ deriveStatus(reading, contact, u) = "Offline"
<1>1. outOfContact(contact, t) => outOfContact(contact, u)
  BY FleetAssumption DEF outOfContact
<1> QED
  BY <1>1 DEF deriveStatus

\* A Drone heard now is in contact.
LEMMA HeardIsInContact ==
  ASSUME NEW reading \in Telemetry, now \in Nat
  PROVE  deriveStatus(reading, now, now) # "Offline"
<1>1. ~outOfContact(now, now) /\ reading # NoReading
  BY FleetAssumption DEF outOfContact
<1> QED
  BY <1>1 DEF deriveStatus

LEMMA AgedGrows ==
  ASSUME StationInv, StoryInv, NEW d \in Drone,
         NEW is, is = FleetAt(telemetry, lastContact, now)[d]
  PROVE  Grows(lastPublished[d], is)
<1>1. PICK t \in Nat : t <= now /\ lastPublished[d].status = deriveStatus(telemetry[d], lastContact[d], t)
  BY DEF StoryInv
<1>2. is.lastContact = lastContact[d] /\ is.status = deriveStatus(telemetry[d], lastContact[d], now)
  BY DEF FleetAt
<1>3. lastPublished[d].lastContact = lastContact[d] /\ lastContact[d] \in Nat \cup {Never} /\ now \in Nat
  BY DEF StoryInv, StationInv
<1>4. lastContact[d] = Never => lastPublished[d].status = "Offline" /\ is.status = "Offline"
  BY <1>1, <1>2 DEF deriveStatus, outOfContact
<1>5. is.status = lastPublished[d].status \/ is.status = "Offline"
  BY <1>1, <1>2, <1>3, AgesToOffline
<1> QED
  BY <1>2, <1>3, <1>4, <1>5 DEF Grows, Aged, StillUnheard

LEMMA RecheckTells ==
  ASSUME StationInv, StoryInv, Tick
  PROVE  StoryInv'
<1> DEFINE next == FleetAt(telemetry, lastContact, now)
<1>1. /\ Publish(next) /\ now' = now /\ telemetry' = telemetry /\ lastContact' = lastContact
  BY DEF Tick
<1>2. next \in [Drone -> DroneState] /\ PastContact(next, now)
  BY fleetStateIsHonest
<1>3. \A d \in Drone : Grows(lastPublished[d], next[d])
  BY AgedGrows
<1>4. \A d \in Drone : /\ next[d].lastContact = lastContact[d]
                       /\ next[d].status = deriveStatus(telemetry[d], lastContact[d], now)
  BY DEF FleetAt
<1> HIDE DEF next
<1>5. OneStory(events', next) /\ Heeded(events', next) /\ Distinct(events')
  BY <1>1, <1>2, <1>3, PublishKeepsStory
<1>6. lastPublished' = next /\ now \in Nat
  BY <1>1 DEF Publish, StationInv
<1> QED
  BY <1>1, <1>4, <1>5, <1>6 DEF StoryInv, OneStory, Heeded, Distinct

LEMMA ObservationTells ==
  ASSUME StationInv, StoryInv, NEW d \in Drone, NEW reading \in Reading,
         lastContact[d] # now, Observation(d, reading)
  PROVE  StoryInv'
<1> DEFINE next == FleetAt(telemetry', lastContact', now)
<1>1. /\ telemetry' = [telemetry EXCEPT ![d] = reading]
      /\ lastContact' = [lastContact EXCEPT ![d] = now]
      /\ Publish(next) /\ now' = now
  BY DEF Observation
<1>2. /\ telemetry' \in [Drone -> Telemetry \cup {NoReading}]
      /\ lastContact' \in [Drone -> Nat \cup {Never}]
      /\ \A e \in Drone : lastContact'[e] # Never => lastContact'[e] <= now
      /\ \A e \in Drone : telemetry'[e] = NoReading => lastContact'[e] = Never
  BY <1>1, FleetAssumption DEF StationInv
<1>3. next \in [Drone -> DroneState] /\ PastContact(next, now)
  BY <1>2, FleetAtIsHonest DEF StationInv
<1>4. \A e \in Drone : /\ next[e].lastContact = lastContact'[e]
                       /\ next[e].status = deriveStatus(telemetry'[e], lastContact'[e], now)
  BY DEF FleetAt
<1>5. ASSUME NEW e \in Drone, e # d PROVE Grows(lastPublished[e], next[e])
  <2>1. next[e] = FleetAt(telemetry, lastContact, now)[e]
    <3>1. telemetry'[e] = telemetry[e] /\ lastContact'[e] = lastContact[e]
      BY <1>1, <1>5 DEF StationInv
    <3> QED BY <3>1 DEF FleetAt
  <2> HIDE DEF next
  <2> QED BY <2>1, AgedGrows
<1> HIDE DEF next
<1>6. Grows(lastPublished[d], next[d])
  <2>1. telemetry'[d] = reading /\ lastContact'[d] = now /\ reading \in Telemetry /\ now \in Nat
        /\ now # Never
    BY <1>1, FleetAssumption DEF StationInv
  <2>2. next[d].lastContact = now /\ next[d].status # "Offline"
    BY <1>4, <2>1, HeardIsInContact
  <2>3. lastPublished[d].lastContact = lastContact[d]
        /\ (lastContact[d] # Never => lastContact[d] \in Nat /\ lastContact[d] < now)
    BY <2>1 DEF StationInv, StoryInv
  <2> QED BY <2>1, <2>2, <2>3 DEF Grows, HeardNow, StillUnheard
<1>7. OneStory(events', next) /\ Heeded(events', next) /\ Distinct(events')
  BY <1>1, <1>3, <1>5, <1>6, PublishKeepsStory
<1>8. lastPublished' = next /\ now \in Nat
  BY <1>1 DEF Publish, StationInv
<1> QED
  BY <1>1, <1>4, <1>7, <1>8 DEF StoryInv, OneStory, Heeded, Distinct

\* A step of Spec leaves one story.
LEMMA StoryStep ==
  ASSUME IInv, StoryInv, [Next]_vars
  PROVE  StoryInv'
<1>1. CASE UNCHANGED <<telemetry, lastContact, lastPublished, events>> /\ (now' = now \/ now' = now + 1)
  <2>1. \A t \in Nat : t <= now => t <= now'
    BY <1>1 DEF IInv, StationInv
  <2> QED BY <1>1, <2>1 DEF StoryInv, OneStory, Heeded, Distinct
<1>2. CASE Observe
  BY <1>2, ObservationTells DEF Observe, Sent, IInv
<1>3. CASE Recheck
  BY <1>3, RecheckTells DEF Recheck, Sent, IInv
<1>4. CASE StationRestarts
  <2>1. /\ telemetry' = [d \in Drone |-> NoReading] /\ lastContact' = [d \in Drone |-> Never]
        /\ lastPublished' = Unheard /\ events' = <<>> /\ now' = now /\ now \in Nat
    BY <1>4 DEF StationRestarts, Restart, IInv, StationInv
  <2>2. \A d \in Drone : lastPublished'[d].lastContact = lastContact'[d]
          /\ lastPublished'[d].status = deriveStatus(telemetry'[d], lastContact'[d], now)
    BY <2>1 DEF Unheard, deriveStatus, outOfContact
  <2> QED BY <2>1, <2>2 DEF StoryInv, OneStory, Heeded, Distinct
<1> QED
  BY <1>1, <1>2, <1>3, <1>4 DEF Next, Connect, Wait, Advance, Deliver, Drop, scheduleRetry,
     vars, station

\* The strengthening of the timeline's invariant holds always.
THEOREM StoryInductive == Spec => []StoryInv
<1>1. BoardInit => StoryInv
  <2> SUFFICES ASSUME BoardInit PROVE StoryInv
    OBVIOUS
  <2>1. /\ telemetry = [d \in Drone |-> NoReading] /\ lastContact = [d \in Drone |-> Never]
        /\ lastPublished = Unheard /\ events = <<>> /\ now = 0
    BY DEF BoardInit, Init
  <2>2. \A d \in Drone : lastPublished[d].lastContact = lastContact[d]
          /\ lastPublished[d].status = deriveStatus(telemetry[d], lastContact[d], now)
    BY <2>1 DEF Unheard, deriveStatus, outOfContact
  <2> QED BY <2>1, <2>2 DEF StoryInv, OneStory, Heeded, Distinct
<1>2. IInv /\ StoryInv /\ [Next]_vars => StoryInv'
  BY StoryStep
<1> QED
  BY <1>1, <1>2, RecordInductive, PTL DEF Spec

\* A Drone's timeline never jumps: each of its events starts from the Status the one
\* before it ended in and the last ends in the Status published (classify,
\* deriveEvents, the seeded first observation), whatever retention drops.
THEOREM TimelineIsAlwaysOneStory == Spec => []TimelineIsOneStory
<1>1. StoryInv => TimelineIsOneStory
  BY DEF StoryInv, TimelineIsOneStory
<1> QED
  BY <1>1, StoryInductive, PTL

\* An id names one event: no Drone does one thing twice at one moment, which is what
\* lets a board fold a replayed record in by id (event, mergeEvents).
THEOREM IdsNameOneEvent == Spec => []Distinct(events)
<1>1. StoryInv => Distinct(events)
  BY DEF StoryInv
<1> QED
  BY <1>1, StoryInductive, PTL


-----------------------------------------------------------------------------
(* What the board's merge keeps. *)

\* Between intervals of one size, what never repeats itself leaves nothing out.
LEMMA PlacesCover ==
  ASSUME NEW n \in Nat, NEW f \in [1 .. n -> 1 .. n], \A i, j \in 1 .. n : f[i] = f[j] => i = j
  PROVE  \A s \in 1 .. n : \E i \in 1 .. n : f[i] = s
<1>1. IsFiniteSet(1 .. n)
  BY FS_Interval
<1>2. f \in Injection(1 .. n, 1 .. n)
  BY DEF Injection, IsInjective
<1>3. f \in Surjection(1 .. n, 1 .. n)
  BY <1>1, <1>2, FS_Injection
<1> QED
  BY <1>3 DEF Surjection

\* What never repeats itself fits only into as much room.
LEMMA PlacesFit ==
  ASSUME NEW r \in Nat, NEW a \in Nat, NEW n \in Nat, NEW f \in [1 .. r -> a + 1 .. n],
         \A i, j \in 1 .. r : f[i] = f[j] => i = j
  PROVE  r = 0 \/ a + r <= n
<1>1. IsFiniteSet(1 .. r) /\ Cardinality(1 .. r) = r
  BY FS_Interval
<1>2. /\ IsFiniteSet(a + 1 .. n)
      /\ Cardinality(a + 1 .. n) = IF a + 1 > n THEN 0 ELSE n - (a + 1) + 1
  BY FS_Interval
<1>3. ~(Cardinality(a + 1 .. n) < Cardinality(1 .. r))
  BY <1>1, <1>2, FS_PigeonHole
<1>4. CASE a + 1 > n
  BY <1>1, <1>2, <1>3, <1>4
<1>5. CASE a + 1 <= n
  <2>1. Cardinality(a + 1 .. n) = n - (a + 1) + 1
    BY <1>2, <1>5
  <2>2. ~(n - (a + 1) + 1 < r)
    BY <1>1, <1>3, <2>1
  <2> QED BY <2>2
<1> QED
  BY <1>4, <1>5

\* Sorting by time moves every event to a place of its own, and leaves none earlier
\* than the one before it.
LEMMA ByTimeSorts ==
  ASSUME NEW list \in Seq(Event)
  PROVE  LET n == Len(list) IN
         /\ ByTime(list) \in Seq(Event) /\ Len(ByTime(list)) = n
         /\ \A i, j \in 1 .. n : i < j => ByTime(list)[i].at <= ByTime(list)[j].at
         /\ \E place \in [1 .. n -> 1 .. n] :
              /\ \A i, j \in 1 .. n : place[i] = place[j] => i = j
              /\ \A i \in 1 .. n : \E k \in 1 .. n : place[k] = i
              /\ \A k \in 1 .. n : ByTime(list)[place[k]] = list[k]
<1> DEFINE n == Len(list)
           Before(j, k) == list[j].at < list[k].at \/ (list[j].at = list[k].at /\ j < k)
           earlier(k) == {j \in DOMAIN list : Before(j, k)}
           rank(k) == Cardinality(earlier(k))
           chosen(i) == CHOOSE k \in DOMAIN list : rank(k) = i - 1
           sorted == ByTime(list)
           place == [k \in 1 .. n |-> rank(k) + 1]
<1>1. sorted = [i \in DOMAIN list |-> list[chosen(i)]]
  BY DEF ByTime
<1>2. n \in Nat /\ DOMAIN list = 1 .. n /\ \A k \in 1 .. n : list[k] \in Event
  BY LenProperties, ElementOfSeq
<1>3. \A k \in 1 .. n : list[k].at \in Nat /\ k \in Nat
  BY <1>2 DEF Event
<1>4. IsFiniteSet(DOMAIN list) /\ Cardinality(DOMAIN list) = n
  <2>1. IsFiniteSet(1 .. n) /\ Cardinality(1 .. n) = IF 1 > n THEN 0 ELSE n - 1 + 1
    BY <1>2, FS_Interval
  <2>2. (IF 1 > n THEN 0 ELSE n - 1 + 1) = n
    BY <1>2
  <2> QED BY <1>2, <2>1, <2>2
<1> HIDE DEF n
<1>5. \A k \in 1 .. n : ~Before(k, k)
  BY <1>3
<1>6. \A j, k \in 1 .. n : j # k => Before(j, k) \/ Before(k, j)
  BY <1>3
<1>7. \A i, j, k \in 1 .. n : Before(i, j) /\ Before(j, k) => Before(i, k)
  BY <1>3
<1>8. \A j, k \in 1 .. n : Before(j, k) => list[j].at <= list[k].at
  BY <1>3
<1> HIDE DEF Before
<1>9. \A k \in 1 .. n : IsFiniteSet(earlier(k)) /\ rank(k) \in Nat
  <2> SUFFICES ASSUME NEW k \in 1 .. n PROVE IsFiniteSet(earlier(k)) /\ rank(k) \in Nat
    OBVIOUS
  <2>1. earlier(k) \in SUBSET DOMAIN list
    OBVIOUS
  <2>2. IsFiniteSet(earlier(k))
    <3> HIDE DEF earlier
    <3> QED BY <1>4, <2>1, FS_Subset
  <2> QED BY <2>2, FS_CardinalityType
<1>10. \A k \in 1 .. n : rank(k) + 1 \in 1 .. n
  <2> SUFFICES ASSUME NEW k \in 1 .. n PROVE rank(k) + 1 \in 1 .. n
    OBVIOUS
  <2>1. earlier(k) \in SUBSET (DOMAIN list \ {k})
    BY <1>5
  <2>2. IsFiniteSet(DOMAIN list \ {k}) /\ Cardinality(DOMAIN list \ {k}) = n - 1
    BY <1>2, <1>4, FS_RemoveElement
  <2>3. rank(k) <= n - 1
    <3> HIDE DEF earlier
    <3> QED BY <2>1, <2>2, FS_Subset
  <2>4. rank(k) \in Nat
    BY <1>9
  <2> HIDE DEF rank
  <2> QED BY <1>2, <2>3, <2>4
<1>11. \A j, k \in 1 .. n : Before(j, k) => rank(j) < rank(k)
  <2> SUFFICES ASSUME NEW j \in 1 .. n, NEW k \in 1 .. n, Before(j, k)
               PROVE  rank(j) < rank(k)
    OBVIOUS
  <2>1. earlier(j) \in SUBSET (earlier(k) \ {j}) /\ j \in earlier(k)
    BY <1>2, <1>5, <1>7
  <2>2. IsFiniteSet(earlier(k)) /\ rank(k) \in Nat /\ rank(j) \in Nat
    BY <1>9
  <2>3. IsFiniteSet(earlier(k) \ {j}) /\ Cardinality(earlier(k) \ {j}) = rank(k) - 1
    <3> HIDE DEF earlier
    <3> QED BY <2>1, <2>2, FS_RemoveElement
  <2>4. rank(j) <= rank(k) - 1
    <3> HIDE DEF earlier
    <3> QED BY <2>1, <2>3, FS_Subset
  <2> HIDE DEF rank
  <2> QED BY <2>2, <2>4
<1> HIDE DEF earlier, rank
<1>12. \A j, k \in 1 .. n : rank(j) = rank(k) => j = k
  <2> SUFFICES ASSUME NEW j \in 1 .. n, NEW k \in 1 .. n, rank(j) = rank(k), j # k
               PROVE  FALSE
    OBVIOUS
  <2>1. rank(j) < rank(k) \/ rank(k) < rank(j)
    BY <1>6, <1>11
  <2>2. rank(j) \in Nat /\ rank(k) \in Nat
    BY <1>9
  <2> QED BY <2>1, <2>2
<1>13. place \in [1 .. n -> 1 .. n] /\ \A k \in 1 .. n : place[k] = rank(k) + 1
  BY <1>10
<1> HIDE DEF place
<1>14. \A i, j \in 1 .. n : place[i] = place[j] => i = j
  <2> SUFFICES ASSUME NEW i \in 1 .. n, NEW j \in 1 .. n, place[i] = place[j] PROVE i = j
    OBVIOUS
  <2>1. rank(i) + 1 = rank(j) + 1 /\ rank(i) \in Nat /\ rank(j) \in Nat
    BY <1>9, <1>13
  <2>2. rank(i) = rank(j)
    BY <2>1
  <2> QED BY <1>12, <2>2
<1>15. \A i \in 1 .. n : \E k \in 1 .. n : place[k] = i
  BY <1>2, <1>13, <1>14, PlacesCover
<1>16. \A i \in 1 .. n : \A k \in 1 .. n : place[k] = i => rank(k) = i - 1
  BY <1>9, <1>13
<1>17. \A i \in 1 .. n : chosen(i) \in 1 .. n /\ rank(chosen(i)) = i - 1
  <2> SUFFICES ASSUME NEW i \in 1 .. n PROVE chosen(i) \in 1 .. n /\ rank(chosen(i)) = i - 1
    OBVIOUS
  <2>1. \E k \in 1 .. n : rank(k) = i - 1
    BY <1>15, <1>16
  <2> QED BY <1>2, <2>1
<1> HIDE DEF chosen
<1>18. \A i \in 1 .. n : sorted[i] = list[chosen(i)]
  BY <1>1, <1>2
<1>19. \A k \in 1 .. n : place[k] \in 1 .. n /\ chosen(place[k]) = k
  BY <1>12, <1>13, <1>16, <1>17
<1>20. \A k \in 1 .. n : sorted[place[k]] = list[k]
  BY <1>18, <1>19
<1>21. sorted \in [1 .. n -> Event]
  BY <1>1, <1>2, <1>17
<1>22. sorted \in Seq(Event) /\ Len(sorted) = n
  <2> HIDE DEF sorted
  <2>1. sorted \in Seq(Event) /\ DOMAIN sorted = 1 .. n
    BY <1>2, <1>21, FunctionIsASeq
  <2> QED BY <1>2, <2>1, LenProperties, SameLength
<1>23. \A i, j \in 1 .. n : i < j => sorted[i].at <= sorted[j].at
  <2> SUFFICES ASSUME NEW i \in 1 .. n, NEW j \in 1 .. n, i < j
               PROVE  sorted[i].at <= sorted[j].at
    OBVIOUS
  <2>1. /\ chosen(i) \in 1 .. n /\ rank(chosen(i)) = i - 1
        /\ chosen(j) \in 1 .. n /\ rank(chosen(j)) = j - 1
    BY <1>17
  <2>2. rank(chosen(i)) < rank(chosen(j)) /\ rank(chosen(i)) \in Nat /\ rank(chosen(j)) \in Nat
    BY <2>1, <1>9
  <2>3. ~(rank(chosen(j)) < rank(chosen(i))) /\ rank(chosen(i)) # rank(chosen(j))
    BY <2>2
  <2>4. Before(chosen(i), chosen(j))
    BY <1>6, <1>11, <2>1, <2>3
  <2> QED BY <1>8, <1>18, <2>1, <2>4
<1> HIDE DEF sorted
<1>24. \E p \in [1 .. n -> 1 .. n] :
         /\ \A i, j \in 1 .. n : p[i] = p[j] => i = j
         /\ \A i \in 1 .. n : \E k \in 1 .. n : p[k] = i
         /\ \A k \in 1 .. n : sorted[p[k]] = list[k]
  BY <1>13, <1>14, <1>15, <1>20
<1> QED
  BY <1>22, <1>23, <1>24 DEF sorted, n

\* The first of each Id: every Id is there, none twice, and a list that has none twice
\* is all there.
LEMMA ByIdKeeps ==
  ASSUME NEW list \in Seq(Event)
  PROVE  LET one == ById(list) IN
         /\ one \in Seq(Event) /\ Distinct(one)
         /\ \A k \in DOMAIN list : \E i \in DOMAIN one : Id(one[i]) = Id(list[k])
         /\ \A r \in 0 .. Len(list) :
              (\A i, j \in 1 .. r : Id(list[i]) = Id(list[j]) => i = j) =>
                \E f \in [1 .. r -> 1 .. Len(one)] :
                  /\ \A i, j \in 1 .. r : f[i] = f[j] => i = j
                  /\ \A k \in 1 .. r : one[f[k]] = list[k]
<1> DEFINE S == {i \in DOMAIN list : \A k \in 1 .. i - 1 : Id(list[k]) # Id(list[i])}
           firsts == InOrder(S)
           m == Cardinality(S)
           one == ById(list)
<1>1. Len(list) \in Nat /\ DOMAIN list = 1 .. Len(list) /\ \A k \in DOMAIN list : list[k] \in Event
  BY LenProperties, ElementOfSeq
<1>2. one = [i \in DOMAIN firsts |-> list[firsts[i]]]
  BY DEF ById
<1>3. S \in SUBSET Nat /\ IsFiniteSet(S) /\ S \subseteq DOMAIN list
  <2>1. IsFiniteSet(DOMAIN list) /\ DOMAIN list \subseteq Nat
    BY <1>1, FS_Interval
  <2> QED BY <2>1, FS_Subset
<1>4. \A i \in DOMAIN list : (\A k \in 1 .. i - 1 : Id(list[k]) # Id(list[i])) => i \in S
  OBVIOUS
<1>5. \A i \in S : \A k \in 1 .. i - 1 : Id(list[k]) # Id(list[i])
  OBVIOUS
<1> HIDE DEF S
<1>6. /\ Ascends(firsts, S) /\ m \in Nat
      /\ \A i, j \in 1 .. m : firsts[i] = firsts[j] => i = j
      /\ \A s \in S : \E i \in 1 .. m : firsts[i] = s
  BY <1>3, InOrderCovers
<1> HIDE DEF firsts, m, one
<1>7. firsts \in [1 .. m -> S]
  BY <1>6 DEF Ascends, m
<1>8. one \in [1 .. m -> Event] /\ \A i \in 1 .. m : one[i] = list[firsts[i]]
  BY <1>1, <1>2, <1>3, <1>7
<1>9. one \in Seq(Event) /\ DOMAIN one = 1 .. m /\ Len(one) = m
  <2>1. one \in Seq(Event) /\ DOMAIN one = 1 .. m
    BY <1>6, <1>8, FunctionIsASeq
  <2> QED BY <1>6, <2>1, LenProperties, SameLength
<1>10. \A i, j \in S : Id(list[i]) = Id(list[j]) => i = j
  <2> SUFFICES ASSUME NEW i \in S, NEW j \in S, Id(list[i]) = Id(list[j]), i < j \/ j < i
               PROVE  FALSE
    BY <1>3
  <2>1. i \in 1 .. j - 1 \/ j \in 1 .. i - 1
    BY <1>1, <1>3
  <2> QED BY <1>5, <2>1
<1>11. Distinct(one)
  BY <1>6, <1>7, <1>8, <1>9, <1>10 DEF Distinct
<1>12. ASSUME NEW k \in DOMAIN list
       PROVE  \E i \in DOMAIN one : Id(one[i]) = Id(list[k])
  <2> DEFINE T == {j \in DOMAIN list : Id(list[j]) = Id(list[k])}
  <2>1. T \in SUBSET Nat /\ T # {}
    BY <1>1
  <2>2. \E j \in T : \A q \in T : j <= q
    <3> HIDE DEF T
    <3> QED BY <2>1, LeastNat
  <2>3. PICK j \in T : \A q \in T : j <= q
    BY <2>2
  <2>4. j \in DOMAIN list /\ j \in Nat /\ Id(list[j]) = Id(list[k])
    BY <2>1
  <2>5. ASSUME NEW q \in 1 .. j - 1 PROVE Id(list[q]) # Id(list[j])
    <3>1. q \in DOMAIN list /\ q < j /\ q \in Nat
      BY <1>1, <2>4
    <3> QED BY <2>3, <2>4, <3>1
  <2>6. j \in S
    BY <1>4, <2>4, <2>5
  <2> QED BY <1>6, <1>8, <1>9, <2>4, <2>6
<1>13. ASSUME NEW r \in 0 .. Len(list),
              \A i, j \in 1 .. r : Id(list[i]) = Id(list[j]) => i = j
       PROVE  \E f \in [1 .. r -> 1 .. Len(one)] :
                /\ \A i, j \in 1 .. r : f[i] = f[j] => i = j
                /\ \A k \in 1 .. r : one[f[k]] = list[k]
  <2>1. \A k \in 1 .. r : k \in S
    <3> SUFFICES ASSUME NEW k \in 1 .. r PROVE k \in S
      OBVIOUS
    <3>1. k \in DOMAIN list /\ \A q \in 1 .. k - 1 : q \in 1 .. r /\ q # k
      BY <1>1
    <3> QED BY <1>4, <1>13, <3>1
  <2> DEFINE f == [k \in 1 .. r |-> CHOOSE i \in 1 .. m : firsts[i] = k]
  <2>2. \A k \in 1 .. r : f[k] \in 1 .. m /\ firsts[f[k]] = k
    BY <1>6, <2>1
  <2>3. f \in [1 .. r -> 1 .. m]
    BY <2>2
  <2> HIDE DEF f
  <2>4. \A i, j \in 1 .. r : f[i] = f[j] => i = j
    BY <2>2
  <2>5. \A k \in 1 .. r : one[f[k]] = list[k]
    BY <1>8, <2>2
  <2> QED BY <1>9, <2>3, <2>4, <2>5
<1> QED
  BY <1>9, <1>11, <1>12, <1>13 DEF one

\* A list knows an event when it has one of its Id, and answers for it when it knows it
\* or is full of events no earlier.
Knows(list, e) == \E f \in Heard(list) : Id(f) = Id(e)
Answers(list, e) ==
  Knows(list, e) \/ (Len(list) = MaxRetained /\ \A f \in Heard(list) : f.at >= e.at)

\* What the board holds after a batch, of what it held and the batch.
Folded(held, incoming) == Trim(ByTime(ById(held \o incoming)), MaxRetained).kept

\* A batch folded in leaves each Id once, and answers for everything that was answered
\* for and everything in the batch.
LEMMA FoldedAnswers ==
  ASSUME NEW held \in Seq(Event), Distinct(held), NEW incoming \in Seq(Event)
  PROVE  /\ Folded(held, incoming) \in Seq(Event) /\ Distinct(Folded(held, incoming))
         /\ \A e \in Event : Answers(held, e) \/ Knows(incoming, e) =>
              Answers(Folded(held, incoming), e)
<1> DEFINE both == held \o incoming
           one == ById(both)
           all == ByTime(one)
           n == Len(one)
           r == Len(held)
           kept == Folded(held, incoming)
<1>1. /\ both \in Seq(Event) /\ r \in Nat /\ Len(incoming) \in Nat
      /\ DOMAIN both = 1 .. r + Len(incoming) /\ Len(both) = r + Len(incoming)
      /\ DOMAIN held = 1 .. r /\ DOMAIN incoming = 1 .. Len(incoming)
      /\ \A i \in 1 .. r : both[i] = held[i]
      /\ \A i \in r + 1 .. r + Len(incoming) : both[i] = incoming[i - r]
  BY ConcatProperties, LenProperties
<1>2. kept = Trim(all, MaxRetained).kept /\ MaxRetained \in Nat /\ MaxRetained # 0
  BY BoardAssumption DEF Folded
<1> HIDE DEF both, kept, r
<1>3. \A i \in 1 .. Len(incoming) : r + i \in DOMAIN both /\ both[r + i] = incoming[i]
  BY <1>1
<1>4. /\ one \in Seq(Event) /\ Distinct(one)
      /\ \A k \in DOMAIN both : \E i \in DOMAIN one : Id(one[i]) = Id(both[k])
  BY <1>1, ByIdKeeps
<1>5. \E f \in [1 .. r -> 1 .. n] :
        /\ \A i, j \in 1 .. r : f[i] = f[j] => i = j
        /\ \A k \in 1 .. r : one[f[k]] = held[k]
  <2>1. r \in 0 .. Len(both) /\ \A i, j \in 1 .. r : Id(both[i]) = Id(both[j]) => i = j
    BY <1>1 DEF Distinct
  <2>2. PICK f \in [1 .. r -> 1 .. Len(one)] :
          /\ \A i, j \in 1 .. r : f[i] = f[j] => i = j
          /\ \A k \in 1 .. r : one[f[k]] = both[k]
    BY <1>1, <2>1, ByIdKeeps
  <2>3. \A k \in 1 .. r : one[f[k]] = held[k]
    BY <1>1, <2>2
  <2> HIDE DEF one
  <2> QED BY <2>2, <2>3
<1>6. PICK f \in [1 .. r -> 1 .. n] :
        /\ \A i, j \in 1 .. r : f[i] = f[j] => i = j
        /\ \A k \in 1 .. r : one[f[k]] = held[k]
  BY <1>5
<1> HIDE DEF one
<1>7. n \in Nat /\ DOMAIN one = 1 .. n
  BY <1>4, LenProperties
<1>8. /\ all \in Seq(Event) /\ Len(all) = n
      /\ \A i, j \in 1 .. n : i < j => all[i].at <= all[j].at
      /\ \E place \in [1 .. n -> 1 .. n] :
           /\ \A i, j \in 1 .. n : place[i] = place[j] => i = j
           /\ \A i \in 1 .. n : \E k \in 1 .. n : place[k] = i
           /\ \A k \in 1 .. n : all[place[k]] = one[k]
  BY <1>4, ByTimeSorts
<1> HIDE DEF all, n
<1>9. PICK place \in [1 .. n -> 1 .. n] :
        /\ \A i, j \in 1 .. n : place[i] = place[j] => i = j
        /\ \A i \in 1 .. n : \E k \in 1 .. n : place[k] = i
        /\ \A k \in 1 .. n : all[place[k]] = one[k]
  BY <1>8
<1>10. DOMAIN all = 1 .. n /\ \A i \in 1 .. n : all[i] \in Event /\ all[i].at \in Nat
  <2>1. DOMAIN all = 1 .. n /\ \A i \in 1 .. n : all[i] \in Event
    BY <1>8, LenProperties, ElementOfSeq
  <2> QED BY <2>1 DEF Event
<1>11. Distinct(all)
  <2> SUFFICES ASSUME NEW i \in 1 .. n, NEW j \in 1 .. n, Id(all[i]) = Id(all[j]) PROVE i = j
    BY <1>10 DEF Distinct
  <2>1. PICK k \in 1 .. n, q \in 1 .. n : place[k] = i /\ place[q] = j
    BY <1>9
  <2>2. Id(one[k]) = Id(one[q])
    BY <1>9, <2>1
  <2> QED BY <1>4, <1>7, <2>1, <2>2 DEF Distinct
<1>12. PICK a \in 0 .. n :
         /\ kept \in Seq(Event) /\ Len(kept) = n - a
         /\ \A i \in 1 .. n - a : kept[i] = all[a + i]
         /\ a = 0 \/ n - a = MaxRetained
         /\ n - a <= MaxRetained
  <2> DEFINE trimmed == Trim(all, MaxRetained).kept
  <2>1. \E b \in 0 .. Len(all) :
          /\ trimmed \in Seq(Event) /\ Len(trimmed) = Len(all) - b
          /\ \A i \in 1 .. Len(all) - b : trimmed[i] = all[b + i]
          /\ b = 0 \/ Len(all) - b = MaxRetained
          /\ Len(all) - b <= MaxRetained
    BY <1>2, <1>8, TrimIsTheEnd
  <2> QED BY <1>2, <1>8, <2>1
<1>13. Distinct(kept)
  <2>1. /\ a \in 0 .. Len(all) /\ kept \in Seq(Event) /\ Len(kept) = Len(all) - a
        /\ \A i \in 1 .. Len(all) - a : kept[i] = all[a + i]
    BY <1>8, <1>12
  <2> QED BY <1>8, <1>11, <2>1, EndIsDistinct
<1>14. DOMAIN kept = 1 .. n - a /\ Heard(kept) = {all[a + i] : i \in 1 .. n - a}
  <2>1. DOMAIN kept = 1 .. n - a
    BY <1>12, LenProperties
  <2> QED BY <1>12, <2>1 DEF Heard
\* An Id that is somewhere is kept, or what is kept is no earlier.
<1>15. ASSUME NEW e \in Event, NEW k \in DOMAIN both, Id(both[k]) = Id(e)
       PROVE  Answers(kept, e)
  <2>1. PICK i \in 1 .. n : Id(one[i]) = Id(e)
    BY <1>4, <1>7, <1>15
  <2> DEFINE q == place[i]
  <2>2. q \in 1 .. n /\ Id(all[q]) = Id(e)
    BY <1>9, <2>1
  <2> HIDE DEF q
  <2>3. CASE q > a
    <3>1. q - a \in 1 .. n - a /\ a + (q - a) = q
      BY <1>7, <2>2, <2>3
    <3> QED BY <1>14, <2>2, <3>1 DEF Answers, Knows
  <2>4. CASE q <= a
    <3>1. Len(kept) = MaxRetained
      BY <1>7, <1>12, <2>2, <2>4
    <3>2. ASSUME NEW m \in 1 .. n - a PROVE all[a + m].at >= e.at
      <4>1. a + m \in 1 .. n /\ q < a + m
        BY <1>7, <2>2, <2>4
      <4>2. all[q].at <= all[a + m].at
        BY <1>8, <2>2, <4>1
      <4>3. all[q].at = e.at
        BY <2>2 DEF Id
      <4> QED BY <1>10, <2>2, <4>1, <4>2, <4>3
    <3> QED BY <1>14, <3>1, <3>2 DEF Answers
  <2> QED BY <1>7, <2>2, <2>3, <2>4
\* Full of what is no earlier, it stays so.
<1>16. ASSUME NEW e \in Event, r = MaxRetained, \A g \in Heard(held) : g.at >= e.at
       PROVE  Answers(kept, e)
  <2> DEFINE spot == [k \in 1 .. r |-> place[f[k]]]
  <2>1. \A k \in 1 .. r : spot[k] = place[f[k]] /\ f[k] \in 1 .. n
    OBVIOUS
  <2>2. spot \in [1 .. r -> 1 .. n]
    BY <1>9
  <2> HIDE DEF spot
  <2>3. \A i, j \in 1 .. r : spot[i] = spot[j] => i = j
    BY <1>6, <1>9, <2>1
  <2>4. \A k \in 1 .. r : spot[k] \in 1 .. n /\ all[spot[k]] = held[k]
    <3> SUFFICES ASSUME NEW k \in 1 .. r
                 PROVE  spot[k] \in 1 .. n /\ all[spot[k]] = held[k]
      OBVIOUS
    <3>1. f[k] \in 1 .. n /\ spot[k] = place[f[k]]
      BY <2>1
    <3>2. all[place[f[k]]] = one[f[k]]
      BY <1>9, <3>1
    <3> QED BY <1>6, <1>9, <3>1, <3>2
  <2>5. \A k \in 1 .. r : all[spot[k]].at >= e.at
    BY <1>1, <1>16, <2>4 DEF Heard
  <2>6. 0 + r <= n
    <3>1. spot \in [1 .. r -> 0 + 1 .. n]
      BY <2>2
    <3> QED BY <1>1, <1>2, <1>7, <1>16, <2>3, <3>1, PlacesFit
  <2>7. Len(kept) = MaxRetained
    BY <1>1, <1>7, <1>12, <1>16, <2>6
  <2>8. ASSUME NEW m \in 1 .. n - a PROVE all[a + m].at >= e.at
    <3> SUFFICES ASSUME all[a + m].at < e.at PROVE FALSE
      <4>1. a + m \in 1 .. n /\ e.at \in Nat
        BY <1>7 DEF Event
      <4> QED BY <1>10, <4>1
    <3> DEFINE q == a + m
    <3>1. q \in 1 .. n /\ q \in Nat /\ n - q < r
      BY <1>7, <1>12, <1>16, <2>7
    <3>2. all[q].at < e.at /\ all[q].at \in Nat /\ e.at \in Nat
      BY <1>10, <3>1 DEF Event
    <3> HIDE DEF q
    <3>3. \A k \in 1 .. r : spot[k] \in q + 1 .. n
      <4> SUFFICES ASSUME NEW k \in 1 .. r, spot[k] <= q PROVE FALSE
        BY <2>4, <3>1
      <4>1. all[spot[k]].at <= all[q].at
        <5>1. spot[k] \in 1 .. n /\ spot[k] \in Nat /\ all[spot[k]].at \in Nat
          BY <1>10, <2>4
        <5>2. CASE spot[k] = q
          BY <3>2, <5>2
        <5>3. CASE spot[k] < q
          BY <1>8, <3>1, <5>1, <5>3
        <5> QED BY <3>1, <5>1, <5>2, <5>3
      <4>2. all[spot[k]].at >= e.at /\ all[spot[k]].at \in Nat
        BY <1>10, <2>4, <2>5
      <4> QED BY <3>2, <4>1, <4>2
    <3>4. spot \in [1 .. r -> q + 1 .. n]
      BY <2>2, <3>3
    <3>5. r = 0 \/ q + r <= n
      BY <1>1, <1>7, <2>3, <3>1, <3>4, PlacesFit
    <3> QED BY <1>1, <1>2, <1>7, <1>16, <3>1, <3>5
  <2> QED BY <1>14, <2>7, <2>8 DEF Answers
<1>17. ASSUME NEW e \in Event, Answers(held, e) \/ Knows(incoming, e)
       PROVE  Answers(kept, e)
  <2>1. CASE Knows(held, e)
    <3>1. PICK k \in 1 .. r : Id(held[k]) = Id(e)
      BY <1>1, <2>1 DEF Knows, Heard
    <3>2. k \in DOMAIN both /\ Id(both[k]) = Id(e)
      BY <1>1, <3>1
    <3> QED BY <1>15, <3>2
  <2>2. CASE Knows(incoming, e)
    <3>1. PICK k \in 1 .. Len(incoming) : Id(incoming[k]) = Id(e)
      BY <1>1, <2>2 DEF Knows, Heard
    <3> QED BY <1>3, <1>15, <3>1
  <2>3. CASE Len(held) = MaxRetained /\ \A g \in Heard(held) : g.at >= e.at
    BY <1>16, <2>3 DEF r
  <2> QED BY <1>17, <2>1, <2>2, <2>3 DEF Answers
<1> QED
  BY <1>12, <1>13, <1>17 DEF kept

-----------------------------------------------------------------------------
(* What the board holds, and what is on its way. *)

\* Past the h-th message a batch comes with an event of this Id.
Coming(w, h, e) ==
  \E j \in DOMAIN w : j > h /\ w[j].type = "fleet-events" /\ Knows(w[j].events, e)

\* Everything in `list` is in the last record on the wire or in a batch behind it; or,
\* with no record on the wire, the board answers for it or a batch brings it.
Reaches(list, w, held) ==
  \/ \E h \in DOMAIN w :
       /\ w[h].type = "fleet-history"
       /\ \A j \in DOMAIN w : j > h => w[j].type # "fleet-history"
       /\ \A e \in Heard(list) : Knows(w[h].history.events, e) \/ Coming(w, h, e)
  \/ /\ \A j \in DOMAIN w : w[j].type # "fleet-history"
     /\ held # NoHistory
     /\ \A e \in Heard(list) : Answers(held.events, e) \/ Coming(w, 0, e)

\* A record in which no Id is twice.
Records == {h \in Histories : Distinct(h.events)}

PastInv ==
  /\ history \in Records \cup {NoHistory}
  /\ \A j \in DOMAIN wire :
       /\ wire[j].type = "fleet-history" => wire[j].history \in Records
       /\ wire[j].type = "fleet-events" => wire[j].events # <<>>
  /\ socket = "served" => Reaches(events, wire, history)

\* More is sent: no record, and batches with what the record has gained.
LEMMA SendingReaches ==
  ASSUME NEW list, NEW w \in Seq(HonestMessages), NEW held, Reaches(list, w, held),
         NEW more \in Seq(HonestMessages), \A j \in DOMAIN more : more[j].type # "fleet-history",
         NEW list2,
         \A e \in Heard(list2) :
           e \in Heard(list) \/ \E j \in DOMAIN more : more[j].type = "fleet-events" /\ Knows(more[j].events, e)
  PROVE  Reaches(list2, w \o more, held)
<1> DEFINE w2 == w \o more
           n == Len(w)
<1>1. /\ n \in Nat /\ Len(more) \in Nat /\ DOMAIN w2 = 1 .. n + Len(more)
      /\ DOMAIN w = 1 .. n /\ DOMAIN more = 1 .. Len(more)
      /\ \A j \in 1 .. n : w2[j] = w[j]
      /\ \A j \in n + 1 .. n + Len(more) : w2[j] = more[j - n]
  BY ConcatProperties, LenProperties
<1> HIDE DEF w2, n
<1>2. \A j \in DOMAIN w : j \in DOMAIN w2 /\ w2[j] = w[j] /\ j \in Nat /\ j <= n
  BY <1>1
<1>3. \A j \in DOMAIN more : n + j \in DOMAIN w2 /\ w2[n + j] = more[j] /\ n + j > n
  BY <1>1
<1>4. \A j \in DOMAIN w2 : j \in DOMAIN w \/ (j > n /\ w2[j].type # "fleet-history")
  <2> SUFFICES ASSUME NEW j \in DOMAIN w2, j > n PROVE w2[j].type # "fleet-history"
    BY <1>1
  <2>1. j - n \in DOMAIN more /\ w2[j] = more[j - n]
    BY <1>1
  <2> QED BY <2>1
<1>5. \A h \in 0 .. n : \A e : Coming(w, h, e) => Coming(w2, h, e)
  BY <1>2 DEF Coming
<1>6. \A h \in 0 .. n : \A j \in DOMAIN more : \A e :
        more[j].type = "fleet-events" /\ Knows(more[j].events, e) => Coming(w2, h, e)
  <2> SUFFICES ASSUME NEW h \in 0 .. n, NEW j \in DOMAIN more, NEW e,
                      more[j].type = "fleet-events", Knows(more[j].events, e)
               PROVE  Coming(w2, h, e)
    OBVIOUS
  <2>1. n + j > h
    BY <1>1
  <2> QED BY <1>3, <2>1 DEF Coming
<1>7. CASE \E h \in DOMAIN w :
             /\ w[h].type = "fleet-history"
             /\ \A j \in DOMAIN w : j > h => w[j].type # "fleet-history"
             /\ \A e \in Heard(list) : Knows(w[h].history.events, e) \/ Coming(w, h, e)
  <2>1. PICK h \in DOMAIN w :
             /\ w[h].type = "fleet-history"
             /\ \A j \in DOMAIN w : j > h => w[j].type # "fleet-history"
             /\ \A e \in Heard(list) : Knows(w[h].history.events, e) \/ Coming(w, h, e)
    BY <1>7
  <2>2. h \in DOMAIN w2 /\ w2[h] = w[h] /\ h \in 0 .. n
    BY <1>1, <1>2
  <2>3. \A j \in DOMAIN w2 : j > h => w2[j].type # "fleet-history"
    BY <1>2, <1>4, <2>1
  <2>4. \A e \in Heard(list2) : Knows(w2[h].history.events, e) \/ Coming(w2, h, e)
    BY <1>5, <1>6, <2>1, <2>2
  <2> QED BY <2>1, <2>2, <2>3, <2>4 DEF Reaches, w2
<1>8. CASE /\ \A j \in DOMAIN w : w[j].type # "fleet-history"
           /\ held # NoHistory
           /\ \A e \in Heard(list) : Answers(held.events, e) \/ Coming(w, 0, e)
  <2>1. 0 \in 0 .. n
    BY <1>1
  <2>2. \A e \in Heard(list2) : Answers(held.events, e) \/ Coming(w2, 0, e)
    BY <1>5, <1>6, <1>8, <2>1
  <2>3. \A j \in DOMAIN w2 : w2[j].type # "fleet-history"
    BY <1>2, <1>4, <1>8
  <2> QED BY <1>8, <2>2, <2>3 DEF Reaches, w2
<1> QED
  BY <1>7, <1>8 DEF Reaches

\* The board handles the oldest message: it answers for what that brought.
LEMMA HandlingReaches ==
  ASSUME NEW list, Heard(list) \subseteq Event, NEW w \in Seq(HonestMessages), w # <<>>,
         NEW held, Reaches(list, w, held), NEW then,
         Head(w).type = "fleet-history" => then = Head(w).history /\ then # NoHistory,
         Head(w).type = "fleet-events" /\ held # NoHistory =>
           /\ then # NoHistory
           /\ \A e \in Event : Answers(held.events, e) \/ Knows(Head(w).events, e) =>
                Answers(then.events, e),
         Head(w).type \notin {"fleet-history", "fleet-events"} => then = held
  PROVE  Reaches(list, Tail(w), then)
<1> DEFINE w2 == Tail(w)
           n == Len(w)
<1>1. /\ n \in Nat /\ n >= 1 /\ DOMAIN w = 1 .. n /\ Head(w) = w[1]
      /\ DOMAIN w2 = 1 .. n - 1 /\ \A j \in 1 .. n - 1 : w2[j] = w[j + 1]
  <2>1. n \in Nat /\ DOMAIN w = 1 .. n /\ n # 0
    BY LenProperties, EmptySeq
  <2>2. /\ w2 \in Seq(HonestMessages) /\ Len(w2) = n - 1
        /\ \A j \in 1 .. Len(w2) : w2[j] = w[j + 1]
    BY HeadTailProperties
  <2>3. DOMAIN w2 = 1 .. Len(w2)
    BY <2>2, LenProperties
  <2>4. n >= 1 /\ Head(w) = w[1]
    BY <2>1
  <2> HIDE DEF w2, n
  <2> QED BY <2>1, <2>2, <2>3, <2>4
<1> HIDE DEF w2, n
<1>2. \A j \in DOMAIN w2 : j + 1 \in DOMAIN w /\ w2[j] = w[j + 1] /\ j \in Nat
  BY <1>1
<1>3. \A j \in DOMAIN w : j # 1 => j - 1 \in DOMAIN w2 /\ w2[j - 1] = w[j] /\ j \in Nat
  BY <1>1
<1>4. \A h \in DOMAIN w : \A e : Coming(w, h, e) => Coming(w2, h - 1, e)
  <2> SUFFICES ASSUME NEW h \in DOMAIN w, NEW e, Coming(w, h, e) PROVE Coming(w2, h - 1, e)
    OBVIOUS
  <2>1. PICK j \in DOMAIN w : j > h /\ w[j].type = "fleet-events" /\ Knows(w[j].events, e)
    BY DEF Coming
  <2>2. j # 1 /\ j - 1 > h - 1
    BY <1>1, <2>1
  <2> QED BY <1>3, <2>1, <2>2 DEF Coming
<1>5. \A e : Coming(w, 0, e) =>
        Coming(w2, 0, e) \/ (Head(w).type = "fleet-events" /\ Knows(Head(w).events, e))
  <2> SUFFICES ASSUME NEW e, Coming(w, 0, e),
                      ~(Head(w).type = "fleet-events" /\ Knows(Head(w).events, e))
               PROVE  Coming(w2, 0, e)
    OBVIOUS
  <2>1. PICK j \in DOMAIN w : w[j].type = "fleet-events" /\ Knows(w[j].events, e)
    BY DEF Coming
  <2>2. j # 1 /\ j - 1 > 0
    BY <1>1, <2>1
  <2> QED BY <1>3, <2>1, <2>2 DEF Coming
<1>6. CASE \E h \in DOMAIN w :
             /\ w[h].type = "fleet-history"
             /\ \A j \in DOMAIN w : j > h => w[j].type # "fleet-history"
             /\ \A e \in Heard(list) : Knows(w[h].history.events, e) \/ Coming(w, h, e)
  <2>1. PICK h \in DOMAIN w :
             /\ w[h].type = "fleet-history"
             /\ \A j \in DOMAIN w : j > h => w[j].type # "fleet-history"
             /\ \A e \in Heard(list) : Knows(w[h].history.events, e) \/ Coming(w, h, e)
    BY <1>6
  <2>2. \A j \in DOMAIN w2 : j > h - 1 => w2[j].type # "fleet-history"
    <3> SUFFICES ASSUME NEW j \in DOMAIN w2, j > h - 1 PROVE w2[j].type # "fleet-history"
      OBVIOUS
    <3>1. j + 1 > h
      BY <1>1
    <3> QED BY <1>2, <2>1, <3>1
  <2>3. CASE h = 1
    <3>1. then = w[1].history /\ then # NoHistory
      BY <1>1, <2>1, <2>3
    <3>2. \A j \in DOMAIN w2 : w2[j].type # "fleet-history"
      <4>1. \A j \in DOMAIN w2 : j > h - 1
        BY <1>1, <2>3
      <4> QED BY <2>2, <4>1
    <3>3. \A e \in Heard(list) : Answers(then.events, e) \/ Coming(w2, 0, e)
      <4> SUFFICES ASSUME NEW e \in Heard(list), ~Knows(then.events, e) PROVE Coming(w2, 0, e)
        BY DEF Answers
      <4>1. Coming(w2, h - 1, e) /\ h - 1 = 0
        BY <1>4, <2>1, <2>3, <3>1
      <4> QED BY <4>1
    <3> QED BY <3>1, <3>2, <3>3 DEF Reaches, w2
  <2>4. CASE h # 1
    <3>1. h - 1 \in DOMAIN w2 /\ w2[h - 1] = w[h]
      BY <1>3, <2>4
    <3>2. \A e \in Heard(list) : Knows(w2[h - 1].history.events, e) \/ Coming(w2, h - 1, e)
      BY <1>4, <2>1, <3>1
    <3> QED BY <2>1, <2>2, <3>1, <3>2 DEF Reaches, w2
  <2> QED BY <2>3, <2>4
<1>7. CASE /\ \A j \in DOMAIN w : w[j].type # "fleet-history"
           /\ held # NoHistory
           /\ \A e \in Heard(list) : Answers(held.events, e) \/ Coming(w, 0, e)
  <2>1. \A j \in DOMAIN w2 : w2[j].type # "fleet-history"
    BY <1>2, <1>7
  <2>2. Head(w).type # "fleet-history"
    BY <1>1, <1>7
  <2>3. CASE Head(w).type = "fleet-events"
    <3>1. then # NoHistory
      BY <1>7, <2>3
    <3>2. \A e \in Heard(list) : Answers(then.events, e) \/ Coming(w2, 0, e)
      BY <1>5, <1>7, <2>3
    <3> QED BY <2>1, <3>1, <3>2 DEF Reaches, w2
  <2>4. CASE Head(w).type # "fleet-events"
    <3>1. then = held
      BY <2>2, <2>4
    <3>2. \A e \in Heard(list) : Answers(then.events, e) \/ Coming(w2, 0, e)
      BY <1>5, <1>7, <2>4, <3>1
    <3> QED BY <1>7, <2>1, <3>1, <3>2 DEF Reaches, w2
  <2> QED BY <2>3, <2>4
<1> QED
  BY <1>6, <1>7 DEF Reaches

\* A batch folded into what is held is a record, and answers for both.
LEMMA mergeEventsAnswers ==
  ASSUME NEW held \in Records \cup {NoHistory}, NEW incoming \in Seq(Event), incoming # <<>>
  PROVE  /\ mergeEvents(held, incoming) \in Records
         /\ held # NoHistory => \A e \in Event :
              Answers(held.events, e) \/ Knows(incoming, e) =>
                Answers(mergeEvents(held, incoming).events, e)
<1> DEFINE base == IF held = NoHistory THEN [events |-> <<>>, since |-> incoming[1].at] ELSE held
           merged == mergeEvents(held, incoming)
           kept == Folded(base.events, incoming)
<1>1. base \in Records
  <2>1. CASE held = NoHistory
    <3>1. incoming[1] \in Event
      <4>1. Len(incoming) \in Nat /\ Len(incoming) # 0
        BY LenProperties, EmptySeq
      <4>2. 1 \in 1 .. Len(incoming)
        BY <4>1
      <4> QED BY <4>2, ElementOfSeq
    <3>2. incoming[1].at \in Nat /\ <<>> \in Seq(Event) /\ Distinct(<<>>)
      BY <3>1 DEF Event, Distinct
    <3> QED BY <2>1, <3>2 DEF Records, Histories
  <2>2. CASE held # NoHistory
    BY <2>2
  <2> QED BY <2>1, <2>2
<1>2. merged = [base EXCEPT !.events = kept]
  BY DEF mergeEvents, Folded
<1>3. held # NoHistory => base = held
  OBVIOUS
<1> HIDE DEF base, kept, merged
<1>4. base \in Histories /\ base.events \in Seq(Event) /\ Distinct(base.events)
  BY <1>1 DEF Records, Histories
<1>5. /\ kept \in Seq(Event) /\ Distinct(kept)
      /\ \A e \in Event : Answers(base.events, e) \/ Knows(incoming, e) => Answers(kept, e)
  BY <1>4, FoldedAnswers DEF kept
<1>6. merged \in Histories /\ merged.events = kept
  BY <1>2, <1>4, <1>5 DEF Histories
<1> QED
  BY <1>3, <1>5, <1>6 DEF Records, merged

\* A publication adds to the record what it tells, and nothing else.
LEMMA PublishAdds ==
  ASSUME StationInv, NEW next, Publish(next), Fresh(next) \in Seq(Event)
  PROVE  Heard(events') \subseteq Heard(events) \cup Heard(Fresh(next))
<1> DEFINE fresh == Fresh(next)
           all == events \o fresh
<1>1. events' = Trim(all, MaxEvents).kept /\ MaxEvents \in Nat
  BY FleetAssumption DEF Publish
<1>2. events \in Seq(Event) /\ fresh \in Seq(Event)
  BY DEF StationInv
<1> HIDE DEF fresh
<1>3. /\ all \in Seq(Event) /\ DOMAIN all = 1 .. Len(events) + Len(fresh)
      /\ \A i \in 1 .. Len(events) : all[i] = events[i]
      /\ \A i \in Len(events) + 1 .. Len(events) + Len(fresh) : all[i] = fresh[i - Len(events)]
      /\ DOMAIN events = 1 .. Len(events) /\ DOMAIN fresh = 1 .. Len(fresh)
      /\ Len(events) \in Nat /\ Len(fresh) \in Nat
  BY <1>2, ConcatProperties, LenProperties
<1> HIDE DEF all
<1>4. Heard(events') \subseteq Heard(all)
  BY <1>1, <1>3, TrimKeeps
<1>5. ASSUME NEW i \in DOMAIN all PROVE all[i] \in Heard(events) \cup Heard(fresh)
  <2>1. CASE i <= Len(events)
    BY <1>3, <2>1 DEF Heard
  <2>2. CASE i > Len(events)
    <3>1. i - Len(events) \in DOMAIN fresh /\ all[i] = fresh[i - Len(events)]
      BY <1>3, <2>2
    <3> QED BY <3>1 DEF Heard
  <2> QED BY <1>3, <2>1, <2>2
<1> QED
  BY <1>4, <1>5 DEF Heard, fresh

\* A publication on its way: what Sent does beside the step it sends.
OnItsWay ==
  LET fresh == Fresh(lastPublished')
      said == IF fresh = <<>> THEN <<>> ELSE <<[type |-> "fleet-events", events |-> fresh]>>
  IN  /\ wire' = IF socket = "served"
                 THEN wire \o Append(said, StateMessage([at |-> now, drones |-> lastPublished']))
                 ELSE wire
      /\ socket' = socket /\ history' = history

\* What is sent of a publication brings what the record has gained.
LEMMA SentReaches ==
  ASSUME IInv, PastInv, OnItsWay, Published, Publish(lastPublished')
  PROVE  PastInv'
<1> DEFINE fresh == Fresh(lastPublished')
           batch == [type |-> "fleet-events", events |-> fresh]
           message == StateMessage([at |-> now, drones |-> lastPublished'])
           said == IF fresh = <<>> THEN <<>> ELSE <<batch>>
           more == Append(said, message)
<1>1. /\ fresh \in Seq(Event) /\ Heard(events') \subseteq Heard(events) \cup Heard(fresh)
  BY PublishAdds DEF Published, IInv
<1>2. /\ wire' = IF socket = "served" THEN wire \o more ELSE wire
      /\ socket' = socket /\ history' = history
  BY DEF OnItsWay
<1>3. message \in HonestMessages /\ message.type = "fleet-state"
  <2>1. [at |-> now, drones |-> lastPublished'] \in HonestStates
    BY DEF Published, StationInv, IInv, HonestStates, FleetStates
  <2> QED BY <2>1 DEF StateMessage, HonestMessages
<1>4. batch \in HonestMessages /\ batch.type = "fleet-events" /\ batch.events = fresh
  BY <1>1 DEF HonestMessages
<1> HIDE DEF batch, message
<1>5. /\ more \in Seq(HonestMessages)
      /\ \A j \in DOMAIN more : more[j].type # "fleet-history"
      /\ \A j \in DOMAIN more : more[j].type = "fleet-events" => more[j].events # <<>>
      /\ fresh # <<>> => \E j \in DOMAIN more : more[j] = batch
  <2>1. CASE fresh = <<>>
    <3>1. more = <<message>>
      BY <2>1
    <3> HIDE DEF more, fresh
    <3> QED BY <1>3, <2>1, <3>1
  <2>2. CASE fresh # <<>>
    <3>1. said = <<batch>> /\ said \in Seq(HonestMessages) /\ Len(said) = 1 /\ said[1] = batch
      BY <1>4, <2>2
    <3> HIDE DEF said, fresh
    <3>2. /\ more \in Seq(HonestMessages) /\ Len(more) = Len(said) + 1
          /\ more[1] = said[1] /\ more[Len(said) + 1] = message
      BY <1>3, <3>1, AppendProperties
    <3> HIDE DEF more
    <3>3. DOMAIN more = 1 .. 2 /\ more[1] = batch /\ more[2] = message
      BY <3>1, <3>2, LenProperties
    <3>4. \A j \in DOMAIN more : j = 1 \/ j = 2
      BY <3>3
    <3> QED BY <1>3, <1>4, <2>2, <3>2, <3>3, <3>4
  <2> QED BY <2>1, <2>2
<1> HIDE DEF more, said
<1>6. CASE socket # "served"
  BY <1>2, <1>6 DEF PastInv
<1>7. CASE socket = "served"
  <2>1. wire' = wire \o more /\ wire \in Seq(HonestMessages)
    BY <1>2, <1>7 DEF IInv
  <2>2. \A e \in Heard(events') : e \in Heard(events) \/
          \E j \in DOMAIN more : more[j].type = "fleet-events" /\ Knows(more[j].events, e)
    <3> SUFFICES ASSUME NEW e \in Heard(fresh)
                 PROVE  \E j \in DOMAIN more :
                          more[j].type = "fleet-events" /\ Knows(more[j].events, e)
      BY <1>1
    <3>1. fresh # <<>>
      BY DEF Heard
    <3> HIDE DEF fresh
    <3>2. PICK j \in DOMAIN more : more[j] = batch
      BY <1>5, <3>1
    <3> QED BY <1>4, <3>2 DEF Knows
  <2>3. Reaches(events', wire \o more, history)
    <3>1. Reaches(events, wire, history)
      BY <1>7 DEF PastInv
    <3> DEFINE list2 == events'
    <3>2. \A e \in Heard(list2) : e \in Heard(events) \/
            \E j \in DOMAIN more : more[j].type = "fleet-events" /\ Knows(more[j].events, e)
      BY <2>2
    <3> HIDE DEF list2
    <3>3. Reaches(list2, wire \o more, history)
      BY <1>5, <2>1, <3>1, <3>2, SendingReaches
    <3> QED BY <3>3 DEF list2
  <2>4. \A j \in DOMAIN wire' :
          /\ wire'[j].type = "fleet-history" => wire'[j].history \in Records
          /\ wire'[j].type = "fleet-events" => wire'[j].events # <<>>
    <3>1. /\ Len(wire) \in Nat /\ Len(more) \in Nat
          /\ DOMAIN (wire \o more) = 1 .. Len(wire) + Len(more)
          /\ DOMAIN wire = 1 .. Len(wire) /\ DOMAIN more = 1 .. Len(more)
          /\ \A j \in 1 .. Len(wire) : (wire \o more)[j] = wire[j]
          /\ \A j \in Len(wire) + 1 .. Len(wire) + Len(more) :
               (wire \o more)[j] = more[j - Len(wire)]
      BY <1>5, <2>1, ConcatProperties, LenProperties
    <3> SUFFICES ASSUME NEW j \in DOMAIN (wire \o more)
                 PROVE  LET w == wire \o more IN
                        /\ w[j].type = "fleet-history" => w[j].history \in Records
                        /\ w[j].type = "fleet-events" => w[j].events # <<>>
      BY <2>1
    <3>2. CASE j <= Len(wire)
      <4>1. j \in DOMAIN wire /\ (wire \o more)[j] = wire[j]
        BY <3>1, <3>2
      <4> QED BY <4>1 DEF PastInv
    <3>3. CASE j > Len(wire)
      <4>1. j - Len(wire) \in DOMAIN more /\ (wire \o more)[j] = more[j - Len(wire)]
        BY <3>1, <3>3
      <4> QED BY <1>5, <4>1
    <3> QED BY <3>1, <3>2, <3>3
  <2> QED BY <1>2, <2>1, <2>3, <2>4 DEF PastInv
<1> QED
  BY <1>6, <1>7

\* A board that connects is sent the whole record.
LEMMA ConnectReaches ==
  ASSUME IInv, StoryInv, PastInv, Connect
  PROVE  PastInv'
<1> DEFINE open == [type |-> "open"]
           snapshot == StateMessage(fleetState)
           past == HistoryMessage
<1>1. /\ wire' = <<open, snapshot, past>> /\ history' = history /\ events' = events
  BY DEF Connect, station
<1>2. /\ past.type = "fleet-history" /\ past.history.events = events
      /\ snapshot.type = "fleet-state" /\ open.type = "open"
  BY DEF HistoryMessage, StateMessage
<1>3. past.history \in Records
  <2>1. past.history = [events |-> events, since |-> Since]
    BY DEF HistoryMessage
  <2>2. events \in Seq(Event) /\ Since \in Nat /\ Distinct(events)
    BY SinceCovers DEF IInv, StationInv, StoryInv
  <2> HIDE DEF past
  <2> QED BY <2>1, <2>2 DEF Records, Histories
<1> HIDE DEF open, snapshot, past
<1>4. DOMAIN wire' = 1 .. 3 /\ wire'[1] = open /\ wire'[2] = snapshot /\ wire'[3] = past
  BY <1>1
<1>5. \A j \in DOMAIN wire' : j = 1 \/ j = 2 \/ j = 3
  BY <1>4
<1>6. \A j \in DOMAIN wire' :
        /\ wire'[j].type = "fleet-history" => wire'[j].history \in Records
        /\ wire'[j].type = "fleet-events" => wire'[j].events # <<>>
  BY <1>2, <1>3, <1>4, <1>5
<1>7. Reaches(events', wire', history')
  <2>1. 3 \in DOMAIN wire' /\ \A j \in DOMAIN wire' : ~(j > 3)
    BY <1>4
  <2>2. \A e \in Heard(events') : Knows(wire'[3].history.events, e)
    BY <1>1, <1>2, <1>4 DEF Knows
  <2> QED BY <1>2, <1>4, <2>1, <2>2 DEF Reaches
<1> QED
  BY <1>1, <1>6, <1>7 DEF PastInv

\* The board handles a message.
LEMMA DeliverReaches ==
  ASSUME IInv, PastInv, Deliver
  PROVE  PastInv'
<1> DEFINE message == Head(wire)
<1>1. /\ wire # <<>> /\ wire' = Tail(wire) /\ socket' = socket /\ events' = events
      /\ history' = IF message.type = "fleet-history" THEN message.history
                    ELSE IF message.type = "fleet-events" THEN mergeEvents(history, message.events)
                    ELSE history
  BY DEF Deliver, Handle, station
<1>2. wire \in Seq(HonestMessages) /\ message \in HonestMessages /\ message = wire[1]
      /\ 1 \in DOMAIN wire
  <2>1. Len(wire) \in Nat /\ Len(wire) # 0 /\ DOMAIN wire = 1 .. Len(wire)
    BY <1>1, LenProperties, EmptySeq DEF IInv
  <2> QED BY <1>1, <2>1, HeadTailProperties DEF IInv
<1> HIDE DEF message
<1>3. /\ message.type = "fleet-history" => message.history \in Records
      /\ message.type = "fleet-events" => message.events # <<>> /\ message.events \in Seq(Event)
  BY <1>2 DEF PastInv, HonestMessages
<1>4. NoHistory \notin Records
  BY HistoryAssumption DEF Records
<1>5. message.type = "fleet-events" =>
        /\ history' \in Records
        /\ history # NoHistory => \A e \in Event :
             Answers(history.events, e) \/ Knows(message.events, e) => Answers(history'.events, e)
  BY <1>1, <1>3, mergeEventsAnswers DEF PastInv
<1>6. history' \in Records \cup {NoHistory}
  BY <1>1, <1>3, <1>5 DEF PastInv
<1>7. \A j \in DOMAIN wire' :
        /\ wire'[j].type = "fleet-history" => wire'[j].history \in Records
        /\ wire'[j].type = "fleet-events" => wire'[j].events # <<>>
  <2>1. \A j \in DOMAIN Tail(wire) : j + 1 \in DOMAIN wire /\ Tail(wire)[j] = wire[j + 1]
    <3>1. /\ Tail(wire) \in Seq(HonestMessages) /\ Len(Tail(wire)) = Len(wire) - 1
          /\ \A j \in 1 .. Len(Tail(wire)) : Tail(wire)[j] = wire[j + 1]
      BY <1>1, <1>2, HeadTailProperties
    <3>2. /\ DOMAIN Tail(wire) = 1 .. Len(Tail(wire)) /\ DOMAIN wire = 1 .. Len(wire)
          /\ Len(wire) \in Nat
      BY <1>2, <3>1, LenProperties
    <3> DEFINE tail == Tail(wire)
    <3> HIDE DEF tail
    <3>3. DOMAIN tail = 1 .. Len(wire) - 1 /\ \A j \in 1 .. Len(wire) - 1 : tail[j] = wire[j + 1]
      BY <3>1, <3>2 DEF tail
    <3>4. \A j \in DOMAIN tail : j + 1 \in DOMAIN wire /\ tail[j] = wire[j + 1]
      BY <3>2, <3>3
    <3> QED BY <3>4 DEF tail
  <2> QED BY <1>1, <2>1 DEF PastInv
<1>8. socket = "served" => Reaches(events, Tail(wire), history')
  <2> SUFFICES ASSUME socket = "served" PROVE Reaches(events, Tail(wire), history')
    OBVIOUS
  <2> DEFINE then == history'
  <2>1. Reaches(events, wire, history) /\ Heard(events) \subseteq Event
    BY HeardIsIn DEF PastInv, IInv, StationInv
  <2>2. /\ message.type = "fleet-history" => then = message.history /\ then # NoHistory
        /\ message.type = "fleet-events" /\ history # NoHistory =>
             /\ then # NoHistory
             /\ \A e \in Event : Answers(history.events, e) \/ Knows(message.events, e) =>
                  Answers(then.events, e)
        /\ message.type \notin {"fleet-history", "fleet-events"} => then = history
    BY <1>1, <1>3, <1>4, <1>5
  <2> HIDE DEF then
  <2>3. Reaches(events, Tail(wire), then)
    BY <1>1, <1>2, <2>1, <2>2, HandlingReaches DEF message
  <2> QED BY <2>3 DEF then
<1> QED
  BY <1>1, <1>6, <1>7, <1>8 DEF PastInv

\* A step of Spec leaves on the wire or with the board what the record holds.
LEMMA PastStep ==
  ASSUME IInv, StoryInv, PastInv, [Next]_vars
  PROVE  PastInv'
<1>1. CASE Connect
  BY <1>1, ConnectReaches
<1>2. CASE Observe
  <2>1. PICK d \in Drone, reading \in Reading : Sent(Observation(d, reading))
    BY <1>2 DEF Observe
  <2>2. Observation(d, reading) /\ OnItsWay
    BY <2>1 DEF Sent, OnItsWay
  <2>3. Publish(lastPublished')
    <3> DEFINE next == FleetAt(telemetry', lastContact', now)
    <3>1. Publish(next)
      BY <2>2 DEF Observation
    <3> HIDE DEF next
    <3>2. lastPublished' = next
      BY <3>1 DEF Publish
    <3> QED BY <3>1, <3>2
  <2> QED BY <2>2, <2>3, ObservationKeeps, SentReaches DEF IInv
<1>3. CASE Recheck
  <2>1. Tick /\ OnItsWay
    BY <1>3 DEF Recheck, Sent, OnItsWay
  <2>2. Publish(lastPublished')
    <3> DEFINE next == FleetAt(telemetry, lastContact, now)
    <3>1. Publish(next)
      BY <2>1 DEF Tick
    <3> HIDE DEF next
    <3>2. lastPublished' = next
      BY <3>1 DEF Publish
    <3> QED BY <3>1, <3>2
  <2> QED BY <2>1, <2>2, TickKeeps, SentReaches DEF IInv
<1>4. CASE Deliver
  BY <1>4, DeliverReaches
<1>5. CASE socket' # "served" /\ history' = history /\ (wire' = wire \/ wire' = <<>>)
  BY <1>5 DEF PastInv
<1>6. CASE UNCHANGED <<socket, wire, history, events>>
  BY <1>6 DEF PastInv
<1>7. CASE StationRestarts
  <2>1. socket' # "served" /\ history' = history /\ (wire' = wire \/ wire' = <<>>)
    BY <1>7 DEF StationRestarts, Close
  <2> QED BY <1>5, <2>1
<1> QED
  BY <1>1, <1>2, <1>3, <1>4, <1>5, <1>6, <1>7
  DEF Next, Wait, Advance, Drop, Close, scheduleRetry, vars, station, board

\* A board that has handled everything sent to it holds every event the station holds,
\* but for what its own bound leaves no room for, whatever sockets broke and restarts
\* there were (onConnection, mergeEvents).
THEOREM BoardNeverMisses == Spec => []BoardMissesNothing
<1>1. BoardInit => PastInv
  BY DEF BoardInit, PastInv
<1>2. IInv /\ StoryInv /\ PastInv /\ [Next]_vars => PastInv'
  BY PastStep
<1>3. PastInv => BoardMissesNothing
  <2> SUFFICES ASSUME PastInv, socket = "served", wire = <<>>, NEW e \in Heard(events)
               PROVE  \/ \E f \in Heard(history.events) : Id(f) = Id(e)
                      \/ /\ Len(history.events) = MaxRetained
                         /\ \A f \in Heard(history.events) : f.at >= e.at
    BY DEF BoardMissesNothing, CaughtUp
  <2>1. Reaches(events, wire, history) /\ DOMAIN wire = {}
    BY DEF PastInv
  <2>2. Answers(history.events, e)
    BY <2>1 DEF Reaches, Coming
  <2> QED BY <2>2 DEF Answers, Knows
<1> QED
  BY <1>1, <1>2, <1>3, RecordInductive, StoryInductive, PTL DEF Spec
=============================================================================
