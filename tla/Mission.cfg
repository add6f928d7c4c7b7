SPECIFICATION Spec
CONSTANTS
  d1 = d1
  d2 = d2
  s1 = s1
  Drones = {d1, d2}
  Students = {s1}
  NoDrone = NoDrone
  Rostered = {d2}
  Walked = {1, 3, 6}
  MaxLessons = 2
  MaxUndone = 1
INVARIANTS GrantedWasTicked
PROPERTIES LessonStartsFresh FliesOncePerGrant TicksStay
