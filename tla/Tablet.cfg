SPECIFICATION FairSpec
CONSTANTS
  Student = {c1, c2}
  Drone = {d1}
  Name = {ana}
  Point = {p1}
  NoDrone = NoDrone
  NoSeat = NoSeat
  NoDoc = NoDoc
  Nobody = Nobody
  NoCopy = NoCopy
  NoKept = NoKept
  Room = {A, B}
  A = A
  B = B
  c1 = c1
  c2 = c2
  Reread = {2}
  QuietAfter = 1
  SealedBrief = 1
  Scenes <- MCScenes
  MaxRev = 3
  MaxPosts = 1
  MaxPolls = 1
INVARIANTS WayOut ReadingStepsAside RoomsStayApart
PROPERTIES LessonOverIsHeard
CHECK_DEADLOCK FALSE
