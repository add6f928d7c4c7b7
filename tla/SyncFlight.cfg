SPECIFICATION DoorSpec
CONSTANTS
  t1 = t1
  t2 = t2
  h1 = h1
  n1 = n1
  n2 = n2
  Board = Board
  Tablet = {t1}
  HandId = {}
  Student = {t1}
  Drone = {d1}
  Name = {n1, n2}
  Point = {p1}
  NoDrone = NoDrone
  NoSeat = NoSeat
  NoDoc = NoDoc
  NameOf <- OwnNames
  Press = {"take", "request", "grant", "fly", "reach", "approve", "complete", "refresh", "close", "open", "hold"}
  MaxWrites <- Budget34
  MaxBeat = 1
  MaxReplies = 1
  MaxPuts = 1
  ScreenLag = FALSE
  LosesPuts = FALSE
INVARIANTS CompleteWasApproved
PROPERTIES TapSticks EndIsFinal
CHECK_DEADLOCK FALSE
