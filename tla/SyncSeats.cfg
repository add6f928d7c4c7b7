SPECIFICATION OnDroneSpec
CONSTANTS
  t1 = t1
  t2 = t2
  h1 = h1
  n1 = n1
  n2 = n2
  Board = Board
  Tablet = {t1}
  HandId = {h1}
  Student = {t1, h1}
  Drone = {d1}
  Name = {n1, n2}
  Point = {p1}
  NoDrone = NoDrone
  NoSeat = NoSeat
  NoDoc = NoDoc
  NameOf <- OwnNames
  Press = {"join", "free", "hand", "reclaim", "request", "seat-beat"}
  MaxWrites <- Budget220
  MaxBeat = 1
  MaxReplies = 1
  MaxPuts = 1
  ScreenLag = TRUE
  LosesPuts = FALSE
INVARIANTS NoGhosts
PROPERTIES StoreIsTheRecord OnlyFreedLeave
CHECK_DEADLOCK FALSE
