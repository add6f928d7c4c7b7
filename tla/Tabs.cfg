SPECIFICATION RoomSpec
CONSTANTS
  screen = screen
  code = code
  tablet = tablet
  board = board
  student = student
  s1 = s1
  s2 = s2
  n1 = n1
  Panel = {screen, code, tablet}
  Tab = {board, student}
  TabOf <- Pages
  BoardTab = board
  Reports = {code}
  Movable = {screen}
  Here = s1
  Elsewhere = {s2}
  Student = {s1, s2}
  Drone = {d1}
  Name = {n1}
  Point = {p1}
  NoDrone = NoDrone
  NoSeat = NoSeat
  NoDoc = NoDoc
  MaxWrites <- Once
  MaxBeat = 0
  MaxChain <- Chained
  MaxMail = 2
  MaxPuts = 1
PROPERTIES EveryPanelLearns RequestReachesStore
CHECK_DEADLOCK FALSE
