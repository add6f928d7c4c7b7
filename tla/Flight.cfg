SPECIFICATION Spec
CONSTANTS
  d1 = d1
  Drones = {d1}
  CanAutoLand = {d1}
  West = 0
  East = 1
  Bench <- BenchAtWest
  Top = 2
  Full = 2
  Flat = 0
  Low = 2
  Routes <- OneRoute
  Panels <- Lessons
  NoFly = {1}
  Window = 1
  StaleAfter = 1
  OfflineAfter = 2
  MaxPresses = 2
  MaxBreaks = 1
  MaxWire = 2
INVARIANTS NeverHigherAfterCommand CutStaysDown TakenIsStillRaised
PROPERTIES RecalledDescendsAtHome CommandSettles RecallEnds
