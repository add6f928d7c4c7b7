SPECIFICATION RecordsSpec
CONSTANTS
    Rooms <- McRooms
    Kept = 1
    MaxSaves = 3
    MaxWires = 1
    MaxUpsets = 2
INVARIANTS LessonIsWhole
PROPERTIES HydrateForgetsNothing
CHECK_DEADLOCK FALSE
