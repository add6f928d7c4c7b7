SPECIFICATION RecordsSpec
CONSTANTS
    Rooms <- McRooms
    Kept = 2
    MaxSaves = 3
    MaxWires = 1
    MaxUpsets = 1
INVARIANT LessonsAreKept
CHECK_DEADLOCK FALSE
