SPECIFICATION Spec
CONSTANTS
    Names = {1, 2}
    Slug <- McSlug
    DroneCount = 2
    NoUndo = NoUndo
    CsvIds = {1}
    MaxSerial = 2
    MaxPlans = 1
    MaxAway = 1
INVARIANTS NothingDangles
PROPERTIES NobodyIsOverwritten OnlyAPlanDoubles UndoGivesBack
