SPECIFICATION SessionSpec
CONSTANTS
    a = a
    Ids = {a}
    Colors = {1, 2}
    Sizes = {1, 3}
    EntryLimit = 2
    ByteLimit = 3
    MaxRevision = 3
    MaxWrites = 1
CHECK_DEADLOCK FALSE
INVARIANTS
    IdsNameModels
    BackingShowsModel
    ForeignKept
PROPERTIES
    EditsAsShown
