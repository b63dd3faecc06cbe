SPECIFICATION PartsSpec
CONSTANTS
    Paths <- Roles
    Location <- RoleLocation
    Contract = {"weights", "safetensors"}
    Optional = {"safetensors"}
    Compiled = {"compiled"}
    OutputSides <- UpToEight
    RasterSizes <- ThreeTimes
    NumQueries = 3
    NumClasses = 2
    Best = 4
    Threshold = 1
    Scores <- ThreeScores
    Certain = 2
    Formulas = {1}
    Maps <- SomeMaps
    Bounds <- SomeBounds
    Width = 3
    Height = 2
    White = 100
    Grays <- SomeGrays
    SquareSides <- UpToFive
    Widths <- UpToEleven
    Heights <- UpToEleven
    Budgets <- TightAndAmple
    Shapes <- SomeShapes
    Strides <- SomeStrides
    Capacities <- SomeCapacities
    MaxSpan = 17
    Budget = 12
    NumPages = 2
    DisplayKinds = {"inline", "display"}
    Raw <- RawPages
    Limits <- SmallLimits
    Chunks = {0, 1, 2, 5, 9}
    MaxTotal = 24
    Nothing = Nothing
INVARIANTS
    
    LayoutRight
    FormulaImageRight
    TensorsKept
    ResultsAgree
    WithinReservation
CHECK_DEADLOCK FALSE
