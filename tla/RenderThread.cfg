SPECIFICATION Spec
CONSTANTS
    NumLines = 2
    Pictures = 2
    MaxWrites = 1
    Races = FALSE
INVARIANTS LinesAreReady QuietForChanges
PROPERTIES WaitsEnd
