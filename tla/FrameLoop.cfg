SPECIFICATION Spec
CONSTANTS
    MaxIteration = 2
    Margin = 2
    Line = 4
    NumLines = 2
    Period <- MCPeriod
    Delay <- MCDelay
    Pieces = 1
    SleepFrame = 9
    Room = 10
    Costs9 = {2, 5}
    Costs7 = {2}
    Unit = 1
    Units = 1
    Geometry = 2
    Games <- MCGames
    SleepLines = {0}
    EarlyWake = FALSE
    MaxSleeps = 1
INVARIANTS InStep OnTime SamplesOfACall
PROPERTIES FramesFinish
