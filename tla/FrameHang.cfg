SPECIFICATION Spec
CONSTANTS
    MaxIteration = 2
    Margin = 2
    Line = 4
    NumLines = 2
    Period <- MCPeriod
    Delay <- MCDelay
    Pieces = 1
    SleepFrame = 9
    Room = 2
    Costs9 = {3}
    Costs7 = {2}
    Unit = 1
    Units = 0
    Geometry = 0
    Games <- MCSleepers
    SleepLines = {0, 1}
    EarlyWake = TRUE
    MaxSleeps = 1
PROPERTIES FramesFinish
