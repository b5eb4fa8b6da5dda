SPECIFICATION Spec
CONSTANTS
    PipeSize = 3
    FifoSize = 2
    StallSize = 4
    Low = 1
    Refill = 1
    Half = 2
    Burst = 2
    Command <- MCCommand
    Params <- MCParams
    Words <- MCWords
    Stores = 2
    DmaWords = {3}
    Modes = {1, 2}
INVARIANTS NothingDropped StallIsDue StatusIsRight InterruptIsPending DmaIsNotForgotten
PROPERTIES IsQueue StallsEnd
