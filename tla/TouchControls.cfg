CONSTANTS
    Pointers = {1, 2, 3}
    Buttons = {up, left}
    Nothing = Nothing
    MaxLost = 1
    FreshIds = TRUE
SPECIFICATION TouchSpec
INVARIANT DownWhileHeld
