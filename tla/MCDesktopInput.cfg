CONSTANTS
    a = a
    b = b
    ff = ff
    k1 = k1
    k2 = k2
    p1 = p1
    Buttons = {a}
    Extras = {ff}
    Keys = {k1, k2}
    PadControls = {p1}
    Unbound = Unbound
    Pads = {0}
    Sources <- MCSources
    Cores = {c1}
    NoCore = NoCore
    Maps <- MCMaps
    Setups <- MCSetups
SPECIFICATION DSpec
INVARIANTS BookedOnce NoOrphanSources SpentKeyIsSilent HeldMeansDown PadFlagIsLive RouterAgrees
PROPERTY ReleasedButtonsComeUp
