CONSTANTS
    a = a
    b = b
    ff = ff
    k1 = k1
    k2 = k2
    k3 = k3
    k4 = k4
    kx = kx
    kr = kr
    n1 = n1
    n2 = n2
    n3 = n3
    n4 = n4
    nx = nx
    p1 = p1
    p2 = p2
    axis = axis
    Buttons = {a, b}
    Extras = {ff}
    Keys = {k1, k2, k3, k4, kx, kr}
    PadControls = {p1, p2, axis}
    Unbound = Unbound
    Names = {n1, n2, n3, n4, nx}
    NameOf <- MCNameOf
    CodeOf <- MCCodeOf
    PadButtons = {p1, p2}
    Rank <- MCRank
    Defaults <- MCDefaults
    Presets <- MCPresets
    Files <- MCFiles
    SdkDefault <- MCSdkDefault
    LegacyMaps <- MCLegacyMaps
    Absent = Absent
    Garbage = Garbage
    MaxEdits = 1
SPECIFICATION Spec
PROPERTIES StoredMapSurvives MigrationKeepsKeys PrimariesSurviveLoads
