CONSTANTS
    Games = {g1, g2}
    NoGame = NoGame
    MaxWrites = 2
    MaxSyncs = 1
SPECIFICATION StorageSpec

INVARIANT QuietMeansStored
