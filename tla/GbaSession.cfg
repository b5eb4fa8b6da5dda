CONSTANT MaxGames = 2
SPECIFICATION Spec
INVARIANTS OneGame ShownAsItIs
PROPERTY BootEnds
