CONSTANT MaxLoops = 3
SPECIFICATION Spec
INVARIANTS RevealedIsLoaded OneLoop ShownAsItIs
PROPERTY LoadingEnds
