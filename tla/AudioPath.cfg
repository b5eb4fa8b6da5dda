CONSTANTS
    Cap = 5
    Target = 2
    Batch = 3
    Quantum = 2
    MaxSamples = 8
    MaxGames = 2
SPECIFICATION Spec
INVARIANTS SoundInOrder ProcessorIsFed
PROPERTY IsSoundQueue
