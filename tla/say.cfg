SPECIFICATION Spec
CONSTANTS
    Texts <- MCTexts
    ChunkTarget = 5
    ChunkHardCap = 8
    MaxConcurrency = 2
    MaxAttempts = 2
\* Say returns, and nothing follows.
CHECK_DEADLOCK FALSE
INVARIANTS TypeOK SpokenWhole ChunksFit NoSilentGap WavsRemoved
PROPERTIES SayReturns
