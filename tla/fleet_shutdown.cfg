SPECIFICATION Spec
CONSTANTS
    a = a
    b = b
    v1 = v1
    tts = tts
    asr = asr
    x1 = x1
    Requests <- MCRequest
    Pools <- MCOnePool
    TTS <- MCTTS
    External <- MCNone
    Voices <- MCVoice
    MaxReplicas = 1
    MaxPort = 1
\* The node exits.
CHECK_DEADLOCK FALSE
INVARIANTS NoLeakedServer
