SPECIFICATION Spec
CONSTANTS
    a = a
    b = b
    v1 = v1
    tts = tts
    asr = asr
    x1 = x1
    Requests <- MCRequests
    Pools <- MCPools
    TTS <- MCTTS
    External <- MCNone
    Voices <- MCVoice
    MaxReplicas = 1
    MaxPort = 2
\* The node exits.
CHECK_DEADLOCK FALSE
INVARIANTS TypeOK NoStray StoppedOnce CapKeptAlone ExactlyNAlone MembersManagedAlone VoicesProvisioned
SYMMETRY MCSymmetry
