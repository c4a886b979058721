SPECIFICATION Spec
CONSTANTS
    Calls = {c1, c2}
    Sessions = {s1, s2}
    Voices = {alice, bob}
    NoVoice = NoVoice
    NoSession = NoSession
    Configured = alice
    VoiceRotate = TRUE
    Hash <- MCHash
    MaxFaults = 1
    MaxChanges = 2
INVARIANTS TypeOK OneVoice VoiceKnown
SYMMETRY MCSymmetry
