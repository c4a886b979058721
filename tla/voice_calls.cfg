SPECIFICATION Spec
CONSTANTS
    c1 = c1
    c2 = c2
    c3 = c3
    v1 = v1
    v2 = v2
    w1 = w1
    home = home
    other = other
    None = None
    Home = home
    Chats <- MCChats
    ChatOf <- MCChatOf
    Calls <- MCCalls2
    Voices <- MCVoices3
    MaxOpen = 2
    MaxRestarts = 0
    MaxFaults = 0
\* All calls may have ended, and no voice note has to arrive.
CHECK_DEADLOCK FALSE
INVARIANTS TypeOK NoForeignVoice NoOrphanRequest OutcomeMatchesRequest OneLiveAnswer
PROPERTIES EveryCallEnds PollerNeverStalls
