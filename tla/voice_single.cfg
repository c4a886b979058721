SPECIFICATION Spec
CONSTANTS
    c1 = c1
    c2 = c2
    c3 = c3
    v1 = v1
    v2 = v2
    w1 = w1
    home = home
    other = other
    None = None
    Home = home
    Chats <- MCChats
    ChatOf <- MCChatOf
    Calls <- MCCalls3
    Voices <- MCVoices2
    MaxOpen = 1
    MaxRestarts = 1
    MaxFaults = 1
\* All calls may have ended, and no voice note has to arrive.
CHECK_DEADLOCK FALSE
SYMMETRY MCSymmetry
PROPERTIES SettledForGood KeepsPromise
