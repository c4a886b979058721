SPECIFICATION Spec
CONSTANTS
    Users = {owner, stranger}
    Chats = {home}
    AllowedUsers = {owner}
    AllowedChats = {}
    owner = owner
    stranger = stranger
    home = home
    Incoming <- MCIncoming
    Limit = 2
    MaxUpdates = 3
    MaxFaults = 2
    MaxRestarts = 1
INVARIANTS
    TypeOK
    HandledInOrder
    AckedIsSettled
    HandledWhole
PROPERTIES
    NotesArrive
CHECK_DEADLOCK FALSE
