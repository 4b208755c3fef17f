SPECIFICATION FairSpec
CONSTANTS
    k1 = k1
    lobby = lobby  chat = chat
    Doors = {lobby, chat}
    Lobby = lobby
    None = None
    s1 = s1  s2 = s2  s3 = s3
    Sessions = {s1, s2, s3}
    Keys = {k1}
    KeyOf <- OneKey
    GraceEnabled = TRUE
    Hostile = {}
    Bannable = {}
    EarlyDrops = FALSE
INVARIANT StayHasCustodian
PROPERTY DropIsSettled
CHECK_DEADLOCK FALSE
