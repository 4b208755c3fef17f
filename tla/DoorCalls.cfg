\* TLC configuration of MCDoorCalls.
SPECIFICATION FairSpec
CONSTANTS
    s1 = s1
    s2 = s2
    lobby = lobby
    chat = chat
    game = game
    Sessions = {s1, s2}
    Doors = {lobby, chat, game}
    Lobby = lobby
    Volatile = {game}
    None = None
    Default = Default
    Staff = {s1}
    Granted <- Manifests
    Asks <- Careful
    Leads <- Onward
    MaxTransitions = 1
    MaxActionChain = 1
    OpenLimit <- OneLimited
    Faults = {"hook"}
INVARIANTS
    ScreenFollowsDoor LatestViewShown  
PROPERTIES
    EveryCallReturns
CHECK_DEADLOCK FALSE
