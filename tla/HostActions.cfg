SPECIFICATION FairSpec
CHECK_DEADLOCK FALSE
CONSTANTS
    d1 = d1
    d3 = d3
    d2 = d2
    chat = chat
    lobby = lobby
    star = star
    restart = restart
    None = None
    Daemons = {d1, d2, d3}
    Doors = {chat, lobby}
    Rules = {restart}
    Wildcard = star
    Configs <- RuleFiles
    MaxCalls = 1
    MaxStarts = 4
    Cancelled = TRUE
INVARIANTS
    StaysReachable
PROPERTIES
    StaleIsReplaced
    
