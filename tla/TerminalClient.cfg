\* TLC configuration of MCTerminalClient.
SPECIFICATION Spec
CONSTANTS
    name = name
    note = note
    padded = padded
    unseen = unseen
    go = go
    lobby = lobby
    chat = chat
    vault = vault
    MaxUINodeDepth = 3
    MaxUIChildren = 2
    MaxUIItems = 2
    NoName = NoName
    Clean <- Trim
    Doors = {lobby, chat, vault}
    Hidden = {vault}
    Lobby = lobby
    Names <- InputNames
    RawViews <- Drawn
    Fallback <- Plain
    DoorLists <- Lists1
    Height = 3
    MaxRenderMessagesPerSecond = 1
    MaxRenders = 2
    MaxDraft = 1
    MaxInbox = 2
    MaxPending = 1
INVARIANTS
    TypeOK EventNamesItsView DraftsKept AcceptedViewsAreWhole ScreenCatchesUp
CHECK_DEADLOCK FALSE
