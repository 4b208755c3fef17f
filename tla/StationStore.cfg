SPECIFICATION FairSpec
CHECK_DEADLOCK FALSE
CONSTANTS
    h1 = h1
    h2 = h2
    u1 = u1
    u2 = u2
    a = a
    b = b
    None = None
    Handlers = {h1, h2}
    Auditors = {h1, h2}
    Users = {u1, u2}
    Cells <- TwoCells
    Keys <- OneKey
    Values <- ShortLists
    UserOf <- Sessions
    Staff = {u1}
    Rogue = {h1}
    Items = {a}
    Changes <- Filled
    Limit = 1
    Scripts <- TwoScripts
    Legacy <- OldRows
    MaxCalls <- CallsOf
    OpsFail = TRUE
    MaxHooks = 3
    SizeOf <- EventSizes
    TableBytes = 2
    FileBytes = 3
    Backups = 2
    Faults = {"append", "trim", "rename", "reopen"}
    MaxFaults = 1
INVARIANTS
    SnapshotContinuity
    NewestKept
    TrimmedAtRest
    MirrorHasNoGap
PROPERTIES
    ImplementsAtomicStore
    HooksEnd
