\* TLC configuration of MCRenderDelivery.
SPECIFICATION Spec
CONSTANTS
    chat = chat
    game = game
    button = button
    keys = keys
    Doors = {chat, game}
    First = chat
    Controls = {button, keys}
    RawControls = {keys}
    Offers <- TakesTurns
    Self = Self
    Peers = {p1}
    None = None
    Overlap = FALSE
    Transitions = TRUE
    Fails = FALSE
    Repeats = TRUE
    Forgets = TRUE
    MaxMessages = 3
    MaxPosts = 1
INVARIANTS
    EventsReachTheirDoor ViewsAreFresh
SYMMETRY Symmetry
CHECK_DEADLOCK FALSE
