\* TLC configuration of MCRenderDelivery.
SPECIFICATION Spec
CONSTANTS
    chat = chat
    game = game
    button = button
    keys = keys
    Doors = {chat, game}
    First = chat
    Controls = {button, keys}
    RawControls = {keys}
    Offers <- TakesTurns
    Self = Self
    Peers = {p1, p2}
    None = None
    Overlap = TRUE
    Transitions = FALSE
    Fails = TRUE
    Repeats = TRUE
    Forgets = FALSE
    MaxMessages = 2
    MaxPosts = 2
INVARIANTS
    TypeOK RendersInOrder ScreenMatchesPolicy EventOnce
SYMMETRY Symmetry
CHECK_DEADLOCK FALSE
