\* TLC configuration of MCStationPolicy.
SPECIFICATION Spec
CONSTANTS
    a = a
    b = b
    u = u
    admin = admin
    game = game
    Sessions = {a, b, u}
    Keys = {a, b, u}
    KeyOf <- OwnKey
    Owners = {a, b}
    Doors = {admin, game}
    AdminDoor = admin
    StaffDoors = {admin}
    None = None
    Legacy <- OldPolicy
    Requests <- StaffRequests
    StoreFails = FALSE
    Races = {}
INVARIANTS
    RolesFollowPolicy
    ListsFollowPolicy

    
