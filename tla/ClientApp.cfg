SPECIFICATION AppSpec
CONSTANTS
    Me = me
    Peer = peer
    Players = {me, peer}
    RoomIds = {1, 2}
    FirstRoom = 1
    Sizes = {2}
    NoRoom = NoRoom
    Private = {2}
    MaxEach = 2
    MaxUnderWay = 3
INVARIANTS
    LobbyShown
    ChatShown
    MembershipAgrees
    CountdownHasPlayers
PROPERTY NoEntryOnceStarted
