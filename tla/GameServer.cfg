SPECIFICATION ServerSpec
CONSTANTS
    Players = {p1, p2, p3}
    RoomIds = {1000}
    FirstRoom = 1000
    Sizes = {3}
    NoRoom = NoRoom
    LobbyIds = {1, 2}
    Duo = Duo
    Kinds = {Duo}
    Capacity <- MCCapacity
    NoLobby = NoLobby
    SessionIds = {1, 2, 3}
SYMMETRY Symmetry
INVARIANTS
    SessionsAgree
    OneSessionEach
    ChatStaysInside
    LobbyMembershipAgrees
    CountdownIffFull
PROPERTIES
    RoomsRespected
    HostPasses
