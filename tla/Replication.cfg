SPECIFICATION FairSpec
CONSTANTS
    Ids <- MCIds
    Kind <- MCKind
    Pilot <- MCPilot
    Shooter <- MCShooter
    Me = 1
    Cap = 2
    Threshold = 1
    MaxFaults = 1
    MaxNet = 2
    None = None
INVARIANTS
    SettledInStep
    OwnShipFollowed
    SidesRight
PROPERTIES
    DeadShipLeaves
CHECK_DEADLOCK FALSE
