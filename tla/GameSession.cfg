SPECIFICATION FairSpec
CONSTANTS
    Players = {p1, p2}
    Lives = 2
    RespawnTicks = 2
    FirstLevels = {1, 2}
    TotalLevels = 4
    Stalls = FALSE
INVARIANTS
    LivesSound
    ReportedOnce
    OwnBossFought
PROPERTIES
    ReadyWasAnnounced
    ShipComesBack
