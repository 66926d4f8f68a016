SPECIFICATION BagSpec
CONSTANTS
    p1 = p1
    p2 = p2
    Players = {p1, p2}
    MaxPlayers = 2
    MaxCells = 3
    Pieces = 2
    MinSplit = 2
    MinEject = 3
    EjectCost = 1
    VirusSplitMass = 3
    DecayThreshold = 2
    MaxVirus = 1
    v1 = v1
    VirusIds = {v1}
    MaxMass = 3
    MaxHits = 2
    MaxScan = 3
    MaxAlive = 4
SYMMETRY PlayerSymmetry
INVARIANT TrackedAgree EatenOnce CellLimit
