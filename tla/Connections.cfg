SPECIFICATION FairSpec
CONSTANTS
    Clients = {c1, c2}
    MaxSent = 2
INVARIANTS
    InOrder
    Listening
    ForgottenUnlessEarly
PROPERTIES
    MainLoops
