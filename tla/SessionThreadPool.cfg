SPECIFICATION FairSpec
CONSTANTS
    Workers = {w1, w2}
    Sessions = {s1, s2}
    NoSession = NoSession
    Main = Main
    Free = Free
INVARIANTS
    BarrierHolds
    NoUseAfterErase
PROPERTIES
    ImplementsBarrier
    BatchCompletes
