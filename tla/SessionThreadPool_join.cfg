SPECIFICATION FairSpec
CONSTANTS
    Workers = {w1}
    Sessions = {s1}
    NoSession = NoSession
    Main = Main
    Free = Free
PROPERTY DestructorJoins
