SPECIFICATION SetSpec
CONSTANTS
    Entities = {e1, e2, e3, e4}
    Values = {1, 2}
    Absent = Absent
    MaxSize = 5
INVARIANTS
    IterationExact
PROPERTY ImplementsMap
