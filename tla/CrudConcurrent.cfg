CONSTANTS
    Workers = {w1, w2}
    Entities = {shoes}
    Bodies = {a}
    MaxCreates = 3
    MaxCrashes = 1
    MaxFaults = 1
    Absent = Absent
    Empty = Empty
    Mixed = Mixed
SPECIFICATION Spec
SYMMETRY Symmetry
INVARIANTS
    TypeOK
    CreateSparesOlder
    EmptyOnlyUnderWriter
