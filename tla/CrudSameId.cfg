CONSTANTS
    Workers = {w1, w2}
    Entities = {shoes}
    Bodies = {a, b}
    MaxCreates = 2
    MaxCrashes = 0
    MaxFaults = 0
    Absent = Absent
    Empty = Empty
    Mixed = Mixed
SPECIFICATION Spec
PROPERTIES
    CreateTakesFreeId
