CONSTANTS
    Workers = {w1}
    Entities = {shoes, hats}
    Bodies = {a, b}
    MaxCreates = 3
    MaxCrashes = 2
    MaxFaults = 1
    Absent = Absent
    Empty = Empty
    Mixed = Mixed
SPECIFICATION Spec
PROPERTIES
    ImplementsEntityStore
