SPECIFICATION Spec
CONSTANTS
    Capacity = 4
    ChunkSize = 3
    MaxBytes = 10
INVARIANTS
    TypeOK
    UnreadInOrder
PROPERTIES
    OkIsComplete
    ImplementsQueue
