SPECIFICATION MCSpec
CONSTANTS
    Value <- MCValue
    Nothing = Nothing
    DEFAULT_CAPACITY = 2
    MaxSize = 7
    Node = {n1, n2, n3, n4}
    head = head
    tail = tail
    Nil = Nil
    Name <- MCName
    Hash <- MCHash
    Sentinel = Sentinel
    Null = Null
    d1 = d1
    d2 = d2
    Datum <- MCDatum
    Missing = Missing
    Word <- MCWord
    Blank = Blank
    Equals = Equals
    LineEnd = LineEnd
    Path = Path
    Absent = Absent
    MaxLength = 2
    Blocks = 24
    alice = alice
    bob = bob
    pw = pw
    other = other
INVARIANTS
    HeapTypeOK
    HeapOrder
    ListIsSound
    Balanced
    NextIsInOrder
    
PROPERTIES
    ImplementsPriorityQueue
    OrderIsKept
    ImplementsDictionary
