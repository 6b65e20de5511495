SPECIFICATION Spec
CONSTANTS
    Slot = {s1, s2, s3}
    Fd = {f1, f2, f3}
    None = None
INVARIANTS
    TypeOK
    Bookkeeping
    EventsAreLive
PROPERTIES
    EventsKeepTheirItem
