SPECIFICATION Spec
CONSTANTS
    Slot = {s1, s2}
    Fd = {f1, f2}
    Client = {c1}
    None = None
    Hello <- SomeHellos
    Configured <- OnlyPlain
    Resets = FALSE
PROPERTIES
    DoneMovesOn
