SPECIFICATION FairSpec
CONSTANTS
    Slot = {s1, s2}
    Fd = {f1, f2}
    Client = {c1, c2}
    None = None
    Hello <- OneHello
    Configured <- OnlyNone
    Resets = FALSE
PROPERTIES
    LoopKeepsRunning
    ShutIsClosed
    BacklogIsAccepted
    HelloIsSettled
    
