SPECIFICATION Spec
CONSTANTS
    Slot = {s1, s2, s3}
    Fd = {f1, f2, f3}
    Client = {c1, c2}
    None = None
    Hello <- SomeHellos
    Configured <- AnyMethod
    Resets = TRUE
SYMMETRY Symmetry
INVARIANTS
    TypeOK
    SessionsMatchItems
    ReplyIsTheAgreement
PROPERTIES
    NoReplyLost
