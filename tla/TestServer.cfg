SPECIFICATION MCSpec
CONSTANTS
    None = None
    Host = Host
    LongName = LongName
    Liner = Liner
    Writer = Writer
    EOL = EOL
    Letter <- MCLetter
    Name <- MCName
    TooLong <- MCTooLong
    Client <- MCClient
    Typist <- MCTypist
    Command <- MCCommand
    Script <- MCScript
    FETCH_TIMEOUT = 1
INVARIANTS
    TypeOK
    
    RepliesMatchLines
PROPERTIES
    QuitIsAnsweredInFull
    LookupEnds
