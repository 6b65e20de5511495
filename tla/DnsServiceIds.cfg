SPECIFICATION MCSpec
CONSTANTS
    Www = Www
    Host = Host
    Addr1 = Addr1
    Addr2 = Addr2
    None = None
    Name <- MCName
    Address <- MCAddress
    Section <- MCSection
    SEGMENT_SIZE = 2
    SEGMENTS = 3
    SEND_BUFFER_PACKCAP = 3
    MIN_REQUEST_INTERVAL = 1
    MaxCalls = 3
    MaxEvents = 5
    Packet <- MCPacket
    Question <- MCQuestion
    Meta <- MCMeta
    HEADER_SIZE = 1
    FIELD_SIZE = 1
    META_SIZE = 1
    ADDR_SIZE <- MCAddrSize
    DNML = 3
    MaxItems = 2
PROPERTIES
    NextTidIsAvailable
