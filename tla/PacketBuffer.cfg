SPECIFICATION Spec
CONSTANTS
    max_packets = 4
    packet_size = 2
    MaxPackets = 6
INVARIANTS
    TypeOK
    PoppedIsIntact
PROPERTIES
    ImplementsPacketQueue
