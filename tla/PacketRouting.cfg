SPECIFICATION FairSpec
CONSTANTS
    n1 = n1
    Node = {n1}
    Nobody = n0
    PacketId = {1, 2}
    Packet <- MCPacket
    PACKET_CACHE_SIZE = 2
    ACK_TRACKER_SIZE = 2
    ClockMod = 5
    MaxAge = 1
    Timeout = 2
    MaxRetransmit = 1
    MaxPackets = 4
    MaxTracked = 2
INVARIANTS TypeOK AcceptedOnce AckedNotPending
PROPERTIES NothingEarly PendingEnds FilterSpec
