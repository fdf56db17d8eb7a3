SPECIFICATION PacketsSpec
CONSTANTS
    WordBits = 3
    WindowWords = 2
    MaxCounter = 9
    ByteBase = 16
    SESSION_ID_SIZE = 1
    COUNTER_SIZE = 2
    TAG_SIZE = 1
    NibbleBase = 4
    IPV4_HEADER_SIZE = 2
    WORD_SIZE = 1
    PACKET_INFO_SIZE = 2
    Bad = Bad
    TunFrames <- Frames
    Messages <- TheMessages
    SessionId <- Id
    Tag <- TheTag
    Counters = {0, 15, 254}
    MaxFrames = 2
    MaxDamage = 1
INVARIANTS
    WindowExact
    CodecExact
    TunFaithful
    StatsHonest
PROPERTIES
    FilterSpec
CHECK_DEADLOCK FALSE
