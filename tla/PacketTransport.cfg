SPECIFICATION TransportSpec
CONSTANTS
    Caller = {tun, timer}
    MaxRebinds = 2
    MaxQueued = 1
    Sender = {tun, timer}
    Addr = {a1, a2}
    Dialable = {a1}
    None = None
    MaxConns = 3
    MaxBreaks = 2
    ByteBase = 2
    Payload <- Frames
    LIMIT = 7
    WireCapacity = 4
    MaxAccepted = 3
INVARIANTS
    OneLateFrame
    StreamIntact
PROPERTIES
    UdpRebindTakesEffect
    BrokenIsRemoved
    ReplacedIsClosed
    ImplementsChannel
CHECK_DEADLOCK FALSE
