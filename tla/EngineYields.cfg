CONSTANTS
    a = a
    b = b
    SessionId = {i, j, k}
    Key = {1, 2, 3}
    MaxCounter = 3
    WindowSize = 2
    RekeyAfterTime = 2
    RejectAfterTime = 4
    RekeyAfterMessages = 3
    Link <- Both
    HandshakeId = {1, 2, 3}
    RetryInterval = 1
    AttemptLifetime = 2
    CacheLifetime = 2
    Passive = {}
    TunThread = "tun"
    TransportThread = "transport"
    TimerThread = "timer"
    Probing = FALSE
    Duplicating = FALSE
    Recovering = FALSE
    Timed = TRUE
    Prompt = TRUE
    Oversized = FALSE
    MaxRestarts = 0
SPECIFICATION EngineSpec
INVARIANTS
    NoMutualYield
CONSTRAINT FewFrames
SYMMETRY Interchangeable
CHECK_DEADLOCK FALSE
