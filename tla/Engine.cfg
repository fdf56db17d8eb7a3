CONSTANTS
    a = a
    b = b
    SessionId = {i, j}
    Key = {1, 2}
    MaxCounter = 2
    WindowSize = 2
    RekeyAfterTime = 1
    RejectAfterTime = 1
    RekeyAfterMessages = 1
    Link <- Both
    HandshakeId = {1}
    RetryInterval = 1
    AttemptLifetime = 1
    CacheLifetime = 1
    Passive <- OneWay
    TunThread = "tun"
    TransportThread = "transport"
    TimerThread = "timer"
    Probing = TRUE
    Duplicating = TRUE
    Recovering = TRUE
    Timed = TRUE
    Prompt = FALSE
    Oversized = TRUE
    MaxRestarts = 1
SPECIFICATION EngineSpec
INVARIANTS
    ManagerTypeOK
    ConfirmedBeforeActive
    NonceNeverReused
    AcceptedOnce
PROPERTIES
    ImplementsManager
SYMMETRY SameIds
CHECK_DEADLOCK FALSE
