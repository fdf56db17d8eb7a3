SPECIFICATION SchedulerSpec
CONSTANTS
    a = a
    b = b
    Peers <- Two
    Transport = "udp"
    persistent_keepalive <- Keepalives
    udp_rebind_after <- FirstOnly
    session_timeout <- TwoAndThree
    RekeyAfter = 3
    RejectAfter = 5
    MaxAge = 5
    Concurrent = {b}
    MayStop = {b}
    MayLosePath = {a}
    RebindMayFail = TRUE
INVARIANTS
    RecoveredInTime
    PortAnnounced
PROPERTIES
    FreshSessionSurvives
    Reconnects
