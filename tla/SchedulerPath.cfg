SPECIFICATION SchedulerSpec
CONSTANTS
    a = a
    b = b
    Peers <- One
    Transport = "udp"
    persistent_keepalive <- Ones
    udp_rebind_after <- Threes
    session_timeout <- Threes
    RekeyAfter = 4
    RejectAfter = 6
    MaxAge = 6
    Concurrent = {}
    MayStop = {}
    MayLosePath = {a}
    RebindMayFail = FALSE
PROPERTIES
    PathRecovers
