SPECIFICATION DaemonSpec
CONSTANTS
    AddressBits = 3
    Absent = Absent
    Blank = Blank
    Undecodable = Undecodable
    LinuxName = {tun0, eth0}
    Configs <- AllConfigs
    HostTables <- TheHosts
    Tun = Tun
    Physical = Physical
    Loopback = Loopback
    MaxIpKills = 2
    ExitNodes <- Faulty
    Disturbed <- Faulty
    Rules <- TheRules
    MaxStarts = 3
    MaxFailures = 2
    MaxSignals = 3
    MaxEarly = 1
    MaxKills = 1
    v6 = v6
    tun0 = tun0
    eth0 = eth0
    odd = odd
    peerA = peerA
    peerB = peerB
    k1 = k1
    k2 = k2
    masquerade = masquerade
    forward_in = forward_in
    forward_out = forward_out
INVARIANTS
    NoLoop
    RoutesConsistent
    ExitsClean
    RunningIsWhole
    ValidIsUsable
PROPERTIES
    ComesBack
CHECK_DEADLOCK FALSE
