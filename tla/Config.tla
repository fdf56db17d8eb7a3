------------------------------- MODULE Config -------------------------------
(***************************************************************************)
(* Configuration (src/src/config.rs): what `validate' accepts, and the     *)
(* values derived from a configuration by its users: the session timeout,  *)
(* the scheduler's recovery policy, the gateway's TCP MSS.  Names and keys *)
(* are model values: a name is blank, a Linux interface name, or neither;  *)
(* a key is undecodable or the bytes it decodes to.                        *)
(***************************************************************************)
EXTENDS Integers, Sequences, FiniteSetsExt, Ipv4Net

CONSTANTS
    Absent,          \* None
    Blank,           \* a name that is empty after trim()
    Undecodable,     \* not the base64 of 32 bytes
    LinuxName        \* the valid Linux interface names

MIN_MTU == 576
IPV4_TCP_HEADER_BYTES == 40
IPV4_MINIMUM_TCP_MSS == 536

decode_key(key) == IF key = Undecodable THEN Absent ELSE key

is_valid_linux_interface_name(name) == name \in LinuxName

\* The result of a check: the error that it raises, or "ok".
Check(condition, error) == IF condition THEN error ELSE "ok"

\* Checks one after the other: the first error is returned.
first ?? second == IF first # "ok" THEN first ELSE second

\* The same for a loop, with the results of its iterations.
FirstError(results) ==
    IF \A i \in DOMAIN results : results[i] = "ok" THEN "ok"
    ELSE results[Min({i \in DOMAIN results : results[i] # "ok"})]

interface_checks(config) ==
    Check(config.interface.name = Blank, "EmptyInterfaceName")
    ?? Check(config.interface.mtu < MIN_MTU, "MtuTooSmall")

mss_checks(config) ==
    LET mss == config.gateway.tcp_mss
    IN  Check(/\ mss # Absent
              /\ \/ mss < IPV4_MINIMUM_TCP_MSS
                 \/ mss > config.interface.mtu - IPV4_TCP_HEADER_BYTES,
              "GatewayMssOutOfRange")

gateway_checks(config) ==
    IF config.gateway = Absent THEN "ok"
    ELSE LET lan == config.gateway.lan_interface
             tunnel == config.interface.name
         IN  Check(lan = Blank, "EmptyGatewayLanInterface")
             ?? Check(\/ ~is_valid_linux_interface_name(tunnel)
                      \/ ~is_valid_linux_interface_name(lan), "InvalidGatewayInterfaceName")
             ?? Check(lan = tunnel, "IdenticalGatewayInterfaces")
             ?? mss_checks(config)

\* An exclusion is in force only below one of the peer's own allowed prefixes.
covered(peer, prefix) ==
    \E i \in DOMAIN peer.allowed_ips :
        /\ peer.allowed_ips[i].len <= prefix.len
        /\ contains(peer.allowed_ips[i], network(prefix))

\* Of the exclusion at place i.
exclusion_checks(peer, i) ==
    LET excluded == peer.excluded_ips
    IN  Check(excluded[i].len = 0, "ExcludedDefaultRoute")
        ?? Check(\E k \in 1 .. i - 1 : excluded[k] = excluded[i], "DuplicateExcludedIp")
        ?? Check(~covered(peer, excluded[i]), "ExcludedIpNotCovered")

prefix_checks(peer) ==
    Check(peer.allowed_ips = <<>>, "PeerWithoutAllowedIps")
    ?? FirstError([i \in DOMAIN peer.excluded_ips |-> exclusion_checks(peer, i)])

\* A value of an earlier peer is used again.
Repeats(config, n, Field(_)) ==
    \E k \in 1 .. n - 1 : Field(config.peer[k]) = Field(config.peer[n])

key_checks(config, n) ==
    Check(decode_key(config.peer[n].psk) = Absent, "InvalidPsk")
    ?? Check(Repeats(config, n, LAMBDA peer : decode_key(peer.psk)), "DuplicatePeerPsk")
    ?? Check(decode_key(config.peer[n].public_key) = Absent, "InvalidPublicKey")
    ?? Check(Repeats(config, n, LAMBDA peer : decode_key(peer.public_key)),
             "DuplicatePeerPublicKey")

\* Mutant of rebind_checks: a rebind may be due before a probe.
rebind_checks_too_soon(config, peer) ==
    IF peer.udp_rebind_after = 0 THEN "ok"
    ELSE Check(config.interface.transport # "udp", "UdpRebindRequiresUdp")
         ?? Check(peer.persistent_keepalive = 0, "UdpRebindRequiresKeepalive")

rebind_checks(config, peer) ==
    IF peer.udp_rebind_after = 0 THEN "ok"
    ELSE Check(config.interface.transport # "udp", "UdpRebindRequiresUdp")
         ?? Check(peer.persistent_keepalive = 0, "UdpRebindRequiresKeepalive")
         ?? Check(peer.udp_rebind_after <= peer.persistent_keepalive, "UdpRebindTooSoon")

timeout_checks(peer) ==
    IF peer.session_timeout \in {Absent, 0} THEN "ok"
    ELSE Check(peer.persistent_keepalive = 0, "SessionTimeoutRequiresKeepalive")
         ?? Check(peer.session_timeout <= peer.persistent_keepalive, "SessionTimeoutTooSoon")

\* The body of the loop over the peers.
peer_checks(config, n) ==
    LET peer == config.peer[n]
    IN  Check(peer.name = Blank, "EmptyPeerName")
        ?? Check(Repeats(config, n, LAMBDA p : p.name), "DuplicatePeerName")
        ?? prefix_checks(peer) ?? key_checks(config, n)
        ?? rebind_checks(config, peer) ?? timeout_checks(peer)

\* Config::validate
validate(config) ==
    interface_checks(config) ?? gateway_checks(config)
    ?? Check(decode_key(config.interface.private_key) = Absent, "InvalidPrivateKey")
    ?? FirstError([n \in DOMAIN config.peer |-> peer_checks(config, n)])

----------------------------------------------------------------------------
\* PeerConfig::effective_session_timeout
effective_session_timeout(peer, transport) ==
    IF peer.session_timeout # Absent THEN peer.session_timeout
    ELSE IF transport = "tcp" /\ peer.persistent_keepalive > 0
    THEN IF 3 * peer.persistent_keepalive > 15 THEN 3 * peer.persistent_keepalive ELSE 15
    ELSE 0

\* scheduler.rs, recovery_policy: the timeout of a peer, or 0.
recovery_timeout(peer, transport) ==
    IF transport = "udp" /\ peer.udp_rebind_after > 0 THEN peer.udp_rebind_after
    ELSE effective_session_timeout(peer, transport)

\* gateway.rs, from_config: the MSS of the plan, or Absent when it is refused.
plan_mss(config) ==
    LET maximum == config.interface.mtu - IPV4_TCP_HEADER_BYTES
        mss == IF config.gateway.tcp_mss # Absent THEN config.gateway.tcp_mss ELSE maximum
    IN  IF maximum >= 0 /\ mss >= IPV4_MINIMUM_TCP_MSS /\ mss <= maximum THEN mss ELSE Absent

\* PeerEndpoint::resolve: a literal, or else of the answers of DNS the first
\* IPv4 address, or the first, or an error.
resolve(endpoint) ==
    IF endpoint.literal # Absent THEN endpoint.literal
    ELSE LET answers == endpoint.answers
             v4 == {i \in DOMAIN answers : answers[i].family = 4}
         IN  IF v4 # {} THEN answers[Min(v4)]
             ELSE IF answers # <<>> THEN answers[1]
             ELSE Absent
============================================================================
