------------------------------ MODULE MCDaemon ------------------------------
(***************************************************************************)
(* Daemon on addresses of three bits, over five families of configurations: *)
(* the gateway's MTU and MSS around their limits; the timers of a peer     *)
(* around theirs; two peers with every combination of names, keys and      *)
(* exclusions; two peers whose allowed and excluded prefixes nest, tie and *)
(* overlap, with endpoints inside and outside of them, literal and         *)
(* resolved; and one peer, as an exit node, for the failures.  The host    *)
(* has no route, a default route, or a route of its own below it.          *)
(***************************************************************************)
EXTENDS Daemon

CONSTANTS v6, tun0, eth0, odd, peerA, peerB, k1, k2, masquerade, forward_in, forward_out

\* Addresses and prefixes by their numbers.
Bits(n) == [i \in 1 .. AddressBits |-> (n \div 2^(AddressBits - i)) % 2]
Net(n, len) == Prefix(Bits(n), len)

V4(ip) == [family |-> 4, ip |-> Bits(ip), port |-> 1]
V6 == [family |-> 6, ip |-> v6, port |-> 1]
Literal(e) == [literal |-> e, answers |-> <<>>]
Dns(answers) == [literal |-> Absent, answers |-> answers]

Full == Net(0, 0)
Low == Net(0, 1)
Quarter == Net(2, 2)
HostBits == Net(3, 2)
One == Net(3, 3)
High == Net(6, 2)

PeerOf(name, key, allowed, excluded, endpoint) ==
    [name |-> name, psk |-> key, public_key |-> key, allowed_ips |-> allowed,
     excluded_ips |-> excluded, persistent_keepalive |-> 0,
     udp_rebind_after |-> 0, session_timeout |-> Absent, endpoint |-> Literal(endpoint)]

Usual == [name |-> tun0, address |-> Net(4, 3), mtu |-> 1280, private_key |-> k1,
          transport |-> "udp"]
Plain == PeerOf(peerA, k1, <<High>>, <<>>, V4(5))

ConfigOf(interface, gateway, peers) ==
    [interface |-> interface, gateway |-> gateway, peer |-> peers]

Gateways ==
    {ConfigOf([Usual EXCEPT !.name = name, !.mtu = mtu], gateway, <<Plain>>) :
        name \in {Blank, tun0, odd}, mtu \in {39, 575, 576, 577},
        gateway \in {Absent} \cup [lan_interface : {Blank, eth0, tun0, odd},
                                   tcp_mss : {Absent} \cup 535 .. 538]}

Timers ==
    {ConfigOf([Usual EXCEPT !.transport = transport], Absent,
              <<[Plain EXCEPT !.persistent_keepalive = keepalive,
                              !.udp_rebind_after = rebind, !.session_timeout = timeout]>>) :
        transport \in {"udp", "tcp"}, keepalive \in {0, 4, 5, 6}, rebind \in {0, 4, 5, 6},
        timeout \in {Absent, 0, 4, 5, 6, 15}}

Excludable == {Full, Low, HostBits, Quarter, One}

SecondPeer(name, psk, key, allowed, excluded) ==
    [PeerOf(name, key, allowed, excluded, V4(5)) EXCEPT !.psk = psk]

Keys ==
    {ConfigOf([Usual EXCEPT !.private_key = Undecodable], Absent, <<Plain>>)}
    \cup {ConfigOf(Usual, Absent, <<Plain, peer>>) :
        peer \in {SecondPeer(name, psk, key, <<Low>>, <<>>) :
                     name \in {Blank, peerA, peerB}, psk \in {k1, k2, Undecodable},
                     key \in {k1, k2, Undecodable}}
            \cup {SecondPeer(peerB, k2, k2, allowed, excluded) :
                     allowed \in {<<>>, <<Low>>, <<Quarter>>},
                     excluded \in {<<>>} \cup {<<n>> : n \in Excludable}
                                     \cup (Excludable \X Excludable)}}

FirstPeers(endpoints) ==
    {PeerOf(peerA, k1, allowed, excluded, endpoint) :
        allowed \in {<<Full>>, <<Low>>, <<One, Low>>, <<Full, Quarter>>},
        excluded \in {<<>>, <<Quarter>>, <<One, Quarter>>}, endpoint \in endpoints}

Unusable == {V4(0), V6, [V4(3) EXCEPT !.port = 0]}

SecondPeers ==
    {PeerOf(peerB, k2, allowed, excluded, V4(3)) :
        allowed \in {<<Quarter>>, <<One>>, <<High>>, <<HostBits>>},
        excluded \in {<<>>, <<One>>}}
    \cup {[PeerOf(peerB, k2, <<High>>, <<>>, V6) EXCEPT !.endpoint = endpoint] :
              endpoint \in {Dns(<<>>), Dns(<<V6, V4(6)>>), Dns(<<V6>>)}}

Routings ==
    {ConfigOf([Usual EXCEPT !.address = address], Absent, peers) :
        address \in {Net(7, 2), Net(1, 2)},
        peers \in {<<p>> : p \in FirstPeers(Unusable)}
                     \cup {<<p>> : p \in FirstPeers({V4(3), V4(5)})}
                     \cup (FirstPeers({V4(3), V4(5)}) \X SecondPeers)}

\* A full tunnel with an exclusion, and a split tunnel that an early restart
\* may find in its own way.
Faulty ==
    {ConfigOf(Usual, Absent, <<PeerOf(peerB, k1, <<Full>>, <<One>>, V4(6))>>),
     ConfigOf(Usual, Absent, <<PeerOf(peerB, k1, <<High>>, <<>>, V4(1))>>)}

AllConfigs == Gateways \cup Timers \cup Keys \cup Routings \cup Faulty

Own(prefix) == [prefix |-> prefix, dev |-> Physical]
TheHosts == {{}, {Own(Full)}, {Own(Full), Own(Net(5, 3))}, {Own(Full), Own(Net(4, 1))}}
TheRules == <<masquerade, forward_in, forward_out>>
=============================================================================
