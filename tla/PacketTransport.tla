-------------------------- MODULE PacketTransport --------------------------
(***************************************************************************)
(* The transport a tunnel runs on (src/src/transport.rs, bind): UDP or     *)
(* TCP, as the configuration says, for the life of the tunnel.  The TCP    *)
(* transport has two faces that share no state: the map of its connections *)
(* (TcpConnections) and the bytes of one of them (TcpFraming), whose       *)
(* promise does not depend on which connection it is.                      *)
(***************************************************************************)
EXTENDS UdpTransport, TcpConnections, TcpFraming

VARIABLE transport      \* the transport bound, and the face of it that is looked at

transportVars == <<udpVars, connVars, framingVars, transport>>

Udp == transport = "udp"
Connections == transport = "tcp connections"
Stream == transport = "tcp stream"

TransportInit ==
    /\ transport \in {"udp", "tcp connections", "tcp stream"}
    /\ UdpInit /\ ConnInit /\ FramingInit

TransportNext ==
    /\ \/ Udp /\ UdpNext /\ UNCHANGED <<connVars, framingVars>>
       \/ Connections /\ ConnNext /\ UNCHANGED <<udpVars, framingVars>>
       \/ Stream /\ FramingNext /\ UNCHANGED <<udpVars, connVars>>
    /\ UNCHANGED transport

\* The fairness of UdpSpec, ConnSpec and FramingSpec, which asks nothing of a
\* transport that is not bound.
TransportSpec ==
    /\ TransportInit /\ [][TransportNext]_transportVars
    /\ \A s \in Caller : WF_udpVars(Udp /\ send_active(s)) /\ WF_udpVars(Udp /\ Send(s))
    /\ WF_udpVars(Udp /\ recv_active)
    /\ WF_udpVars(Udp /\ Receive)
    /\ WF_udpVars(Udp /\ Timeout)
    /\ \A k \in Socket : WF_udpVars(Udp /\ PeerReceives(k))
    /\ WF_udpVars(Udp /\ Answered)
    /\ WF_connVars(Connections /\ Snapshot)
    /\ WF_connVars(Connections /\ TryRead)
    /\ WF_connVars(Connections /\ RemoveBroken)
    /\ \A s \in Sender : WF_connVars(Connections /\ Return(s))
    /\ WF_framingVars(Stream /\ Flush)
    /\ WF_framingVars(Stream /\ try_read_frame)
    /\ WF_framingVars(Stream /\ EndOfStream)

----------------------------------------------------------------------------
\* A rebind of the UDP socket reaches both directions (RebindTakesEffect of
\* UdpTransport), when that is the transport the tunnel runs on.
UdpRebindTakesEffect == Udp => RebindTakesEffect
=============================================================================
