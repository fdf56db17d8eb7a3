------------------------------ MODULE DataPlane ------------------------------
(***************************************************************************)
(* The two loops of src/src/tunnel.rs around the engine, at the two ends   *)
(* of a tunnel: from the TUN device of one through the packet format and a *)
(* network that cuts, extends and changes frames, to the TUN device of the *)
(* other.  A session exists; its cipher (Noise) is external and opens what *)
(* was sealed with the same counter, unchanged.  The sessions themselves   *)
(* and their replay window are those of Engine.                            *)
(***************************************************************************)
EXTENDS Wire

CONSTANTS
    TunFrames,      \* what the sender's device may hand out
    Messages,       \* the messages of handshakes
    SessionId, Tag,
    Counters,       \* the counters the session may have reached
    MaxFrames,      \* bound on the frames sent
    MaxDamage       \* bound on the frames the network changes

ASSUME PlaneAssumption ==
    /\ TunFrames \subseteq Seq(Byte) /\ Messages \subseteq Seq(Byte) \ {<<>>}
    /\ SessionId \in Seq(Byte) /\ Len(SessionId) = SESSION_ID_SIZE
    /\ Tag \in Seq(Byte) /\ Len(Tag) = TAG_SIZE
    /\ Counters \subseteq {n \in Nat : fits(n, COUNTER_SIZE)}
    /\ MaxFrames \in Nat /\ MaxDamage \in Nat

VARIABLES
    packet_information, \* of the sender's device and of the receiver's
    counter,        \* of the session
    sealed,         \* what the cipher has sealed: <<counter, ciphertext>>
    intended,       \* what encode was given for each frame
    net,            \* frames in flight
    tx_bytes, carried,  \* recorded for the peer; taken by the transport
    read,           \* the packets read from the sender's device
    written,        \* the frames written to the receiver's device
    panicked,       \* a thread of the receiver
    sends, damage

planeVars == <<packet_information, counter, sealed, intended, net, tx_bytes, carried, read,
               written, panicked, sends, damage>>

PlaneInit ==
    /\ packet_information \in [{"sender", "receiver"} -> BOOLEAN]
    /\ counter \in Counters
    /\ sealed = {} /\ intended = {} /\ net = {}
    /\ tx_bytes = 0 /\ carried = 0
    /\ read = {} /\ written = {}
    /\ panicked = FALSE
    /\ sends = 0 /\ damage = 0

\* Mutant of send_engine_frame: the frame is recorded before it is sent.
send_engine_frame_early(frame) ==
    /\ sends < MaxFrames /\ sends' = sends + 1
    /\ tx_bytes' = tx_bytes + Len(frame)
    /\ \/ net' = net \cup {frame} /\ carried' = carried + Len(frame)
       \/ UNCHANGED <<net, carried>>

\* send_engine_frame: the transport takes the frame, or fails.
send_engine_frame(frame) ==
    /\ sends < MaxFrames /\ sends' = sends + 1
    /\ \/ /\ net' = net \cup {frame}
          /\ carried' = carried + Len(frame)
          /\ tx_bytes' = tx_bytes + Len(frame)
       \/ UNCHANGED <<net, carried, tx_bytes>>

\* encrypt_for_peer: the message is sealed under the next counter, unless the
\* counters are exhausted (checked_add in NoiseSession::encrypt).
SealAndSend(msg_type, payload) ==
    LET ciphertext == encode_transport_plaintext(msg_type, payload) \o Tag
        packet == TransportOf(SessionId, counter, ciphertext)
    IN  /\ fits(counter + 1, COUNTER_SIZE)
        /\ counter' = counter + 1
        /\ sealed' = sealed \cup {<<counter, ciphertext>>}
        /\ intended' = intended \cup {packet}
        /\ send_engine_frame(encode(packet))

\* The loop from the TUN device to the transport.
TunToTransport ==
    /\ \E frame \in TunFrames :
          LET packet == strip_packet_information(frame, packet_information["sender"])
          IN  /\ packet # Bad
              /\ parse(packet)
              /\ read' = read \cup {packet}
              /\ SealAndSend(Data, packet)
    /\ UNCHANGED <<packet_information, written, panicked, damage>>

\* create_keepalive and the acknowledgement
SendKeepalive ==
    /\ \E payload \in {<<1>>, <<2>>} : SealAndSend(Keepalive, payload)
    /\ UNCHANGED <<packet_information, read, written, panicked, damage>>

SendHandshake ==
    /\ \E kind \in {HandshakeInit, HandshakeResponse}, message \in Messages :
          LET packet == Handshake(kind, SessionId, message)
          IN  intended' = intended \cup {packet} /\ send_engine_frame(encode(packet))
    /\ UNCHANGED <<packet_information, counter, sealed, read, written, panicked, damage>>

\* The network cuts, extends or changes a frame.
Damage ==
    /\ damage < MaxDamage
    /\ damage' = damage + 1
    /\ \E frame \in net :
          \E changed \in {SubSeq(frame, 1, n) : n \in 0 .. Len(frame) - 1}
                         \cup {Append(frame, b) : b \in 0 .. ByteBase - 1}
                         \cup {[frame EXCEPT ![i] = b] : i \in DOMAIN frame,
                                                         b \in 0 .. ByteBase - 1} :
             net' = net \cup {changed}
    /\ UNCHANGED <<packet_information, counter, sealed, intended, tx_bytes, carried, read,
                   written, panicked, sends>>

\* process_inbound_transport for a transport packet: decrypt, look at the type,
\* check that data is an IPv4 packet; Bad when nothing is to be written.
Opened(frame) ==
    LET packet == decode_packet(frame)
        plaintext == SubSeq(packet.rest, 1, Len(packet.rest) - TAG_SIZE)
        message == decode_transport_plaintext(plaintext)
    IN  IF packet = Bad THEN Bad
        ELSE IF \/ packet.kind # Transport \/ packet.id # SessionId
                \/ <<packet.counter, packet.rest>> \notin sealed THEN Bad
        ELSE IF message = Bad THEN Bad
        ELSE IF message.msg_type = Data /\ parse(message.payload) THEN message.payload ELSE Bad

\* The addresses and the protocol are inside a packet.
InBounds(packet) == Len(packet) >= IPV4_HEADER_SIZE

\* The loop from the transport to the TUN device.  A packet that cannot be
\* parsed or whose addresses are out of bounds would panic the thread.
TransportToTun ==
    /\ ~panicked
    /\ \E frame \in net :
          LET packet == Opened(frame)
          IN  /\ packet # Bad
              /\ IF parse(packet) /\ InBounds(packet)
                 THEN /\ written' = written \cup
                             {add_packet_information(packet, packet_information["receiver"])}
                      /\ UNCHANGED panicked
                 ELSE panicked' = TRUE /\ UNCHANGED written
    /\ UNCHANGED <<packet_information, counter, sealed, intended, net, tx_bytes, carried, read,
                   sends, damage>>

PlaneNext == TunToTransport \/ SendKeepalive \/ SendHandshake \/ Damage \/ TransportToTun

PlaneSpec == PlaneInit /\ [][PlaneNext]_planeVars

----------------------------------------------------------------------------
\* Every packet the engine encodes is decoded to what it was, whatever its
\* length and the value of its counter.
EncodedDecodes == \A packet \in intended : decode_packet(encode(packet)) = packet

\* Nothing is ignored: a frame, also a damaged one, that is decoded at all is
\* the only encoding of the packet it is decoded to.
DecodeIsCanonical ==
    \A frame \in net : LET packet == decode_packet(frame) IN packet # Bad => encode(packet) = frame

\* encode and decode_packet are inverse to each other on every frame.
CodecExact == EncodedDecodes /\ DecodeIsCanonical

\* The receiver's device gets whole packets that the sender's device gave, never
\* a keepalive, a header or a part, and "packet engine emitted an invalid IPv4
\* packet" never happens.
TunFaithful ==
    /\ ~panicked
    /\ \A frame \in written : strip_packet_information(frame, packet_information["receiver"]) \in read

\* "Record a transport action only after the adapter successfully sent it".
StatsHonest == tx_bytes = carried
=============================================================================
