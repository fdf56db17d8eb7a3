-------------------------------- MODULE Wire --------------------------------
(***************************************************************************)
(* The packet format (src/src/auth.rs) and the IPv4 header check           *)
(* (src/src/packet.rs), on strings of bytes.  The sizes are parameters, so *)
(* that a checked instance can have short packets; the code has a session  *)
(* id and a counter of 8 bytes, a tag of 16, an IPv4 header of 20.         *)
(***************************************************************************)
EXTENDS Bytes

CONSTANTS
    SESSION_ID_SIZE, COUNTER_SIZE, TAG_SIZE,
    NibbleBase,         \* the values of half a byte
    IPV4_HEADER_SIZE,   \* 20, with the addresses at its end
    WORD_SIZE,          \* the unit of the header length, 4
    PACKET_INFO_SIZE,   \* 4
    Bad                 \* None or an error

ASSUME WireAssumption ==
    /\ {SESSION_ID_SIZE, COUNTER_SIZE, TAG_SIZE, NibbleBase, IPV4_HEADER_SIZE,
        WORD_SIZE, PACKET_INFO_SIZE} \subseteq Nat \ {0}
    /\ ByteBase >= 4 /\ NibbleBase * NibbleBase = ByteBase

WIRE_VERSION == 3
HANDSHAKE_HEADER_SIZE == 1 + 1 + SESSION_ID_SIZE
TRANSPORT_HEADER_SIZE == HANDSHAKE_HEADER_SIZE + COUNTER_SIZE
MIN_TRANSPORT_PACKET_SIZE == TRANSPORT_HEADER_SIZE + 1 + TAG_SIZE

\* PacketKind
Transport == 0
HandshakeInit == 1
HandshakeResponse == 2
is_handshake(kind) == kind \in {HandshakeInit, HandshakeResponse}

\* MsgType
Data == 0
Keepalive == 1

from(bytes, n) == SubSeq(bytes, n + 1, Len(bytes))

counter_of(packet) ==
    from_be_bytes(SubSeq(packet, HANDSHAKE_HEADER_SIZE + 1, TRANSPORT_HEADER_SIZE))

Handshake(kind, id, message) == [kind |-> kind, id |-> id, counter |-> 0, rest |-> message]
TransportOf(id, counter, ciphertext) ==
    [kind |-> Transport, id |-> id, counter |-> counter, rest |-> ciphertext]

\* encode_handshake and encode_transport
encode(p) ==
    <<WIRE_VERSION, p.kind>> \o p.id
    \o (IF p.kind = Transport THEN to_be_bytes(p.counter, COUNTER_SIZE) ELSE <<>>) \o p.rest

\* Mutant of decode_packet: every version is taken.
decode_packet_any_version(packet) ==
    IF Len(packet) < MIN_TRANSPORT_PACKET_SIZE \/ packet[2] # 0 THEN Bad
    ELSE TransportOf(SubSeq(packet, 3, HANDSHAKE_HEADER_SIZE),
                     counter_of(packet),
                     from(packet, TRANSPORT_HEADER_SIZE))

decode_packet(packet) ==
    IF Len(packet) < HANDSHAKE_HEADER_SIZE \/ packet[1] # WIRE_VERSION THEN Bad
    ELSE LET kind == packet[2]
             id == SubSeq(packet, 3, HANDSHAKE_HEADER_SIZE)
         IN  IF is_handshake(kind) /\ Len(packet) > HANDSHAKE_HEADER_SIZE
             THEN Handshake(kind, id, from(packet, HANDSHAKE_HEADER_SIZE))
             ELSE IF kind = Transport /\ Len(packet) >= MIN_TRANSPORT_PACKET_SIZE
             THEN TransportOf(id,
                      counter_of(packet),
                      from(packet, TRANSPORT_HEADER_SIZE))
             ELSE Bad

encode_transport_plaintext(msg_type, payload) == <<msg_type>> \o payload

decode_transport_plaintext(plaintext) ==
    IF plaintext = <<>> \/ plaintext[1] \notin {Data, Keepalive} THEN Bad
    ELSE [msg_type |-> plaintext[1], payload |-> from(plaintext, 1)]

\* Mutant of parse: the header length is not compared with the packet's.
parse_unbounded(bytes) == Len(bytes) >= 1 /\ bytes[1] \div NibbleBase = 1

\* Ipv4Packet::parse; the version 4 is the nibble 1.
parse(bytes) ==
    /\ Len(bytes) >= IPV4_HEADER_SIZE
    /\ bytes[1] \div NibbleBase = 1
    /\ (bytes[1] % NibbleBase) * WORD_SIZE <= Len(bytes)

\* tunnel.rs: the header of a TUN device with packet information
strip_packet_information(frame, packet_information) ==
    IF ~packet_information THEN frame
    ELSE IF Len(frame) < PACKET_INFO_SIZE THEN Bad ELSE from(frame, PACKET_INFO_SIZE)

\* AF_INET, in network order
add_packet_information(frame, packet_information) ==
    IF ~packet_information THEN frame
    ELSE [i \in 1 .. PACKET_INFO_SIZE |-> IF i = PACKET_INFO_SIZE THEN 2 ELSE 0] \o frame
=============================================================================
