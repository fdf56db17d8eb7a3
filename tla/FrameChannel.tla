---------------------------- MODULE FrameChannel ----------------------------
(***************************************************************************)
(* What a TCP connection promises to the transport (src/src/transport.rs,  *)
(* PacketTransport): frames that send_to has accepted come out of          *)
(* recv_from whole, in order and once, until the connection breaks.        *)
(***************************************************************************)
EXTENDS Naturals, Sequences

CONSTANTS Frame, MaxAccepted

VARIABLES
    accepted,       \* the frames of the calls that returned Ok
    delivered,      \* the frames recv_from has returned
    open

channelVars == <<accepted, delivered, open>>

ChannelInit == accepted = <<>> /\ delivered = <<>> /\ open = TRUE

Accept(frame) ==
    /\ open
    /\ Len(accepted) < MaxAccepted
    /\ accepted' = Append(accepted, frame)
    /\ UNCHANGED <<delivered, open>>

Deliver ==
    /\ open
    /\ Len(delivered) < Len(accepted)
    /\ delivered' = Append(delivered, accepted[Len(delivered) + 1])
    /\ UNCHANGED <<accepted, open>>

Break == open /\ open' = FALSE /\ UNCHANGED <<accepted, delivered>>

ChannelNext == Deliver \/ Break \/ \E frame \in Frame : Accept(frame)

\* An open connection delivers what it has accepted.
ChannelSpec == ChannelInit /\ [][ChannelNext]_channelVars /\ WF_channelVars(Deliver)
=============================================================================
