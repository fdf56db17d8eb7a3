--------------------------- MODULE MCPacketTransport ---------------------------
(***************************************************************************)
(* PacketTransport with bytes of two values, so that a length has two      *)
(* digits and the longest frame three bytes: empty, short and longest      *)
(* frames, and one that is too long.                                       *)
(***************************************************************************)
EXTENDS PacketTransport

Frames == {<<>>, <<1>>, <<0, 1>>, <<1, 1, 0>>, <<0, 0, 0, 0>>}
=============================================================================
