------------------------------ MODULE MCPackets ------------------------------
(***************************************************************************)
(* The two sequential parts of the packet path in one run: ReplayWindow    *)
(* with two words of three bits, and DataPlane with bytes of 16 values,    *)
(* short headers and frames around each length the code compares with.     *)
(* They share no state; `part' says which of them a behaviour exercises.   *)
(***************************************************************************)
EXTENDS ReplayWindow, DataPlane

VARIABLE part

Packets == {<<5, 3>>, <<7, 1, 2>>, <<7, 1>>, <<5>>, <<9, 3>>}
Frames == {<<>>, <<0>>} \cup Packets \cup {<<0, 2>> \o p : p \in Packets}
TheMessages == {<<1>>, <<3, 0, 2>>}
Id == <<2>>
TheTag == <<8>>

PacketsInit ==
    /\ Init
    /\ PlaneInit
    /\ part \in {"window", "plane"}

PacketsNext ==
    \/ part = "window" /\ Next /\ UNCHANGED <<planeVars, part>>
    \/ part = "plane" /\ PlaneNext /\ UNCHANGED <<vars, part>>

PacketsSpec == PacketsInit /\ [][PacketsNext]_<<vars, planeVars, part>>
=============================================================================
