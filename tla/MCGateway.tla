----------------------------- MODULE MCGateway -----------------------------
(***************************************************************************)
(* Gateway with two gateway units and two policies.                        *)
(***************************************************************************)
EXTENDS Gateway, TLC

Symmetry == Permutations(Process) \cup Permutations(Tunnel) \cup Permutations(Policy)
============================================================================
