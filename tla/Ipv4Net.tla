------------------------------ MODULE Ipv4Net ------------------------------
(***************************************************************************)
(* IPv4 prefixes as the code uses them (the ipnet crate).  An address is   *)
(* its AddressBits bits, the first one the most significant; a prefix is   *)
(* an address and a length, host bits kept as given.                       *)
(***************************************************************************)
EXTENDS Naturals

CONSTANT AddressBits

ASSUME AddressAssumption == AddressBits \in Nat \ {0}

Address == [1 .. AddressBits -> {0, 1}]

\* The address all of whose bits are 0.
UNSPECIFIED == [i \in 1 .. AddressBits |-> 0]

Prefix(addr, len) == [addr |-> addr, len |-> len]

\* Ipv4Net::network: the address with its host bits cleared.
network(net) == [i \in 1 .. AddressBits |-> IF i <= net.len THEN net.addr[i] ELSE 0]

trunc(net) == Prefix(network(net), net.len)

\* Ipv4Net::contains: the address has the bits of the prefix.
contains(net, address) == \A i \in 1 .. net.len : address[i] = net.addr[i]
============================================================================
