------------------------------- MODULE Bytes -------------------------------
(***************************************************************************)
(* Numbers as strings of bytes, the most significant first: to_be_bytes    *)
(* and from_be_bytes of Rust's unsigned integers, which the packet format  *)
(* (Wire) and the frames of a TCP stream (TcpFraming) are written with.    *)
(***************************************************************************)
EXTENDS Naturals, Sequences

CONSTANT ByteBase       \* the values of a byte

ASSUME BytesAssumption == ByteBase \in Nat \ {0, 1}

Byte == 0 .. ByteBase - 1

\* n without its last bytes: without i of them at i.
Shifted(n, size) ==
    LET quotient[i \in 0 .. size] == IF i = 0 THEN n ELSE quotient[i - 1] \div ByteBase
    IN  quotient

\* n is a value of the integer type of this size.
fits(n, size) == Shifted(n, size)[size] = 0

to_be_bytes(n, size) ==
    LET quotient == Shifted(n, size)
    IN  [i \in 1 .. size |-> quotient[size - i] % ByteBase]

\* The value of the first i bytes is at i.
from_be_bytes(b) ==
    LET value[i \in 0 .. Len(b)] == IF i = 0 THEN 0 ELSE value[i - 1] * ByteBase + b[i]
    IN  value[Len(b)]
=============================================================================
