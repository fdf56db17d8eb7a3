--------------------------- MODULE TransportProofs ---------------------------
(***************************************************************************)
(* The transports and the packet format.  A rebind of the UDP socket costs *)
(* a sender at most one frame from the old port (UdpTransport).  A TCP     *)
(* stream stays framed, byte by byte, and delivers the frames it accepted, *)
(* whole and in order (TcpFraming).  The codec of the packets is exact and *)
(* the device of the receiver gets what the sender's gave (DataPlane).     *)
(*                                                                         *)
(* What a recursive function computes is proved here by the least          *)
(* counterexample: a set of numbers that is not empty has a least one.     *)
(***************************************************************************)
EXTENDS UdpTransport, TcpFraming, DataPlane, SequenceTheorems, WellFoundedInduction, TLAPS

----------------------------------------------------------------------------
\* UDP: frames from the old port.

\* Only a sender whose call began before the rebind, and which has sent nothing
\* since, still has an old socket: this is what makes the bound inductive.
LateInv ==
    /\ stale \in [Caller -> 0 .. 1]
    /\ DOMAIN socket_of = Caller
    /\ \A s \in Caller : socket_of[s] \notin {NoSocket, active} => stale[s] = 0

\* No sender has sent from an old port at the start.
LEMMA LateInit == UdpInit => LateInv
  BY DEF UdpInit, LateInv

\* A system call on an old socket is counted, and there is none left afterwards.
LEMMA LateSend ==
  ASSUME LateInv, NEW s \in Caller, Send(s)
  PROVE  LateInv'
  <1>1. stale' \in [Caller -> 0 .. 1]
    BY DEF LateInv, Send
  <1>2. DOMAIN socket_of' = Caller
    BY DEF LateInv, Send
  <1>3. ASSUME NEW q \in Caller, socket_of'[q] \notin {NoSocket, active'}
        PROVE  stale'[q] = 0
    <2>1. q # s
      BY <1>3 DEF LateInv, Send, NoSocket
    <2> QED
      BY <1>3, <2>1 DEF LateInv, Send, NoSocket
  <1> QED
    BY <1>1, <1>2, <1>3 DEF LateInv

\* Every step of send_to, recv_from and rebind keeps it.
LEMMA LateStep == LateInv /\ [UdpNext]_udpVars => LateInv'
  <1> SUFFICES ASSUME LateInv, [UdpNext]_udpVars
               PROVE  LateInv'
    OBVIOUS
  <1>1. CASE UNCHANGED udpVars
    BY <1>1 DEF LateInv, udpVars, NoSocket
  <1>2. ASSUME NEW s \in Caller, send_active(s)
        PROVE  LateInv'
    BY <1>2 DEF LateInv, send_active, NoSocket
  <1>3. ASSUME NEW s \in Caller, Send(s)
        PROVE  LateInv'
    BY <1>3, LateSend
  <1>4. CASE recv_active \/ Receive \/ Timeout
    BY <1>4 DEF LateInv, recv_active, Receive, Timeout, NoSocket
  <1>5. CASE BindUdpSocket \/ BindFails
    BY <1>5 DEF LateInv, BindUdpSocket, BindFails, NoSocket
  <1>6. CASE Replace
    BY <1>6 DEF LateInv, Replace, NoSocket
  <1>7. CASE Answered
    BY <1>7 DEF LateInv, Answered, NoSocket
  <1>8. ASSUME NEW k \in Socket, PeerReceives(k)
        PROVE  LateInv'
    BY <1>8 DEF LateInv, PeerReceives, NoSocket
  <1> QED
    BY <1>1, <1>2, <1>3, <1>4, <1>5, <1>6, <1>7, <1>8 DEF UdpNext

\* However the calls of send_to and the rebinds interleave, a sender sends at
\* most one frame from an old port before it uses the new one.
THEOREM AtMostOneLateFrame == UdpSpec => []OneLateFrame
  <1>1. LateInv => OneLateFrame
    BY DEF LateInv, OneLateFrame
  <1> QED
    BY LateInit, LateStep, <1>1, PTL DEF UdpSpec

----------------------------------------------------------------------------
\* Induction and recursive functions.

\* A nonempty set of numbers has a least one: this is how the proofs below do induction.
LEMMA LeastNumber ==
    ASSUME NEW S \in SUBSET Nat, S # {}
    PROVE  \E x \in S : \A y \in S : x <= y
<1> DEFINE R == OpToRel(<, Nat)
<1>1. IsWellFoundedOn(R, Nat)
    BY NatLessThanWellFounded
<1>2. R = {ss \in Nat \X Nat : ss[1] < ss[2]}
    BY Zenon DEF R, OpToRel
<1> HIDE DEF R
<1>3. PICK x \in S : \A y \in S : ~(<<y, x>> \in R)
    BY <1>1, WFMin
<1>4. ASSUME NEW y \in S
      PROVE  x <= y
    <2>1. x \in Nat /\ y \in Nat /\ ~(<<y, x>> \in R)
        BY <1>3
    <2>2. y < x => <<y, x>> \in R
        BY <1>2, <2>1
    <2> QED BY <2>1, <2>2
<1> QED BY <1>4

\* A set with 0 and with the successor of each of its numbers has them all.
LEMMA Induction ==
    ASSUME NEW T, 0 \in T, \A i \in Nat : i \in T => i + 1 \in T
    PROVE  \A n \in Nat : n \in T
<1> SUFFICES ASSUME NEW n \in Nat, n \notin T PROVE FALSE
    OBVIOUS
<1> DEFINE out == {i \in Nat : i \notin T}
<1>1. PICK x \in out : \A y \in out : x <= y
    <2>1. out \in SUBSET Nat /\ out # {}
        OBVIOUS
    <2> QED BY <2>1, LeastNumber
<1>2. x \in Nat /\ x \notin T /\ x # 0
    BY <1>1
<1>3. x - 1 \in Nat /\ x - 1 + 1 = x /\ ~(x <= x - 1)
    BY <1>2
<1>4. x - 1 \in T
    BY <1>1, <1>3
<1> QED BY <1>2, <1>3, <1>4

\* g is defined by recursion up to n.
Recursive(g, n, first, next) == g[0] = first /\ \A i \in 1 .. n : g[i] = next[i][g[i - 1]]

\* f and g start alike and go on alike up to n ...
GoOnAlike(f, g, n) ==
    f[0] = g[0] /\ \A i \in 1 .. n : f[i - 1] = g[i - 1] => f[i] = g[i]

\* ... and are alike.
Alike(f, g, n) == \A i \in 0 .. n : f[i] = g[i]

\* A function can be defined by recursion, up to any number ...
LEMMA Recursion ==
    ASSUME NEW S, NEW first \in S, NEW next \in [Nat -> [S -> S]], NEW n \in Nat
    PROVE  \E g \in [0 .. n -> S] : Recursive(g, n, first, next)
<1> DEFINE Defined(k, g) == /\ g \in [0 .. k -> S] /\ g[0] = first
                            /\ \A i \in 1 .. k : g[i] = next[i][g[i - 1]]
           T == {k \in Nat : \E g \in [0 .. k -> S] : Defined(k, g)}
<1>1. 0 \in T
    <2>1. Defined(0, [i \in 0 .. 0 |-> first])
        OBVIOUS
    <2> QED BY <2>1
<1>2. ASSUME NEW k \in Nat, k \in T
      PROVE  k + 1 \in T
    <2>1. PICK g : Defined(k, g)
        BY <1>2
    <2> DEFINE h == [i \in 0 .. k + 1 |-> IF i = k + 1 THEN next[k + 1][g[k]] ELSE g[i]]
    <2>2. g[k] \in S /\ next[k + 1][g[k]] \in S
        BY <2>1
    <2>3. h \in [0 .. k + 1 -> S]
        BY <2>1, <2>2
    <2>4. h[0] = first
        BY <2>1
    <2>5. ASSUME NEW i \in 1 .. k + 1
          PROVE  h[i] = next[i][h[i - 1]]
        <3>1. i - 1 \in 0 .. k /\ h[i - 1] = g[i - 1]
            OBVIOUS
        <3>2. CASE i = k + 1
            BY <3>1, <3>2
        <3>3. CASE i # k + 1
            <4>1. i \in 1 .. k /\ h[i] = g[i]
                BY <3>3
            <4> QED BY <2>1, <3>1, <4>1
        <3> QED BY <3>2, <3>3
    <2> HIDE DEF h
    <2> QED BY <2>3, <2>4, <2>5
<1> HIDE DEF T
<1>3. n \in T
    BY <1>1, <1>2, Induction
<1> QED BY <1>3 DEF T, Recursive

\* ... and there is only one such function.
LEMMA Unique ==
    ASSUME NEW n \in Nat, NEW f, NEW g, GoOnAlike(f, g, n)
    PROVE  Alike(f, g, n)
<1> DEFINE T == {k \in Nat : k <= n => f[k] = g[k]}
<1>1. 0 \in T
    BY DEF GoOnAlike
<1>2. ASSUME NEW k \in Nat, k \in T
      PROVE  k + 1 \in T
    <2> SUFFICES ASSUME k + 1 <= n PROVE f[k + 1] = g[k + 1]
        OBVIOUS
    <2>1. k + 1 \in 1 .. n /\ k + 1 - 1 = k /\ f[k] = g[k]
        BY <1>2
    <2> QED BY <2>1 DEF GoOnAlike
<1> HIDE DEF T
<1>3. \A k \in Nat : k \in T
    BY <1>1, <1>2, Induction
<1> QED BY <1>3 DEF T, Alike

----------------------------------------------------------------------------
\* Numbers as bytes.

\* q is what is left of n when bytes are taken from it.
Quotients(q, n, size) ==
    /\ q \in [0 .. size -> Nat] /\ q[0] = n
    /\ \A i \in 1 .. size : q[i] = q[i - 1] \div ByteBase

\* v is the value of the first bytes of b.
Values(v, b) ==
    /\ v \in [0 .. Len(b) -> Nat] /\ v[0] = 0
    /\ \A i \in 1 .. Len(b) : v[i] = v[i - 1] * ByteBase + b[i]

\* The quotients of a shift are what their recursion says ...
LEMMA ShiftedFacts ==
    ASSUME NEW n \in Nat, NEW size \in Nat
    PROVE  Quotients(Shifted(n, size), n, size)
<1> PICK q : q = Shifted(n, size)
    OBVIOUS
<1> DEFINE body(f) == [i \in 0 .. size |-> IF i = 0 THEN n ELSE f[i - 1] \div ByteBase]
           next == [i \in Nat |-> [v \in Nat |-> v \div ByteBase]]
<1>1. ByteBase \in Nat \ {0, 1} /\ \A v \in Nat : v \div ByteBase \in Nat
    BY BytesAssumption
<1>2. next \in [Nat -> [Nat -> Nat]]
    BY <1>1
<1> HIDE DEF next
<1>3. PICK g \in [0 .. size -> Nat] : Recursive(g, size, n, next)
    BY <1>2, Recursion, Zenon
<1>4. \A i \in 1 .. size : i - 1 \in 0 .. size /\ g[i - 1] \in Nat /\ g[i] = g[i - 1] \div ByteBase
    <2> SUFFICES ASSUME NEW i \in 1 .. size
                 PROVE  i - 1 \in 0 .. size /\ g[i - 1] \in Nat /\ g[i] = g[i - 1] \div ByteBase
        OBVIOUS
    <2>1. i - 1 \in 0 .. size /\ i \in Nat
        OBVIOUS
    <2>2. PICK x \in Nat : x = g[i - 1]
        BY <1>3, <2>1
    <2>3. g[i] = next[i][x] /\ next[i][x] = x \div ByteBase
        BY <1>3, <2>1, <2>2 DEF next, Recursive
    <2> QED BY <2>1, <2>2, <2>3
<1>5. g = body(g)
    BY <1>3, <1>4 DEF Recursive
<1>6. q = CHOOSE f : f = body(f)
    BY Zenon DEF Shifted
<1>7. q = body(q)
    BY <1>5, <1>6, Zenon
<1>8. q[0] = n /\ \A i \in 1 .. size : q[i] = q[i - 1] \div ByteBase
    <2>1. 0 \in 0 .. size /\ \A i \in 1 .. size : i \in 0 .. size /\ i # 0
        OBVIOUS
    <2> QED BY <1>7, <2>1
<1>9. Alike(q, g, size)
    <2>1. GoOnAlike(q, g, size)
        BY <1>3, <1>4, <1>8 DEF GoOnAlike, Recursive
    <2> QED BY <2>1, Unique, Zenon
<1>10. q = g
    <2>1. DOMAIN q = 0 .. size /\ DOMAIN g = 0 .. size
        BY <1>3, <1>7
    <2>2. q = [i \in 0 .. size |-> q[i]]
        BY <1>7
    <2> QED BY <1>3, <1>9, <2>1, <2>2 DEF Alike
<1> QED BY <1>3, <1>8, <1>10 DEF Quotients

\* ... and so are the values of the first bytes of a string.
LEMMA ValueFacts ==
    ASSUME NEW b \in Seq(Byte)
    PROVE  \E v : Values(v, b) /\ from_be_bytes(b) = v[Len(b)]
<1> PICK size \in Nat : size = Len(b)
    BY LenProperties
<1> DEFINE body(f) == [i \in 0 .. Len(b) |-> IF i = 0 THEN 0 ELSE f[i - 1] * ByteBase + b[i]]
           digit == [i \in Nat |-> IF i \in 1 .. size THEN b[i] ELSE 0]
           next == [i \in Nat |-> [v \in Nat |-> v * ByteBase + digit[i]]]
<1>1. ByteBase \in Nat /\ \A i \in 1 .. size : b[i] \in Nat
    <2>1. ByteBase \in Nat /\ Byte \subseteq Nat
        BY BytesAssumption DEF Byte
    <2>2. \A i \in 1 .. size : b[i] \in Byte
        BY LenProperties
    <2> QED BY <2>1, <2>2
<1>2. digit \in [Nat -> Nat] /\ \A i \in 1 .. size : i \in Nat /\ digit[i] = b[i]
    BY <1>1
<1> HIDE DEF digit
<1>3. next \in [Nat -> [Nat -> Nat]]
    <2>1. ASSUME NEW i \in Nat, NEW v \in Nat
          PROVE  v * ByteBase + digit[i] \in Nat
        <3>1. PICK d \in Nat : d = digit[i]
            BY <1>2
        <3> QED BY <1>1, <3>1
    <2> QED BY <2>1
<1>4. PICK g \in [0 .. size -> Nat] : Recursive(g, size, 0, next)
    <2> HIDE DEF next
    <2>1. 0 \in Nat
        OBVIOUS
    <2> QED BY <1>3, <2>1, Recursion, Zenon
<1>5. \A i \in 1 .. size : g[i - 1] \in Nat
    <2>1. \A i \in 1 .. size : i - 1 \in 0 .. size
        OBVIOUS
    <2>2. \A i \in 0 .. size : g[i] \in Nat
        OBVIOUS
    <2> QED BY <2>1, <2>2
<1>6. \A i \in 1 .. size : g[i] = g[i - 1] * ByteBase + b[i]
    <2> SUFFICES ASSUME NEW i \in 1 .. size PROVE g[i] = g[i - 1] * ByteBase + b[i]
        OBVIOUS
    <2>1. i \in Nat /\ digit[i] = b[i]
        BY <1>2
    <2>2. PICK x \in Nat : x = g[i - 1]
        BY <1>5
    <2>3. next[i][x] = x * ByteBase + digit[i]
        BY <2>1
    <2>4. g[i] = next[i][x]
        BY <1>4, <2>2 DEF Recursive
    <2> QED BY <2>1, <2>2, <2>3, <2>4
<1>7. g = body(g)
    BY <1>4, <1>6 DEF Recursive
<1>8. PICK f : f = CHOOSE w : w = body(w)
    OBVIOUS
<1>9. from_be_bytes(b) = f[Len(b)]
    BY <1>8, Zenon DEF from_be_bytes
<1>10. f = body(f)
    BY <1>7, <1>8, Zenon
<1>11. f[0] = 0 /\ \A i \in 1 .. size : f[i] = f[i - 1] * ByteBase + b[i]
    <2>1. 0 \in 0 .. size /\ \A i \in 1 .. size : i \in 0 .. size /\ i # 0
        OBVIOUS
    <2> QED BY <1>10, <2>1
<1>12. Alike(f, g, size)
    <2>1. GoOnAlike(f, g, size)
        BY <1>4, <1>6, <1>11 DEF GoOnAlike, Recursive
    <2> QED BY <2>1, Unique, Zenon
<1>13. from_be_bytes(b) = g[Len(b)]
    BY <1>9, <1>12 DEF Alike
<1>14. Values(g, b)
    BY <1>4, <1>6 DEF Values, Recursive
<1> QED BY <1>13, <1>14

\* A number is written with as many bytes as its type has.
LEMMA ToBytesFacts ==
    ASSUME NEW n \in Nat, NEW size \in Nat
    PROVE  /\ to_be_bytes(n, size) \in Seq(Byte)
           /\ Len(to_be_bytes(n, size)) = size
           /\ \A i \in 1 .. size :
                 to_be_bytes(n, size)[i] = Shifted(n, size)[size - i] % ByteBase
<1> PICK q : q = Shifted(n, size)
    OBVIOUS
<1> PICK b : b = to_be_bytes(n, size)
    OBVIOUS
<1>1. q \in [0 .. size -> Nat]
    BY ShiftedFacts DEF Quotients
<1>2. b = [i \in 1 .. size |-> q[size - i] % ByteBase]
    BY DEF to_be_bytes
<1>3. \A i \in 1 .. size : size - i \in 0 .. size /\ q[size - i] \in Nat
    BY <1>1
<1>4. \A v \in Nat : v % ByteBase \in Byte
    BY BytesAssumption DEF Byte
<1>5. b \in [1 .. size -> Byte]
    BY <1>2, <1>3, <1>4
<1>6. b \in Seq(Byte) /\ Len(b) = size
    <2>1. b \in Seq(Byte)
        BY <1>5, SeqDef
    <2> QED BY <1>5, <2>1, LenProperties
<1> QED BY <1>2, <1>6

\* What is written is read again, when the number fits its type ...
LEMMA RoundTrip ==
    ASSUME NEW n \in Nat, NEW size \in Nat, fits(n, size)
    PROVE  from_be_bytes(to_be_bytes(n, size)) = n
<1> PICK q : q = Shifted(n, size)
    OBVIOUS
<1> PICK b : b = to_be_bytes(n, size)
    OBVIOUS
<1>1. /\ q \in [0 .. size -> Nat] /\ q[0] = n /\ q[size] = 0
      /\ \A i \in 1 .. size : q[i] = q[i - 1] \div ByteBase
    <2>1. Quotients(q, n, size)
        BY ShiftedFacts, Zenon
    <2> QED BY <2>1 DEF fits, Quotients
<1>2. b \in Seq(Byte) /\ Len(b) = size /\ \A i \in 1 .. size : b[i] = q[size - i] % ByteBase
    BY ToBytesFacts
<1>3. PICK v \in [0 .. size -> Nat] :
          /\ v[0] = 0 /\ \A i \in 1 .. size : v[i] = v[i - 1] * ByteBase + b[i]
          /\ from_be_bytes(b) = v[size]
    BY <1>2, ValueFacts DEF Values
<1> DEFINE back == [i \in 0 .. size |-> q[size - i]]
<1>4. back[0] = v[0] /\ back[size] = n
    BY <1>1, <1>3
<1>5. ASSUME NEW i \in 1 .. size, v[i - 1] = back[i - 1]
      PROVE  v[i] = back[i]
    <2>1. PICK x \in Nat : x = q[size - i]
        BY <1>1
    <2>2. size - i + 1 \in 1 .. size /\ size - i + 1 - 1 = size - i
          /\ size - (i - 1) = size - i + 1 /\ i - 1 \in 0 .. size
        OBVIOUS
    <2>3. q[size - i + 1] = x \div ByteBase
        BY <1>1, <2>1, <2>2
    <2>4. v[i - 1] = x \div ByteBase
        BY <1>5, <2>2, <2>3
    <2>5. v[i] = (x \div ByteBase) * ByteBase + (x % ByteBase)
        BY <1>2, <1>3, <2>1, <2>4
    <2>6. (x \div ByteBase) * ByteBase + (x % ByteBase) = x
        BY BytesAssumption
    <2> QED BY <2>1, <2>5, <2>6
<1> HIDE DEF back
<1>6. v[size] = back[size]
    <2>1. GoOnAlike(v, back, size)
        BY <1>4, <1>5, Zenon DEF GoOnAlike
    <2>2. Alike(v, back, size)
        BY <2>1, Unique, Zenon
    <2> QED BY <2>2 DEF Alike
<1> QED BY <1>3, <1>4, <1>6

\* ... and a string of bytes is the only way to write its value.
LEMMA Canonical ==
    ASSUME NEW b \in Seq(Byte)
    PROVE  to_be_bytes(from_be_bytes(b), Len(b)) = b
<1> PICK size \in Nat : size = Len(b)
    BY LenProperties
<1>1. PICK v \in [0 .. size -> Nat] :
          /\ v[0] = 0 /\ \A i \in 1 .. size : v[i] = v[i - 1] * ByteBase + b[i]
          /\ from_be_bytes(b) = v[size]
    BY ValueFacts DEF Values
<1> PICK n \in Nat : n = v[size]
    BY <1>1
<1> PICK q : q = Shifted(n, size)
    OBVIOUS
<1>2. /\ q \in [0 .. size -> Nat] /\ q[0] = n
      /\ \A i \in 1 .. size : q[i] = q[i - 1] \div ByteBase
    <2>1. Quotients(q, n, size)
        BY ShiftedFacts, Zenon
    <2> QED BY <2>1 DEF Quotients
<1>3. \A i \in 1 .. size : b[i] \in Byte
    BY LenProperties
<1>4. ASSUME NEW x \in Nat, NEW d \in Byte
      PROVE  (x * ByteBase + d) \div ByteBase = x /\ (x * ByteBase + d) % ByteBase = d
    BY BytesAssumption DEF Byte
<1> DEFINE back == [i \in 0 .. size |-> v[size - i]]
<1>5. q[0] = back[0]
    BY <1>1, <1>2
<1>6. ASSUME NEW i \in 1 .. size, q[i - 1] = back[i - 1]
      PROVE  q[i] = back[i]
    <2>1. size - i + 1 \in 1 .. size /\ size - i + 1 - 1 = size - i
          /\ size - (i - 1) = size - i + 1 /\ i - 1 \in 0 .. size /\ size - i \in 0 .. size
        OBVIOUS
    <2>2. q[i - 1] = v[size - i + 1]
        BY <1>6, <2>1
    <2>3. v[size - i + 1] = v[size - i] * ByteBase + b[size - i + 1]
        BY <1>1, <2>1
    <2>4. v[size - i] \in Nat /\ b[size - i + 1] \in Byte
        BY <1>1, <1>3, <2>1
    <2>5. q[i] = v[size - i]
        BY <1>2, <1>4, <2>2, <2>3, <2>4
    <2> QED BY <2>5
<1>7. \A i \in 0 .. size : q[i] = back[i]
    <2> HIDE DEF back
    <2>1. GoOnAlike(q, back, size)
        BY <1>5, <1>6, Zenon DEF GoOnAlike
    <2>2. Alike(q, back, size)
        BY <2>1, Unique, Zenon
    <2> QED BY <2>2 DEF Alike
<1>8. \A i \in 1 .. size : q[size - i] % ByteBase = b[i]
    <2> SUFFICES ASSUME NEW i \in 1 .. size PROVE q[size - i] % ByteBase = b[i]
        OBVIOUS
    <2>1. size - i \in 0 .. size /\ size - (size - i) = i /\ i - 1 \in 0 .. size
        OBVIOUS
    <2>2. q[size - i] = v[i]
        BY <1>7, <2>1
    <2>3. v[i - 1] \in Nat /\ b[i] \in Byte /\ v[i] = v[i - 1] * ByteBase + b[i]
        BY <1>1, <1>3, <2>1
    <2> QED BY <1>4, <2>2, <2>3
<1>9. PICK c : c = to_be_bytes(n, size)
    OBVIOUS
<1>10. c \in Seq(Byte) /\ Len(c) = size /\ \A i \in 1 .. size : c[i] = b[i]
    BY <1>8, <1>9, ToBytesFacts
<1>11. c = b
    BY <1>10, SeqEqual
<1> QED BY <1>1, <1>9, <1>11

----------------------------------------------------------------------------
\* Sequences.

\* Sequences are put together and cut; the lemmas that follow say all that is
\* used of it.
Join(a, b) == a \o b
FirstOf(s, k) == SubSeq(s, 1, k)
RestOf(s, k) == SubSeq(s, k + 1, Len(s))

\* What is put together is a sequence, as long as the two ...
LEMMA JoinFacts ==
    ASSUME NEW S, NEW a \in Seq(S), NEW b \in Seq(S)
    PROVE  /\ Join(a, b) \in Seq(S) /\ Len(Join(a, b)) = Len(a) + Len(b)
           /\ Join(a, <<>>) = a /\ Join(<<>>, a) = a
           /\ \A i \in 1 .. Len(a) : Join(a, b)[i] = a[i]
<1>1. Join(a, b) \in Seq(S) /\ Len(Join(a, b)) = Len(a) + Len(b)
    BY ConcatProperties DEF Join
<1>2. Join(a, <<>>) = a /\ Join(<<>>, a) = a
    BY ConcatEmptySeq DEF Join
<1>3. ASSUME NEW i \in 1 .. Len(a)
      PROVE  Join(a, b)[i] = a[i]
    <2>1. Len(a) \in Nat /\ Len(b) \in Nat
        BY LenProperties
    <2>2. i \in 1 .. Len(a) + Len(b) /\ i <= Len(a)
        BY <2>1
    <2> QED BY <2>2, ConcatProperties DEF Join
<1> QED BY <1>1, <1>2, <1>3

\* ... and the parentheses do not matter.
LEMMA Associative ==
    ASSUME NEW S, NEW a \in Seq(S), NEW b \in Seq(S), NEW c \in Seq(S)
    PROVE  Join(Join(a, b), c) = Join(a, Join(b, c))
    BY ConcatAssociative, SMTT(30) DEF Join

\* A sequence is its first k elements and the others.
LEMMA PartsFacts ==
    ASSUME NEW S, NEW s \in Seq(S), NEW k \in 0 .. Len(s)
    PROVE  /\ FirstOf(s, k) \in Seq(S) /\ Len(FirstOf(s, k)) = k
           /\ RestOf(s, k) \in Seq(S) /\ Len(RestOf(s, k)) = Len(s) - k
           /\ Join(FirstOf(s, k), RestOf(s, k)) = s
<1> PICK n \in Nat : n = Len(s)
    BY LenProperties
<1>1. \A i \in 1 .. n : s[i] \in S
    BY ElementOfSeq
<1>2. SubSeq(s, 1, k) \in Seq(S) /\ Len(SubSeq(s, 1, k)) = k
    <2>1. 1 \in Int /\ k \in Int /\ k \in Nat /\ \A i \in 1 .. k : s[i] \in S
        BY <1>1
    <2>2. /\ SubSeq(s, 1, k) \in Seq(S)
          /\ Len(SubSeq(s, 1, k)) = IF 1 <= k THEN k - 1 + 1 ELSE 0
        BY <2>1, SubSeqProperties
    <2> QED BY <2>1, <2>2
<1>3. SubSeq(s, k + 1, n) \in Seq(S) /\ Len(SubSeq(s, k + 1, n)) = n - k
    <2>1. k + 1 \in Int /\ n \in Int /\ k \in Nat /\ k <= n /\ \A i \in k + 1 .. n : s[i] \in S
        BY <1>1
    <2>2. /\ SubSeq(s, k + 1, n) \in Seq(S)
          /\ Len(SubSeq(s, k + 1, n)) = IF k + 1 <= n THEN n - (k + 1) + 1 ELSE 0
        BY <2>1, SubSeqProperties
    <2> QED BY <2>1, <2>2
<1>4. SubSeq(s, 1, k) \o SubSeq(s, k + 1, n) = s
    <2>1. 1 \in 1 .. n + 1 /\ k \in 1 - 1 .. n /\ n \in k .. n
        OBVIOUS
    <2>2. SubSeq(s, 1, k) \o SubSeq(s, k + 1, n) = SubSeq(s, 1, n)
        BY <2>1, ConcatAdjacentSubSeq, Zenon
    <2> QED BY <2>2, SubSeqFull
<1> QED BY <1>2, <1>3, <1>4 DEF Join, FirstOf, RestOf

\* The parts can be told from each other by their length.
LEMMA SameLength ==
    ASSUME NEW S, NEW a \in Seq(S), NEW b \in Seq(S), NEW c \in Seq(S), NEW d \in Seq(S),
           Join(a, b) = Join(c, d), Len(a) = Len(c)
    PROVE  a = c /\ b = d
<1> PICK n \in Nat : n = Len(a) /\ n = Len(c)
    BY LenProperties
<1>1. a = c
    <2>1. \A i \in 1 .. Len(a) : Join(a, b)[i] = a[i]
        BY JoinFacts
    <2>2. \A i \in 1 .. Len(c) : Join(c, d)[i] = c[i]
        BY JoinFacts
    <2>3. \A i \in 1 .. n : a[i] = c[i]
        BY <2>1, <2>2
    <2> QED BY <2>3, SeqEqual
<1>2. b = d
    BY <1>1, ConcatSimplifications DEF Join
<1> QED BY <1>1, <1>2

\* The parts of what was put together.
LEMMA JoinParts ==
    ASSUME NEW S, NEW a \in Seq(S), NEW b \in Seq(S)
    PROVE  FirstOf(Join(a, b), Len(a)) = a /\ RestOf(Join(a, b), Len(a)) = b
<1> PICK s \in Seq(S) : s = Join(a, b)
    BY JoinFacts
<1>1. Len(a) \in Nat /\ Len(b) \in Nat /\ Len(s) = Len(a) + Len(b)
    BY JoinFacts, LenProperties
<1>2. Len(a) \in 0 .. Len(s)
    BY <1>1
<1>3. PICK x, y : x = FirstOf(s, Len(a)) /\ y = RestOf(s, Len(a))
    OBVIOUS
<1>4. x \in Seq(S) /\ y \in Seq(S) /\ Len(x) = Len(a) /\ Join(x, y) = Join(a, b)
    BY <1>2, <1>3, PartsFacts
<1>5. x = a /\ y = b
    BY <1>4, SameLength, Zenon
<1> QED BY <1>3, <1>5, Zenon

\* What is left of a when c is taken from it, and b follows.
LEMMA Split ==
    ASSUME NEW S, NEW a \in Seq(S), NEW b \in Seq(S), NEW c \in Seq(S), NEW d \in Seq(S),
           Join(a, b) = Join(c, d), Len(c) <= Len(a)
    PROVE  /\ RestOf(a, Len(c)) \in Seq(S)
           /\ a = Join(c, RestOf(a, Len(c))) /\ d = Join(RestOf(a, Len(c)), b)
<1>1. Len(a) \in Nat /\ Len(c) \in Nat
    BY LenProperties
<1>2. Len(c) \in 0 .. Len(a)
    BY <1>1
<1>3. PICK x, e : x = FirstOf(a, Len(c)) /\ e = RestOf(a, Len(c))
    OBVIOUS
<1>4. x \in Seq(S) /\ e \in Seq(S) /\ Len(x) = Len(c) /\ Join(x, e) = a
    BY <1>2, <1>3, PartsFacts
<1>5. Join(x, Join(e, b)) = Join(c, d)
    <2>1. Join(Join(x, e), b) = Join(x, Join(e, b))
        BY <1>4, Associative
    <2> QED BY <1>4, <2>1, Zenon
<1>6. Join(e, b) \in Seq(S)
    BY <1>4, JoinFacts, Zenon
<1>7. x = c /\ Join(e, b) = d
    BY <1>4, <1>5, <1>6, SameLength, Zenon
<1> QED BY <1>3, <1>4, <1>7, Zenon

\* g puts the first of some sequences together: all of them at Len(ss).
Together(g, ss, S) ==
    /\ g \in [0 .. Len(ss) -> Seq(S)] /\ g[0] = <<>>
    /\ \A i \in 1 .. Len(ss) : g[i] = Join(g[i - 1], ss[i])

\* Any sequences can be put together ...
LEMMA CanBeTogether ==
    ASSUME NEW S, NEW ss \in Seq(Seq(S))
    PROVE  \E g : Together(g, ss, S)
<1> PICK n \in Nat : n = Len(ss)
    BY LenProperties
<1> DEFINE part == [i \in Nat |-> IF i \in 1 .. n THEN ss[i] ELSE <<>>]
           next == [i \in Nat |-> [s \in Seq(S) |-> Join(s, part[i])]]
<1>1. part \in [Nat -> Seq(S)] /\ \A i \in 1 .. n : i \in Nat /\ part[i] = ss[i]
    <2>1. \A i \in 1 .. n : ss[i] \in Seq(S)
        BY ElementOfSeq
    <2>2. <<>> \in Seq(S)
        BY EmptySeq
    <2> QED BY <2>1, <2>2
<1> HIDE DEF part
<1>2. next \in [Nat -> [Seq(S) -> Seq(S)]]
    <2>1. ASSUME NEW i \in Nat, NEW s \in Seq(S)
          PROVE  Join(s, part[i]) \in Seq(S)
        <3>1. part[i] \in Seq(S)
            BY <1>1
        <3> QED BY <3>1, JoinFacts
    <2> QED BY <2>1
<1>3. PICK g \in [0 .. n -> Seq(S)] : Recursive(g, n, <<>>, next)
    <2> HIDE DEF next
    <2>1. <<>> \in Seq(S)
        BY EmptySeq
    <2> QED BY <1>2, <2>1, Recursion, Zenon
<1>4. ASSUME NEW i \in 1 .. n
      PROVE  g[i] = Join(g[i - 1], ss[i])
    <2>1. i - 1 \in 0 .. n
        OBVIOUS
    <2>2. PICK s \in Seq(S) : s = g[i - 1]
        BY <2>1
    <2>3. i \in Nat /\ part[i] = ss[i]
        BY <1>1
    <2>4. next[i][s] = Join(s, part[i])
        BY <2>3
    <2>5. g[i] = next[i][s]
        BY <1>3, <2>2 DEF Recursive
    <2> QED BY <2>2, <2>3, <2>4, <2>5
<1>5. Together(g, ss, S)
    BY <1>3, <1>4 DEF Together, Recursive
<1> QED BY <1>5

\* ... and this is what FlattenSeq does.
LEMMA FlattenIs ==
    ASSUME NEW S, NEW ss \in Seq(Seq(S)), NEW g, Together(g, ss, S)
    PROVE  FlattenSeq(ss) = g[Len(ss)]
<1> PICK n \in Nat : n = Len(ss)
    BY LenProperties
<1>1. CASE n = 0
    <2>1. ss = <<>>
        BY <1>1, EmptySeq
    <2>2. FlattenSeq(ss) = ss
        BY <1>1 DEF FlattenSeq
    <2> QED BY <1>1, <2>1, <2>2 DEF Together
<1>2. CASE n > 0
    <2> DEFINE body(f) == [i \in 1 .. Len(ss) |-> IF i = 1 THEN ss[i] ELSE f[i - 1] \o ss[i]]
               h == [i \in 1 .. n |-> g[i]]
    <2>1. /\ \A i \in 0 .. n : g[i] \in Seq(S)
          /\ g[0] = <<>> /\ \A i \in 1 .. n : g[i] = Join(g[i - 1], ss[i])
        BY DEF Together
    <2>2. g[1] = ss[1]
        <3>1. 1 \in 1 .. n /\ 1 - 1 = 0
            BY <1>2
        <3>2. ss[1] \in Seq(S) /\ g[1] = Join(<<>>, ss[1])
            BY <2>1, <3>1, ElementOfSeq
        <3> QED BY <3>2, JoinFacts
    <2>3. h = body(h)
        <3>1. ASSUME NEW i \in 1 .. n
              PROVE  h[i] = IF i = 1 THEN ss[i] ELSE h[i - 1] \o ss[i]
            <4>1. CASE i = 1
                BY <2>2, <4>1
            <4>2. CASE i # 1
                <5>1. i - 1 \in 1 .. n
                    BY <4>2
                <5> QED BY <2>1, <4>2, <5>1 DEF Join
            <4> QED BY <4>1, <4>2
        <3> QED BY <3>1
    <2>4. PICK f : f = CHOOSE w : w = body(w)
        OBVIOUS
    <2>5. f = body(f)
        BY <2>3, <2>4, Zenon
    <2>6. FlattenSeq(ss) = f[Len(ss)]
        <3>1. Len(ss) # 0
            BY <1>2
        <3> QED BY <2>4, <3>1, Zenon DEF FlattenSeq
    <2> DEFINE F == [i \in 0 .. n |-> IF i = 0 THEN <<>> ELSE f[i]]
    <2>7. GoOnAlike(F, g, n)
        <3>1. F[0] = g[0]
            BY <2>1
        <3>2. ASSUME NEW i \in 1 .. n, F[i - 1] = g[i - 1]
              PROVE  F[i] = g[i]
            <4>1. F[i] = f[i] /\ f[i] = IF i = 1 THEN ss[i] ELSE f[i - 1] \o ss[i]
                <5>1. i \in 0 .. n /\ i # 0 /\ i \in 1 .. Len(ss)
                    OBVIOUS
                <5>2. F[i] = f[i]
                    BY <5>1
                <5>3. f[i] = body(f)[i]
                    BY <2>5, Zenon
                <5>4. body(f)[i] = IF i = 1 THEN ss[i] ELSE f[i - 1] \o ss[i]
                    BY <5>1, Zenon
                <5> QED BY <5>2, <5>3, <5>4, Zenon
            <4>2. CASE i = 1
                BY <2>2, <4>1, <4>2
            <4>3. CASE i # 1
                <5>1. i - 1 \in 1 .. n /\ i - 1 \in 0 .. n /\ i - 1 # 0
                    BY <4>3
                <5>2. f[i - 1] = g[i - 1]
                    BY <3>2, <5>1
                <5> QED BY <2>1, <4>1, <4>3, <5>2 DEF Join
            <4> QED BY <4>2, <4>3
        <3> HIDE DEF F
        <3> QED BY <3>1, <3>2, Zenon DEF GoOnAlike
    <2>8. Alike(F, g, n)
        <3> HIDE DEF F
        <3> QED BY <2>7, Unique, Zenon
    <2>9. f[n] = g[n]
        <3>1. n \in 0 .. n /\ n # 0
            BY <1>2
        <3>2. F[n] = f[n]
            BY <3>1
        <3>3. F[n] = g[n]
            BY <2>8, <3>1, Zenon DEF Alike
        <3> QED BY <3>2, <3>3, Zenon
    <2> QED BY <2>6, <2>9
<1> QED BY <1>1, <1>2

\* FlattenSeq gives a sequence of the elements, and nothing for nothing ...
LEMMA FlattenFacts ==
    ASSUME NEW S, NEW ss \in Seq(Seq(S))
    PROVE  FlattenSeq(ss) \in Seq(S) /\ (Len(ss) = 0 => FlattenSeq(ss) = <<>>)
<1>1. PICK g : Together(g, ss, S)
    BY CanBeTogether
<1>2. FlattenSeq(ss) = g[Len(ss)]
    BY <1>1, FlattenIs
<1>3. Len(ss) \in 0 .. Len(ss)
    BY LenProperties
<1> QED BY <1>1, <1>2, <1>3 DEF Together

\* ... with one sequence more at the end it has that more at the end ...
LEMMA FlattenLast ==
    ASSUME NEW S, NEW ss \in Seq(Seq(S)), NEW x \in Seq(S)
    PROVE  FlattenSeq(Append(ss, x)) = Join(FlattenSeq(ss), x)
<1> PICK n \in Nat : n = Len(ss)
    BY LenProperties
<1>1. PICK g : Together(g, ss, S)
    BY CanBeTogether
<1>2. /\ \A i \in 0 .. n : g[i] \in Seq(S)
      /\ g[0] = <<>> /\ \A i \in 1 .. n : g[i] = Join(g[i - 1], ss[i])
    BY <1>1 DEF Together
<1>3. PICK tt : tt = Append(ss, x)
    OBVIOUS
<1>4. /\ tt \in Seq(Seq(S)) /\ Len(tt) = n + 1
      /\ tt[n + 1] = x /\ \A i \in 1 .. n : tt[i] = ss[i]
    BY <1>3, AppendProperties
<1> DEFINE h == [i \in 0 .. n + 1 |-> IF i = n + 1 THEN Join(g[n], x) ELSE g[i]]
<1>5. h \in [0 .. n + 1 -> Seq(S)]
    <2>1. Join(g[n], x) \in Seq(S)
        <3>1. g[n] \in Seq(S)
            BY <1>2
        <3> QED BY <3>1, JoinFacts
    <2>2. \A i \in 0 .. n + 1 : i = n + 1 \/ (i \in 0 .. n /\ i # n + 1)
        OBVIOUS
    <2>3. \A i \in 0 .. n + 1 : h[i] \in Seq(S)
        BY <1>2, <2>1, <2>2
    <2> QED BY <2>3
<1>6. h[0] = <<>> /\ h[n + 1] = Join(g[n], x)
    BY <1>2
<1>7. ASSUME NEW i \in 1 .. n + 1
      PROVE  h[i] = Join(h[i - 1], tt[i])
    <2>1. i - 1 \in 0 .. n /\ h[i - 1] = g[i - 1]
        OBVIOUS
    <2>2. CASE i = n + 1
        BY <1>4, <2>1, <2>2
    <2>3. CASE i # n + 1
        <3>1. i \in 1 .. n /\ h[i] = g[i]
            BY <2>3
        <3> QED BY <1>2, <1>4, <2>1, <3>1
    <2> QED BY <2>2, <2>3
<1> HIDE DEF h
<1>8. Together(h, tt, S)
    BY <1>4, <1>5, <1>6, <1>7 DEF Together
<1>9. FlattenSeq(tt) = h[n + 1] /\ FlattenSeq(ss) = g[n]
    BY <1>1, <1>4, <1>8, FlattenIs
<1> QED BY <1>3, <1>6, <1>9

\* ... and with one more at the beginning at the beginning.
LEMMA FlattenFirst ==
    ASSUME NEW S, NEW ss \in Seq(Seq(S)), NEW tt \in Seq(Seq(S)),
           Len(tt) = Len(ss) + 1, \A i \in 1 .. Len(ss) : tt[i + 1] = ss[i]
    PROVE  FlattenSeq(tt) = Join(tt[1], FlattenSeq(ss))
<1> PICK n \in Nat : n = Len(ss)
    BY LenProperties
<1>1. PICK g : Together(g, ss, S)
    BY CanBeTogether
<1>2. /\ \A i \in 0 .. n : g[i] \in Seq(S)
      /\ g[0] = <<>> /\ \A i \in 1 .. n : g[i] = Join(g[i - 1], ss[i])
    BY <1>1 DEF Together
<1>3. PICK x \in Seq(S) : x = tt[1]
    <2>1. 1 \in 1 .. Len(tt)
        OBVIOUS
    <2> QED BY <2>1, ElementOfSeq
<1> DEFINE h == [i \in 0 .. n + 1 |-> IF i = 0 THEN <<>> ELSE Join(x, g[i - 1])]
<1>4. ASSUME NEW i \in 1 .. n + 1
      PROVE  i - 1 \in 0 .. n /\ g[i - 1] \in Seq(S) /\ h[i] = Join(x, g[i - 1])
             /\ h[i] \in Seq(S)
    <2>1. i - 1 \in 0 .. n /\ i # 0 /\ i \in 0 .. n + 1
        OBVIOUS
    <2>2. g[i - 1] \in Seq(S)
        BY <1>2, <2>1
    <2>3. h[i] = Join(x, g[i - 1])
        BY <2>1
    <2> QED BY <2>1, <2>2, <2>3, JoinFacts
<1>5. h \in [0 .. n + 1 -> Seq(S)] /\ h[0] = <<>>
    <2>1. h[0] = <<>> /\ <<>> \in Seq(S)
        BY EmptySeq
    <2>2. \A i \in 0 .. n + 1 : i = 0 \/ i \in 1 .. n + 1
        OBVIOUS
    <2>3. \A i \in 0 .. n + 1 : h[i] \in Seq(S)
        BY <1>4, <2>1, <2>2
    <2> QED BY <2>1, <2>3
<1>6. h[1] = x
    <2>1. 1 \in 1 .. n + 1 /\ 1 - 1 = 0
        OBVIOUS
    <2>2. h[1] = Join(x, <<>>)
        BY <1>2, <1>4, <2>1
    <2> QED BY <2>2, JoinFacts
<1>7. ASSUME NEW i \in 1 .. n + 1
      PROVE  h[i] = Join(h[i - 1], tt[i])
    <2>1. CASE i = 1
        <3>1. h[i - 1] = <<>> /\ h[i] = x /\ tt[i] = x
            BY <1>3, <1>5, <1>6, <2>1
        <3> QED BY <3>1, JoinFacts
    <2>2. CASE i # 1
        <3>1. i - 1 \in 1 .. n /\ i - 1 \in 1 .. n + 1 /\ i - 1 + 1 = i /\ i - 1 - 1 \in 0 .. n
            BY <2>2
        <3>2. PICK p \in Seq(S) : p = g[i - 1 - 1]
            BY <1>2, <3>1
        <3>3. PICK y \in Seq(S) : y = ss[i - 1]
            BY <3>1, ElementOfSeq
        <3>4. g[i - 1] = Join(p, y) /\ tt[i] = y
            BY <1>2, <3>1, <3>2, <3>3
        <3>5. h[i] = Join(x, g[i - 1]) /\ h[i - 1] = Join(x, p)
            BY <1>4, <3>1, <3>2
        <3>6. Join(Join(x, p), y) = Join(x, Join(p, y))
            BY Associative
        <3> QED BY <3>4, <3>5, <3>6, Zenon
    <2> QED BY <2>1, <2>2
<1> HIDE DEF h
<1>8. Together(h, tt, S)
    BY <1>5, <1>7 DEF Together
<1>9. FlattenSeq(tt) = h[n + 1] /\ FlattenSeq(ss) = g[n]
    BY <1>1, <1>8, FlattenIs
<1>10. n + 1 \in 1 .. n + 1 /\ n + 1 - 1 = n
    OBVIOUS
<1>11. h[n + 1] = Join(x, g[n])
    BY <1>4, <1>10
<1> QED BY <1>3, <1>9, <1>11

----------------------------------------------------------------------------
\* TCP: the queue of a connection.

\* A queue as PendingWrites keeps it, and what it has still to write.
QueueOK(q) ==
    /\ q = [bytes |-> q.bytes, offset |-> q.offset]
    /\ q.bytes \in Seq(Byte) /\ Len(q.bytes) <= LIMIT /\ q.offset \in 0 .. Len(q.bytes)
Left(q) == RestOf(q.bytes, q.offset)

\* A flush writes the first of what is left, and leaves the rest.
LEMMA FlushFacts ==
    ASSUME NEW q, QueueOK(q), NEW k \in 0 .. pending_len(q)
    PROVE  /\ QueueOK(flush_to(q, k)) /\ Written(q, k) \in Seq(Byte)
           /\ Left(q) \in Seq(Byte) /\ Left(flush_to(q, k)) \in Seq(Byte)
           /\ Join(Written(q, k), Left(flush_to(q, k))) = Left(q)
<1> PICK b \in Seq(Byte), o \in Nat : b = q.bytes /\ o = q.offset /\ o <= Len(b) /\ Len(b) <= LIMIT
    <2>1. Len(q.bytes) \in Nat
        BY LenProperties DEF QueueOK
    <2> QED BY <2>1 DEF QueueOK
<1>0. k \in Nat /\ Len(b) \in Nat /\ o + k \in 0 .. Len(b) /\ o \in 0 .. Len(b)
    BY LenProperties DEF pending_len
<1>1. PICK l : l = Left(q) /\ l = RestOf(b, o)
    BY DEF Left
<1>2. l \in Seq(Byte) /\ Len(l) = Len(b) - o
    <2>1. RestOf(b, o) \in Seq(Byte) /\ Len(RestOf(b, o)) = Len(b) - o
        BY <1>0, PartsFacts, Zenon
    <2> QED BY <1>1, <2>1, Zenon
<1>3. PICK w, r : w = Written(q, k) /\ w = SubSeq(b, o + 1, o + k) /\ r = RestOf(b, o + k)
    BY DEF Written
<1>4. r \in Seq(Byte) /\ Len(r) = Len(b) - (o + k)
    BY <1>0, <1>3, PartsFacts
<1>5. w \in Seq(Byte)
    <2>1. o + 1 \in Int /\ o + k \in Int /\ \A i \in o + 1 .. o + k : i \in 1 .. Len(b)
        BY <1>0
    <2>2. \A i \in o + 1 .. o + k : b[i] \in Byte
        BY <2>1, ElementOfSeq
    <2> QED BY <1>3, <2>1, <2>2, SubSeqProperties
<1>6. Join(w, r) = l
    <2>1. PICK m, c, n : m = o + 1 /\ c = o + k /\ n = Len(b)
        OBVIOUS
    <2>2. m \in 1 .. Len(b) + 1 /\ c \in m - 1 .. Len(b) /\ n \in c .. Len(b)
        <3>1. PICK z \in Nat : z = Len(b) /\ o + k <= z /\ o <= z
            BY <1>0
        <3>2. m \in 1 .. z + 1 /\ c \in m - 1 .. z /\ z \in c .. z
            <4>1. k \in Nat /\ o \in Nat /\ o + k <= z
                BY <1>0, <3>1
            <4>2. o + 1 \in 1 .. z + 1 /\ o + k \in (o + 1) - 1 .. z /\ z \in o + k .. z
                BY <4>1, SMT
            <4> QED BY <2>1, <4>2, Zenon
        <3> QED BY <2>1, <3>1, <3>2, Zenon
    <2>3. SubSeq(b, m, c) \o SubSeq(b, c + 1, n) = SubSeq(b, m, n)
        BY <2>2, ConcatAdjacentSubSeq, Zenon
    <2> QED BY <1>1, <1>3, <2>1, <2>3 DEF Join, RestOf
<1>7. QueueOK(flush_to(q, k)) /\ Left(flush_to(q, k)) = r
    <2>1. CASE o + k = Len(b)
        <3>1. flush_to(q, k) = [bytes |-> <<>>, offset |-> 0]
            BY <2>1 DEF flush_to
        <3>2. <<>> \in Seq(Byte) /\ Len(<<>>) = 0
            BY EmptySeq
        <3>3. LIMIT \in Nat
            BY FramingAssumption
        <3>4. QueueOK([bytes |-> <<>>, offset |-> 0])
            BY <3>2, <3>3 DEF QueueOK
        <3>5. RestOf(<<>>, 0) = <<>>
            BY <3>2, SubSeqEmpty DEF RestOf
        <3>6. r = <<>>
            BY <1>0, <1>4, <2>1, EmptySeq
        <3> QED BY <3>1, <3>4, <3>5, <3>6 DEF Left
    <2>2. CASE o + k # Len(b)
        <3>1. flush_to(q, k) = [bytes |-> b, offset |-> o + k]
            BY <2>2 DEF flush_to, QueueOK
        <3>2. QueueOK([bytes |-> b, offset |-> o + k])
            BY <1>0 DEF QueueOK
        <3> QED BY <1>3, <3>1, <3>2 DEF Left
    <2> QED BY <2>1, <2>2
<1> QED BY <1>1, <1>2, <1>3, <1>4, <1>5, <1>6, <1>7

\* A frame is its length and itself.
LEMMA EncodedFacts ==
    ASSUME NEW f \in Seq(Byte)
    PROVE  /\ encoded(f) \in Seq(Byte) /\ Len(encoded(f)) = 2 + Len(f)
           /\ encoded(f) = Join(to_be_bytes(Len(f), 2), f)
<1>1. Len(f) \in Nat /\ 2 \in Nat
    BY LenProperties
<1>2. to_be_bytes(Len(f), 2) \in Seq(Byte) /\ Len(to_be_bytes(Len(f), 2)) = 2
    BY <1>1, ToBytesFacts
<1>3. encoded(f) = Join(to_be_bytes(Len(f), 2), f)
    BY DEF encoded, Join
<1>4. PICK t \in Seq(Byte) : t = to_be_bytes(Len(f), 2) /\ Len(t) = 2
    BY <1>2
<1>5. Join(t, f) \in Seq(Byte) /\ Len(Join(t, f)) = 2 + Len(f)
    <2>1. Join(t, f) \in Seq(Byte) /\ Len(Join(t, f)) = Len(t) + Len(f)
        BY JoinFacts, Zenon
    <2> QED BY <1>4, <2>1
<1> QED BY <1>3, <1>4, <1>5, Zenon

\* A frame that fits is put behind what is left.
LEMMA EnqueueFacts ==
    ASSUME NEW q, QueueOK(q), NEW f \in Seq(Byte), Fits(q, f)
    PROVE  /\ QueueOK(enqueue_frame(q, f))
           /\ Left(enqueue_frame(q, f)) = Join(Left(q), encoded(f))
<1> PICK b \in Seq(Byte), o \in Nat : b = q.bytes /\ o = q.offset /\ o <= Len(b) /\ Len(b) <= LIMIT
    <2>1. Len(q.bytes) \in Nat
        BY LenProperties DEF QueueOK
    <2> QED BY <2>1 DEF QueueOK
<1>1. Len(b) \in Nat /\ o \in 0 .. Len(b)
    BY LenProperties
<1>2. PICK l : l = Left(q) /\ l = RestOf(b, o)
    BY DEF Left
<1>3. l \in Seq(Byte) /\ Len(l) = Len(b) - o
    <2>1. RestOf(b, o) \in Seq(Byte) /\ Len(RestOf(b, o)) = Len(b) - o
        BY <1>1, PartsFacts, Zenon
    <2> QED BY <1>2, <2>1, Zenon
<1>4. PICK e : e = encoded(f) /\ e \in Seq(Byte)
    BY EncodedFacts
<1>5. PICK j \in Seq(Byte) : j = Join(l, e) /\ Len(j) = Len(l) + Len(e)
    BY <1>3, <1>4, JoinFacts
<1>6. Len(j) <= LIMIT
    BY <1>3, <1>4, <1>5 DEF Fits, pending_len
<1>7. enqueue_frame(q, f) = [bytes |-> j, offset |-> 0]
    <2>1. compact(q) = [bytes |-> l, offset |-> 0]
        BY <1>2 DEF compact, RestOf
    <2>2. enqueue_frame(q, f) = [compact(q) EXCEPT !.bytes = compact(q).bytes \o encoded(f)]
        BY DEF enqueue_frame
    <2>3. compact(q).bytes \o encoded(f) = j
        BY <1>4, <1>5, <2>1 DEF Join
    <2>4. enqueue_frame(q, f) = [[bytes |-> l, offset |-> 0] EXCEPT !.bytes = j]
        BY <2>1, <2>2, <2>3, Zenon
    <2> QED BY <2>4
<1>8. QueueOK([bytes |-> j, offset |-> 0])
    <2>1. Len(j) \in Nat
        BY LenProperties
    <2> QED BY <1>6, <2>1 DEF QueueOK
<1>9. RestOf(j, 0) = j
    BY SubSeqFull DEF RestOf
<1> QED BY <1>2, <1>4, <1>5, <1>7, <1>8, <1>9 DEF Left

----------------------------------------------------------------------------
\* The frames that are awaited.

\* The frames of a that come after the first n, as they are written.
Awaited(a, n) == [i \in 1 .. Len(a) - n |-> encoded(a[n + i])]

\* They are sequences of bytes ...
LEMMA AwaitedFacts ==
    ASSUME NEW a \in Seq(Payload), NEW n \in 0 .. Len(a)
    PROVE  /\ Awaited(a, n) \in Seq(Seq(Byte)) /\ Len(Awaited(a, n)) = Len(a) - n
           /\ \A i \in 1 .. Len(a) - n :
                 Awaited(a, n)[i] = encoded(a[n + i]) /\ a[n + i] \in Seq(Byte)
<1>1. PICK m \in Nat : m = Len(a) - n /\ Len(a) \in Nat /\ n \in Nat
    BY LenProperties
<1>2. PICK w : w = Awaited(a, n) /\ w = [i \in 1 .. m |-> encoded(a[n + i])]
    BY <1>1 DEF Awaited
<1>3. ASSUME NEW i \in 1 .. m
      PROVE  w[i] = encoded(a[n + i]) /\ a[n + i] \in Seq(Byte) /\ w[i] \in Seq(Byte)
    <2>1. n + i \in 1 .. Len(a)
        BY <1>1
    <2>2. a[n + i] \in Seq(Byte)
        BY <2>1, ElementOfSeq, FramingAssumption
    <2> QED BY <1>2, <2>2, EncodedFacts
<1>4. w \in [1 .. m -> Seq(Byte)]
    BY <1>2, <1>3
<1>5. w \in Seq(Seq(Byte))
    BY <1>4, SeqDef
<1>6. Len(w) = m
    BY <1>4, <1>5, LenProperties
<1> QED BY <1>1, <1>2, <1>3, <1>5, <1>6

\* ... one more when a frame is accepted ...
LEMMA AwaitedMore ==
    ASSUME NEW a \in Seq(Payload), NEW n \in 0 .. Len(a), NEW f \in Payload
    PROVE  FlattenSeq(Awaited(Append(a, f), n)) = Join(FlattenSeq(Awaited(a, n)), encoded(f))
<1>1. PICK c \in Seq(Payload) : c = Append(a, f)
    BY AppendProperties
<1>2. PICK l \in Nat : l = Len(a) /\ n \in Nat /\ n <= l
    BY LenProperties
<1>3. Len(c) = l + 1 /\ c[l + 1] = f /\ \A i \in 1 .. l : c[i] = a[i]
    BY <1>1, <1>2, AppendProperties
<1>4. n \in 0 .. Len(c)
    BY <1>2, <1>3
<1>5. PICK w \in Seq(Seq(Byte)), v \in Seq(Seq(Byte)) :
          /\ w = Awaited(a, n) /\ Len(w) = l - n
          /\ \A i \in 1 .. l - n : w[i] = encoded(a[n + i])
          /\ v = Awaited(c, n) /\ Len(v) = l + 1 - n
          /\ \A i \in 1 .. l + 1 - n : v[i] = encoded(c[n + i])
    <2>1. /\ Awaited(a, n) \in Seq(Seq(Byte)) /\ Len(Awaited(a, n)) = l - n
          /\ \A i \in 1 .. l - n : Awaited(a, n)[i] = encoded(a[n + i])
        BY <1>2, AwaitedFacts
    <2>2. /\ Awaited(c, n) \in Seq(Seq(Byte)) /\ Len(Awaited(c, n)) = l + 1 - n
          /\ \A i \in 1 .. l + 1 - n : Awaited(c, n)[i] = encoded(c[n + i])
        <3>1. /\ Awaited(c, n) \in Seq(Seq(Byte)) /\ Len(Awaited(c, n)) = Len(c) - n
              /\ \A i \in 1 .. Len(c) - n : Awaited(c, n)[i] = encoded(c[n + i])
            BY <1>4, AwaitedFacts, Zenon
        <3>2. Len(c) = l + 1
            BY <1>3
        <3> QED BY <3>1, <3>2
    <2> QED BY <2>1, <2>2
<1>6. PICK e \in Seq(Byte) : e = encoded(f)
    BY EncodedFacts, FramingAssumption
<1>7. PICK u \in Seq(Seq(Byte)) :
          /\ u = Append(w, e) /\ Len(u) = l - n + 1
          /\ u[l - n + 1] = e /\ \A i \in 1 .. l - n : u[i] = w[i]
    <2>1. PICK u : u = Append(w, e)
        OBVIOUS
    <2>2. /\ u \in Seq(Seq(Byte)) /\ Len(u) = Len(w) + 1
          /\ u[Len(w) + 1] = e /\ \A i \in 1 .. Len(w) : u[i] = w[i]
        BY <2>1, AppendProperties
    <2>3. Len(w) = l - n
        BY <1>5
    <2> QED BY <2>1, <2>2, <2>3, Zenon
<1>8. v = u
    <2>1. Len(v) = Len(u)
        BY <1>2, <1>5, <1>7
    <2>2. ASSUME NEW i \in 1 .. Len(v)
          PROVE  v[i] = u[i]
        <3>1. i \in 1 .. l + 1 - n
            BY <1>5
        <3>2. CASE i = l - n + 1
            <4>1. n + i = l + 1
                BY <1>2, <3>2
            <4> QED BY <1>3, <1>5, <1>6, <1>7, <3>1, <3>2, <4>1
        <3>3. CASE i # l - n + 1
            <4>1. i \in 1 .. l - n /\ n + i \in 1 .. l
                <5>0. l \in Nat /\ n \in Nat /\ n <= l
                    BY <1>2
                <5>1. PICK d \in Nat : d = l - n /\ l = n + d
                    BY <5>0
                <5>2. i \in 1 .. d + 1 /\ i # d + 1
                    BY <1>2, <3>1, <3>3, <5>1
                <5>3. i \in 1 .. d /\ n + i \in 1 .. n + d
                    BY <5>0, <5>2
                <5> QED BY <5>1, <5>3, Zenon
            <4> QED BY <1>3, <1>5, <1>7, <3>1, <4>1
        <3> QED BY <3>2, <3>3
    <2> QED BY <2>1, <2>2, SeqEqual
<1>9. FlattenSeq(u) = Join(FlattenSeq(w), e)
    BY <1>7, FlattenLast
<1> QED BY <1>1, <1>5, <1>6, <1>8, <1>9, Zenon

\* ... and one less when the first is delivered.
LEMMA AwaitedFewer ==
    ASSUME NEW a \in Seq(Payload), NEW n \in 0 .. Len(a), n # Len(a)
    PROVE  /\ n + 1 \in 0 .. Len(a) /\ FlattenSeq(Awaited(a, n + 1)) \in Seq(Byte)
           /\ FlattenSeq(Awaited(a, n)) = Join(encoded(a[n + 1]), FlattenSeq(Awaited(a, n + 1)))
<1>1. PICK l \in Nat : l = Len(a) /\ n \in Nat /\ n < l
    BY LenProperties
<1>2. PICK m \in 0 .. Len(a) : m = n + 1
    BY <1>1
<1>3. PICK w \in Seq(Seq(Byte)), v \in Seq(Seq(Byte)) :
          /\ w = Awaited(a, n) /\ Len(w) = l - n
          /\ \A i \in 1 .. l - n : w[i] = encoded(a[n + i])
          /\ v = Awaited(a, m) /\ Len(v) = l - m
          /\ \A i \in 1 .. l - m : v[i] = encoded(a[m + i])
    <2>1. /\ Awaited(a, n) \in Seq(Seq(Byte)) /\ Len(Awaited(a, n)) = l - n
          /\ \A i \in 1 .. l - n : Awaited(a, n)[i] = encoded(a[n + i])
        BY <1>1, AwaitedFacts
    <2>2. /\ Awaited(a, m) \in Seq(Seq(Byte)) /\ Len(Awaited(a, m)) = l - m
          /\ \A i \in 1 .. l - m : Awaited(a, m)[i] = encoded(a[m + i])
        BY <1>1, AwaitedFacts
    <2> QED BY <2>1, <2>2
<1>4. Len(w) = Len(v) + 1 /\ w[1] = encoded(a[m])
    <2>1. 1 \in 1 .. l - n /\ n + 1 = m
        BY <1>1, <1>2
    <2>2. l - n = l - m + 1
        BY <1>1, <1>2
    <2> QED BY <1>3, <2>1, <2>2
<1>5. ASSUME NEW i \in 1 .. Len(v)
      PROVE  w[i + 1] = v[i]
    <2>1. i \in 1 .. l - m /\ i + 1 \in 1 .. l - n /\ n + (i + 1) = m + i
        BY <1>1, <1>2, <1>3
    <2> QED BY <1>3, <2>1
<1>6. FlattenSeq(w) = Join(w[1], FlattenSeq(v))
    BY <1>4, <1>5, FlattenFirst
<1>7. FlattenSeq(v) \in Seq(Byte)
    BY FlattenFacts
<1> QED BY <1>2, <1>3, <1>4, <1>6, <1>7

\* The longest frame's length is written with two bytes.
LEMMA LengthFits ==
    ASSUME NEW n \in Nat, n <= U16MAX
    PROVE  fits(n, 2)
<1>1. PICK q : q = Shifted(n, 2)
    OBVIOUS
<1>2. Quotients(q, n, 2)
    <2>1. 2 \in Nat
        OBVIOUS
    <2> QED BY <1>1, <2>1, ShiftedFacts, Zenon
<1>3. q[0] = n /\ q[1] = q[1 - 1] \div ByteBase /\ q[2] = q[2 - 1] \div ByteBase
    BY <1>2 DEF Quotients
<1>4. q[2] = (n \div ByteBase) \div ByteBase
    BY <1>3
<1>5. (n \div ByteBase) \div ByteBase = 0
    BY BytesAssumption DEF U16MAX
<1> QED BY <1>1, <1>4, <1>5 DEF fits

\* When a frame is complete in the buffer it is the first that was accepted and
\* not delivered, and what is left of the buffer starts with the next one.
LEMMA Assembled ==
    ASSUME NEW a \in Seq(Payload), NEW n \in 0 .. Len(a),
           \A i \in 1 .. Len(a) : Len(a[i]) <= U16MAX,
           NEW b \in Seq(Byte), NEW r \in Seq(Byte),
           Join(b, r) = FlattenSeq(Awaited(a, n)), Complete(b)
    PROVE  /\ n + 1 \in 1 .. Len(a)
           /\ SubSeq(b, 3, 2 + frame_len(b)) = a[n + 1]
           /\ SubSeq(b, 3 + frame_len(b), Len(b)) \in Seq(Byte)
           /\ Join(SubSeq(b, 3 + frame_len(b), Len(b)), r) = FlattenSeq(Awaited(a, n + 1))
<1>1. Len(a) \in Nat /\ n \in Nat /\ Len(b) \in Nat /\ Len(r) \in Nat /\ Len(b) >= 2
    BY LenProperties DEF Complete
<1>2. n # Len(a)
    <2> SUFFICES ASSUME n = Len(a) PROVE FALSE
        OBVIOUS
    <2>1. Awaited(a, n) \in Seq(Seq(Byte)) /\ Len(Awaited(a, n)) = Len(a) - n
        BY AwaitedFacts, Zenon
    <2>2. Len(Awaited(a, n)) = 0
        BY <1>1, <2>1
    <2>3. Join(b, r) = <<>>
        BY <2>1, <2>2, FlattenFacts, Zenon
    <2>4. Len(Join(b, r)) = Len(b) + Len(r)
        BY JoinFacts, Zenon
    <2>5. Len(<<>>) = 0
        OBVIOUS
    <2>6. Len(b) + Len(r) = 0
        BY <2>3, <2>4, <2>5, Zenon
    <2> QED BY <1>1, <2>6
<1>3. n + 1 \in 1 .. Len(a)
    BY <1>1, <1>2
<1>4. PICK f \in Seq(Byte) : f = a[n + 1] /\ Len(f) <= U16MAX /\ Len(f) \in Nat
    <2>1. a[n + 1] \in Payload
        BY <1>3, ElementOfSeq
    <2> QED BY <1>3, <2>1, FramingAssumption, LenProperties
<1>5. PICK g \in Seq(Byte) : /\ g = FlattenSeq(Awaited(a, n + 1))
                             /\ Join(b, r) = Join(encoded(f), g)
    BY <1>2, <1>4, AwaitedFewer
<1>6. PICK t \in Seq(Byte) : t = to_be_bytes(Len(f), 2) /\ Len(t) = 2
    <2>1. 2 \in Nat
        OBVIOUS
    <2> QED BY <1>4, <2>1, ToBytesFacts, Zenon
<1>7. PICK e \in Seq(Byte) : e = encoded(f) /\ e = Join(t, f) /\ Len(e) = 2 + Len(f)
    BY <1>6, EncodedFacts
<1>8. SubSeq(b, 1, 2) = t
    <2>1. PICK h \in Seq(Byte) : h = Join(f, g)
        BY JoinFacts
    <2>2. Join(Join(t, f), g) = Join(t, Join(f, g))
        BY Associative
    <2>3. Join(b, r) = Join(t, h)
        BY <1>5, <1>7, <2>1, <2>2, Zenon
    <2>4. Len(t) <= Len(b)
        BY <1>1, <1>6
    <2>5. RestOf(b, Len(t)) \in Seq(Byte) /\ b = Join(t, RestOf(b, Len(t)))
        BY <2>3, <2>4, Split
    <2>6. FirstOf(b, Len(t)) = t
        BY <2>5, JoinParts, Zenon
    <2> QED BY <1>6, <2>6 DEF FirstOf
<1>9. PICK l \in Nat : l = Len(f) /\ frame_len(b) = l
    <2>1. fits(Len(f), 2)
        BY <1>4, LengthFits
    <2>2. from_be_bytes(t) = Len(f)
        <3>1. 2 \in Nat
            OBVIOUS
        <3> QED BY <1>4, <1>6, <2>1, <3>1, RoundTrip, Zenon
    <2> QED BY <1>4, <1>8, <2>2 DEF frame_len
<1>10. Len(e) <= Len(b) /\ Len(e) = 2 + l
    BY <1>7, <1>9 DEF Complete
<1>11. PICK d \in Seq(Byte) : d = RestOf(b, Len(e)) /\ b = Join(e, d) /\ g = Join(d, r)
    <2>1. Join(b, r) = Join(e, g)
        BY <1>5, <1>7
    <2>2. Len(e) <= Len(b)
        BY <1>10
    <2>3. /\ RestOf(b, Len(e)) \in Seq(Byte)
          /\ b = Join(e, RestOf(b, Len(e))) /\ g = Join(RestOf(b, Len(e)), r)
        BY <2>1, <2>2, Split
    <2> QED BY <2>3
<1>12. SubSeq(b, 3 + l, Len(b)) = d
    <2>1. 3 + l = Len(e) + 1
        BY <1>10
    <2> QED BY <1>11, <2>1 DEF RestOf
<1>13. SubSeq(b, 3, 2 + l) = f
    <2>1. FirstOf(b, Len(e)) = e
        BY <1>11, JoinParts, Zenon
    <2>2. SubSeq(b, 1, 2 + l) = Join(t, f)
        BY <1>7, <1>10, <2>1 DEF FirstOf
    <2>3. PICK one, two, k : one = 1 /\ two = 2 /\ k = 2 + l
        OBVIOUS
    <2>4. one \in 1 .. Len(b) + 1 /\ two \in one - 1 .. Len(b) /\ k \in two .. Len(b)
        BY <1>1, <1>10, <2>3
    <2>5. SubSeq(b, one, two) \o SubSeq(b, two + 1, k) = SubSeq(b, one, k)
        BY <2>4, ConcatAdjacentSubSeq, Zenon
    <2>6. PICK p : p = SubSeq(b, 3, k)
        OBVIOUS
    <2>7. Join(t, p) = Join(t, f)
        <3>1. two + 1 = 3
            BY <2>3
        <3>2. SubSeq(b, 1, 2) \o p = SubSeq(b, 1, 2 + l)
            BY <2>3, <2>5, <2>6, <3>1, Zenon
        <3> QED BY <1>8, <2>2, <3>2, Zenon DEF Join
    <2>8. p \in Seq(Byte)
        <3>1. 3 \in Int /\ k \in Int /\ \A i \in 3 .. k : i \in 1 .. Len(b)
            BY <1>1, <1>10, <2>3
        <3>2. \A i \in 3 .. k : b[i] \in Byte
            BY <3>1, ElementOfSeq
        <3> QED BY <2>6, <3>1, <3>2, SubSeqProperties
    <2>9. p = f
        BY <2>7, <2>8, SameLength, Zenon
    <2> QED BY <2>3, <2>6, <2>9
<1> QED BY <1>3, <1>4, <1>5, <1>9, <1>11, <1>12, <1>13

----------------------------------------------------------------------------
\* The stream.

\* The bytes from the reader's buffer to the writer's queue.
Stream == Join(Join(read_buf, wire), Left(Queue))

\* What makes StreamIntact inductive: only frames whose length can be written
\* were accepted, and no more were delivered than accepted.
FramingInv ==
    /\ QueueOK(Queue)
    /\ wire \in Seq(Byte) /\ read_buf \in Seq(Byte)
    /\ open \in BOOLEAN /\ closed \in BOOLEAN
    /\ accepted \in Seq(Payload) /\ delivered \in Seq(Payload)
    /\ Len(delivered) \in 0 .. Len(accepted)
    /\ \A i \in 1 .. Len(accepted) : Len(accepted[i]) <= U16MAX
    /\ open => Stream = FlattenSeq(Awaited(accepted, Len(delivered)))

\* The bytes are the same when some of them have been written ...
LEMMA Moved ==
    ASSUME NEW r \in Seq(Byte), NEW w \in Seq(Byte), NEW x \in Seq(Byte), NEW l \in Seq(Byte)
    PROVE  Join(Join(r, Join(w, x)), l) = Join(Join(r, w), Join(x, l))
<1>1. Join(w, x) \in Seq(Byte) /\ Join(x, l) \in Seq(Byte)
    BY JoinFacts
<1>2. Join(Join(r, Join(w, x)), l) = Join(r, Join(Join(w, x), l))
    BY <1>1, Associative
<1>3. Join(Join(w, x), l) = Join(w, Join(x, l))
    BY Associative
<1>4. Join(Join(r, w), Join(x, l)) = Join(r, Join(w, Join(x, l)))
    BY <1>1, Associative
<1> QED BY <1>2, <1>3, <1>4, Zenon

\* A flush of the queue keeps the stream.
LEMMA FlushKeepsStream ==
    ASSUME NEW q, QueueOK(q), NEW r \in Seq(Byte), NEW w \in Seq(Byte), NEW k \in Takes(q, w)
    PROVE  /\ QueueOK(flush_to(q, k)) /\ w \o Written(q, k) \in Seq(Byte)
           /\ Join(Join(r, w \o Written(q, k)), Left(flush_to(q, k))) = Join(Join(r, w), Left(q))
<1>1. k \in 0 .. pending_len(q)
    BY DEF Takes
<1>2. PICK x \in Seq(Byte), l \in Seq(Byte) :
          /\ x = Written(q, k) /\ l = Left(flush_to(q, k))
          /\ Join(x, l) = Left(q) /\ QueueOK(flush_to(q, k))
    BY <1>1, FlushFacts
<1>3. Join(w, x) \in Seq(Byte) /\ Join(w, x) = w \o x
    BY JoinFacts DEF Join
<1>4. Join(Join(r, Join(w, x)), l) = Join(Join(r, w), Join(x, l))
    BY Moved
<1> QED BY <1>2, <1>3, <1>4, Zenon

\* send_to on a connection: the stream gets the whole frame, or none of it.
LEMMA QueueFrameStep ==
    ASSUME FramingInv, queue_frame
    PROVE  FramingInv'
<1>1. PICK frame \in Payload, k \in Takes(Queue, wire) :
          LET flushed == flush_to(Queue, k)
              sent == wire \o Written(Queue, k)
              ok == Len(frame) <= U16MAX /\ Fits(flushed, frame)
              filled == IF Len(frame) <= U16MAX THEN enqueue_frame(flushed, frame) ELSE flushed
          IN  \/ /\ ok
                 /\ \E j \in Takes(filled, sent) :
                       /\ SetQueue(flush_to(filled, j))
                       /\ wire' = sent \o Written(filled, j)
                 /\ accepted' = Append(accepted, frame)
              \/ /\ ~ok
                 /\ SetQueue(filled)
                 /\ wire' = sent
                 /\ UNCHANGED accepted
    BY Zenon DEF queue_frame
<1>2. /\ open /\ UNCHANGED <<read_buf, closed, delivered, open>>
    BY DEF queue_frame
<1>3. PICK q, w : q = flush_to(Queue, k) /\ w = wire \o Written(Queue, k)
    OBVIOUS
<1>4. QueueOK(Queue) /\ wire \in Seq(Byte) /\ read_buf \in Seq(Byte)
      /\ Stream = FlattenSeq(Awaited(accepted, Len(delivered)))
    BY <1>2 DEF FramingInv
<1>5. QueueOK(q) /\ w \in Seq(Byte) /\ Join(Join(read_buf, w), Left(q)) = Stream
    BY <1>3, <1>4, FlushKeepsStream, Zenon DEF Stream
<1>6. frame \in Seq(Byte) /\ Left(q) \in Seq(Byte)
    <2>1. 0 \in 0 .. pending_len(q)
        BY <1>5, LenProperties DEF QueueOK, pending_len
    <2> QED BY <1>5, <2>1, FlushFacts, FramingAssumption
<1>7. ASSUME NEW p, QueueOK(p), SetQueue(p)
      PROVE  Queue' = p
    BY <1>7 DEF SetQueue, Queue, QueueOK
<1>8. CASE /\ Len(frame) <= U16MAX /\ Fits(q, frame)
           /\ \E j \in Takes(enqueue_frame(q, frame), w) :
                 /\ SetQueue(flush_to(enqueue_frame(q, frame), j))
                 /\ wire' = w \o Written(enqueue_frame(q, frame), j)
           /\ accepted' = Append(accepted, frame)
    <2>1. PICK p, e :
              /\ p = enqueue_frame(q, frame) /\ QueueOK(p)
              /\ e = encoded(frame) /\ e \in Seq(Byte)
              /\ Left(p) = Join(Left(q), e)
        <3>1. /\ QueueOK(enqueue_frame(q, frame))
              /\ Left(enqueue_frame(q, frame)) = Join(Left(q), encoded(frame))
            BY <1>5, <1>6, <1>8, EnqueueFacts, Zenon
        <3>2. encoded(frame) \in Seq(Byte)
            BY <1>6, EncodedFacts
        <3> QED BY <3>1, <3>2
    <2>2. PICK j \in Takes(p, w) : SetQueue(flush_to(p, j)) /\ wire' = w \o Written(p, j)
        BY <1>8, <2>1, Zenon
    <2>3. /\ QueueOK(flush_to(p, j)) /\ wire' \in Seq(Byte)
          /\ Join(Join(read_buf, wire'), Left(flush_to(p, j))) = Join(Join(read_buf, w), Left(p))
        <3>1. /\ QueueOK(flush_to(p, j)) /\ w \o Written(p, j) \in Seq(Byte)
              /\ Join(Join(read_buf, w \o Written(p, j)), Left(flush_to(p, j)))
                    = Join(Join(read_buf, w), Left(p))
            <4>1. QueueOK(p) /\ read_buf \in Seq(Byte) /\ w \in Seq(Byte)
                BY <1>4, <1>5, <2>1
            <4> QED BY <4>1, FlushKeepsStream, Zenon
        <3> QED BY <2>2, <3>1, Zenon
    <2>4. Queue' = flush_to(p, j)
        BY <1>7, <2>2, <2>3
    <2>5. Stream' = Join(Stream, e)
        <3>1. Join(read_buf, w) \in Seq(Byte)
            BY <1>4, <1>5, JoinFacts
        <3>2. Join(Join(Join(read_buf, w), Left(q)), e) = Join(Join(read_buf, w), Join(Left(q), e))
            BY <1>6, <2>1, <3>1, Associative
        <3>3. Stream' = Join(Join(read_buf, w), Left(p))
            BY <1>2, <2>3, <2>4, Zenon DEF Stream
        <3> QED BY <1>5, <2>1, <3>2, <3>3, Zenon
    <2>6. /\ accepted \in Seq(Payload) /\ Len(delivered) \in 0 .. Len(accepted)
          /\ \A i \in 1 .. Len(accepted) : Len(accepted[i]) <= U16MAX
        BY DEF FramingInv
    <2>7. Stream' = FlattenSeq(Awaited(accepted', Len(delivered)))
        BY <1>4, <1>8, <2>1, <2>5, <2>6, AwaitedMore, Zenon
    <2>8. /\ accepted' \in Seq(Payload) /\ Len(accepted') = Len(accepted) + 1
          /\ accepted'[Len(accepted) + 1] = frame
          /\ \A i \in 1 .. Len(accepted) : accepted'[i] = accepted[i]
        BY <1>8, <2>6, AppendProperties
    <2>9. Len(delivered) \in 0 .. Len(accepted') /\ \A i \in 1 .. Len(accepted') : Len(accepted'[i]) <= U16MAX
        <3>1. Len(accepted) \in Nat
            BY <2>6, LenProperties
        <3>2. \A i \in 1 .. Len(accepted') : i \in 1 .. Len(accepted) \/ i = Len(accepted) + 1
            BY <2>8, <3>1
        <3> QED BY <1>8, <2>6, <2>8, <3>1, <3>2
    <2>10. QueueOK(Queue')
        BY <2>3, <2>4, Zenon
    <2> QED BY <1>2, <1>4, <2>3, <2>7, <2>8, <2>9, <2>10 DEF FramingInv, QueueOK
<1>9. CASE /\ SetQueue(q) /\ wire' = w /\ UNCHANGED accepted
    <2>1. Queue' = q
        BY <1>5, <1>7, <1>9
    <2>2. Stream' = Stream
        BY <1>2, <1>5, <1>9, <2>1, Zenon DEF Stream
    <2> QED BY <1>2, <1>4, <1>5, <1>9, <2>1, <2>2 DEF FramingInv
<1>10. ASSUME ~(Len(frame) <= U16MAX /\ Fits(q, frame))
       PROVE  (IF Len(frame) <= U16MAX THEN enqueue_frame(q, frame) ELSE q) = q
    BY <1>10 DEF enqueue_frame
<1> QED BY <1>1, <1>3, <1>8, <1>9, <1>10, Zenon

\* The buffer b and the bytes r after it hold the frames after the first n.
Holds(a, n, b, r) ==
    /\ n \in 0 .. Len(a) /\ \A i \in 1 .. Len(a) : Len(a[i]) <= U16MAX
    /\ Join(b, r) = FlattenSeq(Awaited(a, n))
    /\ Complete(b)

\* The next frame is taken from the buffer, and the others stay.
Taken(a, n, b, r) ==
    /\ n + 1 \in 1 .. Len(a)
    /\ SubSeq(b, 3, 2 + frame_len(b)) = a[n + 1]
    /\ SubSeq(b, 3 + frame_len(b), Len(b)) \in Seq(Byte)
    /\ Join(SubSeq(b, 3 + frame_len(b), Len(b)), r) = FlattenSeq(Awaited(a, n + 1))

\* A complete frame at the front of the buffer is the next one.
LEMMA NextTaken ==
    ASSUME NEW a \in Seq(Payload), NEW n, NEW b \in Seq(Byte), NEW r \in Seq(Byte),
           Holds(a, n, b, r)
    PROVE  Taken(a, n, b, r)
<1>1. /\ n \in 0 .. Len(a) /\ \A i \in 1 .. Len(a) : Len(a[i]) <= U16MAX
      /\ Join(b, r) = FlattenSeq(Awaited(a, n)) /\ Complete(b)
    BY DEF Holds
<1>2. /\ n + 1 \in 1 .. Len(a)
      /\ SubSeq(b, 3, 2 + frame_len(b)) = a[n + 1]
      /\ SubSeq(b, 3 + frame_len(b), Len(b)) \in Seq(Byte)
      /\ Join(SubSeq(b, 3 + frame_len(b), Len(b)), r) = FlattenSeq(Awaited(a, n + 1))
    BY <1>1, Assembled, Zenon
<1> QED BY <1>2, Zenon DEF Taken

\* The receive loop flushes.
LEMMA FlushStep ==
    ASSUME FramingInv, Flush
    PROVE  FramingInv'
<1>1. PICK k \in Takes(Queue, wire) :
          SetQueue(flush_to(Queue, k)) /\ wire' = wire \o Written(Queue, k)
    BY Zenon DEF Flush
<1>2. open /\ UNCHANGED <<read_buf, closed, accepted, delivered, open>>
    BY DEF Flush
<1>3. QueueOK(Queue) /\ wire \in Seq(Byte) /\ read_buf \in Seq(Byte)
    BY DEF FramingInv
<1>4. /\ QueueOK(flush_to(Queue, k)) /\ wire \o Written(Queue, k) \in Seq(Byte)
      /\ Join(Join(read_buf, wire \o Written(Queue, k)), Left(flush_to(Queue, k))) = Stream
    BY <1>3, FlushKeepsStream, Zenon DEF Stream
<1>5. PICK p : p = flush_to(Queue, k) /\ QueueOK(p)
    BY <1>4
<1>6. Queue' = p
    BY <1>1, <1>5 DEF SetQueue, Queue, QueueOK
<1>7. Stream' = Stream
    BY <1>1, <1>2, <1>4, <1>5, <1>6, Zenon DEF Stream
<1>8. QueueOK(Queue') /\ wire' \in Seq(Byte)
    BY <1>1, <1>4, <1>5, <1>6, Zenon
<1> QED BY <1>2, <1>7, <1>8 DEF FramingInv

\* What a call of try_read_frame gives: nothing, and the bytes are kept, or the
\* next frame.
LEMMA ReadStep ==
    ASSUME FramingInv, try_read_frame
    PROVE  /\ FramingInv'
           /\ \/ UNCHANGED delivered
              \/ /\ Len(delivered) < Len(accepted)
                 /\ delivered' = Append(delivered, accepted[Len(delivered) + 1])
<1>1. PICK k \in 0 .. Len(wire) :
          LET buffer == read_buf \o SubSeq(wire, 1, k)
          IN  /\ wire' = SubSeq(wire, k + 1, Len(wire))
              /\ IF Complete(buffer)
                 THEN /\ delivered' = Append(delivered,
                                             SubSeq(buffer, 3, 2 + frame_len(buffer)))
                      /\ read_buf' = SubSeq(buffer, 3 + frame_len(buffer), Len(buffer))
                 ELSE read_buf' = buffer /\ UNCHANGED delivered
    BY Zenon DEF try_read_frame
<1>2. open /\ UNCHANGED <<bytes, offset, closed, accepted, open>>
    BY DEF try_read_frame
<1>3. PICK rb \in Seq(Byte), w \in Seq(Byte) : rb = read_buf /\ w = wire
    BY DEF FramingInv
<1>4. PICK x \in Seq(Byte), y \in Seq(Byte) :
          x = SubSeq(wire, 1, k) /\ y = wire' /\ Join(x, y) = w
    <2>1. FirstOf(w, k) \in Seq(Byte) /\ RestOf(w, k) \in Seq(Byte)
          /\ Join(FirstOf(w, k), RestOf(w, k)) = w
        <3>1. k \in 0 .. Len(w)
            BY <1>3
        <3> QED BY <3>1, PartsFacts, Zenon
    <2>2. FirstOf(w, k) = SubSeq(wire, 1, k) /\ RestOf(w, k) = wire'
        BY <1>1, <1>3, Zenon DEF FirstOf, RestOf
    <2> QED BY <2>1, <2>2
<1>5. PICK b \in Seq(Byte) : b = Join(rb, x) /\ b = read_buf \o SubSeq(wire, 1, k)
    <2>1. Join(rb, x) \in Seq(Byte)
        BY JoinFacts
    <2> QED BY <1>3, <1>4, <2>1, Zenon DEF Join
<1>6. PICK l \in Seq(Byte) : l = Left(Queue) /\ l = Left(Queue')
    <2>1. 0 \in 0 .. pending_len(Queue) /\ QueueOK(Queue)
        BY LenProperties DEF FramingInv, QueueOK, pending_len
    <2>2. Left(Queue) \in Seq(Byte)
        BY <2>1, FlushFacts
    <2>3. Queue' = Queue
        BY <1>2 DEF Queue
    <2> QED BY <2>2, <2>3
<1>7. PICK r \in Seq(Byte) : r = Join(y, l)
    BY JoinFacts
<1>8. Join(b, r) = Stream
    <2>1. Join(Join(rb, x), Join(y, l)) = Join(Join(rb, Join(x, y)), l)
        BY Moved
    <2> QED BY <1>3, <1>4, <1>5, <1>6, <1>7, <2>1, Zenon DEF Stream
<1>9. /\ accepted \in Seq(Payload) /\ delivered \in Seq(Payload)
      /\ Len(delivered) \in 0 .. Len(accepted)
      /\ \A i \in 1 .. Len(accepted) : Len(accepted[i]) <= U16MAX
      /\ Join(b, r) = FlattenSeq(Awaited(accepted, Len(delivered)))
    BY <1>2, <1>8 DEF FramingInv
<1>10. ASSUME NEW nb \in Seq(Byte), read_buf' = nb
       PROVE  Stream' = Join(nb, r)
    <2>1. Join(Join(nb, y), l) = Join(nb, Join(y, l))
        BY Associative
    <2> QED BY <1>4, <1>6, <1>7, <1>10, <2>1, Zenon DEF Stream
<1>11. QueueOK(Queue') /\ wire' \in Seq(Byte) /\ accepted' = accepted /\ closed' \in BOOLEAN /\ open'
    BY <1>2, <1>4 DEF FramingInv, Queue
<1>12. CASE Complete(b)
    <2>1. /\ Len(delivered) + 1 \in 1 .. Len(accepted)
          /\ SubSeq(b, 3, 2 + frame_len(b)) = accepted[Len(delivered) + 1]
          /\ SubSeq(b, 3 + frame_len(b), Len(b)) \in Seq(Byte)
          /\ Join(SubSeq(b, 3 + frame_len(b), Len(b)), r)
                = FlattenSeq(Awaited(accepted, Len(delivered) + 1))
        <3>1. Holds(accepted, Len(delivered), b, r)
            BY <1>9, <1>12, Zenon DEF Holds
        <3>2. Taken(accepted, Len(delivered), b, r)
            BY <1>9, <3>1, NextTaken, Zenon
        <3> QED BY <3>2, Zenon DEF Taken
    <2>2. /\ delivered' = Append(delivered, SubSeq(b, 3, 2 + frame_len(b)))
          /\ read_buf' = SubSeq(b, 3 + frame_len(b), Len(b))
        BY <1>1, <1>5, <1>12, Zenon
    <2>3. delivered' = Append(delivered, accepted[Len(delivered) + 1])
        BY <2>1, <2>2, Zenon
    <2>4. accepted[Len(delivered) + 1] \in Payload
        BY <1>9, <2>1, ElementOfSeq
    <2>5. delivered' \in Seq(Payload) /\ Len(delivered') = Len(delivered) + 1
        BY <1>9, <2>3, <2>4, AppendProperties
    <2>6. Len(delivered) \in Nat /\ Len(accepted) \in Nat
        BY <1>9, LenProperties
    <2>7. Len(delivered) < Len(accepted) /\ Len(delivered') \in 0 .. Len(accepted)
        BY <2>1, <2>5, <2>6
    <2>8. read_buf' \in Seq(Byte) /\ Stream' = Join(read_buf', r)
        BY <1>10, <2>1, <2>2, Zenon
    <2>9. Stream' = FlattenSeq(Awaited(accepted', Len(delivered')))
        BY <1>11, <2>1, <2>2, <2>5, <2>8, Zenon
    <2>10. FramingInv'
        BY <1>2, <1>9, <1>11, <2>5, <2>7, <2>8, <2>9 DEF FramingInv
    <2> QED BY <2>3, <2>7, <2>10
<1>13. CASE ~Complete(b)
    <2>1. read_buf' = b /\ UNCHANGED delivered
        BY <1>1, <1>5, <1>13, Zenon
    <2>2. read_buf' \in Seq(Byte) /\ Stream' = Join(b, r)
        BY <1>10, <2>1, Zenon
    <2>3. FramingInv'
        BY <1>2, <1>9, <1>11, <2>1, <2>2 DEF FramingInv
    <2> QED BY <2>1, <2>3
<1> QED BY <1>12, <1>13

\* Nothing is sent at the start.
LEMMA FramingStart == FramingInit => FramingInv
<1> SUFFICES ASSUME FramingInit PROVE FramingInv
    OBVIOUS
<1>1. <<>> \in Seq(Byte) /\ <<>> \in Seq(Payload) /\ Len(<<>>) = 0
    OBVIOUS
<1>2. /\ bytes = <<>> /\ offset = 0 /\ wire = <<>> /\ read_buf = <<>>
      /\ accepted = <<>> /\ delivered = <<>> /\ open = TRUE /\ closed = FALSE
    BY DEF FramingInit
<1>3. QueueOK(Queue) /\ Left(Queue) = <<>>
    <2>1. QueueOK(Queue)
        BY <1>1, <1>2, FramingAssumption DEF QueueOK, Queue
    <2>2. Left(Queue) = SubSeq(<<>>, 0 + 1, Len(<<>>))
        BY <1>2 DEF Left, RestOf, Queue
    <2> QED BY <2>1, <2>2
<1>4. Stream = <<>>
    <2>1. Join(<<>>, <<>>) = <<>>
        BY <1>1, JoinFacts
    <2> QED BY <1>2, <1>3, <2>1 DEF Stream
<1>5. FlattenSeq(Awaited(accepted, Len(delivered))) = <<>>
    <2>1. accepted \in Seq(Payload) /\ Len(delivered) \in 0 .. Len(accepted)
          /\ Len(accepted) - Len(delivered) = 0
        BY <1>1, <1>2
    <2>2. PICK w : w = Awaited(accepted, Len(delivered)) /\ w \in Seq(Seq(Byte)) /\ Len(w) = 0
        BY <2>1, AwaitedFacts
    <2> QED BY <2>2, FlattenFacts
<1>6. Len(delivered) \in 0 .. Len(accepted) /\ \A i \in 1 .. Len(accepted) : Len(accepted[i]) <= U16MAX
    BY <1>1, <1>2
<1> QED BY <1>1, <1>2, <1>3, <1>4, <1>5, <1>6 DEF FramingInv

\* Every step of the two ends keeps the stream.
LEMMA FramingStep == FramingInv /\ [FramingNext]_framingVars => FramingInv'
<1> SUFFICES ASSUME FramingInv, [FramingNext]_framingVars PROVE FramingInv'
    OBVIOUS
<1>1. ASSUME UNCHANGED <<bytes, offset, accepted, delivered>>,
             wire' \in Seq(Byte), read_buf' \in Seq(Byte), open' \in BOOLEAN, closed' \in BOOLEAN,
             open' => UNCHANGED <<wire, read_buf>> /\ open
      PROVE  FramingInv'
    <2>1. Queue' = Queue
        BY <1>1 DEF Queue
    <2>2. ASSUME open' PROVE Stream' = Stream
        BY <1>1, <2>1, <2>2 DEF Stream
    <2>3. Awaited(accepted, Len(delivered))' = Awaited(accepted, Len(delivered))
        BY <1>1
    <2> QED BY <1>1, <2>1, <2>2, <2>3 DEF FramingInv
<1>2. wire \in Seq(Byte) /\ read_buf \in Seq(Byte) /\ open \in BOOLEAN /\ closed \in BOOLEAN
      /\ <<>> \in Seq(Byte)
    BY DEF FramingInv
<1>3. CASE UNCHANGED framingVars
    BY <1>1, <1>2, <1>3 DEF framingVars
<1>4. CASE Close
    BY <1>1, <1>2, <1>4 DEF Close
<1>5. CASE EndOfStream
    BY <1>1, <1>2, <1>5 DEF EndOfStream
<1> QED BY <1>3, <1>4, <1>5, QueueFrameStep, FlushStep, ReadStep DEF FramingNext

\* The invariant holds on every behaviour of the two ends.
LEMMA FramingInvariant == FramingSpec => []FramingInv
<1> QED BY FramingStart, FramingStep, PTL DEF FramingSpec

\* What is read, on the wire and pending is the encoding of the frames accepted
\* and not delivered, wherever a write, a flush or a read of tcp_transport.rs
\* stops, for frames of any bytes, any limit and any capacity of the kernel's
\* buffers; and the queue of PendingWrites stays below its limit.
THEOREM StreamStaysIntact == FramingSpec => []StreamIntact
<1>1. FramingInv => StreamIntact
    <2> SUFFICES ASSUME FramingInv PROVE StreamIntact
        OBVIOUS
    <2>1. QueueBounded
        BY LenProperties DEF FramingInv, QueueOK, Queue, QueueBounded
    <2>2. ASSUME open PROVE Stream = FlattenSeq(Awaited(accepted, Len(delivered)))
        BY <2>2 DEF FramingInv
    <2>3. Stream = read_buf \o wire \o Unsent
        BY Zenon DEF Stream, Join, Left, RestOf, Queue, Unsent
    <2>4. StreamFramed
        BY <2>2, <2>3, Zenon DEF StreamFramed, Awaited
    <2> QED BY <2>1, <2>4 DEF StreamIntact
<1> QED BY FramingInvariant, <1>1, PTL

\* The safety of the channel of frames that a connection promises.
ChannelSafety == Channel!ChannelInit /\ [][Channel!ChannelNext]_(Channel!channelVars)

\* A connection of tcp_transport.rs implements the channel of frames: every step
\* of the two ends accepts a frame, delivers the next one whole, breaks the
\* connection, or is not seen.  (That the frames arrive at last is left to the
\* run, which checks ImplementsChannel with its fairness.)
THEOREM FramesAreDelivered == FramingSpec => ChannelSafety
<1>1. FramingInit => Channel!ChannelInit
    BY DEF FramingInit, Channel!ChannelInit
<1>2. FramingInv /\ [FramingNext]_framingVars => [Channel!ChannelNext]_(Channel!channelVars)
    <2> SUFFICES ASSUME FramingInv, [FramingNext]_framingVars
                 PROVE  [Channel!ChannelNext]_(Channel!channelVars)
        OBVIOUS
    <2>1. CASE UNCHANGED framingVars \/ Flush \/ Close
        BY <2>1 DEF framingVars, Flush, Close, Channel!channelVars
    <2>2. CASE queue_frame
        <3>1. open /\ ~closed /\ Len(accepted) < MaxAccepted /\ UNCHANGED <<closed, delivered, open>>
            BY <2>2 DEF queue_frame
        <3>2. UNCHANGED accepted \/ \E frame \in Payload : accepted' = Append(accepted, frame)
            BY <2>2, Zenon DEF queue_frame
        <3> QED BY <3>1, <3>2 DEF Channel!ChannelNext, Channel!Accept, Channel!channelVars
    <2>3. CASE try_read_frame
        <3>1. open /\ UNCHANGED <<closed, accepted, open>>
            BY <2>3 DEF try_read_frame
        <3> QED BY <2>3, <3>1, ReadStep DEF Channel!ChannelNext, Channel!Deliver, Channel!channelVars
    <2>4. CASE EndOfStream
        BY <2>4 DEF EndOfStream, Channel!ChannelNext, Channel!Break
    <2> QED BY <2>1, <2>2, <2>3, <2>4 DEF FramingNext
<1> QED BY FramingInvariant, <1>1, <1>2, PTL DEF FramingSpec, ChannelSafety

----------------------------------------------------------------------------
\* The packet format.

\* The first n elements are the first k and the ones between.
LEMMA Between ==
    ASSUME NEW S, NEW s \in Seq(S), NEW n \in 0 .. Len(s), NEW k \in 0 .. n
    PROVE  /\ SubSeq(s, k + 1, n) \in Seq(S) /\ Len(SubSeq(s, k + 1, n)) = n - k
           /\ Join(FirstOf(s, k), SubSeq(s, k + 1, n)) = FirstOf(s, n)
<1> PICK l \in Nat : l = Len(s)
    BY LenProperties
<1>1. \A i \in 1 .. l : s[i] \in S
    BY ElementOfSeq
<1>2. /\ k + 1 \in Int /\ n \in Int /\ n \in Nat /\ k \in Nat /\ k <= n /\ n <= l
      /\ \A i \in k + 1 .. n : s[i] \in S
    BY <1>1
<1>3. /\ SubSeq(s, k + 1, n) \in Seq(S)
      /\ Len(SubSeq(s, k + 1, n)) = IF k + 1 <= n THEN n - (k + 1) + 1 ELSE 0
    BY <1>2, SubSeqProperties
<1>4. Len(SubSeq(s, k + 1, n)) = n - k
    BY <1>2, <1>3
<1>5. 1 \in 1 .. l + 1 /\ k \in 1 - 1 .. l /\ n \in k .. l
    BY <1>2
<1>6. SubSeq(s, 1, k) \o SubSeq(s, k + 1, n) = SubSeq(s, 1, n)
    BY <1>5, ConcatAdjacentSubSeq, Zenon
<1> QED BY <1>3, <1>4, <1>6 DEF Join, FirstOf

\* The sizes of the headers.
LEMMA Sizes ==
    /\ SESSION_ID_SIZE \in Nat /\ COUNTER_SIZE \in Nat /\ TAG_SIZE \in Nat
    /\ HANDSHAKE_HEADER_SIZE = 2 + SESSION_ID_SIZE
    /\ TRANSPORT_HEADER_SIZE = HANDSHAKE_HEADER_SIZE + COUNTER_SIZE
    /\ MIN_TRANSPORT_PACKET_SIZE = TRANSPORT_HEADER_SIZE + 1 + TAG_SIZE
    /\ {0, 1, 2, 3} \subseteq Byte
<1>1. /\ SESSION_ID_SIZE \in Nat /\ COUNTER_SIZE \in Nat /\ TAG_SIZE \in Nat
      /\ ByteBase \in Nat /\ ByteBase >= 4
    BY WireAssumption, BytesAssumption
<1> QED BY <1>1 DEF HANDSHAKE_HEADER_SIZE, TRANSPORT_HEADER_SIZE, MIN_TRANSPORT_PACKET_SIZE, Byte

\* The header of a packet: the version, the kind and the session id.
LEMMA HeaderRead ==
    ASSUME NEW e \in Seq(Byte), Len(e) >= HANDSHAKE_HEADER_SIZE
    PROVE  /\ SubSeq(e, 3, HANDSHAKE_HEADER_SIZE) \in Seq(Byte)
           /\ e[1] \in Byte /\ e[2] \in Byte
           /\ FirstOf(e, HANDSHAKE_HEADER_SIZE)
                 = Join(<<e[1], e[2]>>, SubSeq(e, 3, HANDSHAKE_HEADER_SIZE))
<1> PICK l \in Nat, n \in Nat : l = Len(e) /\ n = HANDSHAKE_HEADER_SIZE /\ 2 <= n /\ n <= l
    <2>1. Len(e) \in Nat /\ HANDSHAKE_HEADER_SIZE \in Nat /\ 2 <= HANDSHAKE_HEADER_SIZE
        BY Sizes, LenProperties
    <2> QED BY <2>1
<1>1. n \in 0 .. Len(e) /\ 2 \in 0 .. n /\ 2 \in 0 .. Len(e) /\ 1 \in 1 .. Len(e) /\ 2 \in 1 .. Len(e)
    OBVIOUS
<1>2. SubSeq(e, 2 + 1, n) \in Seq(Byte) /\ Join(FirstOf(e, 2), SubSeq(e, 2 + 1, n)) = FirstOf(e, n)
    BY <1>1, Between
<1>3. FirstOf(e, 2) = <<e[1], e[2]>>
    <2>1. /\ SubSeq(e, 1, 2) \in Seq(Byte) /\ Len(SubSeq(e, 1, 2)) = 2
          /\ SubSeq(e, 1, 2)[1] = e[1] /\ SubSeq(e, 1, 2)[2] = e[2]
        <3>1. 1 \in Int /\ 2 \in Int /\ \A i \in 1 .. 2 : i \in 1 .. Len(e)
            OBVIOUS
        <3>2. \A i \in 1 .. 2 : e[i] \in Byte
            BY <3>1, ElementOfSeq
        <3>3. /\ SubSeq(e, 1, 2) \in Seq(Byte)
              /\ Len(SubSeq(e, 1, 2)) = IF 1 <= 2 THEN 2 - 1 + 1 ELSE 0
              /\ \A i \in 1 .. 2 - 1 + 1 : SubSeq(e, 1, 2)[i] = e[1 + i - 1]
            BY <3>1, <3>2, SubSeqProperties
        <3> QED BY <3>3
    <2>2. PICK s \in Seq(Byte) : s = FirstOf(e, 2) /\ Len(s) = 2 /\ s[1] = e[1] /\ s[2] = e[2]
        BY <2>1 DEF FirstOf
    <2>3. s = <<s[1], s[2]>>
        BY <2>2
    <2> QED BY <2>2, <2>3, Zenon
<1>4. e[1] \in Byte /\ e[2] \in Byte
    BY <1>1, ElementOfSeq
<1>5. 2 + 1 = 3
    OBVIOUS
<1> QED BY <1>2, <1>3, <1>4, <1>5, Zenon

\* The header of a transport packet: the counter follows.
LEMMA CounterRead ==
    ASSUME NEW e \in Seq(Byte), Len(e) >= TRANSPORT_HEADER_SIZE
    PROVE  LET c == SubSeq(e, HANDSHAKE_HEADER_SIZE + 1, TRANSPORT_HEADER_SIZE)
           IN  /\ c \in Seq(Byte) /\ Len(c) = COUNTER_SIZE
               /\ FirstOf(e, TRANSPORT_HEADER_SIZE) = Join(FirstOf(e, HANDSHAKE_HEADER_SIZE), c)
<1> PICK h \in Nat, t \in Nat :
        h = HANDSHAKE_HEADER_SIZE /\ t = TRANSPORT_HEADER_SIZE /\ t = h + COUNTER_SIZE
    BY Sizes
<1>1. t \in 0 .. Len(e) /\ h \in 0 .. t /\ t - h = COUNTER_SIZE
    BY Sizes, LenProperties
<1>2. SubSeq(e, h + 1, t) \in Seq(Byte) /\ Len(SubSeq(e, h + 1, t)) = t - h
      /\ Join(FirstOf(e, h), SubSeq(e, h + 1, t)) = FirstOf(e, t)
    BY <1>1, Between, Zenon
<1> QED BY <1>1, <1>2, Zenon

\* What encode writes, in parts.
LEMMA EncodeIs ==
    ASSUME NEW p
    PROVE  encode(p) = Join(Join(Join(<<WIRE_VERSION, p.kind>>, p.id),
                                 IF p.kind = Transport THEN to_be_bytes(p.counter, COUNTER_SIZE)
                                 ELSE <<>>), p.rest)
    BY Zenon DEF encode, Join

\* What follows the same is the same.
LEMMA SameRest ==
    ASSUME NEW S, NEW a \in Seq(S), NEW b \in Seq(S), NEW c \in Seq(S), Join(a, b) = Join(a, c)
    PROVE  b = c
    BY ConcatSimplifications DEF Join

\* A header, and r behind it.
Headed(v, kind, id, r) == Join(Join(<<v, kind>>, id), r)

\* ... and what is read of it.
HeaderIs(e, v, kind, id, r) ==
    /\ e \in Seq(Byte) /\ Len(e) = HANDSHAKE_HEADER_SIZE + Len(r)
    /\ e[1] = v /\ e[2] = kind /\ SubSeq(e, 3, HANDSHAKE_HEADER_SIZE) = id
    /\ FirstOf(e, HANDSHAKE_HEADER_SIZE) = Join(<<v, kind>>, id)
    /\ RestOf(e, HANDSHAKE_HEADER_SIZE) = r

\* What is encoded starts with the version, the kind and the session id.
LEMMA HeaderWritten ==
    ASSUME NEW v \in Byte, NEW kind \in Byte, NEW id \in Seq(Byte), Len(id) = SESSION_ID_SIZE,
           NEW r \in Seq(Byte)
    PROVE  HeaderIs(Headed(v, kind, id, r), v, kind, id, r)
<1>0. PICK e : e = Headed(v, kind, id, r)
    OBVIOUS
<1>1. <<v, kind>> \in Seq(Byte) /\ Len(<<v, kind>>) = 2
    OBVIOUS
<1>2. PICK h \in Seq(Byte) : h = Join(<<v, kind>>, id) /\ Len(h) = HANDSHAKE_HEADER_SIZE
    <2>1. PICK x \in Seq(Byte) : x = <<v, kind>> /\ Len(x) = 2
        BY <1>1
    <2>2. Join(x, id) \in Seq(Byte) /\ Len(Join(x, id)) = 2 + SESSION_ID_SIZE
        <3>1. Join(x, id) \in Seq(Byte) /\ Len(Join(x, id)) = Len(x) + Len(id)
            BY JoinFacts
        <3> QED BY <2>1, <3>1
    <2> QED BY <2>1, <2>2, Sizes
<1>3. e \in Seq(Byte) /\ Len(e) = HANDSHAKE_HEADER_SIZE + Len(r)
    <2>1. Join(h, r) \in Seq(Byte) /\ Len(Join(h, r)) = Len(h) + Len(r)
        BY JoinFacts
    <2> QED BY <1>0, <1>2, <2>1, Zenon DEF Headed
<1>4. FirstOf(e, HANDSHAKE_HEADER_SIZE) = h /\ RestOf(e, HANDSHAKE_HEADER_SIZE) = r
    <2>1. FirstOf(Join(h, r), Len(h)) = h /\ RestOf(Join(h, r), Len(h)) = r
        BY JoinParts
    <2> QED BY <1>0, <1>2, <2>1, Zenon DEF Headed
<1>5. Len(e) >= HANDSHAKE_HEADER_SIZE
    BY <1>3, Sizes, LenProperties
<1>6. /\ SubSeq(e, 3, HANDSHAKE_HEADER_SIZE) \in Seq(Byte) /\ e[1] \in Byte /\ e[2] \in Byte
      /\ Join(<<e[1], e[2]>>, SubSeq(e, 3, HANDSHAKE_HEADER_SIZE)) = Join(<<v, kind>>, id)
    <2>1. /\ SubSeq(e, 3, HANDSHAKE_HEADER_SIZE) \in Seq(Byte) /\ e[1] \in Byte /\ e[2] \in Byte
          /\ FirstOf(e, HANDSHAKE_HEADER_SIZE)
                = Join(<<e[1], e[2]>>, SubSeq(e, 3, HANDSHAKE_HEADER_SIZE))
        BY <1>3, <1>5, HeaderRead, Zenon
    <2> QED BY <1>2, <1>4, <2>1, Zenon
<1>7. PICK x, y : x = <<e[1], e[2]>> /\ y = SubSeq(e, 3, HANDSHAKE_HEADER_SIZE)
    OBVIOUS
<1>8. x \in Seq(Byte) /\ Len(x) = 2
    BY <1>6, <1>7
<1>9. x = <<v, kind>> /\ y = id
    <2>1. y \in Seq(Byte) /\ Join(x, y) = Join(<<v, kind>>, id) /\ Len(x) = Len(<<v, kind>>)
        BY <1>1, <1>6, <1>7, <1>8, Zenon
    <2> QED BY <1>1, <1>8, <2>1, SameLength, Zenon
<1>10. e[1] = v /\ e[2] = kind
    BY <1>7, <1>9
<1> QED BY <1>0, <1>2, <1>3, <1>4, <1>7, <1>9, <1>10, Zenon DEF HeaderIs

\* A handshake is decoded to what it was ...
LEMMA HandshakeDecodes ==
    ASSUME NEW kind \in {HandshakeInit, HandshakeResponse},
           NEW id \in Seq(Byte), Len(id) = SESSION_ID_SIZE, NEW m \in Seq(Byte), m # <<>>
    PROVE  LET p == Handshake(kind, id, m)
           IN  encode(p) \in Seq(Byte) /\ decode_packet(encode(p)) = p
<1>1. PICK p, e : p = Handshake(kind, id, m) /\ e = encode(p)
    OBVIOUS
<1>2. p.kind = kind /\ p.id = id /\ p.rest = m
    BY <1>1 DEF Handshake
<1>3. kind # Transport /\ kind \in Byte /\ is_handshake(kind) /\ WIRE_VERSION \in Byte
    BY Sizes DEF Transport, HandshakeInit, HandshakeResponse, is_handshake, WIRE_VERSION
<1>4. e = Join(Join(<<WIRE_VERSION, kind>>, id), m)
    <2>1. e = Join(Join(Join(<<WIRE_VERSION, kind>>, id), <<>>), m)
        BY <1>1, <1>2, <1>3, EncodeIs
    <2>2. <<WIRE_VERSION, kind>> \in Seq(Byte)
        BY <1>3
    <2>3. Join(<<WIRE_VERSION, kind>>, id) \in Seq(Byte)
        BY <2>2, JoinFacts
    <2>4. Join(Join(<<WIRE_VERSION, kind>>, id), <<>>) = Join(<<WIRE_VERSION, kind>>, id)
        BY <2>3, JoinFacts
    <2> QED BY <2>1, <2>4, Zenon
<1>5. /\ e \in Seq(Byte) /\ Len(e) = HANDSHAKE_HEADER_SIZE + Len(m)
      /\ e[1] = WIRE_VERSION /\ e[2] = kind /\ SubSeq(e, 3, HANDSHAKE_HEADER_SIZE) = id
      /\ RestOf(e, HANDSHAKE_HEADER_SIZE) = m
    <2>1. e = Headed(WIRE_VERSION, kind, id, m)
        BY <1>4, Zenon DEF Headed
    <2>2. HeaderIs(Headed(WIRE_VERSION, kind, id, m), WIRE_VERSION, kind, id, m)
        BY <1>3, HeaderWritten
    <2> QED BY <2>1, <2>2, Zenon DEF HeaderIs
<1>6. Len(m) \in Nat /\ Len(m) # 0
    BY LenProperties, EmptySeq
<1>7. Len(e) > HANDSHAKE_HEADER_SIZE /\ ~(Len(e) < HANDSHAKE_HEADER_SIZE)
    BY <1>5, <1>6, Sizes
<1>8. from(e, HANDSHAKE_HEADER_SIZE) = m
    BY <1>5 DEF RestOf, from
<1>9. decode_packet(e) = Handshake(kind, id, m)
    BY <1>3, <1>5, <1>7, <1>8, Zenon DEF decode_packet
<1> QED BY <1>1, <1>5, <1>9, Zenon

\* ... and so is a transport packet whose counter is a u64.
LEMMA TransportDecodes ==
    ASSUME NEW id \in Seq(Byte), Len(id) = SESSION_ID_SIZE,
           NEW n \in Nat, fits(n, COUNTER_SIZE), NEW r \in Seq(Byte), Len(r) >= 1 + TAG_SIZE
    PROVE  LET p == TransportOf(id, n, r)
           IN  encode(p) \in Seq(Byte) /\ decode_packet(encode(p)) = p
<1>1. PICK p, e : p = TransportOf(id, n, r) /\ e = encode(p)
    OBVIOUS
<1>2. p.kind = Transport /\ p.id = id /\ p.rest = r /\ p.counter = n
    BY <1>1 DEF TransportOf
<1>3. Transport \in Byte /\ ~is_handshake(Transport) /\ WIRE_VERSION \in Byte
    BY Sizes DEF Transport, HandshakeInit, HandshakeResponse, is_handshake, WIRE_VERSION
<1>4. PICK c \in Seq(Byte) : c = to_be_bytes(n, COUNTER_SIZE) /\ Len(c) = COUNTER_SIZE
    BY Sizes, ToBytesFacts
<1>5. PICK h \in Seq(Byte) : h = Join(<<WIRE_VERSION, Transport>>, id)
    <2>1. <<WIRE_VERSION, Transport>> \in Seq(Byte)
        BY <1>3
    <2> QED BY <2>1, JoinFacts
<1>6. PICK s \in Seq(Byte) : s = Join(c, r) /\ Len(s) = COUNTER_SIZE + Len(r)
    <2>1. Join(c, r) \in Seq(Byte) /\ Len(Join(c, r)) = Len(c) + Len(r)
        BY JoinFacts
    <2> QED BY <1>4, <2>1
<1>7. e = Join(Join(h, c), r)
    BY <1>1, <1>2, <1>4, <1>5, EncodeIs
<1>8. e = Join(h, s)
    <2>1. Join(Join(h, c), r) = Join(h, Join(c, r))
        BY Associative
    <2> QED BY <1>6, <1>7, <2>1, Zenon
<1>9. /\ e \in Seq(Byte) /\ Len(e) = HANDSHAKE_HEADER_SIZE + Len(s)
      /\ e[1] = WIRE_VERSION /\ e[2] = Transport /\ SubSeq(e, 3, HANDSHAKE_HEADER_SIZE) = id
      /\ FirstOf(e, HANDSHAKE_HEADER_SIZE) = h
    <2>1. e = Headed(WIRE_VERSION, Transport, id, s)
        BY <1>5, <1>8, Zenon DEF Headed
    <2>2. HeaderIs(Headed(WIRE_VERSION, Transport, id, s), WIRE_VERSION, Transport, id, s)
        BY <1>3, HeaderWritten
    <2> QED BY <1>5, <2>1, <2>2, Zenon DEF HeaderIs
<1>10. Len(r) \in Nat /\ Len(e) = TRANSPORT_HEADER_SIZE + Len(r)
       /\ Len(e) >= MIN_TRANSPORT_PACKET_SIZE /\ ~(Len(e) < HANDSHAKE_HEADER_SIZE)
       /\ Len(e) >= TRANSPORT_HEADER_SIZE
    <2>1. Len(r) \in Nat
        BY LenProperties
    <2> QED BY <1>6, <1>9, <2>1, Sizes
<1>11. PICK d : /\ d = SubSeq(e, HANDSHAKE_HEADER_SIZE + 1, TRANSPORT_HEADER_SIZE)
                /\ d \in Seq(Byte) /\ Len(d) = COUNTER_SIZE
                /\ FirstOf(e, TRANSPORT_HEADER_SIZE) = Join(h, d)
    BY <1>9, <1>10, CounterRead
<1>12. PICK t \in Seq(Byte) : t = Join(h, c) /\ Len(t) = TRANSPORT_HEADER_SIZE
    <2>1. Join(h, c) \in Seq(Byte) /\ Len(Join(h, c)) = Len(h) + Len(c)
        BY JoinFacts
    <2>2. Len(h) = HANDSHAKE_HEADER_SIZE
        <3>1. HANDSHAKE_HEADER_SIZE \in 0 .. Len(e)
            BY <1>10, Sizes
        <3> QED BY <1>9, <3>1, PartsFacts
    <2> QED BY <1>4, <2>1, <2>2, Sizes
<1>13. FirstOf(e, TRANSPORT_HEADER_SIZE) = t /\ RestOf(e, TRANSPORT_HEADER_SIZE) = r
    <2>1. FirstOf(Join(t, r), Len(t)) = t /\ RestOf(Join(t, r), Len(t)) = r
        BY JoinParts
    <2> QED BY <1>7, <1>12, <2>1, Zenon
<1>14. d = c
    <2>1. Join(h, d) = Join(h, c)
        BY <1>11, <1>12, <1>13, Zenon
    <2> QED BY <1>11, <2>1, SameRest, Zenon
<1>15. counter_of(e) = n /\ from(e, TRANSPORT_HEADER_SIZE) = r
    <2>1. from_be_bytes(c) = n
        BY <1>4, Sizes, RoundTrip
    <2> QED BY <1>11, <1>13, <1>14, <2>1, Zenon DEF counter_of, from, RestOf
<1>16. decode_packet(e) = TransportOf(id, n, r)
    BY <1>3, <1>9, <1>10, <1>15, Zenon DEF decode_packet
<1> QED BY <1>1, <1>9, <1>16, Zenon

\* A frame that is decoded is the only encoding of its packet.
LEMMA DecodedEncodes ==
    ASSUME NEW e \in Seq(Byte), decode_packet(e) # Bad
    PROVE  encode(decode_packet(e)) = e
<1>1. Len(e) >= HANDSHAKE_HEADER_SIZE /\ e[1] = WIRE_VERSION
    <2>1. ~(Len(e) < HANDSHAKE_HEADER_SIZE) /\ e[1] = WIRE_VERSION
        BY Zenon DEF decode_packet
    <2> QED BY <2>1, Sizes, LenProperties
<1>2. PICK kind, id, h :
          /\ kind = e[2] /\ kind \in Byte
          /\ id = SubSeq(e, 3, HANDSHAKE_HEADER_SIZE) /\ id \in Seq(Byte)
          /\ h = Join(<<WIRE_VERSION, kind>>, id) /\ h = FirstOf(e, HANDSHAKE_HEADER_SIZE)
    BY <1>1, HeaderRead
<1>3. h \in Seq(Byte)
    <2>1. HANDSHAKE_HEADER_SIZE \in 0 .. Len(e)
        BY <1>1, Sizes, LenProperties
    <2> QED BY <1>2, <2>1, PartsFacts
<1>4. CASE is_handshake(kind) /\ Len(e) > HANDSHAKE_HEADER_SIZE
    <2>1. PICK m : m = from(e, HANDSHAKE_HEADER_SIZE) /\ m = RestOf(e, HANDSHAKE_HEADER_SIZE)
        BY Zenon DEF from, RestOf
    <2>2. decode_packet(e) = Handshake(kind, id, m)
        <3>1. ~(Len(e) < HANDSHAKE_HEADER_SIZE)
            BY <1>1, Sizes, LenProperties
        <3> QED BY <1>1, <1>2, <1>4, <2>1, <3>1, Zenon DEF decode_packet
    <2>3. PICK p : p = decode_packet(e) /\ p.kind = kind /\ p.id = id /\ p.rest = m
        BY <2>2 DEF Handshake
    <2>4. kind # Transport
        BY <1>4 DEF Transport, HandshakeInit, HandshakeResponse, is_handshake
    <2>5. encode(p) = Join(Join(h, <<>>), m)
        BY <1>2, <2>3, <2>4, EncodeIs
    <2>6. Join(h, <<>>) = h
        BY <1>3, JoinFacts
    <2>7. Join(h, m) = e
        <3>1. HANDSHAKE_HEADER_SIZE \in 0 .. Len(e)
            BY <1>1, Sizes, LenProperties
        <3> QED BY <1>2, <2>1, <3>1, PartsFacts
    <2> QED BY <2>3, <2>5, <2>6, <2>7, Zenon
<1>5. CASE /\ ~(is_handshake(kind) /\ Len(e) > HANDSHAKE_HEADER_SIZE)
           /\ kind = Transport /\ Len(e) >= MIN_TRANSPORT_PACKET_SIZE
    <2>0. Len(e) >= TRANSPORT_HEADER_SIZE
        BY <1>5, Sizes, LenProperties
    <2>1. PICK r : r = from(e, TRANSPORT_HEADER_SIZE) /\ r = RestOf(e, TRANSPORT_HEADER_SIZE)
        BY Zenon DEF from, RestOf
    <2>2. PICK c : /\ c = SubSeq(e, HANDSHAKE_HEADER_SIZE + 1, TRANSPORT_HEADER_SIZE)
                   /\ c \in Seq(Byte) /\ Len(c) = COUNTER_SIZE
                   /\ FirstOf(e, TRANSPORT_HEADER_SIZE) = Join(h, c)
        BY <1>2, <2>0, CounterRead
    <2>3. decode_packet(e) = TransportOf(id, from_be_bytes(c), r)
        <3>1. ~(Len(e) < HANDSHAKE_HEADER_SIZE)
            BY <1>1, Sizes, LenProperties
        <3>2. counter_of(e) = from_be_bytes(c)
            BY <2>2, Zenon DEF counter_of
        <3> QED BY <1>1, <1>2, <1>5, <2>1, <3>1, <3>2, Zenon DEF decode_packet
    <2>4. PICK p : /\ p = decode_packet(e) /\ p.kind = Transport /\ p.id = id
                   /\ p.counter = from_be_bytes(c) /\ p.rest = r
        BY <2>3 DEF TransportOf
    <2>5. to_be_bytes(from_be_bytes(c), COUNTER_SIZE) = c
        BY <2>2, Canonical
    <2>6. encode(p) = Join(Join(h, c), r)
        BY <1>2, <1>5, <2>4, <2>5, EncodeIs
    <2>7. Join(FirstOf(e, TRANSPORT_HEADER_SIZE), r) = e
        <3>1. TRANSPORT_HEADER_SIZE \in 0 .. Len(e)
            BY <2>0, Sizes, LenProperties
        <3> QED BY <2>1, <3>1, PartsFacts
    <2> QED BY <2>2, <2>4, <2>6, <2>7, Zenon
<1> QED BY <1>1, <1>2, <1>4, <1>5, Sizes, LenProperties DEF decode_packet

----------------------------------------------------------------------------
\* The data plane.

\* What the cipher may have been given: a message of a known type, whose bytes
\* were read from the device if it is data.
SealedFor(ciphertext, type, payload) ==
    /\ type \in {Data, Keepalive} /\ payload \in Seq(Byte)
    /\ ciphertext = Join(Join(<<type>>, payload), Tag)

\* What makes the properties of the data plane inductive: every frame is a
\* string of bytes, the counter is a u64, and only data that was read from the
\* device is sealed as data.
PlaneInv ==
    /\ packet_information \in [{"sender", "receiver"} -> BOOLEAN]
    /\ counter \in Nat /\ fits(counter, COUNTER_SIZE)
    /\ net \subseteq Seq(Byte)
    /\ \A s \in sealed : \E type, payload :
          SealedFor(s[2], type, payload) /\ (type = Data => payload \in read)
    /\ EncodedDecodes /\ TunFaithful /\ StatsHonest

\* The header of the device is taken off, or the frame is no packet.
LEMMA StripFacts ==
    ASSUME NEW frame \in Seq(Byte), NEW pi \in BOOLEAN,
           strip_packet_information(frame, pi) # Bad
    PROVE  strip_packet_information(frame, pi) \in Seq(Byte)
<1>1. CASE ~pi
    BY <1>1 DEF strip_packet_information
<1>2. CASE pi
    <2>1. ~(Len(frame) < PACKET_INFO_SIZE) /\ strip_packet_information(frame, pi) = from(frame, PACKET_INFO_SIZE)
        BY <1>2, Zenon DEF strip_packet_information
    <2>2. PACKET_INFO_SIZE \in 0 .. Len(frame)
        BY <2>1, WireAssumption, LenProperties
    <2>3. RestOf(frame, PACKET_INFO_SIZE) \in Seq(Byte)
        BY <2>2, PartsFacts
    <2> QED BY <2>1, <2>3, Zenon DEF from, RestOf
<1> QED BY <1>1, <1>2

\* The header that is put on is taken off again.
LEMMA StripAdd ==
    ASSUME NEW p \in Seq(Byte), NEW pi \in BOOLEAN
    PROVE  strip_packet_information(add_packet_information(p, pi), pi) = p
<1>1. CASE ~pi
    BY <1>1 DEF strip_packet_information, add_packet_information
<1>2. CASE pi
    <2>0. PICK n \in Nat : n = PACKET_INFO_SIZE
        BY WireAssumption
    <2>1. PICK h : h = [i \in 1 .. n |-> IF i = n THEN 2 ELSE 0]
        OBVIOUS
    <2>2. h \in Seq(Byte) /\ Len(h) = n
        <3>1. 0 \in Byte /\ 2 \in Byte
            BY Sizes
        <3> QED BY <2>1, <3>1, SMT
    <2>3. PICK e : e = add_packet_information(p, pi) /\ e = Join(h, p)
        BY <1>2, <2>0, <2>1, Zenon DEF add_packet_information, Join
    <2>4. Len(e) = n + Len(p) /\ Len(p) \in Nat
        <3>1. Len(Join(h, p)) = Len(h) + Len(p) /\ Len(p) \in Nat
            BY <2>2, JoinFacts, LenProperties
        <3> QED BY <2>2, <2>3, <3>1
    <2>5. ~(Len(e) < n)
        BY <2>4
    <2>6. strip_packet_information(e, pi) = RestOf(e, n)
        BY <1>2, <2>0, <2>5, Zenon DEF strip_packet_information, from, RestOf
    <2>7. RestOf(Join(h, p), Len(h)) = p
        BY <2>2, JoinParts
    <2> QED BY <2>2, <2>3, <2>6, <2>7, Zenon
<1> QED BY <1>1, <1>2

\* What was sealed is decoded to the message it was.
LEMMA OpenedMessage ==
    ASSUME NEW rest, NEW type, NEW payload, SealedFor(rest, type, payload)
    PROVE  decode_transport_plaintext(SubSeq(rest, 1, Len(rest) - TAG_SIZE))
              = [msg_type |-> type, payload |-> payload]
<1>1. type \in {Data, Keepalive} /\ type \in Byte /\ payload \in Seq(Byte) /\ Tag \in Seq(Byte) /\ Len(Tag) = TAG_SIZE
    BY Sizes, PlaneAssumption DEF SealedFor, Data, Keepalive
<1>2. PICK o \in Seq(Byte) : o = <<type>> /\ Len(o) = 1 /\ o[1] = type
    <2>1. PICK t \in Byte : t = type
        BY <1>1
    <2>2. <<t>> \in Seq(Byte) /\ Len(<<t>>) = 1 /\ <<t>>[1] = t
        OBVIOUS
    <2> QED BY <2>1, <2>2, Zenon
<1>3. PICK x \in Seq(Byte) : x = Join(o, payload) /\ Len(x) = Len(o) + Len(payload)
                             /\ \A i \in 1 .. Len(o) : x[i] = o[i]
    <2>1. /\ Join(o, payload) \in Seq(Byte) /\ Len(Join(o, payload)) = Len(o) + Len(payload)
          /\ \A i \in 1 .. Len(o) : Join(o, payload)[i] = o[i]
        BY <1>1, JoinFacts
    <2> QED BY <2>1
<1>4. rest = Join(x, Tag)
    BY <1>2, <1>3, Zenon DEF SealedFor
<1>5. SubSeq(rest, 1, Len(rest) - TAG_SIZE) = x
    <2>1. Len(Join(x, Tag)) = Len(x) + Len(Tag) /\ Len(x) \in Nat /\ TAG_SIZE \in Nat
        BY <1>1, JoinFacts, LenProperties, Sizes
    <2>2. Len(rest) - TAG_SIZE = Len(x)
        <3>1. Len(rest) = Len(x) + TAG_SIZE
            BY <1>1, <1>4, <2>1, Zenon
        <3> QED BY <2>1, <3>1
    <2>3. FirstOf(Join(x, Tag), Len(x)) = x
        BY <1>1, JoinParts
    <2> QED BY <1>4, <2>2, <2>3, Zenon DEF FirstOf
<1>6. x # <<>> /\ x[1] = type
    <2>1. Len(payload) \in Nat /\ Len(x) = 1 + Len(payload)
        BY <1>1, <1>2, <1>3, LenProperties
    <2>2. x # <<>>
        BY <2>1
    <2>3. x[1] = type
        BY <1>2, <1>3
    <2> QED BY <2>2, <2>3
<1>7. from(x, 1) = payload
    <2>1. RestOf(Join(o, payload), Len(o)) = payload
        BY <1>1, JoinParts
    <2> QED BY <1>2, <1>3, <2>1, Zenon DEF from, RestOf
<1>8. decode_transport_plaintext(x) = [msg_type |-> type, payload |-> payload]
    BY <1>1, <1>6, <1>7, Zenon DEF decode_transport_plaintext
<1> QED BY <1>5, <1>8, Zenon

\* What a frame is opened to was read from the device of the sender.
LEMMA OpenedWasRead ==
    ASSUME PlaneInv, NEW frame, Opened(frame) # Bad
    PROVE  Opened(frame) \in read /\ Opened(frame) \in Seq(Byte) /\ parse(Opened(frame))
<1>1. PICK packet, plaintext, message :
          /\ packet = decode_packet(frame)
          /\ plaintext = SubSeq(packet.rest, 1, Len(packet.rest) - TAG_SIZE)
          /\ message = decode_transport_plaintext(plaintext)
    OBVIOUS
<1>2. /\ <<packet.counter, packet.rest>> \in sealed
      /\ message.msg_type = Data /\ parse(message.payload) /\ Opened(frame) = message.payload
    BY <1>1, Zenon DEF Opened
<1>3. PICK s \in sealed : s[2] = packet.rest
    BY <1>2
<1>4. PICK type, payload : SealedFor(s[2], type, payload) /\ (type = Data => payload \in read)
    BY DEF PlaneInv
<1>5. message = [msg_type |-> type, payload |-> payload]
    BY <1>1, <1>3, <1>4, OpenedMessage, Zenon
<1>6. message.msg_type = type /\ message.payload = payload
    BY <1>5
<1>7. payload \in Seq(Byte)
    BY <1>4 DEF SealedFor
<1> QED BY <1>2, <1>4, <1>6, <1>7, Zenon

\* A frame is taken by the transport and recorded, or neither.
LEMMA SendFacts ==
    ASSUME NEW e \in Seq(Byte), send_engine_frame(e), net \subseteq Seq(Byte), StatsHonest
    PROVE  net' \subseteq Seq(Byte) /\ StatsHonest'
    BY DEF send_engine_frame, StatsHonest

\* encrypt_for_peer keeps the invariant, with data that was read.
LEMMA SealKeeps ==
    ASSUME PlaneInv, NEW type \in {Data, Keepalive}, NEW payload \in Seq(Byte),
           SealAndSend(type, payload), UNCHANGED <<packet_information, written, panicked>>,
           read \subseteq read', type = Data => payload \in read'
    PROVE  PlaneInv'
<1>1. PICK c, packet :
          /\ c = encode_transport_plaintext(type, payload) \o Tag
          /\ packet = TransportOf(SessionId, counter, c)
    OBVIOUS
<1>2. /\ fits(counter + 1, COUNTER_SIZE) /\ counter' = counter + 1
      /\ sealed' = sealed \cup {<<counter, c>>} /\ intended' = intended \cup {packet}
      /\ send_engine_frame(encode(packet))
    BY <1>1, Zenon DEF SealAndSend
<1>3. /\ type \in Byte /\ Tag \in Seq(Byte) /\ Len(Tag) = TAG_SIZE
      /\ SessionId \in Seq(Byte) /\ Len(SessionId) = SESSION_ID_SIZE
    BY Sizes, PlaneAssumption DEF Data, Keepalive
<1>4. SealedFor(c, type, payload)
    BY <1>1, Zenon DEF SealedFor, encode_transport_plaintext, Join
<1>5. c \in Seq(Byte) /\ Len(c) >= 1 + TAG_SIZE
    <2>1. PICK o \in Seq(Byte) : o = <<type>> /\ Len(o) = 1
        <3>1. PICK t \in Byte : t = type
            BY <1>3
        <3>2. <<t>> \in Seq(Byte) /\ Len(<<t>>) = 1
            OBVIOUS
        <3> QED BY <3>1, <3>2, Zenon
    <2>2. PICK x \in Seq(Byte) : x = Join(o, payload) /\ Len(x) = Len(o) + Len(payload)
        <3>1. Join(o, payload) \in Seq(Byte) /\ Len(Join(o, payload)) = Len(o) + Len(payload)
            BY JoinFacts
        <3> QED BY <3>1
    <2>3. Join(x, Tag) \in Seq(Byte) /\ Len(Join(x, Tag)) = Len(x) + Len(Tag)
        <3>1. Tag \in Seq(Byte)
            BY <1>3
        <3> QED BY <3>1, JoinFacts
    <2>4. c = Join(x, Tag)
        BY <1>4, <2>1, <2>2, Zenon DEF SealedFor
    <2>5. Len(payload) \in Nat /\ Len(o) = 1 /\ Len(x) = Len(o) + Len(payload)
        BY <2>1, <2>2, LenProperties
    <2>6. Len(x) + Len(Tag) >= 1 + TAG_SIZE
        BY <1>3, <2>5, Sizes
    <2> QED BY <2>3, <2>4, <2>6, Zenon
<1>6. counter \in Nat /\ fits(counter, COUNTER_SIZE) /\ net \subseteq Seq(Byte) /\ StatsHonest
      /\ EncodedDecodes /\ TunFaithful /\ packet_information \in [{"sender", "receiver"} -> BOOLEAN]
    BY DEF PlaneInv
<1>7. encode(packet) \in Seq(Byte) /\ decode_packet(encode(packet)) = packet
    BY <1>1, <1>3, <1>5, <1>6, TransportDecodes, Zenon
<1>8. net' \subseteq Seq(Byte) /\ StatsHonest'
    BY <1>2, <1>6, <1>7, SendFacts
<1>9. EncodedDecodes'
    BY <1>2, <1>6, <1>7 DEF EncodedDecodes
<1>10. TunFaithful'
    BY <1>6 DEF TunFaithful
<1>11. ASSUME NEW s \in sealed'
       PROVE  \E t, p : SealedFor(s[2], t, p) /\ (t = Data => p \in read')
    <2>1. CASE s \in sealed
        BY <2>1 DEF PlaneInv
    <2>2. CASE s = <<counter, c>>
        BY <1>4, <2>2
    <2> QED BY <1>2, <2>1, <2>2
<1>12. counter' \in Nat /\ fits(counter', COUNTER_SIZE)
    BY <1>2, <1>6
<1> QED BY <1>6, <1>8, <1>9, <1>10, <1>11, <1>12 DEF PlaneInv

\* The loop from the TUN device.
LEMMA TunStep ==
    ASSUME PlaneInv, TunToTransport
    PROVE  PlaneInv'
<1>0. PICK frame \in TunFrames : \E packet :
          /\ packet = strip_packet_information(frame, packet_information["sender"])
          /\ packet # Bad /\ read' = read \cup {packet} /\ SealAndSend(Data, packet)
          /\ UNCHANGED <<packet_information, written, panicked>>
    BY Zenon DEF TunToTransport
<1>1. PICK packet :
          /\ packet = strip_packet_information(frame, packet_information["sender"])
          /\ packet # Bad /\ read' = read \cup {packet} /\ SealAndSend(Data, packet)
          /\ UNCHANGED <<packet_information, written, panicked>>
    BY <1>0
<1>2. packet \in Seq(Byte)
    <2>1. frame \in Seq(Byte) /\ packet_information["sender"] \in BOOLEAN
        BY PlaneAssumption DEF PlaneInv
    <2> QED BY <1>1, <2>1, StripFacts, Zenon
<1>3. read \subseteq read' /\ packet \in read' /\ Data \in {Data, Keepalive}
    BY <1>1
<1> QED BY <1>1, <1>2, <1>3, SealKeeps, Zenon

\* A keepalive or its acknowledgement.
LEMMA KeepaliveStep ==
    ASSUME PlaneInv, SendKeepalive
    PROVE  PlaneInv'
<1>1. PICK b \in {1, 2} :
          /\ SealAndSend(Keepalive, <<b>>)
          /\ UNCHANGED <<packet_information, written, panicked>> /\ read' = read
    BY DEF SendKeepalive
<1>2. <<b>> \in Seq(Byte)
    <2>1. PICK c \in Byte : c = b
        BY Sizes
    <2> QED BY <2>1
<1>3. read \subseteq read' /\ Keepalive \in {Data, Keepalive} /\ Keepalive # Data
    BY <1>1 DEF Keepalive, Data
<1> QED BY <1>1, <1>2, <1>3, SealKeeps, Zenon

\* A message of a handshake.
LEMMA HandshakeStep ==
    ASSUME PlaneInv, SendHandshake
    PROVE  PlaneInv'
<1>0. PICK kind \in {HandshakeInit, HandshakeResponse}, message \in Messages : \E packet :
          /\ packet = Handshake(kind, SessionId, message)
          /\ intended' = intended \cup {packet} /\ send_engine_frame(encode(packet))
    BY Zenon DEF SendHandshake
<1>1. PICK packet :
          /\ packet = Handshake(kind, SessionId, message)
          /\ intended' = intended \cup {packet} /\ send_engine_frame(encode(packet))
    BY <1>0
<1>2. UNCHANGED <<packet_information, counter, sealed, read, written, panicked, damage>>
    BY DEF SendHandshake
<1>3. /\ message \in Seq(Byte) /\ message # <<>>
      /\ SessionId \in Seq(Byte) /\ Len(SessionId) = SESSION_ID_SIZE
    BY PlaneAssumption
<1>4. encode(packet) \in Seq(Byte) /\ decode_packet(encode(packet)) = packet
    BY <1>1, <1>3, HandshakeDecodes, Zenon
<1>5. net' \subseteq Seq(Byte) /\ StatsHonest'
    BY <1>1, <1>4, SendFacts DEF PlaneInv
<1>6. EncodedDecodes'
    BY <1>1, <1>4 DEF EncodedDecodes, PlaneInv
<1>7. TunFaithful'
    BY <1>2 DEF TunFaithful, PlaneInv
<1> QED BY <1>2, <1>5, <1>6, <1>7 DEF PlaneInv

\* The network changes a frame to another string of bytes.
LEMMA DamageStep ==
    ASSUME PlaneInv, Damage
    PROVE  PlaneInv'
<1>0. PICK frame \in net : \E changed :
          /\ \/ \E n \in 0 .. Len(frame) - 1 : changed = SubSeq(frame, 1, n)
             \/ \E b \in Byte : changed = Append(frame, b)
             \/ \E i \in DOMAIN frame, b \in Byte : changed = [frame EXCEPT ![i] = b]
          /\ net' = net \cup {changed}
    BY DEF Damage, Byte
<1>1. PICK changed :
          /\ \/ \E n \in 0 .. Len(frame) - 1 : changed = SubSeq(frame, 1, n)
             \/ \E b \in Byte : changed = Append(frame, b)
             \/ \E i \in DOMAIN frame, b \in Byte : changed = [frame EXCEPT ![i] = b]
          /\ net' = net \cup {changed}
    BY <1>0
<1>2. UNCHANGED <<packet_information, counter, sealed, intended, tx_bytes, carried, read,
                  written, panicked, sends>>
    BY DEF Damage
<1>3. frame \in Seq(Byte)
    BY DEF PlaneInv
<1>4. changed \in Seq(Byte)
    <2>1. CASE \E n \in 0 .. Len(frame) - 1 : changed = SubSeq(frame, 1, n)
        <3>1. PICK n \in 0 .. Len(frame) - 1 : changed = FirstOf(frame, n)
            BY <2>1 DEF FirstOf
        <3>2. n \in 0 .. Len(frame)
            BY <1>3, LenProperties
        <3> QED BY <1>3, <3>1, <3>2, PartsFacts
    <2>2. CASE \E b \in Byte : changed = Append(frame, b)
        BY <1>3, <2>2, AppendProperties
    <2>3. CASE \E i \in DOMAIN frame, b \in Byte : changed = [frame EXCEPT ![i] = b]
        <3>1. PICK i \in DOMAIN frame, b \in Byte : changed = [frame EXCEPT ![i] = b]
            BY <2>3
        <3>2. i \in 1 .. Len(frame)
            BY <1>3, LenProperties
        <3> QED BY <1>3, <3>1, <3>2, ExceptSeq
    <2> QED BY <1>1, <2>1, <2>2, <2>3, Zenon
<1>5. net' \subseteq Seq(Byte)
    BY <1>1, <1>4 DEF PlaneInv
<1>6. EncodedDecodes' /\ StatsHonest' /\ TunFaithful'
    BY <1>2 DEF EncodedDecodes, StatsHonest, TunFaithful, PlaneInv
<1> QED BY <1>2, <1>5, <1>6 DEF PlaneInv

\* The loop to the TUN device.
LEMMA TransportStep ==
    ASSUME PlaneInv, TransportToTun
    PROVE  PlaneInv'
<1>0. PICK frame \in net : \E packet :
          /\ packet = Opened(frame) /\ packet # Bad
          /\ IF parse(packet) /\ InBounds(packet)
             THEN /\ written' = written \cup
                         {add_packet_information(packet, packet_information["receiver"])}
                  /\ UNCHANGED panicked
             ELSE panicked' = TRUE /\ UNCHANGED written
    BY Zenon DEF TransportToTun
<1>1. PICK packet :
          /\ packet = Opened(frame) /\ packet # Bad
          /\ IF parse(packet) /\ InBounds(packet)
             THEN /\ written' = written \cup
                         {add_packet_information(packet, packet_information["receiver"])}
                  /\ UNCHANGED panicked
             ELSE panicked' = TRUE /\ UNCHANGED written
    BY <1>0
<1>2. UNCHANGED <<packet_information, counter, sealed, intended, net, tx_bytes, carried, read,
                  sends, damage>>
    BY DEF TransportToTun
<1>3. packet \in read /\ packet \in Seq(Byte) /\ parse(packet)
    BY <1>1, OpenedWasRead
<1>4. parse(packet) /\ InBounds(packet)
    BY <1>3 DEF parse, InBounds
<1>5. packet_information["receiver"] \in BOOLEAN
    BY DEF PlaneInv
<1>6. PICK w : /\ w = add_packet_information(packet, packet_information["receiver"])
               /\ strip_packet_information(w, packet_information["receiver"]) = packet
    BY <1>3, <1>5, StripAdd, Zenon
<1>7. written' = written \cup {w} /\ panicked' = panicked
    BY <1>1, <1>4, <1>6, Zenon
<1>8. TunFaithful'
    BY <1>2, <1>3, <1>6, <1>7 DEF TunFaithful, PlaneInv
<1>9. EncodedDecodes' /\ StatsHonest'
    BY <1>2 DEF EncodedDecodes, StatsHonest, PlaneInv
<1> QED BY <1>2, <1>8, <1>9 DEF PlaneInv

\* Nothing was sent at the start.
LEMMA PlaneStart == PlaneInit => PlaneInv
    BY PlaneAssumption DEF PlaneInit, PlaneInv, EncodedDecodes, TunFaithful, StatsHonest

\* Every step keeps the invariant.
LEMMA PlaneStep == PlaneInv /\ [PlaneNext]_planeVars => PlaneInv'
<1> SUFFICES ASSUME PlaneInv, [PlaneNext]_planeVars PROVE PlaneInv'
    OBVIOUS
<1>1. CASE UNCHANGED planeVars
    BY <1>1 DEF planeVars, PlaneInv, EncodedDecodes, TunFaithful, StatsHonest
<1> QED BY <1>1, TunStep, KeepaliveStep, HandshakeStep, DamageStep, TransportStep DEF PlaneNext

\* The invariant of the data plane.
LEMMA PlaneInvariant == PlaneSpec => []PlaneInv
<1> QED BY PlaneStart, PlaneStep, PTL DEF PlaneSpec

\* encode and decode_packet of auth.rs are inverse to each other: on every packet
\* the engine encodes, with any message, tag and counter, and on every frame the
\* network makes of one.
THEOREM CodecIsExact == PlaneSpec => []CodecExact
<1>1. PlaneInv => CodecExact
    <2> SUFFICES ASSUME PlaneInv PROVE CodecExact
        OBVIOUS
    <2>1. DecodeIsCanonical
        BY DecodedEncodes DEF DecodeIsCanonical, PlaneInv
    <2> QED BY <2>1 DEF CodecExact, PlaneInv
<1> QED BY PlaneInvariant, <1>1, PTL

\* The loops of tunnel.rs write to the receiver's device only what was read from
\* the sender's, whole and without its header, and never panic, whatever the
\* network does to the frames.
THEOREM DeviceIsFaithful == PlaneSpec => []TunFaithful
<1>1. PlaneInv => TunFaithful
    BY DEF PlaneInv
<1> QED BY PlaneInvariant, <1>1, PTL

\* The statistics of a peer count the bytes the transport took, and no others.
THEOREM StatisticsAreHonest == PlaneSpec => []StatsHonest
<1>1. PlaneInv => StatsHonest
    BY DEF PlaneInv
<1> QED BY PlaneInvariant, <1>1, PTL
=============================================================================
