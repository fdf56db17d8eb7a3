------------------------- MODULE ReplayWindowProofs -------------------------
(***************************************************************************)
(* Proofs about ReplayWindow, for every word size, number of words and     *)
(* counter width: the bit array is exactly the recent history of accepted  *)
(* counters, and the window implements ReplayFilter.                       *)
(***************************************************************************)
EXTENDS ReplayWindow, TLAPS

-----------------------------------------------------------------------------
(* Division with remainder by the word size.                               *)

\* The word and the bit that replay.rs computes for a distance determine it.
LEMMA DivMod ==
    ASSUME NEW x \in Nat
    PROVE  /\ x \div WordBits \in Nat
           /\ x % WordBits \in Bits
           /\ x = WordBits * (x \div WordBits) + (x % WordBits)
  BY WordBitsAssumption DEF Bits

\* A multiple of the word size plus a bit number determines both.
LEMMA DivModUnique ==
    ASSUME NEW p \in Int, NEW q \in Int, NEW r \in Bits, NEW s \in Bits,
           WordBits * p + r = WordBits * q + s
    PROVE  p = q /\ r = s
  <1>1. ASSUME NEW m \in Int, NEW n \in Int, m > n
        PROVE  WordBits * m >= WordBits * n + WordBits
    <2>1. WordBits * (m - n - 1) >= 0
      BY <1>1, WordBitsAssumption
    <2>2. QED
      BY <2>1, WordBitsAssumption
  <1>2. ~ p > q
    BY <1>1, WordBitsAssumption DEF Bits
  <1>3. ~ q > p
    BY <1>1, WordBitsAssumption DEF Bits
  <1>4. QED
    BY <1>2, <1>3, WordBitsAssumption DEF Bits

\* The word and bit of a distance given as word and bit.
LEMMA DivModOf ==
    ASSUME NEW q \in Nat, NEW r \in Bits
    PROVE  (WordBits * q + r) \div WordBits = q /\ (WordBits * q + r) % WordBits = r
  <1>1. WordBits * q + r \in Nat
    BY WordBitsAssumption DEF Bits
  <1>2. QED
    BY <1>1, DivMod, DivModUnique

\* Every distance inside the window addresses a word of the array, so the
\* indexing in bit_is_set and set_bit never leaves it.
LEMMA DistanceInArray ==
    ASSUME NEW d \in 0 .. WindowSize - 1
    PROVE  d \div WordBits \in Words /\ d % WordBits \in Bits
  <1>1. d \in Nat /\ d < WordBits * WindowWords
    BY WordBitsAssumption, WindowWordsAssumption DEF WindowSize
  <1>2. ~ d \div WordBits >= WindowWords
    <2>1. SUFFICES ASSUME d \div WordBits >= WindowWords PROVE FALSE
      OBVIOUS
    <2>2. WordBits * ((d \div WordBits) - WindowWords) >= 0
      BY <2>1, <1>1, DivMod, WordBitsAssumption, WindowWordsAssumption
    <2>3. QED
      BY <2>2, <1>1, DivMod, WordBitsAssumption, WindowWordsAssumption DEF Bits
  <1>3. QED
    BY <1>1, <1>2, DivMod, WindowWordsAssumption DEF Words

-----------------------------------------------------------------------------
(* The operations on the bit array.                                        *)

\* set_bit sets the bit of its distance and no other.
LEMMA SetBit ==
    ASSUME NEW b \in [Words -> SUBSET Bits],
           NEW d \in 0 .. WindowSize - 1, NEW e \in 0 .. WindowSize - 1
    PROVE  /\ set_bit(b, e) \in [Words -> SUBSET Bits]
           /\ bit_is_set(set_bit(b, e), d) <=> d = e \/ bit_is_set(b, d)
  <1>1. /\ d \div WordBits \in Words /\ d % WordBits \in Bits
        /\ e \div WordBits \in Words /\ e % WordBits \in Bits
    BY DistanceInArray
  <1>2. d \div WordBits = e \div WordBits /\ d % WordBits = e % WordBits => d = e
    <2>1. d \in Nat /\ e \in Nat
      BY WordBitsAssumption, WindowWordsAssumption DEF WindowSize
    <2>2. QED
      BY <2>1, DivMod
  <1>3. QED
    BY <1>1, <1>2 DEF set_bit, bit_is_set

\* Setting the lowest bit of word zero is set_bit at distance zero.
LEMMA SetBitZero ==
    ASSUME NEW b \in [Words -> SUBSET Bits]
    PROVE  [b EXCEPT ![0] = @ \cup {0}] = set_bit(b, 0)
  <1>1. 0 \in Bits /\ WordBits * 0 + 0 = 0
    BY WordBitsAssumption DEF Bits
  <1>2. 0 \div WordBits = 0 /\ 0 % WordBits = 0
    BY <1>1, DivModOf
  <1>3. QED
    BY <1>2 DEF set_bit

\* shift_older moves the bit at every distance by exactly `amount', carrying it
\* across words, and what was at a shorter distance than that is cleared.
LEMMA ShiftOlder ==
    ASSUME NEW b \in [Words -> SUBSET Bits], NEW amount \in Nat,
           NEW d \in 0 .. WindowSize - 1
    PROVE  bit_is_set(shift_older(b, amount), d) <=>
               d >= amount /\ bit_is_set(b, d - amount)
  <1> DEFINE q == d \div WordBits
             r == d % WordBits
             ws == amount \div WordBits
             bs == amount % WordBits
             From(w) == IF w \in Words THEN b[w] ELSE {}
  <1>0. /\ d \in Nat /\ WindowSize \in Nat
        /\ q \in Words /\ r \in Bits /\ ws \in Nat /\ bs \in Bits
        /\ q \in Nat /\ WordBits \in Nat /\ r \in Nat /\ bs \in Nat
        /\ d = WordBits * q + r /\ amount = WordBits * ws + bs
    <2>1. d \in Nat /\ WindowSize \in Nat /\ WordBits \in Nat
      BY WordBitsAssumption, WindowWordsAssumption DEF WindowSize
    <2>2. q \in Words /\ r \in Bits
      BY DistanceInArray
    <2>3. ws \in Nat /\ bs \in Bits /\ amount = WordBits * ws + bs
      BY DivMod
    <2>4. q \in Nat /\ d = WordBits * q + r
      BY <2>1, DivMod
    <2> HIDE DEF q, r, ws, bs
    <2>5. r \in Nat /\ bs \in Nat
      BY <2>1, <2>2, <2>3 DEF Bits
    <2>6. QED
      BY <2>1, <2>2, <2>3, <2>4, <2>5
  <1>1. CASE amount >= WindowSize
    <2>1. d < amount
      BY <1>0, <1>1
    <2>2. ~ bit_is_set(shift_older(b, amount), d)
      BY <1>0, <1>1 DEF bit_is_set, shift_older
    <2>3. QED
      BY <1>0, <2>1, <2>2
  <1>2. CASE ~ amount >= WindowSize
    <2>1. bit_is_set(shift_older(b, amount), d) <=>
            \/ r \in ShiftLeft(From(q - ws), bs)
            \/ bs # 0 /\ r \in ShiftRight(From(q - ws - 1), WordBits - bs)
      BY <1>0, <1>2 DEF bit_is_set, shift_older
    <2>2. \A w \in Int : From(w) \in SUBSET Bits
      OBVIOUS
    <2>3. r \in ShiftLeft(From(q - ws), bs) <=> r - bs \in From(q - ws)
      <3>1. From(q - ws) \in SUBSET Bits
        BY <1>0, <2>2
      <3> HIDE DEF From
      <3>2. QED
        BY <1>0, <3>1 DEF ShiftLeft, Bits
    <2>4. r \in ShiftRight(From(q - ws - 1), WordBits - bs) <=>
            r + WordBits - bs \in From(q - ws - 1)
      <3>1. From(q - ws - 1) \in SUBSET Bits
        BY <1>0, <2>2
      <3> HIDE DEF From
      <3>2. QED
        BY <1>0, <3>1 DEF ShiftRight, Bits
    <2>5. CASE r >= bs
      <3>1. ~ (r + WordBits - bs \in From(q - ws - 1))
        BY <1>0, <2>2, <2>5 DEF Bits
      <3>2. d - amount = WordBits * (q - ws) + (r - bs) /\ r - bs \in Bits
        BY <1>0, <2>5 DEF Bits
      <3>3. CASE q >= ws
        <4>1. q - ws \in Nat /\ d >= amount
          BY <1>0, <3>2, <3>3 DEF Bits
        <4>2. q - ws \in Words
          BY <1>0, <4>1, WindowWordsAssumption DEF Words
        <4>3. bit_is_set(b, d - amount) <=> r - bs \in b[q - ws]
          BY <3>2, <4>1, DivModOf DEF bit_is_set
        <4>4. QED
          BY <2>1, <2>3, <2>4, <3>1, <4>1, <4>2, <4>3
      <3>4. CASE q < ws
        <4>1. q - ws \notin Words
          BY <1>0, <3>4 DEF Words
        <4>2. WordBits * (ws - q - 1) >= 0
          BY <1>0, <3>4
        <4>3. d < amount
          BY <1>0, <4>2 DEF Bits
        <4>4. QED
          BY <1>0, <2>1, <2>3, <2>4, <3>1, <4>1, <4>3
      <3>5. QED
        BY <1>0, <3>3, <3>4
    <2>6. CASE r < bs
      <3>1. ~ (r - bs \in From(q - ws))
        BY <1>0, <2>2, <2>6 DEF Bits
      <3>2. /\ d - amount = WordBits * (q - ws - 1) + (r + WordBits - bs)
            /\ r + WordBits - bs \in Bits
            /\ bs # 0
        BY <1>0, <2>6 DEF Bits
      <3>3. CASE q >= ws + 1
        <4>1. q - ws - 1 \in Nat /\ d >= amount
          BY <1>0, <3>2, <3>3 DEF Bits
        <4>2. q - ws - 1 \in Words
          BY <1>0, <4>1, WindowWordsAssumption DEF Words
        <4>3. bit_is_set(b, d - amount) <=> r + WordBits - bs \in b[q - ws - 1]
          BY <3>2, <4>1, DivModOf DEF bit_is_set
        <4>4. QED
          BY <2>1, <2>3, <2>4, <3>1, <3>2, <4>1, <4>2, <4>3
      <3>4. CASE q < ws + 1
        <4>1. q - ws - 1 \notin Words
          BY <1>0, <3>4 DEF Words
        <4>2. WordBits * (ws - q) >= 0
          BY <1>0, <3>4
        <4>3. d < amount
          BY <1>0, <2>6, <4>2 DEF Bits
        <4>4. QED
          BY <1>0, <2>1, <2>3, <2>4, <3>1, <4>1, <4>3
      <3>5. QED
        BY <1>0, <3>3, <3>4
    <2>7. QED
      BY <1>0, <2>5, <2>6
  <1>3. QED
    BY <1>1, <1>2

\* shift_older yields an array of words again.
LEMMA ShiftOlderType ==
    ASSUME NEW b \in [Words -> SUBSET Bits], NEW amount \in Nat
    PROVE  shift_older(b, amount) \in [Words -> SUBSET Bits]
  BY DEF shift_older, ShiftLeft, ShiftRight

-----------------------------------------------------------------------------
(* The inductive invariant.                                                *)

\* Under the invariant the window's answer is the rule of ReplayRule.
LEMMA AnswerIsRule ==
    ASSUME IInv, NEW c \in Counter
    PROVE  would_accept(c) <=> Filter!WouldAccept(accepted, c)
  <1> USE DEF IInv, TypeOK, Counter, None
  <1>0. WindowSize \in Nat /\ WindowSize >= 1 /\ c \in Nat
    <2>1. WordBits * (WindowWords - 1) >= 0
      BY WordBitsAssumption, WindowWordsAssumption
    <2>2. QED
      BY <2>1, WordBitsAssumption, WindowWordsAssumption, CounterWidthAssumption
         DEF WindowSize
  <1>1. CASE highest = None
    BY <1>1 DEF would_accept, Filter!WouldAccept, HighestIsMax
  <1>2. CASE highest # None
    <2>1. highest \in Nat /\ highest \in accepted /\ \A a \in accepted : a \in Nat /\ a <= highest
      BY <1>2, CounterWidthAssumption DEF HighestIsMax
    <2>2. CASE c > highest
      BY <1>0, <1>2, <2>1, <2>2 DEF would_accept, Filter!WouldAccept
    <2>3. CASE c <= highest /\ highest - c >= WindowSize
      BY <1>0, <1>2, <2>1, <2>3 DEF would_accept, Filter!WouldAccept
    <2>4. CASE c <= highest /\ highest - c < WindowSize
      <3>1. highest - c \in 0 .. WindowSize - 1 /\ highest - (highest - c) = c
        BY <1>0, <2>1, <2>4
      <3>2. bit_is_set(bits, highest - c) <=> c \in accepted
        BY <3>1 DEF WindowExact
      <3>3. \A h \in accepted : h - c < WindowSize
        BY <1>0, <2>1, <2>4
      <3>4. QED
        BY <1>0, <1>2, <2>1, <2>4, <3>2, <3>3 DEF would_accept, Filter!WouldAccept
    <2>5. QED
      BY <1>0, <2>1, <2>2, <2>3, <2>4
  <1>3. QED
    BY <1>1, <1>2

\* An accepted counter leaves the bit array exact: the first one, one ahead of
\* the window, and one inside it.
LEMMA RecordExact ==
    ASSUME IInv, NEW c \in Counter, would_accept(c), Record(c),
           accepted' = accepted \cup {c}
    PROVE  /\ highest' \in Counter
           /\ bits' \in [Words -> SUBSET Bits]
           /\ HighestIsMax'
           /\ WindowExact'
  <1> USE DEF IInv, TypeOK, None
  <1>0. /\ WindowSize \in Nat /\ 0 \in 0 .. WindowSize - 1 /\ c \in Nat
        /\ 0 \in Words /\ 0 \in Bits
    <2>1. WordBits * (WindowWords - 1) >= 0
      BY WordBitsAssumption, WindowWordsAssumption
    <2>2. QED
      BY <2>1, WordBitsAssumption, WindowWordsAssumption, CounterWidthAssumption
         DEF WindowSize, Words, Bits, Counter
  <1>1. CASE highest = None
    <2>1. highest' = c /\ accepted = {} /\ accepted' = {c}
      BY <1>1, <1>0 DEF Record, HighestIsMax, Counter
    <2>2. \A d \in 0 .. WindowSize - 1 : ~ bit_is_set(bits, d)
      BY <2>1 DEF WindowExact
    <2>3. bits[0] = {}
      <3>1. \A i \in Bits : WordBits * 0 + i = i /\ i \in 0 .. WindowSize - 1
        <4>1. WordBits * (WindowWords - 1) >= 0
          BY WordBitsAssumption, WindowWordsAssumption
        <4>2. QED
          BY <4>1, WordBitsAssumption, WindowWordsAssumption DEF WindowSize, Bits
      <3>2. \A i \in Bits : i \div WordBits = 0 /\ i % WordBits = i
        BY <3>1, DivModOf
      <3>3. \A i \in Bits : i \notin bits[0]
        BY <2>2, <3>1, <3>2 DEF bit_is_set
      <3>4. QED
        BY <1>0, <3>3
    <2>4. bits' = set_bit(bits, 0)
      BY <1>1, <2>3, SetBitZero, <1>0 DEF Record, Counter
    <2>5. \A d \in 0 .. WindowSize - 1 : bit_is_set(bits', d) <=> d = 0
      BY <1>0, <2>2, <2>4, SetBit
    <2>6. WindowExact'
      BY <1>0, <2>1, <2>5 DEF WindowExact
    <2>7. QED
      BY <1>0, <2>1, <2>4, <2>6, SetBit DEF HighestIsMax, Counter
  <1>2. CASE highest # None /\ c > highest
    <2> DEFINE amount == c - highest
               shifted == shift_older(bits, amount)
    <2>1. /\ highest \in Nat /\ amount \in Nat \ {0} /\ highest' = c
          /\ \A a \in accepted : a \in Nat /\ a <= highest
      BY <1>0, <1>2 DEF Record, HighestIsMax, Counter
    <2>2. shifted \in [Words -> SUBSET Bits]
      BY <2>1, ShiftOlderType
    <2>3. bits' = set_bit(shifted, 0)
      <3>1. bits' = [shifted EXCEPT ![0] = @ \cup {0}]
        BY <1>0, <1>2, <2>1 DEF Record
      <3> HIDE DEF shifted
      <3>2. QED
        BY <2>2, <3>1, SetBitZero
    <2>4. ASSUME NEW d \in 0 .. WindowSize - 1
          PROVE  bit_is_set(bits', d) <=> highest' - d \in accepted'
      <3>1. bit_is_set(bits', d) <=> d = 0 \/ bit_is_set(shifted, d)
        BY <1>0, <2>2, <2>3, SetBit
      <3>2. bit_is_set(shifted, d) <=> d >= amount /\ bit_is_set(bits, d - amount)
        BY <2>1, ShiftOlder
      <3>3. d >= amount => /\ d - amount \in 0 .. WindowSize - 1
                           /\ highest - (d - amount) = highest' - d
        BY <1>0, <2>1
      <3>4. d >= amount => (bit_is_set(bits, d - amount) <=> highest' - d \in accepted)
        BY <3>3 DEF WindowExact
      <3>5. ~ d >= amount => highest' - d \notin accepted
        BY <1>0, <2>1
      <3>6. highest' - d = c <=> d = 0
        BY <1>0, <2>1
      <3> HIDE DEF amount, shifted
      <3>7. QED
        BY <3>1, <3>2, <3>4, <3>5, <3>6
    <2>5. QED
      BY <1>0, <2>1, <2>2, <2>3, <2>4, SetBit DEF HighestIsMax, WindowExact, Counter
  <1>3. CASE highest # None /\ c <= highest
    <2>1. /\ highest \in Nat /\ highest' = highest /\ highest \in accepted
          /\ \A a \in accepted : a \in Nat /\ a <= highest
      BY <1>0, <1>3 DEF Record, HighestIsMax, Counter
    <2>2. highest - c \in 0 .. WindowSize - 1
      BY <1>0, <1>3, <2>1 DEF would_accept
    <2>3. bits' = set_bit(bits, highest - c)
      BY <1>0, <1>3, <2>1 DEF Record
    <2>4. ASSUME NEW d \in 0 .. WindowSize - 1
          PROVE  bit_is_set(bits', d) <=> highest' - d \in accepted'
      <3>1. bit_is_set(bits', d) <=> d = highest - c \/ bit_is_set(bits, d)
        BY <2>2, <2>3, SetBit
      <3>2. d = highest - c <=> highest' - d = c
        BY <1>0, <2>1
      <3>3. bit_is_set(bits, d) <=> highest' - d \in accepted
        BY <2>1 DEF WindowExact
      <3>4. QED
        BY <3>1, <3>2, <3>3
    <2>5. QED
      BY <1>0, <1>3, <2>1, <2>2, <2>3, <2>4, SetBit DEF HighestIsMax, WindowExact, Counter
  <1>4. highest \in Int /\ c \in Int
    BY <1>0 DEF Counter
  <1>5. QED
    BY <1>1, <1>2, <1>3, <1>4

\* The invariant holds initially and every call of mark_authenticated keeps it.
THEOREM WindowInvariant == Spec => []IInv
  <1>1. Init => IInv
    <2>1. SUFFICES ASSUME Init PROVE IInv
      OBVIOUS
    <2>2. TypeOK /\ HighestIsMax
      BY <2>1 DEF Init, TypeOK, HighestIsMax
    <2>3. WindowExact
      BY <2>1, DistanceInArray DEF Init, WindowExact, bit_is_set
    <2>4. QED
      BY <2>2, <2>3 DEF IInv
  <1>2. IInv /\ [Next]_vars => IInv'
    <2>1. SUFFICES ASSUME IInv, [Next]_vars PROVE IInv'
      OBVIOUS
    <2>2. CASE UNCHANGED vars
      BY <2>1, <2>2 DEF vars, IInv, TypeOK, HighestIsMax, WindowExact
    <2>3. ASSUME NEW c \in Counter, mark_authenticated(c) PROVE IInv'
      <3>1. CASE ~ would_accept(c)
        BY <2>1, <2>3, <3>1
           DEF mark_authenticated, IInv, TypeOK, HighestIsMax, WindowExact
      <3>2. CASE would_accept(c)
        <4>1. Record(c) /\ accepted' = accepted \cup {c} /\ verdict' = TRUE
          BY <2>3, <3>2 DEF mark_authenticated
        <4>2. highest' \in Counter /\ bits' \in [Words -> SUBSET Bits]
              /\ HighestIsMax' /\ WindowExact'
          BY <2>1, <3>2, <4>1, RecordExact
        <4>3. QED
          BY <2>1, <4>1, <4>2 DEF IInv, TypeOK
      <3>3. QED
        BY <3>1, <3>2
    <2>4. QED
      BY <2>1, <2>2, <2>3 DEF Next
  <1>3. QED
    BY <1>1, <1>2, PTL DEF Spec

\* The bit array never loses or invents an accepted counter inside the window.
THEOREM BitArrayExact == Spec => []WindowExact
  <1>1. IInv => WindowExact
    BY DEF IInv
  <1>2. QED
    BY <1>1, WindowInvariant, PTL

\* The word-level window implements the abstract replay filter: no counter is
\* ever accepted twice, none a whole window behind, every other one is.
THEOREM ImplementsFilter == Spec => FilterSpec
  <1>1. Init => Filter!FilterInit
    BY DEF Init, Filter!FilterInit
  <1>2. IInv /\ [Next]_vars => [Filter!FilterNext]_(Filter!filterVars)
    <2>1. SUFFICES ASSUME IInv, [Next]_vars
                   PROVE  [Filter!FilterNext]_(Filter!filterVars)
      OBVIOUS
    <2>2. CASE UNCHANGED vars
      BY <2>2 DEF vars, Filter!filterVars
    <2>3. ASSUME NEW c \in Counter, mark_authenticated(c)
          PROVE  Filter!FilterMark(c)
      <3>1. would_accept(c) <=> Filter!WouldAccept(accepted, c)
        BY <2>1, AnswerIsRule
      <3>a. Filter!WouldAccept(accepted, c) \in BOOLEAN
        BY DEF Filter!WouldAccept
      <3>2. CASE would_accept(c)
        BY <2>3, <3>1, <3>a, <3>2 DEF mark_authenticated, Filter!FilterMark
      <3>3. CASE ~ would_accept(c)
        BY <2>3, <3>1, <3>a, <3>3 DEF mark_authenticated, Filter!FilterMark
      <3>4. QED
        BY <3>2, <3>3
    <2>4. QED
      BY <2>1, <2>2, <2>3 DEF Next, Filter!FilterNext, Filter!Counter, Counter
  <1>3. QED
    BY <1>1, <1>2, WindowInvariant, PTL DEF Spec, FilterSpec, Filter!FilterSpec
=============================================================================
