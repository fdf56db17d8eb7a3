----------------------------- MODULE ReplayWindow -----------------------------
(***************************************************************************)
(* src/src/replay.rs: the sliding window of one direction of a transport   *)
(* session, at the level of its array of machine words.  A word is the set *)
(* of the positions of its one-bits; bit zero of word zero stands for      *)
(* `highest', the next one for `highest - 1', and so on.                   *)
(***************************************************************************)
EXTENDS Integers

CONSTANTS
    WordBits,      \* WORD_BITS, 64 in the code
    WindowWords,   \* WINDOW_WORDS, 64 in the code
    MaxCounter     \* u64::MAX in the code

ASSUME WordBitsAssumption == WordBits \in Nat \ {0}
ASSUME WindowWordsAssumption == WindowWords \in Nat \ {0}
ASSUME CounterWidthAssumption == MaxCounter \in Nat \ {0}

WindowSize == WordBits * WindowWords
Words == 0 .. WindowWords - 1
Bits == 0 .. WordBits - 1
Counter == 0 .. MaxCounter
None == -1     \* `highest' of a window that has accepted nothing

VARIABLES
    highest,    \* Option<u64>
    bits,       \* [u64; WINDOW_WORDS]
    accepted,   \* history: the counters accepted so far
    verdict     \* what the last mark_authenticated returned

vars == <<highest, bits, accepted, verdict>>

-----------------------------------------------------------------------------

bit_is_set(b, distance) == (distance % WordBits) \in b[distance \div WordBits]

set_bit(b, distance) ==
    [b EXCEPT ![distance \div WordBits] = @ \cup {distance % WordBits}]

\* value << n and value >> n on one word: the bits that fall off are lost.
ShiftLeft(value, n) == {i + n : i \in value} \cap Bits
ShiftRight(value, n) == {i - n : i \in value} \cap Bits

\* Mutant of shift_older: the bits carried into the next word are dropped.
shift_older_no_carry(b, amount) ==
    IF amount >= WindowSize
    THEN [w \in Words |-> {}]
    ELSE [w \in Words |->
             IF w - (amount \div WordBits) \in Words
             THEN ShiftLeft(b[w - (amount \div WordBits)], amount % WordBits)
             ELSE {}]

\* Moves every bit `amount' places towards the older end.  The loop of the code
\* writes every source word into its destination word and the word after it;
\* word w therefore collects from the sources word_shift and word_shift + 1
\* places below it.
shift_older(b, amount) ==
    IF amount >= WindowSize
    THEN [w \in Words |-> {}]
    ELSE LET word_shift == amount \div WordBits
             bit_shift == amount % WordBits
             From(w) == IF w \in Words THEN b[w] ELSE {}
         IN  [w \in Words |->
                 ShiftLeft(From(w - word_shift), bit_shift)
                   \cup IF bit_shift = 0 THEN {}
                        ELSE ShiftRight(From(w - word_shift - 1), WordBits - bit_shift)]

would_accept(counter) ==
    highest # None /\ counter <= highest =>
        /\ highest - counter < WindowSize
        /\ ~ bit_is_set(bits, highest - counter)

-----------------------------------------------------------------------------

Init ==
    /\ highest = None
    /\ bits = [w \in Words |-> {}]
    /\ accepted = {}
    /\ verdict = FALSE

\* The window after `counter' passed would_accept.
Record(counter) ==
    \/ /\ highest = None
       /\ highest' = counter
       /\ bits' = [bits EXCEPT ![0] = {0}]
    \/ /\ highest # None
       /\ counter > highest
       /\ highest' = counter
       /\ bits' = LET shifted == shift_older(bits, counter - highest)
                  IN  [shifted EXCEPT ![0] = @ \cup {0}]
    \/ /\ highest # None
       /\ counter <= highest
       /\ highest' = highest
       /\ bits' = set_bit(bits, highest - counter)

mark_authenticated(counter) ==
    \/ /\ ~ would_accept(counter)
       /\ verdict' = FALSE
       /\ UNCHANGED <<highest, bits, accepted>>
    \/ /\ would_accept(counter)
       /\ Record(counter)
       /\ verdict' = TRUE
       /\ accepted' = accepted \cup {counter}

Next == \E counter \in Counter : mark_authenticated(counter)

Spec == Init /\ [][Next]_vars

-----------------------------------------------------------------------------

\* Type correctness of the window.
TypeOK ==
    /\ highest \in Counter \cup {None}
    /\ bits \in [Words -> SUBSET Bits]
    /\ accepted \in SUBSET Counter
    /\ verdict \in BOOLEAN

\* `highest' is the highest counter accepted.
HighestIsMax ==
    /\ highest = None => accepted = {}
    /\ highest # None => highest \in accepted /\ \A c \in accepted : c <= highest

\* The bit array is exactly the accepted counters inside the window: after any
\* run of in-order, reordered and far-ahead counters the bit at each distance is
\* set iff the counter at that distance behind `highest' was accepted, whichever
\* words and word boundaries the shifts of shift_older carried it across.
WindowExact ==
    \A d \in 0 .. WindowSize - 1 : bit_is_set(bits, d) <=> highest - d \in accepted

\* The inductive invariant.
IInv == TypeOK /\ HighestIsMax /\ WindowExact

Filter == INSTANCE ReplayFilter WITH accepted <- accepted, verdict <- verdict

\* Every call of mark_authenticated answers and records what the abstract filter
\* does: each counter is accepted at most once, none that is a whole window
\* behind the highest, and every other one is accepted.
FilterSpec == Filter!FilterSpec
=============================================================================
