------------------------------ MODULE ReplayRule ------------------------------
(***************************************************************************)
(* The rule by which src/src/replay.rs accepts a counter, stated on the    *)
(* set of the counters accepted before it.                                 *)
(***************************************************************************)
EXTENDS Integers

CONSTANT WindowSize   \* DEFAULT_WINDOW_SIZE, 4096 in the code

\* would_accept: neither accepted before nor a whole window behind the highest.
WouldAccept(seen, c) ==
    /\ c \notin seen
    /\ \A h \in seen : h - c < WindowSize
=============================================================================
