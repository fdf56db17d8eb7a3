----------------------------- MODULE ReplayFilter -----------------------------
(***************************************************************************)
(* What the anti-replay window of src/src/replay.rs promises, without its  *)
(* bit array: the receiver of one direction of a session keeps the set of  *)
(* the counters it has accepted, and accepts a counter iff it has not      *)
(* accepted it before and it is fewer than WindowSize behind the highest   *)
(* one accepted.  ReplayWindow is shown to implement this specification,   *)
(* and Session uses its rule for the window of a transport session.        *)
(***************************************************************************)
EXTENDS ReplayRule

CONSTANT MaxCounter   \* u64::MAX in the code

Counter == 0 .. MaxCounter

VARIABLES
    accepted,   \* the counters mark_authenticated has returned true for
    verdict     \* what the last call of mark_authenticated returned

filterVars == <<accepted, verdict>>

FilterInit ==
    /\ accepted = {}
    /\ verdict = FALSE

\* One authenticated packet: accepted at most once, and never outside the window.
FilterMark(c) ==
    /\ verdict' = WouldAccept(accepted, c)
    /\ accepted' = IF WouldAccept(accepted, c) THEN accepted \cup {c} ELSE accepted

FilterNext == \E c \in Counter : FilterMark(c)

FilterSpec == FilterInit /\ [][FilterNext]_filterVars
=============================================================================
