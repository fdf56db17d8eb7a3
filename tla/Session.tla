------------------------------- MODULE Session -------------------------------
(***************************************************************************)
(* src/src/noise.rs: one end of a negotiated transport session.  The two   *)
(* traffic keys are one abstract `key'; the age of a session is counted    *)
(* in ticks and saturates where nothing tells older sessions apart.  The   *)
(* replay window is the set of accepted counters, by the rule ReplayWindow *)
(* is proved to implement.                                                 *)
(***************************************************************************)
EXTENDS ReplayRule, FiniteSets

CONSTANTS
    SessionId,            \* the identifiers a responder draws
    Key,                  \* the keys a handshake can derive
    MaxCounter,           \* u64::MAX in the code
    RekeyAfterTime,       \* REKEY_AFTER_TIME, 120 s
    RejectAfterTime,      \* REJECT_AFTER_TIME, 180 s
    RekeyAfterMessages    \* REKEY_AFTER_MESSAGES, 2^32

ASSUME SessionAssumption ==
    /\ MaxCounter \in Nat \ {0}
    /\ RekeyAfterTime \in Nat \ {0}
    /\ RejectAfterTime \in Nat
    /\ RekeyAfterTime <= RejectAfterTime
    /\ RekeyAfterMessages \in Nat \ {0}

Counter == 0 .. MaxCounter

Session ==
    [id : SessionId, key : Key, age : 0 .. RejectAfterTime, ctr : Counter, seen : SUBSET Counter]

NewSession(id, key) == [id |-> id, key |-> key, age |-> 0, ctr |-> 0, seen |-> {}]

\* received_messages is the number of accepted counters.
should_rekey(s) ==
    \/ s.age >= RekeyAfterTime
    \/ s.ctr >= RekeyAfterMessages
    \/ Cardinality(s.seen) >= RekeyAfterMessages

\* Mutant of is_expired: an exhausted sending counter does not retire the session.
is_expired_by_age_only(s) == s.age >= RejectAfterTime

is_expired(s) == s.age >= RejectAfterTime \/ s.ctr = MaxCounter

Live(slot) == {s \in slot : ~ is_expired(s)}

\* encrypt reserves the counter before it encrypts, so a local failure spends it.
\* Its checked_add fails exactly on the counter that is_expired rejects.
encrypt(s) == [s EXCEPT !.ctr = @ + 1]

\* Mutant of decrypt: the replay window does not advance.
decrypt_unmarked(s, counter) == s

\* decrypt of an authentic packet that passed would_accept.
decrypt(s, counter) == [s EXCEPT !.seen = @ \cup {counter}]

Older(age, limit) == IF age < limit THEN age + 1 ELSE age
=============================================================================
