--------------------------- MODULE SessionManager ---------------------------
(***************************************************************************)
(* SessionManager of src/src/engine.rs: the cryptographic state a node     *)
(* keeps for each of its peers.  A link <<n, p>> is node n's entry for     *)
(* peer p; a map entry that may be absent is a set with at most one        *)
(* element.  Every operation takes the one mutex once, so each is one      *)
(* atomic action here; a handler that calls several of them is several     *)
(* steps (module Engine).  This module lets the callers interleave the     *)
(* operations in any order with any arguments the Noise library can yield. *)
(***************************************************************************)
EXTENDS Session

CONSTANTS
    Link,              \* the <<node, peer>> pairs of the configurations
    HandshakeId,       \* random handshake identifiers, compared as numbers
    RetryInterval,     \* HANDSHAKE_RETRY_INTERVAL, 5 s
    AttemptLifetime,   \* HANDSHAKE_ATTEMPT_LIFETIME, 30 s
    CacheLifetime,     \* HANDSHAKE_CACHE_LIFETIME, 60 s
    Passive            \* the links whose peer has no configured endpoint

ASSUME ManagerAssumption ==
    /\ HandshakeId \subseteq Nat
    /\ RetryInterval \in Nat \ {0}
    /\ AttemptLifetime \in Nat
    /\ CacheLifetime \in Nat \ {0}
    /\ RetryInterval <= AttemptLifetime
    /\ CacheLifetime <= RejectAfterTime
    /\ Passive \subseteq Link

VARIABLES
    sessions,                      \* the active session: sends and receives
    previous_sessions,             \* the session it replaced: receives only
    responder_candidates,          \* derived from a peer's msg1, not confirmed
    pending_init,                  \* the local exchange waiting for msg2
    responder_cache,               \* the msg2 sent for the candidate
    inbound_recovery_preference,   \* the links invalidated and not recovered
    sealed,                        \* history: every transport frame encrypted
    opened                         \* history: every transport frame accepted

slots == <<sessions, previous_sessions, responder_candidates>>
exchange == <<pending_init, responder_cache, inbound_recovery_preference>>
managerVars == <<slots, exchange, sealed, opened>>

Pending == [hid : HandshakeId, age : 0 .. AttemptLifetime, sinceSent : 0 .. RetryInterval]
CachedResponse ==
    [hid : HandshakeId, id : SessionId, key : Key, age : 0 .. CacheLifetime]
MessageKind == {"data", "probe", "ack"}
Frame == [link : Link, id : SessionId, key : Key, ctr : Counter, kind : MessageKind]
Receipt == [link : Link, key : Key, ctr : Counter]

Table(n) == {l \in Link : l[1] = n}
Reverse(l) == <<l[2], l[1]>>

-----------------------------------------------------------------------------

\* retain(|session| !session.is_expired(now)) on the whole map of node n.
Retain(slot, n) == [l \in Link |-> IF l[1] = n THEN Live(slot[l]) ELSE slot[l]]

Held(l) == sessions[l] \cup previous_sessions[l] \cup responder_candidates[l]

\* Mutant of session_id_in_use: the receive-only sessions are forgotten.
session_id_in_use_not_previous(n, id) ==
    \E l \in Table(n) : \E s \in sessions[l] \cup responder_candidates[l] : s.id = id

session_id_in_use(n, id) == \E l \in Table(n) : \E s \in Held(l) : s.id = id

\* Mutant of install_active_session: the session that is replaced is dropped.
install_active_session_drops(l, active, previous, s) ==
    /\ inbound_recovery_preference' = inbound_recovery_preference \ {l}
    /\ sessions' = [active EXCEPT ![l] = {s}]
    /\ previous_sessions' = previous

\* Mutant of install_active_session: the session that is replaced is not moved but
\* made anew from its keys.
install_active_session_rebuilds(l, active, previous, s) ==
    /\ inbound_recovery_preference' = inbound_recovery_preference \ {l}
    /\ sessions' = [active EXCEPT ![l] = {s}]
    /\ previous_sessions' = [previous EXCEPT ![l] =
          IF active[l] = {} THEN @ ELSE {NewSession(r.id, r.key) : r \in active[l]}]

\* install_active_session on the maps as the caller has left them so far.
install_active_session(l, active, previous, s) ==
    /\ inbound_recovery_preference' = inbound_recovery_preference \ {l}
    /\ sessions' = [active EXCEPT ![l] = {s}]
    /\ previous_sessions' = [previous EXCEPT ![l] = IF active[l] = {} THEN @ ELSE active[l]]

FrameOf(l, s, kind) == [link |-> l, id |-> s.id, key |-> s.key, ctr |-> s.ctr, kind |-> kind]

-----------------------------------------------------------------------------

Empty == [l \in Link |-> {}]

ManagerInit ==
    /\ sessions = Empty
    /\ previous_sessions = Empty
    /\ responder_candidates = Empty
    /\ pending_init = Empty
    /\ responder_cache = Empty
    /\ inbound_recovery_preference = {}
    /\ sealed = {}
    /\ opened = {}

\* encrypt_for_peer that returns a frame.
EncryptFrame(l, kind) ==
    \E s \in Live(sessions[l]) :
        /\ sessions' = [sessions EXCEPT ![l] = {encrypt(s)}]
        /\ sealed' = sealed \cup {FrameOf(l, s, kind)}
        /\ previous_sessions' = Retain(previous_sessions, l[1])
        /\ UNCHANGED <<responder_candidates, exchange, opened>>

\* encrypt_for_peer that returns None: there is no session, or it has expired.
EncryptNone(l) ==
    /\ Live(sessions[l]) = {}
    /\ sessions' = [sessions EXCEPT ![l] = {}]
    /\ previous_sessions' = Retain(previous_sessions, l[1])
    /\ UNCHANGED <<responder_candidates, exchange, sealed, opened>>

\* encrypt_for_peer that fails: the payload does not fit a Noise message.
EncryptError(l) ==
    \E s \in Live(sessions[l]) :
        /\ sessions' = [sessions EXCEPT ![l] = {encrypt(s)}]
        /\ previous_sessions' = Retain(previous_sessions, l[1])
        /\ UNCHANGED <<responder_candidates, exchange, sealed, opened>>

-----------------------------------------------------------------------------

\* The entries of a map of node n whose unexpired session has this identifier.
Find(slot, n, id) == {l \in Table(n) : \E s \in Live(slot[l]) : s.id = id}

\* Session::decrypt succeeds: not a replay, and sealed by the other end under
\* the same key (the two directions of a session have different traffic keys).
Opens(s, l, f) ==
    /\ WouldAccept(s.seen, f.ctr)
    /\ s.key = f.key
    /\ f.link = Reverse(l)

ReceiptOf(l, f) == [link |-> l, key |-> f.key, ctr |-> f.ctr]

\* decrypt_transport finds the frame's session in the active map.
OpenActive(l, f) ==
    /\ l \in Find(sessions, l[1], f.id)
    /\ \E s \in Live(sessions[l]) :
        /\ Opens(s, l, f)
        /\ sessions' = [Retain(sessions, l[1]) EXCEPT ![l] = {decrypt(s, f.ctr)}]
    /\ previous_sessions' = Retain(previous_sessions, l[1])
    /\ responder_candidates' = Retain(responder_candidates, l[1])
    /\ opened' = opened \cup {ReceiptOf(l, f)}
    /\ UNCHANGED <<exchange, sealed>>

\* ... or, failing that, in the map of previous sessions.
OpenPrevious(l, f) ==
    /\ Find(sessions, l[1], f.id) = {}
    /\ l \in Find(previous_sessions, l[1], f.id)
    /\ \E s \in Live(previous_sessions[l]) :
        /\ Opens(s, l, f)
        /\ previous_sessions' =
              [Retain(previous_sessions, l[1]) EXCEPT ![l] = {decrypt(s, f.ctr)}]
    /\ sessions' = Retain(sessions, l[1])
    /\ responder_candidates' = Retain(responder_candidates, l[1])
    /\ opened' = opened \cup {ReceiptOf(l, f)}
    /\ UNCHANGED <<exchange, sealed>>

\* ... or, failing both, among the candidates: the first authentic frame of a
\* candidate makes it the active session.
OpenCandidate(l, f) ==
    /\ Find(sessions, l[1], f.id) = {}
    /\ Find(previous_sessions, l[1], f.id) = {}
    /\ l \in Find(responder_candidates, l[1], f.id)
    /\ \E s \in Live(responder_candidates[l]) :
        /\ Opens(s, l, f)
        /\ install_active_session(l, Retain(sessions, l[1]), Retain(previous_sessions, l[1]),
                                  decrypt(s, f.ctr))
    /\ responder_candidates' = [Retain(responder_candidates, l[1]) EXCEPT ![l] = {}]
    /\ pending_init' = [pending_init EXCEPT ![l] = {}]
    /\ responder_cache' = [responder_cache EXCEPT ![l] = {}]
    /\ opened' = opened \cup {ReceiptOf(l, f)}
    /\ UNCHANGED sealed

\* The map in which decrypt_transport ends its search.
Searched(n, id) ==
    IF Find(sessions, n, id) # {} THEN sessions
    ELSE IF Find(previous_sessions, n, id) # {} THEN previous_sessions
    ELSE responder_candidates

\* decrypt_transport of a frame no session of node n opens: only the expired
\* sessions go.
RejectTransport(n, f) ==
    /\ \A l \in Find(Searched(n, f.id), n, f.id) :
          \E s \in Live(Searched(n, f.id)[l]) : ~ Opens(s, l, f)
    /\ sessions' = Retain(sessions, n)
    /\ previous_sessions' = Retain(previous_sessions, n)
    /\ responder_candidates' = Retain(responder_candidates, n)
    /\ UNCHANGED <<exchange, sealed, opened>>

decrypt_transport(l, f) == OpenActive(l, f) \/ OpenPrevious(l, f) \/ OpenCandidate(l, f)

-----------------------------------------------------------------------------

\* Mutant of store_responder_candidate: the derived session becomes active at once.
store_responder_active(l, id, key, hid) ==
    /\ ~ session_id_in_use(l[1], id)
    /\ pending_init' = [pending_init EXCEPT ![l] = {}]
    /\ install_active_session(l, sessions, previous_sessions, NewSession(id, key))
    /\ UNCHANGED <<responder_candidates, responder_cache, sealed, opened>>

\* Mutant of store_responder_candidate: an exchange that another thread has started
\* since accept_inbound_initiation stays.
store_responder_candidate_raced(l, id, key, hid) ==
    /\ ~ session_id_in_use(l[1], id)
    /\ responder_candidates' = [responder_candidates EXCEPT ![l] = {NewSession(id, key)}]
    /\ responder_cache' = [responder_cache EXCEPT ![l] =
          {[hid |-> hid, id |-> id, key |-> key, age |-> 0]}]
    /\ UNCHANGED <<sessions, previous_sessions, pending_init, inbound_recovery_preference,
                   sealed, opened>>

\* store_responder_candidate of a session whose identifier is free.
store_responder_candidate(l, id, key, hid) ==
    /\ ~ session_id_in_use(l[1], id)
    /\ pending_init' = [pending_init EXCEPT ![l] = {}]
    /\ responder_candidates' = [responder_candidates EXCEPT ![l] = {NewSession(id, key)}]
    /\ responder_cache' = [responder_cache EXCEPT ![l] =
          {[hid |-> hid, id |-> id, key |-> key, age |-> 0]}]
    /\ UNCHANGED <<sessions, previous_sessions, inbound_recovery_preference, sealed, opened>>

\* The cached response cached_responder_response returns, if any.
CacheHit(l, hid) == {c \in responder_cache[l] : c.age < CacheLifetime /\ c.hid = hid}

\* cached_responder_response drops an expired cache together with its candidate.
cached_responder_response(l) ==
    LET expired == \E c \in responder_cache[l] : c.age >= CacheLifetime
    IN  /\ responder_cache' = [responder_cache EXCEPT ![l] = IF expired THEN {} ELSE @]
        /\ responder_candidates' = [responder_candidates EXCEPT ![l] = IF expired THEN {} ELSE @]
        /\ UNCHANGED <<sessions, previous_sessions, pending_init, inbound_recovery_preference,
                       sealed, opened>>

\* The local exchange, unless its attempt has run out.
CurrentAttempt(l) == {p \in pending_init[l] : p.age < AttemptLifetime}

RecoveryPreferred(l) == l \in Passive \cap inbound_recovery_preference

\* What accept_inbound_initiation returns: the exchange with the smaller
\* identifier survives, unless a passive link is recovering.
Accepts(l, remote) == RecoveryPreferred(l) \/ \A p \in CurrentAttempt(l) : p.hid > remote

accept_inbound_initiation(l, remote) ==
    /\ pending_init' = [pending_init EXCEPT ![l] =
          IF Accepts(l, remote) THEN {} ELSE CurrentAttempt(l)]
    /\ inbound_recovery_preference' =
          IF l \in Passive THEN inbound_recovery_preference \ {l} ELSE inbound_recovery_preference
    /\ UNCHANGED <<slots, responder_cache, sealed, opened>>

-----------------------------------------------------------------------------

\* start_or_retry_handshake with an attempt under way: the same msg1 again once
\* the retry interval has passed.
RetryHandshake(l) ==
    \E p \in CurrentAttempt(l) :
        /\ pending_init' = [pending_init EXCEPT ![l] =
              {IF p.sinceSent < RetryInterval THEN p ELSE [p EXCEPT !.sinceSent = 0]}]
        /\ UNCHANGED <<slots, responder_cache, inbound_recovery_preference, sealed, opened>>

\* Whether start_or_retry_handshake, with no attempt under way, opens one.
MayStart(l) ==
    /\ Live(responder_candidates[l]) = {}
    /\ \A s \in Live(sessions[l]) : should_rekey(s)

\* The clean-up start_or_retry_handshake does before it decides: an expired
\* candidate goes with its cache; an active session is looked at, and dropped
\* if expired, only when no candidate is waiting.
DropExpired(l) ==
    /\ responder_candidates' = [responder_candidates EXCEPT ![l] = Live(@)]
    /\ responder_cache' = [responder_cache EXCEPT ![l] =
          IF responder_candidates[l] # Live(responder_candidates[l]) THEN {} ELSE @]
    /\ sessions' = [sessions EXCEPT ![l] =
          IF Live(responder_candidates[l]) = {} THEN Live(@) ELSE @]

\* start_or_retry_handshake that opens a new exchange.
StartHandshake(l, hid) ==
    /\ CurrentAttempt(l) = {}
    /\ MayStart(l)
    /\ DropExpired(l)
    /\ pending_init' = [pending_init EXCEPT ![l] = {[hid |-> hid, age |-> 0, sinceSent |-> 0]}]
    /\ UNCHANGED <<previous_sessions, inbound_recovery_preference, sealed, opened>>

\* start_or_retry_handshake that finds nothing to do.
StartNothing(l) ==
    /\ CurrentAttempt(l) = {}
    /\ ~ MayStart(l)
    /\ DropExpired(l)
    /\ pending_init' = [pending_init EXCEPT ![l] = {}]
    /\ UNCHANGED <<previous_sessions, inbound_recovery_preference, sealed, opened>>

-----------------------------------------------------------------------------

\* Mutant of FinalizeSession: the exchange stays pending, so msg2 can be replayed.
FinalizeSessionStaysPending(l, id, key) ==
    /\ pending_init[l] # {}
    /\ ~ session_id_in_use(l[1], id)
    /\ LET s == NewSession(id, key)
       IN  /\ sealed' = sealed \cup {FrameOf(l, s, "probe")}
           /\ install_active_session(l, sessions, previous_sessions, encrypt(s))
    /\ responder_candidates' = [responder_candidates EXCEPT ![l] = {}]
    /\ responder_cache' = [responder_cache EXCEPT ![l] = {}]
    /\ UNCHANGED <<pending_init, opened>>

\* finalize_initiator of the msg2 that answers the pending exchange: the session
\* becomes active and its counter 0 seals the confirmation.
FinalizeSession(l, id, key) ==
    /\ pending_init[l] # {}
    /\ ~ session_id_in_use(l[1], id)
    /\ LET s == NewSession(id, key)
       IN  /\ sealed' = sealed \cup {FrameOf(l, s, "probe")}
           /\ install_active_session(l, sessions, previous_sessions, encrypt(s))
    /\ pending_init' = [pending_init EXCEPT ![l] = {}]
    /\ responder_candidates' = [responder_candidates EXCEPT ![l] = {}]
    /\ responder_cache' = [responder_cache EXCEPT ![l] = {}]
    /\ UNCHANGED opened

\* finalize_initiator of a msg2 that Noise refuses, or whose session identifier
\* is taken: the pending exchange is already gone.
FinalizeError(l) ==
    /\ pending_init[l] # {}
    /\ pending_init' = [pending_init EXCEPT ![l] = {}]
    /\ UNCHANGED <<slots, responder_cache, inbound_recovery_preference, sealed, opened>>

invalidate_peer(l) ==
    /\ sessions' = [sessions EXCEPT ![l] = {}]
    /\ previous_sessions' = [previous_sessions EXCEPT ![l] = {}]
    /\ responder_candidates' = [responder_candidates EXCEPT ![l] = {}]
    /\ pending_init' = [pending_init EXCEPT ![l] = {}]
    /\ responder_cache' = [responder_cache EXCEPT ![l] = {}]
    /\ inbound_recovery_preference' = inbound_recovery_preference \cup {l}
    /\ UNCHANGED <<sealed, opened>>

\* The process of node n ends and starts again: nothing of this is persistent.
RestartManager(n) ==
    LET Fresh(map) == [l \in Link |-> IF l[1] = n THEN {} ELSE map[l]]
    IN  /\ sessions' = Fresh(sessions)
        /\ previous_sessions' = Fresh(previous_sessions)
        /\ responder_candidates' = Fresh(responder_candidates)
        /\ pending_init' = Fresh(pending_init)
        /\ responder_cache' = Fresh(responder_cache)
        /\ inbound_recovery_preference' = inbound_recovery_preference \ Table(n)
        /\ UNCHANGED <<sealed, opened>>

\* Time passes; an age stops where nothing distinguishes greater ones.
OlderSession(s) == [s EXCEPT !.age = Older(@, RejectAfterTime)]
OlderPending(p) ==
    [p EXCEPT !.age = Older(@, AttemptLifetime), !.sinceSent = Older(@, RetryInterval)]
OlderCached(c) == [c EXCEPT !.age = Older(@, CacheLifetime)]

Age ==
    /\ sessions' = [l \in Link |-> {OlderSession(s) : s \in sessions[l]}]
    /\ previous_sessions' = [l \in Link |-> {OlderSession(s) : s \in previous_sessions[l]}]
    /\ responder_candidates' = [l \in Link |-> {OlderSession(s) : s \in responder_candidates[l]}]
    /\ pending_init' = [l \in Link |-> {OlderPending(p) : p \in pending_init[l]}]
    /\ responder_cache' = [l \in Link |-> {OlderCached(c) : c \in responder_cache[l]}]
    /\ UNCHANGED <<inbound_recovery_preference, sealed, opened>>

-----------------------------------------------------------------------------

\* A key is new to a link if no frame was sealed or accepted with it there and
\* no session holds it.  Every Noise handshake mixes fresh ephemeral keys.
NewKey(l, key) ==
    /\ \A s \in Held(l) : s.key # key
    /\ \A f \in sealed : f.link = l => f.key # key
    /\ \A o \in opened : o.link = l => o.key # key

\* The calls another thread, or the peer, can make for link l.
Operation(l) ==
    \/ \E kind \in MessageKind : EncryptFrame(l, kind)
    \/ EncryptNone(l)
    \/ EncryptError(l)
    \/ \E id \in SessionId, key \in Key, ctr \in 0 .. MaxCounter - 1 :
          LET f == [link |-> Reverse(l), id |-> id, key |-> key, ctr |-> ctr, kind |-> "data"]
          IN  OpenActive(l, f) \/ OpenPrevious(l, f) \/ OpenCandidate(l, f)
                \/ RejectTransport(l[1], f)
    \/ \E id \in SessionId, key \in Key, hid \in HandshakeId :
          NewKey(l, key) /\ store_responder_candidate(l, id, key, hid)
    \/ cached_responder_response(l)
    \/ \E remote \in HandshakeId : accept_inbound_initiation(l, remote)
    \/ RetryHandshake(l)
    \/ \E hid \in HandshakeId : StartHandshake(l, hid)
    \/ StartNothing(l)
    \/ \E id \in SessionId, key \in Key : NewKey(l, key) /\ FinalizeSession(l, id, key)
    \/ FinalizeError(l)
    \/ invalidate_peer(l)

ManagerNext ==
    \/ \E l \in Link : Operation(l)
    \/ \E l \in Link : RestartManager(l[1])
    \/ Age

ManagerSpec == ManagerInit /\ [][ManagerNext]_managerVars

-----------------------------------------------------------------------------

AtMostOne(S) == \A x, y \in S : x = y

\* Type correctness; in particular each slot of a link holds at most one session.
ManagerTypeOK ==
    /\ sessions \in [Link -> SUBSET Session]
    /\ previous_sessions \in [Link -> SUBSET Session]
    /\ responder_candidates \in [Link -> SUBSET Session]
    /\ pending_init \in [Link -> SUBSET Pending]
    /\ responder_cache \in [Link -> SUBSET CachedResponse]
    /\ inbound_recovery_preference \in SUBSET Link
    /\ sealed \in SUBSET Frame
    /\ opened \in SUBSET Receipt
    /\ \A l \in Link : /\ AtMostOne(sessions[l])
                       /\ AtMostOne(previous_sessions[l])
                       /\ AtMostOne(responder_candidates[l])
                       /\ AtMostOne(pending_init[l])
                       /\ AtMostOne(responder_cache[l])

\* A link never has a local exchange and a responder candidate at once, although
\* accept_inbound_initiation, start_or_retry_handshake and
\* store_responder_candidate lock the manager separately: otherwise two fresh
\* sessions would replace each other back-to-back.
PendingExcludesCandidate ==
    \A l \in Link : pending_init[l] = {} \/ responder_candidates[l] = {}

\* The cached msg2 and the candidate name the same session for as long as the
\* cache may be resent: a retransmitted msg1 is never answered with a session
\* the responder no longer holds, and no candidate lives without its cache.
CacheNamesCandidate ==
    \A l \in Link :
        /\ \A c \in responder_cache[l] :
              c.age < CacheLifetime =>
                \E s \in Live(responder_candidates[l]) : s.key = c.key /\ s.id = c.id
        /\ \A s \in responder_candidates[l] :
              \E c \in responder_cache[l] : c.key = s.key /\ c.id = s.id

\* The tables of the handshakes agree.
ExchangeConsistent == PendingExcludesCandidate /\ CacheNamesCandidate

\* The sessions a node holds, over all its peers and the three maps, have
\* different identifiers, so the lookup of decrypt_transport, which stops at the
\* first match of an unordered map, is unambiguous.
SlotsDisjoint ==
    \A l, m \in Link :
        l[1] = m[1] =>
            /\ \A s \in sessions[l] : \A t \in previous_sessions[m] : s.id # t.id
            /\ \A s \in sessions[l] : \A t \in responder_candidates[m] : s.id # t.id
            /\ \A s \in previous_sessions[l] : \A t \in responder_candidates[m] : s.id # t.id
            /\ l # m => /\ \A s \in sessions[l], t \in sessions[m] : s.id # t.id
                        /\ \A s \in previous_sessions[l], t \in previous_sessions[m] : s.id # t.id
                        /\ \A s \in responder_candidates[l], t \in responder_candidates[m] :
                              s.id # t.id

\* No nonce is used twice: the next counter of a session is beyond every counter
\* sealed with its key by this end, wherever rekeys have moved the session and
\* whichever encryptions failed; and the last counter is never used.
NonceNeverReused ==
    /\ \A l \in Link : \A s \in Held(l), f \in sealed :
          f.link = l /\ f.key = s.key => f.ctr < s.ctr
    /\ \A f \in sealed : f.ctr < MaxCounter

\* Every counter accepted with the key of a session this end still holds is in
\* that session's replay window, also after the session was promoted or replaced.
AcceptedOnce ==
    \A l \in Link : \A s \in Held(l), o \in opened :
        o.link = l /\ o.key = s.key => o.ctr \in s.seen
=============================================================================
