------------------------ MODULE SessionManagerProofs ------------------------
(***************************************************************************)
(* Invariants of SessionManager for every set of links, identifiers and    *)
(* keys, every counter width and every order of the timers, whatever the   *)
(* interleaving of the operations that lock the manager.                   *)
(***************************************************************************)
EXTENDS SessionManager, TLAPS

-----------------------------------------------------------------------------
(* Types                                                                   *)

\* One of the five maps of the manager: at most one entry for each link.
MapType(map, S) == map \in [Link -> SUBSET S] /\ \A l \in Link : AtMostOne(map[l])

\* Encrypting with a session that has not expired stays within the counter.
LEMMA EncryptType ==
    ASSUME NEW s \in Session, ~ is_expired(s)
    PROVE  /\ encrypt(s) \in Session
           /\ encrypt(s).ctr = s.ctr + 1
           /\ encrypt(s).id = s.id
           /\ encrypt(s).key = s.key
           /\ encrypt(s).seen = s.seen
           /\ s.ctr < MaxCounter
BY SessionAssumption DEF Session, is_expired, encrypt, Counter

\* Accepting a counter changes nothing but the replay window.
LEMMA DecryptType ==
    ASSUME NEW s \in Session, NEW c \in Counter
    PROVE  /\ decrypt(s, c) \in Session
           /\ decrypt(s, c).seen = s.seen \cup {c}
           /\ decrypt(s, c).id = s.id
           /\ decrypt(s, c).key = s.key
           /\ decrypt(s, c).ctr = s.ctr
BY DEF Session, decrypt

\* A fresh session has sent and received nothing.
LEMMA NewType ==
    ASSUME NEW id \in SessionId, NEW key \in Key
    PROVE  /\ NewSession(id, key) \in Session
           /\ NewSession(id, key).id = id
           /\ NewSession(id, key).key = key
           /\ NewSession(id, key).ctr = 0
           /\ NewSession(id, key).age = 0
           /\ NewSession(id, key).seen = {}
           /\ ~ is_expired(NewSession(id, key))
BY SessionAssumption DEF Session, NewSession, Counter, is_expired

\* Retaining the unexpired sessions of a node removes entries and adds none.
LEMMA RetainSubset ==
    ASSUME NEW slot \in [Link -> SUBSET Session], NEW n
    PROVE  /\ Retain(slot, n) \in [Link -> SUBSET Session]
           /\ \A l \in Link : Retain(slot, n)[l] \subseteq slot[l]
           /\ \A l \in Link : Live(slot[l]) \subseteq slot[l]
BY DEF Retain, Live

\* ... so the map keeps its type.
LEMMA RetainType ==
    ASSUME NEW slot, MapType(slot, Session), NEW n
    PROVE  MapType(Retain(slot, n), Session)
BY RetainSubset DEF MapType, AtMostOne

\* Removing or replacing the entry of a link keeps a map's type.
LEMMA UpdateType ==
    ASSUME NEW S, NEW map, MapType(map, S), NEW l \in Link
    PROVE  /\ MapType([map EXCEPT ![l] = {}], S)
           /\ \A s \in S : MapType([map EXCEPT ![l] = {s}], S)
           /\ \A T \in SUBSET map[l] : MapType([map EXCEPT ![l] = T], S)
BY DEF MapType, AtMostOne

\* Time changes only ages, within their bounds.
LEMMA OlderTypes ==
    /\ \A s \in Session : /\ OlderSession(s) \in Session
                          /\ OlderSession(s).id = s.id
                          /\ OlderSession(s).key = s.key
                          /\ OlderSession(s).ctr = s.ctr
                          /\ OlderSession(s).seen = s.seen
                          /\ OlderSession(s).age = Older(s.age, RejectAfterTime)
    /\ \A p \in Pending : OlderPending(p) \in Pending
    /\ \A c \in CachedResponse : /\ OlderCached(c) \in CachedResponse
                                 /\ OlderCached(c).id = c.id
                                 /\ OlderCached(c).key = c.key
                                 /\ OlderCached(c).age = Older(c.age, CacheLifetime)
<1>1. \A s \in Session : /\ OlderSession(s) \in Session
                         /\ OlderSession(s).id = s.id
                         /\ OlderSession(s).key = s.key
                         /\ OlderSession(s).ctr = s.ctr
                         /\ OlderSession(s).seen = s.seen
                         /\ OlderSession(s).age = Older(s.age, RejectAfterTime)
    BY SessionAssumption DEF Session, OlderSession, Older
<1>2. ASSUME NEW p \in Pending PROVE OlderPending(p) \in Pending
    <2>1. Older(p.age, AttemptLifetime) \in 0 .. AttemptLifetime
        BY ManagerAssumption DEF Pending, Older
    <2>2. Older(p.sinceSent, RetryInterval) \in 0 .. RetryInterval
        BY ManagerAssumption DEF Pending, Older
    <2> QED BY <2>1, <2>2 DEF Pending, OlderPending
<1>3. \A c \in CachedResponse : /\ OlderCached(c) \in CachedResponse
                                /\ OlderCached(c).id = c.id
                                /\ OlderCached(c).key = c.key
                                /\ OlderCached(c).age = Older(c.age, CacheLifetime)
    BY ManagerAssumption DEF CachedResponse, OlderCached, Older
<1> QED BY <1>1, <1>2, <1>3

\* The type invariant, with the five maps treated alike.
LEMMA TypeAsMaps ==
    ManagerTypeOK <=>
        /\ MapType(sessions, Session)
        /\ MapType(previous_sessions, Session)
        /\ MapType(responder_candidates, Session)
        /\ MapType(pending_init, Pending)
        /\ MapType(responder_cache, CachedResponse)
        /\ inbound_recovery_preference \in SUBSET Link
        /\ sealed \in SUBSET Frame
        /\ opened \in SUBSET Receipt
BY DEF ManagerTypeOK, MapType

\* Any way of giving the five maps and the histories their types restores the
\* invariant after a step.
LEMMA TypeNext ==
    ASSUME MapType(sessions', Session),
           MapType(previous_sessions', Session),
           MapType(responder_candidates', Session),
           MapType(pending_init', Pending),
           MapType(responder_cache', CachedResponse),
           inbound_recovery_preference' \in SUBSET Link,
           sealed' \in SUBSET Frame,
           opened' \in SUBSET Receipt
    PROVE  ManagerTypeOK'
BY DEF ManagerTypeOK, MapType

\* Every operation on a link, every restart and the passing of time keep the types.
LEMMA TypeStep ==
    ManagerTypeOK /\ [ManagerNext]_managerVars => ManagerTypeOK'
<1> SUFFICES ASSUME ManagerTypeOK, [ManagerNext]_managerVars
             PROVE  ManagerTypeOK'
    OBVIOUS
<1>0. /\ MapType(sessions, Session)
      /\ MapType(previous_sessions, Session)
      /\ MapType(responder_candidates, Session)
      /\ MapType(pending_init, Pending)
      /\ MapType(responder_cache, CachedResponse)
      /\ inbound_recovery_preference \in SUBSET Link
      /\ sealed \in SUBSET Frame
      /\ opened \in SUBSET Receipt
    BY TypeAsMaps
<1>h. \A l \in Link, s \in Session, kind \in MessageKind : FrameOf(l, s, kind) \in Frame
    BY DEF FrameOf, Frame, Session
<1>1. ASSUME NEW l \in Link, NEW kind \in MessageKind, EncryptFrame(l, kind)
      PROVE  ManagerTypeOK'
    <2>1. PICK s \in Live(sessions[l]) :
              /\ sessions' = [sessions EXCEPT ![l] = {encrypt(s)}]
              /\ sealed' = sealed \cup {FrameOf(l, s, kind)}
              /\ previous_sessions' = Retain(previous_sessions, l[1])
              /\ UNCHANGED <<responder_candidates, exchange, opened>>
        BY <1>1 DEF EncryptFrame
    <2>2. s \in Session /\ encrypt(s) \in Session
        BY <1>0, EncryptType DEF Live, MapType
    <2>3. MapType(sessions', Session)
        BY <1>0, <2>1, <2>2, UpdateType
    <2>4. MapType(previous_sessions', Session)
        BY <1>0, <2>1, RetainType
    <2>5. sealed' \in SUBSET Frame
        BY <1>0, <1>h, <2>1, <2>2
    <2> QED BY <1>0, <2>1, <2>3, <2>4, <2>5, TypeNext DEF exchange
<1>2. ASSUME NEW l \in Link, EncryptNone(l) PROVE ManagerTypeOK'
    <2>1. MapType(sessions', Session)
        BY <1>0, <1>2, UpdateType DEF EncryptNone
    <2>2. MapType(previous_sessions', Session)
        BY <1>0, <1>2, RetainType DEF EncryptNone
    <2> QED BY <1>0, <1>2, <2>1, <2>2, TypeNext DEF EncryptNone, exchange
<1>3. ASSUME NEW l \in Link, EncryptError(l) PROVE ManagerTypeOK'
    <2>1. PICK s \in Live(sessions[l]) :
              /\ sessions' = [sessions EXCEPT ![l] = {encrypt(s)}]
              /\ previous_sessions' = Retain(previous_sessions, l[1])
              /\ UNCHANGED <<responder_candidates, exchange, sealed, opened>>
        BY <1>3 DEF EncryptError
    <2>2. encrypt(s) \in Session
        BY <1>0, EncryptType DEF Live, MapType
    <2>3. MapType(sessions', Session)
        BY <1>0, <2>1, <2>2, UpdateType
    <2>4. MapType(previous_sessions', Session)
        BY <1>0, <2>1, RetainType
    <2> QED BY <1>0, <2>1, <2>3, <2>4, TypeNext DEF exchange
<1>4. ASSUME NEW l \in Link, NEW id \in SessionId, NEW key \in Key,
             NEW ctr \in 0 .. MaxCounter - 1, NEW f,
             f = [link |-> Reverse(l), id |-> id, key |-> key, ctr |-> ctr, kind |-> "data"],
             OpenActive(l, f) \/ OpenPrevious(l, f) \/ OpenCandidate(l, f)
               \/ RejectTransport(l[1], f)
      PROVE ManagerTypeOK'
    <2>1. f.ctr \in Counter /\ f.key \in Key
        BY <1>4, SessionAssumption DEF Counter
    <2>2. opened \cup {ReceiptOf(l, f)} \in SUBSET Receipt
        BY <1>0, <2>1 DEF ReceiptOf, Receipt
    <2>3. /\ MapType(Retain(sessions, l[1]), Session)
          /\ MapType(Retain(previous_sessions, l[1]), Session)
          /\ MapType(Retain(responder_candidates, l[1]), Session)
        BY <1>0, RetainType
    <2>4. \A s \in sessions[l] \cup previous_sessions[l] \cup responder_candidates[l] :
              decrypt(s, f.ctr) \in Session
        BY <1>0, <2>1, DecryptType DEF MapType
    <2>5. CASE OpenActive(l, f)
        <3>1. PICK s \in Live(sessions[l]) :
                  sessions' = [Retain(sessions, l[1]) EXCEPT ![l] = {decrypt(s, f.ctr)}]
            BY <2>5 DEF OpenActive
        <3>2. decrypt(s, f.ctr) \in Session
            BY <2>4 DEF Live
        <3>3. MapType(sessions', Session)
            BY <2>3, <3>1, <3>2, UpdateType
        <3> QED BY <1>0, <2>2, <2>3, <2>5, <3>3, TypeNext DEF OpenActive, exchange
    <2>6. CASE OpenPrevious(l, f)
        <3>1. PICK s \in Live(previous_sessions[l]) :
                  previous_sessions' =
                      [Retain(previous_sessions, l[1]) EXCEPT ![l] = {decrypt(s, f.ctr)}]
            BY <2>6 DEF OpenPrevious
        <3>2. decrypt(s, f.ctr) \in Session
            BY <2>4 DEF Live
        <3>3. MapType(previous_sessions', Session)
            BY <2>3, <3>1, <3>2, UpdateType
        <3> QED BY <1>0, <2>2, <2>3, <2>6, <3>3, TypeNext DEF OpenPrevious, exchange
    <2>7. CASE OpenCandidate(l, f)
        <3>1. PICK s \in Live(responder_candidates[l]) :
                  install_active_session(l, Retain(sessions, l[1]),
                                         Retain(previous_sessions, l[1]), decrypt(s, f.ctr))
            BY <2>7 DEF OpenCandidate
        <3>2. decrypt(s, f.ctr) \in Session
            BY <2>4 DEF Live
        <3>3. /\ MapType(sessions', Session)
              /\ inbound_recovery_preference' \in SUBSET Link
            BY <1>0, <2>3, <3>1, <3>2, UpdateType DEF install_active_session
        <3>4. MapType(previous_sessions', Session)
            BY <2>3, <3>1 DEF install_active_session, MapType, AtMostOne
        <3>5. /\ MapType(responder_candidates', Session)
              /\ MapType(pending_init', Pending)
              /\ MapType(responder_cache', CachedResponse)
            BY <1>0, <2>3, <2>7, UpdateType DEF OpenCandidate
        <3> QED BY <1>0, <2>2, <2>7, <3>3, <3>4, <3>5, TypeNext DEF OpenCandidate
    <2>8. CASE RejectTransport(l[1], f)
        BY <1>0, <2>3, <2>8, TypeNext DEF RejectTransport, exchange
    <2> QED BY <1>4, <2>5, <2>6, <2>7, <2>8
<1>5. ASSUME NEW l \in Link, NEW id \in SessionId, NEW key \in Key, NEW hid \in HandshakeId,
             store_responder_candidate(l, id, key, hid)
      PROVE ManagerTypeOK'
    <2>1. [hid |-> hid, id |-> id, key |-> key, age |-> 0] \in CachedResponse
        BY ManagerAssumption DEF CachedResponse
    <2>2. MapType(responder_cache', CachedResponse)
        BY <1>0, <1>5, <2>1, UpdateType DEF store_responder_candidate
    <2>3. MapType(responder_candidates', Session)
        BY <1>0, <1>5, NewType, UpdateType DEF store_responder_candidate
    <2>4. MapType(pending_init', Pending)
        BY <1>0, <1>5, UpdateType DEF store_responder_candidate
    <2> QED BY <1>0, <1>5, <2>2, <2>3, <2>4, TypeNext DEF store_responder_candidate
<1>6. ASSUME NEW l \in Link, cached_responder_response(l) PROVE ManagerTypeOK'
    <2>1. /\ MapType(responder_cache', CachedResponse)
          /\ MapType(responder_candidates', Session)
        BY <1>0, <1>6 DEF cached_responder_response, MapType, AtMostOne
    <2> QED BY <1>0, <1>6, <2>1, TypeNext DEF cached_responder_response
<1>7. ASSUME NEW l \in Link, NEW remote \in HandshakeId, accept_inbound_initiation(l, remote)
      PROVE ManagerTypeOK'
    <2>1. MapType(pending_init', Pending)
        BY <1>0, <1>7 DEF accept_inbound_initiation, CurrentAttempt, MapType, AtMostOne
    <2>2. inbound_recovery_preference' \in SUBSET Link
        BY <1>0, <1>7 DEF accept_inbound_initiation
    <2> QED BY <1>0, <1>7, <2>1, <2>2, TypeNext DEF accept_inbound_initiation, slots
<1>8. ASSUME NEW l \in Link, RetryHandshake(l) PROVE ManagerTypeOK'
    <2>1. PICK p \in CurrentAttempt(l) :
              pending_init' = [pending_init EXCEPT ![l] =
                  {IF p.sinceSent < RetryInterval THEN p ELSE [p EXCEPT !.sinceSent = 0]}]
        BY <1>8 DEF RetryHandshake
    <2>2. p \in Pending
        BY <1>0 DEF CurrentAttempt, MapType
    <2>3. (IF p.sinceSent < RetryInterval THEN p ELSE [p EXCEPT !.sinceSent = 0]) \in Pending
        BY <2>2, ManagerAssumption DEF Pending
    <2>4. MapType(pending_init', Pending)
        BY <1>0, <2>1, <2>3, UpdateType
    <2> QED BY <1>0, <1>8, <2>4, TypeNext DEF RetryHandshake, slots
<1>9. ASSUME NEW l \in Link, DropExpired(l)
      PROVE /\ MapType(sessions', Session)
            /\ MapType(responder_candidates', Session)
            /\ MapType(responder_cache', CachedResponse)
    BY <1>0, <1>9 DEF DropExpired, Live, MapType, AtMostOne
<1>10. ASSUME NEW l \in Link, NEW hid \in HandshakeId, StartHandshake(l, hid)
       PROVE ManagerTypeOK'
    <2>1. [hid |-> hid, age |-> 0, sinceSent |-> 0] \in Pending
        BY ManagerAssumption DEF Pending
    <2>2. MapType(pending_init', Pending)
        BY <1>0, <1>10, <2>1, UpdateType DEF StartHandshake
    <2> QED BY <1>0, <1>9, <1>10, <2>2, TypeNext DEF StartHandshake
<1>11. ASSUME NEW l \in Link, StartNothing(l) PROVE ManagerTypeOK'
    <2>1. MapType(pending_init', Pending)
        BY <1>0, <1>11, UpdateType DEF StartNothing
    <2> QED BY <1>0, <1>9, <1>11, <2>1, TypeNext DEF StartNothing
<1>12. ASSUME NEW l \in Link, NEW id \in SessionId, NEW key \in Key,
              FinalizeSession(l, id, key)
       PROVE ManagerTypeOK'
    <2> DEFINE s == NewSession(id, key)
    <2>1. s \in Session /\ encrypt(s) \in Session
        BY NewType, EncryptType
    <2>2. /\ sealed' = sealed \cup {FrameOf(l, s, "probe")}
          /\ install_active_session(l, sessions, previous_sessions, encrypt(s))
        BY <1>12 DEF FinalizeSession
    <2> HIDE DEF s
    <2>3. sealed' \in SUBSET Frame
        BY <1>0, <1>h, <2>1, <2>2 DEF MessageKind
    <2>4. /\ MapType(sessions', Session)
          /\ inbound_recovery_preference' \in SUBSET Link
        BY <1>0, <2>1, <2>2, UpdateType DEF install_active_session
    <2>5. MapType(previous_sessions', Session)
        BY <1>0, <2>2 DEF install_active_session, MapType, AtMostOne
    <2>6. /\ MapType(responder_candidates', Session)
          /\ MapType(pending_init', Pending)
          /\ MapType(responder_cache', CachedResponse)
        BY <1>0, <1>12, UpdateType DEF FinalizeSession
    <2> QED BY <1>0, <1>12, <2>3, <2>4, <2>5, <2>6, TypeNext DEF FinalizeSession
<1>13. ASSUME NEW l \in Link, FinalizeError(l) PROVE ManagerTypeOK'
    <2>1. MapType(pending_init', Pending)
        BY <1>0, <1>13, UpdateType DEF FinalizeError
    <2> QED BY <1>0, <1>13, <2>1, TypeNext DEF FinalizeError, slots
<1>14. ASSUME NEW l \in Link, invalidate_peer(l) PROVE ManagerTypeOK'
    <2>1. /\ MapType(sessions', Session)
          /\ MapType(previous_sessions', Session)
          /\ MapType(responder_candidates', Session)
          /\ MapType(pending_init', Pending)
          /\ MapType(responder_cache', CachedResponse)
        BY <1>0, <1>14, UpdateType DEF invalidate_peer
    <2> QED BY <1>0, <1>14, <2>1, TypeNext DEF invalidate_peer
<1>15. ASSUME NEW l \in Link, RestartManager(l[1]) PROVE ManagerTypeOK'
    <2>1. /\ MapType(sessions', Session)
          /\ MapType(previous_sessions', Session)
          /\ MapType(responder_candidates', Session)
        BY <1>0, <1>15 DEF RestartManager, MapType, AtMostOne
    <2>2. /\ MapType(pending_init', Pending)
          /\ MapType(responder_cache', CachedResponse)
        BY <1>0, <1>15 DEF RestartManager, MapType, AtMostOne
    <2> QED BY <1>0, <1>15, <2>1, <2>2, TypeNext DEF RestartManager
<1>16. ASSUME Age PROVE ManagerTypeOK'
    <2>1. \A s \in Session : OlderSession(s) \in Session
        BY OlderTypes
    <2>2. /\ MapType(sessions', Session)
          /\ MapType(previous_sessions', Session)
          /\ MapType(responder_candidates', Session)
        BY <1>0, <1>16, <2>1 DEF Age, MapType, AtMostOne
    <2>3. MapType(pending_init', Pending)
        BY <1>0, <1>16, OlderTypes DEF Age, MapType, AtMostOne
    <2>4. MapType(responder_cache', CachedResponse)
        BY <1>0, <1>16, OlderTypes DEF Age, MapType, AtMostOne
    <2> QED BY <1>0, <1>16, <2>2, <2>3, <2>4, TypeNext DEF Age
<1>17. CASE UNCHANGED managerVars
    BY <1>0, <1>17, TypeNext DEF managerVars, slots, exchange
<1>18. ASSUME NEW l \in Link, Operation(l) PROVE ManagerTypeOK'
    BY <1>1, <1>2, <1>3, <1>4, <1>5, <1>6, <1>7, <1>8, <1>10, <1>11, <1>12, <1>13, <1>14, <1>18
       DEF Operation
<1> QED BY <1>15, <1>16, <1>17, <1>18 DEF ManagerNext

\* The state of the manager keeps its types; every map has at most one entry a link.
THEOREM ManagerTypes == ManagerSpec => []ManagerTypeOK
<1>1. ManagerInit => ManagerTypeOK
    BY DEF ManagerInit, Empty, ManagerTypeOK, AtMostOne
<1> QED BY <1>1, TypeStep, PTL DEF ManagerSpec

-----------------------------------------------------------------------------
(* The exchange: pending, candidate and cache                              *)

\* What the cache and the candidate of one link have to do with each other: the
\* candidate has sent nothing, its response is cached, and while that response
\* may be resent the candidate is of the same age.
CacheMatches(candidates, cache) ==
    /\ \A s \in candidates : s.ctr = 0 /\ \E c \in cache : c.key = s.key /\ c.id = s.id
    /\ \A c \in cache :
          c.age < CacheLifetime =>
              \E s \in candidates : s.key = c.key /\ s.id = c.id /\ s.age = c.age

\* The inductive invariant of the exchange.
ExchangeInv ==
    \A l \in Link :
        /\ pending_init[l] = {} \/ responder_candidates[l] = {}
        /\ CacheMatches(responder_candidates[l], responder_cache[l])

\* The candidates that expire have outlived the cache of their response.
LEMMA LiveMatches ==
    ASSUME NEW S \in SUBSET Session, NEW C \in SUBSET CachedResponse, CacheMatches(S, C)
    PROVE  CacheMatches(Live(S), C)
<1>1. ASSUME NEW s \in S, s.age < CacheLifetime PROVE s \in Live(S)
    BY <1>1, SessionAssumption, ManagerAssumption DEF Live, is_expired, Session, CacheMatches
<1>2. \A s \in Live(S) : s \in S
    BY DEF Live
<1>3. ASSUME NEW c \in C, c.age < CacheLifetime
      PROVE  \E s \in Live(S) : s.key = c.key /\ s.id = c.id /\ s.age = c.age
    BY <1>1, <1>3 DEF CacheMatches
<1> QED BY <1>2, <1>3 DEF CacheMatches

\* Time keeps the ages of a candidate and of its fresh cache equal.
LEMMA OlderMatches ==
    ASSUME NEW S \in SUBSET Session, NEW C \in SUBSET CachedResponse, CacheMatches(S, C)
    PROVE  CacheMatches({OlderSession(s) : s \in S}, {OlderCached(c) : c \in C})
<1> DEFINE S1 == {OlderSession(s) : s \in S}
           C1 == {OlderCached(c) : c \in C}
<1>1. ASSUME NEW t \in S1 PROVE t.ctr = 0 /\ \E c \in C1 : c.key = t.key /\ c.id = t.id
    <2>1. PICK s \in S : t = OlderSession(s)
        OBVIOUS
    <2>2. PICK c \in C : c.key = s.key /\ c.id = s.id
        BY DEF CacheMatches
    <2>3. s.ctr = 0
        BY DEF CacheMatches
    <2>4. /\ t.ctr = 0
          /\ OlderCached(c) \in C1
          /\ OlderCached(c).key = t.key
          /\ OlderCached(c).id = t.id
        BY <2>1, <2>2, <2>3, OlderTypes
    <2> QED BY <2>4
<1>2. ASSUME NEW d \in C1, d.age < CacheLifetime
      PROVE  \E t \in S1 : t.key = d.key /\ t.id = d.id /\ t.age = d.age
    <2>1. PICK c \in C : d = OlderCached(c)
        OBVIOUS
    <2>2. d.key = c.key /\ d.id = c.id /\ d.age = Older(c.age, CacheLifetime)
        BY <2>1, OlderTypes
    <2>3. c.age \in Nat /\ c.age < CacheLifetime /\ d.age = c.age + 1 /\ c.age < RejectAfterTime
        BY <1>2, <2>2, ManagerAssumption, SessionAssumption DEF Older, CachedResponse
    <2>4. PICK s \in S : s.key = c.key /\ s.id = c.id /\ s.age = c.age
        BY <2>3 DEF CacheMatches
    <2>5. /\ OlderSession(s) \in S1
          /\ OlderSession(s).key = d.key
          /\ OlderSession(s).id = d.id
          /\ OlderSession(s).age = d.age
        BY <2>2, <2>3, <2>4, OlderTypes DEF Older
    <2> QED BY <2>5
<1> QED BY <1>1, <1>2 DEF CacheMatches

\* Every step keeps the exchange of every link in order.
LEMMA ExchangeStep ==
    ManagerTypeOK /\ ExchangeInv /\ [ManagerNext]_managerVars => ExchangeInv'
<1> SUFFICES ASSUME ManagerTypeOK, ExchangeInv, [ManagerNext]_managerVars, NEW m \in Link
             PROVE  /\ pending_init'[m] = {} \/ responder_candidates'[m] = {}
                    /\ CacheMatches(responder_candidates'[m], responder_cache'[m])
    BY DEF ExchangeInv
<1> DEFINE Goal == /\ pending_init'[m] = {} \/ responder_candidates'[m] = {}
                   /\ CacheMatches(responder_candidates'[m], responder_cache'[m])
<1>0. /\ responder_candidates \in [Link -> SUBSET Session]
      /\ responder_cache \in [Link -> SUBSET CachedResponse]
      /\ pending_init \in [Link -> SUBSET Pending]
    BY DEF ManagerTypeOK
<1>a. /\ pending_init[m] = {} \/ responder_candidates[m] = {}
      /\ CacheMatches(responder_candidates[m], responder_cache[m])
    BY DEF ExchangeInv
<1>b. CacheMatches({}, {})
    BY DEF CacheMatches
<1>c. CacheMatches(Live(responder_candidates[m]), responder_cache[m])
    BY <1>0, <1>a, LiveMatches
<1>d. Live(responder_candidates[m]) \subseteq responder_candidates[m]
    BY DEF Live
<1> HIDE DEF Goal
\* A step that leaves the exchange of m as it is, or drops its expired candidate.
<1>e. ASSUME pending_init'[m] \in {pending_init[m], {}},
             responder_candidates'[m] \in {responder_candidates[m], Live(responder_candidates[m])},
             responder_cache'[m] = responder_cache[m]
      PROVE  Goal
    BY <1>a, <1>c, <1>d, <1>e DEF Goal
\* A step that ends the exchange of m.
<1>f. ASSUME pending_init'[m] \in {pending_init[m], {}},
             responder_candidates'[m] = {}, responder_cache'[m] = {}
      PROVE  Goal
    BY <1>b, <1>f DEF Goal
<1>g. \A n : Retain(responder_candidates, n)[m] \in
                 {responder_candidates[m], Live(responder_candidates[m])}
    BY DEF Retain
<1>1. ASSUME NEW l \in Link, NEW kind,
             EncryptFrame(l, kind) \/ EncryptNone(l) \/ EncryptError(l)
      PROVE  Goal
    BY <1>1, <1>e DEF EncryptFrame, EncryptNone, EncryptError, exchange
<1>2. ASSUME NEW l \in Link, NEW f,
             OpenActive(l, f) \/ OpenPrevious(l, f) \/ RejectTransport(l[1], f)
      PROVE  Goal
    BY <1>2, <1>e, <1>g DEF OpenActive, OpenPrevious, RejectTransport, exchange
<1>3. ASSUME NEW l \in Link, NEW f, OpenCandidate(l, f) PROVE Goal
    <2>1. /\ responder_candidates' = [Retain(responder_candidates, l[1]) EXCEPT ![l] = {}]
          /\ pending_init' = [pending_init EXCEPT ![l] = {}]
          /\ responder_cache' = [responder_cache EXCEPT ![l] = {}]
        BY <1>3 DEF OpenCandidate
    <2>2. Retain(responder_candidates, l[1]) \in [Link -> SUBSET Session]
        BY <1>0, RetainSubset
    <2>3. CASE m = l
        BY <1>0, <1>f, <2>1, <2>2, <2>3
    <2>4. CASE m # l
        BY <1>0, <1>e, <1>g, <2>1, <2>2, <2>4
    <2> QED BY <2>3, <2>4
<1>4. ASSUME NEW l \in Link, NEW id \in SessionId, NEW key \in Key, NEW hid \in HandshakeId,
             store_responder_candidate(l, id, key, hid)
      PROVE  Goal
    <2>1. CASE m = l
        <3> DEFINE c == [hid |-> hid, id |-> id, key |-> key, age |-> 0]
        <3>1. /\ pending_init'[m] = {}
              /\ responder_candidates'[m] = {NewSession(id, key)}
              /\ responder_cache'[m] = {c}
            BY <1>0, <1>4, <2>1 DEF store_responder_candidate
        <3>2. c.id = id /\ c.key = key /\ c.age = 0
            OBVIOUS
        <3> HIDE DEF c
        <3>3. CacheMatches({NewSession(id, key)}, {c})
            BY <3>2, NewType DEF CacheMatches
        <3> QED BY <3>1, <3>3 DEF Goal
    <2>2. CASE m # l
        BY <1>0, <1>4, <1>e, <2>2 DEF store_responder_candidate
    <2> QED BY <2>1, <2>2
<1>5. ASSUME NEW l \in Link, cached_responder_response(l) PROVE Goal
    <2>1. \/ /\ responder_cache'[m] = responder_cache[m]
             /\ responder_candidates'[m] = responder_candidates[m]
          \/ responder_cache'[m] = {} /\ responder_candidates'[m] = {}
        BY <1>0, <1>5 DEF cached_responder_response
    <2>2. pending_init'[m] = pending_init[m]
        BY <1>5 DEF cached_responder_response
    <2> QED BY <1>e, <1>f, <2>1, <2>2
<1>6. ASSUME NEW l \in Link, NEW remote \in HandshakeId, accept_inbound_initiation(l, remote)
      PROVE  Goal
    <2>1. pending_init'[m] \subseteq pending_init[m]
        BY <1>0, <1>6 DEF accept_inbound_initiation, CurrentAttempt
    <2>2. /\ responder_candidates'[m] = responder_candidates[m]
          /\ responder_cache'[m] = responder_cache[m]
        BY <1>6 DEF accept_inbound_initiation, slots
    <2> QED BY <1>a, <2>1, <2>2 DEF Goal
<1>7. ASSUME NEW l \in Link, RetryHandshake(l) PROVE Goal
    <2>1. /\ responder_candidates'[m] = responder_candidates[m]
          /\ responder_cache'[m] = responder_cache[m]
        BY <1>7 DEF RetryHandshake, slots
    <2>2. pending_init[m] = {} => pending_init'[m] = {}
        <3>1. CurrentAttempt(l) # {} /\ CurrentAttempt(l) \subseteq pending_init[l]
            BY <1>7 DEF RetryHandshake, CurrentAttempt
        <3>2. CASE m = l
            BY <3>1, <3>2
        <3>3. CASE m # l
            <4>1. PICK p : pending_init' = [pending_init EXCEPT ![l] =
                      {IF p.sinceSent < RetryInterval THEN p ELSE [p EXCEPT !.sinceSent = 0]}]
                BY <1>7 DEF RetryHandshake
            <4> QED BY <1>0, <3>3, <4>1
        <3> QED BY <3>2, <3>3
    <2> QED BY <1>a, <2>1, <2>2 DEF Goal
<1>8. ASSUME NEW l \in Link, DropExpired(l)
      PROVE  \/ /\ responder_candidates'[m] = responder_candidates[m]
                /\ responder_cache'[m] = responder_cache[m]
             \/ responder_candidates'[m] = {} /\ responder_cache'[m] = {}
    <2>1. CASE m = l
        <3>1. responder_candidates[m] = Live(responder_candidates[m])
              \/ Live(responder_candidates[m]) = {}
            BY DEF ManagerTypeOK, AtMostOne, Live
        <3> QED BY <1>0, <1>8, <2>1, <3>1 DEF DropExpired
    <2>2. CASE m # l
        BY <1>0, <1>8, <2>2 DEF DropExpired
    <2> QED BY <2>1, <2>2
<1>9. ASSUME NEW l \in Link, NEW hid \in HandshakeId, StartHandshake(l, hid) PROVE Goal
    <2>0. DropExpired(l)
        BY <1>9 DEF StartHandshake
    <2>1. \/ /\ responder_candidates'[m] = responder_candidates[m]
             /\ responder_cache'[m] = responder_cache[m]
          \/ responder_candidates'[m] = {} /\ responder_cache'[m] = {}
        BY <1>8, <2>0
    <2>2. CASE m = l
        <3>1. responder_candidates'[m] = {}
            <4>1. Live(responder_candidates[l]) = {}
                BY <1>9 DEF StartHandshake, MayStart
            <4> QED BY <1>0, <2>0, <2>2, <4>1 DEF DropExpired
        <3>2. CacheMatches(responder_candidates'[m], responder_cache'[m])
            BY <1>a, <1>b, <2>1
        <3> QED BY <3>1, <3>2 DEF Goal
    <2>3. CASE m # l
        <3>1. pending_init'[m] = pending_init[m]
            BY <1>0, <1>9, <2>3 DEF StartHandshake
        <3> QED BY <1>e, <1>f, <2>1, <3>1
    <2> QED BY <2>2, <2>3
<1>10. ASSUME NEW l \in Link, StartNothing(l) PROVE Goal
    <2>1. pending_init'[m] \in {pending_init[m], {}}
        BY <1>0, <1>10 DEF StartNothing
    <2> QED BY <1>8, <1>10, <1>e, <1>f, <2>1 DEF StartNothing
<1>11. ASSUME NEW l \in Link, NEW id, NEW key, FinalizeSession(l, id, key) PROVE Goal
    <2>1. /\ pending_init' = [pending_init EXCEPT ![l] = {}]
          /\ responder_candidates' = [responder_candidates EXCEPT ![l] = {}]
          /\ responder_cache' = [responder_cache EXCEPT ![l] = {}]
        BY <1>11 DEF FinalizeSession
    <2> QED BY <1>0, <1>e, <1>f, <2>1
<1>12. ASSUME NEW l \in Link, FinalizeError(l) PROVE Goal
    <2>1. pending_init'[m] \in {pending_init[m], {}}
        BY <1>0, <1>12 DEF FinalizeError
    <2> QED BY <1>12, <1>e, <2>1 DEF FinalizeError, slots
<1>13. ASSUME NEW l \in Link, invalidate_peer(l) PROVE Goal
    <2>1. /\ pending_init' = [pending_init EXCEPT ![l] = {}]
          /\ responder_candidates' = [responder_candidates EXCEPT ![l] = {}]
          /\ responder_cache' = [responder_cache EXCEPT ![l] = {}]
        BY <1>13 DEF invalidate_peer
    <2> QED BY <1>0, <1>e, <1>f, <2>1
<1>14. ASSUME NEW l \in Link, RestartManager(l[1]) PROVE Goal
    <2>1. CASE m[1] = l[1]
        BY <1>14, <1>f, <2>1 DEF RestartManager
    <2>2. CASE m[1] # l[1]
        BY <1>14, <1>e, <2>2 DEF RestartManager
    <2> QED BY <2>1, <2>2
<1>15. ASSUME Age PROVE Goal
    <2>1. /\ pending_init'[m] = {OlderPending(p) : p \in pending_init[m]}
          /\ responder_candidates'[m] = {OlderSession(s) : s \in responder_candidates[m]}
          /\ responder_cache'[m] = {OlderCached(c) : c \in responder_cache[m]}
        BY <1>15 DEF Age
    <2>2. pending_init'[m] = {} \/ responder_candidates'[m] = {}
        BY <1>a, <2>1
    <2>3. CacheMatches(responder_candidates'[m], responder_cache'[m])
        BY <1>0, <1>a, <2>1, OlderMatches
    <2> QED BY <2>2, <2>3 DEF Goal
<1>16. CASE UNCHANGED managerVars
    BY <1>16, <1>e DEF managerVars, slots, exchange, Goal
<1>17. ASSUME NEW l \in Link, Operation(l) PROVE Goal
    <2>1. CASE \E id \in SessionId, key \in Key, ctr \in 0 .. MaxCounter - 1 :
              LET f == [link |-> Reverse(l), id |-> id, key |-> key, ctr |-> ctr,
                        kind |-> "data"]
              IN  OpenActive(l, f) \/ OpenPrevious(l, f) \/ OpenCandidate(l, f)
                    \/ RejectTransport(l[1], f)
        <3>1. PICK f : OpenActive(l, f) \/ OpenPrevious(l, f) \/ OpenCandidate(l, f)
                         \/ RejectTransport(l[1], f)
            BY <2>1
        <3> QED BY <1>2, <1>3, <3>1
    <2>2. CASE \E id \in SessionId, key \in Key, hid \in HandshakeId :
              store_responder_candidate(l, id, key, hid)
        BY <1>4, <2>2
    <2>3. CASE \E remote \in HandshakeId : accept_inbound_initiation(l, remote)
        BY <1>6, <2>3
    <2>4. CASE \E hid \in HandshakeId : StartHandshake(l, hid)
        BY <1>9, <2>4
    <2>5. CASE \E id \in SessionId, key \in Key : FinalizeSession(l, id, key)
        BY <1>11, <2>5
    <2>6. CASE \/ \E kind \in MessageKind : EncryptFrame(l, kind)
              \/ EncryptNone(l) \/ EncryptError(l)
              \/ cached_responder_response(l) \/ RetryHandshake(l) \/ StartNothing(l)
              \/ FinalizeError(l) \/ invalidate_peer(l)
        BY <1>1, <1>5, <1>7, <1>10, <1>12, <1>13, <2>6
    <2> QED BY <1>17, <2>1, <2>2, <2>3, <2>4, <2>5, <2>6, Zenon DEF Operation
<1> QED BY <1>14, <1>15, <1>16, <1>17 DEF ManagerNext, Goal

\* What ExchangeInv says of the pending exchange, the candidate and the cache.
LEMMA ExchangeConsequences ==
    ManagerTypeOK /\ ExchangeInv => ExchangeConsistent
<1> SUFFICES ASSUME ManagerTypeOK, ExchangeInv
             PROVE  ExchangeConsistent
    OBVIOUS
<1>1. PendingExcludesCandidate
    BY DEF ExchangeInv, PendingExcludesCandidate
<1>2. ASSUME NEW l \in Link
      PROVE  /\ CacheMatches(Live(responder_candidates[l]), responder_cache[l])
             /\ CacheMatches(responder_candidates[l], responder_cache[l])
    BY LiveMatches DEF ExchangeInv, ManagerTypeOK
<1>3. CacheNamesCandidate
    BY <1>2 DEF CacheNamesCandidate, CacheMatches
<1> QED BY <1>1, <1>3 DEF ExchangeConsistent

\* A local exchange and a responder candidate exclude each other on every link,
\* and a cached msg2 always names the candidate the responder still holds, for
\* every interleaving of the operations and every order of the timers.
THEOREM ExchangeSafe == ManagerSpec => []ExchangeConsistent
<1>1. ManagerInit => ManagerTypeOK /\ ExchangeInv
    <2>1. ManagerInit => ManagerTypeOK
        BY DEF ManagerInit, Empty, ManagerTypeOK, AtMostOne
    <2>2. ManagerInit => ExchangeInv
        BY DEF ManagerInit, Empty, ExchangeInv, CacheMatches
    <2> QED BY <2>1, <2>2
<1> QED BY <1>1, TypeStep, ExchangeStep, ExchangeConsequences, PTL DEF ManagerSpec

-----------------------------------------------------------------------------
(* Where sessions come from: nonces, replays and identifiers                *)

\* t is s at a later time: the same session, with no counter forgotten.
Descends(t, s) ==
    t.id = s.id /\ t.key = s.key /\ s.ctr <= t.ctr /\ s.seen \subseteq t.seen

From(T, S) == \A t \in T : \E s \in S : Descends(t, s)

\* The shapes a step can have on one link: its sessions stay where they are, ...
Stays(l) ==
    /\ From(sessions'[l], sessions[l])
    /\ From(previous_sessions'[l], previous_sessions[l])
    /\ From(responder_candidates'[l], responder_candidates[l])

Demotes(l) ==
    \/ From(previous_sessions'[l], sessions[l])
    \/ From(previous_sessions'[l], previous_sessions[l])

\* ... or the candidate becomes active and the active session previous, ...
Promotes(l) ==
    /\ From(sessions'[l], responder_candidates[l])
    /\ Demotes(l)
    /\ responder_candidates'[l] = {}

Fresh(l, T) == \A t \in T : ~ session_id_in_use(l[1], t.id) /\ NewKey(l, t.key)

\* ... or a new session becomes the candidate, ...
Stores(l) ==
    /\ From(sessions'[l], sessions[l])
    /\ From(previous_sessions'[l], previous_sessions[l])
    /\ Fresh(l, responder_candidates'[l])

\* ... or a new session becomes active.
Finalizes(l) ==
    /\ Fresh(l, sessions'[l])
    /\ Demotes(l)
    /\ responder_candidates'[l] = {}

\* A frame sealed or accepted in a step is accounted for by the session that
\* sealed or accepted it, as the step leaves it.
Recorded(l) ==
    /\ \A f \in sealed' :
          f.link = l => \/ f \in sealed
                        \/ \E t \in sessions'[l] : t.key = f.key /\ f.ctr < t.ctr
    /\ \A o \in opened' :
          o.link = l => \/ o \in opened
                        \/ \E t \in sessions'[l] \cup previous_sessions'[l] :
                              t.key = o.key /\ o.ctr \in t.seen

Shape ==
    \/ \A m \in Link : Stays(m)
    \/ \E l \in Link : /\ \A m \in Link \ {l} : Stays(m)
                       /\ Promotes(l) \/ Stores(l) \/ Finalizes(l)

\* A session descends from itself, and from what it was before it sealed,
\* accepted or aged.
LEMMA DescendsSteps ==
    /\ \A s \in Session : Descends(s, s) /\ Descends(OlderSession(s), s)
    /\ \A s \in Session : ~ is_expired(s) => Descends(encrypt(s), s)
    /\ \A s \in Session, c \in Counter : Descends(decrypt(s, c), s)
<1>1. \A s \in Session : s.ctr \in Nat /\ s.ctr <= s.ctr /\ s.ctr <= s.ctr + 1
    BY SessionAssumption DEF Session, Counter
<1>2. \A s \in Session : Descends(s, s) /\ Descends(OlderSession(s), s)
    BY <1>1, OlderTypes DEF Descends
<1>3. \A s \in Session : ~ is_expired(s) => Descends(encrypt(s), s)
    BY <1>1, EncryptType DEF Descends
<1>4. \A s \in Session, c \in Counter : Descends(decrypt(s, c), s)
    BY <1>1, DecryptType DEF Descends
<1> QED BY <1>2, <1>3, <1>4

\* Dropping sessions of a slot changes none of those that are left.
LEMMA FromSubset ==
    ASSUME NEW S \in SUBSET Session, NEW T \in SUBSET S
    PROVE  From(T, S)
BY DescendsSteps DEF From

\* The unexpired sessions of a node's maps are sessions it held.
LEMMA FromRetain ==
    ASSUME NEW slot \in [Link -> SUBSET Session], NEW n, NEW m \in Link
    PROVE  From(Retain(slot, n)[m], slot[m])
BY RetainSubset, FromSubset

\* The shapes of the slots that a step takes over as they are, or retains from.
LEMMA FromFacts ==
    ASSUME ManagerTypeOK
    PROVE  /\ \A n, m \in Link :
                /\ From(Retain(sessions, n[1])[m], sessions[m])
                /\ From(Retain(previous_sessions, n[1])[m], previous_sessions[m])
                /\ From(Retain(responder_candidates, n[1])[m], responder_candidates[m])
           /\ \A m \in Link :
                /\ From(sessions[m], sessions[m])
                /\ From(previous_sessions[m], previous_sessions[m])
                /\ From(responder_candidates[m], responder_candidates[m])
           /\ \A T, S : T = {} => From(T, S)
<1>0. /\ sessions \in [Link -> SUBSET Session]
      /\ previous_sessions \in [Link -> SUBSET Session]
      /\ responder_candidates \in [Link -> SUBSET Session]
    BY DEF ManagerTypeOK
<1>1. \A T, S : T = {} => From(T, S)
    BY DEF From
<1> QED BY <1>0, <1>1, FromRetain, FromSubset

\* A frame that a session of link l opened is in the window of that session.
LEMMA OpenedRecorded ==
    ASSUME NEW l \in Link, NEW f, f.ctr \in Counter, sealed' = sealed,
           opened' = opened \cup {ReceiptOf(l, f)},
           NEW s \in Session, Opens(s, l, f),
           decrypt(s, f.ctr) \in sessions'[l] \cup previous_sessions'[l]
    PROVE  \A m \in Link : Recorded(m)
<1> DEFINE o == ReceiptOf(l, f)
<1>1. o.link = l /\ o.key = f.key /\ o.ctr = f.ctr
    BY DEF ReceiptOf
<1> HIDE DEF o
<1>2. opened' = opened \cup {o}
    BY DEF o
<1>3. decrypt(s, f.ctr).key = o.key /\ o.ctr \in decrypt(s, f.ctr).seen
    BY <1>1, DecryptType DEF Opens
<1> QED BY <1>1, <1>2, <1>3 DEF Recorded

\* The calls that derive no session and open no frame.
SteadyCall(l) ==
    \/ \E kind \in MessageKind : EncryptFrame(l, kind)
    \/ EncryptNone(l)
    \/ EncryptError(l)
    \/ cached_responder_response(l)
    \/ \E remote : accept_inbound_initiation(l, remote)
    \/ RetryHandshake(l)
    \/ \E hid : StartHandshake(l, hid)
    \/ StartNothing(l)
    \/ FinalizeError(l)
    \/ invalidate_peer(l)
    \/ RestartManager(l[1])

\* They leave every session in its place.
LEMMA SteadyStep ==
    ASSUME ManagerTypeOK,
           (\E l \in Link : SteadyCall(l)) \/ Age \/ UNCHANGED managerVars
    PROVE  \A m \in Link : Stays(m) /\ Recorded(m)
<1> DEFINE Goal == \A m \in Link : Stays(m) /\ Recorded(m)
<1>0. /\ sessions \in [Link -> SUBSET Session]
      /\ previous_sessions \in [Link -> SUBSET Session]
      /\ responder_candidates \in [Link -> SUBSET Session]
    BY DEF ManagerTypeOK
<1>r. \A n, m \in Link : /\ From(Retain(sessions, n[1])[m], sessions[m])
                         /\ From(Retain(previous_sessions, n[1])[m], previous_sessions[m])
                         /\ From(Retain(responder_candidates, n[1])[m], responder_candidates[m])
    BY FromFacts
<1>i. \A m \in Link : /\ From(sessions[m], sessions[m])
                      /\ From(previous_sessions[m], previous_sessions[m])
                      /\ From(responder_candidates[m], responder_candidates[m])
    BY FromFacts
<1>n. \A T, S : T = {} => From(T, S)
    BY FromFacts
\* Most calls leave both histories alone.
<1>e. ASSUME \A m \in Link : Stays(m), UNCHANGED <<sealed, opened>>
      PROVE  Goal
    BY <1>e DEF Recorded
<1>t. ASSUME NEW l \in Link, NEW s \in sessions[l], NEW t, Descends(t, s)
      PROVE  From({t}, sessions[l])
    BY <1>t DEF From
<1> HIDE DEF Goal
<1>1. ASSUME NEW l \in Link, NEW s \in Live(sessions[l]),
             sessions' = [sessions EXCEPT ![l] = {encrypt(s)}],
             previous_sessions' = Retain(previous_sessions, l[1]),
             responder_candidates' = responder_candidates
      PROVE  \A m \in Link : Stays(m)
    <2>1. s \in Session /\ ~ is_expired(s) /\ s \in sessions[l]
        BY <1>0 DEF Live
    <2>2. From(sessions'[l], sessions[l])
        BY <1>0, <1>1, <1>t, <2>1, DescendsSteps
    <2>3. \A m \in Link \ {l} : sessions'[m] = sessions[m]
        BY <1>0, <1>1
    <2> QED BY <1>1, <1>i, <1>r, <2>2, <2>3 DEF Stays
<1>2. ASSUME NEW l \in Link, NEW kind \in MessageKind, EncryptFrame(l, kind)
      PROVE  Goal
    <2>1. PICK s \in Live(sessions[l]) :
              /\ sessions' = [sessions EXCEPT ![l] = {encrypt(s)}]
              /\ sealed' = sealed \cup {FrameOf(l, s, kind)}
              /\ previous_sessions' = Retain(previous_sessions, l[1])
              /\ UNCHANGED <<responder_candidates, exchange, opened>>
        BY <1>2 DEF EncryptFrame
    <2>2. s \in Session /\ ~ is_expired(s)
        BY <1>0 DEF Live
    <2>3. \A m \in Link : Stays(m)
        BY <1>1, <2>1
    <2>4. encrypt(s) \in sessions'[l]
        BY <1>0, <2>1
    <2>5. encrypt(s).key = s.key /\ s.ctr < encrypt(s).ctr
        BY <2>2, EncryptType, SessionAssumption DEF Session, Counter
    <2>6. ASSUME NEW m \in Link PROVE Recorded(m)
        <3> DEFINE f == FrameOf(l, s, kind)
        <3>1. f.link = l /\ f.key = s.key /\ f.ctr = s.ctr
            BY DEF FrameOf
        <3> HIDE DEF f
        <3>2. sealed' = sealed \cup {f} /\ opened' = opened
            BY <2>1 DEF f
        <3> QED BY <2>4, <2>5, <3>1, <3>2 DEF Recorded
    <2> QED BY <2>3, <2>6 DEF Goal
<1>3. ASSUME NEW l \in Link, EncryptNone(l) PROVE Goal
    <2>1. sessions'[l] = {} /\ \A m \in Link \ {l} : sessions'[m] = sessions[m]
        BY <1>0, <1>3 DEF EncryptNone
    <2>2. \A m \in Link : Stays(m)
        BY <1>3, <1>i, <1>n, <1>r, <2>1 DEF EncryptNone, Stays
    <2> QED BY <1>3, <1>e, <2>2 DEF EncryptNone
<1>4. ASSUME NEW l \in Link, EncryptError(l) PROVE Goal
    <2>1. PICK s \in Live(sessions[l]) :
              /\ sessions' = [sessions EXCEPT ![l] = {encrypt(s)}]
              /\ previous_sessions' = Retain(previous_sessions, l[1])
              /\ UNCHANGED <<responder_candidates, exchange, sealed, opened>>
        BY <1>4 DEF EncryptError
    <2>2. \A m \in Link : Stays(m)
        BY <1>1, <2>1
    <2> QED BY <1>e, <2>1, <2>2
<1>8. ASSUME NEW l \in Link, cached_responder_response(l) PROVE Goal
    <2>1. \A m \in Link : responder_candidates'[m] \in {responder_candidates[m], {}}
        BY <1>0, <1>8 DEF cached_responder_response
    <2>2. \A m \in Link : Stays(m)
        BY <1>8, <1>i, <1>n, <2>1 DEF cached_responder_response, Stays
    <2> QED BY <1>8, <1>e, <2>2 DEF cached_responder_response
<1>9. ASSUME UNCHANGED <<slots, sealed, opened>> PROVE Goal
    <2>1. \A m \in Link : Stays(m)
        BY <1>9, <1>i DEF slots, Stays
    <2> QED BY <1>9, <1>e, <2>1
<1>10. ASSUME NEW l \in Link, DropExpired(l), UNCHANGED <<previous_sessions, sealed, opened>>
       PROVE  Goal
    <2>1. \A m \in Link : /\ responder_candidates'[m] \subseteq responder_candidates[m]
                          /\ sessions'[m] \subseteq sessions[m]
        BY <1>0, <1>10 DEF DropExpired, Live
    <2>2. \A m \in Link : Stays(m)
        BY <1>0, <1>10, <1>i, <2>1, FromSubset DEF Stays
    <2> QED BY <1>10, <1>e, <2>2
<1>11. ASSUME NEW l \in Link, invalidate_peer(l) PROVE Goal
    <2>1. \A m \in Link : /\ sessions'[m] \in {sessions[m], {}}
                          /\ previous_sessions'[m] \in {previous_sessions[m], {}}
                          /\ responder_candidates'[m] \in {responder_candidates[m], {}}
        BY <1>0, <1>11 DEF invalidate_peer
    <2>2. \A m \in Link : Stays(m)
        BY <1>i, <1>n, <2>1 DEF Stays
    <2> QED BY <1>11, <1>e, <2>2 DEF invalidate_peer
<1>13. ASSUME NEW l \in Link, RestartManager(l[1]) PROVE Goal
    <2>1. \A m \in Link : /\ sessions'[m] \in {sessions[m], {}}
                          /\ previous_sessions'[m] \in {previous_sessions[m], {}}
                          /\ responder_candidates'[m] \in {responder_candidates[m], {}}
        BY <1>0, <1>13 DEF RestartManager
    <2>2. \A m \in Link : Stays(m)
        BY <1>i, <1>n, <2>1 DEF Stays
    <2> QED BY <1>13, <1>e, <2>2 DEF RestartManager
<1>14. ASSUME Age PROVE Goal
    <2>1. \A S \in SUBSET Session : From({OlderSession(s) : s \in S}, S)
        BY DescendsSteps DEF From
    <2>2. \A m \in Link : Stays(m)
        BY <1>0, <1>14, <2>1 DEF Age, Stays
    <2> QED BY <1>14, <1>e, <2>2 DEF Age
<1>15. ASSUME NEW l \in Link, SteadyCall(l) PROVE Goal
    <2>2. CASE \/ \E remote : accept_inbound_initiation(l, remote)
               \/ RetryHandshake(l) \/ FinalizeError(l)
        BY <1>9, <2>2 DEF accept_inbound_initiation, RetryHandshake, FinalizeError
    <2>3. CASE StartNothing(l) \/ \E hid : StartHandshake(l, hid)
        BY <1>10, <2>3 DEF StartNothing, StartHandshake
    <2>4. CASE \/ \E kind \in MessageKind : EncryptFrame(l, kind)
               \/ EncryptNone(l) \/ EncryptError(l) \/ cached_responder_response(l)
               \/ invalidate_peer(l) \/ RestartManager(l[1])
        BY <1>2, <1>3, <1>4, <1>8, <1>11, <1>13, <2>4
    <2> QED BY <1>15, <2>2, <2>3, <2>4, Zenon DEF SteadyCall
<1>16. CASE UNCHANGED managerVars
    BY <1>9, <1>16 DEF managerVars, Goal
<1> QED BY <1>14, <1>15, <1>16 DEF Goal

\* A frame that an active or a previous session opens, or that nobody does,
\* leaves every session in its place.
LEMMA SteadyOpen ==
    ASSUME ManagerTypeOK, NEW l \in Link, NEW f, f.ctr \in Counter,
           OpenActive(l, f) \/ OpenPrevious(l, f) \/ RejectTransport(l[1], f)
    PROVE  \A m \in Link : Stays(m) /\ Recorded(m)
<1>f. /\ sessions \in [Link -> SUBSET Session]
      /\ previous_sessions \in [Link -> SUBSET Session]
      /\ responder_candidates \in [Link -> SUBSET Session]
    BY DEF ManagerTypeOK
<1>0. /\ Retain(sessions, l[1]) \in [Link -> SUBSET Session]
      /\ Retain(previous_sessions, l[1]) \in [Link -> SUBSET Session]
      /\ Retain(responder_candidates, l[1]) \in [Link -> SUBSET Session]
    BY <1>f, RetainSubset
<1>1. CASE OpenActive(l, f)
    <2>1. PICK s \in Live(sessions[l]) :
              /\ Opens(s, l, f)
              /\ sessions' = [Retain(sessions, l[1]) EXCEPT ![l] = {decrypt(s, f.ctr)}]
        BY <1>1 DEF OpenActive
    <2>2. s \in Session /\ s \in sessions[l]
        BY <1>f DEF Live
    <2>3. /\ sessions'[l] = {decrypt(s, f.ctr)}
          /\ \A m \in Link \ {l} : sessions'[m] = Retain(sessions, l[1])[m]
        BY <1>0, <2>1
    <2>4. From(sessions'[l], sessions[l])
        BY <2>2, <2>3, DescendsSteps DEF From
    <2>5. \A m \in Link : Stays(m)
        BY FromFacts, <1>1, <2>3, <2>4 DEF OpenActive, Stays
    <2>6. \A m \in Link : Recorded(m)
        BY OpenedRecorded, <1>1, <2>1, <2>2, <2>3 DEF OpenActive
    <2> QED BY <2>5, <2>6
<1>2. CASE OpenPrevious(l, f)
    <2>1. PICK s \in Live(previous_sessions[l]) :
              /\ Opens(s, l, f)
              /\ previous_sessions' =
                    [Retain(previous_sessions, l[1]) EXCEPT ![l] = {decrypt(s, f.ctr)}]
        BY <1>2 DEF OpenPrevious
    <2>2. s \in Session /\ s \in previous_sessions[l]
        BY <1>f DEF Live
    <2>3. /\ previous_sessions'[l] = {decrypt(s, f.ctr)}
          /\ \A m \in Link \ {l} :
                previous_sessions'[m] = Retain(previous_sessions, l[1])[m]
        BY <1>0, <2>1
    <2>4. From(previous_sessions'[l], previous_sessions[l])
        BY <2>2, <2>3, DescendsSteps DEF From
    <2>5. \A m \in Link : Stays(m)
        BY FromFacts, <1>2, <2>3, <2>4 DEF OpenPrevious, Stays
    <2>6. \A m \in Link : Recorded(m)
        BY OpenedRecorded, <1>2, <2>1, <2>2, <2>3 DEF OpenPrevious
    <2> QED BY <2>5, <2>6
<1>3. CASE RejectTransport(l[1], f)
    <2>1. \A m \in Link : Stays(m)
        BY FromFacts, <1>3 DEF RejectTransport, Stays
    <2> QED BY <1>3, <2>1 DEF RejectTransport, Recorded
<1> QED BY <1>1, <1>2, <1>3

\* The first frame that a candidate opens makes it the active session.
LEMMA PromotesStep ==
    ASSUME ManagerTypeOK, NEW l \in Link, NEW f, f.ctr \in Counter, OpenCandidate(l, f)
    PROVE  /\ \A m \in Link \ {l} : Stays(m)
           /\ Promotes(l)
           /\ \A m \in Link : Recorded(m)
           /\ \A t \in sessions'[l] : t.key = f.key
<1>0. /\ sessions \in [Link -> SUBSET Session]
      /\ previous_sessions \in [Link -> SUBSET Session]
      /\ responder_candidates \in [Link -> SUBSET Session]
    BY DEF ManagerTypeOK
<1>1. /\ Retain(sessions, l[1]) \in [Link -> SUBSET Session]
      /\ Retain(previous_sessions, l[1]) \in [Link -> SUBSET Session]
      /\ Retain(responder_candidates, l[1]) \in [Link -> SUBSET Session]
    BY <1>0, RetainSubset
<1>2. PICK s \in Live(responder_candidates[l]) :
          /\ Opens(s, l, f)
          /\ install_active_session(l, Retain(sessions, l[1]),
                                    Retain(previous_sessions, l[1]), decrypt(s, f.ctr))
    BY DEF OpenCandidate
<1>3. s \in Session /\ s \in responder_candidates[l]
    BY <1>0 DEF Live
<1>4. /\ sessions'[l] = {decrypt(s, f.ctr)}
      /\ \A m \in Link \ {l} : sessions'[m] = Retain(sessions, l[1])[m]
    BY <1>1, <1>2 DEF install_active_session
<1>5. /\ previous_sessions'[l] \in
            {Retain(previous_sessions, l[1])[l], Retain(sessions, l[1])[l]}
      /\ \A m \in Link \ {l} :
            previous_sessions'[m] = Retain(previous_sessions, l[1])[m]
    BY <1>1, <1>2 DEF install_active_session
<1>6. /\ responder_candidates'[l] = {}
      /\ \A m \in Link \ {l} :
            responder_candidates'[m] = Retain(responder_candidates, l[1])[m]
    BY <1>1 DEF OpenCandidate
<1>7. From(sessions'[l], responder_candidates[l])
    BY <1>3, <1>4, DescendsSteps DEF From
<1>8. Promotes(l)
    BY FromFacts, <1>5, <1>6, <1>7 DEF Promotes, Demotes
<1>9. \A m \in Link \ {l} : Stays(m)
    BY FromFacts, <1>4, <1>5, <1>6 DEF Stays
<1>10. \A m \in Link : Recorded(m)
    BY OpenedRecorded, <1>2, <1>3, <1>4 DEF OpenCandidate
<1>11. \A t \in sessions'[l] : t.key = f.key
    BY <1>2, <1>3, <1>4, DecryptType DEF Opens
<1> QED BY <1>8, <1>9, <1>10, <1>11

\* store_responder_candidate with a new key only adds a candidate.
LEMMA StoresStep ==
    ASSUME ManagerTypeOK, NEW l \in Link, NEW id \in SessionId, NEW key \in Key, NEW hid,
           NewKey(l, key), store_responder_candidate(l, id, key, hid)
    PROVE  /\ \A m \in Link \ {l} : Stays(m)
           /\ Stores(l)
           /\ \A m \in Link : Recorded(m)
           /\ \A t \in responder_candidates'[l] : t.key = key
<1>0. /\ sessions \in [Link -> SUBSET Session]
      /\ previous_sessions \in [Link -> SUBSET Session]
      /\ responder_candidates \in [Link -> SUBSET Session]
    BY DEF ManagerTypeOK
<1>1. /\ responder_candidates'[l] = {NewSession(id, key)}
      /\ \A m \in Link \ {l} : responder_candidates'[m] = responder_candidates[m]
      /\ sessions' = sessions
      /\ previous_sessions' = previous_sessions
      /\ ~ session_id_in_use(l[1], id)
      /\ UNCHANGED <<sealed, opened>>
    BY <1>0 DEF store_responder_candidate
<1>2. Fresh(l, responder_candidates'[l])
    BY <1>1, NewType DEF Fresh
<1>3. Stores(l)
    BY FromFacts, <1>1, <1>2 DEF Stores
<1>4. \A m \in Link \ {l} : Stays(m)
    BY FromFacts, <1>1 DEF Stays
<1>5. \A m \in Link : Recorded(m)
    BY <1>1 DEF Recorded
<1> QED BY <1>1, <1>3, <1>4, <1>5, NewType

\* finalize_initiator with a new key replaces the active session.
LEMMA FinalizesStep ==
    ASSUME ManagerTypeOK, NEW l \in Link, NEW id \in SessionId, NEW key \in Key,
           NewKey(l, key), FinalizeSession(l, id, key)
    PROVE  /\ \A m \in Link \ {l} : Stays(m)
           /\ Finalizes(l)
           /\ \A m \in Link : Recorded(m)
           /\ \A t \in sessions'[l] : t.key = key
<1>0. /\ sessions \in [Link -> SUBSET Session]
      /\ previous_sessions \in [Link -> SUBSET Session]
      /\ responder_candidates \in [Link -> SUBSET Session]
    BY DEF ManagerTypeOK
<1> DEFINE s == NewSession(id, key)
           f == FrameOf(l, s, "probe")
<1>1. /\ sealed' = sealed \cup {f}
      /\ install_active_session(l, sessions, previous_sessions, encrypt(s))
      /\ responder_candidates'[l] = {}
      /\ \A m \in Link \ {l} : responder_candidates'[m] = responder_candidates[m]
      /\ ~ session_id_in_use(l[1], id)
      /\ opened' = opened
    BY <1>0 DEF FinalizeSession
<1>2. /\ encrypt(s).id = id /\ encrypt(s).key = key /\ encrypt(s).ctr = 1
      /\ f.link = l /\ f.key = key /\ f.ctr = 0
    BY NewType, EncryptType DEF FrameOf
<1> HIDE DEF s, f
<1>3. /\ sessions'[l] = {encrypt(s)}
      /\ \A m \in Link \ {l} : sessions'[m] = sessions[m]
      /\ previous_sessions'[l] \in {previous_sessions[l], sessions[l]}
      /\ \A m \in Link \ {l} : previous_sessions'[m] = previous_sessions[m]
    BY <1>0, <1>1 DEF install_active_session
<1>4. Fresh(l, sessions'[l])
    BY <1>1, <1>2, <1>3 DEF Fresh
<1>5. Finalizes(l)
    BY FromFacts, <1>1, <1>3, <1>4 DEF Finalizes, Demotes
<1>6. \A m \in Link \ {l} : Stays(m)
    BY FromFacts, <1>1, <1>3 DEF Stays
<1>7. \A m \in Link : Recorded(m)
    BY <1>1, <1>2, <1>3 DEF Recorded
<1> QED BY <1>2, <1>3, <1>5, <1>6, <1>7

\* What a step did to the sessions and to the histories: every action of the
\* manager has one of the four shapes.
LEMMA ShapeOfStep ==
    ManagerTypeOK /\ [ManagerNext]_managerVars => Shape /\ \A m \in Link : Recorded(m)
<1> SUFFICES ASSUME ManagerTypeOK, [ManagerNext]_managerVars
             PROVE  Shape /\ \A m \in Link : Recorded(m)
    OBVIOUS
<1> DEFINE Goal == Shape /\ \A m \in Link : Recorded(m)
<1>1. ASSUME (\E l \in Link : SteadyCall(l)) \/ Age \/ UNCHANGED managerVars
      PROVE  Goal
    BY <1>1, SteadyStep DEF Shape
<1>2. ASSUME NEW l \in Link, NEW f, f.ctr \in Counter, OpenCandidate(l, f)
      PROVE  Goal
    BY <1>2, PromotesStep DEF Shape
<1>3. ASSUME NEW l \in Link, NEW id \in SessionId, NEW key \in Key, NEW hid \in HandshakeId,
             NewKey(l, key), store_responder_candidate(l, id, key, hid)
      PROVE  Goal
    BY <1>3, StoresStep DEF Shape
<1>4. ASSUME NEW l \in Link, NEW id \in SessionId, NEW key \in Key,
             NewKey(l, key), FinalizeSession(l, id, key)
      PROVE  Goal
    BY <1>4, FinalizesStep DEF Shape
<1> HIDE DEF Goal
<1>5. ASSUME NEW l \in Link, Operation(l) PROVE Goal
    <2>1. CASE \E id \in SessionId, key \in Key, ctr \in 0 .. MaxCounter - 1 :
              LET f == [link |-> Reverse(l), id |-> id, key |-> key, ctr |-> ctr,
                        kind |-> "data"]
              IN  OpenActive(l, f) \/ OpenPrevious(l, f) \/ OpenCandidate(l, f)
                    \/ RejectTransport(l[1], f)
        <3>1. PICK id \in SessionId, key \in Key, ctr \in 0 .. MaxCounter - 1 :
              LET f == [link |-> Reverse(l), id |-> id, key |-> key, ctr |-> ctr,
                        kind |-> "data"]
              IN  OpenActive(l, f) \/ OpenPrevious(l, f) \/ OpenCandidate(l, f)
                    \/ RejectTransport(l[1], f)
            BY <2>1
        <3> DEFINE f == [link |-> Reverse(l), id |-> id, key |-> key, ctr |-> ctr,
                         kind |-> "data"]
        <3>2. f.ctr \in Counter
            BY SessionAssumption DEF Counter
        <3>3. OpenActive(l, f) \/ OpenPrevious(l, f) \/ OpenCandidate(l, f)
                \/ RejectTransport(l[1], f)
            BY <3>1
        <3> HIDE DEF f
        <3>4. CASE OpenCandidate(l, f)
            BY <1>2, <3>2, <3>4
        <3>5. CASE OpenActive(l, f) \/ OpenPrevious(l, f) \/ RejectTransport(l[1], f)
            BY <3>2, <3>5, SteadyOpen DEF Goal, Shape
        <3> QED BY <3>3, <3>4, <3>5
    <2>2. CASE \E id \in SessionId, key \in Key, hid \in HandshakeId :
              NewKey(l, key) /\ store_responder_candidate(l, id, key, hid)
        BY <1>3, <2>2
    <2>3. CASE \E id \in SessionId, key \in Key : NewKey(l, key) /\ FinalizeSession(l, id, key)
        BY <1>4, <2>3
    <2>4. CASE SteadyCall(l)
        BY <1>1, <2>4
    <2> QED BY <1>5, <2>1, <2>2, <2>3, <2>4, Zenon DEF Operation, SteadyCall
<1>6. ASSUME NEW l \in Link, RestartManager(l[1]) PROVE Goal
    BY <1>1, <1>6, Zenon DEF SteadyCall
<1> QED BY <1>1, <1>5, <1>6 DEF ManagerNext, Goal

\* The three sessions of a link have different keys, so that what is recorded
\* under a key is about one session.
KeysDistinct ==
    \A l \in Link :
        /\ \A s \in sessions[l], t \in previous_sessions[l] : s.key # t.key
        /\ \A s \in sessions[l], t \in responder_candidates[l] : s.key # t.key
        /\ \A s \in previous_sessions[l], t \in responder_candidates[l] : s.key # t.key

\* No step gives one link two sessions with the same key.
LEMMA KeysStep ==
    KeysDistinct /\ Shape => KeysDistinct'
<1> SUFFICES ASSUME KeysDistinct, Shape, NEW l \in Link
             PROVE  /\ \A s \in sessions'[l], t \in previous_sessions'[l] : s.key # t.key
                    /\ \A s \in sessions'[l], t \in responder_candidates'[l] : s.key # t.key
                    /\ \A s \in previous_sessions'[l], t \in responder_candidates'[l] :
                          s.key # t.key
    BY DEF KeysDistinct
<1>0. /\ \A s \in sessions[l], t \in previous_sessions[l] : s.key # t.key
      /\ \A s \in sessions[l], t \in responder_candidates[l] : s.key # t.key
      /\ \A s \in previous_sessions[l], t \in responder_candidates[l] : s.key # t.key
    BY DEF KeysDistinct
<1>1. CASE Stays(l)
    BY <1>0, <1>1 DEF Stays, From, Descends
<1>2. CASE Promotes(l)
    BY <1>0, <1>2 DEF Promotes, Demotes, From, Descends
<1>3. CASE Stores(l)
    BY <1>0, <1>3 DEF Stores, Fresh, NewKey, Held, From, Descends
<1>4. CASE Finalizes(l)
    BY <1>0, <1>4 DEF Finalizes, Demotes, Fresh, NewKey, Held, From, Descends
<1> QED BY <1>1, <1>2, <1>3, <1>4 DEF Shape

\* The sessions of one node have different identifiers whichever peer and
\* whichever map they belong to, after any step.
LEMMA IdsStep ==
    SlotsDisjoint /\ Shape => SlotsDisjoint'
<1> SUFFICES ASSUME SlotsDisjoint, Shape, NEW l \in Link, NEW m \in Link, l[1] = m[1]
             PROVE
                /\ \A s \in sessions'[l] : \A t \in previous_sessions'[m] : s.id # t.id
                /\ \A s \in sessions'[l] : \A t \in responder_candidates'[m] : s.id # t.id
                /\ \A s \in previous_sessions'[l] : \A t \in responder_candidates'[m] :
                      s.id # t.id
                /\ l # m => /\ \A s \in sessions'[l], t \in sessions'[m] : s.id # t.id
                            /\ \A s \in previous_sessions'[l], t \in previous_sessions'[m] :
                                  s.id # t.id
                            /\ \A s \in responder_candidates'[l],
                                  t \in responder_candidates'[m] : s.id # t.id
    BY DEF SlotsDisjoint
<1> DEFINE Apart(S, T) == \A s \in S, t \in T : s.id # t.id
           Old(k) == sessions[k] \cup previous_sessions[k] \cup responder_candidates[k]
\* A session that is new to link k has an identifier no session of its node had.
<1>0. ASSUME NEW k \in Link, NEW j \in Link, k[1] = j[1], NEW T, Fresh(k, T)
      PROVE  /\ Apart(T, sessions[j]) /\ Apart(sessions[j], T)
             /\ Apart(T, previous_sessions[j]) /\ Apart(previous_sessions[j], T)
             /\ Apart(T, responder_candidates[j]) /\ Apart(responder_candidates[j], T)
    <2>1. ASSUME NEW t \in T, NEW s \in Held(j) PROVE t.id # s.id
        <3>1. ~ session_id_in_use(k[1], t.id)
            BY <1>0 DEF Fresh
        <3>2. j \in Table(k[1])
            BY <1>0 DEF Table
        <3> QED BY <3>1, <3>2 DEF session_id_in_use
    <2> QED BY <2>1 DEF Held
<1>1. ASSUME NEW T, NEW S, NEW U, NEW V, From(T, S), From(U, V), Apart(S, V)
      PROVE  Apart(T, U)
    BY <1>1 DEF From, Descends
<1>1a. ASSUME NEW T, NEW S, NEW U, From(T, S), Apart(S, U)
       PROVE  Apart(T, U)
    BY <1>1a DEF From, Descends
<1>1b. ASSUME NEW T, NEW U, NEW V, From(U, V), Apart(T, V)
       PROVE  Apart(T, U)
    BY <1>1b DEF From, Descends
<1>e. \A S : Apart(S, {}) /\ Apart({}, S)
    OBVIOUS
<1>2. ASSUME NEW k \in Link, NEW j \in Link, k[1] = j[1]
      PROVE  /\ Apart(sessions[k], previous_sessions[j])
             /\ Apart(sessions[k], responder_candidates[j])
             /\ Apart(previous_sessions[k], responder_candidates[j])
             /\ k # j => /\ Apart(sessions[k], sessions[j])
                         /\ Apart(previous_sessions[k], previous_sessions[j])
                         /\ Apart(responder_candidates[k], responder_candidates[j])
    BY <1>2 DEF SlotsDisjoint
<1>3. ASSUME NEW k \in Link, NEW j \in Link, k[1] = j[1]
      PROVE  /\ Apart(previous_sessions[k], sessions[j])
             /\ Apart(responder_candidates[k], sessions[j])
             /\ Apart(responder_candidates[k], previous_sessions[j])
    BY <1>2, <1>3
<1> DEFINE Goal ==
        /\ Apart(sessions'[l], previous_sessions'[m])
        /\ Apart(sessions'[l], responder_candidates'[m])
        /\ Apart(previous_sessions'[l], responder_candidates'[m])
        /\ l # m => /\ Apart(sessions'[l], sessions'[m])
                    /\ Apart(previous_sessions'[l], previous_sessions'[m])
                    /\ Apart(responder_candidates'[l], responder_candidates'[m])
<1> SUFFICES Goal
    OBVIOUS
<1> HIDE DEF Goal, Apart
<1>4. CASE Stays(l) /\ Stays(m)
    BY <1>1, <1>2, <1>4 DEF Goal, Stays
<1>5. CASE Promotes(l) /\ Stays(m) /\ l # m
    BY <1>1, <1>2, <1>3, <1>5, <1>e DEF Goal, Stays, Promotes, Demotes
<1>6. CASE Stays(l) /\ Promotes(m) /\ l # m
    BY <1>1, <1>2, <1>3, <1>6, <1>e DEF Goal, Stays, Promotes, Demotes
<1>7. CASE Promotes(l) /\ l = m
    <2>1. /\ From(sessions'[l], responder_candidates[l])
          /\ \/ From(previous_sessions'[l], sessions[l])
             \/ From(previous_sessions'[l], previous_sessions[l])
          /\ responder_candidates'[l] = {}
        BY <1>7 DEF Promotes, Demotes
    <2>2. /\ Apart(responder_candidates[l], sessions[l])
          /\ Apart(responder_candidates[l], previous_sessions[l])
        BY <1>3
    <2>3. Apart(sessions'[l], previous_sessions'[l])
        BY <1>1, <2>1, <2>2
    <2> QED BY <1>7, <1>e, <2>1, <2>3 DEF Goal
<1>8. CASE Stores(l) /\ Stays(m) /\ l # m
    BY <1>0, <1>1, <1>1a, <1>1b, <1>2, <1>3, <1>8 DEF Goal, Stays, Stores
<1>9. CASE Stays(l) /\ Stores(m) /\ l # m
    BY <1>0, <1>1, <1>1a, <1>1b, <1>2, <1>3, <1>9 DEF Goal, Stays, Stores
<1>10. CASE Stores(l) /\ l = m
    BY <1>0, <1>1, <1>1a, <1>1b, <1>2, <1>3, <1>10 DEF Goal, Stores
<1>11. CASE Finalizes(l) /\ Stays(m) /\ l # m
    BY <1>0, <1>1, <1>1a, <1>1b, <1>2, <1>3, <1>e, <1>11 DEF Goal, Stays, Finalizes, Demotes
<1>12. CASE Stays(l) /\ Finalizes(m) /\ l # m
    BY <1>0, <1>1, <1>1a, <1>1b, <1>2, <1>3, <1>e, <1>12 DEF Goal, Stays, Finalizes, Demotes
<1>13. CASE Finalizes(l) /\ l = m
    <2>1. /\ Fresh(l, sessions'[l])
          /\ \/ From(previous_sessions'[l], sessions[l])
             \/ From(previous_sessions'[l], previous_sessions[l])
          /\ responder_candidates'[l] = {}
        BY <1>13 DEF Finalizes, Demotes
    <2>2. Apart(sessions'[l], sessions[l]) /\ Apart(sessions'[l], previous_sessions[l])
        BY <1>0, <2>1
    <2>3. Apart(sessions'[l], previous_sessions'[l])
        BY <1>1b, <2>1, <2>2
    <2> QED BY <1>13, <1>e, <2>1, <2>3 DEF Goal
<1> QED BY <1>4, <1>5, <1>6, <1>7, <1>8, <1>9, <1>10, <1>11, <1>12, <1>13 DEF Shape

\* Every session a link holds after a step descends from one it held before,
\* or has a key that is new to the link.
LEMMA Origin ==
    ASSUME Shape, NEW l \in Link, NEW t, t \in Held(l)'
    PROVE  (\E s \in Held(l) : Descends(t, s)) \/ NewKey(l, t.key)
<1>0. t \in sessions'[l] \cup previous_sessions'[l] \cup responder_candidates'[l]
    BY DEF Held
<1>1. CASE Stays(l)
    BY <1>0, <1>1 DEF Stays, From, Held
<1>2. CASE Promotes(l)
    BY <1>0, <1>2 DEF Promotes, Demotes, From, Held
<1>3. CASE Stores(l)
    BY <1>0, <1>3 DEF Stores, Fresh, From, Held
<1>4. CASE Finalizes(l)
    BY <1>0, <1>4 DEF Finalizes, Demotes, Fresh, From, Held
<1> QED BY <1>1, <1>2, <1>3, <1>4 DEF Shape

\* A step never brings a sealed counter back under the key of a held session.
LEMMA NonceStep ==
    ASSUME ManagerTypeOK, ManagerTypeOK', KeysDistinct', Shape,
           \A m \in Link : Recorded(m), NonceNeverReused
    PROVE  NonceNeverReused'
<1>0. \A m \in Link, f \in sealed' :
          f.link = m => f \in sealed \/ \E t \in Held(m)' : t.key = f.key /\ f.ctr < t.ctr
    BY DEF Recorded, Held
<1>1. ASSUME NEW l \in Link, NEW t, t \in Held(l)', NEW f \in sealed', f.link = l, f.key = t.key
      PROVE  f.ctr < t.ctr
    <2>1. CASE f \in sealed
        <3>1. ~ NewKey(l, t.key)
            BY <1>1, <2>1 DEF NewKey
        <3>2. PICK s \in Held(l) : Descends(t, s)
            BY <1>1, <3>1, Origin
        <3>3. f.ctr < s.ctr /\ s.ctr <= t.ctr
            BY <1>1, <2>1, <3>2 DEF NonceNeverReused, Descends
        <3>4. f.ctr \in Nat /\ s.ctr \in Nat /\ t.ctr \in Nat
            BY <1>1, <2>1, <3>2, SessionAssumption
               DEF ManagerTypeOK, Held, Session, Frame, Counter
        <3> QED BY <3>3, <3>4
    <2>2. CASE f \notin sealed
        <3>1. PICK u \in Held(l)' : u.key = f.key /\ f.ctr < u.ctr
            BY <1>0, <1>1, <2>2
        <3>2. \A a, b \in Held(l)' : a.key = b.key => a = b
            BY DEF ManagerTypeOK, KeysDistinct, AtMostOne, Held
        <3> QED BY <1>1, <3>1, <3>2
    <2> QED BY <2>1, <2>2
<1>2. ASSUME NEW f \in sealed' PROVE f.ctr < MaxCounter
    <2>1. CASE f \in sealed
        BY <2>1 DEF NonceNeverReused
    <2>2. CASE f \notin sealed
        <3>1. f.link \in Link
            BY DEF ManagerTypeOK, Frame
        <3>2. PICK u \in Held(f.link)' : f.ctr < u.ctr
            BY <1>0, <2>2, <3>1
        <3>3. u.ctr \in 0 .. MaxCounter /\ f.ctr \in 0 .. MaxCounter
            BY <3>1, <3>2 DEF ManagerTypeOK, Held, Session, Frame, Counter
        <3> QED BY <3>2, <3>3, SessionAssumption
    <2> QED BY <2>1, <2>2
<1> QED BY <1>1, <1>2 DEF NonceNeverReused, Held

\* A step never forgets a counter accepted under the key of a held session.
LEMMA ReplayStep ==
    ASSUME ManagerTypeOK', KeysDistinct', Shape,
           \A m \in Link : Recorded(m), AcceptedOnce
    PROVE  AcceptedOnce'
<1>0. \A m \in Link, o \in opened' :
          o.link = m => o \in opened \/ \E t \in Held(m)' : t.key = o.key /\ o.ctr \in t.seen
    BY DEF Recorded, Held
<1>1. ASSUME NEW l \in Link, NEW t, t \in Held(l)', NEW o \in opened', o.link = l, o.key = t.key
      PROVE  o.ctr \in t.seen
    <2>1. CASE o \in opened
        <3>1. ~ NewKey(l, t.key)
            BY <1>1, <2>1 DEF NewKey
        <3>2. PICK s \in Held(l) : Descends(t, s)
            BY <1>1, <3>1, Origin
        <3> QED BY <1>1, <2>1, <3>2 DEF AcceptedOnce, Descends
    <2>2. CASE o \notin opened
        <3>1. PICK u \in Held(l)' : u.key = o.key /\ o.ctr \in u.seen
            BY <1>0, <1>1, <2>2
        <3>2. \A a, b \in Held(l)' : a.key = b.key => a = b
            BY DEF ManagerTypeOK, KeysDistinct, AtMostOne, Held
        <3> QED BY <1>1, <3>1, <3>2
    <2> QED BY <2>1, <2>2
<1> QED BY <1>1 DEF AcceptedOnce, Held

\* The manager's inductive invariant for its sessions.
SessionsInv ==
    ManagerTypeOK /\ KeysDistinct /\ SlotsDisjoint /\ NonceNeverReused /\ AcceptedOnce

\* Every step of the manager preserves it.
LEMMA SessionsStep ==
    SessionsInv /\ [ManagerNext]_managerVars => SessionsInv'
BY TypeStep, ShapeOfStep, KeysStep, IdsStep, NonceStep, ReplayStep DEF SessionsInv

\* All of it holds in every state of the manager.
LEMMA SessionsSafe == ManagerSpec => []SessionsInv
<1>1. ManagerInit => SessionsInv
    <2>1. ManagerInit => ManagerTypeOK
        BY DEF ManagerInit, Empty, ManagerTypeOK, AtMostOne
    <2>2. ManagerInit => KeysDistinct /\ SlotsDisjoint
        BY DEF ManagerInit, Empty, KeysDistinct, SlotsDisjoint
    <2>3. ManagerInit => NonceNeverReused /\ AcceptedOnce
        BY DEF ManagerInit, NonceNeverReused, AcceptedOnce
    <2> QED BY <2>1, <2>2, <2>3 DEF SessionsInv
<1> QED BY <1>1, SessionsStep, PTL DEF ManagerSpec

\* encrypt_for_peer and finalize_initiator never use a nonce of a key twice, and
\* never the last one, whatever promotions, rekeys, errors and restarts happened
\* in between.
THEOREM NoncesSafe == ManagerSpec => []NonceNeverReused
BY SessionsSafe, PTL DEF SessionsInv

\* Every transport counter the manager accepted is remembered by the session
\* that accepted it for as long as the session is held, across its promotion
\* from candidate to active and its replacement.
THEOREM ReplaysSafe == ManagerSpec => []AcceptedOnce
BY SessionsSafe, PTL DEF SessionsInv

\* The lookup by session identifier in decrypt_transport has at most one match
\* over all peers and all three maps.
THEOREM LookupUnambiguous == ManagerSpec => []SlotsDisjoint
BY SessionsSafe, PTL DEF SessionsInv

=============================================================================
