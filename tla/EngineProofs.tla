---------------------------- MODULE EngineProofs ----------------------------
(***************************************************************************)
(* The engine uses the session manager as ManagerSpec says, for every      *)
(* number of nodes, every assignment of handlers to threads and every      *)
(* behaviour of the network: so the theorems of SessionManagerProofs hold  *)
(* inside the engine.  What needs an invariant of the engine itself is     *)
(* that no handshake gives a link a key it has had before.                 *)
(***************************************************************************)
EXTENDS Engine, SessionManagerProofs

-----------------------------------------------------------------------------
(* The invariant                                                           *)

\* Link l has had the key: in a session, or in its histories.
Known(l, key) == ~ NewKey(l, key)

\* What a packet carries was drawn, derived or sealed by somebody.
PacketOK(p) ==
    /\ p.link \in Link
    /\ p.type = "init" => p.hid \in used
    /\ p.type = "response" => p.hid \in used /\ p.id \in SessionId /\ p.key \in drawn
    /\ p.type = "transport" => p.frame \in sealed /\ p.frame.link = p.link

\* ... and so was what a thread carries from one step of a handler to the next.
TodoOK(todo) ==
    /\ todo.step = "initiate" => todo.send \subseteq sealed
    /\ todo.step \in {"lookup", "store"} => todo.hid \in used

CarriedOK ==
    /\ \A p \in net : PacketOK(p)
    /\ at = [nt \in Node \X Thread |-> at[nt]]
    /\ \A nt \in Node \X Thread : \A todo \in at[nt] : TodoOK(todo)

\* The histories of identifiers and keys are complete.
DrawnOK ==
    /\ used \subseteq HandshakeId
    /\ drawn \subseteq Key
    /\ \A l \in Link : /\ \A p \in pending_init[l] : p.hid \in used
                       /\ \A c \in responder_cache[l] : c.hid \in used /\ c.key \in drawn
                       /\ \A key : Known(l, key) => key \in drawn

\* A msg2 of link m with this key, in flight or cached, answers exchange hid.
Answers(m, hid, key) ==
    \/ \E r \in net : r.type = "response" /\ r.link = m /\ r.hid = hid /\ r.key = key
    \/ \E c \in responder_cache[m] : c.hid = hid /\ c.key = key

\* Once the initiator has had the key of a msg2, the exchange that msg2 answers
\* is over, and its identifier is never drawn again.
AnsweredOnce ==
    \A m \in Link : \A hid, key :
        Answers(m, hid, key) /\ Known(Reverse(m), key) =>
            \A p \in pending_init[Reverse(m)] : p.hid # hid

\* One end of every session in use, and of every frame, confirmed it.
Confirmed(l, key) == Finalized(l, key) \/ Finalized(Reverse(l), key)

SealedConfirmed == \A f \in sealed : Confirmed(f.link, f.key)

EngineInv ==
    /\ SessionsInv
    /\ CarriedOK
    /\ DrawnOK
    /\ AnsweredOnce
    /\ SealedConfirmed
    /\ ConfirmedBeforeActive

-----------------------------------------------------------------------------
(* What the calls of the manager do to keys, exchanges and histories       *)

\* No exchange gets a new identifier.
PendingKept ==
    \A m \in Link : \A p \in pending_init'[m] : \E q \in pending_init[m] : q.hid = p.hid

\* No response is put into a cache.
CacheKept ==
    \A m \in Link : \A c \in responder_cache'[m] :
        \E d \in responder_cache[m] : d.hid = c.hid /\ d.key = c.key

\* Only start_or_retry_handshake draws identifiers, and only
\* store_responder_candidate caches a response.
LEMMA ExchangeKept ==
    ASSUME ManagerTypeOK, NEW l \in Link
    PROVE  /\ \A kind : EncryptFrame(l, kind) => PendingKept /\ CacheKept
           /\ EncryptNone(l) => PendingKept /\ CacheKept
           /\ EncryptError(l) => PendingKept /\ CacheKept
           /\ \A f : OpenActive(l, f) => PendingKept /\ CacheKept
           /\ \A f : OpenPrevious(l, f) => PendingKept /\ CacheKept
           /\ \A f : OpenCandidate(l, f) => PendingKept /\ CacheKept
           /\ \A f : RejectTransport(l[1], f) => PendingKept /\ CacheKept
           /\ cached_responder_response(l) => PendingKept /\ CacheKept
           /\ \A hid : accept_inbound_initiation(l, hid) => PendingKept /\ CacheKept
           /\ RetryHandshake(l) => PendingKept /\ CacheKept
           /\ StartNothing(l) => PendingKept /\ CacheKept
           /\ \A hid : StartHandshake(l, hid) => CacheKept
           /\ \A id, key : FinalizeSession(l, id, key) => PendingKept /\ CacheKept
           /\ FinalizeError(l) => PendingKept /\ CacheKept
           /\ invalidate_peer(l) => PendingKept /\ CacheKept
           /\ RestartManager(l[1]) => PendingKept /\ CacheKept
           /\ Age => PendingKept /\ CacheKept
           /\ UNCHANGED managerVars => PendingKept /\ CacheKept
<1>0. /\ pending_init \in [Link -> SUBSET Pending]
      /\ responder_cache \in [Link -> SUBSET CachedResponse]
    BY DEF ManagerTypeOK
<1> DEFINE Pend == \A m \in Link : pending_init'[m] \subseteq pending_init[m]
           Cach == \A m \in Link : responder_cache'[m] \subseteq responder_cache[m]
<1>p. Pend => PendingKept
    BY DEF PendingKept
<1>c. Cach => CacheKept
    BY DEF CacheKept
<1>1. UNCHANGED exchange => Pend /\ Cach
    BY DEF exchange
<1>2. ASSUME NEW kind, EncryptFrame(l, kind) PROVE UNCHANGED exchange
    BY <1>2 DEF EncryptFrame
<1>3. EncryptNone(l) \/ EncryptError(l) => UNCHANGED exchange
    BY DEF EncryptNone, EncryptError
<1>4. ASSUME NEW f, OpenActive(l, f) \/ OpenPrevious(l, f) \/ RejectTransport(l[1], f)
      PROVE  UNCHANGED exchange
    BY <1>4 DEF OpenActive, OpenPrevious, RejectTransport
<1>5. ASSUME NEW f, OpenCandidate(l, f) PROVE Pend /\ Cach
    <2>1. /\ pending_init' = [pending_init EXCEPT ![l] = {}]
          /\ responder_cache' = [responder_cache EXCEPT ![l] = {}]
        BY <1>5 DEF OpenCandidate
    <2> QED BY <1>0, <2>1
<1>6. cached_responder_response(l) => Pend /\ Cach
    BY <1>0 DEF cached_responder_response
<1>7. ASSUME NEW hid, accept_inbound_initiation(l, hid) PROVE Pend /\ Cach
    BY <1>0, <1>7 DEF accept_inbound_initiation, CurrentAttempt
<1>8. RetryHandshake(l) => PendingKept /\ Cach
    <2> SUFFICES ASSUME RetryHandshake(l) PROVE PendingKept /\ Cach
        OBVIOUS
    <2>1. PICK p \in CurrentAttempt(l) :
              /\ pending_init' = [pending_init EXCEPT ![l] =
                  {IF p.sinceSent < RetryInterval THEN p ELSE [p EXCEPT !.sinceSent = 0]}]
              /\ responder_cache' = responder_cache
        BY DEF RetryHandshake
    <2>2. p \in pending_init[l] /\ p \in Pending
        BY <1>0 DEF CurrentAttempt
    <2>3. (IF p.sinceSent < RetryInterval THEN p ELSE [p EXCEPT !.sinceSent = 0]).hid = p.hid
        BY <2>2 DEF Pending
    <2> QED BY <1>0, <2>1, <2>2, <2>3 DEF PendingKept
<1>9. DropExpired(l) => Cach
    BY <1>0 DEF DropExpired
<1>10. StartNothing(l) => Pend /\ Cach
    BY <1>0, <1>9 DEF StartNothing
<1>11. ASSUME NEW hid, StartHandshake(l, hid) PROVE Cach
    BY <1>9, <1>11 DEF StartHandshake
<1>12. ASSUME NEW id, NEW key, FinalizeSession(l, id, key) PROVE Pend /\ Cach
    <2>1. /\ pending_init' = [pending_init EXCEPT ![l] = {}]
          /\ responder_cache' = [responder_cache EXCEPT ![l] = {}]
        BY <1>12 DEF FinalizeSession
    <2> QED BY <1>0, <2>1
<1>13. FinalizeError(l) \/ invalidate_peer(l) => Pend /\ Cach
    BY <1>0 DEF FinalizeError, invalidate_peer
<1>14. RestartManager(l[1]) => Pend /\ Cach
    BY <1>0 DEF RestartManager
<1>15. Age => PendingKept /\ CacheKept
    <2>1. \A p \in Pending : OlderPending(p).hid = p.hid
        BY DEF Pending, OlderPending
    <2>2. \A c \in CachedResponse : OlderCached(c).hid = c.hid /\ OlderCached(c).key = c.key
        BY DEF CachedResponse, OlderCached
    <2>3. Age => /\ \A m \in Link : pending_init'[m] = {OlderPending(p) : p \in pending_init[m]}
                 /\ \A m \in Link : responder_cache'[m] = {OlderCached(c) : c \in responder_cache[m]}
        BY DEF Age
    <2> QED BY <1>0, <2>1, <2>2, <2>3 DEF PendingKept, CacheKept
<1>16. UNCHANGED managerVars => UNCHANGED exchange
    BY DEF managerVars
<1> HIDE DEF Pend, Cach
<1> QED BY <1>p, <1>c, <1>1, <1>2, <1>3, <1>4, <1>5, <1>6, <1>7, <1>8, <1>10, <1>11, <1>12,
           <1>13, <1>14, <1>15, <1>16

\* A link learns a key only with a session that has it.
LEMMA KnownAdds ==
    ASSUME NEW m \in Link, Recorded(m), NEW K,
           \A t \in Held(m)' : (\E s \in Held(m) : s.key = t.key) \/ t.key \in K,
           NEW key, Known(m, key)'
    PROVE  Known(m, key) \/ key \in K
<1>1. CASE \E t \in Held(m)' : t.key = key
    BY <1>1 DEF Known, NewKey
<1>2. CASE \E f \in sealed' : f.link = m /\ f.key = key
    <2>1. PICK f \in sealed' : f.link = m /\ f.key = key
        BY <1>2
    <2>2. f \in sealed \/ \E t \in Held(m)' : t.key = key
        BY <2>1 DEF Recorded, Held
    <2> QED BY <1>1, <2>1, <2>2 DEF Known, NewKey
<1>3. CASE \E o \in opened' : o.link = m /\ o.key = key
    <2>1. PICK o \in opened' : o.link = m /\ o.key = key
        BY <1>3
    <2>2. o \in opened \/ \E t \in Held(m)' : t.key = key
        BY <2>1 DEF Recorded, Held
    <2> QED BY <1>1, <2>1, <2>2 DEF Known, NewKey
<1> QED BY <1>1, <1>2, <1>3 DEF Known, NewKey

\* A link whose sessions stay, or whose candidate is promoted, learns none.
LEMMA KnownKept ==
    ASSUME NEW m \in Link, Recorded(m), Stays(m) \/ Promotes(m), NEW key, Known(m, key)'
    PROVE  Known(m, key)
<1>1. ASSUME NEW t, t \in Held(m)' PROVE \E s \in Held(m) : s.key = t.key
    <2>1. t \in sessions'[m] \cup previous_sessions'[m] \cup responder_candidates'[m]
        BY <1>1 DEF Held
    <2>2. CASE Stays(m)
        BY <2>1, <2>2 DEF Stays, From, Descends, Held
    <2>3. CASE Promotes(m)
        BY <2>1, <2>3 DEF Promotes, Demotes, From, Descends, Held
    <2> QED BY <2>2, <2>3
<1> DEFINE none == {}
<1> HIDE DEF none
<1>2. \A t \in Held(m)' : (\E s \in Held(m) : s.key = t.key) \/ t.key \in none
    BY <1>1
<1>3. Known(m, key) \/ key \in none
    BY <1>2, KnownAdds
<1> QED BY <1>3 DEF none

\* The histories of the manager only grow.
LEMMA HistoryGrows ==
    [ManagerNext]_managerVars => sealed \subseteq sealed' /\ opened \subseteq opened'
<1> SUFFICES ASSUME [ManagerNext]_managerVars
             PROVE  sealed \subseteq sealed' /\ opened \subseteq opened'
    OBVIOUS
<1> DEFINE Goal == sealed \subseteq sealed' /\ opened \subseteq opened'
<1>1. ASSUME NEW l, NEW kind, EncryptFrame(l, kind) PROVE Goal
    BY <1>1 DEF EncryptFrame
<1>2. ASSUME NEW l, NEW f, OpenActive(l, f) \/ OpenPrevious(l, f) \/ OpenCandidate(l, f)
                             \/ RejectTransport(l[1], f)
      PROVE  Goal
    BY <1>2 DEF OpenActive, OpenPrevious, OpenCandidate, RejectTransport
<1>3. ASSUME NEW l, NEW id, NEW key, FinalizeSession(l, id, key) PROVE Goal
    BY <1>3 DEF FinalizeSession
<1>4. ASSUME UNCHANGED <<sealed, opened>> PROVE Goal
    BY <1>4
<1> HIDE DEF Goal
<1>5. ASSUME NEW l \in Link, Operation(l) PROVE Goal
    <2>1. CASE \E id \in SessionId, key \in Key, ctr \in 0 .. MaxCounter - 1 :
              LET f == [link |-> Reverse(l), id |-> id, key |-> key, ctr |-> ctr,
                        kind |-> "data"]
              IN  OpenActive(l, f) \/ OpenPrevious(l, f) \/ OpenCandidate(l, f)
                    \/ RejectTransport(l[1], f)
        <3>1. PICK f : OpenActive(l, f) \/ OpenPrevious(l, f) \/ OpenCandidate(l, f)
                         \/ RejectTransport(l[1], f)
            BY <2>1
        <3> QED BY <1>2, <3>1
    <2>2. CASE \E id \in SessionId, key \in Key : NewKey(l, key) /\ FinalizeSession(l, id, key)
        BY <1>3, <2>2
    <2>3. CASE \E kind \in MessageKind : EncryptFrame(l, kind)
        BY <1>1, <2>3
    <2>4. CASE \/ \E id \in SessionId, key \in Key, hid \in HandshakeId :
                     NewKey(l, key) /\ store_responder_candidate(l, id, key, hid)
               \/ \E remote \in HandshakeId : accept_inbound_initiation(l, remote)
               \/ \E hid \in HandshakeId : StartHandshake(l, hid)
        BY <1>4, <2>4 DEF store_responder_candidate, accept_inbound_initiation, StartHandshake
    <2>5. CASE EncryptNone(l) \/ EncryptError(l) \/ cached_responder_response(l)
        BY <1>4, <2>5 DEF EncryptNone, EncryptError, cached_responder_response
    <2>6. CASE RetryHandshake(l) \/ StartNothing(l) \/ FinalizeError(l) \/ invalidate_peer(l)
        BY <1>4, <2>6 DEF RetryHandshake, StartNothing, FinalizeError, invalidate_peer
    <2> QED BY <1>5, <2>1, <2>2, <2>3, <2>4, <2>5, <2>6, Zenon DEF Operation
<1>6. ASSUME NEW l \in Link, RestartManager(l[1]) PROVE Goal
    BY <1>4, <1>6 DEF RestartManager
<1>7. ASSUME Age PROVE Goal
    BY <1>4, <1>7 DEF Age
<1>8. ASSUME UNCHANGED managerVars PROVE Goal
    BY <1>4, <1>8 DEF managerVars
<1> QED BY <1>5, <1>6, <1>7, <1>8 DEF ManagerNext, Goal

-----------------------------------------------------------------------------
(* Preservation                                                            *)

\* What packets and threads carry stays in order if what a step adds is.
LEMMA CarriedNext ==
    ASSUME CarriedOK,
           sealed \subseteq sealed', used \subseteq used', drawn \subseteq drawn',
           \A p \in net' : p \in net \/ PacketOK(p)',
           at' = [nt \in Node \X Thread |-> at'[nt]],
           \A nt \in Node \X Thread : \A todo \in at'[nt] : todo \in at[nt] \/ TodoOK(todo)'
    PROVE  CarriedOK'
<1>1. ASSUME NEW p \in net' PROVE PacketOK(p)'
    <2>1. CASE p \in net
        <3>1. PacketOK(p)
            BY <2>1 DEF CarriedOK
        <3> QED BY <3>1 DEF PacketOK
    <2> QED BY <2>1
<1>2. ASSUME NEW nt \in Node \X Thread, NEW todo \in at'[nt] PROVE TodoOK(todo)'
    <2>1. CASE todo \in at[nt]
        <3>1. TodoOK(todo)
            BY <2>1 DEF CarriedOK
        <3> QED BY <3>1 DEF TodoOK
    <2> QED BY <2>1
<1> QED BY <1>1, <1>2 DEF CarriedOK

\* A response that is in flight or cached, with a drawn identifier and a drawn key.
LEMMA AnswersDrawn ==
    ASSUME CarriedOK, DrawnOK, NEW m \in Link, NEW hid, NEW key, Answers(m, hid, key)
    PROVE  hid \in used /\ key \in drawn
BY DEF CarriedOK, DrawnOK, Answers, PacketOK

\* The exchanges stay in order when a step draws identifiers that are new, adds
\* responses with keys that are new, and when a link that learns a key has no
\* exchange pending.
LEMMA AnswersNext ==
    ASSUME CarriedOK, DrawnOK, AnsweredOnce,
           used \subseteq used', used' \subseteq HandshakeId,
           drawn \subseteq drawn', drawn' \subseteq Key,
           NEW l \in Link,
           \A m \in Link : \A p \in pending_init'[m] :
               (\E q \in pending_init[m] : q.hid = p.hid) \/ p.hid \in used' \ used,
           \A m \in Link : \A hid, key : Answers(m, hid, key)' =>
               Answers(m, hid, key) \/ (hid \in used /\ key \in drawn' \ drawn),
           \A m \in Link : \A key : Known(m, key)' =>
               Known(m, key) \/ (m = l /\ key \in drawn' /\ pending_init'[l] = {})
    PROVE  DrawnOK' /\ AnsweredOnce'
<1>1. ASSUME NEW m \in Link
      PROVE  /\ \A p \in pending_init'[m] : p.hid \in used'
             /\ \A c \in responder_cache'[m] : c.hid \in used' /\ c.key \in drawn'
             /\ \A key : Known(m, key)' => key \in drawn'
    <2>1. \A p \in pending_init'[m] : p.hid \in used'
        BY DEF DrawnOK
    <2>2. ASSUME NEW c \in responder_cache'[m] PROVE c.hid \in used' /\ c.key \in drawn'
        <3>1. Answers(m, c.hid, c.key)'
            BY <2>2 DEF Answers
        <3>2. Answers(m, c.hid, c.key) \/ (c.hid \in used /\ c.key \in drawn' \ drawn)
            BY <3>1
        <3> QED BY <3>2, AnswersDrawn
    <2>3. \A key : Known(m, key)' => key \in drawn'
        BY DEF DrawnOK
    <2> QED BY <2>1, <2>2, <2>3
<1>2. ASSUME NEW m \in Link, NEW hid, NEW key, Answers(m, hid, key)', Known(Reverse(m), key)',
             NEW p \in pending_init'[Reverse(m)]
      PROVE  p.hid # hid
    <2>0. Reverse(m) \in Link
        BY EngineAssumption
    <2>1. Known(Reverse(m), key)
        BY <1>2, <2>0
    <2>2. key \in drawn
        BY <2>0, <2>1 DEF DrawnOK
    <2>3. Answers(m, hid, key)
        BY <1>2, <2>2
    <2>4. hid \in used
        BY <2>3, AnswersDrawn
    <2>5. \A q \in pending_init[Reverse(m)] : q.hid # hid
        BY <2>1, <2>3 DEF AnsweredOnce
    <2> QED BY <2>0, <2>4, <2>5
<1>3. DrawnOK'
    BY <1>1 DEF DrawnOK
<1>4. AnsweredOnce'
    BY <1>2 DEF AnsweredOnce
<1> QED BY <1>3, <1>4

\* A confirmed session stays confirmed.
LEMMA ConfirmedKept ==
    ASSUME sealed \subseteq sealed', NEW l, NEW key, Confirmed(l, key)
    PROVE  Confirmed(l, key)'
BY DEF Confirmed, Finalized

\* Every session in use stays confirmed, and so does every frame, if the key that
\* a link starts to use is confirmed.
LEMMA ConfirmedNext ==
    ASSUME ManagerTypeOK', SealedConfirmed, ConfirmedBeforeActive, sealed \subseteq sealed',
           \A m \in Link : Recorded(m),
           \A m \in Link : \A t \in sessions'[m] \cup previous_sessions'[m] :
               \/ \E s \in sessions[m] \cup previous_sessions[m] : s.key = t.key
               \/ Confirmed(m, t.key)'
    PROVE  SealedConfirmed' /\ ConfirmedBeforeActive'
<1>1. ASSUME NEW m \in Link, NEW t \in sessions'[m] \cup previous_sessions'[m]
      PROVE  Confirmed(m, t.key)'
    <2>1. CASE \E s \in sessions[m] \cup previous_sessions[m] : s.key = t.key
        <3>1. Confirmed(m, t.key)
            BY <2>1 DEF ConfirmedBeforeActive, Confirmed
        <3> QED BY <3>1, ConfirmedKept
    <2> QED BY <2>1
<1>2. ConfirmedBeforeActive'
    BY <1>1 DEF ConfirmedBeforeActive, Confirmed
<1>3. ASSUME NEW f \in sealed' PROVE Confirmed(f.link, f.key)'
    <2>1. CASE f \in sealed
        <3>1. Confirmed(f.link, f.key)
            BY <2>1 DEF SealedConfirmed
        <3> QED BY <3>1, ConfirmedKept
    <2>2. CASE f \notin sealed
        <3>1. f.link \in Link
            BY DEF ManagerTypeOK, Frame
        <3>2. PICK t \in sessions'[f.link] : t.key = f.key
            BY <2>2, <3>1 DEF Recorded
        <3> QED BY <1>1, <3>1, <3>2
    <2> QED BY <2>1, <2>2
<1>4. SealedConfirmed'
    BY <1>3 DEF SealedConfirmed
<1> QED BY <1>2, <1>4

\* Responses in flight after a step that sent none and cached none.
LEMMA AnswersKept ==
    ASSUME CacheKept, \A r \in net' : r.type = "response" => r \in net,
           NEW m \in Link, NEW hid, NEW key, Answers(m, hid, key)'
    PROVE  Answers(m, hid, key)
BY DEF Answers, CacheKept

\* A step that derives no session: what it draws, sends and leaves to its thread
\* decides whether the engine's invariant holds after it.
LEMMA SteadyEngine ==
    ASSUME EngineInv, ManagerNext \/ UNCHANGED managerVars,
           \A m \in Link : (Stays(m) \/ Promotes(m)) /\ Recorded(m),
           \A m \in Link : \A t \in sessions'[m] \cup previous_sessions'[m] :
               \/ \E s \in sessions[m] \cup previous_sessions[m] : s.key = t.key
               \/ Confirmed(m, t.key)',
           \A m \in Link : \A p \in pending_init'[m] :
               (\E q \in pending_init[m] : q.hid = p.hid) \/ p.hid \in used' \ used,
           \A m \in Link : \A hid, key : Answers(m, hid, key)' => Answers(m, hid, key),
           used \subseteq used', used' \subseteq HandshakeId, drawn' = drawn,
           \A p \in net' : p \in net \/ PacketOK(p)',
           at' = [nt \in Node \X Thread |-> at'[nt]],
           \A nt \in Node \X Thread : \A todo \in at'[nt] : todo \in at[nt] \/ TodoOK(todo)'
    PROVE  EngineInv'
<1>1. [ManagerNext]_managerVars
    OBVIOUS
<1>2. SessionsInv' /\ sealed \subseteq sealed'
    BY <1>1, SessionsStep, HistoryGrows DEF EngineInv
<1>3. CarriedOK'
    BY <1>2, CarriedNext DEF EngineInv
<1>4. Link # {} => DrawnOK' /\ AnsweredOnce'
    <2> SUFFICES ASSUME NEW l \in Link PROVE DrawnOK' /\ AnsweredOnce'
        OBVIOUS
    <2>1. \A m \in Link : \A key : Known(m, key)' => Known(m, key)
        BY KnownKept
    <2>2. drawn' \subseteq Key
        BY DEF EngineInv, DrawnOK
    <2>3. CarriedOK /\ DrawnOK /\ AnsweredOnce
        BY DEF EngineInv
    <2>4. /\ \A m \in Link : \A hid, key : Answers(m, hid, key)' =>
               Answers(m, hid, key) \/ (hid \in used /\ key \in drawn' \ drawn)
          /\ \A m \in Link : \A key : Known(m, key)' =>
               Known(m, key) \/ (m = l /\ key \in drawn' /\ pending_init'[l] = {})
        BY <2>1
    <2> QED BY <2>2, <2>3, <2>4, AnswersNext
<1>5. Link = {} => DrawnOK' /\ AnsweredOnce'
    BY DEF EngineInv, DrawnOK, AnsweredOnce
<1>6. SealedConfirmed' /\ ConfirmedBeforeActive'
    BY <1>2, ConfirmedNext DEF EngineInv, SessionsInv
<1> QED BY <1>2, <1>3, <1>4, <1>5, <1>6 DEF EngineInv

\* ... in particular if every session stays in its place and no msg2 is sent.
LEMMA QuietEngine ==
    ASSUME EngineInv, ManagerNext \/ UNCHANGED managerVars,
           \A m \in Link : Stays(m) /\ Recorded(m),
           CacheKept,
           \A m \in Link : \A p \in pending_init'[m] :
               (\E q \in pending_init[m] : q.hid = p.hid) \/ p.hid \in used' \ used,
           used \subseteq used', used' \subseteq HandshakeId, drawn' = drawn,
           \A p \in net' : p \in net \/ (PacketOK(p)' /\ p.type # "response"),
           at' = [nt \in Node \X Thread |-> at'[nt]],
           \A nt \in Node \X Thread : \A todo \in at'[nt] : todo \in at[nt] \/ TodoOK(todo)'
    PROVE  EngineInv'
<1>1. \A m \in Link : \A t \in sessions'[m] \cup previous_sessions'[m] :
          \E s \in sessions[m] \cup previous_sessions[m] : s.key = t.key
    BY DEF Stays, From, Descends
<1>2. \A m \in Link : \A hid, key : Answers(m, hid, key)' => Answers(m, hid, key)
    BY AnswersKept
<1> QED BY <1>1, <1>2, SteadyEngine

\* The last step of a handler, or a step that is followed by one in good order.
LEMMA ThreadNext ==
    ASSUME CarriedOK, NEW l \in Link, NEW t \in Thread
    PROVE  /\ Finish(l[1], t) =>
                /\ at' = [nt \in Node \X Thread |-> at'[nt]]
                /\ \A nt \in Node \X Thread : \A todo \in at'[nt] : todo \in at[nt]
           /\ \A d : Continue(l[1], t, d) /\ TodoOK(d)' =>
                /\ at' = [nt \in Node \X Thread |-> at'[nt]]
                /\ \A nt \in Node \X Thread : \A todo \in at'[nt] :
                      todo \in at[nt] \/ TodoOK(todo)'
           /\ at' = at =>
                /\ at' = [nt \in Node \X Thread |-> at'[nt]]
                /\ \A nt \in Node \X Thread : \A todo \in at'[nt] : todo \in at[nt]
<1>0. <<l[1], t>> \in Node \X Thread
    BY DEF Node
<1>1. at = [nt \in Node \X Thread |-> at[nt]]
    BY DEF CarriedOK
<1>2. Finish(l[1], t) =>
                /\ at' = [nt \in Node \X Thread |-> at'[nt]]
                /\ \A nt \in Node \X Thread : \A todo \in at'[nt] : todo \in at[nt]
    BY <1>0, <1>1 DEF Finish
<1>3. ASSUME NEW d, Continue(l[1], t, d), TodoOK(d)'
      PROVE  /\ at' = [nt \in Node \X Thread |-> at'[nt]]
             /\ \A nt \in Node \X Thread : \A todo \in at'[nt] : todo \in at[nt] \/ TodoOK(todo)'
    BY <1>0, <1>1, <1>3 DEF Continue
<1> QED BY <1>1, <1>2, <1>3

\* The threads that the engine has.
LEMMA Threads ==
    TunThread \in Thread /\ TransportThread \in Thread /\ TimerThread \in Thread
BY DEF Thread

\* A call of the manager is a step of ManagerNext.
LEMMA CallIsStep ==
    ASSUME NEW l \in Link
    PROVE  /\ \A kind \in MessageKind : EncryptFrame(l, kind) => ManagerNext
           /\ EncryptNone(l) \/ EncryptError(l) => ManagerNext
           /\ cached_responder_response(l) => ManagerNext
           /\ \A hid \in HandshakeId : accept_inbound_initiation(l, hid) => ManagerNext
           /\ RetryHandshake(l) \/ StartNothing(l) => ManagerNext
           /\ \A hid \in HandshakeId : StartHandshake(l, hid) => ManagerNext
           /\ \A id \in SessionId, key \in Key, hid \in HandshakeId :
                 NewKey(l, key) /\ store_responder_candidate(l, id, key, hid) => ManagerNext
           /\ \A id \in SessionId, key \in Key :
                 NewKey(l, key) /\ FinalizeSession(l, id, key) => ManagerNext
           /\ FinalizeError(l) \/ invalidate_peer(l) => ManagerNext
           /\ RestartManager(l[1]) => ManagerNext
<1>1. Operation(l) => ManagerNext
    BY DEF ManagerNext
<1>2. \A kind \in MessageKind : EncryptFrame(l, kind) => Operation(l)
    BY Zenon DEF Operation
<1>3. EncryptNone(l) \/ EncryptError(l) \/ cached_responder_response(l) => Operation(l)
    BY Zenon DEF Operation
<1>4. \A hid \in HandshakeId : accept_inbound_initiation(l, hid) => Operation(l)
    BY Zenon DEF Operation
<1>5. RetryHandshake(l) \/ StartNothing(l) => Operation(l)
    BY Zenon DEF Operation
<1>6. \A hid \in HandshakeId : StartHandshake(l, hid) => Operation(l)
    BY Zenon DEF Operation
<1>7. \A id \in SessionId, key \in Key, hid \in HandshakeId :
                 NewKey(l, key) /\ store_responder_candidate(l, id, key, hid) => Operation(l)
    BY Zenon DEF Operation
<1>8. \A id \in SessionId, key \in Key :
                 NewKey(l, key) /\ FinalizeSession(l, id, key) => Operation(l)
    BY Zenon DEF Operation
<1>9. FinalizeError(l) \/ invalidate_peer(l) => Operation(l)
    BY Zenon DEF Operation
<1>10. RestartManager(l[1]) => ManagerNext
    BY DEF ManagerNext
<1> QED BY <1>1, <1>2, <1>3, <1>4, <1>5, <1>6, <1>7, <1>8, <1>9, <1>10

\* A frame that was sealed and arrives is one of the frames of Operation: its
\* kind plays no part, and its counter is below the last.
LEMMA TransportIsStep ==
    ASSUME SessionsInv, NEW f \in sealed, NEW l \in Link, f.link = Reverse(l),
           decrypt_transport(l, f) \/ RejectTransport(l[1], f)
    PROVE  ManagerNext
<1> DEFINE g == [link |-> Reverse(l), id |-> f.id, key |-> f.key, ctr |-> f.ctr,
                 kind |-> "data"]
<1>1. f.id \in SessionId /\ f.key \in Key /\ f.ctr \in 0 .. MaxCounter - 1
    <2>1. f \in Frame /\ f.ctr < MaxCounter
        BY DEF SessionsInv, ManagerTypeOK, NonceNeverReused
    <2> QED BY <2>1, SessionAssumption DEF Frame, Counter
<1>2. g.link = f.link /\ g.id = f.id /\ g.key = f.key /\ g.ctr = f.ctr
    OBVIOUS
<1> HIDE DEF g
<1>3. /\ \A s, m : Opens(s, m, f) <=> Opens(s, m, g)
      /\ \A m : ReceiptOf(m, f) = ReceiptOf(m, g)
    BY <1>2 DEF Opens, ReceiptOf
<1>4. OpenActive(l, f) => OpenActive(l, g)
    BY <1>2, <1>3 DEF OpenActive
<1>5. OpenPrevious(l, f) => OpenPrevious(l, g)
    BY <1>2, <1>3 DEF OpenPrevious
<1>6. OpenCandidate(l, f) => OpenCandidate(l, g)
    BY <1>2, <1>3 DEF OpenCandidate
<1>7. RejectTransport(l[1], f) => RejectTransport(l[1], g)
    BY <1>2, <1>3 DEF RejectTransport
<1>8. OpenActive(l, g) \/ OpenPrevious(l, g) \/ OpenCandidate(l, g) \/ RejectTransport(l[1], g)
    BY <1>4, <1>5, <1>6, <1>7 DEF decrypt_transport
<1>9. \E id \in SessionId, key \in Key, ctr \in 0 .. MaxCounter - 1 :
          LET h == [link |-> Reverse(l), id |-> id, key |-> key, ctr |-> ctr, kind |-> "data"]
          IN  OpenActive(l, h) \/ OpenPrevious(l, h) \/ OpenCandidate(l, h)
                \/ RejectTransport(l[1], h)
    BY <1>1, <1>8, Zenon DEF g
<1>10. Operation(l)
    BY <1>9, Zenon DEF Operation
<1> QED BY <1>10 DEF ManagerNext

-----------------------------------------------------------------------------
(* One lemma for each action of the engine                                 *)

\* At most one call of the manager was made, and the invariant holds after it.
StepOK == (ManagerNext \/ UNCHANGED managerVars) /\ EngineInv'

\* Steady calls, with what follows for the step that makes one.
LEMMA SteadyCalls ==
    ASSUME EngineInv, NEW l \in Link, ManagerNext \/ UNCHANGED managerVars,
           SteadyCall(l) \/ UNCHANGED managerVars, PendingKept, CacheKept,
           used' = used, drawn' = drawn,
           \A p \in net' : p \in net \/ (PacketOK(p)' /\ p.type # "response"),
           at' = [nt \in Node \X Thread |-> at'[nt]],
           \A nt \in Node \X Thread : \A todo \in at'[nt] : todo \in at[nt] \/ TodoOK(todo)'
    PROVE  StepOK
<1>1. ManagerTypeOK
    BY DEF EngineInv, SessionsInv
<1>2. \A m \in Link : Stays(m) /\ Recorded(m)
    BY <1>1, SteadyStep
<1>3. used' \subseteq HandshakeId
    BY DEF EngineInv, DrawnOK
<1>4. \A m \in Link : \A p \in pending_init'[m] : \E q \in pending_init[m] : q.hid = p.hid
    BY DEF PendingKept
<1>5. used \subseteq used'
    OBVIOUS
<1> QED BY <1>2, <1>3, <1>4, <1>5, QuietEngine DEF StepOK

\* process_outbound_ip and create_keepalive.
LEMMA OutboundStep ==
    ASSUME EngineInv, NEW l \in Link, NEW t \in Thread, NEW kind \in MessageKind,
           Outbound(t, l, kind)
    PROVE  StepOK
<1>0. ManagerTypeOK /\ CarriedOK
    BY DEF EngineInv, SessionsInv
<1>1. net' = net /\ used' = used /\ drawn' = drawn
    BY DEF Outbound, history
<1>2. CASE EncryptFrame(l, kind)
            /\ Continue(l[1], t, [link |-> l, step |-> "initiate", send |-> sealed' \ sealed])
    <2>0. PICK new : new = sealed' \ sealed
        OBVIOUS
    <2> DEFINE d == [link |-> l, step |-> "initiate", send |-> new]
    <2>1. TodoOK(d)'
        BY <2>0 DEF TodoOK
    <2> HIDE DEF d
    <2>2. Continue(l[1], t, d)
        BY <1>2, <2>0 DEF d
    <2>3. /\ at' = [nt \in Node \X Thread |-> at'[nt]]
          /\ \A nt \in Node \X Thread : \A todo \in at'[nt] : todo \in at[nt] \/ TodoOK(todo)'
        BY <1>0, <2>1, <2>2, ThreadNext
    <2>4. SteadyCall(l)
        BY <1>2, Zenon DEF SteadyCall
    <2> QED BY <1>0, <1>1, <1>2, <2>3, <2>4, CallIsStep, ExchangeKept, SteadyCalls
<1>3. CASE EncryptNone(l)
            /\ Continue(l[1], t, [link |-> l, step |-> "initiate", send |-> {}])
    <2> DEFINE d == [link |-> l, step |-> "initiate", send |-> {}]
    <2>1. TodoOK(d)'
        BY DEF TodoOK
    <2> HIDE DEF d
    <2>2. Continue(l[1], t, d)
        BY <1>3 DEF d
    <2>3. /\ at' = [nt \in Node \X Thread |-> at'[nt]]
          /\ \A nt \in Node \X Thread : \A todo \in at'[nt] : todo \in at[nt] \/ TodoOK(todo)'
        BY <1>0, <2>1, <2>2, ThreadNext
    <2>4. SteadyCall(l)
        BY <1>3, Zenon DEF SteadyCall
    <2> QED BY <1>0, <1>1, <1>3, <2>3, <2>4, CallIsStep, ExchangeKept, SteadyCalls
<1>4. CASE EncryptError(l) /\ Continue(l[1], t, [link |-> l, step |-> "invalidate"])
    <2> DEFINE d == [link |-> l, step |-> "invalidate"]
    <2>1. TodoOK(d)'
        BY DEF TodoOK
    <2> HIDE DEF d
    <2>2. Continue(l[1], t, d)
        BY <1>4 DEF d
    <2>3. /\ at' = [nt \in Node \X Thread |-> at'[nt]]
          /\ \A nt \in Node \X Thread : \A todo \in at'[nt] : todo \in at[nt] \/ TodoOK(todo)'
        BY <1>0, <2>1, <2>2, ThreadNext
    <2>4. SteadyCall(l)
        BY <1>4, Zenon DEF SteadyCall
    <2> QED BY <1>0, <1>1, <1>4, <2>3, <2>4, CallIsStep, ExchangeKept, SteadyCalls
<1> QED BY <1>2, <1>3, <1>4 DEF Outbound

\* invalidate_peer after an encryption error or a silent peer.
LEMMA InvalidateStep ==
    ASSUME EngineInv, NEW l \in Link, NEW t \in Thread, Invalidate(t, l)
    PROVE  StepOK
<1>0. ManagerTypeOK /\ CarriedOK
    BY DEF EngineInv, SessionsInv
<1> DEFINE d == [link |-> l, step |-> "initiate", send |-> {}]
<1>1. TodoOK(d)'
    BY DEF TodoOK
<1>2. /\ invalidate_peer(l) /\ Continue(l[1], t, d)
      /\ net' = net /\ used' = used /\ drawn' = drawn
    BY DEF Invalidate
<1> HIDE DEF d
<1>3. /\ at' = [nt \in Node \X Thread |-> at'[nt]]
      /\ \A nt \in Node \X Thread : \A todo \in at'[nt] : todo \in at[nt] \/ TodoOK(todo)'
    BY <1>0, <1>1, <1>2, ThreadNext
<1>4. SteadyCall(l)
    BY <1>2, Zenon DEF SteadyCall
<1> QED BY <1>0, <1>2, <1>3, <1>4, CallIsStep, ExchangeKept, SteadyCalls

\* The scheduler looks at a link.
LEMMA TimerStep ==
    ASSUME EngineInv, NEW l \in Link, TimerRetry(l) \/ TimerRecover(l)
    PROVE  StepOK
<1>0. ManagerTypeOK /\ CarriedOK
    BY DEF EngineInv, SessionsInv
<1> DEFINE d == [link |-> l, step |-> "initiate", send |-> {}]
           e == [link |-> l, step |-> "invalidate"]
<1>1. TodoOK(d)' /\ TodoOK(e)'
    BY DEF TodoOK
<1>2. /\ UNCHANGED managerVars
      /\ Continue(l[1], TimerThread, d) \/ Continue(l[1], TimerThread, e)
      /\ net' = net /\ used' = used /\ drawn' = drawn
    BY DEF TimerRetry, TimerRecover, history
<1> HIDE DEF d, e
<1>3. /\ at' = [nt \in Node \X Thread |-> at'[nt]]
      /\ \A nt \in Node \X Thread : \A todo \in at'[nt] : todo \in at[nt] \/ TodoOK(todo)'
    BY <1>0, <1>1, <1>2, ThreadNext, Threads
<1> QED BY <1>0, <1>2, <1>3, ExchangeKept, SteadyCalls

\* A frame that was sealed may travel.
LEMMA TransportPacketOK ==
    ASSUME ManagerTypeOK', NEW f \in sealed'
    PROVE  PacketOK(TransportPacket(f))' /\ TransportPacket(f).type # "response"
BY DEF ManagerTypeOK, Frame, PacketOK, TransportPacket

\* So may the msg1 of an exchange.
LEMMA InitPacketOK ==
    ASSUME NEW l \in Link, NEW hid \in used'
    PROVE  PacketOK(InitPacket(l, hid))' /\ InitPacket(l, hid).type # "response"
BY DEF PacketOK, InitPacket

\* The manager's invariant after a step of the manager.
LEMMA SessionsAfter ==
    ASSUME EngineInv, ManagerNext \/ UNCHANGED managerVars
    PROVE  SessionsInv' /\ ManagerTypeOK' /\ sealed \subseteq sealed'
<1>1. SessionsInv' /\ sealed \subseteq sealed'
    BY SessionsStep, HistoryGrows DEF EngineInv
<1>2. ManagerTypeOK'
    BY <1>1 DEF SessionsInv
<1> QED BY <1>1, <1>2

\* initiate_peer, and the packets of the handler.
LEMMA InitiateStep ==
    ASSUME EngineInv, NEW l \in Link, NEW t \in Thread, InitiatePeer(t, l)
    PROVE  StepOK
<1>0. ManagerTypeOK /\ CarriedOK /\ DrawnOK
    BY DEF EngineInv, SessionsInv
<1>1. PICK todo \in Todo(t, l, "initiate") : InitiatePeer(t, l)!(todo)
    BY DEF InitiatePeer
<1> DEFINE out == {TransportPacket(f) : f \in todo.send}
<1>2. todo.send \subseteq sealed
    <2>1. <<l[1], t>> \in Node \X Thread
        BY DEF Node
    <2>2. todo \in at[<<l[1], t>>] /\ todo.step = "initiate"
        BY DEF Todo
    <2> QED BY <1>0, <2>1, <2>2 DEF CarriedOK, TodoOK
<1>3. /\ at' = [nt \in Node \X Thread |-> at'[nt]]
      /\ \A nt \in Node \X Thread : \A d \in at'[nt] : d \in at[nt] \/ TodoOK(d)'
    BY <1>0, <1>1, ThreadNext
<1>4. drawn' = drawn
    BY <1>1
<1>5. ASSUME ManagerNext \/ UNCHANGED managerVars, NEW p \in out
      PROVE  PacketOK(p)' /\ p.type # "response"
    BY <1>2, <1>5, SessionsAfter, TransportPacketOK
<1>6. CASE UNCHANGED <<managerVars, net, used>>
    BY <1>0, <1>3, <1>4, <1>6, ExchangeKept, SteadyCalls
<1>7. CASE /\ RetryHandshake(l)
           /\ Send(out \cup {InitPacket(l, p.hid) :
                     p \in {q \in CurrentAttempt(l) : q.sinceSent >= RetryInterval}})
           /\ UNCHANGED used
    <2>1. ManagerNext /\ SteadyCall(l)
        BY <1>7, CallIsStep, Zenon DEF SteadyCall
    <2>2. \A q \in CurrentAttempt(l) : q.hid \in used'
        BY <1>0, <1>7 DEF CurrentAttempt, DrawnOK
    <2>3. ASSUME NEW p \in net', p \notin net PROVE PacketOK(p)' /\ p.type # "response"
        <3>1. p \in out \/ \E q \in CurrentAttempt(l) : p = InitPacket(l, q.hid)
            BY <1>7, <2>3 DEF Send
        <3> QED BY <1>5, <2>1, <2>2, <3>1, InitPacketOK
    <2> HIDE DEF out
    <2> QED BY <1>0, <1>3, <1>4, <1>7, <2>1, <2>3, ExchangeKept, SteadyCalls
<1>8. CASE StartNothing(l) /\ Send(out) /\ UNCHANGED used
    <2>1. ManagerNext /\ SteadyCall(l)
        BY <1>8, CallIsStep, Zenon DEF SteadyCall
    <2>2. \A p \in net' : p \in net \/ (PacketOK(p)' /\ p.type # "response")
        BY <1>5, <1>8, <2>1 DEF Send
    <2> HIDE DEF out
    <2> QED BY <1>0, <1>3, <1>4, <1>8, <2>1, <2>2, ExchangeKept, SteadyCalls
<1>9. ASSUME NEW hid \in HandshakeId \ used,
             StartHandshake(l, hid), Send(out \cup {InitPacket(l, hid)}), used' = used \cup {hid}
      PROVE  StepOK
    <2>1. ManagerNext /\ SteadyCall(l)
        BY <1>9, CallIsStep, Zenon DEF SteadyCall
    <2>2. \A p \in net' : p \in net \/ (PacketOK(p)' /\ p.type # "response")
        BY <1>5, <1>9, <2>1, InitPacketOK DEF Send
    <2>3. \A m \in Link : Stays(m) /\ Recorded(m)
        BY <1>0, <2>1, SteadyStep
    <2>4. \A m \in Link : \A p \in pending_init'[m] :
               (\E q \in pending_init[m] : q.hid = p.hid) \/ p.hid \in used' \ used
        <3>1. pending_init' = [pending_init EXCEPT ![l] =
                  {[hid |-> hid, age |-> 0, sinceSent |-> 0]}]
            BY <1>9 DEF StartHandshake
        <3> QED BY <1>0, <1>9, <3>1 DEF ManagerTypeOK
    <2>5. used \subseteq used' /\ used' \subseteq HandshakeId
        BY <1>0, <1>9 DEF DrawnOK
    <2>6. CacheKept
        BY <1>0, <1>9, ExchangeKept
    <2> HIDE DEF out
    <2> QED BY <1>3, <1>4, <2>1, <2>2, <2>3, <2>4, <2>5, <2>6, QuietEngine DEF StepOK
<1> HIDE DEF out
<1> QED BY <1>1, <1>6, <1>7, <1>8, <1>9 DEF out

\* process_inbound_transport of msg1.
LEMMA ReceiveInitStep ==
    ASSUME EngineInv, NEW packet \in net, ReceiveInit(packet)
    PROVE  StepOK
<1> DEFINE l == Reverse(packet.link)
           d == [link |-> l, step |-> "lookup", hid |-> packet.hid]
<1>0. ManagerTypeOK /\ CarriedOK /\ DrawnOK
    BY DEF EngineInv, SessionsInv
<1>1. PacketOK(packet)
    BY <1>0 DEF CarriedOK
<1>2. /\ packet.type = "init" /\ accept_inbound_initiation(l, packet.hid)
      /\ Continue(l[1], TransportThread, d) \/ at' = at
      /\ Receive(packet, {}) /\ used' = used /\ drawn' = drawn
    BY DEF ReceiveInit, history
<1>3. l \in Link /\ packet.hid \in used /\ packet.hid \in HandshakeId
    BY <1>0, <1>1, <1>2, EngineAssumption DEF PacketOK, DrawnOK
<1>4. TodoOK(d)'
    BY <1>2, <1>3 DEF TodoOK
<1> HIDE DEF l, d
<1>5. /\ at' = [nt \in Node \X Thread |-> at'[nt]]
      /\ \A nt \in Node \X Thread : \A todo \in at'[nt] : todo \in at[nt] \/ TodoOK(todo)'
    BY <1>0, <1>2, <1>3, <1>4, ThreadNext, Threads
<1>6. ManagerNext /\ SteadyCall(l)
    BY <1>2, <1>3, CallIsStep, Zenon DEF SteadyCall
<1>7. net' \subseteq net
    BY <1>2 DEF Receive
<1>8. PendingKept /\ CacheKept
    BY <1>0, <1>2, <1>3, ExchangeKept
<1> QED BY <1>2, <1>3, <1>5, <1>6, <1>7, <1>8, SteadyCalls

\* ... then cached_responder_response.
LEMMA LookupStep ==
    ASSUME EngineInv, NEW l \in Link, LookupResponse(l)
    PROVE  StepOK
<1>0. ManagerTypeOK /\ CarriedOK /\ DrawnOK
    BY DEF EngineInv, SessionsInv
<1>1. PICK todo \in Todo(TransportThread, l, "lookup") : LookupResponse(l)!(todo)
    BY DEF LookupResponse
<1> DEFINE d == [link |-> l, step |-> "store", hid |-> todo.hid]
<1>2. todo.hid \in used
    <2>1. <<l[1], TransportThread>> \in Node \X Thread
        BY Threads DEF Node
    <2>2. todo \in at[<<l[1], TransportThread>>] /\ todo.step = "lookup"
        BY DEF Todo
    <2> QED BY <1>0, <2>1, <2>2 DEF CarriedOK, TodoOK
<1>3. /\ cached_responder_response(l)
      /\ Send({ResponsePacket(l, c) : c \in CacheHit(l, todo.hid)})
      /\ Finish(l[1], TransportThread) \/ Continue(l[1], TransportThread, d)
      /\ used' = used /\ drawn' = drawn
    BY <1>1 DEF history
<1>4. TodoOK(d)'
    BY <1>2, <1>3 DEF TodoOK
<1> HIDE DEF d
<1>5. /\ at' = [nt \in Node \X Thread |-> at'[nt]]
      /\ \A nt \in Node \X Thread : \A e \in at'[nt] : e \in at[nt] \/ TodoOK(e)'
    BY <1>0, <1>3, <1>4, ThreadNext, Threads
<1>6. ManagerNext /\ SteadyCall(l)
    BY <1>3, CallIsStep, Zenon DEF SteadyCall
<1>7. PendingKept /\ CacheKept
    BY <1>0, <1>3, ExchangeKept
<1>8. \A m \in Link : Stays(m) /\ Recorded(m)
    BY <1>0, <1>6, SteadyStep
<1>9. ASSUME NEW r \in net', r \notin net
      PROVE  /\ PacketOK(r)'
             /\ \E c \in responder_cache[l] : r = ResponsePacket(l, c)
    <2>1. PICK c \in CacheHit(l, todo.hid) : r = ResponsePacket(l, c)
        BY <1>3, <1>9 DEF Send
    <2>2. c \in responder_cache[l]
        BY DEF CacheHit
    <2>3. c.hid \in used /\ c.id \in SessionId /\ c.key \in drawn
        BY <1>0, <2>2 DEF ManagerTypeOK, CachedResponse, DrawnOK
    <2>4. PacketOK(r)'
        BY <1>3, <2>1, <2>3 DEF PacketOK, ResponsePacket
    <2> QED BY <2>1, <2>2, <2>4
<1>10. ASSUME NEW m \in Link, NEW hid, NEW key, Answers(m, hid, key)'
       PROVE  Answers(m, hid, key)
    <2>1. CASE \E r \in net' : r.type = "response" /\ r.link = m /\ r.hid = hid /\ r.key = key
        <3>1. PICK r \in net' : r.type = "response" /\ r.link = m /\ r.hid = hid /\ r.key = key
            BY <2>1
        <3>2. CASE r \in net
            BY <3>1, <3>2 DEF Answers
        <3>3. CASE r \notin net
            <4>1. PICK c \in responder_cache[l] : r = ResponsePacket(l, c)
                BY <1>9, <3>3
            <4>2. l = m /\ c.hid = hid /\ c.key = key
                BY <3>1, <4>1 DEF ResponsePacket
            <4> QED BY <4>2 DEF Answers
        <3> QED BY <3>2, <3>3
    <2>2. CASE \E c \in responder_cache'[m] : c.hid = hid /\ c.key = key
        BY <1>7, <2>2 DEF CacheKept, Answers
    <2> QED BY <1>10, <2>1, <2>2 DEF Answers
<1>11. \A m \in Link : \A t \in sessions'[m] \cup previous_sessions'[m] :
           \E s \in sessions[m] \cup previous_sessions[m] : s.key = t.key
    BY <1>8 DEF Stays, From, Descends
<1>12. \A m \in Link : \A p \in pending_init'[m] : \E q \in pending_init[m] : q.hid = p.hid
    BY <1>7 DEF PendingKept
<1>13. used \subseteq used' /\ used' \subseteq HandshakeId
    BY <1>0, <1>3 DEF DrawnOK
<1>14. \A p \in net' : p \in net \/ PacketOK(p)'
    BY <1>9
<1>15. EngineInv'
    BY <1>3, <1>5, <1>6, <1>8, <1>10, <1>11, <1>12, <1>13, <1>14, SteadyEngine
<1> QED BY <1>6, <1>15 DEF StepOK

\* A probe is acknowledged with whatever session is active.
LEMMA AcknowledgeStep ==
    ASSUME EngineInv, NEW l \in Link, Acknowledge(l)
    PROVE  StepOK
<1>0. ManagerTypeOK /\ CarriedOK
    BY DEF EngineInv, SessionsInv
<1>1. /\ EncryptFrame(l, "ack") \/ EncryptNone(l)
      /\ Finish(l[1], TransportThread)
      /\ Send({TransportPacket(f) : f \in sealed' \ sealed})
      /\ used' = used /\ drawn' = drawn
    BY DEF Acknowledge, history
<1>2. "ack" \in MessageKind
    BY DEF MessageKind
<1>3. ManagerNext
    BY <1>1, <1>2, CallIsStep
<1>4. SteadyCall(l)
    BY <1>1, <1>2, Zenon DEF SteadyCall
<1>5. PendingKept /\ CacheKept
    BY <1>0, <1>1, ExchangeKept
<1>6. /\ at' = [nt \in Node \X Thread |-> at'[nt]]
      /\ \A nt \in Node \X Thread : \A todo \in at'[nt] : todo \in at[nt]
    BY <1>0, <1>1, ThreadNext, Threads
<1>7. \A p \in net' : p \in net \/ (PacketOK(p)' /\ p.type # "response")
    <2>1. \A f \in sealed' : PacketOK(TransportPacket(f))' /\ TransportPacket(f).type # "response"
        BY <1>3, SessionsAfter, TransportPacketOK
    <2> QED BY <1>1, <2>1 DEF Send
<1> QED BY <1>1, <1>3, <1>4, <1>5, <1>6, <1>7, SteadyCalls

\* The step of a responder or an initiator that derives a session on link l.
LEMMA DeriveEngine ==
    ASSUME EngineInv, ManagerNext \/ UNCHANGED managerVars, NEW l \in Link,
           \A m \in Link : Recorded(m),
           \A m \in Link : \A t \in sessions'[m] \cup previous_sessions'[m] :
               \/ \E s \in sessions[m] \cup previous_sessions[m] : s.key = t.key
               \/ Confirmed(m, t.key)',
           PendingKept,
           \A m \in Link : \A hid, key : Answers(m, hid, key)' =>
               Answers(m, hid, key) \/ (hid \in used /\ key \in drawn' \ drawn),
           \A m \in Link : \A key : Known(m, key)' =>
               Known(m, key) \/ (m = l /\ key \in drawn' /\ pending_init'[l] = {}),
           used' = used, drawn \subseteq drawn', drawn' \subseteq Key,
           \A p \in net' : p \in net \/ PacketOK(p)',
           at' = [nt \in Node \X Thread |-> at'[nt]],
           \A nt \in Node \X Thread : \A todo \in at'[nt] : todo \in at[nt] \/ TodoOK(todo)'
    PROVE  StepOK
<1>1. SessionsInv' /\ ManagerTypeOK' /\ sealed \subseteq sealed'
    BY SessionsAfter
<1>2. /\ CarriedOK /\ DrawnOK /\ AnsweredOnce /\ SealedConfirmed /\ ConfirmedBeforeActive
      /\ used \subseteq used' /\ used' \subseteq HandshakeId
    BY DEF EngineInv, DrawnOK
<1>3. CarriedOK'
    BY <1>1, <1>2, CarriedNext
<1>4. \A m \in Link : \A p \in pending_init'[m] :
          (\E q \in pending_init[m] : q.hid = p.hid) \/ p.hid \in used' \ used
    BY DEF PendingKept
<1>5. DrawnOK' /\ AnsweredOnce'
    BY <1>2, <1>4, AnswersNext
<1>6. SealedConfirmed' /\ ConfirmedBeforeActive'
    BY <1>1, <1>2, ConfirmedNext
<1> QED BY <1>1, <1>3, <1>5, <1>6 DEF EngineInv, StepOK

\* store_responder_candidate with the session of a fresh key.
LEMMA StoreStep ==
    ASSUME EngineInv, NEW l \in Link, StoreCandidate(l)
    PROVE  StepOK
<1>0. ManagerTypeOK /\ CarriedOK /\ DrawnOK
    BY DEF EngineInv, SessionsInv
<1>1. PICK todo \in Todo(TransportThread, l, "store"), id \in SessionId, key \in Key \ drawn :
          /\ drawn' = drawn \cup {key}
          /\ Finish(l[1], TransportThread)
          /\ \/ /\ store_responder_candidate(l, id, key, todo.hid)
                /\ Send({ResponsePacket(l, [hid |-> todo.hid, id |-> id, key |-> key])})
             \/ UNCHANGED <<managerVars, net>>
          /\ used' = used
    BY DEF StoreCandidate
<1>2. todo.hid \in used /\ todo.hid \in HandshakeId
    <2>1. <<l[1], TransportThread>> \in Node \X Thread
        BY Threads DEF Node
    <2>2. todo \in at[<<l[1], TransportThread>>] /\ todo.step = "store"
        BY DEF Todo
    <2> QED BY <1>0, <2>1, <2>2 DEF CarriedOK, TodoOK, DrawnOK
<1>3. NewKey(l, key)
    BY <1>0 DEF DrawnOK, Known
<1>4. /\ at' = [nt \in Node \X Thread |-> at'[nt]]
      /\ \A nt \in Node \X Thread : \A e \in at'[nt] : e \in at[nt]
    BY <1>0, <1>1, ThreadNext, Threads
<1>5. drawn \subseteq drawn' /\ drawn' \subseteq Key
    BY <1>0, <1>1 DEF DrawnOK
<1>6. CASE UNCHANGED <<managerVars, net>>
    <2>1. PendingKept /\ CacheKept
        BY <1>0, <1>6, ExchangeKept
    <2>2. \A m \in Link : Stays(m) /\ Recorded(m)
        BY <1>0, <1>6, SteadyStep
    <2>3. \A m \in Link : \A hid, k : Answers(m, hid, k)' => Answers(m, hid, k)
        BY <1>6, <2>1, AnswersKept
    <2>4. \A m \in Link : \A k : Known(m, k)' => Known(m, k)
        BY <2>2, KnownKept
    <2>5. \A m \in Link : \A t \in sessions'[m] \cup previous_sessions'[m] :
              \E s \in sessions[m] \cup previous_sessions[m] : s.key = t.key
        BY <2>2 DEF Stays, From, Descends
    <2> QED BY <1>1, <1>4, <1>5, <1>6, <2>1, <2>2, <2>3, <2>4, <2>5, DeriveEngine
<1>7. CASE /\ store_responder_candidate(l, id, key, todo.hid)
           /\ Send({ResponsePacket(l, [hid |-> todo.hid, id |-> id, key |-> key])})
    <2> DEFINE c == [hid |-> todo.hid, id |-> id, key |-> key, age |-> 0]
               r == ResponsePacket(l, [hid |-> todo.hid, id |-> id, key |-> key])
    <2>1. c.hid = todo.hid /\ c.key = key
        OBVIOUS
    <2>2. r.type = "response" /\ r.link = l /\ r.hid = todo.hid /\ r.id = id /\ r.key = key
        BY DEF ResponsePacket
    <2>3. /\ pending_init' = [pending_init EXCEPT ![l] = {}]
          /\ responder_cache' = [responder_cache EXCEPT ![l] = {c}]
          /\ net' = net \cup {r}
        BY <1>7 DEF store_responder_candidate, Send
    <2> HIDE DEF c, r
    <2>4. /\ pending_init'[l] = {} /\ \A m \in Link \ {l} : pending_init'[m] = pending_init[m]
          /\ responder_cache'[l] = {c}
          /\ \A m \in Link \ {l} : responder_cache'[m] = responder_cache[m]
        BY <1>0, <2>3 DEF ManagerTypeOK
    <2>5. PendingKept
        BY <2>4 DEF PendingKept
    <2>6. ManagerNext
        BY <1>2, <1>3, <1>7, CallIsStep
    <2>7. /\ \A m \in Link \ {l} : Stays(m)
          /\ Stores(l)
          /\ \A m \in Link : Recorded(m)
          /\ \A t \in responder_candidates'[l] : t.key = key
        BY <1>0, <1>3, <1>7, StoresStep
    <2>8. ASSUME NEW m \in Link, NEW hid, NEW k, Answers(m, hid, k)'
          PROVE  Answers(m, hid, k) \/ (hid \in used /\ k \in drawn' \ drawn)
        BY <1>1, <1>2, <2>1, <2>2, <2>3, <2>4, <2>8 DEF Answers
    <2>9. ASSUME NEW m \in Link, NEW k, Known(m, k)'
          PROVE  Known(m, k) \/ (m = l /\ k \in drawn' /\ pending_init'[l] = {})
        <3>1. CASE m # l
            BY <2>7, <2>9, <3>1, KnownKept
        <3>2. CASE m = l
            <4> DEFINE K == {key}
            <4>1. ASSUME NEW t, t \in Held(l)'
                  PROVE  (\E s \in Held(l) : s.key = t.key) \/ t.key \in K
                <5>1. t \in sessions'[l] \cup previous_sessions'[l] \cup responder_candidates'[l]
                    BY <4>1 DEF Held
                <5> QED BY <2>7, <5>1 DEF Stores, From, Descends, Held
            <4> HIDE DEF K
            <4>2. Known(l, k) \/ k \in K
                BY <2>7, <2>9, <3>2, <4>1, KnownAdds
            <4> QED BY <1>1, <2>4, <3>2, <4>2 DEF K
        <3> QED BY <3>1, <3>2
    <2>10. \A m \in Link : \A t \in sessions'[m] \cup previous_sessions'[m] :
               \E s \in sessions[m] \cup previous_sessions[m] : s.key = t.key
        BY <2>7 DEF Stays, Stores, From, Descends
    <2>11. PacketOK(r)'
        BY <1>1, <1>2, <2>2 DEF PacketOK
    <2>12. \A p \in net' : p \in net \/ PacketOK(p)'
        BY <2>3, <2>11
    <2> QED BY <1>1, <1>4, <1>5, <2>5, <2>6, <2>7, <2>8, <2>9, <2>10, <2>12, DeriveEngine
<1> QED BY <1>1, <1>6, <1>7

\* process_inbound_transport of msg2.
LEMMA ReceiveResponseStep ==
    ASSUME EngineInv, NEW packet \in net, ReceiveResponse(packet)
    PROVE  StepOK
<1> DEFINE l == Reverse(packet.link)
<1>0. ManagerTypeOK /\ CarriedOK /\ DrawnOK /\ AnsweredOnce
    BY DEF EngineInv, SessionsInv
<1>1. PacketOK(packet)
    BY <1>0 DEF CarriedOK
<1>2. /\ packet.type = "response"
      /\ \E p \in pending_init[l] : p.hid = packet.hid
      /\ \/ /\ FinalizeSession(l, packet.id, packet.key)
            /\ Receive(packet, {TransportPacket(f) : f \in sealed' \ sealed})
         \/ FinalizeError(l) /\ Receive(packet, {})
      /\ at' = at /\ used' = used /\ drawn' = drawn
    BY DEF ReceiveResponse, history
<1>3. /\ packet.link \in Link /\ packet.hid \in used /\ packet.id \in SessionId
      /\ packet.key \in drawn /\ packet.key \in Key
    BY <1>0, <1>1, <1>2 DEF PacketOK, DrawnOK
<1>4. l \in Link
    BY <1>3, EngineAssumption
<1>5. NewKey(l, packet.key)
    <2>1. Answers(packet.link, packet.hid, packet.key)
        BY <1>2 DEF Answers
    <2> QED BY <1>0, <1>2, <1>3, <2>1 DEF AnsweredOnce, Known
<1> HIDE DEF l
<1>6. /\ at' = [nt \in Node \X Thread |-> at'[nt]]
      /\ \A nt \in Node \X Thread : \A e \in at'[nt] : e \in at[nt]
    BY <1>0, <1>2, <1>4, ThreadNext, Threads
<1>7. CASE FinalizeError(l) /\ Receive(packet, {})
    <2>1. ManagerNext /\ SteadyCall(l)
        BY <1>4, <1>7, CallIsStep, Zenon DEF SteadyCall
    <2>2. PendingKept /\ CacheKept
        BY <1>0, <1>4, <1>7, ExchangeKept
    <2>3. net' \subseteq net
        BY <1>7 DEF Receive
    <2> QED BY <1>2, <1>4, <1>6, <2>1, <2>2, <2>3, SteadyCalls
<1>8. CASE /\ FinalizeSession(l, packet.id, packet.key)
           /\ Receive(packet, {TransportPacket(f) : f \in sealed' \ sealed})
    <2>1. ManagerNext
        BY <1>3, <1>4, <1>5, <1>8, CallIsStep
    <2>2. PendingKept /\ CacheKept
        BY <1>0, <1>4, <1>8, ExchangeKept
    <2>3. \A f \in sealed' : PacketOK(TransportPacket(f))' /\ TransportPacket(f).type # "response"
        BY <2>1, SessionsAfter, TransportPacketOK
    <2>4. \A p \in net' : p \in net \/ (PacketOK(p)' /\ p.type # "response")
        BY <1>8, <2>3 DEF Receive
    <2>5. /\ \A m \in Link \ {l} : Stays(m)
          /\ Finalizes(l)
          /\ \A m \in Link : Recorded(m)
          /\ \A t \in sessions'[l] : t.key = packet.key
        BY <1>0, <1>3, <1>4, <1>5, <1>8, FinalizesStep
    <2>6. pending_init'[l] = {}
        <3>1. pending_init' = [pending_init EXCEPT ![l] = {}]
            BY <1>8 DEF FinalizeSession
        <3> QED BY <1>0, <1>4, <3>1 DEF ManagerTypeOK
    <2>7. \A m \in Link : \A hid, k : Answers(m, hid, k)' => Answers(m, hid, k)
        BY <2>2, <2>4, AnswersKept
    <2>8. ASSUME NEW m \in Link, NEW k, Known(m, k)'
          PROVE  Known(m, k) \/ (m = l /\ k \in drawn' /\ pending_init'[l] = {})
        <3>1. CASE m # l
            BY <2>5, <2>8, <3>1, KnownKept
        <3>2. CASE m = l
            <4> DEFINE K == {packet.key}
            <4>1. ASSUME NEW t, t \in Held(l)'
                  PROVE  (\E s \in Held(l) : s.key = t.key) \/ t.key \in K
                <5>1. t \in sessions'[l] \cup previous_sessions'[l] \cup responder_candidates'[l]
                    BY <4>1 DEF Held
                <5> QED BY <2>5, <5>1 DEF Finalizes, Demotes, From, Descends, Held
            <4> HIDE DEF K
            <4>2. Known(l, k) \/ k \in K
                BY <1>4, <2>5, <2>8, <3>2, <4>1, KnownAdds
            <4> QED BY <1>2, <1>3, <2>6, <3>2, <4>2 DEF K
        <3> QED BY <3>1, <3>2
    <2>9. Confirmed(l, packet.key)'
        <3>1. FrameOf(l, NewSession(packet.id, packet.key), "probe") \in sealed'
            BY <1>8 DEF FinalizeSession
        <3> DEFINE f == FrameOf(l, NewSession(packet.id, packet.key), "probe")
        <3>2. f.link = l /\ f.key = packet.key /\ f.ctr = 0 /\ f.kind = "probe"
            BY <1>3, NewType DEF FrameOf
        <3> HIDE DEF f
        <3>3. f \in sealed'
            BY <3>1 DEF f
        <3> QED BY <3>2, <3>3 DEF Confirmed, Finalized
    <2>10. \A m \in Link : \A t \in sessions'[m] \cup previous_sessions'[m] :
               \/ \E s \in sessions[m] \cup previous_sessions[m] : s.key = t.key
               \/ Confirmed(m, t.key)'
        BY <2>5, <2>9 DEF Stays, Finalizes, Demotes, From, Descends
    <2>11. drawn \subseteq drawn' /\ drawn' \subseteq Key
        BY <1>0, <1>2 DEF DrawnOK
    <2> QED BY <1>2, <1>4, <1>6, <2>1, <2>2, <2>4, <2>5, <2>7, <2>8, <2>10, <2>11, DeriveEngine
<1> QED BY <1>2, <1>7, <1>8

\* process_inbound_transport of a transport packet.
LEMMA ReceiveTransportStep ==
    ASSUME EngineInv, NEW packet \in net, ReceiveTransport(packet)
    PROVE  StepOK
<1> DEFINE l == Reverse(packet.link)
           f == packet.frame
           d == [link |-> l, step |-> "acknowledge"]
<1>0. /\ ManagerTypeOK /\ SessionsInv /\ CarriedOK /\ DrawnOK
      /\ SealedConfirmed /\ ConfirmedBeforeActive
    BY DEF EngineInv, SessionsInv
<1>1. PacketOK(packet)
    BY <1>0 DEF CarriedOK
<1>2. /\ packet.type = "transport"
      /\ decrypt_transport(l, f) \/ RejectTransport(l[1], f)
      /\ at' = at \/ Continue(l[1], TransportThread, d)
      /\ Receive(packet, {}) /\ used' = used /\ drawn' = drawn
    BY DEF ReceiveTransport, history
<1>3. packet.link \in Link /\ f \in sealed /\ f.link = packet.link
    BY <1>1, <1>2 DEF PacketOK
<1>4. l \in Link /\ f.link = Reverse(l)
    BY <1>3, EngineAssumption
<1>5. TodoOK(d)'
    BY DEF TodoOK
<1> HIDE DEF l, f, d
<1>6. /\ at' = [nt \in Node \X Thread |-> at'[nt]]
      /\ \A nt \in Node \X Thread : \A todo \in at'[nt] : todo \in at[nt] \/ TodoOK(todo)'
    BY <1>0, <1>2, <1>4, <1>5, ThreadNext, Threads
<1>7. ManagerNext
    BY <1>0, <1>2, <1>3, <1>4, TransportIsStep
<1>8. PendingKept /\ CacheKept
    BY <1>0, <1>2, <1>4, ExchangeKept DEF decrypt_transport
<1>9. f.ctr \in Counter
    BY <1>0, <1>3 DEF ManagerTypeOK, Frame
<1>10. net' \subseteq net
    BY <1>2 DEF Receive
<1>11. used \subseteq used' /\ used' \subseteq HandshakeId
    BY <1>0, <1>2 DEF DrawnOK
<1>12. \A m \in Link : \A p \in pending_init'[m] : \E q \in pending_init[m] : q.hid = p.hid
    BY <1>8 DEF PendingKept
<1>13. CASE OpenActive(l, f) \/ OpenPrevious(l, f) \/ RejectTransport(l[1], f)
    <2>1. \A m \in Link : Stays(m) /\ Recorded(m)
        BY <1>0, <1>4, <1>9, <1>13, SteadyOpen
    <2>2. EngineInv'
        BY <1>2, <1>6, <1>7, <1>8, <1>10, <1>11, <1>12, <2>1, QuietEngine
    <2> QED BY <1>7, <2>2 DEF StepOK
<1>14. CASE OpenCandidate(l, f)
    <2>1. /\ \A m \in Link \ {l} : Stays(m)
          /\ Promotes(l)
          /\ \A m \in Link : Recorded(m)
          /\ \A t \in sessions'[l] : t.key = f.key
        BY <1>0, <1>4, <1>9, <1>14, PromotesStep
    <2>2. Confirmed(l, f.key)'
        <3>1. Confirmed(f.link, f.key)
            BY <1>0, <1>3 DEF SealedConfirmed
        <3>2. Confirmed(l, f.key)
            BY <1>4, <3>1, EngineAssumption DEF Confirmed
        <3>3. sealed \subseteq sealed'
            BY <1>7, SessionsAfter
        <3> QED BY <3>2, <3>3, ConfirmedKept
    <2>3. \A m \in Link : \A t \in sessions'[m] \cup previous_sessions'[m] :
              \/ \E s \in sessions[m] \cup previous_sessions[m] : s.key = t.key
              \/ Confirmed(m, t.key)'
        BY <2>1, <2>2 DEF Stays, Promotes, Demotes, From, Descends
    <2>4. \A m \in Link : \A hid, key : Answers(m, hid, key)' => Answers(m, hid, key)
        BY <1>8, <1>10, AnswersKept
    <2>5. EngineInv'
        BY <1>2, <1>6, <1>7, <1>10, <1>11, <1>12, <2>1, <2>3, <2>4, SteadyEngine
    <2> QED BY <1>7, <2>5 DEF StepOK
<1> QED BY <1>2, <1>13, <1>14 DEF decrypt_transport

\* Time passes, or the network loses a packet.
LEMMA EnvironmentStep ==
    ASSUME EngineInv, Tick \/ \E packet \in net : Lose(packet)
    PROVE  StepOK
<1>0. ManagerTypeOK /\ CarriedOK /\ DrawnOK
    BY DEF EngineInv, SessionsInv
<1>1. /\ Age \/ UNCHANGED managerVars
      /\ net' \subseteq net /\ at' = at /\ used' = used /\ drawn' = drawn
    BY DEF Tick, Lose, history
<1>2. ManagerNext \/ UNCHANGED managerVars
    BY <1>1 DEF ManagerNext
<1>3. \A m \in Link : Stays(m) /\ Recorded(m)
    BY <1>0, <1>1, SteadyStep
<1>4. Link # {} => PendingKept /\ CacheKept
    BY <1>0, <1>1, ExchangeKept
<1>5. Link = {} => PendingKept /\ CacheKept
    BY DEF PendingKept, CacheKept
<1>6. \A m \in Link : \A p \in pending_init'[m] : \E q \in pending_init[m] : q.hid = p.hid
    BY <1>4, <1>5 DEF PendingKept
<1>7. used \subseteq used' /\ used' \subseteq HandshakeId
    BY <1>0, <1>1 DEF DrawnOK
<1>8. at' = [nt \in Node \X Thread |-> at'[nt]]
    BY <1>0, <1>1 DEF CarriedOK
<1>9. EngineInv'
    BY <1>1, <1>2, <1>3, <1>4, <1>5, <1>6, <1>7, <1>8, QuietEngine
<1> QED BY <1>2, <1>9 DEF StepOK

\* A process ends and starts again.
LEMMA RestartStep ==
    ASSUME EngineInv, NEW n \in Node, Restart(n)
    PROVE  StepOK
<1>0. ManagerTypeOK /\ CarriedOK
    BY DEF EngineInv, SessionsInv
<1>1. PICK l \in Link : l[1] = n
    BY DEF Node
<1>2. /\ RestartManager(l[1]) /\ net' = net /\ used' = used /\ drawn' = drawn
      /\ at' = [nt \in Node \X Thread |-> IF nt[1] = n THEN {} ELSE at[nt]]
    BY <1>1 DEF Restart
<1>3. ManagerNext /\ SteadyCall(l)
    BY <1>2, CallIsStep, Zenon DEF SteadyCall
<1>4. PendingKept /\ CacheKept
    BY <1>0, <1>2, ExchangeKept
<1>5. at' = [nt \in Node \X Thread |-> at'[nt]]
    BY <1>2
<1>6. \A nt \in Node \X Thread : \A todo \in at'[nt] : todo \in at[nt]
    BY <1>2
<1> QED BY <1>2, <1>3, <1>4, <1>5, <1>6, SteadyCalls

\* A step of the engine that does nothing here.
LEMMA IdleStep ==
    ASSUME EngineInv, UNCHANGED engineVars
    PROVE  StepOK
<1>0. ManagerTypeOK /\ CarriedOK /\ DrawnOK
    BY DEF EngineInv, SessionsInv
<1>1. UNCHANGED managerVars /\ net' = net /\ at' = at /\ used' = used /\ drawn' = drawn
    BY DEF engineVars
<1>2. \A m \in Link : Stays(m) /\ Recorded(m)
    BY <1>0, <1>1, SteadyStep
<1>3. CacheKept /\ PendingKept
    BY <1>1 DEF managerVars, exchange, CacheKept, PendingKept
<1>4. \A m \in Link : \A p \in pending_init'[m] : \E q \in pending_init[m] : q.hid = p.hid
    BY <1>3 DEF PendingKept
<1>5. used \subseteq used' /\ used' \subseteq HandshakeId
    BY <1>0, <1>1 DEF DrawnOK
<1>6. at' = [nt \in Node \X Thread |-> at'[nt]]
    BY <1>0, <1>1 DEF CarriedOK
<1>7. EngineInv'
    BY <1>1, <1>2, <1>3, <1>4, <1>5, <1>6, QuietEngine
<1> QED BY <1>1, <1>7 DEF StepOK

\* Every step of the engine, on any link, in any thread.
LEMMA EngineStep ==
    EngineInv /\ [EngineNext]_engineVars => StepOK
<1> SUFFICES ASSUME EngineInv, [EngineNext]_engineVars PROVE StepOK
    OBVIOUS
<1>1. ASSUME NEW l \in Link, LinkStep(l) PROVE StepOK
    <2>1. "data" \in MessageKind /\ "probe" \in MessageKind
        BY DEF MessageKind
    <2> QED BY <1>1, <2>1, Threads, OutboundStep, TimerStep, InvalidateStep, InitiateStep,
               LookupStep, StoreStep, AcknowledgeStep DEF LinkStep
<1>2. ASSUME NEW packet \in net, Deliver(packet) PROVE StepOK
    BY <1>2, ReceiveInitStep, ReceiveResponseStep, ReceiveTransportStep DEF Deliver
<1> QED BY <1>1, <1>2, EnvironmentStep, RestartStep, IdleStep DEF EngineNext

\* The invariant holds when the processes start.
LEMMA EngineStarts == EngineInit => EngineInv
<1> SUFFICES ASSUME EngineInit PROVE EngineInv
    OBVIOUS
<1>1. ManagerInit
    BY DEF EngineInit
<1>2. SessionsInv
    <2>1. ManagerTypeOK
        BY <1>1 DEF ManagerInit, Empty, ManagerTypeOK, AtMostOne
    <2>2. KeysDistinct /\ SlotsDisjoint
        BY <1>1 DEF ManagerInit, Empty, KeysDistinct, SlotsDisjoint
    <2>3. NonceNeverReused /\ AcceptedOnce
        BY <1>1 DEF ManagerInit, NonceNeverReused, AcceptedOnce
    <2> QED BY <2>1, <2>2, <2>3 DEF SessionsInv
<1>3. CarriedOK
    BY DEF EngineInit, CarriedOK
<1>4. DrawnOK
    BY <1>1 DEF EngineInit, ManagerInit, Empty, DrawnOK, Known, NewKey, Held
<1>5. AnsweredOnce
    BY <1>1, EngineAssumption DEF ManagerInit, Empty, AnsweredOnce
<1>6. SealedConfirmed /\ ConfirmedBeforeActive
    BY <1>1 DEF ManagerInit, Empty, SealedConfirmed, ConfirmedBeforeActive
<1> QED BY <1>2, <1>3, <1>4, <1>5, <1>6 DEF EngineInv

-----------------------------------------------------------------------------
(* Theorems                                                                *)

\* The invariant of the engine holds in every state.
LEMMA EngineInvariant == EngineSpec => []EngineInv
<1>1. EngineInv /\ [EngineNext]_engineVars => EngineInv'
    BY EngineStep DEF StepOK
<1> QED BY <1>1, EngineStarts, PTL DEF EngineSpec

\* Every behaviour of the engine is one of the session manager: each step of each
\* handler makes at most one call, and every key it hands over is new to the link,
\* whatever the network loses, repeats or reorders and wherever threads interleave.
THEOREM EngineRefines == EngineSpec => ImplementsManager
<1>1. EngineInit => ManagerInit
    BY DEF EngineInit
<1>2. EngineInv /\ [EngineNext]_engineVars =>
          [UNCHANGED managerVars \/ ManagerNext]_managerVars
    BY EngineStep DEF StepOK
<1> QED BY <1>1, <1>2, EngineInvariant, PTL DEF EngineSpec, ImplementsManager

\* A responder never sends with, and never gives up its working session for, a
\* session that its initiator has not completed.
THEOREM ResponderWaits == EngineSpec => []ConfirmedBeforeActive
BY EngineInvariant, PTL DEF EngineInv

\* So the engine as a whole uses no nonce twice, accepts no counter twice while
\* it holds the session, and finds at most one session for an identifier.
THEOREM EngineSessionsSafe ==
    EngineSpec => [](NonceNeverReused /\ AcceptedOnce /\ SlotsDisjoint)
BY EngineInvariant, PTL DEF EngineInv, SessionsInv

\* The handshake tables of an engine agree, although every handler is several steps.
THEOREM EngineExchangeSafe == EngineSpec => []ExchangeConsistent
<1>1. ImplementsManager => ManagerSpec
    BY PTL DEF ImplementsManager, ManagerSpec
<1> QED BY <1>1, EngineRefines, ExchangeSafe, PTL

=============================================================================
