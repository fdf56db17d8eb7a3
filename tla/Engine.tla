------------------------------- MODULE Engine -------------------------------
(***************************************************************************)
(* Engine of src/src/engine.rs on two or more nodes joined by a datagram   *)
(* network.  A handler of the engine takes the lock of the SessionManager  *)
(* once per call, so every handler is a sequence of steps that other       *)
(* threads of the process may interleave with: `at' holds what a thread    *)
(* still has to do.  The command-line daemon (tunnel.rs) has a thread for  *)
(* the TUN device, one for the transport and one for maintenance; giving   *)
(* the three the same name restricts the model to handlers that do not     *)
(* overlap.                                                                *)
(***************************************************************************)
EXTENDS SessionManager

CONSTANTS
    TunThread, TransportThread, TimerThread,   \* equal if handlers never overlap
    Probing,        \* whether the configuration asks for keepalives
    Duplicating,    \* whether the network may deliver a packet again
    Recovering,     \* whether the scheduler may find a session silent
    Timed,          \* whether the timers of the handshake and the sessions run
    Prompt,         \* whether a packet arrives, or is lost, within a unit of time
    Oversized,      \* whether a payload may be too long for a Noise message
    MaxRestarts     \* bound on the restarts of processes

Node == {l[1] : l \in Link}
Thread == {TunThread, TransportThread, TimerThread}

ASSUME EngineAssumption ==
    /\ \A l \in Link : Reverse(l) \in Link /\ Reverse(Reverse(l)) = l
    /\ Key \subseteq Nat
    /\ {Probing, Duplicating, Recovering, Timed, Prompt, Oversized} \subseteq BOOLEAN
    /\ MaxRestarts \in Nat

VARIABLES
    net,         \* the packets in flight
    at,          \* what each thread of each node has left of its handler
    learned,     \* the links whose peer's endpoint an authentic packet gave
    used,        \* history: the handshake identifiers drawn
    drawn,       \* history: the keys responders derived
    restarts

engineVars == <<managerVars, net, at, learned, used, drawn, restarts>>

InitPacket(l, hid) == [type |-> "init", link |-> l, hid |-> hid]
ResponsePacket(l, c) ==
    [type |-> "response", link |-> l, hid |-> c.hid, id |-> c.id, key |-> c.key]
TransportPacket(f) == [type |-> "transport", link |-> f.link, frame |-> f]

-----------------------------------------------------------------------------

Idle(n, t) == at[<<n, t>>] = {}
Continue(n, t, todo) == at' = [at EXCEPT ![<<n, t>>] = {todo}]
Finish(n, t) == at' = [at EXCEPT ![<<n, t>>] = {}]

\* The thread at a step of a handler for link l.
Todo(t, l, step) == {todo \in at[<<l[1], t>>] : todo.link = l /\ todo.step = step}

Send(packets) == net' = net \cup packets
Receive(packet, packets) ==
    net' = (IF Duplicating THEN net ELSE net \ {packet}) \cup packets

\* resolve_endpoint: a learned endpoint or else a configured one.
Reachable(l) == l \in learned \/ l \notin Passive

history == <<used, drawn, restarts>>

-----------------------------------------------------------------------------

EngineInit ==
    /\ ManagerInit
    /\ net = {}
    /\ at = [nt \in Node \X Thread |-> {}]
    /\ learned = {}
    /\ used = {}
    /\ drawn = {}
    /\ restarts = 0

\* process_outbound_ip and create_keepalive up to the result of encrypt_for_peer.
Outbound(t, l, kind) ==
    /\ Idle(l[1], t)
    /\ \/ /\ EncryptFrame(l, kind)
          /\ Continue(l[1], t, [link |-> l, step |-> "initiate", send |-> sealed' \ sealed])
       \/ /\ EncryptNone(l)
          /\ Continue(l[1], t, [link |-> l, step |-> "initiate", send |-> {}])
       \/ /\ Oversized
          /\ EncryptError(l)
          /\ Continue(l[1], t, [link |-> l, step |-> "invalidate"])
    /\ UNCHANGED <<net, learned, history>>

\* ... after an encryption error, and in the scheduler's recovery: invalidate_peer.
Invalidate(t, l) ==
    /\ Todo(t, l, "invalidate") # {}
    /\ invalidate_peer(l)
    /\ Continue(l[1], t, [link |-> l, step |-> "initiate", send |-> {}])
    /\ UNCHANGED <<net, learned, used, drawn, restarts>>

\* ... then initiate_peer, and the adapter sends what the handler put out.
InitiatePeer(t, l) ==
    \E todo \in Todo(t, l, "initiate") :
        LET out == {TransportPacket(f) : f \in todo.send}
        IN  /\ Finish(l[1], t)
            /\ UNCHANGED <<learned, drawn, restarts>>
            /\ \/ /\ ~ Reachable(l)
                  /\ UNCHANGED <<managerVars, net, used>>
               \/ /\ Reachable(l)
                  /\ RetryHandshake(l)
                  /\ Send(out \cup {InitPacket(l, p.hid) :
                            p \in {q \in CurrentAttempt(l) : q.sinceSent >= RetryInterval}})
                  /\ UNCHANGED used
               \/ /\ Reachable(l)
                  /\ StartNothing(l)
                  /\ Send(out)
                  /\ UNCHANGED used
               \/ /\ Reachable(l)
                  /\ \E hid \in HandshakeId \ used :
                        /\ StartHandshake(l, hid)
                        /\ Send(out \cup {InitPacket(l, hid)})
                        /\ used' = used \cup {hid}

\* EngineScheduler::tick looks at a link: it retries a pending exchange, recovers
\* a session whose peer has been silent, or, where the configuration asks for
\* keepalives, lets create_keepalive run (Outbound).
TimerRetry(l) ==
    /\ Idle(l[1], TimerThread)
    /\ pending_init[l] # {}
    /\ Continue(l[1], TimerThread, [link |-> l, step |-> "initiate", send |-> {}])
    /\ UNCHANGED <<managerVars, net, learned, history>>

TimerRecover(l) ==
    /\ Recovering
    /\ Idle(l[1], TimerThread)
    /\ Live(sessions[l]) # {}
    /\ Continue(l[1], TimerThread, [link |-> l, step |-> "invalidate"])
    /\ UNCHANGED <<managerVars, net, learned, history>>

-----------------------------------------------------------------------------

\* process_inbound_transport of msg1: decode, then accept_inbound_initiation ...
ReceiveInit(packet) ==
    LET l == Reverse(packet.link)
    IN  /\ packet.type = "init"
        /\ Idle(l[1], TransportThread)
        /\ accept_inbound_initiation(l, packet.hid)
        /\ IF Accepts(l, packet.hid)
           THEN Continue(l[1], TransportThread,
                         [link |-> l, step |-> "lookup", hid |-> packet.hid])
           ELSE UNCHANGED at
        /\ Receive(packet, {})
        /\ UNCHANGED <<learned, history>>

\* ... then cached_responder_response: a retransmitted msg1 gets the same msg2 ...
LookupResponse(l) ==
    \E todo \in Todo(TransportThread, l, "lookup") :
        /\ cached_responder_response(l)
        /\ Send({ResponsePacket(l, c) : c \in CacheHit(l, todo.hid)})
        /\ IF CacheHit(l, todo.hid) # {}
           THEN Finish(l[1], TransportThread)
           ELSE Continue(l[1], TransportThread,
                         [link |-> l, step |-> "store", hid |-> todo.hid])
        /\ UNCHANGED <<learned, history>>

\* ... then store_responder_candidate with the session of a fresh key; nothing is
\* answered when its identifier happens to be in use.
StoreCandidate(l) ==
    \E todo \in Todo(TransportThread, l, "store"), id \in SessionId, key \in Key \ drawn :
        /\ \A k \in Key \ drawn : key <= k
        /\ drawn' = drawn \cup {key}
        /\ Finish(l[1], TransportThread)
        /\ \/ /\ store_responder_candidate(l, id, key, todo.hid)
              /\ Send({ResponsePacket(l, [hid |-> todo.hid, id |-> id, key |-> key])})
           \/ /\ session_id_in_use(l[1], id)
              /\ UNCHANGED <<managerVars, net>>
        /\ UNCHANGED <<learned, used, restarts>>

\* process_inbound_transport of msg2.  A valid one gives the sender an endpoint
\* and the confirmation leaves at once.
ReceiveResponse(packet) ==
    LET l == Reverse(packet.link)
    IN  /\ packet.type = "response"
        /\ Idle(l[1], TransportThread)
        /\ \E p \in pending_init[l] : p.hid = packet.hid
        /\ \/ /\ FinalizeSession(l, packet.id, packet.key)
              /\ Receive(packet, {TransportPacket(f) : f \in sealed' \ sealed})
              /\ learned' = learned \cup {l}
           \/ /\ session_id_in_use(l[1], packet.id)
              /\ FinalizeError(l)
              /\ Receive(packet, {})
              /\ UNCHANGED learned
        /\ UNCHANGED <<at, history>>

\* process_inbound_transport of a transport packet: an accepted one gives the
\* sender an endpoint, and a probe is still to be acknowledged.
ReceiveTransport(packet) ==
    LET l == Reverse(packet.link)
    IN  /\ packet.type = "transport"
        /\ Idle(l[1], TransportThread)
        /\ \/ /\ decrypt_transport(l, packet.frame)
              /\ learned' = learned \cup {l}
              /\ IF packet.frame.kind = "probe"
                 THEN Continue(l[1], TransportThread, [link |-> l, step |-> "acknowledge"])
                 ELSE UNCHANGED at
           \/ /\ RejectTransport(l[1], packet.frame)
              /\ UNCHANGED <<learned, at>>
        /\ Receive(packet, {})
        /\ UNCHANGED history

\* ... which is an encrypt_for_peer of its own, on whatever session is active then.
Acknowledge(l) ==
    /\ Todo(TransportThread, l, "acknowledge") # {}
    /\ EncryptFrame(l, "ack") \/ EncryptNone(l)
    /\ Finish(l[1], TransportThread)
    /\ Send({TransportPacket(f) : f \in sealed' \ sealed})
    /\ UNCHANGED <<learned, history>>

-----------------------------------------------------------------------------

\* Time passes only between handlers: they are short against the timers.
Tick ==
    /\ Timed
    /\ Prompt => net = {}
    /\ \A n \in Node, t \in Thread : Idle(n, t)
    /\ Age
    /\ UNCHANGED <<net, at, learned, history>>

Restart(n) ==
    /\ restarts < MaxRestarts
    /\ restarts' = restarts + 1
    /\ RestartManager(n)
    /\ at' = [nt \in Node \X Thread |-> IF nt[1] = n THEN {} ELSE at[nt]]
    /\ learned' = learned \ Table(n)
    /\ UNCHANGED <<net, used, drawn>>

\* The network loses a packet; a duplicating one is free never to deliver it.
Lose(packet) ==
    /\ ~ Duplicating
    /\ net' = net \ {packet}
    /\ UNCHANGED <<managerVars, at, learned, history>>

LinkStep(l) ==
    \/ Outbound(TunThread, l, "data")
    \/ Probing /\ Outbound(TimerThread, l, "probe")
    \/ TimerRetry(l)
    \/ TimerRecover(l)
    \/ \E t \in Thread : Invalidate(t, l) \/ InitiatePeer(t, l)
    \/ LookupResponse(l)
    \/ StoreCandidate(l)
    \/ Acknowledge(l)

Deliver(packet) == ReceiveInit(packet) \/ ReceiveResponse(packet) \/ ReceiveTransport(packet)

EngineNext ==
    \/ \E l \in Link : LinkStep(l)
    \/ \E packet \in net : Deliver(packet) \/ Lose(packet)
    \/ \E n \in Node : Restart(n)
    \/ Tick

EngineSpec == EngineInit /\ [][EngineNext]_engineVars

-----------------------------------------------------------------------------

\* The initiator's half of a session: sealed counter 0 is its confirmation.
Finalized(l, key) == \E f \in sealed : f.link = l /\ f.key = key /\ f.ctr = 0 /\ f.kind = "probe"

\* Only a session that its initiator completed becomes active: a responder never
\* sends with, or demotes its working session for, keys the peer may not have.
\* A delayed or repeated msg1 alone cannot do it.
ConfirmedBeforeActive ==
    \A l \in Link : \A s \in sessions[l] \cup previous_sessions[l] :
        Finalized(l, s.key) \/ Finalized(Reverse(l), s.key)

\* A candidate whose exchange its initiator has given up: nobody will confirm it.
Abandoned(l) ==
    \E s \in Live(responder_candidates[l]) :
        ~ Finalized(Reverse(l), s.key) /\ pending_init[Reverse(l)] = {}

\* "both peers cannot become responders simultaneously" (engine.rs:239-241): the
\* two ends are never both responders, each holding a candidate that the other has
\* stopped pursuing and each barred by it from starting an exchange until it
\* expires.
NoMutualYield == \A l \in Link : ~ (Abandoned(l) /\ Abandoned(Reverse(l)))

\* This end has sent or accepted a frame of the session.
Used(l, key) ==
    \/ \E f \in sealed : f.link = l /\ f.key = key
    \/ \E o \in opened : o.link = l /\ o.key = key

\* One previous session is enough while the sender's is not old: while an end
\* sends with a session, its peer, once it has used that session, holds it as the
\* active or the previous one, however many rekeys the peer has completed whose
\* confirmation got lost.  The peer's half may be older by the time an attempt
\* takes, in which msg2 is repeated, and is rejected that much earlier: so this is
\* said of a session which is an attempt's lifetime away from its own rejection.
SenderSessionHeld ==
    \A l \in Link : \A s \in Live(sessions[l]) :
        Used(Reverse(l), s.key) /\ s.age + AttemptLifetime < RejectAfterTime =>
            \E r \in sessions[Reverse(l)] \cup previous_sessions[Reverse(l)] : r.key = s.key

\* The engine uses the session manager as its specification says: whatever the
\* threads and the network do, a step makes at most one call of the manager, and
\* no handshake hands it a key that the link has had before.  So what holds of
\* ManagerSpec holds of the manager inside the engine.
ImplementsManager ==
    ManagerInit /\ [][UNCHANGED managerVars \/ ManagerNext]_managerVars
=============================================================================
