---------------------------- MODULE UdpTransport ----------------------------
(***************************************************************************)
(* The UDP transport and its rebinding (src/src/transport.rs UdpTransport):*)
(* every call takes the active socket under a lock and uses it after the   *)
(* lock is released; a rebind replaces it.  A socket that no call holds    *)
(* and that is not active is closed.  The peer answers to the port of the  *)
(* frame it has received last (Engine, PeerEndpoint).                      *)
(***************************************************************************)
EXTENDS Naturals, FiniteSets

CONSTANTS
    Caller,         \* the threads that call send_to
    MaxRebinds,     \* bound on the rebinds
    MaxQueued       \* bound on the datagrams waiting at a socket

ASSUME UdpAssumption == {MaxRebinds, MaxQueued} \subseteq Nat

Socket == 0 .. MaxRebinds
NoSocket == MaxRebinds + 1

VARIABLES
    active,         \* the socket behind the RwLock
    socket_of,      \* sender -> the socket of its call, or NoSocket
    receiver,       \* the socket of recv_from, or NoSocket
    binding,        \* the replacement of a rebind under way, or NoSocket
    queued,         \* socket -> datagrams waiting
    flying,         \* the sockets from which frames are on their way to the peer
    answers,        \* the sockets to which answers are on their way
    peer_knows,     \* the socket the peer answers to
    stale           \* sender -> frames sent from an old socket since the last rebind,
                    \* up to 2

udpVars == <<active, socket_of, receiver, binding, queued, flying, answers, peer_knows, stale>>
network == <<queued, flying, answers, peer_knows>>

UdpInit ==
    /\ active = 0
    /\ socket_of = [s \in Caller |-> NoSocket]
    /\ receiver = NoSocket /\ binding = NoSocket
    /\ queued = [k \in Socket |-> 0]
    /\ flying = {} /\ answers = {}
    /\ peer_knows = 0
    /\ stale = [s \in Caller |-> 0]

Open(k) == k = active \/ k = receiver \/ k = binding \/ \E s \in Caller : socket_of[s] = k

\* Mutant of send_active: every clone has the socket it was made with.
send_active_own(s) ==
    /\ socket_of[s] = NoSocket
    /\ socket_of' = [socket_of EXCEPT ![s] = 0]
    /\ UNCHANGED <<active, receiver, binding, network, stale>>

\* send_to: active_socket ...
send_active(s) ==
    /\ socket_of[s] = NoSocket
    /\ socket_of' = [socket_of EXCEPT ![s] = active]
    /\ UNCHANGED <<active, receiver, binding, network, stale>>

\* ... and the system call, which may come after a rebind.
Send(s) ==
    /\ socket_of[s] # NoSocket
    /\ flying' = flying \cup {socket_of[s]}
    /\ stale' = [stale EXCEPT ![s] = IF socket_of[s] # active /\ @ < 2 THEN @ + 1 ELSE @]
    /\ socket_of' = [socket_of EXCEPT ![s] = NoSocket]
    /\ UNCHANGED <<active, receiver, binding, queued, answers, peer_knows>>

\* recv_from: active_socket ...
recv_active ==
    /\ receiver = NoSocket
    /\ receiver' = active
    /\ UNCHANGED <<active, socket_of, binding, network, stale>>

\* ... a datagram ...
Receive ==
    /\ receiver # NoSocket
    /\ queued[receiver] > 0
    /\ queued' = [queued EXCEPT ![receiver] = @ - 1]
    /\ receiver' = NoSocket
    /\ UNCHANGED <<active, socket_of, binding, flying, answers, peer_knows, stale>>

\* Mutant of Timeout: the loop goes on with the socket it has.
Timeout_same ==
    /\ receiver # NoSocket
    /\ queued[receiver] = 0
    /\ UNCHANGED udpVars

\* ... or the read timeout, after which the loop takes the active socket anew.
Timeout ==
    /\ receiver # NoSocket
    /\ queued[receiver] = 0
    /\ receiver' = NoSocket
    /\ UNCHANGED <<active, socket_of, binding, network, stale>>

\* rebind_to_ephemeral: a fresh socket is bound ...
BindUdpSocket ==
    /\ binding = NoSocket
    /\ active < MaxRebinds
    /\ binding' = active + 1
    /\ UNCHANGED <<active, socket_of, receiver, network, stale>>

\* ... or not, and the old one stays ...
BindFails ==
    /\ binding # NoSocket
    /\ binding' = NoSocket
    /\ UNCHANGED <<active, socket_of, receiver, network, stale>>

\* ... and replaces the active one.
Replace ==
    /\ binding # NoSocket
    /\ active' = binding
    /\ binding' = NoSocket
    /\ stale' = [s \in Caller |-> 0]
    /\ UNCHANGED <<socket_of, receiver, network>>

\* The peer receives a frame and answers; an answer to a closed port is lost.
PeerReceives(k) ==
    /\ k \in flying
    /\ flying' = flying \ {k}
    /\ peer_knows' = k
    /\ answers' = answers \cup {k}
    /\ UNCHANGED <<active, socket_of, receiver, binding, queued, stale>>

Answered ==
    /\ \E k \in answers :
          /\ answers' = answers \ {k}
          /\ queued' = IF Open(k) /\ queued[k] < MaxQueued
                       THEN [queued EXCEPT ![k] = @ + 1] ELSE queued
    /\ UNCHANGED <<active, socket_of, receiver, binding, flying, peer_knows, stale>>

UdpNext ==
    \/ \E s \in Caller : send_active(s) \/ Send(s)
    \/ recv_active \/ Receive \/ Timeout
    \/ BindUdpSocket \/ BindFails \/ Replace \/ Answered
    \/ \E k \in Socket : PeerReceives(k)

\* The threads run on, the scheduler sends keepalives again and again, and the
\* network delivers in the end; nothing makes a rebind happen.
UdpSpec ==
    /\ UdpInit /\ [][UdpNext]_udpVars
    /\ \A s \in Caller : WF_udpVars(send_active(s)) /\ WF_udpVars(Send(s))
    /\ WF_udpVars(recv_active) /\ WF_udpVars(Receive) /\ WF_udpVars(Timeout)
    /\ \A k \in Socket : WF_udpVars(PeerReceives(k))
    /\ WF_udpVars(Answered)

----------------------------------------------------------------------------
\* A sender that was interrupted by a rebind sends at most one more frame from
\* the old port: from its next call on it uses the new one.
OneLateFrame == \A s \in Caller : stale[s] <= 1

\* A receiver blocked on the old socket notices the rebind and moves to the
\* new one: it is at the active socket again and again.
ReceiverMoves == []<>(receiver = active)

\* Whatever was late or reordered, when the rebinding has come to an end the
\* peer answers to the active port for good.
PeerFollows == <>[](peer_knows = active)

\* A rebind reaches both directions.
RebindTakesEffect == ReceiverMoves /\ PeerFollows
=============================================================================
