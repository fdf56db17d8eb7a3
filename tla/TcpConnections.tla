--------------------------- MODULE TcpConnections ---------------------------
(***************************************************************************)
(* The connections of the TCP transport (src/src/tcp_transport.rs,         *)
(* TcpTransport): senders look a connection up or dial one, the accept     *)
(* thread inserts, the reader goes through a snapshot and removes what is  *)
(* broken.  The map is locked for each lookup, insertion and removal, and  *)
(* never across two of them.  A connection whose last owner drops it is    *)
(* closed.                                                                 *)
(***************************************************************************)
EXTENDS Naturals, FiniteSets

CONSTANTS
    Sender,         \* the threads that call send_to
    Addr,           \* the endpoints
    Dialable,       \* those that accept connections
    None,
    MaxConns,       \* bound on the connections made
    MaxBreaks       \* bound on the connections that break

ASSUME ConnectionsAssumption ==
    /\ Dialable \subseteq Addr
    /\ {MaxConns, MaxBreaks} \subseteq Nat

Conn == 1 .. MaxConns

VARIABLES
    connections,    \* endpoint -> connection or None
    made,           \* the connections made so far are 1 .. made
    of,             \* the endpoint a connection was inserted for
    broken,         \* the connections on which every read and write fails
    pc, target, held,   \* of each sender: its step, endpoint and connection
    entries,        \* the reader's snapshot, what is left of it
    reading,        \* the entry whose read has failed, or None
    returned,       \* recv_from has returned a frame and was not called again
    breaks

connVars == <<connections, made, of, broken, pc, target, held, entries, reading,
              returned, breaks>>

ConnInit ==
    /\ connections = [a \in Addr |-> None]
    /\ made = 0
    /\ of = [c \in Conn |-> None]
    /\ broken = {}
    /\ pc = [s \in Sender |-> "idle"]
    /\ target = [s \in Sender |-> None]
    /\ held = [s \in Sender |-> None]
    /\ entries = {}
    /\ reading = None
    /\ returned = FALSE
    /\ breaks = 0

senderVars == <<pc, target, held>>
readerVars == <<entries, reading, returned>>

Made(a) ==
    /\ made < MaxConns
    /\ made' = made + 1
    /\ of' = [of EXCEPT ![made + 1] = a]

\* get_or_dial: the connection of the map, or else dial.
GetOrDial(s) ==
    /\ pc[s] = "idle"
    /\ \E a \in Addr :
          /\ target' = [target EXCEPT ![s] = a]
          /\ IF connections[a] # None
             THEN held' = [held EXCEPT ![s] = connections[a]] /\ pc' = [pc EXCEPT ![s] = "send"]
             ELSE pc' = [pc EXCEPT ![s] = "dial"] /\ UNCHANGED held
    /\ UNCHANGED <<connections, made, of, broken, readerVars, breaks>>

\* connect_timeout succeeds: the connection replaces whatever is in the map.
Dialled(s) ==
    /\ pc[s] = "dial"
    /\ target[s] \in Dialable
    /\ Made(target[s])
    /\ connections' = [connections EXCEPT ![target[s]] = made + 1]
    /\ held' = [held EXCEPT ![s] = made + 1]
    /\ pc' = [pc EXCEPT ![s] = "send"]
    /\ UNCHANGED <<broken, target, readerVars, breaks>>

\* connect_timeout fails, after two seconds at most; send_to returns the error.
DialFails(s) ==
    /\ pc[s] = "dial"
    /\ pc' = [pc EXCEPT ![s] = "idle"]
    /\ target' = [target EXCEPT ![s] = None]
    /\ UNCHANGED <<connections, made, of, broken, held, readerVars, breaks>>

\* Mutant of Queued: the sender keeps the connection.
Queued_kept(s) ==
    /\ pc[s] = "send"
    /\ pc' = [pc EXCEPT ![s] = "idle"]
    /\ target' = [target EXCEPT ![s] = None]
    /\ UNCHANGED <<connections, made, of, broken, held, readerVars, breaks>>

\* queue_frame on the connection, whether it succeeds or fails.
Queued(s) ==
    /\ pc[s] = "send"
    /\ pc' = [pc EXCEPT ![s] = "idle"]
    /\ target' = [target EXCEPT ![s] = None]
    /\ held' = [held EXCEPT ![s] = None]
    /\ UNCHANGED <<connections, made, of, broken, readerVars, breaks>>

\* The accept thread.  A peer connects from a port it does not listen on, and
\* from the same one again only when its earlier connection is gone.
Accepted ==
    /\ \E a \in Addr \ Dialable :
          /\ \A c \in 1 .. made : of[c] = a => c \in broken
          /\ Made(a)
          /\ connections' = [connections EXCEPT ![a] = made + 1]
    /\ UNCHANGED <<broken, senderVars, readerVars, breaks>>

\* recv_from, or its next round: the entries of the map, in no order.
Snapshot ==
    /\ entries = {} /\ reading = None
    /\ returned' = FALSE
    /\ entries' = {[addr |-> a, conn |-> connections[a]] :
                     a \in {b \in Addr : connections[b] # None}}
    /\ UNCHANGED <<connections, made, of, broken, senderVars, reading, breaks>>

\* try_read_frame on the next entry: an error, nothing yet, or a frame, with
\* which recv_from returns; the next call starts with a new snapshot.
TryRead ==
    /\ reading = None
    /\ \E e \in entries :
          \/ /\ e.conn \in broken
             /\ reading' = e
             /\ entries' = entries \ {e}
             /\ UNCHANGED returned
          \/ /\ e.conn \notin broken
             /\ entries' = entries \ {e}
             /\ UNCHANGED <<reading, returned>>
          \/ /\ e.conn \notin broken
             /\ entries' = {} /\ returned' = TRUE
             /\ UNCHANGED reading
    /\ UNCHANGED <<connections, made, of, broken, senderVars, breaks>>

\* Mutant of RemoveBroken: a failed read is only logged.
RemoveBroken_never ==
    /\ reading # None
    /\ reading' = None
    /\ UNCHANGED <<connections, made, of, broken, senderVars, entries, returned, breaks>>

\* The connection was unlocked; the map is locked and the address removed.
RemoveBroken ==
    /\ reading # None
    /\ connections' = [connections EXCEPT ![reading.addr] = None]
    /\ reading' = None
    /\ UNCHANGED <<made, of, broken, senderVars, entries, returned, breaks>>

\* Closed by the peer, reset, or cut.
ConnBreaks ==
    /\ breaks < MaxBreaks
    /\ breaks' = breaks + 1
    /\ \E c \in 1 .. made : c \notin broken /\ broken' = broken \cup {c}
    /\ UNCHANGED <<connections, made, of, senderVars, readerVars>>

\* A call of a sender comes to its end.
Return(s) == Dialled(s) \/ DialFails(s) \/ Queued(s)

ConnNext ==
    \/ \E s \in Sender : GetOrDial(s) \/ Return(s)
    \/ Accepted \/ Snapshot \/ TryRead \/ RemoveBroken \/ ConnBreaks

\* The reader loops, and calls end.
ConnSpec ==
    /\ ConnInit /\ [][ConnNext]_connVars
    /\ WF_connVars(Snapshot) /\ WF_connVars(TryRead) /\ WF_connVars(RemoveBroken)
    /\ \A s \in Sender : WF_connVars(Return(s))

----------------------------------------------------------------------------
Mapped == {connections[a] : a \in Addr} \ {None}

\* A connection some thread can still reach.
Owned(c) ==
    \/ c \in Mapped
    \/ \E s \in Sender : held[s] = c
    \/ \E e \in entries : e.conn = c
    \/ reading # None /\ reading.conn = c

\* The connection of an endpoint fails every send.
Failing(a) == connections[a] \in broken

\* Recovery: a broken connection does not stay in the map, where every send to
\* the endpoint would fail on it.  On one condition: the other connections do
\* not deliver frames for ever.  recv_from returns with the first frame it finds
\* and starts anew, so it need not come to a connection behind a busy one.
BrokenIsRemoved == []<>returned \/ \A a \in Addr : Failing(a) ~> ~Failing(a)

\* A connection that was replaced in the map is let go by all threads, so that
\* it is closed and the peer does not keep it.
ReplacedIsClosed ==
    \A c \in Conn : c <= made /\ c \notin Mapped ~> ~Owned(c)
=============================================================================
