---------------------------- MODULE PeerEndpoint ----------------------------
(***************************************************************************)
(* Where an Engine (src/src/engine.rs) sends packets for one peer: the     *)
(* endpoint learned from authentic packets (src/src/state.rs), or else the *)
(* last DNS resolution.  In the Network Extension packets arrive on the    *)
(* transport queue while DNS refreshes run on the provider's work queue,   *)
(* and each handler takes the locks of the session table and of the        *)
(* endpoint tables one after the other.                                    *)
(***************************************************************************)
EXTENDS Naturals

CONSTANTS
    Endpoint,      \* the addresses the peer may have
    NoEndpoint,    \* current_endpoint is None
    MaxUpdates     \* bound on the DNS answers that differ from the last one

VARIABLES
    resolved_endpoint,   \* configured_endpoint: the last resolution
    current_endpoint,    \* PeerStats.current_endpoint, or NoEndpoint
    session,             \* "none", an unconfirmed "exchange", or "active"
    inbound,             \* sources of authenticated packets not yet recorded
    update,              \* the step update_resolved_endpoint has reached
    destination,         \* where the last handshake packet was sent
    updates              \* how many resolutions have changed the endpoint

endpointVars ==
    <<resolved_endpoint, current_endpoint, session, inbound, update, destination, updates>>

EndpointInit ==
    /\ resolved_endpoint \in Endpoint
    /\ current_endpoint = NoEndpoint
    /\ session = "none"
    /\ inbound = {}
    /\ update = "idle"
    /\ destination = NoEndpoint
    /\ updates = 0

resolve_endpoint ==
    IF current_endpoint # NoEndpoint THEN current_endpoint ELSE resolved_endpoint

\* process_inbound_transport up to the end of decrypt_transport or
\* finalize_initiator: a packet from `source' is authentic, being msg2 or the
\* first packet of a candidate, or a packet of the active session.
Authenticate(source) ==
    /\ inbound = {}
    /\ session # "none"
    /\ session' = "active"
    /\ inbound' = {source}
    /\ UNCHANGED <<resolved_endpoint, current_endpoint, update, destination, updates>>

\* ... then record_keepalive or record_rx, which learn the source address.
update_endpoint ==
    \E source \in inbound :
        /\ current_endpoint' = source
        /\ inbound' = {}
        /\ UNCHANGED <<resolved_endpoint, session, update, destination, updates>>

\* update_resolved_endpoint of an address other than the one configured ...
update_resolved_endpoint(endpoint) ==
    /\ update = "idle"
    /\ updates < MaxUpdates
    /\ endpoint # resolved_endpoint
    /\ resolved_endpoint' = endpoint
    /\ update' = "clear"
    /\ updates' = updates + 1
    /\ UNCHANGED <<current_endpoint, session, inbound, destination>>

\* ... then PeerState::clear_endpoint ...
clear_endpoint ==
    /\ update = "clear"
    /\ current_endpoint' = NoEndpoint
    /\ update' = "invalidate"
    /\ UNCHANGED <<resolved_endpoint, session, inbound, destination, updates>>

\* ... then SessionManager::invalidate_peer.
invalidate_session ==
    /\ update = "invalidate"
    /\ session' = "none"
    /\ update' = "replaced"
    /\ UNCHANGED <<resolved_endpoint, current_endpoint, inbound, destination, updates>>

\* The adapter starts the replacement handshake, or a timer starts a handshake.
initiate_peer ==
    /\ update \in {"replaced", "idle"}
    /\ destination' = resolve_endpoint
    /\ update' = "idle"
    /\ session' = IF session = "none" THEN "exchange" ELSE session
    /\ UNCHANGED <<resolved_endpoint, current_endpoint, inbound, updates>>

\* store_responder_candidate: the peer's msg1, whose source is not learned.
store_candidate ==
    /\ session = "none"
    /\ session' = "exchange"
    /\ UNCHANGED <<resolved_endpoint, current_endpoint, inbound, update, destination, updates>>

EndpointNext ==
    \/ \E source \in Endpoint : Authenticate(source)
    \/ update_endpoint
    \/ \E endpoint \in Endpoint : update_resolved_endpoint(endpoint)
    \/ clear_endpoint
    \/ invalidate_session
    \/ initiate_peer
    \/ store_candidate

EndpointSpec == EndpointInit /\ [][EndpointNext]_endpointVars

\* When update_resolved_endpoint has returned and the adapter is about to start
\* the replacement handshake, the learned address is cleared, so the handshake
\* goes to the new resolution.
ClearedTogether == update = "replaced" => current_endpoint = NoEndpoint
=============================================================================
