------------------------------- MODULE Router -------------------------------
(***************************************************************************)
(* Router (src/src/router.rs): the routes and exclusions of all peers,     *)
(* longest prefixes first, the lookup of the peer for a destination, and   *)
(* the peers whose own endpoint the tunnel would capture.                  *)
(***************************************************************************)
EXTENDS Config

Route(prefix, peer) == [prefix |-> prefix, peer |-> peer]

\* peer_from_config: the parts of a peer that routing uses.
peer_from_config(config) ==
    [name |-> config.name, endpoint |-> resolve(config.endpoint),
     excluded_ips |-> config.excluded_ips]

\* The elements of a finite set in the order `before', a set of pairs: an
\* element has its place after as many others as come before it.
Arranged(S, before) ==
    [k \in 1 .. Cardinality(S) |->
        CHOOSE x \in S : Cardinality({y \in S : <<y, x>> \in before}) = k - 1]

\* Numbers in ascending order.
Ascending(S) == Arranged(S, {p \in S \X S : p[1] < p[2]})

\* The places in a list of lists, and which of two is read first.
Places(lists) == UNION {{n} \X DOMAIN lists[n] : n \in DOMAIN lists}
Earlier(p, q) == p[1] < q[1] \/ (p[1] = q[1] /\ p[2] < q[2])

\* sort_by_key(Reverse(prefix_len)), which is stable, of the prefixes in a
\* list of every peer.
sort_by_length(config, field) ==
    LET places == Places([n \in DOMAIN config.peer |-> config.peer[n][field]])
        prefix(p) == config.peer[p[1]][field][p[2]]
        before(p, q) == \/ prefix(p).len > prefix(q).len
                        \/ prefix(p).len = prefix(q).len /\ Earlier(p, q)
        order == Arranged(places, {pair \in places \X places : before(pair[1], pair[2])})
    IN  [k \in DOMAIN order |->
            Route(prefix(order[k]), peer_from_config(config.peer[order[k][1]]))]

NoRouter == [built |-> FALSE, routes |-> <<>>, excluded_routes |-> <<>>]

\* Router::new: refused when an endpoint has no address or a prefix is repeated.
new_router(config) ==
    LET places == Places([n \in DOMAIN config.peer |-> config.peer[n].allowed_ips])
        prefix(p) == config.peer[p[1]].allowed_ips[p[2]]
        unresolved == \E n \in DOMAIN config.peer :
                          resolve(config.peer[n].endpoint) = Absent
        repeated == \E p, q \in places : p # q /\ prefix(p) = prefix(q)
    IN  IF unresolved \/ repeated THEN NoRouter
        ELSE [built |-> TRUE,
              routes |-> sort_by_length(config, "allowed_ips"),
              excluded_routes |-> sort_by_length(config, "excluded_ips")]

\* Mutant of admits: any exclusion overrules.
admits_unless_excluded(route, destination) ==
    /\ contains(route.prefix, destination)
    /\ \A i \in DOMAIN route.peer.excluded_ips :
          ~contains(route.peer.excluded_ips[i], destination)

\* The route is not overruled by an exclusion of its own peer that is as long
\* or longer.
admits(route, destination) ==
    /\ contains(route.prefix, destination)
    /\ \A i \in DOMAIN route.peer.excluded_ips :
          contains(route.peer.excluded_ips[i], destination)
              => route.prefix.len > route.peer.excluded_ips[i].len

\* Router::lookup: the first route that admits the destination, or Absent.
lookup(router, destination) ==
    LET admitting == {i \in DOMAIN router.routes : admits(router.routes[i], destination)}
    IN  IF admitting = {} THEN Absent ELSE router.routes[Min(admitting)]

\* An endpoint that can be sent to over IPv4.
UsableV4(endpoint) == endpoint.family = 4 /\ endpoint.port # 0 /\ endpoint.ip # UNSPECIFIED

\* The addresses of the endpoints of some routes, in the order of the routes.
EndpointsOf(router, indices) ==
    LET order == Ascending(indices)
    IN  [k \in DOMAIN order |-> router.routes[order[k]].peer.endpoint.ip]

\* Mutant of endpoint_exceptions: only full tunnels are protected.
endpoint_exceptions_full_only(router) ==
    LET endpoint(i) == router.routes[i].peer.endpoint
    IN  EndpointsOf(router,
            {i \in DOMAIN router.routes :
                /\ UsableV4(endpoint(i))
                /\ router.routes[i].prefix.len = 0})

\* endpoint_exception_peers: the endpoints that lookup would send into the
\* tunnel, each once, in the order of the routes.
endpoint_exceptions(router) ==
    LET endpoint(i) == router.routes[i].peer.endpoint
    IN  EndpointsOf(router,
            {i \in DOMAIN router.routes :
                /\ UsableV4(endpoint(i))
                /\ lookup(router, endpoint(i).ip) # Absent
                /\ \A k \in 1 .. i - 1 :
                      ~(UsableV4(endpoint(k)) /\ endpoint(k).ip = endpoint(i).ip)})
=============================================================================
