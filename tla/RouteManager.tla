---------------------------- MODULE RouteManager ----------------------------
(***************************************************************************)
(* The host routes of the tunnel (src/src/routing.rs, Linux): setup adds   *)
(* direct routes for exclusions and endpoints, then the tunnel's routes;   *)
(* a failure removes what was added, and so does the shutdown.  The kernel *)
(* table and `ip' are external: the routes that `ip' adds stand beside the *)
(* network of the tunnel's device, which the kernel adds when the device   *)
(* gets its address.  An `ip' child may fail, and during a shutdown        *)
(* systemd may kill it, before or after it has done its work.              *)
(***************************************************************************)
EXTENDS Router

CONSTANTS
    Configs,        \* the configurations that are tried
    HostTables,     \* the route tables the host may have before
    Tun, Physical,  \* the device of the tunnel, and the host's own
    Loopback,       \* the device of the host's addresses
    MaxIpKills      \* bound on the `ip' children that fail or are killed

Nets == [addr : Address, len : 0 .. AddressBits]

\* What Config::load has parsed: the types of the fields it is about.
PeerType(peer) ==
    /\ {peer.persistent_keepalive, peer.udp_rebind_after} \subseteq Nat
    /\ peer.session_timeout \in Nat \cup {Absent}
    /\ peer.allowed_ips \in Seq(Nets) /\ peer.excluded_ips \in Seq(Nets)

ConfigType(c) ==
    /\ c.interface.mtu \in Nat /\ c.interface.address \in Nets
    /\ c.gateway # Absent => c.gateway.tcp_mss \in Nat \cup {Absent}
    /\ c.peer \in Seq(Range(c.peer))
    /\ \A n \in DOMAIN c.peer : PeerType(c.peer[n])

\* Absent is neither a number nor a route.  The device of the tunnel is new:
\* no route of the host is on it.  The kernel keeps no host bits.
ASSUME RouteAssumption ==
    /\ MaxIpKills \in Nat
    /\ Absent \notin Nat
    /\ \A c \in Configs :
          /\ ConfigType(c)
          /\ \A n \in DOMAIN c.peer : \A i \in DOMAIN c.peer[n].allowed_ips :
                Route(c.peer[n].allowed_ips[i], peer_from_config(c.peer[n])) # Absent
    /\ Loopback # Tun
    /\ \A table \in HostTables : \A r \in table :
          r.dev # Tun /\ r.prefix \in Nets /\ r.prefix = trunc(r.prefix)

\* Mutant of ATTEMPTS: one attempt fewer.
ATTEMPTS_two == 2

ATTEMPTS == 3       \* of delete_linux_route

VARIABLES
    config, router,
    host,           \* the host's own routes
    device,         \* the device of the tunnel is up and has its address
    kernel,         \* the routes of the host and of `ip': [prefix, dev]
    todo,           \* what setup_inner has still to add
    installed,      \* RouteManager.installed
    phase,          \* what the manager is doing
    attempt,        \* of delete_linux_route on the last installed route
    ipKills

routeVars ==
    <<config, router, host, device, kernel, todo, installed, phase, attempt, ipKills>>

\* Setting the address of a device adds a route to its network ...
connected ==
    {r \in {[prefix |-> trunc(config.interface.address), dev |-> Tun]} :
        device /\ r.prefix.len < AddressBits}

\* ... which stands in the main table beside the others.
Table == kernel \cup connected

\* The routes of a table that are the most specific for an address.
KernelRoutes(table, address) ==
    {r \in table : contains(r.prefix, address)
                   /\ \A q \in table : contains(q.prefix, address) => q.prefix.len <= r.prefix.len}

\* `ip route get': the host's own address is answered by the local table.
DevicesTo(address) ==
    IF device /\ address = config.interface.address.addr THEN {Loopback}
    ELSE {r.dev : r \in KernelRoutes(Table, address)}

\* `ip route add': refused when host bits are set or the prefix has a route.
CanAdd(prefix) == prefix = trunc(prefix) /\ \A r \in Table : r.prefix # prefix

Entry(kind, prefix) == [kind |-> kind, prefix |-> prefix]

\* A full tunnel is added as its two halves.
tun_prefixes(route) ==
    IF route.prefix.len = 0
    THEN << Prefix(UNSPECIFIED, 1), Prefix([UNSPECIFIED EXCEPT ![1] = 1], 1) >>
    ELSE << route.prefix >>

tun_entries(r) ==
    LET places == Places([i \in DOMAIN r.routes |-> tun_prefixes(r.routes[i])])
        order == Arranged(places, {p \in places \X places : Earlier(p[1], p[2])})
    IN  [k \in DOMAIN order |->
            Entry("Tun", tun_prefixes(r.routes[order[k][1]])[order[k][2]])]

\* Each excluded prefix once.
exclusion_entries(r) ==
    LET prefix(i) == r.excluded_routes[i].prefix
        order == Ascending({i \in DOMAIN r.excluded_routes :
                               \A k \in 1 .. i - 1 : prefix(k) # prefix(i)})
    IN  [k \in DOMAIN order |-> Entry("ExcludedPrefix", prefix(order[k]))]

endpoint_entries(r) ==
    LET ips == endpoint_exceptions(r)
    IN  [i \in DOMAIN ips |-> Entry("EndpointException", Prefix(ips[i], AddressBits))]

\* setup_inner
setup_order(r) ==
    exclusion_entries(r) \o endpoint_entries(r) \o tun_entries(r)

RouteInit ==
    /\ config \in Configs
    /\ router = NoRouter
    /\ host \in HostTables
    /\ device = FALSE /\ kernel = host
    /\ todo = <<>> /\ installed = <<>>
    /\ phase = "start"
    /\ attempt = 1
    /\ ipKills = 0

NewRouter ==
    /\ phase = "start"
    /\ router' = new_router(config)
    /\ router'.built
    /\ phase' = "built"
    /\ UNCHANGED <<config, host, device, kernel, todo, installed, attempt, ipKills>>

\* RouteManager::new and the call of setup
BeginSetup ==
    /\ phase = "built"
    /\ phase' = "setup"
    /\ todo' = setup_order(router)
    /\ UNCHANGED <<config, router, host, device, kernel, installed, attempt, ipKills>>

\* add_prefix_exception asks for the route of the prefix's first host,
\* add_endpoint_exception for that of the endpoint.
Probe(entry) ==
    IF entry.kind = "ExcludedPrefix" /\ entry.prefix.len < AddressBits
    THEN [network(entry.prefix) EXCEPT ![AddressBits] = 1] ELSE network(entry.prefix)

Devices(entry) ==
    IF entry.kind = "Tun" THEN {Tun}
    ELSE DevicesTo(Probe(entry))

\* add_prefix_exception, add_endpoint_exception or add_tun_route
AddRoute ==
    /\ phase = "setup"
    /\ todo # <<>>
    /\ \E dev \in Devices(Head(todo)) :
          /\ CanAdd(Head(todo).prefix)
          /\ kernel' = kernel \cup {[prefix |-> Head(todo).prefix, dev |-> dev]}
          /\ installed' = Append(installed, [kind |-> Head(todo).kind,
                                             prefix |-> Head(todo).prefix, dev |-> dev])
    /\ todo' = Tail(todo)
    /\ UNCHANGED <<config, router, host, device, phase, attempt, ipKills>>

\* A route cannot be added, or an `ip' child fails for a reason of its own:
\* setup removes the installed ones.
AddFails ==
    /\ phase = "setup"
    /\ todo # <<>>
    /\ \/ /\ Devices(Head(todo)) = {} \/ ~CanAdd(Head(todo).prefix)
          /\ UNCHANGED ipKills
       \/ ipKills < MaxIpKills /\ ipKills' = ipKills + 1
    /\ phase' = "rollback"
    /\ UNCHANGED <<config, router, host, device, kernel, todo, installed, attempt>>

SetupDone ==
    /\ phase = "setup"
    /\ todo = <<>>
    /\ phase' = "up"
    /\ UNCHANGED <<config, router, host, device, kernel, todo, installed, attempt, ipKills>>

\* The signal handler starts cleanup_routes.
BeginCleanup ==
    /\ phase = "up"
    /\ phase' = "cleanup"
    /\ UNCHANGED <<config, router, host, device, kernel, todo, installed, attempt, ipKills>>

\* cleanup_routes runs through the routes in reverse.
victim == installed[Len(installed)]

Deleting == phase \in {"rollback", "cleanup"} /\ installed # <<>>

\* Mutant of Matches: endpoint exceptions are looked for on the tunnel's device.
Matches_on_tun(r) ==
    r.prefix = victim.prefix
    /\ r.dev = IF victim.kind = "EndpointException" THEN Tun ELSE victim.dev

\* del_host_route names no device, the others do.
Matches(r) ==
    r.prefix = victim.prefix /\ (victim.kind = "EndpointException" \/ r.dev = victim.dev)

\* The routes before it, which cleanup_routes goes on to.
Remaining == SubSeq(installed, 1, Len(installed) - 1)

\* `ip route del', and what the manager does when it has seen the result.
DeleteRoute ==
    /\ Deleting
    /\ kernel' = {r \in kernel : ~Matches(r)}
    /\ installed' = Remaining
    /\ attempt' = 1
    /\ UNCHANGED <<config, router, host, device, todo, phase, ipKills>>

GivesUp == attempt = ATTEMPTS

\* The deletion has failed and the check has found the route, or failed too.
Retry ==
    /\ installed' = IF GivesUp THEN Remaining ELSE installed
    /\ attempt' = IF GivesUp THEN 1 ELSE attempt + 1

\* The child is killed: before it deletes, so that the check finds the route ...
KilledBefore ==
    /\ Deleting
    /\ ipKills < MaxIpKills
    /\ ipKills' = ipKills + 1
    /\ \E r \in kernel : Matches(r)
    /\ Retry
    /\ UNCHANGED <<config, router, host, device, kernel, todo, phase>>

\* ... or after, when the check finds the route gone, if it is not killed too.
KilledAfter ==
    /\ Deleting
    /\ ipKills < MaxIpKills
    /\ kernel' = {r \in kernel : ~Matches(r)}
    /\ \/ /\ ipKills' = ipKills + 1
          /\ installed' = Remaining
          /\ attempt' = 1
       \/ /\ ipKills + 1 < MaxIpKills
          /\ ipKills' = ipKills + 2
          /\ Retry
    /\ UNCHANGED <<config, router, host, device, todo, phase>>

CleanupDone ==
    /\ phase \in {"rollback", "cleanup"}
    /\ installed = <<>>
    /\ phase' = IF phase = "rollback" THEN "failed" ELSE "down"
    /\ UNCHANGED <<config, router, host, device, kernel, todo, installed, attempt, ipKills>>

----------------------------------------------------------------------------
\* The network of the tunnel's device.
OwnNetwork(address) == contains(config.interface.address, address)

\* No endpoint is in that network, and no exclusion is probed there.
OffDevice ==
    /\ \A i \in DOMAIN router.routes :
          LET endpoint == router.routes[i].peer.endpoint
          IN  UsableV4(endpoint) => ~OwnNetwork(endpoint.ip)
    /\ \A i \in DOMAIN router.excluded_routes :
          ~OwnNetwork(Probe(Entry("ExcludedPrefix", router.excluded_routes[i].prefix)))

\* "the encrypted transport cannot loop back into itself": at no time during
\* setup, rollback, operation or cleanup does the host route the endpoint of a
\* peer into the tunnel.  Nothing protects an endpoint in the network of the
\* device itself: its exception would be added on the device.
NoLoop ==
    OffDevice =>
        \A i \in DOMAIN router.routes :
            LET endpoint == router.routes[i].peer.endpoint
            IN  UsableV4(endpoint) => Tun \notin DevicesTo(endpoint.ip)

\* What the host routes into a tunnel that is up, the router knows a peer for,
\* except in the network of the device: there it also gets what is nobody's,
\* and lookup drops it.
TunnelledIsRouted ==
    phase = "up" /\ OffDevice =>
        \A address \in Address :
            DevicesTo(address) = {Tun} =>
                lookup(router, address) # Absent \/ OwnNetwork(address)

\* What the router knows a peer for, the host routes into the tunnel, except
\* the endpoints, its own address, and where another peer's exclusion or the
\* host's own table has a route that is more specific than the peer's.
RoutedIsTunnelled ==
    phase = "up" /\ OffDevice =>
        \A address \in Address :
            LET found == lookup(router, address)
                MoreSpecific(prefix) ==
                    contains(prefix, address) /\ prefix.len > found.prefix.len
            IN  \/ found = Absent
                \/ DevicesTo(address) = {Tun}
                \/ address = config.interface.address.addr
                \/ \E i \in DOMAIN router.routes :
                      LET endpoint == router.routes[i].peer.endpoint
                      IN  UsableV4(endpoint) /\ endpoint.ip = address
                \/ \E i \in DOMAIN router.excluded_routes :
                      /\ MoreSpecific(router.excluded_routes[i].prefix)
                      /\ router.excluded_routes[i].peer # found.peer
                \/ \E r \in host : MoreSpecific(r.prefix)

\* lookup takes the longest admissible prefix, whatever the order in the file:
\* no route that admits the destination is longer.
LookupIsLongest ==
    \A address \in Address :
        LET found == lookup(router, address)
            admitting == {i \in DOMAIN router.routes : admits(router.routes[i], address)}
        IN  IF found = Absent THEN admitting = {}
            ELSE \A i \in admitting : router.routes[i].prefix.len <= found.prefix.len

\* Host and router agree on what goes into the tunnel, and on the peer it is for.
RoutesConsistent == TunnelledIsRouted /\ RoutedIsTunnelled /\ LookupIsLongest

\* The host's own routes are never deleted or changed, not even by a process
\* that finds what a failed or killed one has left.
HostRoutesKept == host \subseteq kernel
=============================================================================
