------------------------------- MODULE Daemon -------------------------------
(***************************************************************************)
(* The life of `hushwire up' under systemd (src/src/tunnel.rs run and      *)
(* Cleanup, src/src/firewall.rs, src/systemd/): the configuration, device, *)
(* transport, routes, the firewall of an exit node, the signal handlers,   *)
(* the cleanup on a signal, and the restart.  The routes are those of      *)
(* RouteManager.  When the process ends its device goes, and the routes on *)
(* it; nothing else does.                                                  *)
(***************************************************************************)
EXTENDS RouteManager

CONSTANTS
    ExitNodes,      \* the configurations started with --exit-node
    Disturbed,      \* those with which failures, kills, restarts and early
                    \* signals are tried
    Rules,          \* the iptables rules of the exit node, in order
    MaxStarts,      \* bound on the starts by systemd
    MaxFailures,    \* bound on the system calls and commands that fail
    MaxSignals,     \* bound on the signals sent once the handlers are registered
    MaxEarly,       \* bound on those sent before
    MaxKills        \* bound on the SIGKILLs

ASSUME DaemonAssumption ==
    /\ {MaxStarts, MaxFailures, MaxSignals, MaxEarly, MaxKills} \subseteq Nat
    /\ Rules \in Seq({Rules[i] : i \in DOMAIN Rules})
    /\ \A i, k \in DOMAIN Rules : Rules[i] = Rules[k] => i = k

VARIABLES
    stage,          \* how far `run' or the signal handler has come
    iptables,       \* the rules of the kernel, each with the times it was added
    ip_forward,
    original_ip_forward,
    rules,          \* FirewallManager.rules
    signal,         \* the one being handled
    exit_code,      \* of the last process
    starts, failures, signals, early, kills

firewallVars == <<iptables, ip_forward, original_ip_forward, rules>>
bounds == <<starts, failures, signals, early, kills>>
daemonVars == <<routeVars, firewallVars, stage, signal, exit_code, bounds>>

NoRules == [r \in {Rules[i] : i \in DOMAIN Rules} |-> 0]

DaemonInit ==
    /\ RouteInit
    /\ stage = "config"
    /\ iptables = NoRules
    /\ ip_forward = 0 /\ original_ip_forward = Absent
    /\ rules = <<>>
    /\ signal = "none" /\ exit_code = Absent
    /\ starts = 1 /\ failures = 0 /\ signals = 0 /\ early = 0 /\ kills = 0

\* The process ends: its device and what it knew are gone.
Ends(code) ==
    /\ stage' = "exited"
    /\ exit_code' = code
    /\ device' = FALSE /\ kernel' = {r \in kernel : r.dev # Tun}
    /\ router' = NoRouter /\ phase' = "start"
    /\ installed' = <<>> /\ todo' = <<>> /\ attempt' = 1
    /\ rules' = <<>> /\ original_ip_forward' = Absent
    /\ signal' = "none"
    /\ UNCHANGED <<config, host, ipKills, iptables, ip_forward>>

MayFail ==
    /\ config \in Disturbed
    /\ failures < MaxFailures
    /\ failures' = failures + 1

Goes(from, to) == stage = from /\ stage' = to

\* Config::load; an invalid file ends the process.
LoadConfig ==
    /\ stage = "config"
    /\ \/ /\ validate(config) = "ok"
          /\ stage' = "router"
          /\ UNCHANGED <<routeVars, firewallVars, signal, exit_code>>
       \/ validate(config) # "ok" /\ Ends(1)
    /\ UNCHANGED bounds

\* Router::new
BuildRouter ==
    /\ stage = "router"
    /\ \/ /\ NewRouter
          /\ stage' = "create_tun"
          /\ UNCHANGED <<firewallVars, signal, exit_code>>
       \/ ~new_router(config).built /\ Ends(1)
    /\ UNCHANGED bounds

\* create_tun: the device gets its address and is up.
CreateTun ==
    /\ Goes("create_tun", "bind")
    /\ device' = TRUE
    /\ UNCHANGED <<config, router, host, kernel, todo, installed, phase, attempt, ipKills>>
    /\ UNCHANGED <<firewallVars, signal, exit_code, bounds>>

\* transport::bind; the routes are next.
Bind ==
    /\ Goes("bind", "routes")
    /\ BeginSetup
    /\ UNCHANGED <<firewallVars, signal, exit_code, bounds>>

CreateFails ==
    /\ stage \in {"create_tun", "bind"}
    /\ MayFail
    /\ Ends(1)
    /\ UNCHANGED <<starts, signals, early, kills>>

\* route_manager.setup
SetUpRoutes ==
    /\ stage = "routes"
    /\ AddRoute \/ AddFails \/ (phase = "rollback" /\ (DeleteRoute \/ CleanupDone))
    /\ UNCHANGED <<firewallVars, stage, signal, exit_code, bounds>>

RoutesUp ==
    /\ Goes("routes", IF config \in ExitNodes THEN "forward" ELSE "register")
    /\ SetupDone
    /\ UNCHANGED <<firewallVars, signal, exit_code, bounds>>

RoutesFailed ==
    /\ stage = "routes" /\ phase = "failed"
    /\ Ends(1)
    /\ UNCHANGED bounds

\* Mutant of enable_ip_forward: nothing is written when the value is unreadable.
enable_ip_forward_known ==
    /\ Goes("forward", "rules")
    /\ \/ original_ip_forward' = ip_forward /\ ip_forward' = 1 /\ UNCHANGED failures
       \/ original_ip_forward' = Absent /\ MayFail /\ UNCHANGED ip_forward
    /\ UNCHANGED <<routeVars, iptables, rules, signal, exit_code, starts, signals, early, kills>>

\* enable_ip_forward; the value before is not known when it cannot be read.
enable_ip_forward ==
    /\ Goes("forward", "rules")
    /\ \/ original_ip_forward' = ip_forward /\ UNCHANGED failures
       \/ original_ip_forward' = Absent /\ MayFail
    /\ ip_forward' = 1
    /\ UNCHANGED <<routeVars, iptables, rules, signal, exit_code, starts, signals, early, kills>>

\* `iptables -A'
add_iptables_rule ==
    /\ stage = "rules"
    /\ Len(rules) < Len(Rules)
    /\ LET rule == Rules[Len(rules) + 1]
       IN  /\ iptables' = [iptables EXCEPT ![rule] = @ + 1]
           /\ rules' = Append(rules, rule)
    /\ UNCHANGED <<routeVars, stage, ip_forward, original_ip_forward, signal, exit_code, bounds>>

FirewallUp ==
    /\ Goes("rules", "register")
    /\ Len(rules) = Len(Rules)
    /\ UNCHANGED <<routeVars, firewallVars, signal, exit_code, bounds>>

\* A command of FirewallManager::setup fails; `run' returns, and no cleanup
\* has been built yet.
FirewallFails ==
    /\ \/ stage = "forward" /\ ip_forward # 1
       \/ stage = "rules" /\ Len(rules) < Len(Rules)
    /\ MayFail
    /\ Ends(1)
    /\ UNCHANGED <<starts, signals, early, kills>>

\* normalize_shutdown_signal_state and Signals::new
Register ==
    /\ Goes("register", "clone")
    /\ UNCHANGED <<routeVars, firewallVars, signal, exit_code, bounds>>

\* The transport is cloned for the threads, and they are started.
StartThreads ==
    /\ Goes("clone", "run")
    /\ UNCHANGED <<routeVars, firewallVars, signal, exit_code, bounds>>

\* Either fails, and `run' returns without a cleanup.
StartFails ==
    /\ stage \in {"register", "clone"}
    /\ MayFail
    /\ Ends(1)
    /\ UNCHANGED <<starts, signals, early, kills>>

\* A signal before the handlers are registered ends the process.
EarlySignal ==
    /\ config \in Disturbed
    /\ stage \in {"config", "router", "create_tun", "bind", "routes", "forward", "rules",
                  "register"}
    /\ early < MaxEarly
    /\ early' = early + 1
    /\ Ends(0)
    /\ UNCHANGED <<starts, failures, signals, kills>>

\* SIGKILL, or the end of the cgroup when a stop takes too long
Kill ==
    /\ config \in Disturbed
    /\ stage # "exited"
    /\ kills < MaxKills
    /\ kills' = kills + 1
    /\ Ends(1)
    /\ UNCHANGED <<starts, failures, signals, early>>

\* The handler takes the routes; further signals wait behind this one.
Signal ==
    /\ Goes("clone", "unroute") \/ Goes("run", "unroute")
    /\ signals < MaxSignals
    /\ signals' = signals + 1
    /\ BeginCleanup
    /\ \E s \in {"SIGTERM", "SIGHUP"} : signal' = s
    /\ UNCHANGED <<firewallVars, exit_code, starts, failures, early, kills>>

\* cleanup_routes
Unroute ==
    /\ stage = "unroute"
    /\ DeleteRoute \/ KilledBefore \/ KilledAfter
    /\ UNCHANGED <<firewallVars, stage, signal, exit_code, bounds>>

Unrouted ==
    /\ Goes("unroute", "unfilter")
    /\ CleanupDone
    /\ UNCHANGED <<firewallVars, signal, exit_code, bounds>>

\* FirewallManager::cleanup, in the order of the rules; a failed deletion is
\* logged and the next one tried.
del_iptables_rule ==
    /\ stage = "unfilter"
    /\ rules # <<>>
    /\ rules' = Tail(rules)
    /\ \/ iptables' = [iptables EXCEPT ![Head(rules)] = IF @ > 0 THEN @ - 1 ELSE 0]
          /\ UNCHANGED failures
       \/ MayFail /\ UNCHANGED iptables
    /\ UNCHANGED <<routeVars, ip_forward, original_ip_forward, stage, signal, exit_code,
                   starts, signals, early, kills>>

RestoreForward ==
    /\ Goes("unfilter", "exit")
    /\ rules = <<>>
    /\ \/ original_ip_forward # Absent /\ ip_forward' = original_ip_forward /\ UNCHANGED failures
       \/ original_ip_forward = Absent /\ UNCHANGED <<ip_forward, failures>>
       \/ original_ip_forward # Absent /\ MayFail /\ UNCHANGED ip_forward
    /\ UNCHANGED <<routeVars, iptables, original_ip_forward, rules, signal, exit_code,
                   starts, signals, early, kills>>

\* SIGHUP asks systemd for another start.
Exit ==
    /\ stage = "exit"
    /\ Ends(IF signal = "SIGHUP" THEN 1 ELSE 0)
    /\ UNCHANGED bounds

\* Restart=on-failure
Restart ==
    /\ Goes("exited", "config")
    /\ config \in Disturbed
    /\ exit_code = 1
    /\ starts < MaxStarts
    /\ starts' = starts + 1
    /\ UNCHANGED <<routeVars, firewallVars, signal, exit_code, failures, signals, early, kills>>

Progress ==
    \/ LoadConfig \/ BuildRouter \/ CreateTun \/ Bind \/ SetUpRoutes \/ RoutesUp \/ RoutesFailed
    \/ enable_ip_forward \/ add_iptables_rule \/ FirewallUp \/ Register \/ StartThreads
    \/ Unroute \/ Unrouted \/ del_iptables_rule \/ RestoreForward \/ Exit \/ Restart

DaemonNext ==
    Progress \/ CreateFails \/ FirewallFails \/ StartFails \/ EarlySignal \/ Kill \/ Signal

\* A started process runs on, and systemd starts a failed one again.
DaemonSpec == DaemonInit /\ [][DaemonNext]_daemonVars /\ WF_daemonVars(Progress)

----------------------------------------------------------------------------
Undisturbed == failures = 0 /\ early = 0 /\ kills = 0

\* "All firewall rules and the original ip_forward value are removed when the
\* daemon shuts down", and "routes [...] are removed on shutdown": when the
\* cleanup or the rollback of a failed setup is over, and when no process is
\* left, the host is as it was before the first, even when two `ip' children
\* were killed.  A failure of the firewall, an early signal or a SIGKILL leaves
\* routes and rules behind, but never takes a route of the host.
ExitsClean ==
    /\ HostRoutesKept
    /\ (Undisturbed /\ (stage \in {"exit", "exited"} \/ phase = "failed"))
           => kernel = host /\ iptables = NoRules /\ ip_forward = 0

\* While the handlers are in place the cleanup knows every route and rule this
\* process has added: no path to a running daemon forgets one.
CleanupKnowsAll ==
    stage \in {"clone", "run"} =>
        /\ \A r \in kernel : r.dev = Tun => \E i \in DOMAIN installed :
               installed[i].prefix = r.prefix /\ installed[i].dev = Tun
        /\ config \in ExitNodes => {rules[i] : i \in DOMAIN rules} = DOMAIN NoRules

\* A running exit node forwards, also after failed and killed processes have
\* left rules and routes behind: forwarding is on and every rule is in place.
ExitNodeForwards ==
    stage = "run" /\ config \in ExitNodes =>
        ip_forward = 1 /\ \A r \in DOMAIN iptables : iptables[r] > 0

\* A running daemon is whole: it works, and it will leave nothing behind.
RunningIsWhole == ExitNodeForwards /\ CleanupKnowsAll

\* A SIGHUP restarts the daemon: the next process gets to the point where it
\* serves signals and packets again, as nothing of the last is in its way,
\* unless it fails, or is killed, itself.
ComesBack ==
    \A k \in 0 .. MaxIpKills :
        (stage = "exit" /\ signal = "SIGHUP" /\ starts < MaxStarts /\ Undisturbed
             /\ config \in Disturbed /\ ipKills = k)
            ~> stage \in {"clone", "run"} \/ ~Undisturbed \/ ipKills > k

----------------------------------------------------------------------------
\* What the parts that use a configuration rely on once it has been accepted.
Accepted == stage \notin {"config", "exited"}

\* Every session that the scheduler may give up is probed before: a peer with a
\* recovery timeout has keepalives, and more often than the timeout.  The
\* default timeout of TCP peers must respect this as well as a configured one.
ProbedBeforeTimeout ==
    Accepted =>
        \A n \in DOMAIN config.peer :
            LET peer == config.peer[n]
                timeout == recovery_timeout(peer, config.interface.transport)
            IN  timeout > 0 => /\ peer.persistent_keepalive > 0
                               /\ peer.persistent_keepalive < timeout

\* The gateway accepts the MSS of every valid configuration, at both ends of
\* the range too: the smallest MTU leaves exactly the smallest MSS.
PlanFeasible == Accepted /\ config.gateway # Absent => plan_mss(config) # Absent

\* Every exclusion of a valid configuration takes addresses away from the peer:
\* without it some allowed prefix would carry them, and none is the whole
\* address space.
ExclusionsInForce ==
    Accepted =>
        \A n \in DOMAIN config.peer :
            LET peer == config.peer[n]
            IN  \A k \in DOMAIN peer.excluded_ips :
                    LET Excluded == {a \in Address : contains(peer.excluded_ips[k], a)}
                    IN  /\ Excluded # Address
                        /\ \A a \in Excluded : \E i \in DOMAIN peer.allowed_ips :
                               contains(peer.allowed_ips[i], a)

\* What validate accepts the scheduler and the gateway can use, and its
\* exclusions exclude.  (A prefix that two peers allow is left to Router::new.)
ValidIsUsable == ProbedBeforeTimeout /\ PlanFeasible /\ ExclusionsInForce
=============================================================================
