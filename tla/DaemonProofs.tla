---------------------------- MODULE DaemonProofs ----------------------------
(***************************************************************************)
(* Proofs about Daemon.  DaemonInv says what each stage of `run' and of    *)
(* the signal handler has left in the kernel: that the process knows every *)
(* route on its device and every rule it has added, at every stage from    *)
(* which the handler may be entered, and that nothing else is there as     *)
(* long as nothing has failed.  RouteInv says that the installed routes    *)
(* are the first of what the router plans, exceptions before the tunnel's  *)
(* own, so that no endpoint and no exclusion is ever without its exception *)
(* while a route of the tunnel would capture it.                           *)
(***************************************************************************)
EXTENDS Daemon, SequenceTheorems, FiniteSetTheorems, TLAPS

\* A finite sequence, of whatever elements.
IsSeq(s) == s \in Seq(Range(s))

----------------------------------------------------------------------------
\* The counters are numbers, the bookkeeping of the process is a list.
Typed ==
    /\ IsSeq(installed) /\ IsSeq(rules)
    /\ iptables \in [Range(Rules) -> Nat]
    /\ {ipKills, attempt, failures, early, kills} \subseteq Nat
    /\ ipKills <= MaxIpKills

Before == {"config", "router", "exited"}
Creating == {"create_tun", "bind"}
Serving == {"register", "clone", "run"}
Down == {"unfilter", "exit"}

\* What the route manager is doing at each stage of the daemon.
Stages ==
    \/ stage \in Before /\ phase = "start"
    \/ stage \in Creating /\ phase = "built"
    \/ stage = "routes" /\ phase \in {"setup", "rollback", "failed"}
    \/ stage \in {"forward", "rules"} \cup Serving /\ phase = "up"
    \/ stage = "unroute" /\ phase = "cleanup"
    \/ stage \in Down /\ phase = "down"

\* No route is known before the setup and after the cleanup.
NoneKnown ==
    (stage \in Before \cup Creating \/ phase \in {"failed", "down"}) => installed = <<>>

\* No installed route shares its prefix with a route of the host, so that no
\* deletion can hit one.
HostApart ==
    /\ host \subseteq kernel
    /\ \A r \in host : r.dev # Tun
    /\ \A i \in DOMAIN installed : \A r \in host : r.prefix # installed[i].prefix

\* Until the cleanup every route on the device is known to the process.
TunKnown ==
    stage \notin {"unroute"} \cup Down =>
        \A r \in kernel : r.dev = Tun => \E i \in DOMAIN installed :
            installed[i].prefix = r.prefix /\ installed[i].dev = Tun

\* The rules known to the process are the first of the list, in its order.
FirstRules ==
    stage \notin Down =>
        /\ Len(rules) <= Len(Rules)
        /\ \A i \in DOMAIN rules : rules[i] = Rules[i]

\* They are those it has added: none before the firewall is set up or without
\* --exit-node, all once it is.
RulesAdded ==
    /\ Range(rules) \subseteq Range(Rules)
    /\ \A i, k \in DOMAIN rules : rules[i] = rules[k] => i = k
    /\ stage \in Before \cup Creating \cup {"routes", "forward", "exit"} => rules = <<>>
    /\ stage \in {"forward", "rules"} => config \in ExitNodes
    /\ config \notin ExitNodes => rules = <<>>
    /\ stage \in Serving /\ config \in ExitNodes => Len(rules) = Len(Rules)

\* They are in place, and forwarding is on.
Forwarding ==
    /\ stage \in {"rules"} \cup Serving => \A i \in DOMAIN rules : iptables[rules[i]] > 0
    /\ stage \in {"rules"} \cup Serving /\ config \in ExitNodes => ip_forward = 1

\* Nothing has failed, and every route gets its last attempt.
Quiet == Undisturbed /\ ipKills < ATTEMPTS

\* Then the kernel has the routes and rules the process knows, each once, and
\* forwarding is off or its original value is remembered.
OnlyKnown ==
    /\ attempt <= ipKills + 1
    /\ \A r \in kernel \ host : \E i \in DOMAIN installed :
           installed[i].prefix = r.prefix /\ installed[i].dev = r.dev
    /\ \A r \in Range(Rules) : iptables[r] = IF r \in Range(rules) THEN 1 ELSE 0
    /\ config \notin ExitNodes => original_ip_forward = Absent
    /\ IF stage \in {"rules", "unroute", "unfilter"} \cup Serving /\ config \in ExitNodes
       THEN original_ip_forward = 0 ELSE ip_forward = 0

DaemonInv ==
    /\ Typed /\ Stages /\ NoneKnown
    /\ HostApart /\ TunKnown
    /\ FirstRules /\ RulesAdded /\ Forwarding
    /\ Quiet => OnlyKnown

----------------------------------------------------------------------------
\* The empty list.
LEMMA EmptyList == IsSeq(<<>>) /\ DOMAIN <<>> = {} /\ Range(<<>>) = {}
    BY DEF IsSeq, Range

\* The indices of a list.
LEMMA ListFacts ==
    ASSUME NEW s, IsSeq(s)
    PROVE  /\ Len(s) \in Nat /\ DOMAIN s = 1 .. Len(s)
           /\ s # <<>> => Len(s) > 0
    BY LenProperties, EmptySeq DEF IsSeq

\* A sequence of elements of any set is a list.
LEMMA SequenceIsList ==
    ASSUME NEW S, NEW s \in Seq(S)
    PROVE  IsSeq(s)
<1>1. Len(s) \in Nat /\ s \in [1 .. Len(s) -> S] /\ DOMAIN s = 1 .. Len(s)
    BY LenProperties
<1>2. s \in [1 .. Len(s) -> Range(s)]
    BY <1>1 DEF Range
<1> QED BY <1>1, <1>2, SeqDef DEF IsSeq

\* What add_tun_route and add_iptables_rule push at the end.
LEMMA AppendFacts ==
    ASSUME NEW s, IsSeq(s), NEW e
    PROVE  /\ IsSeq(Append(s, e))
           /\ Len(Append(s, e)) = Len(s) + 1
           /\ DOMAIN Append(s, e) = 1 .. Len(s) + 1
           /\ \A i \in DOMAIN s : Append(s, e)[i] = s[i]
           /\ Append(s, e)[Len(s) + 1] = e
<1>0. DOMAIN s = 1 .. Len(s)
    BY ListFacts
<1>1. s \in Seq(Range(s) \cup {e})
    BY SeqMonotonic DEF IsSeq
<1>2. /\ Append(s, e) \in Seq(Range(s) \cup {e})
      /\ Len(Append(s, e)) = Len(s) + 1
      /\ \A i \in 1 .. Len(s) : Append(s, e)[i] = s[i]
      /\ Append(s, e)[Len(s) + 1] = e
    BY <1>1, AppendProperties
<1>3. IsSeq(Append(s, e)) /\ DOMAIN Append(s, e) = 1 .. Len(s) + 1
    BY <1>2, SequenceIsList, LenProperties
<1> QED BY <1>0, <1>2, <1>3

\* What cleanup_routes goes on to.
LEMMA FrontFacts ==
    ASSUME NEW s, IsSeq(s), s # <<>>,
           NEW t, t = SubSeq(s, 1, Len(s) - 1)
    PROVE  /\ IsSeq(t)
           /\ DOMAIN t = 1 .. Len(s) - 1
           /\ \A i \in DOMAIN t : t[i] = s[i]
<1>1. Len(s) \in Nat /\ Len(s) > 0 /\ DOMAIN s = 1 .. Len(s)
    BY ListFacts
<1> PICK m \in Nat : m = Len(s)
    BY <1>1
<1> PICK n : n = m - 1
    OBVIOUS
<1>0. 1 \in Int /\ n \in Int /\ n \in Nat /\ n <= m
    BY <1>1
<1>2. \A i \in 1 .. n : s[i] \in Range(s)
    <2>1. \A i \in 1 .. n : i \in DOMAIN s
        BY <1>0, <1>1
    <2> QED BY <2>1 DEF Range
<1>3. /\ t \in Seq(Range(s))
      /\ Len(t) = IF 1 <= n THEN n - 1 + 1 ELSE 0
      /\ \A i \in 1 .. n - 1 + 1 : t[i] = s[1 + i - 1]
    <2>1. t = SubSeq(s, 1, n)
        OBVIOUS
    <2>2. PICK one : one = 1
        OBVIOUS
    <2>3. one \in Int /\ n \in Int /\ \A i \in one .. n : s[i] \in Range(s)
        BY <1>0, <1>2, <2>2
    <2>4. /\ SubSeq(s, one, n) \in Seq(Range(s))
          /\ Len(SubSeq(s, one, n)) = IF one <= n THEN n - one + 1 ELSE 0
          /\ \A i \in 1 .. n - one + 1 : SubSeq(s, one, n)[i] = s[one + i - 1]
        BY <2>3, SubSeqProperties, SMTT(20)
    <2> QED BY <2>1, <2>2, <2>4
<1>4. Len(t) = n /\ \A i \in 1 .. n : t[i] = s[i]
    BY <1>0, <1>3
<1>5. IsSeq(t) /\ DOMAIN t = 1 .. n
    BY <1>3, <1>4, SequenceIsList, LenProperties
<1> QED BY <1>4, <1>5

\* What FirewallManager::cleanup goes on to.
LEMMA TailFacts ==
    ASSUME NEW s, IsSeq(s), s # <<>>,
           NEW t, t = Tail(s)
    PROVE  /\ IsSeq(t)
           /\ DOMAIN t = 1 .. Len(s) - 1
           /\ \A i \in DOMAIN t : t[i] = s[i + 1]
           /\ Head(s) = s[1]
<1>1. /\ t \in Seq(Range(s)) /\ Len(t) = Len(s) - 1
      /\ \A i \in 1 .. Len(t) : t[i] = s[i + 1]
    BY HeadTailProperties DEF IsSeq
<1>2. IsSeq(t) /\ DOMAIN t = 1 .. Len(s) - 1
    BY <1>1, SequenceIsList, LenProperties
<1>3. Head(s) = s[1]
    BY DEF IsSeq
<1> QED BY <1>1, <1>2, <1>3

\* The rules are a list, and NoRules is about all of them.
LEMMA RulesFacts ==
    /\ IsSeq(Rules)
    /\ NoRules = [r \in Range(Rules) |-> 0]
    /\ \A i, k \in DOMAIN Rules : Rules[i] = Rules[k] => i = k
    BY DaemonAssumption DEF IsSeq, NoRules, Range

----------------------------------------------------------------------------
\* The process ends: its device takes the routes on it along.  A quiet end is
\* one after which the kernel has nothing but what the host had.
LEMMA EndsKeeps ==
    ASSUME DaemonInv, NEW code, Ends(code),
           {failures', early', kills'} \subseteq Nat,
           Quiet' => Quiet /\ installed = <<>> /\ rules = <<>> /\ ip_forward = 0
    PROVE  DaemonInv'
<1>1. /\ stage' = "exited" /\ phase' = "start"
      /\ installed' = <<>> /\ rules' = <<>> /\ attempt' = 1
      /\ kernel' = {r \in kernel : r.dev # Tun}
      /\ original_ip_forward' = Absent
      /\ UNCHANGED <<config, host, ipKills, iptables, ip_forward>>
    BY DEF Ends
<1>2. /\ IsSeq(installed') /\ IsSeq(rules')
      /\ DOMAIN installed' = {} /\ DOMAIN rules' = {} /\ Range(rules') = {}
    BY <1>1, EmptyList
<1>3. Typed' /\ Stages' /\ NoneKnown'
    BY <1>1, <1>2 DEF DaemonInv, Typed, Stages, NoneKnown, Before, Creating, Down, Serving
<1>4. HostApart'
    BY <1>1, <1>2 DEF DaemonInv, HostApart
<1>5. TunKnown'
    BY <1>1 DEF TunKnown
<1>6. FirstRules' /\ RulesAdded' /\ Forwarding'
    <2>1. Len(<<>>) = 0 /\ Len(Rules) \in Nat
        BY RulesFacts, ListFacts
    <2> QED BY <1>1, <1>2, <2>1 DEF FirstRules, RulesAdded, Forwarding, Serving, Down
<1>7. Quiet' => OnlyKnown'
    <2> SUFFICES ASSUME Quiet' PROVE OnlyKnown'
        OBVIOUS
    <2>1. OnlyKnown /\ installed = <<>> /\ rules = <<>> /\ ip_forward = 0
        BY DEF DaemonInv
    <2>2. attempt' <= ipKills' + 1
        BY <1>1 DEF DaemonInv, Typed
    <2>3. kernel' \ host' = {}
        BY <1>1, <2>1, EmptyList DEF OnlyKnown
    <2> QED BY <1>1, <2>1, <2>2, <2>3 DEF OnlyKnown, Serving
<1> QED BY <1>3, <1>4, <1>5, <1>6, <1>7 DEF DaemonInv

\* A step that fails, a signal that comes early and a kill count, so that what
\* follows is not quiet.
LEMMA CountedEndsKeep ==
    ASSUME DaemonInv, NEW code, Ends(code),
           \/ MayFail /\ UNCHANGED <<early, kills>>
           \/ early' = early + 1 /\ UNCHANGED <<failures, kills>>
           \/ kills' = kills + 1 /\ UNCHANGED <<failures, early>>
    PROVE  DaemonInv'
<1>1. failures \in Nat /\ early \in Nat /\ kills \in Nat
    BY DEF DaemonInv, Typed
<1>2. /\ failures' \in Nat /\ early' \in Nat /\ kills' \in Nat
      /\ ~(failures' = 0 /\ early' = 0 /\ kills' = 0)
    BY <1>1 DEF MayFail
<1>3. ~Quiet'
    BY <1>2 DEF Quiet, Undisturbed
<1> QED BY <1>2, <1>3, EndsKeeps

\* The counters only grow: what is quiet after a step was quiet before it.
LEMMA QuietBefore ==
    ASSUME DaemonInv,
           \/ UNCHANGED <<failures, early, kills>>
           \/ MayFail /\ UNCHANGED <<early, kills>>,
           ipKills' \in Nat /\ ipKills <= ipKills'
    PROVE  /\ failures' \in Nat /\ early' \in Nat /\ kills' \in Nat
           /\ Quiet' => Quiet /\ UNCHANGED failures
<1>1. failures \in Nat /\ early \in Nat /\ kills \in Nat /\ ipKills \in Nat
    BY DEF DaemonInv, Typed
<1> QED BY <1>1 DEF MayFail, Quiet, Undisturbed, ATTEMPTS

----------------------------------------------------------------------------
\* A step of `run' that touches neither the routes nor the firewall, though an
\* `ip' child may have failed in it.
LEMMA MovesKeep ==
    ASSUME DaemonInv,
           \/ Goes("config", "router") /\ UNCHANGED phase
           \/ Goes("router", "create_tun") /\ phase' = "built"
           \/ Goes("create_tun", "bind") /\ UNCHANGED phase
           \/ Goes("bind", "routes") /\ phase' = "setup"
           \/ Goes("rules", "register") /\ UNCHANGED phase /\ Len(rules) = Len(Rules)
           \/ Goes("register", "clone") /\ UNCHANGED phase
           \/ Goes("clone", "run") /\ UNCHANGED phase
           \/ Goes("exited", "config") /\ UNCHANGED phase
           \/ /\ stage = "routes" /\ phase = "setup" /\ phase' = "up"
              /\ stage' = IF config \in ExitNodes THEN "forward" ELSE "register"
           \/ Goes("routes", "routes") /\ phase = "setup" /\ phase' = "rollback"
           \/ Goes("clone", "unroute") /\ phase = "up" /\ phase' = "cleanup"
           \/ Goes("run", "unroute") /\ phase = "up" /\ phase' = "cleanup"
           \/ UNCHANGED stage /\ phase = "rollback" /\ phase' = "failed" /\ installed = <<>>
           \/ Goes("unroute", "unfilter") /\ phase' = "down" /\ installed = <<>>
           \/ UNCHANGED <<stage, phase>>,
           ipKills' = ipKills \/ (ipKills < MaxIpKills /\ ipKills' = ipKills + 1),
           UNCHANGED <<config, host, kernel, installed, attempt, firewallVars,
                       failures, early, kills>>
    PROVE  DaemonInv'
<1>0. UNCHANGED <<config, host, kernel, installed, attempt, iptables, ip_forward,
                  original_ip_forward, rules, failures, early, kills>>
    BY DEF firewallVars
<1>1. Typed'
    <2>1. ipKills' \in Nat /\ ipKills' <= MaxIpKills
        BY RouteAssumption DEF DaemonInv, Typed
    <2> QED BY <1>0, <2>1 DEF DaemonInv, Typed
<1>2. Stages' /\ NoneKnown'
    BY <1>0 DEF DaemonInv, Goes, Stages, NoneKnown, Before, Creating, Serving, Down
<1>3. HostApart'
    BY <1>0 DEF DaemonInv, HostApart
<1>4. TunKnown'
    BY <1>0 DEF DaemonInv, Goes, Stages, TunKnown, Before, Creating, Serving, Down
<1>5. FirstRules' /\ RulesAdded' /\ Forwarding'
    BY <1>0 DEF DaemonInv, Goes, Stages, FirstRules, RulesAdded, Forwarding, Before, Creating,
                Serving, Down
<1>6. Quiet' => OnlyKnown'
    <2>0. ipKills \in Nat /\ attempt \in Nat
        BY DEF DaemonInv, Typed
    <2>1. Quiet' => Quiet
        BY <1>0, <2>0 DEF Quiet, Undisturbed, ATTEMPTS
    <2>2. Quiet => OnlyKnown
        BY DEF DaemonInv
    <2>3. Quiet => OnlyKnown'
        BY <1>0, <2>0, <2>2 DEF DaemonInv, Goes, Stages, RulesAdded, OnlyKnown, Before, Creating,
                Serving, Down
    <2> QED BY <2>1, <2>3
<1> QED BY <1>1, <1>2, <1>3, <1>4, <1>5, <1>6 DEF DaemonInv

\* Everything but the routes is left alone.
RestKept ==
    UNCHANGED <<config, host, stage, phase, iptables, ip_forward, original_ip_forward,
                rules, failures, early, kills>>

\* A step of the route manager that leaves the rest alone needs to be looked at
\* only for the routes.
LEMMA RouteStepsKeep ==
    ASSUME DaemonInv, RestKept,
           IsSeq(installed'), attempt' \in Nat, ipKills' \in Nat,
           ipKills <= ipKills', ipKills' <= MaxIpKills,
           NoneKnown', HostApart', TunKnown',
           Quiet /\ Quiet' =>
               /\ attempt' <= ipKills' + 1
               /\ \A r \in kernel' \ host' : \E i \in DOMAIN installed' :
                      installed'[i].prefix = r.prefix /\ installed'[i].dev = r.dev
    PROVE  DaemonInv'
<1>1. Typed' /\ Stages'
    BY DEF DaemonInv, RestKept, Typed, Stages
<1>2. FirstRules' /\ RulesAdded' /\ Forwarding'
    BY DEF DaemonInv, RestKept, FirstRules, RulesAdded, Forwarding
<1>3. Quiet' => OnlyKnown'
    <2> SUFFICES ASSUME Quiet' PROVE OnlyKnown'
        OBVIOUS
    <2>1. Quiet
        <3>1. ipKills \in Nat
            BY DEF DaemonInv, Typed
        <3> QED BY <3>1 DEF RestKept, Quiet, Undisturbed, ATTEMPTS
    <2>2. OnlyKnown
        BY <2>1 DEF DaemonInv
    <2> QED BY <2>1, <2>2 DEF RestKept, OnlyKnown
<1> QED BY <1>1, <1>2, <1>3 DEF DaemonInv

\* A route is added only where no route has its prefix, and it is known at once.
LEMMA AddRouteKeeps ==
    ASSUME DaemonInv, stage = "routes", AddRoute,
           UNCHANGED <<firewallVars, stage, failures, early, kills>>
    PROVE  DaemonInv'
<1>1. PICK dev : /\ CanAdd(Head(todo).prefix)
                 /\ kernel' = kernel \cup {[prefix |-> Head(todo).prefix, dev |-> dev]}
                 /\ installed' = Append(installed, [kind |-> Head(todo).kind,
                                                    prefix |-> Head(todo).prefix, dev |-> dev])
    BY DEF AddRoute
<1>2. PICK kind, prefix : kind = Head(todo).kind /\ prefix = Head(todo).prefix
    OBVIOUS
<1>3. PICK e : e = [kind |-> kind, prefix |-> prefix, dev |-> dev]
    OBVIOUS
<1>4. PICK n \in Nat : n = Len(installed) /\ DOMAIN installed = 1 .. n
    BY ListFacts DEF DaemonInv, Typed
<1>5. /\ IsSeq(installed') /\ DOMAIN installed' = 1 .. n + 1
      /\ \A i \in 1 .. n : installed'[i] = installed[i]
      /\ installed'[n + 1] = e
    <2>1. IsSeq(installed) /\ installed' = Append(installed, e)
        BY <1>1, <1>2, <1>3 DEF DaemonInv, Typed
    <2> QED BY <1>4, <2>1, AppendFacts
<1>6. /\ kernel' = kernel \cup {[prefix |-> prefix, dev |-> dev]}
      /\ \A r \in kernel : r.prefix # prefix
    BY <1>1, <1>2 DEF CanAdd, Table
<1>7. /\ phase = "setup" /\ UNCHANGED <<phase, config, host, attempt, ipKills>>
      /\ RestKept
    BY DEF AddRoute, firewallVars, RestKept
<1>8. 1 .. n \subseteq 1 .. n + 1 /\ n + 1 \in 1 .. n + 1
    OBVIOUS
<1>9. \A i \in 1 .. n + 1 : i \in 1 .. n \/ i = n + 1
    OBVIOUS
<1>10. NoneKnown'
    BY <1>7 DEF NoneKnown, Before, Creating, RestKept
<1>11. HostApart'
    <2>1. HostApart
        BY DEF DaemonInv
    <2> QED BY <1>3, <1>4, <1>5, <1>6, <1>7, <1>9, <2>1 DEF HostApart
<1>12. TunKnown'
    <2>1. \A r \in kernel : r.dev = Tun => \E i \in 1 .. n :
              installed[i].prefix = r.prefix /\ installed[i].dev = Tun
        BY <1>4 DEF DaemonInv, TunKnown, Down
    <2> QED BY <1>3, <1>5, <1>6, <1>8, <2>1 DEF TunKnown
<1>13. ASSUME Quiet
       PROVE  /\ attempt' <= ipKills' + 1
              /\ \A r \in kernel' \ host' : \E i \in DOMAIN installed' :
                     installed'[i].prefix = r.prefix /\ installed'[i].dev = r.dev
    <2>1. /\ attempt <= ipKills + 1
          /\ \A r \in kernel \ host : \E i \in 1 .. n :
                 installed[i].prefix = r.prefix /\ installed[i].dev = r.dev
        BY <1>4, <1>13 DEF DaemonInv, OnlyKnown
    <2> QED BY <1>3, <1>5, <1>6, <1>7, <1>8, <2>1
<1>14. attempt' \in Nat /\ ipKills' \in Nat /\ ipKills <= ipKills' /\ ipKills' <= MaxIpKills
    BY <1>7 DEF DaemonInv, Typed
<1> QED BY <1>5, <1>7, <1>10, <1>11, <1>12, <1>13, <1>14, RouteStepsKeep

\* What a deletion may do: the matching routes are gone or still there, and the
\* last route is forgotten or not.  It is forgotten with its route gone, except
\* at the last attempt.
LEMMA DeletionKeeps ==
    ASSUME DaemonInv, Deleting, RestKept,
           \/ kernel' = {r \in kernel : ~Matches(r)}
           \/ kernel' = kernel,
           installed' \in {installed, Remaining},
           installed' = Remaining =>
               \/ kernel' = {r \in kernel : ~Matches(r)}
               \/ attempt = ATTEMPTS /\ ipKills < ipKills',
           phase = "rollback" => installed' = Remaining /\ ipKills' = ipKills,
           attempt' \in Nat, ipKills' \in Nat, ipKills <= ipKills', ipKills' <= MaxIpKills,
           attempt <= ipKills + 1 => attempt' <= ipKills' + 1
    PROVE  DaemonInv'
<1>1. PICK n \in Nat : n = Len(installed) /\ DOMAIN installed = 1 .. n /\ n > 0
    BY ListFacts DEF DaemonInv, Typed, Deleting
<1>2. installed # <<>> /\ IsSeq(installed)
    BY DEF Deleting, DaemonInv, Typed
<1>3. /\ IsSeq(Remaining) /\ DOMAIN Remaining = 1 .. n - 1
      /\ \A i \in 1 .. n - 1 : Remaining[i] = installed[i]
    <2>1. PICK t : t = Remaining
        OBVIOUS
    <2>2. t = SubSeq(installed, 1, Len(installed) - 1)
        BY <2>1 DEF Remaining
    <2>3. /\ IsSeq(t) /\ DOMAIN t = 1 .. Len(installed) - 1
          /\ \A i \in DOMAIN t : t[i] = installed[i]
        BY <1>2, <2>2, FrontFacts
    <2> QED BY <1>1, <2>1, <2>3
<1>4. /\ n \in 1 .. n /\ 1 .. n - 1 \subseteq 1 .. n
      /\ \A i \in 1 .. n : i \in 1 .. n - 1 \/ i = n
    BY <1>1
<1>5. \A r : Matches(r) => r.prefix = installed[n].prefix
    BY <1>1 DEF Matches, victim
<1>6. \A r : r.prefix = installed[n].prefix /\ r.dev = installed[n].dev => Matches(r)
    BY <1>1 DEF Matches, victim
<1>7. /\ IsSeq(installed') /\ DOMAIN installed' \subseteq 1 .. n
      /\ \A i \in DOMAIN installed' : installed'[i] = installed[i]
    BY <1>1, <1>2, <1>3, <1>4
<1>8. NoneKnown'
    BY <1>2 DEF NoneKnown, DaemonInv, RestKept, Deleting, Stages, Before, Creating
<1>9. HostApart'
    <2>1. HostApart
        BY DEF DaemonInv
    <2>2. \A r \in host : ~Matches(r)
        BY <1>1, <1>4, <1>5, <2>1 DEF HostApart
    <2> QED BY <1>1, <1>7, <2>1, <2>2 DEF HostApart, RestKept
<1>10. TunKnown'
    <2> SUFFICES ASSUME stage \notin {"unroute"} \cup Down,
                        NEW r \in kernel', r.dev = Tun
                 PROVE  \E i \in DOMAIN installed' :
                            installed'[i].prefix = r.prefix /\ installed'[i].dev = Tun
        BY DEF TunKnown, RestKept
    <2>1. phase = "rollback"
        BY DEF DaemonInv, Stages, Deleting, Before, Creating, Serving, Down
    <2>2. installed' = Remaining /\ r \in kernel /\ ~Matches(r)
        <3>1. ipKills \in Nat
            BY DEF DaemonInv, Typed
        <3> QED BY <2>1, <3>1
    <2>3. PICK i \in 1 .. n : installed[i].prefix = r.prefix /\ installed[i].dev = Tun
        BY <1>1, <2>2 DEF DaemonInv, TunKnown
    <2>4. i # n
        BY <1>6, <2>2, <2>3
    <2> QED BY <1>3, <1>4, <2>2, <2>3, <2>4
<1>11. ASSUME Quiet, Quiet'
       PROVE  /\ attempt' <= ipKills' + 1
              /\ \A r \in kernel' \ host' : \E i \in DOMAIN installed' :
                     installed'[i].prefix = r.prefix /\ installed'[i].dev = r.dev
    <2>1. /\ attempt <= ipKills + 1
          /\ \A r \in kernel \ host : \E i \in 1 .. n :
                 installed[i].prefix = r.prefix /\ installed[i].dev = r.dev
        BY <1>1, <1>11 DEF DaemonInv, OnlyKnown
    <2>2. ~(attempt = ATTEMPTS /\ ipKills < ipKills')
        <3>1. ipKills \in Nat /\ ipKills' < 3
            BY <1>11 DEF DaemonInv, Typed, Quiet, ATTEMPTS
        <3> QED BY <2>1, <3>1 DEF ATTEMPTS
    <2> SUFFICES ASSUME NEW r \in kernel' \ host'
                 PROVE  \E i \in DOMAIN installed' :
                            installed'[i].prefix = r.prefix /\ installed'[i].dev = r.dev
        BY <2>1
    <2>3. r \in kernel \ host
        BY DEF RestKept
    <2>4. PICK i \in 1 .. n : installed[i].prefix = r.prefix /\ installed[i].dev = r.dev
        BY <2>1, <2>3
    <2>5. CASE installed' = installed
        BY <1>1, <2>4, <2>5
    <2>6. CASE installed' = Remaining
        <3>1. ~Matches(r)
            BY <2>2, <2>6
        <3>2. i # n
            BY <1>6, <2>4, <3>1
        <3> QED BY <1>3, <1>4, <2>4, <2>6, <3>2
    <2> QED BY <2>5, <2>6
<1> QED BY <1>7, <1>8, <1>9, <1>10, <1>11, RouteStepsKeep

\* `ip route del', killed or not, is such a deletion.
LEMMA DeletesKeep ==
    ASSUME DaemonInv,
           \/ DeleteRoute
           \/ stage = "unroute" /\ (KilledBefore \/ KilledAfter),
           UNCHANGED <<firewallVars, stage, failures, early, kills>>
    PROVE  DaemonInv'
<1>1. ipKills \in Nat /\ attempt \in Nat /\ ipKills <= MaxIpKills /\ MaxIpKills \in Nat
    BY RouteAssumption DEF DaemonInv, Typed
<1>2. Deleting /\ RestKept
    BY DEF DeleteRoute, KilledBefore, KilledAfter, RestKept, firewallVars
<1>3. CASE DeleteRoute
    <2>1. /\ kernel' = {r \in kernel : ~Matches(r)} /\ installed' = Remaining
          /\ attempt' = 1 /\ ipKills' = ipKills
        BY <1>3 DEF DeleteRoute
    <2>2. attempt' \in Nat /\ attempt' <= ipKills' + 1 /\ ipKills <= ipKills'
        BY <1>1, <2>1
    <2> QED BY <1>1, <1>2, <2>1, <2>2, DeletionKeeps
<1>4. CASE stage = "unroute" /\ (KilledBefore \/ KilledAfter)
    <2>1. phase # "rollback"
        BY <1>4 DEF DaemonInv, Stages, Before, Creating, Serving, Down
    <2>2. /\ ipKills' \in Nat /\ ipKills < ipKills' /\ ipKills' <= MaxIpKills
          /\ ipKills + 1 <= ipKills'
        BY <1>1, <1>4 DEF KilledBefore, KilledAfter
    <2>3. \/ kernel' = {r \in kernel : ~Matches(r)} /\ installed' = Remaining /\ attempt' = 1
          \/ /\ Retry
             /\ kernel' = kernel \/ kernel' = {r \in kernel : ~Matches(r)}
        BY <1>4 DEF KilledBefore, KilledAfter
    <2>4. /\ attempt' \in Nat
          /\ attempt <= ipKills + 1 => attempt' <= ipKills' + 1
        BY <1>1, <2>2, <2>3 DEF Retry, GivesUp
    <2>5. /\ kernel' = kernel \/ kernel' = {r \in kernel : ~Matches(r)}
          /\ installed' \in {installed, Remaining}
        BY <2>3 DEF Retry
    <2>6. installed # Remaining
        <3>1. /\ Len(installed) \in Nat /\ Len(installed) > 0
              /\ DOMAIN installed = 1 .. Len(installed)
              /\ DOMAIN Remaining = 1 .. Len(installed) - 1
            BY <1>2, ListFacts, FrontFacts DEF DaemonInv, Typed, Deleting, Remaining
        <3>2. Len(installed) \in DOMAIN installed /\ Len(installed) \notin DOMAIN Remaining
            BY <3>1
        <3> QED BY <3>2
    <2>7. installed' = Remaining =>
             \/ kernel' = {r \in kernel : ~Matches(r)}
             \/ attempt = ATTEMPTS /\ ipKills < ipKills'
        BY <2>2, <2>3, <2>6 DEF Retry, GivesUp
    <2>8. ipKills <= ipKills'
        BY <1>1, <2>2
    <2> QED BY <1>2, <2>1, <2>2, <2>4, <2>5, <2>7, <2>8, DeletionKeeps
<1> QED BY <1>3, <1>4

----------------------------------------------------------------------------
\* A step of the firewall leaves the routes alone.
LEMMA FirewallStepsKeep ==
    ASSUME DaemonInv,
           UNCHANGED <<config, host, kernel, installed, phase, attempt, ipKills, early, kills>>,
           UNCHANGED failures \/ MayFail,
           \/ Goes("forward", "rules") \/ Goes("rules", "rules")
           \/ Goes("unfilter", "unfilter") \/ Goes("unfilter", "exit"),
           IsSeq(rules'), iptables' \in [Range(Rules) -> Nat],
           FirstRules', RulesAdded', Forwarding',
           OnlyKnown /\ UNCHANGED failures =>
               /\ \A r \in Range(Rules) : iptables'[r] = IF r \in Range(rules') THEN 1 ELSE 0
               /\ config \notin ExitNodes => original_ip_forward' = Absent
               /\ IF stage' # "exit" /\ config \in ExitNodes
                  THEN original_ip_forward' = 0 ELSE ip_forward' = 0
    PROVE  DaemonInv'
<1>1. Quiet' => Quiet /\ UNCHANGED failures
    <2>1. ipKills' \in Nat /\ ipKills <= ipKills'
        BY DEF DaemonInv, Typed
    <2> QED BY <2>1, QuietBefore
<1>2. failures' \in Nat
    BY DEF DaemonInv, Typed, MayFail
<1>3. Typed'
    BY <1>2 DEF DaemonInv, Typed
<1>4. Stages' /\ NoneKnown'
    BY DEF DaemonInv, Goes, Stages, NoneKnown, Before, Creating, Serving, Down
<1>5. HostApart' /\ TunKnown'
    BY DEF DaemonInv, Goes, HostApart, TunKnown, Down
<1>6. Quiet' => OnlyKnown'
    BY <1>1 DEF DaemonInv, OnlyKnown, Goes, Serving
<1> QED BY <1>3, <1>4, <1>5, <1>6 DEF DaemonInv

\* The original value is read before forwarding is switched on.
LEMMA EnableKeeps ==
    ASSUME DaemonInv, enable_ip_forward
    PROVE  DaemonInv'
<1>1. /\ stage = "forward" /\ stage' = "rules"
      /\ UNCHANGED <<config, host, kernel, installed, phase, attempt, ipKills, early, kills,
                     iptables, rules>>
      /\ ip_forward' = 1
      /\ \/ original_ip_forward' = ip_forward /\ UNCHANGED failures
         \/ MayFail
    BY DEF enable_ip_forward, Goes, routeVars
<1>2. config \in ExitNodes /\ rules = <<>>
    BY <1>1 DEF DaemonInv, RulesAdded
<1>3. IsSeq(rules') /\ iptables' \in [Range(Rules) -> Nat] /\ DOMAIN rules = {}
    BY <1>1, <1>2, EmptyList DEF DaemonInv, Typed
<1>4. FirstRules' /\ RulesAdded' /\ Forwarding'
    BY <1>1, <1>2, <1>3 DEF DaemonInv, FirstRules, RulesAdded, Forwarding, Before, Creating,
                            Serving, Down
<1>5. ASSUME OnlyKnown, UNCHANGED failures
      PROVE  /\ \A r \in Range(Rules) : iptables'[r] = IF r \in Range(rules') THEN 1 ELSE 0
             /\ original_ip_forward' = 0
    <2>1. ~MayFail
        BY <1>5 DEF MayFail, DaemonInv, Typed
    <2> QED BY <1>1, <1>5, <2>1 DEF OnlyKnown, Serving
<1> QED BY <1>1, <1>2, <1>3, <1>4, <1>5, FirewallStepsKeep DEF Goes

\* A rule is known as soon as it is in place.
LEMMA AddRuleKeeps ==
    ASSUME DaemonInv, add_iptables_rule
    PROVE  DaemonInv'
<1>1. PICK n \in Nat : n = Len(rules) /\ DOMAIN rules = 1 .. n
    BY ListFacts DEF DaemonInv, Typed
<1>2. PICK m \in Nat : m = Len(Rules) /\ DOMAIN Rules = 1 .. m
    BY RulesFacts, ListFacts
<1>3. n < m /\ n + 1 \in 1 .. m /\ 1 .. n \subseteq 1 .. m
    BY <1>1, <1>2 DEF add_iptables_rule
<1>4. PICK rule : rule = Rules[n + 1]
    OBVIOUS
<1>5. /\ stage = "rules" /\ stage' = "rules"
      /\ UNCHANGED <<config, host, kernel, installed, phase, attempt, ipKills, early, kills,
                     failures, ip_forward, original_ip_forward>>
      /\ iptables' = [iptables EXCEPT ![rule] = @ + 1]
      /\ rules' = Append(rules, rule)
    BY <1>1, <1>4 DEF add_iptables_rule, routeVars, bounds
<1>6. /\ IsSeq(rules') /\ Len(rules') = n + 1 /\ DOMAIN rules' = 1 .. n + 1
      /\ \A i \in 1 .. n : rules'[i] = rules[i]
      /\ rules'[n + 1] = rule
    BY <1>1, <1>5, AppendFacts DEF DaemonInv, Typed
<1>7. /\ 1 .. n \subseteq 1 .. n + 1 /\ n + 1 \in 1 .. n + 1 /\ n + 1 \notin 1 .. n
      /\ \A i \in 1 .. n + 1 : i \in 1 .. n \/ i = n + 1
    OBVIOUS
<1>8. rule \in Range(Rules) /\ iptables \in [Range(Rules) -> Nat]
    BY <1>2, <1>3, <1>4 DEF DaemonInv, Typed, Range
<1>9. iptables' \in [Range(Rules) -> Nat]
    BY <1>5, <1>8
<1>10. \A i \in 1 .. n : rules[i] = Rules[i] /\ rules[i] # rule
    <2>1. \A i \in 1 .. n : rules[i] = Rules[i]
        BY <1>1, <1>5 DEF DaemonInv, FirstRules, Down
    <2> QED BY <1>2, <1>3, <1>4, <1>7, <2>1, RulesFacts
<1>11. Range(rules') = Range(rules) \cup {rule} /\ rule \notin Range(rules)
    BY <1>1, <1>6, <1>7, <1>10 DEF Range
<1>12. FirstRules'
    BY <1>2, <1>3, <1>4, <1>5, <1>6, <1>7, <1>10 DEF FirstRules
<1>13. RulesAdded'
    <2>1. config \in ExitNodes
        BY <1>5 DEF DaemonInv, RulesAdded
    <2>2. Range(rules) \subseteq Range(Rules)
          /\ \A i, k \in 1 .. n : rules[i] = rules[k] => i = k
        BY <1>1 DEF DaemonInv, RulesAdded
    <2>3. Range(rules') \subseteq Range(Rules)
        BY <1>8, <1>11, <2>2
    <2>4. \A i, k \in DOMAIN rules' : rules'[i] = rules'[k] => i = k
        BY <1>6, <1>7, <1>10, <2>2
    <2> QED BY <1>5, <2>1, <2>3, <2>4 DEF RulesAdded, Before, Creating, Serving
<1>14. Forwarding'
    <2>1. \A i \in 1 .. n : rules[i] \in Range(Rules) /\ iptables[rules[i]] > 0
        BY <1>1, <1>5 DEF DaemonInv, Forwarding, RulesAdded, Range
    <2>2. \A i \in 1 .. n + 1 : iptables'[rules'[i]] > 0
        <3>1. \A i \in 1 .. n : iptables'[rules'[i]] > 0
            BY <1>5, <1>6, <1>8, <1>10, <2>1
        <3>2. iptables'[rule] > 0
            BY <1>5, <1>8
        <3> QED BY <1>6, <1>7, <3>1, <3>2
    <2> QED BY <1>5, <1>6, <2>2 DEF DaemonInv, Forwarding
<1>15. OnlyKnown =>
          /\ \A r \in Range(Rules) : iptables'[r] = IF r \in Range(rules') THEN 1 ELSE 0
          /\ config \notin ExitNodes => original_ip_forward' = Absent
          /\ IF stage' # "exit" /\ config \in ExitNodes
             THEN original_ip_forward' = 0 ELSE ip_forward' = 0
    <2> SUFFICES ASSUME OnlyKnown
                 PROVE  \A r \in Range(Rules) :
                            iptables'[r] = IF r \in Range(rules') THEN 1 ELSE 0
        BY <1>5 DEF OnlyKnown
    <2>1. \A r \in Range(Rules) : iptables[r] = IF r \in Range(rules) THEN 1 ELSE 0
        BY DEF OnlyKnown
    <2>2. iptables'[rule] = 1
        BY <1>5, <1>8, <1>11, <2>1
    <2>3. \A r \in Range(Rules) : r # rule => iptables'[r] = iptables[r]
        BY <1>5, <1>8
    <2> QED BY <1>11, <2>1, <2>2, <2>3
<1> QED BY <1>5, <1>6, <1>9, <1>12, <1>13, <1>14, <1>15, FirewallStepsKeep DEF Goes

\* A rule is forgotten with its deletion; no later entry of the list is the same.
LEMMA DelRuleKeeps ==
    ASSUME DaemonInv, del_iptables_rule
    PROVE  DaemonInv'
<1>1. PICK n \in Nat : n = Len(rules) /\ DOMAIN rules = 1 .. n /\ n > 0
    BY ListFacts DEF DaemonInv, Typed, del_iptables_rule
<1>2. /\ IsSeq(rules') /\ DOMAIN rules' = 1 .. n - 1
      /\ \A i \in 1 .. n - 1 : rules'[i] = rules[i + 1]
      /\ Head(rules) = rules[1]
    <2>1. IsSeq(rules) /\ rules # <<>> /\ rules' = Tail(rules)
        BY DEF DaemonInv, Typed, del_iptables_rule
    <2>2. PICK t : t = rules'
        OBVIOUS
    <2>3. /\ IsSeq(t) /\ DOMAIN t = 1 .. Len(rules) - 1
          /\ \A i \in DOMAIN t : t[i] = rules[i + 1]
          /\ Head(rules) = rules[1]
        BY <2>1, <2>2, TailFacts
    <2> QED BY <1>1, <2>2, <2>3
<1>3. PICK rule : rule = rules[1]
    OBVIOUS
<1>4. /\ stage = "unfilter" /\ stage' = "unfilter"
      /\ UNCHANGED <<config, host, kernel, installed, phase, attempt, ipKills, early, kills,
                     ip_forward, original_ip_forward>>
      /\ \/ /\ iptables' = [iptables EXCEPT ![rule] = IF @ > 0 THEN @ - 1 ELSE 0]
            /\ UNCHANGED failures
         \/ MayFail /\ UNCHANGED iptables
    BY <1>2, <1>3 DEF del_iptables_rule, routeVars
<1>5. /\ 1 \in 1 .. n
      /\ \A i \in 1 .. n - 1 : i + 1 \in 1 .. n /\ i + 1 # 1
      /\ \A i \in 1 .. n : i # 1 => i - 1 \in 1 .. n - 1 /\ i = i - 1 + 1
    BY <1>1
<1>6. /\ Range(rules) \subseteq Range(Rules)
      /\ \A i, k \in 1 .. n : rules[i] = rules[k] => i = k
      /\ config \notin ExitNodes => rules = <<>>
    BY <1>1 DEF DaemonInv, RulesAdded
<1>7. Range(rules) = Range(rules') \cup {rule} /\ rule \notin Range(rules')
    <2>1. rule \notin Range(rules') /\ rule \in Range(rules)
        BY <1>1, <1>2, <1>3, <1>5, <1>6 DEF Range
    <2>2. Range(rules') \subseteq Range(rules)
        BY <1>1, <1>2, <1>5 DEF Range
    <2>3. ASSUME NEW r \in Range(rules), r # rule PROVE r \in Range(rules')
        <3>1. PICK i \in 1 .. n : r = rules[i]
            BY <1>1 DEF Range
        <3>2. i - 1 \in 1 .. n - 1 /\ i = i - 1 + 1
            BY <1>3, <1>5, <2>3, <3>1
        <3>3. r = rules'[i - 1]
            BY <1>2, <3>1, <3>2
        <3> QED BY <1>2, <3>2, <3>3 DEF Range
    <2> QED BY <2>1, <2>2, <2>3
<1>8. rule \in Range(Rules) /\ iptables \in [Range(Rules) -> Nat]
    BY <1>6, <1>7 DEF DaemonInv, Typed
<1>9. iptables' \in [Range(Rules) -> Nat]
    BY <1>4, <1>8
<1>10. FirstRules' /\ Forwarding'
    BY <1>4 DEF FirstRules, Forwarding, Serving, Down
<1>11. RulesAdded'
    <2>1. config \in ExitNodes
        BY <1>6 DEF del_iptables_rule
    <2>2. Range(rules') \subseteq Range(Rules)
        BY <1>6, <1>7
    <2>3. \A i, k \in DOMAIN rules' : rules'[i] = rules'[k] => i = k
        <3> SUFFICES ASSUME NEW i \in 1 .. n - 1, NEW k \in 1 .. n - 1,
                            rules'[i] = rules'[k]
                     PROVE  i = k
            BY <1>2
        <3>1. i + 1 \in 1 .. n /\ k + 1 \in 1 .. n /\ rules[i + 1] = rules[k + 1]
            BY <1>2, <1>5
        <3>2. i + 1 = k + 1
            BY <1>6, <3>1
        <3> QED BY <3>2
    <2> QED BY <1>4, <2>1, <2>2, <2>3 DEF RulesAdded, Before, Creating, Serving
<1>12. OnlyKnown /\ UNCHANGED failures =>
          /\ \A r \in Range(Rules) : iptables'[r] = IF r \in Range(rules') THEN 1 ELSE 0
          /\ config \notin ExitNodes => original_ip_forward' = Absent
          /\ IF stage' # "exit" /\ config \in ExitNodes
             THEN original_ip_forward' = 0 ELSE ip_forward' = 0
    <2> SUFFICES ASSUME OnlyKnown, UNCHANGED failures
                 PROVE  \A r \in Range(Rules) :
                            iptables'[r] = IF r \in Range(rules') THEN 1 ELSE 0
        BY <1>4 DEF OnlyKnown
    <2>1. \A r \in Range(Rules) : iptables[r] = IF r \in Range(rules) THEN 1 ELSE 0
        BY DEF OnlyKnown
    <2>2. iptables' = [iptables EXCEPT ![rule] = IF @ > 0 THEN @ - 1 ELSE 0]
        BY <1>4 DEF MayFail, DaemonInv, Typed
    <2>3. iptables'[rule] = 0
        BY <1>7, <1>8, <2>1, <2>2
    <2>4. \A r \in Range(Rules) : r # rule => iptables'[r] = iptables[r]
        BY <1>8, <2>2
    <2> QED BY <1>7, <2>1, <2>3, <2>4
<1> QED BY <1>2, <1>4, <1>9, <1>10, <1>11, <1>12, FirewallStepsKeep DEF Goes

\* The last step of the cleanup writes the remembered value back.
LEMMA RestoreKeeps ==
    ASSUME DaemonInv, RestoreForward
    PROVE  DaemonInv'
<1>1. /\ stage = "unfilter" /\ stage' = "exit" /\ rules = <<>>
      /\ UNCHANGED <<config, host, kernel, installed, phase, attempt, ipKills, early, kills,
                     iptables, original_ip_forward, rules>>
      /\ \/ /\ original_ip_forward # Absent => ip_forward' = original_ip_forward
            /\ original_ip_forward = Absent => UNCHANGED ip_forward
            /\ UNCHANGED failures
         \/ MayFail
    BY DEF RestoreForward, Goes, routeVars
<1>2. IsSeq(rules') /\ iptables' \in [Range(Rules) -> Nat]
    BY <1>1 DEF DaemonInv, Typed
<1>3. FirstRules' /\ Forwarding'
    BY <1>1 DEF FirstRules, Forwarding, Serving, Down
<1>4. RulesAdded'
    BY <1>1 DEF DaemonInv, RulesAdded, Serving
<1>5. OnlyKnown /\ UNCHANGED failures =>
          /\ \A r \in Range(Rules) : iptables'[r] = IF r \in Range(rules') THEN 1 ELSE 0
          /\ config \notin ExitNodes => original_ip_forward' = Absent
          /\ IF stage' # "exit" /\ config \in ExitNodes
             THEN original_ip_forward' = 0 ELSE ip_forward' = 0
    <2> SUFFICES ASSUME OnlyKnown, UNCHANGED failures
                 PROVE  ip_forward' = 0
        BY <1>1 DEF OnlyKnown
    <2>1. ~MayFail
        BY DEF MayFail, DaemonInv, Typed
    <2> QED BY <1>1, <2>1, RouteAssumption DEF OnlyKnown, Serving
<1> QED BY <1>1, <1>2, <1>3, <1>4, <1>5, FirewallStepsKeep DEF Goes

----------------------------------------------------------------------------
\* The first process finds the host as the administrator left it.
LEMMA DaemonStarts == DaemonInit => DaemonInv
<1> SUFFICES ASSUME DaemonInit PROVE DaemonInv
    OBVIOUS
<1> USE DEF DaemonInit, RouteInit
<1>1. IsSeq(installed) /\ IsSeq(rules) /\ DOMAIN installed = {} /\ DOMAIN rules = {}
      /\ Range(rules) = {} /\ Len(rules) = 0
    BY EmptyList
<1>2. iptables = [r \in Range(Rules) |-> 0]
    BY RulesFacts
<1>3. Typed
    BY <1>1, <1>2, RouteAssumption DEF Typed
<1>4. Stages /\ NoneKnown
    BY DEF Stages, NoneKnown, Before
<1>5. HostApart /\ TunKnown
    BY <1>1, RouteAssumption DEF HostApart, TunKnown
<1>6. FirstRules /\ RulesAdded /\ Forwarding
    <2>1. Len(Rules) \in Nat
        BY RulesFacts, ListFacts
    <2> QED BY <1>1, <2>1 DEF FirstRules, RulesAdded, Forwarding, Serving
<1>7. OnlyKnown
    BY <1>1, <1>2 DEF OnlyKnown, Serving
<1> QED BY <1>3, <1>4, <1>5, <1>6, <1>7 DEF DaemonInv

\* Every step of the daemon and of its surroundings keeps DaemonInv.
LEMMA DaemonStep == DaemonInv /\ [DaemonNext]_daemonVars => DaemonInv'
<1> SUFFICES ASSUME DaemonInv, [DaemonNext]_daemonVars PROVE DaemonInv'
    OBVIOUS
<1>1. ASSUME NEW code, Ends(code), UNCHANGED bounds,
             installed = <<>> /\ rules = <<>> /\ (Quiet => ip_forward = 0)
      PROVE  DaemonInv'
    <2>1. UNCHANGED <<failures, early, kills, ipKills>>
        BY <1>1 DEF bounds, Ends
    <2>2. Quiet' => Quiet /\ ip_forward = 0
        BY <1>1, <2>1 DEF Quiet, Undisturbed
    <2>3. {failures', early', kills'} \subseteq Nat
        BY <2>1 DEF DaemonInv, Typed
    <2> QED BY <1>1, <2>2, <2>3, EndsKeeps
<1>2. stage \in Before \cup Creating \cup {"exit"} =>
          installed = <<>> /\ rules = <<>> /\ (Quiet => ip_forward = 0)
    BY DEF DaemonInv, Stages, NoneKnown, RulesAdded, OnlyKnown, Before, Creating, Serving, Down
<1>3. CASE LoadConfig
    <2>1. CASE Goes("config", "router") /\ UNCHANGED <<routeVars, firewallVars>>
        BY <1>3, <2>1, MovesKeep DEF LoadConfig, routeVars, bounds
    <2>2. CASE stage = "config" /\ Ends(1)
        BY <1>1, <1>2, <1>3, <2>2 DEF LoadConfig, Before
    <2> QED BY <1>3, <2>1, <2>2 DEF LoadConfig, Goes
<1>4. CASE BuildRouter
    <2>1. CASE Goes("router", "create_tun") /\ NewRouter /\ UNCHANGED firewallVars
        BY <1>4, <2>1, MovesKeep DEF BuildRouter, NewRouter, bounds
    <2>2. CASE stage = "router" /\ Ends(1)
        BY <1>1, <1>2, <1>4, <2>2 DEF BuildRouter, Before
    <2> QED BY <1>4, <2>1, <2>2 DEF BuildRouter, Goes
<1>5. CASE CreateTun
    BY <1>5, MovesKeep DEF CreateTun, bounds
<1>6. CASE Bind
    BY <1>6, MovesKeep DEF Bind, BeginSetup, bounds
<1>7. CASE SetUpRoutes
    <2>1. stage = "routes" /\ UNCHANGED <<firewallVars, stage, failures, early, kills>>
        BY <1>7 DEF SetUpRoutes, bounds
    <2>2. CASE AddRoute
        BY <2>1, <2>2, AddRouteKeeps
    <2>3. CASE AddFails
        BY <2>1, <2>3, MovesKeep DEF AddFails, Goes
    <2>4. CASE DeleteRoute
        BY <2>1, <2>4, DeletesKeep
    <2>5. CASE phase = "rollback" /\ CleanupDone
        BY <2>1, <2>5, MovesKeep DEF CleanupDone
    <2> QED BY <1>7, <2>2, <2>3, <2>4, <2>5 DEF SetUpRoutes
<1>8. CASE RoutesUp
    BY <1>8, MovesKeep DEF RoutesUp, SetupDone, Goes, bounds
<1>9. CASE RoutesFailed
    <2>1. installed = <<>> /\ rules = <<>> /\ (Quiet => ip_forward = 0)
        BY <1>9 DEF RoutesFailed, DaemonInv, NoneKnown, RulesAdded, OnlyKnown, Serving
    <2> QED BY <1>1, <1>9, <2>1 DEF RoutesFailed
<1>10. CASE enable_ip_forward
    BY <1>10, EnableKeeps
<1>11. CASE add_iptables_rule
    BY <1>11, AddRuleKeeps
<1>12. CASE FirewallUp
    BY <1>12, MovesKeep DEF FirewallUp, routeVars, bounds
<1>13. CASE Register \/ StartThreads
    BY <1>13, MovesKeep DEF Register, StartThreads, routeVars, bounds
<1>14. CASE Unroute
    BY <1>14, DeletesKeep DEF Unroute, bounds
<1>15. CASE Unrouted
    <2>1. phase = "cleanup"
        BY <1>15 DEF Unrouted, Goes, DaemonInv, Stages, Before, Creating, Serving, Down
    <2> QED BY <1>15, <2>1, MovesKeep DEF Unrouted, CleanupDone, bounds
<1>16. CASE del_iptables_rule
    BY <1>16, DelRuleKeeps
<1>17. CASE RestoreForward
    BY <1>17, RestoreKeeps
<1>18. CASE Exit
    BY <1>1, <1>2, <1>18 DEF Exit
<1>19. CASE Restart
    BY <1>19, MovesKeep DEF Restart, routeVars
<1>20. CASE CreateFails \/ FirewallFails \/ StartFails
    BY <1>20, CountedEndsKeep DEF CreateFails, FirewallFails, StartFails
<1>21. CASE EarlySignal
    BY <1>21, CountedEndsKeep DEF EarlySignal
<1>22. CASE Kill
    BY <1>22, CountedEndsKeep DEF Kill
<1>23. CASE Signal
    BY <1>23, MovesKeep DEF Signal, BeginCleanup
<1>24. CASE UNCHANGED daemonVars
    BY <1>24, MovesKeep DEF daemonVars, routeVars, bounds
<1> QED BY <1>3, <1>4, <1>5, <1>6, <1>7, <1>8, <1>9, <1>10, <1>11, <1>12, <1>13, <1>14,
           <1>15, <1>16, <1>17, <1>18, <1>19, <1>20, <1>21, <1>22, <1>23, <1>24
        DEF DaemonNext, Progress

\* DaemonInv holds throughout, whatever fails, is killed or comes early.
LEMMA DaemonSafe == DaemonSpec => []DaemonInv
    BY DaemonStarts, DaemonStep, PTL DEF DaemonSpec

\* A process that ends by itself or by a signal, and a setup that is rolled back,
\* leave the host as the administrator had it, as long as fewer `ip' children
\* are killed than delete_linux_route has attempts; and whatever happens, no
\* route of the host is ever lost.
THEOREM LeavesNothingBehind ==
    ASSUME MaxIpKills < ATTEMPTS
    PROVE  DaemonSpec => []ExitsClean
<1>1. ASSUME DaemonInv PROVE ExitsClean
    <2>1. HostRoutesKept
        BY <1>1 DEF DaemonInv, HostApart, HostRoutesKept
    <2>2. ASSUME Undisturbed, stage \in {"exit", "exited"} \/ phase = "failed"
          PROVE  kernel = host /\ iptables = NoRules /\ ip_forward = 0
        <3>1. Quiet
            BY <1>1, <2>2, RouteAssumption DEF DaemonInv, Typed, Quiet, ATTEMPTS
        <3>2. OnlyKnown /\ installed = <<>> /\ rules = <<>>
            BY <1>1, <2>2, <3>1 DEF DaemonInv, Stages, NoneKnown, RulesAdded, Before, Creating,
                                    Serving, Down
        <3>3. kernel = host
            BY <1>1, <3>2, EmptyList DEF OnlyKnown, DaemonInv, HostApart
        <3>4. iptables = NoRules
            BY <1>1, <3>2, EmptyList, RulesFacts DEF OnlyKnown, DaemonInv, Typed
        <3>5. ip_forward = 0
            BY <1>1, <2>2, <3>2 DEF OnlyKnown, DaemonInv, Stages, Before, Creating, Serving, Down
        <3> QED BY <3>3, <3>4, <3>5
    <2> QED BY <2>1, <2>2 DEF ExitsClean
<1> QED BY <1>1, DaemonSafe, PTL

\* A daemon that runs is whole, whatever earlier processes have left behind:
\* an exit node forwards with every rule in place, and the cleanup knows every
\* route on the device and every rule.
THEOREM RunsWhole == DaemonSpec => []RunningIsWhole
<1>1. ASSUME DaemonInv, config \in ExitNodes, stage \in Serving
      PROVE  Range(rules) = Range(Rules)
    <2>1. /\ Len(rules) = Len(Rules)
          /\ \A i \in DOMAIN rules : rules[i] = Rules[i]
        BY <1>1 DEF DaemonInv, RulesAdded, FirstRules, Serving, Down
    <2>2. DOMAIN rules = DOMAIN Rules
        BY <1>1, <2>1, ListFacts, RulesFacts DEF DaemonInv, Typed
    <2> QED BY <2>1, <2>2 DEF Range
<1>2. ASSUME DaemonInv PROVE CleanupKnowsAll
    <2>1. stage \in {"clone", "run"} => stage \in Serving /\ stage \notin {"unroute"} \cup Down
        BY DEF Serving, Down
    <2>2. DOMAIN NoRules = Range(Rules) /\ {rules[i] : i \in DOMAIN rules} = Range(rules)
        BY RulesFacts DEF Range
    <2> QED BY <1>1, <1>2, <2>1, <2>2 DEF DaemonInv, TunKnown, CleanupKnowsAll
<1>3. ASSUME DaemonInv PROVE ExitNodeForwards
    <2> SUFFICES ASSUME stage = "run", config \in ExitNodes
                 PROVE  ip_forward = 1 /\ \A r \in DOMAIN iptables : iptables[r] > 0
        BY DEF ExitNodeForwards
    <2>1. stage \in Serving
        BY DEF Serving
    <2>2. DOMAIN iptables = Range(rules)
        BY <1>1, <1>3, <2>1 DEF DaemonInv, Typed
    <2> QED BY <1>3, <2>1, <2>2 DEF DaemonInv, Forwarding, Range
<1>4. DaemonInv => RunningIsWhole
    BY <1>2, <1>3 DEF RunningIsWhole
<1> QED BY <1>4, DaemonSafe, PTL

----------------------------------------------------------------------------
\* A nonempty set of numbers has a least one.
LEMMA Least ==
    ASSUME NEW S \in SUBSET Nat, S # {}
    PROVE  Min(S) \in S /\ \A y \in S : Min(S) <= y
<1> DEFINE R == OpToRel(<, Nat)
<1>1. IsWellFoundedOn(R, Nat)
    BY NatLessThanWellFounded
<1>2. R = {ss \in Nat \X Nat : ss[1] < ss[2]}
    BY Zenon DEF R, OpToRel
<1> HIDE DEF R
<1>3. \E x \in S : \A y \in S : ~(<<y, x>> \in R)
    BY <1>1, WFMin
<1>4. PICK x \in S : \A y \in S : ~(<<y, x>> \in R)
    BY <1>3
<1>5. ASSUME NEW y \in S
      PROVE  x <= y
    <2>1. x \in Nat /\ y \in Nat /\ ~(<<y, x>> \in R)
        BY <1>4
    <2>2. y < x => <<y, x>> \in R
        BY <1>2, <2>1
    <2> QED BY <2>1, <2>2
<1>6. \E m \in S : \A y \in S : m =< y
    BY <1>5
<1> QED BY <1>6 DEF Min

\* No check has failed when a sequence of them ends well ...
LEMMA BothPassed ==
    ASSUME NEW a, NEW b, (a ?? b) = "ok"
    PROVE  a = "ok" /\ b = "ok"
    BY DEF ??

\* ... or a loop.
LEMMA AllPassed ==
    ASSUME NEW results, DOMAIN results \subseteq Nat, FirstError(results) = "ok"
    PROVE  \A i \in DOMAIN results : results[i] = "ok"
<1> SUFFICES ASSUME NEW i \in DOMAIN results, results[i] # "ok" PROVE FALSE
    OBVIOUS
<1> DEFINE failed == {k \in DOMAIN results : results[k] # "ok"}
<1>1. failed \in SUBSET Nat /\ failed # {}
    OBVIOUS
<1>2. Min(failed) \in failed
    BY <1>1, Least
<1>3. FirstError(results) = results[Min(failed)]
    BY DEF FirstError
<1> QED BY <1>2, <1>3

\* The pairs of `before' order the elements of S.
Orders(before, S) ==
    /\ \A x \in S : <<x, x>> \notin before
    /\ \A x, y, z \in S : <<x, y>> \in before /\ <<y, z>> \in before => <<x, z>> \in before
    /\ \A x, y \in S : x = y \/ <<x, y>> \in before \/ <<y, x>> \in before

\* Every element is listed, and in order.
LEMMA ArrangedFacts ==
    ASSUME NEW S, IsFiniteSet(S), NEW before, Orders(before, S),
           NEW order, order = Arranged(S, before)
    PROVE  /\ order \in Seq(S) /\ DOMAIN order = 1 .. Cardinality(S)
           /\ \A x \in S : \E k \in DOMAIN order : order[k] = x
           /\ \A k, l \in DOMAIN order : k < l => <<order[k], order[l]>> \in before
<1> DEFINE below(x) == {y \in S : <<y, x>> \in before}
           rank == [x \in S |-> Cardinality(below(x)) + 1]
<1>0. PICK n \in Nat : n = Cardinality(S)
    BY FS_CardinalityType
<1>1. ASSUME NEW x \in S
      PROVE  /\ IsFiniteSet(below(x)) /\ Cardinality(below(x)) \in Nat
             /\ Cardinality(below(x)) < n
    <2>1. below(x) \in SUBSET S /\ below(x) # S
        BY DEF Orders
    <2>2. IsFiniteSet(below(x)) /\ Cardinality(below(x)) <= n /\ Cardinality(below(x)) # n
        BY <1>0, <2>1, FS_Subset
    <2> QED BY <2>2, FS_CardinalityType
<1>2. ASSUME NEW x \in S, NEW y \in S, <<x, y>> \in before
      PROVE  rank[x] < rank[y]
    <2>1. below(x) \in SUBSET below(y) /\ below(x) # below(y)
        BY <1>2 DEF Orders
    <2>2. Cardinality(below(x)) <= Cardinality(below(y))
          /\ Cardinality(below(x)) # Cardinality(below(y))
        BY <1>1, <2>1, FS_Subset
    <2> QED BY <1>1, <2>2
<1>3. rank \in [S -> 1 .. n]
    BY <1>1
<1> HIDE DEF rank
<1>4. \A x, y \in S : rank[x] = rank[y] => x = y
    <2> SUFFICES ASSUME NEW x \in S, NEW y \in S, rank[x] = rank[y], x # y
                 PROVE  FALSE
        OBVIOUS
    <2>1. rank[x] < rank[y] \/ rank[y] < rank[x]
        BY <1>2 DEF Orders
    <2> QED BY <1>3, <2>1
<1>5. \A k \in 1 .. n : \E x \in S : rank[x] = k
    <2>1. rank \in Injection(S, 1 .. n)
        BY <1>3, <1>4 DEF Injection, IsInjective
    <2>2. IsFiniteSet(1 .. n) /\ Cardinality(1 .. n) = n
        BY FS_Interval
    <2>3. rank \in Surjection(S, 1 .. n)
        BY <1>0, <2>1, <2>2, FS_Injection
    <2> QED BY <2>3 DEF Surjection
<1>6. /\ order = [k \in 1 .. n |-> CHOOSE x \in S : Cardinality(below(x)) = k - 1]
    BY <1>0 DEF Arranged
<1>7. ASSUME NEW k \in 1 .. n
      PROVE  order[k] \in S /\ rank[order[k]] = k
    <2>1. PICK x \in S : rank[x] = k
        BY <1>5
    <2>2. Cardinality(below(x)) = k - 1
        <3>1. PICK c \in Nat : c = Cardinality(below(x))
            BY <1>1
        <3>2. c + 1 = k
            BY <2>1, <3>1 DEF rank
        <3> QED BY <3>1, <3>2
    <2>3. order[k] = CHOOSE y \in S : Cardinality(below(y)) = k - 1
        BY <1>6
    <2>4. order[k] \in S /\ Cardinality(below(order[k])) = k - 1
        BY <2>2, <2>3
    <2> QED BY <2>4 DEF rank
<1>8. order \in [1 .. n -> S] /\ DOMAIN order = 1 .. n
    BY <1>6, <1>7
<1>9. order \in Seq(S)
    BY <1>8, SeqDef
<1>10. \A x \in S : \E k \in 1 .. n : order[k] = x
    BY <1>3, <1>4, <1>7
<1>11. ASSUME NEW k \in 1 .. n, NEW l \in 1 .. n, k < l
       PROVE  <<order[k], order[l]>> \in before
    <2>1. /\ order[k] \in S /\ order[l] \in S /\ rank[order[k]] = k /\ rank[order[l]] = l
        BY <1>7
    <2>2. ~(rank[order[l]] < rank[order[k]]) /\ order[k] # order[l]
        BY <1>11, <2>1
    <2>3. <<order[l], order[k]>> \notin before
        BY <1>2, <2>1, <2>2
    <2> QED BY <2>1, <2>2, <2>3 DEF Orders
<1> QED BY <1>0, <1>8, <1>9, <1>10, <1>11

\* The places in a list of lists.
LEMMA PlacesFacts ==
    ASSUME NEW lists, IsSeq(lists), \A n \in DOMAIN lists : IsSeq(lists[n]),
           NEW places, places = Places(lists)
    PROVE  /\ IsFiniteSet(places)
           /\ \A p \in places : /\ p = <<p[1], p[2]>>
                                /\ p[1] \in DOMAIN lists /\ p[2] \in DOMAIN lists[p[1]]
                                /\ p[1] \in Nat /\ p[2] \in Nat
           /\ \A n \in DOMAIN lists : \A i \in DOMAIN lists[n] : <<n, i>> \in places
<1> DEFINE D == DOMAIN lists
           f == [n \in D |-> {n} \X DOMAIN lists[n]]
           T == {{n} \X DOMAIN lists[n] : n \in D}
<1>1. ASSUME NEW s, IsSeq(s) PROVE IsFiniteSet(DOMAIN s) /\ DOMAIN s \subseteq Nat
    <2>1. Len(s) \in Nat /\ DOMAIN s = 1 .. Len(s)
        BY <1>1, ListFacts
    <2>2. PICK one : one = 1
        OBVIOUS
    <2>3. one \in Int /\ Len(s) \in Int
        BY <2>1, <2>2
    <2>4. IsFiniteSet(one .. Len(s))
        BY <2>3, FS_Interval
    <2> QED BY <2>1, <2>2, <2>4
<1>2. places = UNION T
    BY Zenon DEF Places
<1>3. IsFiniteSet(T)
    <2>1. f \in Surjection(D, T)
        <3>1. f \in [D -> T]
            OBVIOUS
        <3>2. \A t \in T : \E n \in D : f[n] = t
            OBVIOUS
        <3> QED BY <3>1, <3>2 DEF Surjection
    <2>2. IsFiniteSet(D)
        BY <1>1
    <2> QED BY <2>1, <2>2, FS_Surjection
<1>4. \A t \in T : IsFiniteSet(t)
    <2> SUFFICES ASSUME NEW n \in D PROVE IsFiniteSet({n} \X DOMAIN lists[n])
        OBVIOUS
    <2>1. IsFiniteSet({n}) /\ IsFiniteSet(DOMAIN lists[n])
        BY <1>1, FS_Singleton
    <2> QED BY <2>1, FS_Product
<1>5. IsFiniteSet(places)
    BY <1>2, <1>3, <1>4, FS_UNION
<1>6. ASSUME NEW p \in places
      PROVE  /\ p = <<p[1], p[2]>>
             /\ p[1] \in D /\ p[2] \in DOMAIN lists[p[1]]
             /\ p[1] \in Nat /\ p[2] \in Nat
    <2>1. PICK n \in D : p \in {n} \X DOMAIN lists[n]
        BY <1>2
    <2>2. p = <<p[1], p[2]>> /\ p[1] \in D /\ p[2] \in DOMAIN lists[p[1]]
        BY <2>1
    <2> QED BY <1>1, <2>2
<1>7. ASSUME NEW n \in D, NEW i \in DOMAIN lists[n]
      PROVE  <<n, i>> \in places
    <2>1. <<n, i>> \in {n} \X DOMAIN lists[n]
        OBVIOUS
    <2> QED BY <1>2, <2>1
<1> QED BY <1>5, <1>6, <1>7

\* Some of the first numbers are finitely many.
LEMMA InitialFinite ==
    ASSUME NEW n \in Nat, NEW S, S \subseteq 1 .. n
    PROVE  IsFiniteSet(S)
<1>1. PICK one : one = 1
    OBVIOUS
<1>2. one \in Int /\ n \in Int
    BY <1>1
<1>3. IsFiniteSet(one .. n)
    BY <1>2, FS_Interval
<1> QED BY <1>1, <1>3, FS_Subset

\* Numbers are listed, all of them.
LEMMA AscendingFacts ==
    ASSUME NEW S \in SUBSET Nat, IsFiniteSet(S), NEW order, order = Ascending(S)
    PROVE  /\ order \in Seq(S) /\ IsSeq(order)
           /\ \A x \in S : \E k \in DOMAIN order : order[k] = x
<1> DEFINE before == {p \in S \X S : p[1] < p[2]}
<1>2. \A x, y \in S : <<x, y>> \in before <=> x < y
    OBVIOUS
<1> HIDE DEF before
<1>3. Orders(before, S)
    BY <1>2 DEF Orders
<1>4. order = Arranged(S, before)
    BY DEF Ascending, before
<1> QED BY <1>3, <1>4, ArrangedFacts, SequenceIsList

\* Which of two places is read first is an order of them.
LEMMA EarlierOrders ==
    ASSUME NEW places,
           \A p \in places : p = <<p[1], p[2]>> /\ p[1] \in Nat /\ p[2] \in Nat,
           NEW key, key \in [places -> Nat],
           NEW before,
           before = {pair \in places \X places :
                        \/ key[pair[1]] > key[pair[2]]
                        \/ key[pair[1]] = key[pair[2]] /\ Earlier(pair[1], pair[2])}
    PROVE  Orders(before, places)
<1>1. \A x, y \in places : <<x, y>> \in before <=>
          \/ key[x] > key[y]
          \/ key[x] = key[y] /\ (x[1] < y[1] \/ (x[1] = y[1] /\ x[2] < y[2]))
    BY DEF Earlier
<1>2. \A x \in places : key[x] \in Nat
    OBVIOUS
<1>3. \A x \in places : <<x, x>> \notin before
    BY <1>1, <1>2
<1>4. ASSUME NEW x \in places, NEW y \in places, NEW z \in places,
             <<x, y>> \in before, <<y, z>> \in before
      PROVE  <<x, z>> \in before
    <2>1. PICK a \in Nat, b \in Nat, c \in Nat : a = key[x] /\ b = key[y] /\ c = key[z]
        BY <1>2
    <2>2. PICK x1 \in Nat, x2 \in Nat, y1 \in Nat, y2 \in Nat, z1 \in Nat, z2 \in Nat :
              x1 = x[1] /\ x2 = x[2] /\ y1 = y[1] /\ y2 = y[2] /\ z1 = z[1] /\ z2 = z[2]
        OBVIOUS
    <2>3. a > b \/ (a = b /\ (x1 < y1 \/ (x1 = y1 /\ x2 < y2)))
        BY <1>1, <1>4, <2>1, <2>2
    <2>4. b > c \/ (b = c /\ (y1 < z1 \/ (y1 = z1 /\ y2 < z2)))
        BY <1>1, <1>4, <2>1, <2>2
    <2>5. a > c \/ (a = c /\ (x1 < z1 \/ (x1 = z1 /\ x2 < z2)))
        BY <2>3, <2>4
    <2> QED BY <1>1, <2>1, <2>2, <2>5
<1>5. ASSUME NEW x \in places, NEW y \in places, x # y
      PROVE  <<x, y>> \in before \/ <<y, x>> \in before
    <2>1. PICK a \in Nat, b \in Nat : a = key[x] /\ b = key[y]
        BY <1>2
    <2>2. PICK x1 \in Nat, x2 \in Nat, y1 \in Nat, y2 \in Nat :
              x1 = x[1] /\ x2 = x[2] /\ y1 = y[1] /\ y2 = y[2]
        OBVIOUS
    <2>3. x1 # y1 \/ x2 # y2
        BY <1>5, <2>2
    <2>4. \/ a > b \/ (a = b /\ (x1 < y1 \/ (x1 = y1 /\ x2 < y2)))
          \/ b > a \/ (b = a /\ (y1 < x1 \/ (y1 = x1 /\ y2 < x2)))
        BY <2>3
    <2> QED BY <1>1, <2>1, <2>2, <2>4
<1> QED BY <1>3, <1>4, <1>5 DEF Orders

\* What the configuration is known to hold.
LEMMA ConfigFacts ==
    ASSUME NEW c \in Configs
    PROVE  /\ IsSeq(c.peer)
           /\ \A n \in DOMAIN c.peer : PeerType(c.peer[n])
           /\ \A n \in DOMAIN c.peer : \A field \in {"allowed_ips", "excluded_ips"} :
                 /\ IsSeq(c.peer[n][field])
                 /\ \A i \in DOMAIN c.peer[n][field] : c.peer[n][field][i] \in Nets
<1>1. ConfigType(c)
    BY RouteAssumption
<1>2. IsSeq(c.peer) /\ \A n \in DOMAIN c.peer : PeerType(c.peer[n])
    BY <1>1 DEF ConfigType, IsSeq
<1>3. ASSUME NEW n \in DOMAIN c.peer, NEW field \in {"allowed_ips", "excluded_ips"}
      PROVE  /\ IsSeq(c.peer[n][field])
             /\ \A i \in DOMAIN c.peer[n][field] : c.peer[n][field][i] \in Nets
    <2>1. c.peer[n][field] \in Seq(Nets)
        BY <1>2 DEF PeerType
    <2> QED BY <2>1, SequenceIsList, LenProperties
<1> QED BY <1>2, <1>3

\* Every prefix in a list of a peer is among the sorted routes, with its peer,
\* nothing else is, and no route comes before a longer one.
LEMMA SortFacts ==
    ASSUME NEW c \in Configs, NEW field \in {"allowed_ips", "excluded_ips"},
           NEW s, s = sort_by_length(c, field)
    PROVE  /\ IsSeq(s)
           /\ \A k \in DOMAIN s : \E n \in DOMAIN c.peer : \E i \in DOMAIN c.peer[n][field] :
                 s[k] = Route(c.peer[n][field][i], peer_from_config(c.peer[n]))
           /\ \A n \in DOMAIN c.peer : \A i \in DOMAIN c.peer[n][field] : \E k \in DOMAIN s :
                 s[k] = Route(c.peer[n][field][i], peer_from_config(c.peer[n]))
           /\ \A k, l \in DOMAIN s : k < l => s[k].prefix.len >= s[l].prefix.len
<1> DEFINE lists == [n \in DOMAIN c.peer |-> c.peer[n][field]]
           places == Places(lists)
           prefix(p) == c.peer[p[1]][field][p[2]]
           key == [p \in places |-> prefix(p).len]
           before == {pair \in places \X places :
                        \/ key[pair[1]] > key[pair[2]]
                        \/ key[pair[1]] = key[pair[2]] /\ Earlier(pair[1], pair[2])}
           order == Arranged(places, before)
<1>1. IsSeq(lists) /\ \A n \in DOMAIN lists : IsSeq(lists[n])
    <2>1. Len(c.peer) \in Nat /\ DOMAIN c.peer = 1 .. Len(c.peer)
        BY ConfigFacts, ListFacts
    <2>2. lists \in [1 .. Len(c.peer) -> Range(lists)]
        BY <2>1 DEF Range
    <2>3. IsSeq(lists)
        BY <2>1, <2>2, SeqDef DEF IsSeq
    <2> QED BY <2>3, ConfigFacts
<1>2. /\ IsFiniteSet(places)
      /\ \A p \in places : /\ p = <<p[1], p[2]>>
                           /\ p[1] \in DOMAIN c.peer /\ p[2] \in DOMAIN c.peer[p[1]][field]
                           /\ p[1] \in Nat /\ p[2] \in Nat
      /\ \A n \in DOMAIN c.peer : \A i \in DOMAIN c.peer[n][field] : <<n, i>> \in places
    <2>1. /\ IsFiniteSet(places)
          /\ \A p \in places : /\ p = <<p[1], p[2]>>
                               /\ p[1] \in DOMAIN lists /\ p[2] \in DOMAIN lists[p[1]]
                               /\ p[1] \in Nat /\ p[2] \in Nat
          /\ \A n \in DOMAIN lists : \A i \in DOMAIN lists[n] : <<n, i>> \in places
        BY <1>1, PlacesFacts, Zenon
    <2> QED BY <2>1
<1>3. s = [k \in DOMAIN order |->
              Route(prefix(order[k]), peer_from_config(c.peer[order[k][1]]))]
    <2>1. before = {pair \in places \X places :
                      \/ prefix(pair[1]).len > prefix(pair[2]).len
                      \/ prefix(pair[1]).len = prefix(pair[2]).len /\ Earlier(pair[1], pair[2])}
        OBVIOUS
    <2> QED BY <2>1, Zenon DEF sort_by_length
<1> HIDE DEF places
<1>4. \A p \in places : prefix(p) \in Nets
    BY <1>2, ConfigFacts
<1>5. key \in [places -> Nat]
    <2>1. \A x \in Nets : x.len \in Nat
        BY DEF Nets
    <2>2. \A p \in places : prefix(p).len \in Nat
        BY <1>4, <2>1, Zenon
    <2> HIDE DEF prefix
    <2> QED BY <2>2
<1>6. Orders(before, places)
    BY <1>2, <1>5, EarlierOrders
<1>7. /\ order \in Seq(places)
      /\ \A x \in places : \E k \in DOMAIN order : order[k] = x
      /\ \A k, l \in DOMAIN order : k < l => <<order[k], order[l]>> \in before
    <2>1. PICK P : P = places
        OBVIOUS
    <2>2. PICK B : B = before
        OBVIOUS
    <2>3. PICK A : A = Arranged(P, B)
        OBVIOUS
    <2> HIDE DEF before
    <2>4. IsFiniteSet(P) /\ Orders(B, P)
        BY <1>2, <1>6, <2>1, <2>2
    <2>5. /\ A \in Seq(P)
          /\ \A x \in P : \E k \in DOMAIN A : A[k] = x
          /\ \A k, l \in DOMAIN A : k < l => <<A[k], A[l]>> \in B
        BY <2>3, <2>4, ArrangedFacts
    <2> QED BY <2>1, <2>2, <2>3, <2>5
<1> HIDE DEF order
<1>8. Len(order) \in Nat /\ DOMAIN order = 1 .. Len(order)
      /\ \A k \in DOMAIN order : order[k] \in places
    BY <1>7, LenProperties
<1>9. DOMAIN s = DOMAIN order
    BY <1>3
<1>10. IsSeq(s)
    <2>1. s \in [1 .. Len(order) -> Range(s)]
        BY <1>3, <1>8 DEF Range
    <2> QED BY <1>8, <2>1, SeqDef DEF IsSeq
<1>11. ASSUME NEW k \in DOMAIN s
       PROVE  \E n \in DOMAIN c.peer : \E i \in DOMAIN c.peer[n][field] :
                 s[k] = Route(c.peer[n][field][i], peer_from_config(c.peer[n]))
    BY <1>2, <1>3, <1>8
<1>12. ASSUME NEW n \in DOMAIN c.peer, NEW i \in DOMAIN c.peer[n][field]
       PROVE  \E k \in DOMAIN s :
                 s[k] = Route(c.peer[n][field][i], peer_from_config(c.peer[n]))
    <2>1. PICK k \in DOMAIN order : order[k] = <<n, i>>
        BY <1>2, <1>7, Zenon
    <2> QED BY <1>3, <2>1
<1>13. ASSUME NEW k \in DOMAIN s, NEW l \in DOMAIN s, k < l
       PROVE  s[k].prefix.len >= s[l].prefix.len
    <2>1. <<order[k], order[l]>> \in before
        BY <1>7, <1>9, <1>13, Zenon
    <2>2. order[k] \in places /\ order[l] \in places
        BY <1>8, <1>9
    <2>3. key[order[k]] >= key[order[l]]
        <3>1. PICK a \in Nat, b \in Nat : a = key[order[k]] /\ b = key[order[l]]
            BY <1>5, <2>2
        <3>2. a > b \/ a = b
            BY <2>1, <3>1
        <3>3. a >= b
            BY <3>2
        <3> QED BY <3>1, <3>3, Zenon
    <2>4. s[k].prefix = prefix(order[k]) /\ s[l].prefix = prefix(order[l])
        BY <1>3, <1>9 DEF Route
    <2> QED BY <2>2, <2>3, <2>4
<1> QED BY <1>10, <1>11, <1>12, <1>13

\* A function on the first numbers is a list.
LEMMA FunctionIsList ==
    ASSUME NEW n \in Nat, NEW f, f = [k \in 1 .. n |-> f[k]]
    PROVE  IsSeq(f) /\ DOMAIN f = 1 .. n
<1>1. f \in [1 .. n -> Range(f)]
    BY DEF Range
<1>2. f \in Seq(Range(f))
    BY <1>1, SeqDef
<1> QED BY <1>1, <1>2 DEF IsSeq

\* The router holds the prefixes of the configuration, longest first, and every
\* exclusion of a route's peer is among its exclusions, which are their peers'.
LEMMA RouterFacts ==
    ASSUME NEW c \in Configs, NEW r, r = new_router(c), r.built
    PROVE  /\ IsSeq(r.routes) /\ IsSeq(r.excluded_routes)
           /\ \A k \in DOMAIN r.routes :
                 /\ r.routes[k] # Absent /\ r.routes[k].prefix \in Nets
                 /\ \A i \in DOMAIN r.routes[k].peer.excluded_ips :
                       \E j \in DOMAIN r.excluded_routes :
                          r.excluded_routes[j].prefix = r.routes[k].peer.excluded_ips[i]
           /\ \A k \in DOMAIN r.excluded_routes :
                 /\ \E n \in DOMAIN c.peer : \E i \in DOMAIN c.peer[n].excluded_ips :
                       /\ r.excluded_routes[k].prefix = c.peer[n].excluded_ips[i]
                       /\ r.excluded_routes[k].prefix \in Nets
                 /\ \E i \in DOMAIN r.excluded_routes[k].peer.excluded_ips :
                       r.excluded_routes[k].prefix = r.excluded_routes[k].peer.excluded_ips[i]
           /\ \A k, l \in DOMAIN r.routes :
                 k < l => r.routes[k].prefix.len >= r.routes[l].prefix.len
<1>1. /\ r.routes = sort_by_length(c, "allowed_ips")
      /\ r.excluded_routes = sort_by_length(c, "excluded_ips")
    BY DEF new_router, NoRouter
<1>2. PICK s : s = r.routes
    OBVIOUS
<1>3. PICK x : x = r.excluded_routes
    OBVIOUS
<1>4. PICK field \in {"allowed_ips", "excluded_ips"} : field = "allowed_ips"
    OBVIOUS
<1>5. /\ IsSeq(s)
      /\ \A k \in DOMAIN s : \E n \in DOMAIN c.peer : \E i \in DOMAIN c.peer[n][field] :
            s[k] = Route(c.peer[n][field][i], peer_from_config(c.peer[n]))
      /\ \A k, l \in DOMAIN s : k < l => s[k].prefix.len >= s[l].prefix.len
    <2>1. s = sort_by_length(c, field)
        BY <1>1, <1>2, <1>4
    <2> QED BY <2>1, SortFacts
<1>6. /\ IsSeq(s)
      /\ \A k \in DOMAIN s : \E n \in DOMAIN c.peer : \E i \in DOMAIN c.peer[n].allowed_ips :
            s[k] = Route(c.peer[n].allowed_ips[i], peer_from_config(c.peer[n]))
      /\ \A k, l \in DOMAIN s : k < l => s[k].prefix.len >= s[l].prefix.len
    BY <1>4, <1>5
<1>7. PICK other \in {"allowed_ips", "excluded_ips"} : other = "excluded_ips"
    OBVIOUS
<1>8. /\ IsSeq(x)
      /\ \A k \in DOMAIN x : \E n \in DOMAIN c.peer : \E i \in DOMAIN c.peer[n][other] :
            x[k] = Route(c.peer[n][other][i], peer_from_config(c.peer[n]))
      /\ \A n \in DOMAIN c.peer : \A i \in DOMAIN c.peer[n][other] : \E k \in DOMAIN x :
            x[k] = Route(c.peer[n][other][i], peer_from_config(c.peer[n]))
    <2>1. x = sort_by_length(c, other)
        BY <1>1, <1>3, <1>7
    <2> QED BY <2>1, SortFacts
<1>9. /\ \A k \in DOMAIN x : \E n \in DOMAIN c.peer : \E i \in DOMAIN c.peer[n].excluded_ips :
            x[k] = Route(c.peer[n].excluded_ips[i], peer_from_config(c.peer[n]))
      /\ \A n \in DOMAIN c.peer : \A i \in DOMAIN c.peer[n].excluded_ips : \E k \in DOMAIN x :
            x[k] = Route(c.peer[n].excluded_ips[i], peer_from_config(c.peer[n]))
    BY <1>7, <1>8
<1>10. /\ \A n \in DOMAIN c.peer :
             /\ \A i \in DOMAIN c.peer[n].allowed_ips : c.peer[n].allowed_ips[i] \in Nets
             /\ \A i \in DOMAIN c.peer[n].excluded_ips : c.peer[n].excluded_ips[i] \in Nets
    <2> SUFFICES ASSUME NEW n \in DOMAIN c.peer
                 PROVE  /\ \A i \in DOMAIN c.peer[n].allowed_ips : c.peer[n].allowed_ips[i] \in Nets
                        /\ \A i \in DOMAIN c.peer[n].excluded_ips :
                              c.peer[n].excluded_ips[i] \in Nets
        OBVIOUS
    <2>1. /\ \A i \in DOMAIN c.peer[n][field] : c.peer[n][field][i] \in Nets
          /\ \A i \in DOMAIN c.peer[n][other] : c.peer[n][other][i] \in Nets
        BY ConfigFacts
    <2> QED BY <1>4, <1>7, <2>1
<1>11. ASSUME NEW k \in DOMAIN s
       PROVE  /\ s[k] # Absent /\ s[k].prefix \in Nets
              /\ \A i \in DOMAIN s[k].peer.excluded_ips : \E j \in DOMAIN x :
                    x[j].prefix = s[k].peer.excluded_ips[i]
    <2>1. PICK n \in DOMAIN c.peer : \E i \in DOMAIN c.peer[n].allowed_ips :
              s[k] = Route(c.peer[n].allowed_ips[i], peer_from_config(c.peer[n]))
        BY <1>6
    <2>1a. PICK i \in DOMAIN c.peer[n].allowed_ips :
              s[k] = Route(c.peer[n].allowed_ips[i], peer_from_config(c.peer[n]))
        BY <2>1
    <2>2. s[k] # Absent
        BY <2>1a, RouteAssumption
    <2>3. /\ s[k].prefix = c.peer[n].allowed_ips[i]
          /\ s[k].peer.excluded_ips = c.peer[n].excluded_ips
        BY <2>1a DEF Route, peer_from_config
    <2>4. ASSUME NEW e \in DOMAIN c.peer[n].excluded_ips
          PROVE  \E j \in DOMAIN x : x[j].prefix = c.peer[n].excluded_ips[e]
        <3>1. PICK j \in DOMAIN x :
                  x[j] = Route(c.peer[n].excluded_ips[e], peer_from_config(c.peer[n]))
            BY <1>9
        <3> QED BY <3>1 DEF Route
    <2> QED BY <1>10, <2>2, <2>3, <2>4
<1>12. ASSUME NEW k \in DOMAIN x
       PROVE  /\ \E n \in DOMAIN c.peer : \E i \in DOMAIN c.peer[n].excluded_ips :
                    x[k].prefix = c.peer[n].excluded_ips[i] /\ x[k].prefix \in Nets
              /\ \E i \in DOMAIN x[k].peer.excluded_ips :
                    x[k].prefix = x[k].peer.excluded_ips[i]
    <2>1. PICK n \in DOMAIN c.peer : \E i \in DOMAIN c.peer[n].excluded_ips :
              x[k] = Route(c.peer[n].excluded_ips[i], peer_from_config(c.peer[n]))
        BY <1>9
    <2>1a. PICK i \in DOMAIN c.peer[n].excluded_ips :
              x[k] = Route(c.peer[n].excluded_ips[i], peer_from_config(c.peer[n]))
        BY <2>1
    <2>2. /\ x[k].prefix = c.peer[n].excluded_ips[i]
          /\ x[k].peer.excluded_ips = c.peer[n].excluded_ips
        BY <2>1a DEF Route, peer_from_config
    <2> QED BY <1>10, <2>2
<1> QED BY <1>2, <1>3, <1>6, <1>8, <1>11, <1>12

\* lookup finds a route that admits the destination when there is one, and no
\* such route is longer.
LEMMA LookupFacts ==
    ASSUME NEW c \in Configs, NEW r, r = new_router(c), r.built,
           NEW a, NEW found, found = lookup(r, a)
    PROVE  /\ found = Absent => \A i \in DOMAIN r.routes : ~admits(r.routes[i], a)
           /\ found # Absent =>
                 /\ \E i \in DOMAIN r.routes : admits(r.routes[i], a) /\ found = r.routes[i]
                 /\ \A i \in DOMAIN r.routes :
                       admits(r.routes[i], a) => r.routes[i].prefix.len <= found.prefix.len
<1> DEFINE admitting == {i \in DOMAIN r.routes : admits(r.routes[i], a)}
<1>1. found = IF admitting = {} THEN Absent ELSE r.routes[Min(admitting)]
    BY Zenon DEF lookup
<1>2. Len(r.routes) \in Nat /\ DOMAIN r.routes = 1 .. Len(r.routes)
    BY RouterFacts, ListFacts
<1>3. CASE admitting = {}
    BY <1>1, <1>3
<1>4. CASE admitting # {}
    <2>1. admitting \in SUBSET Nat
        BY <1>2
    <2>2. PICK m : m = Min(admitting)
        OBVIOUS
    <2>3. m \in admitting /\ \A i \in admitting : m <= i
        BY <1>4, <2>1, <2>2, Least
    <2>4. found = r.routes[m] /\ m \in DOMAIN r.routes /\ admits(r.routes[m], a)
        BY <1>1, <1>4, <2>2, <2>3
    <2>5. found # Absent
        BY <2>4, RouterFacts
    <2>6. ASSUME NEW i \in admitting
          PROVE  r.routes[i].prefix.len <= found.prefix.len
        <3>1. i \in DOMAIN r.routes /\ i \in Nat /\ m \in Nat /\ m <= i
            BY <1>2, <2>3
        <3>2. r.routes[i].prefix.len \in Nat
            BY <3>1, RouterFacts DEF Nets
        <3>3. CASE m = i
            BY <2>4, <3>2, <3>3
        <3>4. CASE m < i
            <4>1. r.routes[m].prefix.len >= r.routes[i].prefix.len
                BY <2>4, <3>1, <3>4, RouterFacts
            <4>2. r.routes[m].prefix.len \in Nat
                BY <2>4, RouterFacts DEF Nets
            <4>3. PICK x \in Nat, y \in Nat :
                      x = r.routes[m].prefix.len /\ y = r.routes[i].prefix.len
                BY <3>2, <4>2
            <4>4. y <= x
                BY <4>1, <4>3
            <4> QED BY <2>4, <4>3, <4>4
        <3> QED BY <3>1, <3>3, <3>4
    <2> QED BY <2>4, <2>5, <2>6
<1> QED BY <1>3, <1>4

\* add_tun_route is called for every route, or its two halves, and for nothing else.
TunEntry(r, entry) ==
    \E i \in DOMAIN r.routes : \E h \in DOMAIN tun_prefixes(r.routes[i]) :
        entry = Entry("Tun", tun_prefixes(r.routes[i])[h])

LEMMA TunEntriesFacts ==
    ASSUME NEW r, IsSeq(r.routes), NEW e, e = tun_entries(r)
    PROVE  /\ IsSeq(e)
           /\ \A k \in DOMAIN e : TunEntry(r, e[k])
           /\ \A entry : TunEntry(r, entry) => \E k \in DOMAIN e : e[k] = entry
<1> DEFINE lists == [i \in DOMAIN r.routes |-> tun_prefixes(r.routes[i])]
           before == {p \in Places(lists) \X Places(lists) : Earlier(p[1], p[2])}
           prefix(p) == tun_prefixes(r.routes[p[1]])[p[2]]
<1>1. IsSeq(lists) /\ \A i \in DOMAIN lists : IsSeq(lists[i])
    <2>1. Len(r.routes) \in Nat /\ DOMAIN r.routes = 1 .. Len(r.routes)
        BY ListFacts
    <2>2. IsSeq(lists)
        <3>1. PICK n \in Nat : n = Len(r.routes)
            BY <2>1
        <3>2. PICK l : l = lists
            OBVIOUS
        <3>3. l = [k \in 1 .. n |-> l[k]]
            BY <2>1, <3>1, <3>2
        <3> QED BY <3>2, <3>3, FunctionIsList
    <2>3. ASSUME NEW i \in DOMAIN r.routes PROVE IsSeq(tun_prefixes(r.routes[i]))
        <3>1. PICK p : p = r.routes[i].prefix
            OBVIOUS
        <3>2. PICK low, high : low = Prefix(UNSPECIFIED, 1)
                               /\ high = Prefix([UNSPECIFIED EXCEPT ![1] = 1], 1)
            OBVIOUS
        <3>3. tun_prefixes(r.routes[i]) = << low, high >> \/ tun_prefixes(r.routes[i]) = << p >>
            BY <3>1, <3>2 DEF tun_prefixes
        <3>4. << low, high >> \in Seq({low, high}) /\ << p >> \in Seq({p})
            OBVIOUS
        <3> QED BY <3>3, <3>4, SequenceIsList
    <2> QED BY <2>2, <2>3
<1>2. PICK P : P = Places(lists)
    OBVIOUS
<1>3. /\ IsFiniteSet(P)
      /\ \A p \in P : /\ p = <<p[1], p[2]>>
                      /\ p[1] \in DOMAIN lists /\ p[2] \in DOMAIN lists[p[1]]
                      /\ p[1] \in Nat /\ p[2] \in Nat
      /\ \A n \in DOMAIN lists : \A i \in DOMAIN lists[n] : <<n, i>> \in P
    BY <1>1, <1>2, PlacesFacts
<1>4. PICK B : B = before
    OBVIOUS
<1>5. Orders(B, P)
    <2>1. PICK key : key = [p \in P |-> 0]
        OBVIOUS
    <2>2. key \in [P -> Nat]
        BY <2>1
    <2>3. B = {pair \in P \X P :
                 \/ key[pair[1]] > key[pair[2]]
                 \/ key[pair[1]] = key[pair[2]] /\ Earlier(pair[1], pair[2])}
        BY <1>2, <1>4, <2>1
    <2> QED BY <1>3, <2>2, <2>3, EarlierOrders
<1>6. PICK order : order = Arranged(P, B)
    OBVIOUS
<1>7. order \in Seq(P) /\ \A x \in P : \E k \in DOMAIN order : order[k] = x
    BY <1>3, <1>5, <1>6, ArrangedFacts
<1>8. Len(order) \in Nat /\ DOMAIN order = 1 .. Len(order)
      /\ \A k \in DOMAIN order : order[k] \in P
    BY <1>7, LenProperties
<1>9. e = [k \in DOMAIN order |-> Entry("Tun", prefix(order[k]))]
    BY <1>2, <1>4, <1>6 DEF tun_entries
<1>10. IsSeq(e) /\ DOMAIN e = DOMAIN order
    <2>1. PICK m \in Nat : m = Len(order)
        BY <1>8
    <2>2. e = [k \in 1 .. m |-> e[k]]
        BY <1>8, <1>9, <2>1
    <2> QED BY <1>8, <2>1, <2>2, FunctionIsList, Zenon
<1>11. ASSUME NEW k \in DOMAIN e
       PROVE  \E i \in DOMAIN r.routes : \E h \in DOMAIN tun_prefixes(r.routes[i]) :
                 e[k] = Entry("Tun", tun_prefixes(r.routes[i])[h])
    BY <1>3, <1>8, <1>9
<1>12. ASSUME NEW i \in DOMAIN r.routes, NEW h \in DOMAIN tun_prefixes(r.routes[i])
       PROVE  \E k \in DOMAIN e : e[k] = Entry("Tun", tun_prefixes(r.routes[i])[h])
    <2>1. PICK k \in DOMAIN order : order[k] = <<i, h>>
        BY <1>3, <1>7
    <2> QED BY <1>9, <2>1
<1> QED BY <1>10, <1>11, <1>12 DEF TunEntry

\* add_prefix_exception is called for every exclusion, and for nothing else.
LEMMA ExclusionEntriesFacts ==
    ASSUME NEW r, IsSeq(r.excluded_routes), NEW e, e = exclusion_entries(r)
    PROVE  /\ IsSeq(e)
           /\ \A k \in DOMAIN e : \E i \in DOMAIN r.excluded_routes :
                 e[k] = Entry("ExcludedPrefix", r.excluded_routes[i].prefix)
           /\ \A i \in DOMAIN r.excluded_routes : \E k \in DOMAIN e :
                 e[k] = Entry("ExcludedPrefix", r.excluded_routes[i].prefix)
<1> DEFINE prefix(i) == r.excluded_routes[i].prefix
           D == DOMAIN r.excluded_routes
           first == {i \in D : \A k \in 1 .. i - 1 : prefix(k) # prefix(i)}
<1>1. PICK n \in Nat : n = Len(r.excluded_routes) /\ D = 1 .. n
    BY ListFacts
<1>2. PICK S \in SUBSET (1 .. n) : S = first
    BY <1>1
<1>3. PICK order : order = Ascending(S)
    OBVIOUS
<1>4. /\ order \in Seq(S) /\ IsSeq(order)
      /\ \A x \in S : \E k \in DOMAIN order : order[k] = x
    <2>1. IsFiniteSet(S)
        BY InitialFinite, Zenon
    <2>2. S \in SUBSET Nat
        OBVIOUS
    <2> QED BY <1>3, <2>1, <2>2, AscendingFacts
<1>5. Len(order) \in Nat /\ DOMAIN order = 1 .. Len(order)
      /\ \A k \in DOMAIN order : order[k] \in D
    <2>1. \A k \in 1 .. Len(order) : order[k] \in S
        BY <1>4, LenProperties
    <2>2. S \subseteq D
        BY <1>1
    <2> QED BY <1>4, <2>1, <2>2, LenProperties
<1>6. e = [k \in DOMAIN order |-> Entry("ExcludedPrefix", prefix(order[k]))]
    BY <1>2, <1>3 DEF exclusion_entries
<1>7. IsSeq(e) /\ DOMAIN e = DOMAIN order
    <2>1. PICK m \in Nat : m = Len(order)
        BY <1>5
    <2>2. e = [k \in 1 .. m |-> e[k]]
        BY <1>5, <1>6, <2>1
    <2> QED BY <1>5, <2>1, <2>2, FunctionIsList, Zenon
<1>8. \A k \in DOMAIN e : \E i \in D : e[k] = Entry("ExcludedPrefix", prefix(i))
    BY <1>5, <1>6
<1>9. ASSUME NEW i \in D
      PROVE  \E k \in DOMAIN e : e[k] = Entry("ExcludedPrefix", prefix(i))
    <2> DEFINE same == {k \in D : prefix(k) = prefix(i)}
    <2>1. same \in SUBSET Nat /\ same # {}
        BY <1>1
    <2>2. PICK m : m = Min(same)
        OBVIOUS
    <2>3. m \in same /\ \A k \in same : m <= k
        BY <2>1, <2>2, Least
    <2>4. m \in S
        <3> SUFFICES ASSUME NEW k \in 1 .. m - 1, prefix(k) = prefix(m) PROVE FALSE
            BY <1>2, <2>3
        <3>1. k \in same
            BY <1>1, <2>3
        <3> QED BY <1>1, <2>3, <3>1
    <2>5. PICK k \in DOMAIN order : order[k] = m
        BY <1>4, <2>4
    <2> QED BY <1>6, <2>3, <2>5
<1> QED BY <1>7, <1>8, <1>9

\* The exception for the endpoint of a peer.
EndpointEntry(r, entry) ==
    \E i \in DOMAIN r.routes :
        /\ UsableV4(r.routes[i].peer.endpoint)
        /\ entry = Entry("EndpointException",
                         Prefix(r.routes[i].peer.endpoint.ip, AddressBits))

\* add_endpoint_exception is called for every endpoint that lookup would send
\* into the tunnel, and for nothing else.
LEMMA EndpointEntriesFacts ==
    ASSUME NEW r, IsSeq(r.routes), NEW e, e = endpoint_entries(r)
    PROVE  /\ IsSeq(e)
           /\ \A k \in DOMAIN e : EndpointEntry(r, e[k])
           /\ \A i \in DOMAIN r.routes :
                 UsableV4(r.routes[i].peer.endpoint)
                 /\ lookup(r, r.routes[i].peer.endpoint.ip) # Absent =>
                 \E k \in DOMAIN e :
                    e[k] = Entry("EndpointException",
                                 Prefix(r.routes[i].peer.endpoint.ip, AddressBits))
<1> DEFINE endpoint(i) == r.routes[i].peer.endpoint
           D == DOMAIN r.routes
           chosen == {i \in D : /\ UsableV4(endpoint(i)) /\ lookup(r, endpoint(i).ip) # Absent
                                /\ \A k \in 1 .. i - 1 :
                                      ~(UsableV4(endpoint(k)) /\ endpoint(k).ip = endpoint(i).ip)}
<1>1. PICK n \in Nat : n = Len(r.routes) /\ D = 1 .. n
    BY ListFacts
<1>2. PICK S \in SUBSET (1 .. n) : S = chosen
    BY <1>1
<1>3. PICK order : order = Ascending(S)
    OBVIOUS
<1>4. /\ order \in Seq(S) /\ IsSeq(order)
      /\ \A x \in S : \E k \in DOMAIN order : order[k] = x
    <2>1. IsFiniteSet(S)
        BY InitialFinite, Zenon
    <2>2. S \in SUBSET Nat
        OBVIOUS
    <2> QED BY <1>3, <2>1, <2>2, AscendingFacts
<1>5. Len(order) \in Nat /\ DOMAIN order = 1 .. Len(order)
      /\ \A k \in DOMAIN order : order[k] \in D /\ UsableV4(endpoint(order[k]))
    <2>1. \A k \in 1 .. Len(order) : order[k] \in S
        BY <1>4, LenProperties
    <2>2. \A i \in S : i \in D /\ UsableV4(endpoint(i))
        BY <1>2
    <2> QED BY <1>4, <2>1, <2>2, LenProperties
<1>6. e = [k \in DOMAIN order |->
              Entry("EndpointException", Prefix(endpoint(order[k]).ip, AddressBits))]
    <2>1. endpoint_exceptions(r) = EndpointsOf(r, S)
        BY <1>2 DEF endpoint_exceptions
    <2>2. endpoint_exceptions(r) = [k \in DOMAIN order |-> endpoint(order[k]).ip]
        BY <1>3, <2>1 DEF EndpointsOf
    <2> QED BY <2>2 DEF endpoint_entries
<1>7. IsSeq(e) /\ DOMAIN e = DOMAIN order
    <2>1. PICK m \in Nat : m = Len(order)
        BY <1>5
    <2>2. e = [k \in 1 .. m |-> e[k]]
        BY <1>5, <1>6, <2>1
    <2> QED BY <1>5, <2>1, <2>2, FunctionIsList, Zenon
<1>8. \A k \in DOMAIN e : EndpointEntry(r, e[k])
    BY <1>5, <1>6 DEF EndpointEntry
<1>9. ASSUME NEW i \in D, UsableV4(endpoint(i)), lookup(r, endpoint(i).ip) # Absent
      PROVE  \E k \in DOMAIN e :
                e[k] = Entry("EndpointException", Prefix(endpoint(i).ip, AddressBits))
    <2> DEFINE same == {k \in D : UsableV4(endpoint(k)) /\ endpoint(k).ip = endpoint(i).ip}
    <2>1. same \in SUBSET Nat /\ same # {}
        BY <1>1, <1>9
    <2>2. PICK m : m = Min(same)
        OBVIOUS
    <2>3. m \in same /\ \A k \in same : m <= k
        BY <2>1, <2>2, Least
    <2>4. m \in S
        <3>1. m \in D /\ UsableV4(endpoint(m)) /\ lookup(r, endpoint(m).ip) # Absent
            BY <1>9, <2>3
        <3>2. ASSUME NEW k \in 1 .. m - 1, UsableV4(endpoint(k)), endpoint(k).ip = endpoint(m).ip
              PROVE  FALSE
            <4>1. k \in same
                BY <1>1, <2>3, <3>1, <3>2
            <4> QED BY <1>1, <2>3, <4>1
        <3> QED BY <1>2, <3>1, <3>2
    <2>5. PICK k \in DOMAIN order : order[k] = m
        BY <1>4, <2>4
    <2> QED BY <1>6, <2>3, <2>5
<1> QED BY <1>7, <1>8, <1>9

\* One list after the other.
Joined(s, t, u) ==
    /\ IsSeq(u)
    /\ \A i \in DOMAIN s : i \in DOMAIN u /\ u[i] = s[i]
    /\ \A i \in DOMAIN t : \E k \in DOMAIN u : u[k] = t[i]
    /\ \A k \in DOMAIN u : \/ k \in DOMAIN s /\ u[k] = s[k]
                           \/ k > Len(s) /\ \E i \in DOMAIN t : u[k] = t[i]

LEMMA ConcatFacts ==
    ASSUME NEW s, IsSeq(s), NEW t, IsSeq(t), NEW u, u = s \o t
    PROVE  Joined(s, t, u)
<1>1. s \in Seq(Range(s) \cup Range(t)) /\ t \in Seq(Range(s) \cup Range(t))
    BY SeqMonotonic DEF IsSeq
<1>2. PICK m \in Nat, n \in Nat : m = Len(s) /\ n = Len(t) /\ DOMAIN s = 1 .. m /\ DOMAIN t = 1 .. n
    BY ListFacts
<1>3. /\ u \in Seq(Range(s) \cup Range(t)) /\ Len(u) = m + n
      /\ \A i \in 1 .. m + n : u[i] = IF i <= m THEN s[i] ELSE t[i - m]
    BY <1>1, <1>2, ConcatProperties
<1>4. IsSeq(u) /\ DOMAIN u = 1 .. m + n
    BY <1>3, SequenceIsList, LenProperties
<1>5. \A i \in 1 .. m : i \in 1 .. m + n /\ u[i] = s[i]
    BY <1>3
<1>6. ASSUME NEW i \in 1 .. n PROVE m + i \in 1 .. m + n /\ u[m + i] = t[i]
    <2>1. m + i \in 1 .. m + n /\ ~(m + i <= m) /\ (m + i) - m = i
        OBVIOUS
    <2> QED BY <1>3, <2>1
<1>7. ASSUME NEW k \in 1 .. m + n
      PROVE  \/ k \in 1 .. m /\ u[k] = s[k]
             \/ k > m /\ \E i \in 1 .. n : u[k] = t[i] /\ k = m + i
    <2>1. CASE k <= m
        <3>1. k \in 1 .. m
            BY <2>1
        <3> QED BY <1>5, <3>1
    <2>2. CASE k > m
        <3>1. PICK i \in 1 .. n : k = m + i
            BY <2>2
        <3> QED BY <1>6, <2>2, <3>1
    <2>3. k <= m \/ k > m
        OBVIOUS
    <2> QED BY <2>1, <2>2, <2>3
<1>9. \A i \in DOMAIN s : i \in DOMAIN u /\ u[i] = s[i]
    BY <1>2, <1>4, <1>5
<1>10. \A i \in DOMAIN t : \E k \in DOMAIN u : u[k] = t[i]
    BY <1>2, <1>4, <1>6
<1>11. ASSUME NEW k \in DOMAIN u
       PROVE  \/ k \in DOMAIN s /\ u[k] = s[k]
              \/ k > Len(s) /\ \E i \in DOMAIN t : u[k] = t[i]
    BY <1>2, <1>4, <1>7
<1> QED BY <1>4, <1>9, <1>10, <1>11 DEF Joined

\* What setup_inner adds: exclusions and endpoints first, then the tunnel's
\* routes; each for a reason, and none is forgotten.
LEMMA SetupOrderFacts ==
    ASSUME NEW c \in Configs, NEW r, r = new_router(c), r.built, NEW order, order = setup_order(r)
    PROVE  /\ IsSeq(order)
           /\ \A j \in DOMAIN order :
                 \/ \E i \in DOMAIN r.excluded_routes :
                       order[j] = Entry("ExcludedPrefix", r.excluded_routes[i].prefix)
                 \/ EndpointEntry(r, order[j]) \/ TunEntry(r, order[j])
           /\ \A j, k \in DOMAIN order : j < k /\ order[j].kind = "Tun" => order[k].kind = "Tun"
           /\ \A i \in DOMAIN r.excluded_routes : \E j \in DOMAIN order :
                 order[j] = Entry("ExcludedPrefix", r.excluded_routes[i].prefix)
           /\ \A i \in DOMAIN r.routes :
                 UsableV4(r.routes[i].peer.endpoint)
                 /\ lookup(r, r.routes[i].peer.endpoint.ip) # Absent =>
                 \E j \in DOMAIN order :
                    order[j] = Entry("EndpointException",
                                     Prefix(r.routes[i].peer.endpoint.ip, AddressBits))
           /\ \A entry : TunEntry(r, entry) => \E j \in DOMAIN order : order[j] = entry
<1>0. IsSeq(r.routes) /\ IsSeq(r.excluded_routes)
    BY RouterFacts
<1>1. PICK x : x = exclusion_entries(r)
    OBVIOUS
<1>2. PICK y : y = endpoint_entries(r)
    OBVIOUS
<1>3. PICK z : z = tun_entries(r)
    OBVIOUS
<1>4. PICK d : d = x \o y
    OBVIOUS
<1>5. order = d \o z
    BY <1>1, <1>2, <1>3, <1>4 DEF setup_order
<1>6. /\ IsSeq(x)
      /\ \A k \in DOMAIN x : \E i \in DOMAIN r.excluded_routes :
            x[k] = Entry("ExcludedPrefix", r.excluded_routes[i].prefix)
      /\ \A i \in DOMAIN r.excluded_routes : \E k \in DOMAIN x :
            x[k] = Entry("ExcludedPrefix", r.excluded_routes[i].prefix)
    BY <1>0, <1>1, ExclusionEntriesFacts
<1> DEFINE exception(i) == Entry("EndpointException",
                                 Prefix(r.routes[i].peer.endpoint.ip, AddressBits))
           needed(i) == UsableV4(r.routes[i].peer.endpoint)
                        /\ lookup(r, r.routes[i].peer.endpoint.ip) # Absent
<1>7. /\ IsSeq(y)
      /\ \A k \in DOMAIN y : EndpointEntry(r, y[k])
      /\ \A i \in DOMAIN r.routes : needed(i) => \E k \in DOMAIN y : y[k] = exception(i)
    BY <1>0, <1>2, EndpointEntriesFacts
<1>8. /\ IsSeq(z)
      /\ \A k \in DOMAIN z : TunEntry(r, z[k])
      /\ \A entry : TunEntry(r, entry) => \E k \in DOMAIN z : z[k] = entry
    BY <1>0, <1>3, TunEntriesFacts
<1> HIDE DEF exception, needed
<1>9. Joined(x, y, d)
    BY <1>4, <1>6, <1>7, ConcatFacts
<1>10. Joined(d, z, order)
    <2>1. IsSeq(d)
        BY <1>9 DEF Joined
    <2> QED BY <1>5, <1>8, <2>1, ConcatFacts
<1>11. ASSUME NEW k \in DOMAIN d
       PROVE  /\ \/ \E i \in DOMAIN r.excluded_routes :
                       d[k] = Entry("ExcludedPrefix", r.excluded_routes[i].prefix)
                 \/ EndpointEntry(r, d[k])
              /\ d[k].kind # "Tun"
    <2>1. \/ \E i \in DOMAIN r.excluded_routes :
                d[k] = Entry("ExcludedPrefix", r.excluded_routes[i].prefix)
          \/ EndpointEntry(r, d[k])
        BY <1>6, <1>7, <1>9 DEF Joined
    <2> QED BY <2>1 DEF Entry, EndpointEntry
<1>12. ASSUME NEW k \in DOMAIN z
       PROVE  TunEntry(r, z[k]) /\ z[k].kind = "Tun"
    BY <1>8 DEF Entry, TunEntry
<1>13. ASSUME NEW j \in DOMAIN order
       PROVE  \/ \E i \in DOMAIN r.excluded_routes :
                    order[j] = Entry("ExcludedPrefix", r.excluded_routes[i].prefix)
              \/ EndpointEntry(r, order[j]) \/ TunEntry(r, order[j])
    BY <1>10, <1>11, <1>12 DEF Joined
<1>14. ASSUME NEW j \in DOMAIN order, NEW k \in DOMAIN order, j < k, order[j].kind = "Tun"
       PROVE  order[k].kind = "Tun"
    <2>1. j \notin DOMAIN d
        BY <1>10, <1>11, <1>14 DEF Joined
    <2>2. Len(d) \in Nat /\ DOMAIN d = 1 .. Len(d) /\ Len(order) \in Nat
          /\ DOMAIN order = 1 .. Len(order)
        BY <1>9, <1>10, ListFacts DEF Joined
    <2>3. k \notin DOMAIN d
        BY <1>14, <2>1, <2>2
    <2> QED BY <1>10, <1>12, <2>3 DEF Joined
<1>15. \A i \in DOMAIN r.excluded_routes : \E j \in DOMAIN order :
           order[j] = Entry("ExcludedPrefix", r.excluded_routes[i].prefix)
    BY <1>6, <1>9, <1>10 DEF Joined
<1>16. \A i \in DOMAIN r.routes : needed(i) => \E j \in DOMAIN order : order[j] = exception(i)
    BY <1>7, <1>9, <1>10 DEF Joined
<1>17. \A entry : TunEntry(r, entry) => \E j \in DOMAIN order : order[j] = entry
    <2> SUFFICES ASSUME NEW entry, TunEntry(r, entry)
                 PROVE  \E j \in DOMAIN order : order[j] = entry
        OBVIOUS
    <2>1. PICK k \in DOMAIN z : z[k] = entry
        BY <1>8
    <2> QED BY <1>10, <2>1 DEF Joined
<1> QED BY <1>10, <1>13, <1>14, <1>15, <1>16, <1>17 DEF exception, needed, Joined

\* What validate has checked of a peer.
LEMMA ValidPeer ==
    ASSUME NEW c \in Configs, validate(c) = "ok", NEW n \in DOMAIN c.peer,
           NEW peer, peer = c.peer[n]
    PROVE  /\ PeerType(peer)
           /\ rebind_checks(c, peer) = "ok" /\ timeout_checks(peer) = "ok"
           /\ \A i \in DOMAIN peer.excluded_ips :
                 peer.excluded_ips[i] \in Nets /\ peer.excluded_ips[i].len # 0
                 /\ covered(peer, peer.excluded_ips[i])
<1>1. PeerType(peer)
    BY ConfigFacts
<1>2. peer_checks(c, n) = "ok"
    <2>1. PICK results : results = [k \in DOMAIN c.peer |-> peer_checks(c, k)]
        OBVIOUS
    <2>2. FirstError(results) = "ok"
        BY <2>1 DEF validate, ??
    <2>3. DOMAIN results = DOMAIN c.peer /\ DOMAIN c.peer \subseteq Nat
        <3>1. Len(c.peer) \in Nat /\ DOMAIN c.peer = 1 .. Len(c.peer)
            BY ConfigFacts, ListFacts
        <3> QED BY <2>1, <3>1
    <2>4. results[n] = "ok"
        BY <2>2, <2>3, AllPassed
    <2> QED BY <2>1, <2>4
<1>3. prefix_checks(peer) = "ok" /\ rebind_checks(c, peer) = "ok" /\ timeout_checks(peer) = "ok"
    BY <1>2 DEF peer_checks, ??
<1>4. ASSUME NEW i \in DOMAIN peer.excluded_ips
      PROVE  /\ peer.excluded_ips[i] \in Nets /\ peer.excluded_ips[i].len # 0
             /\ covered(peer, peer.excluded_ips[i])
    <2>1. PICK results : results = [k \in DOMAIN peer.excluded_ips |-> exclusion_checks(peer, k)]
        OBVIOUS
    <2>2. FirstError(results) = "ok"
        BY <1>3, <2>1 DEF prefix_checks, ??
    <2>3. peer.excluded_ips \in Seq(Nets)
        BY <1>1 DEF PeerType
    <2>4. peer.excluded_ips[i] \in Nets /\ DOMAIN results \subseteq Nat
        BY <2>1, <2>3, LenProperties
    <2>5. results[i] = "ok"
        BY <2>1, <2>2, <2>4, AllPassed
    <2>6. exclusion_checks(peer, i) = "ok"
        BY <2>1, <2>5
    <2>7. /\ Check(peer.excluded_ips[i].len = 0, "ExcludedDefaultRoute") = "ok"
          /\ Check(~covered(peer, peer.excluded_ips[i]), "ExcludedIpNotCovered") = "ok"
        BY <2>6 DEF exclusion_checks, ??
    <2> QED BY <2>4, <2>7 DEF Check
<1> QED BY <1>1, <1>3, <1>4

\* A peer that is given up is probed before.
LEMMA ProbedInTime ==
    ASSUME NEW c \in Configs, validate(c) = "ok", NEW n \in DOMAIN c.peer,
           recovery_timeout(c.peer[n], c.interface.transport) > 0
    PROVE  /\ c.peer[n].persistent_keepalive > 0
           /\ c.peer[n].persistent_keepalive < recovery_timeout(c.peer[n], c.interface.transport)
<1>1. PICK peer : peer = c.peer[n]
    OBVIOUS
<1>2. PeerType(peer) /\ rebind_checks(c, peer) = "ok" /\ timeout_checks(peer) = "ok"
    BY <1>1, ValidPeer
<1>3. PICK keepalive \in Nat, rebind \in Nat :
          keepalive = peer.persistent_keepalive /\ rebind = peer.udp_rebind_after
    BY <1>2 DEF PeerType
<1>4. PICK timeout \in Nat \cup {Absent} : timeout = peer.session_timeout
    BY <1>2 DEF PeerType
<1>5. PICK transport : transport = c.interface.transport
    OBVIOUS
<1>6. recovery_timeout(peer, transport) > 0
    BY <1>1, <1>5
<1>7. CASE transport = "udp" /\ rebind > 0
    <2>1. recovery_timeout(peer, transport) = rebind
        BY <1>3, <1>7 DEF recovery_timeout
    <2>2. Check(keepalive = 0, "UdpRebindRequiresKeepalive") = "ok"
          /\ Check(rebind <= keepalive, "UdpRebindTooSoon") = "ok"
        BY <1>2, <1>3, <1>7 DEF rebind_checks, ??
    <2>3. keepalive > 0 /\ keepalive < rebind
        BY <2>2 DEF Check
    <2> QED BY <1>1, <1>3, <1>5, <2>1, <2>3
<1>8. CASE ~(transport = "udp" /\ rebind > 0) /\ timeout # Absent
    <2>1. recovery_timeout(peer, transport) = timeout /\ timeout \in Nat
        BY <1>3, <1>4, <1>8 DEF recovery_timeout, effective_session_timeout
    <2>2. timeout \notin {Absent, 0}
        BY <1>6, <1>8, <2>1
    <2>3. Check(keepalive = 0, "SessionTimeoutRequiresKeepalive") = "ok"
          /\ Check(timeout <= keepalive, "SessionTimeoutTooSoon") = "ok"
        BY <1>2, <1>3, <1>4, <2>2 DEF timeout_checks, ??
    <2>4. keepalive > 0 /\ keepalive < timeout
        BY <2>1, <2>3 DEF Check
    <2> QED BY <1>1, <1>3, <1>5, <2>1, <2>4
<1>9. CASE ~(transport = "udp" /\ rebind > 0) /\ timeout = Absent
    <2>1. recovery_timeout(peer, transport) =
              IF transport = "tcp" /\ keepalive > 0
              THEN IF 3 * keepalive > 15 THEN 3 * keepalive ELSE 15 ELSE 0
        BY <1>3, <1>4, <1>9 DEF recovery_timeout, effective_session_timeout
    <2>2. transport = "tcp" /\ keepalive > 0
        BY <1>6, <2>1
    <2>3. keepalive < IF 3 * keepalive > 15 THEN 3 * keepalive ELSE 15
        BY <2>2
    <2> QED BY <1>1, <1>3, <1>5, <2>1, <2>2, <2>3
<1> QED BY <1>7, <1>8, <1>9

\* The gateway finds an MSS.
LEMMA MssFound ==
    ASSUME NEW c \in Configs, validate(c) = "ok", c.gateway # Absent
    PROVE  plan_mss(c) # Absent
<1>1. ConfigType(c)
    BY RouteAssumption
<1>2. PICK mtu \in Nat : mtu = c.interface.mtu
    BY <1>1 DEF ConfigType
<1>3. PICK mss \in Nat \cup {Absent} : mss = c.gateway.tcp_mss
    BY <1>1 DEF ConfigType
<1>4. interface_checks(c) = "ok" /\ gateway_checks(c) = "ok"
    BY DEF validate, ??
<1>5. mtu >= 576
    <2>1. Check(mtu < 576, "MtuTooSmall") = "ok"
        BY <1>2, <1>4 DEF interface_checks, ??, MIN_MTU
    <2> QED BY <2>1 DEF Check
<1>6. mss # Absent => mss >= 536 /\ mss <= mtu - 40
    <2>1. mss_checks(c) = "ok"
        BY <1>4 DEF gateway_checks, ??
    <2>2. ~(mss # Absent /\ (mss < 536 \/ mss > mtu - 40))
        BY <1>2, <1>3, <2>1 DEF mss_checks, Check, IPV4_MINIMUM_TCP_MSS, IPV4_TCP_HEADER_BYTES
    <2>3. mss # Absent => mss \in Nat
        BY <1>3
    <2> QED BY <2>2, <2>3
<1>7. PICK chosen : chosen = IF mss # Absent THEN mss ELSE mtu - 40
    OBVIOUS
<1>8. chosen \in Nat /\ mtu - 40 >= 0 /\ chosen >= 536 /\ chosen <= mtu - 40
    BY <1>3, <1>5, <1>6, <1>7
<1>9. plan_mss(c) = chosen
    BY <1>2, <1>3, <1>7, <1>8 DEF plan_mss, IPV4_MINIMUM_TCP_MSS, IPV4_TCP_HEADER_BYTES
<1> QED BY <1>8, <1>9, RouteAssumption

\* An exclusion is part of the address space, and of an allowed prefix.
LEMMA ExclusionInForce ==
    ASSUME NEW c \in Configs, validate(c) = "ok", NEW n \in DOMAIN c.peer,
           NEW peer, peer = c.peer[n], NEW k \in DOMAIN peer.excluded_ips
    PROVE  /\ \E a \in Address : ~contains(peer.excluded_ips[k], a)
           /\ \A a \in Address : contains(peer.excluded_ips[k], a) =>
                 \E i \in DOMAIN peer.allowed_ips : contains(peer.allowed_ips[i], a)
<1>1. PICK x \in Nets : x = peer.excluded_ips[k] /\ x.len # 0 /\ covered(peer, x)
    BY ValidPeer
<1>2. x.len \in 1 .. AddressBits /\ x.addr \in Address /\ 1 \in 1 .. AddressBits
    BY <1>1, AddressAssumption DEF Nets
<1>3. \E a \in Address : ~contains(x, a)
    <2>1. PICK bit \in {0, 1} : bit # x.addr[1]
        OBVIOUS
    <2>1a. PICK a : a = [x.addr EXCEPT ![1] = bit]
        OBVIOUS
    <2>2. x.addr \in [1 .. AddressBits -> {0, 1}]
        BY <1>2 DEF Address
    <2>3. a[1] # x.addr[1]
        BY <1>2, <2>1, <2>1a, <2>2
    <2>4. a \in Address
        BY <1>2, <2>1, <2>1a, <2>2 DEF Address
    <2>5. ~contains(x, a)
        <3>1. 1 \in 1 .. x.len
            BY <1>2
        <3>2. contains(x, a) => a[1] = x.addr[1]
            BY <3>1, Zenon DEF contains
        <3> QED BY <2>3, <3>2
    <2> QED BY <2>4, <2>5
<1>4. ASSUME NEW a \in Address, contains(x, a)
      PROVE  \E i \in DOMAIN peer.allowed_ips : contains(peer.allowed_ips[i], a)
    <2>1. PICK i \in DOMAIN peer.allowed_ips :
              peer.allowed_ips[i].len <= x.len /\ contains(peer.allowed_ips[i], network(x))
        BY <1>1 DEF covered
    <2>2. PICK p \in Nets : p = peer.allowed_ips[i]
        <3>1. PeerType(peer)
            BY ValidPeer
        <3>2. peer.allowed_ips \in Seq(Nets)
            BY <3>1 DEF PeerType
        <3> QED BY <3>2, LenProperties
    <2>3. p.len \in 0 .. AddressBits /\ p.len <= x.len
        BY <2>1, <2>2 DEF Nets
    <2>4. ASSUME NEW j \in 1 .. p.len PROVE a[j] = p.addr[j]
        <3>1. j \in 1 .. x.len /\ j \in 1 .. AddressBits /\ j <= x.len
            <4>1. PICK l \in Nat, m \in Nat : l = p.len /\ m = x.len /\ l <= m /\ m <= AddressBits
                BY <1>2, <2>3
            <4>2. j \in 1 .. l
                BY <4>1
            <4>3. j \in 1 .. m /\ j \in 1 .. AddressBits /\ j <= m
                BY <4>1, <4>2, AddressAssumption
            <4> QED BY <4>1, <4>3
        <3>2. network(x)[j] = p.addr[j]
            <4>1. contains(p, network(x))
                BY <2>1, <2>2
            <4> QED BY <4>1, Zenon DEF contains
        <3>3. network(x)[j] = x.addr[j]
            BY <3>1 DEF network
        <3>4. a[j] = x.addr[j]
            BY <1>4, <3>1 DEF contains
        <3> QED BY <3>2, <3>3, <3>4
    <2> QED BY <2>2, <2>4 DEF contains
<1> QED BY <1>1, <1>3, <1>4

----------------------------------------------------------------------------
\* The configuration stays the one that Config::load has accepted.
ConfigLoaded ==
    /\ config \in Configs /\ host \in HostTables
    /\ Accepted => validate(config) = "ok"

\* No step changes it, and none but LoadConfig goes past the check.
LEMMA ConfigStep == ConfigLoaded /\ [DaemonNext]_daemonVars => ConfigLoaded'
<1> SUFFICES ASSUME ConfigLoaded, [DaemonNext]_daemonVars PROVE ConfigLoaded'
    OBVIOUS
<1>1. UNCHANGED <<config, host>> /\ (Accepted' => Accepted \/ validate(config) = "ok")
    <2>1. ASSUME NEW code, Ends(code) PROVE UNCHANGED <<config, host>> /\ ~Accepted'
        BY <2>1 DEF Ends, Accepted
    <2>2. CASE LoadConfig \/ BuildRouter \/ RoutesFailed \/ Exit
        BY <2>1, <2>2 DEF LoadConfig, BuildRouter, RoutesFailed, Exit, NewRouter,
                         routeVars, Accepted
    <2>3. CASE CreateFails \/ FirewallFails \/ StartFails \/ EarlySignal \/ Kill
        BY <2>1, <2>3 DEF CreateFails, FirewallFails, StartFails, EarlySignal, Kill
    <2>4. CASE CreateTun \/ Bind \/ RoutesUp \/ enable_ip_forward \/ FirewallUp \/ Register
               \/ StartThreads \/ Unrouted \/ RestoreForward \/ Signal
        BY <2>4 DEF CreateTun, Bind, RoutesUp, enable_ip_forward, FirewallUp, Register,
                    StartThreads, Unrouted, RestoreForward, Signal, Goes, BeginSetup, SetupDone,
                    CleanupDone, BeginCleanup, routeVars, Accepted
    <2>5. CASE SetUpRoutes \/ Unroute
        BY <2>5 DEF SetUpRoutes, Unroute, AddRoute, AddFails, DeleteRoute, CleanupDone,
                    KilledBefore, KilledAfter, Accepted
    <2>6. CASE add_iptables_rule \/ del_iptables_rule \/ UNCHANGED daemonVars
        BY <2>6 DEF add_iptables_rule, del_iptables_rule, daemonVars, routeVars, Accepted
    <2>7. CASE Restart
        BY <2>7 DEF Restart, Goes, routeVars, Accepted
    <2> QED BY <2>2, <2>3, <2>4, <2>5, <2>6, <2>7 DEF DaemonNext, Progress
<1> QED BY <1>1 DEF ConfigLoaded

\* It holds throughout.
LEMMA ConfigSafe == DaemonSpec => []ConfigLoaded
<1>1. DaemonInit => ConfigLoaded
    BY DEF DaemonInit, RouteInit, ConfigLoaded, Accepted
<1> QED BY <1>1, ConfigStep, PTL DEF DaemonSpec

\* Every configuration that validate accepts can be used by the parts that rely
\* on it: no peer is given up before it is probed, the gateway finds an MSS, and
\* every exclusion is in force.
THEOREM ValidConfigurations == DaemonSpec => []ValidIsUsable
<1>1. ASSUME ConfigLoaded PROVE ValidIsUsable
    <2>1. CASE ~Accepted
        BY <2>1 DEF ValidIsUsable, ProbedBeforeTimeout, PlanFeasible, ExclusionsInForce
    <2>2. CASE Accepted
        <3>1. config \in Configs /\ validate(config) = "ok"
            BY <1>1, <2>2 DEF ConfigLoaded
        <3>2. ProbedBeforeTimeout
            BY <3>1, ProbedInTime DEF ProbedBeforeTimeout
        <3>3. PlanFeasible
            BY <3>1, MssFound DEF PlanFeasible
        <3>4. ExclusionsInForce
            BY <3>1, ExclusionInForce DEF ExclusionsInForce
        <3> QED BY <3>2, <3>3, <3>4 DEF ValidIsUsable
    <2> QED BY <2>1, <2>2
<1> QED BY <1>1, ConfigSafe, PTL

----------------------------------------------------------------------------
\* Two prefixes without host bits, of the same length and around the same
\* address, are the same.
LEMMA SamePrefix ==
    ASSUME NEW p, NEW q, p = trunc(p), q = trunc(q), NEW n \in Nat, p.len = n, q.len = n,
           NEW a, contains(p, a), contains(q, a)
    PROVE  p = q
<1>1. p = [addr |-> network(p), len |-> n] /\ q = [addr |-> network(q), len |-> n]
    BY DEF trunc, Prefix
<1>2. ASSUME NEW i \in 1 .. AddressBits, i <= n PROVE p.addr[i] = q.addr[i]
    <2>1. i \in 1 .. n
        BY <1>2
    <2>2. a[i] = p.addr[i] /\ a[i] = q.addr[i]
        BY <2>1 DEF contains
    <2> QED BY <2>2
<1>3. network(p) = network(q)
    BY <1>2 DEF network
<1> QED BY <1>1, <1>3

\* A tunnel's route is its router's, or half of a full tunnel.
LEMMA TunPrefixFacts ==
    ASSUME NEW route, NEW net \in Nets, net = route.prefix,
           NEW h \in DOMAIN tun_prefixes(route), NEW p, p = tun_prefixes(route)[h]
    PROVE  /\ p \in Nets /\ p.len > 0
           /\ p.len = net.len \/ (net.len = 0 /\ p.len = 1)
           /\ \A a : contains(p, a) => contains(net, a)
<1>0. net.len \in 0 .. AddressBits /\ 1 \in 1 .. AddressBits /\ 1 \in 0 .. AddressBits
    BY AddressAssumption DEF Nets
<1>1. CASE net.len = 0
    <2>1. PICK low, high : low = Prefix(UNSPECIFIED, 1)
                           /\ high = Prefix([UNSPECIFIED EXCEPT ![1] = 1], 1)
        OBVIOUS
    <2>2. tun_prefixes(route) = << low, high >>
        BY <1>1, <2>1 DEF tun_prefixes
    <2>3. p = low \/ p = high
        BY <2>2
    <2>4. low \in Nets /\ high \in Nets /\ low.len = 1 /\ high.len = 1
        <3>1. UNSPECIFIED \in Address
            BY DEF UNSPECIFIED, Address
        <3>2. [UNSPECIFIED EXCEPT ![1] = 1] \in Address
            BY <3>1 DEF Address
        <3> QED BY <1>0, <2>1, <3>1, <3>2 DEF Nets, Prefix
    <2>5. \A a : contains(net, a)
        BY <1>1 DEF contains
    <2> QED BY <1>1, <2>3, <2>4, <2>5
<1>2. CASE net.len # 0
    <2>1. tun_prefixes(route) = << net >>
        BY <1>2 DEF tun_prefixes
    <2>2. p = net
        BY <2>1
    <2> QED BY <1>0, <1>2, <2>2
<1> QED BY <1>1, <1>2

\* The halves make the whole.
LEMMA TunPrefixesCover ==
    ASSUME NEW route, NEW net \in Nets, net = route.prefix, NEW a \in Address, contains(net, a)
    PROVE  \E h \in DOMAIN tun_prefixes(route) : contains(tun_prefixes(route)[h], a)
<1>1. CASE net.len = 0
    <2>1. PICK low, high : low = Prefix(UNSPECIFIED, 1)
                           /\ high = Prefix([UNSPECIFIED EXCEPT ![1] = 1], 1)
        OBVIOUS
    <2>2. tun_prefixes(route) = << low, high >>
        BY <1>1, <2>1 DEF tun_prefixes
    <2>3. 1 \in 1 .. AddressBits
        BY AddressAssumption
    <2>4. a[1] = 0 \/ a[1] = 1
        BY <2>3 DEF Address
    <2>5. low.len = 1 /\ high.len = 1 /\ low.addr[1] = 0 /\ high.addr[1] = 1
        BY <2>1, <2>3 DEF Prefix, UNSPECIFIED
    <2>6. contains(low, a) \/ contains(high, a)
        BY <2>4, <2>5 DEF contains
    <2> QED BY <2>2, <2>6
<1>2. CASE net.len # 0
    <2>1. tun_prefixes(route) = << net >>
        BY <1>2 DEF tun_prefixes
    <2> QED BY <2>1
<1> QED BY <1>1, <1>2

----------------------------------------------------------------------------
\* What setup_inner has been given to do.
Plan == setup_order(new_router(config))

RouterBuilt ==
    /\ router = IF phase = "start" THEN NoRouter ELSE new_router(config)
    /\ phase # "start" => router.built

\* The installed routes are the first of the plan, and setup goes on with the rest.
FollowsPlan ==
    phase # "start" =>
        /\ Len(installed) <= Len(Plan)
        /\ \A i \in DOMAIN installed :
              installed[i].kind = Plan[i].kind /\ installed[i].prefix = Plan[i].prefix
        /\ phase = "setup" =>
              /\ IsSeq(todo) /\ Len(todo) = Len(Plan) - Len(installed)
              /\ \A i \in DOMAIN todo : todo[i] = Plan[Len(installed) + i]
        /\ phase = "up" => Len(installed) = Len(Plan)

\* The tunnel's routes are on its device, and no other, unless an exception is
\* for its own network.  No two have the same prefix.
OnePerPrefix ==
    \A i \in DOMAIN installed :
        /\ installed[i].kind = "Tun" => installed[i].dev = Tun
        /\ OffDevice /\ installed[i].dev = Tun => installed[i].kind = "Tun"
        /\ installed[i].prefix = trunc(installed[i].prefix)
        /\ \A k \in DOMAIN installed : installed[i].prefix = installed[k].prefix => i = k

\* They are in the kernel, but for the one whose deletion is being tried again.
InPlace ==
    /\ \A i \in DOMAIN installed :
          i < Len(installed) \/ attempt = 1 =>
              [prefix |-> installed[i].prefix, dev |-> installed[i].dev] \in kernel
    /\ phase \notin {"cleanup", "down"} => attempt = 1
    /\ 0 < attempt /\ attempt <= ipKills + 1

\* Every route on the device is known, to the end, and every other one that is
\* not the host's has been planned, by this process or by an earlier one.
Origin ==
    /\ \A r \in kernel : r.dev = Tun => \E i \in DOMAIN installed :
           installed[i].prefix = r.prefix /\ installed[i].dev = Tun
    /\ \A r \in kernel \ host : r.dev # Tun =>
           /\ r.prefix = trunc(r.prefix)
           /\ new_router(config).built
           /\ \E j \in DOMAIN Plan : Plan[j].kind # "Tun" /\ r.prefix = Plan[j].prefix

RouteInv == RouterBuilt /\ FollowsPlan /\ OnePerPrefix /\ InPlace /\ Origin

\* The plan of a configuration that has a router.
LEMMA PlanFacts ==
    ASSUME ConfigLoaded, new_router(config).built
    PROVE  /\ IsSeq(Plan) /\ Len(Plan) \in Nat /\ DOMAIN Plan = 1 .. Len(Plan)
           /\ \A j, k \in DOMAIN Plan : j < k /\ Plan[j].kind = "Tun" => Plan[k].kind = "Tun"
<1>1. IsSeq(Plan) /\ \A j, k \in DOMAIN Plan : j < k /\ Plan[j].kind = "Tun" => Plan[k].kind = "Tun"
    <2>1. PICK r : r = new_router(config)
        OBVIOUS
    <2>2. PICK order : order = setup_order(r)
        OBVIOUS
    <2>3. config \in Configs /\ r.built
        BY <2>1 DEF ConfigLoaded
    <2>4. /\ IsSeq(order)
          /\ \A j, k \in DOMAIN order : j < k /\ order[j].kind = "Tun" => order[k].kind = "Tun"
        BY <2>1, <2>2, <2>3, SetupOrderFacts
    <2> QED BY <2>1, <2>2, <2>4 DEF Plan
<1> QED BY <1>1, ListFacts

\* The end of the process takes its routes and all that it knew.
LEMMA EndsRoutes ==
    ASSUME DaemonInv, RouteInv, NEW code, Ends(code)
    PROVE  RouteInv'
<1>1. /\ phase' = "start" /\ router' = NoRouter /\ installed' = <<>> /\ attempt' = 1
      /\ kernel' = {r \in kernel : r.dev # Tun}
      /\ UNCHANGED <<config, host, ipKills>>
    BY DEF Ends
<1>2. DOMAIN installed' = {}
    BY <1>1, EmptyList
<1>3. RouterBuilt' /\ FollowsPlan'
    BY <1>1 DEF RouterBuilt, FollowsPlan
<1>4. OnePerPrefix' /\ InPlace'
    BY <1>1, <1>2 DEF OnePerPrefix, InPlace, DaemonInv, Typed
<1>5. Plan' = Plan
    BY <1>1 DEF Plan
<1>6. Origin'
    BY <1>1, <1>5 DEF RouteInv, Origin
<1> QED BY <1>3, <1>4, <1>6 DEF RouteInv

\* OffDevice is about the router and the configuration.
LEMMA OffDeviceKept ==
    ASSUME UNCHANGED <<config, router>>
    PROVE  OffDevice' = OffDevice
    BY Zenon DEF OffDevice, OwnNetwork

\* A step that changes no route.
LEMMA PhasesKeepRoutes ==
    ASSUME DaemonInv, ConfigLoaded, RouteInv,
           ipKills' = ipKills \/ (ipKills < MaxIpKills /\ ipKills' = ipKills + 1),
           UNCHANGED <<config, host, kernel, installed, attempt>>,
           \/ UNCHANGED <<router, phase, todo>>
           \/ phase = "start" /\ phase' = "built" /\ router' = new_router(config) /\ router'.built
           \/ /\ UNCHANGED router
              /\ \/ phase = "built" /\ phase' = "setup" /\ todo' = setup_order(router)
                 \/ phase = "setup" /\ phase' = "rollback"
                 \/ phase = "setup" /\ phase' = "up" /\ todo = <<>>
                 \/ phase = "up" /\ phase' = "cleanup"
                 \/ phase = "rollback" /\ phase' = "failed"
                 \/ phase = "cleanup" /\ phase' = "down"
    PROVE  RouteInv'
<1>1. Plan' = Plan
    BY DEF Plan
<1>2. RouterBuilt'
    BY DEF RouteInv, RouterBuilt
<1>3. phase \in {"start", "built"} => installed = <<>>
    BY DEF DaemonInv, Stages, NoneKnown, Before, Creating, Serving, Down
<1>4. FollowsPlan'
    <2> SUFFICES ASSUME phase' # "start" PROVE FollowsPlan'
        BY DEF FollowsPlan
    <2>1. /\ IsSeq(Plan) /\ Len(Plan) \in Nat
          /\ IsSeq(installed) /\ Len(installed) \in Nat
        <3>1. new_router(config).built
            BY DEF RouteInv, RouterBuilt
        <3> QED BY <3>1, PlanFacts, ListFacts DEF DaemonInv, Typed
    <2>2. CASE UNCHANGED <<router, phase, todo>>
        BY <1>1, <2>2 DEF RouteInv, FollowsPlan
    <2>3. CASE phase = "start" /\ phase' = "built"
        <3>1. installed' = <<>> /\ DOMAIN installed' = {} /\ Len(installed') = 0
            BY <1>3, <2>3, EmptyList
        <3> QED BY <1>1, <2>1, <2>3, <3>1 DEF FollowsPlan
    <2>4. CASE phase = "built" /\ phase' = "setup" /\ todo' = setup_order(router)
        <3>1. installed' = <<>> /\ DOMAIN installed' = {} /\ Len(installed') = 0
            BY <1>3, <2>4, EmptyList
        <3>2. todo' = Plan
            BY <2>4 DEF RouteInv, RouterBuilt, Plan
        <3>3. DOMAIN Plan = 1 .. Len(Plan)
            BY <2>1, ListFacts
        <3>4. Len(todo') = Len(Plan) - Len(installed')
            BY <2>1, <3>1, <3>2
        <3>5. \A i \in DOMAIN todo' : todo'[i] = Plan[Len(installed') + i]
            BY <2>1, <3>1, <3>2, <3>3
        <3> QED BY <1>1, <2>1, <2>4, <3>1, <3>2, <3>4, <3>5 DEF FollowsPlan
    <2>5. CASE phase = "setup" /\ phase' = "up" /\ todo = <<>>
        <3>1. FollowsPlan /\ Len(todo) = 0
            BY <2>5, EmptyList DEF RouteInv
        <3>2. Len(installed) = Len(Plan)
            BY <2>1, <2>5, <3>1 DEF FollowsPlan
        <3> QED BY <1>1, <2>5, <3>1, <3>2 DEF FollowsPlan
    <2>6. CASE phase # "start" /\ phase' \notin {"setup", "up"}
        BY <1>1, <2>6 DEF RouteInv, FollowsPlan
    <2> QED BY <2>2, <2>3, <2>4, <2>5, <2>6
<1>5. OnePerPrefix'
    <2>1. CASE UNCHANGED router
        BY <2>1, OffDeviceKept DEF RouteInv, OnePerPrefix
    <2>2. CASE phase = "start"
        <3>1. installed' = <<>> /\ DOMAIN installed' = {}
            BY <1>3, <2>2, EmptyList
        <3> QED BY <3>1 DEF OnePerPrefix
    <2> QED BY <2>1, <2>2
<1>6. InPlace' /\ Origin'
    <2>1. ipKills \in Nat /\ attempt \in Nat
        BY DEF DaemonInv, Typed
    <2>2. InPlace'
        BY <2>1 DEF RouteInv, InPlace
    <2> QED BY <1>1, <2>2 DEF RouteInv, Origin
<1> QED BY <1>2, <1>4, <1>5, <1>6 DEF RouteInv

\* A prefix and its network hold the same addresses.
LEMMA TruncContains ==
    ASSUME NEW net \in Nets, NEW a, contains(trunc(net), a)
    PROVE  contains(net, a)
<1>1. PICK n \in 0 .. AddressBits : n = net.len
    BY DEF Nets
<1>2. ASSUME NEW i \in 1 .. n PROVE a[i] = net.addr[i]
    <2>1. i \in 1 .. AddressBits /\ i <= n
        BY <1>1, AddressAssumption
    <2>2. network(net)[i] = net.addr[i]
        BY <1>1, <2>1 DEF network
    <2>3. a[i] = network(net)[i]
        BY <1>1 DEF contains, trunc, Prefix
    <2> QED BY <2>2, <2>3
<1> QED BY <1>1, <1>2 DEF contains

\* What the device's network does not hold goes into the tunnel by a route that
\* `ip' has added.
LEMMA OutsideOwn ==
    ASSUME ConfigLoaded, NEW a, ~OwnNetwork(a), Tun \in DevicesTo(a)
    PROVE  \E r \in KernelRoutes(kernel, a) : r.dev = Tun
<1>1. config.interface.address \in Nets /\ Loopback # Tun
    BY RouteAssumption DEF ConfigLoaded, ConfigType
<1>2. PICK r \in KernelRoutes(Table, a) : r.dev = Tun
    BY <1>1 DEF DevicesTo
<1>3. /\ r \in Table /\ contains(r.prefix, a)
      /\ \A q \in Table : contains(q.prefix, a) => q.prefix.len <= r.prefix.len
    BY DEF KernelRoutes
<1>4. ASSUME r \in connected PROVE FALSE
    <2>1. r.prefix = trunc(config.interface.address)
        BY <1>4 DEF connected
    <2> QED BY <1>1, <1>3, <2>1, TruncContains DEF OwnNetwork
<1>5. r \in KernelRoutes(kernel, a)
    BY <1>3, <1>4 DEF Table, KernelRoutes
<1> QED BY <1>2, <1>5

\* Away from the device's network, no exception is probed inside of it.
LEMMA ProbedOutside ==
    ASSUME ConfigLoaded, RouteInv, phase # "start", OffDevice,
           NEW j \in DOMAIN Plan, Plan[j].kind # "Tun"
    PROVE  ~OwnNetwork(Probe(Plan[j]))
<1>1. PICK t : t = router
    OBVIOUS
<1>2. config \in Configs /\ t = new_router(config) /\ t.built /\ Plan = setup_order(t)
    BY <1>1 DEF ConfigLoaded, RouteInv, RouterBuilt, Plan
<1>3. PICK e : e = Plan[j]
    OBVIOUS
<1>4. \/ \E i \in DOMAIN t.excluded_routes :
            e = Entry("ExcludedPrefix", t.excluded_routes[i].prefix)
      \/ EndpointEntry(t, e) \/ TunEntry(t, e)
    BY <1>2, <1>3, SetupOrderFacts
<1>5. CASE \E i \in DOMAIN t.excluded_routes :
              e = Entry("ExcludedPrefix", t.excluded_routes[i].prefix)
    BY <1>1, <1>3, <1>5, Zenon DEF OffDevice
<1>6. CASE EndpointEntry(t, e)
    <2>1. PICK i \in DOMAIN t.routes :
              /\ UsableV4(t.routes[i].peer.endpoint)
              /\ e = Entry("EndpointException", Prefix(t.routes[i].peer.endpoint.ip, AddressBits))
        BY <1>6 DEF EndpointEntry
    <2>2. PICK ip : ip = t.routes[i].peer.endpoint.ip
        OBVIOUS
    <2>3. ~OwnNetwork(ip)
        BY <1>1, <2>1, <2>2, Zenon DEF OffDevice
    <2>4. e.kind = "EndpointException" /\ e.prefix = Prefix(ip, AddressBits)
        BY <2>1, <2>2 DEF Entry
    <2>5. Probe(e) = network(Prefix(ip, AddressBits))
        BY <2>4 DEF Probe
    <2>6. PICK own \in Nets : own = config.interface.address
        BY <1>2, RouteAssumption DEF ConfigType
    <2>7. PICK n \in 0 .. AddressBits : n = own.len
        BY <2>6 DEF Nets
    <2>8. ASSUME NEW b \in 1 .. n PROVE Probe(e)[b] = ip[b]
        <3>1. b \in 1 .. AddressBits /\ b <= AddressBits
            BY AddressAssumption
        <3>2. network(Prefix(ip, AddressBits))[b] = ip[b]
            BY <3>1 DEF network, Prefix
        <3> QED BY <2>5, <3>2
    <2>9. contains(own, Probe(e)) => contains(own, ip)
        BY <2>7, <2>8 DEF contains
    <2> QED BY <1>3, <2>3, <2>6, <2>9 DEF OwnNetwork
<1>7. CASE TunEntry(t, e)
    BY <1>3, <1>7 DEF TunEntry, Entry
<1> QED BY <1>4, <1>5, <1>6, <1>7

\* A route is added as planned: exceptions before there is a route on the device.
LEMMA AddKeepsRoutes ==
    ASSUME DaemonInv, ConfigLoaded, RouteInv, AddRoute
    PROVE  RouteInv'
<1>1. /\ phase = "setup" /\ todo # <<>> /\ todo' = Tail(todo)
      /\ UNCHANGED <<config, router, host, phase, attempt, ipKills>>
    BY DEF AddRoute
<1>2. PICK dev \in Devices(Head(todo)) :
          /\ CanAdd(Head(todo).prefix)
          /\ kernel' = kernel \cup {[prefix |-> Head(todo).prefix, dev |-> dev]}
          /\ installed' = Append(installed, [kind |-> Head(todo).kind,
                                             prefix |-> Head(todo).prefix, dev |-> dev])
    BY DEF AddRoute
<1>3. PICK kind, prefix : kind = Head(todo).kind /\ prefix = Head(todo).prefix
    OBVIOUS
<1>4. PICK n \in Nat : n = Len(installed) /\ DOMAIN installed = 1 .. n
    BY ListFacts DEF DaemonInv, Typed
<1>5. PICK e : e = [kind |-> kind, prefix |-> prefix, dev |-> dev]
    OBVIOUS
<1>6. /\ IsSeq(installed') /\ DOMAIN installed' = 1 .. n + 1 /\ Len(installed') = n + 1
      /\ \A i \in 1 .. n : installed'[i] = installed[i]
      /\ installed'[n + 1] = e
    <2>1. IsSeq(installed) /\ installed' = Append(installed, e)
        BY <1>2, <1>3, <1>5 DEF DaemonInv, Typed
    <2> QED BY <1>4, <2>1, AppendFacts
<1>7. /\ kernel' = kernel \cup {[prefix |-> prefix, dev |-> dev]}
      /\ prefix = trunc(prefix) /\ \A r \in kernel : r.prefix # prefix
    BY <1>2, <1>3 DEF CanAdd, Table
<1>8. Plan' = Plan /\ new_router(config).built
    <2>1. config' = config
        BY <1>1
    <2>2. phase # "start" /\ RouterBuilt
        BY <1>1 DEF RouteInv
    <2> QED BY <2>1, <2>2, Zenon DEF Plan, RouterBuilt
<1>9. PICK m \in Nat : /\ m = Len(Plan) /\ DOMAIN Plan = 1 .. m
    BY <1>8, PlanFacts
<1>10. PICK t \in Nat : t = Len(todo) /\ t > 0 /\ DOMAIN todo = 1 .. t /\ t = m - n /\ IsSeq(todo)
    <2>1. IsSeq(todo) /\ Len(todo) = m - n
        BY <1>1, <1>4, <1>9 DEF RouteInv, FollowsPlan
    <2>2. Len(todo) \in Nat /\ Len(todo) > 0 /\ DOMAIN todo = 1 .. Len(todo)
        BY <1>1, <2>1, ListFacts
    <2> QED BY <2>1, <2>2
<1>11. /\ IsSeq(todo') /\ Len(todo') = t - 1 /\ DOMAIN todo' = 1 .. t - 1
       /\ \A i \in 1 .. t - 1 : todo'[i] = todo[i + 1]
       /\ Head(todo) = todo[1]
    <2>1. /\ IsSeq(todo') /\ DOMAIN todo' = 1 .. t - 1
          /\ \A i \in DOMAIN todo' : todo'[i] = todo[i + 1] /\ Head(todo) = todo[1]
        BY <1>1, <1>10, TailFacts
    <2>2. Head(todo) = todo[1]
        BY <1>1, <1>10, TailFacts
    <2>3. Len(todo') \in Nat /\ DOMAIN todo' = 1 .. Len(todo')
        BY <2>1, ListFacts
    <2>4. Len(todo') = t - 1
        BY <1>10, <2>1, <2>3
    <2> QED BY <2>1, <2>2, <2>4
<1>12. \A i \in 1 .. t : todo[i] = Plan[n + i]
    BY <1>1, <1>4, <1>10 DEF RouteInv, FollowsPlan
<1>13. n + 1 \in 1 .. m /\ Plan[n + 1].kind = kind /\ Plan[n + 1].prefix = prefix
    BY <1>3, <1>9, <1>10, <1>11, <1>12
<1>14. \A i \in 1 .. n : installed[i].kind = Plan[i].kind /\ installed[i].prefix = Plan[i].prefix
    BY <1>1, <1>4 DEF RouteInv, FollowsPlan
<1>15. RouterBuilt'
    BY <1>1 DEF RouteInv, RouterBuilt
<1>16. \A i \in 1 .. n + 1 : i \in 1 .. n \/ i = n + 1
    OBVIOUS
<1>17. FollowsPlan'
    <2>1. n + 1 <= m /\ t - 1 = m - (n + 1)
        BY <1>10, <1>13
    <2>2. ASSUME NEW i \in 1 .. n + 1
          PROVE  installed'[i].kind = Plan[i].kind /\ installed'[i].prefix = Plan[i].prefix
        BY <1>5, <1>6, <1>13, <1>14, <1>16
    <2>3. ASSUME NEW i \in 1 .. t - 1
          PROVE  todo'[i] = Plan[(n + 1) + i]
        <3>1. PICK k \in 1 .. t : k = i + 1
            BY <1>10
        <3>2. n + k = (n + 1) + i
            BY <3>1
        <3>3. todo'[i] = todo[k]
            BY <1>11, <3>1
        <3>4. todo[k] = Plan[n + k]
            BY <1>12
        <3> QED BY <3>2, <3>3, <3>4
    <2> QED BY <1>1, <1>6, <1>8, <1>9, <1>11, <2>1, <2>2, <2>3 DEF FollowsPlan
<1>18. kind = "Tun" => dev = Tun
    BY <1>2, <1>3 DEF Devices
<1>18a. ASSUME OffDevice, dev = Tun PROVE kind = "Tun"
    <2> SUFFICES ASSUME kind # "Tun" PROVE FALSE
        OBVIOUS
    <2>1. PICK head : head = Head(todo)
        OBVIOUS
    <2>2. head = Plan[n + 1] /\ n + 1 \in DOMAIN Plan /\ head.kind # "Tun"
        <3>1. 1 \in 1 .. t
            BY <1>10
        <3> QED BY <1>3, <1>9, <1>11, <1>12, <1>13, <2>1, <3>1
    <2>3. Tun \in DevicesTo(Probe(head))
        BY <1>2, <1>18a, <2>1, <2>2 DEF Devices
    <2>4. ~OwnNetwork(Probe(head))
        BY <1>1, <1>18a, <2>2, ProbedOutside
    <2>5. PICK r \in kernel : r.dev = Tun
        BY <2>3, <2>4, OutsideOwn DEF KernelRoutes
    <2>6. PICK i \in 1 .. n : installed[i].dev = Tun
        BY <1>4, <2>5 DEF RouteInv, Origin
    <2>7. installed[i].kind = "Tun"
        BY <1>4, <1>18a, <2>6 DEF RouteInv, OnePerPrefix
    <2>8. i \in DOMAIN Plan /\ n + 1 \in DOMAIN Plan /\ i < n + 1 /\ Plan[i].kind = "Tun"
        BY <1>9, <1>13, <1>14, <2>7
    <2>9. Plan[n + 1].kind = "Tun"
        BY <1>8, <2>8, PlanFacts
    <2> QED BY <1>13, <2>9
<1>19. attempt = 1
    BY <1>1 DEF RouteInv, InPlace
<1>20. \A i \in 1 .. n : [prefix |-> installed[i].prefix, dev |-> installed[i].dev] \in kernel
    BY <1>4, <1>19 DEF RouteInv, InPlace
<1>21. \A i \in 1 .. n : installed[i].prefix # prefix
    <2> SUFFICES ASSUME NEW i \in 1 .. n PROVE installed[i].prefix # prefix
        OBVIOUS
    <2>1. PICK r \in kernel : r = [prefix |-> installed[i].prefix, dev |-> installed[i].dev]
        BY <1>20
    <2>2. r.prefix = installed[i].prefix
        BY <2>1
    <2> QED BY <1>7, <2>2
<1>22. OnePerPrefix'
    <2>1. ASSUME NEW i \in 1 .. n
          PROVE  /\ installed[i].kind = "Tun" => installed[i].dev = Tun
                 /\ OffDevice /\ installed[i].dev = Tun => installed[i].kind = "Tun"
                 /\ installed[i].prefix = trunc(installed[i].prefix)
                 /\ \A k \in 1 .. n : installed[i].prefix = installed[k].prefix => i = k
        BY <1>4 DEF RouteInv, OnePerPrefix
    <2>2. /\ e.kind = "Tun" => e.dev = Tun
          /\ OffDevice /\ e.dev = Tun => e.kind = "Tun"
          /\ e.prefix = trunc(e.prefix) /\ e.prefix = prefix
        BY <1>5, <1>7, <1>18, <1>18a
    <2>2a. OffDevice' = OffDevice
        BY <1>1, OffDeviceKept
    <2>3. ASSUME NEW i \in 1 .. n + 1
          PROVE  /\ installed'[i].kind = "Tun" => installed'[i].dev = Tun
                 /\ OffDevice /\ installed'[i].dev = Tun => installed'[i].kind = "Tun"
                 /\ installed'[i].prefix = trunc(installed'[i].prefix)
        BY <1>6, <1>16, <2>1, <2>2
    <2>4. ASSUME NEW i \in 1 .. n + 1, NEW k \in 1 .. n + 1,
                 installed'[i].prefix = installed'[k].prefix
          PROVE  i = k
        BY <1>6, <1>16, <1>21, <2>1, <2>2, <2>4
    <2> QED BY <1>6, <2>2a, <2>3, <2>4 DEF OnePerPrefix
<1>23. InPlace'
    <2>1. ASSUME NEW i \in 1 .. n + 1
          PROVE  [prefix |-> installed'[i].prefix, dev |-> installed'[i].dev] \in kernel'
        BY <1>5, <1>6, <1>7, <1>16, <1>20
    <2> QED BY <1>1, <1>6, <1>19, <2>1 DEF RouteInv, InPlace
<1>24. Origin'
    <2>1. ASSUME NEW r \in kernel', r.dev = Tun
          PROVE  \E i \in 1 .. n + 1 : installed'[i].prefix = r.prefix /\ installed'[i].dev = Tun
        <3>1. CASE r \in kernel
            <4>1. PICK i \in 1 .. n : installed[i].prefix = r.prefix /\ installed[i].dev = Tun
                BY <1>4, <2>1, <3>1 DEF RouteInv, Origin
            <4>2. i \in 1 .. n + 1
                OBVIOUS
            <4> QED BY <1>6, <4>1, <4>2
        <3>2. CASE r = [prefix |-> prefix, dev |-> dev]
            <4>1. n + 1 \in 1 .. n + 1 /\ e.prefix = r.prefix /\ e.dev = Tun
                BY <1>5, <2>1, <3>2
            <4> QED BY <1>6, <4>1
        <3> QED BY <1>7, <3>1, <3>2
    <2>2. ASSUME NEW r \in kernel' \ host', r.dev # Tun
          PROVE  /\ r.prefix = trunc(r.prefix)
                 /\ \E j \in DOMAIN Plan : Plan[j].kind # "Tun" /\ r.prefix = Plan[j].prefix
        <3>1. CASE r \in kernel
            BY <1>1, <2>2, <3>1 DEF RouteInv, Origin
        <3>2. CASE r = [prefix |-> prefix, dev |-> dev]
            BY <1>7, <1>9, <1>13, <1>18, <2>2, <3>2
        <3> QED BY <1>7, <2>2, <3>1, <3>2
    <2> QED BY <1>1, <1>6, <1>8, <2>1, <2>2 DEF Origin
<1> QED BY <1>15, <1>17, <1>22, <1>23, <1>24 DEF RouteInv

\* What a deletion may do: the matching routes are gone or still there, and the
\* last route is forgotten, once they are gone, or tried again.
LEMMA DeletionKeepsRoutes ==
    ASSUME DaemonInv, RouteInv, Deleting,
           UNCHANGED <<config, router, host, phase>>,
           \/ kernel' = {r \in kernel : ~Matches(r)} /\ installed' = Remaining /\ attempt' = 1
           \/ /\ phase = "cleanup" /\ installed' = installed
              /\ attempt' \in Nat /\ attempt' > 1
              /\ kernel' = kernel \/ kernel' = {r \in kernel : ~Matches(r)},
           0 < attempt' /\ attempt' <= ipKills' + 1
    PROVE  RouteInv'
<1>1. PICK n \in Nat : n = Len(installed) /\ DOMAIN installed = 1 .. n /\ n > 0
    BY ListFacts DEF DaemonInv, Typed, Deleting
<1>2. phase \in {"rollback", "cleanup"} /\ Plan' = Plan
    BY DEF Deleting, Plan
<1>3. IsSeq(Remaining) /\ Len(Remaining) = n - 1 /\ DOMAIN Remaining = 1 .. n - 1
       /\ \A i \in 1 .. n - 1 : Remaining[i] = installed[i]
    <2>1. IsSeq(installed) /\ installed # <<>>
        BY DEF DaemonInv, Typed, Deleting
    <2>2. PICK front : front = SubSeq(installed, 1, Len(installed) - 1)
        OBVIOUS
    <2>3. /\ IsSeq(front) /\ DOMAIN front = 1 .. n - 1
          /\ \A i \in 1 .. n - 1 : front[i] = installed[i]
        BY <1>1, <2>1, <2>2, FrontFacts, Zenon
    <2>4. Len(front) \in Nat /\ DOMAIN front = 1 .. Len(front)
        BY <2>3, ListFacts
    <2>5. Len(front) = n - 1
        BY <1>1, <2>3, <2>4
    <2> QED BY <2>2, <2>3, <2>5 DEF Remaining
<1>4. PICK t \in Nat : /\ Len(installed') = t /\ DOMAIN installed' = 1 .. t /\ t <= n
                       /\ \A i \in 1 .. t : i \in 1 .. n /\ installed'[i] = installed[i]
                       /\ (installed' = Remaining /\ t = n - 1) \/ (installed' = installed /\ t = n)
    <2>1. CASE installed' = installed
        BY <1>1, <2>1
    <2>2. CASE installed' = Remaining
        BY <1>1, <1>3, <2>2
    <2> QED BY <2>1, <2>2
<1>5. \A r \in kernel : Matches(r) => r.prefix = installed[n].prefix
    BY <1>1 DEF Matches, victim
<1>6. kernel' \subseteq kernel /\ \A r \in kernel : r.prefix # installed[n].prefix => r \in kernel'
    BY <1>5
<1>7. RouterBuilt'
    BY DEF RouteInv, RouterBuilt
<1>8. FollowsPlan'
    <2>1. n <= Len(Plan) /\ \A i \in 1 .. n :
              installed[i].kind = Plan[i].kind /\ installed[i].prefix = Plan[i].prefix
        BY <1>1, <1>2 DEF RouteInv, FollowsPlan
    <2>2. Len(installed') <= Len(Plan)
        BY <1>4, <2>1
    <2>3. \A i \in DOMAIN installed' :
              installed'[i].kind = Plan[i].kind /\ installed'[i].prefix = Plan[i].prefix
        BY <1>4, <2>1
    <2> QED BY <1>2, <2>2, <2>3 DEF FollowsPlan
<1>9. \A i \in 1 .. n :
          /\ installed[i].kind = "Tun" => installed[i].dev = Tun
          /\ OffDevice /\ installed[i].dev = Tun => installed[i].kind = "Tun"
          /\ installed[i].prefix = trunc(installed[i].prefix)
          /\ \A k \in 1 .. n : installed[i].prefix = installed[k].prefix => i = k
    BY <1>1 DEF RouteInv, OnePerPrefix
<1>10. OnePerPrefix'
    BY <1>4, <1>9, OffDeviceKept DEF OnePerPrefix
<1>11. InPlace'
    <2>1. ASSUME NEW i \in 1 .. t, i < t \/ attempt' = 1
          PROVE  [prefix |-> installed'[i].prefix, dev |-> installed'[i].dev] \in kernel'
        <3>1. i \in 1 .. n /\ installed'[i] = installed[i] /\ i < n
            <4>1. i \in 1 .. n /\ installed'[i] = installed[i]
                BY <1>4
            <4>2. t < n \/ (t = n /\ attempt' # 1)
                <5>1. CASE t = n - 1
                    BY <1>1, <5>1
                <5>2. CASE installed' = installed /\ t = n
                    <6>1. installed # Remaining
                        <7>1. installed' = Remaining => Len(installed') = n - 1
                            BY <1>4, <1>3
                        <7> QED BY <1>1, <1>4, <5>2, <7>1
                    <6> QED BY <5>2, <6>1
                <5> QED BY <1>4, <5>1, <5>2
            <4> QED BY <1>1, <1>4, <2>1, <4>1, <4>2
        <3>2. PICK r \in kernel : r = [prefix |-> installed[i].prefix, dev |-> installed[i].dev]
            BY <1>1, <3>1 DEF RouteInv, InPlace
        <3>3. n \in 1 .. n /\ i # n
            BY <1>1, <3>1
        <3>4. installed[i].prefix # installed[n].prefix
            BY <1>9, <3>1, <3>3
        <3>5. r.prefix = installed[i].prefix
            BY <3>2
        <3>6. r \in kernel'
            BY <1>6, <3>4, <3>5
        <3> QED BY <3>1, <3>2, <3>6
    <2>2. phase' \notin {"cleanup", "down"} => attempt' = 1
        BY <1>2
    <2> QED BY <1>4, <2>1, <2>2 DEF InPlace
<1>12. Origin'
    <2>1. ASSUME NEW r \in kernel', r.dev = Tun
          PROVE  \E i \in 1 .. t : installed'[i].prefix = r.prefix /\ installed'[i].dev = Tun
        <3>1. PICK i \in 1 .. n : installed[i].prefix = r.prefix /\ installed[i].dev = Tun
            BY <1>1, <1>6, <2>1 DEF RouteInv, Origin
        <3>2. CASE i \in 1 .. t
            BY <1>4, <3>1, <3>2
        <3>3. CASE i \notin 1 .. t
            <4>1. i = n /\ installed' = Remaining /\ t = n - 1
                BY <1>1, <1>4, <3>3
            <4>2. installed' # installed
                BY <1>1, <1>4, <4>1
            <4>3. ~Matches(r)
                BY <4>2
            <4>4. Matches(r)
                BY <1>1, <2>1, <3>1, <4>1 DEF Matches, victim
            <4> QED BY <4>3, <4>4
        <3> QED BY <3>2, <3>3
    <2>2. ASSUME NEW r \in kernel' \ host', r.dev # Tun
          PROVE  /\ r.prefix = trunc(r.prefix) /\ new_router(config).built
                 /\ \E j \in DOMAIN Plan : Plan[j].kind # "Tun" /\ r.prefix = Plan[j].prefix
        BY <1>6, <2>2 DEF RouteInv, Origin
    <2> QED BY <1>2, <1>4, <2>1, <2>2 DEF Origin
<1> QED BY <1>7, <1>8, <1>10, <1>11, <1>12 DEF RouteInv

\* `ip route del', killed or not, is such a deletion, as long as no route gets
\* to its last attempt.
LEMMA DeletesKeepRoutes ==
    ASSUME MaxIpKills < ATTEMPTS, DaemonInv, RouteInv,
           \/ DeleteRoute
           \/ phase = "cleanup" /\ (KilledBefore \/ KilledAfter)
    PROVE  RouteInv'
<1>1. /\ ipKills \in Nat /\ attempt \in Nat /\ ipKills <= MaxIpKills /\ MaxIpKills \in Nat
      /\ attempt <= ipKills + 1
    BY RouteAssumption DEF DaemonInv, Typed, RouteInv, InPlace
<1>2. Deleting /\ UNCHANGED <<config, router, host, phase>>
    BY DEF DeleteRoute, KilledBefore, KilledAfter
<1>3. CASE DeleteRoute
    <2>1. /\ kernel' = {r \in kernel : ~Matches(r)} /\ installed' = Remaining
          /\ attempt' = 1 /\ ipKills' = ipKills
        BY <1>3 DEF DeleteRoute
    <2>2. attempt' <= ipKills' + 1
        BY <1>1, <2>1
    <2> QED BY <1>2, <2>1, <2>2, DeletionKeepsRoutes
<1>4. CASE phase = "cleanup" /\ (KilledBefore \/ KilledAfter)
    <2>1. ipKills' \in Nat /\ ipKills < MaxIpKills /\ ipKills + 1 <= ipKills'
        BY <1>1, <1>4 DEF KilledBefore, KilledAfter
    <2>2. ~GivesUp
        BY <1>1, <2>1 DEF GivesUp, ATTEMPTS
    <2>3. \/ kernel' = {r \in kernel : ~Matches(r)} /\ installed' = Remaining /\ attempt' = 1
          \/ /\ installed' = installed /\ attempt' = attempt + 1
             /\ kernel' = kernel \/ kernel' = {r \in kernel : ~Matches(r)}
        BY <1>4, <2>2 DEF KilledBefore, KilledAfter, Retry
    <2>4. attempt' <= ipKills' + 1
        BY <1>1, <2>1, <2>3
    <2>5. attempt > 0
        BY DEF RouteInv, InPlace
    <2>6. attempt' = attempt + 1 => attempt' \in Nat /\ attempt' > 1
        BY <1>1, <2>5
    <2> QED BY <1>2, <1>4, <2>3, <2>4, <2>6, DeletionKeepsRoutes
<1> QED BY <1>3, <1>4

\* Every step keeps RouteInv.
LEMMA RouteStep ==
    ASSUME MaxIpKills < ATTEMPTS
    PROVE  DaemonInv /\ ConfigLoaded /\ RouteInv /\ [DaemonNext]_daemonVars => RouteInv'
<1> SUFFICES ASSUME DaemonInv, ConfigLoaded, RouteInv, [DaemonNext]_daemonVars PROVE RouteInv'
    OBVIOUS
<1>1. CASE \E code : Ends(code)
    BY <1>1, EndsRoutes
<1>2. CASE UNCHANGED routeVars
    BY <1>2, PhasesKeepRoutes DEF routeVars
<1>3. CASE LoadConfig \/ RoutesFailed \/ Exit
    BY <1>1, <1>2, <1>3 DEF LoadConfig, RoutesFailed, Exit
<1>3a. CASE CreateTun
    BY <1>3a, PhasesKeepRoutes DEF CreateTun
<1>4. CASE BuildRouter
    <2>1. CASE NewRouter
        BY <2>1, PhasesKeepRoutes DEF NewRouter
    <2> QED BY <1>1, <1>4, <2>1 DEF BuildRouter
<1>5. CASE Bind
    BY <1>5, PhasesKeepRoutes DEF Bind, BeginSetup
<1>6. CASE SetUpRoutes
    <2>1. CASE AddRoute
        BY <2>1, AddKeepsRoutes
    <2>2. CASE AddFails
        BY <2>2, PhasesKeepRoutes DEF AddFails
    <2>3. CASE DeleteRoute
        BY <2>3, DeletesKeepRoutes
    <2>4. CASE phase = "rollback" /\ CleanupDone
        BY <2>4, PhasesKeepRoutes DEF CleanupDone
    <2> QED BY <1>6, <2>1, <2>2, <2>3, <2>4 DEF SetUpRoutes
<1>7. CASE RoutesUp
    BY <1>7, PhasesKeepRoutes DEF RoutesUp, SetupDone
<1>8. CASE enable_ip_forward \/ add_iptables_rule \/ FirewallUp \/ Register \/ StartThreads
    BY <1>2, <1>8 DEF enable_ip_forward, add_iptables_rule, FirewallUp, Register, StartThreads
<1>9. CASE Unroute
    <2>1. phase = "cleanup"
        BY <1>9 DEF Unroute, DaemonInv, Stages, Before, Creating, Serving, Down
    <2> QED BY <1>9, <2>1, DeletesKeepRoutes DEF Unroute
<1>10. CASE Unrouted
    <2>1. phase = "cleanup"
        BY <1>10 DEF Unrouted, Goes, DaemonInv, Stages, Before, Creating, Serving, Down
    <2> QED BY <1>10, <2>1, PhasesKeepRoutes DEF Unrouted, CleanupDone
<1>11. CASE del_iptables_rule \/ RestoreForward \/ Restart
    BY <1>2, <1>11 DEF del_iptables_rule, RestoreForward, Restart
<1>12. CASE CreateFails \/ FirewallFails \/ StartFails \/ EarlySignal \/ Kill
    BY <1>1, <1>12 DEF CreateFails, FirewallFails, StartFails, EarlySignal, Kill
<1>13. CASE Signal
    BY <1>13, PhasesKeepRoutes DEF Signal, BeginCleanup
<1>14. CASE UNCHANGED daemonVars
    BY <1>2, <1>14 DEF daemonVars
<1> QED BY <1>3, <1>3a, <1>4, <1>5, <1>6, <1>7, <1>8, <1>9, <1>10, <1>11, <1>12, <1>13, <1>14
        DEF DaemonNext, Progress

\* The first process finds the routes of the host alone.
LEMMA RoutesStart == DaemonInit => RouteInv
<1> SUFFICES ASSUME DaemonInit PROVE RouteInv
    OBVIOUS
<1>1. /\ phase = "start" /\ router = NoRouter /\ installed = <<>> /\ attempt = 1 /\ ipKills = 0
      /\ kernel = host /\ host \in HostTables
    BY DEF DaemonInit, RouteInit
<1>2. DOMAIN installed = {}
    BY <1>1, EmptyList
<1>3. RouterBuilt /\ FollowsPlan /\ OnePerPrefix /\ InPlace
    BY <1>1, <1>2 DEF RouterBuilt, FollowsPlan, OnePerPrefix, InPlace
<1>4. Origin
    BY <1>1, RouteAssumption DEF Origin
<1> QED BY <1>3, <1>4 DEF RouteInv

\* RouteInv holds throughout.
LEMMA RoutesSafe ==
    ASSUME MaxIpKills < ATTEMPTS
    PROVE  DaemonSpec => [](DaemonInv /\ ConfigLoaded /\ RouteInv)
    BY RoutesStart, RouteStep, DaemonSafe, ConfigSafe, PTL DEF DaemonSpec

\* Where the routes of the plan come from.
LEMMA PlanEntries ==
    ASSUME ConfigLoaded, NEW r, r = new_router(config), r.built, NEW j \in DOMAIN Plan
    PROVE  /\ Plan[j].prefix.len \in 0 .. AddressBits
           /\ Plan[j].kind = "Tun" => \E i \in DOMAIN r.routes :
                 /\ \/ Plan[j].prefix.len = r.routes[i].prefix.len
                    \/ r.routes[i].prefix.len = 0 /\ Plan[j].prefix.len = 1
                 /\ \A a : contains(Plan[j].prefix, a) => contains(r.routes[i].prefix, a)
           /\ Plan[j].kind # "Tun" =>
                 \/ \E i \in DOMAIN r.excluded_routes : Plan[j].prefix = r.excluded_routes[i].prefix
                 \/ \E i \in DOMAIN r.routes :
                       /\ UsableV4(r.routes[i].peer.endpoint)
                       /\ Plan[j].prefix = Prefix(r.routes[i].peer.endpoint.ip, AddressBits)
<1>1. config \in Configs /\ Plan = setup_order(r)
    BY DEF ConfigLoaded, Plan
<1>2. PICK e : e = Plan[j]
    OBVIOUS
<1>3. \/ \E i \in DOMAIN r.excluded_routes :
            e = Entry("ExcludedPrefix", r.excluded_routes[i].prefix)
      \/ EndpointEntry(r, e) \/ TunEntry(r, e)
    BY <1>1, <1>2, SetupOrderFacts
<1>4. CASE \E i \in DOMAIN r.excluded_routes :
              e = Entry("ExcludedPrefix", r.excluded_routes[i].prefix)
    <2>1. PICK i \in DOMAIN r.excluded_routes :
              e = Entry("ExcludedPrefix", r.excluded_routes[i].prefix)
        BY <1>4
    <2>2. e.kind = "ExcludedPrefix" /\ e.prefix = r.excluded_routes[i].prefix
        BY <2>1 DEF Entry
    <2>3. r.excluded_routes[i].prefix \in Nets
        BY <1>1, RouterFacts
    <2> QED BY <1>2, <2>2, <2>3 DEF Nets
<1>5. CASE EndpointEntry(r, e)
    <2>1. PICK i \in DOMAIN r.routes :
              /\ UsableV4(r.routes[i].peer.endpoint)
              /\ e = Entry("EndpointException", Prefix(r.routes[i].peer.endpoint.ip, AddressBits))
        BY <1>5 DEF EndpointEntry
    <2>2. /\ e.kind = "EndpointException"
          /\ e.prefix = Prefix(r.routes[i].peer.endpoint.ip, AddressBits)
        BY <2>1 DEF Entry
    <2>3. e.prefix.len \in 0 .. AddressBits
        BY <2>2, AddressAssumption DEF Prefix
    <2> QED BY <1>2, <2>1, <2>2, <2>3
<1>6. CASE TunEntry(r, e)
    <2>1. PICK i \in DOMAIN r.routes : \E h \in DOMAIN tun_prefixes(r.routes[i]) :
              e = Entry("Tun", tun_prefixes(r.routes[i])[h])
        BY <1>6 DEF TunEntry
    <2>2. PICK h \in DOMAIN tun_prefixes(r.routes[i]) :
              e = Entry("Tun", tun_prefixes(r.routes[i])[h])
        BY <2>1
    <2>3. PICK net \in Nets : net = r.routes[i].prefix
        BY <1>1, RouterFacts
    <2>4. PICK p : p = tun_prefixes(r.routes[i])[h]
        OBVIOUS
    <2>5. /\ p \in Nets
          /\ p.len = net.len \/ (net.len = 0 /\ p.len = 1)
          /\ \A a : contains(p, a) => contains(net, a)
        BY <2>3, <2>4, TunPrefixFacts
    <2>6. e.kind = "Tun" /\ e.prefix = p
        BY <2>2, <2>4 DEF Entry
    <2>7. p.len \in 0 .. AddressBits
        BY <2>5 DEF Nets
    <2> QED BY <1>2, <2>3, <2>5, <2>6, <2>7
<1> QED BY <1>3, <1>4, <1>5, <1>6

\* When a route is on the device all the exceptions are in force beside it.
LEMMA ExceptionsInForce ==
    ASSUME DaemonInv, ConfigLoaded, RouteInv, phase # "start", OffDevice,
           NEW r \in kernel, r.dev = Tun
    PROVE  /\ r.prefix = trunc(r.prefix)
           /\ \E i \in DOMAIN Plan : Plan[i].kind = "Tun" /\ Plan[i].prefix = r.prefix
           /\ \A j \in DOMAIN Plan : Plan[j].kind # "Tun" =>
                 /\ Plan[j].prefix = trunc(Plan[j].prefix) /\ Plan[j].prefix # r.prefix
                 /\ \E q \in kernel : q.prefix = Plan[j].prefix
<1>1. PICK n \in Nat : n = Len(installed) /\ DOMAIN installed = 1 .. n
    <2>1. IsSeq(installed)
        BY DEF DaemonInv, Typed
    <2> QED BY <2>1, ListFacts
<1>2. new_router(config).built
    BY DEF RouteInv, RouterBuilt
<1>3. PICK m \in Nat : m = Len(Plan) /\ DOMAIN Plan = 1 .. m
    BY <1>2, PlanFacts
<1>4. PICK i \in 1 .. n : installed[i].prefix = r.prefix /\ installed[i].dev = Tun
    BY <1>1 DEF RouteInv, Origin
<1>5. /\ n <= m
      /\ \A k \in 1 .. n : installed[k].kind = Plan[k].kind /\ installed[k].prefix = Plan[k].prefix
    BY <1>1, <1>3 DEF RouteInv, FollowsPlan
<1>6. \A k \in 1 .. n :
          /\ installed[k].dev = Tun => installed[k].kind = "Tun"
          /\ installed[k].prefix = trunc(installed[k].prefix)
          /\ \A l \in 1 .. n : installed[k].prefix = installed[l].prefix => k = l
    BY <1>1 DEF RouteInv, OnePerPrefix
<1>7. i \in DOMAIN Plan /\ Plan[i].kind = "Tun" /\ Plan[i].prefix = r.prefix
      /\ r.prefix = trunc(r.prefix)
    BY <1>3, <1>4, <1>5, <1>6
<1>8. ASSUME NEW j \in DOMAIN Plan, Plan[j].kind # "Tun"
      PROVE  /\ Plan[j].prefix = trunc(Plan[j].prefix) /\ Plan[j].prefix # r.prefix
             /\ \E q \in kernel : q.prefix = Plan[j].prefix
    <2>1. ~(i < j) /\ i # j
        BY <1>2, <1>7, <1>8, PlanFacts
    <2>2. j \in 1 .. n /\ j < n
        BY <1>3, <2>1
    <2>3. installed[j].prefix = Plan[j].prefix
        BY <1>5, <2>2
    <2>4. PICK q \in kernel : q = [prefix |-> installed[j].prefix, dev |-> installed[j].dev]
        BY <1>1, <2>2 DEF RouteInv, InPlace
    <2>5. q.prefix = Plan[j].prefix
        BY <2>3, <2>4
    <2>6. Plan[j].prefix = trunc(Plan[j].prefix) /\ Plan[j].prefix # r.prefix
        BY <1>4, <1>6, <2>1, <2>2, <2>3
    <2> QED BY <2>5, <2>6
<1> QED BY <1>7, <1>8

\* What goes into the tunnel is in a prefix longer than every exception for it.
LEMMA LongerThanExceptions ==
    ASSUME DaemonInv, ConfigLoaded, RouteInv, phase # "start", OffDevice,
           NEW a, NEW r \in KernelRoutes(kernel, a), r.dev = Tun,
           NEW j \in DOMAIN Plan, Plan[j].kind # "Tun", contains(Plan[j].prefix, a)
    PROVE  Plan[j].prefix.len < r.prefix.len /\ r.prefix.len \in 0 .. AddressBits
<1>1. /\ r \in kernel /\ contains(r.prefix, a)
      /\ \A q \in kernel : contains(q.prefix, a) => q.prefix.len <= r.prefix.len
    BY DEF KernelRoutes
<1>2. new_router(config).built
    BY DEF RouteInv, RouterBuilt
<1>3. /\ r.prefix = trunc(r.prefix)
      /\ \E i \in DOMAIN Plan : Plan[i].kind = "Tun" /\ Plan[i].prefix = r.prefix
      /\ Plan[j].prefix = trunc(Plan[j].prefix) /\ Plan[j].prefix # r.prefix
      /\ \E q \in kernel : q.prefix = Plan[j].prefix
    BY <1>1, ExceptionsInForce
<1>4. PICK x \in 0 .. AddressBits : x = Plan[j].prefix.len
    BY <1>2, PlanEntries
<1>5. PICK y \in 0 .. AddressBits : y = r.prefix.len
    BY <1>2, <1>3, PlanEntries
<1>6. x <= y
    BY <1>1, <1>3, <1>4, <1>5
<1>7. x # y
    <2> SUFFICES ASSUME x = y PROVE FALSE
        OBVIOUS
    <2>1. PICK p, q : p = Plan[j].prefix /\ q = r.prefix
        OBVIOUS
    <2>2. PICK n \in Nat : n = x
        BY AddressAssumption
    <2>3. p = trunc(p) /\ q = trunc(q) /\ p.len = n /\ q.len = n
          /\ contains(p, a) /\ contains(q, a)
        BY <1>1, <1>3, <1>4, <1>5, <2>1, <2>2
    <2>4. p = q
        BY <2>3, SamePrefix, Zenon
    <2> QED BY <1>3, <2>1, <2>4
<1>8. x < y
    BY <1>6, <1>7, AddressAssumption
<1> QED BY <1>4, <1>5, <1>8

\* What goes into the tunnel the router has a peer for.
LEMMA TunnelledHasPeer ==
    ASSUME DaemonInv, ConfigLoaded, RouteInv, phase # "start", OffDevice,
           NEW a, NEW r \in KernelRoutes(kernel, a), r.dev = Tun
    PROVE  lookup(router, a) # Absent
<1> SUFFICES ASSUME lookup(router, a) = Absent PROVE FALSE
    OBVIOUS
<1>1. config \in Configs /\ router = new_router(config) /\ router.built /\ validate(config) = "ok"
    <2>1. Accepted
        BY DEF DaemonInv, Stages, Accepted, Before, Creating, Serving, Down
    <2> QED BY <2>1 DEF ConfigLoaded, RouteInv, RouterBuilt
<1>2. PICK t : t = router
    OBVIOUS
<1>3. PICK k \in DOMAIN Plan : Plan[k].kind = "Tun" /\ Plan[k].prefix = r.prefix
    <2>1. r \in kernel
        BY DEF KernelRoutes
    <2> QED BY <2>1, ExceptionsInForce
<1>4. contains(Plan[k].prefix, a)
    BY <1>3 DEF KernelRoutes
<1>5. PICK i \in DOMAIN t.routes :
          /\ \/ Plan[k].prefix.len = t.routes[i].prefix.len
             \/ t.routes[i].prefix.len = 0 /\ Plan[k].prefix.len = 1
          /\ contains(t.routes[i].prefix, a)
    BY <1>1, <1>2, <1>3, <1>4, PlanEntries
<1>6. ~admits(t.routes[i], a)
    BY <1>1, <1>2, LookupFacts
<1>7. PICK e \in DOMAIN t.routes[i].peer.excluded_ips :
          /\ contains(t.routes[i].peer.excluded_ips[e], a)
          /\ ~(t.routes[i].prefix.len > t.routes[i].peer.excluded_ips[e].len)
    BY <1>5, <1>6 DEF admits
<1>8. PICK x : x = t.routes[i].peer.excluded_ips[e]
    OBVIOUS
<1>9. PICK l \in DOMAIN t.excluded_routes : t.excluded_routes[l].prefix = x
    BY <1>1, <1>2, <1>8, RouterFacts
<1>10. x \in Nets /\ x.len # 0
    <2>1. PICK n \in DOMAIN config.peer : \E o \in DOMAIN config.peer[n].excluded_ips :
              t.excluded_routes[l].prefix = config.peer[n].excluded_ips[o]
        BY <1>1, <1>2, RouterFacts
    <2>2. PICK o \in DOMAIN config.peer[n].excluded_ips :
              t.excluded_routes[l].prefix = config.peer[n].excluded_ips[o]
        BY <2>1
    <2>3. PICK peer : peer = config.peer[n]
        OBVIOUS
    <2>4. peer.excluded_ips[o] \in Nets /\ peer.excluded_ips[o].len # 0
        BY <1>1, <2>2, <2>3, ValidPeer
    <2> QED BY <1>9, <2>2, <2>3, <2>4
<1>11. PICK j \in DOMAIN Plan : Plan[j] = Entry("ExcludedPrefix", x)
    <2>1. Plan = setup_order(t)
        BY <1>1, <1>2 DEF Plan
    <2>2. PICK order : order = setup_order(t)
        OBVIOUS
    <2>3. \E j \in DOMAIN order : order[j] = Entry("ExcludedPrefix", t.excluded_routes[l].prefix)
        BY <1>1, <1>2, <2>2, SetupOrderFacts
    <2> QED BY <1>9, <2>1, <2>2, <2>3
<1>12. Plan[j].kind # "Tun" /\ Plan[j].prefix = x
    BY <1>11 DEF Entry
<1>13. x.len < r.prefix.len
    BY <1>7, <1>8, <1>12, LongerThanExceptions
<1>14. PICK xl \in Nat : xl = x.len /\ xl # 0
    BY <1>10, AddressAssumption DEF Nets
<1>15. PICK rl \in Nat : rl = t.routes[i].prefix.len
    <2>1. t.routes[i].prefix \in Nets
        BY <1>1, <1>2, RouterFacts
    <2> QED BY <2>1, AddressAssumption DEF Nets
<1>16. /\ xl < rl \/ (rl = 0 /\ xl < 1)
       /\ ~(rl > xl)
    BY <1>3, <1>5, <1>7, <1>8, <1>13, <1>14, <1>15
<1> QED BY <1>14, <1>16

\* "the encrypted transport cannot loop back into itself": at no time does the
\* host route a peer's endpoint into the tunnel, whatever fails or is killed, as
\* long as fewer `ip' children fail or are killed than delete_linux_route has
\* attempts, and nothing to be kept out is in the network of the device itself.
THEOREM NeverLoops ==
    ASSUME MaxIpKills < ATTEMPTS
    PROVE  DaemonSpec => []NoLoop
<1>1. ASSUME DaemonInv, ConfigLoaded, RouteInv PROVE NoLoop
    <2> SUFFICES ASSUME OffDevice, NEW i \in DOMAIN router.routes,
                        UsableV4(router.routes[i].peer.endpoint),
                        Tun \in DevicesTo(router.routes[i].peer.endpoint.ip)
                 PROVE  FALSE
        BY DEF NoLoop
    <2>0. PICK r \in KernelRoutes(kernel, router.routes[i].peer.endpoint.ip) : r.dev = Tun
        <3>1. ~OwnNetwork(router.routes[i].peer.endpoint.ip)
            BY Zenon DEF OffDevice
        <3> QED BY <1>1, <3>1, OutsideOwn
    <2>1. phase # "start"
        BY <1>1, EmptyList DEF RouteInv, RouterBuilt, NoRouter
    <2>2. PICK ip : ip = router.routes[i].peer.endpoint.ip
        OBVIOUS
    <2>3. PICK t : t = router
        OBVIOUS
    <2>4. config \in Configs /\ t = new_router(config) /\ t.built
        BY <1>1, <2>1, <2>3 DEF ConfigLoaded, RouteInv, RouterBuilt
    <2>5. lookup(t, ip) # Absent
        BY <1>1, <2>0, <2>1, <2>2, <2>3, TunnelledHasPeer
    <2>6. PICK j \in DOMAIN Plan : Plan[j] = Entry("EndpointException", Prefix(ip, AddressBits))
        <3>1. PICK order : order = setup_order(t)
            OBVIOUS
        <3>2. \E j \in DOMAIN order : order[j] = Entry("EndpointException", Prefix(ip, AddressBits))
            BY <2>2, <2>3, <2>4, <2>5, <3>1, SetupOrderFacts
        <3>3. Plan = order
            BY <2>4, <3>1 DEF Plan
        <3> QED BY <3>2, <3>3
    <2>7. Plan[j].kind # "Tun" /\ Plan[j].prefix = Prefix(ip, AddressBits)
        BY <2>6 DEF Entry
    <2>8. contains(Prefix(ip, AddressBits), ip)
        BY DEF contains, Prefix
    <2>9. Plan[j].prefix.len < r.prefix.len /\ r.prefix.len \in 0 .. AddressBits
        BY <1>1, <2>0, <2>1, <2>2, <2>7, <2>8, LongerThanExceptions
    <2>10. Plan[j].prefix.len = AddressBits
        BY <2>7 DEF Prefix
    <2>11. AddressBits < r.prefix.len /\ r.prefix.len \in 0 .. AddressBits
        BY <2>9, <2>10
    <2> QED BY <2>11, AddressAssumption
<1> QED BY <1>1, RoutesSafe, PTL

\* An address that is one of the host's exceptions for endpoints is the endpoint.
LEMMA HostPrefix ==
    ASSUME NEW a \in Address, NEW ip, NEW p, p = Prefix(ip, AddressBits), p = trunc(p),
           contains(p, a)
    PROVE  ip = a
<1>1. ip = network(p)
    BY DEF trunc, Prefix
<1>2. ip = [b \in 1 .. AddressBits |-> ip[b]] /\ a = [b \in 1 .. AddressBits |-> a[b]]
    BY <1>1 DEF network, Address
<1>3. \A b \in 1 .. AddressBits : a[b] = ip[b]
    BY DEF contains, Prefix
<1> QED BY <1>2, <1>3

\* An address that lookup finds a peer for, and that nothing more specific takes
\* away: what RoutedIsTunnelled is about.
Takes(a, found) ==
    /\ found = lookup(router, a) /\ found # Absent
    /\ \A i \in DOMAIN router.routes :
          UsableV4(router.routes[i].peer.endpoint) => router.routes[i].peer.endpoint.ip # a
    /\ \A i \in DOMAIN router.excluded_routes :
          contains(router.excluded_routes[i].prefix, a) =>
              \/ router.excluded_routes[i].peer = found.peer
              \/ ~(router.excluded_routes[i].prefix.len > found.prefix.len)
    /\ \A r \in host : contains(r.prefix, a) => ~(r.prefix.len > found.prefix.len)

\* Then a route of the tunnel holds it, no route of another device is as long,
\* and every route around the address has a length.
LEMMA TakenByTunnel ==
    ASSUME DaemonInv, ConfigLoaded, RouteInv, phase = "up", OffDevice,
           NEW a \in Address, NEW found, Takes(a, found)
    PROVE  \E s \in kernel :
              /\ s.dev = Tun /\ contains(s.prefix, a)
              /\ \A r \in kernel : contains(r.prefix, a) =>
                    /\ r.prefix.len \in 0 .. AddressBits
                    /\ s.prefix.len <= r.prefix.len => r.dev = Tun
<1>1. PICK t : t = router
    OBVIOUS
<1>2. config \in Configs /\ t = new_router(config) /\ t.built /\ Plan = setup_order(t)
      /\ host \in HostTables
    BY <1>1 DEF ConfigLoaded, RouteInv, RouterBuilt, Plan
<1>3. PICK i \in DOMAIN t.routes : admits(t.routes[i], a) /\ found = t.routes[i]
    <2>1. found = lookup(t, a) /\ found # Absent
        BY <1>1 DEF Takes
    <2> QED BY <1>2, <2>1, LookupFacts
<1>4. PICK net \in Nets : net = found.prefix /\ contains(net, a)
    BY <1>2, <1>3, RouterFacts DEF admits
<1>5. PICK h \in DOMAIN tun_prefixes(found) : contains(tun_prefixes(found)[h], a)
    BY <1>4, TunPrefixesCover
<1>6. PICK p : p = tun_prefixes(found)[h]
    OBVIOUS
<1>7. /\ p \in Nets /\ contains(p, a)
      /\ p.len = net.len \/ (net.len = 0 /\ p.len = 1)
    BY <1>4, <1>5, <1>6, TunPrefixFacts
<1>8. PICK pl \in Nat, nl \in Nat : pl = p.len /\ nl = net.len /\ (pl = nl \/ (nl = 0 /\ pl = 1))
    BY <1>4, <1>7, AddressAssumption DEF Nets
<1>9. PICK j \in DOMAIN Plan : Plan[j] = Entry("Tun", p)
    <2>1. TunEntry(t, Entry("Tun", p))
        BY <1>3, <1>6 DEF TunEntry
    <2>2. PICK order, entry : order = setup_order(t) /\ entry = Entry("Tun", p)
        OBVIOUS
    <2>3. \E k \in DOMAIN order : order[k] = entry
        BY <1>2, <2>1, <2>2, SetupOrderFacts
    <2> QED BY <1>2, <2>2, <2>3
<1>10. j \in DOMAIN installed /\ installed[j].kind = "Tun" /\ installed[j].prefix = p
    <2>1. Len(installed) = Len(Plan)
        BY DEF RouteInv, FollowsPlan
    <2>2. DOMAIN installed = 1 .. Len(installed) /\ DOMAIN Plan = 1 .. Len(Plan)
        BY <1>2, ListFacts, PlanFacts DEF DaemonInv, Typed
    <2>3. j \in DOMAIN installed
        BY <2>1, <2>2
    <2> QED BY <1>9, <2>3 DEF RouteInv, FollowsPlan, Entry
<1>11. PICK s \in kernel : s.prefix = p /\ s.dev = Tun
    <2>1. installed[j].dev = Tun
        BY <1>10 DEF RouteInv, OnePerPrefix
    <2>2. [prefix |-> installed[j].prefix, dev |-> installed[j].dev] \in kernel
        BY <1>10 DEF RouteInv, InPlace
    <2> QED BY <1>10, <2>1, <2>2
<1>12. p = trunc(p)
    BY <1>10 DEF RouteInv, OnePerPrefix
<1>13. ASSUME NEW q, q = trunc(q), contains(q, a), NEW l \in Nat, l = q.len,
              ~(l > nl), pl <= l
       PROVE  q = p
    <2>1. l = pl
        BY <1>8, <1>13
    <2>2. q.len = pl /\ p.len = pl
        BY <1>8, <1>13, <2>1
    <2> QED BY <1>7, <1>12, <1>13, <2>2, SamePrefix, Zenon
<1>14. ASSUME NEW r \in kernel, contains(r.prefix, a)
       PROVE  /\ r.prefix.len \in 0 .. AddressBits
              /\ s.prefix.len <= r.prefix.len => r.dev = Tun
    <2>1. CASE r.dev = Tun
        <3>1. PICK k \in DOMAIN Plan : Plan[k].prefix = r.prefix
            BY <2>1, ExceptionsInForce
        <3>2. Plan[k].prefix.len \in 0 .. AddressBits
            BY <1>2, PlanEntries
        <3> QED BY <2>1, <3>1, <3>2
    <2>2. CASE r \in host
        <3>1. r.prefix \in Nets /\ r.prefix = trunc(r.prefix)
            BY <1>2, <2>2, RouteAssumption
        <3>2. PICK l \in 0 .. AddressBits : l = r.prefix.len
            BY <3>1 DEF Nets
        <3>3. l \in Nat
            BY <3>2, AddressAssumption
        <3>4. ~(l > nl)
            BY <1>4, <1>8, <1>14, <2>2, <3>2 DEF Takes
        <3>5. ASSUME s.prefix.len <= r.prefix.len PROVE FALSE
            <4>1. pl <= l
                BY <1>8, <1>11, <3>2, <3>5
            <4>2. r.prefix = p
                BY <1>13, <1>14, <3>1, <3>2, <3>3, <3>4, <4>1
            <4> QED BY <1>10, <2>2, <4>2 DEF DaemonInv, HostApart
        <3> QED BY <3>2, <3>5
    <2>3. CASE r \notin host /\ r.dev # Tun
        <3>1. r.prefix = trunc(r.prefix)
            BY <2>3 DEF RouteInv, Origin
        <3>2. PICK k \in DOMAIN Plan : Plan[k].kind # "Tun" /\ r.prefix = Plan[k].prefix
            BY <2>3 DEF RouteInv, Origin
        <3>3. PICK l \in 0 .. AddressBits : l = r.prefix.len
            BY <1>2, <3>2, PlanEntries
        <3>4. l \in Nat
            BY <3>3, AddressAssumption
        <3>5. PICK x \in DOMAIN t.excluded_routes : r.prefix = t.excluded_routes[x].prefix
            <4>1. ASSUME NEW y \in DOMAIN t.routes, UsableV4(t.routes[y].peer.endpoint),
                         r.prefix = Prefix(t.routes[y].peer.endpoint.ip, AddressBits)
                  PROVE  FALSE
                <5>1. PICK ip, q : ip = t.routes[y].peer.endpoint.ip /\ q = r.prefix
                    OBVIOUS
                <5>2. ip = a
                    BY <1>14, <3>1, <4>1, <5>1, HostPrefix
                <5> QED BY <1>1, <4>1, <5>1, <5>2 DEF Takes
            <4>2. \/ \E x \in DOMAIN t.excluded_routes : Plan[k].prefix = t.excluded_routes[x].prefix
                  \/ \E y \in DOMAIN t.routes :
                        /\ UsableV4(t.routes[y].peer.endpoint)
                        /\ Plan[k].prefix = Prefix(t.routes[y].peer.endpoint.ip, AddressBits)
                BY <1>2, <3>2, PlanEntries
            <4> QED BY <3>2, <4>1, <4>2
        <3>6. ASSUME s.prefix.len <= r.prefix.len PROVE FALSE
            <4>1. pl <= l /\ nl <= l
                BY <1>8, <1>11, <3>3, <3>4, <3>6
            <4>2. CASE t.excluded_routes[x].peer = found.peer
                <5>1. PICK e \in DOMAIN found.peer.excluded_ips :
                          r.prefix = found.peer.excluded_ips[e]
                    BY <1>2, <3>5, <4>2, RouterFacts
                <5>2. nl > l
                    BY <1>3, <1>4, <1>8, <1>14, <3>3, <5>1 DEF admits
                <5> QED BY <3>4, <4>1, <5>2
            <4>3. CASE t.excluded_routes[x].peer # found.peer
                <5>1. ~(l > nl)
                    BY <1>1, <1>4, <1>8, <1>14, <3>3, <3>5, <4>3 DEF Takes
                <5>2. r.prefix = p
                    BY <1>13, <1>14, <3>1, <3>3, <3>4, <4>1, <5>1
                <5>3. Plan[k].prefix # s.prefix
                    BY <1>11, <3>2, ExceptionsInForce
                <5> QED BY <1>11, <3>2, <5>2, <5>3
            <4> QED BY <4>2, <4>3
        <3> QED BY <3>3, <3>6
    <2> QED BY <2>1, <2>2, <2>3
<1> QED BY <1>7, <1>11, <1>14

\* Among the routes around an address one is the longest.
LEMMA LongestRoute ==
    ASSUME NEW table, NEW a, NEW s \in table, contains(s.prefix, a),
           \A r \in table : contains(r.prefix, a) => r.prefix.len \in 0 .. AddressBits
    PROVE  \E r \in KernelRoutes(table, a) : TRUE
<1> DEFINE around == {q \in table : contains(q.prefix, a)}
           shorts == {AddressBits - q.prefix.len : q \in around}
<1>1. shorts \in SUBSET Nat /\ shorts # {}
    <2>1. s \in around
        OBVIOUS
    <2>2. \A q \in around : AddressBits - q.prefix.len \in Nat
        BY AddressAssumption
    <2> QED BY <2>1, <2>2
<1>2. PICK m : m = Min(shorts)
    OBVIOUS
<1>3. m \in shorts /\ \A y \in shorts : m <= y
    BY <1>1, <1>2, Least
<1>4. PICK r \in around : m = AddressBits - r.prefix.len
    BY <1>3
<1>5. ASSUME NEW q \in around PROVE q.prefix.len <= r.prefix.len
    <2>1. PICK x \in 0 .. AddressBits, y \in 0 .. AddressBits :
              x = q.prefix.len /\ y = r.prefix.len
        OBVIOUS
    <2>2. AddressBits - y <= AddressBits - x
        BY <1>3, <1>4, <2>1
    <2>3. x <= y
        BY <2>2, AddressAssumption
    <2> QED BY <2>1, <2>3
<1>6. r \in KernelRoutes(table, a)
    BY <1>5 DEF KernelRoutes
<1> QED BY <1>6

\* The host and the router agree: what goes into a tunnel that is up has a peer,
\* or is in the network of the device; what has a peer goes into the tunnel
\* unless it is an endpoint, the host's own address, or taken by something more
\* specific; and the peer is that of the longest prefix.  This holds also beside
\* what earlier processes have left, under the conditions of NeverLoops.
THEOREM RoutesAgree ==
    ASSUME MaxIpKills < ATTEMPTS
    PROVE  DaemonSpec => []RoutesConsistent
<1>1. ASSUME DaemonInv, ConfigLoaded, RouteInv PROVE TunnelledIsRouted
    <2> SUFFICES ASSUME phase = "up", OffDevice, NEW a \in Address, DevicesTo(a) = {Tun},
                        ~OwnNetwork(a)
                 PROVE  lookup(router, a) # Absent
        BY DEF TunnelledIsRouted
    <2>1. PICK r \in KernelRoutes(kernel, a) : r.dev = Tun
        BY <1>1, OutsideOwn
    <2> QED BY <1>1, <2>1, TunnelledHasPeer
<1>2. ASSUME ConfigLoaded, RouteInv PROVE LookupIsLongest
    <2>1. CASE phase = "start"
        <3>1. router.routes = <<>>
            BY <1>2, <2>1 DEF RouteInv, RouterBuilt, NoRouter
        <3> QED BY <3>1, EmptyList DEF LookupIsLongest, lookup
    <2>2. CASE phase # "start"
        <3>1. PICK t : t = router
            OBVIOUS
        <3>2. config \in Configs /\ t = new_router(config) /\ t.built
            BY <1>2, <2>2, <3>1 DEF ConfigLoaded, RouteInv, RouterBuilt
        <3>3. ASSUME NEW a \in Address, NEW found, found = lookup(t, a)
              PROVE  /\ found = Absent => \A i \in DOMAIN t.routes : ~admits(t.routes[i], a)
                     /\ found # Absent => \A i \in DOMAIN t.routes :
                           admits(t.routes[i], a) => t.routes[i].prefix.len <= found.prefix.len
            BY <3>2, <3>3, LookupFacts
        <3> QED BY <3>1, <3>3 DEF LookupIsLongest
    <2> QED BY <2>1, <2>2
<1>3. ASSUME DaemonInv, ConfigLoaded, RouteInv PROVE RoutedIsTunnelled
    <2>1. ASSUME phase = "up", OffDevice, NEW a \in Address, NEW found, Takes(a, found),
                 a # config.interface.address.addr
          PROVE  DevicesTo(a) = {Tun}
        <3>1. PICK s \in kernel :
                  /\ s.dev = Tun /\ contains(s.prefix, a)
                  /\ \A r \in kernel : contains(r.prefix, a) =>
                        /\ r.prefix.len \in 0 .. AddressBits
                        /\ s.prefix.len <= r.prefix.len => r.dev = Tun
            BY <1>3, <2>1, TakenByTunnel
        <3>2. \A r \in connected : r.dev = Tun /\ r.prefix.len \in 0 .. AddressBits
            <4>1. config.interface.address \in Nets
                BY <1>3, RouteAssumption DEF ConfigLoaded, ConfigType
            <4>2. trunc(config.interface.address).len \in 0 .. AddressBits
                BY <4>1 DEF Nets, trunc, Prefix
            <4> QED BY <4>2 DEF connected
        <3>3. s \in Table
              /\ \A r \in Table : contains(r.prefix, a) => r.prefix.len \in 0 .. AddressBits
            BY <3>1, <3>2 DEF Table
        <3>4. \E r \in KernelRoutes(Table, a) : TRUE
            BY <3>1, <3>3, LongestRoute
        <3>5. ASSUME NEW r \in KernelRoutes(Table, a) PROVE r.dev = Tun
            BY <3>1, <3>2, <3>3 DEF KernelRoutes, Table
        <3>6. DevicesTo(a) = {r.dev : r \in KernelRoutes(Table, a)}
            BY <2>1 DEF DevicesTo
        <3> QED BY <3>4, <3>5, <3>6
    <2> SUFFICES ASSUME phase = "up", OffDevice, NEW a \in Address, NEW found,
                        Takes(a, found), a # config.interface.address.addr
                 PROVE  DevicesTo(a) = {Tun}
        BY DEF RoutedIsTunnelled, Takes
    <2> QED BY <2>1
<1> QED BY <1>1, <1>2, <1>3, RoutesSafe, PTL DEF RoutesConsistent
=============================================================================
