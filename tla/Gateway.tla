------------------------------ MODULE Gateway ------------------------------
(***************************************************************************)
(* The LAN forwarding gateway (src/src/gateway.rs): `hushwire gateway      *)
(* apply' and `gateway remove' as processes that change the host's iptables *)
(* chains and its ip_forward sysctl, and keep what they need to undo it in  *)
(* /run/hushwire.  A process takes an flock before it reads or changes      *)
(* anything; it may be killed at any step, a command it runs may fail, and  *)
(* other firewall services edit the same chains without that lock.          *)
(***************************************************************************)
EXTENDS Naturals, Sequences, FiniteSets

CONSTANTS
    Process,        \* processes that run a gateway command
    Tunnel,         \* tunnel interfaces: each is the identity of a policy
    Policy,         \* the LAN interface, MTU and MSS of a configuration
    Nobody,         \* the lock is free; the owner of a rule of another service
    Absent,         \* the file of the original forwarding value does not exist
    MaxStarts,      \* bound on the commands started
    MaxKills,       \* bound on the processes killed
    MaxFaults,      \* bound on the commands of a process that fail
    MaxForeign      \* bound on the edits other firewall services make

ASSUME GatewayAssumption ==
    /\ Nobody \notin Process \cup Tunnel
    /\ Absent \notin {"", "0", "1"}
    /\ Policy # {}
    /\ {MaxStarts, MaxKills, MaxFaults, MaxForeign} \subseteq Nat

VARIABLES
    chain,          \* the rules of every chain, in order
    ip_forward,     \* net.ipv4.ip_forward
    original,       \* ip-forward-<ns>.original: a value, "" when torn, or Absent
    marker,         \* the tunnels with a gateway-<ns>-<tunnel>.state file
    lock,           \* who holds gateway-<ns>.lock
    pc,             \* the next step of each process
    job,            \* what each process runs, its local variables, and (for
                    \* the properties) the owned rules it found
    host_forward,   \* the forwarding value the administrator chose
    starts, kills, faults, foreign,
    torn            \* history: a process was killed between the creation of the
                    \* file of the original value and its write

vars == <<chain, ip_forward, original, marker, lock, pc, job, host_forward,
          starts, kills, faults, foreign, torn>>
files == <<original, marker>>
history == <<starts, kills, faults, foreign, torn>>

owned_rule_locations == <<"mangle", "nat", "filter">>
Location == {"mangle", "nat", "filter"}

Rule(owner, location, kind, policy) ==
    [owner |-> owner, location |-> location, kind |-> kind, policy |-> policy]

\* GatewayPlan::from_config: five rules that carry the owner tag of the
\* tunnel; the masquerade rule names neither the LAN interface nor the MSS.
from_config(tunnel, policy) ==
    << Rule(tunnel, "mangle", "outbound_mss", policy),
       Rule(tunnel, "mangle", "inbound_mss", policy),
       Rule(tunnel, "nat", "masquerade", "any"),
       Rule(tunnel, "filter", "allow_outbound", policy),
       Rule(tunnel, "filter", "allow_return", policy) >>

ForeignRule == Rule(Nobody, "filter", "foreign", "any")

Plan(p) == from_config(job[p].tunnel, job[p].policy)

\* `iptables -C'
exists(rule) == \E i \in DOMAIN chain[rule.location] : chain[rule.location][i] = rule

\* Mutant of OwnedAt: every HushWire tag is taken for the tunnel's own.
OwnedAt_any_gateway(tunnel, location) ==
    {i \in DOMAIN chain[location] : chain[location][i].owner # Nobody}

OwnedAt(tunnel, location) ==
    {i \in DOMAIN chain[location] : chain[location][i].owner = tunnel}

count_owned_rules(tunnel) ==
    Cardinality(UNION {{l} \X OwnedAt(tunnel, l) : l \in Location})

OwnedRules(tunnel) ==
    UNION {{chain[l][i] : i \in OwnedAt(tunnel, l)} : l \in Location}

RemoveAt(s, n) == SubSeq(s, 1, n - 1) \o SubSeq(s, n + 1, Len(s))
First(S) == CHOOSE n \in S : \A k \in S : n <= k

all_present(plan) == \A i \in DOMAIN plan : exists(plan[i])

\* GatewayStatus::healthy, for a tunnel whose interfaces are up.
healthy(tunnel, policy) ==
    /\ ip_forward = "1"
    /\ tunnel \in marker
    /\ count_owned_rules(tunnel) = Len(from_config(tunnel, policy))
    /\ all_present(from_config(tunnel, policy))

NoJob == [op |-> "none"]

GatewayInit ==
    /\ chain = [l \in Location |-> IF l = "filter" THEN <<ForeignRule>> ELSE <<>>]
    /\ ip_forward \in {"0", "1"}
    /\ original = Absent
    /\ marker = {}
    /\ lock = Nobody
    /\ pc = [p \in Process |-> "idle"]
    /\ job = [p \in Process |-> NoJob]
    /\ host_forward = ip_forward
    /\ starts = 0 /\ kills = 0 /\ faults = 0 /\ foreign = 0
    /\ torn = FALSE

Goto(p, step) == pc' = [pc EXCEPT ![p] = step]

----------------------------------------------------------------------------
\* apply and remove up to the lock: the checks of privileges, interfaces and
\* iptables change nothing, and a process they stop never gets here.
Start(p, op, tunnel, policy) ==
    /\ pc[p] = "idle"
    /\ starts < MaxStarts
    /\ starts' = starts + 1
    /\ job' = [job EXCEPT ![p] = [op |-> op, tunnel |-> tunnel, policy |-> policy,
                                  forwarding_before |-> "", original_created |-> FALSE,
                                  marker_created |-> FALSE, added |-> <<>>,
                                  rule |-> 1, victim |-> <<>>, rules_before |-> {}]]
    /\ Goto(p, "lock")
    /\ UNCHANGED <<chain, ip_forward, files, lock, host_forward, kills, faults, foreign, torn>>

\* GatewayStatePaths::lock
TakeLock(p) ==
    /\ pc[p] = "lock"
    /\ lock = Nobody
    /\ lock' = p
    /\ job' = [job EXCEPT ![p].rules_before = OwnedRules(job[p].tunnel)]
    /\ Goto(p, IF job[p].op = "apply" THEN "create_original" ELSE "list")
    /\ UNCHANGED <<chain, ip_forward, files, host_forward, history>>

\* Mutant of create_original: the file of an earlier apply is overwritten.
create_original_again(p) ==
    /\ pc[p] = "create_original"
    /\ job' = [job EXCEPT ![p].forwarding_before = ip_forward]
    /\ original' = ""
    /\ Goto(p, "write_original")
    /\ UNCHANGED <<chain, ip_forward, marker, lock, host_forward, history>>

\* record_original_forwarding: read_ip_forward and the create_new of
\* write_new_file, which says that a file of an earlier apply is there ...
create_original(p) ==
    /\ pc[p] = "create_original"
    /\ job' = [job EXCEPT ![p].forwarding_before = ip_forward]
    /\ \/ /\ original = Absent
          /\ original' = ""
          /\ Goto(p, "write_original")
       \/ /\ original # Absent
          /\ UNCHANGED original
          /\ Goto(p, "record_gateway")
    /\ UNCHANGED <<chain, ip_forward, marker, lock, host_forward, history>>

\* ... and its write_all.
write_original(p) ==
    /\ pc[p] = "write_original"
    /\ original' = job[p].forwarding_before
    /\ job' = [job EXCEPT ![p].original_created = TRUE]
    /\ Goto(p, "record_gateway")
    /\ UNCHANGED <<chain, ip_forward, marker, lock, host_forward, history>>

record_gateway(p) ==
    /\ pc[p] = "record_gateway"
    /\ marker' = marker \cup {job[p].tunnel}
    /\ job' = [job EXCEPT ![p].marker_created = job[p].tunnel \notin marker]
    /\ Goto(p, "compare")
    /\ UNCHANGED <<chain, ip_forward, original, lock, host_forward, history>>

\* Creating or writing one of the two files fails: what was created is removed
\* again.
RecordFails(p) ==
    /\ pc[p] \in {"create_original", "write_original", "record_gateway"}
    /\ faults < MaxFaults
    /\ faults' = faults + 1
    /\ original' = IF pc[p] = "write_original" \/ job[p].original_created
                   THEN Absent ELSE original
    /\ Goto(p, "unlock")
    /\ UNCHANGED <<chain, ip_forward, marker, lock, job, host_forward, starts, kills, foreign,
                   torn>>

\* Mutant of compare: rules of an earlier policy are not deleted.
compare_never_reconciles(p) ==
    /\ pc[p] = "compare"
    /\ Goto(p, "add")
    /\ UNCHANGED <<chain, ip_forward, files, lock, job, host_forward, history>>

\* Mutant of compare: the owned rules are always replaced.
compare_always_replaces(p) ==
    /\ pc[p] = "compare"
    /\ Goto(p, "list")
    /\ UNCHANGED <<chain, ip_forward, files, lock, job, host_forward, history>>

\* apply keeps the owned rules if they are exactly the planned ones.
compare(p) ==
    /\ pc[p] = "compare"
    /\ Goto(p, IF /\ all_present(Plan(p))
                  /\ count_owned_rules(job[p].tunnel) = Len(Plan(p))
               THEN "add" ELSE "list")
    /\ UNCHANGED <<chain, ip_forward, files, lock, job, host_forward, history>>

\* The loop of delete_owned_rules: `iptables -S' finds the number of the first
\* owned rule.  (Its limit of 128 rules is never met: see OneOfEach.)
list(p) ==
    /\ pc[p] = "list"
    /\ LET holding == {n \in 1 .. 3 : OwnedAt(job[p].tunnel, owned_rule_locations[n]) # {}}
           location == owned_rule_locations[First(holding)]
       IN  \/ /\ holding = {}
              /\ Goto(p, IF job[p].op = "apply" THEN "add" ELSE "remove_marker")
              /\ UNCHANGED job
           \/ /\ holding # {}
              /\ job' = [job EXCEPT ![p].victim =
                            <<location, First(OwnedAt(job[p].tunnel, location))>>]
              /\ Goto(p, "delete")
    /\ UNCHANGED <<chain, ip_forward, files, lock, host_forward, history>>

\* delete_iptables_rule_number: `iptables -D <chain> <number>'
delete(p) ==
    /\ pc[p] = "delete"
    /\ LET location == job[p].victim[1]
           number == job[p].victim[2]
       IN  /\ number \in DOMAIN chain[location]
           /\ chain' = [chain EXCEPT ![location] = RemoveAt(@, number)]
    /\ Goto(p, "list")
    /\ UNCHANGED <<ip_forward, files, lock, job, host_forward, history>>

\* add_if_missing for the next planned rule.
add_if_missing(p) ==
    /\ pc[p] = "add"
    /\ job[p].rule <= Len(Plan(p))
    /\ LET rule == Plan(p)[job[p].rule]
       IN  \/ /\ exists(rule)
              /\ job' = [job EXCEPT ![p].rule = @ + 1]
              /\ UNCHANGED chain
           \/ /\ ~exists(rule)
              /\ chain' = [chain EXCEPT ![rule.location] = Append(@, rule)]
              /\ job' = [job EXCEPT ![p].rule = @ + 1, ![p].added = Append(@, rule)]
    /\ UNCHANGED <<ip_forward, files, lock, pc, host_forward, history>>

enable_forwarding(p) ==
    /\ pc[p] = "add"
    /\ job[p].rule > Len(Plan(p))
    /\ ip_forward' = IF job[p].forwarding_before # "1" THEN "1" ELSE ip_forward
    /\ Goto(p, "applied")
    /\ UNCHANGED <<chain, files, lock, job, host_forward, history>>

\* A command fails, or deletes a rule number that is gone: apply rolls back,
\* remove returns the error.
CommandFails(p) ==
    /\ pc[p] \in {"compare", "list", "delete", "add", "restore_forwarding"}
    /\ pc[p] = "add" => job[p].rule <= Len(Plan(p)) \/ job[p].forwarding_before # "1"
    /\ \/ /\ faults < MaxFaults
          /\ faults' = faults + 1
       \/ /\ pc[p] = "delete"
          /\ job[p].victim[2] \notin DOMAIN chain[job[p].victim[1]]
          /\ UNCHANGED faults
    /\ Goto(p, IF job[p].op = "apply" THEN "undo_rules" ELSE "unlock")
    /\ UNCHANGED <<chain, ip_forward, files, lock, job, host_forward, starts, kills, foreign,
                   torn>>

----------------------------------------------------------------------------
\* The rollback of apply: delete_once of the added rules, last first, where a
\* failure is ignored ...
undo_rules(p) ==
    LET added == job[p].added
        rule == added[Len(added)]
        found == {i \in DOMAIN chain[rule.location] : chain[rule.location][i] = rule}
    IN  /\ pc[p] = "undo_rules"
        /\ added # <<>>
        /\ \/ /\ found # {}
              /\ chain' = [chain EXCEPT ![rule.location] = RemoveAt(@, First(found))]
              /\ UNCHANGED faults
           \/ /\ found = {}
              /\ UNCHANGED <<chain, faults>>
           \/ /\ faults < MaxFaults
              /\ faults' = faults + 1
              /\ UNCHANGED chain
        /\ job' = [job EXCEPT ![p].added = SubSeq(added, 1, Len(added) - 1)]
        /\ UNCHANGED <<ip_forward, files, lock, pc, host_forward, starts, kills, foreign,
                   torn>>

\* Mutant of undo_marker: the rules added are not deleted first.
undo_marker_at_once(p) ==
    /\ pc[p] = "undo_rules"
    /\ marker' = IF job[p].marker_created THEN marker \ {job[p].tunnel} ELSE marker
    /\ Goto(p, IF job[p].original_created /\ marker' = {} THEN "undo_forwarding" ELSE "unlock")
    /\ UNCHANGED <<chain, ip_forward, original, lock, job, host_forward, history>>

\* ... then the marker it created ...
undo_marker(p) ==
    /\ pc[p] = "undo_rules"
    /\ job[p].added = <<>>
    /\ marker' = IF job[p].marker_created THEN marker \ {job[p].tunnel} ELSE marker
    /\ Goto(p, IF job[p].original_created /\ marker' = {} THEN "undo_forwarding" ELSE "unlock")
    /\ UNCHANGED <<chain, ip_forward, original, lock, job, host_forward, history>>

\* ... then the forwarding value it recorded, if no gateway is left; a
\* failure is ignored ...
undo_forwarding(p) ==
    /\ pc[p] = "undo_forwarding"
    /\ \/ /\ ip_forward' = job[p].forwarding_before
          /\ UNCHANGED faults
       \/ /\ faults < MaxFaults
          /\ faults' = faults + 1
          /\ UNCHANGED ip_forward
    /\ Goto(p, "remove_original")
    /\ UNCHANGED <<chain, files, lock, job, host_forward, starts, kills, foreign, torn>>

\* ... and the file: the last step of remove too.
remove_original(p) ==
    /\ pc[p] = "remove_original"
    /\ original' = Absent
    /\ Goto(p, IF job[p].op = "apply" THEN "unlock" ELSE "removed")
    /\ UNCHANGED <<chain, ip_forward, marker, lock, job, host_forward, history>>

----------------------------------------------------------------------------
\* remove, after delete_owned_rules: the marker ...
remove_marker(p) ==
    /\ pc[p] = "remove_marker"
    /\ marker' = marker \ {job[p].tunnel}
    /\ Goto(p, IF original # Absent /\ marker' = {} THEN "restore_forwarding" ELSE "removed")
    /\ UNCHANGED <<chain, ip_forward, original, lock, job, host_forward, history>>

\* Mutant of restore_forwarding: forwarding is switched off.
restore_forwarding_off(p) ==
    /\ pc[p] = "restore_forwarding"
    /\ ip_forward' = "0"
    /\ Goto(p, "remove_original")
    /\ UNCHANGED <<chain, files, lock, job, host_forward, history>>

\* ... then the recorded value, when the file holds one.
restore_forwarding(p) ==
    /\ pc[p] = "restore_forwarding"
    /\ ip_forward' = IF original \in {"0", "1"} THEN original ELSE ip_forward
    /\ Goto(p, "remove_original")
    /\ UNCHANGED <<chain, files, lock, job, host_forward, history>>

\* The marker or the file of the original value cannot be removed, or the
\* directory cannot be read for markers after the own one is gone: remove returns
\* the error; the rollback goes on, but to nothing it may still undo.
FileFails(p) ==
    /\ faults < MaxFaults
    /\ faults' = faults + 1
    /\ \/ /\ pc[p] \in {"remove_marker", "remove_original"}
          /\ UNCHANGED marker
       \/ /\ pc[p] = "remove_marker"
          /\ original # Absent
          /\ marker' = marker \ {job[p].tunnel}
       \/ /\ pc[p] = "undo_rules"
          /\ job[p].added = <<>>
          /\ job[p].marker_created
          /\ UNCHANGED marker
       \/ /\ pc[p] = "undo_rules"
          /\ job[p].added = <<>>
          /\ job[p].original_created
          /\ marker' = IF job[p].marker_created THEN marker \ {job[p].tunnel} ELSE marker
    /\ Goto(p, "unlock")
    /\ UNCHANGED <<chain, ip_forward, original, lock, job, host_forward, starts, kills,
                   foreign, torn>>

\* GatewayStateLock::drop
Unlock(p) ==
    /\ pc[p] \in {"applied", "removed", "unlock"}
    /\ lock' = Nobody
    /\ Goto(p, "idle")
    /\ job' = [job EXCEPT ![p] = NoJob]
    /\ UNCHANGED <<chain, ip_forward, files, host_forward, history>>

\* The process is killed; the kernel releases its flock.
Kill(p) ==
    /\ pc[p] # "idle"
    /\ kills < MaxKills
    /\ kills' = kills + 1
    /\ Goto(p, "idle")
    /\ job' = [job EXCEPT ![p] = NoJob]
    /\ lock' = IF lock = p THEN Nobody ELSE lock
    /\ torn' = (torn \/ pc[p] = "write_original")
    /\ UNCHANGED <<chain, ip_forward, files, host_forward, starts, faults, foreign>>

----------------------------------------------------------------------------
\* While no original value is on record the administrator may change the sysctl.
SetForwarding(value) ==
    /\ original = Absent
    /\ lock = Nobody
    /\ value # ip_forward
    /\ foreign < MaxForeign
    /\ foreign' = foreign + 1
    /\ ip_forward' = value
    /\ host_forward' = value
    /\ UNCHANGED <<chain, files, lock, pc, job, starts, kills, faults, torn>>

\* Another firewall service inserts a rule at the head of a chain.
ForeignInsert ==
    /\ foreign < MaxForeign
    /\ foreign' = foreign + 1
    /\ chain' = [chain EXCEPT !["filter"] = <<ForeignRule>> \o @]
    /\ UNCHANGED <<ip_forward, files, lock, pc, job, host_forward, starts, kills, faults,
                   torn>>

Step(p) ==
    \/ TakeLock(p) \/ create_original(p) \/ write_original(p) \/ record_gateway(p)
    \/ RecordFails(p) \/ compare(p) \/ list(p) \/ delete(p) \/ add_if_missing(p)
    \/ enable_forwarding(p) \/ CommandFails(p) \/ undo_rules(p) \/ undo_marker(p)
    \/ undo_forwarding(p) \/ remove_original(p) \/ remove_marker(p)
    \/ restore_forwarding(p) \/ FileFails(p) \/ Unlock(p)

Environment ==
    \/ \E value \in {"0", "1"} : SetForwarding(value)
    \/ ForeignInsert

GatewayNext ==
    \/ \E p \in Process, tunnel \in Tunnel :
          \/ \E policy \in Policy : Start(p, "apply", tunnel, policy)
          \/ Start(p, "remove", tunnel, "any")
    \/ \E p \in Process : Step(p) \/ Kill(p)
    \/ Environment

GatewaySpec == GatewayInit /\ [][GatewayNext]_vars

----------------------------------------------------------------------------
StepName == {"idle", "lock", "create_original", "write_original", "record_gateway",
             "compare", "list", "delete", "add", "applied", "undo_rules",
             "undo_forwarding", "remove_original", "remove_marker",
             "restore_forwarding", "removed", "unlock"}

\* Whatever was killed or failed, the rules a tunnel owns are those of one
\* policy, each at most once: a second apply never stacks its rules on the old
\* ones, and delete_owned_rules never meets its limit of 128.
OneOfEach ==
    \A tunnel \in Tunnel :
        /\ count_owned_rules(tunnel) = Cardinality(OwnedRules(tunnel))
        /\ \E policy \in Policy :
              OwnedRules(tunnel) \subseteq
                  {from_config(tunnel, policy)[i] : i \in 1 .. 5}

\* Between commands, a tunnel that still owns rules has its marker, and while
\* there is a marker the original forwarding value is on record: what an
\* interrupted command left can be removed.
LeftoversRecorded ==
    lock = Nobody =>
        /\ \A tunnel \in Tunnel : OwnedRules(tunnel) # {} => tunnel \in marker
        /\ marker # {} => original # Absent

\* Between commands, when no gateway is managed and no value is on record,
\* ip_forward is what the administrator had chosen: remove restores "the recorded
\* forwarding value after the last managed gateway in that network namespace is
\* removed", whatever failed and whoever was killed; unless an apply was killed
\* between the creation of the file and its write, which leaves an empty file that
\* every later apply takes for a record.
ForwardingRestored ==
    (~torn /\ lock = Nobody /\ marker = {} /\ original = Absent)
        => ip_forward = host_forward

\* While a gateway is managed the recorded value stays the administrator's: no
\* later apply records the value an earlier one had set; unless a kill has left
\* the file empty (see ForwardingRestored).
OriginalIsHosts == ~torn /\ original \in {"0", "1"} => original = host_forward

\* What the two kinds of files say can be relied on by the next command.
RecordsTruthful == LeftoversRecorded /\ OriginalIsHosts

\* An apply that reports success leaves a gateway whose status is healthy.
AppliedIsHealthy ==
    \A p \in Process : pc[p] = "applied" => healthy(job[p].tunnel, job[p].policy)

\* An apply that fails on a tunnel without rules leaves none.
FirstApplyRollsBack ==
    \A p \in Process :
        (pc[p] = "unlock" /\ job[p].op = "apply" /\ job[p].rules_before = {})
            => OwnedRules(job[p].tunnel) = {}

\* A first apply installs the whole gateway or nothing.
ApplyAllOrNothing == AppliedIsHealthy /\ FirstApplyRollsBack

\* Two chains hold the same rules of others than the tunnel, in the same order.
SameOthers(tunnel, before, after) ==
    LET Others(rules) == {i \in DOMAIN rules : rules[i].owner # tunnel}
    IN  \E place \in [Others(before) -> Others(after)] :
           /\ \A k \in Others(after) : \E i \in Others(before) : place[i] = k
           /\ \A i, k \in Others(before) : i < k => place[i] < place[k]
           /\ \A i \in Others(before) : after[place[i]] = before[i]

\* A command changes only the rules with its own tunnel's tag, never another
\* gateway's or another service's: "remove deletes only rules carrying the
\* matching HushWire ownership tag".  That no service edits a chain between the
\* listing of a rule's number and its deletion is assumed: the flock does not
\* keep it out.
OthersUntouched ==
    [][foreign > 0 \/ Environment \/ \A l \in Location :
          \/ chain'[l] = chain[l]
          \/ lock # Nobody /\ SameOthers(job[lock].tunnel, chain[l], chain'[l])]_vars

\* "apply is idempotent": on a healthy gateway it takes no rule away and adds
\* none, not even for a moment.
ApplyIsIdempotent ==
    [][\A p \in Process, tunnel \in Tunnel :
          (/\ lock = p /\ job[p].op = "apply" /\ job[p].tunnel = tunnel
           /\ healthy(tunnel, job[p].policy))
              => OwnedRules(tunnel)' = OwnedRules(tunnel)]_vars
=============================================================================
