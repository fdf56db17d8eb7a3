--------------------------- MODULE GatewayProofs ---------------------------
(***************************************************************************)
(* Proofs about the LAN gateway (Gateway): however many commands run, are   *)
(* killed at any step and meet failures and other firewall services, rules  *)
(* never stack up, a successful apply is healthy and a healthy gateway is   *)
(* left alone; and, under the hypotheses the theorems state, a failed first *)
(* apply leaves nothing, every leftover is on record, and the forwarding    *)
(* value of the administrator comes back.                                   *)
(***************************************************************************)
EXTENDS Gateway, FiniteSetTheorems, TLAPS

Kind == {"outbound_mss", "inbound_mss", "masquerade", "allow_outbound",
         "allow_return", "foreign"}
RuleType == [owner : Tunnel \cup {Nobody}, location : Location, kind : Kind,
             policy : Policy \cup {"any"}]
JobType == [op : {"apply", "remove"}, tunnel : Tunnel, policy : Policy \cup {"any"},
            forwarding_before : {"", "0", "1"}, original_created : BOOLEAN,
            marker_created : BOOLEAN, added : Seq(RuleType), rule : 1 .. 6,
            victim : {<<>>} \cup (Location \X Nat), rules_before : SUBSET RuleType]

\* Everything but the chains has its type; a process that is not idle has a job.
Typed ==
    /\ ip_forward \in {"", "0", "1"}
    /\ host_forward \in {"0", "1"}
    /\ original \in {Absent, "", "0", "1"}
    /\ marker \in SUBSET Tunnel
    /\ lock \in Process \cup {Nobody}
    /\ pc \in [Process -> StepName]
    /\ job \in [Process -> JobType \cup {NoJob}]
    /\ \A p \in Process : pc[p] # "idle" => job[p] \in JobType
    /\ faults \in Nat

\* The locals of a process that has done nothing yet.
Fresh(j) ==
    /\ j.added = <<>> /\ j.rule = 1
    /\ ~j.original_created /\ ~j.marker_created
    /\ j.op = "apply" => j.policy \in Policy

\* A process is past its lock step exactly while it holds the lock; one that
\* waits for it has done nothing yet.
Mutex ==
    \A p \in Process :
        /\ pc[p] \notin {"idle", "lock"} <=> lock = p
        /\ pc[p] = "lock" => Fresh(job[p])

\* A rule is in the chain it names, and a rule with an owner is there once.
ChainsOK ==
    /\ chain \in [Location -> Seq(RuleType)]
    /\ \A l \in Location : \A i \in DOMAIN chain[l] :
          /\ chain[l][i].location = l
          /\ chain[l][i].owner # Nobody =>
                \A k \in DOMAIN chain[l] : chain[l][k] = chain[l][i] => k = i

PlanSet(tunnel, policy) == {from_config(tunnel, policy)[k] : k \in 1 .. 5}

\* The rules of a tunnel are those of one policy.
OnePolicy ==
    \A tunnel \in Tunnel : \E policy \in Policy :
        OwnedRules(tunnel) \subseteq PlanSet(tunnel, policy)

Preparing == {"create_original", "write_original", "record_gateway"}
Changing == {"compare", "list", "delete", "add", "undo_rules"}
Leaving == {"undo_forwarding", "remove_original", "unlock"}

\* What an apply at a step of its critical section knows about the rules its
\* tunnel owns, with the sysctl and the markers of the host.
ApplyRules(step, j, forward, markers, owned) ==
    LET planned == PlanSet(j.tunnel, j.policy)
    IN  /\ j.policy \in Policy
        /\ step \in Preparing \cup Changing \cup Leaving \cup {"applied"}
        /\ step \in Preparing \cup {"compare", "list", "delete"} =>
              j.added = <<>> /\ j.rule = 1
        /\ step \in {"write_original", "record_gateway"} \cup Changing =>
              j.forwarding_before = forward
        /\ step \in Changing \cup {"applied"} => j.tunnel \in markers
        /\ step \in {"list", "delete"} => ~(planned \subseteq owned)
        /\ step = "add" =>
              \/ j.added = <<>> /\ owned = planned
              \/ owned = {from_config(j.tunnel, j.policy)[k] : k \in 1 .. (j.rule - 1)}
        /\ step = "undo_rules" /\ j.added # <<>> =>
              forward # "1" \/ ~(planned \subseteq owned)
        /\ step = "applied" => forward = "1" /\ owned = planned

Removing == {"list", "delete", "remove_marker", "restore_forwarding",
             "remove_original", "removed", "unlock"}

HolderRules(p) ==
    /\ job[p].op = "apply" =>
          ApplyRules(pc[p], job[p], ip_forward, marker, OwnedRules(job[p].tunnel))
    /\ job[p].op = "remove" => pc[p] \in Removing

\* The inductive invariant about the rules.
RulesInv ==
    /\ Typed /\ Mutex /\ ChainsOK /\ OnePolicy
    /\ \A p \in Process : lock = p => HolderRules(p)

\* A tunnel with rules has its marker.
Marked == \A tunnel \in Tunnel : OwnedRules(tunnel) # {} => tunnel \in marker

\* What an apply at a step of its critical section can undo; spent: no further
\* command fails.
ApplyUndoes(step, j, owned, spent) ==
    /\ step \in Preparing => owned = j.rules_before
    /\ step \in Changing =>
          /\ j.marker_created => j.rules_before = {}
          /\ j.rules_before = {} => owned \subseteq {j.added[k] : k \in DOMAIN j.added}
    /\ step = "undo_rules" => spent
    /\ step \in Leaving /\ j.rules_before = {} => owned = {}

HolderUndoes(p) ==
    /\ job[p].op = "apply" =>
          ApplyUndoes(pc[p], job[p], OwnedRules(job[p].tunnel), ~(faults < MaxFaults))
    /\ pc[p] = "remove_marker" => OwnedRules(job[p].tunnel) = {}
    /\ pc[p] = "delete" =>
          /\ job[p].victim[1] \in Location
          /\ job[p].victim[2] \in DOMAIN chain[job[p].victim[1]]

\* The inductive invariant about the rollback, when at most one command fails.
RollbackInv ==
    /\ RulesInv /\ Marked
    /\ \A p \in Process : lock = p => HolderUndoes(p)

\* What the holder of the lock knows about the recorded forwarding value; clean:
\* no kill has torn its file.
HolderKnows(step, j, forward, host, orig, markers, clean) ==
    /\ step = "write_original" =>
          /\ orig = "" /\ markers = {}
          /\ clean => forward = host /\ j.forwarding_before = host
    /\ clean /\ j.original_created => j.forwarding_before = host
    /\ step \in {"create_original", "write_original"} => ~j.original_created
    /\ step = "record_gateway" =>
          /\ orig # Absent
          /\ j.original_created => markers = {} /\ (clean => forward = host)
    /\ j.op = "apply" /\ step \in Changing => orig # Absent
    /\ step = "undo_forwarding" => j.original_created
    /\ step \in {"undo_forwarding", "restore_forwarding"} => orig # Absent
    /\ step \in {"undo_forwarding", "restore_forwarding", "remove_original"} => markers = {}
    /\ clean /\ step \in {"undo_forwarding", "remove_original"} => forward = host

HolderForwarding(p) ==
    HolderKnows(pc[p], job[p], ip_forward, host_forward, original, marker, ~torn)

\* What the files say of the sysctl, whoever holds the lock.
FilesKnow(forward, host, orig, markers, clean) ==
    /\ orig = Absent => markers = {} /\ (clean => forward = host)
    /\ clean /\ orig \in {"0", "1"} => orig = host

\* The inductive invariant about forwarding.  What it says of the files holds
\* always, what it says of the administrator's value until somebody is killed
\* between the creation of the file and the write of its value.
ForwardingInv ==
    /\ RulesInv /\ torn \in BOOLEAN
    /\ FilesKnow(ip_forward, host_forward, original, marker, ~torn)
    /\ ~torn /\ original = "" => \E p \in Process : pc[p] = "write_original"
    /\ \A p \in Process : lock = p => HolderForwarding(p)

----------------------------------------------------------------------------
(***************************************************************************)
(* Sequences of rules.                                                     *)
(***************************************************************************)

\* What deleting rule number n of a chain leaves.
LEMMA RemoveAtFacts ==
    ASSUME NEW S, NEW s \in Seq(S), NEW n \in DOMAIN s
    PROVE  /\ RemoveAt(s, n) \in Seq(S)
           /\ Len(RemoveAt(s, n)) = Len(s) - 1
           /\ \A i \in 1 .. (Len(s) - 1) :
                 RemoveAt(s, n)[i] = IF i < n THEN s[i] ELSE s[i + 1]
<1>1. n \in 1 .. Len(s) /\ Len(s) \in Nat
    OBVIOUS
<1> DEFINE a == SubSeq(s, 1, n - 1)
           b == SubSeq(s, n + 1, Len(s))
<1>2. a \in Seq(S) /\ Len(a) = n - 1 /\ \A i \in 1 .. (n - 1) : a[i] = s[i]
    BY <1>1
<1>3. b \in Seq(S) /\ Len(b) = Len(s) - n
      /\ \A i \in 1 .. (Len(s) - n) : b[i] = s[n + i]
    BY <1>1
<1>4. RemoveAt(s, n) = a \o b
    BY DEF RemoveAt
<1> HIDE DEF a, b
<1>5. a \o b \in Seq(S) /\ Len(a \o b) = Len(s) - 1
    BY <1>1, <1>2, <1>3
<1>6. ASSUME NEW i \in 1 .. (Len(s) - 1)
      PROVE  (a \o b)[i] = IF i < n THEN s[i] ELSE s[i + 1]
    <2>1. CASE i < n
        BY <1>1, <1>2, <1>3, <2>1
    <2>2. CASE ~(i < n)
        <3>1. (a \o b)[i] = b[i - (n - 1)]
            <4>1. \A k \in 1 .. (Len(a) + Len(b)) : k > Len(a) => (a \o b)[k] = b[k - Len(a)]
                BY <1>2, <1>3, SMTT(30)
            <4>2. i \in 1 .. (Len(a) + Len(b)) /\ i > Len(a)
                BY <1>1, <1>2, <1>3, <2>2
            <4> QED BY <1>2, <4>1, <4>2
        <3>2. i - (n - 1) \in 1 .. (Len(s) - n) /\ n + (i - (n - 1)) = i + 1
            BY <1>1, <2>2
        <3> QED BY <3>1, <3>2, <1>3, <2>2
    <2> QED BY <2>1, <2>2
<1> QED BY <1>4, <1>5, <1>6

\* The first of a set of rule numbers is one of them.
LEMMA FirstIsMember ==
    ASSUME NEW S \in SUBSET Nat, S # {}
    PROVE  First(S) \in S
<1> DEFINE R == OpToRel(<, Nat)
<1>1. IsWellFoundedOn(R, Nat)
    BY NatLessThanWellFounded
<1>0. R = {ss \in Nat \X Nat : ss[1] < ss[2]}
    BY Zenon DEF R, OpToRel
<1> HIDE DEF R
<1>2. \E x \in S : \A y \in S : ~(<<y, x>> \in R)
    BY <1>1, WFMin
<1>3. PICK x \in S : \A y \in S : ~(<<y, x>> \in R)
    BY <1>2
<1>4. ASSUME NEW y \in S
      PROVE  x <= y
    <2>1. x \in Nat /\ y \in Nat /\ ~(<<y, x>> \in R)
        BY <1>3
    <2>2. y < x => <<y, x>> \in R
        BY <1>0, <2>1
    <2> QED BY <2>1, <2>2
<1> QED BY <1>4 DEF First

\* The rules a tunnel owns, read off the chains.
LEMMA OwnedMeaning ==
    ASSUME NEW t
    PROVE  \A r : r \in OwnedRules(t) <=>
                     \E l \in Location : \E i \in DOMAIN chain[l] :
                        r = chain[l][i] /\ r.owner = t
BY DEF OwnedRules, OwnedAt

\* `iptables -C' finds a planned rule exactly if the tunnel owns it.
LEMMA ExistsIsOwned ==
    ASSUME ChainsOK, NEW r, r.location \in Location
    PROVE  exists(r) <=> r \in OwnedRules(r.owner)
<1>1. ASSUME exists(r) PROVE r \in OwnedRules(r.owner)
    BY <1>1, OwnedMeaning DEF exists
<1>2. ASSUME r \in OwnedRules(r.owner) PROVE exists(r)
    <2>0. PICK l \in Location : \E i \in DOMAIN chain[l] : r = chain[l][i]
        BY <1>2, OwnedMeaning
    <2>1. PICK i \in DOMAIN chain[l] : r = chain[l][i]
        BY <2>0
    <2>2. r.location = l
        BY <2>1 DEF ChainsOK
    <2> QED BY <2>1, <2>2 DEF exists
<1> QED BY <1>1, <1>2

\* The same of the rules after a step.
LEMMA OwnedMeaningNext ==
    ASSUME NEW t
    PROVE  \A r : r \in OwnedRules(t)' <=>
                     \E l \in Location : \E i \in DOMAIN chain'[l] :
                        r = chain'[l][i] /\ r.owner = t
BY DEF OwnedRules, OwnedAt

\* Deleting one rule: a tunnel gains none, and the rule deleted is gone.
LEMMA RemoveStep ==
    ASSUME ChainsOK, NEW l \in Location, NEW n \in DOMAIN chain[l],
           chain' = [chain EXCEPT ![l] = RemoveAt(@, n)]
    PROVE  /\ ChainsOK'
           /\ \A t : OwnedRules(t)' \subseteq OwnedRules(t)
           /\ \A t \in Tunnel : chain[l][n] \notin OwnedRules(t)'
<1> DEFINE s == chain[l]
           r == RemoveAt(s, n)
<1>1. s \in Seq(RuleType) /\ n \in DOMAIN s /\ n \in 1 .. Len(s) /\ Len(s) \in Nat
    BY DEF ChainsOK
<1>2. /\ r \in Seq(RuleType) /\ Len(r) = Len(s) - 1
      /\ \A i \in 1 .. (Len(s) - 1) : r[i] = IF i < n THEN s[i] ELSE s[i + 1]
    BY <1>1, RemoveAtFacts
<1>3. DOMAIN r = 1 .. (Len(s) - 1)
    BY <1>2
<1>4. chain' \in [Location -> Seq(RuleType)] /\ chain'[l] = r
      /\ \A k \in Location : k # l => chain'[k] = chain[k]
    BY <1>2 DEF ChainsOK
<1> DEFINE Old(i) == IF i < n THEN i ELSE i + 1
<1>5. \A i \in DOMAIN r : Old(i) \in DOMAIN s /\ Old(i) # n /\ r[i] = s[Old(i)]
    <2> SUFFICES ASSUME NEW i \in 1 .. (Len(s) - 1)
                 PROVE  Old(i) \in DOMAIN s /\ Old(i) # n /\ r[i] = s[Old(i)]
        BY <1>3
    <2>1. DOMAIN s = 1 .. Len(s) /\ r[i] = IF i < n THEN s[i] ELSE s[i + 1]
        BY <1>1, <1>2
    <2>2. CASE i < n
        BY <1>1, <2>1, <2>2
    <2>3. CASE ~(i < n)
        BY <1>1, <2>1, <2>3
    <2> QED BY <2>2, <2>3
<1>6. \A i, k \in DOMAIN r : Old(i) = Old(k) => i = k
    <2>1. n \in Nat /\ \A i \in DOMAIN r : i \in Nat
        BY <1>1, <1>3
    <2>2. \A i, k \in Nat : Old(i) = Old(k) => i = k
        BY <2>1
    <2> QED BY <2>1, <2>2
<1> HIDE DEF r, Old
<1>7. ASSUME NEW k \in Location, NEW i \in DOMAIN chain'[k]
      PROVE  /\ chain'[k][i].location = k
             /\ chain'[k][i].owner # Nobody =>
                  \A h \in DOMAIN chain'[k] : chain'[k][h] = chain'[k][i] => h = i
    <2>1. CASE k = l
        <3>1. chain'[k] = r
            BY <1>4, <2>1
        <3>2. Old(i) \in DOMAIN s /\ r[i] = s[Old(i)]
            BY <1>5, <3>1
        <3>3. \A h \in DOMAIN r : r[h] = r[i] /\ r[i].owner # Nobody => Old(h) = Old(i)
            BY <1>5, <3>2, <3>1 DEF ChainsOK
        <3> QED BY <3>1, <3>2, <3>3, <1>6, <2>1 DEF ChainsOK
    <2>2. CASE k # l
        BY <2>2, <1>4 DEF ChainsOK
    <2> QED BY <2>1, <2>2
<1>8. ChainsOK'
    BY <1>4, <1>7 DEF ChainsOK
<1>9. ASSUME NEW t, NEW x \in OwnedRules(t)'
      PROVE  x \in OwnedRules(t) /\ (t \in Tunnel => x # chain[l][n])
    <2>1. PICK k \in Location : \E i \in DOMAIN chain'[k] : x = chain'[k][i] /\ x.owner = t
        BY <1>9, OwnedMeaningNext
    <2>2. PICK i \in DOMAIN chain'[k] : x = chain'[k][i] /\ x.owner = t
        BY <2>1
    <2>3. CASE k = l
        <3>1. Old(i) \in DOMAIN s /\ Old(i) # n /\ x = s[Old(i)]
            BY <2>2, <2>3, <1>4, <1>5
        <3>2. x \in OwnedRules(t)
            BY <3>1, <2>2, <2>3, OwnedMeaning
        <3>3. t \in Tunnel => x # s[n]
            <4>1. s[n].owner # Nobody => \A h \in DOMAIN s : s[h] = s[n] => h = n
                BY <1>1 DEF ChainsOK
            <4>2. t \in Tunnel => t # Nobody
                BY GatewayAssumption
            <4> QED BY <3>1, <2>2, <4>1, <4>2
        <3> QED BY <3>2, <3>3
    <2>4. CASE k # l
        <3>1. chain'[k] = chain[k]
            BY <2>4, <1>4
        <3>2. x.location = k /\ s[n].location = l
            BY <3>1, <2>2, <1>1 DEF ChainsOK
        <3>3. x \in OwnedRules(t)
            BY <3>1, <2>2, OwnedMeaning
        <3> QED BY <3>2, <3>3, <2>4
    <2> QED BY <2>3, <2>4
<1> QED BY <1>8, <1>9

\* Appending a rule that is not there: its tunnel owns it besides what it owned.
LEMMA AppendStep ==
    ASSUME ChainsOK, NEW r \in RuleType, r.owner \in Tunnel,
           r \notin OwnedRules(r.owner),
           chain' = [chain EXCEPT ![r.location] = Append(@, r)]
    PROVE  /\ ChainsOK'
           /\ OwnedRules(r.owner)' = OwnedRules(r.owner) \cup {r}
           /\ \A t : t # r.owner => OwnedRules(t)' = OwnedRules(t)
<1> DEFINE l == r.location
           s == chain[l]
           a == Append(s, r)
<1>1. l \in Location /\ s \in Seq(RuleType) /\ Len(s) \in Nat /\ DOMAIN s = 1 .. Len(s)
    <2>1. r.location \in Location
        BY DEF RuleType
    <2>2. chain[r.location] \in Seq(RuleType)
        BY <2>1 DEF ChainsOK
    <2> QED BY <2>1, <2>2
<1>2. /\ a \in Seq(RuleType) /\ DOMAIN a = 1 .. (Len(s) + 1)
      /\ \A i \in 1 .. Len(s) : a[i] = s[i]
      /\ a[Len(s) + 1] = r
    BY <1>1
<1>3. chain' \in [Location -> Seq(RuleType)] /\ chain'[l] = a
      /\ \A k \in Location : k # l => chain'[k] = chain[k]
    BY <1>1, <1>2 DEF ChainsOK
<1>4. \A i \in DOMAIN s : s[i] # r
    BY <1>1, OwnedMeaning
<1> HIDE DEF a, l
<1>5. ASSUME NEW k \in Location, NEW i \in DOMAIN chain'[k]
      PROVE  /\ chain'[k][i].location = k
             /\ chain'[k][i].owner # Nobody =>
                  \A h \in DOMAIN chain'[k] : chain'[k][h] = chain'[k][i] => h = i
    <2>1. CASE k = l
        <3>1. chain'[k] = a
            BY <1>3, <2>1
        <3>2. CASE i = Len(s) + 1
            <4>1. \A h \in DOMAIN a : a[h] = a[i] => h = i
                BY <1>1, <1>2, <1>4, <3>2
            <4> QED BY <3>1, <3>2, <4>1, <1>2, <2>1 DEF l
        <3>3. CASE i \in DOMAIN s
            <4>1. \A h \in DOMAIN a : a[h] = a[i] => h \in DOMAIN s
                <5>1. a[i] # r
                    BY <1>1, <1>2, <1>4, <3>3
                <5>2. \A h \in DOMAIN a : h = Len(s) + 1 \/ h \in DOMAIN s
                    BY <1>1, <1>2
                <5> QED BY <1>2, <5>1, <5>2
            <4>2. \A b \in DOMAIN s :
                     /\ s[b].location = l
                     /\ s[b].owner # Nobody => \A h \in DOMAIN s : s[h] = s[b] => h = b
                BY <1>1 DEF ChainsOK
            <4>3. \A h \in DOMAIN s : a[h] = s[h]
                BY <1>1, <1>2
            <4> QED BY <2>1, <3>1, <3>3, <4>1, <4>2, <4>3
        <3>4. i = Len(s) + 1 \/ i \in DOMAIN s
            <4>1. i \in 1 .. (Len(s) + 1)
                BY <1>2, <3>1
            <4> QED BY <1>1, <4>1
        <3> QED BY <3>2, <3>3, <3>4
    <2>2. CASE k # l
        BY <2>2, <1>3 DEF ChainsOK
    <2> QED BY <2>1, <2>2
<1>6. ChainsOK'
    BY <1>3, <1>5 DEF ChainsOK
<1>7. ASSUME NEW t, NEW x
      PROVE  x \in OwnedRules(t)' <=> x \in OwnedRules(t) \/ (x = r /\ t = r.owner)
    <2>1. ASSUME x \in OwnedRules(t)'
          PROVE  x \in OwnedRules(t) \/ (x = r /\ t = r.owner)
        <3>1. PICK k \in Location : \E i \in DOMAIN chain'[k] : x = chain'[k][i] /\ x.owner = t
            BY <2>1, OwnedMeaningNext
        <3>2. PICK i \in DOMAIN chain'[k] : x = chain'[k][i] /\ x.owner = t
            BY <3>1
        <3>3. (x = r /\ t = r.owner) \/ \E h \in DOMAIN chain[k] : x = chain[k][h]
            BY <3>2, <1>1, <1>2, <1>3
        <3> QED BY <3>2, <3>3, OwnedMeaning
    <2>2. ASSUME x \in OwnedRules(t)
          PROVE  x \in OwnedRules(t)'
        <3>1. PICK k \in Location : \E i \in DOMAIN chain[k] : x = chain[k][i] /\ x.owner = t
            BY <2>2, OwnedMeaning
        <3>2. PICK i \in DOMAIN chain[k] : x = chain[k][i] /\ x.owner = t
            BY <3>1
        <3>3. i \in DOMAIN chain'[k] /\ x = chain'[k][i]
            BY <3>2, <1>1, <1>2, <1>3
        <3> QED BY <3>2, <3>3, OwnedMeaningNext
    <2>3. r \in OwnedRules(r.owner)'
        <3>1. Len(s) + 1 \in DOMAIN chain'[l] /\ chain'[l][Len(s) + 1] = r
            BY <1>1, <1>2, <1>3
        <3> QED BY <3>1, <1>1, OwnedMeaningNext
    <2> QED BY <2>1, <2>2, <2>3
<1>8. OwnedRules(r.owner)' = OwnedRules(r.owner) \cup {r}
    BY <1>7
<1>9. ASSUME NEW t, t # r.owner
      PROVE  OwnedRules(t)' = OwnedRules(t)
    <2>1. \A x : x \in OwnedRules(t)' <=> x \in OwnedRules(t)
        BY <1>7, <1>9
    <2> QED BY <2>1
<1> QED BY <1>6, <1>8, <1>9

\* A rule of another service at the head of a chain is nobody's.
LEMMA ForeignStep ==
    ASSUME ChainsOK, chain' = [chain EXCEPT !["filter"] = <<ForeignRule>> \o @]
    PROVE  /\ ChainsOK'
           /\ \A l \in Location : DOMAIN chain[l] \subseteq DOMAIN chain'[l]
           /\ \A t \in Tunnel : OwnedRules(t)' = OwnedRules(t)
<1> DEFINE l == "filter"
           s == chain[l]
           a == <<ForeignRule>> \o s
<1>1. l \in Location /\ s \in Seq(RuleType) /\ Len(s) \in Nat /\ DOMAIN s = 1 .. Len(s)
    BY DEF ChainsOK, Location
<1>2. ForeignRule \in RuleType /\ ForeignRule.owner = Nobody /\ ForeignRule.location = l
    BY DEF ForeignRule, Rule, RuleType, Location, Kind
<1>3. /\ a \in Seq(RuleType) /\ DOMAIN a = 1 .. (Len(s) + 1)
      /\ a[1] = ForeignRule
      /\ \A i \in 1 .. Len(s) : a[i + 1] = s[i]
    BY <1>1, <1>2
<1>4. chain' \in [Location -> Seq(RuleType)] /\ chain'[l] = a
      /\ \A k \in Location : k # l => chain'[k] = chain[k]
    BY <1>1, <1>3 DEF ChainsOK
<1> HIDE DEF a, l
<1>5. ASSUME NEW k \in Location, NEW i \in DOMAIN chain'[k]
      PROVE  /\ chain'[k][i].location = k
             /\ chain'[k][i].owner # Nobody =>
                  \A h \in DOMAIN chain'[k] : chain'[k][h] = chain'[k][i] => h = i
    <2>1. CASE k = l
        <3>1. chain'[k] = a
            BY <1>4, <2>1
        <3>2. CASE i = 1
            BY <3>1, <3>2, <1>2, <1>3, <2>1
        <3>3. CASE i # 1
            <4>0. \A h \in DOMAIN a : h # 1 => h \in Nat /\ h - 1 \in DOMAIN s /\ a[h] = s[h - 1]
                <5> SUFFICES ASSUME NEW h \in 1 .. (Len(s) + 1), h # 1
                             PROVE  h \in Nat /\ h - 1 \in DOMAIN s /\ a[h] = s[h - 1]
                    BY <1>3
                <5>1. h - 1 \in 1 .. Len(s) /\ h - 1 + 1 = h
                    BY <1>1
                <5>2. a[h - 1 + 1] = s[h - 1]
                    BY <1>3, <5>1
                <5> QED BY <1>1, <5>1, <5>2
            <4>1. i - 1 \in DOMAIN s /\ a[i] = s[i - 1]
                BY <3>1, <3>3, <4>0
            <4>2. ASSUME NEW h \in DOMAIN a, a[h] = a[i], a[i].owner # Nobody
                  PROVE  h = i
                <5>1. h # 1
                    BY <4>2, <1>2, <1>3
                <5>2. h \in Nat /\ i \in Nat /\ h - 1 \in DOMAIN s /\ a[h] = s[h - 1]
                    BY <3>1, <3>3, <4>0, <5>1
                <5>3. h - 1 = i - 1
                    <6>1. \A b, c \in DOMAIN s : s[b] = s[c] /\ s[c].owner # Nobody => b = c
                        BY <1>1 DEF ChainsOK
                    <6> QED BY <4>1, <4>2, <5>2, <6>1
                <5> QED BY <5>2, <5>3
            <4>3. s[i - 1].location = l
                BY <1>1, <4>1 DEF ChainsOK
            <4> QED BY <2>1, <3>1, <4>1, <4>2, <4>3
        <3> QED BY <3>2, <3>3
    <2>2. CASE k # l
        BY <2>2, <1>4 DEF ChainsOK
    <2> QED BY <2>1, <2>2
<1>6. ChainsOK'
    BY <1>4, <1>5 DEF ChainsOK
<1>7. \A k \in Location : DOMAIN chain[k] \subseteq DOMAIN chain'[k]
    BY <1>1, <1>3, <1>4
<1>8. ASSUME NEW t \in Tunnel
      PROVE  OwnedRules(t)' = OwnedRules(t)
    <2>0. t # Nobody
        BY GatewayAssumption
    <2>1. ASSUME NEW x \in OwnedRules(t)'
          PROVE  x \in OwnedRules(t)
        <3>1. PICK k \in Location : \E i \in DOMAIN chain'[k] : x = chain'[k][i] /\ x.owner = t
            BY <2>1, OwnedMeaningNext
        <3>2. PICK i \in DOMAIN chain'[k] : x = chain'[k][i] /\ x.owner = t
            BY <3>1
        <3>3. \E h \in DOMAIN chain[k] : x = chain[k][h]
            <4>1. CASE k = l
                <5>1. i # 1
                    BY <3>2, <4>1, <1>2, <1>3, <1>4, <2>0
                <5>2. i - 1 \in DOMAIN s /\ x = s[i - 1]
                    BY <3>2, <4>1, <5>1, <1>1, <1>3, <1>4
                <5> QED BY <5>2, <4>1
            <4>2. CASE k # l
                BY <3>2, <4>2, <1>4
            <4> QED BY <4>1, <4>2
        <3> QED BY <3>2, <3>3, OwnedMeaning
    <2>2. ASSUME NEW x \in OwnedRules(t)
          PROVE  x \in OwnedRules(t)'
        <3>1. PICK k \in Location : \E i \in DOMAIN chain[k] : x = chain[k][i] /\ x.owner = t
            BY <2>2, OwnedMeaning
        <3>2. PICK i \in DOMAIN chain[k] : x = chain[k][i] /\ x.owner = t
            BY <3>1
        <3>3. \E h \in DOMAIN chain'[k] : x = chain'[k][h]
            <4>1. CASE k = l
                <5>1. i + 1 \in DOMAIN a /\ a[i + 1] = x
                    BY <3>2, <4>1, <1>1, <1>3
                <5> QED BY <5>1, <4>1, <1>4
            <4>2. CASE k # l
                BY <3>2, <4>2, <1>4
            <4> QED BY <4>1, <4>2
        <3> QED BY <3>2, <3>3, OwnedMeaningNext
    <2> QED BY <2>1, <2>2
<1> QED BY <1>6, <1>7, <1>8

\* A step that leaves the chains alone leaves every tunnel its rules.
LEMMA SameChains ==
    ASSUME UNCHANGED chain
    PROVE  /\ ChainsOK => ChainsOK'
           /\ \A t : OwnedRules(t)' = OwnedRules(t)
BY DEF ChainsOK, OwnedRules, OwnedAt

\* A plan is five different rules, all with the tunnel's tag.
LEMMA PlanFacts ==
    ASSUME NEW t \in Tunnel, NEW q \in Policy \cup {"any"}
    PROVE  /\ Len(from_config(t, q)) = 5
           /\ DOMAIN from_config(t, q) = 1 .. 5
           /\ \A k \in 1 .. 5 : /\ from_config(t, q)[k] \in RuleType
                                /\ from_config(t, q)[k].owner = t
                                /\ from_config(t, q)[k].location \in Location
           /\ \A i, k \in 1 .. 5 : from_config(t, q)[i] = from_config(t, q)[k] => i = k
<1> DEFINE f == from_config(t, q)
<1>1. /\ Len(f) = 5 /\ DOMAIN f = 1 .. 5
      /\ f[1] = Rule(t, "mangle", "outbound_mss", q)
      /\ f[2] = Rule(t, "mangle", "inbound_mss", q)
      /\ f[3] = Rule(t, "nat", "masquerade", "any")
      /\ f[4] = Rule(t, "filter", "allow_outbound", q)
      /\ f[5] = Rule(t, "filter", "allow_return", q)
    BY DEF from_config
<1> HIDE DEF f
<1>2. \A k \in 1 .. 5 : k = 1 \/ k = 2 \/ k = 3 \/ k = 4 \/ k = 5
    OBVIOUS
<1>3. /\ f[1].kind = "outbound_mss" /\ f[2].kind = "inbound_mss" /\ f[3].kind = "masquerade"
      /\ f[4].kind = "allow_outbound" /\ f[5].kind = "allow_return"
    BY <1>1 DEF Rule
<1>4. \A k \in 1 .. 5 : f[k] \in RuleType /\ f[k].owner = t /\ f[k].location \in Location
    BY <1>1, <1>2 DEF Rule, RuleType, Location, Kind
<1>5. \A i, k \in 1 .. 5 : f[i] = f[k] => i = k
    BY <1>2, <1>3
<1> QED BY <1>1, <1>4, <1>5 DEF f

\* Only one policy plans a given set of rules.
LEMMA PlanNamesPolicy ==
    ASSUME NEW t \in Tunnel, NEW q \in Policy, NEW h \in Policy,
           PlanSet(t, q) \subseteq PlanSet(t, h)
    PROVE  PlanSet(t, q) = PlanSet(t, h)
<1>1. from_config(t, q)[1] = Rule(t, "mangle", "outbound_mss", q)
    BY DEF from_config
<1>2. from_config(t, q)[1] \in PlanSet(t, h)
    BY DEF PlanSet
<1>3. PICK k \in 1 .. 5 : from_config(t, q)[1] = from_config(t, h)[k]
    BY <1>2 DEF PlanSet
<1>4. from_config(t, h)[k].kind = "outbound_mss" /\ from_config(t, h)[k].policy = q
    BY <1>1, <1>3 DEF Rule
<1>5. k = 1
    BY <1>4 DEF from_config, Rule
<1>6. q = h
    BY <1>4, <1>5 DEF from_config, Rule
<1> QED BY <1>6

\* The rules counted are the rules owned: none is there twice.
LEMMA CountIsOwned ==
    ASSUME ChainsOK, NEW t \in Tunnel
    PROVE  IsFiniteSet(OwnedRules(t)) /\ count_owned_rules(t) = Cardinality(OwnedRules(t))
<1> DEFINE O == OwnedRules(t)
           A(l) == {l} \X OwnedAt(t, l)
           D == UNION {A(l) : l \in Location}
           f == [d \in D |-> chain[d[1]][d[2]]]
<1>1. ASSUME NEW l \in Location
      PROVE  IsFiniteSet(A(l))
    <2>1. chain[l] \in Seq(RuleType) /\ Len(chain[l]) \in Nat
        BY DEF ChainsOK
    <2>2. OwnedAt(t, l) \in SUBSET Nat /\ \A i \in OwnedAt(t, l) : i <= Len(chain[l])
        BY <2>1 DEF OwnedAt
    <2>3. IsFiniteSet(OwnedAt(t, l))
        BY <2>1, <2>2, FS_BoundedSetOfNaturals
    <2>4. IsFiniteSet({l})
        BY FS_Singleton
    <2> DEFINE B == OwnedAt(t, l)
               C == {l}
    <2> HIDE DEF B, C
    <2>5. IsFiniteSet(B) /\ IsFiniteSet(C)
        BY <2>3, <2>4 DEF B, C
    <2>6. IsFiniteSet(C \X B)
        BY <2>5, FS_Product
    <2> QED BY <2>6 DEF B, C
<1> HIDE DEF A
<1>2. D = (A("mangle") \cup A("nat")) \cup A("filter")
    BY DEF Location
<1>3. IsFiniteSet(D)
    <2>1. IsFiniteSet(A("mangle")) /\ IsFiniteSet(A("nat")) /\ IsFiniteSet(A("filter"))
        BY <1>1 DEF Location
    <2>2. IsFiniteSet(A("mangle") \cup A("nat"))
        BY <2>1, FS_Union
    <2>3. IsFiniteSet((A("mangle") \cup A("nat")) \cup A("filter"))
        BY <2>1, <2>2, FS_Union
    <2> QED BY <2>3, <1>2
<1>4. ASSUME NEW d \in D
      PROVE  /\ d = <<d[1], d[2]>> /\ d[1] \in Location /\ d[2] \in DOMAIN chain[d[1]]
             /\ chain[d[1]][d[2]].owner = t
    BY DEF A, OwnedAt
<1>5. ASSUME NEW l \in Location, NEW i \in DOMAIN chain[l], chain[l][i].owner = t
      PROVE  <<l, i>> \in D
    BY <1>5 DEF A, OwnedAt
<1> HIDE DEF D
<1>6. f \in [D -> O]
    <2>1. \A d \in D : chain[d[1]][d[2]] \in O
        BY <1>4, OwnedMeaning
    <2> QED BY <2>1
<1>7. ASSUME NEW d \in D, NEW e \in D, f[d] = f[e]
      PROVE  d = e
    <2>1. chain[d[1]][d[2]] = chain[e[1]][e[2]]
        BY <1>7
    <2>2. d[1] = e[1]
        BY <2>1, <1>4 DEF ChainsOK
    <2>3. t # Nobody
        BY GatewayAssumption
    <2>4. d[2] = e[2]
        BY <2>1, <2>2, <2>3, <1>4 DEF ChainsOK
    <2> QED BY <2>2, <2>4, <1>4
<1>8. ASSUME NEW r \in O
      PROVE  \E d \in D : f[d] = r
    <2>1. PICK l \in Location : \E i \in DOMAIN chain[l] : r = chain[l][i] /\ r.owner = t
        BY OwnedMeaning
    <2>2. PICK i \in DOMAIN chain[l] : r = chain[l][i] /\ r.owner = t
        BY <2>1
    <2>3. <<l, i>> \in D
        BY <2>2, <1>5
    <2>4. f[<<l, i>>] = r
        BY <2>2, <2>3
    <2> QED BY <2>3, <2>4
<1> HIDE DEF f
<1>9. f \in Bijection(D, O)
    BY <1>6, <1>7, <1>8 DEF Bijection, Injection, Surjection, IsInjective
<1>10. ExistsBijection(D, O)
    BY <1>9 DEF ExistsBijection
<1> HIDE DEF O
<1>11. IsFiniteSet(O) /\ Cardinality(O) = Cardinality(D)
    BY <1>3, <1>10, FS_Bijection
<1> QED BY <1>11 DEF O, D, A, count_owned_rules

\* A plan has five rules.
LEMMA PlanCardinality ==
    ASSUME NEW t \in Tunnel, NEW q \in Policy \cup {"any"}
    PROVE  IsFiniteSet(PlanSet(t, q)) /\ Cardinality(PlanSet(t, q)) = 5
<1> DEFINE S == PlanSet(t, q)
           f == [k \in 1 .. 5 |-> from_config(t, q)[k]]
           I == 1 .. 5
<1>1. f \in [I -> S]
    BY DEF PlanSet
<1>2. \A i, k \in I : f[i] = f[k] => i = k
    BY PlanFacts
<1>3. \A r \in S : \E k \in I : f[k] = r
    BY DEF PlanSet
<1> HIDE DEF f, S
<1>4. ExistsBijection(I, S)
    <2> HIDE DEF I
    <2>1. f \in Bijection(I, S)
        BY <1>1, <1>2, <1>3 DEF Bijection, Injection, Surjection, IsInjective
    <2> QED BY <2>1 DEF ExistsBijection
<1>5. IsFiniteSet(I) /\ Cardinality(I) = 5
    <2>1. 1 \in Int /\ 5 \in Int
        OBVIOUS
    <2>2. \A a, b \in Int : /\ IsFiniteSet(a .. b)
                            /\ Cardinality(a .. b) = IF a > b THEN 0 ELSE b - a + 1
        BY FS_Interval
    <2>3. IsFiniteSet(1 .. 5) /\ Cardinality(1 .. 5) = IF 1 > 5 THEN 0 ELSE 5 - 1 + 1
        BY <2>1, <2>2, Zenon
    <2> QED BY <2>3
<1> HIDE DEF I
<1> QED BY <1>4, <1>5, FS_Bijection DEF S

----------------------------------------------------------------------------
(***************************************************************************)
(* Types and mutual exclusion.                                             *)
(***************************************************************************)

\* The steps of a process between taking the lock and releasing it.
HolderStep(p) ==
    \/ create_original(p) \/ write_original(p) \/ record_gateway(p)
    \/ RecordFails(p) \/ compare(p) \/ list(p) \/ delete(p) \/ add_if_missing(p)
    \/ enable_forwarding(p) \/ CommandFails(p) \/ undo_rules(p) \/ undo_marker(p)
    \/ undo_forwarding(p) \/ remove_original(p) \/ remove_marker(p)
    \/ restore_forwarding(p) \/ FileFails(p)

\* The holder of the lock goes on to a step at which it still holds it.
LEMMA HolderMoves ==
    ASSUME Typed, Mutex, NEW p \in Process, pc[p] \notin {"idle", "lock"},
           NEW j \in JobType, NEW step \in StepName \ {"idle", "lock"},
           pc' = [pc EXCEPT ![p] = step], job' = [job EXCEPT ![p] = j], lock' = lock,
           ip_forward' \in {"", "0", "1"}, host_forward' = host_forward,
           original' \in {Absent, "", "0", "1"}, marker' \in SUBSET Tunnel, faults' \in Nat
    PROVE  /\ Typed' /\ Mutex' /\ lock = p
           /\ pc'[p] = step /\ job'[p] = j
<1>1. pc'[p] = step /\ job'[p] = j
    BY DEF Typed
<1>2. \A q \in Process : q # p => pc'[q] = pc[q] /\ job'[q] = job[q]
    BY DEF Typed
<1>3. lock = p
    BY DEF Mutex
<1>4. pc' \in [Process -> StepName] /\ job' \in [Process -> JobType \cup {NoJob}]
    BY DEF Typed
<1>5. \A q \in Process : pc'[q] # "idle" => job'[q] \in JobType
    BY <1>1, <1>2 DEF Typed
<1>6. Typed'
    BY <1>4, <1>5 DEF Typed
<1>7. Mutex'
    <2>1. \A q \in Process : q # p => (pc'[q] \notin {"idle", "lock"} <=> lock' = q)
        BY <1>2 DEF Mutex
    <2>2. \A q \in Process : pc'[q] = "lock" => Fresh(job'[q])
        BY <1>1, <1>2 DEF Mutex
    <2> QED BY <2>1, <2>2, <1>1, <1>3 DEF Mutex
<1> QED BY <1>1, <1>3, <1>6, <1>7

\* The positions of a sequence are numbers.
LEMMA RuleNumbers == \A s \in Seq(RuleType) : DOMAIN s \subseteq Nat
<1> TAKE s \in Seq(RuleType)
<1>1. DOMAIN s = 1 .. Len(s) /\ Len(s) \in Nat
    OBVIOUS
<1> QED BY <1>1

\* The first owned rule that delete_owned_rules finds has a chain and a number.
LEMMA VictimFacts ==
    ASSUME ChainsOK, NEW t,
           NEW holding, holding = {n \in 1 .. 3 : OwnedAt(t, owned_rule_locations[n]) # {}},
           holding # {},
           NEW location, location = owned_rule_locations[First(holding)]
    PROVE  /\ location \in Location
           /\ First(OwnedAt(t, location)) \in DOMAIN chain[location]
           /\ First(OwnedAt(t, location)) \in Nat
           /\ chain[location][First(OwnedAt(t, location))].owner = t
<1>1. First(holding) \in holding
    <2>1. holding \in SUBSET Nat
        OBVIOUS
    <2> QED BY <2>1, FirstIsMember
<1>2. location \in Location /\ OwnedAt(t, location) # {}
    <2>1. \A n \in 1 .. 3 : owned_rule_locations[n] \in Location
        BY DEF owned_rule_locations, Location
    <2>2. First(holding) \in 1 .. 3 /\ OwnedAt(t, owned_rule_locations[First(holding)]) # {}
        BY <1>1
    <2> QED BY <2>1, <2>2
<1>3. chain[location] \in Seq(RuleType)
    BY <1>2 DEF ChainsOK
<1>4. OwnedAt(t, location) \in SUBSET Nat /\ OwnedAt(t, location) \subseteq DOMAIN chain[location]
    <2>1. DOMAIN chain[location] \subseteq Nat
        BY <1>3, RuleNumbers, Zenon
    <2>2. \A l : OwnedAt(t, l) \subseteq DOMAIN chain[l]
        BY Zenon DEF OwnedAt
    <2> QED BY <2>1, <2>2, Zenon
<1> DEFINE O == OwnedAt(t, location)
<1> HIDE DEF O
<1>5. First(O) \in O
    BY <1>2, <1>4, FirstIsMember DEF O
<1>6. \A n \in O : chain[location][n].owner = t
    BY Zenon DEF O, OwnedAt
<1> QED BY <1>2, <1>4, <1>5, <1>6 DEF O

\* If delete_owned_rules finds none, the tunnel owns none.
LEMMA NoneHolding ==
    ASSUME NEW t, {n \in 1 .. 3 : OwnedAt(t, owned_rule_locations[n]) # {}} = {}
    PROVE  OwnedRules(t) = {}
<1>1. \A n \in 1 .. 3 : OwnedAt(t, owned_rule_locations[n]) = {}
    OBVIOUS
<1>2. \A l \in Location : \E n \in 1 .. 3 : owned_rule_locations[n] = l
    <2>1. /\ owned_rule_locations[1] = "mangle" /\ owned_rule_locations[2] = "nat"
          /\ owned_rule_locations[3] = "filter"
        BY DEF owned_rule_locations
    <2>2. 1 \in 1 .. 3 /\ 2 \in 1 .. 3 /\ 3 \in 1 .. 3
        OBVIOUS
    <2> QED BY <2>1, <2>2, Zenon DEF Location
<1>3. \A l \in Location : OwnedAt(t, l) = {}
    BY <1>1, <1>2
<1> QED BY <1>3 DEF OwnedRules

\* The locals of a job that a step writes keep their types.
LEMMA JobWrites ==
    ASSUME NEW j \in JobType
    PROVE  /\ \A v \in {"", "0", "1"} : [j EXCEPT !.forwarding_before = v] \in JobType
           /\ \A v \in BOOLEAN : [j EXCEPT !.original_created = v] \in JobType
           /\ \A v \in BOOLEAN : [j EXCEPT !.marker_created = v] \in JobType
           /\ \A v \in Location \X Nat : [j EXCEPT !.victim = v] \in JobType
           /\ \A v \in 1 .. 6 : [j EXCEPT !.rule = v] \in JobType
           /\ \A v \in Seq(RuleType) : [j EXCEPT !.added = v] \in JobType
           /\ \A v \in SUBSET RuleType : [j EXCEPT !.rules_before = v] \in JobType
BY DEF JobType

\* Step p of the holder of the lock: its locals become j, its next step `step'.
Moved(p, j, step) ==
    /\ Typed' /\ Mutex' /\ lock = p /\ lock' = p
    /\ job[p] \in JobType /\ j \in JobType
    /\ pc'[p] = step /\ job'[p] = j

\* The steps that only write a local variable or none.
LEMMA PlainMoves ==
    ASSUME Typed, Mutex, NEW p \in Process
    PROVE
      /\ create_original(p) => Moved(p, [job[p] EXCEPT !.forwarding_before = ip_forward],
            IF original = Absent THEN "write_original" ELSE "record_gateway")
      /\ write_original(p) => Moved(p, [job[p] EXCEPT !.original_created = TRUE],
            "record_gateway")
      /\ record_gateway(p) => Moved(p, [job[p] EXCEPT !.marker_created = (job[p].tunnel \notin marker)],
            "compare")
      /\ RecordFails(p) => Moved(p, job[p],
            "unlock")
      /\ delete(p) => Moved(p, job[p],
            "list")
      /\ enable_forwarding(p) => Moved(p, job[p],
            "applied")
      /\ CommandFails(p) => Moved(p, job[p],
            IF job[p].op = "apply" THEN "undo_rules" ELSE "unlock")
      /\ undo_forwarding(p) => Moved(p, job[p],
            "remove_original")
      /\ remove_original(p) => Moved(p, job[p],
            IF job[p].op = "apply" THEN "unlock" ELSE "removed")
      /\ restore_forwarding(p) => Moved(p, job[p],
            "remove_original")
      /\ FileFails(p) => Moved(p, job[p],
            "unlock")
<1> DEFINE locked == pc[p] \notin {"idle", "lock"}
<1>0. ASSUME locked PROVE job[p] \in JobType /\ lock = p
    BY <1>0 DEF Typed, Mutex
<1>1. ASSUME create_original(p)
      PROVE  Moved(p, [job[p] EXCEPT !.forwarding_before = ip_forward],
                   IF original = Absent THEN "write_original" ELSE "record_gateway")
    <2> DEFINE j == [job[p] EXCEPT !.forwarding_before = ip_forward]
               step == IF original = Absent THEN "write_original" ELSE "record_gateway"
    <2>1. locked
        BY <1>1 DEF create_original
    <2>2. j \in JobType
        BY <2>1, <1>0, JobWrites DEF Typed
    <2>3. step \in StepName \ {"idle", "lock"}
        BY DEF StepName
    <2>4. pc' = [pc EXCEPT ![p] = step] /\ job' = [job EXCEPT ![p] = j]
        BY <1>1, <1>0, <2>1 DEF create_original, Goto, Typed
    <2>5. /\ lock' = lock /\ ip_forward' \in {"", "0", "1"} /\ host_forward' = host_forward
          /\ original' \in {Absent, "", "0", "1"} /\ marker' \in SUBSET Tunnel /\ faults' \in Nat
        BY <1>1, <1>0, <2>1 DEF create_original, Typed, files, history, JobType
    <2> HIDE DEF j, step
    <2>6. Typed' /\ Mutex' /\ lock = p /\ pc'[p] = step /\ job'[p] = j
        BY <2>1, <2>2, <2>3, <2>4, <2>5, HolderMoves DEF locked
    <2> QED BY <2>2, <2>5, <2>6, <1>0, <2>1 DEF Moved, j, step
<1>2. ASSUME write_original(p)
      PROVE  Moved(p, [job[p] EXCEPT !.original_created = TRUE],
                   "record_gateway")
    <2> DEFINE j == [job[p] EXCEPT !.original_created = TRUE]
               step == "record_gateway"
    <2>1. locked
        BY <1>2 DEF write_original
    <2>2. j \in JobType
        BY <2>1, <1>0, JobWrites DEF Typed
    <2>3. step \in StepName \ {"idle", "lock"}
        BY DEF StepName
    <2>4. pc' = [pc EXCEPT ![p] = step] /\ job' = [job EXCEPT ![p] = j]
        BY <1>2, <1>0, <2>1 DEF write_original, Goto, Typed
    <2>5. /\ lock' = lock /\ ip_forward' \in {"", "0", "1"} /\ host_forward' = host_forward
          /\ original' \in {Absent, "", "0", "1"} /\ marker' \in SUBSET Tunnel /\ faults' \in Nat
        BY <1>2, <1>0, <2>1 DEF write_original, Typed, files, history, JobType
    <2> HIDE DEF j, step
    <2>6. Typed' /\ Mutex' /\ lock = p /\ pc'[p] = step /\ job'[p] = j
        BY <2>1, <2>2, <2>3, <2>4, <2>5, HolderMoves DEF locked
    <2> QED BY <2>2, <2>5, <2>6, <1>0, <2>1 DEF Moved, j, step
<1>3. ASSUME record_gateway(p)
      PROVE  Moved(p, [job[p] EXCEPT !.marker_created = (job[p].tunnel \notin marker)],
                   "compare")
    <2> DEFINE j == [job[p] EXCEPT !.marker_created = (job[p].tunnel \notin marker)]
               step == "compare"
    <2>1. locked
        BY <1>3 DEF record_gateway
    <2>2. j \in JobType
        BY <2>1, <1>0, JobWrites DEF Typed
    <2>3. step \in StepName \ {"idle", "lock"}
        BY DEF StepName
    <2>4. pc' = [pc EXCEPT ![p] = step] /\ job' = [job EXCEPT ![p] = j]
        BY <1>3, <1>0, <2>1 DEF record_gateway, Goto, Typed
    <2>5. /\ lock' = lock /\ ip_forward' \in {"", "0", "1"} /\ host_forward' = host_forward
          /\ original' \in {Absent, "", "0", "1"} /\ marker' \in SUBSET Tunnel /\ faults' \in Nat
        BY <1>3, <1>0, <2>1 DEF record_gateway, Typed, files, history, JobType
    <2> HIDE DEF j, step
    <2>6. Typed' /\ Mutex' /\ lock = p /\ pc'[p] = step /\ job'[p] = j
        BY <2>1, <2>2, <2>3, <2>4, <2>5, HolderMoves DEF locked
    <2> QED BY <2>2, <2>5, <2>6, <1>0, <2>1 DEF Moved, j, step
<1>4. ASSUME RecordFails(p)
      PROVE  Moved(p, job[p],
                   "unlock")
    <2> DEFINE j == job[p]
               step == "unlock"
    <2>1. locked
        BY <1>4 DEF RecordFails
    <2>2. j \in JobType
        BY <2>1, <1>0, JobWrites DEF Typed
    <2>3. step \in StepName \ {"idle", "lock"}
        BY DEF StepName
    <2>4. pc' = [pc EXCEPT ![p] = step] /\ job' = [job EXCEPT ![p] = j]
        BY <1>4, <1>0, <2>1 DEF RecordFails, Goto, Typed
    <2>5. /\ lock' = lock /\ ip_forward' \in {"", "0", "1"} /\ host_forward' = host_forward
          /\ original' \in {Absent, "", "0", "1"} /\ marker' \in SUBSET Tunnel /\ faults' \in Nat
        <3>1. lock' = lock /\ host_forward' = host_forward
            BY <1>4 DEF RecordFails
        <3>2. ip_forward' = ip_forward /\ marker' = marker
            BY <1>4 DEF RecordFails, files
        <3>3. original' = original \/ original' = Absent
            BY <1>4 DEF RecordFails, files
        <3>4. faults' = faults \/ faults' = faults + 1
            BY <1>4 DEF RecordFails
        <3>5. faults' \in Nat
            <4>1. faults \in Nat
                BY DEF Typed
            <4> QED BY <3>4, <4>1
        <3>6. original' \in {Absent, "", "0", "1"}
            BY <3>3 DEF Typed
        <3>7. ip_forward' \in {"", "0", "1"} /\ marker' \in SUBSET Tunnel
            BY <3>2 DEF Typed
        <3> QED BY <3>1, <3>5, <3>6, <3>7
    <2> HIDE DEF j, step
    <2>6. Typed' /\ Mutex' /\ lock = p /\ pc'[p] = step /\ job'[p] = j
        BY <2>1, <2>2, <2>3, <2>4, <2>5, HolderMoves DEF locked
    <2> QED BY <2>2, <2>5, <2>6, <1>0, <2>1 DEF Moved, j, step
<1>5. ASSUME delete(p)
      PROVE  Moved(p, job[p],
                   "list")
    <2> DEFINE j == job[p]
               step == "list"
    <2>1. locked
        BY <1>5 DEF delete
    <2>2. j \in JobType
        BY <2>1, <1>0, JobWrites DEF Typed
    <2>3. step \in StepName \ {"idle", "lock"}
        BY DEF StepName
    <2>4. pc' = [pc EXCEPT ![p] = step] /\ job' = [job EXCEPT ![p] = j]
        BY <1>5, <1>0, <2>1 DEF delete, Goto, Typed
    <2>5. /\ lock' = lock /\ ip_forward' \in {"", "0", "1"} /\ host_forward' = host_forward
          /\ original' \in {Absent, "", "0", "1"} /\ marker' \in SUBSET Tunnel /\ faults' \in Nat
        BY <1>5, <1>0, <2>1 DEF delete, Typed, files, history, JobType
    <2> HIDE DEF j, step
    <2>6. Typed' /\ Mutex' /\ lock = p /\ pc'[p] = step /\ job'[p] = j
        BY <2>1, <2>2, <2>3, <2>4, <2>5, HolderMoves DEF locked
    <2> QED BY <2>2, <2>5, <2>6, <1>0, <2>1 DEF Moved, j, step
<1>6. ASSUME enable_forwarding(p)
      PROVE  Moved(p, job[p],
                   "applied")
    <2> DEFINE j == job[p]
               step == "applied"
    <2>1. locked
        BY <1>6 DEF enable_forwarding
    <2>2. j \in JobType
        BY <2>1, <1>0, JobWrites DEF Typed
    <2>3. step \in StepName \ {"idle", "lock"}
        BY DEF StepName
    <2>4. pc' = [pc EXCEPT ![p] = step] /\ job' = [job EXCEPT ![p] = j]
        BY <1>6, <1>0, <2>1 DEF enable_forwarding, Goto, Typed
    <2>5. /\ lock' = lock /\ ip_forward' \in {"", "0", "1"} /\ host_forward' = host_forward
          /\ original' \in {Absent, "", "0", "1"} /\ marker' \in SUBSET Tunnel /\ faults' \in Nat
        BY <1>6, <1>0, <2>1 DEF enable_forwarding, Typed, files, history, JobType
    <2> HIDE DEF j, step
    <2>6. Typed' /\ Mutex' /\ lock = p /\ pc'[p] = step /\ job'[p] = j
        BY <2>1, <2>2, <2>3, <2>4, <2>5, HolderMoves DEF locked
    <2> QED BY <2>2, <2>5, <2>6, <1>0, <2>1 DEF Moved, j, step
<1>7. ASSUME CommandFails(p)
      PROVE  Moved(p, job[p],
                   IF job[p].op = "apply" THEN "undo_rules" ELSE "unlock")
    <2> DEFINE j == job[p]
               step == IF job[p].op = "apply" THEN "undo_rules" ELSE "unlock"
    <2>1. locked
        BY <1>7 DEF CommandFails
    <2>2. j \in JobType
        BY <2>1, <1>0, JobWrites DEF Typed
    <2>3. step \in StepName \ {"idle", "lock"}
        BY DEF StepName
    <2>4. pc' = [pc EXCEPT ![p] = step] /\ job' = [job EXCEPT ![p] = j]
        BY <1>7, <1>0, <2>1 DEF CommandFails, Goto, Typed
    <2>5. /\ lock' = lock /\ ip_forward' \in {"", "0", "1"} /\ host_forward' = host_forward
          /\ original' \in {Absent, "", "0", "1"} /\ marker' \in SUBSET Tunnel /\ faults' \in Nat
        <3>1. lock' = lock /\ host_forward' = host_forward
            BY <1>7 DEF CommandFails
        <3>2. ip_forward' = ip_forward /\ marker' = marker
            BY <1>7 DEF CommandFails, files
        <3>3. original' = original \/ original' = Absent
            BY <1>7 DEF CommandFails, files
        <3>4. faults' = faults \/ faults' = faults + 1
            BY <1>7 DEF CommandFails
        <3>5. faults' \in Nat
            <4>1. faults \in Nat
                BY DEF Typed
            <4> QED BY <3>4, <4>1
        <3>6. original' \in {Absent, "", "0", "1"}
            BY <3>3 DEF Typed
        <3>7. ip_forward' \in {"", "0", "1"} /\ marker' \in SUBSET Tunnel
            BY <3>2 DEF Typed
        <3> QED BY <3>1, <3>5, <3>6, <3>7
    <2> HIDE DEF j, step
    <2>6. Typed' /\ Mutex' /\ lock = p /\ pc'[p] = step /\ job'[p] = j
        BY <2>1, <2>2, <2>3, <2>4, <2>5, HolderMoves DEF locked
    <2> QED BY <2>2, <2>5, <2>6, <1>0, <2>1 DEF Moved, j, step
<1>8. ASSUME undo_forwarding(p)
      PROVE  Moved(p, job[p],
                   "remove_original")
    <2> DEFINE j == job[p]
               step == "remove_original"
    <2>1. locked
        BY <1>8 DEF undo_forwarding
    <2>2. j \in JobType
        BY <2>1, <1>0, JobWrites DEF Typed
    <2>3. step \in StepName \ {"idle", "lock"}
        BY DEF StepName
    <2>4. pc' = [pc EXCEPT ![p] = step] /\ job' = [job EXCEPT ![p] = j]
        BY <1>8, <1>0, <2>1 DEF undo_forwarding, Goto, Typed
    <2>5. /\ lock' = lock /\ ip_forward' \in {"", "0", "1"} /\ host_forward' = host_forward
          /\ original' \in {Absent, "", "0", "1"} /\ marker' \in SUBSET Tunnel /\ faults' \in Nat
        <3>1. /\ lock' = lock /\ host_forward' = host_forward
              /\ original' = original /\ marker' = marker
              /\ faults' = faults \/ faults' = faults + 1
              /\ ip_forward' = ip_forward \/ ip_forward' = job[p].forwarding_before
            BY <1>8 DEF undo_forwarding, files
        <3>2. job[p].forwarding_before \in {"", "0", "1"}
            BY <2>2 DEF JobType
        <3>3. /\ ip_forward \in {"", "0", "1"} /\ original \in {Absent, "", "0", "1"}
              /\ marker \in SUBSET Tunnel
            BY DEF Typed
        <3>4. faults' \in Nat
            <4>1. faults \in Nat
                BY DEF Typed
            <4>2. faults' = faults \/ faults' = faults + 1
                BY <3>1
            <4> QED BY <4>1, <4>2
        <3> QED BY <3>1, <3>2, <3>3, <3>4
    <2> HIDE DEF j, step
    <2>6. Typed' /\ Mutex' /\ lock = p /\ pc'[p] = step /\ job'[p] = j
        BY <2>1, <2>2, <2>3, <2>4, <2>5, HolderMoves DEF locked
    <2> QED BY <2>2, <2>5, <2>6, <1>0, <2>1 DEF Moved, j, step
<1>9. ASSUME remove_original(p)
      PROVE  Moved(p, job[p],
                   IF job[p].op = "apply" THEN "unlock" ELSE "removed")
    <2> DEFINE j == job[p]
               step == IF job[p].op = "apply" THEN "unlock" ELSE "removed"
    <2>1. locked
        BY <1>9 DEF remove_original
    <2>2. j \in JobType
        BY <2>1, <1>0, JobWrites DEF Typed
    <2>3. step \in StepName \ {"idle", "lock"}
        BY DEF StepName
    <2>4. pc' = [pc EXCEPT ![p] = step] /\ job' = [job EXCEPT ![p] = j]
        BY <1>9, <1>0, <2>1 DEF remove_original, Goto, Typed
    <2>5. /\ lock' = lock /\ ip_forward' \in {"", "0", "1"} /\ host_forward' = host_forward
          /\ original' \in {Absent, "", "0", "1"} /\ marker' \in SUBSET Tunnel /\ faults' \in Nat
        BY <1>9, <1>0, <2>1 DEF remove_original, Typed, files, history, JobType
    <2> HIDE DEF j, step
    <2>6. Typed' /\ Mutex' /\ lock = p /\ pc'[p] = step /\ job'[p] = j
        BY <2>1, <2>2, <2>3, <2>4, <2>5, HolderMoves DEF locked
    <2> QED BY <2>2, <2>5, <2>6, <1>0, <2>1 DEF Moved, j, step
<1>10. ASSUME restore_forwarding(p)
      PROVE  Moved(p, job[p],
                   "remove_original")
    <2> DEFINE j == job[p]
               step == "remove_original"
    <2>1. locked
        BY <1>10 DEF restore_forwarding
    <2>2. j \in JobType
        BY <2>1, <1>0, JobWrites DEF Typed
    <2>3. step \in StepName \ {"idle", "lock"}
        BY DEF StepName
    <2>4. pc' = [pc EXCEPT ![p] = step] /\ job' = [job EXCEPT ![p] = j]
        BY <1>10, <1>0, <2>1 DEF restore_forwarding, Goto, Typed
    <2>5. /\ lock' = lock /\ ip_forward' \in {"", "0", "1"} /\ host_forward' = host_forward
          /\ original' \in {Absent, "", "0", "1"} /\ marker' \in SUBSET Tunnel /\ faults' \in Nat
        BY <1>10, <1>0, <2>1 DEF restore_forwarding, Typed, files, history, JobType
    <2> HIDE DEF j, step
    <2>6. Typed' /\ Mutex' /\ lock = p /\ pc'[p] = step /\ job'[p] = j
        BY <2>1, <2>2, <2>3, <2>4, <2>5, HolderMoves DEF locked
    <2> QED BY <2>2, <2>5, <2>6, <1>0, <2>1 DEF Moved, j, step
<1>11. ASSUME FileFails(p)
      PROVE  Moved(p, job[p],
                   "unlock")
    <2> DEFINE j == job[p]
               step == "unlock"
    <2>1. locked
        BY <1>11 DEF FileFails
    <2>2. j \in JobType
        BY <2>1, <1>0 DEF Typed
    <2>3. step \in StepName \ {"idle", "lock"}
        BY DEF StepName
    <2>4. pc' = [pc EXCEPT ![p] = step] /\ job' = [job EXCEPT ![p] = j]
        BY <1>11, <1>0, <2>1 DEF FileFails, Goto, Typed
    <2>5. /\ lock' = lock /\ ip_forward' \in {"", "0", "1"} /\ host_forward' = host_forward
          /\ original' \in {Absent, "", "0", "1"} /\ marker' \in SUBSET Tunnel /\ faults' \in Nat
        <3>1. /\ lock' = lock /\ ip_forward' = ip_forward /\ host_forward' = host_forward
              /\ original' = original /\ faults' = faults + 1
            BY <1>11 DEF FileFails
        <3>2. marker' = marker \/ marker' = marker \ {job[p].tunnel}
            BY <1>11 DEF FileFails
        <3>3. /\ ip_forward \in {"", "0", "1"} /\ original \in {Absent, "", "0", "1"}
              /\ marker \in SUBSET Tunnel
            BY DEF Typed
        <3>4. faults' \in Nat
            <4>1. faults \in Nat
                BY DEF Typed
            <4>2. faults' = faults \/ faults' = faults + 1
                BY <3>1
            <4> QED BY <4>1, <4>2
        <3>5. marker' \in SUBSET Tunnel
            BY <3>2, <3>3
        <3> QED BY <3>1, <3>3, <3>4, <3>5
    <2> HIDE DEF j, step
    <2>6. Typed' /\ Mutex' /\ lock = p /\ pc'[p] = step /\ job'[p] = j
        BY <2>1, <2>2, <2>3, <2>4, <2>5, HolderMoves DEF locked
    <2> QED BY <2>2, <2>5, <2>6, <1>0, <2>1 DEF Moved, j, step
<1> QED BY <1>1, <1>2, <1>3, <1>4, <1>5, <1>6, <1>7, <1>8, <1>9, <1>10, <1>11

\* The steps that branch on what the host or the files hold.
LEMMA BranchMoves ==
    ASSUME Typed, Mutex, NEW p \in Process
    PROVE
      /\ compare(p) => Moved(p, job[p],
            IF /\ all_present(Plan(p))
            /\ count_owned_rules(job[p].tunnel) = Len(Plan(p))
            THEN "add" ELSE "list")
      /\ undo_marker(p) => Moved(p, job[p],
            IF job[p].original_created /\ marker' = {}
            THEN "undo_forwarding" ELSE "unlock")
      /\ remove_marker(p) => Moved(p, job[p],
            IF original # Absent /\ marker' = {}
            THEN "restore_forwarding" ELSE "removed")
<1> DEFINE locked == pc[p] \notin {"idle", "lock"}
<1>0. ASSUME locked PROVE job[p] \in JobType /\ lock = p
    BY <1>0 DEF Typed, Mutex
<1>1. ASSUME compare(p)
      PROVE  Moved(p, job[p],
                   IF /\ all_present(Plan(p))
                      /\ count_owned_rules(job[p].tunnel) = Len(Plan(p))
                   THEN "add" ELSE "list")
    <2> DEFINE step == IF /\ all_present(Plan(p))
                              /\ count_owned_rules(job[p].tunnel) = Len(Plan(p))
                           THEN "add" ELSE "list"
    <2>1. locked
        BY <1>1 DEF compare
    <2>2. step \in StepName \ {"idle", "lock"}
        BY DEF StepName
    <2>3. pc' = [pc EXCEPT ![p] = step] /\ job' = [job EXCEPT ![p] = job[p]]
        BY <1>1, <1>0, <2>1 DEF compare, Goto, Typed
    <2>4. /\ lock' = lock /\ ip_forward' \in {"", "0", "1"} /\ host_forward' = host_forward
          /\ original' \in {Absent, "", "0", "1"} /\ marker' \in SUBSET Tunnel /\ faults' \in Nat
        BY <1>1, <1>0, <2>1 DEF compare, Typed, files, history
    <2> HIDE DEF step
    <2>5. PICK x : x = step
        OBVIOUS
    <2>6. Typed' /\ Mutex' /\ lock = p /\ pc'[p] = x /\ job'[p] = job[p]
        BY <2>1, <2>2, <2>3, <2>4, <2>5, <1>0, HolderMoves DEF locked
    <2> QED BY <2>4, <2>5, <2>6, <1>0, <2>1 DEF Moved, step
<1>2. ASSUME undo_marker(p)
      PROVE  Moved(p, job[p],
                   IF job[p].original_created /\ marker' = {}
                   THEN "undo_forwarding" ELSE "unlock")
    <2> DEFINE step == IF job[p].original_created /\ marker' = {}
                           THEN "undo_forwarding" ELSE "unlock"
    <2>1. locked
        BY <1>2 DEF undo_marker
    <2>2. step \in StepName \ {"idle", "lock"}
        BY DEF StepName
    <2>3. pc' = [pc EXCEPT ![p] = step] /\ job' = [job EXCEPT ![p] = job[p]]
        BY <1>2, <1>0, <2>1 DEF undo_marker, Goto, Typed
    <2>4. /\ lock' = lock /\ ip_forward' \in {"", "0", "1"} /\ host_forward' = host_forward
          /\ original' \in {Absent, "", "0", "1"} /\ marker' \in SUBSET Tunnel /\ faults' \in Nat
        BY <1>2, <1>0, <2>1 DEF undo_marker, Typed, files, history
    <2> HIDE DEF step
    <2>5. PICK x : x = step
        OBVIOUS
    <2>6. Typed' /\ Mutex' /\ lock = p /\ pc'[p] = x /\ job'[p] = job[p]
        BY <2>1, <2>2, <2>3, <2>4, <2>5, <1>0, HolderMoves DEF locked
    <2> QED BY <2>4, <2>5, <2>6, <1>0, <2>1 DEF Moved, step
<1>3. ASSUME remove_marker(p)
      PROVE  Moved(p, job[p],
                   IF original # Absent /\ marker' = {}
                   THEN "restore_forwarding" ELSE "removed")
    <2> DEFINE step == IF original # Absent /\ marker' = {}
                           THEN "restore_forwarding" ELSE "removed"
    <2>1. locked
        BY <1>3 DEF remove_marker
    <2>2. step \in StepName \ {"idle", "lock"}
        BY DEF StepName
    <2>3. pc' = [pc EXCEPT ![p] = step] /\ job' = [job EXCEPT ![p] = job[p]]
        BY <1>3, <1>0, <2>1 DEF remove_marker, Goto, Typed
    <2>4. /\ lock' = lock /\ ip_forward' \in {"", "0", "1"} /\ host_forward' = host_forward
          /\ original' \in {Absent, "", "0", "1"} /\ marker' \in SUBSET Tunnel /\ faults' \in Nat
        BY <1>3, <1>0, <2>1 DEF remove_marker, Typed, files, history
    <2> HIDE DEF step
    <2>5. PICK x : x = step
        OBVIOUS
    <2>6. Typed' /\ Mutex' /\ lock = p /\ pc'[p] = x /\ job'[p] = job[p]
        BY <2>1, <2>2, <2>3, <2>4, <2>5, <1>0, HolderMoves DEF locked
    <2> QED BY <2>4, <2>5, <2>6, <1>0, <2>1 DEF Moved, step
<1> QED BY <1>1, <1>2, <1>3

\* delete_owned_rules goes on when there is no rule left, else to a rule that
\* is there.
LEMMA ListMoves ==
    ASSUME Typed, Mutex, ChainsOK, NEW p \in Process, list(p)
    PROVE  \/ /\ OwnedRules(job[p].tunnel) = {}
              /\ Moved(p, job[p], IF job[p].op = "apply" THEN "add" ELSE "remove_marker")
           \/ \E v \in Location \X Nat :
                 /\ v[2] \in DOMAIN chain[v[1]]
                 /\ chain[v[1]][v[2]].owner = job[p].tunnel
                 /\ Moved(p, [job[p] EXCEPT !.victim = v], "delete")
<1> DEFINE t == job[p].tunnel
           holding == {n \in 1 .. 3 : OwnedAt(t, owned_rule_locations[n]) # {}}
           location == owned_rule_locations[First(holding)]
<1>1. pc[p] \notin {"idle", "lock"} /\ job[p] \in JobType
    BY DEF list, Typed
<1>2. /\ lock' = lock /\ ip_forward' \in {"", "0", "1"} /\ host_forward' = host_forward
      /\ original' \in {Absent, "", "0", "1"} /\ marker' \in SUBSET Tunnel /\ faults' \in Nat
    BY DEF list, Typed, files, history
<1>3. CASE holding = {}
    <2> DEFINE step == IF job[p].op = "apply" THEN "add" ELSE "remove_marker"
    <2>1. OwnedRules(t) = {}
        BY <1>3, NoneHolding
    <2>2. pc' = [pc EXCEPT ![p] = step] /\ job' = [job EXCEPT ![p] = job[p]]
        BY <1>3 DEF list, Goto, Typed
    <2>3. step \in StepName \ {"idle", "lock"}
        BY DEF StepName
    <2> HIDE DEF step
    <2>4. Typed' /\ Mutex' /\ lock = p /\ pc'[p] = step /\ job'[p] = job[p]
        BY <1>1, <1>2, <2>2, <2>3, HolderMoves
    <2> QED BY <1>1, <1>2, <2>1, <2>4 DEF Moved, step
<1>4. CASE holding # {}
    <2>1. PICK h : h = holding
        OBVIOUS
    <2>2. PICK l : l = location
        OBVIOUS
    <2>3. /\ l \in Location /\ First(OwnedAt(t, l)) \in DOMAIN chain[l]
          /\ First(OwnedAt(t, l)) \in Nat /\ chain[l][First(OwnedAt(t, l))].owner = t
        BY <1>4, <2>1, <2>2, VictimFacts
    <2>4. PICK v : v = <<l, First(OwnedAt(t, l))>>
        OBVIOUS
    <2>5. v \in Location \X Nat /\ v[1] = l /\ v[2] = First(OwnedAt(t, l))
        BY <2>3, <2>4
    <2>6. pc' = [pc EXCEPT ![p] = "delete"] /\ job' = [job EXCEPT ![p].victim = v]
        BY <1>4, <2>2, <2>4, Zenon DEF list, Goto
    <2>7. job' = [job EXCEPT ![p] = [job[p] EXCEPT !.victim = v]]
        BY <2>6 DEF Typed
    <2>8. [job[p] EXCEPT !.victim = v] \in JobType
        BY <1>1, <2>5, JobWrites
    <2>9. PICK j : j = [job[p] EXCEPT !.victim = v]
        OBVIOUS
    <2>10. "delete" \in StepName \ {"idle", "lock"}
        BY DEF StepName
    <2>11. Typed' /\ Mutex' /\ lock = p /\ pc'[p] = "delete" /\ job'[p] = j
        BY <1>1, <1>2, <2>6, <2>7, <2>8, <2>9, <2>10, HolderMoves
    <2>12. Moved(p, [job[p] EXCEPT !.victim = v], "delete")
        BY <1>1, <1>2, <2>8, <2>9, <2>11 DEF Moved
    <2> QED BY <2>3, <2>5, <2>12
<1> QED BY <1>3, <1>4

\* add_if_missing skips a rule the tunnel has, and appends one it has not.
LEMMA AddMoves ==
    ASSUME Typed, Mutex, ChainsOK, NEW p \in Process, add_if_missing(p)
    PROVE  LET r == Plan(p)[job[p].rule]
           IN  /\ r \in RuleType /\ r.owner = job[p].tunnel
               /\ \/ /\ r \in OwnedRules(job[p].tunnel)
                     /\ chain' = chain
                     /\ Moved(p, [job[p] EXCEPT !.rule = job[p].rule + 1], "add")
                  \/ /\ r \notin OwnedRules(job[p].tunnel)
                     /\ chain' = [chain EXCEPT ![r.location] = Append(@, r)]
                     /\ Moved(p, [job[p] EXCEPT !.rule = job[p].rule + 1,
                                                !.added = Append(job[p].added, r)], "add")
<1>1. pc[p] \notin {"idle", "lock"} /\ pc[p] = "add" /\ job[p] \in JobType /\ pc[p] \in StepName
    BY DEF add_if_missing, Typed, StepName
<1>2. job[p].tunnel \in Tunnel /\ job[p].policy \in Policy \cup {"any"} /\ job[p].rule \in 1 .. 6
      /\ job[p].added \in Seq(RuleType)
    BY <1>1 DEF JobType
<1>3. Len(Plan(p)) = 5
    BY <1>2, PlanFacts DEF Plan
<1>4. job[p].rule \in 1 .. 5 /\ job[p].rule + 1 \in 1 .. 6
    <2>1. job[p].rule <= Len(Plan(p))
        BY DEF add_if_missing
    <2> QED BY <1>2, <1>3, <2>1
<1>5. PICK r : r = Plan(p)[job[p].rule]
    OBVIOUS
<1>6. r \in RuleType /\ r.owner = job[p].tunnel /\ r.location \in Location
    BY <1>2, <1>4, <1>5, PlanFacts DEF Plan
<1>7. exists(r) <=> r \in OwnedRules(job[p].tunnel)
    BY <1>6, ExistsIsOwned
<1>8. /\ lock' = lock /\ ip_forward' \in {"", "0", "1"} /\ host_forward' = host_forward
      /\ original' \in {Absent, "", "0", "1"} /\ marker' \in SUBSET Tunnel /\ faults' \in Nat
    BY DEF add_if_missing, Typed, files, history
<1>9. pc' = [pc EXCEPT ![p] = "add"] /\ "add" \in StepName \ {"idle", "lock"}
    BY <1>1 DEF add_if_missing, Typed, StepName
<1>10. CASE exists(r)
    <2>1. PICK j : j = [job[p] EXCEPT !.rule = job[p].rule + 1]
        OBVIOUS
    <2>2. j \in JobType
        BY <2>1, <1>1, <1>4, JobWrites
    <2>3. chain' = chain /\ job' = [job EXCEPT ![p].rule = @ + 1]
        BY <1>5, <1>10 DEF add_if_missing
    <2>4. job' = [job EXCEPT ![p] = j]
        BY <2>1, <2>3 DEF Typed
    <2>5. Typed' /\ Mutex' /\ lock = p /\ pc'[p] = "add" /\ job'[p] = j
        BY <1>1, <1>8, <1>9, <2>2, <2>4, HolderMoves
    <2> QED BY <1>1, <1>5, <1>6, <1>7, <1>8, <1>10, <2>1, <2>2, <2>3, <2>5 DEF Moved
<1>11. CASE ~exists(r)
    <2>1. PICK j : j = [job[p] EXCEPT !.rule = job[p].rule + 1, !.added = Append(job[p].added, r)]
        OBVIOUS
    <2>2. j \in JobType
        <3>1. Append(job[p].added, r) \in Seq(RuleType)
            BY <1>2, <1>6
        <3> QED BY <2>1, <3>1, <1>1, <1>4 DEF JobType
    <2>3. /\ chain' = [chain EXCEPT ![r.location] = Append(@, r)]
          /\ job' = [job EXCEPT ![p].rule = @ + 1, ![p].added = Append(@, r)]
        BY <1>5, <1>11 DEF add_if_missing
    <2>4. job' = [job EXCEPT ![p] = j]
        BY <2>1, <2>3, <1>1 DEF Typed, JobType
    <2>5. Typed' /\ Mutex' /\ lock = p /\ pc'[p] = "add" /\ job'[p] = j
        BY <1>1, <1>8, <1>9, <2>2, <2>4, HolderMoves
    <2> QED BY <1>1, <1>5, <1>6, <1>7, <1>8, <1>11, <2>1, <2>2, <2>3, <2>5 DEF Moved
<1> QED BY <1>10, <1>11

\* The rollback takes the last added rule off its list.
LEMMA UndoMoves ==
    ASSUME Typed, Mutex, ChainsOK, NEW p \in Process, undo_rules(p)
    PROVE  Moved(p, [job[p] EXCEPT !.added = SubSeq(job[p].added, 1, Len(job[p].added) - 1)],
                 "undo_rules")
<1>1. pc[p] \notin {"idle", "lock"} /\ pc[p] = "undo_rules" /\ job[p] \in JobType
    BY DEF undo_rules, Typed
<1>2. job[p].added \in Seq(RuleType) /\ job[p].added # <<>>
    BY <1>1 DEF JobType, undo_rules
<1>3. PICK a : a = SubSeq(job[p].added, 1, Len(job[p].added) - 1)
    OBVIOUS
<1>4. a \in Seq(RuleType)
    BY <1>2, <1>3
<1>5. PICK j : j = [job[p] EXCEPT !.added = a]
    OBVIOUS
<1>6. j \in JobType
    BY <1>1, <1>4, <1>5, JobWrites
<1>7. job' = [job EXCEPT ![p] = j]
    <2>1. job' = [job EXCEPT ![p].added = a]
        BY <1>3 DEF undo_rules
    <2> QED BY <2>1, <1>5 DEF Typed
<1>8. pc' = [pc EXCEPT ![p] = "undo_rules"] /\ "undo_rules" \in StepName \ {"idle", "lock"}
    BY <1>1 DEF undo_rules, Typed, StepName
<1>9. /\ lock' = lock /\ ip_forward' \in {"", "0", "1"} /\ host_forward' = host_forward
      /\ original' \in {Absent, "", "0", "1"} /\ marker' \in SUBSET Tunnel
    BY DEF undo_rules, Typed, files
<1>10. faults' \in Nat
    <2>1. faults \in Nat
        BY DEF Typed
    <2>2. faults' = faults \/ faults' = faults + 1
        BY DEF undo_rules
    <2> QED BY <2>1, <2>2
<1>11. Typed' /\ Mutex' /\ lock = p /\ pc'[p] = "undo_rules" /\ job'[p] = j
    BY <1>1, <1>6, <1>7, <1>8, <1>9, <1>10, HolderMoves
<1> QED BY <1>1, <1>3, <1>5, <1>6, <1>9, <1>11 DEF Moved

\* A process other than the holder moves, or the holder lets go of the lock.
LEMMA OthersMove ==
    ASSUME Typed, Mutex, NEW p \in Process, NEW j \in JobType \cup {NoJob},
           NEW step \in {"idle", "lock"}, step # "idle" => j \in JobType /\ Fresh(j),
           pc' = [pc EXCEPT ![p] = step], job' = [job EXCEPT ![p] = j],
           lock' = IF lock = p THEN Nobody ELSE lock,
           UNCHANGED <<ip_forward, host_forward, original, marker, faults>>
    PROVE  /\ Typed' /\ Mutex'
           /\ \A q \in Process : lock' = q =>
                 lock = q /\ pc'[q] = pc[q] /\ job'[q] = job[q]
<1>1. pc'[p] = step /\ job'[p] = j /\ p # Nobody
    BY GatewayAssumption DEF Typed
<1>2. \A q \in Process : q # p => pc'[q] = pc[q] /\ job'[q] = job[q]
    BY DEF Typed
<1>3. Typed'
    <2>1. pc' \in [Process -> StepName] /\ job' \in [Process -> JobType \cup {NoJob}]
        BY DEF Typed, StepName
    <2>2. \A q \in Process : pc'[q] # "idle" => job'[q] \in JobType
        BY <1>1, <1>2 DEF Typed
    <2>3. lock' \in Process \cup {Nobody}
        BY DEF Typed
    <2> QED BY <2>1, <2>2, <2>3 DEF Typed
<1>4. Mutex'
    <2>1. ASSUME NEW q \in Process
          PROVE  pc'[q] \notin {"idle", "lock"} <=> lock' = q
        <3>1. CASE q = p
            BY <3>1, <1>1
        <3>2. CASE q # p
            <4>1. q # Nobody
                BY GatewayAssumption
            <4> QED BY <3>2, <4>1, <1>2 DEF Mutex
        <3> QED BY <3>1, <3>2
    <2>2. \A q \in Process : pc'[q] = "lock" => Fresh(job'[q])
        BY <1>1, <1>2 DEF Mutex
    <2> QED BY <2>1, <2>2 DEF Mutex
<1>5. \A q \in Process : lock' = q => lock = q /\ pc'[q] = pc[q] /\ job'[q] = job[q]
    <2>1. \A q \in Process : q # Nobody
        BY GatewayAssumption
    <2> QED BY <1>1, <1>2, <2>1
<1> QED BY <1>3, <1>4, <1>5

\* Starting a command, ending one and being killed leave the other processes,
\* the chains, the files and the sysctl alone.
LEMMA OutsideMoves ==
    ASSUME Typed, Mutex, NEW p \in Process,
           \/ \E op \in {"apply", "remove"}, t \in Tunnel, q \in Policy \cup {"any"} :
                 Start(p, op, t, q) /\ (op = "apply" => q \in Policy)
           \/ Unlock(p) \/ Kill(p)
    PROVE  /\ Typed' /\ Mutex'
           /\ UNCHANGED <<chain, ip_forward, host_forward, original, marker, faults>>
           /\ \A q \in Process : lock' = q =>
                 lock = q /\ pc'[q] = pc[q] /\ job'[q] = job[q]
<1>0. UNCHANGED <<chain, ip_forward, host_forward, original, marker, faults>>
    BY DEF Start, Unlock, Kill, files, history
<1>1. ASSUME NEW op \in {"apply", "remove"}, NEW t \in Tunnel,
             NEW q \in Policy \cup {"any"}, Start(p, op, t, q), op = "apply" => q \in Policy
      PROVE  /\ Typed' /\ Mutex'
             /\ \A r \in Process : lock' = r =>
                   lock = r /\ pc'[r] = pc[r] /\ job'[r] = job[r]
    <2>1. PICK j : j = [op |-> op, tunnel |-> t, policy |-> q,
                        forwarding_before |-> "", original_created |-> FALSE,
                        marker_created |-> FALSE, added |-> <<>>,
                        rule |-> 1, victim |-> <<>>, rules_before |-> {}]
        OBVIOUS
    <2>2. j \in JobType
        <3>1. PICK e : e = <<>>
            OBVIOUS
        <3>2. e \in Seq(RuleType) /\ e \in {<<>>} \cup (Location \X Nat)
            BY <3>1
        <3>3. 1 \in 1 .. 6 /\ FALSE \in BOOLEAN /\ {} \in SUBSET RuleType
            OBVIOUS
        <3>4. \A a, v : /\ a \in Seq(RuleType) /\ v \in {<<>>} \cup (Location \X Nat)
                        => [op |-> op, tunnel |-> t, policy |-> q,
                            forwarding_before |-> "", original_created |-> FALSE,
                            marker_created |-> FALSE, added |-> a,
                            rule |-> 1, victim |-> v, rules_before |-> {}] \in JobType
            BY <3>3 DEF JobType
        <3> QED BY <2>1, <3>1, <3>2, <3>4
    <2>3. pc' = [pc EXCEPT ![p] = "lock"] /\ job' = [job EXCEPT ![p] = j]
        BY <1>1, <2>1 DEF Start, Goto
    <2>4. lock' = IF lock = p THEN Nobody ELSE lock
        BY <1>1 DEF Start, Mutex
    <2>5. Fresh(j)
        BY <1>1, <2>1 DEF Fresh
    <2> QED BY <1>0, <2>2, <2>3, <2>4, <2>5, OthersMove
<1>2. ASSUME Unlock(p) \/ Kill(p)
      PROVE  /\ Typed' /\ Mutex'
             /\ \A r \in Process : lock' = r =>
                   lock = r /\ pc'[r] = pc[r] /\ job'[r] = job[r]
    <2>1. pc' = [pc EXCEPT ![p] = "idle"] /\ job' = [job EXCEPT ![p] = NoJob]
        BY <1>2 DEF Unlock, Kill, Goto
    <2>2. lock' = IF lock = p THEN Nobody ELSE lock
        BY <1>2 DEF Unlock, Kill, Mutex
    <2>3. PICK n : n = NoJob
        OBVIOUS
    <2> QED BY <1>0, <2>1, <2>2, <2>3, OthersMove
<1> QED BY <1>0, <1>1, <1>2

\* Taking the lock.
LEMMA LockMoves ==
    ASSUME Typed, Mutex, ChainsOK, NEW p \in Process, TakeLock(p)
    PROVE  /\ Typed' /\ Mutex' /\ lock = Nobody /\ lock' = p
           /\ job[p] \in JobType
           /\ pc'[p] = IF job[p].op = "apply" THEN "create_original" ELSE "list"
           /\ job'[p] = [job[p] EXCEPT !.rules_before = OwnedRules(job[p].tunnel)]
           /\ UNCHANGED <<chain, ip_forward, host_forward, original, marker, faults>>
<1> DEFINE step == IF job[p].op = "apply" THEN "create_original" ELSE "list"
<1>1. lock = Nobody /\ lock' = p /\ job[p] \in JobType
      /\ UNCHANGED <<chain, ip_forward, host_forward, original, marker, faults>>
    BY DEF TakeLock, Typed, files, history
<1>2. OwnedRules(job[p].tunnel) \in SUBSET RuleType
    <2>1. \A l \in Location : \A i \in DOMAIN chain[l] : chain[l][i] \in RuleType
        BY DEF ChainsOK
    <2> QED BY <2>1 DEF OwnedRules, OwnedAt
<1>3. PICK j : j = [job[p] EXCEPT !.rules_before = OwnedRules(job[p].tunnel)]
    OBVIOUS
<1>4. j \in JobType
    BY <1>1, <1>2, <1>3, JobWrites
<1>5. step \in StepName \ {"idle", "lock"}
    BY DEF StepName
<1>6. pc' = [pc EXCEPT ![p] = step] /\ job' = [job EXCEPT ![p] = j]
    <2>1. job' = [job EXCEPT ![p].rules_before = OwnedRules(job[p].tunnel)]
        BY DEF TakeLock
    <2>2. pc' = [pc EXCEPT ![p] = step]
        BY DEF TakeLock, Goto
    <2> QED BY <2>1, <2>2, <1>3 DEF Typed
<1> HIDE DEF step
<1>7. pc'[p] = step /\ job'[p] = j
      /\ \A q \in Process : q # p => pc'[q] = pc[q] /\ job'[q] = job[q]
    BY <1>6 DEF Typed
<1>8. Typed'
    <2>1. pc' \in [Process -> StepName] /\ job' \in [Process -> JobType \cup {NoJob}]
        BY <1>4, <1>5, <1>6 DEF Typed
    <2>2. \A q \in Process : pc'[q] # "idle" => job'[q] \in JobType
        BY <1>4, <1>7 DEF Typed
    <2> QED BY <1>1, <2>1, <2>2 DEF Typed
<1>9. Mutex'
    <2>1. ASSUME NEW q \in Process
          PROVE  pc'[q] \notin {"idle", "lock"} <=> lock' = q
        <3>1. CASE q = p
            BY <3>1, <1>1, <1>5, <1>7
        <3>2. CASE q # p
            <4>1. q # Nobody
                BY GatewayAssumption
            <4> QED BY <3>2, <4>1, <1>1, <1>7 DEF Mutex
        <3> QED BY <3>1, <3>2
    <2>2. \A q \in Process : pc'[q] = "lock" => Fresh(job'[q])
        BY <1>5, <1>7 DEF Mutex
    <2> QED BY <2>1, <2>2 DEF Mutex
<1> QED BY <1>1, <1>3, <1>7, <1>8, <1>9 DEF step

\* What the environment does leaves every process where it is.
LEMMA EnvironmentMoves ==
    ASSUME Typed, Mutex, ChainsOK, Environment
    PROVE  /\ Typed' /\ Mutex' /\ ChainsOK'
           /\ UNCHANGED <<lock, pc, job, original, marker, faults>>
           /\ \A t \in Tunnel : OwnedRules(t)' = OwnedRules(t)
           /\ \A l \in Location : DOMAIN chain[l] \subseteq DOMAIN chain'[l]
           /\ \/ UNCHANGED <<ip_forward, host_forward>>
              \/ lock = Nobody /\ original = Absent /\ host_forward' = ip_forward'
<1>1. ASSUME NEW value \in {"0", "1"}, SetForwarding(value)
      PROVE  /\ Typed' /\ Mutex' /\ ChainsOK'
             /\ UNCHANGED <<lock, pc, job, original, marker, faults>>
             /\ \A t \in Tunnel : OwnedRules(t)' = OwnedRules(t)
             /\ \A l \in Location : DOMAIN chain[l] \subseteq DOMAIN chain'[l]
             /\ lock = Nobody /\ original = Absent /\ host_forward' = ip_forward'
    <2>1. /\ UNCHANGED <<chain, lock, pc, job, original, marker, faults>>
          /\ ip_forward' = value /\ host_forward' = value /\ lock = Nobody /\ original = Absent
        BY <1>1 DEF SetForwarding, files
    <2>2. Typed' /\ Mutex'
        BY <2>1 DEF Typed, Mutex
    <2> QED BY <2>1, <2>2, SameChains
<1>2. ASSUME ForeignInsert
      PROVE  /\ Typed' /\ Mutex' /\ ChainsOK'
             /\ UNCHANGED <<lock, pc, job, original, marker, faults>>
             /\ \A t \in Tunnel : OwnedRules(t)' = OwnedRules(t)
             /\ \A l \in Location : DOMAIN chain[l] \subseteq DOMAIN chain'[l]
             /\ UNCHANGED <<ip_forward, host_forward>>
    <2>1. /\ UNCHANGED <<ip_forward, host_forward, lock, pc, job, original, marker, faults>>
          /\ chain' = [chain EXCEPT !["filter"] = <<ForeignRule>> \o @]
        BY <1>2 DEF ForeignInsert, files
    <2>2. Typed' /\ Mutex'
        BY <2>1 DEF Typed, Mutex
    <2> QED BY <2>1, <2>2, ForeignStep
<1> QED BY <1>1, <1>2 DEF Environment

----------------------------------------------------------------------------
(***************************************************************************)
(* The rules.                                                              *)
(***************************************************************************)

\* Undoing one rule: it is deleted where it is found, and nothing is added.
LEMMA UndoChains ==
    ASSUME Typed, ChainsOK, NEW p \in Process, undo_rules(p), job[p] \in JobType
    PROVE  /\ ChainsOK' /\ \A t : OwnedRules(t)' \subseteq OwnedRules(t)
           /\ ~(faults < MaxFaults) => \A t \in Tunnel :
                 job[p].added[Len(job[p].added)] \notin OwnedRules(t)'
<1> PICK r : r = job[p].added[Len(job[p].added)]
    OBVIOUS
<1> PICK found : found = {i \in DOMAIN chain[r.location] : chain[r.location][i] = r}
    OBVIOUS
<1>1. r \in RuleType
    <2>1. job[p].added \in Seq(RuleType) /\ job[p].added # <<>>
        BY DEF JobType, undo_rules
    <2> QED BY <2>1
<1>2. r.location \in Location /\ chain[r.location] \in Seq(RuleType)
    <2>1. r.location \in Location
        BY <1>1 DEF RuleType
    <2> QED BY <2>1 DEF ChainsOK
<1>3. \/ found # {} /\ chain' = [chain EXCEPT ![r.location] = RemoveAt(@, First(found))]
      \/ found = {} /\ UNCHANGED chain
      \/ faults < MaxFaults /\ UNCHANGED chain
    BY Zenon DEF undo_rules
<1>4. CASE found # {} /\ chain' = [chain EXCEPT ![r.location] = RemoveAt(@, First(found))]
    <2>1. found \in SUBSET Nat
        <3>1. DOMAIN chain[r.location] \subseteq Nat
            BY <1>2, RuleNumbers, Zenon
        <3> QED BY <3>1
    <2>2. First(found) \in found
        BY <1>4, <2>1, FirstIsMember
    <2>3. First(found) \in DOMAIN chain[r.location] /\ chain[r.location][First(found)] = r
        BY <2>2
    <2> PICK n : n = First(found)
        OBVIOUS
    <2> PICK l : l = r.location
        OBVIOUS
    <2> QED BY <1>2, <1>4, <2>3, RemoveStep
<1>5. CASE UNCHANGED chain /\ (found = {} \/ faults < MaxFaults)
    <2>1. ChainsOK' /\ \A t : OwnedRules(t)' = OwnedRules(t)
        BY <1>5, SameChains
    <2>2. ASSUME NEW t \in Tunnel, found = {}
          PROVE  r \notin OwnedRules(t)
        <3>1. ~exists(r)
            BY <2>2 DEF exists
        <3>2. r \notin OwnedRules(r.owner)
            BY <1>2, <3>1, ExistsIsOwned
        <3>3. r \in OwnedRules(t) => r.owner = t
            BY OwnedMeaning
        <3> QED BY <3>2, <3>3
    <2> QED BY <1>5, <2>1, <2>2
<1> QED BY <1>3, <1>4, <1>5

\* The planned rules are all present exactly if the tunnel owns them all.
LEMMA PresentIsOwned ==
    ASSUME ChainsOK, NEW t \in Tunnel, NEW q \in Policy \cup {"any"}
    PROVE  all_present(from_config(t, q)) <=> PlanSet(t, q) \subseteq OwnedRules(t)
<1>1. \A k \in 1 .. 5 : exists(from_config(t, q)[k]) <=> from_config(t, q)[k] \in OwnedRules(t)
    <2> TAKE k \in 1 .. 5
    <2>1. PICK r : r = from_config(t, q)[k]
        OBVIOUS
    <2>2. r.location \in Location /\ r.owner = t
        BY <2>1, PlanFacts
    <2>3. exists(r) <=> r \in OwnedRules(r.owner)
        BY <2>2, ExistsIsOwned
    <2> QED BY <2>1, <2>2, <2>3
<1>2. DOMAIN from_config(t, q) = 1 .. 5
    BY PlanFacts
<1> QED BY <1>1, <1>2 DEF all_present, PlanSet

\* Fewer rules are still those of one policy.
LEMMA ShrinksPolicy ==
    ASSUME OnePolicy, \A t \in Tunnel : OwnedRules(t)' \subseteq OwnedRules(t)
    PROVE  OnePolicy'
<1>1. \A t \in Tunnel : \E q \in Policy : OwnedRules(t)' \subseteq PlanSet(t, q)
    BY DEF OnePolicy
<1> QED BY <1>1 DEF OnePolicy

\* A tunnel that owns a whole plan owns nothing else.
LEMMA WholePlan ==
    ASSUME OnePolicy, NEW t \in Tunnel, NEW q \in Policy, PlanSet(t, q) \subseteq OwnedRules(t)
    PROVE  OwnedRules(t) = PlanSet(t, q)
<1>1. PICK h \in Policy : OwnedRules(t) \subseteq PlanSet(t, h)
    BY DEF OnePolicy
<1>2. PlanSet(t, q) \subseteq PlanSet(t, h)
    BY <1>1, Zenon
<1>3. PlanSet(t, q) = PlanSet(t, h)
    BY <1>2, PlanNamesPolicy
<1> QED BY <1>1, <1>3

\* It is enough to look at the holder of the lock.
LEMMA RulesOfHolder ==
    ASSUME NEW p \in Process, NEW j, NEW step, Moved(p, j, step), ChainsOK', OnePolicy',
           NEW o, o = OwnedRules(j.tunnel)',
           j.op = "apply" => ApplyRules(step, j, ip_forward', marker', o),
           j.op = "remove" => step \in Removing
    PROVE  RulesInv'
<1>1. pc'[p] = step /\ job'[p] = j /\ lock' = p /\ Typed' /\ Mutex'
    BY DEF Moved
<1>2. OwnedRules(job[p].tunnel)' = o
    BY <1>1
<1>3. HolderRules(p)'
    BY <1>1, <1>2 DEF HolderRules
<1>4. \A q \in Process : lock' = q => HolderRules(q)'
    BY <1>1, <1>3
<1> QED BY <1>1, <1>4 DEF RulesInv

\* What the invariant says of the holder.
LEMMA HolderFacts ==
    ASSUME RulesInv, NEW p \in Process, lock = p, job[p] \in JobType
    PROVE  /\ job[p].tunnel \in Tunnel
           /\ job[p].policy \in Policy \cup {"any"}
           /\ job[p].op \in {"apply", "remove"}
           /\ job[p].op = "apply" =>
                 ApplyRules(pc[p], job[p], ip_forward, marker, OwnedRules(job[p].tunnel))
           /\ job[p].op = "remove" => pc[p] \in Removing
BY DEF RulesInv, HolderRules, JobType

\* The steps that change files or the sysctl but no rule.
LEMMA QuietKeepsRules ==
    ASSUME RulesInv, NEW p \in Process,
           \/ create_original(p) \/ write_original(p) \/ record_gateway(p) \/ RecordFails(p)
           \/ undo_marker(p) \/ undo_forwarding(p) \/ remove_original(p)
           \/ remove_marker(p) \/ restore_forwarding(p) \/ FileFails(p)
    PROVE  RulesInv'
<1>0. Typed /\ Mutex /\ ChainsOK /\ OnePolicy
    BY DEF RulesInv
<1>1. UNCHANGED chain
    BY DEF create_original, write_original, record_gateway, RecordFails, undo_marker,
           undo_forwarding, remove_original, remove_marker, restore_forwarding, FileFails
<1>2. ChainsOK' /\ \A t : OwnedRules(t)' = OwnedRules(t)
    BY <1>0, <1>1, SameChains
<1>3. OnePolicy'
    BY <1>0, <1>2, ShrinksPolicy
<1>4. PICK o : o = OwnedRules(job[p].tunnel)
    OBVIOUS
<1> DEFINE Keeps(j, step) ==
       /\ j.tunnel = job[p].tunnel /\ j.op = job[p].op
       /\ j.op = "apply" => ApplyRules(step, j, ip_forward', marker', o)
       /\ j.op = "remove" => step \in Removing
<1>5. ASSUME NEW j, NEW step, Moved(p, j, step), Keeps(j, step)
      PROVE  RulesInv'
    <2>1. OwnedRules(j.tunnel)' = o
        BY <1>2, <1>4, <1>5
    <2> QED BY <1>2, <1>3, <1>5, <2>1, RulesOfHolder
<1> HIDE DEF Keeps
<1>6. CASE create_original(p)
    <2> PICK j : j = [job[p] EXCEPT !.forwarding_before = ip_forward]
        OBVIOUS
    <2> PICK step : step = IF original = Absent THEN "write_original" ELSE "record_gateway"
        OBVIOUS
    <2>1. Moved(p, j, step)
        BY <1>0, <1>6, PlainMoves
    <2>2. job[p] \in JobType /\ lock = p
        BY <2>1 DEF Moved
    <2>3. Keeps(j, step)
        BY <1>6, <1>4, <2>2, HolderFacts
           DEF Keeps, ApplyRules, Preparing, Changing, Leaving, Removing, create_original, files, history, JobType
    <2> QED BY <2>1, <2>3, <1>5
<1>7. CASE write_original(p)
    <2> PICK j : j = [job[p] EXCEPT !.original_created = TRUE]
        OBVIOUS
    <2> PICK step : step = "record_gateway"
        OBVIOUS
    <2>1. Moved(p, j, step)
        BY <1>0, <1>7, PlainMoves
    <2>2. job[p] \in JobType /\ lock = p
        BY <2>1 DEF Moved
    <2>3. Keeps(j, step)
        BY <1>7, <1>4, <2>2, HolderFacts
           DEF Keeps, ApplyRules, Preparing, Changing, Leaving, Removing, write_original, files, history, JobType
    <2> QED BY <2>1, <2>3, <1>5
<1>8. CASE record_gateway(p)
    <2> PICK j : j = [job[p] EXCEPT !.marker_created = (job[p].tunnel \notin marker)]
        OBVIOUS
    <2> PICK step : step = "compare"
        OBVIOUS
    <2>1. Moved(p, j, step)
        BY <1>0, <1>8, PlainMoves
    <2>2. job[p] \in JobType /\ lock = p
        BY <2>1 DEF Moved
    <2>3. Keeps(j, step)
        BY <1>8, <1>4, <2>2, HolderFacts
           DEF Keeps, ApplyRules, Preparing, Changing, Leaving, Removing, record_gateway, files, history, JobType
    <2> QED BY <2>1, <2>3, <1>5
<1>9. CASE RecordFails(p)
    <2> PICK j : j = job[p]
        OBVIOUS
    <2> PICK step : step = "unlock"
        OBVIOUS
    <2>1. Moved(p, j, step)
        BY <1>0, <1>9, PlainMoves
    <2>2. job[p] \in JobType /\ lock = p
        BY <2>1 DEF Moved
    <2>3. Keeps(j, step)
        BY <1>9, <1>4, <2>2, HolderFacts
           DEF Keeps, ApplyRules, Preparing, Changing, Leaving, Removing, RecordFails, files, history, JobType
    <2> QED BY <2>1, <2>3, <1>5
<1>10. CASE undo_forwarding(p)
    <2> PICK j : j = job[p]
        OBVIOUS
    <2> PICK step : step = "remove_original"
        OBVIOUS
    <2>1. Moved(p, j, step)
        BY <1>0, <1>10, PlainMoves
    <2>2. job[p] \in JobType /\ lock = p
        BY <2>1 DEF Moved
    <2>3. Keeps(j, step)
        BY <1>10, <1>4, <2>2, HolderFacts
           DEF Keeps, ApplyRules, Preparing, Changing, Leaving, Removing, undo_forwarding, files, history, JobType
    <2> QED BY <2>1, <2>3, <1>5
<1>11. CASE remove_original(p)
    <2> PICK j : j = job[p]
        OBVIOUS
    <2> PICK step : step = IF job[p].op = "apply" THEN "unlock" ELSE "removed"
        OBVIOUS
    <2>1. Moved(p, j, step)
        BY <1>0, <1>11, PlainMoves
    <2>2. job[p] \in JobType /\ lock = p
        BY <2>1 DEF Moved
    <2>3. Keeps(j, step)
        BY <1>11, <1>4, <2>2, HolderFacts
           DEF Keeps, ApplyRules, Preparing, Changing, Leaving, Removing, remove_original, files, history, JobType
    <2> QED BY <2>1, <2>3, <1>5
<1>12. CASE restore_forwarding(p)
    <2> PICK j : j = job[p]
        OBVIOUS
    <2> PICK step : step = "remove_original"
        OBVIOUS
    <2>1. Moved(p, j, step)
        BY <1>0, <1>12, PlainMoves
    <2>2. job[p] \in JobType /\ lock = p
        BY <2>1 DEF Moved
    <2>3. Keeps(j, step)
        BY <1>12, <1>4, <2>2, HolderFacts
           DEF Keeps, ApplyRules, Preparing, Changing, Leaving, Removing, restore_forwarding, files, history, JobType
    <2> QED BY <2>1, <2>3, <1>5
<1>13. CASE undo_marker(p)
    <2> PICK j : j = job[p]
        OBVIOUS
    <2> PICK step : step = IF job[p].original_created /\ marker' = {}
                       THEN "undo_forwarding" ELSE "unlock"
        OBVIOUS
    <2>1. Moved(p, j, step)
        BY <1>0, <1>13, BranchMoves
    <2>2. job[p] \in JobType /\ lock = p
        BY <2>1 DEF Moved
    <2>3. Keeps(j, step)
        BY <1>13, <1>4, <2>2, HolderFacts
           DEF Keeps, ApplyRules, Preparing, Changing, Leaving, Removing, undo_marker, files, history, JobType
    <2> QED BY <2>1, <2>3, <1>5
<1>14. CASE remove_marker(p)
    <2> PICK j : j = job[p]
        OBVIOUS
    <2> PICK step : step = IF original # Absent /\ marker' = {}
                       THEN "restore_forwarding" ELSE "removed"
        OBVIOUS
    <2>1. Moved(p, j, step)
        BY <1>0, <1>14, BranchMoves
    <2>2. job[p] \in JobType /\ lock = p
        BY <2>1 DEF Moved
    <2>3. Keeps(j, step)
        BY <1>14, <1>4, <2>2, HolderFacts
           DEF Keeps, ApplyRules, Preparing, Changing, Leaving, Removing, remove_marker, files, history, JobType
    <2> QED BY <2>1, <2>3, <1>5
<1>15. CASE FileFails(p)
    <2> PICK j : j = job[p]
        OBVIOUS
    <2> PICK step : step = "unlock"
        OBVIOUS
    <2>1. Moved(p, j, step)
        BY <1>0, <1>15, PlainMoves
    <2>2. job[p] \in JobType /\ lock = p
        BY <2>1 DEF Moved
    <2>3. Keeps(j, step)
        <3>1. ApplyRules(pc[p], job[p], ip_forward, marker, o) \/ job[p].op # "apply"
            BY <1>4, <2>2, HolderFacts
        <3> QED BY <3>1 DEF Keeps, ApplyRules, Preparing, Changing, Leaving, Removing
    <2> QED BY <2>1, <2>3, <1>5
<1> QED BY <1>6, <1>7, <1>8, <1>9, <1>10, <1>11, <1>12, <1>13, <1>14, <1>15

\* compare goes on to add exactly if the tunnel owns the plan and no more.
LEMMA CompareKeepsRules ==
    ASSUME RulesInv, NEW p \in Process, compare(p)
    PROVE  RulesInv'
<1>0. Typed /\ Mutex /\ ChainsOK /\ OnePolicy
    BY DEF RulesInv
<1>1. ChainsOK' /\ \A t : OwnedRules(t)' = OwnedRules(t)
    BY <1>0, SameChains DEF compare
<1>2. OnePolicy'
    BY <1>0, <1>1, ShrinksPolicy
<1>3. PICK step : step = IF /\ all_present(Plan(p))
                            /\ count_owned_rules(job[p].tunnel) = Len(Plan(p))
                         THEN "add" ELSE "list"
    OBVIOUS
<1>4. Moved(p, job[p], step)
    BY <1>0, <1>3, BranchMoves
<1>5. job[p] \in JobType /\ lock = p
    BY <1>4 DEF Moved
<1> PICK t : t = job[p].tunnel
    OBVIOUS
<1> PICK q : q = job[p].policy
    OBVIOUS
<1> PICK o : o = OwnedRules(t)
    OBVIOUS
<1>6. t \in Tunnel /\ q \in Policy \cup {"any"} /\ job[p].op \in {"apply", "remove"}
      /\ (job[p].op = "apply" => ApplyRules("compare", job[p], ip_forward, marker, o))
      /\ job[p].op # "remove"
    BY <1>5, HolderFacts DEF compare, Removing
<1>7. q \in Policy
    BY <1>6 DEF ApplyRules
<1>8. all_present(Plan(p)) <=> PlanSet(t, q) \subseteq o
    BY <1>0, <1>6, PresentIsOwned DEF Plan
<1>9. PlanSet(t, q) \subseteq o => o = PlanSet(t, q)
    BY <1>0, <1>6, <1>7, WholePlan
<1>10. o = PlanSet(t, q) => count_owned_rules(t) = Len(Plan(p))
    <2>1. count_owned_rules(t) = Cardinality(OwnedRules(t))
        BY <1>0, <1>6, CountIsOwned
    <2>2. Cardinality(PlanSet(t, q)) = 5 /\ Len(Plan(p)) = 5
        BY <1>6, PlanCardinality, PlanFacts DEF Plan
    <2> QED BY <2>1, <2>2
<1>11. \/ step = "add" /\ o = PlanSet(t, q)
       \/ step = "list" /\ ~(PlanSet(t, q) \subseteq o)
    BY <1>3, <1>8, <1>9, <1>10
<1>12. ApplyRules(step, job[p], ip_forward', marker', o)
    BY <1>6, <1>7, <1>11 DEF compare, files, ApplyRules, Preparing, Changing, Leaving
<1>13. o = OwnedRules(t)'
    BY <1>1
<1> QED BY <1>1, <1>2, <1>4, <1>6, <1>12, <1>13, RulesOfHolder

\* list: an apply that finds no owned rule starts its plan at the first rule.
LEMMA ListKeepsRules ==
    ASSUME RulesInv, NEW p \in Process, list(p)
    PROVE  RulesInv'
<1>0. Typed /\ Mutex /\ ChainsOK /\ OnePolicy
    BY DEF RulesInv
<1>1. ChainsOK' /\ \A t : OwnedRules(t)' = OwnedRules(t)
    BY <1>0, SameChains DEF list
<1>2. OnePolicy'
    BY <1>0, <1>1, ShrinksPolicy
<1>3. PICK o : o = OwnedRules(job[p].tunnel)
    OBVIOUS
<1>4. CASE /\ OwnedRules(job[p].tunnel) = {}
           /\ Moved(p, job[p], IF job[p].op = "apply" THEN "add" ELSE "remove_marker")
    <2> PICK step : step = IF job[p].op = "apply" THEN "add" ELSE "remove_marker"
        OBVIOUS
    <2>1. Moved(p, job[p], step) /\ job[p] \in JobType /\ lock = p
        BY <1>4 DEF Moved
    <2>2. job[p].op = "apply" => ApplyRules(step, job[p], ip_forward', marker', o)
        <3>1. job[p].op = "apply" => ApplyRules("list", job[p], ip_forward, marker, o)
            BY <1>3, <2>1, HolderFacts DEF list
        <3>2. o = {from_config(job[p].tunnel, job[p].policy)[k] : k \in 1 .. (1 - 1)}
            BY <1>3, <1>4
        <3>3. ip_forward' = ip_forward /\ marker' = marker
            BY DEF list, files
        <3> QED BY <3>1, <3>2, <3>3 DEF ApplyRules, Preparing, Changing, Leaving
    <2>3. job[p].op = "remove" => step \in Removing
        BY DEF Removing
    <2> QED BY <1>1, <1>2, <1>3, <2>1, <2>2, <2>3, RulesOfHolder
<1>5. ASSUME NEW v \in Location \X Nat, Moved(p, [job[p] EXCEPT !.victim = v], "delete")
      PROVE  RulesInv'
    <2> PICK j : j = [job[p] EXCEPT !.victim = v]
        OBVIOUS
    <2>1. Moved(p, j, "delete") /\ job[p] \in JobType /\ lock = p
        BY <1>5 DEF Moved
    <2>2. /\ j.tunnel = job[p].tunnel /\ j.policy = job[p].policy /\ j.op = job[p].op
          /\ j.added = job[p].added /\ j.rule = job[p].rule
          /\ j.forwarding_before = job[p].forwarding_before
        BY <2>1 DEF JobType
    <2>3. j.op = "apply" => ApplyRules("delete", j, ip_forward', marker', o)
        <3>1. job[p].op = "apply" => ApplyRules("list", job[p], ip_forward, marker, o)
            BY <1>3, <2>1, HolderFacts DEF list
        <3>2. ip_forward' = ip_forward /\ marker' = marker
            BY DEF list, files
        <3> QED BY <2>2, <3>1, <3>2 DEF ApplyRules, Preparing, Changing, Leaving
    <2>4. j.op = "remove" => "delete" \in Removing
        BY DEF Removing
    <2>5. o = OwnedRules(j.tunnel)'
        BY <1>1, <1>3, <2>2
    <2> QED BY <1>1, <1>2, <2>1, <2>3, <2>4, <2>5, RulesOfHolder
<1> QED BY <1>0, <1>4, <1>5, ListMoves

\* delete takes rules away: what was missing from the plan stays missing.
LEMMA DeleteKeepsRules ==
    ASSUME RulesInv, NEW p \in Process, delete(p)
    PROVE  RulesInv'
<1>0. Typed /\ Mutex /\ ChainsOK /\ OnePolicy
    BY DEF RulesInv
<1>1. Moved(p, job[p], "list") /\ job[p] \in JobType /\ lock = p
    BY <1>0, PlainMoves DEF Moved
<1>2. PICK l : l = job[p].victim[1]
    OBVIOUS
<1>3. PICK n : n = job[p].victim[2]
    OBVIOUS
<1>4. n \in DOMAIN chain[l] /\ chain' = [chain EXCEPT ![l] = RemoveAt(@, n)]
    BY <1>2, <1>3 DEF delete
<1>5. ChainsOK' /\ \A t : OwnedRules(t)' \subseteq OwnedRules(t)
    <2>1. CASE l \in Location
        BY <1>0, <1>4, <2>1, RemoveStep
    <2>2. CASE l \notin Location
        <3>1. chain' = chain
            BY <1>0, <1>4, <2>2 DEF ChainsOK
        <3> QED BY <1>0, <3>1, SameChains
    <2> QED BY <2>1, <2>2
<1>6. OnePolicy'
    BY <1>0, <1>5, ShrinksPolicy
<1>7. PICK o : o = OwnedRules(job[p].tunnel)
    OBVIOUS
<1>8. PICK t : t = job[p].tunnel
    OBVIOUS
<1>9. PICK r : r = OwnedRules(t)'
    OBVIOUS
<1>10. r \subseteq o
    BY <1>5, <1>7, <1>8, <1>9
<1>11. job[p].op = "apply" => ApplyRules("list", job[p], ip_forward', marker', r)
    <2>1. job[p].op = "apply" => ApplyRules("delete", job[p], ip_forward, marker, o)
        BY <1>1, <1>7, HolderFacts DEF delete
    <2>2. ip_forward' = ip_forward /\ marker' = marker
        BY DEF delete, files
    <2> QED BY <1>10, <2>1, <2>2 DEF ApplyRules, Preparing, Changing, Leaving
<1>12. job[p].op = "remove" => "list" \in Removing
    BY DEF Removing
<1> QED BY <1>1, <1>5, <1>6, <1>8, <1>9, <1>11, <1>12, RulesOfHolder

\* add_if_missing: either the plan was complete and nothing is added, or what
\* the tunnel owns is the part of the plan that was gone through.
LEMMA AddKeepsRules ==
    ASSUME RulesInv, NEW p \in Process, add_if_missing(p)
    PROVE  RulesInv'
<1>0. Typed /\ Mutex /\ ChainsOK /\ OnePolicy
    BY DEF RulesInv
<1> PICK t : t = job[p].tunnel
    OBVIOUS
<1> PICK q : q = job[p].policy
    OBVIOUS
<1> PICK o : o = OwnedRules(t)
    OBVIOUS
<1> PICK n : n = job[p].rule
    OBVIOUS
<1> PICK f : f = from_config(t, q)
    OBVIOUS
<1> PICK r : r = f[n]
    OBVIOUS
<1>1. r = Plan(p)[job[p].rule]
    BY DEF Plan
<1>2. /\ r \in RuleType /\ r.owner = t
      /\ \/ /\ r \in o /\ chain' = chain
            /\ Moved(p, [job[p] EXCEPT !.rule = n + 1], "add")
         \/ /\ r \notin o /\ chain' = [chain EXCEPT ![r.location] = Append(@, r)]
            /\ Moved(p, [job[p] EXCEPT !.rule = n + 1,
                                       !.added = Append(job[p].added, r)], "add")
    BY <1>0, <1>1, AddMoves
<1>3. job[p] \in JobType /\ lock = p
    BY <1>2 DEF Moved
<1>4. /\ t \in Tunnel /\ q \in Policy \cup {"any"} /\ n \in 1 .. 6
      /\ ApplyRules("add", job[p], ip_forward, marker, o) /\ job[p].op = "apply"
    BY <1>3, HolderFacts DEF add_if_missing, Removing, JobType
<1>5. q \in Policy /\ job[p].forwarding_before = ip_forward /\ t \in marker
      /\ \/ job[p].added = <<>> /\ o = PlanSet(t, q)
         \/ o = {f[k] : k \in 1 .. (n - 1)}
    BY <1>4 DEF ApplyRules, Preparing, Changing, Leaving
<1>6. n \in 1 .. 5
    <2>1. n <= Len(f)
        BY DEF add_if_missing, Plan
    <2>2. Len(f) = 5
        BY <1>4, PlanFacts
    <2> QED BY <1>4, <2>1, <2>2
<1>7. \A i, k \in 1 .. 5 : f[i] = f[k] => i = k
    BY <1>4, PlanFacts
<1>8. r \in PlanSet(t, q) /\ r \notin {f[k] : k \in 1 .. (n - 1)}
    BY <1>6, <1>7 DEF PlanSet
<1>9. ip_forward' = ip_forward /\ marker' = marker
    BY DEF add_if_missing, files
<1>10. CASE r \in o
    <2>1. PICK j : j = [job[p] EXCEPT !.rule = n + 1]
        OBVIOUS
    <2>2. chain' = chain /\ Moved(p, j, "add")
        BY <1>2, <1>10, <2>1
    <2>3. /\ j.tunnel = t /\ j.policy = q /\ j.op = "apply" /\ j.added = job[p].added
          /\ j.forwarding_before = job[p].forwarding_before
        BY <1>3, <1>4, <2>1 DEF JobType
    <2>4. job[p].added = <<>> /\ o = PlanSet(t, q)
        BY <1>5, <1>8, <1>10
    <2>5. ChainsOK' /\ \A u : OwnedRules(u)' = OwnedRules(u)
        BY <1>0, <2>2, SameChains
    <2>6. OnePolicy'
        BY <1>0, <2>5, ShrinksPolicy
    <2>7. ApplyRules("add", j, ip_forward', marker', o)
        BY <1>5, <1>9, <2>3, <2>4 DEF ApplyRules, Preparing, Changing, Leaving
    <2>8. o = OwnedRules(t)'
        BY <2>5
    <2> QED BY <2>2, <2>3, <2>5, <2>6, <2>7, <2>8, RulesOfHolder
<1>11. CASE r \notin o
    <2>1. PICK j : j = [job[p] EXCEPT !.rule = n + 1, !.added = Append(job[p].added, r)]
        OBVIOUS
    <2>2. chain' = [chain EXCEPT ![r.location] = Append(@, r)] /\ Moved(p, j, "add")
        BY <1>2, <1>11, <2>1
    <2>3. /\ j.tunnel = t /\ j.policy = q /\ j.op = "apply" /\ j.rule = n + 1
          /\ j.forwarding_before = job[p].forwarding_before
        BY <1>3, <1>4, <2>1 DEF JobType
    <2>4. o = {f[k] : k \in 1 .. (n - 1)}
        BY <1>5, <1>8, <1>11
    <2>5. /\ ChainsOK' /\ OwnedRules(r.owner)' = OwnedRules(r.owner) \cup {r}
          /\ \A u : u # r.owner => OwnedRules(u)' = OwnedRules(u)
        BY <1>0, <1>2, <1>4, <1>11, <2>2, AppendStep
    <2>6. OwnedRules(t)' = o \cup {r} /\ \A u : u # t => OwnedRules(u)' = OwnedRules(u)
        BY <2>5, <1>2
    <2>7. o \cup {r} = {f[k] : k \in 1 .. n}
        BY <1>6, <2>4
    <2>8. OnePolicy'
        <3>1. o \cup {r} \subseteq PlanSet(t, q)
            BY <1>6, <2>7 DEF PlanSet
        <3>2. \A u \in Tunnel : \E h \in Policy : OwnedRules(u)' \subseteq PlanSet(u, h)
            BY <1>0, <1>5, <2>6, <3>1 DEF OnePolicy
        <3> QED BY <3>2 DEF OnePolicy
    <2>9. PICK s : s = {f[k] : k \in 1 .. n}
        OBVIOUS
    <2>10. ApplyRules("add", j, ip_forward', marker', s)
        <3>1. (n + 1) - 1 = n
            BY <1>6
        <3> QED BY <1>5, <1>9, <2>3, <2>9, <3>1 DEF ApplyRules, Preparing, Changing, Leaving
    <2>11. s = OwnedRules(t)'
        BY <2>6, <2>7, <2>9
    <2> QED BY <2>2, <2>3, <2>5, <2>8, <2>10, <2>11, RulesOfHolder
<1> QED BY <1>10, <1>11

\* enable_forwarding ends an apply whose tunnel owns the whole plan.
LEMMA EnableKeepsRules ==
    ASSUME RulesInv, NEW p \in Process, enable_forwarding(p)
    PROVE  RulesInv'
<1>0. Typed /\ Mutex /\ ChainsOK /\ OnePolicy
    BY DEF RulesInv
<1>1. ChainsOK' /\ \A t : OwnedRules(t)' = OwnedRules(t)
    BY <1>0, SameChains DEF enable_forwarding
<1>2. OnePolicy'
    BY <1>0, <1>1, ShrinksPolicy
<1>3. Moved(p, job[p], "applied") /\ job[p] \in JobType /\ lock = p
    BY <1>0, PlainMoves DEF Moved
<1> PICK t : t = job[p].tunnel
    OBVIOUS
<1> PICK q : q = job[p].policy
    OBVIOUS
<1> PICK o : o = OwnedRules(t)
    OBVIOUS
<1>4. /\ t \in Tunnel /\ q \in Policy \cup {"any"} /\ job[p].rule \in 1 .. 6
      /\ ApplyRules("add", job[p], ip_forward, marker, o) /\ job[p].op = "apply"
    BY <1>3, HolderFacts DEF enable_forwarding, Removing, JobType
<1>5. q \in Policy /\ job[p].forwarding_before = ip_forward /\ t \in marker
      /\ \/ o = PlanSet(t, q)
         \/ o = {from_config(t, q)[k] : k \in 1 .. (job[p].rule - 1)}
    BY <1>4 DEF ApplyRules, Preparing, Changing, Leaving
<1>6. job[p].rule = 6
    <2>1. Len(Plan(p)) = 5
        BY <1>4, PlanFacts DEF Plan
    <2>2. job[p].rule > Len(Plan(p))
        BY DEF enable_forwarding
    <2> QED BY <1>4, <2>1, <2>2
<1>7. o = PlanSet(t, q)
    BY <1>5, <1>6 DEF PlanSet
<1>8. ip_forward' = "1" /\ marker' = marker
    BY <1>5 DEF enable_forwarding, files
<1>9. ApplyRules("applied", job[p], ip_forward', marker', o)
    BY <1>5, <1>7, <1>8 DEF ApplyRules, Preparing, Changing, Leaving
<1>10. o = OwnedRules(t)'
    BY <1>1
<1> QED BY <1>1, <1>2, <1>3, <1>4, <1>9, <1>10, RulesOfHolder

\* A command that fails: an apply that added rules did not complete its plan.
LEMMA FailKeepsRules ==
    ASSUME RulesInv, NEW p \in Process, CommandFails(p)
    PROVE  RulesInv'
<1>0. Typed /\ Mutex /\ ChainsOK /\ OnePolicy
    BY DEF RulesInv
<1>1. ChainsOK' /\ \A t : OwnedRules(t)' = OwnedRules(t)
    BY <1>0, SameChains DEF CommandFails
<1>2. OnePolicy'
    BY <1>0, <1>1, ShrinksPolicy
<1> PICK step : step = IF job[p].op = "apply" THEN "undo_rules" ELSE "unlock"
    OBVIOUS
<1>3. Moved(p, job[p], step) /\ job[p] \in JobType /\ lock = p
    BY <1>0, PlainMoves DEF Moved
<1> PICK t : t = job[p].tunnel
    OBVIOUS
<1> PICK q : q = job[p].policy
    OBVIOUS
<1> PICK o : o = OwnedRules(t)
    OBVIOUS
<1> PICK f : f = from_config(t, q)
    OBVIOUS
<1>4. ip_forward' = ip_forward /\ marker' = marker
    BY DEF CommandFails, files
<1>5. job[p].op = "remove" => step \in Removing
    BY DEF Removing
<1>6. ASSUME job[p].op = "apply"
      PROVE  ApplyRules(step, job[p], ip_forward', marker', o)
    <2>1. /\ t \in Tunnel /\ q \in Policy \cup {"any"} /\ job[p].rule \in 1 .. 6
          /\ ApplyRules(pc[p], job[p], ip_forward, marker, o)
        BY <1>3, <1>6, HolderFacts DEF JobType
    <2>2. pc[p] \in {"compare", "list", "delete", "add"}
        BY <2>1 DEF CommandFails, ApplyRules, Preparing, Changing, Leaving
    <2>3. /\ q \in Policy /\ t \in marker /\ job[p].forwarding_before = ip_forward
          /\ pc[p] # "add" => job[p].added = <<>>
          /\ pc[p] = "add" => \/ job[p].added = <<>>
                              \/ o = {f[k] : k \in 1 .. (job[p].rule - 1)}
        BY <2>1, <2>2 DEF ApplyRules, Preparing, Changing, Leaving
    <2>4. ASSUME job[p].added # <<>>, ip_forward = "1"
          PROVE  ~(PlanSet(t, q) \subseteq o)
        <3>1. pc[p] = "add" /\ o = {f[k] : k \in 1 .. (job[p].rule - 1)}
            BY <2>3, <2>4
        <3>2. job[p].rule <= Len(Plan(p)) /\ Len(Plan(p)) = 5
            BY <2>1, <2>3, <2>4, <3>1, PlanFacts DEF CommandFails, Plan
        <3>3. job[p].rule \in 1 .. 5
            BY <2>1, <3>2
        <3>4. \A i, k \in 1 .. 5 : f[i] = f[k] => i = k
            BY <2>1, PlanFacts
        <3>5. f[job[p].rule] \in PlanSet(t, q) /\ f[job[p].rule] \notin o
            BY <3>1, <3>3, <3>4 DEF PlanSet
        <3> QED BY <3>5
    <2> QED BY <1>4, <1>6, <2>3, <2>4 DEF ApplyRules, Preparing, Changing, Leaving
<1>7. o = OwnedRules(t)'
    BY <1>1
<1> QED BY <1>1, <1>2, <1>3, <1>5, <1>6, <1>7, RulesOfHolder

\* The rollback takes rules away.
LEMMA UndoKeepsRules ==
    ASSUME RulesInv, NEW p \in Process, undo_rules(p)
    PROVE  RulesInv'
<1>0. Typed /\ Mutex /\ ChainsOK /\ OnePolicy
    BY DEF RulesInv
<1> PICK a : a = SubSeq(job[p].added, 1, Len(job[p].added) - 1)
    OBVIOUS
<1> PICK j : j = [job[p] EXCEPT !.added = a]
    OBVIOUS
<1>1. Moved(p, j, "undo_rules") /\ job[p] \in JobType /\ lock = p
    BY <1>0, UndoMoves DEF Moved
<1>2. /\ j.tunnel = job[p].tunnel /\ j.policy = job[p].policy /\ j.op = job[p].op
      /\ j.forwarding_before = job[p].forwarding_before
    BY <1>1 DEF JobType
<1>3. ChainsOK' /\ \A t : OwnedRules(t)' \subseteq OwnedRules(t)
    BY <1>0, <1>1, UndoChains
<1>4. OnePolicy'
    BY <1>0, <1>3, ShrinksPolicy
<1> PICK t : t = job[p].tunnel
    OBVIOUS
<1> PICK o : o = OwnedRules(t)
    OBVIOUS
<1>5. PICK r : r = OwnedRules(t)'
    OBVIOUS
<1>6. r \subseteq o
    BY <1>3, <1>5
<1>7. j.op = "apply" => ApplyRules("undo_rules", j, ip_forward', marker', r)
    <2>1. job[p].op = "apply" => ApplyRules("undo_rules", job[p], ip_forward, marker, o)
        BY <1>1, HolderFacts DEF undo_rules
    <2>2. ip_forward' = ip_forward /\ marker' = marker /\ job[p].added # <<>>
        BY DEF undo_rules, files
    <2> QED BY <1>2, <1>6, <2>1, <2>2 DEF ApplyRules, Preparing, Changing, Leaving
<1>8. j.op # "remove"
    BY <1>1, <1>2, HolderFacts DEF undo_rules, Removing
<1> QED BY <1>1, <1>2, <1>3, <1>4, <1>5, <1>7, <1>8, RulesOfHolder

\* A holder that does not move, while the rules, the files and the sysctl stay.
LEMMA BystandersKeepRules ==
    ASSUME RulesInv, Typed', Mutex', ChainsOK', UNCHANGED marker,
           \A t \in Tunnel : OwnedRules(t)' = OwnedRules(t),
           \A q \in Process : lock' = q =>
               /\ lock = q /\ pc'[q] = pc[q] /\ job'[q] = job[q]
               /\ ip_forward' = ip_forward
    PROVE  RulesInv'
<1>1. OnePolicy'
    BY ShrinksPolicy DEF RulesInv
<1>2. ASSUME NEW q \in Process, lock' = q
      PROVE  HolderRules(q)'
    <2>1. lock = q /\ pc'[q] = pc[q] /\ job'[q] = job[q] /\ ip_forward' = ip_forward
        BY <1>2
    <2>2. job[q] \in JobType
        BY <2>1 DEF RulesInv, Typed, Mutex
    <2>3. PICK t : t = job[q].tunnel
        OBVIOUS
    <2>4. t \in Tunnel
        BY <2>2, <2>3 DEF JobType
    <2>5. OwnedRules(job[q].tunnel)' = OwnedRules(t)
        BY <2>1, <2>3, <2>4
    <2>6. HolderRules(q)
        BY <2>1 DEF RulesInv
    <2> QED BY <2>1, <2>3, <2>5, <2>6 DEF HolderRules
<1> QED BY <1>1, <1>2 DEF RulesInv

\* A process that takes the lock has not touched a rule yet.
LEMMA LockKeepsRules ==
    ASSUME RulesInv, NEW p \in Process, TakeLock(p)
    PROVE  RulesInv'
<1>0. Typed /\ Mutex /\ ChainsOK /\ OnePolicy /\ Fresh(job[p])
    BY DEF RulesInv, Mutex, TakeLock
<1> PICK step : step = IF job[p].op = "apply" THEN "create_original" ELSE "list"
    OBVIOUS
<1> PICK j : j = [job[p] EXCEPT !.rules_before = OwnedRules(job[p].tunnel)]
    OBVIOUS
<1>1. /\ Typed' /\ Mutex' /\ lock' = p /\ job[p] \in JobType
      /\ pc'[p] = step /\ job'[p] = j
      /\ UNCHANGED <<chain, ip_forward, host_forward, original, marker, faults>>
    BY <1>0, LockMoves
<1>2. ChainsOK' /\ \A t : OwnedRules(t)' = OwnedRules(t)
    BY <1>0, <1>1, SameChains
<1>3. OnePolicy'
    BY <1>0, <1>2, ShrinksPolicy
<1>4. /\ j.op = job[p].op /\ j.added = job[p].added /\ j.rule = job[p].rule
      /\ j.policy = job[p].policy
    BY <1>1 DEF JobType
<1>5. HolderRules(p)'
    BY <1>0, <1>1, <1>4
       DEF Fresh, HolderRules, ApplyRules, Preparing, Changing, Leaving, Removing
<1>6. \A q \in Process : lock' = q => HolderRules(q)'
    BY <1>1, <1>5
<1> QED BY <1>1, <1>2, <1>3, <1>6 DEF RulesInv

\* No step of the holder breaks the invariant of the rules.
LEMMA HolderKeepsRules ==
    ASSUME RulesInv, NEW p \in Process, HolderStep(p)
    PROVE  RulesInv'
BY QuietKeepsRules, CompareKeepsRules, ListKeepsRules, DeleteKeepsRules, AddKeepsRules,
   EnableKeepsRules, FailKeepsRules, UndoKeepsRules DEF HolderStep

\* The steps of GatewayNext, sorted by who makes them.
LEMMA StepKinds ==
    ASSUME GatewayNext
    PROVE  \/ \E p \in Process : HolderStep(p)
           \/ \E p \in Process : TakeLock(p)
           \/ \E p \in Process :
                 \/ \E op \in {"apply", "remove"}, t \in Tunnel, q \in Policy \cup {"any"} :
                       Start(p, op, t, q) /\ (op = "apply" => q \in Policy)
                 \/ Unlock(p) \/ Kill(p)
           \/ Environment
<1>1. ASSUME NEW p \in Process, NEW t \in Tunnel, NEW q \in Policy, Start(p, "apply", t, q)
      PROVE  \E op \in {"apply", "remove"}, u \in Tunnel, r \in Policy \cup {"any"} :
                Start(p, op, u, r) /\ (op = "apply" => r \in Policy)
    BY <1>1
<1>2. ASSUME NEW p \in Process, NEW t \in Tunnel, Start(p, "remove", t, "any")
      PROVE  \E op \in {"apply", "remove"}, u \in Tunnel, r \in Policy \cup {"any"} :
                Start(p, op, u, r) /\ (op = "apply" => r \in Policy)
    BY <1>2
<1>3. ASSUME NEW p \in Process, Step(p)
      PROVE  HolderStep(p) \/ TakeLock(p) \/ Unlock(p)
    BY <1>3, Zenon DEF Step, HolderStep
<1> QED BY <1>1, <1>2, <1>3, Zenon DEF GatewayNext

\* The invariant of the rules is inductive.
LEMMA RulesStep ==
    ASSUME RulesInv, [GatewayNext]_vars
    PROVE  RulesInv'
<1>0. Typed /\ Mutex /\ ChainsOK
    BY DEF RulesInv
<1>1. ASSUME NEW p \in Process,
             \/ \E op \in {"apply", "remove"}, t \in Tunnel, q \in Policy \cup {"any"} :
                   Start(p, op, t, q) /\ (op = "apply" => q \in Policy)
             \/ Unlock(p) \/ Kill(p)
      PROVE  RulesInv'
    <2>1. /\ Typed' /\ Mutex'
          /\ UNCHANGED <<chain, ip_forward, host_forward, original, marker, faults>>
          /\ \A q \in Process : lock' = q =>
                lock = q /\ pc'[q] = pc[q] /\ job'[q] = job[q]
        BY <1>0, <1>1, OutsideMoves
    <2>2. ChainsOK' /\ \A t : OwnedRules(t)' = OwnedRules(t)
        BY <1>0, <2>1, SameChains
    <2> QED BY <2>1, <2>2, BystandersKeepRules
<1>2. CASE Environment
    <2>1. /\ Typed' /\ Mutex' /\ ChainsOK'
          /\ UNCHANGED <<lock, pc, job, original, marker, faults>>
          /\ \A t \in Tunnel : OwnedRules(t)' = OwnedRules(t)
          /\ ip_forward' = ip_forward \/ lock = Nobody
        BY <1>0, <1>2, EnvironmentMoves
    <2>2. \A q \in Process : q # Nobody
        BY GatewayAssumption
    <2> QED BY <2>1, <2>2, BystandersKeepRules
<1>3. CASE UNCHANGED vars
    <2>1. UNCHANGED <<chain, ip_forward, original, marker, lock, pc, job, host_forward, faults>>
        BY <1>3 DEF vars
    <2>2. Typed' /\ Mutex'
        BY <1>0, <2>1 DEF Typed, Mutex
    <2>3. ChainsOK' /\ \A t : OwnedRules(t)' = OwnedRules(t)
        BY <1>0, <2>1, SameChains
    <2> QED BY <2>1, <2>2, <2>3, BystandersKeepRules
<1> QED BY <1>1, <1>2, <1>3, StepKinds, HolderKeepsRules, LockKeepsRules

\* The host before any gateway command.
LEMMA RulesInit ==
    ASSUME GatewayInit
    PROVE  RulesInv /\ \A t \in Tunnel : OwnedRules(t) = {}
<1>1. Typed
    BY DEF GatewayInit, Typed, StepName
<1>2. Mutex
    BY GatewayAssumption DEF GatewayInit, Mutex
<1>3. ForeignRule \in RuleType /\ ForeignRule.owner = Nobody /\ ForeignRule.location = "filter"
    BY DEF ForeignRule, Rule, RuleType, Location, Kind
<1>4. \A l \in Location : chain[l] = IF l = "filter" THEN <<ForeignRule>> ELSE <<>>
    BY DEF GatewayInit
<1>5. /\ <<ForeignRule>> \in Seq(RuleType) /\ DOMAIN <<ForeignRule>> = {1}
      /\ <<ForeignRule>>[1] = ForeignRule
    BY <1>3
<1>6. \A l \in Location : chain[l] \in Seq(RuleType)
    <2>1. <<>> \in Seq(RuleType)
        OBVIOUS
    <2> QED BY <1>4, <1>5, <2>1, Zenon
<1>7. \A l \in Location : \A i \in DOMAIN chain[l] :
          l = "filter" /\ i = 1 /\ chain[l][i] = ForeignRule
    <2> SUFFICES ASSUME NEW l \in Location, NEW i \in DOMAIN chain[l]
                 PROVE  l = "filter" /\ i = 1 /\ chain[l][i] = ForeignRule
        OBVIOUS
    <2>1. CASE l = "filter"
        <3>1. chain[l] = <<ForeignRule>>
            BY <1>4, <2>1
        <3> QED BY <1>5, <2>1, <3>1
    <2>2. CASE l # "filter"
        <3>1. chain[l] = <<>>
            BY <1>4, <2>2
        <3>2. DOMAIN chain[l] = {}
            BY <3>1
        <3> QED BY <3>2
    <2> QED BY <2>1, <2>2
<1>8. ChainsOK
    <2>1. chain = [l \in Location |-> IF l = "filter" THEN <<ForeignRule>> ELSE <<>>]
        BY DEF GatewayInit
    <2>2. chain \in [Location -> Seq(RuleType)]
        BY <1>6, <2>1
    <2> QED BY <1>3, <1>7, <2>2 DEF ChainsOK
<1>9. ASSUME NEW t \in Tunnel
      PROVE  OwnedRules(t) = {}
    <2>1. t # Nobody
        BY GatewayAssumption
    <2>2. \A r : r \notin OwnedRules(t)
        BY <1>3, <1>7, <2>1, OwnedMeaning
    <2> QED BY <2>2
<1>10. OnePolicy
    BY <1>9, GatewayAssumption DEF OnePolicy
<1>11. \A p \in Process : lock # p
    BY GatewayAssumption DEF GatewayInit
<1> QED BY <1>1, <1>2, <1>8, <1>9, <1>10, <1>11 DEF RulesInv

\* The invariant of the rules holds of every run of the gateway commands.
LEMMA RulesSafe == GatewaySpec => []RulesInv
<1>1. GatewayInit => RulesInv
    BY RulesInit
<1>2. RulesInv /\ [GatewayNext]_vars => RulesInv'
    BY RulesStep
<1> QED BY <1>1, <1>2, PTL DEF GatewaySpec

\* For any number of commands, kills, failures and edits of other services, the
\* rules of a tunnel are those of one policy and each is there at most once: an
\* apply over the remains of another never stacks rules.
THEOREM RulesNeverStack == GatewaySpec => []OneOfEach
<1>1. RulesInv => OneOfEach
    <2> SUFFICES ASSUME RulesInv, NEW t \in Tunnel
                 PROVE  /\ count_owned_rules(t) = Cardinality(OwnedRules(t))
                        /\ \E q \in Policy :
                              OwnedRules(t) \subseteq {from_config(t, q)[i] : i \in 1 .. 5}
        BY DEF OneOfEach
    <2>1. count_owned_rules(t) = Cardinality(OwnedRules(t))
        BY CountIsOwned DEF RulesInv
    <2>2. \E q \in Policy : OwnedRules(t) \subseteq {from_config(t, q)[i] : i \in 1 .. 5}
        BY DEF RulesInv, OnePolicy, PlanSet
    <2> QED BY <2>1, <2>2
<1> QED BY <1>1, RulesSafe, PTL

\* An apply that reached its end left a healthy gateway.
LEMMA AppliedHealthy ==
    ASSUME RulesInv
    PROVE  AppliedIsHealthy
<1> SUFFICES ASSUME NEW p \in Process, pc[p] = "applied"
             PROVE  healthy(job[p].tunnel, job[p].policy)
    BY DEF AppliedIsHealthy
<1>1. lock = p /\ job[p] \in JobType /\ ChainsOK
    BY DEF RulesInv, Mutex, Typed
<1> PICK t : t = job[p].tunnel
    OBVIOUS
<1> PICK q : q = job[p].policy
    OBVIOUS
<1>2. /\ t \in Tunnel /\ q \in Policy \cup {"any"}
      /\ ApplyRules("applied", job[p], ip_forward, marker, OwnedRules(t))
    BY <1>1, HolderFacts DEF Removing
<1>3. q \in Policy /\ t \in marker /\ ip_forward = "1" /\ OwnedRules(t) = PlanSet(t, q)
    BY <1>2 DEF ApplyRules
<1>4. all_present(from_config(t, q))
    BY <1>1, <1>2, <1>3, PresentIsOwned
<1>5. count_owned_rules(t) = Len(from_config(t, q))
    <2>1. count_owned_rules(t) = Cardinality(OwnedRules(t))
        BY <1>1, <1>2, CountIsOwned
    <2>2. Cardinality(PlanSet(t, q)) = 5 /\ Len(from_config(t, q)) = 5
        BY <1>2, PlanCardinality, PlanFacts
    <2> QED BY <1>3, <2>1, <2>2
<1> QED BY <1>3, <1>4, <1>5 DEF healthy

\* `apply' on a healthy gateway takes no rule away and adds none, whatever
\* failed, was killed or was edited before.
THEOREM HealthyLeftAlone == GatewaySpec => ApplyIsIdempotent
<1> DEFINE Idle == \A p \in Process, tunnel \in Tunnel :
          (/\ lock = p /\ job[p].op = "apply" /\ job[p].tunnel = tunnel
           /\ healthy(tunnel, job[p].policy))
              => OwnedRules(tunnel)' = OwnedRules(tunnel)
<1>1. ASSUME RulesInv, GatewayNext
      PROVE  Idle
    <2> SUFFICES ASSUME NEW p \in Process, NEW t \in Tunnel,
                        lock = p, job[p].op = "apply", job[p].tunnel = t,
                        healthy(t, job[p].policy)
                 PROVE  OwnedRules(t)' = OwnedRules(t)
        OBVIOUS
    <2>0. Typed /\ Mutex /\ ChainsOK /\ job[p] \in JobType
        BY <1>1 DEF RulesInv, Typed, Mutex
    <2> PICK q : q = job[p].policy
        OBVIOUS
    <2>1. /\ q \in Policy \cup {"any"} /\ job[p].rule \in 1 .. 6
          /\ ApplyRules(pc[p], job[p], ip_forward, marker, OwnedRules(t))
        BY <1>1, <2>0, HolderFacts DEF JobType
    <2>2. ip_forward = "1" /\ PlanSet(t, q) \subseteq OwnedRules(t)
        BY <2>0, <2>1, PresentIsOwned DEF healthy
    <2>3. UNCHANGED chain => OwnedRules(t)' = OwnedRules(t)
        BY SameChains
    <2>4. ASSUME NEW r \in Process, HolderStep(r)
          PROVE  OwnedRules(t)' = OwnedRules(t)
        <3>1. r = p
            <4>1. pc[r] \notin {"idle", "lock"}
                BY <2>4 DEF HolderStep, create_original, write_original, record_gateway,
                   RecordFails, compare, list, delete, add_if_missing, enable_forwarding,
                   CommandFails, undo_rules, undo_marker, undo_forwarding, remove_original,
                   remove_marker, restore_forwarding, FileFails
            <4> QED BY <2>0, <4>1 DEF Mutex
        <3>2. ~delete(p) /\ ~undo_rules(p)
            BY <2>1, <2>2 DEF delete, undo_rules, ApplyRules
        <3>3. CASE add_if_missing(p)
            <4>1. PICK s : s = Plan(p)[job[p].rule]
                OBVIOUS
            <4>2. job[p].rule \in 1 .. 5
                <5>1. job[p].rule <= Len(Plan(p)) /\ Len(Plan(p)) = 5
                    BY <2>1, <3>3, PlanFacts DEF add_if_missing, Plan
                <5> QED BY <2>1, <5>1
            <4>3. s \in PlanSet(t, q)
                BY <4>1, <4>2 DEF Plan, PlanSet
            <4>4. s \in OwnedRules(t)
                BY <2>2, <4>3
            <4>5. s \in OwnedRules(job[p].tunnel) => chain' = chain
                BY <2>0, <3>3, <4>1, AddMoves
            <4> QED BY <2>3, <4>4, <4>5
        <3>4. CASE ~add_if_missing(p)
            <4>1. UNCHANGED chain
                BY <2>4, <3>1, <3>2, <3>4 DEF HolderStep, create_original, write_original,
                   record_gateway, RecordFails, compare, list, enable_forwarding,
                   CommandFails, undo_marker, undo_forwarding, remove_original,
                   remove_marker, restore_forwarding, FileFails
            <4> QED BY <2>3, <4>1
        <3> QED BY <3>3, <3>4
    <2>5. ASSUME NEW r \in Process, TakeLock(r)
          PROVE  OwnedRules(t)' = OwnedRules(t)
        BY <2>3, <2>5 DEF TakeLock
    <2>6. ASSUME NEW r \in Process,
                 \/ \E op \in {"apply", "remove"}, u \in Tunnel, h \in Policy \cup {"any"} :
                       Start(r, op, u, h) /\ (op = "apply" => h \in Policy)
                 \/ Unlock(r) \/ Kill(r)
          PROVE  OwnedRules(t)' = OwnedRules(t)
        BY <2>0, <2>3, <2>6, OutsideMoves
    <2>7. CASE Environment
        BY <2>0, <2>7, EnvironmentMoves
    <2> QED BY <1>1, <2>4, <2>5, <2>6, <2>7, StepKinds
<1>2. RulesInv /\ [GatewayNext]_vars => [Idle]_vars
    BY <1>1
<1> QED BY <1>2, RulesSafe, PTL DEF GatewaySpec, ApplyIsIdempotent

----------------------------------------------------------------------------
(***************************************************************************)
(* The rollback and the markers, when at most one command fails.           *)
(***************************************************************************)

\* It is enough to look at the holder of the lock.
LEMMA RollbackOfHolder ==
    ASSUME NEW p \in Process, NEW j, NEW step, Moved(p, j, step), RulesInv', Marked',
           NEW o, o = OwnedRules(j.tunnel)',
           j.op = "apply" => ApplyUndoes(step, j, o, ~(faults' < MaxFaults)),
           step = "remove_marker" => o = {},
           step = "delete" => j.victim[1] \in Location /\ j.victim[2] \in DOMAIN chain'[j.victim[1]]
    PROVE  RollbackInv'
<1>1. pc'[p] = step /\ job'[p] = j /\ lock' = p
    BY DEF Moved
<1>2. OwnedRules(job[p].tunnel)' = o
    BY <1>1
<1>3. HolderUndoes(p)'
    BY <1>1, <1>2 DEF HolderUndoes
<1>4. \A q \in Process : lock' = q => HolderUndoes(q)'
    BY <1>1, <1>3
<1> QED BY <1>4 DEF RollbackInv

\* What the invariant says of the holder.
LEMMA RollbackFacts ==
    ASSUME RollbackInv, NEW p \in Process, lock = p
    PROVE  /\ job[p].op = "apply" =>
                 ApplyUndoes(pc[p], job[p], OwnedRules(job[p].tunnel), ~(faults < MaxFaults))
           /\ pc[p] = "remove_marker" => OwnedRules(job[p].tunnel) = {}
           /\ pc[p] = "delete" =>
                 /\ job[p].victim[1] \in Location
                 /\ job[p].victim[2] \in DOMAIN chain[job[p].victim[1]]
BY DEF RollbackInv, HolderUndoes

\* Steps that change no rule and end at no delete.
LEMMA QuietKeepsRollback ==
    ASSUME RollbackInv, RulesInv', NEW p \in Process,
           \/ create_original(p) \/ write_original(p) \/ record_gateway(p) \/ RecordFails(p)
           \/ undo_marker(p) \/ undo_forwarding(p) \/ remove_original(p) \/ compare(p)
           \/ remove_marker(p) \/ restore_forwarding(p) \/ enable_forwarding(p)
           \/ FileFails(p)
    PROVE  RollbackInv'
<1>0. RulesInv /\ Typed /\ Mutex /\ ChainsOK /\ Marked
    BY DEF RollbackInv, RulesInv
<1>1. UNCHANGED chain
    BY DEF create_original, write_original, record_gateway, RecordFails, undo_marker, compare,
           undo_forwarding, remove_original, remove_marker, restore_forwarding, enable_forwarding,
           FileFails
<1>2. \A t : OwnedRules(t)' = OwnedRules(t)
    BY <1>0, <1>1, SameChains
<1>3. PICK t : t = job[p].tunnel
    OBVIOUS
<1>4. PICK o : o = OwnedRules(t)
    OBVIOUS
<1> DEFINE Keeps(j, step) ==
       /\ j.tunnel = t /\ step \notin {"delete", "remove_marker"}
       /\ j.op = "apply" => ApplyUndoes(step, j, o, ~(faults' < MaxFaults))
       /\ marker' = marker \/ marker' = marker \cup {t} \/ (marker' = marker \ {t} /\ o = {})
<1>5. ASSUME NEW j, NEW step, Moved(p, j, step), Keeps(j, step)
      PROVE  RollbackInv'
    <2>1. OwnedRules(j.tunnel)' = o
        BY <1>2, <1>3, <1>4, <1>5
    <2>2. Marked'
        <3>1. \A u \in Tunnel : OwnedRules(u) # {} => u \in marker'
            BY <1>0, <1>4, <1>5 DEF Marked
        <3> QED BY <1>2, <3>1 DEF Marked
    <2> QED BY <1>5, <2>1, <2>2, RollbackOfHolder
<1> HIDE DEF Keeps
<1>6. CASE create_original(p)
    <2> PICK j : j = [job[p] EXCEPT !.forwarding_before = ip_forward]
        OBVIOUS
    <2> PICK step : step = IF original = Absent THEN "write_original" ELSE "record_gateway"
        OBVIOUS
    <2>1. Moved(p, j, step)
        BY <1>0, <1>6, PlainMoves
    <2>2. job[p] \in JobType /\ lock = p
        BY <2>1 DEF Moved
    <2>3. /\ t \in Tunnel /\ job[p].op \in {"apply", "remove"}
          /\ job[p].op = "apply" => ApplyUndoes(pc[p], job[p], o, ~(faults < MaxFaults))
          /\ pc[p] = "remove_marker" => o = {}
          /\ job[p].op = "remove" => pc[p] \in Removing
          /\ job[p].op = "apply" => pc[p] \in Preparing \cup Changing \cup Leaving \cup {"applied"}
          /\ t \notin marker => o = {}
        BY <1>0, <1>3, <1>4, <2>2, RollbackFacts, HolderFacts DEF Marked, ApplyRules
    <2>4. Keeps(j, step)
        BY <1>6, <1>3, <2>2, <2>3
           DEF Keeps, ApplyUndoes, Preparing, Changing, Leaving, Removing, create_original, files, history, JobType
    <2> QED BY <2>1, <2>4, <1>5
<1>7. CASE write_original(p)
    <2> PICK j : j = [job[p] EXCEPT !.original_created = TRUE]
        OBVIOUS
    <2> PICK step : step = "record_gateway"
        OBVIOUS
    <2>1. Moved(p, j, step)
        BY <1>0, <1>7, PlainMoves
    <2>2. job[p] \in JobType /\ lock = p
        BY <2>1 DEF Moved
    <2>3. /\ t \in Tunnel /\ job[p].op \in {"apply", "remove"}
          /\ job[p].op = "apply" => ApplyUndoes(pc[p], job[p], o, ~(faults < MaxFaults))
          /\ pc[p] = "remove_marker" => o = {}
          /\ job[p].op = "remove" => pc[p] \in Removing
          /\ job[p].op = "apply" => pc[p] \in Preparing \cup Changing \cup Leaving \cup {"applied"}
          /\ t \notin marker => o = {}
        BY <1>0, <1>3, <1>4, <2>2, RollbackFacts, HolderFacts DEF Marked, ApplyRules
    <2>4. Keeps(j, step)
        BY <1>7, <1>3, <2>2, <2>3
           DEF Keeps, ApplyUndoes, Preparing, Changing, Leaving, Removing, write_original, files, history, JobType
    <2> QED BY <2>1, <2>4, <1>5
<1>8. CASE record_gateway(p)
    <2> PICK j : j = [job[p] EXCEPT !.marker_created = (job[p].tunnel \notin marker)]
        OBVIOUS
    <2> PICK step : step = "compare"
        OBVIOUS
    <2>1. Moved(p, j, step)
        BY <1>0, <1>8, PlainMoves
    <2>2. job[p] \in JobType /\ lock = p
        BY <2>1 DEF Moved
    <2>3. /\ t \in Tunnel /\ job[p].op \in {"apply", "remove"}
          /\ job[p].op = "apply" => ApplyUndoes(pc[p], job[p], o, ~(faults < MaxFaults))
          /\ pc[p] = "remove_marker" => o = {}
          /\ job[p].op = "remove" => pc[p] \in Removing
          /\ job[p].op = "apply" => pc[p] \in Preparing \cup Changing \cup Leaving \cup {"applied"}
          /\ t \notin marker => o = {}
        BY <1>0, <1>3, <1>4, <2>2, RollbackFacts, HolderFacts DEF Marked, ApplyRules
    <2>4. Keeps(j, step)
        BY <1>8, <1>3, <2>2, <2>3
           DEF Keeps, ApplyUndoes, Preparing, Changing, Leaving, Removing, record_gateway, files, history, JobType
    <2> QED BY <2>1, <2>4, <1>5
<1>9. CASE RecordFails(p)
    <2> PICK j : j = job[p]
        OBVIOUS
    <2> PICK step : step = "unlock"
        OBVIOUS
    <2>1. Moved(p, j, step)
        BY <1>0, <1>9, PlainMoves
    <2>2. job[p] \in JobType /\ lock = p
        BY <2>1 DEF Moved
    <2>3. /\ t \in Tunnel /\ job[p].op \in {"apply", "remove"}
          /\ job[p].op = "apply" => ApplyUndoes(pc[p], job[p], o, ~(faults < MaxFaults))
          /\ pc[p] = "remove_marker" => o = {}
          /\ job[p].op = "remove" => pc[p] \in Removing
          /\ job[p].op = "apply" => pc[p] \in Preparing \cup Changing \cup Leaving \cup {"applied"}
          /\ t \notin marker => o = {}
        BY <1>0, <1>3, <1>4, <2>2, RollbackFacts, HolderFacts DEF Marked, ApplyRules
    <2>4. Keeps(j, step)
        BY <1>9, <1>3, <2>2, <2>3
           DEF Keeps, ApplyUndoes, Preparing, Changing, Leaving, Removing, RecordFails, files, history, JobType
    <2> QED BY <2>1, <2>4, <1>5
<1>10. CASE undo_forwarding(p)
    <2> PICK j : j = job[p]
        OBVIOUS
    <2> PICK step : step = "remove_original"
        OBVIOUS
    <2>1. Moved(p, j, step)
        BY <1>0, <1>10, PlainMoves
    <2>2. job[p] \in JobType /\ lock = p
        BY <2>1 DEF Moved
    <2>3. /\ t \in Tunnel /\ job[p].op \in {"apply", "remove"}
          /\ job[p].op = "apply" => ApplyUndoes(pc[p], job[p], o, ~(faults < MaxFaults))
          /\ pc[p] = "remove_marker" => o = {}
          /\ job[p].op = "remove" => pc[p] \in Removing
          /\ job[p].op = "apply" => pc[p] \in Preparing \cup Changing \cup Leaving \cup {"applied"}
          /\ t \notin marker => o = {}
        BY <1>0, <1>3, <1>4, <2>2, RollbackFacts, HolderFacts DEF Marked, ApplyRules
    <2>4. Keeps(j, step)
        BY <1>10, <1>3, <2>2, <2>3
           DEF Keeps, ApplyUndoes, Preparing, Changing, Leaving, Removing, undo_forwarding, files, history, JobType
    <2> QED BY <2>1, <2>4, <1>5
<1>11. CASE remove_original(p)
    <2> PICK j : j = job[p]
        OBVIOUS
    <2> PICK step : step = IF job[p].op = "apply" THEN "unlock" ELSE "removed"
        OBVIOUS
    <2>1. Moved(p, j, step)
        BY <1>0, <1>11, PlainMoves
    <2>2. job[p] \in JobType /\ lock = p
        BY <2>1 DEF Moved
    <2>3. /\ t \in Tunnel /\ job[p].op \in {"apply", "remove"}
          /\ job[p].op = "apply" => ApplyUndoes(pc[p], job[p], o, ~(faults < MaxFaults))
          /\ pc[p] = "remove_marker" => o = {}
          /\ job[p].op = "remove" => pc[p] \in Removing
          /\ job[p].op = "apply" => pc[p] \in Preparing \cup Changing \cup Leaving \cup {"applied"}
          /\ t \notin marker => o = {}
        BY <1>0, <1>3, <1>4, <2>2, RollbackFacts, HolderFacts DEF Marked, ApplyRules
    <2>4. Keeps(j, step)
        BY <1>11, <1>3, <2>2, <2>3
           DEF Keeps, ApplyUndoes, Preparing, Changing, Leaving, Removing, remove_original, files, history, JobType
    <2> QED BY <2>1, <2>4, <1>5
<1>12. CASE restore_forwarding(p)
    <2> PICK j : j = job[p]
        OBVIOUS
    <2> PICK step : step = "remove_original"
        OBVIOUS
    <2>1. Moved(p, j, step)
        BY <1>0, <1>12, PlainMoves
    <2>2. job[p] \in JobType /\ lock = p
        BY <2>1 DEF Moved
    <2>3. /\ t \in Tunnel /\ job[p].op \in {"apply", "remove"}
          /\ job[p].op = "apply" => ApplyUndoes(pc[p], job[p], o, ~(faults < MaxFaults))
          /\ pc[p] = "remove_marker" => o = {}
          /\ job[p].op = "remove" => pc[p] \in Removing
          /\ job[p].op = "apply" => pc[p] \in Preparing \cup Changing \cup Leaving \cup {"applied"}
          /\ t \notin marker => o = {}
        BY <1>0, <1>3, <1>4, <2>2, RollbackFacts, HolderFacts DEF Marked, ApplyRules
    <2>4. Keeps(j, step)
        BY <1>12, <1>3, <2>2, <2>3
           DEF Keeps, ApplyUndoes, Preparing, Changing, Leaving, Removing, restore_forwarding, files, history, JobType
    <2> QED BY <2>1, <2>4, <1>5
<1>13. CASE enable_forwarding(p)
    <2> PICK j : j = job[p]
        OBVIOUS
    <2> PICK step : step = "applied"
        OBVIOUS
    <2>1. Moved(p, j, step)
        BY <1>0, <1>13, PlainMoves
    <2>2. job[p] \in JobType /\ lock = p
        BY <2>1 DEF Moved
    <2>3. /\ t \in Tunnel /\ job[p].op \in {"apply", "remove"}
          /\ job[p].op = "apply" => ApplyUndoes(pc[p], job[p], o, ~(faults < MaxFaults))
          /\ pc[p] = "remove_marker" => o = {}
          /\ job[p].op = "remove" => pc[p] \in Removing
          /\ job[p].op = "apply" => pc[p] \in Preparing \cup Changing \cup Leaving \cup {"applied"}
          /\ t \notin marker => o = {}
        BY <1>0, <1>3, <1>4, <2>2, RollbackFacts, HolderFacts DEF Marked, ApplyRules
    <2>4. Keeps(j, step)
        BY <1>13, <1>3, <2>2, <2>3
           DEF Keeps, ApplyUndoes, Preparing, Changing, Leaving, Removing, enable_forwarding, files, history, JobType
    <2> QED BY <2>1, <2>4, <1>5
<1>14. CASE compare(p)
    <2> PICK j : j = job[p]
        OBVIOUS
    <2>0. PICK step : step = IF /\ all_present(Plan(p))
                                /\ count_owned_rules(job[p].tunnel) = Len(Plan(p))
                             THEN "add" ELSE "list"
        OBVIOUS
    <2>1. Moved(p, j, step)
        BY <1>0, <1>14, <2>0, BranchMoves
    <2>2. job[p] \in JobType /\ lock = p
        BY <2>1 DEF Moved
    <2>3. /\ t \in Tunnel /\ job[p].op \in {"apply", "remove"}
          /\ job[p].op = "apply" => ApplyUndoes(pc[p], job[p], o, ~(faults < MaxFaults))
          /\ pc[p] = "remove_marker" => o = {}
          /\ job[p].op = "remove" => pc[p] \in Removing
          /\ job[p].op = "apply" => pc[p] \in Preparing \cup Changing \cup Leaving \cup {"applied"}
          /\ t \notin marker => o = {}
        BY <1>0, <1>3, <1>4, <2>2, RollbackFacts, HolderFacts DEF Marked, ApplyRules
    <2>4. Keeps(j, step)
        <3>1. step = "add" \/ step = "list"
            BY <2>0
        <3>2. pc[p] = "compare" /\ marker' = marker /\ faults' = faults
            BY <1>14 DEF compare, files, history
        <3> QED BY <1>3, <2>3, <3>1, <3>2
            DEF Keeps, ApplyUndoes, Preparing, Changing, Leaving
    <2> QED BY <2>1, <2>4, <1>5
<1>15. CASE undo_marker(p)
    <2> PICK j : j = job[p]
        OBVIOUS
    <2> PICK step : step = IF job[p].original_created /\ marker' = {}
                       THEN "undo_forwarding" ELSE "unlock"
        OBVIOUS
    <2>1. Moved(p, j, step)
        BY <1>0, <1>15, BranchMoves
    <2>2. job[p] \in JobType /\ lock = p
        BY <2>1 DEF Moved
    <2>3. /\ t \in Tunnel /\ job[p].op \in {"apply", "remove"}
          /\ job[p].op = "apply" => ApplyUndoes(pc[p], job[p], o, ~(faults < MaxFaults))
          /\ pc[p] = "remove_marker" => o = {}
          /\ job[p].op = "remove" => pc[p] \in Removing
          /\ job[p].op = "apply" => pc[p] \in Preparing \cup Changing \cup Leaving \cup {"applied"}
          /\ t \notin marker => o = {}
        BY <1>0, <1>3, <1>4, <2>2, RollbackFacts, HolderFacts DEF Marked, ApplyRules
    <2>4. Keeps(j, step)
        <3>1. step = "undo_forwarding" \/ step = "unlock"
            OBVIOUS
        <3>2. /\ pc[p] = "undo_rules" /\ job[p].added = <<>>
              /\ marker' = IF job[p].marker_created THEN marker \ {t} ELSE marker
            BY <1>3, <1>15 DEF undo_marker
        <3>3. job[p].op = "apply"
            BY <2>3, <3>2 DEF Removing
        <3>4. /\ job[p].marker_created => job[p].rules_before = {}
              /\ job[p].rules_before = {} =>
                    o \subseteq {job[p].added[k] : k \in DOMAIN job[p].added}
            BY <2>3, <3>2, <3>3 DEF ApplyUndoes, Changing
        <3>5. DOMAIN job[p].added = {}
            BY <3>2
        <3>6. job[p].rules_before = {} => o = {}
            BY <3>4, <3>5
        <3> QED BY <1>3, <3>1, <3>2, <3>4, <3>6
            DEF Keeps, ApplyUndoes, Preparing, Changing, Leaving
    <2> QED BY <2>1, <2>4, <1>5
<1>16. CASE remove_marker(p)
    <2> PICK j : j = job[p]
        OBVIOUS
    <2> PICK step : step = IF original # Absent /\ marker' = {}
                       THEN "restore_forwarding" ELSE "removed"
        OBVIOUS
    <2>1. Moved(p, j, step)
        BY <1>0, <1>16, BranchMoves
    <2>2. job[p] \in JobType /\ lock = p
        BY <2>1 DEF Moved
    <2>3. /\ t \in Tunnel /\ job[p].op \in {"apply", "remove"}
          /\ job[p].op = "apply" => ApplyUndoes(pc[p], job[p], o, ~(faults < MaxFaults))
          /\ pc[p] = "remove_marker" => o = {}
          /\ job[p].op = "remove" => pc[p] \in Removing
          /\ job[p].op = "apply" => pc[p] \in Preparing \cup Changing \cup Leaving \cup {"applied"}
          /\ t \notin marker => o = {}
        BY <1>0, <1>3, <1>4, <2>2, RollbackFacts, HolderFacts DEF Marked, ApplyRules
    <2>4. Keeps(j, step)
        BY <1>16, <1>3, <2>2, <2>3
           DEF Keeps, ApplyUndoes, Preparing, Changing, Leaving, Removing, remove_marker, files, history, JobType
    <2> QED BY <2>1, <2>4, <1>5
<1>17. CASE FileFails(p)
    <2> PICK step : step = "unlock"
        OBVIOUS
    <2>1. Moved(p, job[p], step)
        BY <1>0, <1>17, PlainMoves
    <2>2. job[p] \in JobType /\ lock = p
        BY <2>1 DEF Moved
    <2>3. /\ t \in Tunnel /\ job[p].op \in {"apply", "remove"}
          /\ job[p].op = "apply" => ApplyUndoes(pc[p], job[p], o, ~(faults < MaxFaults))
          /\ pc[p] = "remove_marker" => o = {}
          /\ job[p].op = "remove" => pc[p] \in Removing
          /\ job[p].op = "apply" => pc[p] \in Preparing \cup Changing \cup Leaving \cup {"applied"}
        BY <1>0, <1>3, <1>4, <2>2, RollbackFacts, HolderFacts DEF ApplyRules
    <2>4. faults < MaxFaults /\ (marker' = marker \/ marker' = marker \ {t})
        BY <1>3, <1>17 DEF FileFails
    <2>5. pc[p] # "undo_rules"
        BY <2>3, <2>4 DEF ApplyUndoes, Removing
    <2>6. /\ pc[p] \in {"remove_marker", "remove_original"}
          /\ marker' = marker \/ pc[p] = "remove_marker"
        BY <1>17, <2>5 DEF FileFails
    <2>7. Keeps(job[p], step)
        BY <1>3, <2>3, <2>4, <2>6 DEF Keeps, ApplyUndoes, Preparing, Changing, Leaving
    <2> QED BY <2>1, <2>7, <1>5
<1> QED BY <1>6, <1>7, <1>8, <1>9, <1>10, <1>11, <1>12, <1>13, <1>14, <1>15, <1>16, <1>17

\* delete_owned_rules lists, deletes and starts over.
LEMMA ListKeepsRollback ==
    ASSUME RollbackInv, RulesInv', NEW p \in Process, list(p)
    PROVE  RollbackInv'
<1>0. RulesInv /\ Typed /\ Mutex /\ ChainsOK /\ Marked
    BY DEF RollbackInv, RulesInv
<1>1. \A t : OwnedRules(t)' = OwnedRules(t)
    BY <1>0, SameChains DEF list
<1>2. UNCHANGED <<chain, marker, faults>> /\ pc[p] = "list"
    BY DEF list, files, history
<1>3. Marked'
    BY <1>0, <1>1, <1>2 DEF Marked
<1>4. PICK o : o = OwnedRules(job[p].tunnel)
    OBVIOUS
<1>5. CASE /\ OwnedRules(job[p].tunnel) = {}
           /\ Moved(p, job[p], IF job[p].op = "apply" THEN "add" ELSE "remove_marker")
    <2> PICK step : step = IF job[p].op = "apply" THEN "add" ELSE "remove_marker"
        OBVIOUS
    <2>1. Moved(p, job[p], step) /\ lock = p
        BY <1>5 DEF Moved
    <2>2. job[p].op = "apply" => ApplyUndoes(step, job[p], o, ~(faults' < MaxFaults))
        BY <1>2, <1>4, <2>1, RollbackFacts DEF ApplyUndoes, Preparing, Changing, Leaving
    <2> QED BY <1>1, <1>3, <1>4, <1>5, <2>1, <2>2, RollbackOfHolder
<1>6. ASSUME NEW v \in Location \X Nat, v[2] \in DOMAIN chain[v[1]],
             Moved(p, [job[p] EXCEPT !.victim = v], "delete")
      PROVE  RollbackInv'
    <2>0. PICK j : j = [job[p] EXCEPT !.victim = v]
        OBVIOUS
    <2>1. Moved(p, j, "delete") /\ job[p] \in JobType /\ lock = p
        BY <1>6, <2>0 DEF Moved
    <2>2. /\ j.tunnel = job[p].tunnel /\ j.op = job[p].op /\ j.added = job[p].added
          /\ j.rules_before = job[p].rules_before /\ j.marker_created = job[p].marker_created
          /\ j.victim = v
        BY <2>0, <2>1 DEF JobType
    <2>3. j.op = "apply" => ApplyUndoes("delete", j, o, ~(faults' < MaxFaults))
        <3>1. job[p].op = "apply" => ApplyUndoes("list", job[p], o, ~(faults < MaxFaults))
            BY <1>2, <1>4, <2>1, RollbackFacts
        <3> QED BY <2>2, <3>1 DEF ApplyUndoes, Preparing, Changing, Leaving
    <2>4. o = OwnedRules(j.tunnel)'
        BY <1>1, <1>4, <2>2
    <2>5. j.victim[1] \in Location /\ j.victim[2] \in DOMAIN chain'[j.victim[1]]
        <3>1. v[1] \in Location /\ v[2] \in DOMAIN chain'[v[1]]
            <4>1. chain' = chain
                BY <1>2
            <4>2. v[1] \in Location
                BY <1>6
            <4> QED BY <1>6, <4>1, <4>2, Zenon
        <3>2. j.victim = v
            BY <2>2
        <3> QED BY <3>1, <3>2, Zenon
    <2>6. Moved(p, j, "delete")
        BY <2>1
    <2> QED BY <1>3, <2>3, <2>4, <2>5, <2>6, RollbackOfHolder
<1> QED BY <1>0, <1>5, <1>6, ListMoves

\* Deleting a rule leaves fewer to undo.
LEMMA DeleteKeepsRollback ==
    ASSUME RollbackInv, RulesInv', NEW p \in Process, delete(p)
    PROVE  RollbackInv'
<1>0. RulesInv /\ Typed /\ Mutex /\ ChainsOK /\ Marked
    BY DEF RollbackInv, RulesInv
<1>1. Moved(p, job[p], "list") /\ lock = p
    BY <1>0, PlainMoves DEF Moved
<1>2. PICK l : l = job[p].victim[1]
    OBVIOUS
<1>3. PICK n : n = job[p].victim[2]
    OBVIOUS
<1>4. /\ l \in Location /\ n \in DOMAIN chain[l] /\ chain' = [chain EXCEPT ![l] = RemoveAt(@, n)]
      /\ UNCHANGED <<marker, faults>> /\ pc[p] = "delete"
    BY <1>1, <1>2, <1>3, RollbackFacts DEF delete, files, history
<1>5. \A t : OwnedRules(t)' \subseteq OwnedRules(t)
    BY <1>0, <1>4, RemoveStep
<1>6. Marked'
    <2>1. \A u \in Tunnel : OwnedRules(u)' # {} => u \in marker
        BY <1>0, <1>5 DEF Marked
    <2> QED BY <1>4, <2>1 DEF Marked
<1> PICK t : t = job[p].tunnel
    OBVIOUS
<1>7. PICK r : r = OwnedRules(t)'
    OBVIOUS
<1>8. r \subseteq OwnedRules(t)
    BY <1>5, <1>7
<1>9. job[p].op = "apply" => ApplyUndoes("list", job[p], r, ~(faults' < MaxFaults))
    BY <1>1, <1>4, <1>8, RollbackFacts DEF ApplyUndoes, Preparing, Changing, Leaving
<1> QED BY <1>1, <1>6, <1>7, <1>9, RollbackOfHolder

\* A rule that add_if_missing appends is one the rollback will undo.
LEMMA AddKeepsRollback ==
    ASSUME RollbackInv, RulesInv', NEW p \in Process, add_if_missing(p)
    PROVE  RollbackInv'
<1>0. RulesInv /\ Typed /\ Mutex /\ ChainsOK /\ Marked
    BY DEF RollbackInv, RulesInv
<1>1. PICK t : t = job[p].tunnel
    OBVIOUS
<1>2. PICK o : o = OwnedRules(t)
    OBVIOUS
<1>3. PICK a : a = job[p].added
    OBVIOUS
<1>4. PICK r : r = Plan(p)[job[p].rule]
    OBVIOUS
<1>5. /\ r \in RuleType /\ r.owner = t
      /\ \/ /\ r \in o /\ chain' = chain
            /\ Moved(p, [job[p] EXCEPT !.rule = job[p].rule + 1], "add")
         \/ /\ r \notin o /\ chain' = [chain EXCEPT ![r.location] = Append(@, r)]
            /\ Moved(p, [job[p] EXCEPT !.rule = job[p].rule + 1, !.added = Append(a, r)], "add")
    BY <1>0, <1>1, <1>2, <1>3, <1>4, AddMoves
<1>6. job[p] \in JobType /\ lock = p
    BY <1>5 DEF Moved
<1>7. /\ pc[p] = "add" /\ marker' = marker /\ faults' = faults
    BY DEF add_if_missing, files, history
<1>8. job[p].op = "apply" /\ t \in Tunnel /\ t \in marker /\ a \in Seq(RuleType)
    <2>1. /\ job[p].op \in {"apply", "remove"} /\ t \in Tunnel
          /\ job[p].op = "apply" => ApplyRules("add", job[p], ip_forward, marker, o)
          /\ job[p].op = "remove" => "add" \in Removing
        BY <1>0, <1>1, <1>2, <1>6, <1>7, HolderFacts
    <2>2. job[p].op = "apply" /\ t \in marker
        BY <1>1, <2>1 DEF ApplyRules, Changing, Removing
    <2> QED BY <1>3, <1>6, <2>1, <2>2 DEF JobType
<1>9. /\ job[p].marker_created => job[p].rules_before = {}
      /\ job[p].rules_before = {} => o \subseteq {a[k] : k \in DOMAIN a}
    BY <1>1, <1>2, <1>3, <1>6, <1>7, <1>8, RollbackFacts DEF ApplyUndoes, Changing
<1>10. CASE r \in o
    <2>1. PICK j : j = [job[p] EXCEPT !.rule = job[p].rule + 1]
        OBVIOUS
    <2>2. chain' = chain /\ Moved(p, j, "add")
        BY <1>5, <1>10, <2>1
    <2>3. /\ j.tunnel = t /\ j.op = "apply" /\ j.added = a
          /\ j.rules_before = job[p].rules_before /\ j.marker_created = job[p].marker_created
        BY <1>1, <1>3, <1>6, <1>8, <2>1 DEF JobType
    <2>4. \A u : OwnedRules(u)' = OwnedRules(u)
        BY <1>0, <2>2, SameChains
    <2>5. Marked'
        BY <1>0, <1>7, <2>4 DEF Marked
    <2>6. ApplyUndoes("add", j, o, ~(faults' < MaxFaults))
        BY <1>9, <2>3 DEF ApplyUndoes, Preparing, Changing, Leaving
    <2>7. o = OwnedRules(j.tunnel)'
        BY <1>2, <2>3, <2>4
    <2>8. Moved(p, j, "add")
        BY <2>2
    <2> QED BY <2>5, <2>6, <2>7, <2>8, RollbackOfHolder
<1>11. CASE r \notin o
    <2>0. PICK b : b = Append(a, r)
        OBVIOUS
    <2>1. PICK j : j = [job[p] EXCEPT !.rule = job[p].rule + 1, !.added = b]
        OBVIOUS
    <2>2. chain' = [chain EXCEPT ![r.location] = Append(@, r)] /\ Moved(p, j, "add")
        BY <1>5, <1>11, <2>0, <2>1
    <2>3. /\ j.tunnel = t /\ j.op = "apply" /\ j.added = b
          /\ j.rules_before = job[p].rules_before /\ j.marker_created = job[p].marker_created
        BY <1>1, <1>6, <1>8, <2>1 DEF JobType
    <2>4. /\ OwnedRules(t)' = o \cup {r}
          /\ \A u : u # t => OwnedRules(u)' = OwnedRules(u)
        BY <1>0, <1>2, <1>5, <1>8, <1>11, <2>2, AppendStep
    <2>5. Marked'
        <3>1. \A u \in Tunnel : OwnedRules(u)' # {} => u \in marker
            BY <1>0, <1>8, <2>4 DEF Marked
        <3> QED BY <1>7, <3>1 DEF Marked
    <2>6. {a[k] : k \in DOMAIN a} \cup {r} \subseteq {b[k] : k \in DOMAIN b}
        <3>1. DOMAIN a = 1 .. Len(a) /\ Len(a) \in Nat /\ DOMAIN b = 1 .. (Len(a) + 1)
            BY <1>5, <1>8, <2>0
        <3>2. b[Len(a) + 1] = r /\ \A k \in 1 .. Len(a) : b[k] = a[k]
            BY <1>5, <1>8, <2>0
        <3> QED BY <3>1, <3>2
    <2>7. PICK s : s = o \cup {r}
        OBVIOUS
    <2>8. ApplyUndoes("add", j, s, ~(faults' < MaxFaults))
        <3>1. job[p].rules_before = {} => s \subseteq {b[k] : k \in DOMAIN b}
            BY <1>9, <2>6, <2>7
        <3> QED BY <1>9, <2>3, <3>1 DEF ApplyUndoes, Preparing, Changing, Leaving
    <2>9. s = OwnedRules(j.tunnel)'
        BY <2>3, <2>4, <2>7
    <2>10. Moved(p, j, "add")
        BY <2>2
    <2> QED BY <2>5, <2>8, <2>9, <2>10, RollbackOfHolder
<1> QED BY <1>10, <1>11

\* The command that fails is the only one: the rollback meets no failure.
LEMMA FailKeepsRollback ==
    ASSUME RollbackInv, RulesInv', NEW p \in Process, CommandFails(p), MaxFaults <= 1
    PROVE  RollbackInv'
<1>0. RulesInv /\ Typed /\ Mutex /\ ChainsOK /\ Marked
    BY DEF RollbackInv, RulesInv
<1>1. \A t : OwnedRules(t)' = OwnedRules(t)
    BY <1>0, SameChains DEF CommandFails
<1>2. UNCHANGED <<chain, marker>>
    BY DEF CommandFails, files
<1>3. Marked'
    BY <1>0, <1>1, <1>2 DEF Marked
<1>4. PICK step : step = IF job[p].op = "apply" THEN "undo_rules" ELSE "unlock"
    OBVIOUS
<1>5. Moved(p, job[p], step) /\ job[p] \in JobType /\ lock = p
    BY <1>0, <1>4, PlainMoves DEF Moved
<1>6. PICK o : o = OwnedRules(job[p].tunnel)
    OBVIOUS
<1>7. ~(faults' < MaxFaults)
    <2>1. faults' = faults + 1
        BY <1>5, RollbackFacts DEF CommandFails
    <2>2. faults \in Nat /\ MaxFaults \in Nat
        BY <1>0, GatewayAssumption DEF Typed
    <2> QED BY <2>1, <2>2
<1>8. ASSUME job[p].op = "apply"
      PROVE  ApplyUndoes(step, job[p], o, ~(faults' < MaxFaults))
    <2>1. pc[p] \in {"compare", "list", "delete", "add"}
        BY <1>0, <1>5, <1>8, HolderFacts DEF CommandFails, ApplyRules, Preparing, Changing, Leaving
    <2>2. ApplyUndoes(pc[p], job[p], o, ~(faults < MaxFaults))
        BY <1>5, <1>6, <1>8, RollbackFacts
    <2>3. step = "undo_rules"
        BY <1>4, <1>8
    <2> QED BY <1>7, <2>1, <2>2, <2>3 DEF ApplyUndoes, Preparing, Changing, Leaving
<1>9. step \notin {"remove_marker", "delete"}
    BY <1>4
<1>10. Moved(p, job[p], step)
    BY <1>5
<1> QED BY <1>1, <1>3, <1>6, <1>8, <1>9, <1>10, RollbackOfHolder

\* Each step of the rollback deletes the last rule of its list.
LEMMA UndoKeepsRollback ==
    ASSUME RollbackInv, RulesInv', NEW p \in Process, undo_rules(p)
    PROVE  RollbackInv'
<1>0. RulesInv /\ Typed /\ Mutex /\ ChainsOK /\ Marked
    BY DEF RollbackInv, RulesInv
<1>1. PICK a : a = job[p].added
    OBVIOUS
<1>2. PICK b : b = SubSeq(a, 1, Len(a) - 1)
    OBVIOUS
<1>3. PICK j : j = [job[p] EXCEPT !.added = b]
    OBVIOUS
<1>4. Moved(p, j, "undo_rules") /\ job[p] \in JobType /\ lock = p
    BY <1>0, <1>1, <1>2, <1>3, UndoMoves DEF Moved
<1>5. PICK t : t = job[p].tunnel
    OBVIOUS
<1>6. /\ j.tunnel = t /\ j.op = job[p].op /\ j.added = b /\ t \in Tunnel
      /\ j.rules_before = job[p].rules_before /\ j.marker_created = job[p].marker_created
      /\ a \in Seq(RuleType)
    BY <1>1, <1>3, <1>4, <1>5 DEF JobType
<1>7. pc[p] = "undo_rules" /\ marker' = marker /\ a # <<>>
    BY <1>1 DEF undo_rules, files
<1>8. job[p].op = "apply"
    BY <1>0, <1>4, <1>7, HolderFacts DEF Removing
<1>9. /\ ~(faults < MaxFaults)
      /\ job[p].marker_created => job[p].rules_before = {}
      /\ job[p].rules_before = {} => OwnedRules(t) \subseteq {a[k] : k \in DOMAIN a}
    BY <1>1, <1>4, <1>5, <1>7, <1>8, RollbackFacts DEF ApplyUndoes, Changing
<1>10. /\ \A u : OwnedRules(u)' \subseteq OwnedRules(u)
       /\ a[Len(a)] \notin OwnedRules(t)'
    BY <1>0, <1>1, <1>4, <1>6, <1>9, UndoChains
<1>11. Marked'
    <2>1. \A u \in Tunnel : OwnedRules(u)' # {} => u \in marker
        BY <1>0, <1>10 DEF Marked
    <2> QED BY <1>7, <2>1 DEF Marked
<1>12. PICK r : r = OwnedRules(t)'
    OBVIOUS
<1>13. ASSUME job[p].rules_before = {}
       PROVE  r \subseteq {b[k] : k \in DOMAIN b}
    <2>1. r \subseteq {a[k] : k \in DOMAIN a} /\ a[Len(a)] \notin r
        BY <1>9, <1>10, <1>12, <1>13
    <2>2. DOMAIN a = 1 .. Len(a) /\ Len(a) \in Nat /\ Len(a) > 0
        BY <1>6, <1>7
    <2>3. DOMAIN b = 1 .. (Len(a) - 1) /\ \A k \in 1 .. (Len(a) - 1) : b[k] = a[k]
        BY <1>2, <1>6, <2>2
    <2>4. \A x \in r : \E k \in 1 .. (Len(a) - 1) : x = a[k]
        BY <2>1, <2>2
    <2> QED BY <2>3, <2>4
<1>14. ~(faults' < MaxFaults)
    <2>1. faults' = faults
        BY <1>9 DEF undo_rules
    <2> QED BY <1>9, <2>1
<1>15. ApplyUndoes("undo_rules", j, r, ~(faults' < MaxFaults))
    BY <1>6, <1>9, <1>13, <1>14 DEF ApplyUndoes, Preparing, Changing, Leaving
<1>16. r = OwnedRules(j.tunnel)'
    BY <1>6, <1>12
<1>17. Moved(p, j, "undo_rules")
    BY <1>4
<1> QED BY <1>11, <1>15, <1>16, <1>17, RollbackOfHolder

\* A holder that does not move still can undo what it could.
LEMMA BystandersKeepRollback ==
    ASSUME RollbackInv, RulesInv', UNCHANGED <<marker, faults>>,
           \A t \in Tunnel : OwnedRules(t)' = OwnedRules(t),
           \A l \in Location : DOMAIN chain[l] \subseteq DOMAIN chain'[l],
           \A q \in Process : lock' = q => lock = q /\ pc'[q] = pc[q] /\ job'[q] = job[q]
    PROVE  RollbackInv'
<1>1. Marked'
    BY DEF RollbackInv, Marked
<1>2. ASSUME NEW q \in Process, lock' = q
      PROVE  HolderUndoes(q)'
    <2>1. lock = q /\ pc'[q] = pc[q] /\ job'[q] = job[q]
        BY <1>2
    <2>2. job[q] \in JobType
        BY <2>1 DEF RollbackInv, RulesInv, Typed, Mutex
    <2>3. PICK t : t = job[q].tunnel
        OBVIOUS
    <2>4. t \in Tunnel
        BY <2>2, <2>3 DEF JobType
    <2>5. OwnedRules(job[q].tunnel)' = OwnedRules(t)
        BY <2>1, <2>3, <2>4
    <2>6. HolderUndoes(q)
        BY <2>1 DEF RollbackInv
    <2>7. pc[q] = "delete" =>
              /\ job[q].victim[1] \in Location
              /\ job[q].victim[2] \in DOMAIN chain'[job[q].victim[1]]
        BY <2>6 DEF HolderUndoes
    <2> QED BY <2>1, <2>3, <2>5, <2>6, <2>7 DEF HolderUndoes
<1> QED BY <1>1, <1>2 DEF RollbackInv

\* A process that takes the lock sees the rules it would have to leave.
LEMMA LockKeepsRollback ==
    ASSUME RollbackInv, RulesInv', NEW p \in Process, TakeLock(p)
    PROVE  RollbackInv'
<1>0. RulesInv /\ Typed /\ Mutex /\ ChainsOK /\ Marked
    BY DEF RollbackInv, RulesInv
<1>1. PICK t : t = job[p].tunnel
    OBVIOUS
<1>2. PICK o : o = OwnedRules(t)
    OBVIOUS
<1>3. PICK j : j = [job[p] EXCEPT !.rules_before = o]
    OBVIOUS
<1>4. /\ lock' = p /\ job[p] \in JobType /\ job'[p] = j
      /\ pc'[p] = IF job[p].op = "apply" THEN "create_original" ELSE "list"
      /\ UNCHANGED <<chain, ip_forward, host_forward, original, marker, faults>>
    BY <1>0, <1>1, <1>2, <1>3, LockMoves
<1>5. \A u : OwnedRules(u)' = OwnedRules(u)
    BY <1>4, SameChains
<1>6. Marked'
    BY <1>0, <1>4, <1>5 DEF Marked
<1>7. j.op = job[p].op /\ j.rules_before = o /\ j.tunnel = t
    BY <1>1, <1>3, <1>4 DEF JobType
<1>8. OwnedRules(job[p].tunnel)' = o
    BY <1>2, <1>4, <1>5, <1>7
<1>9. HolderUndoes(p)'
    BY <1>4, <1>7, <1>8 DEF HolderUndoes, ApplyUndoes, Preparing, Changing, Leaving
<1>10. \A q \in Process : lock' = q => HolderUndoes(q)'
    BY <1>4, <1>9
<1> QED BY <1>6, <1>10 DEF RollbackInv

\* The invariant of the rollback is inductive while at most one command fails.
LEMMA RollbackStep ==
    ASSUME RollbackInv, [GatewayNext]_vars, MaxFaults <= 1
    PROVE  RollbackInv'
<1>0. RulesInv /\ RulesInv' /\ Typed /\ Mutex /\ ChainsOK
    BY RulesStep DEF RollbackInv, RulesInv
<1>1. ASSUME NEW p \in Process, HolderStep(p)
      PROVE  RollbackInv'
    BY <1>0, <1>1, QuietKeepsRollback, ListKeepsRollback, DeleteKeepsRollback,
       AddKeepsRollback, FailKeepsRollback, UndoKeepsRollback DEF HolderStep
<1>2. ASSUME NEW p \in Process,
             \/ \E op \in {"apply", "remove"}, t \in Tunnel, q \in Policy \cup {"any"} :
                   Start(p, op, t, q) /\ (op = "apply" => q \in Policy)
             \/ Unlock(p) \/ Kill(p)
      PROVE  RollbackInv'
    <2>1. /\ UNCHANGED <<chain, ip_forward, host_forward, original, marker, faults>>
          /\ \A q \in Process : lock' = q =>
                lock = q /\ pc'[q] = pc[q] /\ job'[q] = job[q]
        BY <1>0, <1>2, OutsideMoves
    <2>2. \A t : OwnedRules(t)' = OwnedRules(t)
        BY <2>1, SameChains
    <2> QED BY <1>0, <2>1, <2>2, BystandersKeepRollback
<1>3. CASE Environment
    <2>1. /\ UNCHANGED <<lock, pc, job, original, marker, faults>>
          /\ \A t \in Tunnel : OwnedRules(t)' = OwnedRules(t)
          /\ \A l \in Location : DOMAIN chain[l] \subseteq DOMAIN chain'[l]
        BY <1>0, <1>3, EnvironmentMoves
    <2> QED BY <1>0, <2>1, BystandersKeepRollback
<1>4. CASE UNCHANGED vars
    <2>1. UNCHANGED <<chain, marker, lock, pc, job, faults>>
        BY <1>4 DEF vars
    <2>2. \A t : OwnedRules(t)' = OwnedRules(t)
        BY <2>1, SameChains
    <2> QED BY <1>0, <2>1, <2>2, BystandersKeepRollback
<1> QED BY <1>0, <1>1, <1>2, <1>3, <1>4, StepKinds, LockKeepsRollback

\* The invariant of the rollback holds while at most one command fails.
LEMMA RollbackSafe ==
    ASSUME MaxFaults <= 1
    PROVE  GatewaySpec => []RollbackInv
<1>1. GatewayInit => RollbackInv
    <2> SUFFICES ASSUME GatewayInit PROVE RollbackInv
        OBVIOUS
    <2>1. \A p \in Process : lock # p
        BY GatewayAssumption DEF GatewayInit
    <2> QED BY <2>1, RulesInit DEF RollbackInv, Marked
<1>2. RollbackInv /\ [GatewayNext]_vars => RollbackInv'
    BY RollbackStep
<1> QED BY <1>1, <1>2, PTL DEF GatewaySpec

\* While at most one command fails, a first apply installs the whole gateway or
\* nothing, wherever the failure hits it and whoever was killed before.  (With a
\* second failure the rollback itself may fail: its errors are ignored.)
THEOREM AllOrNothing ==
    ASSUME MaxFaults <= 1
    PROVE  GatewaySpec => []ApplyAllOrNothing
<1>1. RollbackInv => ApplyAllOrNothing
    <2> SUFFICES ASSUME RollbackInv PROVE ApplyAllOrNothing
        OBVIOUS
    <2>1. AppliedIsHealthy
        BY AppliedHealthy DEF RollbackInv
    <2>2. ASSUME NEW p \in Process, pc[p] = "unlock", job[p].op = "apply",
                 job[p].rules_before = {}
          PROVE  OwnedRules(job[p].tunnel) = {}
        <3>1. lock = p
            BY <2>2 DEF RollbackInv, RulesInv, Mutex
        <3>2. ApplyUndoes("unlock", job[p], OwnedRules(job[p].tunnel), ~(faults < MaxFaults))
            BY <2>2, <3>1, RollbackFacts
        <3> QED BY <2>2, <3>2 DEF ApplyUndoes, Leaving
    <2> QED BY <2>1, <2>2 DEF ApplyAllOrNothing, FirstApplyRollsBack
<1> QED BY <1>1, RollbackSafe, PTL

----------------------------------------------------------------------------
(***************************************************************************)
(* The forwarding value.                                                   *)
(***************************************************************************)

\* The holder of the lock goes on only when nobody was killed.
LEMMA HolderLeavesTorn ==
    ASSUME NEW p \in Process, HolderStep(p)
    PROVE  torn' = torn
BY DEF HolderStep, create_original, write_original, record_gateway, RecordFails,
   compare, list, delete, add_if_missing, enable_forwarding, CommandFails, undo_rules,
   undo_marker, undo_forwarding, remove_original, remove_marker, restore_forwarding,
   FileFails, history

\* It is enough to look at the files and at the holder of the lock.
LEMMA ForwardingOfHolder ==
    ASSUME NEW p \in Process, NEW j, NEW step, Moved(p, j, step), RulesInv',
           FilesKnow(ip_forward', host_forward', original', marker', ~torn),
           torn' = torn, torn \in BOOLEAN, ~torn /\ original' = "" => step = "write_original",
           HolderKnows(step, j, ip_forward', host_forward', original', marker', ~torn)
    PROVE  ForwardingInv'
<1>1. pc'[p] = step /\ job'[p] = j /\ lock' = p
    BY DEF Moved
<1>2. HolderForwarding(p)'
    BY <1>1 DEF HolderForwarding
<1>3. \A q \in Process : lock' = q => HolderForwarding(q)'
    BY <1>1, <1>2
<1>4. ~torn' /\ original' = "" => \E q \in Process : pc'[q] = "write_original"
    BY <1>1
<1>5. FilesKnow(ip_forward, host_forward, original, marker, ~torn)'
    OBVIOUS
<1> QED BY <1>3, <1>4, <1>5 DEF ForwardingInv

\* No step of the holder loses the recorded value.
LEMMA HolderKeepsForwarding ==
    ASSUME ForwardingInv, RulesInv', NEW p \in Process, HolderStep(p)
    PROVE  ForwardingInv'
<1>0. RulesInv /\ Typed /\ Mutex /\ ChainsOK
    BY DEF ForwardingInv, RulesInv
<1>t. torn' = torn /\ torn \in BOOLEAN
    BY HolderLeavesTorn DEF ForwardingInv
<1>1. FilesKnow(ip_forward, host_forward, original, marker, ~torn)
    BY DEF ForwardingInv
<1>2. ASSUME lock = p, job[p] \in JobType
      PROVE  /\ HolderKnows(pc[p], job[p], ip_forward, host_forward, original, marker, ~torn)
             /\ ~torn /\ original = "" => pc[p] = "write_original"
             /\ job[p].op \in {"apply", "remove"}
             /\ job[p].op = "apply" => pc[p] \in Preparing \cup Changing \cup Leaving \cup {"applied"}
             /\ job[p].op = "remove" => pc[p] \in Removing
             /\ pc[p] = "undo_rules" => job[p].forwarding_before = ip_forward
    <2>1. HolderKnows(pc[p], job[p], ip_forward, host_forward, original, marker, ~torn)
        BY <1>2 DEF ForwardingInv, HolderForwarding
    <2>2. ~torn /\ original = "" => pc[p] = "write_original"
        BY <1>0, <1>2 DEF ForwardingInv, Mutex
    <2> QED BY <1>0, <1>2, <2>1, <2>2, HolderFacts DEF ApplyRules, Changing, Removing
<1>3. /\ original \in {Absent, "", "0", "1"} /\ Absent \notin {"", "0", "1"}
      /\ host_forward \in {"0", "1"}
    BY <1>0, GatewayAssumption DEF Typed
<1> DEFINE Keeps(j, step) ==
       /\ FilesKnow(ip_forward', host_forward', original', marker', ~torn)
       /\ ~torn /\ original' = "" => step = "write_original"
       /\ HolderKnows(step, j, ip_forward', host_forward', original', marker', ~torn)
<1>4. ASSUME NEW j, NEW step, Moved(p, j, step), Keeps(j, step)
      PROVE  ForwardingInv'
    BY <1>4, <1>t, ForwardingOfHolder
<1> HIDE DEF Keeps
<1>5. CASE create_original(p)
    <2>1. PICK j : j = [job[p] EXCEPT !.forwarding_before = ip_forward]
        OBVIOUS
    <2>2. PICK step : step = IF original = Absent THEN "write_original" ELSE "record_gateway"
        OBVIOUS
    <2>3. Moved(p, j, step) /\ job[p] \in JobType /\ lock = p
        BY <1>0, <1>5, <2>1, <2>2, PlainMoves DEF Moved
    <2>4. Keeps(j, step)
        BY <1>5, <1>1, <1>2, <1>3, <2>1, <2>2, <2>3
           DEF Keeps, FilesKnow, HolderKnows, Preparing, Changing, Leaving, Removing, create_original, files, JobType
    <2> QED BY <2>3, <2>4, <1>4
<1>6. CASE write_original(p)
    <2>1. PICK j : j = [job[p] EXCEPT !.original_created = TRUE]
        OBVIOUS
    <2>2. PICK step : step = "record_gateway"
        OBVIOUS
    <2>3. Moved(p, j, step) /\ job[p] \in JobType /\ lock = p
        BY <1>0, <1>6, <2>1, <2>2, PlainMoves DEF Moved
    <2>4. Keeps(j, step)
        <3>1. /\ pc[p] = "write_original" /\ original' = job[p].forwarding_before
              /\ UNCHANGED <<ip_forward, host_forward, marker>>
            BY <1>6 DEF write_original
        <3>2. /\ marker = {} /\ original' # Absent
              /\ ~torn => /\ original' = host_forward /\ ip_forward = host_forward
                          /\ job[p].forwarding_before = host_forward
            BY <1>2, <1>3, <2>3, <3>1 DEF HolderKnows, JobType
        <3>3. j.op = job[p].op /\ j.forwarding_before = job[p].forwarding_before
            BY <2>1, <2>3 DEF JobType
        <3> QED BY <1>3, <2>2, <3>1, <3>2, <3>3
            DEF Keeps, FilesKnow, HolderKnows, Changing
    <2> QED BY <2>3, <2>4, <1>4
<1>7. CASE record_gateway(p)
    <2>1. PICK j : j = [job[p] EXCEPT !.marker_created = (job[p].tunnel \notin marker)]
        OBVIOUS
    <2>2. PICK step : step = "compare"
        OBVIOUS
    <2>3. Moved(p, j, step) /\ job[p] \in JobType /\ lock = p
        BY <1>0, <1>7, <2>1, <2>2, PlainMoves DEF Moved
    <2>4. Keeps(j, step)
        BY <1>7, <1>1, <1>2, <1>3, <2>1, <2>2, <2>3
           DEF Keeps, FilesKnow, HolderKnows, Preparing, Changing, Leaving, Removing, record_gateway, files, JobType
    <2> QED BY <2>3, <2>4, <1>4
<1>8. CASE RecordFails(p)
    <2>1. PICK j : j = job[p]
        OBVIOUS
    <2>2. PICK step : step = "unlock"
        OBVIOUS
    <2>3. Moved(p, j, step) /\ job[p] \in JobType /\ lock = p
        BY <1>0, <1>8, <2>1, <2>2, PlainMoves DEF Moved
    <2>4. Keeps(j, step)
        BY <1>8, <1>1, <1>2, <1>3, <2>1, <2>2, <2>3
           DEF Keeps, FilesKnow, HolderKnows, Preparing, Changing, Leaving, Removing, RecordFails, files, JobType
    <2> QED BY <2>3, <2>4, <1>4
<1>9. CASE delete(p)
    <2>1. PICK j : j = job[p]
        OBVIOUS
    <2>2. PICK step : step = "list"
        OBVIOUS
    <2>3. Moved(p, j, step) /\ job[p] \in JobType /\ lock = p
        BY <1>0, <1>9, <2>1, <2>2, PlainMoves DEF Moved
    <2>4. Keeps(j, step)
        BY <1>9, <1>1, <1>2, <1>3, <2>1, <2>2, <2>3
           DEF Keeps, FilesKnow, HolderKnows, Preparing, Changing, Leaving, Removing, delete, files, JobType
    <2> QED BY <2>3, <2>4, <1>4
<1>10. CASE enable_forwarding(p)
    <2>1. PICK j : j = job[p]
        OBVIOUS
    <2>2. PICK step : step = "applied"
        OBVIOUS
    <2>3. Moved(p, j, step) /\ job[p] \in JobType /\ lock = p
        BY <1>0, <1>10, <2>1, <2>2, PlainMoves DEF Moved
    <2>4. Keeps(j, step)
        BY <1>10, <1>1, <1>2, <1>3, <2>1, <2>2, <2>3
           DEF Keeps, FilesKnow, HolderKnows, Preparing, Changing, Leaving, Removing, enable_forwarding, files, JobType
    <2> QED BY <2>3, <2>4, <1>4
<1>11. CASE CommandFails(p)
    <2>1. PICK j : j = job[p]
        OBVIOUS
    <2>2. PICK step : step = IF job[p].op = "apply" THEN "undo_rules" ELSE "unlock"
        OBVIOUS
    <2>3. Moved(p, j, step) /\ job[p] \in JobType /\ lock = p
        BY <1>0, <1>11, <2>1, <2>2, PlainMoves DEF Moved
    <2>4. Keeps(j, step)
        BY <1>11, <1>1, <1>2, <1>3, <2>1, <2>2, <2>3
           DEF Keeps, FilesKnow, HolderKnows, Preparing, Changing, Leaving, Removing, CommandFails, files, JobType
    <2> QED BY <2>3, <2>4, <1>4
<1>12. CASE undo_forwarding(p)
    <2>1. PICK j : j = job[p]
        OBVIOUS
    <2>2. PICK step : step = "remove_original"
        OBVIOUS
    <2>3. Moved(p, j, step) /\ job[p] \in JobType /\ lock = p
        BY <1>0, <1>12, <2>1, <2>2, PlainMoves DEF Moved
    <2>4. Keeps(j, step)
        BY <1>12, <1>1, <1>2, <1>3, <2>1, <2>2, <2>3
           DEF Keeps, FilesKnow, HolderKnows, Preparing, Changing, Leaving, Removing, undo_forwarding, files, JobType
    <2> QED BY <2>3, <2>4, <1>4
<1>13. CASE remove_original(p)
    <2>1. PICK j : j = job[p]
        OBVIOUS
    <2>2. PICK step : step = IF job[p].op = "apply" THEN "unlock" ELSE "removed"
        OBVIOUS
    <2>3. Moved(p, j, step) /\ job[p] \in JobType /\ lock = p
        BY <1>0, <1>13, <2>1, <2>2, PlainMoves DEF Moved
    <2>4. Keeps(j, step)
        BY <1>13, <1>1, <1>2, <1>3, <2>1, <2>2, <2>3
           DEF Keeps, FilesKnow, HolderKnows, Preparing, Changing, Leaving, Removing, remove_original, files, JobType
    <2> QED BY <2>3, <2>4, <1>4
<1>14. CASE restore_forwarding(p)
    <2>1. PICK j : j = job[p]
        OBVIOUS
    <2>2. PICK step : step = "remove_original"
        OBVIOUS
    <2>3. Moved(p, j, step) /\ job[p] \in JobType /\ lock = p
        BY <1>0, <1>14, <2>1, <2>2, PlainMoves DEF Moved
    <2>4. Keeps(j, step)
        BY <1>14, <1>1, <1>2, <1>3, <2>1, <2>2, <2>3
           DEF Keeps, FilesKnow, HolderKnows, Preparing, Changing, Leaving, Removing, restore_forwarding, files, JobType
    <2> QED BY <2>3, <2>4, <1>4
<1>15. CASE undo_marker(p)
    <2>1. PICK j : j = job[p]
        OBVIOUS
    <2>2. PICK step : step = IF job[p].original_created /\ marker' = {}
                            THEN "undo_forwarding" ELSE "unlock"
        OBVIOUS
    <2>3. Moved(p, j, step) /\ job[p] \in JobType /\ lock = p
        BY <1>0, <1>15, <2>1, <2>2, BranchMoves DEF Moved
    <2>4. Keeps(j, step)
        BY <1>15, <1>1, <1>2, <1>3, <2>1, <2>2, <2>3
           DEF Keeps, FilesKnow, HolderKnows, Preparing, Changing, Leaving, Removing, undo_marker, files, JobType
    <2> QED BY <2>3, <2>4, <1>4
<1>16. CASE remove_marker(p)
    <2>1. PICK j : j = job[p]
        OBVIOUS
    <2>2. PICK step : step = IF original # Absent /\ marker' = {}
                            THEN "restore_forwarding" ELSE "removed"
        OBVIOUS
    <2>3. Moved(p, j, step) /\ job[p] \in JobType /\ lock = p
        BY <1>0, <1>16, <2>1, <2>2, BranchMoves DEF Moved
    <2>4. Keeps(j, step)
        BY <1>16, <1>1, <1>2, <1>3, <2>1, <2>2, <2>3
           DEF Keeps, FilesKnow, HolderKnows, Preparing, Changing, Leaving, Removing, remove_marker, files, JobType
    <2> QED BY <2>3, <2>4, <1>4
<1>17. CASE compare(p)
    <2>1. PICK j : j = job[p]
        OBVIOUS
    <2>2. PICK step : step = IF /\ all_present(Plan(p))
                               /\ count_owned_rules(job[p].tunnel) = Len(Plan(p))
                            THEN "add" ELSE "list"
        OBVIOUS
    <2>3. Moved(p, j, step) /\ job[p] \in JobType /\ lock = p
        BY <1>0, <1>17, <2>1, <2>2, BranchMoves DEF Moved
    <2>4. Keeps(j, step)
        <3>1. step = "add" \/ step = "list"
            BY <2>2
        <3>2. /\ pc[p] = "compare" /\ j = job[p]
              /\ UNCHANGED <<ip_forward, host_forward, original, marker>>
            BY <1>17, <2>1 DEF compare, files
        <3> QED BY <1>1, <1>2, <1>3, <2>3, <3>1, <3>2
            DEF Keeps, FilesKnow, HolderKnows, Preparing, Changing, Leaving, Removing
    <2> QED BY <2>3, <2>4, <1>4
<1>18. CASE list(p)
    <2>0. pc[p] = "list" /\ UNCHANGED <<ip_forward, host_forward, original, marker>>
        BY <1>18 DEF list, files
    <2>1. CASE Moved(p, job[p], IF job[p].op = "apply" THEN "add" ELSE "remove_marker")
        <3>1. PICK step : step = IF job[p].op = "apply" THEN "add" ELSE "remove_marker"
            OBVIOUS
        <3>2. Moved(p, job[p], step) /\ job[p] \in JobType /\ lock = p
            BY <2>1, <3>1 DEF Moved
        <3>3. Keeps(job[p], step)
            BY <1>1, <1>2, <1>3, <2>0, <3>1, <3>2
               DEF Keeps, FilesKnow, HolderKnows, Preparing, Changing, Leaving, Removing
        <3> QED BY <3>2, <3>3, <1>4
    <2>2. ASSUME NEW v \in Location \X Nat, Moved(p, [job[p] EXCEPT !.victim = v], "delete")
          PROVE  ForwardingInv'
        <3>1. PICK j : j = [job[p] EXCEPT !.victim = v]
            OBVIOUS
        <3>2. Moved(p, j, "delete") /\ job[p] \in JobType /\ lock = p
            BY <2>2, <3>1 DEF Moved
        <3>3. /\ j.op = job[p].op /\ j.original_created = job[p].original_created
              /\ j.forwarding_before = job[p].forwarding_before
            BY <3>1, <3>2 DEF JobType
        <3>4. Keeps(j, "delete")
            BY <1>1, <1>2, <1>3, <2>0, <3>2, <3>3
               DEF Keeps, FilesKnow, HolderKnows, Preparing, Changing, Leaving, Removing
        <3> QED BY <3>2, <3>4, <1>4
    <2> QED BY <1>0, <1>18, <2>1, <2>2, ListMoves
<1>19. CASE add_if_missing(p)
    <2>0. pc[p] = "add" /\ UNCHANGED <<ip_forward, host_forward, original, marker>>
        BY <1>19 DEF add_if_missing, files
    <2>1. PICK r : r = Plan(p)[job[p].rule]
        OBVIOUS
    <2>2. \/ Moved(p, [job[p] EXCEPT !.rule = job[p].rule + 1], "add")
          \/ Moved(p, [job[p] EXCEPT !.rule = job[p].rule + 1,
                                     !.added = Append(job[p].added, r)], "add")
        BY <1>0, <1>19, <2>1, AddMoves
    <2>3. job[p] \in JobType /\ lock = p
        BY <2>2 DEF Moved
    <2>4. PICK j : /\ Moved(p, j, "add")
                   /\ j.op = job[p].op /\ j.original_created = job[p].original_created
                   /\ j.forwarding_before = job[p].forwarding_before
        <3>1. PICK f : f = [job[p] EXCEPT !.rule = job[p].rule + 1]
            OBVIOUS
        <3>2. PICK g : g = [job[p] EXCEPT !.rule = job[p].rule + 1,
                                          !.added = Append(job[p].added, r)]
            OBVIOUS
        <3>3. /\ f.op = job[p].op /\ f.original_created = job[p].original_created
              /\ f.forwarding_before = job[p].forwarding_before
              /\ g.op = job[p].op /\ g.original_created = job[p].original_created
              /\ g.forwarding_before = job[p].forwarding_before
            BY <2>3, <3>1, <3>2 DEF JobType
        <3>4. Moved(p, f, "add") \/ Moved(p, g, "add")
            BY <2>2, <3>1, <3>2
        <3> QED BY <3>3, <3>4
    <2>5. Keeps(j, "add")
        BY <1>1, <1>2, <1>3, <2>0, <2>3, <2>4
           DEF Keeps, FilesKnow, HolderKnows, Preparing, Changing, Leaving, Removing
    <2> QED BY <2>4, <2>5, <1>4
<1>20. CASE undo_rules(p)
    <2>0. pc[p] = "undo_rules" /\ UNCHANGED <<ip_forward, host_forward, original, marker>>
        BY <1>20 DEF undo_rules, files
    <2>1. PICK a : a = SubSeq(job[p].added, 1, Len(job[p].added) - 1)
        OBVIOUS
    <2>2. PICK j : j = [job[p] EXCEPT !.added = a]
        OBVIOUS
    <2>3. Moved(p, j, "undo_rules") /\ job[p] \in JobType /\ lock = p
        BY <1>0, <1>20, <2>1, <2>2, UndoMoves DEF Moved
    <2>4. /\ j.op = job[p].op /\ j.original_created = job[p].original_created
          /\ j.forwarding_before = job[p].forwarding_before
        BY <2>2, <2>3 DEF JobType
    <2>5. Keeps(j, "undo_rules")
        BY <1>1, <1>2, <1>3, <2>0, <2>3, <2>4
           DEF Keeps, FilesKnow, HolderKnows, Preparing, Changing, Leaving, Removing
    <2> QED BY <2>3, <2>5, <1>4
<1>21. CASE FileFails(p)
    <2>1. PICK step : step = "unlock"
        OBVIOUS
    <2>2. Moved(p, job[p], step) /\ job[p] \in JobType /\ lock = p
        BY <1>0, <1>21, <2>1, PlainMoves DEF Moved
    <2>3. /\ UNCHANGED <<ip_forward, host_forward, original>>
          /\ marker' \subseteq marker
          /\ pc[p] # "write_original"
        BY <1>21 DEF FileFails
    <2>4. marker' = {} \/ original # Absent
        BY <1>1, <2>3 DEF FilesKnow
    <2>5. Keeps(job[p], step)
        BY <1>1, <1>2, <1>3, <2>1, <2>2, <2>3, <2>4
           DEF Keeps, FilesKnow, HolderKnows, Preparing, Changing, Leaving, Removing
    <2> QED BY <2>2, <2>5, <1>4
<1> QED
    BY <1>5, <1>6, <1>7, <1>8, <1>9, <1>10, <1>11, <1>12, <1>13, <1>14, <1>15, <1>16, <1>17, <1>18, <1>19, <1>20, <1>21 DEF HolderStep

\* Nor does a step that leaves the holder, the files and the sysctl alone.
LEMMA BystandersKeepForwarding ==
    ASSUME ForwardingInv, RulesInv',
           \A q \in Process : lock' = q => lock = q /\ pc'[q] = pc[q] /\ job'[q] = job[q],
           UNCHANGED <<original, marker>>,
           \/ UNCHANGED <<ip_forward, host_forward>>
           \/ lock' = Nobody /\ original = Absent /\ host_forward' = ip_forward',
           torn => torn', torn' \in BOOLEAN,
           ~torn' /\ original = "" => \E q \in Process : pc'[q] = "write_original"
    PROVE  ForwardingInv'
<1>1. FilesKnow(ip_forward, host_forward, original, marker, ~torn)'
    BY GatewayAssumption DEF ForwardingInv, FilesKnow
<1>2. ASSUME NEW q \in Process, lock' = q PROVE HolderForwarding(q)'
    <2>1. lock = q /\ pc'[q] = pc[q] /\ job'[q] = job[q] /\ q # Nobody
        BY <1>2, GatewayAssumption
    <2>2. UNCHANGED <<ip_forward, host_forward, original, marker>>
        BY <1>2, <2>1
    <2>3. HolderKnows(pc[q], job[q], ip_forward, host_forward, original, marker, ~torn)
        BY <2>1 DEF ForwardingInv, HolderForwarding
    <2>4. HolderKnows(pc[q], job[q], ip_forward, host_forward, original, marker, ~torn')
        BY <2>3 DEF HolderKnows
    <2> QED BY <2>1, <2>2, <2>4 DEF HolderForwarding
<1> QED BY <1>1, <1>2 DEF ForwardingInv

\* Whoever takes the lock has recorded nothing yet.
LEMMA LockKeepsForwarding ==
    ASSUME ForwardingInv, RulesInv', NEW p \in Process, TakeLock(p)
    PROVE  ForwardingInv'
<1>0. Typed /\ Mutex /\ ChainsOK
    BY DEF ForwardingInv, RulesInv
<1>1. PICK j : j = [job[p] EXCEPT !.rules_before = OwnedRules(job[p].tunnel)]
    OBVIOUS
<1>2. /\ lock = Nobody /\ lock' = p /\ job[p] \in JobType /\ job'[p] = j
      /\ pc'[p] = IF job[p].op = "apply" THEN "create_original" ELSE "list"
      /\ UNCHANGED <<ip_forward, host_forward, original, marker>>
    BY <1>0, <1>1, LockMoves
<1>3. j.op = job[p].op /\ ~j.original_created
    <2>1. ~job[p].original_created
        BY <1>0 DEF TakeLock, Mutex, Fresh
    <2> QED BY <1>1, <1>2, <2>1 DEF JobType
<1>4. HolderForwarding(p)'
    BY <1>2, <1>3 DEF HolderForwarding, HolderKnows, Changing
<1>t. torn' = torn /\ torn \in BOOLEAN
    BY DEF TakeLock, history, ForwardingInv
<1>5. ~torn => original # ""
    <2>1. \A q \in Process : pc[q] # "write_original"
        BY <1>0, <1>2, GatewayAssumption DEF Mutex
    <2> QED BY <2>1 DEF ForwardingInv
<1>6. FilesKnow(ip_forward, host_forward, original, marker, ~torn)'
    BY <1>2, <1>t DEF ForwardingInv
<1>7. \A q \in Process : lock' = q => HolderForwarding(q)'
    BY <1>2, <1>4
<1> QED BY <1>2, <1>t, <1>5, <1>6, <1>7 DEF ForwardingInv

\* The invariant of the forwarding value is inductive.
LEMMA ForwardingStep ==
    ASSUME ForwardingInv, [GatewayNext]_vars
    PROVE  ForwardingInv'
<1>0. RulesInv /\ RulesInv' /\ Typed /\ Mutex /\ ChainsOK
    BY RulesStep DEF ForwardingInv, RulesInv
<1>1. /\ torn \in BOOLEAN
      /\ ~torn /\ original = "" => \E q \in Process : pc[q] = "write_original"
    BY DEF ForwardingInv
<1>2. ASSUME NEW p \in Process,
             \/ \E op \in {"apply", "remove"}, t \in Tunnel, q \in Policy \cup {"any"} :
                   Start(p, op, t, q) /\ (op = "apply" => q \in Policy)
             \/ Unlock(p) \/ Kill(p)
      PROVE  ForwardingInv'
    <2>1. /\ UNCHANGED <<ip_forward, host_forward, original, marker>>
          /\ \A q \in Process : lock' = q =>
                lock = q /\ pc'[q] = pc[q] /\ job'[q] = job[q]
        BY <1>0, <1>2, OutsideMoves
    <2>2. /\ torn' = (torn \/ (Kill(p) /\ pc[p] = "write_original"))
          /\ pc[p] # "write_original" \/ Kill(p)
          /\ \A q \in Process : q # p => pc'[q] = pc[q]
        BY <1>0, <1>1, <1>2 DEF Start, Unlock, Kill, Goto, Typed, history
    <2>3. ~torn' /\ original = "" => \E q \in Process : pc'[q] = "write_original"
        BY <1>1, <2>2
    <2> QED BY <1>0, <1>1, <2>1, <2>2, <2>3, BystandersKeepForwarding
<1>3. CASE Environment
    <2>1. /\ UNCHANGED <<lock, pc, job, original, marker>>
          /\ \/ UNCHANGED <<ip_forward, host_forward>>
             \/ lock = Nobody /\ original = Absent /\ host_forward' = ip_forward'
        BY <1>0, <1>3, EnvironmentMoves
    <2>2. torn' = torn
        BY <1>3 DEF Environment, SetForwarding, ForeignInsert
    <2> QED BY <1>0, <1>1, <2>1, <2>2, BystandersKeepForwarding
<1>4. CASE UNCHANGED vars
    <2>1. UNCHANGED <<ip_forward, host_forward, original, marker, lock, pc, job, torn>>
        BY <1>4 DEF vars
    <2> QED BY <1>0, <1>1, <2>1, BystandersKeepForwarding
<1> QED BY <1>0, <1>2, <1>3, <1>4, StepKinds, LockKeepsForwarding, HolderKeepsForwarding

\* The invariant of the forwarding value holds.
LEMMA ForwardingSafe == GatewaySpec => []ForwardingInv
<1>1. GatewayInit => ForwardingInv
    <2> SUFFICES ASSUME GatewayInit PROVE ForwardingInv
        OBVIOUS
    <2>1. \A p \in Process : lock # p
        BY GatewayAssumption DEF GatewayInit
    <2>2. FilesKnow(ip_forward, host_forward, original, marker, ~torn) /\ original # ""
        BY GatewayAssumption DEF GatewayInit, FilesKnow
    <2>3. torn = FALSE
        BY DEF GatewayInit
    <2> QED BY <2>1, <2>2, <2>3, RulesInit DEF ForwardingInv
<1>2. ForwardingInv /\ [GatewayNext]_vars => ForwardingInv'
    BY ForwardingStep
<1> QED BY <1>1, <1>2, PTL DEF GatewaySpec

\* Whatever fails and whoever is killed, except between the creation of the file
\* of the original value and its write, the administrator's forwarding value is
\* back as soon as no gateway is managed.
THEOREM ForwardingComesBack == GatewaySpec => []ForwardingRestored
<1>1. ForwardingInv => ForwardingRestored
    BY DEF ForwardingInv, FilesKnow, ForwardingRestored
<1> QED BY <1>1, ForwardingSafe, PTL

\* The next command can rely on what the files of /run/hushwire say: leftover
\* rules have their marker, a marker has the original value beside it, and that
\* value is the administrator's, never one an earlier apply had set.
THEOREM RecordsCanBeTrusted ==
    ASSUME MaxFaults <= 1
    PROVE  GatewaySpec => []RecordsTruthful
<1>1. RollbackInv /\ ForwardingInv => RecordsTruthful
    BY DEF RollbackInv, Marked, ForwardingInv, FilesKnow, RecordsTruthful,
           LeftoversRecorded, OriginalIsHosts
<1> QED BY <1>1, RollbackSafe, ForwardingSafe, PTL

----------------------------------------------------------------------------
(***************************************************************************)
(* The rules of others.                                                    *)
(***************************************************************************)

\* What a command at a step may delete carries its own tag: the rules it added,
\* and, if no service edited a chain since it was listed, the rule it found.
Tagged(step, j, rules, edits) ==
    /\ \A k \in DOMAIN j.added : j.added[k].owner = j.tunnel
    /\ step = "delete" /\ edits = 0 =>
          /\ j.victim[1] \in Location
          /\ j.victim[2] \in DOMAIN rules[j.victim[1]]
          /\ rules[j.victim[1]][j.victim[2]].owner = j.tunnel

HolderTagged(p) == Tagged(pc[p], job[p], chain, foreign)

\* The inductive invariant about the tags.
TagInv ==
    /\ RulesInv /\ foreign \in Nat
    /\ \A p \in Process : lock = p => HolderTagged(p)

OthersIn(rules, t) == {i \in DOMAIN rules : rules[i].owner # t}

\* f maps the rules of others in chain s to those in chain r, in their order.
InOrder(f, t, s, r) ==
    /\ f \in [OthersIn(s, t) -> OthersIn(r, t)]
    /\ \A k \in OthersIn(r, t) : \E i \in OthersIn(s, t) : f[i] = k
    /\ \A i, k \in OthersIn(s, t) : i < k => f[i] < f[k]
    /\ \A i \in OthersIn(s, t) : r[f[i]] = s[i]

\* Such a map is what SameOthers asks for.
LEMMA OthersCorrespond ==
    ASSUME NEW t, NEW s, NEW r, NEW f, InOrder(f, t, s, r)
    PROVE  SameOthers(t, s, r)
BY Zenon DEF SameOthers, InOrder, OthersIn

\* Deleting a rule of the tunnel leaves those of others in their order.
LEMMA RemoveKeepsOthers ==
    ASSUME NEW S, NEW s \in Seq(S), NEW n \in DOMAIN s, NEW t, s[n].owner = t
    PROVE  SameOthers(t, s, RemoveAt(s, n))
<1> PICK r : r = RemoveAt(s, n)
    OBVIOUS
<1>1. n \in 1 .. Len(s) /\ Len(s) \in Nat /\ DOMAIN s = 1 .. Len(s)
    OBVIOUS
<1>2. /\ DOMAIN r = 1 .. (Len(s) - 1)
      /\ \A i \in 1 .. (Len(s) - 1) : r[i] = IF i < n THEN s[i] ELSE s[i + 1]
    BY RemoveAtFacts
<1> DEFINE A == {i \in DOMAIN s : s[i].owner # t}
           B == {i \in DOMAIN r : r[i].owner # t}
           place == [i \in A |-> IF i < n THEN i ELSE i - 1]
<1>3. ASSUME NEW i \in A
      PROVE  place[i] \in B /\ r[place[i]] = s[i]
    <2>1. i \in 1 .. Len(s) /\ s[i].owner # t /\ i # n
        BY <1>1
    <2>2. CASE i < n
        <3>1. i \in 1 .. (Len(s) - 1) /\ place[i] = i
            BY <1>1, <2>1, <2>2
        <3> QED BY <1>2, <2>1, <2>2, <3>1
    <2>3. CASE ~(i < n)
        <3>1. i - 1 \in 1 .. (Len(s) - 1) /\ place[i] = i - 1 /\ ~(i - 1 < n) /\ i - 1 + 1 = i
            BY <1>1, <2>1, <2>3
        <3>2. r[i - 1] = s[i]
            BY <1>2, <3>1
        <3> QED BY <1>2, <2>1, <3>1, <3>2
    <2> QED BY <2>2, <2>3
<1>4. ASSUME NEW k \in B
      PROVE  \E i \in A : place[i] = k
    <2>1. k \in 1 .. (Len(s) - 1) /\ r[k].owner # t
        BY <1>2
    <2>2. CASE k < n
        <3>1. k \in A
            BY <1>1, <1>2, <2>1, <2>2
        <3> QED BY <2>2, <3>1
    <2>3. CASE ~(k < n)
        <3>1. r[k] = s[k + 1] /\ k + 1 \in DOMAIN s
            BY <1>1, <1>2, <2>1, <2>3
        <3>2. k + 1 \in A
            BY <2>1, <3>1
        <3>3. place[k + 1] = k
            BY <1>1, <2>1, <2>3, <3>2
        <3> QED BY <3>2, <3>3
    <2> QED BY <2>2, <2>3
<1>5. ASSUME NEW i \in A, NEW k \in A, i < k
      PROVE  place[i] < place[k]
    <2>1. i \in 1 .. Len(s) /\ k \in 1 .. Len(s) /\ i # n /\ k # n
        BY <1>1
    <2> QED BY <1>1, <1>5, <2>1
<1>6. place \in [A -> B]
    BY <1>3
<1> HIDE DEF place
<1>7. \A k \in B : \E i \in A : place[i] = k
    BY <1>4
<1>8. \A i, k \in A : i < k => place[i] < place[k]
    BY <1>5
<1>9. \A i \in A : r[place[i]] = s[i]
    BY <1>3
<1>10. A = OthersIn(s, t) /\ B = OthersIn(r, t)
    BY DEF OthersIn
<1> HIDE DEF A, B
<1>11. InOrder(place, t, s, r)
    BY <1>6, <1>7, <1>8, <1>9, <1>10, Zenon DEF InOrder
<1> QED BY <1>11, OthersCorrespond

\* Appending a rule of the tunnel leaves those of others in their order.
LEMMA AppendKeepsOthers ==
    ASSUME NEW S, NEW s \in Seq(S), NEW x \in S, NEW t, x.owner = t
    PROVE  SameOthers(t, s, Append(s, x))
<1> PICK a : a = Append(s, x)
    OBVIOUS
<1>1. /\ Len(s) \in Nat /\ DOMAIN s = 1 .. Len(s)
      /\ DOMAIN a = 1 .. (Len(s) + 1) /\ a[Len(s) + 1] = x
      /\ \A i \in 1 .. Len(s) : a[i] = s[i]
    OBVIOUS
<1> DEFINE A == {i \in DOMAIN s : s[i].owner # t}
           B == {i \in DOMAIN a : a[i].owner # t}
           place == [i \in A |-> i]
<1>2. \A i \in A : i \in B /\ a[i] = s[i]
    BY <1>1
<1>3. \A k \in B : k \in A
    <2> SUFFICES ASSUME NEW k \in B
                 PROVE  k \in A
        OBVIOUS
    <2>1. k \in 1 .. (Len(s) + 1) /\ a[k].owner # t
        BY <1>1
    <2>2. k # Len(s) + 1
        BY <1>1, <2>1
    <2>3. k \in 1 .. Len(s)
        BY <1>1, <2>1, <2>2
    <2> QED BY <1>1, <2>1, <2>3
<1>4. place \in [A -> B] /\ \A i \in A : place[i] = i
    BY <1>2
<1> HIDE DEF place
<1>5. \A k \in B : \E i \in A : place[i] = k
    BY <1>3, <1>4
<1>6. \A i, k \in A : i < k => place[i] < place[k]
    BY <1>4
<1>7. \A i \in A : a[place[i]] = s[i]
    BY <1>2, <1>4
<1>8. A = OthersIn(s, t) /\ B = OthersIn(a, t)
    BY DEF OthersIn
<1> HIDE DEF A, B
<1>9. InOrder(place, t, s, a)
    BY <1>4, <1>5, <1>6, <1>7, <1>8, Zenon DEF InOrder
<1> QED BY <1>9, OthersCorrespond

\* It is enough to look at the holder of the lock.
LEMMA TagsOfHolder ==
    ASSUME NEW p \in Process, NEW j, NEW step, Moved(p, j, step), RulesInv',
           foreign' \in Nat, Tagged(step, j, chain', foreign')
    PROVE  TagInv'
<1>1. pc'[p] = step /\ job'[p] = j /\ lock' = p
    BY DEF Moved
<1>2. HolderTagged(p)'
    BY <1>1 DEF HolderTagged
<1> QED BY <1>1, <1>2 DEF TagInv

\* The steps that touch neither the list of added rules nor a rule number.
LEMMA PlainStepsKeepTags ==
    ASSUME TagInv, NEW p \in Process,
           \/ create_original(p) \/ write_original(p) \/ record_gateway(p) \/ RecordFails(p)
           \/ compare(p) \/ delete(p) \/ enable_forwarding(p) \/ CommandFails(p)
           \/ undo_marker(p) \/ undo_forwarding(p) \/ remove_original(p)
           \/ remove_marker(p) \/ restore_forwarding(p) \/ FileFails(p)
    PROVE  TagInv'
<1>0. Typed /\ Mutex /\ RulesInv /\ foreign \in Nat
    BY DEF RulesInv, TagInv
<1>1. RulesInv'
    BY <1>0, HolderKeepsRules DEF HolderStep
<1>2. foreign' = foreign
    BY DEF create_original, write_original, record_gateway, RecordFails, compare, delete,
           enable_forwarding, CommandFails, undo_marker, undo_forwarding, remove_original,
           remove_marker, restore_forwarding, FileFails, history
<1>3. \E j, step : /\ Moved(p, j, step) /\ step # "delete"
                   /\ j.added = job[p].added /\ j.tunnel = job[p].tunnel
    <2> DEFINE Goes(j, step) == Moved(p, j, step)
    <2>1. \A j, step : Goes(j, step) => job[p] \in JobType
        BY DEF Moved
    <2>2. \A v : job[p] \in JobType =>
             /\ [job[p] EXCEPT !.forwarding_before = v].added = job[p].added
             /\ [job[p] EXCEPT !.forwarding_before = v].tunnel = job[p].tunnel
             /\ [job[p] EXCEPT !.original_created = v].added = job[p].added
             /\ [job[p] EXCEPT !.original_created = v].tunnel = job[p].tunnel
             /\ [job[p] EXCEPT !.marker_created = v].added = job[p].added
             /\ [job[p] EXCEPT !.marker_created = v].tunnel = job[p].tunnel
        BY DEF JobType
    <2> HIDE DEF Goes
    <2>3. CASE create_original(p)
        <3>1. PICK j : j = [job[p] EXCEPT !.forwarding_before = ip_forward]
            OBVIOUS
        <3>2. PICK step : step = IF original = Absent THEN "write_original" ELSE "record_gateway"
            OBVIOUS
        <3>3. Goes(j, step)
            BY <1>0, <2>3, <3>1, <3>2, PlainMoves DEF Goes
        <3>4. j.added = job[p].added /\ j.tunnel = job[p].tunnel
            BY <2>1, <2>2, <3>1, <3>3
        <3>5. step # "delete"
            BY <3>2
        <3> QED BY <3>3, <3>4, <3>5 DEF Goes
    <2>4. CASE write_original(p)
        <3>1. PICK j : j = [job[p] EXCEPT !.original_created = TRUE]
            OBVIOUS
        <3>3. Goes(j, "record_gateway")
            BY <1>0, <2>4, <3>1, PlainMoves DEF Goes
        <3>4. j.added = job[p].added /\ j.tunnel = job[p].tunnel
            BY <2>1, <2>2, <3>1, <3>3
        <3> QED BY <3>3, <3>4 DEF Goes
    <2>5. CASE record_gateway(p)
        <3>1. PICK j : j = [job[p] EXCEPT !.marker_created = (job[p].tunnel \notin marker)]
            OBVIOUS
        <3>3. Goes(j, "compare")
            BY <1>0, <2>5, <3>1, PlainMoves DEF Goes
        <3>4. j.added = job[p].added /\ j.tunnel = job[p].tunnel
            BY <2>1, <2>2, <3>1, <3>3
        <3> QED BY <3>3, <3>4 DEF Goes
    <2>6. CASE \/ RecordFails(p) \/ delete(p) \/ enable_forwarding(p) \/ CommandFails(p)
               \/ undo_forwarding(p) \/ remove_original(p) \/ restore_forwarding(p)
               \/ FileFails(p)
        <3>1. /\ RecordFails(p) => Goes(job[p], "unlock")
              /\ delete(p) => Goes(job[p], "list")
              /\ enable_forwarding(p) => Goes(job[p], "applied")
              /\ CommandFails(p) => Goes(job[p], "undo_rules") \/ Goes(job[p], "unlock")
              /\ undo_forwarding(p) => Goes(job[p], "remove_original")
              /\ remove_original(p) => Goes(job[p], "unlock") \/ Goes(job[p], "removed")
              /\ restore_forwarding(p) => Goes(job[p], "remove_original")
              /\ FileFails(p) => Goes(job[p], "unlock")
            BY <1>0, PlainMoves DEF Goes
        <3>2. \E step : Goes(job[p], step) /\ step # "delete"
            BY <2>6, <3>1
        <3> QED BY <3>2 DEF Goes
    <2>7. CASE compare(p) \/ undo_marker(p) \/ remove_marker(p)
        <3>1. \E step : Goes(job[p], step) /\ step # "delete"
            BY <1>0, <2>7, BranchMoves DEF Goes
        <3> QED BY <3>1 DEF Goes
    <2> QED BY <2>3, <2>4, <2>5, <2>6, <2>7
<1>4. PICK j, step : /\ Moved(p, j, step) /\ step # "delete"
                     /\ j.added = job[p].added /\ j.tunnel = job[p].tunnel
    BY <1>3
<1>5. lock = p
    BY <1>4 DEF Moved
<1>6. Tagged(pc[p], job[p], chain, foreign)
    BY <1>5 DEF TagInv, HolderTagged
<1>7. Tagged(step, j, chain', foreign')
    BY <1>4, <1>6 DEF Tagged
<1> QED BY <1>0, <1>1, <1>2, <1>4, <1>7, TagsOfHolder

\* delete_owned_rules goes to a rule with the tunnel's tag.
LEMMA ListKeepsTags ==
    ASSUME TagInv, NEW p \in Process, list(p)
    PROVE  TagInv'
<1>0. Typed /\ Mutex /\ ChainsOK /\ RulesInv /\ foreign \in Nat
    BY DEF RulesInv, TagInv
<1>1. RulesInv' /\ foreign' = foreign /\ chain' = chain
    <2>1. RulesInv'
        BY <1>0, ListKeepsRules
    <2>2. foreign' = foreign /\ chain' = chain
        BY DEF list, history
    <2> QED BY <2>1, <2>2
<1>2. lock = p /\ job[p] \in JobType
    BY <1>0 DEF list, Mutex, Typed
<1>3. Tagged(pc[p], job[p], chain, foreign)
    BY <1>2 DEF TagInv, HolderTagged
<1>4. CASE Moved(p, job[p], IF job[p].op = "apply" THEN "add" ELSE "remove_marker")
    <2> PICK step : step = IF job[p].op = "apply" THEN "add" ELSE "remove_marker"
        OBVIOUS
    <2>1. Tagged(step, job[p], chain', foreign')
        BY <1>3 DEF Tagged
    <2> QED BY <1>0, <1>1, <1>4, <2>1, TagsOfHolder
<1>5. ASSUME NEW v \in Location \X Nat, v[2] \in DOMAIN chain[v[1]],
             chain[v[1]][v[2]].owner = job[p].tunnel,
             Moved(p, [job[p] EXCEPT !.victim = v], "delete")
      PROVE  TagInv'
    <2> PICK j : j = [job[p] EXCEPT !.victim = v]
        OBVIOUS
    <2>1. j.added = job[p].added /\ j.tunnel = job[p].tunnel /\ j.victim = v
        BY <1>2 DEF JobType
    <2>2. v[1] \in Location
        OBVIOUS
    <2>3. Tagged("delete", j, chain', foreign')
        BY <1>1, <1>3, <1>5, <2>1, <2>2 DEF Tagged
    <2> QED BY <1>0, <1>1, <1>5, <2>3, TagsOfHolder
<1> QED BY <1>0, <1>4, <1>5, ListMoves

\* A planned rule carries the tunnel's tag.
LEMMA AddKeepsTags ==
    ASSUME TagInv, NEW p \in Process, add_if_missing(p)
    PROVE  TagInv'
<1>0. Typed /\ Mutex /\ ChainsOK /\ RulesInv /\ foreign \in Nat
    BY DEF RulesInv, TagInv
<1>1. RulesInv' /\ foreign' = foreign
    <2>1. RulesInv'
        BY <1>0, AddKeepsRules
    <2>2. foreign' = foreign
        BY DEF add_if_missing, history
    <2> QED BY <2>1, <2>2
<1>2. lock = p /\ job[p] \in JobType
    BY <1>0 DEF add_if_missing, Mutex, Typed
<1>3. Tagged(pc[p], job[p], chain, foreign)
    BY <1>2 DEF TagInv, HolderTagged
<1> PICK r : r = Plan(p)[job[p].rule]
    OBVIOUS
<1>4. r \in RuleType /\ r.owner = job[p].tunnel
    BY <1>0, AddMoves
<1>5. CASE Moved(p, [job[p] EXCEPT !.rule = job[p].rule + 1], "add")
    <2> PICK j : j = [job[p] EXCEPT !.rule = job[p].rule + 1]
        OBVIOUS
    <2>1. j.added = job[p].added /\ j.tunnel = job[p].tunnel
        BY <1>2 DEF JobType
    <2>2. Tagged("add", j, chain', foreign')
        BY <1>3, <2>1 DEF Tagged
    <2> QED BY <1>0, <1>1, <1>5, <2>2, TagsOfHolder
<1>6. CASE Moved(p, [job[p] EXCEPT !.rule = job[p].rule + 1,
                                   !.added = Append(job[p].added, r)], "add")
    <2> PICK a : a = Append(job[p].added, r)
        OBVIOUS
    <2> PICK j : j = [job[p] EXCEPT !.rule = job[p].rule + 1, !.added = a]
        OBVIOUS
    <2>1. j.added = a /\ j.tunnel = job[p].tunnel
        BY <1>2 DEF JobType
    <2>2. \A k \in DOMAIN a : a[k] = r \/ (k \in DOMAIN job[p].added /\ a[k] = job[p].added[k])
        <3>1. job[p].added \in Seq(RuleType)
            BY <1>2 DEF JobType
        <3> QED BY <1>4, <3>1
    <2>3. \A k \in DOMAIN a : a[k].owner = job[p].tunnel
        BY <1>3, <1>4, <2>2 DEF Tagged
    <2>4. Tagged("add", j, chain', foreign')
        BY <2>1, <2>3 DEF Tagged
    <2>5. Moved(p, j, "add")
        BY <1>6
    <2> QED BY <1>0, <1>1, <2>4, <2>5, TagsOfHolder
<1> QED BY <1>0, <1>5, <1>6, AddMoves

\* The rollback shortens the list of added rules.
LEMMA UndoKeepsTags ==
    ASSUME TagInv, NEW p \in Process, undo_rules(p)
    PROVE  TagInv'
<1>0. Typed /\ Mutex /\ ChainsOK /\ RulesInv /\ foreign \in Nat
    BY DEF RulesInv, TagInv
<1>1. RulesInv' /\ foreign' = foreign
    <2>1. RulesInv'
        BY <1>0, UndoKeepsRules
    <2>2. foreign' = foreign
        BY Zenon DEF undo_rules
    <2> QED BY <2>1, <2>2
<1>2. lock = p /\ job[p] \in JobType
    BY <1>0 DEF undo_rules, Mutex, Typed
<1>3. Tagged(pc[p], job[p], chain, foreign)
    BY <1>2 DEF TagInv, HolderTagged
<1> PICK a : a = SubSeq(job[p].added, 1, Len(job[p].added) - 1)
    OBVIOUS
<1> PICK j : j = [job[p] EXCEPT !.added = a]
    OBVIOUS
<1>4. Moved(p, j, "undo_rules")
    BY <1>0, UndoMoves
<1>5. j.added = a /\ j.tunnel = job[p].tunnel
    BY <1>2 DEF JobType
<1>6. \A k \in DOMAIN a : k \in DOMAIN job[p].added /\ a[k] = job[p].added[k]
    <2>1. job[p].added \in Seq(RuleType) /\ job[p].added # <<>>
        BY <1>2 DEF JobType, undo_rules
    <2> QED BY <2>1
<1>7. Tagged("undo_rules", j, chain', foreign')
    BY <1>3, <1>5, <1>6 DEF Tagged
<1> QED BY <1>0, <1>1, <1>4, <1>7, TagsOfHolder

\* The invariant of the tags is inductive.
LEMMA TagStep ==
    ASSUME TagInv, [GatewayNext]_vars
    PROVE  TagInv'
<1>0. Typed /\ Mutex /\ ChainsOK /\ RulesInv /\ RulesInv' /\ foreign \in Nat
    BY RulesStep DEF RulesInv, TagInv
<1>1. ASSUME NEW p \in Process, HolderStep(p)
      PROVE  TagInv'
    BY <1>1, PlainStepsKeepTags, ListKeepsTags, AddKeepsTags, UndoKeepsTags DEF HolderStep
<1>2. ASSUME NEW p \in Process, TakeLock(p)
      PROVE  TagInv'
    <2> PICK j : j = [job[p] EXCEPT !.rules_before = OwnedRules(job[p].tunnel)]
        OBVIOUS
    <2>1. /\ lock' = p /\ job[p] \in JobType /\ job'[p] = j
          /\ pc'[p] = IF job[p].op = "apply" THEN "create_original" ELSE "list"
        BY <1>0, <1>2, LockMoves
    <2>2. foreign' = foreign /\ Fresh(job[p])
        BY <1>0, <1>2 DEF TakeLock, Mutex, history
    <2>3. j.added = <<>>
        BY <2>1, <2>2 DEF Fresh, JobType
    <2>4. DOMAIN j.added = {}
        BY <2>3
    <2>5. pc'[p] # "delete"
        BY <2>1
    <2>6. HolderTagged(p)'
        BY <2>1, <2>4, <2>5 DEF HolderTagged, Tagged
    <2> QED BY <1>0, <2>1, <2>2, <2>6 DEF TagInv
<1>3. ASSUME NEW p \in Process,
             \/ \E op \in {"apply", "remove"}, t \in Tunnel, q \in Policy \cup {"any"} :
                   Start(p, op, t, q) /\ (op = "apply" => q \in Policy)
             \/ Unlock(p) \/ Kill(p)
      PROVE  TagInv'
    <2>1. /\ chain' = chain
          /\ \A q \in Process : lock' = q =>
                lock = q /\ pc'[q] = pc[q] /\ job'[q] = job[q]
        BY <1>0, <1>3, OutsideMoves
    <2>2. foreign' = foreign
        BY <1>3 DEF Start, Unlock, Kill, history
    <2>3. ASSUME NEW q \in Process, lock' = q
          PROVE  HolderTagged(q)'
        <3>1. lock = q /\ pc'[q] = pc[q] /\ job'[q] = job[q]
            BY <2>1, <2>3
        <3>2. HolderTagged(q)
            BY <3>1 DEF TagInv
        <3> QED BY <2>1, <2>2, <3>1, <3>2 DEF HolderTagged
    <2> QED BY <1>0, <2>2, <2>3 DEF TagInv
<1>4. CASE Environment
    <2>1. lock' = lock /\ pc' = pc /\ job' = job
        BY <1>0, <1>4, EnvironmentMoves
    <2>2. foreign' = foreign + 1
        BY <1>4 DEF Environment, SetForwarding, ForeignInsert
    <2>3. foreign' \in Nat /\ foreign' # 0
        BY <1>0, <2>2
    <2>4. ASSUME NEW q \in Process, lock' = q
          PROVE  HolderTagged(q)'
        <3>1. HolderTagged(q)
            BY <2>1, <2>4 DEF TagInv
        <3> QED BY <2>1, <2>3, <3>1 DEF HolderTagged, Tagged
    <2> QED BY <1>0, <2>3, <2>4 DEF TagInv
<1>5. CASE UNCHANGED vars
    <2>1. UNCHANGED <<chain, lock, pc, job, foreign>>
        BY <1>5 DEF vars
    <2>2. \A q \in Process : HolderTagged(q)' <=> HolderTagged(q)
        BY <2>1 DEF HolderTagged
    <2> QED BY <1>0, <2>1, <2>2 DEF TagInv
<1> QED BY <1>1, <1>2, <1>3, <1>4, <1>5, StepKinds

\* The rules of a chain in which only the tunnel's own were touched.
LEMMA DeleteSparesOthers ==
    ASSUME TagInv, foreign = 0, NEW p \in Process, delete(p), NEW l \in Location
    PROVE  \/ chain'[l] = chain[l]
           \/ SameOthers(job[p].tunnel, chain[l], chain'[l])
<1>0. Typed /\ Mutex /\ ChainsOK
    BY DEF RulesInv, TagInv
<1>1. lock = p /\ pc[p] = "delete"
    BY <1>0 DEF delete, Mutex
<1>2. Tagged("delete", job[p], chain, foreign)
    BY <1>1 DEF TagInv, HolderTagged
<1> PICK m : m = job[p].victim[1]
    OBVIOUS
<1> PICK n : n = job[p].victim[2]
    OBVIOUS
<1>3. m \in Location /\ n \in DOMAIN chain[m] /\ chain[m][n].owner = job[p].tunnel
    BY <1>2 DEF Tagged
<1>4. chain' = [chain EXCEPT ![m] = RemoveAt(@, n)]
    BY DEF delete
<1>5. chain[m] \in Seq(RuleType) /\ chain'[m] = RemoveAt(chain[m], n)
      /\ \A k \in Location : k # m => chain'[k] = chain[k]
    BY <1>0, <1>3, <1>4 DEF ChainsOK
<1>6. SameOthers(job[p].tunnel, chain[m], RemoveAt(chain[m], n))
    BY <1>3, <1>5, RemoveKeepsOthers
<1> QED BY <1>5, <1>6

\* The same of a rule added ...
LEMMA AddSparesOthers ==
    ASSUME TagInv, NEW p \in Process, add_if_missing(p), NEW l \in Location
    PROVE  \/ chain'[l] = chain[l]
           \/ SameOthers(job[p].tunnel, chain[l], chain'[l])
<1>0. Typed /\ Mutex /\ ChainsOK
    BY DEF RulesInv, TagInv
<1> PICK r : r = Plan(p)[job[p].rule]
    OBVIOUS
<1>1. /\ r \in RuleType /\ r.owner = job[p].tunnel
      /\ chain' = chain \/ chain' = [chain EXCEPT ![r.location] = Append(@, r)]
    BY <1>0, AddMoves, Zenon
<1>2. CASE chain' = [chain EXCEPT ![r.location] = Append(@, r)]
    <2> PICK m : m = r.location
        OBVIOUS
    <2>1. m \in Location
        BY <1>1 DEF RuleType
    <2>2. chain[m] \in Seq(RuleType) /\ chain'[m] = Append(chain[m], r)
          /\ \A k \in Location : k # m => chain'[k] = chain[k]
        BY <1>0, <1>2, <2>1 DEF ChainsOK
    <2>3. SameOthers(job[p].tunnel, chain[m], Append(chain[m], r))
        BY <1>1, <2>2, AppendKeepsOthers, Zenon
    <2> QED BY <2>2, <2>3
<1> QED BY <1>1, <1>2

\* ... and of one taken back.
LEMMA UndoSparesOthers ==
    ASSUME TagInv, NEW p \in Process, undo_rules(p), NEW l \in Location
    PROVE  \/ chain'[l] = chain[l]
           \/ SameOthers(job[p].tunnel, chain[l], chain'[l])
<1>0. Typed /\ Mutex /\ ChainsOK
    BY DEF RulesInv, TagInv
<1>1. lock = p /\ job[p] \in JobType
    BY <1>0 DEF undo_rules, Mutex, Typed
<1> PICK r : r = job[p].added[Len(job[p].added)]
    OBVIOUS
<1> PICK found : found = {i \in DOMAIN chain[r.location] : chain[r.location][i] = r}
    OBVIOUS
<1>2. r \in RuleType /\ r.owner = job[p].tunnel
    <2>1. job[p].added \in Seq(RuleType) /\ job[p].added # <<>>
        BY <1>1 DEF JobType, undo_rules
    <2>2. Len(job[p].added) \in DOMAIN job[p].added
        BY <2>1
    <2>3. \A k \in DOMAIN job[p].added : job[p].added[k].owner = job[p].tunnel
        BY <1>1 DEF TagInv, HolderTagged, Tagged
    <2> QED BY <2>1, <2>2, <2>3
<1>3. \/ found # {} /\ chain' = [chain EXCEPT ![r.location] = RemoveAt(@, First(found))]
      \/ UNCHANGED chain
    BY Zenon DEF undo_rules
<1>4. CASE found # {} /\ chain' = [chain EXCEPT ![r.location] = RemoveAt(@, First(found))]
    <2> PICK m : m = r.location
        OBVIOUS
    <2>1. m \in Location
        BY <1>2 DEF RuleType
    <2>2. chain[m] \in Seq(RuleType)
        BY <1>0, <2>1 DEF ChainsOK
    <2>3. found \in SUBSET Nat
        <3>1. DOMAIN chain[m] \subseteq Nat
            BY <2>2, RuleNumbers, Zenon
        <3> QED BY <3>1
    <2>4. First(found) \in found
        BY <1>4, <2>3, FirstIsMember
    <2> PICK n : n = First(found)
        OBVIOUS
    <2>5. n \in DOMAIN chain[m] /\ chain[m][n] = r
        BY <2>4
    <2>6. chain'[m] = RemoveAt(chain[m], n)
          /\ \A k \in Location : k # m => chain'[k] = chain[k]
        BY <1>0, <1>4, <2>1 DEF ChainsOK
    <2>7. SameOthers(job[p].tunnel, chain[m], RemoveAt(chain[m], n))
        BY <1>2, <2>2, <2>5, RemoveKeepsOthers
    <2> QED BY <2>6, <2>7
<1> QED BY <1>3, <1>4

\* A gateway command changes only the rules with its own tunnel's tag, however
\* many processes run, are killed and meet failures, unless another service
\* edits the chains meanwhile.
THEOREM OthersLeftAlone == GatewaySpec => OthersUntouched
<1> DEFINE Spared ==
        foreign > 0 \/ Environment \/ \A l \in Location :
            \/ chain'[l] = chain[l]
            \/ lock # Nobody /\ SameOthers(job[lock].tunnel, chain[l], chain'[l])
<1>1. ASSUME TagInv, GatewayNext
      PROVE  Spared
    <2> SUFFICES ASSUME foreign = 0, ~Environment, NEW l \in Location
                 PROVE  \/ chain'[l] = chain[l]
                        \/ lock # Nobody /\ SameOthers(job[lock].tunnel, chain[l], chain'[l])
        <3>1. foreign \in Nat
            BY <1>1 DEF TagInv
        <3>2. foreign = 0 \/ foreign > 0
            BY <3>1
        <3> QED BY <3>2, Zenon
    <2>0. Typed /\ Mutex
        BY <1>1 DEF RulesInv, TagInv
    <2>1. ASSUME NEW p \in Process, HolderStep(p)
          PROVE  \/ chain'[l] = chain[l]
                 \/ lock # Nobody /\ SameOthers(job[lock].tunnel, chain[l], chain'[l])
        <3>1. CASE delete(p) \/ add_if_missing(p) \/ undo_rules(p)
            <4>1. lock = p /\ lock # Nobody
                BY <2>0, <3>1, GatewayAssumption
                   DEF Mutex, delete, add_if_missing, undo_rules
            <4>2. \/ chain'[l] = chain[l]
                  \/ SameOthers(job[p].tunnel, chain[l], chain'[l])
                BY <1>1, <3>1, DeleteSparesOthers, AddSparesOthers, UndoSparesOthers
            <4> QED BY <4>1, <4>2
        <3>2. CASE ~(delete(p) \/ add_if_missing(p) \/ undo_rules(p))
            <4>1. UNCHANGED chain
                BY <2>1, <3>2 DEF HolderStep, create_original, write_original,
                   record_gateway, RecordFails, compare, list, enable_forwarding,
                   CommandFails, undo_marker, undo_forwarding, remove_original,
                   remove_marker, restore_forwarding, FileFails
            <4> QED BY <4>1
        <3> QED BY <3>1, <3>2
    <2>2. ASSUME NEW p \in Process,
                 \/ TakeLock(p)
                 \/ \E op \in {"apply", "remove"}, t \in Tunnel, q \in Policy \cup {"any"} :
                       Start(p, op, t, q) /\ (op = "apply" => q \in Policy)
                 \/ Unlock(p) \/ Kill(p)
          PROVE  chain'[l] = chain[l]
        BY <2>2 DEF TakeLock, Start, Unlock, Kill
    <2> QED BY <1>1, <2>1, <2>2, StepKinds
<1>2. GatewayInit => TagInv
    <2> SUFFICES ASSUME GatewayInit
                 PROVE  TagInv
        OBVIOUS
    <2>1. \A p \in Process : lock # p
        BY GatewayAssumption DEF GatewayInit
    <2> QED BY <2>1, RulesInit DEF TagInv, GatewayInit
<1>3. TagInv /\ [GatewayNext]_vars => TagInv'
    BY TagStep
<1>4. TagInv /\ [GatewayNext]_vars => [Spared]_vars
    BY <1>1
<1> QED BY <1>2, <1>3, <1>4, PTL DEF GatewaySpec, OthersUntouched
=============================================================================
