-------------------------- MODULE SchedulerProofs --------------------------
(***************************************************************************)
(* Proofs about the maintenance timers (Scheduler), for any peers and any   *)
(* timeouts Config::validate accepts: no active session is left without a   *)
(* packet from the current port, no tick discards a session younger than    *)
(* its timeout and, under the hypotheses the theorem states, none outlives  *)
(* its timeout by more than a tick for every other peer.                    *)
(***************************************************************************)
EXTENDS Scheduler, FiniteSetTheorems, TLAPS

Age == 0 .. Never
T(p) == recovery_policy(p).timeout

Typed ==
    /\ active \in [Peer -> BOOLEAN] /\ pending \in [Peer -> BOOLEAN]
    /\ last_seen \in [Peer -> Age] /\ last_sent \in [Peer -> Age]
    /\ Peer # {} => last_udp_rebind_attempt \in Age
    /\ last_session_recovery_attempt \in [Peer -> Age]
    /\ phase \in {"retry", "recover", "keepalive", "rest"}
    /\ snapshot \in [Peer -> Age] /\ rebound \in BOOLEAN
    /\ announced \in [Peer -> BOOLEAN]
    /\ session_age \in [Peer -> Age]
    /\ unrecorded \subseteq Peer /\ settled \subseteq Peer

\* A session whose last packet was recorded is at least as old as that packet;
\* the tick keeps this of what it has read, which it forgets when it goes on.
SeenSince ==
    /\ \A p \in Peer : active[p] /\ p \notin unrecorded => last_seen[p] <= session_age[p]
    /\ \A p \in settled : snapshot[p] <= session_age[p]
    /\ phase # "recover" => settled = {}

\* A session that has not sent from the current port is about to.
AboutToAnnounce ==
    /\ rebound => phase = "keepalive"
    /\ \A p \in Peer : active[p] => announced[p] \/ rebound

\* The inductive invariant about types, sessions and ports.
TickInv == Typed /\ SeenSince /\ AboutToAnnounce

\* The sessions RecoveredInTime is about.
Watched(p) == active[p] /\ p \notin unrecorded /\ recovery_enabled(p)

\* The peers but p that were recovered in the last d ticks.
Tried(p, d) == {q \in Peer \ {p} : LastAttempt(q) <= d}

\* How long a watched session has been silent beyond its timeout is paid for by
\* the recoveries of other peers, one each tick.
Paid(p) ==
    (Watched(p) /\ last_sent[p] # Never /\ T(p) <= last_seen[p]) =>
        LET d == last_seen[p] - T(p)
        IN  Cardinality(Tried(p, d)) >=
                (IF phase \in {"keepalive", "rest"} THEN d + 1 ELSE d)

\* A watched session was not tried since its last packet, and has sent a
\* keepalive by the end of its first tick.
Silence(p) ==
    /\ Watched(p) =>
          /\ last_seen[p] # Never
          /\ last_seen[p] <= LastAttempt(p) \/ T(p) <= LastAttempt(p)
          /\ last_sent[p] = Never => last_seen[p] <= (IF phase = "rest" THEN 0 ELSE 1)
    /\ Paid(p)

\* The inductive invariant about the silence of a session.
SilenceInv ==
    /\ TickInv
    /\ phase = "recover" => \A p \in Peer : last_seen[p] \in {0, snapshot[p]}
    /\ \A p \in Peer : Silence(p)

\* One peer at most asks for a fresh port, and no timeout is shorter, in ticks,
\* than the list of peers.
RecoveriesApart ==
    /\ \A p, q \in Peer : recovery_policy(p).rebind_udp /\ recovery_policy(q).rebind_udp => p = q
    /\ \A p \in Peer : recovery_enabled(p) => Len(Peers) <= T(p)

----------------------------------------------------------------------------
(***************************************************************************)
(* Policies and ages.                                                      *)
(***************************************************************************)

\* The policies as numbers.
LEMMA PolicyFacts ==
    /\ MaxAge \in Nat /\ Never = MaxAge + 1 /\ Len(Peers) \in Nat
    /\ \A p \in Peer :
          /\ T(p) \in 0 .. MaxAge
          /\ persistent_keepalive[p] \in 0 .. MaxAge
          /\ udp_rebind_after[p] \in 0 .. MaxAge
          /\ session_timeout[p] \in 0 .. MaxAge
          /\ LongestSilence(p) = T(p) + Len(Peers) - 1
          /\ 1 <= Len(Peers) /\ LongestSilence(p) \in 0 .. MaxAge
          /\ recovery_policy(p).rebind_udp \in BOOLEAN
          /\ recovery_policy(p).rebind_udp =>
                T(p) = udp_rebind_after[p] /\ Transport = "udp" /\ T(p) > 0
          /\ ~recovery_policy(p).rebind_udp => T(p) = session_timeout[p]
          /\ recovery_enabled(p) => T(p) >= 2 /\ persistent_keepalive[p] # 0
<1>1. MaxAge \in Nat /\ Never = MaxAge + 1 /\ Len(Peers) \in Nat
    BY SchedulerAssumption DEF Never
<1>2. ASSUME NEW p \in Peer
      PROVE  /\ persistent_keepalive[p] \in 0 .. MaxAge
             /\ udp_rebind_after[p] \in 0 .. MaxAge
             /\ session_timeout[p] \in 0 .. MaxAge
    BY SchedulerAssumption
<1>3. ASSUME NEW p \in Peer PROVE 1 <= Len(Peers)
    BY <1>1, SchedulerAssumption DEF Peer
<1>4. ASSUME NEW p \in Peer
      PROVE  /\ T(p) \in 0 .. MaxAge
             /\ LongestSilence(p) = T(p) + Len(Peers) - 1
             /\ recovery_policy(p).rebind_udp \in BOOLEAN
             /\ recovery_policy(p).rebind_udp =>
                   T(p) = udp_rebind_after[p] /\ Transport = "udp" /\ T(p) > 0
             /\ ~recovery_policy(p).rebind_udp => T(p) = session_timeout[p]
    BY <1>2 DEF T, recovery_policy, LongestSilence
<1>5. ASSUME NEW p \in Peer
      PROVE  /\ LongestSilence(p) \in 0 .. MaxAge
             /\ recovery_enabled(p) => T(p) >= 2 /\ persistent_keepalive[p] # 0
    <2>1. LongestSilence(p) <= MaxAge
        BY PolicyAssumption
    <2>2. recovery_enabled(p) => 0 < persistent_keepalive[p] /\ persistent_keepalive[p] < T(p)
        BY PolicyAssumption DEF T
    <2> QED BY <1>1, <1>2, <1>3, <1>4, <2>1, <2>2
<1> QED BY <1>1, <1>2, <1>3, <1>4, <1>5

\* A tick makes an age at most one tick older, and None stays None.
LEMMA OlderFacts ==
    ASSUME NEW age \in Age, NEW most \in 0 .. MaxAge
    PROVE  /\ Older(age, most) \in Age
           /\ Older(age, most) \in {age, age + 1}
           /\ age < most => Older(age, most) = age + 1
           /\ most <= age => Older(age, most) = age
           /\ Older(age, most) = Never <=> age = Never
BY PolicyFacts DEF Older, Age

\* A nonempty set of naturals has a smallest element.
LEMMA Smallest ==
    ASSUME NEW S \in SUBSET Nat, S # {}
    PROVE  \E x \in S : \A y \in S : x <= y
<1> DEFINE R == OpToRel(<, Nat)
<1>1. IsWellFoundedOn(R, Nat)
    BY NatLessThanWellFounded
<1>2. R = {ss \in Nat \X Nat : ss[1] < ss[2]}
    BY Zenon DEF R, OpToRel
<1> HIDE DEF R
<1>3. \E x \in S : \A y \in S : ~(<<y, x>> \in R)
    BY <1>1, WFMin
<1>4. PICK x \in S : \A y \in S : ~(<<y, x>> \in R)
    BY <1>3
<1>5. ASSUME NEW y \in S
      PROVE  x <= y
    <2>1. x \in Nat /\ y \in Nat /\ ~(<<y, x>> \in R)
        BY <1>4
    <2>2. y < x => <<y, x>> \in R
        BY <1>2, <2>1
    <2> QED BY <2>1, <2>2
<1> QED BY <1>5

\* The interval between rebinds is a timeout, the longest of them.
LEMMA RebindIntervalFacts ==
    ASSUME Peer # {}
    PROVE  /\ RebindInterval \in 0 .. MaxAge
           /\ \E p \in Peer : RebindInterval = udp_rebind_after[p]
           /\ \A p \in Peer : udp_rebind_after[p] <= RebindInterval
<1> DEFINE S == {MaxAge - udp_rebind_after[p] : p \in Peer}
<1>1. S \in SUBSET Nat /\ S # {}
    <2>1. \A p \in Peer : MaxAge - udp_rebind_after[p] \in Nat
        BY PolicyFacts
    <2> QED BY <2>1
<1> HIDE DEF S
<1>2. PICK x \in S : \A y \in S : x <= y
    BY <1>1, Smallest
<1>3. PICK p \in Peer : x = MaxAge - udp_rebind_after[p]
    BY DEF S
<1>4. ASSUME NEW q \in Peer PROVE udp_rebind_after[q] <= udp_rebind_after[p]
    <2>1. x <= MaxAge - udp_rebind_after[q]
        BY <1>2 DEF S
    <2>2. /\ MaxAge \in Nat /\ udp_rebind_after[p] \in 0 .. MaxAge
          /\ udp_rebind_after[q] \in 0 .. MaxAge
        BY PolicyFacts
    <2> QED BY <1>3, <2>1, <2>2
<1>5. \E t \in {udp_rebind_after[q] : q \in Peer} : \A q \in Peer : udp_rebind_after[q] <= t
    BY <1>4
<1>6. /\ RebindInterval \in {udp_rebind_after[q] : q \in Peer}
      /\ \A q \in Peer : udp_rebind_after[q] <= RebindInterval
    BY <1>5, Zenon DEF RebindInterval
<1> QED BY <1>6, PolicyFacts

\* The first peer that is due is one that is due.
LEMMA FirstDueFacts ==
    ASSUME \E p \in Peer : Due(p)
    PROVE  Peers[FirstDue] \in Peer /\ Due(Peers[FirstDue])
<1> DEFINE S == {i \in DOMAIN Peers : Due(Peers[i])}
<1>1. S \in SUBSET Nat /\ S # {}
    BY SchedulerAssumption DEF Peer
<1> HIDE DEF S
<1>2. PICK i \in S : \A k \in S : i <= k
    BY <1>1, Smallest
<1>3. i \in DOMAIN Peers /\ Due(Peers[i])
    BY <1>2 DEF S
<1>4. ASSUME NEW k \in 1 .. i - 1 PROVE ~Due(Peers[k])
    <2>1. k \in DOMAIN Peers /\ ~(i <= k)
        <3>1. DOMAIN Peers = 1 .. Len(Peers) /\ Len(Peers) \in Nat
            BY SchedulerAssumption
        <3> QED BY <1>3, <3>1
    <2> QED BY <1>2, <2>1 DEF S
<1>5. FirstDue \in DOMAIN Peers /\ Due(Peers[FirstDue])
    BY <1>3, <1>4, Zenon DEF FirstDue
<1> QED BY <1>5 DEF Peer

\* A peer is due only if it was silent for its timeout, and was not tried since.
LEMMA DueFacts ==
    ASSUME Typed, NEW p \in Peer
    PROVE  /\ LastAttempt(p) \in Age /\ snapshot[p] \in Age
           /\ Due(p) => /\ active[p] /\ recovery_enabled(p)
                        /\ T(p) <= snapshot[p] /\ T(p) <= LastAttempt(p)
           /\ (/\ recovery_enabled(p) /\ active[p] /\ last_sent[p] # Never
               /\ snapshot[p] # Never /\ T(p) <= snapshot[p]
               /\ snapshot[p] <= LastAttempt(p) \/ T(p) <= LastAttempt(p)) => Due(p)
<1>1. LastAttempt(p) \in Age /\ snapshot[p] \in Age
    BY PolicyFacts DEF LastAttempt, Typed
<1>2. T(p) \in Nat /\ T(p) <= Never
    BY PolicyFacts
<1> DEFINE a == LastAttempt(p)
<1> HIDE DEF a
<1>3. a \in Nat /\ a <= Never /\ snapshot[p] \in Nat /\ snapshot[p] <= Never
    BY <1>1, PolicyFacts DEF Age, a
<1>4. recovery_due(snapshot[p], a, T(p)) <=> T(p) <= snapshot[p] /\ T(p) <= a
    BY <1>2, <1>3, PolicyFacts DEF recovery_due
<1>5. Due(p) <=> /\ recovery_enabled(p) /\ last_sent[p] # Never /\ active[p]
                 /\ snapshot[p] # Never /\ T(p) <= snapshot[p] /\ T(p) <= a
    BY <1>4 DEF Due, T, a
<1>6. T(p) <= snapshot[p] /\ snapshot[p] <= a => T(p) <= a
    BY <1>2, <1>3
<1> QED BY <1>1, <1>5, <1>6 DEF a

----------------------------------------------------------------------------
(***************************************************************************)
(* Types, sessions and ports.                                              *)
(***************************************************************************)

\* A second later every age is an age.
LEMMA ElapseFacts ==
    ASSUME Typed, Elapse
    PROVE  /\ phase = "rest" /\ phase' = "retry"
           /\ UNCHANGED <<unrecorded, announced, snapshot, rebound, settled>>
           /\ active' \in [Peer -> BOOLEAN]
           /\ last_seen' \in [Peer -> Age] /\ last_sent' \in [Peer -> Age]
           /\ session_age' \in [Peer -> Age]
           /\ last_session_recovery_attempt' \in [Peer -> Age]
           /\ Peer # {} => last_udp_rebind_attempt' \in Age
           /\ \A p \in Peer :
                 /\ last_seen'[p] = Older(last_seen[p], LongestSilence(p))
                 /\ last_sent'[p] = Older(last_sent[p], persistent_keepalive[p])
                 /\ active'[p] => active[p] /\ session_age'[p] = session_age[p] + 1
                 /\ last_session_recovery_attempt'[p] =
                       Older(last_session_recovery_attempt[p], session_timeout[p])
<1>1. /\ phase = "rest" /\ phase' = "retry"
      /\ UNCHANGED <<unrecorded, announced, snapshot, rebound, settled>>
    BY DEF Elapse
<1>2. /\ last_seen' = [p \in Peer |-> Older(last_seen[p], LongestSilence(p))]
      /\ last_sent' = [p \in Peer |-> Older(last_sent[p], persistent_keepalive[p])]
      /\ last_session_recovery_attempt' = [p \in Peer |->
            Older(last_session_recovery_attempt[p], session_timeout[p])]
    BY DEF Elapse
<1>3. ASSUME NEW p \in Peer
      PROVE  /\ Older(last_seen[p], LongestSilence(p)) \in Age
             /\ Older(last_sent[p], persistent_keepalive[p]) \in Age
             /\ Older(last_session_recovery_attempt[p], session_timeout[p]) \in Age
    <2>1. /\ last_seen[p] \in Age /\ last_sent[p] \in Age
          /\ last_session_recovery_attempt[p] \in Age
        BY DEF Typed
    <2>2. /\ LongestSilence(p) \in 0 .. MaxAge /\ persistent_keepalive[p] \in 0 .. MaxAge
          /\ session_timeout[p] \in 0 .. MaxAge
        BY PolicyFacts
    <2> QED BY <2>1, <2>2, OlderFacts
<1>4. Peer # {} => last_udp_rebind_attempt' \in Age
    BY OlderFacts, RebindIntervalFacts DEF Elapse, Typed
<1>5. /\ active' = [p \in Peer |-> LivesOn(p)]
      /\ session_age' = [p \in Peer |-> IF LivesOn(p) THEN session_age[p] + 1 ELSE Never]
    BY DEF Elapse
<1>6. ASSUME NEW p \in Peer
      PROVE  /\ LivesOn(p) \in BOOLEAN
             /\ LivesOn(p) => active[p] /\ session_age[p] + 1 \in Age
             /\ Never \in Age
    <2>1. session_age[p] \in Age /\ active[p] \in BOOLEAN
        BY DEF Typed
    <2>2. RejectAfter \in Nat /\ RejectAfter <= MaxAge
        BY SchedulerAssumption
    <2> QED BY <2>1, <2>2, PolicyFacts DEF LivesOn, Age
<1>7. active' \in [Peer -> BOOLEAN] /\ session_age' \in [Peer -> Age]
    BY <1>5, <1>6
<1>8. ASSUME NEW p \in Peer, active'[p]
      PROVE  active[p] /\ session_age'[p] = session_age[p] + 1
    BY <1>5, <1>6, <1>8
<1> QED BY <1>1, <1>2, <1>3, <1>4, <1>7, <1>8, Zenon

\* The peer that a tick recovers.
LEMMA RecoverFacts ==
    ASSUME Typed, NEW ok \in BOOLEAN, Recover(ok)
    PROVE  \E f \in Peer :
              /\ Due(f) /\ phase = "recover" /\ phase' = "keepalive"
              /\ active' = [active EXCEPT ![f] = FALSE]
              /\ session_age' = [session_age EXCEPT ![f] = Never]
              /\ pending' = [pending EXCEPT ![f] = TRUE]
              /\ UNCHANGED <<last_seen, last_sent, unrecorded>>
              /\ snapshot' = [p \in Peer |-> Never] /\ settled' = {}
              /\ \/ /\ recovery_policy(f).rebind_udp
                    /\ last_udp_rebind_attempt' = 0 /\ rebound' = ok
                    /\ announced' = [q \in Peer |-> announced[q] /\ ~ok]
                    /\ UNCHANGED last_session_recovery_attempt
                 \/ /\ ~recovery_policy(f).rebind_udp
                    /\ last_session_recovery_attempt' =
                          [last_session_recovery_attempt EXCEPT ![f] = 0]
                    /\ UNCHANGED <<last_udp_rebind_attempt, rebound, announced>>
<1> PICK f : f = Peers[FirstDue]
    OBVIOUS
<1>1. f \in Peer /\ Due(f)
    BY FirstDueFacts DEF Recover
<1> QED BY <1>1 DEF Recover, Replace, AfterRecovery

\* A completed handshake.
LEMMA EstablishFacts ==
    ASSUME Typed, NEW p \in Peer, Completed(p) \/ PeerInitiates(p)
    PROVE  /\ active' = [active EXCEPT ![p] = TRUE]
           /\ announced' = [announced EXCEPT ![p] = TRUE]
           /\ session_age' = [session_age EXCEPT ![p] = 0]
           /\ pending' = [pending EXCEPT ![p] = FALSE]
           /\ \/ unrecorded' = unrecorded \cup {p} /\ UNCHANGED last_seen
              \/ last_seen' = [last_seen EXCEPT ![p] = 0] /\ UNCHANGED unrecorded
           /\ settled' = settled \ {p}
           /\ UNCHANGED <<timers, phase, snapshot, rebound>>
BY DEF Completed, PeerInitiates, Establish

\* What the peers and the network do leaves the node alone.
LEMMA WorldFacts ==
    ASSUME NEW p \in Peer, PeerStops(p) \/ PeerStarts(p) \/ PathLost(p)
    PROVE  UNCHANGED <<timers, active, pending, last_seen, unrecorded, announced,
                       session_age, tickState>>
BY DEF PeerStops, PeerStarts, PathLost, engineState

\* A packet is recorded.
LEMMA PacketFacts ==
    ASSUME NEW p \in Peer, Record(p) \/ Acknowledged(p)
    PROVE  /\ last_seen' = [last_seen EXCEPT ![p] = 0]
           /\ \/ unrecorded' = unrecorded \ {p}
              \/ UNCHANGED unrecorded /\ active[p]
           /\ UNCHANGED <<timers, active, pending, announced, session_age, tickState>>
BY DEF Record, Acknowledged

\* Every step is one of these.
LEMMA StepKinds ==
    ASSUME [SchedulerNext]_vars
    PROVE  \/ Elapse \/ RetryAndSnapshot \/ (\E ok \in BOOLEAN : Recover(ok))
           \/ NothingDue \/ SendKeepalives \/ UNCHANGED vars
           \/ \E p \in Peer : \/ Completed(p) \/ PeerInitiates(p)
                              \/ Record(p) \/ Acknowledged(p)
                              \/ PeerStops(p) \/ PeerStarts(p) \/ PathLost(p)
<1>1. TRUE \in BOOLEAN /\ FALSE \in BOOLEAN
    OBVIOUS
<1> QED BY <1>1, Zenon DEF SchedulerNext, Tick

\* Types are kept.
LEMMA TypedStep ==
    ASSUME Typed, [SchedulerNext]_vars
    PROVE  Typed'
<1>0. 0 \in Age /\ Never \in Age
    BY PolicyFacts DEF Age
<1>1. CASE Elapse
    <2>1. pending' = pending
        BY <1>1 DEF Elapse
    <2> QED BY <1>1, <2>1, ElapseFacts DEF Typed
<1>2. CASE RetryAndSnapshot
    BY <1>2 DEF Typed, RetryAndSnapshot, timers, engineState
<1>3. ASSUME NEW ok \in BOOLEAN, Recover(ok) PROVE Typed'
    <2>1. PICK f \in Peer :
             /\ phase' = "keepalive"
             /\ active' = [active EXCEPT ![f] = FALSE]
             /\ session_age' = [session_age EXCEPT ![f] = Never]
             /\ pending' = [pending EXCEPT ![f] = TRUE]
             /\ UNCHANGED <<last_seen, last_sent, unrecorded>>
             /\ snapshot' = [p \in Peer |-> Never] /\ settled' = {}
             /\ \/ /\ last_udp_rebind_attempt' = 0 /\ rebound' = ok
                   /\ announced' = [q \in Peer |-> announced[q] /\ ~ok]
                   /\ UNCHANGED last_session_recovery_attempt
                \/ /\ last_session_recovery_attempt' =
                         [last_session_recovery_attempt EXCEPT ![f] = 0]
                   /\ UNCHANGED <<last_udp_rebind_attempt, rebound, announced>>
        BY <1>3, RecoverFacts
    <2>2. /\ active' \in [Peer -> BOOLEAN] /\ pending' \in [Peer -> BOOLEAN]
          /\ session_age' \in [Peer -> Age] /\ snapshot' \in [Peer -> Age]
        BY <1>0, <2>1 DEF Typed
    <2>3. announced' \in [Peer -> BOOLEAN] /\ rebound' \in BOOLEAN
        BY <2>1 DEF Typed
    <2>4. /\ last_session_recovery_attempt' \in [Peer -> Age]
          /\ Peer # {} => last_udp_rebind_attempt' \in Age
        BY <1>0, <2>1 DEF Typed
    <2> QED BY <2>1, <2>2, <2>3, <2>4 DEF Typed
<1>4. CASE NothingDue
    BY <1>0, <1>4 DEF Typed, NothingDue, AfterRecovery, timers, engineState
<1>5. CASE SendKeepalives
    <2>1. \A p \in Peer : last_sent_after(p) \in Age
        BY <1>0 DEF Typed, last_sent_after
    <2>2. last_sent' \in [Peer -> Age]
        BY <1>5, <2>1 DEF SendKeepalives
    <2>3. /\ pending' \in [Peer -> BOOLEAN] /\ announced' \in [Peer -> BOOLEAN]
          /\ phase' = "rest" /\ rebound' = FALSE
          /\ UNCHANGED <<active, last_seen, unrecorded, session_age, last_udp_rebind_attempt,
                         last_session_recovery_attempt, snapshot, settled>>
        BY <1>5 DEF SendKeepalives
    <2> QED BY <2>2, <2>3 DEF Typed
<1>6. ASSUME NEW p \in Peer, Completed(p) \/ PeerInitiates(p) PROVE Typed'
    <2>1. last_seen' \in [Peer -> Age]
        BY <1>0, <1>6, EstablishFacts DEF Typed
    <2>2. /\ active' \in [Peer -> BOOLEAN] /\ pending' \in [Peer -> BOOLEAN]
          /\ announced' \in [Peer -> BOOLEAN] /\ session_age' \in [Peer -> Age]
        <3>1. /\ active \in [Peer -> BOOLEAN] /\ pending \in [Peer -> BOOLEAN]
              /\ announced \in [Peer -> BOOLEAN] /\ session_age \in [Peer -> Age]
            BY DEF Typed
        <3>2. active' \in [Peer -> BOOLEAN] /\ pending' \in [Peer -> BOOLEAN]
            BY <1>0, <1>6, <3>1, EstablishFacts
        <3>3. announced' \in [Peer -> BOOLEAN]
            BY <1>0, <1>6, <3>1, EstablishFacts
        <3>4. session_age' \in [Peer -> Age]
            BY <1>0, <1>6, <3>1, EstablishFacts
        <3> QED BY <3>2, <3>3, <3>4
    <2>3. unrecorded' \subseteq Peer /\ settled' \subseteq Peer
        BY <1>6, EstablishFacts DEF Typed
    <2>4. UNCHANGED <<timers, phase, snapshot, rebound>>
        BY <1>6, EstablishFacts
    <2> QED BY <2>1, <2>2, <2>3, <2>4 DEF Typed, timers
<1>7. ASSUME NEW p \in Peer, Record(p) \/ Acknowledged(p) PROVE Typed'
    BY <1>0, <1>7, PacketFacts DEF Typed, timers, tickState
<1>8. ASSUME NEW p \in Peer, PeerStops(p) \/ PeerStarts(p) \/ PathLost(p) PROVE Typed'
    BY <1>8, WorldFacts DEF Typed, timers, tickState
<1>9. CASE UNCHANGED vars
    BY <1>9 DEF Typed, vars, timers, engineState, tickState
<1> QED BY <1>1, <1>2, <1>3, <1>4, <1>5, <1>6, <1>7, <1>8, <1>9, StepKinds

\* A session keeps being at least as old as its last packet.
LEMMA SeenSinceStep ==
    ASSUME Typed, SeenSince, [SchedulerNext]_vars
    PROVE  SeenSince'
<1> USE PolicyFacts DEF Age
<1>1. CASE Elapse
    <2>1. ASSUME NEW p \in Peer, active'[p], p \notin unrecorded'
          PROVE  last_seen'[p] <= session_age'[p]
        <3>1. /\ last_seen[p] <= session_age[p]
              /\ last_seen'[p] = Older(last_seen[p], LongestSilence(p))
              /\ session_age'[p] = session_age[p] + 1
            BY <1>1, <2>1, ElapseFacts DEF SeenSince
        <3>2. last_seen[p] \in Age /\ session_age[p] \in Age
            BY DEF Typed
        <3>3. last_seen'[p] \in {last_seen[p], last_seen[p] + 1}
            BY <3>1, <3>2, OlderFacts
        <3>4. last_seen[p] \in Nat /\ session_age[p] \in Nat
            BY <3>2, PolicyFacts DEF Age
        <3> QED BY <3>1, <3>3, <3>4
    <2>2. settled' = {}
        BY <1>1, ElapseFacts DEF SeenSince
    <2> QED BY <2>1, <2>2 DEF SeenSince
<1>2. CASE RetryAndSnapshot
    BY <1>2 DEF SeenSince, RetryAndSnapshot, engineState
<1>3. ASSUME NEW ok \in BOOLEAN, Recover(ok) PROVE SeenSince'
    <2>1. PICK f \in Peer :
             /\ phase' = "keepalive"
             /\ active' = [active EXCEPT ![f] = FALSE]
             /\ session_age' = [session_age EXCEPT ![f] = Never]
             /\ UNCHANGED <<last_seen, unrecorded>> /\ settled' = {}
        BY <1>3, RecoverFacts
    <2>2. \A p \in Peer : active'[p] => active[p] /\ session_age'[p] = session_age[p]
        BY <2>1 DEF Typed
    <2> QED BY <2>1, <2>2 DEF SeenSince
<1>4. CASE NothingDue
    BY <1>4 DEF SeenSince, NothingDue, AfterRecovery, engineState
<1>5. CASE SendKeepalives
    BY <1>5 DEF SeenSince, SendKeepalives
<1>6. ASSUME NEW p \in Peer, Completed(p) \/ PeerInitiates(p) PROVE SeenSince'
    <2>1. /\ active' = [active EXCEPT ![p] = TRUE]
          /\ session_age' = [session_age EXCEPT ![p] = 0]
          /\ \/ unrecorded' = unrecorded \cup {p} /\ UNCHANGED last_seen
             \/ last_seen' = [last_seen EXCEPT ![p] = 0] /\ UNCHANGED unrecorded
          /\ settled' = settled \ {p}
          /\ UNCHANGED <<phase, snapshot>>
        BY <1>6, EstablishFacts
    <2>2. /\ \A q \in Peer : q # p =>
                /\ active'[q] = active[q] /\ session_age'[q] = session_age[q]
                /\ last_seen'[q] = last_seen[q] /\ (q \in unrecorded' <=> q \in unrecorded)
          /\ p \notin unrecorded' => last_seen'[p] = 0
          /\ session_age'[p] = 0
        BY <2>1 DEF Typed
    <2>3. \A q \in Peer : active'[q] /\ q \notin unrecorded' =>
             last_seen'[q] <= session_age'[q]
        <3>1. \A q \in Peer \ {p} : active'[q] /\ q \notin unrecorded' =>
                 last_seen'[q] <= session_age'[q]
            BY <2>2 DEF SeenSince
        <3>2. p \notin unrecorded' => last_seen'[p] <= session_age'[p]
            BY <2>2
        <3> QED BY <3>1, <3>2
    <2>4. \A q \in settled' : q \in settled /\ q \in Peer /\ session_age'[q] = session_age[q]
        BY <2>1, <2>2 DEF Typed
    <2> QED BY <2>1, <2>3, <2>4 DEF SeenSince
<1>7. ASSUME NEW p \in Peer, Record(p) \/ Acknowledged(p) PROVE SeenSince'
    <2>1. /\ last_seen' = [last_seen EXCEPT ![p] = 0]
          /\ unrecorded' = unrecorded \ {p} \/ UNCHANGED unrecorded
          /\ UNCHANGED <<active, session_age, tickState>>
        BY <1>7, PacketFacts
    <2>2. ASSUME NEW q \in Peer, active'[q], q \notin unrecorded'
          PROVE  last_seen'[q] <= session_age'[q]
        <3>1. CASE q = p
            BY <2>1, <3>1 DEF Typed
        <3>2. CASE q # p
            BY <2>1, <2>2, <3>2 DEF Typed, SeenSince
        <3> QED BY <3>1, <3>2
    <2> QED BY <2>1, <2>2 DEF SeenSince, tickState
<1>8. ASSUME NEW p \in Peer, PeerStops(p) \/ PeerStarts(p) \/ PathLost(p) PROVE SeenSince'
    BY <1>8, WorldFacts DEF SeenSince, tickState
<1>9. CASE UNCHANGED vars
    BY <1>9 DEF SeenSince, vars, engineState, tickState
<1> QED BY <1>1, <1>2, <1>3, <1>4, <1>5, <1>6, <1>7, <1>8, <1>9, StepKinds

\* After a rebind every session is announced before the tick ends.
LEMMA AnnounceStep ==
    ASSUME Typed, AboutToAnnounce, [SchedulerNext]_vars
    PROVE  AboutToAnnounce'
<1>1. CASE Elapse
    BY <1>1, ElapseFacts DEF AboutToAnnounce
<1>2. CASE RetryAndSnapshot
    BY <1>2 DEF AboutToAnnounce, RetryAndSnapshot, engineState
<1>3. ASSUME NEW ok \in BOOLEAN, Recover(ok) PROVE AboutToAnnounce'
    <2>1. PICK f \in Peer :
             /\ phase = "recover" /\ phase' = "keepalive"
             /\ active' = [active EXCEPT ![f] = FALSE]
             /\ \/ rebound' = ok /\ announced' = [q \in Peer |-> announced[q] /\ ~ok]
                \/ UNCHANGED <<rebound, announced>>
        BY <1>3, RecoverFacts
    <2>2. \A p \in Peer : active'[p] => active[p]
        BY <2>1 DEF Typed
    <2>3. ~rebound
        BY <2>1 DEF AboutToAnnounce
    <2>4. \A p \in Peer : announced[p] => announced'[p] \/ rebound'
        BY <2>1
    <2> QED BY <2>1, <2>2, <2>3, <2>4 DEF AboutToAnnounce
<1>4. CASE NothingDue
    BY <1>4 DEF AboutToAnnounce, NothingDue, AfterRecovery, engineState
<1>5. CASE SendKeepalives
    <2>1. \A p \in Peer : announced'[p] <=> announced[p] \/ (keepalive_should_send(p) /\ active[p])
        BY <1>5 DEF SendKeepalives
    <2>2. rebound => \A p \in Peer : keepalive_should_send(p)
        BY DEF keepalive_should_send
    <2>3. active' = active /\ rebound' = FALSE
        BY <1>5 DEF SendKeepalives
    <2> QED BY <2>1, <2>2, <2>3 DEF AboutToAnnounce
<1>6. ASSUME NEW p \in Peer, Completed(p) \/ PeerInitiates(p) PROVE AboutToAnnounce'
    <2>1. /\ active' = [active EXCEPT ![p] = TRUE]
          /\ announced' = [announced EXCEPT ![p] = TRUE]
          /\ UNCHANGED <<phase, rebound>>
        BY <1>6, EstablishFacts
    <2>2. \A q \in Peer : \/ announced'[q]
                          \/ active'[q] = active[q] /\ announced'[q] = announced[q]
        BY <2>1 DEF Typed
    <2> QED BY <2>1, <2>2 DEF AboutToAnnounce
<1>7. ASSUME NEW p \in Peer, Record(p) \/ Acknowledged(p) PROVE AboutToAnnounce'
    BY <1>7, PacketFacts DEF AboutToAnnounce, tickState
<1>8. ASSUME NEW p \in Peer, PeerStops(p) \/ PeerStarts(p) \/ PathLost(p)
      PROVE  AboutToAnnounce'
    BY <1>8, WorldFacts DEF AboutToAnnounce, tickState
<1>9. CASE UNCHANGED vars
    BY <1>9 DEF AboutToAnnounce, vars, engineState, tickState
<1> QED BY <1>1, <1>2, <1>3, <1>4, <1>5, <1>6, <1>7, <1>8, <1>9, StepKinds

\* The invariant holds at the start.
LEMMA TickInit ==
    ASSUME SchedulerInit
    PROVE  TickInv
<1>1. Never \in Age
    BY PolicyFacts DEF Age
<1>2. Typed
    BY <1>1 DEF SchedulerInit, Typed
<1>3. SeenSince
    BY DEF SchedulerInit, SeenSince
<1>4. AboutToAnnounce
    BY DEF SchedulerInit, AboutToAnnounce
<1> QED BY <1>2, <1>3, <1>4 DEF TickInv

\* The invariant about types, sessions and ports holds.
LEMMA TickSafe == SchedulerSpec => []TickInv
<1>1. SchedulerInit => TickInv
    BY TickInit
<1>2. TickInv /\ [SchedulerNext]_vars => TickInv'
    BY TypedStep, SeenSinceStep, AnnounceStep DEF TickInv
<1> QED BY <1>1, <1>2, PTL DEF SchedulerSpec

\* After the tick that rebinds the socket, whichever peer it was for and
\* whichever handshakes complete meanwhile, every active session has sent an
\* authenticated packet from the current port.
THEOREM EveryPortAnnounced == SchedulerSpec => []PortAnnounced
<1>1. TickInv => PortAnnounced
    BY DEF TickInv, AboutToAnnounce, PortAnnounced
<1> QED BY <1>1, TickSafe, PTL

\* No tick discards a session that is younger than the recovery timeout of its
\* peer, unless it was installed after the tick had read the statistics.
THEOREM YoungSessionsKept == SchedulerSpec => FreshSessionSurvives
<1>1. TickInv /\ [SchedulerNext]_vars =>
         [\A p \in settled : (active[p] /\ ~active'[p])
             => session_age[p] >= recovery_policy(p).timeout]_vars
    <2> SUFFICES ASSUME TickInv, [SchedulerNext]_vars, NEW p \in settled,
                        active[p], ~active'[p]
                 PROVE  T(p) <= session_age[p]
        BY DEF T
    <2>0. Typed /\ SeenSince /\ p \in Peer
        BY DEF TickInv, Typed
    <2>1. ASSUME NEW ok \in BOOLEAN, Recover(ok) PROVE T(p) <= session_age[p]
        <3>1. PICK f \in Peer :
                 Due(f) /\ phase = "recover" /\ active' = [active EXCEPT ![f] = FALSE]
            BY <2>0, <2>1, RecoverFacts
        <3>2. p = f
            BY <2>0, <3>1 DEF Typed
        <3>3. T(p) <= snapshot[p] /\ snapshot[p] \in Age
            BY <2>0, <3>1, <3>2, DueFacts
        <3>4. snapshot[p] <= session_age[p]
            BY <2>0 DEF SeenSince
        <3>5. session_age[p] \in Age
            BY <2>0 DEF Typed
        <3>6. T(p) \in Nat /\ snapshot[p] \in Nat /\ session_age[p] \in Nat
            BY <2>0, <3>3, <3>5, PolicyFacts DEF Age
        <3> QED BY <3>3, <3>4, <3>6
    <2>2. ASSUME NEW q \in Peer, Completed(q) \/ PeerInitiates(q) PROVE FALSE
        <3>1. active' = [active EXCEPT ![q] = TRUE]
            BY <2>0, <2>2, EstablishFacts
        <3> QED BY <2>0, <3>1 DEF Typed
    <2>3. CASE Elapse
        BY <2>0, <2>3 DEF Elapse, SeenSince
    <2>3a. CASE RetryAndSnapshot \/ NothingDue \/ SendKeepalives \/ UNCHANGED vars
        BY <2>3a DEF RetryAndSnapshot, NothingDue, SendKeepalives, engineState, vars
    <2>4. ASSUME NEW q \in Peer, \/ Record(q) \/ Acknowledged(q)
                                 \/ PeerStops(q) \/ PeerStarts(q) \/ PathLost(q)
          PROVE  FALSE
        BY <2>4, PacketFacts, WorldFacts
    <2> QED BY <2>1, <2>2, <2>3, <2>3a, <2>4, StepKinds
<1>2. SchedulerSpec => [][SchedulerNext]_vars
    BY PTL DEF SchedulerSpec
<1> QED BY <1>1, <1>2, TickSafe, PTL DEF FreshSessionSurvives

----------------------------------------------------------------------------
(***************************************************************************)
(* The silence of a session.                                               *)
(***************************************************************************)

\* The other peers are fewer than the list is long.
LEMMA PeersFinite ==
    ASSUME NEW p \in Peer
    PROVE  /\ IsFiniteSet(Peer \ {p}) /\ Cardinality(Peer \ {p}) \in Nat
           /\ Cardinality(Peer \ {p}) <= Len(Peers) - 1
<1>1. PICK n \in Nat : n = Len(Peers) /\ DOMAIN Peers = 1 .. n
    BY SchedulerAssumption
<1>2. Peers \in Surjection(1 .. n, Peer)
    BY <1>1, SchedulerAssumption DEF Surjection, Peer
<1>3. IsFiniteSet(1 .. n) /\ Cardinality(1 .. n) = n
    <2>1. 1 \in Int /\ n \in Int
        OBVIOUS
    <2>2. IsFiniteSet(1 .. n) /\ Cardinality(1 .. n) = (IF 1 > n THEN 0 ELSE n - 1 + 1)
        BY <2>1, FS_Interval
    <2>3. (IF 1 > n THEN 0 ELSE n - 1 + 1) = n
        OBVIOUS
    <2> QED BY <2>2, <2>3
<1>4. IsFiniteSet(Peer) /\ Cardinality(Peer) <= n /\ Cardinality(Peer) \in Nat
    BY <1>2, <1>3, FS_Surjection, FS_CardinalityType
<1>5. IsFiniteSet(Peer \ {p}) /\ Cardinality(Peer \ {p}) = Cardinality(Peer) - 1
    BY <1>4, FS_RemoveElement
<1>6. Cardinality(Peer \ {p}) \in Nat
    BY <1>5, FS_CardinalityType
<1> QED BY <1>1, <1>4, <1>5, <1>6

\* Nor are more of them tried.
LEMMA TriedFacts ==
    ASSUME NEW p \in Peer, NEW d
    PROVE  /\ IsFiniteSet(Tried(p, d)) /\ Cardinality(Tried(p, d)) \in Nat
           /\ Cardinality(Tried(p, d)) <= Len(Peers) - 1
<1>1. Tried(p, d) \in SUBSET (Peer \ {p})
    BY DEF Tried
<1>2. /\ IsFiniteSet(Tried(p, d))
      /\ Cardinality(Tried(p, d)) <= Cardinality(Peer \ {p})
    BY <1>1, PeersFinite, FS_Subset
<1>3. Cardinality(Tried(p, d)) \in Nat
    BY <1>2, FS_CardinalityType
<1>4. /\ Cardinality(Peer \ {p}) \in Nat /\ Len(Peers) \in Nat
      /\ Cardinality(Peer \ {p}) <= Len(Peers) - 1
    BY PeersFinite, PolicyFacts
<1> QED BY <1>2, <1>3, <1>4

\* Attempts age by a tick, up to the timeout of the peer.
LEMMA AttemptsAge ==
    ASSUME Typed, Elapse, NEW q \in Peer
    PROVE  /\ LastAttempt(q) \in Age /\ LastAttempt(q)' \in Age
           /\ LastAttempt(q)' \in {LastAttempt(q), LastAttempt(q) + 1}
           /\ LastAttempt(q) < T(q) => LastAttempt(q)' = LastAttempt(q) + 1
<1>0. /\ T(q) \in 0 .. MaxAge /\ session_timeout[q] \in 0 .. MaxAge
      /\ udp_rebind_after[q] \in 0 .. MaxAge /\ MaxAge \in Nat
      /\ recovery_policy(q).rebind_udp \in BOOLEAN
      /\ recovery_policy(q).rebind_udp => T(q) = udp_rebind_after[q]
      /\ ~recovery_policy(q).rebind_udp => T(q) = session_timeout[q]
    BY PolicyFacts
<1>1. CASE recovery_policy(q).rebind_udp
    <2>1. /\ last_udp_rebind_attempt' = Older(last_udp_rebind_attempt, RebindInterval)
          /\ last_udp_rebind_attempt \in Age
        BY DEF Elapse, Typed
    <2>2. RebindInterval \in 0 .. MaxAge /\ T(q) <= RebindInterval
        BY <1>0, <1>1, RebindIntervalFacts
    <2>3. LastAttempt(q) = last_udp_rebind_attempt /\ LastAttempt(q)' = last_udp_rebind_attempt'
        BY <1>1 DEF LastAttempt
    <2>4. LastAttempt(q) < T(q) => LastAttempt(q) < RebindInterval
        BY <1>0, <2>1, <2>2, <2>3, PolicyFacts DEF Age
    <2> QED BY <2>1, <2>2, <2>3, <2>4, OlderFacts
<1>2. CASE ~recovery_policy(q).rebind_udp
    <2>1. /\ last_session_recovery_attempt'[q] =
                Older(last_session_recovery_attempt[q], session_timeout[q])
          /\ last_session_recovery_attempt[q] \in Age
        BY ElapseFacts DEF Typed
    <2>2. /\ LastAttempt(q) = last_session_recovery_attempt[q]
          /\ LastAttempt(q)' = last_session_recovery_attempt'[q]
        BY <1>2 DEF LastAttempt
    <2> QED BY <1>0, <1>2, <2>1, <2>2, OlderFacts
<1> QED BY <1>0, <1>1, <1>2

\* A step that tries nobody and at most resets the silence of a session.
LEMMA QuietSilence ==
    ASSUME Typed, NEW q \in Peer, Silence(q),
           \A r \in Peer : LastAttempt(r)' = LastAttempt(r),
           last_sent'[q] = last_sent[q],
           phase' = phase \/ (phase = "retry" /\ phase' = "recover"),
           \/ last_seen'[q] = 0
           \/ Watched(q)' => Watched(q) /\ last_seen'[q] = last_seen[q]
    PROVE  Silence(q)'
<1>0. /\ LastAttempt(q) \in Age /\ T(q) \in 0 .. MaxAge /\ MaxAge \in Nat
      /\ recovery_enabled(q) => 2 <= T(q)
    BY DueFacts, PolicyFacts
<1>1. CASE last_seen'[q] = 0
    <2>1. Watched(q)' => 2 <= T(q)
        BY <1>0 DEF Watched
    <2> QED BY <1>0, <1>1, <2>1, PolicyFacts DEF Silence, Paid, Age
<1>2. CASE ~Watched(q)'
    BY <1>2 DEF Silence, Paid
<1>3. CASE Watched(q)' /\ Watched(q) /\ last_seen'[q] = last_seen[q]
    <2>1. \A d : Tried(q, d)' = Tried(q, d)
        BY DEF Tried
    <2>2. Paid(q)'
        BY <1>3, <2>1 DEF Silence, Paid
    <2> QED BY <1>3, <2>2 DEF Silence
<1> QED BY <1>1, <1>2, <1>3

\* A second passes.
LEMMA ElapseSilence ==
    ASSUME Typed, Elapse, NEW p \in Peer, Silence(p)
    PROVE  Silence(p)'
<1>0. /\ phase = "rest" /\ phase' = "retry" /\ UNCHANGED unrecorded
      /\ active'[p] => active[p]
      /\ last_seen'[p] = Older(last_seen[p], LongestSilence(p))
      /\ last_sent'[p] = Older(last_sent[p], persistent_keepalive[p])
    BY ElapseFacts
<1>1. /\ T(p) \in 0 .. MaxAge /\ LongestSilence(p) = T(p) + Len(Peers) - 1
      /\ LongestSilence(p) \in 0 .. MaxAge /\ persistent_keepalive[p] \in 0 .. MaxAge
      /\ Len(Peers) \in Nat /\ MaxAge \in Nat /\ Never = MaxAge + 1
    BY PolicyFacts
<1>2. last_seen[p] \in Age /\ last_sent[p] \in Age
    BY DEF Typed
<1>3. Watched(p)' => Watched(p)
    BY <1>0 DEF Watched
<1> SUFFICES ASSUME Watched(p), Watched(p)' PROVE Silence(p)'
    BY <1>3 DEF Silence, Paid
<1>4. /\ last_seen'[p] \in Age /\ last_seen'[p] \in {last_seen[p], last_seen[p] + 1}
      /\ last_seen[p] < LongestSilence(p) => last_seen'[p] = last_seen[p] + 1
      /\ last_seen'[p] = Never <=> last_seen[p] = Never
      /\ last_sent'[p] = Never <=> last_sent[p] = Never
    <2>1. /\ last_seen'[p] \in Age /\ last_seen'[p] \in {last_seen[p], last_seen[p] + 1}
          /\ last_seen[p] < LongestSilence(p) => last_seen'[p] = last_seen[p] + 1
          /\ last_seen'[p] = Never <=> last_seen[p] = Never
        <3>1. /\ last_seen'[p] = Older(last_seen[p], LongestSilence(p))
              /\ LongestSilence(p) \in 0 .. MaxAge /\ last_seen[p] \in Age
            BY <1>0, <1>1, <1>2
        <3> QED BY <3>1, OlderFacts, Zenon
    <2>2. last_sent'[p] = Never <=> last_sent[p] = Never
        BY <1>0, <1>1, <1>2, OlderFacts, Zenon
    <2> QED BY <2>1, <2>2
<1>4n. /\ last_seen[p] \in Nat /\ last_seen'[p] \in Nat /\ T(p) \in Nat
       /\ last_seen'[p] \in {last_seen[p], last_seen[p] + 1}
    BY <1>1, <1>2, <1>4 DEF Age
<1>5. last_seen'[p] # Never
    BY <1>4 DEF Silence
<1>6. last_seen'[p] <= LastAttempt(p)' \/ T(p) <= LastAttempt(p)'
    <2>1. last_seen[p] <= LastAttempt(p) \/ T(p) <= LastAttempt(p)
        BY DEF Silence
    <2>2. PICK a : a = LastAttempt(p)
        OBVIOUS
    <2>3. PICK b : b = LastAttempt(p)'
        OBVIOUS
    <2>4. a \in Age /\ b \in {a, a + 1} /\ (a < T(p) => b = a + 1)
        BY <2>2, <2>3, AttemptsAge
    <2>5. last_seen[p] <= a \/ T(p) <= a
        BY <2>1, <2>2
    <2>5a. a \in Nat /\ b \in Nat
        BY <1>1, <2>4 DEF Age
    <2>6. last_seen'[p] <= b \/ T(p) <= b
        BY <1>4n, <2>4, <2>5, <2>5a
    <2> QED BY <2>3, <2>6
<1>7. last_sent'[p] = Never => last_seen'[p] <= 1
    <2>1. last_sent[p] = Never => last_seen[p] <= 0
        BY <1>0 DEF Silence
    <2> QED BY <1>2, <1>4, <2>1 DEF Age
<1>8. ASSUME last_sent'[p] # Never, T(p) <= last_seen'[p]
      PROVE  Paid(p)'
    <2>1. PICK d : d = last_seen[p] - T(p)
        OBVIOUS
    <2>2. PICK e : e = last_seen'[p] - T(p)
        OBVIOUS
    <2>3. d \in Int /\ e \in Nat
        BY <1>4n, <1>8, <2>1, <2>2
    <2>4. CASE last_seen[p] < T(p)
        <3>1. e = 0
            BY <1>4n, <1>8, <2>2, <2>4
        <3>2. Cardinality(Tried(p, e)') >= 0
            <4>0. \A q : q \in Tried(p, e)' => q \in Peer \ {p}
                BY DEF Tried
            <4>1. Tried(p, e)' \in SUBSET (Peer \ {p})
                BY <4>0
            <4>2. IsFiniteSet(Peer \ {p})
                BY PeersFinite
            <4>3. Cardinality(Tried(p, e)') \in Nat
                BY <4>1, <4>2, FS_Subset, FS_CardinalityType
            <4> QED BY <4>3
        <3> QED BY <1>0, <2>2, <3>1, <3>2 DEF Paid
    <2>5. CASE T(p) <= last_seen[p]
        <3>1. Cardinality(Tried(p, d)) >= d + 1
            BY <1>0, <1>4, <1>8, <2>1, <2>5 DEF Silence, Paid
        <3>2. Cardinality(Tried(p, d)) \in Nat /\ Cardinality(Tried(p, d)) <= Len(Peers) - 1
            BY TriedFacts
        <3>3. e = d + 1
            <4>1. d + 1 <= Len(Peers) - 1
                BY <1>1, <2>3, <3>1, <3>2
            <4>2. /\ last_seen[p] \in Int /\ T(p) \in Int /\ Len(Peers) \in Int
                  /\ LongestSilence(p) = T(p) + Len(Peers) - 1
                BY <1>1, <1>2 DEF Age
            <4>3. last_seen[p] < LongestSilence(p)
                BY <2>1, <4>1, <4>2
            <4>4. last_seen'[p] = last_seen[p] + 1
                BY <1>4, <4>3
            <4> QED BY <2>1, <2>2, <4>2, <4>4
        <3>4. Tried(p, d) \subseteq Tried(p, e)'
            <4>1. ASSUME NEW q \in Tried(p, d) PROVE q \in Tried(p, e)'
                <5>1. q \in Peer \ {p} /\ LastAttempt(q) <= d
                    BY DEF Tried
                <5>2. LastAttempt(q) \in Nat /\ LastAttempt(q)' \in {LastAttempt(q), LastAttempt(q) + 1}
                    BY <5>1, <1>1, AttemptsAge DEF Age
                <5>3. LastAttempt(q)' <= e
                    BY <2>3, <3>3, <5>1, <5>2
                <5> QED BY <5>1, <5>3 DEF Tried
            <4> QED BY <4>1
        <3>5. Cardinality(Tried(p, d)) <= Cardinality(Tried(p, e)') /\ Cardinality(Tried(p, e)') \in Nat
            <4>1. Tried(p, e)' \in SUBSET (Peer \ {p})
                BY DEF Tried
            <4>2. IsFiniteSet(Tried(p, e)')
                BY <4>1, PeersFinite, FS_Subset
            <4> QED BY <3>4, <4>2, FS_Subset, FS_CardinalityType
        <3>6. Cardinality(Tried(p, e)') >= e
            BY <2>3, <3>1, <3>2, <3>3, <3>5
        <3> QED BY <1>0, <2>2, <3>6 DEF Paid
    <2> QED BY <1>1, <1>2, <2>4, <2>5 DEF Age
<1>9. Paid(p)'
    BY <1>8 DEF Paid
<1> QED BY <1>0, <1>5, <1>6, <1>7, <1>9 DEF Silence

\* In the recovery part of a tick, a watched session that has reached its
\* timeout is due.
LEMMA OverdueIsDue ==
    ASSUME SilenceInv, phase = "recover", NEW p \in Peer, Watched(p),
           last_sent[p] # Never, T(p) <= last_seen[p]
    PROVE  Due(p)
<1>1. Typed
    BY DEF SilenceInv, TickInv
<1>2. last_seen[p] \in {0, snapshot[p]} /\ Silence(p)
    BY DEF SilenceInv
<1>3. recovery_enabled(p) /\ active[p] /\ T(p) >= 2 /\ T(p) \in Nat
    BY PolicyFacts DEF Watched
<1>4. snapshot[p] = last_seen[p]
    BY <1>2, <1>3
<1>5. last_seen[p] # Never /\ (last_seen[p] <= LastAttempt(p) \/ T(p) <= LastAttempt(p))
    BY <1>2 DEF Silence
<1> QED BY <1>1, <1>3, <1>4, <1>5, DueFacts

\* One tick recovers one peer: the others have one more that was tried.
LEMMA RecoverSilence ==
    ASSUME SilenceInv, RecoveriesApart, NEW ok \in BOOLEAN, Recover(ok), NEW p \in Peer
    PROVE  Silence(p)'
<1>0. Typed /\ Silence(p)
    BY DEF SilenceInv, TickInv
<1>1. PICK f \in Peer :
         /\ Due(f) /\ phase = "recover" /\ phase' = "keepalive"
         /\ active' = [active EXCEPT ![f] = FALSE]
         /\ UNCHANGED <<last_seen, last_sent, unrecorded>>
         /\ \/ /\ recovery_policy(f).rebind_udp
               /\ last_udp_rebind_attempt' = 0
               /\ UNCHANGED last_session_recovery_attempt
            \/ /\ ~recovery_policy(f).rebind_udp
               /\ last_session_recovery_attempt' =
                     [last_session_recovery_attempt EXCEPT ![f] = 0]
               /\ UNCHANGED last_udp_rebind_attempt
    BY <1>0, RecoverFacts
<1>2. /\ LastAttempt(f)' = 0
      /\ \A q \in Peer : q # f => LastAttempt(q)' = LastAttempt(q)
    <2>1. CASE recovery_policy(f).rebind_udp
        <3>1. /\ last_udp_rebind_attempt' = 0
              /\ UNCHANGED last_session_recovery_attempt
            BY <1>1, <2>1
        <3>2. \A q \in Peer : q # f => ~recovery_policy(q).rebind_udp
            BY <2>1 DEF RecoveriesApart
        <3> QED BY <2>1, <3>1, <3>2 DEF LastAttempt
    <2>2. CASE ~recovery_policy(f).rebind_udp
        <3>1. /\ last_session_recovery_attempt' =
                     [last_session_recovery_attempt EXCEPT ![f] = 0]
              /\ UNCHANGED last_udp_rebind_attempt
            BY <1>1, <2>2
        <3>2. /\ last_session_recovery_attempt'[f] = 0
              /\ \A q \in Peer : q # f =>
                    last_session_recovery_attempt'[q] = last_session_recovery_attempt[q]
            BY <1>0, <3>1 DEF Typed
        <3> QED BY <2>2, <3>1, <3>2 DEF LastAttempt
    <2> QED BY <2>1, <2>2
<1>3. CASE p = f
    <2>1. ~Watched(p)'
        BY <1>0, <1>1, <1>3 DEF Watched, Typed
    <2> QED BY <2>1 DEF Silence, Paid
<1>4. CASE ~Watched(p)'
    BY <1>4 DEF Silence, Paid
<1>5. CASE p # f /\ Watched(p)'
    <2>1. Watched(p) /\ LastAttempt(p)' = LastAttempt(p)
        BY <1>0, <1>1, <1>2, <1>5 DEF Watched, Typed
    <2>2. ASSUME last_sent[p] # Never, T(p) <= last_seen[p]
          PROVE  Paid(p)'
        <3>1. PICK d : d = last_seen[p] - T(p)
            OBVIOUS
        <3>2. d \in Nat /\ Len(Peers) \in Nat
            <4>1. last_seen[p] \in Age /\ Never = MaxAge + 1
                BY <1>0, PolicyFacts DEF Typed
            <4>2. T(p) \in 0 .. MaxAge /\ MaxAge \in Nat /\ Len(Peers) \in Nat
                BY PolicyFacts
            <4> QED BY <2>2, <3>1, <4>1, <4>2 DEF Age
        <3>3. Cardinality(Tried(p, d)) >= d
            BY <1>0, <1>1, <2>1, <2>2, <3>1 DEF Silence, Paid
        <3>4. /\ IsFiniteSet(Tried(p, d)) /\ Cardinality(Tried(p, d)) \in Nat
              /\ Cardinality(Tried(p, d)) <= Len(Peers) - 1
            BY TriedFacts
        <3>5. f \notin Tried(p, d)
            <4>1. LastAttempt(f) \in Age /\ T(f) <= LastAttempt(f) /\ recovery_enabled(f)
                BY <1>0, <1>1, DueFacts
            <4>2. Len(Peers) <= T(f) /\ T(f) \in Nat
                BY <4>1, PolicyFacts DEF RecoveriesApart
            <4>3. d < Len(Peers)
                BY <3>2, <3>3, <3>4
            <4>4. LastAttempt(f) \in Nat
                BY <4>1, PolicyFacts DEF Age
            <4>5. ~(LastAttempt(f) <= d)
                BY <3>2, <4>1, <4>2, <4>3, <4>4
            <4> QED BY <4>5 DEF Tried
        <3>6. Tried(p, d) \cup {f} \subseteq Tried(p, d)'
            <4>1. ASSUME NEW q \in Tried(p, d) PROVE q \in Tried(p, d)'
                BY <1>2, <3>5 DEF Tried
            <4>2. f \in Tried(p, d)'
                BY <1>2, <1>5, <3>2 DEF Tried
            <4> QED BY <4>1, <4>2
        <3>7. /\ IsFiniteSet(Tried(p, d) \cup {f})
              /\ Cardinality(Tried(p, d) \cup {f}) = Cardinality(Tried(p, d)) + 1
            BY <3>4, <3>5, FS_AddElement
        <3>8. IsFiniteSet(Tried(p, d)')
            <4>1. Tried(p, d)' \in SUBSET (Peer \ {p})
                BY DEF Tried
            <4> QED BY <4>1, PeersFinite, FS_Subset
        <3>9. /\ Cardinality(Tried(p, d) \cup {f}) <= Cardinality(Tried(p, d)')
              /\ Cardinality(Tried(p, d)') \in Nat
            BY <3>6, <3>8, FS_Subset, FS_CardinalityType
        <3>10. Cardinality(Tried(p, d)') >= d + 1
            BY <3>2, <3>3, <3>4, <3>7, <3>9
        <3> QED BY <1>1, <3>1, <3>10 DEF Paid
    <2>3. Paid(p)'
        BY <1>1, <2>2 DEF Paid
    <2>4. /\ last_seen[p] # Never
          /\ last_seen[p] <= LastAttempt(p) \/ T(p) <= LastAttempt(p)
          /\ last_sent[p] = Never => last_seen[p] <= 1
        BY <1>0, <1>1, <2>1 DEF Silence
    <2> QED BY <1>1, <2>1, <2>3, <2>4 DEF Silence
<1> QED BY <1>3, <1>4, <1>5

\* If nobody is due, no watched session has reached its timeout.
LEMMA NothingDueSilence ==
    ASSUME SilenceInv, NothingDue, NEW p \in Peer
    PROVE  Silence(p)'
<1>0. Typed /\ Silence(p)
    BY DEF SilenceInv, TickInv
<1>1. /\ phase = "recover" /\ phase' = "keepalive" /\ ~Due(p)
      /\ UNCHANGED <<timers, active, last_seen, unrecorded>>
    BY DEF NothingDue, AfterRecovery, engineState
<1>2. /\ Watched(p)' <=> Watched(p)
      /\ LastAttempt(p)' = LastAttempt(p) /\ last_sent' = last_sent
    BY <1>1 DEF Watched, LastAttempt, timers
<1>3. ~(Watched(p) /\ last_sent[p] # Never /\ T(p) <= last_seen[p])
    BY <1>1, OverdueIsDue
<1>4. Paid(p)'
    BY <1>1, <1>2, <1>3 DEF Paid
<1> QED BY <1>0, <1>1, <1>2, <1>4 DEF Silence

\* A session that sends its first keepalive is not overdue.
LEMMA KeepaliveSilence ==
    ASSUME SilenceInv, SendKeepalives, NEW p \in Peer
    PROVE  Silence(p)'
<1>0. Typed /\ Silence(p)
    BY DEF SilenceInv, TickInv
<1>1. /\ phase = "keepalive" /\ phase' = "rest"
      /\ UNCHANGED <<active, last_seen, unrecorded, last_udp_rebind_attempt,
                     last_session_recovery_attempt>>
      /\ last_sent'[p] = last_sent_after(p)
    BY DEF SendKeepalives
<1>2. /\ Watched(p)' <=> Watched(p)
      /\ \A q : LastAttempt(q)' = LastAttempt(q)
    BY <1>1 DEF Watched, LastAttempt
<1> SUFFICES ASSUME Watched(p) PROVE Silence(p)'
    BY <1>2 DEF Silence, Paid
<1>3. /\ recovery_enabled(p) /\ active[p] /\ T(p) >= 2 /\ persistent_keepalive[p] # 0
      /\ T(p) \in Nat /\ 0 # Never
    BY PolicyFacts DEF Watched
<1>4. last_sent'[p] # Never
    BY <1>1, <1>3 DEF last_sent_after, keepalive_should_send
<1>5. Paid(p)'
    <2>1. CASE last_sent[p] = Never
        <3>1. last_seen[p] <= 1 /\ last_seen[p] \in Nat
            BY <1>0, <1>1, <2>1, PolicyFacts DEF Silence, Typed, Age
        <3>2. ~(T(p) <= last_seen'[p])
            BY <1>1, <1>3, <3>1
        <3> QED BY <3>2 DEF Paid
    <2>2. CASE last_sent[p] # Never
        <3>1. \A d : Tried(p, d)' = Tried(p, d)
            BY <1>2 DEF Tried
        <3> QED BY <1>0, <1>1, <2>2, <3>1 DEF Silence, Paid
    <2> QED BY <2>1, <2>2
<1> QED BY <1>0, <1>1, <1>2, <1>4, <1>5 DEF Silence

\* The invariant about the silence of a session is inductive.
LEMMA SilenceStep ==
    ASSUME SilenceInv, RecoveriesApart, [SchedulerNext]_vars
    PROVE  SilenceInv'
<1>0. TickInv /\ Typed /\ \A p \in Peer : Silence(p)
    BY DEF SilenceInv, TickInv
<1>1. TickInv'
    BY <1>0, TypedStep, SeenSinceStep, AnnounceStep DEF TickInv
<1> DEFINE Read == phase' = "recover" => \A p \in Peer : last_seen'[p] \in {0, snapshot'[p]}
<1>2. ASSUME \A p \in Peer : Silence(p)', Read PROVE SilenceInv'
    BY <1>1, <1>2 DEF SilenceInv
<1>3. ASSUME UNCHANGED timers PROVE \A q : LastAttempt(q)' = LastAttempt(q) /\ last_sent' = last_sent
    BY <1>3 DEF LastAttempt, timers
<1>4. CASE Elapse
    <2>1. \A p \in Peer : Silence(p)'
        BY <1>0, <1>4, ElapseSilence
    <2>2. Read
        BY <1>4 DEF Elapse
    <2> QED BY <1>2, <2>1, <2>2
<1>5. CASE RetryAndSnapshot
    <2>1. /\ phase = "retry" /\ phase' = "recover" /\ snapshot' = last_seen
          /\ UNCHANGED <<timers, active, last_seen, unrecorded>>
        BY <1>5 DEF RetryAndSnapshot, engineState
    <2>2. ASSUME NEW p \in Peer PROVE Silence(p)'
        <3>1. Watched(p)' => Watched(p) /\ last_seen'[p] = last_seen[p]
            BY <2>1 DEF Watched
        <3> QED BY <1>0, <1>3, <2>1, <3>1, QuietSilence
    <2>3. Read
        BY <2>1
    <2> QED BY <1>2, <2>2, <2>3
<1>6. ASSUME NEW ok \in BOOLEAN, Recover(ok) PROVE SilenceInv'
    <2>1. phase' = "keepalive"
        BY <1>0, <1>6, RecoverFacts
    <2> QED BY <1>2, <1>6, <2>1, RecoverSilence
<1>7. CASE NothingDue
    <2>1. phase' = "keepalive"
        BY <1>7 DEF NothingDue, AfterRecovery
    <2> QED BY <1>2, <1>7, <2>1, NothingDueSilence
<1>8. CASE SendKeepalives
    <2>1. phase' = "rest"
        BY <1>8 DEF SendKeepalives
    <2> QED BY <1>2, <1>8, <2>1, KeepaliveSilence
<1>9. ASSUME NEW p \in Peer, Completed(p) \/ PeerInitiates(p) PROVE SilenceInv'
    <2>1. /\ active' = [active EXCEPT ![p] = TRUE]
          /\ \/ unrecorded' = unrecorded \cup {p} /\ UNCHANGED last_seen
             \/ last_seen' = [last_seen EXCEPT ![p] = 0] /\ UNCHANGED unrecorded
          /\ UNCHANGED <<timers, phase, snapshot>>
        BY <1>0, <1>9, EstablishFacts
    <2>2. ASSUME NEW q \in Peer PROVE Silence(q)' /\ last_seen'[q] \in {0, last_seen[q]}
        <3>1. \/ last_seen'[q] = 0
              \/ /\ last_seen'[q] = last_seen[q]
                 /\ Watched(q)' => Watched(q) /\ last_seen'[q] = last_seen[q]
            <4>1. CASE q = p
                BY <1>0, <2>1, <4>1 DEF Watched, Typed
            <4>2. CASE q # p
                BY <1>0, <2>1, <4>2 DEF Watched, Typed
            <4> QED BY <4>1, <4>2
        <3> QED BY <1>0, <1>3, <2>1, <3>1, QuietSilence
    <2>3. Read
        BY <2>1, <2>2 DEF SilenceInv
    <2> QED BY <1>2, <2>2, <2>3
<1>10. ASSUME NEW p \in Peer, Record(p) \/ Acknowledged(p) PROVE SilenceInv'
    <2>1. /\ last_seen' = [last_seen EXCEPT ![p] = 0]
          /\ unrecorded' = unrecorded \ {p} \/ UNCHANGED unrecorded
          /\ UNCHANGED <<timers, active, phase, snapshot>>
        BY <1>10, PacketFacts DEF tickState
    <2>2. ASSUME NEW q \in Peer PROVE Silence(q)' /\ last_seen'[q] \in {0, last_seen[q]}
        <3>1. \/ last_seen'[q] = 0
              \/ /\ last_seen'[q] = last_seen[q]
                 /\ Watched(q)' => Watched(q) /\ last_seen'[q] = last_seen[q]
            <4>1. CASE q = p
                BY <1>0, <2>1, <4>1 DEF Typed
            <4>2. CASE q # p
                BY <1>0, <2>1, <4>2 DEF Watched, Typed
            <4> QED BY <4>1, <4>2
        <3> QED BY <1>0, <1>3, <2>1, <3>1, QuietSilence
    <2>3. Read
        BY <2>1, <2>2 DEF SilenceInv
    <2> QED BY <1>2, <2>2, <2>3
<1>11. ASSUME UNCHANGED <<timers, active, last_seen, unrecorded, phase, snapshot>>
       PROVE  SilenceInv'
    <2>1. ASSUME NEW q \in Peer PROVE Silence(q)'
        <3>1. Watched(q)' => Watched(q) /\ last_seen'[q] = last_seen[q]
            BY <1>11 DEF Watched
        <3> QED BY <1>0, <1>3, <1>11, <3>1, QuietSilence
    <2>2. Read
        BY <1>11 DEF SilenceInv
    <2> QED BY <1>2, <2>1, <2>2
<1>12. ASSUME NEW p \in Peer, PeerStops(p) \/ PeerStarts(p) \/ PathLost(p) PROVE SilenceInv'
    BY <1>11, <1>12, WorldFacts DEF tickState
<1>13. CASE UNCHANGED vars
    BY <1>11, <1>13 DEF vars, engineState, tickState
<1> QED BY <1>4, <1>5, <1>6, <1>7, <1>8, <1>9, <1>10, <1>12, <1>13, StepKinds

\* Where one peer at most asks for fresh ports and no timeout is shorter than
\* the list of peers, no session with a recovery policy is silent between ticks
\* for longer than its timeout and one tick for every other peer, although a
\* tick recovers only the first peer that is due.
THEOREM SilenceIsBounded ==
    ASSUME RecoveriesApart
    PROVE  SchedulerSpec => []RecoveredInTime
<1>1. SchedulerInit => SilenceInv
    <2> SUFFICES ASSUME SchedulerInit PROVE SilenceInv
        OBVIOUS
    <2>1. \A p \in Peer : Silence(p)
        BY DEF SchedulerInit, Silence, Paid, Watched
    <2>2. phase = "retry"
        BY DEF SchedulerInit
    <2> QED BY <2>1, <2>2, TickInit DEF SilenceInv
<1>2. SilenceInv /\ [SchedulerNext]_vars => SilenceInv'
    BY SilenceStep
<1>3. SilenceInv => RecoveredInTime
    <2> SUFFICES ASSUME SilenceInv, NEW p \in Peer, phase = "rest", Watched(p),
                        last_sent[p] # Never
                 PROVE  last_seen[p] < LongestSilence(p)
        BY DEF RecoveredInTime, Watched
    <2>1. Typed /\ Paid(p)
        BY DEF SilenceInv, TickInv, Silence
    <2>2. /\ last_seen[p] \in Nat /\ T(p) \in Nat /\ Len(Peers) \in Nat /\ 1 <= Len(Peers)
          /\ LongestSilence(p) = T(p) + Len(Peers) - 1
        BY <2>1, PolicyFacts DEF Typed, Age
    <2>3. CASE last_seen[p] < T(p)
        BY <2>2, <2>3
    <2>4. CASE T(p) <= last_seen[p]
        <3>1. PICK d : d = last_seen[p] - T(p)
            OBVIOUS
        <3>2. Cardinality(Tried(p, d)) >= d + 1
            BY <2>1, <2>4, <3>1 DEF Paid
        <3>3. Cardinality(Tried(p, d)) \in Nat /\ Cardinality(Tried(p, d)) <= Len(Peers) - 1
            BY TriedFacts
        <3>4. d \in Nat
            BY <2>2, <2>4, <3>1
        <3>5. d + 1 <= Len(Peers) - 1
            BY <2>2, <3>2, <3>3, <3>4
        <3> QED BY <2>2, <3>1, <3>5
    <2> QED BY <2>2, <2>3, <2>4
<1> QED BY <1>1, <1>2, <1>3, PTL DEF SchedulerSpec
============================================================================
