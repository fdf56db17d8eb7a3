----------------------------- MODULE Scheduler -----------------------------
(***************************************************************************)
(* The maintenance timers of one node (src/src/scheduler.rs): one tick per *)
(* second retries handshakes, gives up a session whose peer has been       *)
(* silent for too long, and sends keepalives.  Time is discrete and every  *)
(* Instant is kept as its age.  The engine is reduced to whether a session *)
(* is active and a handshake pending, its peers to whether they run, can   *)
(* be reached, and still hold the session; Engine.tla has the handshake.   *)
(***************************************************************************)
EXTENDS Naturals, Sequences

CONSTANTS
    Peers,                  \* the configured peers, in order
    Transport,              \* "udp" or "tcp"
    persistent_keepalive,   \* of each peer, in ticks (0 = disabled)
    udp_rebind_after,       \* of each peer (0 = disabled)
    session_timeout,        \* effective_session_timeout of each peer
    RekeyAfter,             \* REKEY_AFTER_TIME and
    RejectAfter,            \* REJECT_AFTER_TIME of a session, in ticks
    MaxAge,                 \* no age that matters is greater
    Concurrent,             \* peers whose packets are handled during a tick too
    MayStop,                \* the peers that may stop
    MayLosePath,            \* the peers whose NAT mapping may be lost
    RebindMayFail           \* binding a fresh port may fail

Peer == {Peers[i] : i \in DOMAIN Peers}
Never == MaxAge + 1         \* the age of an Instant that is None

ASSUME SchedulerAssumption ==
    /\ Peers \in Seq(Peer) /\ MaxAge \in Nat
    /\ Transport \in {"udp", "tcp"}
    /\ \A f \in {persistent_keepalive, udp_rebind_after, session_timeout} :
          f \in [Peer -> 0 .. MaxAge]
    /\ RekeyAfter \in Nat /\ RejectAfter \in Nat
    /\ 0 < RekeyAfter /\ RekeyAfter < RejectAfter /\ RejectAfter <= MaxAge
    /\ MayStop \subseteq Peer /\ MayLosePath \subseteq Peer /\ Concurrent \subseteq Peer

VARIABLES
    active,            \* has_active_session: there is one and it has not expired
    pending,           \* has_pending_handshake
    last_seen,         \* PeerStats.last_seen
    last_sent,         \* EngineScheduler.last_sent
    last_udp_rebind_attempt,
    last_session_recovery_attempt,
    phase,             \* the part of the tick that is next; "rest" between ticks
    snapshot,          \* engine.peer_stats() as the tick saw it
    rebound,           \* the tick has switched to a fresh port
    unrecorded,        \* peers whose new session is installed, last_seen not yet set
    probed,            \* a probe of the active session may still be answered
    announced,         \* an authenticated packet has left from the current port
    alive, path,       \* the peer runs; the NAT mapping of our port works
    shared,            \* the peer holds the active session
    session_age,       \* since the active session was established
    settled            \* peers whose active session was on record at the snapshot

timers == <<last_sent, last_udp_rebind_attempt, last_session_recovery_attempt>>
engineState == <<active, pending, last_seen, unrecorded, probed, announced, shared, session_age>>
world == <<alive, path>>
tickState == <<phase, snapshot, rebound, settled>>
vars == <<timers, engineState, world, tickState>>

recovery_policy(p) ==
    IF Transport = "udp" /\ udp_rebind_after[p] > 0
    THEN [timeout |-> udp_rebind_after[p], rebind_udp |-> TRUE, some |-> TRUE]
    ELSE [timeout |-> session_timeout[p], rebind_udp |-> FALSE, some |-> session_timeout[p] > 0]

recovery_enabled(p) == recovery_policy(p).some

\* Mutant of recovery_due: the older of the two counts.
recovery_due_oldest(seen, attempt, timeout) ==
    (IF attempt # Never /\ attempt > seen THEN attempt ELSE seen) >= timeout

\* The latest of the last packet and the last attempt is too long ago.
recovery_due(seen, attempt, timeout) ==
    (IF attempt # Never /\ attempt < seen THEN attempt ELSE seen) >= timeout

\* Mutant of keepalive_should_send: a rebind announces nothing.
keepalive_should_send_periodic(p) ==
    /\ persistent_keepalive[p] # 0
    /\ IF last_sent[p] = Never THEN recovery_enabled(p)
       ELSE last_sent[p] >= persistent_keepalive[p]

keepalive_should_send(p) ==
    \/ rebound
    \/ /\ persistent_keepalive[p] # 0
       /\ IF last_sent[p] = Never THEN recovery_enabled(p)
          ELSE last_sent[p] >= persistent_keepalive[p]

SchedulerInit ==
    /\ active = [p \in Peer |-> FALSE] /\ pending = [p \in Peer |-> FALSE]
    /\ last_seen = [p \in Peer |-> Never] /\ last_sent = [p \in Peer |-> Never]
    /\ last_udp_rebind_attempt = Never
    /\ last_session_recovery_attempt = [p \in Peer |-> Never]
    /\ phase = "retry" /\ snapshot = last_seen /\ rebound = FALSE
    /\ unrecorded = {}
    /\ probed = [p \in Peer |-> FALSE] /\ announced = [p \in Peer |-> FALSE]
    /\ alive = [p \in Peer |-> TRUE] /\ path = [p \in Peer |-> TRUE]
    /\ shared = [p \in Peer |-> FALSE]
    /\ session_age = [p \in Peer |-> Never]
    /\ settled = {}

----------------------------------------------------------------------------
\* Ages are counted up to the value they are compared with, the silence of a
\* peer up to one that RecoveredInTime excludes.
Older(age, most) == IF age < most THEN age + 1 ELSE age
LongestSilence(p) == recovery_policy(p).timeout + Len(Peers) - 1
RebindInterval == CHOOSE t \in {udp_rebind_after[p] : p \in Peer} :
                      \A p \in Peer : udp_rebind_after[p] <= t

\* Config::validate accepts a recovery timeout only if a keepalive comes before
\* it; MaxAge is large enough for every silence that is told apart.
ASSUME PolicyAssumption ==
    \A p \in Peer :
        /\ recovery_enabled(p) => /\ 0 < persistent_keepalive[p]
                                 /\ persistent_keepalive[p] < recovery_policy(p).timeout
        /\ LongestSilence(p) <= MaxAge

\* A session is usable until it reaches REJECT_AFTER_TIME.
LivesOn(p) == active[p] /\ session_age[p] + 1 < RejectAfter

\* The timer thread sleeps one second; sessions expire, here and at the peer.
Elapse ==
    /\ phase = "rest"
    /\ phase' = "retry"
    /\ last_seen' = [p \in Peer |-> Older(last_seen[p], LongestSilence(p))]
    /\ last_sent' = [p \in Peer |-> Older(last_sent[p], persistent_keepalive[p])]
    /\ last_udp_rebind_attempt' = Older(last_udp_rebind_attempt, RebindInterval)
    /\ last_session_recovery_attempt' = [p \in Peer |->
           Older(last_session_recovery_attempt[p], session_timeout[p])]
    /\ active' = [p \in Peer |-> LivesOn(p)]
    /\ session_age' = [p \in Peer |-> IF LivesOn(p) THEN session_age[p] + 1 ELSE Never]
    /\ probed' = [p \in Peer |-> probed[p] /\ LivesOn(p)]
    /\ shared' = [p \in Peer |-> shared[p] /\ LivesOn(p)]
    /\ UNCHANGED <<pending, unrecorded, announced, world, snapshot, rebound, settled>>

\* tick, first part: msg1 of the pending handshakes is sent again, and the
\* statistics are read.
RetryAndSnapshot ==
    /\ phase = "retry"
    /\ snapshot' = last_seen
    /\ settled' = {p \in Peer : active[p] /\ p \notin unrecorded}
    /\ phase' = "recover"
    /\ UNCHANGED <<timers, engineState, world, rebound>>

\* Mutant of LastAttempt: a rebind delays the recovery of every peer.
LastAttempt_shared(p) == last_udp_rebind_attempt

LastAttempt(p) ==
    IF recovery_policy(p).rebind_udp THEN last_udp_rebind_attempt
    ELSE last_session_recovery_attempt[p]

Due(p) ==
    /\ recovery_enabled(p)
    /\ last_sent[p] # Never
    /\ active[p]
    /\ snapshot[p] # Never
    /\ recovery_due(snapshot[p], LastAttempt(p), recovery_policy(p).timeout)

FirstDue == CHOOSE i \in DOMAIN Peers :
                Due(Peers[i]) /\ \A k \in 1 .. i - 1 : ~Due(Peers[k])

\* invalidate_peer, then initiate_handshake. Of the messages on their way to
\* the old session none will be answered.
Replace(p) ==
    /\ active' = [active EXCEPT ![p] = FALSE]
    /\ pending' = [pending EXCEPT ![p] = TRUE]
    /\ probed' = [probed EXCEPT ![p] = FALSE]
    /\ shared' = [shared EXCEPT ![p] = FALSE]
    /\ session_age' = [session_age EXCEPT ![p] = Never]
    /\ UNCHANGED <<last_seen, unrecorded>>

\* The snapshot is not used again.
AfterRecovery ==
    /\ phase' = "keepalive"
    /\ snapshot' = [p \in Peer |-> Never]
    /\ settled' = {}

\* tick, second part: at most one peer is recovered, the first that is due.
\* `ok' is what rebind_udp returns; a fresh port is a fresh NAT mapping.
Recover(ok) ==
    /\ phase = "recover"
    /\ \E p \in Peer : Due(p)
    /\ LET p == Peers[FirstDue]
       IN  /\ Replace(p)
           /\ \/ /\ recovery_policy(p).rebind_udp
                 /\ ok \/ RebindMayFail
                 /\ last_udp_rebind_attempt' = 0
                 /\ rebound' = ok
                 /\ path' = [q \in Peer |-> path[q] \/ ok]
                 /\ announced' = [q \in Peer |-> announced[q] /\ ~ok]
                 /\ UNCHANGED last_session_recovery_attempt
              \/ /\ ~recovery_policy(p).rebind_udp
                 /\ ok
                 /\ last_session_recovery_attempt' =
                        [last_session_recovery_attempt EXCEPT ![p] = 0]
                 /\ UNCHANGED <<last_udp_rebind_attempt, rebound, path, announced>>
    /\ AfterRecovery
    /\ UNCHANGED <<last_sent, alive>>

NothingDue ==
    /\ phase = "recover"
    /\ \A p \in Peer : ~Due(p)
    /\ AfterRecovery
    /\ UNCHANGED <<timers, engineState, world, rebound>>

last_sent_after(p) ==
    IF keepalive_should_send(p)
    THEN IF active[p] \/ ~recovery_enabled(p) THEN 0 ELSE last_sent[p]
    ELSE IF persistent_keepalive[p] # 0 /\ last_sent[p] = Never THEN 0
    ELSE last_sent[p]

\* Mutant of MayInitiate: a keepalive renews a session but never starts one.
MayInitiate_rekey_only(p) == active[p] /\ session_age[p] >= RekeyAfter

\* start_or_retry_handshake: there is no session, or it is old enough to rekey.
MayInitiate(p) == active[p] => session_age[p] >= RekeyAfter

\* tick, third part: create_keepalive sends a packet of the active session, a
\* probe to be answered if the peer has a recovery policy, and starts or
\* repeats the handshake where one is wanted.
SendKeepalives ==
    /\ phase = "keepalive"
    /\ last_sent' = [p \in Peer |-> last_sent_after(p)]
    /\ probed' = [p \in Peer |->
                    probed[p] \/ (keepalive_should_send(p) /\ active[p] /\ recovery_enabled(p))]
    /\ announced' = [p \in Peer |-> announced[p] \/ (keepalive_should_send(p) /\ active[p])]
    /\ pending' = [p \in Peer |-> pending[p] \/ (keepalive_should_send(p) /\ MayInitiate(p))]
    /\ phase' = "rest"
    /\ rebound' = FALSE
    /\ UNCHANGED <<active, last_seen, unrecorded, shared, session_age,
                   last_udp_rebind_attempt, last_session_recovery_attempt, world, snapshot,
                   settled>>

Tick == RetryAndSnapshot \/ Recover(TRUE) \/ Recover(FALSE) \/ NothingDue \/ SendKeepalives

----------------------------------------------------------------------------
\* The inbound handlers run between ticks, and on threads of their own also
\* during one.
MayReceive(p) == p \in Concurrent \/ phase = "rest"
Reachable(p) == alive[p] /\ path[p]

Healthy(p) == active[p] /\ shared[p]

\* A handshake is completed with the peer: install_active_session, after which
\* the session it replaces can still be answered on ...
Establish(p) ==
    /\ active' = [active EXCEPT ![p] = TRUE]
    /\ pending' = [pending EXCEPT ![p] = FALSE]
    /\ shared' = [shared EXCEPT ![p] = TRUE]
    /\ probed' = [probed EXCEPT ![p] = @ /\ Healthy(p)]
    /\ announced' = [announced EXCEPT ![p] = TRUE]
    /\ session_age' = [session_age EXCEPT ![p] = 0]
    /\ IF p \in Concurrent
       THEN unrecorded' = unrecorded \cup {p} /\ UNCHANGED last_seen
       ELSE last_seen' = [last_seen EXCEPT ![p] = 0] /\ UNCHANGED unrecorded
    /\ settled' = settled \ {p}
    /\ UNCHANGED <<timers, world, phase, snapshot, rebound>>

\* ... and record_keepalive.
Record(p) ==
    /\ p \in unrecorded
    /\ unrecorded' = unrecorded \ {p}
    /\ last_seen' = [last_seen EXCEPT ![p] = 0]
    /\ UNCHANGED <<active, pending, probed, announced, shared, session_age, timers, world, tickState>>

Completed(p) == MayReceive(p) /\ Reachable(p) /\ pending[p] /\ Establish(p)

\* A peer that has lost the session, or has packets for us and an old session,
\* initiates.
PeerInitiates(p) ==
    /\ MayReceive(p) /\ Reachable(p) /\ ~pending[p]
    /\ shared[p] => session_age[p] >= RekeyAfter
    /\ Establish(p)

\* The acknowledgement of a probe arrives.
Acknowledged(p) ==
    /\ MayReceive(p) /\ Reachable(p)
    /\ active[p] /\ shared[p] /\ probed[p]
    /\ probed' = [probed EXCEPT ![p] = FALSE]
    /\ last_seen' = [last_seen EXCEPT ![p] = 0]
    /\ UNCHANGED <<active, pending, unrecorded, announced, shared, session_age, timers,
                   world, tickState>>

----------------------------------------------------------------------------
\* The world: peers stop and come back without their sessions, and "an
\* established UDP path becomes one-way" until a fresh port is bound.
PeerStops(p) ==
    /\ p \in MayStop
    /\ phase = "rest" /\ alive[p]
    /\ alive' = [alive EXCEPT ![p] = FALSE]
    /\ shared' = [shared EXCEPT ![p] = FALSE]
    /\ UNCHANGED <<active, pending, last_seen, unrecorded, probed, announced, session_age,
                   timers, path, tickState>>

PeerStarts(p) ==
    /\ phase = "rest" /\ ~alive[p]
    /\ alive' = [alive EXCEPT ![p] = TRUE]
    /\ UNCHANGED <<engineState, timers, path, tickState>>

PathLost(p) ==
    /\ p \in MayLosePath
    /\ phase = "rest" /\ path[p] /\ active[p] /\ shared[p]
    /\ path' = [path EXCEPT ![p] = FALSE]
    /\ UNCHANGED <<engineState, timers, alive, tickState>>

SchedulerNext ==
    \/ Elapse \/ Tick
    \/ \E p \in Peer :
          \/ Completed(p) \/ PeerInitiates(p) \/ Record(p) \/ Acknowledged(p)
          \/ PeerStops(p) \/ PeerStarts(p) \/ PathLost(p)

\* The timer thread runs, a handler that has begun ends, and a message repeated
\* often enough arrives where it can.
SchedulerSpec ==
    /\ SchedulerInit /\ [][SchedulerNext]_vars
    /\ WF_vars(Elapse) /\ WF_vars(Tick)
    /\ \A p \in Peer :
          WF_vars(Record(p)) /\ SF_vars(Completed(p)) /\ SF_vars(Acknowledged(p))

----------------------------------------------------------------------------
\* Between ticks, no session with a recovery policy has been silent for longer
\* than its timeout, plus one tick for every other peer that may be due at the
\* same time, where no two peers share the rate limit of the rebinds: "If no
\* authenticated packet arrives for the configured number of seconds, HushWire
\* [...] discards the timed-out peer's stale session".
RecoveredInTime ==
    \A p \in Peer :
        (/\ phase = "rest" /\ active[p] /\ p \notin unrecorded
         /\ last_sent[p] # Never /\ recovery_enabled(p))
            => last_seen[p] < LongestSilence(p)

\* "Discard a stale cryptographic session [...] after this many seconds without
\* authenticated inbound traffic": of the sessions whose packets were on record
\* when the tick read the statistics, it discards no younger one.  (One that is
\* installed after that is judged by the silence of its predecessor.)
FreshSessionSurvives ==
    [][\A p \in settled : (active[p] /\ ~active'[p])
          => session_age[p] >= recovery_policy(p).timeout]_vars

\* "After a successful UDP rebind, every active peer gets a one-shot
\* authenticated packet so the remote side learns the fresh source port": after
\* the tick there is no active session whose peer has only seen the old port.
PortAnnounced == \A p \in Peer : (phase = "rest" /\ active[p]) => announced[p]

\* A peer with a recovery policy that runs and can be reached from some time on
\* is connected again and again, whatever happened before: no session that only
\* one side holds, and no handshake that nobody answered, is kept for ever.
Reconnects ==
    \A p \in Peer : recovery_enabled(p) =>
        (<>[]Reachable(p) => []<>Healthy(p))

\* "For automatic recovery when an established UDP path becomes one-way, enable
\* rebinding on the client-side peer": a running peer with rebinding whose path
\* is not broken for ever again is connected again and again.
PathRecovers ==
    \A p \in Peer : recovery_policy(p).rebind_udp =>
        ((<>[]alive[p] /\ <>[][path[p] => path'[p]]_vars) => []<>Healthy(p))
============================================================================
