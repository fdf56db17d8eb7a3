----------------------------- MODULE FfiRuntime -----------------------------
(***************************************************************************)
(* The lifecycle of an HwRuntime, src/src/ffi.rs: threads of the platform  *)
(* adapter start and stop the engine, run packet calls on it and tick its  *)
(* scheduler.  There are two locks: `lifecycle' over the engine, the count *)
(* of running calls and the stopping flag, and `scheduler' over the        *)
(* scheduler.  Start and stop take the second while they hold the first;   *)
(* a tick holds the second while it runs and the first before and after.   *)
(* An engine and its scheduler are the number of the start that made them. *)
(***************************************************************************)
EXTENDS Naturals, FiniteSets

CONSTANTS
    Starter, Stopper, Caller, Ticker,   \* the threads of the adapter, by what they do
    MaxStarts                           \* bound on the engines made

Thread == Starter \cup Stopper \cup Caller \cup Ticker

ASSUME RuntimeAssumption ==
    /\ IsFiniteSet(Thread)
    /\ MaxStarts \in Nat

None == 0            \* no engine, no scheduler
Engine == 1 .. MaxStarts

VARIABLES
    engine,              \* Lifecycle.engine
    active_calls,        \* Lifecycle.active_calls
    stopping,            \* Lifecycle.stopping
    scheduler,           \* HwRuntime.scheduler
    lifecycle_holder,    \* the thread inside the lifecycle lock between steps
    scheduler_holder,    \* the thread inside the scheduler lock between steps
    pc,                  \* where each thread is
    call,                \* the engine each thread's RuntimeCall refers to
    starts               \* the engines made so far

runtimeVars == <<engine, active_calls, stopping, scheduler, lifecycle_holder,
                 scheduler_holder, pc, call, starts>>

Place == {"idle", "started", "erased", "waiting", "notified", "call", "tick", "ticking"}

Free(holder) == holder = {}
Goto(t, place) == pc' = [pc EXCEPT ![t] = place]

\* idle.notify_all(): every waiting stop wakes once it gets the lock back.
NotifyAll(places) == [t \in Thread |-> IF places[t] = "waiting" THEN "notified" ELSE places[t]]

-----------------------------------------------------------------------------

RuntimeInit ==
    /\ engine = None
    /\ active_calls = 0
    /\ stopping = FALSE
    /\ scheduler = None
    /\ lifecycle_holder = {}
    /\ scheduler_holder = {}
    /\ pc = [t \in Thread |-> "idle"]
    /\ call = [t \in Thread |-> None]
    /\ starts = 0

\* hw_runtime_start makes an engine unless there is one or a stop is under way ...
StartEngine(t) ==
    /\ pc[t] = "idle"
    /\ Free(lifecycle_holder)
    /\ ~ stopping
    /\ engine = None
    /\ starts < MaxStarts
    /\ starts' = starts + 1
    /\ engine' = starts + 1
    /\ lifecycle_holder' = lifecycle_holder \cup {t}
    /\ Goto(t, "started")
    /\ UNCHANGED <<active_calls, stopping, scheduler, scheduler_holder, call>>

\* ... then, still inside the lifecycle lock, a scheduler.
StartScheduler(t) ==
    /\ pc[t] = "started"
    /\ Free(scheduler_holder)
    /\ scheduler' = engine
    /\ lifecycle_holder' = lifecycle_holder \ {t}
    /\ Goto(t, "idle")
    /\ UNCHANGED <<engine, active_calls, stopping, scheduler_holder, call, starts>>

\* Mutant of EraseOrWait: the running calls are not waited for.
EraseAtOnce(t) ==
    /\ engine' = None
    /\ lifecycle_holder' = lifecycle_holder \cup {t}
    /\ Goto(t, "erased")

\* The loop of hw_runtime_stop: erase the engine once no call runs, else wait.
EraseOrWait(t) ==
    IF active_calls = 0
    THEN /\ engine' = None
         /\ lifecycle_holder' = lifecycle_holder \cup {t}
         /\ Goto(t, "erased")
    ELSE /\ Goto(t, "waiting")
         /\ UNCHANGED <<engine, lifecycle_holder>>

\* hw_runtime_stop of a running runtime; on any other it returns at once.
Stop(t) ==
    /\ pc[t] = "idle"
    /\ Free(lifecycle_holder)
    /\ engine # None
    /\ stopping' = TRUE
    /\ EraseOrWait(t)
    /\ UNCHANGED <<active_calls, scheduler, scheduler_holder, call, starts>>

\* Condvar::wait returns, with the lock, after a notification.
StopWakes(t) ==
    /\ pc[t] = "notified"
    /\ Free(lifecycle_holder)
    /\ EraseOrWait(t)
    /\ UNCHANGED <<active_calls, stopping, scheduler, scheduler_holder, call, starts>>

\* ... then the scheduler goes, still inside the lifecycle lock, and the stop is over.
StopScheduler(t) ==
    /\ pc[t] = "erased"
    /\ Free(scheduler_holder)
    /\ scheduler' = None
    /\ stopping' = FALSE
    /\ lifecycle_holder' = lifecycle_holder \ {t}
    /\ pc' = NotifyAll([pc EXCEPT ![t] = "idle"])
    /\ UNCHANGED <<engine, active_calls, scheduler_holder, call, starts>>

-----------------------------------------------------------------------------

\* begin_call; it is refused, with nothing changed, unless the runtime runs.
begin_call(t, place) ==
    /\ pc[t] = "idle"
    /\ Free(lifecycle_holder)
    /\ engine # None
    /\ ~ stopping
    /\ active_calls' = active_calls + 1
    /\ call' = [call EXCEPT ![t] = engine]
    /\ Goto(t, place)
    /\ UNCHANGED <<engine, stopping, scheduler, lifecycle_holder, scheduler_holder, starts>>

\* Mutant of end_call: the last call does not wake a waiting stop.
end_call_silent(t) ==
    /\ pc[t] = "call"
    /\ Free(lifecycle_holder)
    /\ active_calls' = IF active_calls > 0 THEN active_calls - 1 ELSE 0
    /\ call' = [call EXCEPT ![t] = None]
    /\ Goto(t, "idle")
    /\ UNCHANGED <<engine, stopping, scheduler, lifecycle_holder, scheduler_holder, starts>>

\* Drop for RuntimeCall, after the callbacks of dispatch have returned.
end_call(t) ==
    /\ pc[t] = "call"
    /\ Free(lifecycle_holder)
    /\ active_calls' = IF active_calls > 0 THEN active_calls - 1 ELSE 0
    /\ call' = [call EXCEPT ![t] = None]
    /\ pc' = LET places == [pc EXCEPT ![t] = "idle"]
             IN  IF active_calls' = 0 THEN NotifyAll(places) ELSE places
    /\ UNCHANGED <<engine, stopping, scheduler, lifecycle_holder, scheduler_holder, starts>>

\* hw_runtime_tick takes the scheduler lock, or fails if there is no scheduler ...
TickLock(t) ==
    /\ pc[t] = "tick"
    /\ Free(scheduler_holder)
    /\ IF scheduler # None
       THEN scheduler_holder' = scheduler_holder \cup {t} /\ Goto(t, "ticking")
       ELSE UNCHANGED scheduler_holder /\ Goto(t, "call")
    /\ UNCHANGED <<engine, active_calls, stopping, scheduler, lifecycle_holder, call, starts>>

\* ... runs EngineScheduler::tick, drops the lock and dispatches the outputs.
TickRun(t) ==
    /\ pc[t] = "ticking"
    /\ scheduler_holder' = scheduler_holder \ {t}
    /\ Goto(t, "call")
    /\ UNCHANGED <<engine, active_calls, stopping, scheduler, lifecycle_holder, call, starts>>

\* A start of a runtime that runs or is stopping, a stop of one that does not run
\* and a call that begin_call refuses return without an effect.
ReturnAtOnce(t) ==
    /\ pc[t] = "idle"
    /\ Free(lifecycle_holder)
    /\ \/ t \in Starter /\ (stopping \/ engine # None)
       \/ t \in Stopper /\ engine = None
       \/ t \in Caller \cup Ticker /\ (stopping \/ engine = None)
    /\ UNCHANGED runtimeVars

-----------------------------------------------------------------------------

StartStep(t) == StartEngine(t) \/ StartScheduler(t)
StopStep(t) == Stop(t) \/ StopWakes(t) \/ StopScheduler(t)
CallStep(t) == begin_call(t, "call") \/ end_call(t)
TickStep(t) == begin_call(t, "tick") \/ TickLock(t) \/ TickRun(t) \/ end_call(t)

RuntimeNext ==
    \/ \E t \in Starter : StartStep(t)
    \/ \E t \in Stopper : StopStep(t)
    \/ \E t \in Caller : CallStep(t)
    \/ \E t \in Ticker : TickStep(t)
    \/ \E t \in Thread : ReturnAtOnce(t)

RuntimeSpec == RuntimeInit /\ [][RuntimeNext]_runtimeVars

\* A thread inside a function takes its next step.
Proceed(t) ==
    \/ StartScheduler(t)
    \/ StopWakes(t)
    \/ StopScheduler(t)
    \/ end_call(t)
    \/ TickLock(t)
    \/ TickRun(t)

\* Every thread inside a function gets on with it: the callbacks return, as the C
\* header requires of them, and a lock that is free again and again is granted.
FairRuntimeSpec == RuntimeSpec /\ \A t \in Thread : SF_runtimeVars(Proceed(t))

-----------------------------------------------------------------------------

Running == {t \in Thread : pc[t] \in {"call", "tick", "ticking"}}

\* Type correctness; each lock has at most one holder.
RuntimeTypeOK ==
    /\ engine \in Engine \cup {None}
    /\ active_calls \in Nat
    /\ stopping \in BOOLEAN
    /\ scheduler \in Engine \cup {None}
    /\ lifecycle_holder = {} \/ \E t \in Thread : lifecycle_holder = {t}
    /\ scheduler_holder = {} \/ \E t \in Thread : scheduler_holder = {t}
    /\ pc \in [Thread -> Place]
    /\ call \in [Thread -> Engine \cup {None}]
    /\ starts \in 0 .. MaxStarts

\* The engine of a running call is the runtime's engine: stop waits for every
\* in-flight callback before it erases the sessions, and no start replaces the
\* engine under a call, whatever other stops and starts are under way.
CallsOnLiveEngine == \A t \in Running : call[t] = engine

\* A tick uses the scheduler made with the engine of its call, never one that
\* carries the health timestamps of an erased engine.
SchedulerOfEngine == \A t \in Thread : pc[t] = "ticking" => scheduler = call[t]

\* A stop that waits has a call to wait for: the wake-up of the last call to end
\* is never lost, also when several stops wait and calls begin in between.
NoLostWakeup == \A t \in Thread : pc[t] = "waiting" => active_calls # 0

\* Together, what every step of every thread keeps.
LifecycleConsistent ==
    RuntimeTypeOK /\ CallsOnLiveEngine /\ SchedulerOfEngine /\ NoLostWakeup

Waits(t) == pc[t] \in {"waiting", "notified"}

\* What hw_runtime_stop says of itself: it stops accepting packets, then waits for
\* the calls in flight.  Kept while one thread at a time stops the runtime; a
\* second stop still waits when the first one has cleared `stopping', a start has
\* made an engine, and calls begin again.
StopRefusesCalls ==
    [][(\E t \in Thread : Waits(t)) => active_calls' <= active_calls]_runtimeVars

\* Every stop returns, although a wake-up is only sent when the count of calls
\* reaches zero and other threads may take the lock before the waiter has it;
\* unless another stop is over first and an engine has been started since, whose
\* calls may then keep the waiter waiting.
StopReturns ==
    \A t \in Stopper :
        Waits(t) \/ pc[t] = "erased"
            ~> pc[t] = "idle" \/ (~ stopping /\ engine # None)
=============================================================================
