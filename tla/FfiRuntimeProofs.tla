-------------------------- MODULE FfiRuntimeProofs --------------------------
(***************************************************************************)
(* For every set of threads of the adapter and every number of starts: a   *)
(* call never outlives its engine, a tick never meets another engine's     *)
(* scheduler, and no wake-up of a stop is lost.                            *)
(*                                                                         *)
(* The three follow from one invariant, which ties the locks to the places *)
(* of the threads, the count of calls to the set of running threads, and   *)
(* the scheduler to the engine whenever nobody is inside the lifecycle     *)
(* lock.                                                                   *)
(***************************************************************************)
EXTENDS FfiRuntime, FiniteSetTheorems, TLAPS

\* The threads inside each lock are those between the steps that take and
\* release it.
LocksHeld ==
    /\ lifecycle_holder = {t \in Thread : pc[t] \in {"started", "erased"}}
    /\ scheduler_holder = {t \in Thread : pc[t] = "ticking"}

\* active_calls counts the running calls, and there is no call without an engine.
CallsCounted ==
    /\ active_calls = Cardinality(Running)
    /\ Running # {} => engine # None

\* Inside the lifecycle lock a start has just made the engine and a stop has just
\* erased it, both with no call running; outside it the scheduler is the engine's.
EngineStates ==
    /\ \A t \in Thread : pc[t] \in {"started", "erased"} => Running = {}
    /\ \A t \in Thread : pc[t] = "erased" => engine = None
    /\ lifecycle_holder = {} => scheduler = engine

RuntimeInv ==
    /\ RuntimeTypeOK
    /\ LocksHeld
    /\ CallsCounted
    /\ CallsOnLiveEngine
    /\ EngineStates
    /\ NoLostWakeup

\* The count of calls is zero iff none is running.
LEMMA CountZero ==
    ASSUME CallsCounted
    PROVE  /\ IsFiniteSet(Running)
           /\ active_calls = 0 <=> Running = {}
<1>1. IsFiniteSet(Running)
    BY RuntimeAssumption, FS_Subset DEF Running
<1>2. Cardinality(Running) = 0 <=> Running = {}
    BY <1>1, FS_EmptySet
<1> QED BY <1>1, <1>2 DEF CallsCounted

\* Waking the waiting stops moves no other thread.
LEMMA NotifyKeeps ==
    ASSUME NEW places \in [Thread -> Place]
    PROVE  /\ NotifyAll(places) \in [Thread -> Place]
           /\ \A t \in Thread :
                 /\ NotifyAll(places)[t] # "waiting"
                 /\ places[t] # "waiting" => NotifyAll(places)[t] = places[t]
                 /\ places[t] = "waiting" => NotifyAll(places)[t] = "notified"
    BY DEF NotifyAll, Place

\* A step that moves thread t from one place to another, none of them in a call,
\* and may wake waiting stops, keeps the set of running calls.
LEMMA SameRunning ==
    ASSUME \A t \in Thread : pc'[t] \in {"call", "tick", "ticking"}
                              <=> pc[t] \in {"call", "tick", "ticking"}
    PROVE  Running' = Running
    BY DEF Running

\* Every step of every thread keeps the invariant.
LEMMA RuntimeStep == RuntimeInv /\ [RuntimeNext]_runtimeVars => RuntimeInv'
<1> SUFFICES ASSUME RuntimeInv, [RuntimeNext]_runtimeVars PROVE RuntimeInv'
    OBVIOUS
<1>t. /\ engine \in Engine \cup {None}
      /\ active_calls \in Nat
      /\ stopping \in BOOLEAN
      /\ scheduler \in Engine \cup {None}
      /\ pc \in [Thread -> Place]
      /\ call \in [Thread -> Engine \cup {None}]
      /\ starts \in 0 .. MaxStarts
    BY DEF RuntimeInv, RuntimeTypeOK
<1>n. IsFiniteSet(Running) /\ (active_calls = 0 <=> Running = {})
    BY CountZero DEF RuntimeInv
<1> USE DEF None
<1>1. ASSUME NEW t \in Thread, StartEngine(t) PROVE RuntimeInv'
    <2>0. /\ pc[t] = "idle" /\ lifecycle_holder = {} /\ engine = None
          /\ engine' = starts + 1 /\ starts' = starts + 1 /\ starts < MaxStarts
          /\ lifecycle_holder' = {t}
          /\ pc' = [pc EXCEPT ![t] = "started"]
          /\ UNCHANGED <<active_calls, stopping, scheduler, scheduler_holder, call>>
        BY <1>1 DEF StartEngine, Free, Goto
    <2>1. RuntimeTypeOK'
        BY <1>t, <2>0, RuntimeAssumption DEF RuntimeInv, RuntimeTypeOK, Engine, Place
    <2>2. Running' = Running
        BY <1>t, <2>0, SameRunning
    <2>3. Running = {}
        BY <2>0 DEF RuntimeInv, CallsCounted
    <2>4. LocksHeld'
        BY <1>t, <2>0 DEF RuntimeInv, LocksHeld
    <2>5. CallsCounted' /\ CallsOnLiveEngine'
        BY <2>0, <2>2, <2>3 DEF RuntimeInv, CallsCounted, CallsOnLiveEngine
    <2>6. EngineStates'
        BY <1>t, <2>0, <2>2, <2>3 DEF RuntimeInv, EngineStates, LocksHeld
    <2>7. NoLostWakeup'
        BY <1>t, <2>0 DEF RuntimeInv, NoLostWakeup
    <2> QED BY <2>1, <2>4, <2>5, <2>6, <2>7 DEF RuntimeInv
<1>2. ASSUME NEW t \in Thread, StartScheduler(t) PROVE RuntimeInv'
    <2>0. /\ pc[t] = "started" /\ scheduler' = engine
          /\ lifecycle_holder' = lifecycle_holder \ {t}
          /\ pc' = [pc EXCEPT ![t] = "idle"]
          /\ UNCHANGED <<engine, active_calls, stopping, scheduler_holder, call, starts>>
        BY <1>2 DEF StartScheduler, Goto
    <2>a. lifecycle_holder = {t}
        BY <2>0 DEF RuntimeInv, RuntimeTypeOK, LocksHeld
    <2>1. RuntimeTypeOK'
        BY <1>t, <2>0, <2>a DEF RuntimeInv, RuntimeTypeOK, Place
    <2>2. Running' = Running
        BY <1>t, <2>0, SameRunning
    <2>4. LocksHeld'
        BY <1>t, <2>0, <2>a DEF RuntimeInv, LocksHeld
    <2>5. CallsCounted' /\ CallsOnLiveEngine'
        BY <2>0, <2>2 DEF RuntimeInv, CallsCounted, CallsOnLiveEngine
    <2>6. EngineStates'
        BY <1>t, <2>0, <2>2 DEF RuntimeInv, EngineStates
    <2>7. NoLostWakeup'
        BY <1>t, <2>0 DEF RuntimeInv, NoLostWakeup
    <2> QED BY <2>1, <2>4, <2>5, <2>6, <2>7 DEF RuntimeInv
\* What Stop and StopWakes have in common.
<1>3. ASSUME NEW t \in Thread, pc[t] \in {"idle", "notified"}, Free(lifecycle_holder),
             stopping' \in BOOLEAN, EraseOrWait(t),
             UNCHANGED <<active_calls, scheduler, scheduler_holder, call, starts>>
      PROVE  RuntimeInv'
    <2>1. CASE active_calls = 0
        <3>0. /\ engine' = None
              /\ lifecycle_holder = {} /\ lifecycle_holder' = {t}
              /\ pc' = [pc EXCEPT ![t] = "erased"]
            BY <1>3, <2>1 DEF EraseOrWait, Free, Goto
        <3>1. RuntimeTypeOK'
            BY <1>t, <1>3, <3>0 DEF RuntimeInv, RuntimeTypeOK, Place
        <3>2. Running' = Running /\ Running = {}
            BY <1>t, <1>n, <1>3, <2>1, <3>0, SameRunning
        <3>4. LocksHeld'
            BY <1>t, <1>3, <3>0 DEF RuntimeInv, LocksHeld
        <3>5. CallsCounted' /\ CallsOnLiveEngine'
            BY <1>3, <3>0, <3>2 DEF RuntimeInv, CallsCounted, CallsOnLiveEngine
        <3>6. EngineStates'
            BY <1>t, <3>0, <3>2 DEF RuntimeInv, EngineStates, LocksHeld
        <3>7. NoLostWakeup'
            BY <1>t, <1>3, <3>0 DEF RuntimeInv, NoLostWakeup
        <3> QED BY <3>1, <3>4, <3>5, <3>6, <3>7 DEF RuntimeInv
    <2>2. CASE active_calls # 0
        <3>0. /\ UNCHANGED <<engine, lifecycle_holder>>
              /\ pc' = [pc EXCEPT ![t] = "waiting"]
            BY <1>3, <2>2 DEF EraseOrWait, Goto
        <3>1. RuntimeTypeOK'
            BY <1>t, <1>3, <3>0 DEF RuntimeInv, RuntimeTypeOK, Place
        <3>2. Running' = Running
            BY <1>t, <1>3, <3>0, SameRunning
        <3>4. LocksHeld'
            BY <1>t, <1>3, <3>0 DEF RuntimeInv, LocksHeld
        <3>5. CallsCounted' /\ CallsOnLiveEngine'
            BY <1>3, <3>0, <3>2 DEF RuntimeInv, CallsCounted, CallsOnLiveEngine
        <3>6. EngineStates'
            BY <1>t, <1>3, <3>0, <3>2 DEF RuntimeInv, EngineStates
        <3>7. NoLostWakeup'
            BY <1>t, <1>3, <2>2, <3>0 DEF RuntimeInv, NoLostWakeup
        <3> QED BY <3>1, <3>4, <3>5, <3>6, <3>7 DEF RuntimeInv
    <2> QED BY <2>1, <2>2
<1>4. ASSUME NEW t \in Thread, Stop(t) \/ StopWakes(t) PROVE RuntimeInv'
    <2>1. stopping' \in BOOLEAN
        BY <1>t, <1>4 DEF Stop, StopWakes
    <2> QED BY <1>3, <1>4, <2>1 DEF Stop, StopWakes
<1>5. ASSUME NEW t \in Thread, StopScheduler(t) PROVE RuntimeInv'
    <2> DEFINE places == [pc EXCEPT ![t] = "idle"]
    <2>0. /\ pc[t] = "erased" /\ scheduler' = None /\ stopping' = FALSE
          /\ lifecycle_holder' = lifecycle_holder \ {t}
          /\ pc' = NotifyAll(places)
          /\ UNCHANGED <<engine, active_calls, scheduler_holder, call, starts>>
        BY <1>5 DEF StopScheduler
    <2>b. /\ places \in [Thread -> Place]
          /\ \A u \in Thread : places[u] = IF u = t THEN "idle" ELSE pc[u]
        BY <1>t DEF Place
    <2> HIDE DEF places
    <2>c. /\ pc' \in [Thread -> Place]
          /\ \A u \in Thread : /\ pc'[u] # "waiting"
                               /\ places[u] # "waiting" => pc'[u] = places[u]
                               /\ places[u] = "waiting" => pc'[u] = "notified"
        BY <2>0, <2>b, NotifyKeeps
    <2>a. lifecycle_holder = {t}
        BY <2>0 DEF RuntimeInv, RuntimeTypeOK, LocksHeld
    <2>1. RuntimeTypeOK'
        BY <1>t, <2>0, <2>a, <2>c DEF RuntimeInv, RuntimeTypeOK
    <2>2. Running' = Running
        BY <2>0, <2>b, <2>c, SameRunning
    <2>3. engine = None
        BY <2>0 DEF RuntimeInv, EngineStates
    <2>4. LocksHeld'
        <3>1. lifecycle_holder' = {u \in Thread : pc'[u] \in {"started", "erased"}}
            BY <2>0, <2>a, <2>b, <2>c DEF RuntimeInv, LocksHeld
        <3>2. scheduler_holder' = {u \in Thread : pc'[u] = "ticking"}
            BY <2>0, <2>b, <2>c DEF RuntimeInv, LocksHeld
        <3> QED BY <3>1, <3>2 DEF LocksHeld
    <2>5. CallsCounted' /\ CallsOnLiveEngine'
        BY <2>0, <2>2 DEF RuntimeInv, CallsCounted, CallsOnLiveEngine
    <2>6. EngineStates'
        BY <2>0, <2>b, <2>c, <2>2, <2>3 DEF RuntimeInv, EngineStates
    <2>7. NoLostWakeup'
        BY <2>c DEF NoLostWakeup
    <2> QED BY <2>1, <2>4, <2>5, <2>6, <2>7 DEF RuntimeInv
<1>6. ASSUME NEW t \in Thread, NEW place \in {"call", "tick"}, begin_call(t, place)
      PROVE  RuntimeInv'
    <2>0. /\ pc[t] = "idle" /\ lifecycle_holder = {} /\ engine # None
          /\ active_calls' = active_calls + 1
          /\ call' = [call EXCEPT ![t] = engine]
          /\ pc' = [pc EXCEPT ![t] = place]
          /\ UNCHANGED <<engine, stopping, scheduler, lifecycle_holder, scheduler_holder, starts>>
        BY <1>6 DEF begin_call, Free, Goto
    <2>1. RuntimeTypeOK'
        BY <1>t, <2>0 DEF RuntimeInv, RuntimeTypeOK, Place
    <2>2. Running' = Running \cup {t} /\ t \notin Running
        BY <1>t, <2>0 DEF Running
    <2>3. Cardinality(Running') = Cardinality(Running) + 1
        BY <1>n, <2>2, FS_AddElement
    <2>4. LocksHeld'
        BY <1>t, <2>0 DEF RuntimeInv, LocksHeld
    <2>5. CallsCounted'
        BY <2>0, <2>3 DEF RuntimeInv, CallsCounted
    <2>6. CallsOnLiveEngine'
        BY <1>t, <2>0, <2>2 DEF RuntimeInv, CallsOnLiveEngine, Running
    <2>7. EngineStates'
        BY <1>t, <2>0 DEF RuntimeInv, EngineStates, LocksHeld
    <2>8. NoLostWakeup'
        BY <1>t, <2>0 DEF RuntimeInv, NoLostWakeup
    <2> QED BY <2>1, <2>4, <2>5, <2>6, <2>7, <2>8 DEF RuntimeInv
<1>7. ASSUME NEW t \in Thread, end_call(t) PROVE RuntimeInv'
    <2> DEFINE places == [pc EXCEPT ![t] = "idle"]
    <2>0. /\ pc[t] = "call" /\ lifecycle_holder = {}
          /\ active_calls' = IF active_calls > 0 THEN active_calls - 1 ELSE 0
          /\ call' = [call EXCEPT ![t] = None]
          /\ pc' = IF active_calls' = 0 THEN NotifyAll(places) ELSE places
          /\ UNCHANGED <<engine, stopping, scheduler, lifecycle_holder, scheduler_holder, starts>>
        BY <1>7 DEF end_call, Free
    <2>b. /\ places \in [Thread -> Place]
          /\ \A u \in Thread : places[u] = IF u = t THEN "idle" ELSE pc[u]
        BY <1>t DEF Place
    <2> HIDE DEF places
    <2>c. /\ pc' \in [Thread -> Place]
          /\ \A u \in Thread : /\ places[u] # "waiting" => pc'[u] = places[u]
                               /\ places[u] = "waiting" => pc'[u] \in {"waiting", "notified"}
                               /\ active_calls' = 0 => pc'[u] # "waiting"
        BY <2>0, <2>b, NotifyKeeps
    <2>1. RuntimeTypeOK'
        BY <1>t, <2>0, <2>c DEF RuntimeInv, RuntimeTypeOK
    <2>2. Running' = Running \ {t} /\ t \in Running
        BY <2>0, <2>b, <2>c DEF Running
    <2>3. active_calls' = Cardinality(Running')
        <3>1. Cardinality(Running') = Cardinality(Running) - 1
            BY <1>n, <2>2, FS_RemoveElement
        <3>2. active_calls > 0
            BY <1>t, <1>n, <2>2
        <3> QED BY <2>0, <3>1, <3>2 DEF RuntimeInv, CallsCounted
    <2>4. LocksHeld'
        <3>1. lifecycle_holder' = {u \in Thread : pc'[u] \in {"started", "erased"}}
            BY <2>0, <2>b, <2>c DEF RuntimeInv, LocksHeld
        <3>2. scheduler_holder' = {u \in Thread : pc'[u] = "ticking"}
            BY <2>0, <2>b, <2>c DEF RuntimeInv, LocksHeld
        <3> QED BY <3>1, <3>2 DEF LocksHeld
    <2>5. CallsCounted'
        BY <2>0, <2>2, <2>3 DEF RuntimeInv, CallsCounted
    <2>6. CallsOnLiveEngine'
        BY <1>t, <2>0, <2>2 DEF RuntimeInv, CallsOnLiveEngine, Running
    <2>7. EngineStates'
        BY <2>0, <2>b, <2>c, <2>2 DEF RuntimeInv, EngineStates, LocksHeld
    <2>8. NoLostWakeup'
        BY <2>c DEF NoLostWakeup
    <2> QED BY <2>1, <2>4, <2>5, <2>6, <2>7, <2>8 DEF RuntimeInv
<1>8. ASSUME NEW t \in Thread, TickLock(t) \/ TickRun(t) PROVE RuntimeInv'
    <2>0. /\ pc[t] \in {"tick", "ticking"}
          /\ UNCHANGED <<engine, active_calls, stopping, scheduler, lifecycle_holder, call, starts>>
          /\ \/ /\ scheduler_holder = {}
                /\ scheduler_holder' = {t}
                /\ pc' = [pc EXCEPT ![t] = "ticking"]
             \/ /\ scheduler_holder = {}
                /\ scheduler_holder' = {}
                /\ pc' = [pc EXCEPT ![t] = "call"]
             \/ /\ pc[t] = "ticking"
                /\ scheduler_holder' = scheduler_holder \ {t}
                /\ pc' = [pc EXCEPT ![t] = "call"]
        BY <1>8 DEF TickLock, TickRun, Free, Goto
    <2>a. pc[t] = "ticking" => scheduler_holder = {t}
        BY DEF RuntimeInv, RuntimeTypeOK, LocksHeld
    <2>1. RuntimeTypeOK'
        BY <1>t, <2>0, <2>a DEF RuntimeInv, RuntimeTypeOK, Place
    <2>2. Running' = Running
        BY <1>t, <2>0, SameRunning
    <2>4. LocksHeld'
        <3>1. lifecycle_holder' = {u \in Thread : pc'[u] \in {"started", "erased"}}
            BY <1>t, <2>0 DEF RuntimeInv, LocksHeld
        <3>2. scheduler_holder' = {u \in Thread : pc'[u] = "ticking"}
            BY <1>t, <2>0, <2>a DEF RuntimeInv, LocksHeld
        <3> QED BY <3>1, <3>2 DEF LocksHeld
    <2>5. CallsCounted' /\ CallsOnLiveEngine'
        BY <2>0, <2>2 DEF RuntimeInv, CallsCounted, CallsOnLiveEngine
    <2>6. EngineStates'
        BY <1>t, <2>0, <2>2 DEF RuntimeInv, EngineStates
    <2>7. NoLostWakeup'
        BY <1>t, <2>0 DEF RuntimeInv, NoLostWakeup
    <2> QED BY <2>1, <2>4, <2>5, <2>6, <2>7 DEF RuntimeInv
<1>9. CASE UNCHANGED runtimeVars
    BY <1>9 DEF runtimeVars, RuntimeInv, RuntimeTypeOK, LocksHeld, CallsCounted, CallsOnLiveEngine,
                EngineStates, NoLostWakeup, Running
<1>10. CASE \E t \in Thread : ReturnAtOnce(t)
    BY <1>9, <1>10 DEF ReturnAtOnce
<1> QED BY <1>1, <1>2, <1>4, <1>5, <1>6, <1>7, <1>8, <1>9, <1>10
        DEF RuntimeNext, StartStep, StopStep, CallStep, TickStep, Thread

\* The invariant of the runtime's lifecycle.
THEOREM RuntimeInvariant == RuntimeSpec => []RuntimeInv
<1>1. RuntimeInit => RuntimeInv
    <2> SUFFICES ASSUME RuntimeInit PROVE RuntimeInv
        OBVIOUS
    <2>1. Running = {}
        BY DEF RuntimeInit, Running
    <2>2. Cardinality({}) = 0
        BY FS_EmptySet
    <2>3. RuntimeTypeOK
        <3>1. pc \in [Thread -> Place] /\ call \in [Thread -> Engine \cup {None}]
            BY DEF RuntimeInit, Place
        <3>2. starts \in 0 .. MaxStarts /\ active_calls \in Nat
            BY RuntimeAssumption DEF RuntimeInit
        <3> QED BY <3>1, <3>2 DEF RuntimeInit, RuntimeTypeOK
    <2> QED BY <2>1, <2>2, <2>3 DEF RuntimeInit, RuntimeInv, LocksHeld, CallsCounted,
                CallsOnLiveEngine, EngineStates, NoLostWakeup, Running, None
<1> QED BY <1>1, RuntimeStep, PTL DEF RuntimeSpec

\* However many threads start, stop, call and tick: no call outlives its engine,
\* no tick uses another engine's scheduler and no stop waits for nothing.
THEOREM LifecycleSafe == RuntimeSpec => []LifecycleConsistent
<1>1. RuntimeInv => LifecycleConsistent
    <2> SUFFICES ASSUME RuntimeInv PROVE LifecycleConsistent
        OBVIOUS
    <2>1. ASSUME NEW t \in Thread, pc[t] = "ticking" PROVE scheduler = call[t]
        <3>1. t \in Running
            BY <2>1 DEF Running
        <3>2. lifecycle_holder = {}
            BY <3>1 DEF RuntimeInv, LocksHeld, EngineStates
        <3> QED BY <3>1, <3>2 DEF RuntimeInv, CallsOnLiveEngine, EngineStates
    <2> QED BY <2>1 DEF RuntimeInv, SchedulerOfEngine, LifecycleConsistent
<1> QED BY <1>1, RuntimeInvariant, PTL

\* A thread that waits in hw_runtime_stop, or has erased the engine, is a stopper,
\* and `stopping' keeps the calls out for as long as it waits.
StopInv ==
    \A t \in Thread :
        /\ Waits(t) => stopping
        /\ Waits(t) \/ pc[t] = "erased" => t \in Stopper

\* A step keeps it where one thread stops the runtime.
LEMMA StopStepKeeps ==
    ASSUME \A s, t \in Stopper : s = t,
           RuntimeTypeOK, StopInv, [RuntimeNext]_runtimeVars
    PROVE  StopInv'
<1>t. pc \in [Thread -> Place] /\ stopping \in BOOLEAN
    BY DEF RuntimeTypeOK
<1>1. ASSUME NEW t \in Thread, NEW place, place \notin {"waiting", "notified", "erased"},
             pc' = [pc EXCEPT ![t] = place], stopping' = stopping
      PROVE  StopInv'
    BY <1>t, <1>1 DEF StopInv, Waits
<1>2. ASSUME NEW t \in Thread, StartEngine(t) \/ StartScheduler(t) \/ TickLock(t) \/ TickRun(t)
      PROVE  StopInv'
    BY <1>1, <1>2 DEF StartEngine, StartScheduler, TickLock, TickRun, Goto
<1>3. ASSUME NEW t \in Thread, NEW place \in {"call", "tick"}, begin_call(t, place)
      PROVE  StopInv'
    BY <1>1, <1>3 DEF begin_call, Goto
<1>4. ASSUME NEW t \in Thread, end_call(t) PROVE StopInv'
    <2> DEFINE places == [pc EXCEPT ![t] = "idle"]
    <2>0. pc' \in {NotifyAll(places), places} /\ stopping' = stopping
        BY <1>4 DEF end_call
    <2>1. /\ places \in [Thread -> Place]
          /\ \A u \in Thread : places[u] = IF u = t THEN "idle" ELSE pc[u]
        BY <1>t DEF Place
    <2> HIDE DEF places
    <2>2. \A u \in Thread : \/ pc'[u] = places[u]
                            \/ places[u] = "waiting" /\ pc'[u] = "notified"
        BY <2>0, <2>1, NotifyKeeps
    <2> QED BY <2>0, <2>1, <2>2 DEF StopInv, Waits
<1>5. ASSUME NEW t \in Stopper, Stop(t) \/ StopWakes(t) PROVE StopInv'
    <2>0. t \in Thread
        BY DEF Thread
    <2>1. \A u \in Thread : u # t => pc'[u] = pc[u]
        BY <1>t, <1>5, <2>0 DEF Stop, StopWakes, EraseOrWait, Goto
    <2>2. stopping'
        BY <1>t, <1>5, <2>0 DEF Stop, StopWakes, StopInv, Waits
    <2> QED BY <2>1, <2>2 DEF StopInv, Waits
<1>6. ASSUME NEW t \in Stopper, StopScheduler(t) PROVE StopInv'
    <2> DEFINE places == [pc EXCEPT ![t] = "idle"]
    <2>0. t \in Thread /\ pc' = NotifyAll(places)
        BY <1>6 DEF Thread, StopScheduler
    <2>1. /\ places \in [Thread -> Place]
          /\ \A u \in Thread : places[u] = IF u = t THEN "idle" ELSE pc[u]
        BY <1>t, <2>0 DEF Place
    <2> HIDE DEF places
    <2>2. \A u \in Thread : \/ pc'[u] = places[u]
                            \/ places[u] = "waiting" /\ pc'[u] = "notified"
        BY <2>0, <2>1, NotifyKeeps
    <2>3. \A u \in Thread : u # t => ~ Waits(u) /\ pc[u] # "erased"
        BY DEF StopInv
    <2> QED BY <2>0, <2>1, <2>2, <2>3 DEF StopInv, Waits
<1>7. CASE UNCHANGED runtimeVars
    BY <1>7 DEF runtimeVars, StopInv, Waits
<1>8. CASE \E t \in Thread : ReturnAtOnce(t)
    BY <1>7, <1>8 DEF ReturnAtOnce
<1> QED BY <1>2, <1>3, <1>4, <1>5, <1>6, <1>7, <1>8
        DEF RuntimeNext, StartStep, StopStep, CallStep, TickStep, Thread

\* Where one thread stops the runtime, hw_runtime_stop lets no call begin while it
\* waits for those in flight.  (With a second one the first may be done, and a new
\* engine made, before the second wakes up.)
THEOREM StopRefuses ==
    ASSUME \A s, t \in Stopper : s = t
    PROVE  RuntimeSpec => StopRefusesCalls
<1>1. RuntimeInit => StopInv
    BY DEF RuntimeInit, StopInv, Waits
<1>2. RuntimeInv /\ StopInv /\ [RuntimeNext]_runtimeVars => StopInv'
    BY StopStepKeeps DEF RuntimeInv
<1>3. RuntimeInv /\ StopInv /\ [RuntimeNext]_runtimeVars =>
          [(\E t \in Thread : Waits(t)) => active_calls' <= active_calls]_runtimeVars
    <2> SUFFICES ASSUME RuntimeInv, StopInv, RuntimeNext, NEW u \in Thread, Waits(u)
                 PROVE  active_calls' <= active_calls
        OBVIOUS
    <2>0. stopping /\ active_calls \in Nat
        BY DEF StopInv, RuntimeInv, RuntimeTypeOK
    <2>1. \A t, place : ~ begin_call(t, place)
        BY <2>0 DEF begin_call
    <2>2. ASSUME NEW t, end_call(t) PROVE active_calls' <= active_calls
        BY <2>0, <2>2 DEF end_call
    <2>3. ASSUME NEW t, \/ StartEngine(t) \/ StartScheduler(t) \/ Stop(t) \/ StopWakes(t)
                        \/ StopScheduler(t) \/ TickLock(t) \/ TickRun(t) \/ ReturnAtOnce(t)
          PROVE  active_calls' = active_calls
        BY <2>3 DEF StartEngine, StartScheduler, Stop, StopWakes, StopScheduler, TickLock, TickRun,
                    ReturnAtOnce, runtimeVars
    <2> QED BY <2>0, <2>1, <2>2, <2>3 DEF RuntimeNext, StartStep, StopStep, CallStep, TickStep
<1> QED BY <1>1, <1>2, <1>3, RuntimeInvariant, PTL DEF RuntimeSpec, StopRefusesCalls
=============================================================================
