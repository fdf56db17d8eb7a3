CONSTANTS
    Starter = {start1}
    Stopper = {stop1, stop2}
    Caller = {call1, call2}
    Ticker = {tick1, tick2}
    MaxStarts = 3
SPECIFICATION FairRuntimeSpec
INVARIANTS
    LifecycleConsistent
PROPERTIES
    StopReturns
