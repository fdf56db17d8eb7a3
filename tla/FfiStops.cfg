CONSTANTS
    Starter = {start1}
    Stopper = {stop1, stop2}
    Caller = {call1, call2}
    Ticker = {tick1}
    MaxStarts = 3
SPECIFICATION RuntimeSpec
PROPERTIES
    StopRefusesCalls
