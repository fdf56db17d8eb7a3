SPECIFICATION GatewaySpec
CONSTANTS
    Process = {p1, p2}
    Tunnel = {stb0, stb1}
    Policy = {old, new}
    Nobody = nobody
    Absent = absent
    MaxStarts = 4
    MaxKills = 1
    MaxFaults = 1
    MaxForeign = 1
INVARIANTS
    OneOfEach
    RecordsTruthful
    ForwardingRestored
    ApplyAllOrNothing
PROPERTIES
    OthersUntouched
    ApplyIsIdempotent
SYMMETRY Symmetry
CHECK_DEADLOCK FALSE
