CONSTANTS
    Endpoint = {old, new}
    NoEndpoint = none
    MaxUpdates = 1
SPECIFICATION EndpointSpec
INVARIANT ClearedTogether
