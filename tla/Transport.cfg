CONSTANTS
    Client = {c1, c2}
    Addressed = {c1}
    MaxPings = 2
    Lag = 2
    MaxMessages = 2
    MaxRequests = 1
SPECIFICATION Spec
INVARIANTS
    
    ResponsiveStay
PROPERTY RequestsSettle
CHECK_DEADLOCK FALSE
