SPECIFICATION FairSpec
CONSTANTS
    Serials = {s1}
    Clients = {c1, c2}
    MaxRetries = 1
    MaxRefs = 2
PROPERTIES
    UnrefReturns
CHECK_DEADLOCK FALSE
