SPECIFICATION FairSpec
CONSTANTS
    Serials = {s1, s2}
    Clients = {c1}
    MaxRetries = 1
    MaxRefs = 2
INVARIANT QueueIsSound
 
CHECK_DEADLOCK FALSE
