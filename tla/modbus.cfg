\* Requests that combine, over a connection that comes and goes.
SPECIFICATION FairSpec
CONSTANTS
    o1 = o1
    o2 = o2
    o3 = o3
    o4 = o4
    u = u
    Ops = {o1, o2, o3, o4}
    Units = {u}
    Form <- Neighbours
    Loops = {1, 2, 3}
    MaxRetries = 2
    MaxIssued = 3
    MaxAddress = 3
    None = None
INVARIANTS
    PendingOnce
PROPERTIES
    CombinedAsAlone
    Settled
