\* Two writes of one register each that combine.
SPECIFICATION Spec
CONSTANTS
    o1 = o1
    o2 = o2
    o3 = o3
    o4 = o4
    u = u
    Ops = {o1, o2, o3}
    Units = {u}
    Form <- SingleRegisters
    Loops = {1, 2, 3}
    MaxRetries = 2
    MaxIssued = 3
    MaxAddress = 3
    None = None
PROPERTY CombinedAsAlone
