\* One invocation at a time, every fault, restarts.
SPECIFICATION Spec
CONSTANTS
    a = a
    b = b
    BindingIds = {a, b}
    new = new
    coap = coap
    http = http
    Schemes = {new, coap, http}
    NativeClients = {http}
    NativeServers = {http}
    None = None
    Absent = Absent
    Broken = Broken
    Native = Native
    Packages <- AllPackages
    Instances = {i1, i2, i3}
    Requests = {r1}
    Ingress = {"native", "dynamic"}
    MaxStopFaults = 2
INVARIANTS
    NothingLeaks
    RegisteredUnlessStopFailed
PROPERTY ImplementsStore
