\* Invocations that overlap.
SPECIFICATION Spec
CONSTANTS
    a = a
    b = b
    BindingIds = {a, b}
    new = new
    coap = coap
    http = http
    Schemes = {new, coap, http}
    NativeClients = {http}
    NativeServers = {http}
    None = None
    Absent = Absent
    Broken = Broken
    Native = Native
    Packages <- OverlapPackages
    Instances = {i1, i2, i3}
    Requests = {r1, r2}
    Ingress = {"native"}
    MaxStopFaults = 0
SYMMETRY Symmetric
INVARIANTS
    FactoryOwnership
    ServerOwnership
    PortsAccounted

