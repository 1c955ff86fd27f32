\* Invocations that overlap and arrive over bindings that others remove.
SPECIFICATION FairSpec
CONSTANTS
    a = a
    b = b
    BindingIds = {a, b}
    new = new
    coap = coap
    http = http
    Schemes = {new, coap, http}
    NativeClients = {http}
    NativeServers = {http}
    None = None
    Absent = Absent
    Broken = Broken
    Native = Native
    Packages <- TwoTcp
    Instances = {i1, i2, i3}
    Requests = {r1, r2}
    Ingress = {"native", "dynamic"}
    MaxStopFaults = 0
PROPERTY AnsweredNatively
