SPECIFICATION MCSpec
CONSTANTS
    Configured <- MCConfigured
    Validation = TRUE
    Declared <- MCDeclared
    Scopes = {"read"}
    Properties = {"on", "power"}
    ReadOnly = {"power"}
    Actions = {"toggle", "fade"}
    Events = {"hot"}
    Silent = {"toggle"}
    Slots = {1}
    Requests <- MCRequests
    Introspected <- MCIntrospected
    None = None
    Metadata <- MCMetadata
    Rotating = TRUE
    MaxTokens = 3
    Calls = {1, 2, 3}
    Subscriptions = {1, 2}
    Hrefs = {h1, h2}
    MaxEvents = 2
    Endpoints = {e1, e2}
    Nodes = {n1}
    OpcuaCalls = {1, 2}
    MaxConnections = 3
    MaxStops = 1
    Hosts = {h1, h2}
    NetconfCalls = {1, 2, 3}
    MaxRouters = 2
    Ops = {1, 2, 3}
    MaxRetries = 2
    Clients = {k1, k2}
    CoapHosts = {h1}
    CoapRequests = {1, 2}
    CoapCalls = {1, 2}
    Ids = {h1, h2}
    MaxPolls = 3
    MaxReads = 1
    Things = {t1}
    Addresses = 2
    MaxForms = 4
    MaxEntries = 3
    TcpCalls = {1}
    Chunks = 2
INVARIANTS
    HandledIfGranted
    ActiveIffOpen
    RefusedIfDoubled
    OpenIsCached
    HearsWhileActive
    OneRouter
    PollsWhileLinked
PROPERTY
    RequestsAnswered
    PollsAgain
    OperationsSettle
    CoapRequestsSettle
    TcpServes
CHECK_DEADLOCK FALSE
