SPECIFICATION MCSpec
CONSTANTS
    Things <- MCThings
    HasCredentials = TRUE
    Schemes = {"http", "ws"}
    MaxSubs = 1
    None = None
    Properties = {p, q}
    ReadOnly = {q}
    WriteOnly = {}
    Actions = {a}
    Json = {p, q}
    Calls = {1, 2}
    MaxValue = 2
    Chunks = 2
    Readers = {1, 2, 3}
    Codecs <- MCCodecs
    Outputs <- MCOutputs
    Exchanges <- MCExchanges
INVARIANTS
    FormFitsClient
    SecuredOrKnown
    LastIsCurrent
    WholeUnlessOverlapped
    CodecExact
CHECK_DEADLOCK FALSE
