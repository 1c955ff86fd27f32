SPECIFICATION MCSpec
CONSTANTS
    t1 = t1
    t2 = t2
    t3 = t3
    h = h
    w = w
    m = m
    Servers = {h, w, m}
    Kind <- MCKind
    Things = {t1, t2, t3}
    Title <- MCTitle
    Slug <- MCTitle
    Escaped = {"toggle"}
    Properties = {"on"}
    ReadOnly = {}
    WriteOnly = {}
    Observable = {"on"}
    Actions = {"toggle"}
    Events = {"hot"}
    DevFriendly <- MCDevFriendly
    Refused = {}
    None = None
    Initial = {h, w}
    Broken = {m}
    Calls = {1, 2, 3}
    MaxExposed <- MCMaxExposed
INVARIANTS
    FormsLead
    DestroyedIsGone
    NothingListensOn
PROPERTY
    StopsResolve
CHECK_DEADLOCK FALSE
