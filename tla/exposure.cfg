\* Long polls, WebSockets and a broker, with servers that join later.
SPECIFICATION Spec
CONSTANTS
    h1 = h1
    h2 = h2
    w = w
    m = m
    p = p
    e = e
    Affordances = {p, e}
    Properties = {p}
    Servers = {h1, h2, w, m}
    Type <- AllTypes
    Offered = 2
    Conns = {c1, c2}
    Secured = TRUE
    Handled = {e}
    None = None
SYMMETRY Symmetric
INVARIANTS
    EachListensOnce
    ReleasedOnClose
PROPERTY FoundUnlessRemoved
\* An exception that nobody catches ends the process.
CHECK_DEADLOCK FALSE
