SPECIFICATION Spec
CONSTANTS
    t1 = t1
    t2 = t2
    Things = {t1, t2}
    Title <- MCTitle
    Reserved = {"hall:1"}
    Properties = {"on", "power", "set point"}
    ReadOnly = {"power"}
    WriteOnly = {}
    Observable = {"on", "power"}
    Actions = {"toggle"}
    Events = {"hot", "moved"}
    Escaped = {"set point"}
    Parameterized = {"moved"}
    Handled = {"hot"}
    Requests <- MCRequests
    Slots = {1, 2}
    MaxExposed <- MCMaxExposed
    None = None
INVARIANTS
    FormsAreServed
    ReleasedOnFinish
PROPERTY
    Answered
CHECK_DEADLOCK FALSE
