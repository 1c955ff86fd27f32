\* Calls about a property and an event over MQTT, with faults.
SPECIFICATION Spec
CONSTANTS
    p = p
    e = e
    Topics = {p, e}
    Properties = {p}
    Calls = {c1, c2, c3}
    MaxFaults = 2
    None = None
SYMMETRY Symmetric
INVARIANTS
    EntryIsLive
    StoppedIsSilent
    AloneIsServed
\* A rejection that nobody handles ends the process, readings may hang.
CHECK_DEADLOCK FALSE
