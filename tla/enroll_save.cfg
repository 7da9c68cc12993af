SPECIFICATION Spec
CONSTANTS
    Agent = {a1}
    Conn = {c1, c2}
    Id = {i1, i2}
    Token = {k1, k2}
    Enroll = {e1, e2}
    None = None
    MaxFaults = 2
INVARIANTS OnlineIsSaved
CHECK_DEADLOCK FALSE
