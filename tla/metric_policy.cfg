SPECIFICATION FairSpec
CONSTANTS
    Conn = {c1, c2}
    Request = {q1, q2}
    None = None
    Inputs <- MCInputs
INVARIANTS TypeOK AppliedUnlessRaced
PROPERTIES HeartbeatsFollowPolicy
CHECK_DEADLOCK FALSE
