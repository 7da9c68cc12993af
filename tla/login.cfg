SPECIFICATION Spec
CONSTANTS
    Req = {q1, q2, q3, q4}
    Boot = Boot
    None = None
    Slots = 1
    MaxPreAuth = 2
    MaxAttempts = 2
    MaxFailures = 1
    MaxStep = 1
SYMMETRY Symmetric
INVARIANTS TypeOK TOTPStepOnce PreAuthOnce BusyIsOwned
PROPERTIES LockVoidsPreAuth OverrunIsOverlap
CHECK_DEADLOCK FALSE
