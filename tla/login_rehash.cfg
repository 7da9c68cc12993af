SPECIFICATION Spec
CONSTANTS
    Req = {q1, q2, q3, q4}
    Boot = Boot
    None = None
    Slots = 2
    MaxPreAuth = 2
    MaxAttempts = 3
    MaxFailures = 3
    MaxStep = 1
SYMMETRY Symmetric
PROPERTIES PasswordStays
CHECK_DEADLOCK FALSE
