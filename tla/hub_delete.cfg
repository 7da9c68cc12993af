SPECIFICATION Spec
CONSTANTS
    Conn = {c1}
    Request = {r1}
    Term = {t1}
    Session = {s1}
    Device = {d1}
    NoConn = NoConn
    NoRow = NoRow
    Boot = Boot
INVARIANTS DeletedDeviceDisconnected
CHECK_DEADLOCK FALSE
