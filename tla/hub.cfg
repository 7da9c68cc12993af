SPECIFICATION FairSpec
CONSTANTS
    Conn = {c1, c2}
    Request = {r1}
    Term = {t1}
    Session = {s1}
    Device = {d1}
    NoConn = NoConn
    NoRow = NoRow
    Boot = Boot
INVARIANTS TypeOK NoDetachedTerminal NoDeadRegistration SupersededIsStopped
PROPERTIES OutdatedHandlersEnd
CHECK_DEADLOCK FALSE
