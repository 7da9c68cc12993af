SPECIFICATION Spec
CONSTANTS
    Dev = {1, 2, 3}
    Name = {1, 2}
    Legacy = {2}
    MaxOrder = 4
INVARIANTS TypeOK UpMeansMigrated
PROPERTIES OrderStays DraggedAsShown ImportKeepsRows
CHECK_DEADLOCK FALSE
