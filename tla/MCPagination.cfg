CONSTANTS
    DefaultPage = 1
    DefaultPerPage = 2
    FirstPage = {0, 1}
    InitialRows = 6
    MaxRows = 8
    MaxDeletes = 3
SPECIFICATION Spec
INVARIANTS MissesAtMostDeleted NoRowTwice
CHECK_DEADLOCK FALSE
