SPECIFICATION Spec
CONSTANTS
    ann = ann
    full = full
    part = part
    noRecord = noRecord
    r1 = r1
    r2 = r2
    Employees <- One
    Groups <- TwoGroups
    EmploymentType <- OneType
    NoRecord = noRecord
    LockKeys <- NoLocks
    Edits <- NoEdits
    Months <- OneMonth
    MonthOf <- SameMonth
    MaxTime = 4
    Window = 1
    Overlap = TRUE
    Faults = FALSE
    StaleReads = FALSE
    Requests = {r1, r2}
SYMMETRY Slots
INVARIANTS ValidLog
