SPECIFICATION FairSpec
CONSTANTS
    ann = ann
    full = full
    part = part
    noRecord = noRecord
    r1 = r1
    r2 = r2
    Employees <- One
    Groups <- TwoGroups
    EmploymentType <- OneType
    NoRecord = noRecord
    LockKeys <- ScopedLocks
    Edits <- Scrawl
    Months <- OneMonth
    MonthOf <- SameMonth
    MaxTime = 1
    Window = 1
    Overlap = TRUE
    Faults = FALSE
    StaleReads = FALSE
    Requests = {r1, r2}
INVARIANTS LockRespected AuditComplete
PROPERTIES EveryEventAudited
