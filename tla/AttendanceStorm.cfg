SPECIFICATION Spec
CONSTANTS
    ann = ann
    full = full
    part = part
    noRecord = noRecord
    r1 = r1
    r2 = r2
    Employees <- One
    Groups <- TwoGroups
    EmploymentType <- OneType
    NoRecord = noRecord
    LockKeys <- CompanyLock
    Edits <- Repair
    Months <- OneMonth
    MonthOf <- SameMonth
    MaxTime = 1
    Window = 1
    Overlap = TRUE
    Faults = TRUE
    StaleReads = TRUE
    Requests = {r1, r2}
SYMMETRY Slots
INVARIANTS TypeOK StateBacked AuditBacked
