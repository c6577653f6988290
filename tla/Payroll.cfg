SPECIFICATION Spec
CONSTANTS
    Days = 3
    MaxTime = 7
    DaySlots = 4
    SlotSeconds = 3710
    MonthlyMinimum = 4
    DailyMinimum = 1
    OvertimeRate = 5
    MonthlyFullTime = 160
    Salaries <- SomeSalaries
    MaxEntries = 3
    MaxLeave = 1
INVARIANTS TypeOK HoursTrue SummaryLive BlendAccounted PaidFairly WorkPays
