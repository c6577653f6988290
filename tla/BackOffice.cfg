SPECIFICATION OfficeSpec
CONSTANTS
    ann = ann
    bob = bob
    Employees = {ann, bob}
    MaxTime = 4
    LastEvent = 2
    MaxLag = 1
    SlotsPerDay = 2
    DaysPerMonth = 2
    ExpiryMonths = 1
    MaxHours = 3
    MinSession = 2
    WarningDays = 2
    AlertDays = 1
    ReminderAge = 2
    TerminationDays = 2
    MaxDays = 3
    MaxTenure = 3
    Fields = {"x", "y"}
    Leaves = {"1", "2"}
    Depth = 1
    Layers <- SomeLayers
    Years <- AllYears
    ExitYears <- LeapAndNext
    Rates <- JpRates
    WarningShare = 85
    MaxKind = 3
    MaxLimit = 8
    DeadlineDay = 15
    ConfidentialityYears = 2
    NonCompeteMonths = 12
    CurePeriodDays = 7
SYMMETRY Both
INVARIANTS FlagsRight ExpiredStaysOut
INVARIANTS WarnedInTime HoursAddUp
INVARIANTS OvertimeEscalates AccrualSound MostSpecificWins CalendarKept
PROPERTIES RerunsSettle
