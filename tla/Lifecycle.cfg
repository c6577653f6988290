SPECIFICATION Spec
CONSTANTS
    ann = ann
    bob = bob
    r1 = r1
    r2 = r2
    People <- Pair
    Requests = {r1, r2}
    MaxTime = 1
    Providers = {"cognito", "stub"}
    Patches = {"ACTIVE", "INACTIVE"}
    Collide = FALSE
    Faults = TRUE
SYMMETRY Slots
INVARIANTS TypeOK ReportsComplete LoginsBacked EndedStayOut
