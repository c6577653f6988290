SPECIFICATION Spec
CONSTANTS
    ann = ann
    bob = bob
    r1 = r1
    r2 = r2
    People <- Pair
    Requests = {r1, r2}
    MaxTime = 1
    Providers = {"cognito"}
    Patches = {}
    Collide = FALSE
    Faults = FALSE
INVARIANTS InactiveLockedOut
