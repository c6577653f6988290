SPECIFICATION Spec
CONSTANTS
    ann = ann
    bob = bob
    h1 = h1
    h2 = h2
    Employees <- One
    Rank <- AnnOnly
    Dates = {1, 2}
    Lengths = {1}
    Quota = 1
    Handlers = {h1, h2}
    Deciders = {h1, h2}
    Apart = TRUE
    Faults = TRUE
SYMMETRY Both
INVARIANTS TypeOK WithinQuota Audited DecisionsReal
PROPERTIES ImplementsLedger
