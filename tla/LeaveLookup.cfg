SPECIFICATION Spec
CONSTANTS
    ann = ann
    bob = bob
    h1 = h1
    h2 = h2
    Employees <- Two
    Rank <- AnnFirst
    Dates = {1, 2}
    Lengths = {1, 2}
    Quota = 3
    Handlers = {h1, h2}
    Deciders = {h1, h2}
    Apart = TRUE
    Faults = FALSE
PROPERTIES RequestsFound
