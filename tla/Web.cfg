SPECIFICATION Spec
CONSTANTS
    eli = eli
    ada = ada
    Users = {eli, ada}
    RoleOf <- TwoRoles
    Keys = {"state"}
    Opened = {"dashboard", "attendance"}
    Items = {"states"}
    Slots = {1, 2}
    MaxVersion = 2
INVARIANTS TypeOK OwnSavesShown NothingRefused GapsAreAll
PROPERTIES PolledCatchUp
