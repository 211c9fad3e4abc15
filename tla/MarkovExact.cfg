SPECIFICATION Spec
CONSTANTS
    WORKGROUP = 4
    MAX_GRID_X = 1
    U32 = 8
    Sizes = {1, 4, 5, 8}
    Stale = Stale
    NoValue = NoValue
INVARIANTS TypeOK NoWorkgroupRace HitsConserved
PROPERTIES ImplementsEnsemble
