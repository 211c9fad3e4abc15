SPECIFICATION Spec
CONSTANTS
    WORKGROUP = 2
    MAX_GRID_X = 2
    U32 = 16
    MaxN = 9
    MaxD = 2
    MaxBinding = 14
    Drawn <- MCDrawn
    Add <- MCAdd
    Sub <- MCSub
    Mul <- MCMul
    MeanOf <- MCMeanOf
    Accumulate <- MCAccumulate
    Zero = Zero
    Stale = Stale
    NoValue = NoValue
INVARIANTS TypeOK RaceFree
PROPERTIES ImplementsEnsemble
