SPECIFICATION FairSpec
CONSTANTS
    Workers = {w1, w2}
    Caller = caller
    MaxN = 3
    Dim = 2
    PARALLEL_MIN = 2
    Word <- MCWord
    Theta <- MCTheta
    Shifted <- MCShifted
    Column <- MCColumn
    Zero = Zero
    NoValue = NoValue
INVARIANTS TypeOK RowsAreOwned NoDrawIsLost PoolIsReported
PROPERTIES ImplementsEnsemble RunEnds
CHECK_DEADLOCK FALSE
