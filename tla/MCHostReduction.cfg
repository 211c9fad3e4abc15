SPECIFICATION FairSpec
CONSTANTS
    MaxLen = 19
    X <- MCX
    Y <- MCY
    M = M
    Add <- MCAdd
    Sub <- MCSub
    Mul <- MCMul
    Zero = Zero
    Stale = Stale
    NoResult = NoResult
    Panicked = Panicked
INVARIANTS TypeOK SafeAccess DyadicShape
PROPERTIES ImplementsTree CallReturns
