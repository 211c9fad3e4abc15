SPECIFICATION Spec
CONSTANTS
    HALF = 4
    W = 4
    MH = 2
    EXPONENTS = 32
    BIAS = 15
    BLOCK = 3
    MaxWords = 7
    XorWord <- XorWords
    GOLDEN <- Golden
    MULTIPLIER1 <- Multiplier1
    MULTIPLIER2 <- Multiplier2
    SHIFT1 = 4
    SHIFT2 = 2
    SHIFT3 = 8
    Draws <- ValidDraws
    NoValue = NoValue
INVARIANTS TypeOK WordsInOrder NeverOvershoots WalksAtMostOnce LabelsEquallyLikely
PROPERTIES ImplementsHost
