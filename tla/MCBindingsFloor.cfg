SPECIFICATION BindingSpec
CONSTANTS
    Sizes = {0, 1, 4, 31, 32, 39, 40, 64}
    Claims <- AccuracyClaims
    NoClaim = NoClaim
INVARIANT TighterNeedsMore
