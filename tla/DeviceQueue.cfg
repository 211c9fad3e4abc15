SPECIFICATION FairSpec
CONSTANTS
    Threads = {t1, t2}
    MaxReadbacks = 2
    MaxTickets = 3
INVARIANTS TypeOK OneContext CallbackNotLost
PROPERTIES OutcomeIsFinal CallsReturn
