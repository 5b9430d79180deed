CONSTANTS
    t1 = t1
    t2 = t2
    Transfers = {t1, t2}
    Chunks = {1, 3}
    Rates = {0, 1, 2}
    MaxTime = 6
    MaxChanges = 2
CHECK_DEADLOCK FALSE
SPECIFICATION Spec
SYMMETRY Symmetric
INVARIANTS
    TypeOK
    RateKept
    DebtBounded
