CONSTANTS
    Threads = {t1, t2, t3}
    MaxShare = 2
    PreferExclusive = TRUE
    Upgradeable = TRUE
    Downgradeable = TRUE
    UpgradeIsolated = FALSE
    Timed = TRUE
    CheckedTryOrder = TRUE
SPECIFICATION FairSpec
INVARIANTS CountInv AssertionsHold
PROPERTIES ContractSpec OrderCompletes
CHECK_DEADLOCK FALSE
