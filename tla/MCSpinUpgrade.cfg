CONSTANTS
    Threads = {t1, t2, t3}
    MaxShare = 2
    PreferExclusive = TRUE
    Upgradeable = TRUE
    Downgradeable = TRUE
    UpgradeIsolated = FALSE
    Timed = TRUE
    CheckedTryOrder = TRUE
SPECIFICATION Spec
INVARIANT UpgradeAssertionHolds
CHECK_DEADLOCK FALSE
