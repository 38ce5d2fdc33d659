CONSTANTS
    Threads = {t1, t2, t3}
    MaxShare = 4
    PreferExclusive = TRUE
    Upgradeable = FALSE
    Downgradeable = FALSE
    UpgradeIsolated = TRUE
SPECIFICATION Spec
INVARIANT NoLostWakeup
