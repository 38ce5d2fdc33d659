CONSTANTS
    Threads = {t1, t2, t3}
    MaxShare = 4
    PreferExclusive = TRUE
    Upgradeable = TRUE
    Downgradeable = TRUE
    UpgradeIsolated = TRUE
SPECIFICATION OneWaiterSpec
INVARIANTS NoLostWakeup
PROPERTIES OrderCompletes ReadersAdmitted
