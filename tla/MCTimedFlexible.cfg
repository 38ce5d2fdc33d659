CONSTANTS
    Threads = {t1, t2, t3, t4}
    MaxShare = 2
    PreferExclusive = FALSE
    Upgradeable = TRUE
    Downgradeable = TRUE
    UpgradeIsolated = TRUE
SPECIFICATION TimedSpec
SYMMETRY Symmetry
INVARIANT CountInv
PROPERTIES ContractSpec
