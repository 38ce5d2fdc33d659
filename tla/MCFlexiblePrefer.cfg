CONSTANTS
    Threads = {t1, t2, t3, t4}
    MaxShare = 3
    PreferExclusive = TRUE
    Upgradeable = TRUE
    Downgradeable = TRUE
    UpgradeIsolated = FALSE
SPECIFICATION Spec
SYMMETRY Symmetry
INVARIANTS IInv MutualExclusion CountFits SharersNoticed
PROPERTIES OrderBlocksReaders ContractSpec
