CONSTANTS
    Threads = {t1, t2, t3}
    Builds = {"monitor", "atomic"}
    Mixes = {{1}, {2}}
    MaxPermits = 4
    Expected = {1, 3}
SPECIFICATION FairSpec
INVARIANT NoWakeupLost
PROPERTIES
    ImplementsContract
    NobodyForgotten
