CONSTANTS
    Coroutines = {c1, c2, c3}
    Null = null
    Locked = locked
SPECIFICATION FairSpec
INVARIANTS AsyncInv
PROPERTIES FifoSpec EachResumed
