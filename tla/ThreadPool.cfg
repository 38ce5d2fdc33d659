CONSTANTS
    Workers = {w1, w2, w3}
    Tasks = {a, b}
SPECIFICATION FairSpec
INVARIANTS IInv EnoughAwake NothingLeft
PROPERTIES EachTaskTaken DestructorReturns
CHECK_DEADLOCK FALSE
