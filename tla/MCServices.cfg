CONSTANTS
    Callers = {c1, c2, c3}
    Strategies = {"regular", "busy"}
    MaxThrows = 2
    Duration = 2
    Horizon = 9
SPECIFICATION FairServices
INVARIANTS IInv TimerInv
PROPERTIES ImplementsContract EachCallReturns TimerStops
