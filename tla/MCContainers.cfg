CONSTANTS
    l1 = l1
    l2 = l2
    a = a
    b = b
    Lists = {l1, l2}
    Items = {a, b}
    Kinds <- MCKinds
    MaxCapacity = 4
    OnlySound = TRUE
    UnitCount = 5
SYMMETRY Alike
SPECIFICATION Spec
INVARIANTS ItemsInPlace ActsAsSequence LinksAgree EachUnitOnce
PROPERTIES ImplementsLinkedContract
CHECK_DEADLOCK FALSE
