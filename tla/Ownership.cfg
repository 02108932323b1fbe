SPECIFICATION Spec
CONSTANTS
    c1 = c1
    c2 = c2
    w1 = w1
    w2 = w2
    s1 = s1
    a1 = a1
    a2 = a2
    Null = Null
    Dead = Dead
    NoArg = NoArg
    Containers <- MCContainers
    Wrappers <- MCWrappers
    Static <- MCStatic
    Args <- MCArgs
    MaxShares = 2
SYMMETRY Symmetry
INVARIANTS SingleOwner SharesBacked ResultAllocated
PROPERTY NothingElseLost
