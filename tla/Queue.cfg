CONSTANTS
    p1 = p1  p2 = p2  c1 = c1  c2 = c2
    Threads = {p1, p2, c1, c2}
    Values = {a, b}
    Nodes = {n1, n2, n3}
    MayCall <- MCMayCall
    NoThread = NoThread  NoNode = NoNode  NoValue = NoValue
SPECIFICATION FairSpec
INVARIANTS NodeRaceFree WakeupsCover
PROPERTIES ImplementsFifo NoStuckSleeper
