SPECIFICATION Spec
CONSTANTS
    Main = Main
    l1 = l1  l2 = l2  l3 = l3  l4 = l4
    Loopbacks = {l1, l2, l3, l4}
    list = list  rule = rule
    Heads = {list, rule}
    NoHead = NoHead
    Arities = {0, 2}
    MaxOpen = 3
    MaxTokens = 4
    MaxFailures = 1
SYMMETRY LinkSymmetry
INVARIANTS CurrentLinkUsable StrandedExactly NestingKnown
PROPERTY DeliversExpressions
