SPECIFICATION Spec
CONSTANTS
    i1 = i1  i2 = i2  Ids = {i1, i2}
    o1 = o1  o2 = o2  Instances = {o1, o2}
    Null = Null
    Text = Text
    NoId = NoId
    Careful = TRUE
    MaxDepth = 2
    MaxArgs = 1
    MaxRefs = 1
INVARIANTS StoreMatchesKernel RefsAlive
PROPERTIES ResultOwn AbortNoticed
