SPECIFICATION MCSpec
CONSTANTS
    s1 = s1  s2 = s2  Stores = {s1, s2}
    l1 = l1  l2 = l2  Lists = {l1, l2}
    i1 = i1  Iterators = {i1}
    Nil = Nil
    NodeTypes = {"Tensor", "NumericArray"}
    MaxNodes = 3
    Nothing = Nothing
    Error = Error
    Width = 5
    Capacity = 8
    MaxRank = 3
    MaxDim = 3
    MaxArgc = 5
    MaxPack = 3
    CorrespondingTypes <- MCTypes
INVARIANTS ListsTyped WalkComplete ArraysSound ArgumentsSound
