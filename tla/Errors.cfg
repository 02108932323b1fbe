SPECIFICATION Spec
CONSTANTS
    Main = Main
    w = w  Workers = {w}
    e1 = e1  e2 = e2  Objects = {e1, e2}
    NoObject = NoObject
    l1 = l1  l2 = l2  Loops = {l1, l2}
    NoLink = NoLink
    PacletErrors <- MCPacletErrors
    MaxList = 2
    ThrownNames = {"P", "VersionError", "MArrayDimensionIndexError"}
    Careful = TRUE
    MaxThrows = 2
SYMMETRY ReportingSymmetry
CONSTRAINT FewErrors
INVARIANTS ErrorIdentified LoopbacksOwned
PROPERTIES LogsApart FailureShowsItsOwn
