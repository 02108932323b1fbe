CONSTANTS
    own = own  cl = cl  ta = ta  tb = tb  td = td
    NumThreads = 3
    Clients = {own, cl}
    Owner = own
    Tasks = {ta, tb, td}
    EmptyTask = EmptyTask
    Programs <- MCPrograms
SPECIFICATION Spec
INVARIANTS EmptyTasksCover TaskConserved
PROPERTIES ImplementsTaskPool DestructorReturns FutureSettles
\* a client that calls runPendingTask on an idle pool may wait there for ever
CHECK_DEADLOCK FALSE
