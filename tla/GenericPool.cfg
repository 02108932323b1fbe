CONSTANTS
    own = own  fo = fo  ta = ta  tb = tb  td = td
    NumThreads = 2
    Clients = {own, fo}
    Owner = own
    Foreign = {fo}
    ForeignIndex <- MCForeignIndex
    Tasks = {ta, tb, td}
    EmptyTask = EmptyTask
    NoThread = NoThread
    Programs <- MCPrograms
SPECIFICATION Spec
INVARIANTS TaskConserved PauseHolds
PROPERTIES ImplementsTaskPool FutureSettles DestructorReturns
\* a worker whose wakeup was lost sleeps for ever
CHECK_DEADLOCK FALSE
