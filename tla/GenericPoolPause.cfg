CONSTANTS
    own = own  fo = fo  ta = ta  tb = tb  td = td
    NumThreads = 2
    Clients = {own, fo}
    Owner = own
    Foreign = {fo}
    ForeignIndex <- MCForeignIndex
    Tasks = {ta, tb, td}
    EmptyTask = EmptyTask
    NoThread = NoThread
    Programs <- PausePrograms
SPECIFICATION Spec
PROPERTY WorkersJoined
\* a worker whose wakeup was lost sleeps for ever
CHECK_DEADLOCK FALSE
