------------------------ MODULE MCGenericThreadPool ------------------------
(* Instances of GenericThreadPool for TLC: the programs clients and tasks run. *)
EXTENDS GenericThreadPool, TLC

CONSTANTS own, fo,        \* two clients
          ta, tb, td      \* three tasks

Do(c, u) == [call |-> c, task |-> u]
Program(bodies) == bodies @@ [x \in Callables |-> <<>>]

\* The owner waits for one task, which submits two others, and destroys the pool.
Scatter == Program(
    (own :> <<Do("submit", ta), Do("get", ta)>>)
      @@ (ta :> <<Do("submit", tb), Do("submit", td)>>))

\* Recursive fork and join: whoever waits helps, as rangeLcm of
\* tests/UnitTests/Async/TestSources/PoolTest.cpp does.
ForkJoin == Program(
    (own :> <<Do("submit", ta), Do("help", ta)>>)
      @@ (ta :> <<Do("submit", tb), Do("help", tb)>>))

\* A pause between two submissions.
PauseResume == Program(
    (own :> <<Do("submit", ta), Do("pause", EmptyTask), Do("submit", tb),
              Do("resume", EmptyTask)>>))

\* A worker of another pool submits a task.
FromOtherPool == Program((fo :> <<Do("submit", ta)>>))

\* Its own pool has two workers, too, and it is the second.
MCForeignIndex == [c \in {fo} |-> 1]

MCPrograms == {Scatter, ForkJoin, PauseResume, FromOtherPool}
PausePrograms == {PauseResume}
=============================================================================
