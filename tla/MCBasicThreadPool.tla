------------------------- MODULE MCBasicThreadPool -------------------------
(* Instances of BasicThreadPool for TLC: the programs clients and tasks run. *)
EXTENDS BasicThreadPool, TLC

CONSTANTS own, cl,        \* two clients
          ta, tb, td      \* three tasks

Do(c, u) == [call |-> c, task |-> u]
Program(bodies) == bodies @@ [x \in Callables |-> <<>>]

\* The owner waits for one of its tasks and destroys the pool with the rest
\* perhaps unrun; another client submits too; a task submits a task.
Scatter == Program(
    (own :> <<Do("submit", ta), Do("get", ta)>>)
      @@ (cl :> <<Do("submit", tb)>>)
      @@ (ta :> <<Do("submit", td)>>))

\* A client runs pending tasks itself until its future is ready.
ClientHelps == Program(
    (own :> <<Do("submit", ta), Do("help", ta)>>)
      @@ (cl :> <<Do("submit", tb), Do("submit", td)>>))

MCPrograms == {Scatter, ClientHelps}
=============================================================================
