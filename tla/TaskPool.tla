------------------------------ MODULE TaskPool ------------------------------
(***************************************************************************)
(* What both thread pools promise to who submits tasks                     *)
(* (include/LLU/Async/ThreadPool.h): each is run once, from its submission *)
(* through its beginning to its end, unless the pool is closed while it    *)
(* waits.  Closing does not interrupt a task that runs, it comes after all *)
(* of them, and it leaves no task to wait for ever.                        *)
(*                                                                         *)
(* Threads of other pools may take tasks away, or keep those they submit:  *)
(* these are out of the pool's hands when it closes, and stay as they are. *)
(***************************************************************************)
CONSTANT Tasks

VARIABLES
    state,   \* what has become of each task
    away,    \* the tasks in the hands of other pools' threads
    open     \* until the pool is gone

vars == <<state, away, open>>

Waiting == {u \in Tasks : state[u] = "waiting"}
Running == {u \in Tasks : state[u] = "running"}

Init ==
    /\ state = [u \in Tasks |-> "none"]
    /\ away = {}
    /\ open = TRUE

Become(u, from, to) == state[u] = from /\ state' = [state EXCEPT ![u] = to]

Submit(u) ==
    /\ open /\ Become(u, "none", "waiting")
    /\ away' \in {away, away \cup {u}}
    /\ UNCHANGED open

Begin(u) ==
    /\ Become(u, "waiting", "running")
    /\ away' \in {away, away \cup {u}}
    /\ UNCHANGED open

End(u) ==
    /\ Become(u, "running", "ready")
    /\ away' = away \ {u}
    /\ UNCHANGED open

\* No task runs that is not away, and those that wait are destroyed, which
\* breaks their promises.
Close ==
    /\ open /\ Running \subseteq away
    /\ open' = FALSE
    /\ state' = [u \in Tasks |-> IF u \in Waiting \ away THEN "broken" ELSE state[u]]
    /\ UNCHANGED away

Next == Close \/ \E u \in Tasks : Submit(u) \/ Begin(u) \/ End(u)

Spec == Init /\ [][Next]_vars
=============================================================================
