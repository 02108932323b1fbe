------------------------------ MODULE Pausable ------------------------------
(***************************************************************************)
(* LLU::Async::Pausable (include/LLU/Async/Utilities.h:132-161), the base  *)
(* class by which GenericThreadPool is paused: an atomic flag, a mutex and *)
(* a condition variable.  pause() and resume() write the flag and notify   *)
(* without taking the mutex; each step another thread can see is an action *)
(* for the pool to compose with its own.                                   *)
(***************************************************************************)
CONSTANTS Threads, NoThread

VARIABLES
    pausedQ,       \* the atomic flag
    workersMutex,  \* its owner, or NoThread
    pausePc        \* each thread's step in checkPause or resume

pauseVars == <<pausedQ, workersMutex, pausePc>>

PauseSteps == {"out", "lock", "test", "sleep", "asleep", "notify"}

PauseTypeOK ==
    /\ pausedQ \in BOOLEAN
    /\ workersMutex \in Threads \cup {NoThread}
    /\ pausePc \in [Threads -> PauseSteps]

PauseInit ==
    /\ pausedQ = FALSE
    /\ workersMutex = NoThread
    /\ pausePc = [t \in Threads |-> "out"]

Move(t, from, to) == pausePc[t] = from /\ pausePc' = [pausePc EXCEPT ![t] = to]

-----------------------------------------------------------------------------
(* checkPause *)

\* if (pausedQ) fails: the call returns at once.
NotPaused(t) == pausePc[t] = "out" /\ ~pausedQ /\ UNCHANGED pauseVars

EnterPause(t) ==
    /\ pausedQ
    /\ Move(t, "out", "lock")
    /\ UNCHANGED <<pausedQ, workersMutex>>

LockWorkers(t) ==
    /\ workersMutex = NoThread
    /\ Move(t, "lock", "test")
    /\ workersMutex' = t
    /\ UNCHANGED pausedQ

\* wait's predicate is evaluated with the mutex held; resume() does not need it.
StillPaused(t) ==
    /\ pausedQ
    /\ Move(t, "test", "sleep")
    /\ UNCHANGED <<pausedQ, workersMutex>>

Sleep(t) ==
    /\ Move(t, "sleep", "asleep")
    /\ workersMutex' = NoThread
    /\ UNCHANGED pausedQ

SpuriousWake(t) ==
    /\ Move(t, "asleep", "lock")
    /\ UNCHANGED <<pausedQ, workersMutex>>

\* The predicate holds: checkPause returns.
LeavePause(t) ==
    /\ ~pausedQ
    /\ Move(t, "test", "out")
    /\ workersMutex' = NoThread
    /\ UNCHANGED pausedQ

-----------------------------------------------------------------------------
(* pause and resume *)

Pause(t) ==
    /\ pausePc[t] = "out"
    /\ pausedQ' = TRUE
    /\ UNCHANGED <<workersMutex, pausePc>>

Resume(t) ==
    /\ Move(t, "out", "notify")
    /\ pausedQ' = FALSE
    /\ UNCHANGED workersMutex

\* notify_all wakes the threads that are asleep now; they lock the mutex again.
NotifyAll(t) ==
    /\ pausePc[t] = "notify"
    /\ pausePc' = [u \in Threads |-> IF u = t THEN "out"
                                     ELSE IF pausePc[u] = "asleep" THEN "lock"
                                     ELSE pausePc[u]]
    /\ UNCHANGED <<pausedQ, workersMutex>>
=============================================================================
