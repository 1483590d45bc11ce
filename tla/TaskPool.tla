------------------------------- MODULE TaskPool -------------------------------
(***************************************************************************)
(* What the scheduler of imputio promises its users, without channels,     *)
(* priority queues, indices or the calls of client threads: a task is      *)
(* handed in once, is polled by one executor at a time, is polled by no    *)
(* one else before it is given back, is never polled again once its poll   *)
(* was Ready, and is lost only when an executor has stopped, which an      *)
(* executor does only after a shutdown or when a future panicked on it.    *)
(***************************************************************************)

CONSTANTS
  Tasks,     (* the futures users spawn                                    *)
  Workers,   (* the executors                                              *)
  Panics,    (* the tasks whose future may panic                           *)
  None       (* no task                                                    *)

VARIABLES
  waiting,   (* tasks handed in and not being polled                       *)
  polling,   (* polling[w]: the task executor w is polling, or None        *)
  settled,   (* tasks whose result, or whose panic, reached the handle     *)
  lost,      (* tasks whose handle will never be answered                  *)
  alive,     (* executors whose thread has not ended                       *)
  stopping   (* the pool was told to shut down                             *)

vars == <<waiting, polling, settled, lost, alive, stopping>>

Polled == {polling[w] : w \in Workers} \ {None}

Init ==
  /\ waiting = {}
  /\ polling = [w \in Workers |-> None]
  /\ settled = {}
  /\ lost = {}
  /\ alive = Workers
  /\ stopping = FALSE

\* A task no one has ever handed in is handed in.
Submit(t) ==
  /\ t \notin waiting \cup Polled \cup settled \cup lost
  /\ waiting' = waiting \cup {t}
  /\ UNCHANGED <<polling, settled, lost, alive, stopping>>

Start(w, t) ==
  /\ w \in alive
  /\ polling[w] = None
  /\ t \in waiting
  /\ waiting' = waiting \ {t}
  /\ polling' = [polling EXCEPT ![w] = t]
  /\ UNCHANGED <<settled, lost, alive, stopping>>

\* The poll was Pending.
Yield(w) ==
  /\ polling[w] \in Tasks
  /\ waiting' = waiting \cup {polling[w]}
  /\ polling' = [polling EXCEPT ![w] = None]
  /\ UNCHANGED <<settled, lost, alive, stopping>>

\* The poll was Ready.
Finish(w) ==
  /\ polling[w] \in Tasks
  /\ settled' = settled \cup {polling[w]}
  /\ polling' = [polling EXCEPT ![w] = None]
  /\ UNCHANGED <<waiting, lost, alive, stopping>>

\* The future panicked: its executor stops and takes tasks with it.
Crash(w, S) ==
  /\ polling[w] \in Panics
  /\ settled' = settled \cup {polling[w]}
  /\ polling' = [polling EXCEPT ![w] = None]
  /\ waiting' = waiting \ S
  /\ lost' = lost \cup S
  /\ alive' = alive \ {w}
  /\ UNCHANGED stopping

\* An executor that saw the shutdown stops, between two polls.
Retire(w, S) ==
  /\ stopping
  /\ w \in alive
  /\ polling[w] = None
  /\ waiting' = waiting \ S
  /\ lost' = lost \cup S
  /\ alive' = alive \ {w}
  /\ UNCHANGED <<polling, settled, stopping>>

\* A task on its way to an executor that has stopped.
Lose(t) ==
  /\ alive # Workers
  /\ t \in waiting
  /\ waiting' = waiting \ {t}
  /\ lost' = lost \cup {t}
  /\ UNCHANGED <<polling, settled, alive, stopping>>

Stop ==
  /\ stopping' = TRUE
  /\ UNCHANGED <<waiting, polling, settled, lost, alive>>

Next ==
  \/ \E t \in Tasks : Submit(t) \/ Lose(t)
  \/ \E w \in Workers :
       \/ \E t \in Tasks : Start(w, t)
       \/ Yield(w)
       \/ Finish(w)
       \/ \E S \in SUBSET waiting : Crash(w, S) \/ Retire(w, S)
  \/ Stop

Spec == Init /\ [][Next]_vars
=============================================================================
