-------------------------------- MODULE Workers --------------------------------
(***************************************************************************)
(* What the task pool promises the accept thread, without threads or       *)
(* counters: a task that was handed over waits, runs and is over, once.    *)
(* TaskPool implements this specification, and Server uses it.             *)
(***************************************************************************)
CONSTANT Tasks

VARIABLES waiting, running, over

Init == waiting = {} /\ running = {} /\ over = {}

(* A task is handed over once. *)
Submit(t) ==
  /\ t \notin waiting \cup running \cup over
  /\ waiting' = waiting \cup {t}
  /\ UNCHANGED <<running, over>>

Start(t) ==
  /\ t \in waiting
  /\ waiting' = waiting \ {t}
  /\ running' = running \cup {t}
  /\ UNCHANGED over

(* It returned, or it panicked. *)
Leave(t) ==
  /\ t \in running
  /\ running' = running \ {t}
  /\ over' = over \cup {t}
  /\ UNCHANGED waiting

Next == \E t \in Tasks : Submit(t) \/ Start(t) \/ Leave(t)

Spec == Init /\ [][Next]_<<waiting, running, over>>
=============================================================================
