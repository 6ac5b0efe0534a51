------------------------------- MODULE TaskPool -------------------------------
(***************************************************************************)
(* The worker threads that run the connections                             *)
(* (tiny-http/src/util/task_pool.rs). The accept thread calls Spawn with   *)
(* one task per connection; a worker runs a task to its end and then       *)
(* waits for the next one.                                                 *)
(*                                                                         *)
(* The mutex of `todo` is held by a worker from the moment it finds the    *)
(* queue empty until it sleeps, because in between it reads active_tasks,  *)
(* which others change without the mutex; all other critical sections are  *)
(* single actions. A task is a connection: it may take forever.            *)
(***************************************************************************)
EXTENDS Naturals, Sequences, FiniteSets

CONSTANTS
  MIN_THREADS,  (* the minimum number of active threads                      *)
  MaxTasks,     (* bound: the number of calls of spawn                       *)
  Many          (* what drop stores in active_tasks                          *)

MaxThreads == MIN_THREADS + MaxTasks
Threads == 1..MaxThreads
Tasks == 1..MaxTasks
NoTask == 0

ASSUME SizeAssumption ==
  /\ MIN_THREADS \in Nat \ {0} /\ MaxTasks \in Nat
  /\ Many \in Nat /\ Many > 2 * (MIN_THREADS + MaxTasks)

VARIABLES
  todo,         (* tasks queued for a worker                                 *)
  pc,           (* where each thread is                                      *)
  task,         (* the task a thread was created with or is running          *)
  timed,        (* threads that chose the sleep of 5 seconds                 *)
  timedOut,     (* threads whose last sleep ended by its timer               *)
  active_tasks, (* threads registered as running                             *)
  waiting_tasks,(* threads registered as idle                                *)
  spawned,      (* history: the number of tasks handed to spawn              *)
  ended,        (* history: tasks that ran to their end, or panicked         *)
  panicked,     (* history: whether one panicked                             *)
  pool          (* "live", then "stored" in the middle of drop, "dropped"    *)

vars == <<todo, pc, task, timed, timedOut, active_tasks, waiting_tasks,
          spawned, ended, panicked, pool>>

Places == {"unborn", "born", "running", "locking", "holding", "asleep",
           "awake", "exiting", "dead"}

At(places) == {w \in Threads : pc[w] \in places}

Waiting    == At({"holding", "asleep", "awake"})
Registered == At({"running", "locking", "holding", "asleep", "awake", "exiting"})
Idle       == Waiting \cup At({"locking"})
LockFree   == At({"holding"}) = {}

TypeOK ==
  /\ todo \in Seq(Tasks)
  /\ pc \in [Threads -> Places]
  /\ task \in [Threads -> Tasks \cup {NoTask}]
  /\ timed \subseteq Threads /\ timedOut \subseteq Threads
  /\ active_tasks \in Nat /\ waiting_tasks \in Nat
  /\ spawned \in 0..MaxTasks
  /\ ended \subseteq Tasks /\ panicked \in BOOLEAN
  /\ pool \in {"live", "stored", "dropped"}

(* TaskPool::new, which creates the first threads. *)
Init ==
  /\ todo = <<>>
  /\ pc = [w \in Threads |-> IF w <= MIN_THREADS THEN "born" ELSE "unborn"]
  /\ task = [w \in Threads |-> NoTask]
  /\ timed = {} /\ timedOut = {}
  /\ active_tasks = 0 /\ waiting_tasks = 0
  /\ spawned = 0 /\ ended = {} /\ panicked = FALSE
  /\ pool = "live"

Moves(w, from, to) == pc[w] \in from /\ pc' = [pc EXCEPT ![w] = to]
-----------------------------------------------------------------------------
(* The thread begins: Registration::new(&active_tasks). *)
Register(w) ==
  /\ Moves(w, {"born"}, IF task[w] = NoTask THEN "locking" ELSE "running")
  /\ active_tasks' = active_tasks + 1
  /\ UNCHANGED <<todo, task, timed, timedOut, waiting_tasks, spawned, ended,
                 panicked, pool>>

EndTask(w, to) ==
  /\ Moves(w, {"running"}, to)
  /\ task' = [task EXCEPT ![w] = NoTask]
  /\ ended' = ended \cup {task[w]}
  /\ UNCHANGED <<todo, timed, timedOut, active_tasks, waiting_tasks, spawned, pool>>

Finish(w) == EndTask(w, "locking") /\ UNCHANGED panicked

(* A panic unwinds the thread, which drops its registration. *)
Panic(w) == EndTask(w, "exiting") /\ panicked' = TRUE

(* Mutant: waiting_tasks is decremented although no guard exists. *)
WaitingAlwaysLess(w) == waiting_tasks - 1

(* The waiting guard of a woken thread is dropped when it loops or returns. *)
WaitingAfterWake(w) == IF pc[w] = "awake" THEN waiting_tasks - 1 ELSE waiting_tasks

(* Mutant: the task is read and stays in the queue. *)
TakeTaskTwice(w) ==
  /\ LockFree /\ todo # <<>>
  /\ Moves(w, {"locking", "awake"}, "running")
  /\ task' = [task EXCEPT ![w] = Head(todo)]
  /\ waiting_tasks' = WaitingAfterWake(w)
  /\ timedOut' = timedOut \ {w} /\ timed' = timed \ {w}
  /\ UNCHANGED <<todo, active_tasks, spawned, ended, panicked, pool>>

TakeTask(w) ==
  /\ LockFree /\ todo # <<>>
  /\ Moves(w, {"locking", "awake"}, "running")
  /\ task' = [task EXCEPT ![w] = Head(todo)]
  /\ todo' = Tail(todo)
  /\ waiting_tasks' = WaitingAfterWake(w)
  /\ timedOut' = timedOut \ {w} /\ timed' = timed \ {w}
  /\ UNCHANGED <<active_tasks, spawned, ended, panicked, pool>>

(* Nothing to do: register as waiting and choose how to sleep. *)
GoIdle(w) ==
  /\ LockFree /\ todo = <<>> /\ w \notin timedOut
  /\ Moves(w, {"locking", "awake"}, "holding")
  /\ waiting_tasks' = WaitingAfterWake(w) + 1
  /\ timed' = IF active_tasks <= MIN_THREADS THEN timed \ {w} ELSE timed \cup {w}
  /\ UNCHANGED <<todo, task, timedOut, active_tasks, spawned, ended, panicked,
                 pool>>

(* condvar.wait or wait_timeout: the mutex is released. *)
Sleep(w) ==
  /\ Moves(w, {"holding"}, "asleep")
  /\ UNCHANGED <<todo, task, timed, timedOut, active_tasks, waiting_tasks,
                 spawned, ended, panicked, pool>>

TimerFires(w) ==
  /\ w \in timed
  /\ Moves(w, {"asleep"}, "awake")
  /\ timedOut' = timedOut \cup {w}
  /\ UNCHANGED <<todo, task, timed, active_tasks, waiting_tasks, spawned,
                 ended, panicked, pool>>

SpuriousWakeup(w) ==
  /\ Moves(w, {"asleep"}, "awake")
  /\ UNCHANGED <<todo, task, timed, timedOut, active_tasks, waiting_tasks,
                 spawned, ended, panicked, pool>>

(* Mutants: the thread does not look at the queue before it returns; its guard
   is forgotten. *)
ExpireBlindly(w) ==
  /\ LockFree /\ w \in timedOut
  /\ Moves(w, {"awake"}, "exiting")
  /\ waiting_tasks' = WaitingAfterWake(w)
  /\ timedOut' = timedOut \ {w} /\ timed' = timed \ {w}
  /\ UNCHANGED <<todo, task, active_tasks, spawned, ended, panicked, pool>>

ExpireWithGuard(w) ==
  /\ LockFree /\ todo = <<>> /\ w \in timedOut
  /\ Moves(w, {"awake"}, "exiting")
  /\ timedOut' = timedOut \ {w} /\ timed' = timed \ {w}
  /\ UNCHANGED <<todo, task, active_tasks, waiting_tasks, spawned, ended,
                 panicked, pool>>

(* !received && todo.is_empty(): the thread returns. *)
Expire(w) ==
  /\ LockFree /\ todo = <<>> /\ w \in timedOut
  /\ Moves(w, {"awake"}, "exiting")
  /\ waiting_tasks' = WaitingAfterWake(w)
  /\ timedOut' = timedOut \ {w} /\ timed' = timed \ {w}
  /\ UNCHANGED <<todo, task, active_tasks, spawned, ended, panicked, pool>>

(* The last guard is dropped, after the mutex. *)
Deregister(w) ==
  /\ Moves(w, {"exiting"}, "dead")
  /\ active_tasks' = active_tasks - 1
  /\ UNCHANGED <<todo, task, timed, timedOut, waiting_tasks, spawned, ended,
                 panicked, pool>>
-----------------------------------------------------------------------------
(* add_thread(Some(code)): the thread that is created next. *)
AddThread(code) ==
  \E w \in At({"unborn"}) :
    /\ \A v \in At({"unborn"}) : w <= v
    /\ pc' = [pc EXCEPT ![w] = "born"]
    /\ task' = [task EXCEPT ![w] = code]

(* Mutant: the notification is forgotten. *)
NotifyNobody == UNCHANGED pc

NotifyOne ==
  \/ At({"asleep"}) = {} /\ UNCHANGED pc
  \/ \E w \in At({"asleep"}) : pc' = [pc EXCEPT ![w] = "awake"]

Spawn ==
  /\ pool = "live" /\ spawned < MaxTasks /\ LockFree
  /\ spawned' = spawned + 1
  /\ \/ /\ waiting_tasks = 0
        /\ AddThread(spawned + 1)
        /\ UNCHANGED todo
     \/ /\ waiting_tasks # 0
        /\ todo' = Append(todo, spawned + 1)
        /\ NotifyOne
        /\ UNCHANGED task
  /\ UNCHANGED <<timed, timedOut, active_tasks, waiting_tasks, ended, panicked,
                 pool>>

(* Mutant: drop clears the counter instead of filling it. *)
DropClears ==
  /\ pool = "live"
  /\ pool' = "stored"
  /\ active_tasks' = 0
  /\ UNCHANGED <<todo, pc, task, timed, timedOut, waiting_tasks, spawned,
                 ended, panicked>>

(* Drop for TaskPool, made of two steps neither of which takes the mutex. *)
DropStores ==
  /\ pool = "live"
  /\ pool' = "stored"
  /\ active_tasks' = Many
  /\ UNCHANGED <<todo, pc, task, timed, timedOut, waiting_tasks, spawned,
                 ended, panicked>>

DropNotifies ==
  /\ pool = "stored"
  /\ pool' = "dropped"
  /\ pc' = [w \in Threads |-> IF pc[w] = "asleep" THEN "awake" ELSE pc[w]]
  /\ UNCHANGED <<todo, task, timed, timedOut, active_tasks, waiting_tasks,
                 spawned, ended, panicked>>
-----------------------------------------------------------------------------
(* What a thread does by itself, its tasks apart. *)
Work(w) ==
  \/ Register(w) \/ TakeTask(w) \/ GoIdle(w) \/ Sleep(w)
  \/ Expire(w) \/ Deregister(w)

Next ==
  \/ \E w \in Threads :
       Work(w) \/ TimerFires(w) \/ Finish(w) \/ Panic(w) \/ SpuriousWakeup(w)
  \/ Spawn \/ DropStores \/ DropNotifies

Spec == Init /\ [][Next]_vars

(* Threads run and the mutex serves every one of them; a sleep of 5 seconds is
   not cut short for no reason every time, so its timer fires in the end.
   Nobody has to spawn or to drop the pool, but a drop that began goes on. *)
FairSpec ==
  /\ Spec
  /\ \A w \in Threads : SF_vars(Work(w)) /\ SF_vars(TimerFires(w))
  /\ WF_vars(DropNotifies)

(* Tasks end, as they do when clients close their connections. *)
EndingSpec == FairSpec /\ \A w \in Threads : WF_vars(Finish(w))
-----------------------------------------------------------------------------
(* The two counters say what they are documented to count, until drop
   overwrites the first. *)
CountersCorrect ==
  /\ waiting_tasks = Cardinality(Waiting)
  /\ pool = "live" => active_tasks = Cardinality(Registered)

Queued == {todo[i] : i \in 1..Len(todo)}
Held   == {task[w] : w \in Threads} \ {NoTask}

(* Every connection handed to spawn is in exactly one place: once in the
   queue, with one thread, or over. None is lost and none is run twice. *)
TaskInOnePlace ==
  /\ 1..spawned = Queued \cup Held \cup ended
  /\ Queued \cap Held = {} /\ Queued \cap ended = {} /\ Held \cap ended = {}
  /\ \A i, j \in 1..Len(todo) : i # j => todo[i] # todo[j]
  /\ \A v, w \in Threads : v # w /\ task[v] # NoTask => task[v] # task[w]

(* Tasks whose code has not begun, and tasks in the middle of it. *)
Unstarted == Queued \cup ({task[w] : w \in At({"born"})} \ {NoTask})
Started   == {task[w] : w \in At({"running"})}

(* To its caller the pool is Workers: every task waits, runs and is over, in
   this order and once, on whichever thread and through whichever queue. *)
Pool == INSTANCE Workers WITH
          waiting <- Unstarted,
          running <- Started,
          over    <- ended
ImplementsWorkers == Pool!Spec

(* As long as a worker sleeps, each queued task has a woken worker coming. *)
NoLostWakeup ==
  At({"asleep"}) # {} => Len(todo) <= Cardinality(At({"awake"}))

(* Connections that end let every queued connection run, unless one of them
   panicked: that may end the thread the next was queued for. *)
EveryTaskRuns == \A t \in Tasks : (spawned >= t) ~> (t \in ended \/ panicked)

(* After the drop no thread with a timed sleep is left behind: once no thread
   sleeps without a timer, all threads end. *)
AllEnded == \A w \in Threads : pc[w] \in {"unborn", "dead"}

TimedThreadsEndAfterDrop ==
  (pool = "dropped" /\ \A w \in At({"holding", "asleep"}) : w \in timed) ~> AllEnded
=============================================================================
