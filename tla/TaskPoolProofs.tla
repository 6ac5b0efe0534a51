---------------------------- MODULE TaskPoolProofs ----------------------------
(***************************************************************************)
(* The safety of the task pool for any number of permanent threads and     *)
(* tasks: its types, its counters, that no wakeup is lost, and that it     *)
(* implements Workers.                                                     *)
(*                                                                         *)
(* That active_tasks stays a natural number after drop has overwritten it  *)
(* follows from counting the threads that ended since; that a thread which *)
(* goes to sleep is not missed follows from the mutex, which it holds      *)
(* since it found the queue empty. That the pool implements Workers needs  *)
(* that every task is in one place: without it the start of a task would   *)
(* not take it from where it waited.                                       *)
(***************************************************************************)
EXTENDS TaskPool, FiniteSetTheorems, TLAPS

Types ==
  /\ todo \in Seq(Tasks)
  /\ pc \in [Threads -> Places]
  /\ task \in [Threads -> Tasks \cup {NoTask}]
  /\ timed \subseteq Threads /\ timedOut \subseteq Threads
  /\ active_tasks \in Int /\ waiting_tasks \in Int
  /\ spawned \in 0..MaxTasks
  /\ ended \subseteq Tasks /\ panicked \in BOOLEAN
  /\ pool \in {"live", "stored", "dropped"}

(* A thread in the middle of a task knows which. *)
BusyHasTask == \A w \in Threads : pc[w] = "running" => task[w] \in Tasks

(* After drop only threads that end make the counter less. *)
ActiveEnough ==
  pool # "live" => active_tasks + Cardinality(At({"dead"})) >= Many

(* The mutex keeps the queue empty for who decides to sleep. *)
HolderSawEmpty == At({"holding"}) # {} => todo = <<>>

Inv ==
  /\ Types /\ BusyHasTask
  /\ CountersCorrect /\ ActiveEnough
  /\ HolderSawEmpty /\ NoLostWakeup
-----------------------------------------------------------------------------
One(condition) == IF condition THEN 1 ELSE 0

LEMMA ThreadsFinite ==
  /\ MaxThreads \in Nat
  /\ IsFiniteSet(Threads) /\ Cardinality(Threads) = MaxThreads
  <1>1. MaxThreads \in Nat
    BY SizeAssumption, SMT DEF MaxThreads
  <1>2. 1 \in Int /\ MaxThreads \in Int
    BY <1>1, SMT
  <1>3. /\ IsFiniteSet(1..MaxThreads)
        /\ Cardinality(1..MaxThreads) = IF 1 > MaxThreads THEN 0 ELSE MaxThreads - 1 + 1
    BY <1>2, FS_Interval
  <1>4. Cardinality(1..MaxThreads) = MaxThreads
    BY <1>1, <1>3, SMT
  <1> QED BY <1>1, <1>3, <1>4 DEF Threads

LEMMA AtFinite ==
  ASSUME NEW P
  PROVE  /\ IsFiniteSet(At(P)) /\ Cardinality(At(P)) \in Nat
         /\ Cardinality(At(P)) <= MaxThreads
  <1>1. At(P) \subseteq Threads
    BY DEF At
  <1> QED BY <1>1, ThreadsFinite, FS_Subset, FS_CardinalityType

(* A thread that moves is counted where it arrives and no more where it was. *)
LEMMA AtMoves ==
  ASSUME pc \in [Threads -> Places], NEW w \in Threads, NEW to,
         pc' = [pc EXCEPT ![w] = to], NEW CONSTANT P
  PROVE  /\ At(P)' = (At(P) \ {w}) \cup (IF to \in P THEN {w} ELSE {})
         /\ Cardinality(At(P)') = Cardinality(At(P)) - One(pc[w] \in P) + One(to \in P)
  <1> DEFINE S == At(P)
             R == S \ {w}
             T == At(P)'
  <1>1. T = R \cup (IF to \in P THEN {w} ELSE {})
    BY DEF At
  <1>2. IsFiniteSet(S) /\ Cardinality(S) \in Nat
    BY AtFinite
  <1>3. w \in S <=> pc[w] \in P
    BY DEF At
  <1>4. IsFiniteSet(R) /\ Cardinality(R) = Cardinality(S) - One(pc[w] \in P)
    <2>1. CASE w \in S
      BY <1>2, <1>3, <2>1, FS_RemoveElement DEF One
    <2>2. CASE w \notin S
      <3>1. R = S
        BY <2>2
      <3>2. One(pc[w] \in P) = 0
        BY <1>3, <2>2 DEF One
      <3> HIDE DEF S, R
      <3>3. Cardinality(S) - 0 = Cardinality(S)
        BY <1>2
      <3> QED BY <1>2, <3>1, <3>2, <3>3
    <2> QED BY <2>1, <2>2
  <1>5. w \notin R /\ Cardinality(R) \in Nat
    BY <1>4, FS_CardinalityType
  <1> HIDE DEF S, R, T
  <1>6. Cardinality(T) = Cardinality(R) + One(to \in P)
    <2>1. CASE to \in P
      <3>1. T = R \cup {w}
        BY <1>1, <2>1
      <3>2. Cardinality(R \cup {w}) = Cardinality(R) + 1
        BY <1>4, <1>5, FS_AddElement
      <3> QED BY <2>1, <3>1, <3>2 DEF One
    <2>2. CASE to \notin P
      <3>1. T = R
        BY <1>1, <2>2
      <3> QED BY <1>5, <2>2, <3>1, SMT DEF One
    <2> QED BY <2>1, <2>2
  <1>7. Cardinality(T) = Cardinality(S) - One(pc[w] \in P) + One(to \in P)
    BY <1>4, <1>6
  <1> QED BY <1>1, <1>7 DEF S, R, T

WaitingPlaces    == {"holding", "asleep", "awake"}
RegisteredPlaces == {"running", "locking", "holding", "asleep", "awake", "exiting"}

(* The count of a group of places follows the thread w that moves. *)
Follows(count, w, to, P) ==
  count' = count - One(pc[w] \in P) + One(to \in P)

LEMMA Counts ==
  ASSUME Types, NEW w \in Threads, NEW from, NEW to, Moves(w, from, to)
  PROVE  /\ Follows(Cardinality(Waiting), w, to, WaitingPlaces)
         /\ Follows(Cardinality(Registered), w, to, RegisteredPlaces)
         /\ Follows(Cardinality(At({"dead"})), w, to, {"dead"})
         /\ Follows(Cardinality(At({"awake"})), w, to, {"awake"})
  <1>1. pc \in [Threads -> Places] /\ pc' = [pc EXCEPT ![w] = to]
    BY DEF Types, Moves
  <1>2. ASSUME NEW CONSTANT P
        PROVE  Cardinality(At(P)') = Cardinality(At(P)) - One(pc[w] \in P) + One(to \in P)
    BY <1>1, AtMoves
  <1>3. Waiting = At(WaitingPlaces) /\ Waiting' = At(WaitingPlaces)'
    BY DEF Waiting, WaitingPlaces
  <1>4. Registered = At(RegisteredPlaces) /\ Registered' = At(RegisteredPlaces)'
    BY DEF Registered, RegisteredPlaces
  <1>5. Follows(Cardinality(Waiting), w, to, WaitingPlaces)
    BY <1>2, <1>3 DEF Follows
  <1>6. Follows(Cardinality(Registered), w, to, RegisteredPlaces)
    BY <1>2, <1>4 DEF Follows
  <1>7. /\ Follows(Cardinality(At({"dead"})), w, to, {"dead"})
        /\ Follows(Cardinality(At({"awake"})), w, to, {"awake"})
    BY <1>2 DEF Follows
  <1> QED BY <1>5, <1>6, <1>7

LEMMA CountTypes ==
  /\ Cardinality(Waiting) \in Nat /\ Cardinality(Registered) \in Nat
  /\ Cardinality(At({"dead"})) \in Nat /\ Cardinality(At({"awake"})) \in Nat
  /\ Cardinality(At({"dead"})) <= MaxThreads
  <1>1. Cardinality(At({"holding", "asleep", "awake"})) \in Nat
    BY AtFinite
  <1>2. Cardinality(At({"running", "locking", "holding", "asleep", "awake", "exiting"})) \in Nat
    BY AtFinite
  <1>3. /\ Cardinality(At({"dead"})) \in Nat /\ Cardinality(At({"awake"})) \in Nat
        /\ Cardinality(At({"dead"})) <= MaxThreads
    BY AtFinite
  <1> QED BY <1>1, <1>2, <1>3 DEF Waiting, Registered

(* A move to elsewhere brings nobody to these places. *)
LEMMA Elsewhere ==
  ASSUME Types, NEW w \in Threads, NEW from, NEW to, Moves(w, from, to), NEW CONSTANT P,
         to \notin P
  PROVE  At(P)' \subseteq At(P)
  BY DEF Types, Moves, At

LEMMA AwakeLater == Cardinality(At({"awake"}))' \in Nat
  <1>1. At({"awake"})' \subseteq Threads
    BY DEF At
  <1> QED BY <1>1, ThreadsFinite, FS_Subset, FS_CardinalityType

LEMMA LenTodo == Types => Len(todo) \in Nat
  BY DEF Types

LEMMA InvInit == Init => Inv
  <1> SUFFICES ASSUME Init PROVE Inv
    OBVIOUS
  <1>1. Types
    <2>1. todo \in Seq(Tasks)
      BY DEF Init
    <2>2. pc \in [Threads -> Places] /\ task \in [Threads -> Tasks \cup {NoTask}]
      BY DEF Init, Places
    <2>3. spawned \in 0..MaxTasks
      BY SizeAssumption DEF Init
    <2>4. /\ timed \subseteq Threads /\ timedOut \subseteq Threads
          /\ active_tasks \in Int /\ waiting_tasks \in Int
          /\ ended \subseteq Tasks
          /\ pool \in {"live", "stored", "dropped"}
      BY DEF Init
    <2>5. panicked \in BOOLEAN
      BY Zenon DEF Init
    <2> QED BY <2>1, <2>2, <2>3, <2>4, <2>5 DEF Types
  <1>2. Waiting = {} /\ Registered = {} /\ At({"holding"}) = {} /\ At({"asleep"}) = {}
    BY DEF Init, Waiting, Registered, At
  <1>3. CountersCorrect
    BY <1>2, FS_EmptySet DEF Init, CountersCorrect
  <1>4. BusyHasTask
    BY DEF Init, BusyHasTask
  <1> QED BY <1>1, <1>2, <1>3, <1>4 DEF Inv, ActiveEnough, HolderSawEmpty, NoLostWakeup, Init
-----------------------------------------------------------------------------
(* Each action of a thread preserves the invariant. *)
LEMMA RegisterInv ==
  ASSUME Inv, NEW w \in Threads, Register(w)
  PROVE  Inv'
  <1> DEFINE place == IF task[w] = NoTask THEN "locking" ELSE "running"
  <1>1. Types /\ BusyHasTask /\ Moves(w, {"born"}, place)
    BY DEF Inv, Register
  <1>2. Types' /\ BusyHasTask'
    <2>1. pc' \in [Threads -> Places]
      BY <1>1 DEF Types, Moves, Places
    <2>2. task' \in [Threads -> Tasks \cup {NoTask}] /\ BusyHasTask'
      BY <1>1, <2>1 DEF Types, BusyHasTask, Moves, Register
    <2>3. panicked' \in BOOLEAN
      BY <1>1, Zenon DEF Types, Register
    <2> QED BY <1>1, <2>1, <2>2, <2>3 DEF Types, BusyHasTask, Moves, Register
  <1>3. /\ Cardinality(Waiting)' = Cardinality(Waiting)
        /\ Cardinality(Registered)' = Cardinality(Registered) + 1
        /\ Cardinality(At({"dead"}))' = Cardinality(At({"dead"}))
        /\ Cardinality(At({"awake"}))' = Cardinality(At({"awake"}))
    <2>1. /\ Follows(Cardinality(Waiting), w, place, WaitingPlaces)
          /\ Follows(Cardinality(Registered), w, place, RegisteredPlaces)
          /\ Follows(Cardinality(At({"dead"})), w, place, {"dead"})
          /\ Follows(Cardinality(At({"awake"})), w, place, {"awake"})
      BY <1>1, Counts
    <2> QED BY <1>1, <2>1, CountTypes
            DEF Moves, Follows, One, WaitingPlaces, RegisteredPlaces
  <1>4. At({"holding"})' \subseteq At({"holding"}) /\ At({"asleep"})' \subseteq At({"asleep"})
    BY <1>1, Elsewhere
  <1>5. CountersCorrect' /\ ActiveEnough'
    <2>1. /\ active_tasks' = active_tasks + 1
          /\ waiting_tasks' = waiting_tasks
          /\ pool' = pool
      BY <1>1 DEF Register
    <2> QED BY <1>1, <1>3, <2>1, CountTypes, SizeAssumption
        DEF Inv, CountersCorrect, ActiveEnough, Types
  <1>6. HolderSawEmpty' /\ NoLostWakeup'
    BY <1>3, <1>4 DEF Inv, HolderSawEmpty, NoLostWakeup, Register
  <1> QED BY <1>2, <1>5, <1>6 DEF Inv

LEMMA FinishInv ==
  ASSUME Inv, NEW w \in Threads, Finish(w)
  PROVE  Inv'
  <1>1. Types /\ BusyHasTask /\ Moves(w, {"running"}, "locking")
    BY DEF Inv, Finish, EndTask
  <1>2. Types' /\ BusyHasTask'
    <2>1. pc' \in [Threads -> Places]
      BY <1>1 DEF Types, Moves, Places
    <2>2. task' \in [Threads -> Tasks \cup {NoTask}] /\ BusyHasTask'
      BY <1>1, <2>1 DEF Types, BusyHasTask, Moves, Finish, EndTask
    <2>3. panicked' \in BOOLEAN
      BY <1>1, Zenon DEF Types, Finish, EndTask
    <2> QED BY <1>1, <2>1, <2>2, <2>3 DEF Types, BusyHasTask, Moves, Finish, EndTask
  <1>3. /\ Cardinality(Waiting)' = Cardinality(Waiting)
        /\ Cardinality(Registered)' = Cardinality(Registered)
        /\ Cardinality(At({"dead"}))' = Cardinality(At({"dead"}))
        /\ Cardinality(At({"awake"}))' = Cardinality(At({"awake"}))
    <2>1. /\ Follows(Cardinality(Waiting), w, "locking", WaitingPlaces)
          /\ Follows(Cardinality(Registered), w, "locking", RegisteredPlaces)
          /\ Follows(Cardinality(At({"dead"})), w, "locking", {"dead"})
          /\ Follows(Cardinality(At({"awake"})), w, "locking", {"awake"})
      BY <1>1, Counts
    <2> QED BY <1>1, <2>1, CountTypes
            DEF Moves, Follows, One, WaitingPlaces, RegisteredPlaces
  <1>4. At({"holding"})' \subseteq At({"holding"}) /\ At({"asleep"})' \subseteq At({"asleep"})
    BY <1>1, Elsewhere
  <1>5. CountersCorrect' /\ ActiveEnough'
    <2>1. /\ active_tasks' = active_tasks
          /\ waiting_tasks' = waiting_tasks
          /\ pool' = pool
      BY <1>1 DEF Finish, EndTask
    <2> QED BY <1>1, <1>3, <2>1, CountTypes, SizeAssumption
        DEF Inv, CountersCorrect, ActiveEnough, Types
  <1>6. HolderSawEmpty' /\ NoLostWakeup'
    BY <1>3, <1>4 DEF Inv, HolderSawEmpty, NoLostWakeup, Finish, EndTask
  <1> QED BY <1>2, <1>5, <1>6 DEF Inv

LEMMA PanicInv ==
  ASSUME Inv, NEW w \in Threads, Panic(w)
  PROVE  Inv'
  <1>1. Types /\ BusyHasTask /\ Moves(w, {"running"}, "exiting")
    BY DEF Inv, Panic, EndTask
  <1>2. Types' /\ BusyHasTask'
    <2>1. pc' \in [Threads -> Places]
      BY <1>1 DEF Types, Moves, Places
    <2>2. task' \in [Threads -> Tasks \cup {NoTask}] /\ BusyHasTask'
      BY <1>1, <2>1 DEF Types, BusyHasTask, Moves, Panic, EndTask
    <2>3. panicked' \in BOOLEAN
      BY <1>1, Zenon DEF Types, Panic, EndTask
    <2> QED BY <1>1, <2>1, <2>2, <2>3 DEF Types, BusyHasTask, Moves, Panic, EndTask
  <1>3. /\ Cardinality(Waiting)' = Cardinality(Waiting)
        /\ Cardinality(Registered)' = Cardinality(Registered)
        /\ Cardinality(At({"dead"}))' = Cardinality(At({"dead"}))
        /\ Cardinality(At({"awake"}))' = Cardinality(At({"awake"}))
    <2>1. /\ Follows(Cardinality(Waiting), w, "exiting", WaitingPlaces)
          /\ Follows(Cardinality(Registered), w, "exiting", RegisteredPlaces)
          /\ Follows(Cardinality(At({"dead"})), w, "exiting", {"dead"})
          /\ Follows(Cardinality(At({"awake"})), w, "exiting", {"awake"})
      BY <1>1, Counts
    <2> QED BY <1>1, <2>1, CountTypes
            DEF Moves, Follows, One, WaitingPlaces, RegisteredPlaces
  <1>4. At({"holding"})' \subseteq At({"holding"}) /\ At({"asleep"})' \subseteq At({"asleep"})
    BY <1>1, Elsewhere
  <1>5. CountersCorrect' /\ ActiveEnough'
    <2>1. /\ active_tasks' = active_tasks
          /\ waiting_tasks' = waiting_tasks
          /\ pool' = pool
      BY <1>1 DEF Panic, EndTask
    <2> QED BY <1>1, <1>3, <2>1, CountTypes, SizeAssumption
        DEF Inv, CountersCorrect, ActiveEnough, Types
  <1>6. HolderSawEmpty' /\ NoLostWakeup'
    BY <1>3, <1>4 DEF Inv, HolderSawEmpty, NoLostWakeup, Panic, EndTask
  <1> QED BY <1>2, <1>5, <1>6 DEF Inv

LEMMA TakeTaskInv ==
  ASSUME Inv, NEW w \in Threads, TakeTask(w)
  PROVE  Inv'
  <1>1. Types /\ BusyHasTask /\ Moves(w, {"locking", "awake"}, "running")
    BY DEF Inv, TakeTask
  <1>2. Types' /\ BusyHasTask'
    <2>1. todo # <<>> /\ todo \in Seq(Tasks)
      BY <1>1 DEF Types, TakeTask
    <2>2. Head(todo) \in Tasks /\ todo' \in Seq(Tasks)
      BY <2>1 DEF TakeTask
    <2>3. pc' \in [Threads -> Places]
      BY <1>1 DEF Types, Moves, Places
    <2>4. task' \in [Threads -> Tasks \cup {NoTask}] /\ BusyHasTask'
      BY <1>1, <2>2, <2>3 DEF Types, BusyHasTask, Moves, TakeTask
    <2>5. panicked' \in BOOLEAN
      BY <1>1, Zenon DEF Types, TakeTask
    <2>6. waiting_tasks' \in Int
      BY <1>1 DEF Types, TakeTask, WaitingAfterWake
    <2>7. /\ timed' \subseteq Threads /\ timedOut' \subseteq Threads
          /\ UNCHANGED <<active_tasks, spawned, ended, pool>>
      BY <1>1 DEF Types, TakeTask
    <2> QED BY <1>1, <2>2, <2>3, <2>4, <2>5, <2>6, <2>7 DEF Types
  <1>3. /\ Cardinality(Waiting)' = Cardinality(Waiting) - One(pc[w] = "awake")
        /\ Cardinality(Registered)' = Cardinality(Registered)
        /\ Cardinality(At({"dead"}))' = Cardinality(At({"dead"}))
        /\ Cardinality(At({"awake"}))' = Cardinality(At({"awake"})) - One(pc[w] = "awake")
    <2>1. /\ Follows(Cardinality(Waiting), w, "running", WaitingPlaces)
          /\ Follows(Cardinality(Registered), w, "running", RegisteredPlaces)
          /\ Follows(Cardinality(At({"dead"})), w, "running", {"dead"})
          /\ Follows(Cardinality(At({"awake"})), w, "running", {"awake"})
      BY <1>1, Counts
    <2> QED BY <1>1, <2>1, CountTypes
            DEF Moves, Follows, One, WaitingPlaces, RegisteredPlaces
  <1>4. At({"holding"})' \subseteq At({"holding"}) /\ At({"asleep"})' \subseteq At({"asleep"})
    BY <1>1, Elsewhere
  <1>5. CountersCorrect' /\ ActiveEnough'
    <2>1. /\ active_tasks' = active_tasks
          /\ waiting_tasks' = waiting_tasks - One(pc[w] = "awake")
          /\ pool' = pool
      BY <1>1 DEF TakeTask, Moves, One, WaitingAfterWake, Types
    <2> QED BY <1>1, <1>3, <2>1, CountTypes, SizeAssumption
        DEF Inv, CountersCorrect, ActiveEnough, Types
  <1>6. HolderSawEmpty' /\ NoLostWakeup'
    <2>1. todo # <<>> /\ todo \in Seq(Tasks) /\ todo' = Tail(todo)
      BY <1>1 DEF Types, TakeTask
    <2>2. Len(todo) \in Nat /\ Len(todo') = Len(todo) - 1
      BY <2>1
    <2>3. LockFree
      BY DEF TakeTask
    <2>4. HolderSawEmpty'
      BY <1>4, <2>3 DEF HolderSawEmpty, LockFree
    <2>5. At({"asleep"})' # {} => Len(todo) <= Cardinality(At({"awake"}))
      BY <1>4 DEF Inv, NoLostWakeup
    <2> QED BY <1>3, <2>2, <2>4, <2>5, CountTypes DEF NoLostWakeup, One
  <1> QED BY <1>2, <1>5, <1>6 DEF Inv

LEMMA TimerFiresInv ==
  ASSUME Inv, NEW w \in Threads, TimerFires(w)
  PROVE  Inv'
  <1>1. Types /\ BusyHasTask /\ Moves(w, {"asleep"}, "awake")
    BY DEF Inv, TimerFires
  <1>2. Types' /\ BusyHasTask'
    <2>1. pc' \in [Threads -> Places]
      BY <1>1 DEF Types, Moves, Places
    <2>2. task' \in [Threads -> Tasks \cup {NoTask}] /\ BusyHasTask'
      BY <1>1, <2>1 DEF Types, BusyHasTask, Moves, TimerFires
    <2>3. panicked' \in BOOLEAN
      BY <1>1, Zenon DEF Types, TimerFires
    <2> QED BY <1>1, <2>1, <2>2, <2>3 DEF Types, BusyHasTask, Moves, TimerFires
  <1>3. /\ Cardinality(Waiting)' = Cardinality(Waiting)
        /\ Cardinality(Registered)' = Cardinality(Registered)
        /\ Cardinality(At({"dead"}))' = Cardinality(At({"dead"}))
        /\ Cardinality(At({"awake"}))' = Cardinality(At({"awake"})) + 1
    <2>1. /\ Follows(Cardinality(Waiting), w, "awake", WaitingPlaces)
          /\ Follows(Cardinality(Registered), w, "awake", RegisteredPlaces)
          /\ Follows(Cardinality(At({"dead"})), w, "awake", {"dead"})
          /\ Follows(Cardinality(At({"awake"})), w, "awake", {"awake"})
      BY <1>1, Counts
    <2> QED BY <1>1, <2>1, CountTypes
            DEF Moves, Follows, One, WaitingPlaces, RegisteredPlaces
  <1>4. At({"holding"})' \subseteq At({"holding"}) /\ At({"asleep"})' \subseteq At({"asleep"})
    BY <1>1, Elsewhere
  <1>5. CountersCorrect' /\ ActiveEnough'
    <2>1. /\ active_tasks' = active_tasks
          /\ waiting_tasks' = waiting_tasks
          /\ pool' = pool
      BY <1>1 DEF TimerFires
    <2> QED BY <1>1, <1>3, <2>1, CountTypes, SizeAssumption
        DEF Inv, CountersCorrect, ActiveEnough, Types
  <1>6. HolderSawEmpty' /\ NoLostWakeup'
    BY <1>3, <1>4, LenTodo, CountTypes DEF Inv, HolderSawEmpty, NoLostWakeup, TimerFires
  <1> QED BY <1>2, <1>5, <1>6 DEF Inv

LEMMA SpuriousWakeupInv ==
  ASSUME Inv, NEW w \in Threads, SpuriousWakeup(w)
  PROVE  Inv'
  <1>1. Types /\ BusyHasTask /\ Moves(w, {"asleep"}, "awake")
    BY DEF Inv, SpuriousWakeup
  <1>2. Types' /\ BusyHasTask'
    <2>1. pc' \in [Threads -> Places]
      BY <1>1 DEF Types, Moves, Places
    <2>2. task' \in [Threads -> Tasks \cup {NoTask}] /\ BusyHasTask'
      BY <1>1, <2>1 DEF Types, BusyHasTask, Moves, SpuriousWakeup
    <2>3. panicked' \in BOOLEAN
      BY <1>1, Zenon DEF Types, SpuriousWakeup
    <2> QED BY <1>1, <2>1, <2>2, <2>3 DEF Types, BusyHasTask, Moves, SpuriousWakeup
  <1>3. /\ Cardinality(Waiting)' = Cardinality(Waiting)
        /\ Cardinality(Registered)' = Cardinality(Registered)
        /\ Cardinality(At({"dead"}))' = Cardinality(At({"dead"}))
        /\ Cardinality(At({"awake"}))' = Cardinality(At({"awake"})) + 1
    <2>1. /\ Follows(Cardinality(Waiting), w, "awake", WaitingPlaces)
          /\ Follows(Cardinality(Registered), w, "awake", RegisteredPlaces)
          /\ Follows(Cardinality(At({"dead"})), w, "awake", {"dead"})
          /\ Follows(Cardinality(At({"awake"})), w, "awake", {"awake"})
      BY <1>1, Counts
    <2> QED BY <1>1, <2>1, CountTypes
            DEF Moves, Follows, One, WaitingPlaces, RegisteredPlaces
  <1>4. At({"holding"})' \subseteq At({"holding"}) /\ At({"asleep"})' \subseteq At({"asleep"})
    BY <1>1, Elsewhere
  <1>5. CountersCorrect' /\ ActiveEnough'
    <2>1. /\ active_tasks' = active_tasks
          /\ waiting_tasks' = waiting_tasks
          /\ pool' = pool
      BY <1>1 DEF SpuriousWakeup
    <2> QED BY <1>1, <1>3, <2>1, CountTypes, SizeAssumption
        DEF Inv, CountersCorrect, ActiveEnough, Types
  <1>6. HolderSawEmpty' /\ NoLostWakeup'
    BY <1>3, <1>4, LenTodo, CountTypes DEF Inv, HolderSawEmpty, NoLostWakeup, SpuriousWakeup
  <1> QED BY <1>2, <1>5, <1>6 DEF Inv

LEMMA ExpireInv ==
  ASSUME Inv, NEW w \in Threads, Expire(w)
  PROVE  Inv'
  <1>1. Types /\ BusyHasTask /\ Moves(w, {"awake"}, "exiting")
    BY DEF Inv, Expire
  <1>2. Types' /\ BusyHasTask'
    <2>1. pc' \in [Threads -> Places]
      BY <1>1 DEF Types, Moves, Places
    <2>2. task' \in [Threads -> Tasks \cup {NoTask}] /\ BusyHasTask'
      BY <1>1, <2>1 DEF Types, BusyHasTask, Moves, WaitingAfterWake, Expire
    <2>3. panicked' \in BOOLEAN
      BY <1>1, Zenon DEF Types, Expire
    <2> QED BY <1>1, <2>1, <2>2, <2>3 DEF Types, BusyHasTask, Moves, WaitingAfterWake, Expire
  <1>3. /\ Cardinality(Waiting)' = Cardinality(Waiting) - 1
        /\ Cardinality(Registered)' = Cardinality(Registered)
        /\ Cardinality(At({"dead"}))' = Cardinality(At({"dead"}))
        /\ Cardinality(At({"awake"}))' = Cardinality(At({"awake"})) - 1
    <2>1. /\ Follows(Cardinality(Waiting), w, "exiting", WaitingPlaces)
          /\ Follows(Cardinality(Registered), w, "exiting", RegisteredPlaces)
          /\ Follows(Cardinality(At({"dead"})), w, "exiting", {"dead"})
          /\ Follows(Cardinality(At({"awake"})), w, "exiting", {"awake"})
      BY <1>1, Counts
    <2> QED BY <1>1, <2>1, CountTypes
            DEF Moves, Follows, One, WaitingPlaces, RegisteredPlaces
  <1>4. At({"holding"})' \subseteq At({"holding"}) /\ At({"asleep"})' \subseteq At({"asleep"})
    BY <1>1, Elsewhere
  <1>5. CountersCorrect' /\ ActiveEnough'
    <2>1. /\ active_tasks' = active_tasks
          /\ waiting_tasks' = waiting_tasks - 1
          /\ pool' = pool
      BY <1>1 DEF Expire, Moves, One, WaitingAfterWake, Types
    <2> QED BY <1>1, <1>3, <2>1, CountTypes, SizeAssumption
        DEF Inv, CountersCorrect, ActiveEnough, Types
  <1>6. HolderSawEmpty' /\ NoLostWakeup'
    <2>1. todo' = <<>>
      BY DEF Expire
    <2> QED BY <2>1, AwakeLater DEF HolderSawEmpty, NoLostWakeup
  <1> QED BY <1>2, <1>5, <1>6 DEF Inv

LEMMA GoIdleInv ==
  ASSUME Inv, NEW w \in Threads, GoIdle(w)
  PROVE  Inv'
  <1>1. Types /\ BusyHasTask /\ Moves(w, {"locking", "awake"}, "holding")
    BY DEF Inv, GoIdle
  <1>2. Types' /\ BusyHasTask'
    <2>1. pc' \in [Threads -> Places]
      BY <1>1 DEF Types, Moves, Places
    <2>2. task' \in [Threads -> Tasks \cup {NoTask}] /\ BusyHasTask'
      BY <1>1, <2>1 DEF Types, BusyHasTask, Moves, WaitingAfterWake, GoIdle
    <2>3. panicked' \in BOOLEAN
      BY <1>1, Zenon DEF Types, GoIdle
    <2> QED BY <1>1, <2>1, <2>2, <2>3 DEF Types, BusyHasTask, Moves, WaitingAfterWake, GoIdle
  <1>3. /\ Cardinality(Waiting)' = Cardinality(Waiting) - One(pc[w] = "awake") + 1
        /\ Cardinality(Registered)' = Cardinality(Registered)
        /\ Cardinality(At({"dead"}))' = Cardinality(At({"dead"}))
        /\ Cardinality(At({"awake"}))' = Cardinality(At({"awake"})) - One(pc[w] = "awake")
    <2>1. /\ Follows(Cardinality(Waiting), w, "holding", WaitingPlaces)
          /\ Follows(Cardinality(Registered), w, "holding", RegisteredPlaces)
          /\ Follows(Cardinality(At({"dead"})), w, "holding", {"dead"})
          /\ Follows(Cardinality(At({"awake"})), w, "holding", {"awake"})
      BY <1>1, Counts
    <2> QED BY <1>1, <2>1, CountTypes
            DEF Moves, Follows, One, WaitingPlaces, RegisteredPlaces
  <1>4. At({"asleep"})' \subseteq At({"asleep"})
    BY <1>1, Elsewhere
  <1>5. CountersCorrect' /\ ActiveEnough'
    <2>1. /\ active_tasks' = active_tasks
          /\ waiting_tasks' = waiting_tasks - One(pc[w] = "awake") + 1
          /\ pool' = pool
      BY <1>1 DEF GoIdle, Moves, One, WaitingAfterWake, Types
    <2> QED BY <1>1, <1>3, <2>1, CountTypes, SizeAssumption
        DEF Inv, CountersCorrect, ActiveEnough, Types
  <1>6. HolderSawEmpty' /\ NoLostWakeup'
    <2>1. todo' = <<>>
      BY DEF GoIdle
    <2> QED BY <2>1, AwakeLater DEF HolderSawEmpty, NoLostWakeup
  <1> QED BY <1>2, <1>5, <1>6 DEF Inv

LEMMA SleepInv ==
  ASSUME Inv, NEW w \in Threads, Sleep(w)
  PROVE  Inv'
  <1>1. Types /\ BusyHasTask /\ Moves(w, {"holding"}, "asleep")
    BY DEF Inv, Sleep
  <1>2. Types' /\ BusyHasTask'
    <2>1. pc' \in [Threads -> Places]
      BY <1>1 DEF Types, Moves, Places
    <2>2. task' \in [Threads -> Tasks \cup {NoTask}] /\ BusyHasTask'
      BY <1>1, <2>1 DEF Types, BusyHasTask, Moves, Sleep
    <2>3. panicked' \in BOOLEAN
      BY <1>1, Zenon DEF Types, Sleep
    <2> QED BY <1>1, <2>1, <2>2, <2>3 DEF Types, BusyHasTask, Moves, Sleep
  <1>3. /\ Cardinality(Waiting)' = Cardinality(Waiting)
        /\ Cardinality(Registered)' = Cardinality(Registered)
        /\ Cardinality(At({"dead"}))' = Cardinality(At({"dead"}))
        /\ Cardinality(At({"awake"}))' = Cardinality(At({"awake"}))
    <2>1. /\ Follows(Cardinality(Waiting), w, "asleep", WaitingPlaces)
          /\ Follows(Cardinality(Registered), w, "asleep", RegisteredPlaces)
          /\ Follows(Cardinality(At({"dead"})), w, "asleep", {"dead"})
          /\ Follows(Cardinality(At({"awake"})), w, "asleep", {"awake"})
      BY <1>1, Counts
    <2> QED BY <1>1, <2>1, CountTypes
            DEF Moves, Follows, One, WaitingPlaces, RegisteredPlaces
  <1>4. At({"holding"})' \subseteq At({"holding"})
    BY <1>1, Elsewhere
  <1>5. CountersCorrect' /\ ActiveEnough'
    <2>1. /\ active_tasks' = active_tasks
          /\ waiting_tasks' = waiting_tasks
          /\ pool' = pool
      BY <1>1 DEF Sleep
    <2> QED BY <1>1, <1>3, <2>1, CountTypes, SizeAssumption
        DEF Inv, CountersCorrect, ActiveEnough, Types
  <1>6. HolderSawEmpty' /\ NoLostWakeup'
    <2>1. w \in At({"holding"})
      BY <1>1 DEF Moves, At
    <2>2. todo' = <<>>
      BY <2>1 DEF Inv, HolderSawEmpty, Sleep
    <2> QED BY <2>2, AwakeLater DEF HolderSawEmpty, NoLostWakeup
  <1> QED BY <1>2, <1>5, <1>6 DEF Inv

LEMMA DeregisterInv ==
  ASSUME Inv, NEW w \in Threads, Deregister(w)
  PROVE  Inv'
  <1>1. Types /\ BusyHasTask /\ Moves(w, {"exiting"}, "dead")
    BY DEF Inv, Deregister
  <1>2. Types' /\ BusyHasTask'
    <2>1. pc' \in [Threads -> Places]
      BY <1>1 DEF Types, Moves, Places
    <2>2. task' \in [Threads -> Tasks \cup {NoTask}] /\ BusyHasTask'
      BY <1>1, <2>1 DEF Types, BusyHasTask, Moves, Deregister
    <2>3. panicked' \in BOOLEAN
      BY <1>1, Zenon DEF Types, Deregister
    <2> QED BY <1>1, <2>1, <2>2, <2>3 DEF Types, BusyHasTask, Moves, Deregister
  <1>3. /\ Cardinality(Waiting)' = Cardinality(Waiting)
        /\ Cardinality(Registered)' = Cardinality(Registered) - 1
        /\ Cardinality(At({"dead"}))' = Cardinality(At({"dead"})) + 1
        /\ Cardinality(At({"awake"}))' = Cardinality(At({"awake"}))
    <2>1. /\ Follows(Cardinality(Waiting), w, "dead", WaitingPlaces)
          /\ Follows(Cardinality(Registered), w, "dead", RegisteredPlaces)
          /\ Follows(Cardinality(At({"dead"})), w, "dead", {"dead"})
          /\ Follows(Cardinality(At({"awake"})), w, "dead", {"awake"})
      BY <1>1, Counts
    <2> QED BY <1>1, <2>1, CountTypes
            DEF Moves, Follows, One, WaitingPlaces, RegisteredPlaces
  <1>4. At({"holding"})' \subseteq At({"holding"}) /\ At({"asleep"})' \subseteq At({"asleep"})
    BY <1>1, Elsewhere
  <1>5. CountersCorrect' /\ ActiveEnough'
    <2>1. /\ active_tasks' = active_tasks - 1
          /\ waiting_tasks' = waiting_tasks
          /\ pool' = pool
      BY <1>1 DEF Deregister
    <2> QED BY <1>1, <1>3, <2>1, CountTypes, SizeAssumption
        DEF Inv, CountersCorrect, ActiveEnough, Types
  <1>6. HolderSawEmpty' /\ NoLostWakeup'
    BY <1>3, <1>4 DEF Inv, HolderSawEmpty, NoLostWakeup, Deregister
  <1> QED BY <1>2, <1>5, <1>6 DEF Inv

-----------------------------------------------------------------------------
(* The other actions. Spawn moves at most one thread, which it wakes or
   creates; drop wakes every thread at once. *)
LEMMA SpawnThreadInv ==
  ASSUME Inv, NEW w \in Threads, Moves(w, {"unborn"}, "born"),
         task' = [task EXCEPT ![w] = spawned + 1], Spawn, UNCHANGED todo
  PROVE  Inv'
  <1>1. Types /\ BusyHasTask /\ spawned + 1 \in Tasks
    BY SizeAssumption DEF Inv, Types, Spawn, Tasks
  <1>2. Types' /\ BusyHasTask'
    <2>1. pc' \in [Threads -> Places]
      BY <1>1 DEF Types, Moves, Places
    <2>2. task' \in [Threads -> Tasks \cup {NoTask}] /\ BusyHasTask'
      BY <1>1, <2>1 DEF Types, BusyHasTask, Moves
    <2>3. panicked' \in BOOLEAN
      BY <1>1, Zenon DEF Types, Spawn
    <2>4. spawned' \in 0..MaxTasks
      BY <1>1 DEF Types, Spawn, Tasks
    <2>5. UNCHANGED <<todo, timed, timedOut, active_tasks, waiting_tasks, ended, pool>>
      BY DEF Spawn
    <2> QED BY <1>1, <2>1, <2>2, <2>3, <2>4, <2>5 DEF Types
  <1>3. /\ Cardinality(Waiting)' = Cardinality(Waiting)
        /\ Cardinality(Registered)' = Cardinality(Registered)
        /\ Cardinality(At({"dead"}))' = Cardinality(At({"dead"}))
        /\ Cardinality(At({"awake"}))' = Cardinality(At({"awake"}))
    <2>1. /\ Follows(Cardinality(Waiting), w, "born", WaitingPlaces)
          /\ Follows(Cardinality(Registered), w, "born", RegisteredPlaces)
          /\ Follows(Cardinality(At({"dead"})), w, "born", {"dead"})
          /\ Follows(Cardinality(At({"awake"})), w, "born", {"awake"})
      BY <1>1, Counts
    <2> QED BY <1>1, <2>1, CountTypes
            DEF Moves, Follows, One, WaitingPlaces, RegisteredPlaces
  <1>4. At({"holding"})' \subseteq At({"holding"}) /\ At({"asleep"})' \subseteq At({"asleep"})
    BY <1>1, Elsewhere
  <1>5. CountersCorrect' /\ ActiveEnough'
    BY <1>3 DEF Inv, CountersCorrect, ActiveEnough, Spawn
  <1>6. HolderSawEmpty' /\ NoLostWakeup'
    BY <1>3, <1>4 DEF Inv, HolderSawEmpty, NoLostWakeup
  <1> QED BY <1>2, <1>5, <1>6 DEF Inv

LEMMA SpawnQueueInv ==
  ASSUME Inv, todo' = Append(todo, spawned + 1), NotifyOne, Spawn, UNCHANGED task
  PROVE  Inv'
  <1>1. Types /\ BusyHasTask /\ spawned + 1 \in Tasks
    BY SizeAssumption DEF Inv, Types, Spawn, Tasks
  <1>2. todo' \in Seq(Tasks) /\ Len(todo') = Len(todo) + 1 /\ Len(todo) \in Nat
    BY <1>1 DEF Types
  <1>3. /\ panicked' \in BOOLEAN /\ spawned' \in 0..MaxTasks
        /\ UNCHANGED <<timed, timedOut, active_tasks, waiting_tasks, ended, pool>>
    <2>1. panicked' \in BOOLEAN
      BY <1>1, Zenon DEF Types, Spawn
    <2>2. spawned' \in 0..MaxTasks
      BY <1>1 DEF Types, Spawn, Tasks
    <2> QED BY <2>1, <2>2 DEF Spawn
  <1>4. At({"holding"}) = {}
    BY DEF Spawn, LockFree
  <1>5. CASE At({"asleep"}) = {} /\ UNCHANGED pc
    <2>1. /\ Types' /\ BusyHasTask'
      BY <1>1, <1>2, <1>3, <1>5 DEF Types, BusyHasTask
    <2>2. Waiting' = Waiting /\ Registered' = Registered /\ At({"dead"})' = At({"dead"})
      BY <1>5 DEF Waiting, Registered, At
    <2>3. At({"holding"})' = {} /\ At({"asleep"})' = {}
      BY <1>4, <1>5 DEF At
    <2> QED BY <1>3, <2>1, <2>2, <2>3
        DEF Inv, CountersCorrect, ActiveEnough, HolderSawEmpty, NoLostWakeup
  <1>6. ASSUME NEW w \in At({"asleep"}), pc' = [pc EXCEPT ![w] = "awake"]
        PROVE  Inv'
    <2>1. w \in Threads /\ Moves(w, {"asleep"}, "awake")
      BY <1>6 DEF At, Moves
    <2>2. Types' /\ BusyHasTask'
      <3>1. pc' \in [Threads -> Places]
        BY <1>1, <1>6 DEF Types, Places
      <3>2. BusyHasTask'
        BY <1>1, <1>6 DEF Types, BusyHasTask
      <3> QED BY <1>1, <1>2, <1>3, <3>1, <3>2 DEF Types
    <2>3. /\ Cardinality(Waiting)' = Cardinality(Waiting)
          /\ Cardinality(Registered)' = Cardinality(Registered)
          /\ Cardinality(At({"dead"}))' = Cardinality(At({"dead"}))
          /\ Cardinality(At({"awake"}))' = Cardinality(At({"awake"})) + 1
      <3>1. /\ Follows(Cardinality(Waiting), w, "awake", WaitingPlaces)
            /\ Follows(Cardinality(Registered), w, "awake", RegisteredPlaces)
            /\ Follows(Cardinality(At({"dead"})), w, "awake", {"dead"})
            /\ Follows(Cardinality(At({"awake"})), w, "awake", {"awake"})
        BY <1>1, <2>1, Counts
      <3> QED BY <1>1, <2>1, <3>1, CountTypes
              DEF Moves, Follows, One, WaitingPlaces, RegisteredPlaces
    <2>4. At({"holding"})' = {}
      BY <1>1, <1>4, <2>1, Elsewhere
    <2>5. Len(todo) <= Cardinality(At({"awake"}))
      BY DEF Inv, NoLostWakeup
    <2>6. NoLostWakeup'
      BY <1>2, <2>3, <2>5, CountTypes DEF NoLostWakeup
    <2>7. CountersCorrect' /\ ActiveEnough'
      BY <1>3, <2>3 DEF Inv, CountersCorrect, ActiveEnough
    <2> QED BY <2>2, <2>4, <2>6, <2>7 DEF Inv, HolderSawEmpty
  <1> QED BY <1>5, <1>6 DEF NotifyOne

LEMMA SpawnInv ==
  ASSUME Inv, Spawn
  PROVE  Inv'
  <1>1. ASSUME NEW w \in At({"unborn"}), pc' = [pc EXCEPT ![w] = "born"],
               task' = [task EXCEPT ![w] = spawned + 1], UNCHANGED todo
        PROVE  Inv'
    <2>1. w \in Threads /\ Moves(w, {"unborn"}, "born")
      BY <1>1 DEF At, Moves
    <2> QED BY <1>1, <2>1, SpawnThreadInv
  <1>2. ASSUME todo' = Append(todo, spawned + 1), NotifyOne, UNCHANGED task
        PROVE  Inv'
    BY <1>2, SpawnQueueInv
  <1> QED BY <1>1, <1>2 DEF Spawn, AddThread

LEMMA DropStoresInv ==
  ASSUME Inv, DropStores
  PROVE  Inv'
  <1>1. UNCHANGED <<Waiting, At({"holding"}), At({"asleep"}), At({"awake"}), At({"dead"})>>
    BY DEF DropStores, Waiting, At
  <1>2. panicked' \in BOOLEAN
    BY Zenon DEF Inv, Types, DropStores
  <1>3. Types' /\ BusyHasTask'
    BY <1>2, SizeAssumption DEF Inv, Types, BusyHasTask, DropStores
  <1>4. CountersCorrect' /\ ActiveEnough'
    BY <1>1, CountTypes, SizeAssumption DEF Inv, CountersCorrect, ActiveEnough, DropStores
  <1>5. HolderSawEmpty' /\ NoLostWakeup'
    BY <1>1 DEF Inv, HolderSawEmpty, NoLostWakeup, DropStores
  <1> QED BY <1>3, <1>4, <1>5 DEF Inv

LEMMA DropNotifiesInv ==
  ASSUME Inv, DropNotifies
  PROVE  Inv'
  <1>1. pc' \in [Threads -> Places]
    BY DEF Inv, Types, DropNotifies, Places
  <1>2. /\ UNCHANGED <<Waiting, At({"holding"}), At({"dead"})>>
        /\ At({"asleep"})' = {}
    BY DEF DropNotifies, Waiting, At
  <1>3. panicked' \in BOOLEAN
    BY Zenon DEF Inv, Types, DropNotifies
  <1>4. Types' /\ BusyHasTask'
    <2>1. BusyHasTask'
      BY DEF Inv, BusyHasTask, DropNotifies
    <2> QED BY <1>1, <1>3, <2>1 DEF Inv, Types, DropNotifies
  <1>5. CountersCorrect' /\ ActiveEnough'
    BY <1>2 DEF Inv, CountersCorrect, ActiveEnough, DropNotifies
  <1>6. HolderSawEmpty' /\ NoLostWakeup'
    BY <1>2 DEF Inv, HolderSawEmpty, NoLostWakeup, DropNotifies
  <1> QED BY <1>4, <1>5, <1>6 DEF Inv

LEMMA InvStep == Inv /\ [Next]_vars => Inv'
  <1> SUFFICES ASSUME Inv, [Next]_vars PROVE Inv'
    OBVIOUS
  <1>1. ASSUME NEW w \in Threads, Work(w) PROVE Inv'
    BY <1>1, RegisterInv, TakeTaskInv, GoIdleInv, SleepInv, ExpireInv, DeregisterInv
       DEF Work
  <1>2. ASSUME NEW w \in Threads,
               TimerFires(w) \/ Finish(w) \/ Panic(w) \/ SpuriousWakeup(w)
        PROVE  Inv'
    BY <1>2, TimerFiresInv, FinishInv, PanicInv, SpuriousWakeupInv
  <1>3. CASE UNCHANGED vars
    <2>1. Types'
      BY <1>3 DEF Inv, Types, vars
    <2> QED BY <1>3, <2>1 DEF Inv, BusyHasTask, CountersCorrect, ActiveEnough,
               HolderSawEmpty, NoLostWakeup, Waiting, Registered, At, vars
  <1> QED BY <1>1, <1>2, <1>3, SpawnInv, DropStoresInv, DropNotifiesInv DEF Next
-----------------------------------------------------------------------------
(* The invariant holds in every reachable state, whatever the number of
   permanent threads and of connections. *)
THEOREM Safety == Spec => []Inv
  BY InvInit, InvStep, PTL DEF Spec

(* The state has its types. The counter of active tasks stays a natural
   number: once drop has overwritten it, no more threads can end than there
   are, so the fetch_sub of the last of them does not wrap below zero. *)
THEOREM TypeCorrect == Spec => []TypeOK
  <1>1. Inv => TypeOK
    <2> SUFFICES ASSUME Inv PROVE TypeOK
      OBVIOUS
    <2>1. Types /\ CountersCorrect /\ ActiveEnough
      BY DEF Inv
    <2>2. waiting_tasks \in Nat
      BY <2>1, CountTypes DEF CountersCorrect
    <2>3. active_tasks \in Nat
      BY <2>1, CountTypes, SizeAssumption
         DEF Types, CountersCorrect, ActiveEnough, MaxThreads
    <2> QED BY <2>1, <2>2, <2>3 DEF Types, TypeOK
  <1> QED BY <1>1, Safety, PTL

(* The counters of the pool count the threads they are documented to count:
   every guard that is made is dropped exactly once, on each path by which a
   thread leaves its wait or ends. *)
THEOREM CountersRight == Spec => []CountersCorrect
  <1>1. Inv => CountersCorrect
    BY DEF Inv
  <1> QED BY <1>1, Safety, PTL

(* No wakeup is lost between a worker that finds the queue empty and spawn
   that fills it: while a worker sleeps, as many are awake as tasks wait. *)
THEOREM WakeupsSuffice == Spec => []NoLostWakeup
  <1>1. Inv => NoLostWakeup
    BY DEF Inv
  <1> QED BY <1>1, Safety, PTL
-----------------------------------------------------------------------------
(* The refinement: every connection that is handed to spawn waits, runs and is
   over, once and in this order. *)
Shape ==
  /\ todo \in Seq(Tasks)
  /\ pc \in [Threads -> Places] /\ task \in [Threads -> Tasks \cup {NoTask}]
  /\ spawned \in Nat /\ ended \subseteq Tasks
  /\ \A w \in Threads : pc[w] = "running" => task[w] # NoTask
  /\ \A w \in Threads : task[w] # NoTask => pc[w] \in {"born", "running"}

PlaceInv == Shape /\ TaskInOnePlace

Distinct == \A i, j \in 1..Len(todo) : i # j => todo[i] # todo[j]

Mapped == <<Unstarted, Started, ended>>

LEMMA NoTaskApart == NoTask \notin Tasks
BY DEF NoTask, Tasks

LEMMA Extensional ==
  \A S, T : (\A x : x \in S <=> x \in T) => S = T
OBVIOUS

(* The places, thread by thread. *)
LEMMA PlacesOf ==
  /\ \A t : t \in Held <=> \E w \in Threads : task[w] = t /\ t # NoTask
  /\ \A t : t \in Started <=> \E w \in Threads : pc[w] = "running" /\ task[w] = t
  /\ \A t : t \in Unstarted <=>
       t \in Queued \/ \E w \in Threads : pc[w] = "born" /\ task[w] = t /\ t # NoTask
BY DEF Held, Started, Unstarted, At

LEMMA PlacesOfNext ==
  /\ \A t : t \in Held' <=> \E w \in Threads : task'[w] = t /\ t # NoTask
  /\ \A t : t \in Started' <=> \E w \in Threads : pc'[w] = "running" /\ task'[w] = t
  /\ \A t : t \in Unstarted' <=>
       t \in Queued' \/ \E w \in Threads : pc'[w] = "born" /\ task'[w] = t /\ t # NoTask
BY DEF Held, Started, Unstarted, At

LEMMA QueueTakes ==
  ASSUME todo \in Seq(Tasks), todo # <<>>, Distinct, todo' = Tail(todo)
  PROVE  /\ todo' \in Seq(Tasks) /\ Head(todo) \in Queued /\ Head(todo) \in Tasks
         /\ Queued' = Queued \ {Head(todo)} /\ Distinct'
<1>1. /\ Len(todo) \in Nat /\ Len(todo) >= 1 /\ todo' \in Seq(Tasks)
      /\ Len(todo') = Len(todo) - 1 /\ Head(todo) = todo[1] /\ Head(todo) \in Tasks
      /\ \A i \in 1..Len(todo') : todo'[i] = todo[i + 1] /\ i + 1 \in 1..Len(todo)
  OBVIOUS
<1>2. Distinct'
  BY <1>1 DEF Distinct
<1>3. ASSUME NEW t \in Queued' PROVE t \in Queued \ {Head(todo)}
  <2>1. PICK i \in 1..Len(todo') : todo'[i] = t
    BY DEF Queued
  <2>2. todo[i + 1] = t /\ i + 1 \in 1..Len(todo) /\ i + 1 # 1 /\ 1 \in 1..Len(todo)
    BY <1>1, <2>1
  <2>3. t # Head(todo)
    BY <1>1, <2>2 DEF Distinct
  <2>4. QED BY <2>2, <2>3 DEF Queued
<1>4. ASSUME NEW t \in Queued, t # Head(todo) PROVE t \in Queued'
  <2>1. PICK i \in 1..Len(todo) : todo[i] = t
    BY DEF Queued
  <2>2. i - 1 \in 1..Len(todo') /\ (i - 1) + 1 = i
    BY <1>1, <1>4, <2>1
  <2>3. todo'[i - 1] = t
    BY <1>1, <2>1, <2>2
  <2>4. QED BY <2>2, <2>3 DEF Queued
<1>5. Queued' = Queued \ {Head(todo)}
  <2>1. Head(todo) \notin Queued'
    BY <1>3
  <2>2. QED BY <1>3, <1>4, <2>1
<1>6. Head(todo) \in Queued
  BY <1>1 DEF Queued
<1>7. QED BY <1>1, <1>2, <1>5, <1>6

LEMMA QueueGrows ==
  ASSUME todo \in Seq(Tasks), Distinct, NEW t \in Tasks, t \notin Queued,
         todo' = Append(todo, t)
  PROVE  todo' \in Seq(Tasks) /\ Queued' = Queued \cup {t} /\ Distinct'
<1>1. /\ Len(todo) \in Nat /\ todo' \in Seq(Tasks) /\ Len(todo') = Len(todo) + 1
      /\ todo'[Len(todo) + 1] = t
      /\ \A i \in 1..Len(todo) : todo'[i] = todo[i]
  OBVIOUS
<1>2. Queued' = Queued \cup {t}
  BY <1>1 DEF Queued
<1>3. Distinct'
  BY <1>1 DEF Distinct, Queued
<1>4. QED BY <1>1, <1>2, <1>3

(* Steps that move no task: a thread goes from one place to another while it has
   none, and nothing is queued or taken. *)
LEMMA Unmoved ==
  ASSUME PlaceInv, UNCHANGED <<todo, task, spawned, ended>>,
         pc' \in [Threads -> Places],
         \A w \in Threads : pc'[w] = pc[w] \/ (task[w] = NoTask /\ pc'[w] # "running")
  PROVE  PlaceInv' /\ UNCHANGED Mapped
<1>1. Queued' = Queued /\ Held' = Held
  BY DEF Queued, Held
<1>2. TaskInOnePlace'
  BY <1>1 DEF PlaceInv, TaskInOnePlace
<1>3. Shape'
  BY DEF PlaceInv, Shape
<1>4. \A w \in Threads :
        /\ pc'[w] = "running" <=> pc[w] = "running"
        /\ task[w] # NoTask => (pc'[w] = "born" <=> pc[w] = "born")
  BY DEF PlaceInv, Shape
<1>5. Started' = Started /\ Unstarted' = Unstarted
  <2>1. \A t : t \in Started' <=> t \in Started
    BY <1>4, PlacesOf, PlacesOfNext
  <2>2. \A t : t \in Unstarted' <=> t \in Unstarted
    BY <1>1, <1>4, PlacesOf, PlacesOfNext
  <2>3. QED BY <2>1, <2>2, Extensional
<1>6. QED BY <1>2, <1>3, <1>4, <1>5 DEF PlaceInv, Mapped

(* A thread begins with the task it was created for. *)
LEMMA Begins ==
  ASSUME PlaceInv, NEW w \in Threads, Register(w), task[w] # NoTask
  PROVE  PlaceInv' /\ Pool!Start(task[w])
<1>1. /\ pc[w] = "born" /\ pc' = [pc EXCEPT ![w] = "running"]
      /\ UNCHANGED <<todo, task, spawned, ended>>
  BY DEF Register, Moves
<1>2. Queued' = Queued /\ Held' = Held
  BY <1>1 DEF Queued, Held
<1>3. TaskInOnePlace'
  BY <1>1, <1>2 DEF PlaceInv, TaskInOnePlace
<1>4. Shape'
  BY <1>1 DEF PlaceInv, Shape, Places
<1>5. \A v \in Threads : pc'[v] = IF v = w THEN "running" ELSE pc[v]
  BY <1>1 DEF PlaceInv, Shape
<1>6. \A v \in Threads : v # w => task[v] # task[w]
  BY DEF PlaceInv, TaskInOnePlace
<1>7. task[w] \in Held /\ task[w] \notin Queued
  BY PlacesOf DEF PlaceInv, TaskInOnePlace
<1>8. Started' = Started \cup {task[w]}
  BY <1>1, <1>5, PlacesOf, PlacesOfNext
<1>9. Unstarted' = Unstarted \ {task[w]}
  BY <1>1, <1>2, <1>5, <1>6, <1>7, PlacesOf, PlacesOfNext
<1>10. task[w] \in Unstarted
  BY <1>1, PlacesOf
<1>11. QED BY <1>1, <1>3, <1>4, <1>8, <1>9, <1>10 DEF PlaceInv, Pool!Start

(* A thread takes the oldest task of the queue. *)
LEMMA Takes ==
  ASSUME PlaceInv, NEW w \in Threads, TakeTask(w)
  PROVE  PlaceInv' /\ Pool!Start(Head(todo))
<1> DEFINE t == Head(todo)
<1>1. /\ pc[w] \in {"locking", "awake"} /\ pc' = [pc EXCEPT ![w] = "running"]
      /\ task' = [task EXCEPT ![w] = t] /\ todo # <<>> /\ todo' = Tail(todo)
      /\ UNCHANGED <<spawned, ended>>
  BY DEF TakeTask, Moves
<1>2. /\ todo' \in Seq(Tasks) /\ t \in Queued /\ t \in Tasks
      /\ Queued' = Queued \ {t} /\ Distinct'
  BY <1>1, QueueTakes DEF PlaceInv, Shape, TaskInOnePlace, Distinct
<1> HIDE DEF t
<1>3. task[w] = NoTask /\ t # NoTask
  BY <1>1, <1>2, NoTaskApart DEF PlaceInv, Shape
<1>4. \A v \in Threads : /\ pc'[v] = IF v = w THEN "running" ELSE pc[v]
                         /\ task'[v] = IF v = w THEN t ELSE task[v]
  BY <1>1 DEF PlaceInv, Shape
<1>5. Held' = Held \cup {t} /\ t \notin Held
  BY <1>2, <1>3, <1>4, PlacesOf, PlacesOfNext DEF PlaceInv, TaskInOnePlace
<1>6. Shape'
  BY <1>1, <1>2, <1>3, <1>4 DEF PlaceInv, Shape, Places
<1>7. TaskInOnePlace'
  <2>1. \A u, v \in Threads : u # v /\ task'[u] # NoTask => task'[u] # task'[v]
    BY <1>3, <1>4, <1>5, PlacesOf DEF PlaceInv, TaskInOnePlace
  <2>2. /\ 1..spawned' = Queued' \cup Held' \cup ended'
        /\ Queued' \cap Held' = {} /\ Queued' \cap ended' = {} /\ Held' \cap ended' = {}
    BY <1>1, <1>2, <1>5 DEF PlaceInv, TaskInOnePlace
  <2>3. QED BY <1>2, <2>1, <2>2 DEF TaskInOnePlace, Distinct
<1>8. Started' = Started \cup {t}
  BY <1>1, <1>4, PlacesOf, PlacesOfNext
<1>9. Unstarted' = Unstarted \ {t}
  BY <1>1, <1>2, <1>3, <1>4, <1>5, PlacesOf, PlacesOfNext
<1>10. t \in Unstarted
  BY <1>2, PlacesOf
<1>11. QED BY <1>1, <1>6, <1>7, <1>8, <1>9, <1>10 DEF PlaceInv, Pool!Start, t

(* A task returns or panics. *)
LEMMA Ends ==
  ASSUME PlaceInv, NEW w \in Threads, NEW to \in {"locking", "exiting"}, EndTask(w, to)
  PROVE  PlaceInv' /\ Pool!Leave(task[w])
<1>1. /\ pc[w] = "running" /\ pc' = [pc EXCEPT ![w] = to]
      /\ task' = [task EXCEPT ![w] = NoTask] /\ ended' = ended \cup {task[w]}
      /\ UNCHANGED <<todo, spawned>>
  BY DEF EndTask, Moves
<1>2. Queued' = Queued
  BY <1>1 DEF Queued
<1>3. task[w] # NoTask /\ task[w] \in Tasks
  BY <1>1, NoTaskApart DEF PlaceInv, Shape
<1>4. \A v \in Threads : /\ pc'[v] = IF v = w THEN to ELSE pc[v]
                         /\ task'[v] = IF v = w THEN NoTask ELSE task[v]
  BY <1>1 DEF PlaceInv, Shape
<1>5. \A v \in Threads : v # w => task[v] # task[w]
  BY <1>3 DEF PlaceInv, TaskInOnePlace
<1>6. Held' = Held \ {task[w]} /\ task[w] \in Held
  BY <1>3, <1>4, <1>5, PlacesOf, PlacesOfNext
<1>7. Shape'
  BY <1>1, <1>3, <1>4 DEF PlaceInv, Shape, Places
<1>8. TaskInOnePlace'
  <2>1. \A u, v \in Threads : u # v /\ task'[u] # NoTask => task'[u] # task'[v]
    BY <1>4 DEF PlaceInv, TaskInOnePlace
  <2>2. /\ 1..spawned' = Queued' \cup Held' \cup ended'
        /\ Queued' \cap Held' = {} /\ Queued' \cap ended' = {} /\ Held' \cap ended' = {}
    BY <1>1, <1>2, <1>6 DEF PlaceInv, TaskInOnePlace
  <2>3. QED BY <1>1, <2>1, <2>2 DEF PlaceInv, TaskInOnePlace
<1>9. Started' = Started \ {task[w]} /\ task[w] \in Started
  BY <1>1, <1>4, <1>5, PlacesOf, PlacesOfNext
<1>10. Unstarted' = Unstarted
  <2>1. \A v \in Threads : \A t :
          /\ pc'[v] = "born" <=> pc[v] = "born"
          /\ pc[v] = "born" => task'[v] = task[v]
    BY <1>1, <1>4
  <2>2. \A t : t \in Unstarted' <=> t \in Unstarted
    BY <1>2, <2>1, PlacesOf, PlacesOfNext
  <2>3. QED BY <2>2, Extensional
<1>11. QED BY <1>1, <1>7, <1>8, <1>9, <1>10 DEF PlaceInv, Pool!Leave

LEMMA NewTask ==
  ASSUME PlaceInv, Spawn
  PROVE  /\ spawned + 1 \in Tasks /\ spawned + 1 # NoTask
         /\ spawned + 1 \notin Queued \cup Held \cup ended
         /\ 1..spawned' = (1..spawned) \cup {spawned + 1}
BY SizeAssumption DEF PlaceInv, Shape, TaskInOnePlace, Spawn, Tasks, NoTask

(* A new thread for the task. *)
LEMMA SpawnsThread ==
  ASSUME PlaceInv, Spawn, AddThread(spawned + 1), UNCHANGED todo
  PROVE  PlaceInv' /\ Pool!Submit(spawned + 1)
<1> DEFINE t == spawned + 1
<1>1. PICK w \in Threads : /\ pc[w] = "unborn" /\ pc' = [pc EXCEPT ![w] = "born"]
                           /\ task' = [task EXCEPT ![w] = t]
  BY DEF AddThread, At
<1>2. UNCHANGED <<todo, ended>> /\ spawned' = t /\ t \in Nat
  BY DEF Spawn, PlaceInv, Shape
<1>3. /\ t \in Tasks /\ t # NoTask /\ t \notin Queued \cup Held \cup ended
      /\ 1..spawned' = (1..spawned) \cup {t}
  BY NewTask
<1> HIDE DEF t
<1>4. Queued' = Queued
  BY <1>2 DEF Queued
<1>5. task[w] = NoTask
  BY <1>1 DEF PlaceInv, Shape
<1>6. \A v \in Threads : /\ pc'[v] = IF v = w THEN "born" ELSE pc[v]
                         /\ task'[v] = IF v = w THEN t ELSE task[v]
  BY <1>1 DEF PlaceInv, Shape
<1>7. Held' = Held \cup {t}
  BY <1>3, <1>5, <1>6, PlacesOf, PlacesOfNext
<1>8. Shape'
  BY <1>1, <1>2, <1>3, <1>6 DEF PlaceInv, Shape, Places
<1>9. TaskInOnePlace'
  <2>1. \A u, v \in Threads : u # v /\ task'[u] # NoTask => task'[u] # task'[v]
    BY <1>3, <1>6, PlacesOf DEF PlaceInv, TaskInOnePlace
  <2>2. /\ 1..spawned' = Queued' \cup Held' \cup ended'
        /\ Queued' \cap Held' = {} /\ Queued' \cap ended' = {} /\ Held' \cap ended' = {}
    BY <1>2, <1>3, <1>4, <1>7 DEF PlaceInv, TaskInOnePlace
  <2>3. QED BY <1>2, <2>1, <2>2 DEF PlaceInv, TaskInOnePlace
<1>10. Started' = Started
  BY <1>1, <1>6, PlacesOf, PlacesOfNext
<1>11. Unstarted' = Unstarted \cup {t}
  BY <1>1, <1>3, <1>4, <1>5, <1>6, PlacesOf, PlacesOfNext
<1>12. t \notin Unstarted \cup Started \cup ended
  BY <1>3, PlacesOf DEF PlaceInv, Shape
<1>13. QED BY <1>2, <1>8, <1>9, <1>10, <1>11, <1>12 DEF PlaceInv, Pool!Submit, t

(* The task is queued, and a thread woken for it. *)
LEMMA SpawnsQueued ==
  ASSUME PlaceInv, Spawn, todo' = Append(todo, spawned + 1), NotifyOne, UNCHANGED task
  PROVE  PlaceInv' /\ Pool!Submit(spawned + 1)
<1> DEFINE t == spawned + 1
<1>1. todo' = Append(todo, t) /\ UNCHANGED <<task, ended>> /\ spawned' = t /\ t \in Nat
  BY DEF Spawn, PlaceInv, Shape
<1>2. /\ t \in Tasks /\ t # NoTask /\ t \notin Queued \cup Held \cup ended
      /\ 1..spawned' = (1..spawned) \cup {t}
  BY NewTask
<1> HIDE DEF t
<1>3. todo' \in Seq(Tasks) /\ Queued' = Queued \cup {t} /\ Distinct'
  BY <1>1, <1>2, QueueGrows DEF PlaceInv, Shape, TaskInOnePlace, Distinct
<1>4. /\ pc' \in [Threads -> Places]
      /\ \A w \in Threads : pc'[w] = pc[w] \/ (pc[w] = "asleep" /\ pc'[w] = "awake")
  <2>1. CASE UNCHANGED pc
    BY <2>1 DEF PlaceInv, Shape
  <2>2. CASE \E w \in At({"asleep"}) : pc' = [pc EXCEPT ![w] = "awake"]
    BY <2>2 DEF PlaceInv, Shape, At, Places
  <2>3. QED BY <2>1, <2>2 DEF NotifyOne
<1>5. Held' = Held
  BY <1>1 DEF Held
<1>6. Shape'
  BY <1>1, <1>3, <1>4 DEF PlaceInv, Shape
<1>7. TaskInOnePlace'
  <2>1. /\ 1..spawned' = Queued' \cup Held' \cup ended'
        /\ Queued' \cap Held' = {} /\ Queued' \cap ended' = {} /\ Held' \cap ended' = {}
    BY <1>1, <1>2, <1>3, <1>5 DEF PlaceInv, TaskInOnePlace
  <2>2. QED BY <1>1, <1>3, <2>1 DEF PlaceInv, TaskInOnePlace, Distinct
<1>8. Started' = Started
  <2>1. \A w \in Threads : pc'[w] = "running" <=> pc[w] = "running"
    BY <1>4
  <2>2. \A x : x \in Started' <=> x \in Started
    BY <1>1, <2>1, PlacesOf, PlacesOfNext
  <2>3. QED BY <2>2, Extensional
<1>9. Unstarted' = Unstarted \cup {t}
  BY <1>1, <1>3, <1>4, PlacesOf, PlacesOfNext
<1>10. t \notin Unstarted \cup Started \cup ended
  BY <1>2, PlacesOf DEF PlaceInv, Shape
<1>11. QED BY <1>1, <1>6, <1>7, <1>8, <1>9, <1>10 DEF PlaceInv, Pool!Submit, t

LEMMA Step ==
  ASSUME PlaceInv, [Next]_vars
  PROVE  PlaceInv' /\ [Pool!Next]_Mapped
<1> USE DEF Moves
<1>0. pc \in [Threads -> Places] /\ task \in [Threads -> Tasks \cup {NoTask}]
  BY DEF PlaceInv, Shape
<1>1. ASSUME NEW w \in Threads, Register(w) PROVE PlaceInv' /\ [Pool!Next]_Mapped
  <2>1. CASE task[w] = NoTask
    <3>1. UNCHANGED <<todo, task, spawned, ended>> /\ pc' = [pc EXCEPT ![w] = "locking"]
      BY <1>1, <2>1 DEF Register
    <3>2. PlaceInv' /\ UNCHANGED Mapped
      BY <1>0, <2>1, <3>1, Unmoved DEF Places
    <3>3. QED BY <3>2
  <2>2. CASE task[w] # NoTask
    <3>1. PlaceInv' /\ Pool!Start(task[w]) /\ task[w] \in Tasks
      BY <1>0, <1>1, <2>2, Begins
    <3>2. QED BY <3>1 DEF Pool!Next
  <2>3. QED BY <2>1, <2>2
<1>2. ASSUME NEW w \in Threads, TakeTask(w) PROVE PlaceInv' /\ [Pool!Next]_Mapped
  <2>1. Head(todo) \in Tasks
    BY <1>2 DEF TakeTask, PlaceInv, Shape
  <2>2. QED BY <1>2, <2>1, Takes DEF Pool!Next
<1>3. ASSUME NEW w \in Threads, Finish(w) \/ Panic(w)
      PROVE  PlaceInv' /\ [Pool!Next]_Mapped
  <2>1. PICK to \in {"locking", "exiting"} : EndTask(w, to)
    BY <1>3 DEF Finish, Panic
  <2>2. PlaceInv' /\ Pool!Leave(task[w])
    BY <2>1, Ends
  <2>3. task[w] \in Tasks
    BY <1>0, <2>1 DEF EndTask, PlaceInv, Shape
  <2>4. QED BY <2>2, <2>3 DEF Pool!Next
<1>4. ASSUME NEW w \in Threads,
             GoIdle(w) \/ Sleep(w) \/ Expire(w) \/ Deregister(w) \/ TimerFires(w)
               \/ SpuriousWakeup(w)
      PROVE  PlaceInv' /\ [Pool!Next]_Mapped
  <2>1. PICK to \in {"holding", "asleep", "awake", "exiting", "dead"} :
          /\ pc[w] \notin {"born", "running"} /\ pc' = [pc EXCEPT ![w] = to]
          /\ UNCHANGED <<todo, task, spawned, ended>>
    BY <1>4 DEF GoIdle, Sleep, Expire, Deregister, TimerFires, SpuriousWakeup
  <2>2. task[w] = NoTask
    BY <2>1 DEF PlaceInv, Shape
  <2>3. PlaceInv' /\ UNCHANGED Mapped
    BY <1>0, <2>1, <2>2, Unmoved DEF Places
  <2>4. QED BY <2>3
<1>5. CASE Spawn
  <2>1. CASE AddThread(spawned + 1) /\ UNCHANGED todo
    BY <1>5, <2>1, SpawnsThread, NewTask DEF Pool!Next
  <2>2. CASE todo' = Append(todo, spawned + 1) /\ NotifyOne /\ UNCHANGED task
    BY <1>5, <2>2, SpawnsQueued, NewTask DEF Pool!Next
  <2>3. QED BY <1>5, <2>1, <2>2 DEF Spawn
<1>6. CASE DropStores
  <2>1. PlaceInv' /\ UNCHANGED Mapped
    BY <1>0, <1>6, Unmoved DEF DropStores
  <2>2. QED BY <2>1
<1>7. CASE DropNotifies
  <2>1. \A w \in Threads : pc[w] = "asleep" => task[w] = NoTask
    BY DEF PlaceInv, Shape
  <2>2. PlaceInv' /\ UNCHANGED Mapped
    BY <1>0, <1>7, <2>1, Unmoved DEF DropNotifies, Places
  <2>3. QED BY <2>2
<1>8. CASE UNCHANGED vars
  <2>1. PlaceInv' /\ UNCHANGED Mapped
    BY <1>0, <1>8, Unmoved DEF vars
  <2>2. QED BY <2>1
<1>9. QED
  BY <1>1, <1>2, <1>3, <1>4, <1>5, <1>6, <1>7, <1>8 DEF Next, Work

LEMMA Start == Init => PlaceInv /\ Pool!Init
<1> SUFFICES ASSUME Init PROVE PlaceInv /\ Pool!Init
  OBVIOUS
<1>1. /\ todo = <<>> /\ Len(todo) = 0 /\ spawned = 0 /\ ended = {}
      /\ pc \in [Threads -> {"born", "unborn"}]
      /\ task = [w \in Threads |-> NoTask]
  BY DEF Init
<1>2. Shape
  BY <1>1 DEF Shape, Places
<1>3. Queued = {} /\ Held = {} /\ Started = {} /\ Unstarted = {}
  BY <1>1 DEF Queued, Held, Started, Unstarted, At
<1>4. TaskInOnePlace
  BY <1>1, <1>3 DEF TaskInOnePlace
<1>5. QED BY <1>1, <1>2, <1>3, <1>4 DEF PlaceInv, Pool!Init

(* However many threads, connections, panics, timeouts and wakeups there are, no
   connection handed to spawn is lost, queued twice or run twice. *)
THEOREM OnePlace == Spec => []TaskInOnePlace
<1>1. PlaceInv /\ [Next]_vars => PlaceInv'
  BY Step
<1>2. PlaceInv => TaskInOnePlace
  BY DEF PlaceInv
<1>3. QED BY <1>1, <1>2, Start, PTL DEF Spec

(* The pool is Workers to its caller. *)
THEOREM Refinement == Spec => ImplementsWorkers
<1>1. PlaceInv /\ [Next]_vars => PlaceInv'
  BY Step
<1>2. PlaceInv /\ [Next]_vars => [Pool!Next]_Mapped
  BY Step
<1>3. QED BY <1>1, <1>2, Start, PTL DEF Spec, ImplementsWorkers, Pool!Spec, Mapped
=============================================================================
