------------------------------ MODULE VerusServer ------------------------------
(***************************************************************************)
(* The MCP server (src/verus.rs, src/main.rs): tool calls that each run a  *)
(* child process. verus_verify, verus_check_syntax and                     *)
(* verus_get_diagnostics run cargo-verus on the worker thread of the async *)
(* runtime that polls them, and read its stdout to the end without ever    *)
(* awaiting; stderr is a pipe that nobody reads. cargo_build and cargo_test*)
(* run Command::output on a thread for blocking tasks and await it with a  *)
(* timeout.                                                                *)
(*                                                                         *)
(* External: tokio (worker threads, spawn_blocking, timeout, what dropping *)
(* the runtime waits for), rmcp (a task per call), child processes and     *)
(* pipes.                                                                  *)
(***************************************************************************)
EXTENDS Naturals, FiniteSets

CONSTANTS
  Calls,          (* bound: the tool calls of a client                       *)
  WorkerThreads,  (* the workers of the runtime, one for each processor      *)
  PipeSize        (* how many lines fit into a pipe                          *)

ASSUME ServerAssumption ==
  /\ IsFiniteSet(Calls) /\ WorkerThreads \in Nat \ {0} /\ PipeSize \in Nat \ {0}

VARIABLES
  server,       (* "up", "closing" once the client has gone, "down"          *)
  kind,         (* the tool that was called                                  *)
  phase,        (* where the task of a call is                               *)
  blocking,     (* the closure given to spawn_blocking                       *)
  expired,      (* calls whose timeout has passed                            *)
  child,        (* the child process of a call; "out" and "err" when it waits
                   for room in that pipe                                     *)
  pipe          (* the lines in its pipes                                    *)

vars == <<server, kind, phase, blocking, expired, child, pipe>>

Pipes == {"out", "err"}
Alive == {"running"} \cup Pipes

TypeOK ==
  /\ server \in {"up", "closing", "down"}
  /\ kind \in [Calls -> {"none", "verify", "cargo"}]
  /\ phase \in [Calls -> {"idle", "ready", "reading", "awaiting", "ok", "err", "dropped"}]
  /\ blocking \in [Calls -> {"none", "queued", "running", "done", "failed"}]
  /\ expired \subseteq Calls
  /\ child \in [Calls -> {"none", "exited", "reaped"} \cup Alive]
  /\ pipe \in [Calls -> [Pipes -> 0..PipeSize]]

Init ==
  /\ server = "up"
  /\ kind = [c \in Calls |-> "none"] /\ phase = [c \in Calls |-> "idle"]
  /\ blocking = [c \in Calls |-> "none"] /\ expired = {}
  /\ child = [c \in Calls |-> "none"]
  /\ pipe = [c \in Calls |-> [p \in Pipes |-> 0]]

(* The calls that occupy a worker, and whether another task can be polled. *)
Busy == {c \in Calls : phase[c] = "reading"}
FreeWorker == server = "up" /\ Cardinality(Busy) < WorkerThreads

(* Mutant: the pipes are read once the child has been waited for. *)
ReadAfterExit(c) ==
  IF child[c] = "exited" /\ (blocking[c] = "running" \/ phase[c] = "reading")
  THEN Pipes ELSE {}

(* Which pipes of a call are read, and whether their read ends still exist. *)
ReadBy(c) ==
  IF blocking[c] = "running" THEN Pipes
  ELSE IF phase[c] = "reading" THEN {"out"} ELSE {}
HasReadEnds(c) == blocking[c] = "running" \/ phase[c] = "reading"

Ends(c, answer) == phase' = [phase EXCEPT ![c] = answer]

(* Command::spawn. *)
SpawnChild(c) == child' = [child EXCEPT ![c] = "running"]

TakeLineBlindly(c, p) == pipe' = [pipe EXCEPT ![c][p] = @ - 1] \* mutant

TakeLine(c, p) ==
  /\ pipe[c][p] > 0
  /\ pipe' = [pipe EXCEPT ![c][p] = @ - 1]
-----------------------------------------------------------------------------
(* The service loop reads a request and spawns a task for it. *)
Request(c, k) ==
  /\ FreeWorker /\ phase[c] = "idle"
  /\ Ends(c, "ready")
  /\ kind' = [kind EXCEPT ![c] = k]
  /\ UNCHANGED <<server, blocking, expired, child, pipe>>

(* verify: the binary is not found or not started, or it runs. *)
Verify(c) ==
  /\ FreeWorker /\ phase[c] = "ready" /\ kind[c] = "verify"
  /\ \/ Ends(c, "err") /\ UNCHANGED child
     \/ Ends(c, "reading") /\ SpawnChild(c)
  /\ UNCHANGED <<server, kind, blocking, expired, pipe>>

ReadLine(c) ==
  /\ phase[c] = "reading" /\ "out" \in ReadBy(c) /\ TakeLine(c, "out")
  /\ UNCHANGED <<server, kind, phase, blocking, expired, child>>

(* `line?`: what was read is not UTF-8. The read ends are closed; the child
   is neither killed nor waited for. *)
BadLine(c) ==
  /\ phase[c] = "reading" /\ "out" \in ReadBy(c) /\ pipe[c]["out"] > 0
  /\ Ends(c, "err")
  /\ UNCHANGED <<server, kind, blocking, expired, child, pipe>>

Reap(c) ==
  /\ child[c] = "exited"
  /\ child' = [child EXCEPT ![c] = "reaped"]

(* Mutant: the loop over the lines stops with the child. *)
VerifiedEarly(c) ==
  /\ phase[c] = "reading" /\ Reap(c)
  /\ Ends(c, "ok")
  /\ UNCHANGED <<server, kind, blocking, expired, pipe>>
(* End of file on stdout, then child.wait(). *)
Verified(c) ==
  /\ phase[c] = "reading" /\ pipe[c]["out"] = 0 /\ Reap(c)
  /\ Ends(c, "ok")
  /\ UNCHANGED <<server, kind, blocking, expired, pipe>>
-----------------------------------------------------------------------------
(* run_cargo_command: the arguments are refused, or the command is given to
   the blocking pool and awaited. *)
RunCargoCommand(c) ==
  /\ FreeWorker /\ phase[c] = "ready" /\ kind[c] = "cargo"
  /\ \/ Ends(c, "err") /\ UNCHANGED blocking
     \/ Ends(c, "awaiting") /\ blocking' = [blocking EXCEPT ![c] = "queued"]
  /\ UNCHANGED <<server, kind, expired, child, pipe>>

(* A thread of the pool takes the closure; a pool that shuts down drops it. *)
OutputBegins(c) ==
  /\ blocking[c] = "queued" /\ server = "up"
  /\ \/ blocking' = [blocking EXCEPT ![c] = "running"] /\ SpawnChild(c)
     \/ blocking' = [blocking EXCEPT ![c] = "failed"] /\ UNCHANGED child
  /\ UNCHANGED <<server, kind, phase, expired, pipe>>

DropClosure(c) ==
  /\ blocking[c] = "queued" /\ server # "up"
  /\ blocking' = [blocking EXCEPT ![c] = "none"]
  /\ UNCHANGED <<server, kind, phase, expired, child, pipe>>

OutputReads(c, p) ==
  /\ blocking[c] = "running" /\ p \in ReadBy(c) /\ TakeLine(c, p)
  /\ UNCHANGED <<server, kind, phase, blocking, expired, child>>

(* Mutant: a call that timed out abandons its command. *)
OutputEndsAwaited(c) ==
  /\ phase[c] = "awaiting"
  /\ blocking[c] = "running" /\ \A p \in Pipes : pipe[c][p] = 0
  /\ Reap(c)
  /\ blocking' = [blocking EXCEPT ![c] = "done"]
  /\ UNCHANGED <<server, kind, phase, expired, pipe>>

OutputEnds(c) ==
  /\ blocking[c] = "running" /\ \A p \in Pipes : pipe[c][p] = 0
  /\ Reap(c)
  /\ blocking' = [blocking EXCEPT ![c] = "done"]
  /\ UNCHANGED <<server, kind, phase, expired, pipe>>

TimerFires(c) ==
  /\ phase[c] = "awaiting" /\ server = "up"
  /\ expired' = expired \cup {c}
  /\ UNCHANGED <<server, kind, phase, blocking, child, pipe>>

(* Mutant: the timeout is only looked at when there is an output. *)
AnsweredLate(c) ==
  /\ FreeWorker /\ phase[c] = "awaiting" /\ blocking[c] \in {"done", "failed"}
  /\ Ends(c, IF c \in expired \/ blocking[c] = "failed" THEN "err" ELSE "ok")
  /\ UNCHANGED <<server, kind, blocking, expired, child, pipe>>

(* The task is polled again: the output is looked at before the timeout. *)
Answered(c) ==
  /\ FreeWorker /\ phase[c] = "awaiting"
  /\ \/ blocking[c] = "done" /\ Ends(c, "ok")
     \/ blocking[c] = "failed" /\ Ends(c, "err")
     \/ blocking[c] \in {"queued", "running"} /\ c \in expired /\ Ends(c, "err")
  /\ UNCHANGED <<server, kind, blocking, expired, child, pipe>>
-----------------------------------------------------------------------------
(* The child begins to write a line; a full pipe blocks it, and a pipe without
   a read end ends it. *)
Write(c, p) ==
  /\ child[c] = "running"
  /\ \/ /\ HasReadEnds(c) /\ pipe[c][p] < PipeSize
        /\ pipe' = [pipe EXCEPT ![c][p] = @ + 1]
        /\ UNCHANGED child
     \/ /\ HasReadEnds(c) /\ pipe[c][p] = PipeSize
        /\ child' = [child EXCEPT ![c] = p]
        /\ UNCHANGED pipe
     \/ /\ ~HasReadEnds(c)
        /\ child' = [child EXCEPT ![c] = "exited"]
        /\ UNCHANGED pipe
  /\ UNCHANGED <<server, kind, phase, blocking, expired>>

(* There is room again, or nobody left to read. *)
Unblock(c) ==
  /\ child[c] \in Pipes
  /\ \/ /\ HasReadEnds(c) /\ pipe[c][child[c]] < PipeSize
        /\ pipe' = [pipe EXCEPT ![c][child[c]] = @ + 1]
        /\ child' = [child EXCEPT ![c] = "running"]
     \/ /\ ~HasReadEnds(c)
        /\ child' = [child EXCEPT ![c] = "exited"]
        /\ UNCHANGED pipe
  /\ UNCHANGED <<server, kind, phase, blocking, expired>>

(* It ends with some exit code, or is killed from outside. *)
Exit(c) ==
  /\ child[c] = "running"
  /\ child' = [child EXCEPT ![c] = "exited"]
  /\ UNCHANGED <<server, kind, phase, blocking, expired, pipe>>

Kill(c) ==
  /\ child[c] \in Pipes
  /\ child' = [child EXCEPT ![c] = "exited"]
  /\ UNCHANGED <<server, kind, phase, blocking, expired, pipe>>
-----------------------------------------------------------------------------
(* The client closes its end: peer.waiting() returns, main returns, and the
   runtime is dropped with the tasks that no worker is running. *)
Close ==
  /\ server = "up"
  /\ server' = "closing"
  /\ phase' = [c \in Calls |-> IF phase[c] \in {"ready", "awaiting"} THEN "dropped" ELSE phase[c]]
  /\ UNCHANGED <<kind, blocking, expired, child, pipe>>

(* Mutant: the process ends with threads that still run. *)
StopAtOnce ==
  /\ server = "closing"
  /\ server' = "down"
  /\ UNCHANGED <<kind, phase, blocking, expired, child, pipe>>

(* Dropping the runtime waits for its workers and its blocking threads. *)
Stop ==
  /\ server = "closing" /\ Busy = {}
  /\ \A c \in Calls : blocking[c] \notin {"queued", "running"}
  /\ server' = "down"
  /\ UNCHANGED <<kind, phase, blocking, expired, child, pipe>>
-----------------------------------------------------------------------------
(* The task of a call on a worker, and its closure on a blocking thread. *)
Task(c) ==
  \/ Verify(c) \/ ReadLine(c) \/ BadLine(c) \/ Verified(c)
  \/ RunCargoCommand(c) \/ Answered(c)

Closure(c) ==
  \/ OutputBegins(c) \/ DropClosure(c) \/ OutputEnds(c)
  \/ \E p \in Pipes : OutputReads(c, p)

(* What a child does besides writing. *)
Live(c) == Exit(c) \/ Unblock(c)

Next ==
  \/ \E c \in Calls :
       \/ \E k \in {"verify", "cargo"} : Request(c, k)
       \/ Task(c) \/ Closure(c) \/ TimerFires(c) \/ Live(c) \/ Kill(c)
       \/ \E p \in Pipes : Write(c, p)
  \/ Close \/ Stop

Spec == Init /\ [][Next]_vars

(* The threads of the server run, a worker that is free in the end polls every
   task that is ready, and timers fire. Nothing is assumed of the children. *)
FairSpec ==
  /\ Spec
  /\ WF_vars(Stop)
  /\ \A c \in Calls : SF_vars(Task(c)) /\ WF_vars(Closure(c)) /\ WF_vars(TimerFires(c) /\ c \notin expired)

(* Children go on and end, as long as their output is read. *)
LiveChildSpec == FairSpec /\ \A c \in Calls : SF_vars(Live(c))
-----------------------------------------------------------------------------
(* A call that is answered with a result reports the exit of its child and all
   that the child wrote, stdout in verify and both pipes with cargo; the child
   is reaped. *)
ResultComplete ==
  \A c \in Calls : phase[c] = "ok" =>
    /\ child[c] = "reaped" /\ pipe[c]["out"] = 0
    /\ kind[c] = "cargo" => pipe[c]["err"] = 0

(* The server leaves no child behind that is still running, also none whose
   call timed out, unless a line of its output was not UTF-8. *)
NoOrphan ==
  server = "down" =>
    \A c \in Calls : child[c] \in Alive => kind[c] = "verify" /\ phase[c] = "err"

(* A verify call that holds its worker for ever does so because its child runs
   for ever, or is stuck at the stderr pipe, which nobody reads: never because
   of its stdout, nor of a child that has ended. (Writing goes on where there
   is room.) *)
WorkerComesFree ==
  \A c \in Calls :
    WF_vars(Unblock(c)) /\ <>[](phase[c] = "reading") =>
      []<>(child[c] = "running") \/ <>[](child[c] = "err")

(* As long as workers become free, a cargo call is answered, whatever its
   child does: that is what the timeout is for. *)
CargoAnsweredIfServed ==
  ([]<>FreeWorker) =>
    \A c \in Calls : (kind[c] = "cargo") ~> (phase[c] \in {"ok", "err", "dropped"})

(* The timeout of run_cargo_command (verus.rs:252) holds by itself. *)
CargoAnswered ==
  \A c \in Calls : (kind[c] = "cargo") ~> (phase[c] \in {"ok", "err", "dropped"})

(* A child that has ended is reaped, also when its call timed out before, or
   when the client has gone; only a line that is not UTF-8 leaves a zombie. *)
ExitedChildReaped ==
  \A c \in Calls : (child[c] = "exited") ~>
    (child[c] = "reaped" \/ (kind[c] = "verify" /\ phase[c] = "err"))

(* Once the client has gone and no child runs, the server ends. *)
ServerStops ==
  (server = "closing" /\ \A c \in Calls : child[c] \notin Alive) ~> (server = "down")
=============================================================================
