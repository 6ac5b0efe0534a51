--------------------------- MODULE VerusServerProofs ---------------------------
(***************************************************************************)
(* Safety of the tool calls for any number of calls, workers and lines in  *)
(* a pipe: what a result says of its child, and which children the server  *)
(* leaves behind.                                                          *)
(***************************************************************************)
EXTENDS VerusServer, TLAPS

(* The variables keep their types; no pipe holds more than its size. *)
THEOREM TypeCorrect == Spec => []TypeOK
<1>1. Init => TypeOK
  BY ServerAssumption DEF Init, TypeOK, ServerAssumption, Pipes, Alive
<1>2. TypeOK /\ [Next]_vars => TypeOK'
  <2> SUFFICES ASSUME TypeOK, [Next]_vars PROVE TypeOK'
    OBVIOUS
  <2> USE DEF TypeOK, Alive, Ends, SpawnChild, Reap
  <2>1. ASSUME NEW c \in Calls, NEW k \in {"verify", "cargo"}, Request(c, k) PROVE TypeOK'
    BY <2>1 DEF Request
  <2>2. ASSUME NEW c \in Calls, Task(c) PROVE TypeOK'
    <3>1. CASE Verify(c)
      BY <3>1 DEF Verify
    <3>2. CASE ReadLine(c)
      <4>1. /\ pipe[c]["out"] - 1 \in 0..PipeSize
            /\ pipe' = [pipe EXCEPT ![c]["out"] = @ - 1]
        BY <3>2, ServerAssumption DEF ReadLine, TakeLine, Pipes, ServerAssumption
      <4>2. QED BY <3>2, <4>1 DEF ReadLine
    <3>3. CASE BadLine(c)
      BY <3>3 DEF BadLine
    <3>4. CASE Verified(c)
      BY <3>4 DEF Verified
    <3>5. CASE RunCargoCommand(c)
      BY <3>5 DEF RunCargoCommand
    <3>6. CASE Answered(c)
      BY <3>6 DEF Answered
    <3>7. QED BY <2>2, <3>1, <3>2, <3>3, <3>4, <3>5, <3>6 DEF Task
  <2>3. ASSUME NEW c \in Calls, Closure(c) PROVE TypeOK'
    <3>1. CASE OutputBegins(c)
      BY <3>1 DEF OutputBegins
    <3>2. CASE DropClosure(c)
      BY <3>2 DEF DropClosure
    <3>3. CASE OutputEnds(c)
      BY <3>3 DEF OutputEnds
    <3>4. ASSUME NEW p \in Pipes, OutputReads(c, p) PROVE TypeOK'
      <4>1. /\ pipe[c][p] - 1 \in 0..PipeSize
            /\ pipe' = [pipe EXCEPT ![c][p] = @ - 1]
        BY <3>4, ServerAssumption DEF OutputReads, TakeLine, ServerAssumption
      <4>2. QED BY <3>4, <4>1 DEF OutputReads
    <3>5. QED BY <2>3, <3>1, <3>2, <3>3, <3>4 DEF Closure
  <2>4. ASSUME NEW c \in Calls, TimerFires(c) PROVE TypeOK'
    BY <2>4 DEF TimerFires
  <2>5. ASSUME NEW c \in Calls, Live(c) PROVE TypeOK'
    <3>1. CASE Exit(c)
      BY <3>1 DEF Exit
    <3>2. CASE Unblock(c)
      <4>1. child[c] \in Pipes /\ pipe[c][child[c]] \in 0..PipeSize
        BY <3>2 DEF Unblock
      <4>2. pipe' \in [Calls -> [Pipes -> 0..PipeSize]]
        <5>1. CASE pipe' = pipe
          BY <5>1
        <5>2. CASE pipe' # pipe
          <6>1. /\ pipe[c][child[c]] + 1 \in 0..PipeSize
                /\ pipe' = [pipe EXCEPT ![c][child[c]] = @ + 1]
            BY <3>2, <4>1, <5>2, ServerAssumption DEF Unblock, ServerAssumption
          <6>2. QED BY <4>1, <6>1
        <5>3. QED BY <5>1, <5>2
      <4>3. child' \in [Calls -> {"none", "exited", "reaped"} \cup Alive]
        BY <3>2 DEF Unblock
      <4>4. QED BY <3>2, <4>2, <4>3 DEF Unblock
    <3>3. QED BY <2>5, <3>1, <3>2 DEF Live
  <2>6. ASSUME NEW c \in Calls, Kill(c) PROVE TypeOK'
    BY <2>6 DEF Kill
  <2>7. ASSUME NEW c \in Calls, NEW p \in Pipes, Write(c, p) PROVE TypeOK'
    <3>1. pipe' \in [Calls -> [Pipes -> 0..PipeSize]]
      <4>1. CASE pipe' = pipe
        BY <4>1
      <4>2. CASE pipe' # pipe
        <5>1. /\ pipe[c][p] + 1 \in 0..PipeSize
              /\ pipe' = [pipe EXCEPT ![c][p] = @ + 1]
          BY <2>7, <4>2, ServerAssumption DEF Write, ServerAssumption
        <5>2. QED BY <5>1
      <4>3. QED BY <4>1, <4>2
    <3>2. child' \in [Calls -> {"none", "exited", "reaped"} \cup Alive]
      BY <2>7 DEF Write
    <3>3. QED BY <2>7, <3>1, <3>2 DEF Write
  <2>8. CASE Close
    BY <2>8 DEF Close
  <2>9. CASE Stop
    BY <2>9 DEF Stop
  <2>10. CASE UNCHANGED vars
    BY <2>10 DEF vars
  <2>11. QED
    BY <2>1, <2>2, <2>3, <2>4, <2>5, <2>6, <2>7, <2>8, <2>9, <2>10 DEF Next
<1>3. QED BY <1>1, <1>2, PTL DEF Spec
-----------------------------------------------------------------------------
(* What a verify call, a cargo call and one that was not made yet know of their
   child. The closure of a cargo call goes on without the call: its state, not
   that of the task, tells where the child is. *)
VerifyInv(c) ==
  /\ blocking[c] = "none" /\ phase[c] \notin {"idle", "awaiting"}
  /\ phase[c] \in {"ready", "dropped"} => child[c] = "none"
  /\ phase[c] = "reading" => child[c] \in Alive \cup {"exited"}
  /\ phase[c] = "ok" => child[c] = "reaped" /\ pipe[c]["out"] = 0

CargoInv(c) ==
  /\ phase[c] \notin {"idle", "reading"}
  /\ phase[c] = "ready" => blocking[c] = "none"
  /\ phase[c] = "ok" => blocking[c] = "done"
  /\ blocking[c] \in {"none", "queued", "failed"} => child[c] = "none"
  /\ blocking[c] = "running" => child[c] \in Alive \cup {"exited"}
  /\ blocking[c] = "done" => child[c] = "reaped" /\ \A p \in Pipes : pipe[c][p] = 0

CallInv(c) ==
  /\ kind[c] = "none" => phase[c] = "idle" /\ blocking[c] = "none" /\ child[c] = "none"
  /\ kind[c] = "verify" => VerifyInv(c)
  /\ kind[c] = "cargo" => CargoInv(c)

(* A server that has ended has no thread left. *)
DownInv ==
  server = "down" =>
    \A c \in Calls : phase[c] # "reading" /\ blocking[c] \notin {"queued", "running"}

VerusInv == TypeOK /\ (\A c \in Calls : CallInv(c)) /\ DownInv

(* A step of one call keeps what is known of every call. *)
LEMMA CallKept ==
  ASSUME VerusInv, [Next]_vars, NEW d \in Calls
  PROVE  CallInv(d)'
<1> USE DEF VerusInv, TypeOK, Alive, Pipes, CallInv, VerifyInv, CargoInv, Ends, SpawnChild, Reap
<1>1. ASSUME NEW c \in Calls, NEW k \in {"verify", "cargo"}, Request(c, k) PROVE CallInv(d)'
  BY <1>1 DEF Request
<1>2. ASSUME NEW c \in Calls, Task(c) PROVE CallInv(d)'
  <2>1. CASE Verify(c)
    BY <2>1 DEF Verify
  <2>2. CASE ReadLine(c)
    BY <2>2 DEF ReadLine, TakeLine
  <2>3. CASE BadLine(c)
    BY <2>3 DEF BadLine
  <2>4. CASE Verified(c)
    BY <2>4 DEF Verified
  <2>5. CASE RunCargoCommand(c)
    BY <2>5 DEF RunCargoCommand
  <2>6. CASE Answered(c)
    BY <2>6 DEF Answered
  <2>7. QED BY <1>2, <2>1, <2>2, <2>3, <2>4, <2>5, <2>6 DEF Task
<1>3. ASSUME NEW c \in Calls, Closure(c) PROVE CallInv(d)'
  <2>1. CASE OutputBegins(c)
    BY <2>1 DEF OutputBegins
  <2>2. CASE DropClosure(c)
    BY <2>2 DEF DropClosure
  <2>3. CASE OutputEnds(c)
    BY <2>3 DEF OutputEnds
  <2>4. ASSUME NEW p \in Pipes, OutputReads(c, p) PROVE CallInv(d)'
    BY <2>4 DEF OutputReads, TakeLine
  <2>5. QED BY <1>3, <2>1, <2>2, <2>3, <2>4 DEF Closure
<1>4. ASSUME NEW c \in Calls, TimerFires(c) PROVE CallInv(d)'
  BY <1>4 DEF TimerFires
<1>5. ASSUME NEW c \in Calls, Live(c) PROVE CallInv(d)'
  BY <1>5 DEF Live, Exit, Unblock
<1>6. ASSUME NEW c \in Calls, Kill(c) PROVE CallInv(d)'
  BY <1>6 DEF Kill
<1>7. ASSUME NEW c \in Calls, NEW p \in Pipes, Write(c, p) PROVE CallInv(d)'
  BY <1>7 DEF Write, HasReadEnds
<1>8. CASE Close
  BY <1>8 DEF Close
<1>9. CASE Stop
  BY <1>9 DEF Stop
<1>10. CASE UNCHANGED vars
  BY <1>10 DEF vars
<1>11. QED
  BY <1>1, <1>2, <1>3, <1>4, <1>5, <1>6, <1>7, <1>8, <1>9, <1>10 DEF Next

(* A thread is started only while the server is up. *)
LEMMA DownKept ==
  ASSUME VerusInv, [Next]_vars
  PROVE  DownInv'
<1> USE DEF VerusInv, TypeOK, DownInv, Ends, FreeWorker
<1>1. ASSUME NEW c \in Calls, NEW k \in {"verify", "cargo"}, Request(c, k) PROVE DownInv'
  BY <1>1 DEF Request
<1>2. ASSUME NEW c \in Calls, Task(c) PROVE DownInv'
  BY <1>2 DEF Task, Verify, ReadLine, BadLine, Verified, RunCargoCommand, Answered
<1>3. ASSUME NEW c \in Calls, Closure(c) PROVE DownInv'
  BY <1>3 DEF Closure, OutputBegins, DropClosure, OutputEnds, OutputReads
<1>4. ASSUME NEW c \in Calls, \/ TimerFires(c) \/ Live(c) \/ Kill(c)
                              \/ \E p \in Pipes : Write(c, p)
      PROVE  DownInv'
  BY <1>4 DEF TimerFires, Live, Exit, Unblock, Kill, Write
<1>5. CASE Close
  BY <1>5 DEF Close
<1>6. CASE Stop
  BY <1>6 DEF Stop, Busy
<1>7. CASE UNCHANGED vars
  BY <1>7 DEF vars
<1>8. QED BY <1>1, <1>2, <1>3, <1>4, <1>5, <1>6, <1>7 DEF Next

(* VerusInv holds in every reachable state. *)
THEOREM Invariant == Spec => []VerusInv
<1>1. Init => \A c \in Calls : CallInv(c)
  BY DEF Init, CallInv
<1>2. Init => DownInv
  BY DEF Init, DownInv
<1>3. TypeOK /\ TypeOK' /\ (\A c \in Calls : CallInv(c)) /\ DownInv /\ [Next]_vars
        => (\A c \in Calls : CallInv(c))' /\ DownInv'
  <2> SUFFICES ASSUME VerusInv, [Next]_vars
               PROVE  (\A c \in Calls : CallInv(c))' /\ DownInv'
    BY DEF VerusInv
  <2>1. \A c \in Calls : CallInv(c)'
    BY CallKept
  <2>2. QED BY <2>1, DownKept
<1> DEFINE J == (\A c \in Calls : CallInv(c)) /\ DownInv
<1>4. TypeOK /\ J => VerusInv
  BY DEF VerusInv
<1>5. Init => J
  BY <1>1, <1>2
<1>6. TypeOK /\ TypeOK' /\ J /\ [Next]_vars => J'
  BY <1>3
<1> HIDE DEF J
<1>7. QED BY <1>4, <1>5, <1>6, TypeCorrect, PTL DEF Spec

(* A call answered with a result reports a child that was reaped and all that
   the child wrote: the loop of verify ends at the end of stdout, and
   Command::output reads both pipes to their end before it waits. *)
THEOREM ResultsComplete == Spec => []ResultComplete
<1>1. VerusInv => ResultComplete
  BY DEF VerusInv, TypeOK, CallInv, VerifyInv, CargoInv, ResultComplete, Pipes
<1>2. QED BY <1>1, Invariant, PTL

(* A server that has ended leaves no child running but one of verify whose
   output had a line that is not UTF-8, also not the child of a call that timed
   out: main returns only after the threads that read the children. *)
THEOREM NoOrphans == Spec => []NoOrphan
<1>1. VerusInv => NoOrphan
  BY DEF VerusInv, TypeOK, CallInv, VerifyInv, CargoInv, DownInv, NoOrphan, Alive, Pipes
<1>2. QED BY <1>1, Invariant, PTL
=============================================================================
