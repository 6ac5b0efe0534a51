---------------------------- MODULE MessagesQueue ----------------------------
(***************************************************************************)
(* The queue between the connection threads and the threads that call      *)
(* Server::recv, try_recv and recv_timeout                                 *)
(* (tiny-http/src/util/messages_queue.rs).                                 *)
(*                                                                         *)
(* Every access to the deque is made under one mutex, so the code between  *)
(* two releases of the mutex is one action: a consumer either leaves with  *)
(* a result or goes to sleep on the condition variable, and a consumer     *)
(* that was woken must take the mutex again before it sees the queue.      *)
(***************************************************************************)
EXTENDS Naturals, Sequences, FiniteSets

CONSTANTS
  Consumers,    (* threads that receive                                      *)
  Values,       (* messages: requests and accept errors                      *)
  Unblock,      (* Control::Unblock, the token that unblock() queues         *)
  None,         (* Option::None, what a receive returns without a message    *)
  Calls,        (* the receive operations the consumers use                  *)
  Timeout,      (* pop_timeout's argument, in ticks; one tick stands for the *)
                (* 1 ms below which the code treats the rest as nothing      *)
  MaxSent       (* bound: the number of push and unblock calls               *)

ASSUME CallsAssumption   == Calls \subseteq {"pop", "try_pop", "pop_timeout"}
ASSUME TokensAssumption  == Unblock \notin Values /\ None \notin Values
ASSUME TimeoutAssumption == Timeout \in Nat \ {0} /\ MaxSent \in Nat
ASSUME ConsumersAssumption == IsFiniteSet(Consumers)

VARIABLES
  queue,        (* the VecDeque<Control<T>>                                  *)
  op,           (* the receive each consumer is inside of, or "none"         *)
  sleeping,     (* consumers asleep on the condition variable                *)
  timedOut,     (* consumers whose last sleep ended by its timer             *)
  duration,     (* pop_timeout's local: what is left of the timeout          *)
  slept,        (* ticks since the current wait_timeout began                *)
  result,       (* what the consumer's last finished receive returned        *)
  sent, taken,  (* history: all tokens ever queued, and how many left        *)
  stranded      (* history: queued tokens whose wakeup was used up by a      *)
                (* pop_timeout that gave up beside them                      *)

vars  == <<queue, op, sleeping, timedOut, duration, slept, result, sent, taken,
           stranded>>
clock == <<timedOut, duration, slept>>

Control == Values \cup {Unblock}

(* Consumers that were woken and are about to take the mutex again. *)
Awake == {c \in Consumers : op[c] # "none" /\ c \notin sleeping}

Lesser(m, n) == IF m <= n THEN m ELSE n

TypeOK ==
  /\ queue \in Seq(Control)
  /\ op \in [Consumers -> (Calls \ {"try_pop"}) \cup {"none"}]
  /\ sleeping \subseteq {c \in Consumers : op[c] # "none"}
  /\ timedOut \subseteq Consumers
  /\ duration \in [Consumers -> 0..Timeout]
  /\ slept \in [Consumers -> 0..Timeout]
  /\ result \in [Consumers -> Values \cup {None}]
  /\ sent \in Seq(Control)
  /\ taken \in Nat
  /\ stranded \in 0..Len(queue)

Init ==
  /\ queue = <<>>
  /\ op = [c \in Consumers |-> "none"]
  /\ sleeping = {}
  /\ timedOut = {}
  /\ duration = [c \in Consumers |-> 0]
  /\ slept = [c \in Consumers |-> 0]
  /\ result = [c \in Consumers |-> None]
  /\ sent = <<>>
  /\ taken = 0
  /\ stranded = 0
-----------------------------------------------------------------------------
(* Condvar::notify_one wakes some sleeper, if there is one. *)
NotifyOne ==
  \/ sleeping = {} /\ UNCHANGED sleeping
  \/ \E c \in sleeping : sleeping' = sleeping \ {c}

(* Mutant: the notification is forgotten. *)
EnqueueSilently(token) ==
  /\ Len(sent) < MaxSent
  /\ queue' = Append(queue, token)
  /\ sent' = Append(sent, token)
  /\ UNCHANGED <<sleeping, op, clock, result, taken, stranded>>

Enqueue(token) ==
  /\ Len(sent) < MaxSent
  /\ queue' = Append(queue, token)
  /\ sent' = Append(sent, token)
  /\ NotifyOne
  /\ UNCHANGED <<op, clock, result, taken, stranded>>

Push(v) == Enqueue(v)

UnblockOne == Enqueue(Unblock)

(* Mutants: the match does not tell the token from a message; pop_back; a look
   at the head that leaves it in the queue. *)
Leave(c, value) ==
  /\ result' = [result EXCEPT ![c] = value]
  /\ op' = [op EXCEPT ![c] = "none"]
  /\ UNCHANGED <<sleeping, sent>>

PopFrontRaw(c) ==
  /\ queue # <<>> /\ Leave(c, Head(queue))
  /\ queue' = Tail(queue) /\ taken' = taken + 1
  /\ stranded' = Lesser(stranded, Len(queue) - 1)

PopBack(c) ==
  /\ queue # <<>>
  /\ LET last == queue[Len(queue)] IN Leave(c, IF last = Unblock THEN None ELSE last)
  /\ queue' = SubSeq(queue, 1, Len(queue) - 1) /\ taken' = taken + 1
  /\ stranded' = Lesser(stranded, Len(queue) - 1)

PeekFront(c) ==
  /\ queue # <<>>
  /\ Leave(c, IF Head(queue) = Unblock THEN None ELSE Head(queue))
  /\ UNCHANGED <<queue, taken, stranded>>

(* The match on queue.pop_front(): the call leaves with the head. *)
PopFront(c) ==
  /\ queue # <<>>
  /\ result' = [result EXCEPT ![c] = IF Head(queue) = Unblock THEN None ELSE Head(queue)]
  /\ queue' = Tail(queue)
  /\ taken' = taken + 1
  /\ stranded' = Lesser(stranded, Len(queue) - 1)
  /\ op' = [op EXCEPT ![c] = "none"]
  /\ UNCHANGED <<sleeping, sent>>

(* The queue is empty: release the mutex and sleep, in one step. *)
WaitIn(c, call) ==
  /\ queue = <<>>
  /\ op' = [op EXCEPT ![c] = call]
  /\ sleeping' = sleeping \cup {c}
  /\ UNCHANGED <<queue, result, sent, taken, stranded>>

(* The call leaves with nothing and does not look at the queue. If there is a
   token, the wakeup that came for it is gone. *)
GiveUp(c) ==
  /\ result' = [result EXCEPT ![c] = None]
  /\ op' = [op EXCEPT ![c] = "none"]
  /\ stranded' = Lesser(stranded + 1, Len(queue))
  /\ UNCHANGED <<queue, sleeping, sent, taken>>
-----------------------------------------------------------------------------
TryPop(c) ==
  /\ "try_pop" \in Calls /\ op[c] = "none"
  /\ PopFront(c) \/ (queue = <<>> /\ GiveUp(c))
  /\ UNCHANGED clock

Pop(c) ==
  /\ "pop" \in Calls /\ op[c] = "none"
  /\ PopFront(c) \/ WaitIn(c, "pop")
  /\ UNCHANGED clock

(* Condvar::wait returned: the loop starts over. *)
PopWakes(c) ==
  /\ op[c] = "pop" /\ c \notin sleeping
  /\ PopFront(c) \/ WaitIn(c, "pop")
  /\ UNCHANGED clock

(* Nothing of a finished call is kept: its locals are back at 0. *)
ResetClock(c) ==
  /\ timedOut' = timedOut \ {c}
  /\ duration' = [duration EXCEPT ![c] = 0]
  /\ slept' = [slept EXCEPT ![c] = 0]

StartWait(c, left) ==
  /\ timedOut' = timedOut \ {c}
  /\ duration' = [duration EXCEPT ![c] = left]
  /\ slept' = [slept EXCEPT ![c] = 0]

PopTimeout(c) ==
  /\ "pop_timeout" \in Calls /\ op[c] = "none"
  /\ \/ PopFront(c) /\ ResetClock(c)
     \/ WaitIn(c, "pop_timeout") /\ StartWait(c, Timeout)

(* Mutant: the difference without the comparison. *)
RemainingUnchecked(c) == duration[c] - slept[c]

Remaining(c) == IF duration[c] > slept[c] THEN duration[c] - slept[c] ELSE 0

(* Mutant: only the timer ends the loop. *)
PopTimeoutWakesOn(c) ==
  /\ op[c] = "pop_timeout" /\ c \notin sleeping
  /\ \/ c \in timedOut /\ GiveUp(c) /\ ResetClock(c)
     \/ /\ c \notin timedOut
        /\ \/ PopFront(c) /\ ResetClock(c)
           \/ WaitIn(c, "pop_timeout") /\ StartWait(c, Remaining(c))

(* Condvar::wait_timeout returned. *)
PopTimeoutWakes(c) ==
  /\ op[c] = "pop_timeout" /\ c \notin sleeping
  /\ \/ /\ c \in timedOut \/ Remaining(c) = 0
        /\ GiveUp(c) /\ ResetClock(c)
     \/ /\ c \notin timedOut /\ Remaining(c) # 0
        /\ \/ PopFront(c) /\ ResetClock(c)
           \/ WaitIn(c, "pop_timeout") /\ StartWait(c, Remaining(c))

(* How long one wait_timeout may sleep: the code passes it the whole timeout
   every time, and not what is left of it. *)
SleepLimit(c) == Timeout

TimerFires(c) ==
  /\ op[c] = "pop_timeout" /\ c \in sleeping
  /\ slept[c] = SleepLimit(c)
  /\ sleeping' = sleeping \ {c}
  /\ timedOut' = timedOut \cup {c}
  /\ UNCHANGED <<queue, op, duration, slept, result, sent, taken, stranded>>

(* Time passes for every pop_timeout, but never past a timer that is due. It
   goes on for a woken one that waits for the mutex: sleep_time is measured
   after wait_timeout returns. *)
Tick ==
  LET timed == {c \in Consumers : op[c] = "pop_timeout" /\ slept[c] < Timeout}
  IN /\ timed # {}
     /\ \A c \in sleeping : op[c] = "pop_timeout" => slept[c] < SleepLimit(c)
     /\ slept' = [c \in Consumers |-> IF c \in timed THEN slept[c] + 1 ELSE slept[c]]
     /\ UNCHANGED <<queue, op, sleeping, timedOut, duration, result, sent, taken,
                    stranded>>

(* A condition variable may wake a sleeper for no reason. *)
SpuriousWakeup(c) ==
  /\ c \in sleeping
  /\ sleeping' = sleeping \ {c}
  /\ UNCHANGED <<queue, op, clock, result, sent, taken, stranded>>
-----------------------------------------------------------------------------
Next ==
  \/ \E v \in Values : Push(v)
  \/ UnblockOne
  \/ \E c \in Consumers :
       \/ TryPop(c) \/ Pop(c) \/ PopWakes(c)
       \/ PopTimeout(c) \/ PopTimeoutWakes(c)
       \/ TimerFires(c) \/ SpuriousWakeup(c)
  \/ Tick

Spec == Init /\ [][Next]_vars

(* A woken thread runs, and timers fire: nothing makes a caller call. *)
FairSpec ==
  /\ Spec
  /\ \A c \in Consumers : WF_vars(PopWakes(c)) /\ WF_vars(PopTimeoutWakes(c))
  /\ \A c \in Consumers : WF_vars(TimerFires(c))
  /\ WF_vars(Tick)
-----------------------------------------------------------------------------
(* What left the queue and what is in it are together what was sent, in the
   order it was sent: no message is lost, repeated or overtaken, whatever mix
   of receives takes them out. *)
Fifo ==
  /\ Len(sent) = taken + Len(queue)
  /\ \A i \in 1..Len(queue) : queue[i] = sent[taken + i]

(* The queue is a MessageLog: every receive returns the next token of the log
   or nothing. *)
Log == INSTANCE MessageLog WITH
         sent   <- sent,
         taken  <- taken,
         result <- result
ImplementsLog == Log!Spec

(* While a consumer sleeps, every queued token has a woken consumer on its way
   to it, but for the tokens beside which a pop_timeout gave up: nothing else
   ever uses up a notification and leaves the token where it is. *)
NoLostWakeup ==
  sleeping # {} => Len(queue) <= Cardinality(Awake) + stranded

(* pop: "Blocks until one is available". A thread inside pop while a token is
   in the queue gets out of it, or another thread takes the tokens. *)
BlockedPopReturns ==
  \A c \in Consumers :
    (op[c] = "pop" /\ queue # <<>>) ~> (op[c] = "none" \/ queue = <<>>)

(* The same, unless a pop_timeout stranded a token: it is the only receive that
   keeps a thread inside pop beside a token, whatever else is called. *)
PopReturnsUnlessStranded ==
  \A c \in Consumers :
    (op[c] = "pop" /\ queue # <<>>)
      ~> (op[c] = "none" \/ queue = <<>> \/ stranded > 0)

(* A call of pop_timeout blocks for less than twice its timeout. *)
Blocked(c) == (Timeout - duration[c]) + slept[c]

BlocksLessThanTwice ==
  \A c \in Consumers : op[c] = "pop_timeout" /\ c \in sleeping => Blocked(c) < 2 * Timeout
=============================================================================
