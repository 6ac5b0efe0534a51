------------------------- MODULE MessagesQueueProofs -------------------------
(* Proofs about MessagesQueue, for every set of consumers and messages. *)
EXTENDS MessagesQueue, FiniteSetTheorems, TLAPS

(* The types of the variables that measure time. *)
ClockOK ==
  /\ timedOut \subseteq Consumers
  /\ duration \in [Consumers -> 0..Timeout]
  /\ slept \in [Consumers -> 0..Timeout]

(* Resetting a call's clock, or starting it with some time left, keeps it typed. *)
LEMMA ClockType ==
  ASSUME ClockOK, NEW c \in Consumers, NEW left \in 0..Timeout,
         ResetClock(c) \/ StartWait(c, left)
  PROVE  ClockOK'
<1> USE TimeoutAssumption DEF ClockOK
<1>1. CASE ResetClock(c)
  BY <1>1 DEF ResetClock
<1>2. CASE StartWait(c, left)
  BY <1>2 DEF StartWait
<1>3. QED BY <1>1, <1>2

(* Queueing a token keeps the types. *)
LEMMA EnqueueType ==
  ASSUME TypeOK, NEW token \in Control, Enqueue(token)
  PROVE  TypeOK'
<1> USE DEF TypeOK, Enqueue, Control, NotifyOne, clock
<1>1. queue' \in Seq(Values \cup {Unblock}) /\ sent' \in Seq(Values \cup {Unblock})
  OBVIOUS
<1>2. sleeping' \subseteq sleeping
  OBVIOUS
<1>3. Len(queue') = Len(queue) + 1 /\ stranded' = stranded
  OBVIOUS
<1>4. stranded' \in 0..Len(queue')
  BY <1>3
<1>5. QED BY <1>1, <1>2, <1>4

(* Taking the head of the queue keeps the types. *)
LEMMA PopFrontType ==
  ASSUME TypeOK, ClockOK', NEW c \in Consumers, c \notin sleeping, PopFront(c)
  PROVE  TypeOK'
<1> USE DEF TypeOK, PopFront, ClockOK, Control
<1>1. Head(queue) \in Values \cup {Unblock} /\ queue' \in Seq(Values \cup {Unblock})
  OBVIOUS
<1>2. result' \in [Consumers -> Values \cup {None}]
  <2> DEFINE r == IF Head(queue) = Unblock THEN None ELSE Head(queue)
  <2>1. r \in Values \cup {None}
    BY <1>1
  <2> HIDE DEF r
  <2>2. result' = [result EXCEPT ![c] = r]
    BY DEF r
  <2>3. QED BY <2>1, <2>2
<1>3. op' \in [Consumers -> (Calls \ {"try_pop"}) \cup {"none"}]
  OBVIOUS
<1>4. taken' \in Nat /\ sent' \in Seq(Values \cup {Unblock})
  OBVIOUS
<1>5. sleeping' \subseteq {x \in Consumers : op'[x] # "none"}
  OBVIOUS
<1>6. stranded' \in 0..Len(queue')
  <2>1. Len(queue) \in Nat /\ Len(queue) >= 1 /\ Len(queue') = Len(queue) - 1
    OBVIOUS
  <2>2. QED BY <2>1 DEF Lesser
<1>7. QED BY <1>1, <1>2, <1>3, <1>4, <1>5, <1>6

(* Going to sleep keeps the types. *)
LEMMA WaitInType ==
  ASSUME TypeOK, ClockOK', NEW c \in Consumers,
         NEW call \in Calls \ {"try_pop"}, WaitIn(c, call)
  PROVE  TypeOK'
<1> USE DEF TypeOK, WaitIn, ClockOK, Control
<1>1. op' \in [Consumers -> (Calls \ {"try_pop"}) \cup {"none"}]
  OBVIOUS
<1>2. sleeping' \subseteq {x \in Consumers : op'[x] # "none"}
  BY CallsAssumption
<1>3. QED BY <1>1, <1>2

(* Giving up keeps the types. *)
LEMMA GiveUpType ==
  ASSUME TypeOK, ClockOK', NEW c \in Consumers, c \notin sleeping, GiveUp(c)
  PROVE  TypeOK'
<1> USE DEF TypeOK, GiveUp, ClockOK, Control
<1>1. op' \in [Consumers -> (Calls \ {"try_pop"}) \cup {"none"}]
  OBVIOUS
<1>2. sleeping' \subseteq {x \in Consumers : op'[x] # "none"}
  OBVIOUS
<1>3. stranded' \in 0..Len(queue')
  BY DEF Lesser
<1>4. QED BY <1>1, <1>2, <1>3

(* The variables keep their types. *)
THEOREM TypeCorrect == Spec => []TypeOK
<1>1. Init => TypeOK
  BY TimeoutAssumption DEF Init, TypeOK
<1>2. TypeOK /\ [Next]_vars => TypeOK'
  <2> SUFFICES ASSUME TypeOK, [Next]_vars PROVE TypeOK'
    OBVIOUS
  <2> USE TimeoutAssumption, CallsAssumption
  <2>0. ClockOK
    BY DEF TypeOK, ClockOK
  <2>1. ASSUME NEW token \in Control, Enqueue(token) PROVE TypeOK'
    BY <2>1, EnqueueType
  <2>2. ASSUME NEW c \in Consumers, TryPop(c) PROVE TypeOK'
    <3>1. ClockOK' /\ c \notin sleeping
      BY <2>0, <2>2 DEF TryPop, clock, ClockOK, TypeOK
    <3>2. QED BY <2>2, <3>1, PopFrontType, GiveUpType DEF TryPop
  <2>3. ASSUME NEW c \in Consumers, Pop(c) PROVE TypeOK'
    <3>1. ClockOK' /\ c \notin sleeping
      BY <2>0, <2>3 DEF Pop, clock, ClockOK, TypeOK
    <3>2. QED BY <2>3, <3>1, PopFrontType, WaitInType DEF Pop
  <2>4. ASSUME NEW c \in Consumers, PopWakes(c) PROVE TypeOK'
    <3>1. ClockOK' /\ "pop" \in Calls \ {"try_pop"}
      BY <2>0, <2>4 DEF PopWakes, clock, ClockOK, TypeOK
    <3>2. QED BY <2>4, <3>1, PopFrontType, WaitInType DEF PopWakes
  <2>5. ASSUME NEW c \in Consumers, PopTimeout(c) PROVE TypeOK'
    <3>1. ClockOK' /\ c \notin sleeping
      BY <2>0, <2>5, ClockType, Timeout \in 0..Timeout DEF PopTimeout, TypeOK
    <3>2. QED BY <2>5, <3>1, PopFrontType, WaitInType DEF PopTimeout
  <2>6. ASSUME NEW c \in Consumers, PopTimeoutWakes(c) PROVE TypeOK'
    <3>1. Remaining(c) \in 0..Timeout
      BY DEF Remaining, TypeOK
    <3>2. ClockOK'
      BY <2>0, <2>6, <3>1, ClockType DEF PopTimeoutWakes
    <3>3. "pop_timeout" \in Calls \ {"try_pop"}
      BY <2>6 DEF PopTimeoutWakes, TypeOK
    <3>4. QED
      BY <2>6, <3>2, <3>3, PopFrontType, WaitInType, GiveUpType DEF PopTimeoutWakes
  <2>7. ASSUME NEW c \in Consumers, TimerFires(c) PROVE TypeOK'
    BY <2>7 DEF TimerFires, TypeOK, Control
  <2>8. ASSUME NEW c \in Consumers, SpuriousWakeup(c) PROVE TypeOK'
    BY <2>8 DEF SpuriousWakeup, TypeOK, clock, Control
  <2>9. CASE Tick
    BY <2>9 DEF Tick, TypeOK, Control
  <2>10. CASE UNCHANGED vars
    BY <2>10 DEF vars, TypeOK, clock, Control
  <2>11. QED
    BY <2>1, <2>2, <2>3, <2>4, <2>5, <2>6, <2>7, <2>8, <2>9, <2>10
       DEF Next, Push, UnblockOne, Control
<1>3. QED BY <1>1, <1>2, PTL DEF Spec
-----------------------------------------------------------------------------
(* The shapes a step can have for the tokens: queue one, take the head, or
   leave the queue and the log alone. *)
LEMMA StepShape ==
  ASSUME TypeOK, [Next]_vars
  PROVE  \/ \E token \in Control : Enqueue(token)
         \/ \E c \in Consumers : PopFront(c)
         \/ \E c \in Consumers : GiveUp(c)
         \/ UNCHANGED <<queue, sent, taken, result>>
BY DEF Next, vars, Push, UnblockOne, Control, TryPop, Pop, PopWakes, PopTimeout,
       PopTimeoutWakes, TimerFires, SpuriousWakeup, Tick, WaitIn

(* A token queued at the end of both keeps queue and log aligned. *)
LEMMA EnqueueFifo ==
  ASSUME TypeOK, Fifo, NEW token \in Control, Enqueue(token)
  PROVE  Fifo'
<1>0. /\ queue \in Seq(Control) /\ sent \in Seq(Control) /\ taken \in Nat
      /\ queue' = Append(queue, token) /\ sent' = Append(sent, token) /\ taken' = taken
  BY DEF TypeOK, Enqueue
<1>1. Len(queue') = Len(queue) + 1 /\ Len(sent') = Len(sent) + 1 /\ Len(queue) \in Nat
  BY <1>0
<1> USE <1>0 DEF Fifo
<1>2. ASSUME NEW i \in 1..Len(queue') PROVE queue'[i] = sent'[taken' + i]
  <2>1. CASE i = Len(queue')
    <3>1. taken' + i = Len(sent')
      BY <1>1, <2>1
    <3>2. queue'[i] = token /\ sent'[taken' + i] = token
      BY <1>1, <2>1, <3>1
    <3>3. QED BY <3>2
  <2>2. CASE i \in 1..Len(queue)
    <3>1. queue'[i] = queue[i] /\ queue[i] = sent[taken + i]
      BY <2>2
    <3>2. taken + i \in 1..Len(sent)
      BY <2>2
    <3>3. sent'[taken + i] = sent[taken + i]
      BY <3>2
    <3>4. QED BY <1>1, <3>1, <3>3
  <2>3. i = Len(queue') \/ i \in 1..Len(queue)
    BY <1>1
  <2>4. QED BY <2>1, <2>2, <2>3
<1>3. Len(sent') = taken' + Len(queue')
  BY <1>1
<1> HIDE <1>0
<1>4. QED BY <1>2, <1>3

(* A token that leaves the head moves the read position by one. *)
LEMMA PopFrontFifo ==
  ASSUME TypeOK, Fifo, NEW c \in Consumers, PopFront(c)
  PROVE  Fifo'
<1>1. /\ queue \in Seq(Control) /\ queue # <<>> /\ taken \in Nat
      /\ queue' = Tail(queue) /\ sent' = sent /\ taken' = taken + 1
      /\ Len(queue') = Len(queue) - 1 /\ Len(queue) \in Nat
  BY DEF TypeOK, PopFront
<1> USE DEF Fifo
<1>2. ASSUME NEW i \in 1..Len(queue') PROVE queue'[i] = sent'[taken' + i]
  <2>1. i + 1 \in 1..Len(queue)
    BY <1>1
  <2>2. queue'[i] = queue[i + 1]
    BY <1>1
  <2>3. queue[i + 1] = sent[taken + (i + 1)]
    BY <2>1
  <2>4. taken + (i + 1) = taken' + i
    BY <1>1
  <2>5. QED BY <1>1, <2>2, <2>3, <2>4
<1>3. QED BY <1>1, <1>2

(* No message is lost, repeated or overtaken. *)
THEOREM FifoCorrect == Spec => []Fifo
<1>1. Init => Fifo
  BY DEF Init, Fifo
<1>2. TypeOK /\ Fifo /\ [Next]_vars => Fifo'
  <2> SUFFICES ASSUME TypeOK, Fifo, [Next]_vars PROVE Fifo'
    OBVIOUS
  <2>1. ASSUME NEW c \in Consumers, GiveUp(c) PROVE Fifo'
    BY <2>1 DEF GiveUp, Fifo
  <2>2. CASE UNCHANGED <<queue, sent, taken, result>>
    BY <2>2 DEF Fifo
  <2>3. QED BY <2>1, <2>2, StepShape, EnqueueFifo, PopFrontFifo
<1>3. QED BY <1>1, <1>2, TypeCorrect, PTL DEF Spec

(* The queue implements the message log: each of its steps is a step of the
   log or leaves the log alone. *)
THEOREM Refinement == Spec => ImplementsLog
<1>1. Init => Log!Init
  BY DEF Init, Log!Init
<1>2. TypeOK /\ Fifo /\ [Next]_vars => [Log!Next]_<<sent, taken, result>>
  <2> SUFFICES ASSUME TypeOK, Fifo, [Next]_vars
               PROVE  [Log!Next]_<<sent, taken, result>>
    OBVIOUS
  <2>1. ASSUME NEW token \in Control, Enqueue(token) PROVE Log!Next
    BY <2>1 DEF Enqueue, Log!Next, Log!Send, Control
  <2>2. ASSUME NEW c \in Consumers, PopFront(c) PROVE Log!Next
    <3>1. Len(queue) \in Nat /\ Len(queue) >= 1 /\ Head(queue) = queue[1]
      BY <2>2 DEF PopFront, TypeOK
    <3>2. taken < Len(sent) /\ Head(queue) = sent[taken + 1]
      BY <3>1 DEF Fifo, TypeOK
    <3>3. Log!Receive(c)
      BY <2>2, <3>2 DEF PopFront, Log!Receive
    <3>4. QED BY <3>3 DEF Log!Next
  <2>3. ASSUME NEW c \in Consumers, GiveUp(c) PROVE Log!Next
    BY <2>3 DEF GiveUp, Log!Next, Log!ReturnNothing
  <2>4. QED BY <2>1, <2>2, <2>3, StepShape
<1>3. QED
  BY <1>1, <1>2, TypeCorrect, FifoCorrect, PTL DEF Spec, ImplementsLog, Log!Spec
-----------------------------------------------------------------------------
LEMMA AwakeFinite == IsFiniteSet(Awake) /\ Cardinality(Awake) \in Nat
BY FS_Subset, FS_CardinalityType, ConsumersAssumption DEF Awake

(* A sleeper that is woken is one more consumer on its way to the queue. *)
LEMMA WakeOne ==
  ASSUME TypeOK, NEW c \in sleeping, sleeping' = sleeping \ {c}, op' = op
  PROVE  Cardinality(Awake') = Cardinality(Awake) + 1
<1>1. Awake' = Awake \cup {c} /\ c \notin Awake
  BY DEF Awake, TypeOK
<1>2. QED BY <1>1, AwakeFinite, FS_AddElement

(* A consumer that leaves its call is one fewer. *)
LEMMA LeaveOne ==
  ASSUME TypeOK, NEW c \in Awake, op' = [op EXCEPT ![c] = "none"], sleeping' = sleeping
  PROVE  Cardinality(Awake') = Cardinality(Awake) - 1
<1>1. Awake' = Awake \ {c}
  BY DEF Awake, TypeOK
<1>2. QED BY <1>1, AwakeFinite, FS_RemoveElement

(* No receive but a pop_timeout that gives up uses a notification up: as long as
   a consumer sleeps, the woken consumers and the stranded tokens are together
   at least as many as the queued tokens. *)
THEOREM WakeupsSuffice == Spec => []NoLostWakeup
<1> DEFINE Enough == Len(queue) <= Cardinality(Awake) + stranded
<1>1. Init => NoLostWakeup
  BY DEF Init, NoLostWakeup
<1>2. TypeOK /\ NoLostWakeup /\ [Next]_vars => NoLostWakeup'
  <2> SUFFICES ASSUME TypeOK, NoLostWakeup, [Next]_vars, sleeping' # {}
               PROVE  Enough'
    BY DEF NoLostWakeup
  <2>0. Len(queue) \in Nat /\ stranded \in 0..Len(queue)
    BY DEF TypeOK
  <2>1. ASSUME NEW token \in Control, Enqueue(token) PROVE Enough'
    <3>1. Len(queue') = Len(queue) + 1 /\ stranded' = stranded
      BY <2>1 DEF Enqueue, TypeOK
    <3>2. PICK c \in sleeping : sleeping' = sleeping \ {c}
      BY <2>1 DEF Enqueue, NotifyOne
    <3>3. Cardinality(Awake') = Cardinality(Awake) + 1
      BY <2>1, <3>2, WakeOne DEF Enqueue
    <3>4. QED BY <2>0, <3>1, <3>2, <3>3, AwakeFinite DEF NoLostWakeup
  <2>2. ASSUME NEW c \in Consumers, op[c] = "none", PopFront(c) PROVE Enough'
    <3>1. Awake' = Awake /\ sleeping' = sleeping
      BY <2>2 DEF PopFront, Awake, TypeOK
    <3>2. /\ Len(queue') = Len(queue) - 1
          /\ stranded' = Lesser(stranded, Len(queue) - 1)
      BY <2>2 DEF PopFront, TypeOK
    <3>3. QED BY <2>0, <3>1, <3>2, AwakeFinite DEF NoLostWakeup, Lesser
  <2>3. ASSUME NEW c \in Consumers, op[c] # "none", c \notin sleeping, PopFront(c)
        PROVE  Enough'
    <3>1. c \in Awake
      BY <2>3 DEF Awake
    <3>2. Cardinality(Awake') = Cardinality(Awake) - 1
      BY <2>3, <3>1, LeaveOne DEF PopFront
    <3>3. /\ Len(queue') = Len(queue) - 1 /\ sleeping' = sleeping
          /\ stranded' = Lesser(stranded, Len(queue) - 1)
      BY <2>3 DEF PopFront, TypeOK
    <3>4. Cardinality(Awake) >= 1
      BY <3>1, AwakeFinite, FS_EmptySet
    <3>5. QED BY <2>0, <3>2, <3>3, <3>4, AwakeFinite DEF NoLostWakeup, Lesser
  <2>4. ASSUME queue' = <<>>, stranded' = 0 PROVE Enough'
    <3>1. Cardinality(Awake') \in Nat
      BY FS_Subset, FS_CardinalityType, ConsumersAssumption DEF Awake
    <3>2. QED BY <2>4, <3>1
  <2>5. ASSUME NEW c \in sleeping, sleeping' = sleeping \ {c}, op' = op,
               queue' = queue, stranded' = stranded
        PROVE  Enough'
    <3>1. Cardinality(Awake') = Cardinality(Awake) + 1
      BY <2>5, WakeOne
    <3>2. QED BY <2>0, <2>5, <3>1, AwakeFinite DEF NoLostWakeup
  <2>6. ASSUME NEW c \in Awake, GiveUp(c) PROVE Enough'
    <3>1. Cardinality(Awake') = Cardinality(Awake) - 1
      BY <2>6, LeaveOne DEF GiveUp
    <3>2. /\ queue' = queue /\ sleeping' = sleeping
          /\ stranded' = Lesser(stranded + 1, Len(queue))
      BY <2>6 DEF GiveUp
    <3>3. Cardinality(Awake) >= 1
      BY <2>6, AwakeFinite, FS_EmptySet
    <3>4. QED BY <2>0, <3>1, <3>2, <3>3, AwakeFinite DEF NoLostWakeup, Lesser
  <2>7. ASSUME NEW c \in Consumers, NEW call, WaitIn(c, call) PROVE Enough'
    <3>1. queue' = <<>> /\ stranded' = 0
      BY <2>7 DEF WaitIn, TypeOK
    <3>2. QED BY <2>4, <3>1
  <2>8. ASSUME NEW c \in Consumers, TryPop(c) PROVE Enough'
    <3>1. CASE PopFront(c)
      BY <2>2, <2>8, <3>1 DEF TryPop
    <3>2. CASE queue = <<>> /\ GiveUp(c)
      <4>1. queue' = <<>> /\ stranded' = 0
        BY <2>0, <3>2 DEF GiveUp, Lesser
      <4>2. QED BY <2>4, <4>1
    <3>3. QED BY <2>8, <3>1, <3>2 DEF TryPop
  <2>9. ASSUME NEW c \in Consumers, Pop(c) \/ PopWakes(c) PROVE Enough'
    BY <2>2, <2>3, <2>7, <2>9 DEF Pop, PopWakes
  <2>10. ASSUME NEW c \in Consumers, PopTimeout(c) PROVE Enough'
    BY <2>2, <2>7, <2>10 DEF PopTimeout
  <2>11. ASSUME NEW c \in Consumers, PopTimeoutWakes(c) PROVE Enough'
    <3>1. c \in Awake /\ op[c] # "none" /\ c \notin sleeping
      BY <2>11 DEF PopTimeoutWakes, Awake
    <3>2. QED BY <2>3, <2>6, <2>7, <2>11, <3>1 DEF PopTimeoutWakes
  <2>12. ASSUME NEW c \in Consumers, TimerFires(c) \/ SpuriousWakeup(c) PROVE Enough'
    BY <2>5, <2>12 DEF TimerFires, SpuriousWakeup
  <2>13. CASE Tick
    BY <2>13 DEF Tick, NoLostWakeup, Awake
  <2>14. CASE UNCHANGED vars
    BY <2>14 DEF vars, NoLostWakeup, Awake
  <2>15. QED
    BY <2>1, <2>8, <2>9, <2>10, <2>11, <2>12, <2>13, <2>14
       DEF Next, Push, UnblockOne, Control
<1>3. QED BY <1>1, <1>2, TypeCorrect, PTL DEF Spec
-----------------------------------------------------------------------------
(* A pop_timeout that has not returned has some of its time left. *)
TimeLeft == \A c \in Consumers : op[c] = "pop_timeout" => duration[c] >= 1

(* A consumer's call begins, ends or goes on with a clock that fits it. *)
LEMMA ClockStep ==
  ASSUME TypeOK, TimeLeft, NEW c \in Consumers,
         \/ op' = [op EXCEPT ![c] = "none"]
         \/ op' = [op EXCEPT ![c] = "pop"]
         \/ op' = [op EXCEPT ![c] = "pop_timeout"] /\ duration'[c] >= 1,
         \A d \in Consumers \ {c} : duration'[d] = duration[d]
  PROVE  TimeLeft'
BY DEF TimeLeft, TypeOK

(* A recv_timeout takes less than twice the time it was given. *)
THEOREM TimedReceiveEnds == Spec => []BlocksLessThanTwice
<1>1. Init => TimeLeft
  BY DEF Init, TimeLeft
<1>2. TypeOK /\ TimeLeft /\ [Next]_vars => TimeLeft'
  <2> SUFFICES ASSUME TypeOK, TimeLeft, [Next]_vars PROVE TimeLeft'
    OBVIOUS
  <2>1. ASSUME UNCHANGED <<op, duration>> PROVE TimeLeft'
    BY <2>1 DEF TimeLeft
  <2>2. ASSUME NEW c \in Consumers, TryPop(c) \/ Pop(c) \/ PopWakes(c)
        PROVE  TimeLeft'
    <3>1. \/ op' = [op EXCEPT ![c] = "none"]
          \/ op' = [op EXCEPT ![c] = "pop"]
      BY <2>2 DEF TryPop, Pop, PopWakes, PopFront, GiveUp, WaitIn
    <3>2. duration' = duration
      BY <2>2 DEF TryPop, Pop, PopWakes, clock
    <3>3. QED BY <3>1, <3>2, ClockStep
  <2>3. ASSUME NEW c \in Consumers, PopTimeout(c) PROVE TimeLeft'
    <3>1. \/ op' = [op EXCEPT ![c] = "none"]
          \/ op' = [op EXCEPT ![c] = "pop_timeout"] /\ duration'[c] >= 1
      BY <2>3, TimeoutAssumption DEF PopTimeout, PopFront, WaitIn, StartWait, TypeOK
    <3>2. \A d \in Consumers \ {c} : duration'[d] = duration[d]
      BY <2>3 DEF PopTimeout, ResetClock, StartWait, TypeOK
    <3>3. QED BY <3>1, <3>2, ClockStep
  <2>4. ASSUME NEW c \in Consumers, PopTimeoutWakes(c) PROVE TimeLeft'
    <3>0. Remaining(c) \in Nat
      BY TimeoutAssumption DEF Remaining, TypeOK
    <3>1. \/ op' = [op EXCEPT ![c] = "none"]
          \/ op' = [op EXCEPT ![c] = "pop_timeout"] /\ duration'[c] >= 1
      BY <2>4, <3>0 DEF PopTimeoutWakes, PopFront, GiveUp, WaitIn, StartWait, TypeOK
    <3>2. \A d \in Consumers \ {c} : duration'[d] = duration[d]
      BY <2>4 DEF PopTimeoutWakes, ResetClock, StartWait, TypeOK
    <3>3. QED BY <3>1, <3>2, ClockStep
  <2>5. ASSUME NEW token \in Control, Enqueue(token) PROVE TimeLeft'
    BY <2>1, <2>5 DEF Enqueue, clock
  <2>6. QED
    BY <2>1, <2>2, <2>3, <2>4, <2>5
       DEF Next, Push, UnblockOne, Control, TimerFires, SpuriousWakeup, Tick, vars, clock
<1>3. TypeOK /\ TimeLeft => BlocksLessThanTwice
  BY TimeoutAssumption DEF TypeOK, TimeLeft, BlocksLessThanTwice, Blocked
<1>4. QED BY <1>1, <1>2, <1>3, TypeCorrect, PTL DEF Spec
=============================================================================
