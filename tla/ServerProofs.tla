----------------------------- MODULE ServerProofs -----------------------------
(***************************************************************************)
(* Safety of the server for any number of clients and receivers: after the *)
(* drop began at most one connection is accepted, an HTTPS connection has  *)
(* at most one request in flight, and each connection is handed to the     *)
(* pool once.                                                              *)
(***************************************************************************)
EXTENDS Server, TLAPS

(* Once a connection was accepted after close was stored, the next look at the
   flag ends the loop. *)
LateInv ==
  /\ late \in {0, 1}
  /\ late = 1 => close /\ accept # "accepting"

(* The accept thread of a server that is being dropped takes at most one more
   connection, whoever makes it. *)
THEOREM OneAfterClose == Spec => []AtMostOneAfterClose
<1>1. Init => LateInv
  BY DEF Init, LateInv
<1>2. LateInv /\ [Next]_vars => LateInv'
  <2> SUFFICES ASSUME LateInv, [Next]_vars PROVE LateInv'
    OBVIOUS
  <2> USE DEF LateInv, close, loop
  <2>1. CASE CheckClose
    BY <2>1 DEF CheckClose, EndAccept
  <2>2. CASE AcceptClient
    BY <2>2 DEF AcceptClient
  <2>3. CASE HandshakeDone \/ HandshakeFails \/ AcceptFails
    BY <2>3 DEF HandshakeDone, HandshakeFails, AcceptFails, EndAccept
  <2>4. CASE \E c \in Clients : Connect(c) \/ HangUp(c)
    BY <2>4 DEF Connect, HangUp
  <2>5. CASE \E c \in Connections : Run(c)
    BY <2>5 DEF Run, StartTask, PushRequest, EndTask
  <2>6. CASE \E r \in Receivers : CallRecv(r) \/ RecvReturns(r) \/ TryRecv(r)
    BY <2>6 DEF CallRecv, RecvReturns, TryRecv
  <2>7. CASE (\E rq \in Requests : Answer(rq)) \/ UnblockOne
    BY <2>7 DEF Answer, UnblockOne
  <2>8. CASE DropStores \/ DropConnects
    BY <2>8 DEF DropStores, DropConnects
  <2>9. CASE UNCHANGED vars
    BY <2>9 DEF vars
  <2>10. QED
    BY <2>1, <2>2, <2>3, <2>4, <2>5, <2>6, <2>7, <2>8, <2>9 DEF Next, Accept
<1>3. LateInv => AtMostOneAfterClose
  BY DEF LateInv, AtMostOneAfterClose
<1>4. QED BY <1>1, <1>2, <1>3, PTL DEF Spec

(* A request in flight is the last one its connection delivered, and the loop of
   the connection waits for it. *)
Last(rq) == rq[1] \in awaiting /\ rq[2] = asked[rq[1]]

Queue == (taken + 1)..Len(sent)

(* It is queued once or held. *)
FlightInv ==
  /\ sent \in Seq(Requests \cup {Error, Unblock}) /\ taken \in 0..Len(sent)
  /\ held \subseteq Requests /\ asked \in [Connections -> Nat]
  /\ result \in [Receivers -> Requests \cup {Error, None}]
  /\ secure =>
       /\ \A rq \in held : Last(rq)
       /\ \A i \in Queue : sent[i] \in Requests => Last(sent[i]) /\ sent[i] \notin held
       /\ \A i, j \in Queue : sent[i] \in Requests /\ sent[i] = sent[j] => i = j

LEMMA SameRequest ==
  \A rq, other \in Requests : rq[1] = other[1] /\ rq[2] = other[2] => rq = other
BY DEF Requests

(* An error or an Unblock token is queued, or nothing is. *)
LEMMA FlightAside ==
  ASSUME FlightInv, UNCHANGED <<secure, taken, held, asked, awaiting>>,
         result' \in [Receivers -> Requests \cup {Error, None}],
         \/ UNCHANGED sent
         \/ \E m \in {Error, Unblock} : sent' = Append(sent, m)
  PROVE  FlightInv'
<1>1. CASE UNCHANGED sent
  BY <1>1 DEF FlightInv, Queue, Last
<1>2. ASSUME NEW m \in {Error, Unblock}, sent' = Append(sent, m) PROVE FlightInv'
  <2>1. m \notin Requests
    BY ServerAssumption DEF ServerAssumption, Requests
  <2>2. /\ sent' \in Seq(Requests \cup {Error, Unblock}) /\ Len(sent) \in Nat
        /\ Len(sent') = Len(sent) + 1 /\ sent'[Len(sent) + 1] = m
        /\ \A i \in 1..Len(sent) : sent'[i] = sent[i]
    BY <1>2 DEF FlightInv
  <2>3. \A i \in Queue' : sent'[i] \in Requests => i \in Queue /\ sent'[i] = sent[i]
    BY <2>1, <2>2 DEF Queue, FlightInv
  <2>4. taken' \in 0..Len(sent') /\ held' \subseteq Requests
        /\ asked' \in [Connections -> Nat]
    BY <2>2 DEF FlightInv
  <2>5. ASSUME secure'
        PROVE  /\ \A rq \in held' : Last(rq)'
               /\ \A i \in Queue' : sent'[i] \in Requests =>
                    Last(sent[i])' /\ sent'[i] \notin held'
               /\ \A i, j \in Queue' : sent'[i] \in Requests /\ sent'[i] = sent'[j] => i = j
    BY <2>3, <2>5 DEF FlightInv, Last
  <2>6. QED BY <2>2, <2>3, <2>4, <2>5 DEF FlightInv, Last
<1>3. QED BY <1>1, <1>2

(* The oldest message is taken; if it is a request it is held. *)
LEMMA FlightReceived ==
  ASSUME FlightInv, NEW r \in Receivers, Log!Receive(r), Hold(r),
         UNCHANGED <<secure, asked, awaiting>>
  PROVE  FlightInv'
<1> DEFINE m == sent[taken + 1]
<1>1. /\ taken \in Nat /\ Len(sent) \in Nat /\ taken < Len(sent)
      /\ taken' = taken + 1 /\ sent' = sent
      /\ m \in Requests \cup {Error, Unblock}
      /\ taken + 1 \in Queue
  BY DEF FlightInv, Log!Receive, Queue
<1>2. /\ result' \in [Receivers -> Requests \cup {Error, None}]
      /\ result'[r] = IF m = Unblock THEN None ELSE m
  BY <1>1 DEF FlightInv, Log!Receive
<1>3. held' = held \cup ({m} \cap Requests)
  <2>1. Unblock \notin Requests /\ None \notin Requests
    BY ServerAssumption DEF ServerAssumption, Requests
  <2>2. QED BY <1>2, <2>1 DEF Hold
<1> HIDE DEF m
<1>4. \A i \in Queue' : i \in Queue /\ i # taken + 1
  BY <1>1 DEF Queue
<1>5. ASSUME secure'
      PROVE  /\ \A rq \in held' : Last(rq)'
             /\ \A i \in Queue' : sent'[i] \in Requests =>
                  Last(sent[i])' /\ sent'[i] \notin held'
             /\ \A i, j \in Queue' : sent'[i] \in Requests /\ sent'[i] = sent'[j] => i = j
  <2>1. m \in Requests => Last(m)
    BY <1>1, <1>5 DEF FlightInv, m
  <2>2. \A rq \in held' : Last(rq)
    BY <1>3, <1>5, <2>1 DEF FlightInv
  <2>3. \A i \in Queue' : sent[i] \in Requests => sent[i] # m
    BY <1>1, <1>4, <1>5 DEF FlightInv, m
  <2>4. QED BY <1>1, <1>3, <1>4, <1>5, <2>2, <2>3 DEF FlightInv, Last
<1>6. QED BY <1>1, <1>2, <1>3, <1>5 DEF FlightInv, Last

(* A request is queued by a connection that waits for none. *)
LEMMA FlightPushed ==
  ASSUME FlightInv, NEW c \in Connections, PushRequest(c)
  PROVE  FlightInv'
<1> DEFINE rq == <<c, asked[c] + 1>>
<1>1. /\ rq \in Requests /\ asked[c] \in Nat /\ c \notin awaiting
      /\ asked' = [asked EXCEPT ![c] = @ + 1]
      /\ UNCHANGED <<secure, taken, held, result>>
      /\ sent' = Append(sent, rq)
  <2>1. asked[c] \in Nat /\ asked[c] < MaxRequests /\ c \in Clients
    BY DEF PushRequest, FlightInv
  <2>2. asked[c] + 1 \in 1..MaxRequests
    BY <2>1, ServerAssumption DEF ServerAssumption
  <2>3. rq \in Requests
    BY <2>1, <2>2 DEF Requests
  <2>4. QED BY <2>1, <2>3 DEF PushRequest, Log!Send, users
<1>2. /\ sent' \in Seq(Requests \cup {Error, Unblock}) /\ Len(sent) \in Nat
      /\ Len(sent') = Len(sent) + 1 /\ sent'[Len(sent) + 1] = rq
      /\ \A i \in 1..Len(sent) : sent'[i] = sent[i]
  BY <1>1 DEF FlightInv
<1>3. asked' \in [Connections -> Nat] /\ taken' \in 0..Len(sent') /\ held' \subseteq Requests
  BY <1>1, <1>2 DEF FlightInv
<1>4. /\ rq[1] = c /\ rq[2] = asked'[c]
      /\ \A d \in Connections \ {c} : asked'[d] = asked[d]
  BY <1>1 DEF FlightInv
<1>5. \A other \in Requests : other[1] \in Connections
  BY DEF Requests, Connections
<1> HIDE DEF rq
<1>6. ASSUME secure
      PROVE  /\ awaiting' = awaiting \cup {c}
             /\ rq[1] \in awaiting' /\ rq[2] = asked'[rq[1]]
             /\ \A other \in Requests : Last(other) => Last(other)' /\ other # rq
  <2>1. awaiting' = awaiting \cup {c}
    BY <1>6 DEF PushRequest, AwaitAnswer
  <2>2. rq[1] \in awaiting' /\ rq[2] = asked'[rq[1]]
    BY <1>4, <2>1
  <2>3. ASSUME NEW other \in Requests, Last(other) PROVE Last(other)' /\ other # rq
    BY <1>1, <1>4, <1>5, <2>1, <2>3 DEF Last
  <2>4. QED BY <2>1, <2>2, <2>3
<1>7. \A i \in Queue' : i = Len(sent) + 1 \/ (i \in Queue /\ i \in 1..Len(sent))
  BY <1>1, <1>2 DEF Queue, FlightInv
<1>8. ASSUME secure'
      PROVE  /\ \A other \in held' : Last(other)'
             /\ \A i \in Queue' : sent'[i] \in Requests =>
                  Last(sent[i])' /\ sent'[i] \notin held'
             /\ \A i, j \in Queue' : sent'[i] \in Requests /\ sent'[i] = sent'[j] => i = j
  <2>1. secure
    BY <1>1, <1>8
  <2>2. \A other \in held' : Last(other)' /\ other # rq
    BY <1>1, <1>6, <2>1 DEF FlightInv
  <2>3. \A i \in Queue : sent[i] \in Requests =>
          Last(sent[i]) /\ sent[i] \notin held /\ sent[i] # rq
    BY <1>6, <2>1 DEF FlightInv
  <2>4. \A i \in Queue' : sent'[i] \in Requests => Last(sent[i])' /\ sent'[i] \notin held'
    <3> SUFFICES ASSUME NEW i \in Queue', sent'[i] \in Requests
                 PROVE  (Last(sent[i]))' /\ sent'[i] \notin held'
      OBVIOUS
    <3>1. CASE i = Len(sent) + 1
      BY <1>2, <1>6, <2>1, <2>2, <3>1 DEF Last
    <3>2. CASE i # Len(sent) + 1
      <4>1. i \in Queue /\ sent'[i] = sent[i]
        BY <1>2, <1>7, <3>2
      <4>2. Last(sent[i]) /\ sent[i] \notin held
        BY <2>3, <4>1
      <4>3. (sent[i][1] \in awaiting' /\ sent[i][2] = asked'[sent[i][1]])
        BY <1>6, <2>1, <4>1, <4>2 DEF Last
      <4>4. QED BY <1>1, <4>1, <4>2, <4>3 DEF Last
    <3>3. QED BY <3>1, <3>2
  <2>5. ASSUME NEW i \in Queue', NEW j \in Queue', sent'[i] \in Requests,
               sent'[i] = sent'[j]
        PROVE  i = j
    <3>1. CASE i = Len(sent) + 1 /\ j = Len(sent) + 1
      BY <3>1
    <3>2. CASE i = Len(sent) + 1 /\ j # Len(sent) + 1
      BY <1>1, <1>2, <1>7, <2>3, <2>5, <3>2
    <3>3. CASE i # Len(sent) + 1 /\ j = Len(sent) + 1
      BY <1>1, <1>2, <1>7, <2>3, <2>5, <3>3
    <3>4. CASE i # Len(sent) + 1 /\ j # Len(sent) + 1
      BY <1>2, <1>7, <2>1, <2>5, <3>4 DEF FlightInv
    <3>5. QED BY <3>1, <3>2, <3>3, <3>4
  <2>6. QED BY <2>2, <2>4, <2>5
<1>9. QED BY <1>1, <1>2, <1>3, <1>8 DEF FlightInv, Last

LEMMA FlightAnswered ==
  ASSUME FlightInv, NEW rq \in Requests, Answer(rq)
  PROVE  FlightInv'
<1>1. /\ rq \in held /\ held' = held \ {rq} /\ awaiting' = awaiting \ {rq[1]}
      /\ UNCHANGED <<secure, sent, taken, result, asked>>
  BY DEF Answer, log
<1>2. ASSUME secure, NEW other \in Requests, Last(other), other # rq
      PROVE  other[1] # rq[1]
  BY <1>1, <1>2, SameRequest DEF FlightInv, Last
<1>3. ASSUME secure, NEW other \in Requests, Last(other), other # rq
      PROVE  other[1] \in awaiting' /\ other[2] = asked'[other[1]]
  BY <1>1, <1>2, <1>3 DEF Last
<1>4. Queue' = Queue
  BY <1>1 DEF Queue
<1>5. QED BY <1>1, <1>3, <1>4 DEF FlightInv, Last

LEMMA FlightStep == FlightInv /\ [Next]_vars => FlightInv'
<1> SUFFICES ASSUME FlightInv, [Next]_vars PROVE FlightInv'
  OBVIOUS
<1>0. result \in [Receivers -> Requests \cup {Error, None}]
  BY DEF FlightInv
<1> USE DEF log, users, loop
<1>1. CASE CheckClose
  BY <1>0, <1>1, FlightAside DEF CheckClose
<1>2. CASE AcceptClient
  BY <1>0, <1>2, FlightAside DEF AcceptClient
<1>3. CASE HandshakeDone \/ HandshakeFails
  BY <1>0, <1>3, FlightAside DEF HandshakeDone, HandshakeFails
<1>4. CASE AcceptFails
  BY <1>0, <1>4, FlightAside DEF AcceptFails, Log!Send
<1>5. ASSUME NEW c \in Clients, Connect(c) \/ HangUp(c) PROVE FlightInv'
  BY <1>0, <1>5, FlightAside DEF Connect, HangUp
<1>6. ASSUME NEW c \in Connections, StartTask(c) \/ EndTask(c) PROVE FlightInv'
  BY <1>0, <1>6, FlightAside DEF StartTask, EndTask
<1>7. ASSUME NEW c \in Connections, PushRequest(c) PROVE FlightInv'
  BY <1>7, FlightPushed
<1>8. ASSUME NEW r \in Receivers, CallRecv(r) PROVE FlightInv'
  BY <1>0, <1>8, FlightAside DEF CallRecv
<1>9. ASSUME NEW r \in Receivers, RecvReturns(r) PROVE FlightInv'
  BY <1>9, FlightReceived DEF RecvReturns
<1>10. ASSUME NEW r \in Receivers, TryRecv(r) PROVE FlightInv'
  <2>1. CASE Log!Receive(r) /\ Hold(r)
    BY <1>10, <2>1, FlightReceived DEF TryRecv
  <2>2. CASE Log!ReturnNothing(r) /\ UNCHANGED held
    <3>1. result' \in [Receivers -> Requests \cup {Error, None}]
      BY <1>0, <2>2 DEF Log!ReturnNothing
    <3>2. QED BY <1>10, <2>2, <3>1, FlightAside DEF TryRecv, Log!ReturnNothing
  <2>3. QED BY <1>10, <2>1, <2>2 DEF TryRecv
<1>11. ASSUME NEW rq \in Requests, Answer(rq) PROVE FlightInv'
  BY <1>11, FlightAnswered
<1>12. CASE UnblockOne
  BY <1>0, <1>12, FlightAside DEF UnblockOne, Log!Send
<1>13. CASE DropStores \/ DropConnects
  BY <1>0, <1>13, FlightAside DEF DropStores, DropConnects
<1>14. CASE UNCHANGED vars
  BY <1>0, <1>14, FlightAside DEF vars
<1>15. QED
  BY <1>1, <1>2, <1>3, <1>4, <1>5, <1>6, <1>7, <1>8, <1>9, <1>10, <1>11, <1>12,
     <1>13, <1>14 DEF Next, Accept, Run

(* However many receivers, Unblock tokens and failed accepts there are, a second
   request of an HTTPS connection is never queued or held beside the first. *)
THEOREM OneAtATime == Spec => []OneInFlight
<1>1. Init => FlightInv
  <2> SUFFICES ASSUME Init PROVE FlightInv
    OBVIOUS
  <2>1. /\ sent = <<>> /\ taken = 0 /\ result = [r \in Receivers |-> None]
        /\ held = {} /\ asked = [c \in Connections |-> 0]
    BY DEF Init, Log!Init
  <2>2. Queue = {}
    BY <2>1 DEF Queue
  <2>3. /\ sent \in Seq(Requests \cup {Error, Unblock}) /\ taken \in 0..Len(sent)
        /\ held \subseteq Requests /\ asked \in [Connections -> Nat]
        /\ result \in [Receivers -> Requests \cup {Error, None}]
    BY <2>1
  <2>4. QED BY <2>1, <2>2, <2>3 DEF FlightInv
<1>2. FlightInv /\ [Next]_vars => FlightInv'
  BY FlightStep
<1>3. FlightInv => OneInFlight
  <2> SUFFICES ASSUME FlightInv, secure, NEW rq \in InFlight, NEW other \in InFlight,
                      rq[1] = other[1]
               PROVE  rq = other
    BY DEF OneInFlight
  <2>1. Last(rq) /\ Last(other) /\ rq \in Requests /\ other \in Requests
    BY DEF FlightInv, InFlight, Queue
  <2>2. QED BY <2>1, SameRequest DEF Last
<1>4. QED BY <1>1, <1>2, <1>3, PTL DEF Spec
-----------------------------------------------------------------------------
(* The variables keep their types for any clients, receivers and bounds. *)
THEOREM TypeCorrect == Spec => []TypeOK
<1>1. Init => TypeOK
  <2> SUFFICES ASSUME Init PROVE TypeOK
    OBVIOUS
  <2>1. client \in [Connections -> {"away", "open", "closed"}] /\ backlog \in Seq(Connections)
    BY DEF Init
  <2>2. asked \in [Connections -> 0..MaxRequests]
    BY ServerAssumption DEF Init, ServerAssumption
  <2>3. calls \in [Receivers -> {"none", "recv", "next", "over"}]
    BY DEF Init
  <2>4. secure \in BOOLEAN /\ knocked \in BOOLEAN
    BY DEF Init
  <2>5. /\ server = "live" /\ accept = "checking" /\ hand = NoClient /\ late = 0
        /\ awaiting = {} /\ held = {}
    BY DEF Init
  <2>6. QED BY <2>1, <2>2, <2>3, <2>4, <2>5 DEF TypeOK
<1>2. TypeOK /\ [Next]_vars => TypeOK'
  <2> SUFFICES ASSUME TypeOK, [Next]_vars PROVE TypeOK'
    OBVIOUS
  <2> USE DEF TypeOK, pool, net, loop, users
  <2>1. CASE CheckClose
    <3>1. backlog' \in Seq(Connections) /\ client' \in [Connections -> {"away", "open", "closed"}]
      <4>1. CASE close
        <5>1. backlog' = <<>> /\ client' \in [Connections -> {"away", "open", "closed"}]
          BY <2>1, <4>1 DEF CheckClose, EndAccept
        <5>2. QED BY <5>1
      <4>2. CASE ~close
        BY <2>1, <4>2 DEF CheckClose
      <4>3. QED BY <4>1, <4>2
    <3>2. accept' \in {"checking", "accepting", "handshake", "ended"}
      BY <2>1 DEF CheckClose, EndAccept
    <3>3. UNCHANGED <<secure, server, knocked, hand, late, pool, asked, awaiting, users>>
      BY <2>1 DEF CheckClose
    <3>4. QED BY <3>1, <3>2, <3>3
  <2>2. CASE AcceptClient
    <3>1. Head(backlog) \in Connections /\ Tail(backlog) \in Seq(Connections)
      BY <2>2 DEF AcceptClient
    <3>2. late' \in Nat
      <4>1. late + 1 \in Nat
        OBVIOUS
      <4>2. late' = late \/ late' = late + 1
        BY <2>2 DEF AcceptClient
      <4>3. QED BY <4>1, <4>2
    <3>3. running' = running
      BY <2>2 DEF AcceptClient, Pool!Submit
    <3>4. QED BY <2>2, <3>1, <3>2, <3>3 DEF AcceptClient
  <2>3. CASE HandshakeDone
    BY <2>3 DEF HandshakeDone, Pool!Submit
  <2>4. CASE HandshakeFails
    BY <2>4 DEF HandshakeFails
  <2>5. CASE AcceptFails
    BY <2>5 DEF AcceptFails, EndAccept
  <2>6. ASSUME NEW c \in Clients, Connect(c) \/ HangUp(c) PROVE TypeOK'
    <3>1. c \in Connections /\ (backlog' = backlog \/ backlog' = Append(backlog, c))
      BY <2>6 DEF Connect, HangUp, Connections
    <3>2. backlog' \in Seq(Connections)
      <4>1. Append(backlog, c) \in Seq(Connections)
        BY <3>1
      <4>2. QED BY <3>1, <4>1
    <3>3. \/ client' = [client EXCEPT ![c] = "open"]
          \/ client' = [client EXCEPT ![c] = "closed"]
      <4>1. CASE Connect(c)
        BY <4>1 DEF Connect
      <4>2. CASE HangUp(c)
        BY <4>2 DEF HangUp
      <4>3. QED BY <2>6, <4>1, <4>2
    <3>4. client' \in [Connections -> {"away", "open", "closed"}]
      BY <3>3
    <3>5. UNCHANGED <<secure, server, knocked, loop, pool, asked, awaiting, users>>
      BY <2>6 DEF Connect, HangUp
    <3>6. QED BY <3>2, <3>4, <3>5
  <2>7. ASSUME NEW c \in Connections, StartTask(c) PROVE TypeOK'
    BY <2>7 DEF StartTask, Pool!Start
  <2>8. ASSUME NEW c \in Connections, PushRequest(c) PROVE TypeOK'
    <3>1. asked[c] + 1 \in 0..MaxRequests
      BY <2>8, ServerAssumption DEF PushRequest, ServerAssumption
    <3>2. awaiting' \subseteq running
      BY <2>8 DEF PushRequest, AwaitAnswer
    <3>3. asked' \in [Connections -> 0..MaxRequests]
      <4> DEFINE n == asked[c] + 1
      <4>1. n \in 0..MaxRequests /\ asked' = [asked EXCEPT ![c] = n]
        BY <2>8, <3>1 DEF PushRequest
      <4> HIDE DEF n
      <4>2. QED BY <4>1
    <3>4. UNCHANGED <<secure, server, knocked, loop, net, pool, users>>
      BY <2>8 DEF PushRequest
    <3>5. QED BY <3>2, <3>3, <3>4
  <2>9. ASSUME NEW c \in Connections, EndTask(c) PROVE TypeOK'
    BY <2>9 DEF EndTask, Pool!Leave
  <2>10. ASSUME NEW r \in Receivers, CallRecv(r) \/ RecvReturns(r) \/ TryRecv(r) PROVE TypeOK'
    BY <2>10 DEF CallRecv, RecvReturns, TryRecv, Hold
  <2>11. ASSUME NEW rq \in Requests, Answer(rq) PROVE TypeOK'
    BY <2>11 DEF Answer
  <2>12. CASE UnblockOne \/ DropStores
    BY <2>12 DEF UnblockOne, DropStores
  <2>13. CASE DropConnects
    <3>1. backlog' \in Seq(Connections) /\ client' \in [Connections -> {"away", "open", "closed"}]
      <4>1. CASE UNCHANGED net
        BY <4>1
      <4>2. ASSUME backlog' = Append(backlog, Self), client' = [client EXCEPT ![Self] = "closed"]
            PROVE  backlog' \in Seq(Connections) /\ client' \in [Connections -> {"away", "open", "closed"}]
        <5>1. Self \in Connections
          BY DEF Connections
        <5>2. backlog' \in Seq(Connections)
          BY <4>2, <5>1
        <5>3. QED BY <4>2, <5>2
      <4>3. QED BY <2>13, <4>1, <4>2 DEF DropConnects
    <3>2. server' = "dropped" /\ (knocked' = TRUE \/ knocked' = knocked)
      BY <2>13 DEF DropConnects
    <3>3. UNCHANGED <<secure, loop, pool, asked, awaiting, users>>
      BY <2>13 DEF DropConnects
    <3>4. QED BY <3>1, <3>2, <3>3
  <2>14. CASE UNCHANGED vars
    BY <2>14 DEF vars
  <2> HIDE DEF TypeOK
  <2>15. QED
    BY <2>1, <2>2, <2>3, <2>4, <2>5, <2>6, <2>7, <2>8, <2>9, <2>10, <2>11, <2>12, <2>13,
       <2>14 DEF Next, Accept, Run
<1>3. QED BY <1>1, <1>2, PTL DEF Spec

(* A connection is with its client, in the kernel's backlog, in the handshake or
   with the pool, and in one of these places only. *)
Handed == waiting \cup running \cup over

PlaceInv ==
  /\ \A i, j \in 1..Len(backlog) : backlog[i] = backlog[j] => i = j
  /\ \A i \in 1..Len(backlog) : backlog[i] \notin Handed \cup {hand}
  /\ hand \notin Handed
  /\ accept = "handshake" <=> hand # NoClient
  /\ \A c \in Clients : client[c] = "away" =>
       c \notin Handed \cup {hand} /\ \A i \in 1..Len(backlog) : backlog[i] # c
  /\ server # "dropped" =>
       Self \notin Handed \cup {hand} /\ \A i \in 1..Len(backlog) : backlog[i] # Self
  /\ Handed \subseteq Connections

(* The variables that say where connections are. *)
Places == <<backlog, hand, waiting, running, over>>

(* No connection changes its place. *)
LEMMA PlaceAside ==
  ASSUME PlaceInv, UNCHANGED Places, accept = "handshake" <=> accept' = "handshake",
         \A c \in Clients : client'[c] = "away" => client[c] = "away",
         server' = "dropped" \/ server # "dropped"
  PROVE  PlaceInv'
BY DEF PlaceInv, Handed, Places

(* The client, or the drop of the server, connects. *)
LEMMA PlaceQueued ==
  ASSUME TypeOK, PlaceInv, NEW c \in Connections, backlog' = Append(backlog, c),
         c \notin Handed \cup {hand}, \A i \in 1..Len(backlog) : backlog[i] # c,
         UNCHANGED <<hand, waiting, running, over, accept>>,
         \A d \in Clients : client'[d] = "away" => client[d] = "away" /\ d # c,
         (server' # "dropped") => (server # "dropped" /\ c # Self)
  PROVE  PlaceInv'
<1>1. /\ Len(backlog) \in Nat /\ Len(backlog') = Len(backlog) + 1
      /\ backlog'[Len(backlog) + 1] = c
      /\ \A i \in 1..Len(backlog) : backlog'[i] = backlog[i]
      /\ \A i \in 1..Len(backlog') : i \in 1..Len(backlog) \/ i = Len(backlog) + 1
  BY DEF TypeOK
<1>2. \A i, j \in 1..Len(backlog') : backlog'[i] = backlog'[j] => i = j
  BY <1>1 DEF PlaceInv
<1>3. QED BY <1>1, <1>2 DEF PlaceInv, Handed

(* The accept thread ends, and nobody is left in the backlog. *)
LEMMA PlaceEnded ==
  ASSUME TypeOK, PlaceInv, EndAccept, accept # "handshake",
         UNCHANGED <<server, hand, waiting, running, over>>
  PROVE  PlaceInv'
<1>1. backlog' = <<>> /\ accept' = "ended" /\ hand = NoClient
  BY DEF EndAccept, PlaceInv
<1>2. \A c \in Clients : client'[c] = "away" => client[c] = "away"
  BY DEF EndAccept, Connections
<1>3. QED BY <1>1, <1>2 DEF PlaceInv, Handed

(* What is left of the backlog when its head was accepted. *)
LEMMA PlaceHead ==
  ASSUME TypeOK, PlaceInv, backlog # <<>>
  PROVE  /\ Head(backlog) \in Connections /\ Head(backlog) \notin Handed \cup {hand}
         /\ \A i, j \in 1..Len(Tail(backlog)) : Tail(backlog)[i] = Tail(backlog)[j] => i = j
         /\ \A i \in 1..Len(Tail(backlog)) :
              /\ Tail(backlog)[i] # Head(backlog)
              /\ \E j \in 1..Len(backlog) : Tail(backlog)[i] = backlog[j]
         /\ \E j \in 1..Len(backlog) : Head(backlog) = backlog[j]
<1>1. /\ Len(backlog) \in Nat /\ Len(backlog) # 0 /\ Head(backlog) = backlog[1]
      /\ Len(Tail(backlog)) = Len(backlog) - 1
      /\ \A i \in 1..(Len(backlog) - 1) : Tail(backlog)[i] = backlog[i + 1]
      /\ 1 \in 1..Len(backlog)
      /\ Head(backlog) \in Connections
  BY DEF TypeOK
<1>2. \A i \in 1..(Len(backlog) - 1) : i + 1 \in 1..Len(backlog) /\ i + 1 # 1
  BY <1>1
<1>3. \A i, j \in 1..(Len(backlog) - 1) : i + 1 = j + 1 => i = j
  BY <1>1
<1>4. QED BY <1>1, <1>2, <1>3 DEF PlaceInv

(* The head of the backlog goes to the pool, or to its TLS handshake. *)
LEMMA PlaceAccepted ==
  ASSUME TypeOK, PlaceInv, AcceptClient
  PROVE  PlaceInv'
<1> DEFINE h == Head(backlog)
<1>1. /\ accept = "accepting" /\ backlog # <<>> /\ backlog' = Tail(backlog)
      /\ UNCHANGED <<server, client>> /\ hand = NoClient
  BY DEF AcceptClient, PlaceInv
<1>2. /\ h \in Connections /\ h \notin Handed \cup {hand} /\ h # NoClient
      /\ \A i, j \in 1..Len(backlog') : backlog'[i] = backlog'[j] => i = j
      /\ \A i \in 1..Len(backlog') :
           backlog'[i] # h /\ \E j \in 1..Len(backlog) : backlog'[i] = backlog[j]
      /\ \E j \in 1..Len(backlog) : h = backlog[j]
  BY <1>1, PlaceHead
<1> HIDE DEF h
<1>3. /\ \A c \in Clients : client'[c] = "away" => c # h
      /\ server' # "dropped" => Self # h
  BY <1>1, <1>2 DEF PlaceInv
<1>4. CASE Pool!Submit(h) /\ UNCHANGED hand /\ accept' = "checking"
  <2>1. Handed' = Handed \cup {h}
    BY <1>4 DEF Pool!Submit, Handed
  <2>2. QED BY <1>1, <1>2, <1>3, <1>4, <2>1 DEF PlaceInv
<1>5. CASE UNCHANGED pool /\ hand' = h /\ accept' = "handshake"
  <2>1. Handed' = Handed
    BY <1>5 DEF Handed, pool
  <2>2. QED BY <1>1, <1>2, <1>3, <1>5, <2>1 DEF PlaceInv
<1>6. QED BY <1>4, <1>5 DEF AcceptClient, h

(* The handshake ends with the connection in the pool, or closed. *)
LEMMA PlaceShaken ==
  ASSUME TypeOK, PlaceInv, HandshakeDone \/ HandshakeFails
  PROVE  PlaceInv'
<1>1. /\ accept = "handshake" /\ accept' = "checking" /\ hand' = NoClient
      /\ UNCHANGED <<server, backlog>> /\ hand # NoClient
      /\ \A c \in Clients : client'[c] = "away" => client[c] = "away"
  <2>1. CASE HandshakeDone
    BY <2>1 DEF HandshakeDone, net, PlaceInv
  <2>2. CASE HandshakeFails
    BY <2>2 DEF HandshakeFails, PlaceInv, TypeOK, Connections
  <2>3. QED BY <2>1, <2>2
<1>2. hand \in Connections /\ NoClient \notin Connections
  BY <1>1, ServerAssumption DEF TypeOK, ServerAssumption, Connections
<1>3. \A i \in 1..Len(backlog) : backlog[i] # NoClient
  BY <1>2 DEF TypeOK
<1>4. Handed' = Handed \/ Handed' = Handed \cup {hand}
  BY DEF HandshakeDone, HandshakeFails, Pool!Submit, pool, Handed
<1>5. \A i \in 1..Len(backlog) : backlog[i] # hand
  BY DEF PlaceInv
<1>6. NoClient \notin Handed' /\ Handed' \subseteq Connections
  BY <1>2, <1>4 DEF PlaceInv
<1>7. \A i \in 1..Len(backlog) : backlog[i] \notin Handed' \cup {NoClient}
  BY <1>3, <1>4, <1>5 DEF PlaceInv
<1>8. \A c \in Clients : client[c] = "away" => c \notin Handed' \cup {NoClient}
  BY <1>2, <1>4 DEF PlaceInv, Connections
<1>9. server # "dropped" => Self \notin Handed' \cup {NoClient}
  BY <1>2, <1>4 DEF PlaceInv, Connections
<1>10. QED BY <1>1, <1>6, <1>7, <1>8, <1>9 DEF PlaceInv

LEMMA PlaceStep == TypeOK /\ PlaceInv /\ [Next]_vars => PlaceInv'
<1> SUFFICES ASSUME TypeOK, PlaceInv, [Next]_vars PROVE PlaceInv'
  OBVIOUS
<1> USE DEF pool, net, loop, users, Places
<1>1. CASE CheckClose
  <2>1. CASE close
    BY <1>1, <2>1, PlaceEnded DEF CheckClose
  <2>2. CASE ~close
    BY <1>1, <2>2, PlaceAside DEF CheckClose
  <2>3. QED BY <2>1, <2>2
<1>2. CASE AcceptClient
  BY <1>2, PlaceAccepted
<1>3. CASE HandshakeDone \/ HandshakeFails
  BY <1>3, PlaceShaken
<1>4. CASE AcceptFails
  BY <1>4, PlaceEnded DEF AcceptFails
<1>5. ASSUME NEW c \in Clients, Connect(c) PROVE PlaceInv'
  <2>1. c \in Connections /\ c # Self
    BY ServerAssumption DEF Connections, ServerAssumption
  <2>2. /\ client[c] = "away" /\ backlog' = Append(backlog, c)
        /\ \A d \in Clients : client'[d] = "away" => client[d] = "away" /\ d # c
        /\ UNCHANGED <<server, accept, hand, waiting, running, over>>
    BY <1>5 DEF Connect, TypeOK, Connections
  <2>3. c \notin Handed \cup {hand} /\ \A i \in 1..Len(backlog) : backlog[i] # c
    BY <2>2 DEF PlaceInv
  <2>4. QED BY <2>1, <2>2, <2>3, PlaceQueued
<1>6. ASSUME NEW c \in Clients, HangUp(c) PROVE PlaceInv'
  <2>1. \A d \in Clients : client'[d] = "away" => client[d] = "away"
    BY <1>6 DEF HangUp, TypeOK, Connections
  <2>2. QED BY <1>6, <2>1, PlaceAside DEF HangUp
<1>7. ASSUME NEW c \in Connections, StartTask(c) \/ EndTask(c) PROVE PlaceInv'
  <2>1. Handed' = Handed
    BY <1>7 DEF StartTask, EndTask, Pool!Start, Pool!Leave, Handed
  <2>2. UNCHANGED <<backlog, hand, accept, client, server>>
    BY <1>7 DEF StartTask, EndTask
  <2>3. QED BY <2>1, <2>2 DEF PlaceInv
<1>8. ASSUME NEW c \in Connections, PushRequest(c) PROVE PlaceInv'
  BY <1>8, PlaceAside DEF PushRequest
<1>9. ASSUME NEW r \in Receivers, CallRecv(r) \/ RecvReturns(r) \/ TryRecv(r) PROVE PlaceInv'
  BY <1>9, PlaceAside DEF CallRecv, RecvReturns, TryRecv
<1>10. ASSUME NEW rq \in Requests, Answer(rq) PROVE PlaceInv'
  BY <1>10, PlaceAside DEF Answer
<1>11. CASE UnblockOne \/ DropStores
  BY <1>11, PlaceAside DEF UnblockOne, DropStores
<1>12. CASE DropConnects
  <2>1. server = "closing" /\ server' = "dropped" /\ UNCHANGED <<loop, pool>>
    BY <1>12 DEF DropConnects
  <2>2. CASE UNCHANGED net
    BY <2>1, <2>2, PlaceAside
  <2>3. CASE /\ backlog' = Append(backlog, Self)
             /\ client' = [client EXCEPT ![Self] = "closed"]
    <3>1. Self \notin Handed \cup {hand} /\ \A i \in 1..Len(backlog) : backlog[i] # Self
      BY <2>1 DEF PlaceInv
    <3>2. \A d \in Clients : client'[d] = "away" => client[d] = "away" /\ d # Self
      BY <2>3, ServerAssumption DEF TypeOK, Connections, ServerAssumption
    <3>3. Self \in Connections
      BY DEF Connections
    <3>4. QED BY <2>1, <2>3, <3>1, <3>2, <3>3, PlaceQueued
  <2>4. QED BY <1>12, <2>2, <2>3 DEF DropConnects
<1>13. CASE UNCHANGED vars
  BY <1>13, PlaceAside DEF vars
<1>14. QED
  BY <1>1, <1>2, <1>3, <1>4, <1>5, <1>6, <1>7, <1>8, <1>9, <1>10, <1>11, <1>12, <1>13
     DEF Next, Accept, Run

(* The pool refuses a connection it has: the accept thread never meets that. *)
SubmitAccepted ==
  /\ accept = "accepting" /\ backlog # <<>> => Head(backlog) \in Connections \ Handed
  /\ accept = "handshake" => hand \in Connections \ Handed

LEMMA PlaceInit == Init => PlaceInv
<1> SUFFICES ASSUME Init PROVE PlaceInv
  OBVIOUS
<1>1. /\ backlog = <<>> /\ hand = NoClient /\ accept = "checking"
      /\ Handed = {} /\ server = "live"
  BY DEF Init, Pool!Init, Handed
<1>2. Len(backlog) = 0
  BY <1>1
<1>3. NoClient \notin Connections /\ Clients \subseteq Connections /\ Self \in Connections
  BY ServerAssumption DEF ServerAssumption, Connections
<1>4. QED BY <1>1, <1>2, <1>3 DEF PlaceInv

(* A connection is accepted once and runs once: whatever the accept thread hands
   to spawn is a connection that is not in the pool and was never there. *)
THEOREM EachSubmittedOnce == Spec => []SubmitAccepted
<1>1. TypeOK /\ PlaceInv => SubmitAccepted
  <2> SUFFICES ASSUME TypeOK, PlaceInv PROVE SubmitAccepted
    OBVIOUS
  <2>1. backlog # <<>> => Head(backlog) \in Connections \ Handed
    BY PlaceHead
  <2>2. accept = "handshake" => hand \in Connections \ Handed
    BY DEF TypeOK, PlaceInv
  <2>3. QED BY <2>1, <2>2 DEF SubmitAccepted
<1>2. QED BY <1>1, PlaceInit, PlaceStep, TypeCorrect, PTL DEF Spec
=============================================================================
