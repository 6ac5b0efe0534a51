-------------------------------- MODULE Server --------------------------------
(***************************************************************************)
(* The HTTP server (tiny-http/src/lib.rs): the accept thread, the loops    *)
(* that run the connections, the receiving calls of the user's threads and *)
(* the drop of the Server.                                                 *)
(*                                                                         *)
(* It composes the specifications of its two parts: the connections run on *)
(* Workers, which TaskPool implements, and the requests go through a       *)
(* MessageLog, which MessagesQueue implements. What happens inside of one  *)
(* connection is ClientConnection; here a connection delivers requests and *)
(* ends.                                                                   *)
(***************************************************************************)
EXTENDS Naturals, Sequences, FiniteSets

CONSTANTS
  Clients,      (* connections that clients may make                         *)
  Silent,       (* those whose client says nothing, for as long as it likes  *)
  Self,         (* the connection that the drop of the server makes          *)
  NoClient,
  Receivers,    (* threads that receive requests                             *)
  Error,        (* Message::Error, a failed accept                           *)
  Unblock,      (* the token of unblock()                                    *)
  None,
  MaxRequests,  (* bound: the number of requests on each connection          *)
  MaxUnblocks   (* bound: the number of calls of unblock                     *)

ASSUME ServerAssumption ==
  /\ Silent \subseteq Clients
  /\ Self \notin Clients /\ NoClient \notin Clients \cup {Self}
  /\ {Error, Unblock, None} \cap (Clients \X (1..MaxRequests)) = {}
  /\ MaxRequests \in Nat /\ MaxUnblocks \in Nat

VARIABLES
  secure,       (* whether the server was given an SslConfig                 *)
  server,       (* "live", "closing" (close is stored), "dropped"            *)
  accept,       (* the accept thread: "checking", "accepting", "handshake",  *)
                (* "ended"                                                   *)
  hand,         (* the client in the TLS handshake                           *)
  backlog,      (* connections the kernel holds until they are accepted      *)
  client,       (* each client's end: "away", "open", "closed"               *)
  knocked,      (* whether the drop could connect to the server              *)
  late,         (* history: connections accepted after close was stored      *)
  waiting, running, over,   (* the tasks of the pool, see Workers            *)
  asked,        (* requests each connection has delivered                    *)
  awaiting,     (* connections whose HTTPS loop waits for a notification     *)
  sent, taken, result,      (* the messages, see MessageLog                  *)
  calls,        (* what each receiver is inside of                           *)
  held          (* requests received and not yet answered                    *)

pool  == <<waiting, running, over>>
log   == <<sent, taken, result>>
net   == <<backlog, client>>
loop  == <<accept, hand, late>>
users == <<calls, held>>
vars  == <<secure, server, knocked, loop, net, pool, asked, awaiting, log, users>>

Connections == Clients \cup {Self}
Requests    == Clients \X (1..MaxRequests)

Pool == INSTANCE Workers WITH
          Tasks   <- Connections,
          waiting <- waiting,
          running <- running,
          over    <- over

Log == INSTANCE MessageLog WITH
         Consumers <- Receivers,
         Values    <- Requests \cup {Error},
         sent      <- sent,
         taken     <- taken,
         result    <- result

TypeOK ==
  /\ secure \in BOOLEAN
  /\ server \in {"live", "closing", "dropped"} /\ knocked \in BOOLEAN
  /\ accept \in {"checking", "accepting", "handshake", "ended"}
  /\ hand \in Connections \cup {NoClient} /\ late \in Nat
  /\ backlog \in Seq(Connections)
  /\ client \in [Connections -> {"away", "open", "closed"}]
  /\ asked \in [Connections -> 0..MaxRequests] /\ awaiting \subseteq running
  /\ calls \in [Receivers -> {"none", "recv", "next", "over"}]
  /\ held \subseteq Requests

(* Server::new: the accept thread is about to look at the close flag. *)
Init ==
  /\ secure \in BOOLEAN
  /\ server = "live" /\ knocked = FALSE
  /\ accept = "checking" /\ hand = NoClient /\ late = 0
  /\ backlog = <<>> /\ client = [c \in Connections |-> "away"]
  /\ Pool!Init /\ Log!Init
  /\ asked = [c \in Connections |-> 0] /\ awaiting = {}
  /\ calls = [r \in Receivers |-> "none"] /\ held = {}
-----------------------------------------------------------------------------
(* The clients. *)

Connect(c) ==
  /\ client[c] = "away" /\ accept # "ended"
  /\ client' = [client EXCEPT ![c] = "open"]
  /\ backlog' = Append(backlog, c)
  /\ UNCHANGED <<secure, server, knocked, loop, pool, asked, awaiting, log, users>>

HangUp(c) ==
  /\ client[c] = "open"
  /\ client' = [client EXCEPT ![c] = "closed"]
  /\ UNCHANGED <<secure, server, knocked, loop, backlog, pool, asked, awaiting,
                 log, users>>
-----------------------------------------------------------------------------
(* The accept thread. *)

close == server # "live"

(* The closure ends and drops the listener: who is not accepted is turned away. *)
EndAccept ==
  /\ accept' = "ended"
  /\ backlog' = <<>>
  /\ client' = [c \in Connections |->
       IF \E i \in 1..Len(backlog) : backlog[i] = c THEN "closed" ELSE client[c]]

(* Mutant: the flag is looked at only before the loop. *)
NeverLeaveLoop ==
  /\ accept = "checking"
  /\ accept' = "accepting" /\ UNCHANGED net
  /\ UNCHANGED <<secure, server, knocked, hand, late, pool, asked, awaiting, log,
                 users>>

(* while !close *)
CheckClose ==
  /\ accept = "checking"
  /\ IF close THEN EndAccept ELSE accept' = "accepting" /\ UNCHANGED net
  /\ UNCHANGED <<secure, server, knocked, hand, late, pool, asked, awaiting, log,
                 users>>

(* accept returned a socket: over HTTPS the handshake follows in this thread. *)
AcceptClient ==
  /\ accept = "accepting" /\ backlog # <<>>
  /\ backlog' = Tail(backlog)
  /\ late' = IF close THEN late + 1 ELSE late
  /\ \/ ~secure /\ accept' = "checking" /\ Pool!Submit(Head(backlog)) /\ UNCHANGED hand
     \/ secure /\ accept' = "handshake" /\ hand' = Head(backlog) /\ UNCHANGED pool
  /\ UNCHANGED <<secure, server, knocked, client, asked, awaiting, log, users>>

HandshakeDone ==
  /\ accept = "handshake" /\ client[hand] = "open" /\ hand \notin Silent
  /\ Pool!Submit(hand)
  /\ accept' = "checking" /\ hand' = NoClient
  /\ UNCHANGED <<secure, server, knocked, late, net, asked, awaiting, log, users>>

(* Mutant: the handshake is tried again where the code continues. *)
HandshakeRetries ==
  /\ accept = "handshake" /\ (client[hand] = "closed" \/ hand \notin Silent)
  /\ client' = [client EXCEPT ![hand] = "closed"]
  /\ UNCHANGED <<secure, server, knocked, loop, backlog, pool, asked, awaiting, log,
                 users>>

(* The client is gone, or what it says is not TLS: its socket is closed. *)
HandshakeFails ==
  /\ accept = "handshake" /\ (client[hand] = "closed" \/ hand \notin Silent)
  /\ accept' = "checking" /\ hand' = NoClient
  /\ client' = [client EXCEPT ![hand] = "closed"]
  /\ UNCHANGED <<secure, server, knocked, late, backlog, pool, asked, awaiting, log,
                 users>>

(* Any error of accept ends the thread, and is queued for one receiver. *)
AcceptFails ==
  /\ accept = "accepting"
  /\ Log!Send(Error)
  /\ EndAccept
  /\ UNCHANGED <<secure, server, knocked, hand, late, pool, asked, awaiting, users>>
-----------------------------------------------------------------------------
(* The connections, each run by a thread of the pool. *)

StartTask(c) ==
  /\ Pool!Start(c)
  /\ UNCHANGED <<secure, server, knocked, loop, net, asked, awaiting, log, users>>

(* Mutant: the HTTPS loop does not wait. *)
AwaitNobody(c) == awaiting

(* receiver.recv() follows the push over HTTPS. *)
AwaitAnswer(c) == IF secure THEN awaiting \cup {c} ELSE awaiting

(* client.next() returned a request. *)
PushRequest(c) ==
  /\ c \in running \ awaiting /\ c \in Clients \ Silent /\ asked[c] < MaxRequests
  /\ asked' = [asked EXCEPT ![c] = @ + 1]
  /\ Log!Send(<<c, asked[c] + 1>>)
  /\ awaiting' = AwaitAnswer(c)
  /\ UNCHANGED <<secure, server, knocked, loop, net, pool, users>>

(* Mutant: the channel is closed by the drop of the request it waits for. *)
EndTaskWaiting(c) ==
  /\ client[c] = "closed" \/ c \notin Silent
  /\ Pool!Leave(c)
  /\ UNCHANGED <<secure, server, knocked, loop, net, asked, awaiting, log, users>>

(* client.next() returned None: the client is gone, or asked for the end. *)
EndTask(c) ==
  /\ c \notin awaiting /\ (client[c] = "closed" \/ c \notin Silent)
  /\ Pool!Leave(c)
  /\ UNCHANGED <<secure, server, knocked, loop, net, asked, awaiting, log, users>>
-----------------------------------------------------------------------------
(* The user's threads. A receiver borrows the Server while it is inside. *)

CallRecv(r) ==
  /\ server = "live" /\ calls[r] = "none"
  /\ \E call \in {"recv", "next"} : calls' = [calls EXCEPT ![r] = call]
  /\ UNCHANGED <<secure, server, knocked, loop, net, pool, asked, awaiting, log, held>>

(* Only a request is held; an error and an Unblock token are not. *)
Hold(r) == held' = held \cup ({result'[r]} \cap Requests)

(* recv returns the message or an error; next turns both errors into None, and
   the loop over incoming_requests() ends. *)
RecvReturns(r) ==
  /\ calls[r] \in {"recv", "next"}
  /\ Log!Receive(r)
  /\ Hold(r)
  /\ calls' = [calls EXCEPT ![r] =
       IF calls[r] = "next" /\ result'[r] \notin Requests THEN "over" ELSE "none"]
  /\ UNCHANGED <<secure, server, knocked, loop, net, pool, asked, awaiting>>

(* try_recv and recv_timeout take a message if they see one, or return. *)
TryRecv(r) ==
  /\ server = "live" /\ calls[r] = "none"
  /\ (Log!Receive(r) /\ Hold(r)) \/ (Log!ReturnNothing(r) /\ UNCHANGED held)
  /\ UNCHANGED <<secure, server, knocked, loop, net, pool, asked, awaiting, calls>>

Unblocks == Cardinality({i \in 1..Len(sent) : sent[i] = Unblock})

UnblockOne ==
  /\ server = "live" /\ Unblocks < MaxUnblocks
  /\ Log!Send(Unblock)
  /\ UNCHANGED <<secure, server, knocked, loop, net, pool, asked, awaiting, users>>

(* Respond, or drop: either way the HTTPS loop of its connection is notified. *)
Answer(rq) ==
  /\ rq \in held
  /\ held' = held \ {rq}
  /\ awaiting' = awaiting \ {rq[1]}
  /\ UNCHANGED <<secure, server, knocked, loop, net, pool, asked, log, calls>>

(* Drop for Server: store close, connect and hang up at once. *)
DropStores ==
  /\ server = "live" /\ \A r \in Receivers : calls[r] \notin {"recv", "next"}
  /\ server' = "closing"
  /\ UNCHANGED <<secure, knocked, loop, net, pool, asked, awaiting, log, users>>

(* Mutant: the drop does not connect. *)
DropQuietly ==
  /\ server = "closing"
  /\ server' = "dropped" /\ knocked' = (accept # "ended")
  /\ UNCHANGED <<secure, loop, net, pool, asked, awaiting, log, users>>

(* The connect fails if the listener is gone; it may fail for other reasons. *)
DropConnects ==
  /\ server = "closing"
  /\ server' = "dropped"
  /\ \/ /\ accept # "ended"
        /\ knocked' = TRUE
        /\ backlog' = Append(backlog, Self)
        /\ client' = [client EXCEPT ![Self] = "closed"]
     \/ UNCHANGED <<knocked, net>>
  /\ UNCHANGED <<secure, loop, pool, asked, awaiting, log, users>>
-----------------------------------------------------------------------------
Accept == CheckClose \/ AcceptClient \/ HandshakeDone \/ HandshakeFails

Run(c) == StartTask(c) \/ PushRequest(c) \/ EndTask(c)

Next ==
  \/ \E c \in Clients : Connect(c) \/ HangUp(c)
  \/ Accept \/ AcceptFails
  \/ \E c \in Connections : Run(c)
  \/ \E r \in Receivers : CallRecv(r) \/ RecvReturns(r) \/ TryRecv(r)
  \/ \E rq \in Requests : Answer(rq)
  \/ UnblockOne \/ DropStores \/ DropConnects

Spec == Init /\ [][Next]_vars

(* Threads run; clients that are not silent say what they have to say; users
   call recv again and answer what they hold. Nobody has to drop the server, but
   a drop goes on. A connection need not start while a silent client occupies a
   thread: the pool may queue it behind that thread (EveryTaskRuns of TaskPool). *)
FairSpec ==
  /\ Spec
  /\ WF_vars(Accept) /\ WF_vars(DropConnects)
  /\ \A c \in Connections :
       /\ WF_vars(PushRequest(c) \/ EndTask(c))
       /\ WF_vars(Silent \cap running = {} /\ StartTask(c))
  /\ \A r \in Receivers : WF_vars(CallRecv(r)) /\ WF_vars(RecvReturns(r))
  /\ \A rq \in Requests : WF_vars(Answer(rq))
-----------------------------------------------------------------------------
(* The accept thread looks at the flag before every accept, so after the drop
   began it takes at most one more connection: its own, or a client that came
   before it. *)
AtMostOneAfterClose == late <= 1

(* "Synchronization is needed for HTTPS requests": whatever receivers do, at
   most one request of an HTTPS connection is queued or held at a time. *)
InFlight == Requests \cap (held \cup {sent[i] : i \in (taken + 1)..Len(sent)})

OneInFlight ==
  secure => \A rq, other \in InFlight : rq[1] = other[1] => rq = other

(* The handshake is made by the accept thread: with a client that says nothing
   it waits as long as that client likes, and nobody else is accepted. *)
Stuck == accept = "handshake" /\ hand \in Silent /\ client[hand] = "open"

(* "Connect briefly to ourselves to unblock the accept thread": if the drop can
   connect, the thread ends, unless a silent client holds it in a handshake. *)
AcceptThreadEnds == (server = "dropped" /\ knocked) ~> (accept = "ended" \/ Stuck)

Received(rq) == \E i \in 1..taken : sent[i] = rq

Behind(c) == c \in waiting /\ Silent \cap running # {}

(* From the kernel's backlog through the accept thread, a pool thread and the
   queue, to a receiver: the first request of a client that speaks is received,
   unless the server is dropped, the client or its connection ends first, no
   loop receives any more, or a silent client holds the accept thread or the
   thread that the connection was queued for. *)
RequestServed ==
  \A c \in Clients :
    (client[c] = "open" /\ c \notin Silent)
      ~> \/ Received(<<c, 1>>) \/ client[c] = "closed" \/ c \in over
         \/ server # "live" \/ Stuck \/ Behind(c) \/ \A r \in Receivers : calls[r] = "over"
=============================================================================
