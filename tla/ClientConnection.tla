--------------------------- MODULE ClientConnection ---------------------------
(***************************************************************************)
(* One client connection of tiny-http: the pool thread that reads its      *)
(* requests (client.rs), the sequential readers and writers that keep the  *)
(* requests and responses of the connection apart (util/sequential.rs),    *)
(* and the Request objects in the hands of the user's threads              *)
(* (request.rs).                                                           *)
(*                                                                         *)
(* A slot is one SequentialWriter, in the order sink.next() makes them.    *)
(* Slot i may write once the writer of slot i-1 was dropped. The header of *)
(* the next request can be read once the SequentialReader of the request   *)
(* before it was dropped. Writing a response takes two steps, so that      *)
(* responses could mix on the wire if the chain let them.                  *)
(***************************************************************************)
EXTENDS Naturals, Sequences, FiniteSets

CONSTANTS
  Users,      (* threads that receive and answer requests                    *)
  MaxSlots,   (* bound: the number of writers handed out                     *)
  Requests,   (* the requests that the client may send                       *)
  Failures,   (* what the connection thread may read instead of a request    *)
  UserOps,    (* what the users do with a request besides answering it       *)
  HoldMany    (* whether a user thread may hold several requests at once     *)

(* What the parts of a request are for. The Request keeps a reader for a "body"
   with a Content-Length, if it is above 1024 bytes or the client asks about it,
   and the whole "stream" after Connection: upgrade; "none" is a request without
   a body, or with one that fits the buffer. expects is Expect: 100-continue,
   last is Connection: close or upgrade, or HTTP/1.0. Chunked bodies are left
   out, whose Decoder is not of this repository. *)
RequestTypes ==
  {r \in [reader : {"none", "body", "stream"}, expects : BOOLEAN, last : BOOLEAN] :
     r.reader = "stream" => r.last}
Bodiless == [reader |-> "none", expects |-> FALSE, last |-> FALSE]

(* "bad":     a malformed header, or a timeout in it: 400 or 408
   "refused": new_request fails with ExpectationFailed or TimedOut: 417 or 408
   "aborted": new_request fails because the body is cut short
   "version": HTTP/2.0 or 3.0, to be answered with 505
   "eof":     the client is gone                                             *)
AllFailures == {"bad", "refused", "aborted", "version", "eof"}
AllOps == {"into_writer", "upgrade"}

ASSUME ConnectionAssumption ==
  /\ Requests \subseteq RequestTypes /\ Failures \subseteq AllFailures
  /\ UserOps \subseteq AllOps
  /\ MaxSlots \in Nat /\ HoldMany \in BOOLEAN
  /\ 0 \notin Users

VARIABLES
  secure,     (* HTTPS: both halves of the stream share one mutex            *)
  conn,       (* where the connection thread is                              *)
  noMore,     (* no_more_requests                                            *)
  used,       (* the number of writers handed out by sink.next()             *)
  request,    (* per slot: the request whose header was read                 *)
  arrived,    (* slots whose body is over: all of it is here, or the client
                 hung up in the middle of it                                 *)
  writer,     (* per slot: "none", "open", "partial", "written", "finished"  *)
  released,   (* slots whose SequentialReader was dropped                    *)
  continued,  (* slots whose 100 Continue was sent                           *)
  rq,         (* the Request of each slot                                    *)
  owner,      (* the user thread that holds it, or 0                         *)
  busy,       (* the call each user thread is inside of: <<what, slot>>      *)
  messages,   (* requests pushed to the server's queue                       *)
  notes,      (* notifications in the channel of the HTTPS loop              *)
  wire        (* what was written to the client: <<slot, part>>              *)

vars == <<secure, conn, noMore, used, request, arrived, writer, released, continued,
          rq, owner, busy, messages, notes, wire>>

Slots == 1..MaxSlots
Free  == <<"none", 0>>

(* The calls of a thread that write, and those that let go of a body's reader. *)
Writing == {"respond", "drop", "continue", "write", "upgrade"}
Reading == {"read", "drain", "unpack", "close"}

TypeOK ==
  /\ secure \in BOOLEAN
  /\ conn \in {"reading", "notify", "error", "http505", "closing", "done"}
  /\ noMore \in BOOLEAN
  /\ used \in 0..MaxSlots
  /\ request \in [Slots -> RequestTypes] /\ arrived \subseteq Slots
  /\ writer \in [Slots -> {"none", "open", "partial", "written", "finished"}]
  /\ released \subseteq Slots /\ continued \subseteq Slots
  /\ rq \in [Slots -> {"none", "queued", "held", "answered", "raw", "stream",
                       "dropping", "gone"}]
  /\ owner \in [Slots -> Users \cup {0}]
  /\ busy \in [Users -> ((Writing \cup Reading) \X Slots) \cup {Free}]
  /\ messages \in Seq(Slots)
  /\ notes \in Nat
  /\ wire \in Seq(Slots \X {"continue", "head", "body"})

Init ==
  /\ secure \in BOOLEAN
  /\ conn = "reading" /\ noMore = FALSE
  /\ used = 0
  /\ request = [i \in Slots |-> Bodiless] /\ arrived = {}
  /\ writer = [i \in Slots |-> "none"]
  /\ released = {} /\ continued = {}
  /\ rq = [i \in Slots |-> "none"]
  /\ owner = [i \in Slots |-> 0]
  /\ busy = [u \in Users |-> Free]
  /\ messages = <<>> /\ notes = 0 /\ wire = <<>>
-----------------------------------------------------------------------------
(* SequentialWriter: the trigger of slot i was sent when slot i-1 was dropped. *)
MyTurn(i) == i > 1 => writer[i - 1] = "finished"

(* SequentialReader: every request before the next header let go of it. *)
HeaderSourceReady == \A i \in Slots : rq[i] # "none" => i \in released

(* The thread is inside read() on the socket. Over HTTPS it holds the mutex of
   the stream meanwhile, and nobody can write; a thread that waits for the bytes
   of a body does the same. *)
InSocketRead == conn = "reading" /\ HeaderSourceReady

(* A thread that reads a body, or drops its reader, waits for the client. *)
WaitsForBody(i) ==
  /\ request[i].reader = "body" /\ i \notin arrived
  /\ \E u \in Users : busy[u] \in Reading \X {i}

StreamFree == ~(secure /\ (InSocketRead \/ \E i \in Slots : WaitsForBody(i)))

(* ClientConnection::next returns None at once after the last request. *)
AfterRequest(last) == IF last THEN "closing" ELSE "reading"

(* Mutant: the HTTPS loop is the HTTP loop. *)
AfterPushAtOnce(last) == AfterRequest(last)

(* The HTTPS loop waits for the request it pushed to be answered. *)
AfterPush(last) == IF secure THEN "notify" ELSE AfterRequest(last)

(* A header was read and makes a Request, which is pushed to the queue. *)
NewRequest(r) ==
  LET i == used + 1 IN
  /\ used' = i
  /\ request' = [request EXCEPT ![i] = r]
  /\ writer' = [writer EXCEPT ![i] = "open"]
  /\ released' = IF r.reader = "none" THEN released \cup {i} ELSE released
  /\ rq' = [rq EXCEPT ![i] = "queued"]
  /\ messages' = Append(messages, i)
  /\ noMore' = r.last
  /\ conn' = AfterPush(r.last)

(* Errors before a writer was taken for the request: one is taken to answer. *)
BadHeader ==
  LET i == used + 1 IN
  /\ used' = i
  /\ writer' = [writer EXCEPT ![i] = "open"]
  /\ conn' = "error"
  /\ UNCHANGED <<request, released, rq, messages, noMore>>

(* new_request failed and dropped the writer it was given, without a word; the
   answer is written with the next one. *)
Refused ==
  LET i == used + 1 IN
  /\ i < MaxSlots
  /\ used' = i + 1
  /\ writer' = [writer EXCEPT ![i] = "finished", ![i + 1] = "open"]
  /\ conn' = "error"
  /\ UNCHANGED <<request, released, rq, messages, noMore>>

Aborted ==
  LET i == used + 1 IN
  /\ used' = i
  /\ writer' = [writer EXCEPT ![i] = "finished"]
  /\ conn' = "closing"
  /\ UNCHANGED <<request, released, rq, messages, noMore>>

(* The answer 505 is written with the next writer while the Request, which owns
   the one before it, is still a local of the same thread. *)
WrongVersion ==
  LET i == used + 1 IN
  /\ i < MaxSlots
  /\ used' = i + 1
  /\ writer' = [writer EXCEPT ![i] = "open", ![i + 1] = "open"]
  /\ conn' = "http505"
  /\ UNCHANGED <<request, released, rq, messages, noMore>>

Eof ==
  /\ conn' = "closing"
  /\ UNCHANGED <<used, request, writer, released, rq, messages, noMore>>

(* ClientConnection::read and next, when the client has sent something. *)
ReadNext ==
  /\ InSocketRead
  /\ \/ used < MaxSlots /\ \E r \in Requests : NewRequest(r)
     \/ used < MaxSlots /\ "bad" \in Failures /\ BadHeader
     \/ used < MaxSlots /\ "refused" \in Failures /\ Refused
     \/ used < MaxSlots /\ "aborted" \in Failures /\ Aborted
     \/ used < MaxSlots /\ "version" \in Failures /\ WrongVersion
     \/ "eof" \in Failures /\ Eof
  /\ UNCHANGED <<secure, arrived, continued, owner, busy, notes, wire>>

(* The client sends the rest of a body, or hangs up in the middle of it; what it
   may go on with is the same, and eof is a part of it. *)
SendBody(i) ==
  /\ request[i].reader = "body" /\ i \notin arrived
  /\ arrived' = arrived \cup {i}
  /\ UNCHANGED <<secure, conn, noMore, used, request, writer, released, continued, rq,
                 owner, busy, messages, notes, wire>>

(* Mutant: try_recv in the place of recv. *)
NotifiedAtOnce ==
  /\ conn = "notify"
  /\ notes' = notes - 1
  /\ conn' = AfterRequest(noMore)
  /\ UNCHANGED <<secure, noMore, used, request, arrived, writer, released, continued, rq,
                 owner, busy, messages, wire>>

(* receiver.recv() of the HTTPS loop. *)
Notified ==
  /\ conn = "notify" /\ notes > 0
  /\ notes' = notes - 1
  /\ conn' = AfterRequest(noMore)
  /\ UNCHANGED <<secure, noMore, used, request, arrived, writer, released, continued, rq,
                 owner, busy, messages, wire>>

(* The connection is dropped. Its header source waits for the reader that an
   unfinished request holds. *)
Close ==
  /\ conn = "closing" /\ HeaderSourceReady
  /\ conn' = "done"
  /\ UNCHANGED <<secure, noMore, used, request, arrived, writer, released, continued, rq,
                 owner, busy, messages, notes, wire>>

(* Mutant: the error is written at once, before the responses that are due. *)
ErrorHeadAtOnce ==
  /\ conn \in {"error", "http505"} /\ writer[used] = "open"
  /\ wire' = Append(wire, <<used, "head">>)
  /\ writer' = [writer EXCEPT ![used] = "partial"]
  /\ UNCHANGED <<secure, conn, noMore, used, request, arrived, released, continued, rq,
                 owner, busy, messages, notes>>

(* Writing an error response with the writer taken last. *)
ErrorHead ==
  /\ conn \in {"error", "http505"} /\ writer[used] = "open" /\ MyTurn(used)
  /\ wire' = Append(wire, <<used, "head">>)
  /\ writer' = [writer EXCEPT ![used] = "partial"]
  /\ UNCHANGED <<secure, conn, noMore, used, request, arrived, released, continued, rq,
                 owner, busy, messages, notes>>

(* After an error the connection closes; after 505 the Request and both writers
   are dropped, and the loop goes on. *)
ErrorRest ==
  /\ conn \in {"error", "http505"} /\ writer[used] = "partial"
  /\ wire' = Append(wire, <<used, "body">>)
  /\ writer' = [i \in Slots |->
       IF i = used \/ (conn = "http505" /\ i = used - 1) THEN "finished" ELSE writer[i]]
  /\ conn' = IF conn = "error" THEN "closing" ELSE "reading"
  /\ UNCHANGED <<secure, noMore, used, request, arrived, released, continued, rq, owner,
                 busy, messages, notes>>
-----------------------------------------------------------------------------
Holds(u, i) == owner[i] = u /\ busy[u] = Free

(* Server::recv; only this connection's requests are in the queue here. *)
Recv(u) ==
  /\ messages # <<>> /\ busy[u] = Free
  /\ HoldMany \/ \A i \in Slots : owner[i] = u => rq[i] = "gone"
  /\ owner' = [owner EXCEPT ![Head(messages)] = u]
  /\ rq' = [rq EXCEPT ![Head(messages)] = "held"]
  /\ messages' = Tail(messages)
  /\ UNCHANGED <<secure, conn, noMore, used, request, arrived, writer, released, continued,
                 busy, notes, wire>>

(* A call takes its thread until it is done: a Writing one first waits for the
   slot's turn, a Reading one for the body. *)
Begin(u, i, call, status) ==
  /\ Holds(u, i) /\ rq[i] = status
  /\ busy' = [busy EXCEPT ![u] = <<call, i>>]
  /\ UNCHANGED <<secure, conn, noMore, used, request, arrived, writer, released,
                 continued, rq, owner, messages, notes, wire>>

Respond(u, i)   == Begin(u, i, "respond", "held")
DropHeld(u, i)  == Begin(u, i, "drop", "held")
AsReader(u, i)  == request[i].expects /\ i \notin continued /\ Begin(u, i, "continue", "held")
Upgrade(u, i)   == "upgrade" \in UserOps /\ Begin(u, i, "upgrade", "held")
WriteRaw(u, i)  == writer[i] = "open" /\ Begin(u, i, "write", "raw")

(* The body is read to its end, through as_reader or through the upgraded
   stream, which does not send 100 Continue. *)
Read(u, i) ==
  /\ request[i].reader = "body" /\ i \notin released
  /\ \/ rq[i] \in {"held", "answered"} /\ (request[i].expects => i \in continued)
     \/ rq[i] = "stream"
  /\ Begin(u, i, "read", rq[i])

(* An answered Request is dropped, and its reader with it. *)
DropAnswered(u, i) == Begin(u, i, "drain", "answered")

(* into_writer consumes the Request and drops its reader before it returns. *)
IntoWriter(u, i) == "into_writer" \in UserOps /\ Begin(u, i, "unpack", "held")

WriteContinue(u) ==
  \E i \in Slots :
    /\ busy[u] = <<"continue", i>> /\ MyTurn(i) /\ StreamFree
    /\ wire' = Append(wire, <<i, "continue">>)
    /\ continued' = continued \cup {i}
    /\ busy' = [busy EXCEPT ![u] = Free]
    /\ UNCHANGED <<secure, conn, noMore, used, request, arrived, writer, released, rq,
                   owner, messages, notes>>

WriteHead(u) ==
  \E i \in Slots :
    /\ busy[u] \in (Writing \ {"continue"}) \X {i}
    /\ writer[i] = "open" /\ MyTurn(i) /\ StreamFree
    /\ wire' = Append(wire, <<i, "head">>)
    /\ writer' = [writer EXCEPT ![i] = "partial"]
    /\ UNCHANGED <<secure, conn, noMore, used, request, arrived, released, continued, rq,
                   owner, busy, messages, notes>>

(* Mutant: the answered Request keeps its writer. *)
WriterKept(call) == "written"

WriterAfter(call) == IF call \in {"respond", "drop"} THEN "finished" ELSE "written"

(* Mutant: both halves of an upgraded stream notify, or the writer's drop does
   it again. *)
NotifyTwice == notes' = IF secure THEN notes + 2 ELSE notes

(* The message that the HTTPS loop waits for. *)
Notify == notes' = IF secure THEN notes + 1 ELSE notes

(* The end of the response. respond drops the writer and then notifies the
   HTTPS loop, and so does the drop of a Request, whose reader is dropped after
   that; upgrade and into_writer keep the writer. *)
WriteRest(u) ==
  \E i \in Slots, call \in Writing \ {"continue"} :
    /\ busy[u] = <<call, i>> /\ writer[i] = "partial"
    /\ wire' = Append(wire, <<i, "body">>)
    /\ busy' = [busy EXCEPT ![u] = IF call = "drop" THEN <<"drain", i>> ELSE Free]
    /\ writer' = [writer EXCEPT ![i] = WriterAfter(call)]
    /\ IF call \in {"respond", "drop"} THEN Notify ELSE UNCHANGED notes
    /\ rq' = [rq EXCEPT ![i] =
         CASE call \in {"respond", "drop"} -> "answered"
           [] call = "upgrade" -> "stream"   [] call = "write" -> "raw"]
    /\ UNCHANGED <<secure, conn, noMore, used, request, arrived, released, continued,
                   owner, messages>>

(* Mutant: an EqualReader that is dropped leaves the rest of the body where it
   is. *)
LeaveTheRest(i) == TRUE

(* Mutant: it reads to the end of the stream and not of the body. *)
ReadOn(i) == request[i].reader # "body"

(* EqualReader: a reader is dropped when what is left of its body was read, and
   a FusedReader drops it when it was read to the end. *)
BodyOver(i) == request[i].reader = "body" => i \in arrived

(* The reader of the body is dropped at the end of the call. *)
DropReader(u) ==
  \E i \in Slots, call \in Reading :
    /\ busy[u] = <<call, i>> /\ BodyOver(i)
    /\ call = "close" => i \notin released
    /\ released' = released \cup {i}
    /\ busy' = IF call = "close" THEN busy ELSE [busy EXCEPT ![u] = Free]
    /\ rq' = [rq EXCEPT ![i] =
         CASE call = "drain" -> "gone" [] call = "unpack" -> "raw"
           [] call \in {"read", "close"} -> rq[i]]
    /\ UNCHANGED <<secure, conn, noMore, used, request, arrived, writer, continued,
                   owner, messages, notes, wire>>

(* NotifyOnDrop sends its notification before what it wraps is dropped: the
   writer, or a CustomStream with the reader before the writer. *)
DropNotifier(u, i) ==
  /\ Holds(u, i) /\ rq[i] \in {"raw", "stream"}
  /\ rq' = [rq EXCEPT ![i] = "dropping"]
  /\ busy' = [busy EXCEPT ![u] = <<"close", i>>]
  /\ Notify
  /\ UNCHANGED <<secure, conn, noMore, used, request, arrived, writer, released,
                 continued, owner, messages, wire>>

(* The drop of a SequentialWriter does not wait for its turn. *)
DropWriter(u) ==
  \E i \in Slots :
    /\ busy[u] = <<"close", i>> /\ i \in released
    /\ rq' = [rq EXCEPT ![i] = "gone"]
    /\ writer' = [writer EXCEPT ![i] = "finished"]
    /\ busy' = [busy EXCEPT ![u] = Free]
    /\ UNCHANGED <<secure, conn, noMore, used, request, arrived, released, continued,
                   owner, messages, notes, wire>>
-----------------------------------------------------------------------------
(* What brings a request that a thread holds to its end. *)
Answer(u, i) == Respond(u, i) \/ DropHeld(u, i) \/ DropAnswered(u, i) \/ DropNotifier(u, i)

Uses(u, i) == Answer(u, i) \/ AsReader(u, i) \/ Upgrade(u, i) \/ WriteRaw(u, i)
                \/ Read(u, i) \/ IntoWriter(u, i)

Writes(u) == WriteContinue(u) \/ WriteHead(u) \/ WriteRest(u)

Drops(u) == DropReader(u) \/ DropWriter(u)

Server == Notified \/ Close \/ ErrorHead \/ ErrorRest

Client == ReadNext \/ \E i \in Slots : SendBody(i)

Next ==
  \/ Client \/ Server
  \/ \E u \in Users : Recv(u) \/ Writes(u) \/ Drops(u)
  \/ \E u \in Users, i \in Slots : Uses(u, i)

Spec == Init /\ [][Next]_vars

(* Every thread runs: the connection's, and a user's as long as it is inside of
   a call, has a request to answer or to drop, or can receive one. Nothing makes
   the client send anything, the rest of a body included. *)
Serves(u) == Recv(u) \/ Writes(u) \/ Drops(u) \/ \E i \in Slots : Answer(u, i)

FairSpec == Spec /\ WF_vars(Server) /\ \A u \in Users : WF_vars(Serves(u))
-----------------------------------------------------------------------------
(* "Tiny-http automatically reorders the responses so that you don't need to
   worry about the order in which you call respond": the bytes that reach the
   client are a ResponseStream, whichever threads answer in whichever order. *)
Stream == INSTANCE ResponseStream
ResponsesInOrder == Stream!Spec

(* A writer that is dropped unwritten does not wait for its turn and gives it to
   the writer behind it: refused requests and raw writers do so. *)
Heads(i) == {a \in 1..Len(wire) : wire[a] = <<i, "head">>}

GivenUp == \E i \in 2..(used - 1) : writer[i] = "finished" /\ Heads(i) = {}

(* The same order for every mix of requests and ways to answer them: the next
   part that is written is one that may follow, unless a writer before it was
   given up unwritten. *)
OrderKept == [][GivenUp \/ Stream!Next]_wire

(* The HTTPS loop gets one notification per request, and only while it waits. *)
OneNotification == notes <= 1 /\ (notes = 1 => conn = "notify")

(* No part of a body is taken for the request behind it: by the time that
   anything more is read as a header, every body before it is over, although
   threads of the user read it, drop it unread or give it up half way. *)
BodyIsNotParsed ==
  [][used' # used => \A i \in 1..used : request[i].reader = "body" => i \in arrived]_vars

(* A body that the client keeps back does not keep a thread for good. *)
BodiesCome == []<>~(\E i \in Slots : WaitsForBody(i))

(* "Synchronization is needed for HTTPS requests to avoid a deadlock": there is
   no request that a client sent and that stays unanswered, over HTTPS as well,
   where nothing can be written while anyone is inside a read. Only the client
   can prevent it, by keeping the rest of a body back from the thread that reads
   it. A client that waits for the 100 Continue does so, and is never told to go
   on when the user calls into_writer, or upgrade and then reads or drops the
   stream. *)
EveryRequestAnswered ==
  BodiesCome => []<>(\A i \in Slots : rq[i] # "none" => writer[i] = "finished")

(* A connection that read its last request, or lost its client, is closed and
   its pool thread is free again, unless the client keeps a body back for good
   that a thread waits for: the drop of a Request waits as its reading does. *)
ConnectionCloses == BodiesCome => ((conn = "closing") ~> (conn = "done"))

(* A thread that answers a request it holds gets done, whatever the others do
   and whatever body the client keeps back: none stays inside of respond. *)
RespondReturns == []<>(\A u \in Users : busy[u][1] # "respond")

(* "This server only supports HTTP versions 1.0 and 1.1": the client that asked
   for another version is told so, and the next request is read. *)
VersionAnswered == (conn = "http505") ~> (conn = "reading")
=============================================================================
