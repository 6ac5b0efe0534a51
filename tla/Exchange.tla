------------------------------- MODULE Exchange -------------------------------
(***************************************************************************)
(* The framing of requests and responses on one connection of tiny-http:   *)
(* which bytes of the stream a request's body reader takes (request.rs,    *)
(* util/equal_reader.rs, util/fused_reader.rs), and what the client makes  *)
(* of the bytes that Response::raw_print writes (response.rs).             *)
(*                                                                         *)
(* The requests come one after the other; how several are in flight is     *)
(* ClientConnection. Bytes of a body are all alike, heads are one unit:    *)
(* a unit is <<"head", ...>>, <<"data">> or <<"end">>, the last chunk.     *)
(* Bodies of requests that are chunked are read by an external decoder and *)
(* left out, like upgrades.                                                *)
(***************************************************************************)
EXTENDS Integers, Sequences, FiniteSets

CONSTANTS
  Requests,     (* what the client may ask, see RequestType                  *)
  Statuses,     (* status codes of the user's responses                      *)
  MaxBody,      (* bound: the length of a response's body                    *)
  MaxSent,      (* bound: the number of requests                             *)
  MaxRead,      (* bound: the size of the buffers that the user reads into   *)
  BUFFERED,     (* bodies up to this length are read at once: 1024           *)
  THRESHOLD,    (* chunked_threshold                                         *)
  None

RequestType ==
  [method : {"GET", "HEAD"}, version : {10, 11}, length : Nat, expect : BOOLEAN,
   te : Seq({"identity", "chunked", "gzip"} \X Nat)]

ASSUME ExchangeAssumption ==
  /\ \A r \in Requests : r \in RequestType /\ (r.expect => r.version = 11)
  /\ Statuses \subseteq 200..599
  /\ MaxBody \in Nat /\ MaxSent \in Nat /\ BUFFERED \in Nat /\ THRESHOLD \in Nat
  /\ None \notin Int

VARIABLES
  input,        (* what the client sent and the server did not read          *)
  owed,         (* how much of its last body the client has not sent         *)
  patient,      (* whether it waits for 100 Continue or an answer first      *)
  gone,         (* whether it hung up                                        *)
  pending,      (* its requests without an answer                            *)
  count,        (* the number of its requests                                *)
  output,       (* what the server wrote and the client did not read         *)
  meant,        (* history: the responses in output, as the user meant them  *)
  phase,        (* "header", "filling", "held", "raw", "closed", or reading  *)
                (* the rest of a body: "skipping" (inside of a read),        *)
                (* "unpacking" (inside of into_writer), "draining"           *)
  rq,           (* the request that was read last                            *)
  must,         (* must_send_continue                                        *)
  answered,     (* whether respond took the writer                           *)
  left,         (* size of the EqualReader, or what the buffer still lacks   *)
  got,          (* how much of the body the user has read                    *)
  ended         (* history: how the body ended for the user: "open", "eof",  *)
                (* "empty" (by a read into an empty buffer)                  *)

client == <<owed, patient, gone, pending, count>>
reader == <<rq, must, answered, left, got, ended>>
vars   == <<input, client, output, meant, phase, reader>>

DataUnit == <<"data">>
Draining == {"skipping", "unpacking", "draining"}
Lesser(a, b) == IF a < b THEN a ELSE b
-----------------------------------------------------------------------------
(* Building a response. *)

Forbidden == {"Connection", "Trailer", "Transfer-Encoding", "Upgrade"}

(* Mutant: headers are added as they are. *)
AddAnyHeader(res, h) == [res EXCEPT !.headers = Append(@, h)]

AddHeader(res, h) ==
  LET old == {i \in DOMAIN res.headers : res.headers[i][1] = "Content-Type"} IN
  CASE h[1] \in Forbidden -> res
    [] h[1] = "Content-Length" -> [res EXCEPT !.length = h[2]]
    [] h[1] = "Content-Type" /\ old # {} ->
         [res EXCEPT !.headers = [i \in DOMAIN @ |-> IF i \in old THEN h ELSE @[i]]]
    [] OTHER -> [res EXCEPT !.headers = Append(@, h)]

NewResponse(status, body, length, headers) ==
  LET with[n \in 0..Len(headers)] ==
        IF n = 0
        THEN [status |-> status, body |-> body, length |-> length, headers |-> <<>>]
        ELSE AddHeader(with[n - 1], headers[n])
  IN  with[Len(headers)]

EmptyResponse(status) == NewResponse(status, 0, 0, <<>>)

(* The encoding of TE with the highest q that the server knows, the first of
   several; q=0 is none. *)
ParseTe(te) ==
  LET known == {i \in DOMAIN te : te[i][2] > 0 /\ te[i][1] \in {"identity", "chunked"}}
      best  == {i \in known : \A j \in known : \/ te[i][2] > te[j][2]
                                               \/ te[i][2] = te[j][2] /\ i <= j}
  IN  IF known = {} THEN None ELSE te[CHOOSE i \in best : TRUE][1]

ChooseTransferEncoding(res, r) ==
  CASE r.version <= 10 -> "identity"
    [] r.version > 10 /\ (res.status < 200 \/ res.status = 204) -> "identity"
    [] OTHER -> IF ParseTe(r.te) # None THEN ParseTe(r.te)
                ELSE IF res.length = None \/ res.length >= THRESHOLD THEN "chunked"
                ELSE "identity"

(* Mutant: 304 is left out. *)
WithoutBodyButOne(status) == status \in 100..199 \cup {204}

WithoutBody(status) == status \in 100..199 \cup {204, 304}

(* The bytes of a response. If no length is known and none may be left out, the
   body is read first to learn it. The drop of the Encoder writes the last chunk. *)
RawPrint(res, r, doNotSendBody) ==
  LET encoding == ChooseTransferEncoding(res, r)
      length == IF res.length = None /\ encoding = "identity" THEN res.body
                ELSE res.length
      framing == IF encoding = "chunked" THEN <<"Transfer-Encoding", "chunked">>
                 ELSE <<"Content-Length", length>>
      body == [i \in 1..res.body |-> DataUnit]
  IN  <<<<"head", res.status, Append(res.headers, framing)>>>> \o
      CASE doNotSendBody \/ WithoutBody(res.status) -> <<>>
        [] OTHER -> IF encoding = "chunked" THEN Append(body, <<"end">>)
                    ELSE IF length >= 1 THEN body ELSE <<>>
-----------------------------------------------------------------------------
(* What a client takes for the response to r: the rules of RFC 7230, 3.3.3. *)

Bodiless(r, status) == r.method = "HEAD" \/ status < 200 \/ status \in {204, 304}

Fields(name) == {i \in DOMAIN output[1][3] : output[1][3][i][1] = name}

Ends == {i \in DOMAIN output : output[i][1] = "end"}

Extent(r) ==
  CASE Bodiless(r, output[1][2]) -> 1
    [] OTHER ->
         IF Fields("Transfer-Encoding") # {}
         THEN IF Ends = {} THEN Len(output) + 1
              ELSE CHOOSE i \in Ends : \A j \in Ends : i <= j
         ELSE IF Fields("Content-Length") # {}
         THEN 1 + output[1][3][CHOOSE i \in Fields("Content-Length") : TRUE][2]
         ELSE Len(output)

TypeOK ==
  /\ input \in Seq({DataUnit} \cup {<<"head", r>> : r \in Requests})
  /\ owed \in Nat /\ patient \in BOOLEAN /\ gone \in BOOLEAN
  /\ pending \in Seq(Requests) /\ count \in 0..MaxSent
  /\ \A i \in DOMAIN output : output[i][1] \in {"head", "data", "end"}
  /\ meant \in Seq([status : Nat, data : Nat])
  /\ phase \in {"header", "filling", "held", "raw", "closed"} \cup Draining
  /\ rq \in Requests \cup {None} /\ must \in BOOLEAN /\ answered \in BOOLEAN
  /\ left \in Nat /\ got \in Nat /\ ended \in {"open", "empty", "eof"}

Init ==
  /\ input = <<>> /\ output = <<>> /\ meant = <<>>
  /\ owed = 0 /\ patient = FALSE /\ gone = FALSE /\ pending = <<>> /\ count = 0
  /\ phase = "header" /\ rq = None /\ must = FALSE /\ answered = FALSE
  /\ left = 0 /\ got = 0 /\ ended = "open"
-----------------------------------------------------------------------------
(* The client. It sends the next request when the body of this one is sent. *)

SendRequest(r) ==
  /\ ~gone /\ owed = 0 /\ count < MaxSent /\ r \in Requests
  /\ count' = count + 1
  /\ input' = Append(input, <<"head", r>>)
  /\ pending' = Append(pending, r)
  /\ owed' = r.length /\ patient' = (r.expect /\ r.length > 0)
  /\ UNCHANGED <<gone, output, meant, phase, reader>>

SendBody ==
  /\ ~gone /\ owed > 0 /\ ~patient
  /\ owed' = owed - 1
  /\ input' = Append(input, DataUnit)
  /\ UNCHANGED <<patient, gone, pending, count, output, meant, phase, reader>>

HangUp ==
  /\ ~gone
  /\ gone' = TRUE
  /\ UNCHANGED <<input, owed, patient, pending, count, output, meant, phase, reader>>

(* An answer, or 100 Continue, ends the patience of the client that waits for it. *)
ReadResponse ==
  /\ ~gone /\ output # <<>>
  /\ LET n == Extent(Head(pending)) IN
       /\ n <= Len(output)
       /\ output' = SubSeq(output, n + 1, Len(output))
  /\ pending' = IF output[1][2] = 100 THEN pending ELSE Tail(pending)
  /\ patient' = (patient /\ Len(pending) > 1)
  /\ meant' = Tail(meant)
  /\ UNCHANGED <<input, owed, gone, count, phase, reader>>
-----------------------------------------------------------------------------
(* The connection thread. *)

(* Mutant: bodies that are expected are buffered as well. *)
IsBufferedAlways(r) == r.length <= BUFFERED

IsBuffered(r) == r.length <= BUFFERED /\ ~r.expect

(* Read a head; new_request reads a small body into a buffer and leaves a longer
   one to an EqualReader. A body in the place of a head makes no request line: the
   answer is 400 and the end. *)
ReadHeader ==
  /\ phase = "header" /\ input # <<>>
  /\ input' = Tail(input)
  /\ IF input[1][1] = "head"
     THEN LET r == input[1][2] IN
          /\ rq' = r /\ must' = r.expect /\ left' = r.length
          /\ answered' = FALSE /\ got' = 0 /\ ended' = "open"
          /\ phase' = IF r.length > 0 /\ IsBuffered(r) THEN "filling" ELSE "held"
     ELSE phase' = "closed" /\ UNCHANGED reader
  /\ UNCHANGED <<client, output, meant>>

ReadEof ==
  /\ phase = "header" /\ input = <<>> /\ gone
  /\ phase' = "closed"
  /\ UNCHANGED <<input, client, output, meant, reader>>

(* A read of the stream: some bytes, not more than are there and are asked for. *)
Read(n, asked) ==
  /\ n \in 1..Lesser(asked, Len(input))
  /\ input' = SubSeq(input, n + 1, Len(input))

AtEof == input = <<>> /\ gone /\ UNCHANGED input

Fill ==
  /\ phase = "filling"
  /\ \/ \E n \in 1..left :
          /\ Read(n, left)
          /\ left' = left - n
          /\ phase' = IF left' = 0 THEN "held" ELSE "filling"
     \/ AtEof /\ phase' = "closed" /\ UNCHANGED left
  /\ UNCHANGED <<client, output, meant, rq, must, answered, got, ended>>

(* Mutant: a read of length 0 does not end the loop. *)
DrainOnly ==
  /\ phase \in Draining /\ left > 0
  /\ \E n \in 1..left : Read(n, left) /\ left' = left - n
  /\ UNCHANGED <<client, output, meant, phase, rq, must, answered, got, ended>>

(* The drop of an EqualReader reads the rest of the body and throws it away. *)
Drain ==
  /\ phase \in Draining /\ left > 0
  /\ \/ \E n \in 1..left : Read(n, left) /\ left' = left - n
     \/ AtEof /\ left' = 0
  /\ UNCHANGED <<client, output, meant, phase, rq, must, answered, got, ended>>

(* After a request that is the last one the connection is closed. *)
Drained ==
  /\ phase \in Draining /\ left = 0
  /\ phase' = CASE phase = "skipping" -> "held"
                [] phase = "unpacking" -> "raw"
                [] phase = "draining" -> IF rq.version = 10 THEN "closed" ELSE "header"
  /\ UNCHANGED <<input, client, output, meant, reader>>
-----------------------------------------------------------------------------
(* The user, who holds the request. *)

Write(res, doNotSendBody) ==
  /\ output' = output \o RawPrint(res, rq, doNotSendBody)
  /\ meant' = Append(meant, [status |-> res.status, data |-> res.body])

(* as_reader of a request that expects it sends 100 Continue. *)
AsReader ==
  /\ phase = "held" /\ must /\ ~answered
  /\ must' = FALSE
  /\ Write(EmptyResponse(100), TRUE)
  /\ UNCHANGED <<input, client, phase, rq, answered, left, got, ended>>

(* The body is read with as_reader, which panics if 100 Continue is due after the
   answer: the request is dropped. *)
Reading == phase = "held" /\ ~must

InBuffer == rq.length > 0 /\ IsBuffered(rq)

ReadBuffer(size) ==
  /\ Reading /\ InBuffer
  /\ got' = got + Lesser(size, rq.length - got)
  /\ ended' = IF got' = got THEN "eof" ELSE ended
  /\ UNCHANGED <<input, client, output, meant, phase, rq, must, answered, left>>

(* Mutant: the buffer of the read is not cut to the size. *)
WholeBuffer(size) == size

Asked(size) == Lesser(size, left)

(* Mutant: the size shrinks by what was asked for. *)
ShrinkByAsked(size, read) == left - Asked(size)

Shrink(size, read) == left - read

ReadStream(size) ==
  /\ Reading /\ ~InBuffer /\ left > 0
  /\ \E n \in 1..size :
       /\ Read(n, Asked(size))
       /\ left' = Shrink(size, n)
       /\ got' = got + n
  /\ UNCHANGED <<client, output, meant, phase, rq, must, answered, ended>>

(* A read that returns 0: the FusedReader drops the EqualReader. *)
ReadEnds ==
  /\ Reading /\ ~InBuffer
  /\ (left = 0 /\ UNCHANGED input) \/ AtEof
  /\ left' = 0
  /\ ended' = IF ended = "open" THEN "eof" ELSE ended
  /\ UNCHANGED <<client, output, meant, phase, rq, must, answered, got>>

(* So it does when the buffer of the read is empty: the rest of the body is lost. *)
ReadIntoNothing ==
  /\ Reading /\ ~InBuffer /\ left > 0
  /\ phase' = "skipping" /\ ended' = "empty"
  /\ UNCHANGED <<input, client, output, meant, rq, must, answered, left, got>>

UserHeaders(body) ==
  {<<>>, <<<<"Content-Length", body>>, <<"Transfer-Encoding", "chunked">>,
           <<"Content-Type", "a">>, <<"Connection", "close">>, <<"Content-Type", "b">>>>}

(* respond with the length left open or given, as it is. *)
Respond(status, body) ==
  /\ phase = "held" /\ ~answered
  /\ answered' = TRUE
  /\ \E length \in {None, body}, headers \in UserHeaders(body) :
       Write(NewResponse(status, body, length, headers), rq.method = "HEAD")
  /\ UNCHANGED <<input, client, phase, rq, must, left, got, ended>>

(* The drop of a Request that was not answered sends 500. Its fields are dropped
   afterwards, among them the reader. *)
Drop ==
  /\ phase = "held"
  /\ phase' = "draining"
  /\ IF answered THEN UNCHANGED <<output, meant>>
     ELSE Write(EmptyResponse(500), rq.method = "HEAD")
  /\ UNCHANGED <<input, client, reader>>

(* into_writer drops the Request and its reader before it returns the writer. *)
IntoWriter ==
  /\ phase = "held" /\ ~answered
  /\ phase' = "unpacking" /\ answered' = TRUE
  /\ UNCHANGED <<input, client, output, meant, rq, must, left, got, ended>>

(* The user writes an answer by hand. *)
WriteByHand ==
  /\ phase = "raw"
  /\ phase' = "draining"
  /\ output' = Append(output, <<"head", 200, <<<<"Content-Length", 0>>>>>>)
  /\ meant' = Append(meant, [status |-> 200, data |-> 0])
  /\ UNCHANGED <<input, client, reader>>
-----------------------------------------------------------------------------
Server == ReadHeader \/ ReadEof \/ Fill \/ Drain \/ Drained

Client == SendBody \/ ReadResponse

User ==
  \/ AsReader \/ ReadEnds \/ ReadIntoNothing \/ Drop \/ IntoWriter \/ WriteByHand
  \/ \E size \in 1..MaxRead : ReadBuffer(size) \/ ReadStream(size)
  \/ \E status \in Statuses, body \in 0..MaxBody : Respond(status, body)

Next == (\E r \in Requests : SendRequest(r)) \/ HangUp \/ Client \/ Server \/ User

Spec == Init /\ [][Next]_vars

(* Threads run, and a client sends the body it announced, unless it waits for 100
   Continue, and reads its answers. The user may hold a request for ever. *)
FairSpec == Spec /\ WF_vars(Server) /\ WF_vars(Client)
-----------------------------------------------------------------------------
(* "It is the responsibility of the Request to read only the data of the request
   and not further": however its body is read, given up or dropped, and however
   the bytes arrive, heads are read as heads and bodies as bodies. *)
FramingKept ==
  [][ LET read == SubSeq(input, 1, Len(input) - Len(input')) IN
      \A i \in DOMAIN read : (read[i][1] = "head") <=> (phase = "header") ]_input

(* A user that reads to the end has read the whole body, unless the client hung
   up or a read into an empty buffer gave the rest up. *)
EofMeansEnd == ended = "eof" => got = rq.length \/ gone

(* With the length that is announced or left open, for every status, method,
   version and TE: the client takes each response for what it was meant to be,
   and finds the next one behind it. "A server MUST NOT send a Transfer-Encoding
   header field in any response with a status code of 1xx or 204", and "HTTP 1.0
   doesn't support other encoding". *)
ResponseUnderstood ==
  output # <<>> =>
    LET n == Extent(Head(pending)) IN
    /\ output[1][1] = "head" /\ output[1][2] = meant[1].status
    /\ Cardinality(Fields("Content-Length") \cup Fields("Transfer-Encoding")) = 1
    /\ Fields("Transfer-Encoding") # {} =>
         Head(pending).version > 10 /\ output[1][2] >= 200 /\ output[1][2] # 204
    /\ Cardinality(Fields("Content-Type")) <= 1
    /\ n <= Len(output)
    /\ n < Len(output) => output[n + 1][1] = "head"
    /\ Cardinality({i \in 1..n : output[i] = DataUnit}) =
         IF Bodiless(Head(pending), meant[1].status) THEN 0 ELSE meant[1].data

(* A thread that waits for the body of a request gets on if the client sends what
   it announced or hangs up; a client that waits for 100 Continue has been told.
   It was not when into_writer drops the reader of a request that expects it: that
   waits for the body before anything was said, and is left out. *)
Waiting == \/ phase \in {"filling", "skipping", "draining"}
           \/ phase = "unpacking" /\ ~must

WaitsEnd == Waiting ~> ~Waiting
=============================================================================
