------------------------ MODULE ClientConnectionProofs ------------------------
(***************************************************************************)
(* Safety of a connection for any number of threads, requests and ways to  *)
(* answer them: the responses that reach the client keep the order of the  *)
(* requests, the HTTPS loop gets one notification per request, and no body *)
(* is parsed as a header.                                                  *)
(***************************************************************************)
EXTENDS ClientConnection, TLAPS

(* An error is written with a writer that was taken for it. *)
ErrorTook == conn \in {"error", "http505"} => used >= 1

TypedInv == TypeOK /\ ErrorTook

LEMMA ClientTyped ==
  ASSUME TypedInv, Client
  PROVE  TypedInv'
<1> USE ConnectionAssumption DEF TypedInv, TypeOK, ErrorTook, Slots, ConnectionAssumption
<1>1. CASE "eof" \in Failures /\ Eof /\ ReadNext
  BY <1>1 DEF ReadNext, Eof
<1>2. ASSUME NEW i \in Slots, SendBody(i) PROVE TypedInv'
  BY <1>2 DEF SendBody
<1>3. CASE ReadNext /\ ~Eof
  <2>1. used + 1 \in Slots
    BY <1>3 DEF ReadNext
  <2>2. UNCHANGED <<secure, arrived, continued, owner, busy, notes, wire>>
    BY <1>3 DEF ReadNext
  <2>3. ASSUME NEW r \in Requests, NewRequest(r) PROVE TypedInv'
    <3>1. messages' \in Seq(Slots)
      BY <2>1, <2>3 DEF NewRequest
    <3>2. r \in RequestTypes /\ r.last \in BOOLEAN
      BY <2>3 DEF RequestTypes
    <3>3. conn' \in {"reading", "notify", "closing"} /\ noMore' \in BOOLEAN
      BY <2>3, <3>2 DEF NewRequest, AfterPush, AfterRequest
    <3>4. released' \subseteq Slots /\ request' \in [Slots -> RequestTypes]
      BY <2>1, <2>3, <3>2 DEF NewRequest
    <3>5. /\ writer' \in [Slots -> {"none", "open", "partial", "written", "finished"}]
          /\ rq' \in [Slots -> {"none", "queued", "held", "answered", "raw", "stream",
                                "dropping", "gone"}]
          /\ used' \in 0..MaxSlots
      BY <2>1, <2>3 DEF NewRequest
    <3>6. QED BY <2>2, <3>1, <3>3, <3>4, <3>5
  <2>4. CASE BadHeader
    BY <2>1, <2>2, <2>4 DEF BadHeader
  <2>5. CASE Refused
    <3>1. used' \in Slots /\ used' = used + 1 + 1
      BY <2>1, <2>5 DEF Refused
    <3>2. writer' \in [Slots -> {"none", "open", "partial", "written", "finished"}]
      BY <2>5 DEF Refused
    <3>3. conn' = "error" /\ UNCHANGED <<request, released, rq, messages, noMore>>
      BY <2>5 DEF Refused
    <3>4. QED BY <2>2, <3>1, <3>2, <3>3
  <2>6. CASE Aborted
    BY <2>1, <2>2, <2>6 DEF Aborted
  <2>7. CASE WrongVersion
    <3>1. used' \in Slots /\ used' = used + 1 + 1
      BY <2>1, <2>7 DEF WrongVersion
    <3>2. writer' \in [Slots -> {"none", "open", "partial", "written", "finished"}]
      BY <2>7 DEF WrongVersion
    <3>3. conn' = "http505" /\ UNCHANGED <<request, released, rq, messages, noMore>>
      BY <2>7 DEF WrongVersion
    <3>4. QED BY <2>2, <3>1, <3>2, <3>3
  <2> HIDE DEF TypedInv
  <2>8. QED BY <1>3, <2>3, <2>4, <2>5, <2>6, <2>7 DEF ReadNext
<1> HIDE DEF TypedInv
<1>4. ASSUME ReadNext, Eof PROVE "eof" \in Failures /\ Eof
  <2>1. conn' = "closing" /\ UNCHANGED <<used, writer>>
    BY <1>4 DEF Eof
  <2>2. used \in Nat
    BY DEF TypedInv, TypeOK
  <2>3. QED BY <1>4, <2>1, <2>2 DEF ReadNext, NewRequest, BadHeader, Refused, Aborted, WrongVersion
<1>5. QED BY <1>1, <1>2, <1>3, <1>4 DEF Client

LEMMA ServerTyped ==
  ASSUME TypedInv, Server
  PROVE  TypedInv'
<1> USE ConnectionAssumption DEF TypedInv, TypeOK, ErrorTook, Slots, ConnectionAssumption
<1>1. CASE Notified
  BY <1>1 DEF Notified, AfterRequest
<1>2. CASE Close
  BY <1>2 DEF Close
<1>3. CASE ErrorHead
  <2>1. used \in Slots
    BY <1>3 DEF ErrorHead
  <2>2. QED BY <1>3, <2>1 DEF ErrorHead
<1>4. CASE ErrorRest
  <2>1. used \in Slots
    BY <1>4 DEF ErrorRest
  <2>2. QED BY <1>4, <2>1 DEF ErrorRest
<1>5. QED BY <1>1, <1>2, <1>3, <1>4 DEF Server

LEMMA ThreadTyped ==
  ASSUME TypedInv, NEW u \in Users, Recv(u) \/ Writes(u) \/ Drops(u)
  PROVE  TypedInv'
<1> USE DEF TypedInv, TypeOK, ErrorTook
<1>1. CASE Recv(u)
  <2>1. Head(messages) \in Slots /\ Tail(messages) \in Seq(Slots)
    BY <1>1 DEF Recv
  <2>2. QED BY <1>1, <2>1 DEF Recv
<1>2. CASE WriteContinue(u)
  BY <1>2 DEF WriteContinue
<1>3. CASE WriteHead(u)
  BY <1>3 DEF WriteHead
<1>4. CASE WriteRest(u)
  <2>1. PICK i \in Slots, call \in Writing \ {"continue"} :
          /\ wire' = Append(wire, <<i, "body">>)
          /\ busy' = [busy EXCEPT ![u] = IF call = "drop" THEN <<"drain", i>> ELSE Free]
          /\ writer' = [writer EXCEPT ![i] = WriterAfter(call)]
          /\ IF call \in {"respond", "drop"} THEN Notify ELSE UNCHANGED notes
          /\ rq' = [rq EXCEPT ![i] =
               CASE call \in {"respond", "drop"} -> "answered"
                 [] call = "upgrade" -> "stream"   [] call = "write" -> "raw"]
          /\ UNCHANGED <<secure, conn, noMore, used, request, arrived, released, continued,
                         owner, messages>>
    BY <1>4 DEF WriteRest
  <2>2. \E status \in {"answered", "stream", "raw"} : rq' = [rq EXCEPT ![i] = status]
    BY <2>1 DEF Writing
  <2>3. rq' \in [Slots -> {"none", "queued", "held", "answered", "raw", "stream",
                           "dropping", "gone"}]
    BY <2>2
  <2>4. notes' \in Nat
    BY <2>1 DEF Notify
  <2>5. <<"drain", i>> \in (Writing \cup Reading) \X Slots
    BY DEF Reading
  <2>6. /\ wire' \in Seq(Slots \X {"continue", "head", "body"})
        /\ writer' \in [Slots -> {"none", "open", "partial", "written", "finished"}]
        /\ busy' \in [Users -> ((Writing \cup Reading) \X Slots) \cup {Free}]
    BY <2>1, <2>5 DEF WriterAfter
  <2>7. QED BY <2>1, <2>3, <2>4, <2>6
<1>5. CASE DropReader(u)
  <2>1. PICK i \in Slots, call \in Reading :
          /\ released' = released \cup {i}
          /\ busy' = IF call = "close" THEN busy ELSE [busy EXCEPT ![u] = Free]
          /\ rq' = [rq EXCEPT ![i] =
               CASE call = "drain" -> "gone" [] call = "unpack" -> "raw"
                 [] call \in {"read", "close"} -> rq[i]]
          /\ UNCHANGED <<secure, conn, noMore, used, request, arrived, writer, continued,
                         owner, messages, notes, wire>>
    BY <1>5 DEF DropReader
  <2>2. \E status \in {"gone", "raw", rq[i]} : rq' = [rq EXCEPT ![i] = status]
    BY <2>1 DEF Reading
  <2>3. rq' \in [Slots -> {"none", "queued", "held", "answered", "raw", "stream",
                           "dropping", "gone"}]
    BY <2>2
  <2>4. busy' \in [Users -> ((Writing \cup Reading) \X Slots) \cup {Free}]
    BY <2>1
  <2>5. QED BY <2>1, <2>3, <2>4
<1>6. CASE DropWriter(u)
  BY <1>6 DEF DropWriter
<1>7. QED BY <1>1, <1>2, <1>3, <1>4, <1>5, <1>6 DEF Writes, Drops

LEMMA UsesTyped ==
  ASSUME TypedInv, NEW u \in Users, NEW i \in Slots, Uses(u, i)
  PROVE  TypedInv'
<1> USE DEF TypedInv, TypeOK, ErrorTook
<1>1. ASSUME NEW call \in Writing \cup Reading, NEW status, Begin(u, i, call, status)
      PROVE  TypedInv'
  BY <1>1 DEF Begin
<1>2. CASE DropNotifier(u, i)
  <2>1. <<"close", i>> \in (Writing \cup Reading) \X Slots
    BY DEF Reading
  <2>2. QED BY <1>2, <2>1 DEF DropNotifier, Notify
<1> HIDE DEF TypedInv
<1>3. QED
  BY <1>1, <1>2
  DEF Uses, Answer, Respond, DropHeld, DropAnswered, AsReader, Upgrade, WriteRaw, Read,
      IntoWriter, Writing, Reading

LEMMA Typed == Spec => []TypedInv
<1>1. Init => TypedInv
  <2> SUFFICES ASSUME Init PROVE TypedInv
    OBVIOUS
  <2>1. /\ request \in [Slots -> RequestTypes]
        /\ writer \in [Slots -> {"none", "open", "partial", "written", "finished"}]
        /\ rq \in [Slots -> {"none", "queued", "held", "answered", "raw", "stream",
                             "dropping", "gone"}]
        /\ owner \in [Slots -> Users \cup {0}]
        /\ busy \in [Users -> ((Writing \cup Reading) \X Slots) \cup {Free}]
    BY DEF Init, RequestTypes, Bodiless
  <2>2. messages \in Seq(Slots) /\ wire \in Seq(Slots \X {"continue", "head", "body"})
    BY DEF Init
  <2>3. used \in 0..MaxSlots /\ notes \in Nat
    BY ConnectionAssumption DEF Init, ConnectionAssumption
  <2>4. QED BY <2>1, <2>2, <2>3 DEF Init, TypedInv, TypeOK, ErrorTook
<1>2. TypedInv /\ [Next]_vars => TypedInv'
  <2> SUFFICES ASSUME TypedInv, [Next]_vars PROVE TypedInv'
    OBVIOUS
  <2>1. CASE UNCHANGED vars
    BY <2>1 DEF vars, TypedInv, TypeOK, ErrorTook
  <2>2. QED
    BY <2>1, ClientTyped, ServerTyped, ThreadTyped, UsesTyped DEF Next
<1>3. QED BY <1>1, <1>2, PTL DEF Spec

(* The variables keep their types, for any threads, slots, kinds of requests and
   ways to use them. *)
THEOREM TypeCorrect == Spec => []TypeOK
<1>1. TypedInv => TypeOK
  BY DEF TypedInv
<1>2. QED BY <1>1, Typed, PTL
-----------------------------------------------------------------------------
(* The writer that an error is written with is nobody's: the Request of its
   header was never handed over. After a wrong version that Request keeps the
   writer before it. *)
ErrorInv ==
  /\ conn \in {"error", "http505"} =>
       used \in Slots /\ writer[used] \in {"open", "partial"} /\ rq[used] = "none"
  /\ conn = "http505" =>
       /\ writer[used] = "open"
       /\ used - 1 \in Slots /\ writer[used - 1] = "open" /\ rq[used - 1] = "none"

(* How far the response of a slot is, by where its Request is. *)
SlotInv(i) ==
  /\ i > used => writer[i] = "none"
  /\ writer[i] = "none" => rq[i] = "none"
  /\ rq[i] = "queued" => writer[i] = "open"
  /\ rq[i] = "held" => writer[i] \in {"open", "partial"}
  /\ rq[i] = "raw" => writer[i] \in {"open", "partial", "written"}
  /\ rq[i] = "stream" => writer[i] = "written"
  /\ rq[i] = "dropping" => writer[i] \in {"open", "written"}
  /\ rq[i] \in {"held", "raw"} /\ writer[i] = "partial" =>
       /\ owner[i] \in Users
       /\ busy[owner[i]] \in (Writing \ {"continue"}) \X {i}

AnyCall == Writing \cup Reading

(* A thread inside a call holds the Request that the call is about. *)
CallInv(u) ==
  \A i \in Slots, call \in AnyCall : busy[u] = <<call, i>> =>
    /\ owner[i] = u
    /\ call \in Writing => /\ rq[i] = IF call = "write" THEN "raw" ELSE "held"
                           /\ writer[i] \in {"open", "partial"}
    /\ call = "continue" => writer[i] = "open" /\ i \notin continued
    /\ call = "read" => rq[i] \in {"held", "answered", "stream"}
    /\ call = "drain" => rq[i] = "answered"
    /\ call = "unpack" => rq[i] = "held"
    /\ call = "close" => rq[i] = "dropping"

(* The requests in the queue are different ones that nobody holds yet. *)
QueueInv ==
  /\ \A a \in 1..Len(messages) : rq[messages[a]] = "queued"
  /\ \A a, b \in 1..Len(messages) : messages[a] = messages[b] => a = b

HeldInv ==
  ErrorInv /\ (\A i \in Slots : SlotInv(i)) /\ (\A u \in Users : CallInv(u)) /\ QueueInv

(* A step that leaves the slots of all requests alone, and the threads, keeps
   what is known of the threads and the queue. *)
LEMMA Aside ==
  ASSUME TypeOK, \A u \in Users : CallInv(u), QueueInv,
         UNCHANGED <<owner, busy, continued, messages>>,
         \A i \in Slots : rq[i] # "none" => rq'[i] = rq[i] /\ writer'[i] = writer[i]
  PROVE  (\A u \in Users : CallInv(u)') /\ QueueInv'
<1>1. ASSUME NEW u \in Users PROVE CallInv(u)'
  <2>1. SUFFICES ASSUME NEW i \in Slots, NEW call \in AnyCall, busy[u] = <<call, i>>
                 PROVE  /\ rq'[i] = rq[i] /\ writer'[i] = writer[i]
                        /\ (i \in continued' <=> i \in continued) /\ owner'[i] = owner[i]
    BY <1>1 DEF CallInv
  <2>2. rq[i] # "none"
    BY <1>1, <2>1 DEF CallInv, AnyCall, Writing, Reading
  <2>3. QED BY <2>2
<1>2. \A a \in 1..Len(messages) : messages[a] \in Slots
  BY DEF TypeOK
<1>3. QueueInv'
  BY <1>2 DEF QueueInv
<1>4. QED BY <1>1, <1>3

LEMMA ReadNextHeld ==
  ASSUME TypeOK, HeldInv, ReadNext
  PROVE  HeldInv'
<1>1. /\ conn = "reading" /\ UNCHANGED <<continued, owner, busy>>
      /\ used \in Nat /\ used <= MaxSlots /\ MaxSlots \in Nat
  BY ConnectionAssumption DEF ReadNext, InSocketRead, TypeOK, ConnectionAssumption
<1>2. \A i \in Slots : i > used => writer[i] = "none" /\ rq[i] = "none"
  BY DEF HeldInv, SlotInv
<1>3. CASE Eof
  <2>1. UNCHANGED <<used, writer, rq, messages>> /\ conn' = "closing"
    BY <1>3 DEF Eof
  <2>2. ErrorInv' /\ \A i \in Slots : SlotInv(i)'
    BY <1>1, <2>1 DEF HeldInv, SlotInv, ErrorInv
  <2>3. QED BY <1>1, <2>1, <2>2, Aside DEF HeldInv
<1>4. CASE used < MaxSlots /\ (BadHeader \/ Aborted)
  <2>1. used + 1 \in Slots /\ used' = used + 1 /\ UNCHANGED <<rq, messages>>
    BY <1>1, <1>4 DEF BadHeader, Aborted, Slots
  <2>2. PICK w \in {"open", "finished"} :
          writer' = [writer EXCEPT ![used + 1] = w] /\ (w = "finished" => conn' = "closing")
    BY <1>4 DEF BadHeader, Aborted
  <2>3. conn' \in {"error", "closing"}
    BY <1>4 DEF BadHeader, Aborted
  <2>4. writer'[used + 1] = w /\ \A i \in Slots : i # used + 1 => writer'[i] = writer[i]
    BY <2>1, <2>2 DEF TypeOK
  <2>5. ErrorInv'
    BY <1>1, <1>2, <2>1, <2>2, <2>3, <2>4 DEF ErrorInv
  <2>6. \A i \in Slots : SlotInv(i)'
    BY <1>1, <1>2, <2>1, <2>4 DEF HeldInv, SlotInv, Slots
  <2>7. QED BY <1>1, <1>2, <2>1, <2>4, <2>5, <2>6, Aside DEF HeldInv
<1>5. CASE used < MaxSlots /\ (Refused \/ WrongVersion)
  <2>1. /\ used + 1 \in Slots /\ used + 2 \in Slots /\ used' = used + 2
        /\ UNCHANGED <<rq, messages>>
    BY <1>1, <1>5 DEF Refused, WrongVersion, Slots
  <2>2. PICK w \in {"open", "finished"} :
          /\ writer' = [writer EXCEPT ![used + 1] = w, ![used + 1 + 1] = "open"]
          /\ w = "finished" => conn' = "error"
    BY <1>5 DEF Refused, WrongVersion
  <2>3. conn' \in {"error", "http505"}
    BY <1>5 DEF Refused, WrongVersion
  <2>4. /\ writer'[used + 1] = w /\ writer'[used + 2] = "open"
        /\ \A i \in Slots : i # used + 1 /\ i # used + 2 => writer'[i] = writer[i]
    BY <1>1, <2>1, <2>2 DEF TypeOK
  <2>5. ErrorInv'
    <3>1. used' - 1 = used + 1 /\ used + 1 > used /\ used + 2 > used
      BY <1>1, <2>1
    <3>2. writer'[used'] = "open" /\ rq'[used'] = "none" /\ used' \in Slots
      BY <1>2, <2>1, <2>4, <3>1
    <3>3. conn' = "http505" =>
            used' - 1 \in Slots /\ writer'[used' - 1] = "open" /\ rq'[used' - 1] = "none"
      BY <1>2, <2>1, <2>2, <2>4, <3>1
    <3>4. QED BY <3>2, <3>3 DEF ErrorInv
  <2>6. \A i \in Slots : SlotInv(i)'
    <3>1. \A i \in Slots : i > used' => i > used /\ i # used + 1 /\ i # used + 2
      BY <1>1, <2>1 DEF Slots
    <3>2. ASSUME NEW i \in Slots, i = used + 1 \/ i = used + 2 PROVE SlotInv(i)'
      <4>1. writer'[i] \in {"open", "finished"} /\ rq'[i] = "none" /\ ~(i > used')
        BY <1>1, <1>2, <2>1, <2>4, <3>1, <3>2
      <4>2. QED BY <4>1 DEF SlotInv
    <3>3. ASSUME NEW i \in Slots, i # used + 1, i # used + 2 PROVE SlotInv(i)'
      BY <1>1, <2>1, <2>4, <3>1, <3>3 DEF HeldInv, SlotInv
    <3>4. QED BY <3>2, <3>3
  <2>7. \A i \in Slots : rq[i] # "none" => i # used + 1 /\ i # used + 2
    BY <1>1, <1>2 DEF Slots
  <2>8. QED BY <1>1, <2>1, <2>4, <2>5, <2>6, <2>7, Aside DEF HeldInv
<1>6. CASE used < MaxSlots /\ \E r \in Requests : NewRequest(r)
  <2>1. /\ used + 1 \in Slots /\ used' = used + 1 /\ used + 1 > used
        /\ writer' = [writer EXCEPT ![used + 1] = "open"]
        /\ rq' = [rq EXCEPT ![used + 1] = "queued"]
        /\ messages' = Append(messages, used + 1)
        /\ conn' \in {"reading", "notify", "closing"}
    BY <1>1, <1>6 DEF NewRequest, AfterPush, AfterRequest, Slots
  <2>2. /\ writer'[used + 1] = "open" /\ rq'[used + 1] = "queued"
        /\ \A i \in Slots : i # used + 1 => writer'[i] = writer[i] /\ rq'[i] = rq[i]
    BY <2>1 DEF TypeOK
  <2>3. ErrorInv'
    BY <2>1 DEF ErrorInv
  <2>4. \A i \in Slots : SlotInv(i)'
    <3>1. \A i \in Slots : i > used' => i > used
      BY <1>1, <2>1 DEF Slots
    <3>2. ASSUME NEW i \in Slots, i = used + 1 PROVE SlotInv(i)'
      <4>1. ~(i > used')
        BY <1>1, <2>1, <3>2
      <4>2. QED BY <2>2, <3>2, <4>1 DEF SlotInv
    <3>3. ASSUME NEW i \in Slots, i # used + 1 PROVE SlotInv(i)'
      BY <1>1, <2>1, <2>2, <3>1, <3>3 DEF HeldInv, SlotInv
    <3>4. QED BY <3>2, <3>3
  <2>5. ASSUME NEW u \in Users PROVE CallInv(u)'
    <3>1. \A i \in Slots : rq[i] # "none" => i # used + 1
      BY <1>2, <2>1
    <3>2. QED BY <1>1, <2>2, <3>1 DEF HeldInv, CallInv
  <2>6. QueueInv'
    <3>1. /\ Len(messages) \in Nat /\ Len(messages') = Len(messages) + 1
          /\ messages'[Len(messages) + 1] = used + 1
          /\ \A a \in 1..Len(messages) : messages'[a] = messages[a] /\ messages[a] \in Slots
      BY <2>1 DEF TypeOK
    <3>2. \A a \in 1..Len(messages) : messages[a] # used + 1
      BY <1>2, <2>1 DEF HeldInv, QueueInv
    <3>3. \A a \in 1..Len(messages') : a \in 1..Len(messages) \/ a = Len(messages) + 1
      BY <3>1
    <3>4. QED BY <2>2, <3>1, <3>2, <3>3 DEF HeldInv, QueueInv
  <2>7. QED BY <2>3, <2>4, <2>5, <2>6 DEF HeldInv
<1>7. QED BY <1>3, <1>4, <1>5, <1>6 DEF ReadNext

LEMMA ServerHeld ==
  ASSUME TypeOK, HeldInv, Server
  PROVE  HeldInv'
<1>1. CASE Notified
  <2>1. UNCHANGED <<used, writer, continued, rq, owner, busy, messages>>
        /\ conn' \in {"reading", "closing"}
    BY <1>1 DEF Notified, AfterRequest
  <2>2. ErrorInv' /\ \A i \in Slots : SlotInv(i)'
    BY <2>1 DEF HeldInv, SlotInv, ErrorInv
  <2>3. QED BY <2>1, <2>2, Aside DEF HeldInv
<1>2. CASE Close
  <2>1. UNCHANGED <<used, writer, continued, rq, owner, busy, messages>> /\ conn' = "done"
    BY <1>2 DEF Close
  <2>2. ErrorInv' /\ \A i \in Slots : SlotInv(i)'
    BY <2>1 DEF HeldInv, SlotInv, ErrorInv
  <2>3. QED BY <2>1, <2>2, Aside DEF HeldInv
<1>3. CASE ErrorHead
  <2>1. /\ UNCHANGED <<conn, used, continued, rq, owner, busy, messages>>
        /\ conn \in {"error", "http505"} /\ MyTurn(used)
        /\ writer' = [writer EXCEPT ![used] = "partial"]
    BY <1>3 DEF ErrorHead
  <2>2. used \in Slots /\ rq[used] = "none" /\ writer[used] # "none"
    BY <2>1 DEF HeldInv, ErrorInv
  <2>3. conn = "error"
    BY <2>1 DEF HeldInv, ErrorInv, MyTurn, Slots
  <2>4. writer'[used] = "partial" /\ \A i \in Slots : i # used => writer'[i] = writer[i]
    BY <2>1, <2>2 DEF TypeOK
  <2>5. ErrorInv' /\ \A i \in Slots : SlotInv(i)'
    BY <2>1, <2>2, <2>3, <2>4 DEF HeldInv, SlotInv, ErrorInv
  <2>6. QED BY <2>1, <2>2, <2>4, <2>5, Aside DEF HeldInv
<1>4. CASE ErrorRest
  <2>1. conn = "error"
    BY <1>4 DEF ErrorRest, HeldInv, ErrorInv
  <2>2. /\ UNCHANGED <<used, continued, rq, owner, busy, messages>> /\ conn' = "closing"
        /\ \A i \in Slots : writer'[i] = IF i = used THEN "finished" ELSE writer[i]
    BY <1>4, <2>1 DEF ErrorRest
  <2>3. used \in Slots /\ rq[used] = "none" /\ writer[used] # "none"
    BY <2>1 DEF HeldInv, ErrorInv
  <2>4. ErrorInv' /\ \A i \in Slots : SlotInv(i)'
    BY <2>2, <2>3 DEF HeldInv, SlotInv, ErrorInv
  <2>5. QED BY <2>2, <2>3, <2>4, Aside DEF HeldInv
<1>5. QED BY <1>1, <1>2, <1>3, <1>4 DEF Server

LEMMA RecvHeld ==
  ASSUME TypeOK, HeldInv, NEW u \in Users, Recv(u)
  PROVE  HeldInv'
<1> DEFINE h == Head(messages)
<1>1. /\ messages # <<>> /\ busy[u] = Free /\ messages' = Tail(messages)
      /\ owner' = [owner EXCEPT ![h] = u] /\ rq' = [rq EXCEPT ![h] = "held"]
      /\ UNCHANGED <<conn, used, writer, continued, busy>>
  BY DEF Recv
<1>2. /\ Len(messages) \in Nat /\ Len(messages) >= 1 /\ h = messages[1] /\ h \in Slots
      /\ Len(messages') = Len(messages) - 1
      /\ \A a \in 1..Len(messages') : messages'[a] = messages[a + 1] /\ a + 1 \in 1..Len(messages)
      /\ \A a \in 1..Len(messages) : messages[a] \in Slots
  BY <1>1 DEF TypeOK
<1>3. rq[h] = "queued" /\ writer[h] = "open"
  BY <1>2 DEF HeldInv, QueueInv, SlotInv
<1> HIDE DEF h
<1>4. /\ rq'[h] = "held" /\ owner'[h] = u
      /\ \A i \in Slots : i # h => rq'[i] = rq[i] /\ owner'[i] = owner[i]
  BY <1>1, <1>2 DEF TypeOK
<1>5. ErrorInv'
  BY <1>1, <1>3, <1>4 DEF HeldInv, ErrorInv
<1>6. \A i \in Slots : SlotInv(i)'
  BY <1>1, <1>3, <1>4 DEF HeldInv, SlotInv
<1>7. ASSUME NEW v \in Users PROVE CallInv(v)'
  <2>1. CallInv(v)
    BY DEF HeldInv
  <2>2. SUFFICES ASSUME NEW i \in Slots, NEW call \in AnyCall, busy[v] = <<call, i>>
                 PROVE  rq'[i] = rq[i] /\ owner'[i] = owner[i]
    BY <1>1, <2>1 DEF CallInv
  <2>3. rq[i] # "queued"
    BY <2>1, <2>2 DEF CallInv, AnyCall, Writing, Reading
  <2>4. QED BY <1>3, <1>4, <2>3
<1>8. QueueInv'
  <2>1. \A a \in 1..Len(messages') : messages[a + 1] # h
    BY <1>2 DEF HeldInv, QueueInv
  <2>2. \A a \in 1..Len(messages') : rq'[messages'[a]] = "queued"
    BY <1>2, <1>4, <2>1 DEF HeldInv, QueueInv
  <2>3. \A a, b \in 1..Len(messages') : messages'[a] = messages'[b] => a = b
    <3>1. SUFFICES ASSUME NEW a \in 1..Len(messages'), NEW b \in 1..Len(messages'),
                          messages'[a] = messages'[b]
                   PROVE  a = b
      OBVIOUS
    <3>2. a + 1 = b + 1
      BY <1>2, <3>1 DEF HeldInv, QueueInv
    <3>3. QED BY <1>2, <3>2
  <2>4. QED BY <2>2, <2>3 DEF QueueInv
<1>9. QED BY <1>5, <1>6, <1>7, <1>8 DEF HeldInv

(* What a step does that only touches one slot, whose Request this thread
   holds. *)
LEMMA OwnSlot ==
  ASSUME TypeOK, HeldInv, NEW u \in Users, NEW i \in Slots, owner[i] = u,
         rq[i] \notin {"none", "queued"}, busy[u] = Free \/ \E call \in AnyCall : busy[u] = <<call, i>>,
         UNCHANGED <<conn, used, owner, messages>>,
         \A j \in Slots : j # i => rq'[j] = rq[j] /\ writer'[j] = writer[j]
                                  /\ (j \in continued' <=> j \in continued),
         \A v \in Users : v # u => busy'[v] = busy[v],
         busy'[u] = Free \/ \E call \in AnyCall : busy'[u] = <<call, i>>,
         rq'[i] \notin {"none", "queued"}, SlotInv(i)', CallInv(u)'
  PROVE  HeldInv'
<1>1. ErrorInv'
  BY DEF HeldInv, ErrorInv
<1>2. ASSUME NEW j \in Slots, j # i PROVE SlotInv(j)'
  <2>1. rq[j] \in {"held", "raw"} /\ writer[j] = "partial" =>
          owner[j] # u
    BY <1>2 DEF HeldInv, SlotInv, Free, AnyCall, Writing
  <2>2. QED BY <1>2, <2>1 DEF HeldInv, SlotInv
<1>3. ASSUME NEW v \in Users, v # u PROVE CallInv(v)'
  <2>1. \A j \in Slots, call \in AnyCall : busy[v] = <<call, j>> => j # i
    BY <1>3 DEF HeldInv, CallInv
  <2>2. QED BY <1>3, <2>1 DEF HeldInv, CallInv
<1>4. QueueInv'
  <2>1. \A a \in 1..Len(messages) : messages[a] \in Slots /\ messages[a] # i
    BY DEF TypeOK, HeldInv, QueueInv
  <2>2. QED BY <2>1 DEF HeldInv, QueueInv
<1>5. QED BY <1>1, <1>2, <1>3, <1>4 DEF HeldInv

(* A thread that is inside no call that writes has not begun to write for what
   it holds. *)
LEMMA NotBegun ==
  ASSUME TypeOK, HeldInv, NEW u \in Users, NEW i \in Slots, owner[i] = u,
         busy[u] = Free \/ \E call \in Reading : busy[u] = <<call, i>>,
         rq[i] \in {"held", "raw"}
  PROVE  writer[i] # "partial"
BY DEF HeldInv, SlotInv, Free, Writing, Reading

LEMMA WritesHeld ==
  ASSUME TypeOK, HeldInv, NEW u \in Users, Writes(u)
  PROVE  HeldInv'
<1>1. CASE WriteContinue(u)
  <2>1. PICK i \in Slots :
          /\ busy[u] = <<"continue", i>>
          /\ continued' = continued \cup {i} /\ busy' = [busy EXCEPT ![u] = Free]
          /\ UNCHANGED <<conn, used, writer, rq, owner, messages>>
    BY <1>1 DEF WriteContinue
  <2>2. owner[i] = u /\ rq[i] = "held" /\ writer[i] = "open" /\ "continue" \in AnyCall
    BY <2>1 DEF HeldInv, CallInv, AnyCall, Writing
  <2>3. busy'[u] = Free /\ \A v \in Users : v # u => busy'[v] = busy[v]
    BY <2>1 DEF TypeOK
  <2>4. CallInv(u)'
    BY <2>3 DEF CallInv, Free, AnyCall, Writing, Reading
  <2>5. SlotInv(i)'
    BY <2>1, <2>2 DEF HeldInv, SlotInv
  <2>6. QED BY <2>1, <2>2, <2>3, <2>4, <2>5, OwnSlot
<1>2. CASE WriteHead(u)
  <2>1. PICK i \in Slots :
          /\ busy[u] \in (Writing \ {"continue"}) \X {i} /\ writer[i] = "open"
          /\ writer' = [writer EXCEPT ![i] = "partial"]
          /\ UNCHANGED <<conn, used, continued, rq, owner, busy, messages>>
    BY <1>2 DEF WriteHead
  <2>2. PICK call \in Writing \ {"continue"} : busy[u] = <<call, i>>
    BY <2>1
  <2>3. owner[i] = u /\ rq[i] \in {"held", "raw"} /\ call \in AnyCall
    BY <2>2 DEF HeldInv, CallInv, AnyCall
  <2>4. writer'[i] = "partial" /\ \A j \in Slots : j # i => writer'[j] = writer[j]
    BY <2>1 DEF TypeOK
  <2>5. CallInv(u)'
    BY <2>1, <2>2, <2>4 DEF HeldInv, CallInv
  <2>6. SlotInv(i)'
    BY <2>1, <2>3, <2>4 DEF HeldInv, SlotInv
  <2>7. QED BY <2>1, <2>2, <2>3, <2>4, <2>5, <2>6, OwnSlot
<1>3. CASE WriteRest(u)
  <2>1. PICK i \in Slots, call \in Writing \ {"continue"} :
          /\ busy[u] = <<call, i>> /\ writer[i] = "partial"
          /\ busy' = [busy EXCEPT ![u] = IF call = "drop" THEN <<"drain", i>> ELSE Free]
          /\ writer' = [writer EXCEPT ![i] = WriterAfter(call)]
          /\ rq' = [rq EXCEPT ![i] =
               CASE call \in {"respond", "drop"} -> "answered"
                 [] call = "upgrade" -> "stream"   [] call = "write" -> "raw"]
          /\ UNCHANGED <<conn, used, continued, owner, messages>>
    BY <1>3 DEF WriteRest
  <2>2. owner[i] = u /\ rq[i] \in {"held", "raw"} /\ call \in AnyCall /\ "drain" \in AnyCall
    BY <2>1 DEF HeldInv, CallInv, AnyCall, Reading
  <2>3. /\ rq'[i] \in {"answered", "stream", "raw"} /\ writer'[i] \in {"finished", "written"}
        /\ rq'[i] \in {"raw", "stream"} => writer'[i] = "written"
        /\ call = "drop" => rq'[i] = "answered"
    BY <2>1 DEF TypeOK, Writing, WriterAfter
  <2>4. \A j \in Slots : j # i => writer'[j] = writer[j] /\ rq'[j] = rq[j]
    BY <2>1 DEF TypeOK
  <2>5. /\ busy'[u] = IF call = "drop" THEN <<"drain", i>> ELSE Free
        /\ \A v \in Users : v # u => busy'[v] = busy[v]
    BY <2>1 DEF TypeOK
  <2>6. CallInv(u)'
    BY <2>1, <2>2, <2>3, <2>5 DEF CallInv, Free, AnyCall, Writing, Reading
  <2>7. SlotInv(i)'
    BY <2>1, <2>3 DEF HeldInv, SlotInv
  <2>8. /\ busy'[u] = Free \/ \E c \in AnyCall : busy'[u] = <<c, i>>
        /\ rq[i] \notin {"none", "queued"} /\ rq'[i] \notin {"none", "queued"}
    BY <2>2, <2>3, <2>5
  <2>9. QED BY <2>1, <2>2, <2>4, <2>5, <2>6, <2>7, <2>8, OwnSlot
<1>4. QED BY <1>1, <1>2, <1>3 DEF Writes

LEMMA DropsHeld ==
  ASSUME TypeOK, HeldInv, NEW u \in Users, Drops(u)
  PROVE  HeldInv'
<1>1. CASE DropReader(u)
  <2>1. PICK i \in Slots, call \in Reading :
          /\ busy[u] = <<call, i>>
          /\ busy' = IF call = "close" THEN busy ELSE [busy EXCEPT ![u] = Free]
          /\ rq' = [rq EXCEPT ![i] =
               CASE call = "drain" -> "gone" [] call = "unpack" -> "raw"
                 [] call \in {"read", "close"} -> rq[i]]
          /\ UNCHANGED <<conn, used, writer, continued, owner, messages>>
    BY <1>1 DEF DropReader
  <2>2. /\ owner[i] = u /\ rq[i] \in {"held", "answered", "stream", "dropping"}
        /\ call = "unpack" => rq[i] = "held"
        /\ call = "close" => rq[i] = "dropping"
        /\ call \in AnyCall
    BY <2>1 DEF HeldInv, CallInv, AnyCall, Reading
  <2>3. \/ rq'[i] = rq[i]
        \/ rq'[i] = "gone"
        \/ rq'[i] = "raw" /\ rq[i] = "held"
    BY <2>1, <2>2 DEF TypeOK, Reading
  <2>4. call = "close" => rq'[i] = rq[i]
    BY <2>1 DEF TypeOK
  <2>5. \A j \in Slots : j # i => rq'[j] = rq[j]
    BY <2>1 DEF TypeOK
  <2>6. /\ busy'[u] = IF call = "close" THEN busy[u] ELSE Free
        /\ \A v \in Users : v # u => busy'[v] = busy[v]
    BY <2>1 DEF TypeOK
  <2>7. CallInv(u)'
    BY <2>1, <2>2, <2>4, <2>6 DEF CallInv, Free, AnyCall, Writing, Reading
  <2>8. SlotInv(i)'
    <3>1. rq[i] = "held" => writer[i] = "open"
      BY <2>1, <2>2, NotBegun DEF HeldInv, SlotInv
    <3>2. ASSUME rq'[i] = "held" \/ rq'[i] = "raw" PROVE writer'[i] = "open"
      BY <2>1, <2>2, <2>3, <3>1, <3>2
    <3>3. QED BY <2>1, <2>2, <2>3, <3>2 DEF HeldInv, SlotInv
  <2>9. QED BY <2>1, <2>2, <2>3, <2>5, <2>6, <2>7, <2>8, OwnSlot
<1>2. CASE DropWriter(u)
  <2>1. PICK i \in Slots :
          /\ busy[u] = <<"close", i>>
          /\ rq' = [rq EXCEPT ![i] = "gone"] /\ writer' = [writer EXCEPT ![i] = "finished"]
          /\ busy' = [busy EXCEPT ![u] = Free]
          /\ UNCHANGED <<conn, used, continued, owner, messages>>
    BY <1>2 DEF DropWriter
  <2>2. owner[i] = u /\ rq[i] = "dropping" /\ "close" \in AnyCall
    BY <2>1 DEF HeldInv, CallInv, AnyCall, Reading
  <2>3. /\ rq'[i] = "gone" /\ writer'[i] = "finished" /\ busy'[u] = Free
        /\ \A j \in Slots : j # i => rq'[j] = rq[j] /\ writer'[j] = writer[j]
        /\ \A v \in Users : v # u => busy'[v] = busy[v]
    BY <2>1 DEF TypeOK
  <2>4. CallInv(u)'
    BY <2>3 DEF CallInv, Free, AnyCall, Writing, Reading
  <2>5. SlotInv(i)'
    BY <2>1, <2>2, <2>3 DEF HeldInv, SlotInv
  <2>6. QED BY <2>1, <2>2, <2>3, <2>4, <2>5, OwnSlot
<1>3. QED BY <1>1, <1>2 DEF Drops

LEMMA UsesHeld ==
  ASSUME TypeOK, HeldInv, NEW u \in Users, NEW i \in Slots, Uses(u, i)
  PROVE  HeldInv'
<1>1. ASSUME NEW call \in AnyCall, NEW status \in {"held", "raw", "answered", "stream"},
             Begin(u, i, call, status),
             call \in Writing => status = (IF call = "write" THEN "raw" ELSE "held"),
             call = "write" => writer[i] = "open",
             call = "continue" => i \notin continued,
             call = "read" => status # "raw",
             call = "drain" => status = "answered",
             call = "unpack" => status = "held",
             call # "close"
      PROVE  HeldInv'
  <2>1. /\ owner[i] = u /\ busy[u] = Free /\ rq[i] = status
        /\ busy' = [busy EXCEPT ![u] = <<call, i>>]
        /\ UNCHANGED <<conn, used, writer, continued, rq, owner, messages>>
    BY <1>1 DEF Begin, Holds
  <2>2. busy'[u] = <<call, i>> /\ \A v \in Users : v # u => busy'[v] = busy[v]
    BY <2>1 DEF TypeOK
  <2>3. status = "held" => writer[i] = "open"
    BY <2>1, NotBegun DEF HeldInv, SlotInv
  <2>4. call \in Writing => writer[i] = "open"
    BY <1>1, <2>3
  <2>5. \A j \in Slots, c \in AnyCall : busy'[u] = <<c, j>> => c = call /\ j = i
    BY <2>2
  <2>6. CallInv(u)'
    BY <1>1, <2>1, <2>2, <2>4, <2>5 DEF CallInv, Writing
  <2>7. SlotInv(i)'
    <3>1. rq[i] \in {"held", "raw"} => writer[i] # "partial"
      BY <2>1, NotBegun
    <3>2. QED BY <2>1, <3>1 DEF HeldInv, SlotInv
  <2>8. QED BY <1>1, <2>1, <2>2, <2>6, <2>7, OwnSlot
<1>2. CASE DropNotifier(u, i)
  <2>1. /\ owner[i] = u /\ busy[u] = Free /\ rq[i] \in {"raw", "stream"}
        /\ rq' = [rq EXCEPT ![i] = "dropping"] /\ busy' = [busy EXCEPT ![u] = <<"close", i>>]
        /\ UNCHANGED <<conn, used, writer, continued, owner, messages>>
    BY <1>2 DEF DropNotifier, Holds
  <2>2. /\ rq'[i] = "dropping" /\ busy'[u] = <<"close", i>> /\ "close" \in AnyCall
        /\ \A j \in Slots : j # i => rq'[j] = rq[j]
        /\ \A v \in Users : v # u => busy'[v] = busy[v]
    BY <2>1 DEF TypeOK, AnyCall, Reading
  <2>3. CallInv(u)'
    BY <2>1, <2>2 DEF CallInv, AnyCall, Writing, Reading
  <2>4. SlotInv(i)'
    <3>1. rq[i] = "raw" => writer[i] \in {"open", "written"}
      BY <2>1, NotBegun DEF HeldInv, SlotInv
    <3>2. QED BY <2>1, <2>2, <3>1 DEF HeldInv, SlotInv
  <2>5. QED BY <2>1, <2>2, <2>3, <2>4, OwnSlot
<1>3. CASE Read(u, i)
  <2>1. PICK status \in {"held", "answered", "stream"} : Begin(u, i, "read", status)
    BY <1>3 DEF Read
  <2>2. QED BY <1>1, <2>1 DEF AnyCall, Reading, Writing
<1>4. CASE \/ Respond(u, i) \/ DropHeld(u, i) \/ AsReader(u, i) \/ Upgrade(u, i)
           \/ WriteRaw(u, i)
  BY <1>1, <1>4 DEF Respond, DropHeld, AsReader, Upgrade, WriteRaw, AnyCall, Writing
<1>5. CASE DropAnswered(u, i) \/ IntoWriter(u, i)
  BY <1>1, <1>5 DEF DropAnswered, IntoWriter, AnyCall, Writing, Reading
<1>6. QED BY <1>2, <1>3, <1>4, <1>5 DEF Uses, Answer

(* HeldInv holds in every reachable state. *)
LEMMA Held == Spec => []HeldInv
<1>1. Init => HeldInv
  BY DEF Init, HeldInv, ErrorInv, SlotInv, CallInv, QueueInv, Free, AnyCall, Writing, Reading
<1>2. TypedInv /\ HeldInv /\ [Next]_vars => HeldInv'
  <2> SUFFICES ASSUME TypedInv, HeldInv, [Next]_vars PROVE HeldInv'
    OBVIOUS
  <2>1. TypeOK
    BY DEF TypedInv
  <2>2. CASE UNCHANGED vars
    <3>1. UNCHANGED <<conn, used, writer, continued, rq, owner, busy, messages>>
      BY <2>2 DEF vars
    <3>2. ErrorInv' /\ \A j \in Slots : SlotInv(j)'
      BY <3>1 DEF HeldInv, ErrorInv, SlotInv
    <3>3. QED BY <2>1, <3>1, <3>2, Aside DEF HeldInv
  <2>3. ASSUME NEW i \in Slots, SendBody(i) PROVE HeldInv'
    <3>1. UNCHANGED <<conn, used, writer, continued, rq, owner, busy, messages>>
      BY <2>3 DEF SendBody
    <3>2. ErrorInv' /\ \A j \in Slots : SlotInv(j)'
      BY <3>1 DEF HeldInv, ErrorInv, SlotInv
    <3>3. QED BY <2>1, <3>1, <3>2, Aside DEF HeldInv
  <2>4. QED
    BY <2>1, <2>2, <2>3, ReadNextHeld, ServerHeld, RecvHeld, WritesHeld, DropsHeld, UsesHeld
    DEF Next, Client
<1>3. QED BY <1>1, <1>2, Typed, PTL DEF Spec
-----------------------------------------------------------------------------
(* Over HTTPS only the last request can be one that has not notified yet; the
   connection thread waits for it, and no other notification is on its way. *)
Pending(i) == rq[i] \in {"queued", "held", "raw", "stream"}

NotesInv ==
  /\ notes \in {0, 1}
  /\ notes = 1 => conn = "notify"
  /\ secure => \A i \in Slots : Pending(i) => i = used /\ conn = "notify" /\ notes = 0
  /\ ~secure => notes = 0 /\ conn # "notify"

(* A request notifies when it stops being one that has to. *)
LEMMA NotesStep ==
  ASSUME NotesInv, UNCHANGED <<secure, conn, used>>,
         \/ /\ UNCHANGED notes
            /\ \A i \in Slots : Pending(i)' => Pending(i)
         \/ /\ Notify
            /\ \E i \in Slots :
                 /\ Pending(i) /\ ~Pending(i)'
                 /\ \A j \in Slots : Pending(j)' => Pending(j)
  PROVE  NotesInv'
<1>1. CASE UNCHANGED notes /\ \A i \in Slots : Pending(i)' => Pending(i)
  BY <1>1 DEF NotesInv
<1>2. CASE /\ Notify
           /\ \E i \in Slots :
                /\ Pending(i) /\ ~Pending(i)'
                /\ \A j \in Slots : Pending(j)' => Pending(j)
  <2>1. PICK i \in Slots : /\ Pending(i) /\ ~Pending(i)'
                           /\ \A j \in Slots : Pending(j)' => Pending(j)
    BY <1>2
  <2>2. CASE secure
    <3>1. i = used /\ conn = "notify" /\ notes = 0 /\ notes' = 1
      BY <1>2, <2>1, <2>2 DEF NotesInv, Notify
    <3>2. \A j \in Slots : ~Pending(j)'
      BY <2>1, <2>2, <3>1 DEF NotesInv
    <3>3. QED BY <2>2, <3>1, <3>2 DEF NotesInv
  <2>3. CASE ~secure
    BY <1>2, <2>3 DEF NotesInv, Notify
  <2>4. QED BY <2>2, <2>3
<1>3. QED BY <1>1, <1>2

LEMMA NotesKept ==
  ASSUME TypeOK, HeldInv, NotesInv, [Next]_vars
  PROVE  NotesInv'
<1>1. CASE ReadNext
  <2>1. conn = "reading" /\ UNCHANGED <<secure, notes>> /\ notes = 0
    BY <1>1 DEF ReadNext, InSocketRead, NotesInv
  <2>2. ASSUME NEW r \in Requests, NewRequest(r) PROVE NotesInv'
    <3>1. /\ used' = used + 1 /\ conn' = AfterPush(r.last)
          /\ rq' = [rq EXCEPT ![used + 1] = "queued"]
      BY <2>2 DEF NewRequest
    <3>2. \A i \in Slots : i # used' => rq'[i] = rq[i]
      BY <3>1 DEF TypeOK
    <3>3. secure => \A i \in Slots : ~Pending(i)
      BY <2>1 DEF NotesInv
    <3>4. IF secure THEN conn' = "notify" ELSE conn' \in {"reading", "closing"}
      BY <3>1 DEF AfterPush, AfterRequest
    <3>5. QED BY <2>1, <3>2, <3>3, <3>4 DEF NotesInv, Pending
  <2>3. CASE BadHeader \/ Refused \/ Aborted \/ WrongVersion \/ Eof
    <3>1. UNCHANGED rq /\ conn' \in {"error", "closing", "http505"}
      BY <2>3 DEF BadHeader, Refused, Aborted, WrongVersion, Eof
    <3>2. QED BY <2>1, <3>1 DEF NotesInv, Pending
  <2>4. QED BY <1>1, <2>2, <2>3 DEF ReadNext
<1>2. CASE Notified
  <2>1. /\ conn = "notify" /\ notes > 0 /\ notes' = notes - 1
        /\ conn' \in {"reading", "closing"} /\ UNCHANGED <<secure, used, rq>>
    BY <1>2 DEF Notified, AfterRequest
  <2>2. notes = 1 /\ notes' = 0 /\ secure
    BY <2>1 DEF NotesInv
  <2>3. QED BY <2>1, <2>2 DEF NotesInv, Pending
<1>3. CASE Close \/ ErrorHead \/ ErrorRest
  <2>1. /\ conn # "notify" /\ conn' # "notify" /\ UNCHANGED <<secure, used, rq, notes>>
    BY <1>3 DEF Close, ErrorHead, ErrorRest
  <2>2. QED BY <2>1 DEF NotesInv, Pending
<1>4. ASSUME NEW u \in Users, Recv(u) PROVE NotesInv'
  <2>1. /\ UNCHANGED <<secure, conn, used, notes>> /\ messages # <<>>
        /\ rq' = [rq EXCEPT ![Head(messages)] = "held"]
    BY <1>4 DEF Recv
  <2>2. Len(messages) \in Nat /\ Len(messages) >= 1 /\ Head(messages) = messages[1]
    BY <2>1 DEF TypeOK
  <2>3. rq[Head(messages)] = "queued"
    BY <2>2 DEF HeldInv, QueueInv
  <2>4. \A i \in Slots : Pending(i)' => Pending(i)
    BY <2>1, <2>3 DEF TypeOK, Pending
  <2>5. QED BY <2>1, <2>4, NotesStep
<1>5. ASSUME NEW u \in Users, WriteContinue(u) \/ WriteHead(u) PROVE NotesInv'
  BY <1>5, NotesStep DEF WriteContinue, WriteHead, Pending
<1>6. ASSUME NEW u \in Users, WriteRest(u) PROVE NotesInv'
  <2>1. PICK i \in Slots, call \in Writing \ {"continue"} :
          /\ busy[u] = <<call, i>>
          /\ IF call \in {"respond", "drop"} THEN Notify ELSE UNCHANGED notes
          /\ rq' = [rq EXCEPT ![i] =
               CASE call \in {"respond", "drop"} -> "answered"
                 [] call = "upgrade" -> "stream"   [] call = "write" -> "raw"]
          /\ UNCHANGED <<secure, conn, used>>
    BY <1>6 DEF WriteRest
  <2>2. Pending(i)
    BY <2>1 DEF HeldInv, CallInv, AnyCall, Pending
  <2>3. \A j \in Slots : Pending(j)' => Pending(j)
    BY <2>1, <2>2 DEF TypeOK, Pending
  <2>4. call \in {"respond", "drop"} => ~Pending(i)'
    BY <2>1 DEF TypeOK, Pending
  <2>5. QED BY <2>1, <2>2, <2>3, <2>4, NotesStep
<1>7. ASSUME NEW u \in Users, NEW i \in Slots, DropNotifier(u, i) PROVE NotesInv'
  <2>1. /\ Notify /\ UNCHANGED <<secure, conn, used>> /\ Pending(i)
        /\ rq' = [rq EXCEPT ![i] = "dropping"]
    BY <1>7 DEF DropNotifier, Pending
  <2>2. ~Pending(i)' /\ \A j \in Slots : Pending(j)' => Pending(j)
    BY <2>1 DEF TypeOK, Pending
  <2>3. QED BY <2>1, <2>2, NotesStep
<1>8. ASSUME NEW u \in Users, NEW i \in Slots, NEW call, NEW status, Begin(u, i, call, status)
      PROVE  NotesInv'
  BY <1>8, NotesStep DEF Begin, Pending
<1>9. ASSUME NEW u \in Users, DropReader(u) PROVE NotesInv'
  <2>1. PICK i \in Slots, call \in Reading :
          /\ busy[u] = <<call, i>>
          /\ rq' = [rq EXCEPT ![i] =
               CASE call = "drain" -> "gone" [] call = "unpack" -> "raw"
                 [] call \in {"read", "close"} -> rq[i]]
          /\ UNCHANGED <<secure, conn, used, notes>>
    BY <1>9 DEF DropReader
  <2>2. call = "unpack" => Pending(i)
    BY <2>1 DEF HeldInv, CallInv, AnyCall, Pending
  <2>3. \A j \in Slots : Pending(j)' => Pending(j)
    BY <2>1, <2>2 DEF TypeOK, Pending, Reading
  <2>4. QED BY <2>1, <2>3, NotesStep
<1>10. ASSUME NEW u \in Users, DropWriter(u) PROVE NotesInv'
  <2>1. /\ UNCHANGED <<secure, conn, used, notes>>
        /\ \E i \in Slots : rq' = [rq EXCEPT ![i] = "gone"]
    BY <1>10 DEF DropWriter
  <2>2. \A j \in Slots : Pending(j)' => Pending(j)
    BY <2>1 DEF TypeOK, Pending
  <2>3. QED BY <2>1, <2>2, NotesStep
<1>11. ASSUME NEW i \in Slots, SendBody(i) PROVE NotesInv'
  BY <1>11, NotesStep DEF SendBody, Pending
<1>12. CASE UNCHANGED vars
  BY <1>12 DEF vars, NotesInv, Pending
<1>13. ASSUME NEW u \in Users, NEW i \in Slots, Uses(u, i) PROVE NotesInv'
  BY <1>7, <1>8, <1>13
  DEF Uses, Answer, Respond, DropHeld, DropAnswered, AsReader, Upgrade, WriteRaw, Read, IntoWriter
<1>14. QED
  BY <1>1, <1>2, <1>3, <1>4, <1>5, <1>6, <1>9, <1>10, <1>11, <1>12, <1>13
  DEF Next, Client, Server, Writes, Drops

LEMMA Notes == Spec => []NotesInv
<1>1. Init => NotesInv
  BY DEF Init, NotesInv, Pending
<1>2. TypedInv /\ HeldInv /\ NotesInv /\ [Next]_vars => NotesInv'
  BY NotesKept DEF TypedInv
<1>3. QED BY <1>1, <1>2, Typed, Held, PTL DEF Spec

(* The loop of an HTTPS connection never has two notifications waiting, and none
   when it does not wait for one: whichever of respond, drop, upgrade and
   into_writer ends a request, and on whichever thread, it notifies once. *)
THEOREM NotifiedOnce == Spec => []OneNotification
<1>1. NotesInv => OneNotification
  BY DEF NotesInv, OneNotification
<1>2. QED BY <1>1, Notes, PTL

(* A body is over when its reader was let go, and a slot that has a body, or
   whose reader was let go, has a Request. *)
BodyInv ==
  \A i \in Slots :
    /\ i \in released /\ request[i].reader = "body" => i \in arrived
    /\ i \in released \/ request[i].reader = "body" => rq[i] # "none"

(* Only reading a header changes what was asked, and nobody takes a Request back. *)
LEMMA BodyAside ==
  ASSUME TypeOK, BodyInv, UNCHANGED request, arrived \subseteq arrived',
         \A i \in Slots : rq[i] # "none" => rq'[i] # "none",
         \A i \in Slots : i \in released' => i \in released \/ (BodyOver(i) /\ rq[i] # "none")
  PROVE  BodyInv'
BY DEF BodyInv, BodyOver

LEMMA BodyKept ==
  ASSUME TypeOK, HeldInv, BodyInv, [Next]_vars
  PROVE  BodyInv'
<1>1. ASSUME NEW r \in Requests, NewRequest(r), ReadNext, used < MaxSlots PROVE BodyInv'
  <2>1. /\ used + 1 \in Slots /\ used + 1 > used /\ arrived' = arrived
        /\ request' = [request EXCEPT ![used + 1] = r]
        /\ rq' = [rq EXCEPT ![used + 1] = "queued"]
        /\ released' = IF r.reader = "none" THEN released \cup {used + 1} ELSE released
    BY <1>1, ConnectionAssumption DEF ReadNext, NewRequest, TypeOK, Slots, ConnectionAssumption
  <2>2. rq[used + 1] = "none"
    BY <2>1 DEF HeldInv, SlotInv
  <2>3. used + 1 \notin released
    BY <2>1, <2>2 DEF BodyInv
  <2>4. ASSUME NEW i \in Slots, i # used + 1
        PROVE  request'[i] = request[i] /\ rq'[i] = rq[i] /\ (i \in released' <=> i \in released)
    BY <2>1, <2>4 DEF TypeOK
  <2>5. /\ request'[used + 1].reader = r.reader /\ rq'[used + 1] # "none"
        /\ used + 1 \in released' => r.reader = "none"
    BY <2>1, <2>3 DEF TypeOK
  <2>6. QED BY <2>1, <2>4, <2>5 DEF BodyInv
<1>2. ASSUME BadHeader \/ Refused \/ Aborted \/ WrongVersion \/ Eof, ReadNext PROVE BodyInv'
  BY <1>2, BodyAside DEF BadHeader, Refused, Aborted, WrongVersion, Eof, ReadNext
<1>3. ASSUME NEW i \in Slots, SendBody(i) PROVE BodyInv'
  BY <1>3, BodyAside DEF SendBody
<1>4. CASE Server
  BY <1>4, BodyAside DEF Server, Notified, Close, ErrorHead, ErrorRest
<1>5. ASSUME NEW u \in Users, Recv(u) PROVE BodyInv'
  <2>1. \A i \in Slots : rq[i] # "none" => rq'[i] # "none"
    BY <1>5 DEF Recv, TypeOK
  <2>2. QED BY <1>5, <2>1, BodyAside DEF Recv
<1>6. ASSUME NEW u \in Users, WriteContinue(u) \/ WriteHead(u) PROVE BodyInv'
  BY <1>6, BodyAside DEF WriteContinue, WriteHead
<1>7. ASSUME NEW u \in Users, WriteRest(u) PROVE BodyInv'
  <2>1. PICK i \in Slots, call \in Writing \ {"continue"} :
          rq' = [rq EXCEPT ![i] =
            CASE call \in {"respond", "drop"} -> "answered"
              [] call = "upgrade" -> "stream"   [] call = "write" -> "raw"]
    BY <1>7 DEF WriteRest
  <2>2. \A j \in Slots : rq[j] # "none" => rq'[j] # "none"
    BY <2>1 DEF TypeOK, Writing
  <2>3. UNCHANGED <<request, arrived, released>>
    BY <1>7 DEF WriteRest
  <2>4. QED BY <2>2, <2>3, BodyAside
<1>8. ASSUME NEW u \in Users, DropReader(u) PROVE BodyInv'
  <2>1. PICK i \in Slots, call \in Reading :
          /\ busy[u] = <<call, i>> /\ BodyOver(i) /\ released' = released \cup {i}
          /\ rq' = [rq EXCEPT ![i] =
               CASE call = "drain" -> "gone" [] call = "unpack" -> "raw"
                 [] call \in {"read", "close"} -> rq[i]]
          /\ UNCHANGED <<request, arrived>>
    BY <1>8 DEF DropReader
  <2>2. rq[i] # "none"
    BY <2>1 DEF HeldInv, CallInv, AnyCall, Reading
  <2>3. \A j \in Slots : rq[j] # "none" => rq'[j] # "none"
    BY <2>1, <2>2 DEF TypeOK, Reading
  <2>4. QED BY <2>1, <2>2, <2>3, BodyAside
<1>9. ASSUME NEW u \in Users, DropWriter(u) PROVE BodyInv'
  <2>1. \A i \in Slots : rq[i] # "none" => rq'[i] # "none"
    BY <1>9 DEF DropWriter, TypeOK
  <2>2. QED BY <1>9, <2>1, BodyAside DEF DropWriter
<1>10. ASSUME NEW u \in Users, NEW i \in Slots, NEW call, NEW status, Begin(u, i, call, status)
       PROVE  BodyInv'
  BY <1>10, BodyAside DEF Begin
<1>11. ASSUME NEW u \in Users, NEW i \in Slots, DropNotifier(u, i) PROVE BodyInv'
  <2>1. \A j \in Slots : rq[j] # "none" => rq'[j] # "none"
    BY <1>11 DEF DropNotifier, TypeOK
  <2>2. QED BY <1>11, <2>1, BodyAside DEF DropNotifier
<1>12. ASSUME NEW u \in Users, NEW i \in Slots, Uses(u, i) PROVE BodyInv'
  BY <1>10, <1>11, <1>12
  DEF Uses, Answer, Respond, DropHeld, DropAnswered, AsReader, Upgrade, WriteRaw, Read, IntoWriter
<1>13. CASE UNCHANGED vars
  BY <1>13, BodyAside DEF vars
<1>14. QED
  BY <1>1, <1>2, <1>3, <1>4, <1>5, <1>6, <1>7, <1>8, <1>9, <1>12, <1>13
  DEF Next, Client, ReadNext, Writes, Drops

(* Only reading a header takes a writer. *)
LEMMA OnlyReadNext ==
  ASSUME [Next]_vars, ~ReadNext
  PROVE  used' = used
<1>1. ASSUME NEW i \in Slots, SendBody(i) PROVE used' = used
  BY <1>1 DEF SendBody
<1>2. ASSUME Server PROVE used' = used
  BY <1>2 DEF Server, Notified, Close, ErrorHead, ErrorRest
<1>3. ASSUME NEW u \in Users, Recv(u) \/ Writes(u) \/ Drops(u) PROVE used' = used
  BY <1>3 DEF Recv, Writes, Drops, WriteContinue, WriteHead, WriteRest, DropReader, DropWriter
<1>4. ASSUME NEW u \in Users, NEW i \in Slots, Uses(u, i) PROVE used' = used
  BY <1>4 DEF Uses, Answer, Respond, DropHeld, DropAnswered, DropNotifier, AsReader, Upgrade,
              WriteRaw, Read, IntoWriter, Begin
<1>5. QED BY <1>1, <1>2, <1>3, <1>4 DEF Next, Client, vars

(* No part of a body is read as a header, however the threads that hold the
   bodies' readers read them, drop them or hand them on: a header is read after
   all readers before it are gone, and each of them went after its body. *)
THEOREM BodiesNotParsed == Spec => BodyIsNotParsed
<1>1. Init => BodyInv
  BY DEF Init, BodyInv, Bodiless
<1>2. TypedInv /\ HeldInv /\ BodyInv /\ [Next]_vars => BodyInv'
  BY BodyKept DEF TypedInv
<1>3. TypedInv /\ BodyInv /\ [Next]_vars =>
        [used' # used => \A i \in 1..used : request[i].reader = "body" => i \in arrived]_vars
  <2> SUFFICES ASSUME TypedInv, BodyInv, [Next]_vars, used' # used,
                      NEW i \in 1..used, request[i].reader = "body"
               PROVE  i \in arrived
    OBVIOUS
  <2>1. i \in Slots
    BY ConnectionAssumption DEF TypedInv, TypeOK, Slots, ConnectionAssumption
  <2>2. ReadNext
    BY OnlyReadNext
  <2>3. rq[i] # "none" /\ i \in released
    BY <2>1, <2>2 DEF BodyInv, ReadNext, InSocketRead, HeaderSourceReady
  <2>4. QED BY <2>1, <2>3 DEF BodyInv
<1>4. QED BY <1>1, <1>2, <1>3, Typed, Held, PTL DEF Spec, BodyIsNotParsed
-----------------------------------------------------------------------------
(* What a step does to the writers and the wire: it writes nothing, or the next
   part of one slot. *)
Advances(i) ==
  /\ writer[i] = "finished" => writer'[i] = "finished"
  /\ writer[i] = "written" => writer'[i] \in {"written", "finished"}
  /\ writer[i] = "partial" => writer'[i] \in {"partial", "written", "finished"}

WritesNothing ==
  /\ wire' = wire /\ used <= used' /\ continued \subseteq continued'
  /\ \A i \in Slots : Advances(i) /\ (writer'[i] = "partial" <=> writer[i] = "partial")

WritesPart(i, part) ==
  /\ wire' = Append(wire, <<i, part>>) /\ used' = used /\ continued \subseteq continued'
  /\ \A j \in Slots : j # i => writer'[j] = writer[j]
  /\ part = "continue" =>
       MyTurn(i) /\ writer[i] = "open" /\ writer'[i] = "open" /\ i \notin continued /\ i \in continued'
  /\ part = "head" => MyTurn(i) /\ writer[i] = "open" /\ writer'[i] = "partial"
  /\ part = "body" => writer[i] = "partial" /\ writer'[i] \in {"written", "finished"}

Parts == {"continue", "head", "body"}

LEMMA Steps ==
  ASSUME TypeOK, HeldInv, [Next]_vars
  PROVE  WritesNothing \/ \E i \in Slots, part \in Parts : WritesPart(i, part)
<1> USE DEF Parts
<1>1. used \in Nat
  BY ConnectionAssumption DEF TypeOK, ConnectionAssumption
<1>2. ASSUME ReadNext PROVE WritesNothing
  <2>1. UNCHANGED <<continued, wire>>
    BY <1>2 DEF ReadNext
  <2>2. \A i \in Slots : i > used => writer[i] = "none"
    BY DEF HeldInv, SlotInv
  <2>3. used <= used'
    BY <1>1, <1>2 DEF ReadNext, NewRequest, BadHeader, Refused, Aborted, WrongVersion, Eof
  <2>4. ASSUME NEW i \in Slots, ~(i > used) PROVE writer'[i] = writer[i]
    <3>1. i # used + 1 /\ i # used + 1 + 1
      BY <1>1, <2>4 DEF Slots
    <3>2. QED BY <1>2, <3>1
      DEF ReadNext, NewRequest, BadHeader, Refused, Aborted, WrongVersion, Eof, TypeOK
  <2>5. ASSUME NEW i \in Slots PROVE writer'[i] = writer[i] \/ writer'[i] \in {"open", "finished"}
    BY <1>2 DEF ReadNext, NewRequest, BadHeader, Refused, Aborted, WrongVersion, Eof, TypeOK
  <2>6. QED BY <2>1, <2>2, <2>3, <2>4, <2>5 DEF WritesNothing, Advances
<1>3. CASE Notified \/ Close
  BY <1>1, <1>3 DEF Notified, Close, WritesNothing, Advances
<1>4. CASE ErrorHead
  <2>1. used \in Slots
    BY <1>4 DEF ErrorHead, HeldInv, ErrorInv
  <2>2. WritesPart(used, "head")
    BY <1>4, <2>1 DEF ErrorHead, WritesPart, TypeOK
  <2>3. QED BY <2>1, <2>2
<1>5. CASE ErrorRest
  <2>1. used \in Slots /\ conn = "error"
    BY <1>5 DEF ErrorRest, HeldInv, ErrorInv
  <2>2. WritesPart(used, "body")
    BY <1>5, <2>1 DEF ErrorRest, WritesPart, TypeOK
  <2>3. QED BY <2>1, <2>2
<1>6. ASSUME NEW u \in Users, Recv(u) PROVE WritesNothing
  BY <1>1, <1>6 DEF Recv, WritesNothing, Advances
<1>7. ASSUME NEW u \in Users, WriteContinue(u)
      PROVE  \E i \in Slots, part \in Parts : WritesPart(i, part)
  <2>1. PICK i \in Slots :
          /\ busy[u] = <<"continue", i>> /\ MyTurn(i)
          /\ wire' = Append(wire, <<i, "continue">>)
          /\ continued' = continued \cup {i}
          /\ UNCHANGED <<used, writer>>
    BY <1>7 DEF WriteContinue
  <2>2. writer[i] = "open" /\ i \notin continued
    BY <2>1 DEF HeldInv, CallInv, AnyCall, Writing
  <2>3. WritesPart(i, "continue")
    BY <2>1, <2>2 DEF WritesPart
  <2>4. QED BY <2>3
<1>8. ASSUME NEW u \in Users, WriteHead(u)
      PROVE  \E i \in Slots, part \in Parts : WritesPart(i, part)
  <2>1. PICK i \in Slots :
          /\ writer[i] = "open" /\ MyTurn(i)
          /\ wire' = Append(wire, <<i, "head">>)
          /\ writer' = [writer EXCEPT ![i] = "partial"]
          /\ UNCHANGED <<used, continued>>
    BY <1>8 DEF WriteHead
  <2>2. WritesPart(i, "head")
    BY <2>1 DEF WritesPart, TypeOK
  <2>3. QED BY <2>2
<1>9. ASSUME NEW u \in Users, WriteRest(u)
      PROVE  \E i \in Slots, part \in Parts : WritesPart(i, part)
  <2>1. PICK i \in Slots, call \in Writing \ {"continue"} :
          /\ writer[i] = "partial"
          /\ wire' = Append(wire, <<i, "body">>)
          /\ writer' = [writer EXCEPT ![i] = WriterAfter(call)]
          /\ UNCHANGED <<used, continued>>
    BY <1>9 DEF WriteRest
  <2>2. WritesPart(i, "body")
    BY <2>1 DEF WritesPart, TypeOK, WriterAfter
  <2>3. QED BY <2>2
<1>10. ASSUME NEW u \in Users, DropWriter(u) PROVE WritesNothing
  <2>1. PICK i \in Slots : /\ busy[u] = <<"close", i>>
                           /\ writer' = [writer EXCEPT ![i] = "finished"]
                           /\ UNCHANGED <<used, continued, wire>>
    BY <1>10 DEF DropWriter
  <2>2. writer[i] # "partial"
    BY <2>1 DEF HeldInv, CallInv, SlotInv, AnyCall, Reading
  <2>3. \A j \in Slots : writer'[j] = writer[j] \/ (writer'[j] = "finished" /\ writer[j] # "partial")
    BY <2>1, <2>2 DEF TypeOK
  <2>4. QED BY <1>1, <2>1, <2>3 DEF WritesNothing, Advances
<1>11. ASSUME UNCHANGED <<used, continued, wire, writer>> PROVE WritesNothing
  BY <1>1, <1>11 DEF WritesNothing, Advances
<1>12. ASSUME NEW u \in Users, NEW i \in Slots, Uses(u, i) PROVE WritesNothing
  BY <1>11, <1>12
  DEF Uses, Answer, Respond, DropHeld, DropAnswered, DropNotifier, AsReader, Upgrade, WriteRaw,
      Read, IntoWriter, Begin
<1>13. (\E u \in Users : DropReader(u)) \/ (\E i \in Slots : SendBody(i)) \/ UNCHANGED vars
         => WritesNothing
  BY <1>11 DEF DropReader, SendBody, vars
<1>14. QED
  BY <1>2, <1>3, <1>4, <1>5, <1>6, <1>7, <1>8, <1>9, <1>10, <1>12, <1>13
  DEF Next, Client, Server, Writes, Drops

(* What is on the wire of a slot was written with its writer. *)
PartInv ==
  \A a \in 1..Len(wire) :
    /\ wire[a][2] = "continue" => wire[a][1] \in continued
    /\ wire[a][2] = "head" => writer[wire[a][1]] \in {"partial", "written", "finished"}
    /\ wire[a][2] = "body" => writer[wire[a][1]] \in {"written", "finished"}

(* Nothing of a slot is on the wire before the slots in front of it are done,
   and the head of a response is the last thing on the wire just as long as the
   response is not whole. *)
Tidy ==
  /\ \A a \in 1..Len(wire), j \in Slots : j < wire[a][1] => writer[j] = "finished"
  /\ \A i \in Slots :
       writer[i] = "partial" <=> wire # <<>> /\ wire[Len(wire)] = <<i, "head">>

WireInv == PartInv /\ (GivenUp \/ Tidy)

LEMMA WireGrows ==
  ASSUME TypeOK, NEW i \in Slots, NEW part \in Parts, wire' = Append(wire, <<i, part>>)
  PROVE  /\ Len(wire) \in Nat /\ Len(wire') = Len(wire) + 1 /\ wire' # <<>>
         /\ wire'[Len(wire')] = <<i, part>>
         /\ \A a \in 1..Len(wire') : a = Len(wire') \/ (a \in 1..Len(wire) /\ wire'[a] = wire[a])
<1>1. wire \in Seq(Slots \X Parts)
  BY DEF TypeOK, Parts
<1>2. QED BY <1>1

LEMMA WireTyped ==
  ASSUME TypeOK
  PROVE  \A a \in 1..Len(wire) :
           wire[a] = <<wire[a][1], wire[a][2]>> /\ wire[a][1] \in Slots /\ wire[a][2] \in Parts
<1>1. wire \in Seq(Slots \X Parts)
  BY DEF TypeOK, Parts
<1>2. \A a \in 1..Len(wire) : wire[a] \in Slots \X Parts
  BY <1>1
<1>3. QED BY <1>2

LEMMA Between ==
  ASSUME NEW a \in Nat, NEW b \in Nat, a <= b, NEW i \in 2..(a - 1)
  PROVE  i \in 2..(b - 1)
OBVIOUS

(* A writer that was given up stays so: who is finished writes no more. *)
LEMMA GivenUpStays ==
  ASSUME TypeOK, TypeOK', HeldInv, GivenUp, [Next]_vars
  PROVE  GivenUp'
<1>1. used \in 0..MaxSlots /\ used' \in 0..MaxSlots /\ MaxSlots \in Nat
  BY ConnectionAssumption DEF TypeOK, ConnectionAssumption
<1>2. PICK i \in 2..(used - 1) : writer[i] = "finished" /\ Heads(i) = {}
  BY DEF GivenUp
<1>3. i \in Slots
  BY <1>1, <1>2 DEF Slots
<1>4. CASE WritesNothing
  <2>1. writer'[i] = "finished" /\ used <= used'
    BY <1>2, <1>3, <1>4 DEF WritesNothing, Advances
  <2>2. Heads(i)' = {}
    <3>1. wire' = wire
      BY <1>4 DEF WritesNothing
    <3>2. Heads(i)' = Heads(i)
      BY <3>1 DEF Heads
    <3>3. QED BY <1>2, <3>2
  <2>3. i \in 2..(used' - 1)
    <3>1. used \in Nat /\ used' \in Nat
      BY <1>1
    <3>2. QED BY <2>1, <3>1, Between
  <2>4. QED BY <2>1, <2>2, <2>3 DEF GivenUp
<1>5. ASSUME NEW k \in Slots, NEW part \in Parts, WritesPart(k, part) PROVE GivenUp'
  <2>1. k # i /\ writer'[i] = "finished" /\ used' = used
    BY <1>2, <1>3, <1>5 DEF WritesPart, Parts
  <2>2. \A a \in 1..Len(wire') : wire'[a] # <<i, "head">>
    <3>1. wire' = Append(wire, <<k, part>>)
      BY <1>5 DEF WritesPart
    <3>2. /\ Len(wire) \in Nat /\ Len(wire') = Len(wire) + 1
          /\ wire'[Len(wire')] = <<k, part>>
          /\ \A a \in 1..Len(wire') : a = Len(wire') \/ (a \in 1..Len(wire) /\ wire'[a] = wire[a])
      BY <3>1, WireGrows
    <3>3. \A a \in 1..Len(wire) : wire[a] # <<i, "head">>
      BY <1>2 DEF Heads
    <3>4. <<k, part>> # <<i, "head">>
      BY <2>1
    <3>5. QED BY <3>2, <3>3, <3>4
  <2>3. QED BY <1>2, <2>1, <2>2 DEF GivenUp, Heads
<1>6. QED BY <1>4, <1>5, Steps

(* The trigger chain: whoever has its turn comes after writers that are all
   done, unless one of them was given up. Each of them had its own turn when it
   wrote its head. *)
LEMMA TurnsInOrder ==
  ASSUME TypeOK, HeldInv, Tidy, ~GivenUp, NEW i \in Slots, MyTurn(i), writer[i] # "none"
  PROVE  \A j \in Slots : j < i => writer[j] = "finished"
<1>1. used \in 0..MaxSlots /\ MaxSlots \in Nat /\ i \in 1..MaxSlots
  BY ConnectionAssumption DEF TypeOK, ConnectionAssumption, Slots
<1>2. i <= used
  BY <1>1 DEF HeldInv, SlotInv
<1>3. CASE i > 1
  <2>1. writer[i - 1] = "finished" /\ i - 1 \in Slots
    BY <1>1, <1>3 DEF MyTurn, Slots
  <2>2. CASE i - 1 = 1
    BY <1>1, <2>1, <2>2 DEF Slots
  <2>3. CASE i - 1 # 1
    <3>1. i - 1 \in 2..(used - 1)
      BY <1>1, <1>2, <1>3, <2>3
    <3>2. PICK a \in 1..Len(wire) : wire[a] = <<i - 1, "head">>
      BY <2>1, <3>1 DEF GivenUp, Heads
    <3>3. \A j \in Slots : j < i - 1 => writer[j] = "finished"
      BY <3>2 DEF Tidy
    <3>4. \A j \in Slots : j < i => j = i - 1 \/ j < i - 1
      BY <1>1 DEF Slots
    <3>5. QED BY <2>1, <3>3, <3>4
  <2>4. QED BY <2>2, <2>3
<1>4. CASE ~(i > 1)
  BY <1>1, <1>4 DEF Slots
<1>5. QED BY <1>3, <1>4

(* Before a slot writes, what is on the wire is of this slot or of one in front
   of it, and so are the responses that were begun. *)
LEMMA WriterIsLast ==
  ASSUME TypeOK, HeldInv, Tidy, ~GivenUp, NEW i \in Slots, NEW part \in Parts,
         WritesPart(i, part)
  PROVE  /\ \A j \in Slots : j < i => writer[j] = "finished"
         /\ \A a \in 1..Len(wire) : wire[a][1] <= i
         /\ \A j \in Slots : writer[j] = "partial" => j = i
<1>1. writer[i] \in {"open", "partial"}
  BY DEF WritesPart, Parts
<1>2. \A j \in Slots : j < i => writer[j] = "finished"
  <2>1. CASE part # "body"
    BY <1>1, <2>1, TurnsInOrder DEF WritesPart, Parts
  <2>2. CASE part = "body"
    <3>1. wire # <<>> /\ wire[Len(wire)] = <<i, "head">>
      BY <2>2 DEF WritesPart, Tidy
    <3>2. Len(wire) \in 1..Len(wire)
      BY <3>1 DEF TypeOK
    <3>3. QED BY <3>1, <3>2 DEF Tidy
  <2>3. QED BY <2>1, <2>2
<1>3. ASSUME NEW a \in 1..Len(wire) PROVE wire[a][1] <= i
  <2>1. wire[a][1] \in Nat /\ i \in Nat
    BY WireTyped DEF Slots
  <2>2. ~(i < wire[a][1])
    BY <1>1 DEF Tidy
  <2>3. QED BY <2>1, <2>2
<1>4. ASSUME NEW j \in Slots, writer[j] = "partial" PROVE j = i
  <2>1. wire # <<>> /\ wire[Len(wire)] = <<j, "head">> /\ Len(wire) \in 1..Len(wire)
    BY <1>4 DEF Tidy, TypeOK
  <2>2. j <= i
    BY <1>3, <2>1
  <2>3. ~(j < i)
    BY <1>2, <1>4
  <2>4. QED BY <2>2, <2>3 DEF Slots
<1>5. QED BY <1>2, <1>3, <1>4

LEMMA PartsKept ==
  ASSUME TypeOK, HeldInv, PartInv, [Next]_vars
  PROVE  PartInv'
<1>1. CASE WritesNothing
  BY <1>1, WireTyped DEF WritesNothing, Advances, PartInv
<1>2. ASSUME NEW i \in Slots, NEW part \in Parts, WritesPart(i, part) PROVE PartInv'
  <2>1. \A j \in Slots :
          /\ writer[j] \in {"written", "finished"} => writer'[j] = writer[j]
          /\ writer[j] \in {"partial", "written", "finished"} =>
               writer'[j] \in {"partial", "written", "finished"}
    BY <1>2 DEF WritesPart, Parts
  <2>2. ASSUME NEW a \in 1..Len(wire)
        PROVE  /\ wire[a][2] = "continue" => wire[a][1] \in continued'
               /\ wire[a][2] = "head" => writer'[wire[a][1]] \in {"partial", "written", "finished"}
               /\ wire[a][2] = "body" => writer'[wire[a][1]] \in {"written", "finished"}
    BY <1>2, <2>1, WireTyped DEF PartInv, WritesPart
  <2>3. /\ part = "continue" => i \in continued'
        /\ part = "head" => writer'[i] \in {"partial", "written", "finished"}
        /\ part = "body" => writer'[i] \in {"written", "finished"}
    BY <1>2 DEF WritesPart
  <2>4. QED BY <1>2, <2>2, <2>3, WireGrows DEF PartInv, WritesPart
<1>3. QED BY <1>1, <1>2, Steps

LEMMA TidyKept ==
  ASSUME TypeOK, HeldInv, Tidy, ~GivenUp, [Next]_vars
  PROVE  Tidy'
<1>1. CASE WritesNothing
  BY <1>1 DEF WritesNothing, Advances, Tidy
<1>2. ASSUME NEW i \in Slots, NEW part \in Parts, WritesPart(i, part) PROVE Tidy'
  <2>1. /\ \A j \in Slots : j < i => writer[j] = "finished"
        /\ \A j \in Slots : writer[j] = "partial" => j = i
    BY <1>2, WriterIsLast
  <2>2. \A j \in Slots : writer[j] = "finished" => writer'[j] = "finished"
    BY <1>2 DEF WritesPart, Parts
  <2>3. \A a \in 1..Len(wire'), j \in Slots : j < wire'[a][1] => writer'[j] = "finished"
    BY <1>2, <2>1, <2>2, WireGrows DEF Tidy, WritesPart
  <2>4. ASSUME NEW j \in Slots
        PROVE  writer'[j] = "partial" <=> wire' # <<>> /\ wire'[Len(wire')] = <<j, "head">>
    <3>1. writer'[j] = "partial" <=> j = i /\ part = "head"
      BY <1>2, <2>1, <2>4 DEF WritesPart, Parts
    <3>2. QED BY <1>2, <3>1, WireGrows DEF WritesPart
  <2>5. QED BY <2>3, <2>4 DEF Tidy
<1>3. QED BY <1>1, <1>2, Steps

LEMMA Wire == Spec => []WireInv
<1>1. Init => WireInv
  BY DEF Init, WireInv, PartInv, Tidy
<1>2. TypedInv /\ TypedInv' /\ HeldInv /\ WireInv /\ [Next]_vars => WireInv'
  BY PartsKept, TidyKept, GivenUpStays DEF WireInv, TypedInv
<1>3. QED BY <1>1, <1>2, Typed, Held, PTL DEF Spec

(* A part that is written is one that may follow the part before it. *)
LEMMA PartFollows ==
  ASSUME TypeOK, HeldInv, PartInv, Tidy, ~GivenUp, [Next]_vars
  PROVE  [Stream!Next]_wire
<1>1. SUFFICES ASSUME NEW i \in Slots, NEW part \in Parts, WritesPart(i, part)
               PROVE  Stream!Next
  BY Steps DEF WritesNothing
<1> DEFINE x == wire[Len(wire)]
<1>2. CASE wire = <<>>
  <2>1. part # "body"
    BY <1>1, <1>2 DEF WritesPart, Tidy
  <2>2. Stream!Send(<<i, part>>)
    BY <1>1, <1>2, <2>1 DEF WritesPart, Stream!Send
  <2>3. QED BY <1>1, <2>2 DEF Stream!Next, Stream!Parts, Parts
<1>3. CASE wire # <<>>
  <2>1. Len(wire) \in 1..Len(wire)
    BY <1>3 DEF TypeOK
  <2>2. /\ x = <<x[1], x[2]>> /\ x[1] \in Slots /\ x[2] \in Parts
        /\ x[1] <= i
    BY <1>1, <2>1, WireTyped, WriterIsLast
  <2>3. CASE part = "body"
    <3>1. x = <<i, "head">>
      BY <1>1, <2>3 DEF WritesPart, Tidy
    <3>2. Stream!MayFollow(x, <<i, "body">>)
      BY <3>1 DEF Stream!MayFollow
    <3>3. Stream!Send(<<i, "body">>)
      BY <1>1, <1>3, <2>3, <3>2 DEF Stream!Send, WritesPart
    <3>4. QED BY <3>3 DEF Stream!Next, Stream!Parts
  <2>4. CASE part # "body"
    <3>1. writer[i] = "open" /\ (part = "continue" => i \notin continued)
      BY <1>1, <2>4 DEF WritesPart, Parts
    <3>2. /\ x[2] = "continue" => x[1] \in continued
          /\ x[2] = "head" => writer[x[1]] \in {"partial", "written", "finished"}
          /\ x[2] = "body" => writer[x[1]] \in {"written", "finished"}
      BY <2>1 DEF PartInv
    <3>3. CASE x[1] = i
      <4>1. x[2] = "continue" /\ part = "head"
        BY <2>2, <2>4, <3>1, <3>2, <3>3 DEF Parts
      <4>2. QED BY <1>1, <1>3, <2>2, <3>3, <4>1
            DEF Stream!Next, Stream!Send, Stream!MayFollow, Stream!Parts, WritesPart
    <3>4. CASE x[1] # i
      <4>1. i > x[1]
        BY <2>2, <3>4 DEF Slots
      <4>2. x[2] # "head"
        <5>1. x[2] = "head" => writer[x[1]] = "partial"
          BY <1>3, <2>2 DEF Tidy
        <5>2. QED BY <1>1, <2>2, <3>4, <5>1, WriterIsLast
      <4>3. QED BY <1>1, <1>3, <2>2, <2>4, <4>1, <4>2
            DEF Stream!Next, Stream!Send, Stream!MayFollow, Stream!Parts, Parts, WritesPart
    <3>5. QED BY <3>3, <3>4
  <2>5. QED BY <2>3, <2>4
<1>4. QED BY <1>2, <1>3

(* Whatever the threads do and in whatever order they answer, the next part on
   the wire may follow the part before it, unless a writer was dropped without a
   word and its successor did not wait for the writers before. *)
THEOREM OrderIsKept == Spec => OrderKept
<1>1. TypedInv /\ HeldInv /\ WireInv /\ [Next]_vars => [GivenUp \/ Stream!Next]_wire
  BY PartFollows DEF WireInv, TypedInv
<1>2. QED BY <1>1, Typed, Held, Wire, PTL DEF Spec, OrderKept
-----------------------------------------------------------------------------
(* A writer is dropped without a word only by a refused request, or by a thread
   that took it with into_writer. After an aborted request there is no further
   writer, and a connection of HTTP/2 waits for good with both of its writers. *)
Spoken(i) ==
  writer[i] \in {"partial", "written", "finished"} =>
    Heads(i) # {} \/ (conn \in {"closing", "done"} /\ i = used)

SpokenInv ==
  /\ \A i \in Slots : Spoken(i)
  /\ \A i \in Slots : rq[i] # "raw" /\ (rq[i] = "dropping" => writer[i] = "written")
  /\ \A u \in Users, i \in Slots : busy[u] # <<"unpack", i>>

LEMMA HeadsStay ==
  ASSUME TypeOK, HeldInv, [Next]_vars, NEW i \in Slots
  PROVE  /\ Heads(i) # {} => Heads(i)' # {}
         /\ WritesPart(i, "head") => Heads(i)' # {}
<1>1. ASSUME WritesNothing PROVE Heads(i) # {} => Heads(i)' # {}
  <2>1. wire' = wire
    BY <1>1 DEF WritesNothing
  <2>2. Heads(i)' = Heads(i)
    BY <2>1 DEF Heads
  <2>3. QED BY <2>2
<1>2. ASSUME NEW k \in Slots, NEW part \in Parts, WritesPart(k, part)
      PROVE  Heads(i) # {} => Heads(i)' # {}
  <2>1. ASSUME NEW a \in 1..Len(wire), wire[a] = <<i, "head">> PROVE Heads(i)' # {}
    <3>1. a \in 1..Len(wire') /\ wire'[a] = wire[a]
      BY <1>2 DEF TypeOK, WritesPart
    <3>2. QED BY <2>1, <3>1 DEF Heads
  <2>2. QED BY <2>1 DEF Heads
<1>3. WritesPart(i, "head") => Heads(i)' # {}
  <2>1. SUFFICES ASSUME WritesPart(i, "head") PROVE Heads(i)' # {}
    OBVIOUS
  <2>2. Len(wire') \in 1..Len(wire') /\ wire'[Len(wire')] = <<i, "head">>
    BY <2>1, WireGrows DEF WritesPart, Parts
  <2>3. QED BY <2>2 DEF Heads
<1>4. QED BY <1>1, <1>2, <1>3, Steps

(* A connection that is being closed hands out no more writers. *)
LEMMA EndStays ==
  ASSUME [Next]_vars, conn \in {"closing", "done"}
  PROVE  conn' \in {"closing", "done"} /\ used' = used
<1>1. ~ReadNext
  BY DEF ReadNext, InSocketRead
<1>2. used' = used
  BY <1>1, OnlyReadNext
<1>3. CASE Server
  BY <1>3 DEF Server, Notified, Close, ErrorHead, ErrorRest
<1>4. ASSUME NEW u \in Users, Recv(u) \/ Writes(u) \/ Drops(u) PROVE conn' = conn
  BY <1>4 DEF Recv, Writes, Drops, WriteContinue, WriteHead, WriteRest, DropReader, DropWriter
<1>5. ASSUME NEW u \in Users, NEW i \in Slots, Uses(u, i) PROVE conn' = conn
  BY <1>5 DEF Uses, Answer, Respond, DropHeld, DropAnswered, DropNotifier, AsReader, Upgrade,
              WriteRaw, Read, IntoWriter, Begin
<1>6. ASSUME NEW i \in Slots, SendBody(i) PROVE conn' = conn
  BY <1>6 DEF SendBody
<1>7. QED BY <1>1, <1>2, <1>3, <1>4, <1>5, <1>6 DEF Next, Client, vars

(* A writer that begins or ends while nothing is written was dropped by an
   aborted request, or by the thread that used it. *)
LEMMA SpokenKept ==
  ASSUME TypeOK, HeldInv, SpokenInv, [Next]_vars,
         "refused" \notin Failures, "into_writer" \notin UserOps, NEW i \in Slots
  PROVE  Spoken(i)'
<1>1. ASSUME writer[i] \in {"partial", "written", "finished"} PROVE Spoken(i)'
  BY <1>1, HeadsStay, EndStays DEF SpokenInv, Spoken
<1>2. ASSUME writer[i] \notin {"partial", "written", "finished"},
             WritesNothing, writer'[i] \in {"partial", "written", "finished"}
      PROVE  Spoken(i)'
  <2>1. writer'[i] # writer[i] /\ writer'[i] # "partial"
    BY <1>2 DEF WritesNothing
  <2>2. ASSUME ReadNext PROVE conn' = "closing" /\ used' = i
    <3>1. Aborted
      BY <1>2, <2>1, <2>2
      DEF ReadNext, NewRequest, BadHeader, Refused, Aborted, WrongVersion, Eof, TypeOK
    <3>2. QED BY <2>1, <3>1 DEF Aborted, TypeOK
  <2>3. ~Server
    <3>1. SUFFICES ASSUME Server PROVE FALSE
      OBVIOUS
    <3>2. ErrorHead \/ ErrorRest
      BY <2>1, <3>1 DEF Server, Notified, Close
    <3>3. wire \in Seq(Slots \X Parts) /\ used \in Slots
      BY <3>2 DEF TypeOK, Parts, HeldInv, ErrorInv, ErrorHead, ErrorRest
    <3>4. \E part \in Parts : wire' = Append(wire, <<used, part>>)
      BY <3>2 DEF ErrorHead, ErrorRest, Parts
    <3>5. QED BY <1>2, <3>3, <3>4, WireGrows DEF WritesNothing
  <2>4. ASSUME NEW u \in Users, Recv(u) \/ Writes(u) PROVE FALSE
    <3>1. WriteHead(u) \/ WriteRest(u)
      BY <2>1, <2>4 DEF Recv, Writes, WriteContinue
    <3>2. \E j \in Slots, part \in Parts : wire' = Append(wire, <<j, part>>)
      BY <3>1 DEF WriteHead, WriteRest, Parts
    <3>3. QED BY <1>2, <3>2, WireGrows DEF WritesNothing
  <2>5. ASSUME NEW u \in Users, Drops(u) PROVE FALSE
    <3>1. DropWriter(u)
      BY <2>1, <2>5 DEF Drops, DropReader
    <3>2. PICK j \in Slots : busy[u] = <<"close", j>> /\ writer' = [writer EXCEPT ![j] = "finished"]
      BY <3>1 DEF DropWriter
    <3>3. j = i
      BY <2>1, <3>2 DEF TypeOK
    <3>4. rq[i] = "dropping"
      BY <3>2, <3>3 DEF HeldInv, CallInv, AnyCall, Reading
    <3>5. QED BY <1>2, <3>4 DEF SpokenInv
  <2>6. (\E u \in Users, j \in Slots : Uses(u, j)) \/ (\E j \in Slots : SendBody(j)) \/ UNCHANGED vars
          => UNCHANGED writer
    BY DEF Uses, Answer, Respond, DropHeld, DropAnswered, DropNotifier, AsReader, Upgrade,
           WriteRaw, Read, IntoWriter, Begin, SendBody, vars
  <2>7. QED BY <2>1, <2>2, <2>3, <2>4, <2>5, <2>6 DEF Next, Client, Spoken
<1>3. ASSUME writer[i] \notin {"partial", "written", "finished"},
             NEW j \in Slots, NEW part \in Parts, WritesPart(j, part),
             writer'[i] \in {"partial", "written", "finished"}
      PROVE  Spoken(i)'
  <2>1. j = i /\ part = "head"
    BY <1>3 DEF WritesPart, Parts
  <2>2. QED BY <1>3, <2>1, HeadsStay DEF Spoken
<1>4. QED BY <1>1, <1>2, <1>3, Steps DEF Spoken

LEMMA NeverRaw ==
  ASSUME TypeOK, HeldInv, SpokenInv, [Next]_vars, "into_writer" \notin UserOps, NEW i \in Slots
  PROVE  rq'[i] # "raw" /\ (rq'[i] = "dropping" => writer'[i] = "written")
<1>1. rq[i] # "raw" /\ (rq[i] = "dropping" => writer[i] = "written")
  BY DEF SpokenInv
<1>2. ASSUME ReadNext
      PROVE  rq'[i] = "queued" \/ (rq'[i] = rq[i] /\ (rq[i] = "dropping" => writer'[i] = writer[i]))
  <2>1. \A j \in Slots : rq[j] # "none" => j # used + 1 /\ j # used + 1 + 1
    <3>1. used \in Nat /\ \A j \in Slots : j > used => rq[j] = "none"
      BY ConnectionAssumption DEF TypeOK, ConnectionAssumption, HeldInv, SlotInv
    <3>2. used + 1 > used /\ used + 1 + 1 > used
      BY <3>1
    <3>3. QED BY <3>1, <3>2
  <2>2. QED BY <1>2, <2>1
    DEF ReadNext, NewRequest, BadHeader, Refused, Aborted, WrongVersion, Eof, TypeOK
<1>3. ASSUME Server
      PROVE  rq'[i] = rq[i] /\ (rq[i] = "dropping" => writer'[i] = writer[i])
  <2>1. ErrorHead \/ ErrorRest => used \in Slots /\ rq[used] = "none"
    BY DEF ErrorHead, ErrorRest, HeldInv, ErrorInv
  <2>2. ErrorRest => conn = "error"
    BY DEF ErrorRest, HeldInv, ErrorInv
  <2>3. QED BY <1>3, <2>1, <2>2 DEF Server, Notified, Close, ErrorHead, ErrorRest, TypeOK
<1>4. ASSUME NEW u \in Users, Recv(u)
      PROVE  rq'[i] = "held" \/ (rq'[i] = rq[i] /\ UNCHANGED writer)
  BY <1>4 DEF Recv, TypeOK
<1>5. ASSUME NEW u \in Users, WriteContinue(u) PROVE UNCHANGED <<rq, writer>>
  BY <1>5 DEF WriteContinue
<1>6. ASSUME NEW u \in Users, WriteHead(u)
      PROVE  UNCHANGED rq /\ (rq[i] = "dropping" => writer'[i] = writer[i])
  <2>1. PICK j \in Slots : /\ busy[u] \in (Writing \ {"continue"}) \X {j} /\ UNCHANGED rq
                           /\ writer' = [writer EXCEPT ![j] = "partial"]
    BY <1>6 DEF WriteHead
  <2>2. PICK call \in Writing \ {"continue"} : busy[u] = <<call, j>>
    BY <2>1
  <2>3. rq[j] \in {"raw", "held"}
    BY <2>2 DEF HeldInv, CallInv, AnyCall
  <2>4. QED BY <2>1, <2>3 DEF TypeOK
<1>7. ASSUME NEW u \in Users, WriteRest(u)
      PROVE  \/ rq'[i] \in {"answered", "stream"}
             \/ rq'[i] = rq[i] /\ writer'[i] = writer[i]
  <2>1. PICK j \in Slots, call \in Writing \ {"continue"} :
          /\ busy[u] = <<call, j>>
          /\ writer' = [writer EXCEPT ![j] = WriterAfter(call)]
          /\ rq' = [rq EXCEPT ![j] =
               CASE call \in {"respond", "drop"} -> "answered"
                 [] call = "upgrade" -> "stream"   [] call = "write" -> "raw"]
    BY <1>7 DEF WriteRest
  <2>2. call # "write"
    BY <2>1 DEF HeldInv, CallInv, SpokenInv, AnyCall, Writing
  <2>3. QED BY <2>1, <2>2 DEF TypeOK, Writing
<1>8. ASSUME NEW u \in Users, DropReader(u)
      PROVE  UNCHANGED writer /\ (rq'[i] = "gone" \/ rq'[i] = rq[i])
  <2>1. PICK j \in Slots, call \in Reading :
          /\ busy[u] = <<call, j>>
          /\ rq' = [rq EXCEPT ![j] =
               CASE call = "drain" -> "gone" [] call = "unpack" -> "raw"
                 [] call \in {"read", "close"} -> rq[j]]
          /\ UNCHANGED writer
    BY <1>8 DEF DropReader
  <2>2. call # "unpack"
    BY <2>1 DEF SpokenInv
  <2>3. QED BY <2>1, <2>2 DEF TypeOK, Reading
<1>9. ASSUME NEW u \in Users, DropWriter(u)
      PROVE  rq'[i] = "gone" \/ (rq'[i] = rq[i] /\ writer'[i] = writer[i])
  BY <1>9 DEF DropWriter, TypeOK
<1>10. ASSUME NEW u \in Users, NEW j \in Slots, DropNotifier(u, j)
       PROVE  UNCHANGED writer /\ (rq'[i] = rq[i] \/ (rq'[i] = "dropping" /\ writer[i] = "written"))
  BY <1>10 DEF DropNotifier, TypeOK, HeldInv, SlotInv, SpokenInv
<1>11. ASSUME \/ UNCHANGED vars
              \/ \E j \in Slots : SendBody(j)
              \/ \E u \in Users, j \in Slots : Uses(u, j) /\ ~DropNotifier(u, j)
       PROVE  UNCHANGED <<rq, writer>>
  BY <1>11 DEF vars, SendBody, Uses, Answer, Respond, DropHeld, DropAnswered, AsReader, Upgrade,
               WriteRaw, Read, IntoWriter, Begin
<1>12. QED
  BY <1>1, <1>2, <1>3, <1>4, <1>5, <1>6, <1>7, <1>8, <1>9, <1>10, <1>11
  DEF Next, Client, Writes, Drops

(* Without into_writer no thread gives the writer out of a Request. *)
LEMMA NeverUnpacks ==
  ASSUME TypeOK, SpokenInv, [Next]_vars, "into_writer" \notin UserOps
  PROVE  \A u \in Users, i \in Slots : busy'[u] # <<"unpack", i>>
<1>1. ASSUME NEW v \in Users, NEW b, busy' = [busy EXCEPT ![v] = b],
             \A i \in Slots : b # <<"unpack", i>>
      PROVE  \A u \in Users, i \in Slots : busy'[u] # <<"unpack", i>>
  BY <1>1 DEF TypeOK, SpokenInv
<1>2. UNCHANGED busy => \A u \in Users, i \in Slots : busy'[u] # <<"unpack", i>>
  BY DEF SpokenInv
<1>3. ReadNext \/ Server \/ (\E i \in Slots : SendBody(i)) \/ UNCHANGED vars => UNCHANGED busy
  BY DEF ReadNext, Server, Notified, Close, ErrorHead, ErrorRest, SendBody, vars
<1>4. ASSUME NEW v \in Users, Recv(v) \/ Writes(v) \/ Drops(v)
      PROVE  UNCHANGED busy \/ \E b : /\ busy' = [busy EXCEPT ![v] = b]
                                      /\ \A i \in Slots : b # <<"unpack", i>>
  BY <1>4 DEF Recv, Writes, Drops, WriteContinue, WriteHead, WriteRest, DropReader, DropWriter, Free
<1>5. ASSUME NEW v \in Users, NEW i \in Slots, Uses(v, i)
      PROVE  \E call \in {"respond", "drop", "drain", "continue", "upgrade", "write", "read", "close"} :
               busy' = [busy EXCEPT ![v] = <<call, i>>]
  BY <1>5 DEF Uses, Answer, Respond, DropHeld, DropAnswered, DropNotifier, AsReader, Upgrade,
              WriteRaw, Read, IntoWriter, Begin
<1>6. ASSUME NEW v \in Users, NEW i \in Slots, Uses(v, i)
      PROVE  \A u \in Users, j \in Slots : busy'[u] # <<"unpack", j>>
  <2>1. PICK call \in {"respond", "drop", "drain", "continue", "upgrade", "write", "read", "close"} :
          busy' = [busy EXCEPT ![v] = <<call, i>>]
    BY <1>5, <1>6
  <2>2. \A j \in Slots : <<call, i>> # <<"unpack", j>>
    OBVIOUS
  <2>3. QED BY <1>1, <2>1, <2>2
<1>7. QED BY <1>1, <1>2, <1>3, <1>4, <1>6 DEF Next, Client

(* As long as no request is refused and no thread takes a writer away with
   into_writer, what reaches the client is a ResponseStream: the responses are
   whole and in the order of the requests, for any number of threads and of
   pipelined requests. *)
THEOREM Refinement ==
  "refused" \notin Failures /\ "into_writer" \notin UserOps => (Spec => ResponsesInOrder)
<1> SUFFICES ASSUME "refused" \notin Failures, "into_writer" \notin UserOps
             PROVE  Spec => ResponsesInOrder
  OBVIOUS
<1>1. Init => SpokenInv
  BY DEF Init, SpokenInv, Spoken, Free
<1>2. TypedInv /\ HeldInv /\ SpokenInv /\ [Next]_vars => SpokenInv'
  BY SpokenKept, NeverRaw, NeverUnpacks DEF TypedInv, SpokenInv
<1>3. TypedInv /\ SpokenInv => ~GivenUp
  <2> SUFFICES ASSUME TypedInv, SpokenInv, GivenUp PROVE FALSE
    OBVIOUS
  <2>1. PICK i \in 2..(used - 1) : writer[i] = "finished" /\ Heads(i) = {}
    BY DEF GivenUp
  <2>2. used \in 0..MaxSlots /\ MaxSlots \in Nat
    BY ConnectionAssumption DEF TypedInv, TypeOK, ConnectionAssumption
  <2>3. i \in Slots /\ i # used
    BY <2>2 DEF Slots
  <2>4. QED BY <2>1, <2>3 DEF SpokenInv, Spoken
<1>4. Init => Stream!Init
  BY DEF Init, Stream!Init
<1>5. TypedInv /\ HeldInv /\ WireInv /\ ~GivenUp /\ [Next]_vars => [Stream!Next]_wire
  BY PartFollows DEF WireInv, TypedInv
<1>6. QED
  BY <1>1, <1>2, <1>3, <1>4, <1>5, Typed, Held, Wire, PTL DEF Spec, ResponsesInOrder, Stream!Spec
=============================================================================
