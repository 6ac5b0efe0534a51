---------------------------- MODULE ResponseProofs ----------------------------
(***************************************************************************)
(* What raw_print writes is what the client takes it for, for any          *)
(* requests, statuses, bodies and headers, over a connection that carries  *)
(* any number of them: the client finds each response where the one before *)
(* it ends, with one framing, for the request it was written for, and with *)
(* the body that was meant.                                                *)
(*                                                                         *)
(* The output falls into responses (Parts), each framed as was meant       *)
(* (IsResponse), each for the first pending request that none before it    *)
(* answers; and the heads in the input are those of the pending requests   *)
(* which are still to be read (Coming). A response is written for the      *)
(* right request because the one that the user holds is the last that was  *)
(* read: this takes the framing of the requests (Framed).                  *)
(***************************************************************************)
EXTENDS ExchangeProofs, FiniteSetTheorems, SequenceTheorems

(* A set of numbers that is not empty has a least one. *)
LEMMA Least ==
  ASSUME NEW X \in SUBSET Nat, X # {}
  PROVE  \E m \in X : \A n \in X : m <= n
<1> DEFINE T == {1..n : n \in X}
<1>1. \A n \in X : 1..n \in FiniteSubsetsOf(Nat)
  <2>1. \A n \in X : IsFiniteSet(1..n)
    BY FS_Interval
  <2>2. QED BY <2>1 DEF FiniteSubsetsOf
<1>2. T \subseteq FiniteSubsetsOf(Nat) /\ T # {}
  BY <1>1
<1>3. IsWellFoundedOn(StrictSubsetOrdering(Nat), FiniteSubsetsOf(Nat))
  BY FS_StrictSubsetOrderingWellFounded
<1> HIDE DEF T
<1>4. \E x \in T : \A y \in T : ~ (<<y, x>> \in StrictSubsetOrdering(Nat))
  BY <1>2, <1>3, WFMin
<1>5. PICK x \in T : \A y \in T : ~ (<<y, x>> \in StrictSubsetOrdering(Nat))
  BY <1>4
<1>6. PICK m \in X : x = 1..m
  BY <1>5 DEF T
<1>7. ASSUME NEW n \in X, ~(m <= n) PROVE FALSE
  <2>1. n \in Nat /\ m \in Nat /\ n < m
    BY <1>6, <1>7
  <2>2. 1..n \subseteq 1..m /\ 1..n # 1..m
    BY <2>1
  <2>3. <<1..n, 1..m>> \in StrictSubsetOrdering(Nat)
    BY <2>2 DEF StrictSubsetOrdering
  <2>4. QED BY <1>5, <1>6, <2>3 DEF T
<1>8. QED BY <1>7

(* What is true of 0 and handed on is true of every number. *)
LEMMA Induction ==
  ASSUME NEW X \in SUBSET Nat, 0 \in X, \A n \in X : n + 1 \in X
  PROVE  X = Nat
<1> SUFFICES ASSUME Nat \ X # {} PROVE FALSE
  OBVIOUS
<1>1. PICK m \in Nat \ X : \A n \in Nat \ X : m <= n
  BY Least
<1>2. m - 1 \in X /\ (m - 1) + 1 = m
  BY <1>1
<1>3. QED BY <1>1, <1>2

-----------------------------------------------------------------------------
(* Some encoding of TE that the server knows is preferred to all others. *)
Known(te) == {i \in DOMAIN te : te[i][2] > 0 /\ te[i][1] \in {"identity", "chunked"}}

Preferred(te, i, j) == te[i][2] > te[j][2] \/ (te[i][2] = te[j][2] /\ i <= j)

LEMMA OneIsPreferred ==
  ASSUME NEW r \in Requests, Known(r.te) # {}
  PROVE  \E i \in Known(r.te) : \A j \in Known(r.te) : Preferred(r.te, i, j)
<1> DEFINE te == r.te
           First(n) == {i \in Known(te) : i <= n}
           X == {n \in Nat : First(n) # {} =>
                   \E i \in First(n) : \A j \in First(n) : Preferred(te, i, j)}
<1>1. te \in Seq({"identity", "chunked", "gzip"} \X Nat)
  BY ExchangeAssumption DEF ExchangeAssumption, RequestType
<1>2. /\ \A i \in Known(te) : i \in Nat /\ 1 <= i /\ i <= Len(te) /\ te[i][2] \in Nat
      /\ Len(te) \in Nat
  BY <1>1 DEF Known
<1> HIDE DEF te
<1>3. 0 \in X
  BY <1>2
<1>4. ASSUME NEW n \in X PROVE n + 1 \in X
  <2> SUFFICES ASSUME First(n + 1) # {}
               PROVE  \E i \in First(n + 1) : \A j \in First(n + 1) : Preferred(te, i, j)
    OBVIOUS
  <2>1. \A i \in First(n + 1) : i \in First(n) \/ i = n + 1
    BY <1>2
  <2>2. CASE First(n) = {}
    <3>1. First(n + 1) = {n + 1} /\ n + 1 \in Known(te)
      BY <2>1, <2>2
    <3>2. Preferred(te, n + 1, n + 1)
      BY DEF Preferred
    <3>3. QED BY <3>1, <3>2
  <2>3. CASE First(n) # {}
    <3>1. PICK i \in First(n) : \A j \in First(n) : Preferred(te, i, j)
      BY <2>3
    <3>2. i \in First(n + 1) /\ i \in Nat /\ i <= n /\ te[i][2] \in Nat
      BY <1>2
    <3>3. CASE n + 1 \in Known(te) /\ te[n + 1][2] > te[i][2]
      <4>1. ASSUME NEW j \in First(n + 1) PROVE Preferred(te, n + 1, j)
        <5>1. CASE j = n + 1
          BY <5>1 DEF Preferred
        <5>2. CASE j # n + 1
          BY <1>2, <2>1, <3>1, <3>2, <3>3, <5>2 DEF Preferred
        <5>3. QED BY <5>1, <5>2
      <4>2. QED BY <3>3, <4>1
    <3>4. CASE ~(n + 1 \in Known(te) /\ te[n + 1][2] > te[i][2])
      <4>1. ASSUME NEW j \in First(n + 1) PROVE Preferred(te, i, j)
        BY <1>2, <2>1, <3>1, <3>2, <3>4 DEF Preferred
      <4>2. QED BY <3>2, <4>1
    <3>5. QED BY <3>3, <3>4
  <2>4. QED BY <2>2, <2>3
<1>5. X = Nat
  <2>1. X \in SUBSET Nat
    OBVIOUS
  <2> HIDE DEF X
  <2>2. QED BY <1>3, <1>4, <2>1, Induction
<1>6. Len(te) \in X
  BY <1>2, <1>5
<1>7. First(Len(te)) = Known(te)
  BY <1>2
<1>8. QED BY <1>6, <1>7 DEF te

LEMMA TeIsKnown ==
  ASSUME NEW r \in Requests
  PROVE  ParseTe(r.te) \in {"identity", "chunked", None}
<1> DEFINE best == {i \in Known(r.te) : \A j \in Known(r.te) : Preferred(r.te, i, j)}
<1>1. ParseTe(r.te) = IF Known(r.te) = {} THEN None ELSE r.te[CHOOSE i \in best : TRUE][1]
  BY DEF ParseTe, Known, Preferred
<1>2. CASE Known(r.te) # {}
  <2>1. (CHOOSE i \in best : TRUE) \in best
    BY <1>2, OneIsPreferred
  <2>2. QED BY <1>1, <1>2, <2>1 DEF Known
<1>3. QED BY <1>1, <1>2

LEMMA EncodingIsKnown ==
  ASSUME NEW r \in Requests, NEW res
  PROVE  /\ ChooseTransferEncoding(res, r) \in {"identity", "chunked"}
         /\ ChooseTransferEncoding(res, r) = "chunked" =>
              r.version > 10 /\ ~(res.status < 200 \/ res.status = 204)
<1>1. r.version \in {10, 11}
  BY ExchangeAssumption DEF ExchangeAssumption, RequestType
<1>2. ParseTe(r.te) \in {"identity", "chunked", None}
  BY TeIsKnown
<1> DEFINE te == ParseTe(r.te)
           low == res.status < 200 \/ res.status = 204
<1> HIDE DEF te
<1>3. CASE r.version = 10
  BY <1>3 DEF ChooseTransferEncoding
<1>4. CASE r.version = 11 /\ low
  BY <1>4 DEF ChooseTransferEncoding
<1>5. CASE r.version = 11 /\ ~low
  <2>1. ChooseTransferEncoding(res, r) =
          IF te # None THEN te
          ELSE IF res.length = None \/ res.length >= THRESHOLD THEN "chunked" ELSE "identity"
    BY <1>5 DEF ChooseTransferEncoding, te
  <2>2. te \in {"identity", "chunked", None}
    BY <1>2 DEF te
  <2>3. QED BY <1>5, <2>1, <2>2
<1>6. QED BY <1>1, <1>3, <1>4, <1>5
-----------------------------------------------------------------------------
(* Headers of a response, and responses while they are built. *)
Names  == Forbidden \cup {"Content-Type", "Content-Length"}
Values == Nat \cup {"chunked", "close", "a", "b"}
Header == Names \X Values

(* What the headers added to a response may be: not those of the framing, and
   at most one Content-Type. *)
Addable(h) == h[1] \notin Forbidden \cup {"Content-Length"}

OneType(headers) ==
  \A i, j \in DOMAIN headers :
    headers[i][1] = "Content-Type" /\ headers[j][1] = "Content-Type" => i = j

Built(res, status, body) ==
  /\ DOMAIN res = {"status", "body", "length", "headers"}
  /\ res.status = status /\ res.body = body /\ res.length \in {None, body}
  /\ res.headers \in Seq(Header)
  /\ \A i \in DOMAIN res.headers : Addable(res.headers[i])
  /\ OneType(res.headers)

LEMMA HeaderAdded ==
  ASSUME NEW res, NEW status, NEW body, Built(res, status, body),
         NEW h \in Header, h[1] = "Content-Length" => h[2] = body
  PROVE  Built(AddHeader(res, h), status, body)
<1> DEFINE new == AddHeader(res, h)
           old == {i \in DOMAIN res.headers : res.headers[i][1] = "Content-Type"}
<1>1. CASE h[1] \in Forbidden
  <2>1. new = res
    BY <1>1 DEF AddHeader, Forbidden
  <2>2. QED BY <2>1
<1>2. CASE h[1] = "Content-Length"
  BY <1>2 DEF AddHeader, Built, Forbidden
<1>3. CASE h[1] = "Content-Type" /\ old # {}
  <2>1. new = [res EXCEPT !.headers = [i \in DOMAIN @ |-> IF i \in old THEN h ELSE @[i]]]
    BY <1>3 DEF AddHeader, Forbidden
  <2>2. PICK k \in old : \A i \in old : i = k
    BY <1>3 DEF Built, OneType
  <2>3. new.headers = [i \in DOMAIN res.headers |-> IF i \in old THEN h ELSE res.headers[i]]
    BY <2>1 DEF Built
  <2>4. new.headers \in Seq(Header) /\ DOMAIN new.headers = DOMAIN res.headers
    BY <2>3 DEF Built
  <2>5. \A i \in DOMAIN new.headers : Addable(new.headers[i])
    BY <1>3, <2>3 DEF Built, Addable, Forbidden
  <2>6. OneType(new.headers)
    BY <2>2, <2>3 DEF Built, OneType
  <2>7. QED BY <2>1, <2>4, <2>5, <2>6 DEF Built
<1>4. CASE Addable(h) /\ ~(h[1] = "Content-Type" /\ old # {})
  <2>1. new = [res EXCEPT !.headers = Append(@, h)]
    BY <1>4 DEF AddHeader, Addable
  <2>2. new.headers = Append(res.headers, h)
    BY <2>1 DEF Built
  <2>3. new.headers \in Seq(Header) /\ Len(res.headers) \in Nat
    BY <2>2 DEF Built
  <2>4. \A i \in DOMAIN new.headers :
          IF i = Len(res.headers) + 1 THEN new.headers[i] = h
          ELSE i \in DOMAIN res.headers /\ new.headers[i] = res.headers[i]
    BY <2>2 DEF Built
  <2>5. \A i \in DOMAIN new.headers : Addable(new.headers[i])
    BY <1>4, <2>4 DEF Built
  <2>6. OneType(new.headers)
    BY <1>4, <2>4 DEF Built, OneType
  <2>7. QED BY <2>1, <2>3, <2>5, <2>6 DEF Built
<1>5. QED BY <1>1, <1>2, <1>3, <1>4 DEF Addable

(* The loop of Response::new over the headers: the recursive function exists. *)
Adding(with, first, headers, n) ==
  with = [k \in 0..n |-> IF k = 0 THEN first ELSE AddHeader(with[k - 1], headers[k])]

LEMMA AddingEnds ==
  ASSUME NEW first, NEW headers
  PROVE  \A n \in Nat : \E with : Adding(with, first, headers, n)
<1> DEFINE X == {n \in Nat : \E with : Adding(with, first, headers, n)}
<1>1. 0 \in X
  <2>1. Adding([k \in 0..0 |-> first], first, headers, 0)
    BY DEF Adding
  <2>2. QED BY <2>1
<1>2. ASSUME NEW n \in X PROVE n + 1 \in X
  <2>1. PICK with : Adding(with, first, headers, n)
    OBVIOUS
  <2> DEFINE more == [k \in 0..(n + 1) |-> IF k = n + 1 THEN AddHeader(with[n], headers[n + 1])
                                           ELSE with[k]]
  <2>2. n \in Nat
    OBVIOUS
  <2>3. ASSUME NEW k \in 0..(n + 1)
        PROVE  more[k] = IF k = 0 THEN first ELSE AddHeader(more[k - 1], headers[k])
    <3>1. CASE k = 0
      BY <2>1, <2>2, <3>1 DEF Adding
    <3>2. CASE k = n + 1
      <4>1. more[k] = AddHeader(with[n], headers[n + 1]) /\ more[k - 1] = with[n]
        BY <2>2, <3>2
      <4>2. QED BY <2>2, <3>2, <4>1
    <3>3. CASE k \in 1..n
      <4>1. more[k] = with[k] /\ more[k - 1] = with[k - 1] /\ k \in 0..n /\ k # 0
        BY <2>2, <3>3
      <4>2. with[k] = AddHeader(with[k - 1], headers[k])
        BY <2>1, <4>1 DEF Adding
      <4>3. QED BY <4>1, <4>2
    <3>4. QED BY <2>2, <3>1, <3>2, <3>3
  <2>4. Adding(more, first, headers, n + 1)
    <3> HIDE DEF more
    <3>1. more = [k \in 0..(n + 1) |-> more[k]]
      BY DEF more
    <3>2. QED BY <2>3, <3>1 DEF Adding
  <2>5. QED BY <2>2, <2>4
<1>3. X = Nat
  <2>1. X \in SUBSET Nat
    OBVIOUS
  <2> HIDE DEF X
  <2>2. QED BY <1>1, <1>2, <2>1, Induction
<1>4. QED BY <1>3

LEMMA ResponseBuilt ==
  ASSUME NEW status, NEW body, NEW length \in {None, body}, NEW headers \in Seq(Header),
         \A i \in DOMAIN headers : headers[i][1] = "Content-Length" => headers[i][2] = body
  PROVE  Built(NewResponse(status, body, length, headers), status, body)
<1> DEFINE first == [status |-> status, body |-> body, length |-> length, headers |-> <<>>]
           with == CHOOSE with : Adding(with, first, headers, Len(headers))
           X == {n \in Nat : n <= Len(headers) => Built(with[n], status, body)}
<1>1. Len(headers) \in Nat
  OBVIOUS
<1>2. Adding(with, first, headers, Len(headers))
  BY <1>1, AddingEnds
<1>3. NewResponse(status, body, length, headers) = with[Len(headers)]
  BY DEF NewResponse, Adding
<1>4. Built(first, status, body)
  BY DEF Built, OneType
<1> HIDE DEF first, with
<1>5. 0 \in X
  BY <1>1, <1>2, <1>4 DEF Adding
<1>6. ASSUME NEW n \in X PROVE n + 1 \in X
  <2> SUFFICES ASSUME n + 1 <= Len(headers) PROVE Built(with[n + 1], status, body)
    OBVIOUS
  <2>1. n \in Nat /\ Built(with[n], status, body)
    BY <1>1
  <2>2. n + 1 \in DOMAIN headers /\ headers[n + 1] \in Header
    BY <1>1, <2>1
  <2>3. with[n + 1] = AddHeader(with[(n + 1) - 1], headers[n + 1])
    <3>1. n + 1 \in 0..Len(headers) /\ n + 1 # 0
      BY <1>1, <2>1
    <3>2. \A k \in 0..Len(headers) :
            with[k] = IF k = 0 THEN first ELSE AddHeader(with[k - 1], headers[k])
      BY <1>2 DEF Adding
    <3>3. QED BY <3>1, <3>2
  <2>4. with[n + 1] = AddHeader(with[n], headers[n + 1])
    BY <2>1, <2>3
  <2>5. QED BY <2>1, <2>2, <2>4, HeaderAdded
<1>7. X = Nat
  <2>1. X \in SUBSET Nat
    OBVIOUS
  <2> HIDE DEF X
  <2>2. QED BY <1>5, <1>6, <2>1, Induction
<1>8. QED BY <1>1, <1>3, <1>7
-----------------------------------------------------------------------------
(* The bytes of responses. *)
End  == <<"end">>
Bytes == {DataUnit, End} \cup ({"head"} \X Nat \X Seq(Header))

FramingFields == {"Content-Length", "Transfer-Encoding"}

(* The header of a response: the framing comes last and once. *)
HeadersFrame(headers) ==
  /\ headers \in Seq(Header) /\ Len(headers) >= 1
  /\ headers[Len(headers)][1] \in FramingFields
  /\ \A i \in 1..(Len(headers) - 1) : headers[i][1] \notin FramingFields
  /\ OneType(headers)

(* The field that frames the response whose head is at a. *)
FramingField(out, a) == out[a][3][Len(out[a][3])]

(* From a on, and before b, out holds the response that was meant for r. *)
IsResponse(out, a, b, r, m) ==
  /\ out[a][1] = "head" /\ out[a][2] = m.status /\ HeadersFrame(out[a][3])
  /\ \A i \in (a + 1)..(b - 1) : out[i][1] # "head"
  /\ FramingField(out, a)[1] = "Transfer-Encoding" =>
       r.version > 10 /\ m.status >= 200 /\ m.status # 204
  /\ Bodiless(r, m.status) => b = a + 1
  /\ ~Bodiless(r, m.status) =>
       /\ \A i \in (a + 1)..(a + m.data) : out[i] = DataUnit
       /\ FramingField(out, a)[1] = "Transfer-Encoding" => b = a + m.data + 2 /\ out[b - 1] = End
       /\ FramingField(out, a)[1] = "Content-Length" =>
            b = a + m.data + 1 /\ FramingField(out, a)[2] = m.data

(* raw_print writes the response that is meant, whichever way it frames it. *)
LEMMA PrintedAsMeant ==
  ASSUME NEW r \in Requests, NEW status \in Nat, NEW body \in Nat, NEW res,
         Built(res, status, body), NEW without \in BOOLEAN,
         (without \/ WithoutBody(status)) <=> Bodiless(r, status)
  PROVE  LET s == RawPrint(res, r, without) IN
         /\ s \in Seq(Bytes) /\ Len(s) >= 1
         /\ IsResponse(s, 1, Len(s) + 1, r, [status |-> status, data |-> body])
<1> DEFINE encoding == ChooseTransferEncoding(res, r)
           length == IF res.length = None /\ encoding = "identity" THEN res.body
                     ELSE res.length
           framing == IF encoding = "chunked" THEN <<"Transfer-Encoding", "chunked">>
                      ELSE <<"Content-Length", length>>
           data == [i \in 1..res.body |-> DataUnit]
           rest == CASE without \/ WithoutBody(res.status) -> <<>>
                     [] OTHER -> IF encoding = "chunked" THEN Append(data, <<"end">>)
                                 ELSE IF length >= 1 THEN data ELSE <<>>
           headers == Append(res.headers, framing)
           head == <<"head", res.status, headers>>
           s == RawPrint(res, r, without)
           m == [status |-> status, data |-> body]
<1>1. s = <<head>> \o rest
  BY DEF RawPrint
<1>2. /\ res.status = status /\ res.body = body /\ res.length \in {None, body}
      /\ res.headers \in Seq(Header) /\ OneType(res.headers)
      /\ \A i \in DOMAIN res.headers : Addable(res.headers[i])
  BY DEF Built
<1>3. /\ encoding \in {"identity", "chunked"}
      /\ encoding = "chunked" => r.version > 10 /\ ~(status < 200 \/ status = 204)
  BY <1>2, EncodingIsKnown
<1>4. encoding # "chunked" => length = body
  BY <1>2, <1>3
<1>5. /\ framing \in Header /\ framing[1] \in FramingFields
      /\ framing[1] = "Transfer-Encoding" <=> encoding = "chunked"
      /\ encoding # "chunked" => framing[2] = body
  BY <1>3, <1>4 DEF Header, Names, Values, FramingFields, Forbidden
<1> HIDE DEF encoding
<1>6. /\ data \in Seq({DataUnit}) /\ Len(data) = body
      /\ \A i \in 1..body : data[i] = DataUnit
  BY <1>2
<1>7. /\ headers \in Seq(Header) /\ HeadersFrame(headers)
      /\ headers[Len(headers)] = framing
  <2>1. /\ headers \in Seq(Header) /\ Len(headers) = Len(res.headers) + 1
        /\ Len(res.headers) \in Nat /\ headers[Len(headers)] = framing
        /\ \A i \in 1..Len(res.headers) : headers[i] = res.headers[i]
    BY <1>2, <1>5
  <2> HIDE DEF headers, framing
  <2>2. \A i \in 1..(Len(headers) - 1) : headers[i] = res.headers[i] /\ Addable(headers[i])
    BY <1>2, <2>1
  <2>3. \A i \in 1..(Len(headers) - 1) : headers[i][1] \notin FramingFields
    BY <2>2 DEF Addable, FramingFields, Forbidden
  <2>4. OneType(headers)
    <3>1. headers[Len(headers)][1] # "Content-Type"
      BY <1>5, <2>1 DEF FramingFields
    <3>2. ASSUME NEW i \in DOMAIN headers, headers[i][1] = "Content-Type"
          PROVE  i \in DOMAIN res.headers /\ res.headers[i][1] = "Content-Type"
      BY <1>2, <2>1, <3>1, <3>2
    <3>3. QED BY <1>2, <3>2 DEF OneType
  <2>5. QED BY <1>5, <2>1, <2>3, <2>4 DEF HeadersFrame
<1>8. CASE Bodiless(r, status)
  <2>1. rest = <<>>
    BY <1>2, <1>8
  <2> HIDE DEF rest, headers, framing, data, length
  <2>2. head \in Bytes
    BY <1>2, <1>7 DEF Bytes
  <2>3. /\ s[1][1] = "head" /\ s[1][2] = status /\ s[1][3] = headers
        /\ Len(s) = 1 /\ s \in Seq(Bytes)
    <3>1. s = <<head>>
      <4> HIDE DEF head, s
      <4>1. QED BY <1>1, <2>1
    <3>2. s[1] = head /\ Len(s) = 1 /\ s \in Seq(Bytes)
      <4> HIDE DEF head, s
      <4>1. QED BY <2>2, <3>1
    <3> HIDE DEF s
    <3>3. QED BY <1>2, <3>2
  <2>4. FramingField(s, 1) = framing
    <3> HIDE DEF s
    <3>1. QED BY <1>7, <2>3 DEF FramingField
  <2> HIDE DEF s
  <2>5. m.status = status /\ m.data = body
    OBVIOUS
  <2> HIDE DEF m
  <2>6. IsResponse(s, 1, Len(s) + 1, r, m)
    BY <1>3, <1>5, <1>7, <1>8, <2>3, <2>4, <2>5 DEF IsResponse
  <2>7. QED BY <2>3, <2>6 DEF s, m
<1>9. CASE ~Bodiless(r, status)
  <2>1. rest = IF encoding = "chunked" THEN Append(data, <<"end">>)
               ELSE IF length >= 1 THEN data ELSE <<>>
    BY <1>2, <1>9
  <2> HIDE DEF data, framing, headers
  <2>2. encoding # "chunked" => rest = data
    <3>1. body = 0 => data = <<>>
      BY <1>6
    <3> HIDE DEF rest
    <3>2. QED BY <1>4, <2>1, <3>1
  <2> HIDE DEF rest, length
  <2>3. /\ rest \in Seq({DataUnit, End})
        /\ Len(rest) = IF encoding = "chunked" THEN body + 1 ELSE body
        /\ \A i \in 1..body : rest[i] = DataUnit
        /\ encoding = "chunked" => rest[body + 1] = End
    <3>1. CASE encoding = "chunked"
      BY <1>6, <2>1, <3>1 DEF End
    <3>2. CASE encoding # "chunked"
      BY <1>6, <2>2, <3>2
    <3>3. QED BY <3>1, <3>2
  <2>4. /\ s \in Seq(Bytes) /\ Len(s) = Len(rest) + 1 /\ s[1] = head
        /\ \A i \in 1..Len(rest) : s[i + 1] = rest[i]
    <3>1. head \in Bytes /\ rest \in Seq(Bytes)
      BY <1>2, <1>7, <2>3 DEF Bytes
    <3> HIDE DEF head
    <3>2. QED BY <1>1, <2>3, <3>1
  <2>5. \A i \in 2..Len(s) : i - 1 \in 1..Len(rest) /\ s[i] = rest[i - 1]
    BY <2>3, <2>4
  <2> HIDE DEF s
  <2>6. \A i \in 2..Len(s) : s[i] \in {DataUnit, End}
    BY <2>3, <2>5
  <2>7. \A i \in 2..Len(s) : s[i][1] # "head"
    BY <2>6 DEF DataUnit, End
  <2>8. \A i \in 2..(1 + body) : s[i] = DataUnit
    <3>1. \A i \in 2..(1 + body) : i \in 2..Len(s) /\ i - 1 \in 1..body
      BY <2>3, <2>4
    <3>2. QED BY <2>3, <2>5, <3>1
  <2>9. encoding = "chunked" => Len(s) + 1 = 1 + body + 2 /\ s[Len(s)] = End
    BY <2>3, <2>4, <2>5
  <2>10. encoding # "chunked" => Len(s) + 1 = 1 + body + 1
    BY <2>3, <2>4
  <2>11. /\ s[1][1] = "head" /\ s[1][2] = m.status /\ s[1][3] = headers
    BY <1>2, <2>4
  <2>12. FramingField(s, 1) = framing
    BY <1>7, <2>11 DEF FramingField
  <2>13. m.status = status /\ m.data = body
    OBVIOUS
  <2> HIDE DEF m, head
  <2>14. Len(s) \in Nat
    BY <2>4
  <2>15. IsResponse(s, 1, Len(s) + 1, r, m)
    BY <1>3, <1>5, <1>7, <1>9, <2>7, <2>8, <2>9, <2>10, <2>11, <2>12, <2>13, <2>14
    DEF IsResponse, FramingFields
  <2>16. QED BY <2>3, <2>4, <2>15 DEF s, m
<1>10. QED BY <1>8, <1>9
-----------------------------------------------------------------------------
Meant == [status : Nat, data : Nat]

(* A response is the same wherever it stands. *)
LEMMA Moved ==
  ASSUME NEW out, NEW new, NEW a \in Nat, NEW b \in Nat, a < b, NEW d \in Int,
         NEW r, NEW m \in Meant, IsResponse(out, a, b, r, m),
         \A i \in a..(b - 1) : new[i - d] = out[i]
  PROVE  IsResponse(new, a - d, b - d, r, m)
<1>1. new[a - d] = out[a] /\ FramingField(new, a - d) = FramingField(out, a) /\ m.data \in Nat
  BY DEF FramingField, Meant
<1>2. \A i \in ((a - d) + 1)..((b - d) - 1) :
        i + d \in (a + 1)..(b - 1) /\ new[i] = out[i + d]
  <2>1. ASSUME NEW i \in ((a - d) + 1)..((b - d) - 1)
        PROVE  i + d \in (a + 1)..(b - 1) /\ i + d \in a..(b - 1) /\ (i + d) - d = i
    OBVIOUS
  <2>2. QED BY <2>1
<1>3. \A i \in ((a - d) + 1)..((b - d) - 1) : new[i][1] # "head"
  BY <1>2 DEF IsResponse
<1>4. CASE Bodiless(r, m.status)
  <2>1. b - d = (a - d) + 1
    BY <1>4 DEF IsResponse
  <2>2. QED BY <1>1, <1>3, <1>4, <2>1 DEF IsResponse
<1>5. CASE ~Bodiless(r, m.status)
  <2>1. /\ FramingField(out, a)[1] \in FramingFields
        /\ \A i \in (a + 1)..(a + m.data) : out[i] = DataUnit
        /\ FramingField(out, a)[1] = "Transfer-Encoding" => b = a + m.data + 2 /\ out[b - 1] = End
        /\ FramingField(out, a)[1] = "Content-Length" =>
             b = a + m.data + 1 /\ FramingField(out, a)[2] = m.data
    BY <1>5 DEF IsResponse, HeadersFrame, FramingField
  <2>2. ASSUME NEW i \in ((a - d) + 1)..((a - d) + m.data) PROVE new[i] = DataUnit
    <3>1. i \in ((a - d) + 1)..((b - d) - 1) /\ i + d \in (a + 1)..(a + m.data)
      BY <1>1, <2>1 DEF FramingFields
    <3>2. QED BY <1>2, <2>1, <3>1
  <2>3. FramingField(out, a)[1] = "Transfer-Encoding" =>
          b - d = (a - d) + m.data + 2 /\ new[(b - d) - 1] = End
    <3>1. ASSUME FramingField(out, a)[1] = "Transfer-Encoding"
          PROVE  /\ b - d = (a - d) + m.data + 2 /\ ((b - d) - 1) + d = b - 1
                 /\ (b - d) - 1 \in ((a - d) + 1)..((b - d) - 1)
      BY <1>1, <2>1, <3>1
    <3>2. QED BY <1>2, <2>1, <3>1
  <2>4. FramingField(out, a)[1] = "Content-Length" =>
          b - d = (a - d) + m.data + 1 /\ FramingField(out, a)[2] = m.data
    BY <1>1, <2>1
  <2>5. QED BY <1>1, <1>3, <1>5, <2>2, <2>3, <2>4 DEF IsResponse
<1>6. QED BY <1>4, <1>5

LEMMA DataInterval ==
  ASSUME NEW n \in Nat
  PROVE  Cardinality(2..(1 + n)) = n
<1> DEFINE k == 1 + n
<1>1. k \in Int /\ (2 > k => n = 0) /\ (k - 2) + 1 = n
  OBVIOUS
<1> HIDE DEF k
<1>2. Cardinality(2..k) = IF 2 > k THEN 0 ELSE (k - 2) + 1
  BY <1>1, FS_Interval
<1>3. QED BY <1>1, <1>2 DEF k

(* What allows a response to have Transfer-Encoding. *)
MayBeChunked(r, status) == r.version > 10 /\ status >= 200 /\ status # 204

(* The client finds the end of the response, and its body. *)
LEMMA Understood ==
  ASSUME output \in Seq(Bytes), NEW b \in 2..(Len(output) + 1),
         NEW r, NEW m \in Meant, IsResponse(output, 1, b, r, m)
  PROVE  /\ Extent(r) = b - 1
         /\ Cardinality(Fields("Content-Length") \cup Fields("Transfer-Encoding")) = 1
         /\ Fields("Transfer-Encoding") # {} => MayBeChunked(r, m.status)
         /\ Cardinality(Fields("Content-Type")) <= 1
         /\ Cardinality({i \in 1..(b - 1) : output[i] = DataUnit}) =
              IF Bodiless(r, m.status) THEN 0 ELSE m.data
<1> DEFINE headers == output[1][3]
           n == Len(headers)
<1>1. /\ output[1][1] = "head" /\ output[1][2] = m.status /\ HeadersFrame(headers)
      /\ m.data \in Nat /\ b \in Nat /\ Len(output) \in Nat
  BY DEF IsResponse, Meant
<1>2. /\ n \in Nat /\ n >= 1 /\ DOMAIN headers = 1..n
      /\ headers[n] = FramingField(output, 1) /\ headers[n][1] \in FramingFields
      /\ \A i \in 1..(n - 1) : headers[i][1] \notin FramingFields
      /\ OneType(headers)
  BY <1>1 DEF HeadersFrame, FramingField
<1> HIDE DEF n
<1>3. \A name : Fields(name) = {i \in DOMAIN headers : headers[i][1] = name}
  BY DEF Fields
<1> HIDE DEF headers
<1>4. \A name \in FramingFields : Fields(name) = IF headers[n][1] = name THEN {n} ELSE {}
  <2>1. \A i \in 1..n : i = n \/ i \in 1..(n - 1)
    BY <1>2
  <2>2. QED BY <1>2, <1>3, <2>1
<1>5. Fields("Content-Length") \cup Fields("Transfer-Encoding") = {n}
  BY <1>2, <1>4 DEF FramingFields
<1>6. Cardinality(Fields("Content-Length") \cup Fields("Transfer-Encoding")) = 1
  BY <1>5, FS_Singleton
<1>7. Cardinality(Fields("Content-Type")) <= 1
  <2>1. \A i, j \in Fields("Content-Type") : i = j
    BY <1>2, <1>3 DEF OneType
  <2>2. CASE Fields("Content-Type") = {}
    BY <2>2, FS_EmptySet
  <2>3. CASE Fields("Content-Type") # {}
    <3>1. PICK i \in Fields("Content-Type") : Fields("Content-Type") = {i}
      BY <2>1, <2>3
    <3>2. Cardinality({i}) = 1
      BY FS_Singleton
    <3>3. Cardinality(Fields("Content-Type")) = 1
      BY <3>1, <3>2, Zenon
    <3>4. QED BY <3>3
  <2>4. QED BY <2>2, <2>3
<1>8. Fields("Transfer-Encoding") # {} <=> headers[n][1] = "Transfer-Encoding"
  BY <1>4 DEF FramingFields
<1>9. Fields("Transfer-Encoding") # {} => MayBeChunked(r, m.status)
  BY <1>2, <1>8 DEF IsResponse, MayBeChunked
<1> DEFINE body == {i \in 1..(b - 1) : output[i] = DataUnit}
<1>10. output[1] # DataUnit
  BY <1>1 DEF DataUnit
<1>11. CASE Bodiless(r, m.status)
  <2>1. b = 2
    BY <1>11 DEF IsResponse
  <2>2. Extent(r) = 1
    BY <1>1, <1>11 DEF Extent
  <2>3. body = {}
    BY <1>10, <2>1
  <2>4. Cardinality(body) = 0
    BY <2>3, FS_EmptySet
  <2>5. QED BY <1>6, <1>7, <1>9, <1>11, <2>1, <2>2, <2>4
<1>12. CASE ~Bodiless(r, m.status)
  <2>1. \A i \in 2..(1 + m.data) : output[i] = DataUnit
    BY <1>12 DEF IsResponse
  <2>2. CASE headers[n][1] = "Transfer-Encoding"
    <3>1. b = m.data + 3 /\ output[b - 1] = End
      BY <1>1, <1>2, <1>12, <2>2 DEF IsResponse
    <3>2. Extent(r) = IF Ends = {} THEN Len(output) + 1
                      ELSE CHOOSE i \in Ends : \A j \in Ends : i <= j
      BY <1>1, <1>8, <1>12, <2>2 DEF Extent
    <3>3. b - 1 \in Ends /\ b - 1 \in Nat
      BY <1>1, <3>1 DEF Ends, End
    <3>4. \A i \in Ends : i \in Nat /\ b - 1 <= i
      <4>1. ASSUME NEW i \in Ends, i < b - 1 PROVE FALSE
        <5>1. i \in 1..Len(output) /\ output[i][1] = "end"
          BY <4>1 DEF Ends
        <5>2. i = 1 \/ i \in 2..(1 + m.data)
          BY <1>1, <3>1, <4>1, <5>1
        <5>3. QED BY <1>1, <2>1, <5>1, <5>2 DEF DataUnit
      <4>2. \A i \in Ends : i \in Nat
        BY DEF Ends
      <4>3. QED BY <3>3, <4>1, <4>2
    <3>5. Extent(r) = b - 1
      <4>1. \E i \in Ends : \A j \in Ends : i <= j
        BY <3>3, <3>4
      <4>2. DEFINE least == CHOOSE i \in Ends : \A j \in Ends : i <= j
      <4>3. least \in Ends /\ \A j \in Ends : least <= j
        BY <4>1
      <4>4. least = b - 1
        <5> HIDE DEF least
        <5>1. least \in Nat /\ least <= b - 1 /\ b - 1 <= least
          BY <3>3, <3>4, <4>3
        <5>2. QED BY <3>3, <5>1
      <4>5. QED BY <3>2, <3>3, <4>4
    <3>6. body = 2..(1 + m.data)
      <4>1. \A i \in 1..(b - 1) : i = 1 \/ i = b - 1 \/ i \in 2..(1 + m.data)
        BY <1>1, <3>1
      <4>2. output[b - 1] # DataUnit
        BY <3>1 DEF End, DataUnit
      <4>3. 2..(1 + m.data) \subseteq 1..(b - 1)
        <5>1. b = m.data + 3 /\ m.data \in Nat
          BY <1>1, <3>1
        <5>2. QED BY ONLY <5>1
      <4>4. QED BY <1>10, <2>1, <4>1, <4>2, <4>3
    <3>7. Cardinality(body) = m.data
      <4>1. Cardinality(2..(1 + m.data)) = m.data
        BY <1>1, DataInterval
      <4>2. QED BY <3>6, <4>1
    <3>8. QED BY <1>6, <1>7, <1>9, <1>12, <3>5, <3>7
  <2>3. CASE headers[n][1] # "Transfer-Encoding"
    <3>1. headers[n][1] = "Content-Length" /\ Fields("Content-Length") = {n}
      BY <1>2, <1>4, <2>3 DEF FramingFields
    <3>2. b = m.data + 2 /\ headers[n][2] = m.data
      BY <1>1, <1>2, <1>12, <3>1 DEF IsResponse
    <3>3. Extent(r) = 1 + headers[CHOOSE i \in Fields("Content-Length") : TRUE][2]
      BY <1>1, <1>8, <1>12, <2>3, <3>1 DEF Extent, headers
    <3>4. (CHOOSE i \in Fields("Content-Length") : TRUE) = n
      BY <3>1
    <3>5. Extent(r) = b - 1
      <4>1. Extent(r) = 1 + headers[n][2]
        BY <3>3, <3>4, Zenon
      <4>2. QED BY <1>1, <3>2, <4>1
    <3>6. body = 2..(1 + m.data)
      <4>1. \A i \in 1..(b - 1) : i = 1 \/ i \in 2..(1 + m.data)
        BY <1>1, <3>2
      <4>2. 2..(1 + m.data) \subseteq 1..(b - 1)
        BY <1>1, <3>2
      <4>3. QED BY <1>10, <2>1, <4>1, <4>2
    <3>7. Cardinality(body) = m.data
      <4>1. Cardinality(2..(1 + m.data)) = m.data
        BY <1>1, DataInterval
      <4>2. QED BY <3>6, <4>1
    <3>8. QED BY <1>6, <1>7, <1>9, <1>12, <3>5, <3>7
  <2>4. QED BY <2>2, <2>3
<1>13. QED BY <1>11, <1>12
-----------------------------------------------------------------------------
(* How the output falls into n responses: the k-th begins at cut[k]. *)
Cuts(cut, n, size) ==
  /\ cut \in Seq(Nat) /\ Len(cut) = n + 1 /\ cut[1] = 1 /\ cut[n + 1] = size + 1
  /\ \A j, k \in 1..(n + 1) : j < k => cut[j] < cut[k]

(* It answers the request asker[k] of those pending; 100 Continue takes none off. *)
After(m, i) == IF m.status = 100 THEN i ELSE i + 1

Askers(asker, mt) ==
  /\ asker \in Seq(Nat) /\ Len(asker) = Len(mt) + 1 /\ asker[1] = 1
  /\ \A j, k \in 1..(Len(mt) + 1) : j <= k => asker[j] <= asker[k]
  /\ \A k \in 1..Len(mt) : asker[k + 1] = After(mt[k], asker[k])

Parts(out, mt, pd, cut, asker) ==
  /\ out \in Seq(Bytes) /\ mt \in Seq(Meant) /\ pd \in Seq(Requests)
  /\ Cuts(cut, Len(mt), Len(out)) /\ Askers(asker, mt)
  /\ \A k \in 1..Len(mt) : /\ asker[k] \in 1..Len(pd)
                           /\ IsResponse(out, cut[k], cut[k + 1], pd[asker[k]], mt[k])

LEMMA CutsRange ==
  ASSUME NEW n \in Nat, NEW size \in Nat, NEW cut, Cuts(cut, n, size), NEW k \in 1..n
  PROVE  /\ cut[k] \in Nat /\ cut[k + 1] \in Nat /\ cut[k] < cut[k + 1]
         /\ 1 <= cut[k] /\ cut[k + 1] <= size + 1
<1>1. k \in 1..(n + 1) /\ k + 1 \in 1..(n + 1) /\ 1 \in 1..(n + 1) /\ n + 1 \in 1..(n + 1)
      /\ k < k + 1 /\ (k = 1 \/ 1 < k) /\ (k + 1 = n + 1 \/ k + 1 < n + 1)
  OBVIOUS
<1>2. cut[k] \in Nat /\ cut[k + 1] \in Nat
  BY <1>1 DEF Cuts
<1>3. cut[k] < cut[k + 1]
  BY <1>1 DEF Cuts
<1>4. 1 <= cut[k]
  BY <1>1, <1>2 DEF Cuts
<1>5. cut[k + 1] <= size + 1
  BY <1>1, <1>2 DEF Cuts
<1>6. QED BY <1>2, <1>3, <1>4, <1>5

LEMMA CutsGrow ==
  ASSUME NEW n \in Nat, NEW size \in Nat, NEW cut, Cuts(cut, n, size),
         NEW end \in Nat, size + 1 < end
  PROVE  /\ Cuts(Append(cut, end), n + 1, end - 1)
         /\ \A k \in 1..(n + 1) : Append(cut, end)[k] = cut[k]
         /\ Append(cut, end)[n + 2] = end
<1> DEFINE new == Append(cut, end)
<1>1. /\ cut \in Seq(Nat) /\ Len(cut) = n + 1 /\ cut[1] = 1 /\ cut[n + 1] = size + 1
      /\ \A j, k \in 1..(n + 1) : j < k => cut[j] < cut[k]
  BY DEF Cuts
<1>2. /\ new \in Seq(Nat) /\ Len(new) = n + 2 /\ new[n + 2] = end
      /\ \A k \in 1..(n + 1) : new[k] = cut[k]
  BY <1>1
<1> HIDE DEF new
<1>3. ASSUME NEW j \in 1..(n + 2), NEW k \in 1..(n + 2), j < k
      PROVE  new[j] < new[k]
  <2>1. j \in 1..(n + 1) /\ new[j] = cut[j]
    BY <1>2, <1>3
  <2>2. CASE k = n + 2
    <3>1. j = n + 1 \/ j < n + 1
      BY <2>1
    <3>2. cut[j] <= size + 1
      BY <1>1, <2>1, <3>1
    <3>3. cut[j] \in Nat
      BY <1>1, <2>1
    <3>4. QED BY <1>2, <2>1, <2>2, <3>2, <3>3
  <2>3. CASE k \in 1..(n + 1)
    BY <1>1, <1>2, <1>3, <2>1, <2>3
  <2>4. QED BY <2>2, <2>3
<1>4. (n + 1) + 1 = n + 2 /\ 1 \in 1..(n + 1) /\ (end - 1) + 1 = end
  OBVIOUS
<1>5. Cuts(new, n + 1, end - 1)
  BY <1>1, <1>2, <1>3, <1>4 DEF Cuts
<1>6. QED BY <1>2, <1>5 DEF new

LEMMA CutsDrop ==
  ASSUME NEW n \in Nat, NEW size \in Nat, NEW cut, Cuts(cut, n, size), n >= 1
  PROVE  LET new == [k \in 1..n |-> cut[k + 1] - (cut[2] - 1)] IN
         /\ Cuts(new, n - 1, size - (cut[2] - 1))
         /\ cut[2] - 1 \in 1..size
         /\ \A k \in 1..n : new[k] = cut[k + 1] - (cut[2] - 1)
<1> DEFINE d == cut[2] - 1
           new == [k \in 1..n |-> cut[k + 1] - d]
<1>1. /\ cut \in Seq(Nat) /\ Len(cut) = n + 1 /\ cut[1] = 1 /\ cut[n + 1] = size + 1
      /\ \A j, k \in 1..(n + 1) : j < k => cut[j] < cut[k]
  BY DEF Cuts
<1>2. cut[2] \in Nat /\ d \in 1..size
  <2>1. cut[1] < cut[1 + 1] /\ cut[1 + 1] \in Nat /\ cut[1 + 1] <= size + 1
    BY CutsRange
  <2>2. QED BY <1>1, <2>1
<1>3. ASSUME NEW k \in 1..n PROVE cut[k + 1] \in Nat /\ cut[k + 1] >= cut[2]
  <2>1. k + 1 \in 1..(n + 1) /\ (k + 1 = 2 \/ 2 < k + 1) /\ 2 \in 1..(n + 1)
    OBVIOUS
  <2>2. QED BY <1>1, <1>2, <2>1
<1> HIDE DEF d
<1>4. new \in [1..n -> Nat]
  BY <1>2, <1>3 DEF d
<1>5. new \in Seq(Nat) /\ Len(new) = n
  BY <1>4
<1>6. \A k \in 1..n : new[k] = cut[k + 1] - d
  OBVIOUS
<1> HIDE DEF new
<1>7. ASSUME NEW j \in 1..n, NEW k \in 1..n, j < k PROVE new[j] < new[k]
  <2>1. j + 1 \in 1..(n + 1) /\ k + 1 \in 1..(n + 1) /\ j + 1 < k + 1
    BY <1>7
  <2>2. cut[j + 1] < cut[k + 1] /\ cut[j + 1] \in Nat /\ cut[k + 1] \in Nat
    BY <1>1, <1>3, <2>1
  <2>3. QED BY <1>2, <1>6, <2>2
<1>8. new[1] = 1 /\ new[n] = (size - d) + 1
  <2>1. 1 \in 1..n /\ n \in 1..n /\ 1 + 1 = 2
    OBVIOUS
  <2>2. new[1] = cut[2] - d /\ new[n] = cut[n + 1] - d
    BY <1>6, <2>1
  <2>3. cut[2] - d = 1
    BY <1>2 DEF d
  <2>4. QED BY <1>1, <1>2, <2>2, <2>3
<1>9. (n - 1) + 1 = n
  OBVIOUS
<1>10. Cuts(new, n - 1, size - d)
  BY <1>5, <1>7, <1>8, <1>9 DEF Cuts
<1>11. QED BY <1>2, <1>6, <1>10 DEF new, d

LEMMA AskersRange ==
  ASSUME NEW mt \in Seq(Meant), NEW asker, Askers(asker, mt), NEW k \in 1..(Len(mt) + 1)
  PROVE  asker[k] \in Nat /\ asker[k] >= 1
<1>1. 1 \in 1..(Len(mt) + 1) /\ 1 <= k /\ Len(mt) \in Nat
  OBVIOUS
<1>2. asker[1] = 1 /\ asker[1] <= asker[k] /\ asker[k] \in Nat
  BY <1>1 DEF Askers
<1>3. QED BY <1>2

LEMMA AskersGrow ==
  ASSUME NEW mt \in Seq(Meant), NEW asker, Askers(asker, mt), NEW m \in Meant
  PROVE  LET n == Len(mt)
             new == Append(asker, After(m, asker[n + 1])) IN
         /\ Askers(new, Append(mt, m))
         /\ \A k \in 1..(n + 1) : new[k] = asker[k]
         /\ new[n + 2] = After(m, asker[n + 1])
<1> DEFINE n == Len(mt)
           last == asker[n + 1]
           next == After(m, last)
           new == Append(asker, next)
           mts == Append(mt, m)
<1>1. /\ n \in Nat /\ asker \in Seq(Nat) /\ Len(asker) = n + 1 /\ asker[1] = 1
      /\ \A j, k \in 1..(n + 1) : j <= k => asker[j] <= asker[k]
      /\ \A k \in 1..n : asker[k + 1] = After(mt[k], asker[k])
  BY DEF Askers
<1>2. mts \in Seq(Meant) /\ Len(mts) = n + 1 /\ mts[n + 1] = m /\ \A k \in 1..n : mts[k] = mt[k]
  BY <1>1
<1> HIDE DEF n, mts
<1>3. last \in Nat /\ next \in Nat /\ last <= next
  <2>1. n + 1 \in 1..(n + 1)
    BY <1>1
  <2>2. last \in Nat
    BY <1>1, <2>1
  <2> HIDE DEF last
  <2>3. QED BY <2>2 DEF After
<1> HIDE DEF next
<1>4. /\ new \in Seq(Nat) /\ Len(new) = n + 2 /\ new[n + 2] = next
      /\ \A k \in 1..(n + 1) : new[k] = asker[k]
  BY <1>1, <1>3
<1> HIDE DEF new
<1>5. ASSUME NEW j \in 1..(n + 2), NEW k \in 1..(n + 2), j <= k
      PROVE  new[j] <= new[k]
  <2>1. CASE j = n + 2
    <3>1. k = n + 2
      BY <1>1, <1>5, <2>1
    <3>2. QED BY <1>3, <1>4, <2>1, <3>1
  <2>2. CASE j \in 1..(n + 1) /\ k = n + 2
    <3>1. asker[j] <= last /\ asker[j] \in Nat
      BY <1>1, <2>2
    <3>2. QED BY <1>3, <1>4, <2>2, <3>1
  <2>3. CASE j \in 1..(n + 1) /\ k \in 1..(n + 1)
    BY <1>1, <1>4, <1>5, <2>3
  <2>4. QED BY <1>1, <1>5, <2>1, <2>2, <2>3
<1>6. ASSUME NEW k \in 1..(n + 1) PROVE new[k + 1] = After(mts[k], new[k])
  <2>1. CASE k = n + 1
    <3>1. k + 1 = n + 2
      BY <1>1, <2>1
    <3>2. QED BY <1>2, <1>4, <2>1, <3>1 DEF next
  <2>2. CASE k \in 1..n
    <3>1. k + 1 \in 1..(n + 1) /\ k \in 1..(n + 1)
      BY <1>1, <2>2
    <3>2. QED BY <1>1, <1>2, <1>4, <2>2, <3>1
  <2>3. QED BY <1>1, <2>1, <2>2
<1>7. (n + 1) + 1 = n + 2 /\ 1 \in 1..(n + 1)
  BY <1>1
<1>8. Askers(new, mts)
  BY <1>1, <1>2, <1>4, <1>5, <1>6, <1>7 DEF Askers
<1>9. QED BY <1>4, <1>8 DEF new, mts, n, next

LEMMA AskersDrop ==
  ASSUME NEW mt \in Seq(Meant), NEW asker, Askers(asker, mt), mt # <<>>
  PROVE  LET d == IF mt[1].status = 100 THEN 0 ELSE 1
             new == [k \in 1..Len(mt) |-> asker[k + 1] - d] IN
         /\ Askers(new, Tail(mt))
         /\ \A k \in 1..Len(mt) : new[k] = asker[k + 1] - d /\ new[k] \in Nat
<1> DEFINE n == Len(mt)
           d == IF mt[1].status = 100 THEN 0 ELSE 1
           new == [k \in 1..n |-> asker[k + 1] - d]
           mts == Tail(mt)
<1>1. /\ n \in Nat /\ n >= 1 /\ asker \in Seq(Nat) /\ Len(asker) = n + 1 /\ asker[1] = 1
      /\ \A j, k \in 1..(n + 1) : j <= k => asker[j] <= asker[k]
      /\ \A k \in 1..n : asker[k + 1] = After(mt[k], asker[k])
  BY DEF Askers
<1>2. mts \in Seq(Meant) /\ Len(mts) = n - 1 /\ \A k \in 1..(n - 1) : mts[k] = mt[k + 1]
  BY <1>1
<1>3. d \in {0, 1} /\ asker[2] = 1 + d
  <2>1. asker[1 + 1] = After(mt[1], asker[1]) /\ 1 + 1 = 2
    BY <1>1
  <2>2. QED BY <1>1, <2>1 DEF After
<1> HIDE DEF n, mts, d
<1>4. ASSUME NEW k \in 1..n PROVE asker[k + 1] \in Nat /\ asker[k + 1] >= 1 + d
  <2>1. k + 1 \in 1..(n + 1) /\ 2 <= k + 1 /\ 2 \in 1..(n + 1)
    BY <1>1
  <2>2. QED BY <1>1, <1>3, <2>1
<1>5. new \in [1..n -> Nat]
  BY <1>3, <1>4
<1>6. new \in Seq(Nat) /\ Len(new) = n
  BY <1>1, <1>5
<1>7. \A k \in 1..n : new[k] = asker[k + 1] - d
  OBVIOUS
<1> HIDE DEF new
<1>8. ASSUME NEW j \in 1..n, NEW k \in 1..n, j <= k PROVE new[j] <= new[k]
  <2>1. j + 1 \in 1..(n + 1) /\ k + 1 \in 1..(n + 1) /\ j + 1 <= k + 1
    BY <1>1, <1>8
  <2>2. asker[j + 1] <= asker[k + 1] /\ asker[j + 1] \in Nat /\ asker[k + 1] \in Nat
    BY <1>1, <1>4, <2>1
  <2>3. QED BY <1>3, <1>7, <2>2
<1>9. ASSUME NEW k \in 1..(n - 1) PROVE new[k + 1] = After(mts[k], new[k])
  <2>1. k \in 1..n /\ k + 1 \in 1..n
    BY <1>1
  <2>2. asker[(k + 1) + 1] = After(mt[k + 1], asker[k + 1]) /\ asker[k + 1] \in Nat
    BY <1>1, <1>4, <2>1
  <2>3. new[k + 1] = asker[(k + 1) + 1] - d /\ new[k] = asker[k + 1] - d /\ mts[k] = mt[k + 1]
    BY <1>2, <1>7, <2>1
  <2>5. After(mts[k], new[k]) = IF mt[k + 1].status = 100 THEN new[k] ELSE new[k] + 1
    BY <2>3 DEF After
  <2>6. asker[(k + 1) + 1] = IF mt[k + 1].status = 100 THEN asker[k + 1] ELSE asker[k + 1] + 1
    BY <2>2 DEF After
  <2>7. CASE mt[k + 1].status = 100
    BY <2>3, <2>5, <2>6, <2>7
  <2>8. CASE mt[k + 1].status # 100
    <3>1. (asker[k + 1] + 1) - d = (asker[k + 1] - d) + 1
      BY <1>3, <2>2
    <3>2. QED BY <2>3, <2>5, <2>6, <2>8, <3>1
  <2>9. QED BY <2>7, <2>8
<1>10. new[1] = 1
  <2>1. 1 \in 1..n /\ 1 + 1 = 2
    BY <1>1
  <2>2. new[1] = asker[2] - d
    BY <1>7, <2>1
  <2>3. QED BY <1>3, <2>2
<1>11. (n - 1) + 1 = n
  BY <1>1
<1>12. Askers(new, mts)
  BY <1>2, <1>6, <1>8, <1>9, <1>10, <1>11 DEF Askers
<1>13. QED BY <1>5, <1>7, <1>12 DEF new, mts, n, d

LEMMA PartsEmpty == Parts(<<>>, <<>>, <<>>, <<1>>, <<1>>)
<1>1. Cuts(<<1>>, 0, 0)
  BY DEF Cuts
<1>2. Askers(<<1>>, <<>>)
  BY DEF Askers
<1>3. QED BY <1>1, <1>2 DEF Parts

LEMMA PartsAsked ==
  ASSUME NEW out, NEW mt, NEW pd, NEW cut, NEW asker, Parts(out, mt, pd, cut, asker),
         NEW r \in Requests
  PROVE  Parts(out, mt, Append(pd, r), cut, asker)
<1>1. /\ pd \in Seq(Requests) /\ Append(pd, r) \in Seq(Requests)
      /\ Len(Append(pd, r)) = Len(pd) + 1 /\ Len(pd) \in Nat
      /\ \A i \in 1..Len(pd) : Append(pd, r)[i] = pd[i] /\ i \in 1..Len(Append(pd, r))
  BY DEF Parts
<1>2. QED BY <1>1 DEF Parts

(* A response is written for the request that is next. *)
LEMMA PartsWritten ==
  ASSUME NEW out, NEW mt, NEW pd, NEW cut, NEW asker, Parts(out, mt, pd, cut, asker),
         NEW s \in Seq(Bytes), Len(s) >= 1, NEW m \in Meant,
         asker[Len(mt) + 1] \in 1..Len(pd),
         IsResponse(s, 1, Len(s) + 1, pd[asker[Len(mt) + 1]], m)
  PROVE  Parts(out \o s, Append(mt, m), pd, Append(cut, Len(out) + Len(s) + 1),
               Append(asker, After(m, asker[Len(mt) + 1])))
<1> DEFINE n == Len(mt)
           size == Len(s)
           total == Len(out)
           new == out \o s
           mts == Append(mt, m)
           cuts == Append(cut, total + size + 1)
           askers == Append(asker, After(m, asker[n + 1]))
<1>1. /\ n \in Nat /\ size \in Nat /\ size >= 1 /\ total \in Nat
      /\ out \in Seq(Bytes) /\ mt \in Seq(Meant) /\ pd \in Seq(Requests)
      /\ Cuts(cut, n, total) /\ Askers(asker, mt)
  BY DEF Parts
<1>2. /\ new \in Seq(Bytes) /\ Len(new) = total + size
      /\ \A i \in 1..total : new[i] = out[i]
      /\ \A i \in 1..size : new[i + total] = s[i]
  BY <1>1
<1>3. /\ mts \in Seq(Meant) /\ Len(mts) = n + 1 /\ mts[n + 1] = m
      /\ \A k \in 1..n : mts[k] = mt[k] /\ mt[k] \in Meant
  BY <1>1
<1>4. /\ Cuts(cuts, n + 1, total + size)
      /\ \A k \in 1..(n + 1) : cuts[k] = cut[k]
      /\ cuts[n + 2] = total + size + 1
  <2> DEFINE end == total + size + 1
  <2> HIDE DEF n, total, size
  <2>1. end \in Nat /\ total + 1 < end /\ end - 1 = total + size
    BY <1>1
  <2> HIDE DEF end
  <2>2. cuts = Append(cut, end)
    BY DEF end
  <2> HIDE DEF cuts
  <2>3. /\ Cuts(Append(cut, end), n + 1, end - 1)
        /\ \A k \in 1..(n + 1) : Append(cut, end)[k] = cut[k]
        /\ Append(cut, end)[n + 2] = end
    <3>1. n \in Nat /\ total \in Nat /\ Cuts(cut, n, total) /\ end \in Nat /\ total + 1 < end
      BY <1>1, <2>1
    <3>2. Cuts(Append(cut, end), n + 1, end - 1)
      BY ONLY <3>1, CutsGrow
    <3>3. \A k \in 1..(n + 1) : Append(cut, end)[k] = cut[k]
      BY ONLY <3>1 DEF Cuts
    <3>4. Append(cut, end)[n + 2] = end
      BY ONLY <3>1, CutsGrow
    <3>5. QED BY <3>2, <3>3, <3>4
  <2>4. QED BY <2>1, <2>2, <2>3 DEF end
<1>5. /\ Askers(askers, mts)
      /\ \A k \in 1..(n + 1) : askers[k] = asker[k]
  BY <1>1, AskersGrow
<1>6. /\ asker[n + 1] \in 1..Len(pd) /\ IsResponse(s, 1, size + 1, pd[asker[n + 1]], m)
      /\ \A k \in 1..n : /\ asker[k] \in 1..Len(pd)
                         /\ IsResponse(out, cut[k], cut[k + 1], pd[asker[k]], mt[k])
  BY DEF Parts
<1> HIDE DEF n, size, total, new, mts, cuts, askers
<1>7. ASSUME NEW k \in 1..(n + 1)
      PROVE  /\ askers[k] \in 1..Len(pd)
             /\ IsResponse(new, cuts[k], cuts[k + 1], pd[askers[k]], mts[k])
  <2>1. CASE k = n + 1
    <3> DEFINE d == 0 - total
    <3>1. d \in Int /\ \A i : i \in Nat => i - d = i + total
      BY <1>1
    <3> HIDE DEF d
    <3>2. \A i \in 1..((size + 1) - 1) : new[i - d] = s[i]
      <4>1. ASSUME NEW i \in 1..((size + 1) - 1) PROVE i \in 1..size /\ i - d = i + total
        <5>1. size \in Nat /\ i \in Nat /\ i <= size
          BY <1>1
        <5>2. QED BY <3>1, <5>1
      <4>2. QED BY <1>2, <4>1
    <3>3. IsResponse(new, 1 - d, (size + 1) - d, pd[asker[n + 1]], m)
      <4>1. 1 \in Nat /\ size + 1 \in Nat /\ 1 < size + 1
        BY <1>1
      <4>2. IsResponse(s, 1, size + 1, pd[asker[n + 1]], m) /\ d \in Int
        BY <1>6, <3>1
      <4>3. QED BY ONLY m \in Meant, <3>2, <4>1, <4>2, Moved
    <3>4. 1 - d = total + 1 /\ (size + 1) - d = total + size + 1 /\ k + 1 = n + 2
      <4>1. n \in Nat /\ size \in Nat /\ total \in Nat
        BY <1>1
      <4>2. 1 \in Nat /\ size + 1 \in Nat
        BY ONLY <4>1
      <4>3. 1 - d = 1 + total /\ (size + 1) - d = (size + 1) + total
        BY ONLY <3>1, <4>2
      <4>4. 1 + total = total + 1 /\ (size + 1) + total = total + size + 1
        BY ONLY <4>1
      <4>5. k + 1 = n + 2
        BY ONLY <2>1, <4>1
      <4>6. QED BY ONLY <4>3, <4>4, <4>5
    <3>5. cut[n + 1] = total + 1 /\ n + 1 \in 1..(n + 1)
      BY <1>1 DEF Cuts
    <3>6. 1 - d = cuts[k] /\ (size + 1) - d = cuts[k + 1]
      BY <1>4, <2>1, <3>4, <3>5
    <3>7. askers[k] = asker[n + 1] /\ mts[k] = m
      BY <1>3, <1>5, <2>1, <3>5
    <3>8. QED BY <1>6, <3>3, <3>6, <3>7
  <2>2. CASE k \in 1..n
    <3>1. k \in 1..(n + 1) /\ k + 1 \in 1..(n + 1) /\ mts[k] = mt[k] /\ mt[k] \in Meant
      <4>1. k \in 1..(n + 1) /\ k + 1 \in 1..(n + 1)
        BY <1>1, <2>2
      <4>2. QED BY <1>3, <2>2, <4>1
    <3>2. /\ cut[k] \in Nat /\ cut[k + 1] \in Nat /\ cut[k] < cut[k + 1]
          /\ 1 <= cut[k] /\ cut[k + 1] <= total + 1
      BY <1>1, <2>2, CutsRange
    <3>3. IsResponse(out, cut[k], cut[k + 1], pd[asker[k]], mt[k]) /\ asker[k] \in 1..Len(pd)
      BY <1>6, <2>2
    <3>4. \A i \in cut[k]..(cut[k + 1] - 1) : new[i - 0] = out[i]
      <4>1. ASSUME NEW i \in cut[k]..(cut[k + 1] - 1) PROVE i \in 1..total /\ i - 0 = i
        <5>1. total \in Nat /\ i \in Nat /\ i >= 1
          BY <1>1, <3>2
        <5>2. i < cut[k + 1]
          BY <3>2
        <5>3. QED BY <3>2, <5>1, <5>2
      <4>2. QED BY <1>2, <4>1
    <3>5. IsResponse(new, cut[k] - 0, cut[k + 1] - 0, pd[asker[k]], mt[k])
      <4>1. 0 \in Int
        OBVIOUS
      <4>2. QED BY <3>1, <3>2, <3>3, <3>4, <4>1, Moved
    <3>6. cut[k] - 0 = cut[k] /\ cut[k + 1] - 0 = cut[k + 1]
      BY <3>2
    <3>7. cuts[k] = cut[k] /\ cuts[k + 1] = cut[k + 1] /\ askers[k] = asker[k]
      BY <1>4, <1>5, <3>1
    <3>8. QED BY <3>1, <3>3, <3>5, <3>6, <3>7
  <2>3. QED BY <1>1, <2>1, <2>2
<1>8. Parts(new, mts, pd, cuts, askers)
  BY <1>1, <1>2, <1>3, <1>4, <1>5, <1>7 DEF Parts
<1>9. QED BY <1>8 DEF new, mts, cuts, askers, n, size, total

(* The client reads the first response. *)
LEMMA PartsRead ==
  ASSUME NEW out, NEW mt, NEW pd, NEW cut, NEW asker, Parts(out, mt, pd, cut, asker),
         mt # <<>>
  PROVE  LET d == IF mt[1].status = 100 THEN 0 ELSE 1
             size == cut[2] - 1 IN
         /\ Parts(SubSeq(out, size + 1, Len(out)), Tail(mt),
                  IF d = 0 THEN pd ELSE Tail(pd),
                  [k \in 1..Len(mt) |-> cut[k + 1] - size],
                  [k \in 1..Len(mt) |-> asker[k + 1] - d])
         /\ pd # <<>> /\ size \in 1..Len(out)
         /\ IsResponse(out, 1, cut[2], pd[1], mt[1]) /\ mt[1] \in Meant
<1> DEFINE n == Len(mt)
           d == IF mt[1].status = 100 THEN 0 ELSE 1
           size == cut[2] - 1
           total == Len(out)
           new == SubSeq(out, size + 1, total)
           mts == Tail(mt)
           pds == IF d = 0 THEN pd ELSE Tail(pd)
           cuts == [k \in 1..n |-> cut[k + 1] - size]
           askers == [k \in 1..n |-> asker[k + 1] - d]
<1>1. /\ n \in Nat /\ n >= 1 /\ total \in Nat /\ d \in {0, 1}
      /\ out \in Seq(Bytes) /\ mt \in Seq(Meant) /\ pd \in Seq(Requests) /\ Len(pd) \in Nat
      /\ Cuts(cut, n, total) /\ Askers(asker, mt)
  BY DEF Parts
<1>2. /\ Cuts(cuts, n - 1, total - size) /\ size \in 1..total
      /\ \A k \in 1..n : cuts[k] = cut[k + 1] - size
  <2> HIDE DEF n, total
  <2>1. QED BY <1>1, CutsDrop
<1>3. /\ Askers(askers, mts)
      /\ \A k \in 1..n : askers[k] = asker[k + 1] - d /\ askers[k] \in Nat
  BY <1>1, AskersDrop
<1>4. /\ new \in Seq(Bytes) /\ Len(new) = total - size
      /\ \A i \in 1..(total - size) : new[i] = out[i + size]
  <2> HIDE DEF size
  <2>1. size + 1 \in 1..(total + 1) /\ total \in Nat
    BY <1>1, <1>2
  <2>2. new \in Seq(Bytes) /\ Len(new) = total - size
    BY <1>1, <1>2, <2>1
  <2>3. ASSUME NEW i \in 1..(total - size) PROVE new[i] = out[i + size]
    <3>1. (size + 1) + i - 1 = i + size
      BY <1>2
    <3>2. QED BY <1>1, <1>2, <2>1, <3>1
  <2>4. QED BY <2>2, <2>3
<1>5. /\ mts \in Seq(Meant) /\ Len(mts) = n - 1 /\ \A k \in 1..n : mt[k] \in Meant
      /\ \A k \in 1..(n - 1) : mts[k] = mt[k + 1]
  BY <1>1
<1>6. \A k \in 1..n : /\ asker[k] \in 1..Len(pd)
                     /\ IsResponse(out, cut[k], cut[k + 1], pd[asker[k]], mt[k])
  BY DEF Parts
<1>7. asker[1] = 1 /\ cut[1] = 1 /\ 1 \in 1..n /\ 1 + 1 = 2
  BY <1>1 DEF Askers, Cuts
<1>8. Len(pd) >= 1 /\ IsResponse(out, 1, cut[2], pd[1], mt[1]) /\ mt[1] \in Meant
  BY <1>1, <1>5, <1>6, <1>7
<1>9. /\ pds \in Seq(Requests) /\ Len(pds) = Len(pd) - d
      /\ \A i \in 1..(Len(pd) - d) : pds[i] = pd[i + d]
  <2>1. CASE d = 0
    <3>1. pds = pd
      BY <2>1
    <3> HIDE DEF pds, d
    <3>2. QED BY <1>1, <2>1, <3>1
  <2>2. CASE d = 1
    <3>1. pds = Tail(pd)
      BY <2>2
    <3> HIDE DEF pds, d
    <3>2. Tail(pd) \in Seq(Requests) /\ Len(Tail(pd)) = Len(pd) - 1
          /\ \A i \in 1..(Len(pd) - 1) : Tail(pd)[i] = pd[i + 1]
      BY <1>1, <1>8
    <3>3. QED BY <2>2, <3>1, <3>2
  <2> HIDE DEF pds, d
  <2>3. QED BY <1>1, <2>1, <2>2
<1> HIDE DEF n, d, size, total, new, mts, pds, cuts, askers
<1>10. ASSUME NEW k \in 1..(n - 1)
       PROVE  /\ askers[k] \in 1..Len(pds)
              /\ IsResponse(new, cuts[k], cuts[k + 1], pds[askers[k]], mts[k])
  <2>1. /\ k \in 1..n /\ k + 1 \in 1..n /\ mts[k] = mt[k + 1] /\ mt[k + 1] \in Meant
        /\ Len(mts) \in Nat /\ k \in 1..(Len(mts) + 1)
    BY <1>1, <1>5
  <2>2. askers[k] \in Nat /\ askers[k] >= 1 /\ askers[k] = asker[k + 1] - d
    BY <1>3, <1>5, <2>1, AskersRange
  <2>3. asker[k + 1] \in 1..Len(pd) /\ asker[k + 1] = askers[k] + d
    <3>1. asker[k + 1] \in 1..Len(pd)
      BY <1>6, <2>1
    <3>2. asker[k + 1] \in Nat /\ d \in Nat
      BY <1>1, <3>1
    <3>3. QED BY <2>2, <3>1, <3>2
  <2>4. askers[k] \in 1..(Len(pd) - d)
    BY <1>1, <2>2, <2>3
  <2>5. pds[askers[k]] = pd[asker[k + 1]] /\ askers[k] \in 1..Len(pds)
    BY <1>9, <2>3, <2>4
  <2>6. /\ cut[k + 1] \in Nat /\ cut[(k + 1) + 1] \in Nat /\ cut[k + 1] < cut[(k + 1) + 1]
        /\ cut[(k + 1) + 1] <= total + 1
    BY <1>1, <2>1, CutsRange
  <2>7. cuts[k] = cut[k + 1] - size /\ cuts[k + 1] = cut[(k + 1) + 1] - size
    BY <1>2, <2>1
  <2>8. cuts[k] \in Nat /\ 1 <= cuts[k]
    <3>1. n - 1 \in Nat /\ total - size \in Nat
      BY <1>1, <1>2
    <3>2. QED BY <1>2, <3>1, CutsRange
  <2>9. \A i \in cut[k + 1]..(cut[(k + 1) + 1] - 1) : new[i - size] = out[i]
    <3>1. ASSUME NEW i \in cut[k + 1]..(cut[(k + 1) + 1] - 1)
          PROVE  i - size \in 1..(total - size) /\ (i - size) + size = i
      <4>1. size \in Nat /\ total \in Nat /\ i \in Nat /\ i >= cut[k + 1] /\ i <= total
        <5>1. size \in Nat /\ total \in Nat
          BY <1>1, <1>2
        <5>2. i \in Nat /\ i >= cut[k + 1]
          BY <2>6
        <5>3. i <= total
          BY <2>6, <5>1
        <5>4. QED BY <5>1, <5>2, <5>3
      <4>2. cut[k + 1] - size >= 1
        BY <2>7, <2>8
      <4>3. QED BY <2>6, <4>1, <4>2
    <3>2. QED BY <1>4, <3>1
  <2>10. IsResponse(out, cut[k + 1], cut[(k + 1) + 1], pd[asker[k + 1]], mt[k + 1])
    BY <1>6, <2>1
  <2>11. IsResponse(new, cut[k + 1] - size, cut[(k + 1) + 1] - size, pd[asker[k + 1]], mt[k + 1])
    <3>1. size \in Int
      BY <1>2
    <3>2. QED BY <2>1, <2>6, <2>9, <2>10, <3>1, Moved
  <2>12. QED BY <2>1, <2>5, <2>7, <2>11
<1>11. Parts(new, mts, pds, cuts, askers)
  BY <1>1, <1>2, <1>3, <1>4, <1>5, <1>9, <1>10 DEF Parts
<1>12. QED BY <1>1, <1>2, <1>8, <1>11 DEF new, mts, pds, cuts, askers, n, d, size, total
-----------------------------------------------------------------------------
(* The heads in the input, and where: those of the pending requests behind the
   first `served`, in order. *)
Coming(in, pd, heads, served) ==
  /\ in \in Seq(Unit) /\ pd \in Seq(Requests) /\ served \in Nat
  /\ heads \in Seq(Nat) /\ Len(heads) + served = Len(pd)
  /\ \A j, k \in 1..Len(heads) : j < k => heads[j] < heads[k]
  /\ \A j \in 1..Len(heads) : /\ heads[j] \in 1..Len(in)
                              /\ in[heads[j]] = <<"head", pd[served + j]>>
  /\ \A i \in 1..Len(in) : IsHead(in[i]) => \E j \in 1..Len(heads) : heads[j] = i

LEMMA ComingEmpty == Coming(<<>>, <<>>, <<>>, 0)
BY DEF Coming

(* The head of a request is sent. *)
LEMMA ComingSent ==
  ASSUME NEW in, NEW pd, NEW heads, NEW served, Coming(in, pd, heads, served),
         NEW r \in Requests
  PROVE  Coming(Append(in, <<"head", r>>), Append(pd, r), Append(heads, Len(in) + 1), served)
<1> DEFINE n == Len(heads)
           size == Len(in)
           asked == Len(pd)
           end == size + 1
           ins == Append(in, <<"head", r>>)
           pds == Append(pd, r)
           new == Append(heads, end)
<1>1. /\ n \in Nat /\ size \in Nat /\ asked \in Nat /\ served \in Nat /\ n + served = asked
      /\ in \in Seq(Unit) /\ pd \in Seq(Requests) /\ heads \in Seq(Nat)
      /\ <<"head", r>> \in Unit
  BY UnitKinds DEF Coming
<1>2. /\ \A j, k \in 1..n : j < k => heads[j] < heads[k]
      /\ \A j \in 1..n : heads[j] \in 1..size /\ in[heads[j]] = <<"head", pd[served + j]>>
      /\ \A i \in 1..size : IsHead(in[i]) => \E j \in 1..n : heads[j] = i
  BY DEF Coming
<1>3. /\ ins \in Seq(Unit) /\ Len(ins) = size + 1 /\ ins[size + 1] = <<"head", r>>
      /\ \A i \in 1..size : ins[i] = in[i]
  BY <1>1
<1>4. /\ pds \in Seq(Requests) /\ Len(pds) = asked + 1 /\ pds[asked + 1] = r
      /\ \A i \in 1..asked : pds[i] = pd[i]
  BY <1>1
<1>5. /\ new \in Seq(Nat) /\ Len(new) = n + 1 /\ new[n + 1] = end
      /\ \A i \in 1..n : new[i] = heads[i]
  <2>1. end \in Nat
    BY <1>1
  <2> HIDE DEF end
  <2>2. QED BY <1>1, <2>1
<1> HIDE DEF n, size, asked, ins, pds, new
<1>6. ASSUME NEW j \in 1..(n + 1), NEW k \in 1..(n + 1), j < k PROVE new[j] < new[k]
  <2>1. j \in 1..n /\ new[j] = heads[j] /\ heads[j] \in 1..size
    BY <1>1, <1>2, <1>5, <1>6
  <2>2. CASE k = n + 1
    BY <1>1, <1>5, <2>1, <2>2
  <2>3. CASE k \in 1..n
    BY <1>2, <1>5, <1>6, <2>1, <2>3
  <2>4. QED BY <1>1, <2>2, <2>3
<1>7. ASSUME NEW j \in 1..(n + 1)
      PROVE  new[j] \in 1..(size + 1) /\ ins[new[j]] = <<"head", pds[served + j]>>
  <2>1. CASE j = n + 1
    <3>1. served + j = asked + 1 /\ new[j] = size + 1
      BY <1>1, <1>5, <2>1
    <3>2. QED BY <1>1, <1>3, <1>4, <3>1
  <2>2. CASE j \in 1..n
    <3>1. new[j] = heads[j] /\ heads[j] \in 1..size /\ served + j \in 1..asked
      BY <1>1, <1>2, <1>5, <2>2
    <3>2. ins[heads[j]] = <<"head", pd[served + j]>> /\ pds[served + j] = pd[served + j]
      BY <1>2, <1>3, <1>4, <2>2, <3>1
    <3>3. heads[j] \in 1..(size + 1)
      BY <1>1, <3>1
    <3>4. QED BY <3>1, <3>2, <3>3
  <2>3. QED BY <1>1, <2>1, <2>2
<1>8. ASSUME NEW i \in 1..(size + 1), IsHead(ins[i])
      PROVE  \E j \in 1..(n + 1) : new[j] = i
  <2>1. CASE i = size + 1
    <3>1. n + 1 \in 1..(n + 1)
      BY <1>1
    <3>2. QED BY <1>5, <2>1, <3>1
  <2>2. CASE i \in 1..size
    <3>1. PICK j \in 1..n : heads[j] = i
      BY <1>2, <1>3, <1>8, <2>2
    <3>2. j \in 1..(n + 1)
      BY <1>1
    <3>3. QED BY <1>5, <3>1, <3>2
  <2>3. QED BY <1>1, <2>1, <2>2
<1>9. (n + 1) + served = asked + 1
  BY <1>1
<1>10. Coming(ins, pds, new, served)
  BY <1>1, <1>3, <1>4, <1>5, <1>6, <1>7, <1>8, <1>9 DEF Coming
<1>11. QED BY <1>10 DEF ins, pds, new, size

(* A unit of a body is sent. *)
LEMMA ComingBody ==
  ASSUME NEW in, NEW pd, NEW heads, NEW served, Coming(in, pd, heads, served)
  PROVE  Coming(Append(in, DataUnit), pd, heads, served)
<1> DEFINE size == Len(in)
           ins == Append(in, DataUnit)
<1>1. size \in Nat /\ in \in Seq(Unit) /\ DataUnit \in Unit /\ ~IsHead(DataUnit)
  BY UnitKinds DEF Coming
<1>2. /\ ins \in Seq(Unit) /\ Len(ins) = size + 1 /\ ins[size + 1] = DataUnit
      /\ \A i \in 1..size : ins[i] = in[i] /\ i \in 1..(size + 1)
  BY <1>1
<1>3. \A i \in 1..(size + 1) : i = size + 1 \/ i \in 1..size
  BY <1>1
<1> HIDE DEF ins
<1>4. /\ pd \in Seq(Requests) /\ served \in Nat
      /\ heads \in Seq(Nat) /\ Len(heads) + served = Len(pd)
      /\ \A j, k \in 1..Len(heads) : j < k => heads[j] < heads[k]
      /\ \A j \in 1..Len(heads) : /\ heads[j] \in 1..size
                                  /\ in[heads[j]] = <<"head", pd[served + j]>>
      /\ \A i \in 1..size : IsHead(in[i]) => \E j \in 1..Len(heads) : heads[j] = i
  BY DEF Coming
<1> HIDE DEF size
<1>5. \A j \in 1..Len(heads) : /\ heads[j] \in 1..(size + 1)
                               /\ ins[heads[j]] = <<"head", pd[served + j]>>
  BY <1>2, <1>4
<1>6. ASSUME NEW i \in 1..(size + 1), IsHead(ins[i])
      PROVE  \E j \in 1..Len(heads) : heads[j] = i
  BY <1>1, <1>2, <1>3, <1>4, <1>6
<1>7. Coming(ins, pd, heads, served)
  BY <1>2, <1>4, <1>5, <1>6 DEF Coming
<1>8. QED BY <1>7 DEF ins

(* The first n units, none of them a head, are read. *)
LEMMA ComingRead ==
  ASSUME NEW in, NEW pd, NEW heads, NEW served, Coming(in, pd, heads, served),
         NEW n \in Nat, n <= Len(in), \A i \in 1..n : ~IsHead(in[i])
  PROVE  Coming(SubSeq(in, n + 1, Len(in)), pd, [j \in 1..Len(heads) |-> heads[j] - n], served)
<1> DEFINE size == Len(in)
           m == Len(heads)
<1>1. /\ in \in Seq(Unit) /\ pd \in Seq(Requests) /\ served \in Nat /\ heads \in Seq(Nat)
      /\ m + served = Len(pd)
      /\ \A j, k \in 1..m : j < k => heads[j] < heads[k]
      /\ \A j \in 1..m : heads[j] \in 1..size /\ in[heads[j]] = <<"head", pd[served + j]>>
      /\ \A i \in 1..size : IsHead(in[i]) => \E j \in 1..m : heads[j] = i
  BY DEF Coming
<1>2. size \in Nat /\ m \in Nat
  BY <1>1
<1> DEFINE ins == SubSeq(in, n + 1, size)
           new == [j \in 1..m |-> heads[j] - n]
<1>3. /\ ins \in Seq(Unit) /\ Len(ins) = size - n
      /\ \A i \in 1..(size - n) : ins[i] = in[i + n]
  BY <1>1, <1>2, Rest
<1> HIDE DEF size, m, ins, new
<1>4. ASSUME NEW j \in 1..m
      PROVE  heads[j] - n \in 1..(size - n) /\ in[heads[j]] = <<"head", pd[served + j]>>
             /\ (heads[j] - n) + n = heads[j] /\ heads[j] \in Nat
  <2>1. heads[j] \in 1..size /\ in[heads[j]] = <<"head", pd[served + j]>>
    BY <1>1, <1>2
  <2>2. IsHead(in[heads[j]]) /\ size \in Nat
    BY <1>1, <1>2, <2>1 DEF IsHead
  <2>3. heads[j] \in Nat /\ heads[j] >= 1 /\ heads[j] <= size
    BY <2>1, <2>2
  <2>4. ~(heads[j] <= n)
    BY <2>2, <2>3
  <2>5. heads[j] - n \in 1..(size - n) /\ (heads[j] - n) + n = heads[j]
    BY <2>2, <2>3, <2>4
  <2>6. QED BY <2>1, <2>3, <2>5
<1>5. new \in [1..m -> Nat]
  BY <1>4 DEF new
<1>6. new \in Seq(Nat) /\ Len(new) = m
  BY <1>2, <1>5
<1>7. \A j \in 1..m : new[j] = heads[j] - n
  BY DEF new
<1>8. ASSUME NEW j \in 1..m, NEW k \in 1..m, j < k PROVE new[j] < new[k]
  <2>1. heads[j] < heads[k] /\ heads[j] \in Nat /\ heads[k] \in Nat
    BY <1>1, <1>2, <1>4, <1>8
  <2>2. QED BY <1>7, <2>1
<1>9. \A j \in 1..m : new[j] \in 1..(size - n) /\ ins[new[j]] = <<"head", pd[served + j]>>
  <2>1. ASSUME NEW j \in 1..m
        PROVE  new[j] \in 1..(size - n) /\ ins[new[j]] = <<"head", pd[served + j]>>
    <3>1. new[j] \in 1..(size - n) /\ new[j] + n = heads[j]
      BY <1>4, <1>7
    <3>2. ins[new[j]] = in[heads[j]]
      BY <1>3, <3>1
    <3>3. QED BY <1>4, <3>1, <3>2
  <2>2. QED BY <2>1
<1>10. ASSUME NEW i \in 1..(size - n), IsHead(ins[i]) PROVE \E j \in 1..m : new[j] = i
  <2>1. i + n \in 1..size /\ IsHead(in[i + n])
    <3>1. i + n \in 1..size
      BY <1>1, <1>2
    <3>2. QED BY <1>3, <1>10, <3>1
  <2>2. PICK j \in 1..m : heads[j] = i + n
    BY <1>1, <1>2, <2>1
  <2>3. new[j] = i
    BY <1>7, <2>2
  <2>4. QED BY <2>3
<1>11. Coming(ins, pd, new, served)
  BY <1>1, <1>2, <1>3, <1>6, <1>8, <1>9, <1>10 DEF Coming
<1>12. QED BY <1>11 DEF ins, new, size, m

(* The head that comes first is read: it is that of the next request. *)
LEMMA ComingHead ==
  ASSUME NEW in, NEW pd, NEW heads, NEW served, Coming(in, pd, heads, served),
         in # <<>>, IsHead(in[1])
  PROVE  /\ served + 1 \in 1..Len(pd) /\ in[1] = <<"head", pd[served + 1]>>
         /\ Coming(Tail(in), pd, [j \in 1..(Len(heads) - 1) |-> heads[j + 1] - 1], served + 1)
<1> DEFINE size == Len(in)
           m == Len(heads)
           ins == Tail(in)
           new == [j \in 1..(m - 1) |-> heads[j + 1] - 1]
<1>1. /\ in \in Seq(Unit) /\ pd \in Seq(Requests) /\ served \in Nat /\ heads \in Seq(Nat)
      /\ size \in Nat /\ size >= 1 /\ m \in Nat /\ m + served = Len(pd)
      /\ \A j, k \in 1..m : j < k => heads[j] < heads[k]
      /\ \A j \in 1..m : heads[j] \in 1..size /\ in[heads[j]] = <<"head", pd[served + j]>>
      /\ \A i \in 1..size : IsHead(in[i]) => \E j \in 1..m : heads[j] = i
  BY DEF Coming
<1>2. /\ ins \in Seq(Unit) /\ Len(ins) = size - 1
      /\ \A i \in 1..(size - 1) : ins[i] = in[i + 1]
  BY <1>1
<1> HIDE DEF size, m, ins
<1>3. PICK first \in 1..m : heads[first] = 1
  <2>1. 1 \in 1..size
    BY <1>1
  <2>2. QED BY <1>1, <2>1
<1>4. m >= 1 /\ 1 \in 1..m /\ heads[1] = 1
  <2>1. m >= 1 /\ 1 \in 1..m
    BY <1>1
  <2>2. CASE first = 1
    BY <1>3, <2>1, <2>2
  <2>3. CASE 1 < first
    <3>1. heads[1] < heads[first] /\ heads[1] \in 1..size
      BY <1>1, <2>1, <2>3
    <3>2. QED BY <1>1, <1>3, <3>1
  <2>4. QED BY <1>1, <2>1, <2>2, <2>3
<1>5. served + 1 \in 1..Len(pd) /\ in[1] = <<"head", pd[served + 1]>>
  <2>1. m \in Nat /\ served \in Nat /\ m + served = Len(pd) /\ m >= 1
    BY <1>1, <1>4
  <2>2. served + 1 \in 1..Len(pd)
    BY <2>1
  <2>3. in[heads[1]] = <<"head", pd[served + 1]>>
    BY <1>1, <1>4
  <2>4. QED BY <1>4, <2>2, <2>3
<1>6. ASSUME NEW j \in 1..(m - 1)
      PROVE  /\ j + 1 \in 1..m /\ heads[j + 1] \in Nat /\ heads[j + 1] - 1 \in 1..(size - 1)
             /\ in[heads[j + 1]] = <<"head", pd[served + (j + 1)]>>
  <2>1. j + 1 \in 1..m /\ 1 < j + 1
    BY <1>1
  <2>2. heads[1] < heads[j + 1] /\ heads[j + 1] \in 1..size
    BY <1>1, <1>4, <2>1
  <2>3. in[heads[j + 1]] = <<"head", pd[served + (j + 1)]>>
    BY <1>1, <2>1
  <2>4. heads[j + 1] \in Nat /\ heads[j + 1] > 1 /\ heads[j + 1] <= size /\ size \in Nat
    <3>1. size \in Nat
      BY <1>1
    <3>2. QED BY <1>4, <2>2, <3>1
  <2>5. heads[j + 1] - 1 \in 1..(size - 1)
    BY <2>4
  <2>6. QED BY <2>1, <2>3, <2>4, <2>5
<1>7. new \in [1..(m - 1) -> Nat]
  <2>1. \A j \in 1..(m - 1) : heads[j + 1] - 1 \in Nat
    BY <1>6
  <2>2. QED BY <2>1
<1>8. new \in Seq(Nat) /\ Len(new) = m - 1
  BY <1>1, <1>4, <1>7
<1>9. \A j \in 1..(m - 1) : new[j] = heads[j + 1] - 1
  OBVIOUS
<1> HIDE DEF new
<1>10. ASSUME NEW j \in 1..(m - 1), NEW k \in 1..(m - 1), j < k PROVE new[j] < new[k]
  <2>1. j + 1 < k + 1 /\ j + 1 \in 1..m /\ k + 1 \in 1..m
    BY <1>6, <1>10
  <2>2. heads[j + 1] < heads[k + 1] /\ heads[j + 1] \in Nat /\ heads[k + 1] \in Nat
    BY <1>1, <1>6, <2>1
  <2>3. QED BY <1>9, <2>2
<1>11. ASSUME NEW j \in 1..(m - 1)
       PROVE  new[j] \in 1..(size - 1) /\ ins[new[j]] = <<"head", pd[(served + 1) + j]>>
  <2>1. served + (j + 1) = (served + 1) + j /\ (heads[j + 1] - 1) + 1 = heads[j + 1]
    <3>1. served \in Nat /\ heads[j + 1] \in Nat /\ j \in Nat
      BY <1>1, <1>6
    <3>2. QED BY <3>1
  <2>2. ins[new[j]] = in[heads[j + 1]] /\ new[j] \in 1..(size - 1)
    BY <1>2, <1>6, <1>9, <2>1
  <2>3. QED BY <1>6, <2>1, <2>2
<1>12. ASSUME NEW i \in 1..(size - 1), IsHead(ins[i]) PROVE \E j \in 1..(m - 1) : new[j] = i
  <2>1. i + 1 \in 1..size /\ IsHead(in[i + 1])
    BY <1>1, <1>2, <1>12
  <2>2. PICK j \in 1..m : heads[j] = i + 1
    BY <1>1, <2>1
  <2>3. j # 1
    BY <1>4, <2>2
  <2>4. j - 1 \in 1..(m - 1) /\ (j - 1) + 1 = j
    BY <1>1, <2>3
  <2>5. new[j - 1] = i
    BY <1>9, <2>2, <2>4
  <2>6. QED BY <2>4, <2>5
<1>13. (m - 1) + (served + 1) = Len(pd) /\ served + 1 \in Nat
  <2>1. m \in Nat /\ served \in Nat /\ m + served = Len(pd)
    BY <1>1
  <2>2. QED BY <2>1
<1>14. Coming(ins, pd, new, served + 1)
  BY <1>1, <1>2, <1>8, <1>10, <1>11, <1>12, <1>13 DEF Coming
<1>15. QED BY <1>5, <1>14 DEF ins, new, m

(* The first request, which was served, is answered. *)
LEMMA ComingAnswered ==
  ASSUME NEW in, NEW pd, NEW heads, NEW served, Coming(in, pd, heads, served),
         served >= 1
  PROVE  Coming(in, Tail(pd), heads, served - 1)
<1> DEFINE m == Len(heads)
<1>1. /\ in \in Seq(Unit) /\ pd \in Seq(Requests) /\ served \in Nat /\ heads \in Seq(Nat)
      /\ m + served = Len(pd)
      /\ \A j, k \in 1..m : j < k => heads[j] < heads[k]
      /\ \A j \in 1..m : heads[j] \in 1..Len(in) /\ in[heads[j]] = <<"head", pd[served + j]>>
      /\ \A i \in 1..Len(in) : IsHead(in[i]) => \E j \in 1..m : heads[j] = i
  BY DEF Coming
<1>2. m \in Nat /\ Len(pd) \in Nat /\ Len(pd) >= 1
  <2>1. m \in Nat /\ Len(pd) \in Nat
    BY <1>1
  <2> HIDE DEF m
  <2>2. QED BY <1>1, <2>1
<1> DEFINE pds == Tail(pd)
<1>3. /\ pds \in Seq(Requests) /\ Len(pds) = Len(pd) - 1
      /\ \A i \in 1..(Len(pd) - 1) : pds[i] = pd[i + 1]
  BY <1>1, <1>2
<1> HIDE DEF pds, m
<1>4. ASSUME NEW j \in 1..m PROVE pd[served + j] = pds[(served - 1) + j]
  <2>1. (served - 1) + j \in 1..(Len(pd) - 1) /\ ((served - 1) + j) + 1 = served + j
    BY <1>1, <1>2
  <2>2. QED BY <1>3, <2>1
<1>5. m + (served - 1) = Len(pds) /\ served - 1 \in Nat
  <2>1. served \in Nat /\ m + served = Len(pd) /\ Len(pds) = Len(pd) - 1
    BY <1>1, <1>3
  <2>2. QED BY <1>2, <2>1
<1>6. \A j \in 1..m : heads[j] \in 1..Len(in) /\ in[heads[j]] = <<"head", pds[(served - 1) + j]>>
  BY <1>1, <1>4
<1>7. Coming(in, pds, heads, served - 1)
  BY <1>1, <1>3, <1>5, <1>6 DEF Coming, m
<1>8. QED BY <1>7 DEF pds
-----------------------------------------------------------------------------
(* Whether the answer to the request rq is still to be written. *)
Due == \/ phase \in {"filling", "unpacking", "raw"}
       \/ phase \in {"held", "skipping"} /\ ~answered

(* The place in pending of the next request to be answered, and the number of those
   there whose head was read. *)
Turn(asker) == asker[Len(meant) + 1]

Served(asker) == IF Due THEN Turn(asker) ELSE Turn(asker) - 1

Serving(asker, heads) ==
  /\ Coming(input, pending, heads, Served(asker))
  /\ Due => Turn(asker) \in 1..Len(pending) /\ pending[Turn(asker)] = rq

Answering ==
  \E cut, asker : /\ Parts(output, meant, pending, cut, asker)
                  /\ phase # "closed" => \E heads : Serving(asker, heads)

AnsweringInv == Answering /\ (phase = "filling" => ~answered)

LEMMA TurnRange ==
  ASSUME NEW cut, NEW asker, Parts(output, meant, pending, cut, asker)
  PROVE  Turn(asker) \in Nat /\ Turn(asker) >= 1
<1>1. meant \in Seq(Meant) /\ Askers(asker, meant) /\ Len(meant) + 1 \in 1..(Len(meant) + 1)
  BY DEF Parts
<1>2. QED BY <1>1, AskersRange DEF Turn

(* Steps that neither read nor write. *)
LEMMA AnsweringAside ==
  ASSUME Answering, UNCHANGED <<input, pending, output, meant, rq>>,
         phase' # "closed" => phase # "closed" /\ (Due' <=> Due)
  PROVE  Answering'
<1>1. PICK cut, asker : /\ Parts(output, meant, pending, cut, asker)
                        /\ phase # "closed" => \E heads : Serving(asker, heads)
  BY DEF Answering
<1>2. Parts(output', meant', pending', cut, asker)
  BY <1>1
<1>3. ASSUME phase' # "closed" PROVE \E heads : Serving(asker, heads)'
  <2>1. PICK heads : Serving(asker, heads)
    BY <1>1, <1>3
  <2>2. Serving(asker, heads)'
    BY <1>3, <2>1 DEF Serving, Served, Turn
  <2>3. QED BY <2>2
<1>4. QED BY <1>2, <1>3 DEF Answering

(* A request is sent. *)
LEMMA AnsweringSent ==
  ASSUME Answering, NEW r \in Requests, SendRequest(r)
  PROVE  Answering'
<1> USE DEF reader
<1>1. PICK cut, asker : /\ Parts(output, meant, pending, cut, asker)
                        /\ phase # "closed" => \E heads : Serving(asker, heads)
  BY DEF Answering
<1>2. /\ input' = Append(input, <<"head", r>>) /\ pending' = Append(pending, r)
      /\ UNCHANGED <<output, meant, phase, rq, answered>>
  BY DEF SendRequest
<1>3. Parts(output', meant', pending', cut, asker)
  BY <1>1, <1>2, PartsAsked
<1>4. ASSUME phase' # "closed" PROVE \E heads : Serving(asker, heads)'
  <2>1. PICK heads : Serving(asker, heads)
    BY <1>1, <1>2, <1>4
  <2> PICK new : new = Append(heads, Len(input) + 1)
    OBVIOUS
  <2>2. Served(asker)' = Served(asker) /\ Turn(asker)' = Turn(asker) /\ Due' = Due
    BY <1>2 DEF Served, Turn, Due
  <2>3. Coming(input', pending', new, Served(asker))
    BY <1>2, <2>1, ComingSent DEF Serving
  <2>4. ASSUME Due PROVE Turn(asker) \in 1..Len(pending') /\ pending'[Turn(asker)] = rq
    <3>1. Turn(asker) \in 1..Len(pending) /\ pending[Turn(asker)] = rq
      BY <2>1, <2>4 DEF Serving
    <3>2. pending \in Seq(Requests)
      BY <1>1 DEF Parts
    <3>3. Len(pending') = Len(pending) + 1 /\ Len(pending) \in Nat
          /\ \A i \in 1..Len(pending) : pending'[i] = pending[i]
      BY <1>2, <3>2
    <3>4. QED BY <3>1, <3>3
  <2>5. Serving(asker, new)'
    BY <1>2, <2>2, <2>3, <2>4 DEF Serving
  <2>6. QED BY <2>5
<1>5. QED BY <1>3, <1>4 DEF Answering

(* The input grows by a unit of a body, or loses units that are no heads. *)
LEMMA AnsweringMoved ==
  ASSUME Answering, UNCHANGED <<pending, output, meant, rq>>,
         phase' # "closed" => phase # "closed" /\ (Due' <=> Due),
         \/ input' = Append(input, DataUnit)
         \/ \E n \in Nat : /\ n <= Len(input) /\ \A i \in 1..n : ~IsHead(input[i])
                           /\ input' = SubSeq(input, n + 1, Len(input))
  PROVE  Answering'
<1>1. PICK cut, asker : /\ Parts(output, meant, pending, cut, asker)
                        /\ phase # "closed" => \E heads : Serving(asker, heads)
  BY DEF Answering
<1>2. Parts(output', meant', pending', cut, asker)
  BY <1>1
<1>3. ASSUME phase' # "closed" PROVE \E heads : Serving(asker, heads)'
  <2>1. PICK heads : Serving(asker, heads)
    BY <1>1, <1>3
  <2>2. Coming(input, pending, heads, Served(asker))
    BY <2>1 DEF Serving
  <2>3. \E new : Coming(input', pending, new, Served(asker))
    <3>1. CASE input' = Append(input, DataUnit)
      BY <2>2, <3>1, ComingBody
    <3>2. ASSUME NEW n \in Nat, n <= Len(input), \A i \in 1..n : ~IsHead(input[i]),
                 input' = SubSeq(input, n + 1, Len(input))
          PROVE  Coming(input', pending, [j \in 1..Len(heads) |-> heads[j] - n], Served(asker))
      BY <2>2, <3>2, ComingRead
    <3>3. QED BY <3>1, <3>2
  <2>4. PICK new : Coming(input', pending, new, Served(asker))
    BY <2>3
  <2>5. Served(asker)' = Served(asker) /\ Turn(asker)' = Turn(asker)
    BY <1>3 DEF Served, Turn
  <2>6. Serving(asker, new)'
    BY <1>3, <2>1, <2>4, <2>5 DEF Serving
  <2>7. QED BY <2>6
<1>4. QED BY <1>2, <1>3 DEF Answering

(* The head that is read is that of the next request. *)
LEMMA AnsweringHeader ==
  ASSUME Framed, Answering, ReadHeader
  PROVE  Answering' /\ ~answered'
<1> USE DEF client
<1>1. PICK cut, asker : /\ Parts(output, meant, pending, cut, asker)
                        /\ phase # "closed" => \E heads : Serving(asker, heads)
  BY DEF Answering
<1>2. /\ phase = "header" /\ input # <<>> /\ IsHead(input[1]) /\ input' = Tail(input)
      /\ UNCHANGED <<pending, output, meant>>
  BY DEF ReadHeader, Framed, Numbers, BodyFirst
<1>3. rq' = input[1][2] /\ answered' = FALSE /\ phase' \in {"filling", "held"}
  BY <1>2 DEF ReadHeader, IsHead
<1>4. ~Due /\ Due'
  BY <1>2, <1>3 DEF Due
<1>5. PICK heads : Serving(asker, heads)
  BY <1>1, <1>2
<1>6. Served(asker) + 1 = Turn(asker) /\ Turn(asker)' = Turn(asker) /\ Served(asker)' = Turn(asker)
  BY <1>1, <1>2, <1>4, TurnRange DEF Served, Turn
<1>7. Coming(input, pending, heads, Served(asker))
  BY <1>5 DEF Serving
<1> DEFINE new == [j \in 1..(Len(heads) - 1) |-> heads[j + 1] - 1]
<1>8. /\ Served(asker) + 1 \in 1..Len(pending)
      /\ input[1] = <<"head", pending[Served(asker) + 1]>>
      /\ Coming(Tail(input), pending, new, Served(asker) + 1)
  BY <1>2, <1>7, ComingHead
<1> HIDE DEF new
<1>9. rq' = pending[Turn(asker)]
  BY <1>3, <1>6, <1>8
<1>10. Serving(asker, new)'
  BY <1>2, <1>6, <1>8, <1>9 DEF Serving
<1>11. Parts(output', meant', pending', cut, asker)
  BY <1>1, <1>2
<1>12. QED BY <1>3, <1>10, <1>11 DEF Answering

(* The answer that is due is written, or 100 Continue before it. *)
LEMMA AnsweringWritten ==
  ASSUME Answering, Due, NEW s \in Seq(Bytes), Len(s) >= 1, NEW m \in Meant,
         IsResponse(s, 1, Len(s) + 1, rq, m),
         output' = output \o s, meant' = Append(meant, m),
         UNCHANGED <<input, pending, rq>>, phase # "closed", Due' <=> m.status = 100
  PROVE  Answering'
<1>1. PICK cut, asker : /\ Parts(output, meant, pending, cut, asker)
                        /\ phase # "closed" => \E heads : Serving(asker, heads)
  BY DEF Answering
<1>2. PICK heads : Serving(asker, heads)
  BY <1>1
<1>3. /\ Coming(input, pending, heads, Turn(asker))
      /\ Turn(asker) \in 1..Len(pending) /\ pending[Turn(asker)] = rq
  BY <1>2 DEF Serving, Served
<1> PICK askers : askers = Append(asker, After(m, Turn(asker)))
  OBVIOUS
<1> PICK cuts : cuts = Append(cut, Len(output) + Len(s) + 1)
  OBVIOUS
<1>4. Parts(output', meant', pending', cuts, askers)
  BY <1>1, <1>3, PartsWritten DEF Turn
<1>5. Turn(askers)' = After(m, Turn(asker))
  <2>1. meant \in Seq(Meant) /\ Askers(asker, meant)
    BY <1>1 DEF Parts
  <2>2. asker \in Seq(Nat) /\ Len(asker) = Len(meant) + 1 /\ Len(meant) \in Nat
    BY <2>1 DEF Askers
  <2>3. Len(meant') = Len(meant) + 1
    BY <2>1
  <2>4. askers[Len(asker) + 1] = After(m, Turn(asker))
    BY <2>2
  <2>5. askers[Len(meant') + 1] = After(m, Turn(asker))
    BY <2>2, <2>3, <2>4
  <2>6. QED BY <2>5 DEF Turn
<1>6. Turn(asker) \in Nat
  BY <1>1, TurnRange
<1>7. Served(askers)' = Turn(asker) /\ (Due' => Turn(askers)' = Turn(asker))
  BY <1>5, <1>6 DEF Served, After
<1>8. Serving(askers, heads)'
  BY <1>3, <1>7 DEF Serving
<1>9. QED BY <1>4, <1>8 DEF Answering
-----------------------------------------------------------------------------
(* The first response in the output is understood. *)
LEMMA FirstIsUnderstood ==
  ASSUME NEW cut, NEW asker, Parts(output, meant, pending, cut, asker), output # <<>>
  PROVE  /\ meant # <<>> /\ pending # <<>> /\ Head(pending) = pending[1]
         /\ output[1][2] = meant[1].status /\ meant[1] \in Meant
         /\ cut[2] \in 2..(Len(output) + 1) /\ Extent(Head(pending)) = cut[2] - 1
         /\ IsResponse(output, 1, cut[2], Head(pending), meant[1])
<1>1. /\ output \in Seq(Bytes) /\ meant \in Seq(Meant) /\ pending \in Seq(Requests)
      /\ Cuts(cut, Len(meant), Len(output)) /\ Len(output) \in Nat
  BY DEF Parts
<1>2. meant # <<>>
  <2> SUFFICES ASSUME meant = <<>> PROVE FALSE
    OBVIOUS
  <2>1. Len(meant) = 0
    OBVIOUS
  <2>2. Len(output) = 0
    BY <1>1, <2>1 DEF Cuts
  <2>3. QED BY <1>1, <2>2
<1>3. /\ pending # <<>> /\ cut[2] - 1 \in 1..Len(output)
      /\ IsResponse(output, 1, cut[2], pending[1], meant[1]) /\ meant[1] \in Meant
  BY <1>2, PartsRead
<1>4. cut[2] \in 2..(Len(output) + 1)
  <2>1. 1 \in 1..Len(meant) /\ Len(meant) \in Nat
    BY <1>1, <1>2
  <2>2. cut[1 + 1] \in Nat
    BY <1>1, <2>1, CutsRange
  <2>3. QED BY <1>1, <1>3, <2>2
<1>5. Head(pending) = pending[1]
  BY <1>1, <1>3
<1>6. Extent(pending[1]) = cut[2] - 1
  BY <1>1, <1>3, <1>4, Understood
<1>7. output[1][2] = meant[1].status
  BY <1>3 DEF IsResponse
<1>8. QED BY <1>2, <1>3, <1>4, <1>5, <1>6, <1>7

(* The client reads it off, and the request that it answers is not pending any more. *)
LEMMA AnsweringRead ==
  ASSUME Answering, ReadResponse
  PROVE  Answering'
<1> USE DEF reader
<1>1. PICK cut, asker : /\ Parts(output, meant, pending, cut, asker)
                        /\ phase # "closed" => \E heads : Serving(asker, heads)
  BY DEF Answering
<1>2. output # <<>> /\ UNCHANGED <<input, phase, rq, answered>>
  BY DEF ReadResponse
<1>3. /\ meant # <<>> /\ pending # <<>> /\ meant[1] \in Meant
      /\ output[1][2] = meant[1].status /\ cut[2] \in 2..(Len(output) + 1)
      /\ Extent(Head(pending)) = cut[2] - 1
  BY <1>1, <1>2, FirstIsUnderstood
<1>4. /\ meant \in Seq(Meant) /\ pending \in Seq(Requests) /\ Askers(asker, meant)
      /\ Len(meant) \in Nat /\ Len(meant) >= 1
  BY <1>1, <1>3 DEF Parts
<1> PICK d : d = IF meant[1].status = 100 THEN 0 ELSE 1
  OBVIOUS
<1> PICK size : size = cut[2] - 1
  OBVIOUS
<1> PICK cuts : cuts = [k \in 1..Len(meant) |-> cut[k + 1] - size]
  OBVIOUS
<1> PICK askers : askers = [k \in 1..Len(meant) |-> asker[k + 1] - d]
  OBVIOUS
<1>5. /\ output' = SubSeq(output, size + 1, Len(output)) /\ meant' = Tail(meant)
      /\ pending' = IF d = 0 THEN pending ELSE Tail(pending)
  <2>1. size = Extent(Head(pending))
    BY <1>3
  <2>2. output' = SubSeq(output, size + 1, Len(output)) /\ meant' = Tail(meant)
    BY <2>1 DEF ReadResponse
  <2>3. pending' = IF meant[1].status = 100 THEN pending ELSE Tail(pending)
    BY <1>3 DEF ReadResponse
  <2>4. d = 0 <=> meant[1].status = 100
    OBVIOUS
  <2>5. QED BY <2>2, <2>3, <2>4
<1>6. Parts(output', meant', pending', cuts, askers)
  <2> DEFINE e == IF meant[1].status = 100 THEN 0 ELSE 1
             n == cut[2] - 1
  <2>1. Parts(SubSeq(output, n + 1, Len(output)), Tail(meant),
              IF e = 0 THEN pending ELSE Tail(pending),
              [k \in 1..Len(meant) |-> cut[k + 1] - n],
              [k \in 1..Len(meant) |-> asker[k + 1] - e])
    BY <1>1, <1>3, PartsRead
  <2>2. e = d /\ n = size
    OBVIOUS
  <2> HIDE DEF e, n
  <2>3. QED BY <1>5, <2>1, <2>2
<1>7. /\ Turn(askers)' = Turn(asker) - d /\ Turn(asker) \in Nat /\ d \in {0, 1}
      /\ Turn(asker) >= 1 + d
  <2>1. Len(meant') + 1 = Len(meant)
    BY <1>3, <1>4, <1>5
  <2>2. Turn(askers)' = askers[Len(meant)]
    BY <2>1 DEF Turn
  <2>3. askers[Len(meant)] = asker[Len(meant) + 1] - d
    BY <1>4
  <2>4. Turn(asker) \in Nat
    BY <1>1, TurnRange
  <2>5. asker[2] = 1 + d
    <3>1. asker[1] = 1 /\ 1 \in 1..Len(meant) /\ asker[1 + 1] = After(meant[1], asker[1])
      BY <1>4 DEF Askers
    <3>2. QED BY <3>1 DEF After
  <2>6. asker[2] <= asker[Len(meant) + 1]
    <3>1. 2 \in 1..(Len(meant) + 1) /\ Len(meant) + 1 \in 1..(Len(meant) + 1)
          /\ 2 <= Len(meant) + 1
      BY <1>4
    <3>2. QED BY <1>4, <3>1 DEF Askers
  <2>7. QED BY <2>2, <2>3, <2>4, <2>5, <2>6 DEF Turn
<1>8. Due' = Due /\ Served(askers)' = Served(asker) - d /\ Served(asker) - d \in Nat
      /\ Served(asker) \in Nat
  BY <1>2, <1>7 DEF Due, Served
<1>9. ASSUME phase' # "closed" PROVE \E heads : Serving(askers, heads)'
  <2>1. PICK heads : Serving(asker, heads)
    BY <1>1, <1>2, <1>9
  <2>2. Coming(input, pending, heads, Served(asker))
    BY <2>1 DEF Serving
  <2>3. Coming(input', pending', heads, Served(askers)')
    <3>1. CASE d = 0
      <4>1. Served(askers)' = Served(asker) /\ pending' = pending
        BY <1>5, <1>8, <3>1
      <4>2. QED BY <1>2, <2>2, <4>1
    <3>2. CASE d = 1
      <4>1. Served(asker) >= 1 /\ pending' = Tail(pending)
        BY <1>5, <1>8, <3>2
      <4>2. Coming(input, Tail(pending), heads, Served(asker) - 1)
        BY <2>2, <4>1, ComingAnswered
      <4>3. QED BY <1>2, <1>8, <3>2, <4>1, <4>2
    <3>3. QED BY <1>7, <3>1, <3>2
  <2>4. ASSUME Due PROVE Turn(askers)' \in 1..Len(pending') /\ pending'[Turn(askers)'] = rq
    <3>1. Turn(asker) \in 1..Len(pending) /\ pending[Turn(asker)] = rq
      BY <2>1, <2>4 DEF Serving
    <3>2. CASE d = 0
      <4>1. Turn(askers)' = Turn(asker) /\ pending' = pending
        BY <1>5, <1>7, <3>2
      <4>2. QED BY <3>1, <4>1
    <3>3. CASE d = 1
      <4>1. pending' = Tail(pending) /\ Len(pending') = Len(pending) - 1
            /\ \A i \in 1..(Len(pending) - 1) : pending'[i] = pending[i + 1]
        BY <1>3, <1>4, <1>5, <3>3
      <4>2. Turn(asker) - 1 \in 1..(Len(pending) - 1) /\ (Turn(asker) - 1) + 1 = Turn(asker)
        BY <1>4, <1>7, <3>1, <3>3
      <4>3. QED BY <1>7, <3>1, <3>3, <4>1, <4>2
    <3>4. QED BY <1>7, <3>2, <3>3
  <2>5. Serving(askers, heads)'
    BY <1>2, <1>8, <2>3, <2>4 DEF Serving
  <2>6. QED BY <2>5
<1>10. QED BY <1>6, <1>9 DEF Answering
-----------------------------------------------------------------------------
(* The request whose answer is due was asked. *)
LEMMA DueIsAsked ==
  ASSUME Answering, Due, phase # "closed"
  PROVE  rq \in Requests
<1>1. PICK cut, asker, heads : /\ Parts(output, meant, pending, cut, asker)
                               /\ Serving(asker, heads)
  BY DEF Answering
<1>2. pending \in Seq(Requests) /\ Turn(asker) \in 1..Len(pending) /\ pending[Turn(asker)] = rq
  BY <1>1 DEF Parts, Serving
<1>3. QED BY <1>2

(* What Write writes is the response that was meant. *)
LEMMA AnsweringPrinted ==
  ASSUME Answering, Due, phase # "closed", NEW status \in Nat, NEW body \in Nat, NEW res,
         Built(res, status, body), NEW without \in BOOLEAN, Write(res, without),
         (without \/ WithoutBody(status)) <=> Bodiless(rq, status),
         UNCHANGED <<input, pending, rq>>, Due' <=> status = 100
  PROVE  Answering'
<1> DEFINE s == RawPrint(res, rq, without)
           m == [status |-> status, data |-> body]
<1>1. rq \in Requests
  BY DueIsAsked
<1>2. s \in Seq(Bytes) /\ Len(s) >= 1 /\ IsResponse(s, 1, Len(s) + 1, rq, m)
  BY <1>1, PrintedAsMeant
<1>3. output' = output \o s /\ meant' = Append(meant, m)
  BY DEF Write, Built
<1>4. m \in Meant /\ m.status = status
  BY DEF Meant
<1> HIDE DEF s, m
<1>5. QED BY <1>2, <1>3, <1>4, AnsweringWritten

LEMMA EmptyIsBuilt ==
  ASSUME NEW status
  PROVE  Built(EmptyResponse(status), status, 0)
<1>1. <<>> \in Seq(Header) /\ \A i \in DOMAIN <<>> : FALSE
  OBVIOUS
<1>2. 0 \in {None, 0}
  OBVIOUS
<1>3. Built(NewResponse(status, 0, 0, <<>>), status, 0)
  BY <1>1, <1>2, ResponseBuilt
<1>4. QED BY <1>3 DEF EmptyResponse

LEMMA AnsweringContinue ==
  ASSUME Answering, AsReader
  PROVE  Answering'
<1> USE DEF client
<1>1. /\ phase = "held" /\ ~answered /\ Write(EmptyResponse(100), TRUE)
      /\ UNCHANGED <<input, pending, phase, rq, answered>>
  BY DEF AsReader
<1>2. Due /\ Due'
  BY <1>1 DEF Due
<1>3. 100 \in Nat /\ 0 \in Nat /\ TRUE \in BOOLEAN /\ Bodiless(rq, 100)
  BY DEF Bodiless
<1>4. Built(EmptyResponse(100), 100, 0)
  BY EmptyIsBuilt
<1>5. QED BY <1>1, <1>2, <1>3, <1>4, AnsweringPrinted

LEMMA AnsweringRespond ==
  ASSUME Answering, NEW status \in Statuses, NEW body \in 0..MaxBody, Respond(status, body)
  PROVE  Answering'
<1> USE DEF client
<1>1. /\ phase = "held" /\ ~answered /\ answered'
      /\ UNCHANGED <<input, pending, phase, rq>>
  BY DEF Respond
<1>2. PICK length \in {None, body}, headers \in UserHeaders(body) :
        Write(NewResponse(status, body, length, headers), rq.method = "HEAD")
  BY DEF Respond
<1>3. Due /\ ~Due'
  BY <1>1 DEF Due
<1>4. status \in Nat /\ 200 <= status /\ body \in Nat /\ (rq.method = "HEAD") \in BOOLEAN
  BY ExchangeAssumption DEF ExchangeAssumption
<1>5. (rq.method = "HEAD" \/ WithoutBody(status)) <=> Bodiless(rq, status)
  BY <1>4 DEF WithoutBody, Bodiless
<1>6. /\ headers \in Seq(Header)
      /\ \A i \in DOMAIN headers : headers[i][1] = "Content-Length" => headers[i][2] = body
  <2>1. CASE headers = <<>>
    BY <2>1
  <2>2. CASE headers = <<<<"Content-Length", body>>, <<"Transfer-Encoding", "chunked">>,
           <<"Content-Type", "a">>, <<"Connection", "close">>, <<"Content-Type", "b">>>>
    <3>1. /\ <<"Content-Length", body>> \in Header /\ <<"Transfer-Encoding", "chunked">> \in Header
          /\ <<"Content-Type", "a">> \in Header /\ <<"Connection", "close">> \in Header
          /\ <<"Content-Type", "b">> \in Header
      BY <1>4 DEF Header, Names, Values, Forbidden
    <3>2. headers \in Seq(Header)
      BY <2>2, <3>1
    <3>3. DOMAIN headers = 1..5 /\ headers[1] = <<"Content-Length", body>>
          /\ \A i \in 2..5 : headers[i][1] # "Content-Length"
      BY <2>2
    <3>4. ASSUME NEW i \in 1..5 PROVE i = 1 \/ i \in 2..5
      OBVIOUS
    <3>5. QED BY <3>2, <3>3, <3>4
  <2>3. QED BY <2>1, <2>2 DEF UserHeaders
<1>7. Built(NewResponse(status, body, length, headers), status, body)
  BY <1>6, ResponseBuilt
<1>8. status # 100
  BY <1>4
<1>9. QED BY <1>1, <1>2, <1>3, <1>4, <1>5, <1>7, <1>8, AnsweringPrinted

LEMMA AnsweringDrop ==
  ASSUME Answering, Drop
  PROVE  Answering'
<1> USE DEF client, reader
<1>1. /\ phase = "held" /\ phase' = "draining" /\ ~Due'
      /\ UNCHANGED <<input, pending, rq>>
  BY DEF Drop, Due
<1>2. CASE answered
  <2>1. ~Due /\ UNCHANGED <<output, meant>>
    BY <1>1, <1>2 DEF Drop, Due
  <2>2. QED BY <1>1, <2>1, AnsweringAside
<1>3. CASE ~answered
  <2> PICK status : status = 500
    OBVIOUS
  <2>1. Due /\ Write(EmptyResponse(status), rq.method = "HEAD") /\ phase # "closed"
    BY <1>1, <1>3 DEF Drop, Due
  <2>2. status \in Nat /\ 0 \in Nat /\ (rq.method = "HEAD") \in BOOLEAN /\ status # 100
    OBVIOUS
  <2>3. (rq.method = "HEAD" \/ WithoutBody(status)) <=> Bodiless(rq, status)
    BY DEF WithoutBody, Bodiless
  <2>4. Built(EmptyResponse(status), status, 0)
    BY EmptyIsBuilt
  <2>5. Due' <=> status = 100
    BY <1>1, <2>2
  <2>6. UNCHANGED <<input, pending, rq>>
    BY <1>1
  <2>7. QED BY ONLY Answering, <2>1, <2>2, <2>3, <2>4, <2>5, <2>6, AnsweringPrinted
<1>4. QED BY <1>2, <1>3

LEMMA AnsweringByHand ==
  ASSUME Answering, WriteByHand
  PROVE  Answering'
<1> USE DEF client, reader
<1> DEFINE field == <<"Content-Length", 0>>
           head == <<"head", 200, <<field>>>>
           s == <<head>>
           m == [status |-> 200, data |-> 0]
<1>1. /\ phase = "raw" /\ phase' = "draining" /\ UNCHANGED <<input, pending, rq>>
      /\ output' = Append(output, head) /\ meant' = Append(meant, m)
  BY DEF WriteByHand
<1>2. Due /\ ~Due'
  BY <1>1 DEF Due
<1>3. field \in Header
  BY DEF Header, Names, Values
<1>4. m \in Meant /\ m.status = 200 /\ m.data = 0
  BY DEF Meant
<1>5. head \in Bytes /\ head[1] = "head" /\ head[2] = 200 /\ head[3] = <<field>>
      /\ field[1] = "Content-Length" /\ field[2] = 0
  <2>1. <<field>> \in Seq(Header)
    BY <1>3
  <2>2. QED BY <2>1 DEF Bytes
<1> HIDE DEF m
<1>6. s \in Seq(Bytes) /\ Len(s) = 1 /\ s[1] = head
  <2> HIDE DEF head
  <2>1. QED BY <1>5
<1>7. HeadersFrame(<<field>>) /\ Len(<<field>>) = 1 /\ <<field>>[1] = field
  BY <1>3, <1>5 DEF HeadersFrame, FramingFields, OneType
<1>8. FramingField(s, 1) = field
  BY <1>5, <1>6, <1>7 DEF FramingField
<1> HIDE DEF field, head, s
<1>9. IsResponse(s, 1, 2, rq, m)
  BY <1>4, <1>5, <1>6, <1>7, <1>8 DEF IsResponse
<1>10. output' = output \o s
  <2>1. PICK cut, asker : Parts(output, meant, pending, cut, asker)
    BY DEF Answering
  <2>2. output \in Seq(Bytes) /\ head \in Bytes
    BY <1>5, <2>1 DEF Parts
  <2>3. Append(output, head) = output \o <<head>>
    BY <2>2, AppendIsConcat
  <2>4. QED BY <1>1, <2>3 DEF s
<1>11. Len(s) >= 1 /\ Len(s) + 1 = 2 /\ phase # "closed" /\ (Due' <=> m.status = 100)
  BY <1>1, <1>2, <1>4, <1>6
<1>12. IsResponse(s, 1, Len(s) + 1, rq, m)
  BY <1>9, <1>11
<1>13. meant' = Append(meant, m) /\ UNCHANGED <<input, pending, rq>>
  BY <1>1
<1>14. m \in Meant /\ s \in Seq(Bytes) /\ Len(s) >= 1 /\ phase # "closed"
       /\ (Due' <=> m.status = 100) /\ Due
  BY <1>2, <1>4, <1>6, <1>11
<1>15. QED BY <1>10, <1>12, <1>13, <1>14, AnsweringWritten
-----------------------------------------------------------------------------
(* A read of the body that is due takes no head. *)
LEMMA AnsweringBodyRead ==
  ASSUME Framed, Answering, NEW n, NEW asked \in Nat, asked <= left, Read(n, asked),
         UNCHANGED <<pending, output, meant, rq>>,
         phase' # "closed" => phase # "closed" /\ (Due' <=> Due)
  PROVE  Answering'
<1>1. n \in Nat /\ n <= left /\ n <= Len(input) /\ input' = SubSeq(input, n + 1, Len(input))
  BY DEF Read, Lesser, Framed, Numbers
<1>2. \A i \in 1..n : ~IsHead(input[i])
  BY <1>1 DEF Framed, Numbers, BodyFirst
<1>3. QED BY <1>1, <1>2, AnsweringMoved

(* Each step keeps the output in responses and the requests in their order. *)
LEMMA AnsweringStep ==
  ASSUME Framed, AnsweringInv, [Next]_vars
  PROVE  AnsweringInv'
<1> USE DEF client, reader
<1>0. Answering /\ (phase = "filling" => ~answered)
  BY DEF AnsweringInv
<1>1. CASE UNCHANGED vars
  BY <1>0, <1>1, AnsweringAside DEF vars, AnsweringInv, Due
<1>2. ASSUME NEW r \in Requests, SendRequest(r) PROVE AnsweringInv'
  BY <1>0, <1>2, AnsweringSent DEF SendRequest, AnsweringInv
<1>3. CASE HangUp
  BY <1>0, <1>3, AnsweringAside DEF HangUp, AnsweringInv, Due
<1>4. CASE SendBody
  BY <1>0, <1>4, AnsweringMoved DEF SendBody, AnsweringInv, Due
<1>5. CASE ReadResponse
  BY <1>0, <1>5, AnsweringRead DEF ReadResponse, AnsweringInv
<1>6. CASE ReadHeader
  BY <1>0, <1>6, AnsweringHeader DEF AnsweringInv
<1>7. CASE ReadEof
  BY <1>0, <1>7, AnsweringAside DEF ReadEof, AnsweringInv
<1>8. CASE Fill
  <2>1. /\ phase = "filling" /\ ~answered /\ phase' \in {"filling", "held", "closed"}
        /\ UNCHANGED <<pending, output, meant, rq, answered>>
    BY <1>0, <1>8 DEF Fill
  <2>2. phase' # "closed" => phase # "closed" /\ (Due' <=> Due)
    BY <2>1 DEF Due
  <2>3. ASSUME NEW n \in 1..left, Read(n, left) PROVE Answering'
    BY <1>0, <2>1, <2>2, <2>3, AnsweringBodyRead DEF Framed, Numbers
  <2>4. ASSUME AtEof PROVE Answering'
    BY <1>0, <2>1, <2>2, <2>4, AnsweringAside DEF AtEof
  <2>5. Answering'
    BY <1>8, <2>3, <2>4 DEF Fill
  <2>6. QED BY <2>1, <2>5 DEF AnsweringInv
<1>9. CASE Drain
  <2>1. UNCHANGED <<pending, output, meant, phase, rq, answered>> /\ phase # "closed"
    BY <1>9 DEF Drain, Draining
  <2>2. Due' <=> Due
    BY <2>1 DEF Due
  <2>3. ASSUME NEW n \in 1..left, Read(n, left) PROVE Answering'
    BY <1>0, <2>1, <2>2, <2>3, AnsweringBodyRead DEF Framed, Numbers
  <2>4. ASSUME AtEof PROVE Answering'
    BY <1>0, <2>1, <2>2, <2>4, AnsweringAside DEF AtEof
  <2>5. Answering'
    BY <1>9, <2>3, <2>4 DEF Drain
  <2>6. QED BY <1>0, <2>1, <2>5 DEF AnsweringInv
<1>10. CASE Drained
  <2>1. /\ UNCHANGED <<input, pending, output, meant, rq, answered>> /\ phase # "closed"
        /\ \/ phase = "skipping" /\ phase' = "held"
           \/ phase = "unpacking" /\ phase' = "raw"
           \/ phase = "draining" /\ phase' \in {"closed", "header"}
    BY <1>10 DEF Drained, Draining
  <2>2. Due' <=> Due
    BY <2>1 DEF Due
  <2>3. QED BY <1>0, <2>1, <2>2, AnsweringAside DEF AnsweringInv
<1>11. CASE AsReader
  BY <1>0, <1>11, AnsweringContinue DEF AsReader, AnsweringInv
<1>12. ASSUME NEW size \in 1..MaxRead, ReadBuffer(size) PROVE AnsweringInv'
  BY <1>0, <1>12, AnsweringAside DEF ReadBuffer, Reading, AnsweringInv, Due
<1>13. ASSUME NEW size \in 1..MaxRead, ReadStream(size) PROVE AnsweringInv'
  <2>1. PICK n \in 1..size : Read(n, Asked(size))
    BY <1>13 DEF ReadStream
  <2>2. Asked(size) \in Nat /\ Asked(size) <= left
    BY DEF Asked, Lesser, Framed, Numbers
  <2>3. UNCHANGED <<pending, output, meant, phase, rq, answered>> /\ phase = "held"
    BY <1>13 DEF ReadStream, Reading
  <2>4. Due' <=> Due
    BY <2>3 DEF Due
  <2>5. Answering'
    BY <1>0, <2>1, <2>2, <2>3, <2>4, AnsweringBodyRead
  <2>6. QED BY <2>3, <2>5 DEF AnsweringInv
<1>14. CASE ReadEnds
  <2>1. UNCHANGED <<input, pending, output, meant, phase, rq, answered>> /\ phase = "held"
    BY <1>14 DEF ReadEnds, Reading, AtEof
  <2>2. Due' <=> Due
    BY <2>1 DEF Due
  <2>3. QED BY <1>0, <2>1, <2>2, AnsweringAside DEF AnsweringInv
<1>15. CASE ReadIntoNothing
  BY <1>0, <1>15, AnsweringAside DEF ReadIntoNothing, Reading, AnsweringInv, Due
<1>16. ASSUME NEW status \in Statuses, NEW body \in 0..MaxBody, Respond(status, body)
       PROVE  AnsweringInv'
  BY <1>0, <1>16, AnsweringRespond DEF Respond, AnsweringInv
<1>17. CASE Drop
  BY <1>0, <1>17, AnsweringDrop DEF Drop, AnsweringInv
<1>18. CASE IntoWriter
  BY <1>0, <1>18, AnsweringAside DEF IntoWriter, AnsweringInv, Due
<1>19. CASE WriteByHand
  BY <1>0, <1>19, AnsweringByHand DEF WriteByHand, AnsweringInv
<1>20. QED
  BY <1>1, <1>2, <1>3, <1>4, <1>5, <1>6, <1>7, <1>8, <1>9, <1>10, <1>11, <1>12,
     <1>13, <1>14, <1>15, <1>16, <1>17, <1>18, <1>19
     DEF Next, Client, Server, User

LEMMA AnsweringInit == Init => AnsweringInv
<1> SUFFICES ASSUME Init PROVE AnsweringInv
  OBVIOUS
<1>1. /\ output = <<>> /\ meant = <<>> /\ pending = <<>> /\ input = <<>> /\ phase = "header"
  BY DEF Init
<1>2. Parts(output, meant, pending, <<1>>, <<1>>)
  BY <1>1, PartsEmpty
<1>3. ~Due /\ Turn(<<1>>) = 1 /\ Served(<<1>>) = 0
  BY <1>1 DEF Due, Turn, Served
<1>4. Serving(<<1>>, <<>>)
  BY <1>1, <1>3, ComingEmpty DEF Serving
<1>5. QED BY <1>1, <1>2, <1>4 DEF Answering, AnsweringInv

LEMMA Answers == Spec => []AnsweringInv
<1>1. Framed /\ AnsweringInv /\ [Next]_vars => AnsweringInv'
  BY AnsweringStep
<1>2. QED BY <1>1, AnsweringInit, Framing, PTL DEF Spec

(* For every status, method, version, TE and length, announced or left open, and
   however many responses the client has not read: it takes each for what the user
   meant it to be, and finds the next one behind it. *)
THEOREM UnderstoodByClient == Spec => []ResponseUnderstood
<1> SUFFICES AnsweringInv => ResponseUnderstood
  BY Answers, PTL
<1> SUFFICES ASSUME AnsweringInv, output # <<>>
             PROVE  ResponseUnderstood
  BY DEF ResponseUnderstood
<1>1. PICK cut, asker : Parts(output, meant, pending, cut, asker)
  BY DEF AnsweringInv, Answering
<1>2. /\ output[1][2] = meant[1].status /\ meant[1] \in Meant
      /\ cut[2] \in 2..(Len(output) + 1) /\ Extent(Head(pending)) = cut[2] - 1
      /\ IsResponse(output, 1, cut[2], Head(pending), meant[1])
  BY <1>1, FirstIsUnderstood
<1>3. /\ output \in Seq(Bytes) /\ meant \in Seq(Meant)
      /\ Cuts(cut, Len(meant), Len(output))
      /\ \A k \in 1..Len(meant) :
           IsResponse(output, cut[k], cut[k + 1], pending[asker[k]], meant[k])
  BY <1>1 DEF Parts
<1> DEFINE r == Head(pending)
           n == Extent(r)
<1>4. n = cut[2] - 1 /\ n <= Len(output) /\ output[1][1] = "head" /\ Len(output) \in Nat
      /\ n \in Nat
  BY <1>2, <1>3 DEF IsResponse
<1>5. /\ Cardinality(Fields("Content-Length") \cup Fields("Transfer-Encoding")) = 1
      /\ Fields("Transfer-Encoding") # {} => MayBeChunked(r, meant[1].status)
      /\ Cardinality(Fields("Content-Type")) <= 1
      /\ Cardinality({i \in 1..(cut[2] - 1) : output[i] = DataUnit}) =
           IF Bodiless(r, meant[1].status) THEN 0 ELSE meant[1].data
  <2> DEFINE q == Head(pending)
             b == cut[2]
             m == meant[1]
  <2>1. output \in Seq(Bytes) /\ b \in 2..(Len(output) + 1) /\ m \in Meant
        /\ IsResponse(output, 1, b, q, m)
    BY <1>2, <1>3
  <2> HIDE DEF q, b, m
  <2>2. Cardinality(Fields("Content-Length") \cup Fields("Transfer-Encoding")) = 1
    BY ONLY <2>1, Understood
  <2>3. Fields("Transfer-Encoding") # {} => MayBeChunked(q, m.status)
    BY ONLY <2>1, Understood
  <2>4. Cardinality(Fields("Content-Type")) <= 1
    BY ONLY <2>1, Understood
  <2>5. Cardinality({i \in 1..(b - 1) : output[i] = DataUnit}) =
          IF Bodiless(q, m.status) THEN 0 ELSE m.data
    BY ONLY <2>1, Understood
  <2>6. QED BY <2>2, <2>3, <2>4, <2>5 DEF q, b, m
<1>6. n < Len(output) => output[n + 1][1] = "head"
  <2> SUFFICES ASSUME n < Len(output) PROVE output[n + 1][1] = "head"
    OBVIOUS
  <2>1. n + 1 = cut[2] /\ cut[2] # Len(output) + 1
    BY <1>2, <1>4
  <2>2. Len(meant) \in Nat /\ cut[Len(meant) + 1] = Len(output) + 1 /\ meant # <<>>
    BY <1>1, <1>3, FirstIsUnderstood DEF Cuts
  <2>3. Len(meant) # 1
    <3> HIDE DEF n
    <3>1. Len(meant) = 1 => cut[2] = Len(output) + 1
      BY <2>2
    <3>2. QED BY <2>1, <3>1
  <2>4. 2 \in 1..Len(meant)
    <3>1. Len(meant) # 0
      BY <1>3, <2>2
    <3> DEFINE size == Len(meant)
    <3>2. size \in Nat /\ size # 0 /\ size # 1
      BY <2>2, <2>3, <3>1
    <3> HIDE DEF size
    <3>3. 2 \in 1..size
      BY ONLY <3>2
    <3>4. QED BY <3>3 DEF size
  <2>5. IsResponse(output, cut[2], cut[2 + 1], pending[asker[2]], meant[2])
    BY <1>3, <2>4
  <2>6. QED BY <2>1, <2>5 DEF IsResponse
<1> HIDE DEF n
<1>7. Cardinality({i \in 1..n : output[i] = DataUnit}) =
        IF Bodiless(r, meant[1].status) THEN 0 ELSE meant[1].data
  BY <1>4, <1>5
<1>8. QED BY <1>2, <1>4, <1>5, <1>6, <1>7 DEF ResponseUnderstood, MayBeChunked, n
-----------------------------------------------------------------------------
(* The types that Framed, ProgressInv and AnsweringInv leave open. *)
Kinds ==
  /\ patient \in BOOLEAN /\ count \in 0..MaxSent
  /\ phase \in {"header", "filling", "held", "raw", "closed"} \cup Draining
  /\ rq \in Requests \cup {None} /\ must \in BOOLEAN /\ answered \in BOOLEAN
  /\ ended \in {"open", "empty", "eof"}

LEMMA KindsStep ==
  ASSUME Framed, Kinds, [Next]_vars
  PROVE  Kinds'
<1> USE DEF client, reader, Kinds, Draining
<1>1. CASE UNCHANGED vars
  BY <1>1 DEF vars
<1>2. ASSUME NEW r \in Requests, SendRequest(r) PROVE Kinds'
  <2>1. r.expect \in BOOLEAN /\ r.length \in Nat
    BY ExchangeAssumption DEF ExchangeAssumption, RequestType
  <2>2. count + 1 \in 0..MaxSent
    BY <1>2, ExchangeAssumption DEF SendRequest, ExchangeAssumption
  <2>3. QED BY <1>2, <2>1, <2>2 DEF SendRequest
<1>3. CASE HangUp \/ SendBody \/ ReadResponse
  BY <1>3 DEF HangUp, SendBody, ReadResponse
<1>4. CASE ReadHeader
  <2>1. input[1] \in Unit /\ IsHead(input[1])
    BY <1>4 DEF ReadHeader, Framed, Numbers, BodyFirst
  <2>2. input[1][2] \in Requests /\ input[1][2].expect \in BOOLEAN
    BY <2>1, UnitKinds, ExchangeAssumption DEF ExchangeAssumption, RequestType
  <2>3. QED BY <1>4, <2>1, <2>2 DEF ReadHeader, IsHead
<1>5. CASE ReadEof \/ Fill \/ Drain \/ Drained
  BY <1>5 DEF ReadEof, Fill, Drain, Drained
<1>6. CASE AsReader \/ ReadEnds \/ ReadIntoNothing \/ Drop \/ IntoWriter \/ WriteByHand
  <2>1. CASE AsReader \/ ReadEnds
    BY <2>1 DEF AsReader, ReadEnds
  <2>2. CASE ReadIntoNothing \/ IntoWriter
    BY <2>2 DEF ReadIntoNothing, IntoWriter
  <2>3. CASE Drop \/ WriteByHand
    BY <2>3 DEF Drop, WriteByHand
  <2>4. QED BY <1>6, <2>1, <2>2, <2>3
<1>7. ASSUME NEW size \in 1..MaxRead, ReadBuffer(size) \/ ReadStream(size) PROVE Kinds'
  BY <1>7 DEF ReadBuffer, ReadStream
<1>8. ASSUME NEW status \in Statuses, NEW body \in 0..MaxBody, Respond(status, body)
      PROVE  Kinds'
  BY <1>8 DEF Respond
<1>9. QED
  BY <1>1, <1>2, <1>3, <1>4, <1>5, <1>6, <1>7, <1>8 DEF Next, Client, Server, User

(* The types of the whole connection, with those of the history of the output. *)
THEOREM TypeCorrect == Spec => []TypeOK
<1>1. Init => Kinds
  <2>1. 0 \in 0..MaxSent
    BY ExchangeAssumption DEF ExchangeAssumption
  <2>2. QED BY <2>1 DEF Init, Kinds
<1>2. Framed /\ Kinds /\ [Next]_vars => Kinds'
  BY KindsStep
<1>3. Framed /\ ProgressInv /\ AnsweringInv /\ Kinds => TypeOK
  <2> SUFFICES ASSUME Framed, ProgressInv, AnsweringInv, Kinds PROVE TypeOK
    OBVIOUS
  <2>1. PICK cut, asker : Parts(output, meant, pending, cut, asker)
    BY DEF AnsweringInv, Answering
  <2>2. output \in Seq(Bytes) /\ meant \in Seq(Meant) /\ pending \in Seq(Requests)
    BY <2>1 DEF Parts
  <2>3. \A i \in DOMAIN output : output[i][1] \in {"head", "data", "end"}
    BY <2>2 DEF Bytes, DataUnit, End
  <2>4. input \in Seq({DataUnit} \cup {<<"head", r>> : r \in Requests})
        /\ owed \in Nat /\ gone \in BOOLEAN /\ left \in Nat
    BY DEF Framed, Numbers, Unit
  <2>5. got \in Nat
    BY DEF ProgressInv
  <2>6. QED BY <2>2, <2>3, <2>4, <2>5 DEF TypeOK, Kinds, Meant
<1>4. QED BY <1>1, <1>2, <1>3, Framing, Answers, PTL DEF Spec
=============================================================================
