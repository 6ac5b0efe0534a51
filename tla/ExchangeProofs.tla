---------------------------- MODULE ExchangeProofs ----------------------------
(***************************************************************************)
(* The framing of requests, for any requests and any sizes: on the way of  *)
(* a request through buffers, short reads, reads into nothing, answers and *)
(* drops, heads are read as heads and bodies as bodies, and who reads to   *)
(* the end has the whole body.                                             *)
(***************************************************************************)
EXTENDS Exchange, TLAPS

Unit == {DataUnit} \cup {<<"head", r>> : r \in Requests}

IsHead(u) == u[1] = "head"
Size(u)   == u[2].length

Numbers ==
  /\ input \in Seq(Unit)
  /\ left \in Nat /\ owed \in Nat /\ gone \in BOOLEAN
  /\ phase \in {"header", "raw"} => left = 0

(* What is left of the body that is being read comes first, and a head after it. *)
BodyFirst ==
  /\ \A i \in 1..Len(input) : i <= left => ~IsHead(input[i])
  /\ left < Len(input) => IsHead(input[left + 1])

(* Behind each head comes its body, and the next head after it. *)
Bodies(i) ==
  LET end == i + Size(input[i]) IN
  /\ \A j \in (i + 1)..Len(input) : j <= end => ~IsHead(input[j])
  /\ end < Len(input) => IsHead(input[end + 1])

Whole == \A i \in 1..Len(input) : IsHead(input[i]) => Bodies(i)

(* What the client still owes completes the body that the input ends with. *)
Complete ==
  gone \/ LET end == Len(input) + owed IN
          \/ left = end
          \/ \E i \in 1..Len(input) :
               IsHead(input[i]) /\ end = i + Size(input[i])

Framed == Numbers /\ BodyFirst /\ Whole /\ Complete

LEMMA UnitKinds ==
  /\ DataUnit \in Unit /\ ~IsHead(DataUnit)
  /\ \A r \in Requests : /\ <<"head", r>> \in Unit /\ IsHead(<<"head", r>>)
                         /\ Size(<<"head", r>>) = r.length /\ r.length \in Nat
  /\ \A u \in Unit : IsHead(u) => Size(u) \in Nat /\ u[2] \in Requests
<1>1. \A r \in Requests : r.length \in Nat
  BY ExchangeAssumption DEF ExchangeAssumption, RequestType
<1>2. QED BY <1>1 DEF Unit, IsHead, Size, DataUnit

(* What is left of the input when its first n units were read. *)
LEMMA Rest ==
  ASSUME NEW S \in Seq(Unit), NEW n \in Nat, n <= Len(S)
  PROVE  /\ SubSeq(S, n + 1, Len(S)) \in Seq(Unit)
         /\ Len(SubSeq(S, n + 1, Len(S))) = Len(S) - n
         /\ \A i \in 1..(Len(S) - n) : SubSeq(S, n + 1, Len(S))[i] = S[i + n]
<1>1. Len(S) \in Nat
  OBVIOUS
<1>2. \A i \in 1..(Len(S) - n) : (n + 1) + i - 1 = i + n
  BY <1>1
<1>3. QED BY <1>1, <1>2

LEMMA SameEnd ==
  \A length, due, i, size, n \in Nat :
    length + due = i + size => (length - n) + due = (i - n) + size
OBVIOUS

(* Reading a part of the body that is due. *)
LEMMA BodyRead ==
  ASSUME Framed, NEW n \in Nat, n <= left, n <= Len(input),
         input' = SubSeq(input, n + 1, Len(input)), left' = left - n,
         UNCHANGED <<owed, gone>>, phase' \in {"header", "raw"} => left' = 0
  PROVE  Framed' /\ \A i \in 1..n : ~IsHead(input[i])
<1> USE DEF Framed, Numbers
<1>1. /\ input' \in Seq(Unit) /\ Len(input) \in Nat /\ Len(input') = Len(input) - n
      /\ \A i \in 1..Len(input') : input'[i] = input[i + n] /\ i + n \in 1..Len(input)
  BY Rest
<1>2. Numbers'
  BY <1>1
<1>3. BodyFirst'
  <2>1. ASSUME NEW i \in 1..Len(input'), i <= left' PROVE ~IsHead(input'[i])
    <3>1. i + n \in 1..Len(input) /\ i + n <= left /\ input'[i] = input[i + n]
      BY <1>1, <2>1
    <3>2. QED BY <3>1 DEF BodyFirst
  <2>2. ASSUME left' < Len(input') PROVE IsHead(input'[left' + 1])
    <3>1. /\ left < Len(input) /\ left' + 1 \in 1..Len(input')
          /\ (left' + 1) + n = left + 1
      BY <1>1, <2>2
    <3>2. input'[left' + 1] = input[left + 1]
      BY <1>1, <3>1
    <3>3. QED BY <3>1, <3>2 DEF BodyFirst
  <2>3. QED BY <2>1, <2>2 DEF BodyFirst
<1>4. Whole'
  <2> SUFFICES ASSUME NEW i \in 1..Len(input'), IsHead(input'[i]) PROVE Bodies(i)'
    BY DEF Whole
  <2>1. IsHead(input[i + n]) /\ Bodies(i + n)
    BY <1>1 DEF Whole
  <2> DEFINE size == Size(input[i + n])
  <2>2. size \in Nat /\ input'[i] = input[i + n]
    BY <1>1, <2>1, UnitKinds
  <2> HIDE DEF size
  <2>3. ASSUME NEW j \in (i + 1)..Len(input'), j <= i + size PROVE ~IsHead(input'[j])
    <3>1. j + n \in ((i + n) + 1)..Len(input) /\ j + n <= (i + n) + size
      BY <1>1, <2>2, <2>3
    <3>2. input'[j] = input[j + n]
      BY <1>1, <2>3
    <3>3. QED BY <2>1, <3>1, <3>2 DEF Bodies, size
  <2>4. ASSUME i + size < Len(input') PROVE IsHead(input'[(i + size) + 1])
    <3>1. /\ (i + n) + size < Len(input)
          /\ (i + size) + 1 \in 1..Len(input')
          /\ ((i + size) + 1) + n = ((i + n) + size) + 1
      BY <1>1, <2>2, <2>4
    <3>2. input'[(i + size) + 1] = input[((i + n) + size) + 1]
      BY <1>1, <3>1
    <3>3. QED BY <2>1, <3>1, <3>2 DEF Bodies, size
  <2>5. QED BY <2>2, <2>3, <2>4 DEF Bodies, size
<1>5. Complete'
  <2>1. CASE gone \/ left = Len(input) + owed
    BY <1>1, <2>1 DEF Complete
  <2>2. CASE ~gone /\ left # Len(input) + owed
    <3>1. PICK i \in 1..Len(input) :
            IsHead(input[i]) /\ Len(input) + owed = i + Size(input[i])
      BY <2>2 DEF Complete
    <3>2. i > left /\ Size(input[i]) \in Nat
      BY <1>1, <3>1, UnitKinds DEF BodyFirst
    <3>3. i - n \in 1..Len(input') /\ (i - n) + n = i
      BY <1>1, <3>2
    <3>4. input'[i - n] = input[i]
      BY <1>1, <3>3
    <3>5. (Len(input) - n) + owed = (i - n) + Size(input[i])
      <4>1. /\ Len(input) \in Nat /\ owed \in Nat /\ i \in Nat
            /\ Size(input[i]) \in Nat /\ n \in Nat
        BY <1>1, <3>2
      <4> DEFINE length == Len(input)
      <4> DEFINE size == Size(input[i])
      <4>2. length + owed = i + size
        BY <3>1
      <4>3. length \in Nat /\ size \in Nat
        BY <4>1
      <4> HIDE DEF length, size
      <4>4. (length - n) + owed = (i - n) + size
        BY <4>1, <4>2, <4>3
      <4>5. QED BY <4>4 DEF length, size
    <3>6. Len(input') + owed' = (i - n) + Size(input'[i - n])
      BY <1>1, <3>4, <3>5
    <3>7. QED BY <3>1, <3>3, <3>4, <3>6 DEF Complete
  <2>3. QED BY <2>1, <2>2
<1>6. \A i \in 1..n : ~IsHead(input[i])
  BY DEF BodyFirst
<1>7. QED BY <1>2, <1>3, <1>4, <1>5, <1>6

(* Reading a head: its body is due. *)
LEMMA HeadRead ==
  ASSUME Framed, left = 0, input # <<>>, input' = Tail(input),
         left' = Size(input[1]), UNCHANGED <<owed, gone>>,
         phase' \notin {"header", "raw"}
  PROVE  Framed'
<1> USE DEF Framed, Numbers
<1>1. /\ input' \in Seq(Unit) /\ Len(input) \in Nat /\ Len(input') = Len(input) - 1
      /\ Len(input) >= 1
      /\ \A i \in 1..Len(input') : input'[i] = input[i + 1] /\ i + 1 \in 1..Len(input)
  OBVIOUS
<1>2. IsHead(input[1]) /\ Bodies(1) /\ left' \in Nat
  BY <1>1, UnitKinds DEF BodyFirst, Whole
<1>3. Numbers'
  BY <1>1, <1>2
<1>4. BodyFirst'
  BY <1>1, <1>2 DEF BodyFirst, Bodies
<1>5. Whole'
  <2> SUFFICES ASSUME NEW i \in 1..Len(input'), IsHead(input'[i]) PROVE Bodies(i)'
    BY DEF Whole
  <2>1. IsHead(input[i + 1]) /\ Bodies(i + 1)
    BY <1>1 DEF Whole
  <2> DEFINE size == Size(input[i + 1])
  <2>2. size \in Nat /\ input'[i] = input[i + 1]
    BY <1>1, <2>1, UnitKinds
  <2> HIDE DEF size
  <2>3. ASSUME NEW j \in (i + 1)..Len(input'), j <= i + size PROVE ~IsHead(input'[j])
    <3>1. j + 1 \in ((i + 1) + 1)..Len(input) /\ j + 1 <= (i + 1) + size
      BY <1>1, <2>2, <2>3
    <3>2. input'[j] = input[j + 1]
      BY <1>1, <2>3
    <3>3. QED BY <2>1, <3>1, <3>2 DEF Bodies, size
  <2>4. ASSUME i + size < Len(input') PROVE IsHead(input'[(i + size) + 1])
    <3>1. /\ (i + 1) + size < Len(input)
          /\ (i + size) + 1 \in 1..Len(input')
          /\ ((i + size) + 1) + 1 = ((i + 1) + size) + 1
      BY <1>1, <2>2, <2>4
    <3>2. input'[(i + size) + 1] = input[((i + 1) + size) + 1]
      BY <1>1, <3>1
    <3>3. QED BY <2>1, <3>1, <3>2 DEF Bodies, size
  <2>5. QED BY <2>2, <2>3, <2>4 DEF Bodies, size
<1>6. Complete'
  <2>1. CASE gone
    BY <2>1 DEF Complete
  <2>2. CASE ~gone
    <3>1. PICK i \in 1..Len(input) :
            IsHead(input[i]) /\ Len(input) + owed = i + Size(input[i])
      BY <1>1, <2>2 DEF Complete
    <3>2. Size(input[i]) \in Nat
      BY <1>1, <3>1, UnitKinds
    <3>3. CASE i = 1
      <4>1. (Len(input) - 1) + owed = (i - 1) + Size(input[i])
        BY <1>1, <3>1, <3>2, SameEnd
      <4>2. left' = Len(input') + owed'
        BY <1>1, <3>2, <3>3, <4>1
      <4>3. QED BY <4>2 DEF Complete
    <3>4. CASE i # 1
      <4>1. i - 1 \in 1..Len(input') /\ (i - 1) + 1 = i
        BY <1>1, <3>4
      <4>2. input'[i - 1] = input[i]
        BY <1>1, <4>1
      <4>3. (Len(input) - 1) + owed = (i - 1) + Size(input[i])
        BY <1>1, <3>1, <3>2, SameEnd
      <4>4. Len(input') + owed' = (i - 1) + Size(input'[i - 1])
        BY <1>1, <4>2, <4>3
      <4>5. QED BY <3>1, <4>1, <4>2, <4>4 DEF Complete
    <3>5. QED BY <3>3, <3>4
  <2>3. QED BY <2>1, <2>2
<1>7. QED BY <1>3, <1>4, <1>5, <1>6

(* The client sends a head when its last body is complete. *)
LEMMA HeadSent ==
  ASSUME Framed, ~gone, owed = 0, NEW r \in Requests,
         input' = Append(input, <<"head", r>>), owed' = r.length,
         UNCHANGED <<left, gone, phase>>
  PROVE  Framed'
<1> USE DEF Framed, Numbers
<1> DEFINE last == Len(input) + 1
<1>1. /\ input' \in Seq(Unit) /\ Len(input) \in Nat /\ Len(input') = last
      /\ input'[last] = <<"head", r>> /\ r.length \in Nat
      /\ \A i \in 1..Len(input) : input'[i] = input[i]
  BY UnitKinds
<1>2. IsHead(input'[last]) /\ Size(input'[last]) = r.length
  BY <1>1, UnitKinds
<1>3. \A i \in 1..Len(input) : IsHead(input[i]) => i + Size(input[i]) <= Len(input)
  <2> SUFFICES ASSUME NEW i \in 1..Len(input), IsHead(input[i])
               PROVE  i + Size(input[i]) <= Len(input)
    OBVIOUS
  <2>1. Bodies(i) /\ Size(input[i]) \in Nat /\ i > left
    BY <1>1, UnitKinds DEF Whole, BodyFirst
  <2>2. PICK k \in 1..Len(input) : IsHead(input[k]) /\ Len(input) = k + Size(input[k])
    BY <1>1, <2>1 DEF Complete
  <2>3. Bodies(k) /\ Size(input[k]) \in Nat
    BY <1>1, <2>2, UnitKinds DEF Whole
  <2>4. CASE i = k
    BY <2>2, <2>4
  <2>5. CASE i > k
    <3>1. i \in (k + 1)..Len(input) /\ i <= k + Size(input[k])
      BY <1>1, <2>2, <2>5
    <3>2. QED BY <2>3, <3>1 DEF Bodies
  <2>6. CASE i < k
    <3>1. k \in (i + 1)..Len(input)
      BY <1>1, <2>6
    <3>2. ~(k <= i + Size(input[i]))
      BY <2>1, <2>2, <3>1 DEF Bodies
    <3>3. QED BY <1>1, <2>1, <3>2
  <2>7. QED BY <1>1, <2>4, <2>5, <2>6
<1>4. left <= Len(input)
  <2>1. CASE left = Len(input)
    BY <2>1
  <2>2. CASE left # Len(input)
    <3>1. PICK k \in 1..Len(input) : IsHead(input[k])
      BY <1>1, <2>2 DEF Complete
    <3>2. QED BY <1>1, <3>1 DEF BodyFirst
  <2>3. QED BY <2>1, <2>2
<1>5. Numbers'
  BY <1>1
<1>6. BodyFirst'
  BY <1>1, <1>2, <1>4 DEF BodyFirst
<1>7. Whole'
  <2> SUFFICES ASSUME NEW i \in 1..Len(input'), IsHead(input'[i]) PROVE Bodies(i)'
    BY DEF Whole
  <2>1. CASE i = last
    BY <1>1, <1>2, <2>1 DEF Bodies
  <2>2. CASE i # last
    <3> DEFINE size == Size(input[i])
    <3>1. i \in 1..Len(input) /\ input'[i] = input[i] /\ Bodies(i) /\ size \in Nat
          /\ i + size <= Len(input)
      BY <1>1, <1>3, <2>2, UnitKinds DEF Whole
    <3> HIDE DEF size
    <3>2. ASSUME NEW j \in (i + 1)..Len(input'), j <= i + size PROVE ~IsHead(input'[j])
      <4>1. j \in (i + 1)..Len(input) /\ input'[j] = input[j]
        BY <1>1, <3>1, <3>2
      <4>2. QED BY <3>1, <3>2, <4>1 DEF Bodies, size
    <3>3. ASSUME i + size < Len(input') PROVE IsHead(input'[(i + size) + 1])
      <4>1. CASE i + size = Len(input)
        BY <1>1, <1>2, <4>1
      <4>2. CASE i + size < Len(input)
        <5>1. (i + size) + 1 \in 1..Len(input)
          BY <1>1, <3>1, <4>2
        <5>2. input'[(i + size) + 1] = input[(i + size) + 1]
          BY <1>1, <5>1
        <5>3. QED BY <3>1, <4>2, <5>2 DEF Bodies, size
      <4>3. QED BY <1>1, <3>1, <4>1, <4>2
    <3>4. QED BY <3>1, <3>2, <3>3 DEF Bodies, size
  <2>3. QED BY <2>1, <2>2
<1>8. Complete'
  BY <1>1, <1>2 DEF Complete
<1>9. QED BY <1>5, <1>6, <1>7, <1>8

(* The client sends a part of a body that is not complete. *)
LEMMA BodySent ==
  ASSUME Framed, ~gone, owed > 0, input' = Append(input, DataUnit),
         owed' = owed - 1, UNCHANGED <<left, gone, phase>>
  PROVE  Framed'
<1> USE DEF Framed, Numbers
<1> DEFINE last == Len(input) + 1
<1>1. /\ input' \in Seq(Unit) /\ Len(input) \in Nat /\ Len(input') = last
      /\ ~IsHead(input'[last])
      /\ \A i \in 1..Len(input) : input'[i] = input[i]
  BY UnitKinds
<1>2. \A i \in 1..Len(input) : IsHead(input[i]) =>
        Size(input[i]) \in Nat /\ i + Size(input[i]) # Len(input)
  <2> SUFFICES ASSUME NEW i \in 1..Len(input), IsHead(input[i])
               PROVE  Size(input[i]) \in Nat /\ i + Size(input[i]) # Len(input)
    OBVIOUS
  <2>1. Bodies(i) /\ Size(input[i]) \in Nat /\ i > left
    BY <1>1, UnitKinds DEF Whole, BodyFirst
  <2>2. PICK k \in 1..Len(input) :
          IsHead(input[k]) /\ Len(input) + owed = k + Size(input[k])
    BY <1>1, <2>1 DEF Complete
  <2>3. Bodies(k) /\ Size(input[k]) \in Nat
    BY <1>1, <2>2, UnitKinds DEF Whole
  <2>4. CASE i = k
    BY <1>1, <2>1, <2>2, <2>4
  <2>5. CASE i > k
    <3>1. i \in (k + 1)..Len(input) /\ i <= k + Size(input[k])
      BY <1>1, <2>2, <2>5
    <3>2. QED BY <2>3, <3>1 DEF Bodies
  <2>6. CASE i < k
    <3>1. k \in (i + 1)..Len(input)
      BY <1>1, <2>6
    <3>2. ~(k <= i + Size(input[i]))
      BY <2>1, <2>2, <3>1 DEF Bodies
    <3>3. QED BY <1>1, <2>1, <3>2
  <2>7. QED BY <1>1, <2>4, <2>5, <2>6
<1>3. left # Len(input)
  <2>1. CASE left = Len(input) + owed
    BY <1>1, <2>1
  <2>2. CASE left # Len(input) + owed
    <3>1. PICK k \in 1..Len(input) : IsHead(input[k])
      BY <1>1, <2>2 DEF Complete
    <3>2. QED BY <1>1, <3>1 DEF BodyFirst
  <2>3. QED BY <2>1, <2>2
<1>4. Numbers'
  BY <1>1
<1>5. BodyFirst'
  BY <1>1, <1>3 DEF BodyFirst
<1>6. Whole'
  <2> SUFFICES ASSUME NEW i \in 1..Len(input'), IsHead(input'[i]) PROVE Bodies(i)'
    BY DEF Whole
  <2> DEFINE size == Size(input[i])
  <2>1. i \in 1..Len(input) /\ input'[i] = input[i]
    BY <1>1
  <2>2. Bodies(i) /\ size \in Nat /\ i + size # Len(input)
    BY <1>2, <2>1 DEF Whole
  <2> HIDE DEF size
  <2>3. ASSUME NEW j \in (i + 1)..Len(input'), j <= i + size PROVE ~IsHead(input'[j])
    <3>1. CASE j = last
      BY <1>1, <3>1
    <3>2. CASE j # last
      <4>1. j \in (i + 1)..Len(input) /\ input'[j] = input[j]
        BY <1>1, <2>1, <2>3, <3>2
      <4>2. QED BY <2>2, <2>3, <4>1 DEF Bodies, size
    <3>3. QED BY <3>1, <3>2
  <2>4. ASSUME i + size < Len(input') PROVE IsHead(input'[(i + size) + 1])
    <3>1. i + size < Len(input) /\ (i + size) + 1 \in 1..Len(input)
      BY <1>1, <2>1, <2>2, <2>4
    <3>2. input'[(i + size) + 1] = input[(i + size) + 1]
      BY <1>1, <3>1
    <3>3. QED BY <2>2, <3>1, <3>2 DEF Bodies, size
  <2>5. QED BY <2>1, <2>2, <2>3, <2>4 DEF Bodies, size
<1>7. Complete'
  <2>1. Len(input') + owed' = Len(input) + owed
    BY <1>1
  <2>2. CASE left = Len(input) + owed
    BY <2>1, <2>2 DEF Complete
  <2>3. CASE left # Len(input) + owed
    <3>1. PICK k \in 1..Len(input) :
            IsHead(input[k]) /\ Len(input) + owed = k + Size(input[k])
      BY <2>3 DEF Complete
    <3>2. k \in 1..Len(input') /\ input'[k] = input[k]
      BY <1>1
    <3>3. QED BY <2>1, <3>1, <3>2 DEF Complete
  <2>4. QED BY <2>2, <2>3
<1>8. QED BY <1>4, <1>5, <1>6, <1>7

(* What a step reads of the input is a head if a head is due, else body. *)
AsDue ==
  LET read == SubSeq(input, 1, Len(input) - Len(input')) IN
  \A i \in DOMAIN read : (read[i][1] = "head") <=> (phase = "header")

LEMMA NothingRead ==
  ASSUME input \in Seq(Unit), input' \in Seq(Unit), Len(input') >= Len(input)
  PROVE  AsDue
<1>1. Len(input) \in Nat /\ Len(input') \in Nat
  OBVIOUS
<1>2. DOMAIN SubSeq(input, 1, Len(input) - Len(input')) = {}
  BY <1>1
<1>3. QED BY <1>2 DEF AsDue

LEMMA UnitsRead ==
  ASSUME input \in Seq(Unit), NEW n \in Nat, n <= Len(input),
         input' = SubSeq(input, n + 1, Len(input)),
         \A i \in 1..n : IsHead(input[i]) <=> (phase = "header")
  PROVE  AsDue
<1>1. Len(input) \in Nat /\ Len(input') = Len(input) - n
  BY Rest
<1>2. Len(input) - Len(input') = n
  BY <1>1
<1>3. /\ DOMAIN SubSeq(input, 1, n) = 1..n
      /\ \A i \in 1..n : SubSeq(input, 1, n)[i] = input[i]
  BY <1>1
<1>4. QED BY <1>2, <1>3 DEF AsDue, IsHead

(* Steps that leave the input and what is due of it alone. *)
LEMMA Aside ==
  ASSUME Framed, UNCHANGED <<input, left, owed, gone>>,
         phase' \in {"header", "raw"} => left = 0
  PROVE  Framed' /\ AsDue
<1>1. Numbers'
  BY DEF Framed, Numbers
<1>2. BodyFirst' /\ Whole' /\ Complete'
  BY DEF Framed, BodyFirst, Whole, Bodies, Complete
<1>3. AsDue
  BY NothingRead DEF Framed, Numbers
<1>4. QED BY <1>1, <1>2, <1>3 DEF Framed

(* The end of the stream ends the body that is due. *)
LEMMA CutOff ==
  ASSUME Framed, AtEof, left' = 0, UNCHANGED <<owed, gone>>
  PROVE  Framed' /\ AsDue
<1>1. input' = <<>> /\ gone' /\ Len(<<>>) = 0
  BY DEF AtEof
<1>2. Numbers'
  BY <1>1 DEF Framed, Numbers
<1>3. BodyFirst' /\ Whole' /\ Complete'
  BY <1>1 DEF BodyFirst, Whole, Complete
<1>4. AsDue
  BY NothingRead DEF Framed, Numbers, AtEof
<1>5. QED BY <1>2, <1>3, <1>4 DEF Framed

(* A read of the stream that is cut to what is due. *)
LEMMA Taken ==
  ASSUME Framed, NEW n, NEW asked \in Nat, asked <= left, Read(n, asked),
         left' = left - n, UNCHANGED <<owed, gone>>, phase # "header",
         phase' \in {"header", "raw"} => left' = 0
  PROVE  Framed' /\ AsDue
<1>1. n \in Nat /\ n <= left /\ n <= Len(input)
  BY DEF Read, Lesser, Framed, Numbers
<1>2. input' = SubSeq(input, n + 1, Len(input))
  BY DEF Read
<1>3. Framed' /\ \A i \in 1..n : ~IsHead(input[i])
  BY <1>1, <1>2, BodyRead
<1>4. AsDue
  BY <1>1, <1>2, <1>3, UnitsRead DEF Framed, Numbers
<1>5. QED BY <1>3, <1>4

LEMMA Step ==
  ASSUME Framed, [Next]_vars
  PROVE  Framed' /\ AsDue
<1>1. CASE UNCHANGED vars
  BY <1>1, Aside DEF vars, client, reader, Framed, Numbers
<1>2. ASSUME NEW r \in Requests, SendRequest(r) PROVE Framed' /\ AsDue
  <2>1. Framed'
    BY <1>2, HeadSent DEF SendRequest, reader
  <2>2. Len(input') >= Len(input)
    BY <1>2 DEF SendRequest, Framed, Numbers
  <2>3. QED BY <2>1, <2>2, NothingRead DEF Framed, Numbers
<1>3. CASE HangUp
  <2>1. Numbers' /\ BodyFirst' /\ Whole'
    BY <1>3 DEF HangUp, reader, Framed, Numbers, BodyFirst, Whole, Bodies
  <2>2. Complete'
    BY <1>3 DEF HangUp, Complete
  <2>3. AsDue
    BY <1>3, NothingRead DEF HangUp, Framed, Numbers
  <2>4. QED BY <2>1, <2>2, <2>3 DEF Framed
<1>4. CASE SendBody
  <2>1. Framed'
    BY <1>4, BodySent DEF SendBody, reader
  <2>2. Len(input') >= Len(input)
    BY <1>4 DEF SendBody, Framed, Numbers
  <2>3. QED BY <2>1, <2>2, NothingRead DEF Framed, Numbers
<1>5. CASE ReadResponse
  BY <1>5, Aside DEF ReadResponse, reader, Framed, Numbers
<1>6. CASE ReadHeader
  <2>1. left = 0 /\ input # <<>> /\ input' = Tail(input) /\ phase = "header"
    BY <1>6 DEF ReadHeader, Framed, Numbers
  <2>2. IsHead(input[1]) /\ input[1] \in Unit /\ Len(input) \in Nat /\ Len(input) >= 1
    BY <2>1 DEF Framed, Numbers, BodyFirst
  <2>3. /\ left' = Size(input[1]) /\ UNCHANGED <<owed, gone>>
        /\ phase' \notin {"header", "raw"}
    BY <1>6, <2>2 DEF ReadHeader, client, IsHead, Size
  <2>4. Framed'
    BY <2>1, <2>3, HeadRead
  <2>5. input' = SubSeq(input, 1 + 1, Len(input))
    BY <2>1, <2>2 DEF Framed, Numbers
  <2>6. AsDue
    BY <2>1, <2>2, <2>5, UnitsRead DEF Framed, Numbers
  <2>7. QED BY <2>4, <2>6
<1>7. CASE ReadEof
  BY <1>7, Aside DEF ReadEof, client, reader
<1>8. CASE Fill
  <2>1. ASSUME NEW n \in 1..left, Read(n, left), left' = left - n,
               phase' = IF left' = 0 THEN "held" ELSE "filling"
        PROVE  Framed' /\ AsDue
    BY <1>8, <2>1, Taken DEF Fill, client, Framed, Numbers
  <2>2. CASE AtEof /\ phase' = "closed" /\ UNCHANGED left
    BY <1>8, <2>2, Aside DEF Fill, AtEof, client
  <2>3. QED BY <1>8, <2>1, <2>2 DEF Fill
<1>9. CASE Drain
  <2>1. ASSUME NEW n \in 1..left, Read(n, left), left' = left - n
        PROVE  Framed' /\ AsDue
    BY <1>9, <2>1, Taken DEF Drain, Draining, client, Framed, Numbers
  <2>2. CASE AtEof /\ left' = 0
    BY <1>9, <2>2, CutOff DEF Drain, client
  <2>3. QED BY <1>9, <2>1, <2>2 DEF Drain
<1>10. CASE Drained
  BY <1>10, Aside DEF Drained, client, reader
<1>11. CASE AsReader
  BY <1>11, Aside DEF AsReader, client
<1>12. ASSUME NEW size \in 1..MaxRead, ReadBuffer(size) PROVE Framed' /\ AsDue
  BY <1>12, Aside DEF ReadBuffer, Reading, client
<1>13. ASSUME NEW size \in 1..MaxRead, ReadStream(size) PROVE Framed' /\ AsDue
  <2>1. PICK n \in 1..size : Read(n, Asked(size)) /\ left' = Shrink(size, n)
    BY <1>13 DEF ReadStream
  <2>2. Asked(size) \in Nat /\ Asked(size) <= left
    BY DEF Asked, Lesser, Framed, Numbers
  <2>3. /\ left' = left - n /\ UNCHANGED <<owed, gone>>
        /\ phase = "held" /\ phase' = "held"
    BY <1>13, <2>1 DEF ReadStream, Reading, Shrink, client
  <2>4. QED BY <2>1, <2>2, <2>3, Taken
<1>14. CASE ReadEnds
  <2>1. CASE left = 0 /\ UNCHANGED input
    BY <1>14, <2>1, Aside DEF ReadEnds, Reading, client
  <2>2. CASE AtEof
    BY <1>14, <2>2, CutOff DEF ReadEnds, client
  <2>3. QED BY <1>14, <2>1, <2>2 DEF ReadEnds
<1>15. CASE ReadIntoNothing
  BY <1>15, Aside DEF ReadIntoNothing, client
<1>16. ASSUME NEW status \in Statuses, NEW body \in 0..MaxBody, Respond(status, body)
       PROVE  Framed' /\ AsDue
  BY <1>16, Aside DEF Respond, client
<1>17. CASE Drop
  BY <1>17, Aside DEF Drop, client, reader
<1>18. CASE IntoWriter
  BY <1>18, Aside DEF IntoWriter, client
<1>19. CASE WriteByHand
  BY <1>19, Aside DEF WriteByHand, client, reader
<1>20. QED
  BY <1>1, <1>2, <1>3, <1>4, <1>5, <1>6, <1>7, <1>8, <1>9, <1>10, <1>11, <1>12,
     <1>13, <1>14, <1>15, <1>16, <1>17, <1>18, <1>19
     DEF Next, Client, Server, User

LEMMA FramedInit == Init => Framed
<1> SUFFICES ASSUME Init PROVE Framed
  OBVIOUS
<1>1. /\ input = <<>> /\ Len(input) = 0 /\ left = 0 /\ owed = 0 /\ gone = FALSE
      /\ Len(input) + owed = 0
  BY DEF Init
<1>2. Numbers
  <2>1. input \in Seq(Unit) /\ left \in Nat /\ owed \in Nat
    BY <1>1
  <2>2. gone \in BOOLEAN
    BY <1>1
  <2>3. QED BY <1>1, <2>1, <2>2 DEF Numbers
<1>3. BodyFirst /\ Whole /\ Complete
  BY <1>1 DEF BodyFirst, Whole, Complete
<1>4. QED BY <1>2, <1>3 DEF Framed

(* On one connection, for all requests and all sizes: a step that reads the stream
   takes a head where a head is due and nothing but body where the body is due. *)
THEOREM FramingCorrect == Spec => FramingKept
<1>1. Init => Framed
  BY FramedInit
<1>2. Framed /\ [Next]_vars => Framed'
  BY Step
<1>3. Framed /\ [Next]_vars => [AsDue]_input
  BY Step
<1>4. [][AsDue]_input <=> FramingKept
  BY DEF AsDue, FramingKept
<1>5. QED BY <1>1, <1>2, <1>3, <1>4, PTL DEF Spec
-----------------------------------------------------------------------------
(* How far the user got in the body of the request. A body in the stream is what
   was read and what is left of it; the rest is given up at the end of the stream
   (ReadEnds) or by a read into an empty buffer. *)
Progress ==
  /\ rq \in Requests => got <= rq.length
  /\ phase = "filling" => InBuffer /\ ended = "open"
  /\ phase = "skipping" => ~InBuffer /\ ended = "empty" /\ got + left <= rq.length
  /\ phase = "held" /\ ~InBuffer =>
       /\ got + left <= rq.length
       /\ ended = "open" => got + left = rq.length \/ gone
       /\ ended = "eof" => left = 0

ProgressInv ==
  /\ got \in Nat
  /\ phase \notin {"header", "closed"} => rq \in Requests
  /\ Progress /\ EofMeansEnd

LEMMA LengthIsNatural == \A r \in Requests : r.length \in Nat
BY UnitKinds

LEMMA PartOfSum ==
  \A a, b, c, d, length \in Nat : a + b = c + d /\ c + d <= length => a <= length
OBVIOUS

(* Steps that read nothing for the user and leave the request alone. *)
LEMMA ProgressAside ==
  ASSUME ProgressInv, UNCHANGED <<rq, got, left, ended>>, gone => gone',
         phase' \notin {"filling", "held", "skipping"} \/ phase' = phase,
         phase' \in {"header", "closed"} \/ phase \notin {"header", "closed"}
  PROVE  ProgressInv'
BY DEF ProgressInv, Progress, EofMeansEnd, InBuffer

(* A head is read: nothing of the body of this request is read yet. *)
LEMMA ProgressHeader ==
  ASSUME Framed, ProgressInv, ReadHeader
  PROVE  ProgressInv'
<1>1. /\ input # <<>> /\ input[1] \in Unit /\ input[1][1] = "head"
  BY DEF ReadHeader, Framed, Numbers, BodyFirst, IsHead
<1>2. input[1][2] \in Requests /\ input[1][2].length \in Nat
  BY <1>1, UnitKinds DEF IsHead, Size
<1>3. /\ rq' = input[1][2] /\ got' = 0 /\ left' = rq'.length /\ ended' = "open"
      /\ phase' = IF rq'.length > 0 /\ IsBuffered(rq') THEN "filling" ELSE "held"
  BY <1>1 DEF ReadHeader
<1>4. /\ got' = 0 /\ left' = rq'.length /\ rq' \in Requests /\ rq'.length \in Nat
      /\ ended' = "open" /\ got' + left' = rq'.length
  BY <1>2, <1>3
<1>5. phase' = IF InBuffer' THEN "filling" ELSE "held"
  BY <1>3 DEF InBuffer
<1>6. Progress'
  BY <1>4, <1>5 DEF Progress
<1>7. QED BY <1>4, <1>5, <1>6 DEF ProgressInv, EofMeansEnd

(* The buffer is filled with the whole body, or the connection is closed. *)
LEMMA ProgressFill ==
  ASSUME ProgressInv, Fill
  PROVE  ProgressInv'
<1>1. /\ phase = "filling" /\ phase' \in {"filling", "held", "closed"}
      /\ UNCHANGED <<rq, got, ended, gone>>
  BY DEF Fill, client
<1>2. InBuffer' /\ ended' = "open"
  BY <1>1 DEF ProgressInv, Progress, InBuffer
<1>3. QED BY <1>1, <1>2 DEF ProgressInv, Progress, EofMeansEnd

(* What is drained of a body is lost to the user, who knows that. *)
LEMMA ProgressDrain ==
  ASSUME Framed, ProgressInv, Drain
  PROVE  ProgressInv'
<1>1. /\ phase \in Draining /\ UNCHANGED <<phase, rq, got, ended, gone>>
  BY DEF Drain, client
<1>2. left' \in Nat /\ left' <= left /\ left \in Nat
  BY DEF Drain, Framed, Numbers
<1>3. phase = "skipping" => got + left' <= rq.length
  BY <1>1, <1>2, LengthIsNatural DEF ProgressInv, Progress
<1>4. QED BY <1>1, <1>3 DEF ProgressInv, Progress, EofMeansEnd, InBuffer, Draining

LEMMA ProgressBuffer ==
  ASSUME ProgressInv, NEW size \in 1..MaxRead, ReadBuffer(size)
  PROVE  ProgressInv'
<1>1. /\ phase = "held" /\ phase' = phase /\ rq' = rq /\ gone' = gone /\ InBuffer
      /\ rq \in Requests /\ rq.length \in Nat /\ got \in Nat /\ got <= rq.length
      /\ size \in Nat /\ size >= 1
  BY LengthIsNatural DEF ReadBuffer, Reading, client, ProgressInv, Progress
<1>2. /\ got' = got + Lesser(size, rq.length - got)
      /\ ended' = IF got' = got THEN "eof" ELSE ended
  BY DEF ReadBuffer
<1>3. /\ got' \in Nat /\ got' <= rq.length
      /\ got' = got <=> got = rq.length
  BY <1>1, <1>2 DEF Lesser
<1>4. InBuffer'
  BY <1>1 DEF InBuffer
<1>5. ended' = "eof" => got' = rq.length \/ gone
  <2>1. CASE got' = got
    BY <1>3, <2>1
  <2>2. CASE got' # got
    BY <1>1, <1>2, <1>3, <2>2 DEF ProgressInv, EofMeansEnd
  <2>3. QED BY <2>1, <2>2
<1>6. QED BY <1>1, <1>3, <1>4, <1>5 DEF ProgressInv, Progress, EofMeansEnd

LEMMA ProgressStream ==
  ASSUME Framed, ProgressInv, NEW size \in 1..MaxRead, ReadStream(size)
  PROVE  ProgressInv'
<1>1. /\ phase = "held" /\ phase' = phase /\ rq' = rq /\ gone' = gone /\ ~InBuffer
      /\ rq \in Requests /\ rq.length \in Nat /\ got \in Nat
      /\ left \in Nat /\ left > 0 /\ ended' = ended
  BY LengthIsNatural
     DEF ReadStream, Reading, client, ProgressInv, Progress, Framed, Numbers
<1>2. PICK n \in 1..size : Read(n, Asked(size)) /\ left' = left - n /\ got' = got + n
  BY DEF ReadStream, Shrink
<1>3. n \in Nat /\ n <= left
  BY <1>1, <1>2 DEF Read, Asked, Lesser, Framed, Numbers
<1>4. got' \in Nat /\ got' + left' = got + left /\ left' \in Nat
  BY <1>1, <1>2, <1>3
<1>5. got + left <= rq.length /\ ended # "eof"
  BY <1>1 DEF ProgressInv, Progress
<1>6. got' <= rq.length
  BY <1>1, <1>4, <1>5, PartOfSum
<1>7. ~InBuffer'
  BY <1>1 DEF InBuffer
<1>8. QED BY <1>1, <1>4, <1>5, <1>6, <1>7 DEF ProgressInv, Progress, EofMeansEnd

(* A read returns 0 when nothing of the body is left or the client hung up. *)
LEMMA ProgressEnds ==
  ASSUME Framed, ProgressInv, ReadEnds
  PROVE  ProgressInv'
<1>1. /\ phase = "held" /\ phase' = phase /\ rq' = rq /\ gone' = gone /\ ~InBuffer
      /\ rq \in Requests /\ rq.length \in Nat /\ got \in Nat /\ left \in Nat
      /\ got' = got /\ left' = 0 /\ (left = 0 \/ gone)
      /\ ended' = IF ended = "open" THEN "eof" ELSE ended
  BY LengthIsNatural
     DEF ReadEnds, Reading, AtEof, client, ProgressInv, Progress, Framed, Numbers
<1>2. got <= rq.length /\ (ended = "open" => got + left = rq.length \/ gone)
  BY <1>1 DEF ProgressInv, Progress
<1>3. ended' = "eof" => got = rq.length \/ gone
  BY <1>1, <1>2 DEF ProgressInv, EofMeansEnd
<1>4. ~InBuffer'
  BY <1>1 DEF InBuffer
<1>5. ended' # "open"
  BY <1>1
<1>6. QED BY <1>1, <1>2, <1>3, <1>4, <1>5 DEF ProgressInv, Progress, EofMeansEnd

LEMMA ProgressNothing ==
  ASSUME ProgressInv, ReadIntoNothing
  PROVE  ProgressInv'
BY DEF ReadIntoNothing, Reading, client, ProgressInv, Progress, EofMeansEnd, InBuffer

LEMMA ProgressDrained ==
  ASSUME Framed, ProgressInv, Drained
  PROVE  ProgressInv'
<1>1. UNCHANGED <<rq, got, left, ended, gone>> /\ phase \in Draining
  BY DEF Drained, reader, client
<1>2. CASE phase = "skipping"
  <2>1. phase' = "held" /\ ~InBuffer' /\ ended' = "empty"
    BY <1>1, <1>2 DEF Drained, ProgressInv, Progress, InBuffer
  <2>2. QED BY <1>1, <1>2, <2>1 DEF ProgressInv, Progress, EofMeansEnd
<1>3. CASE phase # "skipping"
  <2>1. phase' \in {"raw", "closed", "header"} /\ phase \notin {"header", "closed"}
    BY <1>1, <1>3 DEF Drained, Draining
  <2>2. QED BY <1>1, <2>1, ProgressAside
<1>4. QED BY <1>2, <1>3

LEMMA ProgressStep == Framed /\ ProgressInv /\ [Next]_vars => ProgressInv'
<1> SUFFICES ASSUME Framed, ProgressInv, [Next]_vars PROVE ProgressInv'
  OBVIOUS
<1> USE DEF client, reader
<1>1. CASE UNCHANGED vars
  BY <1>1, ProgressAside DEF vars, ProgressInv
<1>2. ASSUME NEW r \in Requests, SendRequest(r) PROVE ProgressInv'
  BY <1>2, ProgressAside DEF SendRequest
<1>3. CASE HangUp \/ SendBody \/ ReadResponse
  BY <1>3, ProgressAside DEF HangUp, SendBody, ReadResponse
<1>4. CASE ReadHeader
  BY <1>4, ProgressHeader
<1>5. CASE ReadEof
  BY <1>5, ProgressAside DEF ReadEof
<1>6. CASE Fill
  BY <1>6, ProgressFill
<1>7. CASE Drain \/ Drained
  BY <1>7, ProgressDrain, ProgressDrained
<1>8. CASE AsReader
  BY <1>8, ProgressAside DEF AsReader
<1>9. ASSUME NEW size \in 1..MaxRead, ReadBuffer(size) \/ ReadStream(size)
      PROVE  ProgressInv'
  BY <1>9, ProgressBuffer, ProgressStream
<1>10. CASE ReadEnds \/ ReadIntoNothing
  BY <1>10, ProgressEnds, ProgressNothing
<1>11. ASSUME NEW status \in Statuses, NEW body \in 0..MaxBody, Respond(status, body)
       PROVE  ProgressInv'
  BY <1>11, ProgressAside DEF Respond
<1>12. CASE Drop
  BY <1>12, ProgressAside DEF Drop
<1>13. CASE IntoWriter \/ WriteByHand
  BY <1>13, ProgressAside DEF IntoWriter, WriteByHand
<1>14. QED
  BY <1>1, <1>2, <1>3, <1>4, <1>5, <1>6, <1>7, <1>8, <1>9, <1>10, <1>11, <1>12, <1>13
     DEF Next, Client, Server, User

LEMMA Framing == Spec => [](Framed /\ ProgressInv)
<1>1. Init => Framed /\ ProgressInv
  <2> SUFFICES ASSUME Init PROVE ProgressInv
    BY FramedInit
  <2>1. got = 0 /\ phase = "header" /\ ended = "open"
    BY DEF Init
  <2>2. QED BY <2>1, LengthIsNatural DEF ProgressInv, Progress, EofMeansEnd
<1>2. Framed /\ ProgressInv /\ [Next]_vars => (Framed /\ ProgressInv)'
  BY Step, ProgressStep
<1>3. QED BY <1>1, <1>2, PTL DEF Spec

(* For any buffer sizes and however the bytes of the stream arrive: if the reads
   end, the user has read the whole body, unless the client hung up or the user
   itself gave the rest up by a read into an empty buffer. *)
THEOREM NoEarlyEof == Spec => []EofMeansEnd
<1>1. ProgressInv => EofMeansEnd
  BY DEF ProgressInv
<1>2. QED BY <1>1, Framing, PTL

(* However a user reads, it never gets more than the body of its request. *)
THEOREM NothingBeyondBody == Spec => [](rq \in Requests => got <= rq.length)
<1>1. ProgressInv => (rq \in Requests => got <= rq.length)
  BY DEF ProgressInv, Progress
<1>2. QED BY <1>1, Framing, PTL
=============================================================================
