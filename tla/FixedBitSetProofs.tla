-------------------------- MODULE FixedBitSetProofs --------------------------
(***************************************************************************)
(* FixedBitSet for every width of words and blocks, any bound on the       *)
(* length and any number of sets. First that no set holds a bit at or      *)
(* behind its length: a set is well formed, and bit p of word w is set     *)
(* only if w * W + p is below the length. Then, from that, what the        *)
(* operations and the queries return, and the order in which the iterators *)
(* return the elements.                                                    *)
(***************************************************************************)
EXTENDS FixedBitSet, FiniteSetTheorems, TLAPS

(* Every bit that is set lies below the length. *)
Clean(s) == \A w \in DOMAIN s.data : \A p \in s.data[w] : w * W + p < s.length

Good(s) == IsBitSet(s) /\ Clean(s)

Inv == /\ DOMAIN set = Names
       /\ \A x \in Names : Good(set[x])
-----------------------------------------------------------------------------
(* Division with a rest (div_rem). *)
LEMMA DivMod ==
  ASSUME NEW n \in Nat, NEW d \in Nat \ {0}
  PROVE  /\ n \div d \in Nat
         /\ n % d \in 0..(d - 1)
         /\ n = d * (n \div d) + (n % d)
  BY SMT

(* A smaller quotient leaves room for a whole block. *)
LEMMA BlockStep ==
  ASSUME NEW a \in Nat, NEW b \in Nat, NEW d \in Nat, a < b
  PROVE  /\ d * a + d <= d * b
         /\ a * d + d <= d * b
  <1>1. PICK c \in Nat : b = a + 1 + c
    BY SMT
  <1>2. d * (a + 1 + c) = d * a + d + d * c
    BY SMT
  <1>3. d * c \in Nat
    BY SMT
  <1> QED BY <1>1, <1>2, <1>3, SMT

(* The blocks cover the bits, and none of them is superfluous. *)
LEMMA BlocksBound ==
  ASSUME NEW n \in Nat, NEW d \in Nat \ {0}
  PROVE  /\ BlocksFor(n, d) \in Nat
         /\ n <= d * BlocksFor(n, d)
         /\ d * BlocksFor(n, d) < n + d
  <1> DEFINE q == n \div d
             r == n % d
  <1>1. q \in Nat /\ r \in 0..(d - 1) /\ n = d * q + r
    BY DivMod
  <1>2. d * q \in Nat /\ d * (q + 1) = d * q + d
    BY <1>1, SMT
  <1>3. BlocksFor(n, d) = q + (IF r > 0 THEN 1 ELSE 0)
    BY DEF BlocksFor
  <1> HIDE DEF q, r
  <1>4. CASE r > 0
    BY <1>1, <1>2, <1>3, <1>4, SMT
  <1>5. CASE r = 0
    BY <1>1, <1>2, <1>3, <1>5, SMT
  <1> QED BY <1>1, <1>4, <1>5, SMT

(* A longer set has at least the words of a shorter one. *)
LEMMA BlocksMonotone ==
  ASSUME NEW m \in Nat, NEW n \in Nat, NEW d \in Nat \ {0}, m <= n
  PROVE  BlocksFor(m, d) <= BlocksFor(n, d)
  <1>1. BlocksFor(m, d) \in Nat /\ d * BlocksFor(m, d) < m + d
    BY BlocksBound
  <1>2. BlocksFor(n, d) \in Nat /\ n <= d * BlocksFor(n, d)
    BY BlocksBound
  <1>3. SUFFICES ASSUME BlocksFor(n, d) < BlocksFor(m, d) PROVE FALSE
    BY <1>1, <1>2, SMT
  <1>4. d * BlocksFor(n, d) + d <= d * BlocksFor(m, d)
    BY <1>1, <1>2, <1>3, BlockStep, SMT
  <1>5. d * BlocksFor(n, d) \in Nat /\ d * BlocksFor(m, d) \in Nat
    BY <1>1, <1>2, SMT
  <1> QED BY <1>1, <1>2, <1>4, <1>5, SMT

LEMMA WordsType ==
  ASSUME NEW length \in Nat
  PROVE  /\ SimdBlockLen(length) \in Nat
         /\ K * SimdBlockLen(length) \in Nat
         /\ length <= W * (K * SimdBlockLen(length))
         /\ Words(length) \subseteq Nat
  <1>1. K * W \in Nat \ {0}
    BY WidthAssumption, SMT
  <1> DEFINE b == SimdBlockLen(length)
  <1>2. b \in Nat /\ length <= (K * W) * b
    BY <1>1, BlocksBound DEF SimdBlockLen
  <1> HIDE DEF b
  <1>3. (K * W) * b = W * (K * b) /\ K * b \in Nat
    BY <1>2, WidthAssumption, SMT
  <1> QED BY <1>2, <1>3, SMT DEF b, Words

LEMMA WordsMonotone ==
  ASSUME NEW m \in Nat, NEW n \in Nat, m <= n
  PROVE  Words(m) \subseteq Words(n)
  <1>1. K * W \in Nat \ {0}
    BY WidthAssumption, SMT
  <1> DEFINE a == SimdBlockLen(m)
             b == SimdBlockLen(n)
  <1>2. a \in Nat /\ b \in Nat /\ a <= b
    BY <1>1, BlocksMonotone, WordsType DEF SimdBlockLen
  <1> HIDE DEF a, b
  <1>3. K * a <= K * b /\ K * a \in Nat /\ K * b \in Nat
    <2>1. CASE a = b
      BY <1>2, <2>1, WidthAssumption, SMT
    <2>2. CASE a < b
      BY <1>2, <2>2, BlockStep, WidthAssumption, SMT
    <2> QED BY <1>2, <2>1, <2>2, SMT
  <1> QED BY <1>3, SMT DEF a, b, Words
-----------------------------------------------------------------------------
(* A position below the length is in a word the set owns, and it is the
   position its word and its place in the word stand for. *)
LEMMA BitInWords ==
  ASSUME NEW length \in Nat, NEW bit \in Nat, bit < length
  PROVE  /\ bit \div W \in Words(length)
         /\ bit % W \in Bits
         /\ (bit \div W) * W + (bit % W) = bit
  <1> DEFINE q == bit \div W
             r == bit % W
             n == K * SimdBlockLen(length)
  <1>1. q \in Nat /\ r \in 0..(W - 1) /\ bit = W * q + r
    BY DivMod, WidthAssumption
  <1>2. n \in Nat /\ length <= W * n
    BY WordsType
  <1> HIDE DEF q, r, n
  <1>3. q * W = W * q /\ W * q \in Nat /\ W * n \in Nat
    BY <1>1, <1>2, WidthAssumption, SMT
  <1>4. q < n
    <2>1. SUFFICES ASSUME n <= q PROVE FALSE
      BY <1>1, <1>2, SMT
    <2>2. W * n <= W * q
      <3>1. CASE n = q
        BY <1>3, <3>1, SMT
      <3>2. CASE n < q
        BY <1>1, <1>2, <1>3, <3>2, BlockStep, WidthAssumption, SMT
      <3> QED BY <1>1, <1>2, <2>1, <3>1, <3>2, SMT
    <2> QED BY <1>1, <1>2, <1>3, <2>2, SMT
  <1>5. q \in 0..(n - 1)
    BY <1>1, <1>2, <1>4, SMT
  <1>6. bit \div W \in Words(length)
    BY <1>5 DEF q, n, Words
  <1>7. bit % W \in Bits
    BY <1>1 DEF r, Bits
  <1>8. q * W + r = bit
    BY <1>1, <1>3, WidthAssumption, SMT
  <1> QED BY <1>6, <1>7, <1>8 DEF q, r

(* What a set is, from its type. *)
LEMMA GoodElim ==
  ASSUME NEW s, Good(s)
  PROVE  /\ s = [length |-> s.length, data |-> s.data]
         /\ s.length \in Nat /\ s.length \in 0..MaxLen
         /\ s.data \in [Words(s.length) -> SUBSET Bits]
         /\ Words(s.length) \subseteq Nat
         /\ \A w \in Words(s.length) : \A p \in s.data[w] :
              p \in Nat /\ w * W + p < s.length
  <1>1. s \in [length : {s.length}, data : [Words(s.length) -> SUBSET Bits]]
    BY DEF Good, IsBitSet, BitSets
  <1>2. s.length \in 0..MaxLen /\ s.length \in Nat
    BY WidthAssumption, SMT DEF Good, IsBitSet
  <1>3. Words(s.length) \subseteq Nat
    BY <1>2, WordsType
  <1>4. DOMAIN s.data = Words(s.length) /\ s.data \in [Words(s.length) -> SUBSET Bits]
    BY <1>1
  <1>5. Bits \subseteq Nat
    BY WidthAssumption, SMT DEF Bits
  <1> QED BY <1>1, <1>2, <1>3, <1>4, <1>5 DEF Good, Clean

LEMMA GoodIntro ==
  ASSUME NEW length \in 0..MaxLen, NEW f \in [Words(length) -> SUBSET Bits],
         \A w \in Words(length) : \A p \in f[w] : w * W + p < length
  PROVE  Good([length |-> length, data |-> f])
  BY DEF Good, Clean, IsBitSet, BitSets

LEMMA NewData ==
  ASSUME NEW s, Good(s), NEW f \in [Words(s.length) -> SUBSET Bits],
         \A w \in Words(s.length) : \A p \in f[w] : w * W + p < s.length
  PROVE  Good([s EXCEPT !.data = f])
  <1>1. [s EXCEPT !.data = f] = [length |-> s.length, data |-> f]
    BY GoodElim
  <1> QED BY <1>1, GoodElim, GoodIntro
-----------------------------------------------------------------------------
LEMMA WithCapacityGood ==
  ASSUME NEW bits \in 0..MaxLen
  PROVE  Good(WithCapacity(bits))
  BY GoodIntro DEF WithCapacity

(* A set that does not become shorter keeps its bits below its length. *)
LEMMA GrowInnerGood ==
  ASSUME NEW s, Good(s), NEW bits \in 0..MaxLen, s.length <= bits
  PROVE  Good(GrowInner(s, bits)) /\ GrowInner(s, bits).length = bits
  <1> DEFINE f == [w \in Words(bits) |-> WordAt(s, w)]
  <1>1. s.length \in Nat /\ bits \in Nat
    BY GoodElim, WidthAssumption, SMT
  <1>2. Words(s.length) \subseteq Words(bits) /\ Words(bits) \subseteq Nat
    BY <1>1, WordsMonotone, WordsType
  <1>3. \A w \in Words(bits) : f[w] = IF w \in Words(s.length) THEN s.data[w] ELSE {}
    BY GoodElim DEF WordAt
  <1>4. f \in [Words(bits) -> SUBSET Bits]
    BY <1>3, GoodElim
  <1>5. ASSUME NEW w \in Words(bits), NEW q \in f[w] PROVE w * W + q < bits
    <2>1. w \in Words(s.length) /\ q \in s.data[w]
      BY <1>3, <1>5
    <2>2. q \in Nat /\ w * W + q < s.length /\ w \in Nat
      BY <2>1, GoodElim
    <2>3. w * W \in Nat
      BY <2>2, WidthAssumption, SMT
    <2> QED BY <1>1, <2>2, <2>3, SMT
  <1> QED BY <1>4, <1>5, GoodIntro DEF GrowInner

LEMMA GrowGood ==
  ASSUME NEW s, Good(s), NEW bits \in 0..MaxLen
  PROVE  /\ Good(Grow(s, bits))
         /\ Grow(s, bits).length = IF bits > s.length THEN bits ELSE s.length
  <1>1. CASE bits > s.length
    BY <1>1, GoodElim, GrowInnerGood, WidthAssumption, SMT DEF Grow
  <1>2. CASE ~(bits > s.length)
    BY <1>2 DEF Grow
  <1> QED BY <1>1, <1>2

(* A word keeps its bits or gets the bit that is assigned. *)
LEMMA AssignGood ==
  ASSUME NEW s, Good(s), NEW bit \in Nat, bit < s.length,
         NEW word \in SUBSET (WordOf(s, bit) \cup {bit % W})
  PROVE  Good(Assign(s, bit, word)) /\ Assign(s, bit, word).length = s.length
  <1> DEFINE b == bit \div W
             f == [s.data EXCEPT ![b] = word]
  <1>1. b \in Words(s.length) /\ bit % W \in Bits /\ b * W + (bit % W) = bit
    BY GoodElim, BitInWords
  <1>2. Assign(s, bit, word) = [s EXCEPT !.data = f]
    BY GoodElim DEF Assign
  <1>3. word \subseteq Bits
    BY <1>1, GoodElim DEF WordOf
  <1>4. f \in [Words(s.length) -> SUBSET Bits]
    BY <1>1, <1>3, GoodElim
  <1>5. ASSUME NEW w \in Words(s.length), NEW p \in f[w] PROVE w * W + p < s.length
    <2>1. CASE w # b
      BY <2>1, <1>5, GoodElim
    <2>2. CASE w = b
      <3>1. p \in word
        BY <1>1, <1>5, <2>2, GoodElim
      <3>2. CASE p = bit % W
        BY <1>1, <2>2, <3>2
      <3>3. CASE p \in s.data[w]
        BY <3>3, GoodElim
      <3> QED BY <2>2, <3>1, <3>2, <3>3 DEF WordOf
    <2> QED BY <2>1, <2>2
  <1> HIDE DEF f
  <1>6. Good([s EXCEPT !.data = f])
    BY <1>4, <1>5, NewData
  <1> QED BY <1>2, <1>6, GoodElim

(* insert and put; remove; toggle; set and copy_bit. *)
LEMMA BitOperationsGood ==
  ASSUME NEW s, Good(s), NEW bit \in Nat, bit < s.length
  PROVE  /\ Good(Insert(s, bit))
         /\ Good(Toggle(s, bit))
         /\ \A enabled \in BOOLEAN : Good(Set(s, bit, enabled))
         /\ \A from \in Nat : Good(CopyBit(s, from, bit))
  <1>1. Good(Insert(s, bit))
    BY AssignGood DEF Insert
  <1>2. Good(Remove(s, bit))
    BY AssignGood DEF Remove
  <1>3. Good(Toggle(s, bit))
    BY AssignGood DEF Toggle, SymDiff
  <1>4. \A enabled \in BOOLEAN : Good(Set(s, bit, enabled))
    BY <1>1, <1>2 DEF Set
  <1>5. \A from \in Nat : Good(CopyBit(s, from, bit))
    BY <1>1, <1>2 DEF CopyBit, Set
  <1> QED BY <1>1, <1>3, <1>4, <1>5

LEMMA GrowingGood ==
  ASSUME NEW s, Good(s), NEW bit \in Nat, bit < MaxLen
  PROVE  Good(GrowAndInsert(s, bit)) /\ Good(Extend(s, bit))
  <1>1. bit + 1 \in 0..MaxLen /\ s.length \in Nat
    BY GoodElim, WidthAssumption, SMT
  <1>2. Good(Grow(s, bit + 1)) /\ bit < Grow(s, bit + 1).length
    BY <1>1, GrowGood, SMT
  <1>3. Good(GrowAndInsert(s, bit))
    BY <1>2, BitOperationsGood DEF GrowAndInsert
  <1>4. CASE bit >= s.length
    BY <1>2, <1>3, <1>4, BitOperationsGood DEF Extend
  <1>5. CASE ~(bit >= s.length)
    <2>1. bit < s.length
      BY <1>1, <1>5, SMT
    <2> QED BY <1>3, <1>5, <2>1, BitOperationsGood DEF Extend
  <1> QED BY <1>3, <1>4, <1>5
-----------------------------------------------------------------------------
LEMMA ClearGood ==
  ASSUME NEW s, Good(s)
  PROVE  Good(Clear(s))
  <1> DEFINE f == [w \in DOMAIN s.data |-> {}]
  <1>1. f \in [Words(s.length) -> SUBSET Bits]
    BY GoodElim
  <1>2. Good([s EXCEPT !.data = f])
    BY <1>1, GoodElim, NewData
  <1> QED BY <1>2 DEF Clear

(* What as_slice shows are words the set owns. *)
LEMMA SliceInWords ==
  ASSUME NEW length \in Nat
  PROVE  UsizeLen(length) \in Nat /\ 0..(UsizeLen(length) - 1) \subseteq Words(length)
  <1> DEFINE u == UsizeLen(length)
             n == K * SimdBlockLen(length)
  <1>1. u \in Nat /\ W * u < length + W
    BY BlocksBound, WidthAssumption DEF UsizeLen
  <1>2. n \in Nat /\ length <= W * n
    BY WordsType
  <1> HIDE DEF u, n
  <1>3. W * u \in Nat /\ W * n \in Nat
    BY <1>1, <1>2, WidthAssumption, SMT
  <1>4. u <= n
    <2>1. SUFFICES ASSUME n < u PROVE FALSE
      BY <1>1, <1>2, SMT
    <2>2. W * n + W <= W * u
      BY <1>1, <1>2, <2>1, BlockStep, WidthAssumption, SMT
    <2> QED BY <1>1, <1>2, <1>3, <2>2, WidthAssumption, SMT
  <1>5. 0..(u - 1) \subseteq 0..(n - 1)
    BY <1>1, <1>2, <1>4, SMT
  <1> QED BY <1>1, <1>5 DEF u, n, Words

(* The words of with_capacity_and_blocks are words of the set they come from;
   the caller sees to it that they hold nothing behind the new length. *)
LEMMA WithBlocksGood ==
  ASSUME NEW s, Good(s), NEW n \in 0..MaxLen, Members(s) \subseteq 0..(n - 1)
  PROVE  Good(WithBlocks(n, [i \in 1..UsizeLen(s.length) |-> s.data[i - 1]]))
  <1> DEFINE u == UsizeLen(s.length)
             blocks == [i \in 1..u |-> s.data[i - 1]]
             f == [w \in Words(n) |->
                     IF w < UsizeLen(n) /\ w < Len(blocks) THEN blocks[w + 1] ELSE {}]
  <1>1. /\ n \in Nat /\ Words(n) \subseteq Nat /\ u \in Nat
        /\ 0..(u - 1) \subseteq Words(s.length)
    BY GoodElim, WordsType, SliceInWords, WidthAssumption, SMT
  <1> HIDE DEF u
  <1>2. Len(blocks) = u
    BY <1>1, SMT
  <1>3. ASSUME NEW w \in Words(n)
        PROVE  f[w] = {} \/ (w \in Words(s.length) /\ f[w] = s.data[w])
    <2>1. CASE w < UsizeLen(n) /\ w < u
      <3>1. w \in Nat /\ w + 1 \in 1..u /\ w \in 0..(u - 1) /\ (w + 1) - 1 = w
        BY <1>1, <2>1, SMT
      <3>2. blocks[w + 1] = s.data[w]
        BY <3>1
      <3> QED BY <1>1, <1>2, <2>1, <3>1, <3>2
    <2>2. CASE ~(w < UsizeLen(n) /\ w < u)
      BY <1>2, <2>2
    <2> QED BY <2>1, <2>2
  <1>4. f \in [Words(n) -> SUBSET Bits]
    <2>1. \A w \in Words(n) : f[w] \in SUBSET Bits
      BY <1>3, GoodElim
    <2> QED BY <2>1
  <1>5. ASSUME NEW w \in Words(n), NEW p \in f[w] PROVE w * W + p < n
    <2>1. w \in Words(s.length) /\ p \in s.data[w]
      BY <1>3, <1>5
    <2>2. w * W + p \in Members(s)
      BY <2>1, GoodElim DEF Members
    <2> QED BY <1>1, <2>2, SMT
  <1>6. Good(WithCapacity(n)) /\ WithCapacity(n).length = n
    BY WithCapacityGood DEF WithCapacity
  <1>7. WithBlocks(n, blocks) = [WithCapacity(n) EXCEPT !.data = f]
    BY DEF WithBlocks
  <1> HIDE DEF f, blocks
  <1>8. Good(WithBlocks(n, blocks))
    BY <1>4, <1>5, <1>6, <1>7, NewData
  <1> QED BY <1>8 DEF blocks, u
-----------------------------------------------------------------------------
(* The mask of a word has only bits below the end of the range. *)
LEMMA MaskBelowEnd ==
  ASSUME NEW start \in Nat, NEW end \in Nat, NEW w \in Nat, NEW p \in MaskAt(start, end, w)
  PROVE  p \in Bits /\ w * W + p < end
  <1> DEFINE q == end \div W
             r == end % W
  <1>1. q \in Nat /\ r \in 0..(W - 1) /\ end = W * q + r
    BY DivMod, WidthAssumption
  <1>2. p \in Bits /\ w <= q /\ (w = q => p < r)
    BY DEF MaskAt
  <1>3. p \in Nat /\ p < W
    BY <1>2, WidthAssumption, SMT DEF Bits
  <1> HIDE DEF q, r
  <1>4. w * W \in Nat /\ q * W = W * q /\ q * W \in Nat
    BY <1>1, WidthAssumption, SMT
  <1>5. CASE w = q
    BY <1>1, <1>2, <1>3, <1>4, <1>5, WidthAssumption, SMT
  <1>6. CASE w < q
    <2>1. w * W + W <= q * W
      BY <1>1, <1>6, BlockStep, WidthAssumption, SMT
    <2> QED BY <1>1, <1>2, <1>3, <1>4, <2>1, WidthAssumption, SMT
  <1> QED BY <1>1, <1>2, <1>5, <1>6, SMT

(* Words that gain at most the bits of a mask. *)
LEMMA MaskedGood ==
  ASSUME NEW s, Good(s), NEW r \in Ranges(s), NEW f,
         f \in [DOMAIN s.data -> SUBSET Bits],
         \A w \in DOMAIN s.data : f[w] \subseteq s.data[w] \cup MaskAt(r[1], r[2], w)
  PROVE  Good([s EXCEPT !.data = f])
  <1>1. r[1] \in Nat /\ r[2] \in Nat /\ r[2] <= s.length /\ s.length \in Nat
    BY GoodElim, SMT DEF Ranges
  <1>2. f \in [Words(s.length) -> SUBSET Bits]
    BY GoodElim
  <1>3. ASSUME NEW w \in Words(s.length), NEW p \in f[w] PROVE w * W + p < s.length
    <2>1. w \in Nat /\ DOMAIN s.data = Words(s.length)
      BY GoodElim
    <2>2. CASE p \in s.data[w]
      BY <2>2, GoodElim
    <2>3. CASE p \in MaskAt(r[1], r[2], w)
      <3>1. p \in Bits /\ w * W + p < r[2]
        BY <1>1, <2>1, <2>3, MaskBelowEnd
      <3>2. p \in Nat /\ w * W \in Nat
        BY <2>1, <3>1, WidthAssumption, SMT DEF Bits
      <3> QED BY <1>1, <3>1, <3>2, SMT
    <2> QED BY <1>3, <2>1, <2>2, <2>3
  <1> QED BY <1>2, <1>3, NewData

(* insert_range, remove_range, set_range and toggle_range. *)
LEMMA RangeOperationsGood ==
  ASSUME NEW s, Good(s), NEW r \in Ranges(s)
  PROVE  /\ \A enabled \in BOOLEAN : Good(SetRange(s, r, enabled))
         /\ Good(ToggleRange(s, r))
  <1> DEFINE M(w) == MaskAt(r[1], r[2], w)
             B == MaskBlocks(r[1], r[2])
             ins == [w \in DOMAIN s.data |-> IF w \in B THEN s.data[w] \cup M(w) ELSE s.data[w]]
             rem == [w \in DOMAIN s.data |-> IF w \in B THEN s.data[w] \ M(w) ELSE s.data[w]]
             tog == [w \in DOMAIN s.data |-> IF w \in B THEN SymDiff(s.data[w], M(w)) ELSE s.data[w]]
  <1>1. \A w \in DOMAIN s.data : s.data[w] \subseteq Bits /\ M(w) \subseteq Bits
    BY GoodElim DEF MaskAt
  <1>2. Good([s EXCEPT !.data = ins])
    <2>1. ins \in [DOMAIN s.data -> SUBSET Bits]
      BY <1>1
    <2>2. \A w \in DOMAIN s.data : ins[w] \subseteq s.data[w] \cup M(w)
      OBVIOUS
    <2> HIDE DEF ins
    <2> QED BY <2>1, <2>2, MaskedGood
  <1>3. Good([s EXCEPT !.data = rem])
    <2>1. rem \in [DOMAIN s.data -> SUBSET Bits]
      BY <1>1
    <2>2. \A w \in DOMAIN s.data : rem[w] \subseteq s.data[w] \cup M(w)
      OBVIOUS
    <2> HIDE DEF rem
    <2> QED BY <2>1, <2>2, MaskedGood
  <1>4. Good([s EXCEPT !.data = tog])
    <2>1. tog \in [DOMAIN s.data -> SUBSET Bits]
      BY <1>1 DEF SymDiff
    <2>2. \A w \in DOMAIN s.data : tog[w] \subseteq s.data[w] \cup M(w)
      BY DEF SymDiff
    <2> HIDE DEF tog
    <2> QED BY <2>1, <2>2, MaskedGood
  <1>5. InsertRange(s, r) = [s EXCEPT !.data = ins]
    BY DEF InsertRange, OnRange
  <1>6. RemoveRange(s, r) = [s EXCEPT !.data = rem]
    BY DEF RemoveRange, OnRange
  <1>7. ToggleRange(s, r) = [s EXCEPT !.data = tog]
    BY DEF ToggleRange, OnRange
  <1> HIDE DEF ins, rem, tog
  <1> QED BY <1>2, <1>3, <1>4, <1>5, <1>6, <1>7 DEF SetRange
-----------------------------------------------------------------------------
(* Words that gain at most the bits of another set that is not longer. *)
LEMMA MergedGood ==
  ASSUME NEW s, Good(s), NEW o, Good(o), o.length <= s.length, NEW f,
         f \in [DOMAIN s.data -> SUBSET Bits],
         \A w \in DOMAIN s.data :
           f[w] \subseteq s.data[w] \cup (IF w \in DOMAIN o.data THEN o.data[w] ELSE {})
  PROVE  Good([s EXCEPT !.data = f])
  <1>1. f \in [Words(s.length) -> SUBSET Bits] /\ s.length \in Nat /\ o.length \in Nat
    BY GoodElim
  <1>2. ASSUME NEW w \in Words(s.length), NEW p \in f[w] PROVE w * W + p < s.length
    <2>1. w \in Nat /\ w \in DOMAIN s.data
      BY GoodElim
    <2>2. CASE p \in s.data[w]
      BY <2>2, GoodElim
    <2>3. CASE w \in DOMAIN o.data /\ p \in o.data[w]
      <3>1. p \in Nat /\ w * W + p < o.length
        BY <2>3, GoodElim
      <3>2. w * W \in Nat
        BY <2>1, WidthAssumption, SMT
      <3> QED BY <1>1, <3>1, <3>2, SMT
    <2> QED BY <1>2, <2>1, <2>2, <2>3
  <1> QED BY <1>1, <1>2, NewData

(* Words that lose bits. *)
LEMMA ReducedGood ==
  ASSUME NEW s, Good(s), NEW f,
         f \in [DOMAIN s.data -> SUBSET Bits],
         \A w \in DOMAIN s.data : f[w] \subseteq s.data[w]
  PROVE  Good([s EXCEPT !.data = f])
  <1>1. s.length <= s.length
    BY GoodElim, SMT
  <1>2. \A w \in DOMAIN s.data :
          f[w] \subseteq s.data[w] \cup (IF w \in DOMAIN s.data THEN s.data[w] ELSE {})
    OBVIOUS
  <1> QED BY <1>1, <1>2, MergedGood

(* The zipped operations on words that stay within the two words, when the
   set that is assigned is at least as long as the other. *)
LEMMA ZipGood ==
  ASSUME NEW s, Good(s), NEW o, Good(o), o.length <= s.length
  PROVE  /\ Good(Zip(s, o, LAMBDA x, y : x \cup y))
         /\ Good(Zip(s, o, LAMBDA x, y : SymDiff(x, y)))
  <1> DEFINE or  == [w \in DOMAIN s.data |->
                       IF w \in DOMAIN o.data THEN s.data[w] \cup o.data[w] ELSE s.data[w]]
             xor == [w \in DOMAIN s.data |->
                       IF w \in DOMAIN o.data THEN SymDiff(s.data[w], o.data[w]) ELSE s.data[w]]
  <1>1. /\ \A w \in DOMAIN s.data : s.data[w] \subseteq Bits
        /\ \A w \in DOMAIN o.data : o.data[w] \subseteq Bits
    BY GoodElim
  <1>2. Good([s EXCEPT !.data = or])
    <2>1. or \in [DOMAIN s.data -> SUBSET Bits]
      BY <1>1
    <2>2. \A w \in DOMAIN s.data :
            or[w] \subseteq s.data[w] \cup (IF w \in DOMAIN o.data THEN o.data[w] ELSE {})
      OBVIOUS
    <2> HIDE DEF or
    <2> QED BY <2>1, <2>2, MergedGood
  <1>3. Good([s EXCEPT !.data = xor])
    <2>1. xor \in [DOMAIN s.data -> SUBSET Bits]
      BY <1>1 DEF SymDiff
    <2>2. \A w \in DOMAIN s.data :
            xor[w] \subseteq s.data[w] \cup (IF w \in DOMAIN o.data THEN o.data[w] ELSE {})
      BY DEF SymDiff
    <2> HIDE DEF xor
    <2> QED BY <2>1, <2>2, MergedGood
  <1>4. Zip(s, o, LAMBDA x, y : x \cup y) = [s EXCEPT !.data = or]
    BY DEF Zip
  <1>5. Zip(s, o, LAMBDA x, y : SymDiff(x, y)) = [s EXCEPT !.data = xor]
    BY DEF Zip
  <1> HIDE DEF or, xor
  <1> QED BY <1>2, <1>3, <1>4, <1>5

LEMMA ZipReducedGood ==
  ASSUME NEW s, Good(s), NEW o, Good(o)
  PROVE  /\ Good(Zip(s, o, LAMBDA x, y : x \ y))
         /\ Good(Zip(s, o, LAMBDA x, y : x \cap y))
         /\ Good(IntersectWith(s, o))
  <1> DEFINE diff == [w \in DOMAIN s.data |->
                        IF w \in DOMAIN o.data THEN s.data[w] \ o.data[w] ELSE s.data[w]]
             and  == [w \in DOMAIN s.data |->
                        IF w \in DOMAIN o.data THEN s.data[w] \cap o.data[w] ELSE s.data[w]]
             cut  == [w \in DOMAIN s.data |-> s.data[w] \cap WordAt(o, w)]
  <1>1. \A w \in DOMAIN s.data : s.data[w] \subseteq Bits
    BY GoodElim
  <1>2. Good([s EXCEPT !.data = diff])
    <2>1. diff \in [DOMAIN s.data -> SUBSET Bits] /\ \A w \in DOMAIN s.data : diff[w] \subseteq s.data[w]
      BY <1>1
    <2> HIDE DEF diff
    <2> QED BY <2>1, ReducedGood
  <1>3. Good([s EXCEPT !.data = and])
    <2>1. and \in [DOMAIN s.data -> SUBSET Bits] /\ \A w \in DOMAIN s.data : and[w] \subseteq s.data[w]
      BY <1>1
    <2> HIDE DEF and
    <2> QED BY <2>1, ReducedGood
  <1>4. Good([s EXCEPT !.data = cut])
    <2>1. cut \in [DOMAIN s.data -> SUBSET Bits] /\ \A w \in DOMAIN s.data : cut[w] \subseteq s.data[w]
      BY <1>1
    <2> HIDE DEF cut
    <2> QED BY <2>1, ReducedGood
  <1>5. Zip(s, o, LAMBDA x, y : x \ y) = [s EXCEPT !.data = diff]
    BY DEF Zip
  <1>6. Zip(s, o, LAMBDA x, y : x \cap y) = [s EXCEPT !.data = and]
    BY DEF Zip
  <1>7. IntersectWith(s, o) = [s EXCEPT !.data = cut]
    BY DEF IntersectWith
  <1> HIDE DEF diff, and, cut
  <1> QED BY <1>2, <1>3, <1>4, <1>5, <1>6, <1>7

(* What union_with and symmetric_difference_with assign is long enough. *)
LEMMA GrowToGood ==
  ASSUME NEW s, Good(s), NEW o, Good(o)
  PROVE  Good(GrowTo(s, o)) /\ o.length <= GrowTo(s, o).length
  <1>1. s.length \in Nat /\ o.length \in Nat /\ o.length \in 0..MaxLen
    BY GoodElim
  <1>2. CASE o.length >= s.length
    <2>1. GrowTo(s, o) = Grow(s, o.length)
      BY <1>2 DEF GrowTo
    <2>2. Good(Grow(s, o.length))
      BY <1>1, GrowGood
    <2>3. o.length <= Grow(s, o.length).length
      BY <1>1, <1>2, GrowGood, SMT
    <2> QED BY <2>1, <2>2, <2>3
  <1>3. CASE ~(o.length >= s.length)
    BY <1>1, <1>3, SMT DEF GrowTo
  <1> QED BY <1>2, <1>3

(* What clone_from leaves is the other set's words. *)
LEMMA CloneFromGood ==
  ASSUME NEW s, Good(s), NEW o, Good(o)
  PROVE  Good(CloneFrom(s, o))
  <1> DEFINE me == IF s.length < o.length THEN GrowInner(s, o.length) ELSE s
             copied == [w \in DOMAIN me.data |-> WordAt(o, w)]
             f == [w \in Words(o.length) |-> copied[w]]
  <1>1. s.length \in Nat /\ o.length \in Nat /\ o.length \in 0..MaxLen
    BY GoodElim
  <1>2. Good(me) /\ o.length <= me.length
    <2>1. CASE s.length < o.length
      BY <1>1, <2>1, GrowInnerGood, SMT
    <2>2. CASE ~(s.length < o.length)
      BY <1>1, <2>2, SMT
    <2> QED BY <2>1, <2>2
  <1> HIDE DEF me
  <1>3. DOMAIN me.data = Words(me.length) /\ me.length \in Nat
    BY <1>2, GoodElim
  <1>4. Words(o.length) \subseteq DOMAIN me.data
    BY <1>1, <1>2, <1>3, WordsMonotone
  <1>5. \A w \in Words(o.length) : f[w] = o.data[w]
    BY <1>4, GoodElim DEF WordAt
  <1>6. f \in [Words(o.length) -> SUBSET Bits]
    <2>1. \A w \in Words(o.length) : f[w] \in SUBSET Bits
      BY <1>5, GoodElim
    <2> QED BY <2>1
  <1>7. \A w \in Words(o.length) : \A p \in f[w] : w * W + p < o.length
    BY <1>5, GoodElim
  <1>8. CloneFrom(s, o) = [length |-> o.length, data |-> f]
    BY DEF CloneFrom, me
  <1> HIDE DEF f
  <1> QED BY <1>1, <1>6, <1>7, <1>8, GoodIntro

LEMMA CombiningGood ==
  ASSUME NEW s, Good(s), NEW o, Good(o)
  PROVE  /\ Good(UnionWith(s, o)) /\ Good(IntersectWith(s, o)) /\ Good(DifferenceWith(s, o))
         /\ Good(SymmetricDifferenceWith(s, o))
         /\ Good(BitAnd(s, o)) /\ Good(BitOr(s, o)) /\ Good(BitXor(s, o))
         /\ Good(CloneFrom(s, o))
  <1>1. Good(UnionWith(s, o)) /\ Good(SymmetricDifferenceWith(s, o))
    BY GrowToGood, ZipGood DEF UnionWith, SymmetricDifferenceWith
  <1>2. Good(IntersectWith(s, o)) /\ Good(DifferenceWith(s, o))
    BY ZipReducedGood DEF DifferenceWith
  <1>3. Good(Longer(s, o)) /\ Good(Shorter(s, o)) /\ Shorter(s, o).length <= Longer(s, o).length
    <2>1. s.length \in Nat /\ o.length \in Nat
      BY GoodElim
    <2>2. CASE s.length <= o.length
      BY <2>1, <2>2 DEF Longer, Shorter
    <2>3. CASE ~(s.length <= o.length)
      BY <2>1, <2>3, SMT DEF Longer, Shorter
    <2> QED BY <2>2, <2>3
  <1>4. Good(BitAnd(s, o))
    BY <1>3, ZipReducedGood DEF BitAnd
  <1>5. Good(BitOr(s, o)) /\ Good(BitXor(s, o))
    BY <1>3, ZipGood DEF BitOr, BitXor
  <1> QED BY <1>1, <1>2, <1>4, <1>5, CloneFromGood
-----------------------------------------------------------------------------
(* One step of a caller that does not hand in surplus bits. *)
LEMMA BecomesInv ==
  ASSUME Inv, NEW x \in Names, NEW s, Good(s), Becomes(x, s)
  PROVE  Inv'
  <1>1. set' = [set EXCEPT ![x] = s]
    BY DEF Becomes
  <1>2. DOMAIN set' = Names
    BY <1>1 DEF Inv
  <1>3. ASSUME NEW y \in Names PROVE Good(set'[y])
    BY <1>1 DEF Inv
  <1>4. (\A y \in Names : Good(set[y]))' <=> \A y \in Names : Good(set'[y])
    BY DEF Good, IsBitSet, Clean, BitSets
  <1> QED BY <1>2, <1>3, <1>4 DEF Inv

LEMMA StepInv ==
  ASSUME SurplusBits = FALSE, Inv, [Next]_vars
  PROVE  Inv'
  <1>1. \A x \in Names : Good(set[x]) /\ set[x].length \in Nat
    BY GoodElim DEF Inv
  <1>2. ASSUME UNCHANGED set PROVE Inv'
    BY <1>2 DEF Inv, Good, IsBitSet, Clean, BitSets
  <1>3. ASSUME NEW x \in Names, Create(x) PROVE Inv'
    <2>1. PICK n \in 0..MaxLen : Becomes(x, WithCapacity(n)) \/ Becomes(x, Grow(set[x], n))
      BY <1>3 DEF Create
    <2>2. Good(WithCapacity(n)) /\ Good(Grow(set[x], n))
      BY <1>1, WithCapacityGood, GrowGood
    <2> QED BY <2>1, <2>2, BecomesInv
  <1>4. ASSUME NEW x \in Names, ChangeBit(x) PROVE Inv'
    <2>1. PICK bit \in 0..(MaxLen - 1) :
            \/ bit < set[x].length /\ \/ Becomes(x, Toggle(set[x], bit))
                                      \/ \E on \in BOOLEAN : Becomes(x, Set(set[x], bit, on))
                                      \/ \E from \in 0..MaxLen : Becomes(x, CopyBit(set[x], from, bit))
            \/ Becomes(x, GrowAndInsert(set[x], bit))
            \/ Becomes(x, Extend(set[x], bit))
      BY <1>4 DEF ChangeBit
    <2>2. bit \in Nat /\ bit < MaxLen /\ 0..MaxLen \subseteq Nat
      BY WidthAssumption, SMT
    <2>3. CASE bit < set[x].length /\ Becomes(x, Toggle(set[x], bit))
      BY <1>1, <2>2, <2>3, BitOperationsGood, BecomesInv
    <2>4. CASE bit < set[x].length /\ \E on \in BOOLEAN : Becomes(x, Set(set[x], bit, on))
      <3>1. PICK on \in BOOLEAN : Becomes(x, Set(set[x], bit, on))
        BY <2>4
      <3>2. Good(Set(set[x], bit, on))
        BY <1>1, <2>2, <2>4, BitOperationsGood
      <3> QED BY <3>1, <3>2, BecomesInv
    <2>5. CASE bit < set[x].length /\ \E from \in 0..MaxLen : Becomes(x, CopyBit(set[x], from, bit))
      <3>1. PICK from \in 0..MaxLen : Becomes(x, CopyBit(set[x], from, bit))
        BY <2>5
      <3>2. Good(CopyBit(set[x], from, bit))
        BY <1>1, <2>2, <2>5, BitOperationsGood
      <3> QED BY <3>1, <3>2, BecomesInv
    <2>6. CASE Becomes(x, GrowAndInsert(set[x], bit)) \/ Becomes(x, Extend(set[x], bit))
      BY <1>1, <2>2, <2>6, GrowingGood, BecomesInv
    <2> QED BY <2>1, <2>3, <2>4, <2>5, <2>6
  <1>5. ASSUME NEW x \in Names, ChangeRange(x) PROVE Inv'
    <2>1. PICK r \in Ranges(set[x]) :
            \/ \E on \in BOOLEAN : Becomes(x, SetRange(set[x], r, on))
            \/ Becomes(x, ToggleRange(set[x], r))
      BY <1>5 DEF ChangeRange
    <2>2. Good(ToggleRange(set[x], r)) /\ \A on \in BOOLEAN : Good(SetRange(set[x], r, on))
      BY <1>1, RangeOperationsGood
    <2> QED BY <2>1, <2>2, BecomesInv
  <1>6. ASSUME NEW x \in Names, Empty(x) PROVE Inv'
    BY <1>1, <1>6, ClearGood, BecomesInv DEF Empty
  <1>7. ASSUME NEW x \in Names, NEW y \in Names, Combine(x, y) PROVE Inv'
    <2>1. /\ Good(UnionWith(set[x], set[y])) /\ Good(IntersectWith(set[x], set[y]))
          /\ Good(DifferenceWith(set[x], set[y])) /\ Good(SymmetricDifferenceWith(set[x], set[y]))
          /\ Good(BitAnd(set[x], set[y])) /\ Good(BitOr(set[x], set[y]))
          /\ Good(BitXor(set[x], set[y])) /\ Good(CloneFrom(set[x], set[y]))
      BY <1>1, CombiningGood
    <2> QED BY <1>7, <2>1, BecomesInv DEF Combine
  <1>8. ASSUME NEW x \in Names, NEW y \in Names, CreateFrom(x, y) PROVE Inv'
    <2>1. PICK n \in 0..MaxLen :
            /\ SurplusBits \/ Members(set[y]) \subseteq 0..(n - 1)
            /\ Becomes(x, WithBlocks(n, [i \in 1..UsizeLen(set[y].length) |-> set[y].data[i - 1]]))
      BY <1>8 DEF CreateFrom
    <2>2. Good(WithBlocks(n, [i \in 1..UsizeLen(set[y].length) |-> set[y].data[i - 1]]))
      BY <1>1, <2>1, WithBlocksGood
    <2> QED BY <2>1, <2>2, BecomesInv
  <1>9. CASE \E x \in Names : Borrow(x)
    BY <1>2, <1>9 DEF Borrow
  <1>10. CASE TakeFront \/ TakeBack \/ Return
    BY <1>2, <1>10 DEF TakeFront, TakeBack, Return
  <1>11. CASE UNCHANGED vars
    BY <1>2, <1>11 DEF vars
  <1> QED BY <1>3, <1>4, <1>5, <1>6, <1>7, <1>8, <1>9, <1>10, <1>11 DEF Next

LEMMA InitInv ==
  ASSUME Init
  PROVE  Inv
  <1>1. 0 \in 0..MaxLen
    BY WidthAssumption, SMT
  <1>2. Good(WithCapacity(0))
    BY <1>1, WithCapacityGood
  <1> QED BY <1>2 DEF Init, Inv

LEMMA InvNoGhostBits ==
  ASSUME Inv
  PROVE  NoGhostBits
  <1>1. SUFFICES ASSUME NEW x \in Names, NEW m \in Members(set[x])
                 PROVE  m \in Universe(set[x])
    BY DEF NoGhostBits
  <1> DEFINE s == set[x]
  <1>2. Good(s)
    BY DEF Inv
  <1> HIDE DEF s
  <1>3. PICK w \in Words(s.length) : \E p \in s.data[w] : m = w * W + p
    BY <1>1, <1>2, GoodElim DEF Members, s
  <1>4. PICK p \in s.data[w] : m = w * W + p
    BY <1>3
  <1>5. w \in Nat /\ p \in Nat /\ m < s.length /\ s.length \in Nat
    BY <1>2, <1>4, GoodElim
  <1>6. w * W \in Nat
    BY <1>5, WidthAssumption, SMT
  <1>7. m \in 0..(s.length - 1)
    BY <1>4, <1>5, <1>6, SMT
  <1> QED BY <1>7 DEF Universe, s

(* No sequence of operations sets a bit at or behind the length of a set, as
   long as the blocks given to with_capacity_and_blocks have none. *)
THEOREM GhostFree ==
  ASSUME SurplusBits = FALSE
  PROVE  Spec => []NoGhostBits
  <1>1. Init => Inv
    BY InitInv
  <1>2. Inv /\ [Next]_vars => Inv'
    BY StepInv
  <1>3. Inv => NoGhostBits
    BY InvNoGhostBits
  <1> QED BY <1>1, <1>2, <1>3, PTL DEF Spec
-----------------------------------------------------------------------------
(* A set of numbers by its words: number w * W + p is in it if bit p of word w
   is set. What an operation does to every word is what it does to the numbers. *)
LEMMA SamePosition ==
  ASSUME NEW w \in Nat, NEW v \in Nat, NEW p \in Bits, NEW q \in Bits,
         w * W + p = v * W + q
  PROVE  w = v /\ p = q
  <1>1. p \in Nat /\ q \in Nat /\ p < W /\ q < W /\ W \in Nat
    BY WidthAssumption, SMT DEF Bits
  <1>2. w * W \in Nat /\ v * W \in Nat /\ W * v = v * W /\ W * w = w * W
    BY <1>1, SMT
  <1>3. ~(w < v)
    <2>1. SUFFICES ASSUME w < v PROVE FALSE
      OBVIOUS
    <2>2. w * W + W <= v * W
      BY <1>1, <1>2, <2>1, BlockStep
    <2> QED BY <1>1, <1>2, <2>2, SMT
  <1>4. ~(v < w)
    <2>1. SUFFICES ASSUME v < w PROVE FALSE
      OBVIOUS
    <2>2. v * W + W <= w * W
      BY <1>1, <1>2, <2>1, BlockStep
    <2> QED BY <1>1, <1>2, <2>2, SMT
  <1>5. w = v
    BY <1>3, <1>4, SMT
  <1> QED BY <1>1, <1>2, <1>5, SMT

LEMMA PositionOf ==
  ASSUME NEW m \in Nat
  PROVE  m \div W \in Nat /\ m % W \in Bits /\ (m \div W) * W + (m % W) = m
  <1> DEFINE q == m \div W
             r == m % W
  <1>1. q \in Nat /\ r \in 0..(W - 1) /\ m = W * q + r
    BY DivMod, WidthAssumption
  <1>2. r \in Bits
    BY <1>1 DEF Bits
  <1> HIDE DEF q, r
  <1>3. q * W = W * q
    BY <1>1, WidthAssumption, SMT
  <1>4. q * W + r = m
    BY <1>1, <1>3
  <1> QED BY <1>1, <1>2, <1>4 DEF q, r

LEMMA WordAtType ==
  ASSUME NEW s, Good(s), NEW w
  PROVE  /\ DOMAIN s.data = Words(s.length)
         /\ WordAt(s, w) \subseteq Bits
         /\ w \in Words(s.length) => WordAt(s, w) = s.data[w]
         /\ w \notin Words(s.length) => WordAt(s, w) = {}
  BY GoodElim DEF WordAt

LEMMA MemberIff ==
  ASSUME NEW s, Good(s), NEW w \in Nat, NEW p \in Bits
  PROVE  w * W + p \in Members(s) <=> p \in WordAt(s, w)
  <1>1. ASSUME p \in WordAt(s, w) PROVE w * W + p \in Members(s)
    <2>1. w \in DOMAIN s.data /\ p \in s.data[w]
      BY <1>1 DEF WordAt
    <2> QED BY <2>1 DEF Members
  <1>2. ASSUME w * W + p \in Members(s) PROVE p \in WordAt(s, w)
    <2>1. PICK v \in DOMAIN s.data : w * W + p \in {v * W + q : q \in s.data[v]}
      BY <1>2 DEF Members
    <2>2. PICK q \in s.data[v] : w * W + p = v * W + q
      BY <2>1
    <2>3. v \in Nat /\ q \in Bits
      BY GoodElim
    <2>4. w = v /\ p = q
      BY <2>2, <2>3, SamePosition
    <2> QED BY <2>1, <2>2, <2>4 DEF WordAt
  <1> QED BY <1>1, <1>2

LEMMA MembersBelow ==
  ASSUME NEW s, Good(s)
  PROVE  /\ Members(s) \subseteq Universe(s)
         /\ Members(s) \subseteq Nat
         /\ Universe(s) = 0..(s.length - 1)
  <1>1. SUFFICES ASSUME NEW m \in Members(s) PROVE m \in 0..(s.length - 1)
    BY GoodElim, SMT DEF Universe
  <1>2. PICK w \in DOMAIN s.data : m \in {w * W + q : q \in s.data[w]}
    BY <1>1 DEF Members
  <1>3. PICK q \in s.data[w] : m = w * W + q
    BY <1>2
  <1>4. w \in Nat /\ q \in Nat /\ w * W + q < s.length /\ s.length \in Nat
    BY GoodElim
  <1>5. w * W \in Nat
    BY <1>4, WidthAssumption, SMT
  <1> QED BY <1>3, <1>4, <1>5, SMT

(* A set stands for M if it does so word by word. *)
LEMMA DenotesIntro ==
  ASSUME NEW s, Good(s), NEW length, s.length = length, NEW M \in SUBSET Nat,
         \A w \in Nat : \A p \in Bits : p \in WordAt(s, w) <=> w * W + p \in M
  PROVE  Denotes(s, length, M)
  <1>1. \A m \in Nat : m \in Members(s) <=> m \in M
    <2>1. SUFFICES ASSUME NEW m \in Nat PROVE m \in Members(s) <=> m \in M
      OBVIOUS
    <2>2. PICK w \in Nat : \E p \in Bits : w * W + p = m
      BY PositionOf
    <2>3. PICK p \in Bits : w * W + p = m
      BY <2>2
    <2>4. m \in Members(s) <=> p \in WordAt(s, w)
      BY <2>3, MemberIff
    <2> QED BY <2>3, <2>4
  <1>2. Members(s) \subseteq Nat
    BY MembersBelow
  <1> QED BY <1>1, <1>2 DEF Denotes, Good
-----------------------------------------------------------------------------
(* The words of what the operations return. *)
LEMMA LongerHasWords ==
  ASSUME NEW s, Good(s), NEW o, Good(o), s.length <= o.length
  PROVE  Words(s.length) \subseteq Words(o.length)
  BY GoodElim, WordsMonotone

LEMMA ZipLengths ==
  ASSUME NEW s, Good(s), NEW o, Good(o)
  PROVE  /\ Zip(s, o, LAMBDA x, y : x \cup y).length = s.length
         /\ Zip(s, o, LAMBDA x, y : SymDiff(x, y)).length = s.length
         /\ Zip(s, o, LAMBDA x, y : x \ y).length = s.length
         /\ Zip(s, o, LAMBDA x, y : x \cap y).length = s.length
  <1>1. s = [length |-> s.length, data |-> s.data]
    BY GoodElim
  <1> QED BY <1>1 DEF Zip

(* The word of the other set that Zip meets, or leaves out. *)
LEMMA MeetWords ==
  ASSUME NEW s, Good(s), NEW o, Good(o), NEW w
  PROVE  /\ s = [length |-> s.length, data |-> s.data]
         /\ WordAt(s, w) = IF w \in DOMAIN s.data THEN s.data[w] ELSE {}
         /\ WordAt(o, w) = IF w \in DOMAIN o.data THEN o.data[w] ELSE {}
         /\ o.length <= s.length => DOMAIN o.data \subseteq DOMAIN s.data
         /\ s.length <= o.length => DOMAIN s.data \subseteq DOMAIN o.data
  <1>1. /\ s = [length |-> s.length, data |-> s.data]
        /\ DOMAIN s.data = Words(s.length) /\ DOMAIN o.data = Words(o.length)
    BY GoodElim
  <1> QED BY <1>1, LongerHasWords DEF WordAt

LEMMA UnionWords ==
  ASSUME NEW s, Good(s), NEW o, Good(o), o.length <= s.length, NEW w
  PROVE  WordAt(Zip(s, o, LAMBDA x, y : x \cup y), w) = WordAt(s, w) \cup WordAt(o, w)
  BY MeetWords DEF Zip, WordAt

LEMMA SymDiffWords ==
  ASSUME NEW s, Good(s), NEW o, Good(o), o.length <= s.length, NEW w
  PROVE  WordAt(Zip(s, o, LAMBDA x, y : SymDiff(x, y)), w) = SymDiff(WordAt(s, w), WordAt(o, w))
  BY MeetWords DEF Zip, WordAt, SymDiff

LEMMA DifferenceWords ==
  ASSUME NEW s, Good(s), NEW o, Good(o), NEW w
  PROVE  WordAt(DifferenceWith(s, o), w) = WordAt(s, w) \ WordAt(o, w)
  BY MeetWords DEF DifferenceWith, Zip, WordAt

LEMMA IntersectionWords ==
  ASSUME NEW s, Good(s), NEW o, Good(o), s.length <= o.length, NEW w
  PROVE  WordAt(Zip(s, o, LAMBDA x, y : x \cap y), w) = WordAt(s, w) \cap WordAt(o, w)
  BY MeetWords DEF Zip, WordAt

(* A set that grows keeps its words and gets empty ones. *)
LEMMA GrowInnerWords ==
  ASSUME NEW s, Good(s), NEW bits \in Nat, s.length <= bits, NEW w
  PROVE  WordAt(GrowInner(s, bits), w) = WordAt(s, w)
  <1>1. Words(s.length) \subseteq Words(bits) /\ DOMAIN s.data = Words(s.length)
    BY GoodElim, WordsMonotone
  <1> QED BY <1>1 DEF GrowInner, WordAt

LEMMA GrowToWords ==
  ASSUME NEW s, Good(s), NEW o, Good(o), NEW w
  PROVE  /\ WordAt(GrowTo(s, o), w) = WordAt(s, w)
         /\ GrowTo(s, o).length = IF o.length > s.length THEN o.length ELSE s.length
  <1>1. s.length \in Nat /\ o.length \in Nat
    BY GoodElim
  <1>2. CASE o.length > s.length
    <2>1. GrowTo(s, o) = GrowInner(s, o.length)
      BY <1>1, <1>2, SMT DEF GrowTo, Grow
    <2>2. GrowInner(s, o.length).length = o.length
      BY DEF GrowInner
    <2>3. s.length <= o.length
      BY <1>1, <1>2, SMT
    <2> QED BY <1>1, <1>2, <2>1, <2>2, <2>3, GrowInnerWords
  <1>3. CASE ~(o.length > s.length)
    BY <1>1, <1>3 DEF GrowTo, Grow
  <1> QED BY <1>2, <1>3

LEMMA CloneFromWords ==
  ASSUME NEW s, Good(s), NEW o, Good(o), NEW w
  PROVE  CloneFrom(s, o).length = o.length /\ WordAt(CloneFrom(s, o), w) = WordAt(o, w)
  <1> DEFINE me == IF s.length < o.length THEN GrowInner(s, o.length) ELSE s
  <1>1. s.length \in Nat /\ o.length \in Nat /\ DOMAIN o.data = Words(o.length)
        /\ DOMAIN s.data = Words(s.length)
    BY GoodElim
  <1>2. Words(o.length) \subseteq DOMAIN me.data
    <2>1. CASE s.length < o.length
      BY <2>1 DEF GrowInner
    <2>2. CASE ~(s.length < o.length)
      BY <1>1, <2>2, WordsMonotone
    <2> QED BY <2>1, <2>2
  <1> HIDE DEF me
  <1>3. CloneFrom(s, o) =
          [length |-> o.length,
           data |-> [v \in Words(o.length) |-> [u \in DOMAIN me.data |-> WordAt(o, u)][v]]]
    BY DEF CloneFrom, me
  <1>4. \A v \in Words(o.length) : [u \in DOMAIN me.data |-> WordAt(o, u)][v] = WordAt(o, v)
    BY <1>2
  <1> QED BY <1>1, <1>3, <1>4 DEF WordAt

LEMMA TwoNumbers ==
  ASSUME NEW a \in Nat, NEW b \in Nat
  PROVE  /\ Highest({a, b}) = IF b > a THEN b ELSE a
         /\ Lowest({a, b}) = IF a <= b THEN a ELSE b
  <1>1. Highest({a, b}) \in {a, b} /\ \A y \in {a, b} : Highest({a, b}) >= y
    <2>1. \E x \in {a, b} : \A y \in {a, b} : x >= y
      OBVIOUS
    <2> QED BY <2>1 DEF Highest
  <1>2. Lowest({a, b}) \in {a, b} /\ \A y \in {a, b} : Lowest({a, b}) <= y
    <2>1. \E x \in {a, b} : \A y \in {a, b} : x <= y
      OBVIOUS
    <2> QED BY <2>1 DEF Lowest
  <1> QED BY <1>1, <1>2, SMT

(* The set-theoretic results, from the words. *)
LEMMA AlgebraOfGood ==
  ASSUME NEW s, Good(s), NEW o, Good(o)
  PROVE  LET A == Members(s)  B == Members(o) IN
         /\ Denotes(UnionWith(s, o), Longest(s, o), A \cup B)
         /\ Denotes(IntersectWith(s, o), s.length, A \cap B)
         /\ Denotes(DifferenceWith(s, o), s.length, A \ B)
         /\ Denotes(SymmetricDifferenceWith(s, o), Longest(s, o), SymDiff(A, B))
         /\ Denotes(BitAnd(s, o), Shortest(s, o), A \cap B)
         /\ Denotes(BitOr(s, o), Longest(s, o), A \cup B)
         /\ Denotes(BitXor(s, o), Longest(s, o), SymDiff(A, B))
         /\ Denotes(CloneFrom(s, o), o.length, B)
  <1> DEFINE A == Members(s)
             B == Members(o)
  <1>1. /\ A \subseteq Nat /\ B \subseteq Nat /\ s.length \in Nat /\ o.length \in Nat
        /\ SymDiff(A, B) \subseteq Nat
    BY MembersBelow, GoodElim DEF SymDiff
  <1>2. \A w \in Nat, p \in Bits : /\ p \in WordAt(s, w) <=> w * W + p \in A
                                   /\ p \in WordAt(o, w) <=> w * W + p \in B
    BY MemberIff
  <1> HIDE DEF A, B
  <1>3. /\ Good(UnionWith(s, o)) /\ Good(IntersectWith(s, o)) /\ Good(DifferenceWith(s, o))
        /\ Good(SymmetricDifferenceWith(s, o))
        /\ Good(BitAnd(s, o)) /\ Good(BitOr(s, o)) /\ Good(BitXor(s, o))
        /\ Good(CloneFrom(s, o))
    BY CombiningGood
  <1>4. /\ Good(GrowTo(s, o)) /\ o.length <= GrowTo(s, o).length
        /\ GrowTo(s, o).length = Longest(s, o)
    <2>1. Longest(s, o) = IF o.length > s.length THEN o.length ELSE s.length
      BY <1>1, TwoNumbers DEF Longest
    <2> QED BY <2>1, GrowToGood, GrowToWords
  <1>5. /\ Good(Longer(s, o)) /\ Good(Shorter(s, o))
        /\ Longer(s, o).length = Longest(s, o) /\ Shorter(s, o).length = Shortest(s, o)
        /\ Shorter(s, o).length <= Longer(s, o).length
    <2>3. /\ Longest(s, o) = IF o.length > s.length THEN o.length ELSE s.length
          /\ Shortest(s, o) = IF s.length <= o.length THEN s.length ELSE o.length
      BY <1>1, TwoNumbers DEF Longest, Shortest
    <2>1. CASE s.length <= o.length
      <3>1. Longer(s, o) = o /\ Shorter(s, o) = s
        BY <2>1 DEF Longer, Shorter
      <3> QED BY <1>1, <2>1, <2>3, <3>1
    <2>2. CASE ~(s.length <= o.length)
      <3>1. Longer(s, o) = s /\ Shorter(s, o) = o
        BY <2>2 DEF Longer, Shorter
      <3> QED BY <1>1, <2>2, <2>3, <3>1
    <2> QED BY <2>1, <2>2
  <1>6. /\ \A w : WordAt(Longer(s, o), w) \cup WordAt(Shorter(s, o), w)
                    = WordAt(s, w) \cup WordAt(o, w)
        /\ \A w : SymDiff(WordAt(Longer(s, o), w), WordAt(Shorter(s, o), w))
                    = SymDiff(WordAt(s, w), WordAt(o, w))
        /\ \A w : WordAt(Shorter(s, o), w) \cap WordAt(Longer(s, o), w)
                    = WordAt(s, w) \cap WordAt(o, w)
    BY DEF Longer, Shorter, SymDiff
  <1>7. Denotes(UnionWith(s, o), Longest(s, o), A \cup B)
    <2>1. /\ UnionWith(s, o).length = Longest(s, o)
          /\ \A w : WordAt(UnionWith(s, o), w) = WordAt(s, w) \cup WordAt(o, w)
      <3>1. UnionWith(s, o).length = GrowTo(s, o).length
        BY <1>4, ZipLengths, Zenon DEF UnionWith
      <3>2. \A w : WordAt(UnionWith(s, o), w) = WordAt(GrowTo(s, o), w) \cup WordAt(o, w)
        BY <1>4, UnionWords DEF UnionWith
      <3> QED BY <1>4, <3>1, <3>2, GrowToWords
    <2> QED BY <1>1, <1>2, <1>3, <2>1, DenotesIntro
  <1>8. Denotes(SymmetricDifferenceWith(s, o), Longest(s, o), SymDiff(A, B))
    <2>1. /\ SymmetricDifferenceWith(s, o).length = Longest(s, o)
          /\ \A w : WordAt(SymmetricDifferenceWith(s, o), w)
                      = SymDiff(WordAt(s, w), WordAt(o, w))
      <3>1. SymmetricDifferenceWith(s, o).length = GrowTo(s, o).length
        BY <1>4, ZipLengths, Zenon DEF SymmetricDifferenceWith
      <3>2. \A w : WordAt(SymmetricDifferenceWith(s, o), w) = SymDiff(WordAt(GrowTo(s, o), w), WordAt(o, w))
        BY <1>4, SymDiffWords DEF SymmetricDifferenceWith
      <3> QED BY <1>4, <3>1, <3>2, GrowToWords
    <2>2. \A w \in Nat, p \in Bits : p \in WordAt(SymmetricDifferenceWith(s, o), w)
                                       <=> w * W + p \in SymDiff(A, B)
      BY <1>2, <2>1 DEF SymDiff
    <2> QED BY <1>1, <1>3, <2>1, <2>2, DenotesIntro
  <1>9. Denotes(IntersectWith(s, o), s.length, A \cap B)
    <2>1. /\ IntersectWith(s, o).length = s.length
          /\ \A w : WordAt(IntersectWith(s, o), w) = WordAt(s, w) \cap WordAt(o, w)
      BY GoodElim DEF IntersectWith, WordAt
    <2> QED BY <1>1, <1>2, <1>3, <2>1, DenotesIntro
  <1>10. Denotes(DifferenceWith(s, o), s.length, A \ B)
    <2>1. /\ DifferenceWith(s, o).length = s.length
          /\ \A w : WordAt(DifferenceWith(s, o), w) = WordAt(s, w) \ WordAt(o, w)
      <3>1. DifferenceWith(s, o).length = s.length
        BY <1>1, ZipLengths, Zenon DEF DifferenceWith
      <3>2. \A w : WordAt(DifferenceWith(s, o), w) = WordAt(s, w) \ WordAt(o, w)
        BY DifferenceWords
      <3> QED BY <3>1, <3>2
    <2> QED BY <1>1, <1>2, <1>3, <2>1, DenotesIntro
  <1>11. Denotes(BitAnd(s, o), Shortest(s, o), A \cap B)
    <2>1. /\ BitAnd(s, o).length = Shortest(s, o)
          /\ \A w : WordAt(BitAnd(s, o), w)
                      = WordAt(Shorter(s, o), w) \cap WordAt(Longer(s, o), w)
      <3>1. BitAnd(s, o).length = Shorter(s, o).length
        BY <1>5, ZipLengths, Zenon DEF BitAnd
      <3>2. \A w : WordAt(BitAnd(s, o), w) = WordAt(Shorter(s, o), w) \cap WordAt(Longer(s, o), w)
        BY <1>5, IntersectionWords DEF BitAnd
      <3> QED BY <1>5, <3>1, <3>2
    <2> QED BY <1>1, <1>2, <1>3, <1>6, <2>1, DenotesIntro
  <1>12. Denotes(BitOr(s, o), Longest(s, o), A \cup B)
    <2>1. /\ BitOr(s, o).length = Longest(s, o)
          /\ \A w : WordAt(BitOr(s, o), w)
                      = WordAt(Longer(s, o), w) \cup WordAt(Shorter(s, o), w)
      <3>1. BitOr(s, o).length = Longer(s, o).length
        BY <1>5, ZipLengths, Zenon DEF BitOr
      <3>2. \A w : WordAt(BitOr(s, o), w) = WordAt(Longer(s, o), w) \cup WordAt(Shorter(s, o), w)
        BY <1>5, UnionWords DEF BitOr
      <3> QED BY <1>5, <3>1, <3>2
    <2> QED BY <1>1, <1>2, <1>3, <1>6, <2>1, DenotesIntro
  <1>13. Denotes(BitXor(s, o), Longest(s, o), SymDiff(A, B))
    <2>1. /\ BitXor(s, o).length = Longest(s, o)
          /\ \A w : WordAt(BitXor(s, o), w)
                      = SymDiff(WordAt(Longer(s, o), w), WordAt(Shorter(s, o), w))
      <3>1. BitXor(s, o).length = Longer(s, o).length
        BY <1>5, ZipLengths, Zenon DEF BitXor
      <3>2. \A w : WordAt(BitXor(s, o), w) = SymDiff(WordAt(Longer(s, o), w), WordAt(Shorter(s, o), w))
        BY <1>5, SymDiffWords DEF BitXor
      <3> QED BY <1>5, <3>1, <3>2
    <2>2. \A w \in Nat, p \in Bits : p \in WordAt(BitXor(s, o), w)
                                       <=> w * W + p \in SymDiff(A, B)
      BY <1>2, <1>6, <2>1 DEF SymDiff
    <2> QED BY <1>1, <1>3, <2>1, <2>2, DenotesIntro
  <1>14. Denotes(CloneFrom(s, o), o.length, B)
    <2>1. /\ CloneFrom(s, o).length = o.length
          /\ \A w : WordAt(CloneFrom(s, o), w) = WordAt(o, w)
      BY CloneFromWords
    <2>2. Good(CloneFrom(s, o)) /\ B \in SUBSET Nat
      BY <1>1, <1>3
    <2>3. \A w \in Nat, p \in Bits : p \in WordAt(CloneFrom(s, o), w) <=> w * W + p \in B
      BY <1>2, <2>1
    <2> QED BY <2>1, <2>2, <2>3, DenotesIntro
  <1> QED BY <1>7, <1>8, <1>9, <1>10, <1>11, <1>12, <1>13, <1>14 DEF A, B
-----------------------------------------------------------------------------
(* A word that holds a position below the length is one of as_slice. *)
LEMMA BitInSlice ==
  ASSUME NEW length \in Nat, NEW w \in Nat, NEW p \in Bits, w * W + p < length
  PROVE  w \in 0..(UsizeLen(length) - 1) /\ w \in Words(length)
  <1> DEFINE u == UsizeLen(length)
  <1>1. u \in Nat /\ length <= W * u
    BY BlocksBound, WidthAssumption DEF UsizeLen
  <1>2. 0..(u - 1) \subseteq Words(length)
    BY SliceInWords
  <1> HIDE DEF u
  <1>3. p \in Nat /\ W \in Nat /\ w * W \in Nat /\ W * u \in Nat /\ W * w = w * W
    BY <1>1, WidthAssumption, SMT DEF Bits
  <1>4. w < u
    <2>1. SUFFICES ASSUME u <= w PROVE FALSE
      BY <1>1, SMT
    <2>2. CASE u = w
      BY <1>1, <1>3, <2>2, SMT
    <2>3. CASE u < w
      <3>1. W * u + W <= W * w
        BY <1>1, <1>3, <2>3, BlockStep
      <3> QED BY <1>1, <1>3, <3>1, SMT
    <2> QED BY <1>1, <2>1, <2>2, <2>3, SMT
  <1>5. w \in 0..(u - 1)
    BY <1>1, <1>4, SMT
  <1> QED BY <1>2, <1>5 DEF u

(* Positions are ordered like their words, and in a word like their places. *)
LEMMA Lexicographic ==
  ASSUME NEW n \in Nat, NEW w \in Nat, NEW p \in Bits
  PROVE  n <= w * W + p <=> n \div W < w \/ (n \div W = w /\ n % W <= p)
  <1> DEFINE q == n \div W
             r == n % W
  <1>1. q \in Nat /\ r \in Bits /\ q * W + r = n
    BY PositionOf
  <1> HIDE DEF q, r
  <1>2. /\ p \in Nat /\ r \in Nat /\ p < W /\ r < W /\ W \in Nat
        /\ w * W \in Nat /\ q * W \in Nat
    BY <1>1, WidthAssumption, SMT DEF Bits
  <1>3. CASE q < w
    <2>1. q * W + W <= w * W
      <3>1. W * w = w * W
        BY <1>2, SMT
      <3> QED BY <1>1, <1>2, <1>3, <3>1, BlockStep
    <2> QED BY <1>1, <1>2, <1>3, <2>1, SMT DEF q, r
  <1>4. CASE w < q
    <2>1. w * W + W <= q * W
      <3>1. W * q = q * W
        BY <1>1, <1>2, SMT
      <3> QED BY <1>1, <1>2, <1>4, <3>1, BlockStep
    <2> QED BY <1>1, <1>2, <1>4, <2>1, SMT DEF q, r
  <1>5. CASE q = w
    BY <1>1, <1>2, <1>5, SMT DEF q, r
  <1> QED BY <1>1, <1>3, <1>4, <1>5, SMT

(* The mask of a word covers the range in it, and words without a mask have
   nothing of the range. *)
LEMMA MaskExact ==
  ASSUME NEW start \in Nat, NEW end \in Nat, NEW w \in Nat
  PROVE  /\ MaskAt(start, end, w) \subseteq Bits
         /\ \A p \in Bits : p \in MaskAt(start, end, w)
                              <=> start <= w * W + p /\ w * W + p < end
         /\ w \in MaskBlocks(start, end) <=> MaskAt(start, end, w) # {}
  <1> DEFINE a == start \div W
             b == start % W
             c == end \div W
             d == end % W
  <1>1. a \in Nat /\ b \in Bits /\ c \in Nat /\ d \in Bits
    BY PositionOf
  <1>2. Bits \subseteq Nat
    BY WidthAssumption, SMT DEF Bits
  <1>3. \A p \in Bits : p \in MaskAt(start, end, w) <=>
          a <= w /\ w <= c /\ (w = a => p >= b) /\ (w = c => p < d)
    BY DEF MaskAt
  <1>4. \A p \in Bits : /\ start <= w * W + p <=> a < w \/ (a = w /\ b <= p)
                        /\ end <= w * W + p <=> c < w \/ (c = w /\ d <= p)
    BY Lexicographic
  <1> HIDE DEF a, b, c, d
  <1>5. ASSUME NEW p \in Bits
        PROVE  p \in MaskAt(start, end, w) <=> start <= w * W + p /\ w * W + p < end
    <2> DEFINE m == w * W + p
    <2>1. m \in Nat
      BY <1>2, WidthAssumption, SMT
    <2>2. /\ start <= m <=> a < w \/ (a = w /\ b <= p)
          /\ end <= m <=> c < w \/ (c = w /\ d <= p)
      BY <1>4
    <2> HIDE DEF m
    <2>3. (a <= w /\ w <= c /\ (w = a => p >= b) /\ (w = c => p < d)) <=> start <= m /\ m < end
      BY <1>1, <1>2, <2>1, <2>2, SMT
    <2> QED BY <1>3, <2>3 DEF m
  <1>6. MaskAt(start, end, w) # {} => w \in a..c
    BY <1>1, SMT DEF MaskAt, a, c
  <1>7. w \in MaskBlocks(start, end) <=> MaskAt(start, end, w) # {}
    BY <1>6 DEF MaskBlocks, a, c
  <1> QED BY <1>5, <1>7 DEF MaskAt

LEMMA RangeBounds ==
  ASSUME NEW s, Good(s), NEW r \in Ranges(s)
  PROVE  /\ r[1] \in Nat /\ r[2] \in Nat /\ r[1] <= r[2] /\ r[2] <= s.length
         /\ s.length \in Nat
         /\ \A w \in MaskBlocks(r[1], r[2]) :
              w \in Nat /\ w \in Words(s.length) /\ w \in Slice(s)
  <1>1. /\ r[1] \in Nat /\ r[2] \in Nat /\ r[1] <= r[2] /\ r[2] <= s.length
        /\ s.length \in Nat
    BY GoodElim, SMT DEF Ranges
  <1>2. ASSUME NEW w \in MaskBlocks(r[1], r[2])
        PROVE  w \in Nat /\ w \in Words(s.length) /\ w \in Slice(s)
    <2>1. w \in (r[1] \div W)..(r[2] \div W) /\ MaskAt(r[1], r[2], w) # {}
      BY DEF MaskBlocks
    <2>2. w \in Nat
      <3>1. r[1] \div W \in Nat /\ r[2] \div W \in Nat
        BY <1>1, PositionOf
      <3> QED BY <2>1, <3>1, SMT
    <2>3. PICK p \in Bits : w * W + p < r[2]
      BY <1>1, <2>1, <2>2, MaskExact DEF MaskAt
    <2>4. w * W + p < s.length
      <3>1. w * W \in Nat /\ p \in Nat
        BY <2>2, WidthAssumption, SMT DEF Bits
      <3> QED BY <1>1, <2>3, <3>1, SMT
    <2> QED BY <1>1, <2>2, <2>4, BitInSlice DEF Slice
  <1> QED BY <1>1, <1>2

(* The words after a change of a range. *)
LEMMA RangeWords ==
  ASSUME NEW s, Good(s), NEW r \in Ranges(s), NEW w \in Nat
  PROVE  /\ WordAt(InsertRange(s, r), w) = WordAt(s, w) \cup MaskAt(r[1], r[2], w)
         /\ WordAt(RemoveRange(s, r), w) = WordAt(s, w) \ MaskAt(r[1], r[2], w)
         /\ WordAt(ToggleRange(s, r), w) = SymDiff(WordAt(s, w), MaskAt(r[1], r[2], w))
         /\ InsertRange(s, r).length = s.length
         /\ RemoveRange(s, r).length = s.length
         /\ ToggleRange(s, r).length = s.length
  <1> DEFINE M == MaskAt(r[1], r[2], w)
  <1>1. s = [length |-> s.length, data |-> s.data] /\ DOMAIN s.data = Words(s.length)
    BY GoodElim
  <1>2. w \in MaskBlocks(r[1], r[2]) <=> M # {}
    BY RangeBounds, MaskExact
  <1>3. M # {} => w \in Words(s.length)
    BY <1>2, RangeBounds
  <1> HIDE DEF M
  <1>4. WordAt(s, w) = IF w \in Words(s.length) THEN s.data[w] ELSE {}
    BY <1>1 DEF WordAt
  <1>5. /\ InsertRange(s, r).length = s.length
        /\ WordAt(InsertRange(s, r), w) = WordAt(s, w) \cup M
    BY <1>1, <1>2, <1>3, <1>4 DEF InsertRange, OnRange, WordAt, M
  <1>6. /\ RemoveRange(s, r).length = s.length
        /\ WordAt(RemoveRange(s, r), w) = WordAt(s, w) \ M
    BY <1>1, <1>2, <1>3, <1>4 DEF RemoveRange, OnRange, WordAt, M
  <1>7. /\ ToggleRange(s, r).length = s.length
        /\ WordAt(ToggleRange(s, r), w) = SymDiff(WordAt(s, w), M)
    BY <1>1, <1>2, <1>3, <1>4 DEF ToggleRange, OnRange, WordAt, SymDiff, M
  <1> QED BY <1>5, <1>6, <1>7 DEF M

LEMMA PairParts ==
  ASSUME NEW S, NEW T, NEW z \in S \X T
  PROVE  z[1] \in S /\ z[2] \in T /\ z = <<z[1], z[2]>>
  OBVIOUS

(* Counting the bits of words counts the numbers they stand for. *)
LEMMA PairsCount ==
  ASSUME NEW B \in SUBSET Nat, IsFiniteSet(B), NEW P \in SUBSET (B \X Bits), NEW M,
         M = {x[1] * W + x[2] : x \in P}
  PROVE  Cardinality(P) = Cardinality(M)
  <1>1. IsFiniteSet(Bits)
    BY FS_Interval, WidthAssumption, SMT DEF Bits
  <1>2. IsFiniteSet(P)
    BY <1>1, FS_Product, FS_Subset
  <1> DEFINE f == [x \in P |-> x[1] * W + x[2]]
  <1>3. f \in [P -> M] /\ \A m \in M : \E x \in P : f[x] = m
    OBVIOUS
  <1>4. \A x, y \in P : f[x] = f[y] => x = y
    <2>1. SUFFICES ASSUME NEW x \in P, NEW y \in P, f[x] = f[y] PROVE x = y
      OBVIOUS
    <2>2. /\ x[1] \in Nat /\ y[1] \in Nat /\ x[2] \in Bits /\ y[2] \in Bits
          /\ x = <<x[1], x[2]>> /\ y = <<y[1], y[2]>>
      <3>1. x \in B \X Bits /\ y \in B \X Bits
        OBVIOUS
      <3>2. \A z \in B \X Bits : z[1] \in B /\ z[2] \in Bits /\ z = <<z[1], z[2]>>
        BY PairParts
      <3> QED BY <3>1, <3>2
    <2>3. x[1] * W + x[2] = y[1] * W + y[2]
      BY <2>1
    <2>4. x[1] = y[1] /\ x[2] = y[2]
      BY <2>2, <2>3, SamePosition
    <2> QED BY <2>2, <2>4
  <1>5. f \in Bijection(P, M)
    BY <1>3, <1>4 DEF Bijection, Injection, Surjection, IsInjective
  <1> QED BY <1>2, <1>5, FS_Bijection DEF ExistsBijection

LEMMA RangesOfGood ==
  ASSUME NEW s, Good(s), NEW r \in Ranges(s)
  PROVE  LET A == Members(s)  R == r[1]..(r[2] - 1) IN
         /\ MaskBlocks(r[1], r[2]) \subseteq Slice(s)
         /\ Denotes(InsertRange(s, r), s.length, A \cup R)
         /\ Denotes(RemoveRange(s, r), s.length, A \ R)
         /\ Denotes(ToggleRange(s, r), s.length, SymDiff(A, R))
         /\ CountOnes(s, r) = Cardinality(A \cap R)
         /\ CountZeroes(s, r) = Cardinality(R \ A)
         /\ ContainsAllInRange(s, r) <=> R \subseteq A
         /\ ContainsAnyInRange(s, r) <=> R \cap A # {}
  <1> DEFINE A == Members(s)
             R == r[1]..(r[2] - 1)
             M(w) == MaskAt(r[1], r[2], w)
             B == MaskBlocks(r[1], r[2])
  <1>1. /\ r[1] \in Nat /\ r[2] \in Nat /\ s.length \in Nat /\ r[2] <= s.length
        /\ A \subseteq Nat /\ R \subseteq Nat /\ SymDiff(A, R) \subseteq Nat
    BY RangeBounds, MembersBelow, SMT DEF SymDiff
  <1>2. B \subseteq Nat /\ B \subseteq Slice(s) /\ B \subseteq Words(s.length)
    BY RangeBounds
  <1>3. ASSUME NEW w \in Nat, NEW p \in Bits
        PROVE  /\ w * W + p \in Nat
               /\ p \in WordAt(s, w) <=> w * W + p \in A
               /\ p \in M(w) <=> w * W + p \in R
    <2>1. w * W + p \in Nat
      BY WidthAssumption, SMT DEF Bits
    <2>2. p \in M(w) <=> r[1] <= w * W + p /\ w * W + p < r[2]
      BY <1>1, MaskExact
    <2>3. w * W + p \in R <=> r[1] <= w * W + p /\ w * W + p < r[2]
      BY <1>1, <2>1, SMT
    <2> QED BY <2>1, <2>2, <2>3, MemberIff
  <1>4. \A w \in B : WordAt(s, w) = s.data[w]
    BY <1>2, WordAtType
  <1>5. \A w \in Nat : M(w) \subseteq Bits /\ (M(w) # {} <=> w \in B)
    BY <1>1, MaskExact
  <1>6. /\ Good(InsertRange(s, r)) /\ Good(RemoveRange(s, r)) /\ Good(ToggleRange(s, r))
    <2>1. \A enabled \in BOOLEAN : Good(SetRange(s, r, enabled))
      BY RangeOperationsGood
    <2>2. SetRange(s, r, TRUE) = InsertRange(s, r) /\ SetRange(s, r, FALSE) = RemoveRange(s, r)
      BY DEF SetRange
    <2> QED BY <2>1, <2>2, RangeOperationsGood
  <1>7. \A w \in Nat : /\ WordAt(InsertRange(s, r), w) = WordAt(s, w) \cup M(w)
                       /\ WordAt(RemoveRange(s, r), w) = WordAt(s, w) \ M(w)
                       /\ WordAt(ToggleRange(s, r), w) = SymDiff(WordAt(s, w), M(w))
    BY RangeWords
  <1>8. /\ InsertRange(s, r).length = s.length
        /\ RemoveRange(s, r).length = s.length
        /\ ToggleRange(s, r).length = s.length
    BY RangeWords
  (* Every number of the range is in a word of a mask. *)
  <1>9. \A m \in R : \E w \in B : \E p \in M(w) : w * W + p = m
    <2>1. SUFFICES ASSUME NEW m \in R PROVE \E w \in B : \E p \in M(w) : w * W + p = m
      OBVIOUS
    <2>2. PICK w \in Nat, p \in Bits : w * W + p = m
      BY <1>1, PositionOf
    <2>3. p \in M(w)
      BY <1>3, <2>2
    <2> QED BY <1>5, <2>2, <2>3
  <1>10. IsFiniteSet(B)
    <2>1. r[1] \div W \in Int /\ r[2] \div W \in Int
      <3>1. r[1] \div W \in Nat /\ r[2] \div W \in Nat
        BY <1>1, PositionOf
      <3>2. \A n \in Nat : n \in Int
        OBVIOUS
      <3> QED BY <3>1, <3>2
    <2>2. B \subseteq (r[1] \div W)..(r[2] \div W)
      BY DEF MaskBlocks
    <2>3. IsFiniteSet((r[1] \div W)..(r[2] \div W))
      BY <2>1, FS_Interval
    <2> HIDE DEF B
    <2> QED BY <2>2, <2>3, FS_Subset
  <1> HIDE DEF A, R, M, B
  <1>11. Denotes(InsertRange(s, r), s.length, A \cup R)
    <2>1. A \cup R \in SUBSET Nat
      BY <1>1
    <2>2. \A w \in Nat : \A p \in Bits :
            p \in WordAt(InsertRange(s, r), w) <=> w * W + p \in A \cup R
      BY <1>3, <1>7
    <2> QED BY <1>6, <1>8, <2>1, <2>2, DenotesIntro
  <1>12. Denotes(RemoveRange(s, r), s.length, A \ R)
    <2>1. A \ R \in SUBSET Nat
      BY <1>1
    <2>2. \A w \in Nat : \A p \in Bits :
            p \in WordAt(RemoveRange(s, r), w) <=> w * W + p \in A \ R
      BY <1>3, <1>7
    <2> QED BY <1>6, <1>8, <2>1, <2>2, DenotesIntro
  <1>13. Denotes(ToggleRange(s, r), s.length, SymDiff(A, R))
    <2>1. \A w \in Nat, p \in Bits : p \in WordAt(ToggleRange(s, r), w)
                                       <=> w * W + p \in SymDiff(A, R)
      BY <1>3, <1>7 DEF SymDiff
    <2> QED BY <1>1, <1>6, <1>8, <2>1, DenotesIntro
  <1>14. CountOnes(s, r) = Cardinality(A \cap R)
    <2> DEFINE P == {x \in B \X Bits : x[2] \in s.data[x[1]] \cap M(x[1])}
    <2>1. A \cap R = {x[1] * W + x[2] : x \in P}
      <3>1. ASSUME NEW x \in P PROVE x[1] * W + x[2] \in A \cap R
        <4>1. /\ x[1] \in B /\ x[1] \in Nat /\ x[2] \in Bits
              /\ x[2] \in WordAt(s, x[1]) /\ x[2] \in M(x[1])
          BY <1>2, <1>4
        <4> QED BY <1>3, <4>1
      <3>2. ASSUME NEW m \in A \cap R PROVE \E x \in P : m = x[1] * W + x[2]
        <4>0. PICK w \in B : \E p \in M(w) : w * W + p = m
          BY <1>9
        <4>1. PICK p \in M(w) : w * W + p = m
          BY <4>0
        <4>2. w \in Nat /\ p \in Bits
          BY <1>2, <1>5
        <4>3. p \in s.data[w]
          BY <1>3, <1>4, <4>1, <4>2
        <4>4. <<w, p>> \in P
          BY <4>1, <4>2, <4>3
        <4> QED BY <4>1, <4>4
      <3> QED BY <3>1, <3>2
    <2>2. CountOnes(s, r) = Cardinality(P)
      BY DEF CountOnes, Pairs, B, M
    <2>3. P \in SUBSET (B \X Bits)
      OBVIOUS
    <2> HIDE DEF P
    <2> QED BY <1>2, <1>10, <2>1, <2>2, <2>3, PairsCount
  <1>15. CountZeroes(s, r) = Cardinality(R \ A)
    <2> DEFINE P == {x \in B \X Bits : x[2] \in M(x[1]) \ s.data[x[1]]}
    <2>1. R \ A = {x[1] * W + x[2] : x \in P}
      <3>1. ASSUME NEW x \in P PROVE x[1] * W + x[2] \in R \ A
        <4>1. /\ x[1] \in B /\ x[1] \in Nat /\ x[2] \in Bits
              /\ x[2] \notin WordAt(s, x[1]) /\ x[2] \in M(x[1])
          BY <1>2, <1>4
        <4> QED BY <1>3, <4>1
      <3>2. ASSUME NEW m \in R \ A PROVE \E x \in P : m = x[1] * W + x[2]
        <4>0. PICK w \in B : \E p \in M(w) : w * W + p = m
          BY <1>9
        <4>1. PICK p \in M(w) : w * W + p = m
          BY <4>0
        <4>2. w \in Nat /\ p \in Bits
          BY <1>2, <1>5
        <4>3. p \notin s.data[w]
          BY <1>3, <1>4, <4>1, <4>2
        <4>4. <<w, p>> \in P
          BY <4>1, <4>2, <4>3
        <4> QED BY <4>1, <4>4
      <3> QED BY <3>1, <3>2
    <2>2. CountZeroes(s, r) = Cardinality(P)
      BY DEF CountZeroes, Pairs, B, M
    <2>3. P \in SUBSET (B \X Bits)
      OBVIOUS
    <2> HIDE DEF P
    <2> QED BY <1>2, <1>10, <2>1, <2>2, <2>3, PairsCount
  <1>16. ContainsAllInRange(s, r) <=> R \subseteq A
    <2>1. ContainsAllInRange(s, r) <=> \A w \in B : \A p \in M(w) : p \in s.data[w]
      BY DEF ContainsAllInRange, B, M
    <2>2. \A w \in B : \A p \in M(w) : p \in s.data[w] <=> w * W + p \in A
      BY <1>2, <1>3, <1>4, <1>5
    <2>3. \A w \in B : \A p \in M(w) : w * W + p \in R
      BY <1>2, <1>3, <1>5
    <2> QED BY <1>9, <2>1, <2>2, <2>3
  <1>17. ContainsAnyInRange(s, r) <=> R \cap A # {}
    <2>1. ContainsAnyInRange(s, r) <=> \E w \in B : \E p \in M(w) : p \in s.data[w]
      BY DEF ContainsAnyInRange, B, M
    <2>2. \A w \in B : \A p \in M(w) : p \in s.data[w] <=> w * W + p \in A
      BY <1>2, <1>3, <1>4, <1>5
    <2>3. \A w \in B : \A p \in M(w) : w * W + p \in R
      BY <1>2, <1>3, <1>5
    <2> QED BY <1>9, <2>1, <2>2, <2>3
  <1> QED BY <1>2, <1>11, <1>12, <1>13, <1>14, <1>15, <1>16, <1>17 DEF A, R, B

LEMMA Reachable ==
  ASSUME SurplusBits = FALSE
  PROVE  Spec => []Inv
  <1>1. Init => Inv
    BY InitInv
  <1>2. Inv /\ [Next]_vars => Inv'
    BY StepInv
  <1> QED BY <1>1, <1>2, PTL DEF Spec

(* For every width of words and blocks and all lengths: what the operations on
   two sets and on ranges return is what set theory says. *)
THEOREM OperationsCorrect ==
  ASSUME SurplusBits = FALSE
  PROVE  Spec => []OperationsExact
  <1>1. Inv => OperationsExact
    <2> SUFFICES ASSUME Inv PROVE OperationsExact
      OBVIOUS
    <2>1. \A x \in Names : Good(set[x])
      BY DEF Inv
    <2>2. AlgebraExact
      BY <2>1, AlgebraOfGood DEF AlgebraExact
    <2>3. RangesExact
      BY <2>1, RangesOfGood DEF RangesExact
    <2> QED BY <2>2, <2>3 DEF OperationsExact
  <1> QED BY <1>1, Reachable, PTL
-----------------------------------------------------------------------------
(* The queries. *)
LEMMA LowestExists ==
  ASSUME NEW S \in SUBSET Nat, S # {}
  PROVE  Lowest(S) \in S /\ \A y \in S : Lowest(S) <= y
  <1>1. PICK x \in S : \A y \in S : <<y, x>> \notin OpToRel(<, Nat)
    BY NatLessThanWellFounded, WFMin
  <1>2. \A y \in S : x <= y
    <2>1. SUFFICES ASSUME NEW y \in S, y < x PROVE FALSE
      BY SMT
    <2>2. <<y, x>> \in OpToRel(<, Nat)
      BY <2>1 DEF OpToRel
    <2> QED BY <1>1, <2>2
  <1> QED BY <1>2 DEF Lowest

LEMMA HighestExists ==
  ASSUME NEW n \in Nat, NEW S \in SUBSET (0..n), S # {}
  PROVE  Highest(S) \in S /\ \A y \in S : Highest(S) >= y
  <1> DEFINE T == {n - x : x \in S}
  <1>1. T \in SUBSET Nat /\ T # {}
    <2>1. \A x \in S : n - x \in Nat
      BY SMT
    <2> QED BY <2>1
  <1>2. PICK t \in T : \A y \in T : t <= y
    BY <1>1, LowestExists
  <1>3. PICK x \in S : t = n - x
    BY <1>2
  <1>4. \A y \in S : x >= y
    <2>1. SUFFICES ASSUME NEW y \in S PROVE x >= y
      OBVIOUS
    <2>2. n - y \in T
      OBVIOUS
    <2>3. n - x <= n - y /\ x \in Nat /\ y \in Nat
      BY <1>2, <1>3, <2>2, SMT
    <2> QED BY <2>3, SMT
  <1> QED BY <1>4 DEF Highest

LEMMA LowestIs ==
  ASSUME NEW S \in SUBSET Nat, NEW x \in S, \A y \in S : x <= y
  PROVE  Lowest(S) = x
  <1>1. Lowest(S) \in S /\ \A y \in S : Lowest(S) <= y
    BY LowestExists
  <1>2. Lowest(S) <= x /\ x <= Lowest(S) /\ Lowest(S) \in Nat /\ x \in Nat
    BY <1>1
  <1> QED BY <1>2, SMT

LEMMA HighestIs ==
  ASSUME NEW n \in Nat, NEW S \in SUBSET (0..n), NEW x \in S, \A y \in S : x >= y
  PROVE  Highest(S) = x
  <1>1. Highest(S) \in S /\ \A y \in S : Highest(S) >= y
    BY HighestExists
  <1>2. Highest(S) >= x /\ x >= Highest(S) /\ Highest(S) \in 0..n /\ x \in 0..n
    BY <1>1
  <1> QED BY <1>2, SMT

(* The blocks of a set and the words in them. *)
LEMMA BlockOf ==
  ASSUME NEW n \in Nat, NEW w \in 0..(K * n - 1)
  PROVE  \E b \in 0..(n - 1), k \in 0..(K - 1) : w = b * K + k
  <1> DEFINE b == w \div K
             k == w % K
  <1>1. w \in Nat /\ w < K * n /\ K * n \in Nat
    BY WidthAssumption, SMT
  <1>2. b \in Nat /\ k \in 0..(K - 1) /\ w = K * b + k
    BY <1>1, DivMod, WidthAssumption
  <1> HIDE DEF b, k
  <1>3. K * b = b * K /\ K * b \in Nat /\ k \in Nat
    BY <1>2, WidthAssumption, SMT
  <1>4. b < n
    <2>1. SUFFICES ASSUME n <= b PROVE FALSE
      BY <1>2, SMT
    <2>2. CASE n = b
      BY <1>1, <1>2, <1>3, <2>2, SMT
    <2>3. CASE n < b
      <3>1. K * n + K <= K * b
        BY <1>2, <2>3, BlockStep, WidthAssumption
      <3> QED BY <1>1, <1>2, <1>3, <3>1, WidthAssumption, SMT
    <2> QED BY <1>2, <2>1, <2>2, <2>3, SMT
  <1>5. b \in 0..(n - 1) /\ w = b * K + k
    BY <1>2, <1>3, <1>4, SMT
  <1> QED BY <1>2, <1>5

LEMMA InBlock ==
  ASSUME NEW n \in Nat, NEW b \in 0..(n - 1), NEW k \in 0..(K - 1)
  PROVE  b * K + k \in 0..(K * n - 1) /\ b * K \in Nat /\ b * K + k \in Nat
  <1>1. b \in Nat /\ k \in Nat /\ k < K /\ b < n
    BY WidthAssumption, SMT
  <1>2. b * K + K <= K * n
    BY <1>1, BlockStep, WidthAssumption
  <1>3. b * K \in Nat /\ K * n \in Nat
    BY <1>1, WidthAssumption, SMT
  <1> QED BY <1>1, <1>2, <1>3, WidthAssumption, SMT

LEMMA BlockOrder ==
  ASSUME NEW a \in Nat, NEW b \in Nat, NEW i \in 0..(K - 1), NEW j \in 0..(K - 1),
         a < b \/ (a = b /\ i <= j)
  PROVE  a * K + i <= b * K + j
  <1>1. a * K \in Nat /\ b * K \in Nat /\ K * b = b * K
    BY WidthAssumption, SMT
  <1>2. CASE a < b
    <2>1. a * K + K <= b * K
      BY <1>1, <1>2, BlockStep, WidthAssumption
    <2> QED BY <1>1, <2>1, WidthAssumption, SMT
  <1>3. CASE a = b /\ i <= j
    BY <1>1, <1>3, WidthAssumption, SMT
  <1> QED BY <1>2, <1>3

(* A position in a lower word, or lower in the same word, is lower. *)
LEMMA WordOrder ==
  ASSUME NEW w \in Nat, NEW v \in Nat, NEW p \in Bits, NEW q \in Bits,
         w <= v, w = v => p <= q
  PROVE  w * W + p <= v * W + q
  <1>1. p \in Nat /\ q \in Nat /\ p < W /\ w * W \in Nat /\ v * W \in Nat /\ W * v = v * W
    BY WidthAssumption, SMT DEF Bits
  <1>2. CASE w < v
    <2>1. w * W + W <= v * W
      BY <1>1, <1>2, BlockStep, WidthAssumption
    <2> QED BY <1>1, <2>1, WidthAssumption, SMT
  <1>3. CASE w = v
    BY <1>1, <1>3, SMT
  <1> QED BY <1>2, <1>3, SMT

LEMMA PositionSum ==
  \A x, k, p, y \in Int : x * y + k * y + p = (x + k) * y + p
  BY SMT

LEMMA PositionFromEnd ==
  \A n, b, k, x, y, h \in Int :
    n * x * y - b * x * y - k * y - (y - 1 - h) - 1 = ((n - 1 - b) * x + (x - 1 - k)) * y + h
  BY SMT

(* minimum finds the lowest block that is not empty, the lowest word in it, and
   the lowest bit of that: the least element. *)
LEMMA MinimumExact ==
  ASSUME NEW s, Good(s), Members(s) # {}
  PROVE  Minimum(s) = Lowest(Members(s))
  <1> DEFINE n == SimdBlockLen(s.length)
             Blocks == {b \in 0..(n - 1) : \E k \in 0..(K - 1) : s.data[b * K + k] # {}}
             block == Lowest(Blocks)
             Inner == {k \in 0..(K - 1) : s.data[block * K + k] # {}}
             inner == Lowest(Inner)
             w == block * K + inner
             p == Lowest(s.data[w])
  <1>1. n \in Nat /\ DOMAIN s.data = 0..(K * n - 1)
    BY GoodElim, WordsType DEF Words
  <1>2. \A v \in DOMAIN s.data : v \in Nat /\ s.data[v] \subseteq Bits /\ WordAt(s, v) = s.data[v]
    BY GoodElim DEF WordAt
  <1>3. Bits \subseteq Nat
    BY WidthAssumption, SMT DEF Bits
  <1> HIDE DEF n
  (* Every member is in a word of a block. *)
  <1>4. ASSUME NEW m \in Members(s)
        PROVE  \E b \in Blocks, k \in 0..(K - 1), q \in Bits :
                 q \in s.data[b * K + k] /\ m = (b * K + k) * W + q
    <2>1. PICK v \in DOMAIN s.data : m \in {v * W + q : q \in s.data[v]}
      BY DEF Members
    <2>2. PICK q \in s.data[v] : m = v * W + q
      BY <2>1
    <2>3. PICK b \in 0..(n - 1), k \in 0..(K - 1) : v = b * K + k
      BY <1>1, BlockOf
    <2> QED BY <1>2, <2>2, <2>3
  <1>5. block \in Blocks /\ \A b \in Blocks : block <= b
    <2>1. Blocks # {}
      BY <1>4
    <2>2. Blocks \in SUBSET Nat
      BY <1>1, SMT
    <2> HIDE DEF Blocks
    <2> QED BY <2>1, <2>2, LowestExists
  <1> HIDE DEF block
  <1>6. block \in 0..(n - 1) /\ block \in Nat /\ Inner # {}
    <2>1. block \in 0..(n - 1) /\ \E k \in 0..(K - 1) : s.data[block * K + k] # {}
      BY <1>5
    <2>2. block \in Nat
      BY <1>1, <2>1, SMT
    <2> QED BY <2>1, <2>2
  <1>7. inner \in Inner /\ \A k \in Inner : inner <= k
    <2>1. Inner \in SUBSET Nat
      BY WidthAssumption, SMT
    <2> HIDE DEF Inner
    <2> QED BY <1>6, <2>1, LowestExists
  <1>8. inner \in 0..(K - 1) /\ s.data[w] # {}
    BY <1>7
  <1> HIDE DEF inner
  <1>9. w \in DOMAIN s.data /\ w \in Nat /\ inner \in Nat
    BY <1>1, <1>6, <1>8, InBlock, WidthAssumption, SMT
  <1>10. p \in s.data[w] /\ \A q \in s.data[w] : p <= q
    BY <1>2, <1>3, <1>8, <1>9, LowestExists
  <1> HIDE DEF p
  <1>11. p \in Bits
    BY <1>2, <1>9, <1>10
  <1>12. w * W + p \in Members(s)
    BY <1>2, <1>9, <1>10, <1>11, MemberIff
  <1>13. ASSUME NEW m \in Members(s) PROVE w * W + p <= m
    <2>1. PICK b \in Blocks, k \in 0..(K - 1), q \in Bits :
            q \in s.data[b * K + k] /\ m = (b * K + k) * W + q
      BY <1>4
    <2>2. /\ b \in Nat /\ b \in 0..(n - 1) /\ block <= b /\ b * K + k \in Nat
          /\ k \in Nat /\ (block = b => inner <= k)
      <3>1. b \in 0..(n - 1) /\ block <= b
        BY <1>5
      <3>2. b * K + k \in Nat
        BY <1>1, <3>1, InBlock
      <3>3. b \in Nat /\ k \in Nat
        BY <3>1, WidthAssumption, SMT
      <3>4. block = b => k \in Inner
        BY <2>1
      <3> QED BY <1>7, <3>1, <3>2, <3>3, <3>4
    <2>3. w <= b * K + k
      <3>1. block < b \/ (block = b /\ inner <= k)
        BY <1>6, <2>2, SMT
      <3> QED BY <1>6, <1>8, <2>2, <3>1, BlockOrder
    <2>4. w = b * K + k => p <= q
      BY <1>10, <2>1
    <2> HIDE DEF w
    <2> QED BY <1>9, <1>11, <2>1, <2>2, <2>3, <2>4, WordOrder
  <1>14. Lowest(Members(s)) = w * W + p
    BY <1>12, <1>13, MembersBelow, LowestIs
  <1>15. Minimum(s) = block * K * W + inner * W + p
    BY DEF Minimum, n, block, inner, p
  <1>16. block * K * W + inner * W + p = w * W + p
    <2>1. block * K \in Int /\ inner \in Int /\ p \in Int /\ W \in Int
      BY <1>3, <1>6, <1>9, <1>11, WidthAssumption, SMT
    <2> QED BY <2>1, PositionSum
  <1> QED BY <1>14, <1>15, <1>16

(* maximum counts from the end of the last block, which lies at or behind the
   length: the greatest element. *)
LEMMA MaximumExact ==
  ASSUME NEW s, Good(s), Members(s) # {}
  PROVE  Maximum(s) = Highest(Members(s))
  <1> DEFINE n == SimdBlockLen(s.length)
             FromEnd(b, k) == s.data[(n - 1 - b) * K + (K - 1 - k)]
             Blocks == {b \in 0..(n - 1) : \E k \in 0..(K - 1) : FromEnd(b, k) # {}}
             block == Lowest(Blocks)
             Inner == {k \in 0..(K - 1) : FromEnd(block, k) # {}}
             inner == Lowest(Inner)
             w == (n - 1 - block) * K + (K - 1 - inner)
             p == Highest(s.data[w])
  <1>1. n \in Nat /\ DOMAIN s.data = 0..(K * n - 1)
    BY GoodElim, WordsType DEF Words
  <1>2. \A v \in DOMAIN s.data : v \in Nat /\ s.data[v] \subseteq Bits /\ WordAt(s, v) = s.data[v]
    BY GoodElim DEF WordAt
  <1>3. Bits \subseteq Nat
    BY WidthAssumption, SMT DEF Bits
  <1>4. /\ \A b \in 0..(n - 1) : n - 1 - b \in 0..(n - 1) /\ n - 1 - (n - 1 - b) = b
        /\ \A k \in 0..(K - 1) : K - 1 - k \in 0..(K - 1) /\ K - 1 - (K - 1 - k) = k
    BY <1>1, WidthAssumption, SMT
  <1> HIDE DEF n
  <1>5. ASSUME NEW m \in Members(s)
        PROVE  \E b \in Blocks, k \in 0..(K - 1), q \in Bits :
                 /\ q \in FromEnd(b, k)
                 /\ m = ((n - 1 - b) * K + (K - 1 - k)) * W + q
    <2>1. PICK v \in DOMAIN s.data : m \in {v * W + q : q \in s.data[v]}
      BY DEF Members
    <2>2. PICK q \in s.data[v] : m = v * W + q
      BY <2>1
    <2>3. PICK c \in 0..(n - 1), j \in 0..(K - 1) : v = c * K + j
      BY <1>1, BlockOf
    <2> DEFINE b == n - 1 - c
               k == K - 1 - j
    <2>4. b \in 0..(n - 1) /\ n - 1 - b = c /\ k \in 0..(K - 1) /\ K - 1 - k = j
      BY <1>4
    <2> HIDE DEF b, k
    <2>5. v = (n - 1 - b) * K + (K - 1 - k)
      BY <2>3, <2>4
    <2>6. q \in FromEnd(b, k) /\ q \in Bits
      BY <1>2, <2>5
    <2>7. b \in Blocks
      BY <2>4, <2>6
    <2> QED BY <2>2, <2>4, <2>5, <2>6, <2>7
  <1>6. block \in Blocks /\ \A b \in Blocks : block <= b
    <2>1. Blocks # {}
      BY <1>5
    <2>2. Blocks \in SUBSET Nat
      BY <1>1, SMT
    <2> HIDE DEF Blocks
    <2> QED BY <2>1, <2>2, LowestExists
  <1> HIDE DEF block
  <1>7. block \in 0..(n - 1) /\ block \in Nat /\ Inner # {}
    <2>1. block \in 0..(n - 1) /\ \E k \in 0..(K - 1) : FromEnd(block, k) # {}
      BY <1>6
    <2>2. block \in Nat
      BY <1>1, <2>1, SMT
    <2> QED BY <2>1, <2>2
  <1>8. inner \in Inner /\ \A k \in Inner : inner <= k
    <2>1. Inner \in SUBSET Nat
      BY WidthAssumption, SMT
    <2> HIDE DEF Inner
    <2> QED BY <1>7, <2>1, LowestExists
  <1>9. inner \in 0..(K - 1) /\ s.data[w] # {}
    BY <1>8
  <1> HIDE DEF inner
  <1>10. w \in DOMAIN s.data /\ w \in Nat /\ inner \in Nat
    <2>1. n - 1 - block \in 0..(n - 1) /\ K - 1 - inner \in 0..(K - 1)
      BY <1>4, <1>7, <1>9
    <2>2. w \in 0..(K * n - 1) /\ w \in Nat
      BY <1>1, <2>1, InBlock
    <2> QED BY <1>1, <1>9, <2>2, WidthAssumption, SMT
  <1>11. p \in s.data[w] /\ \A q \in s.data[w] : p >= q
    <2>1. W - 1 \in Nat
      BY WidthAssumption, SMT
    <2>2. s.data[w] \in SUBSET (0..(W - 1))
      BY <1>2, <1>10 DEF Bits
    <2> QED BY <1>9, <2>1, <2>2, HighestExists
  <1> HIDE DEF p
  <1>12. p \in Bits
    BY <1>2, <1>10, <1>11
  <1>13. w * W + p \in Members(s)
    BY <1>2, <1>10, <1>11, <1>12, MemberIff
  <1>14. ASSUME NEW m \in Members(s) PROVE m <= w * W + p
    <2>1. PICK b \in Blocks, k \in 0..(K - 1), q \in Bits :
            /\ q \in FromEnd(b, k)
            /\ m = ((n - 1 - b) * K + (K - 1 - k)) * W + q
      BY <1>5
    <2> DEFINE c == n - 1 - b
               j == K - 1 - k
               v == c * K + j
    <2>2. /\ b \in 0..(n - 1) /\ block <= b /\ (block = b => inner <= k)
      <3>1. b \in 0..(n - 1) /\ block <= b
        BY <1>6
      <3>2. block = b => k \in Inner
        BY <2>1
      <3> QED BY <1>8, <3>1, <3>2
    <2>3. /\ c \in 0..(n - 1) /\ j \in 0..(K - 1)
          /\ n - 1 - block \in 0..(n - 1) /\ K - 1 - inner \in 0..(K - 1)
      BY <1>4, <1>7, <1>9, <2>2
    <2>4. v \in Nat
      BY <1>1, <2>3, InBlock
    <2>5. c < n - 1 - block \/ (c = n - 1 - block /\ j <= K - 1 - inner)
      BY <1>1, <1>7, <1>10, <2>2, WidthAssumption, SMT
    <2>6. v <= w
      <3>1. c \in Nat /\ n - 1 - block \in Nat
        BY <1>1, <2>3, SMT
      <3> QED BY <2>3, <2>5, <3>1, BlockOrder
    <2>7. v = w => q <= p
      <3>1. v = w => q \in s.data[w]
        BY <2>1
      <3> QED BY <1>3, <1>11, <1>12, <2>1, <3>1, SMT
    <2>8. m = v * W + q
      BY <2>1
    <2> HIDE DEF w, v
    <2> QED BY <1>10, <1>12, <2>4, <2>6, <2>7, <2>8, WordOrder
  <1>15. Highest(Members(s)) = w * W + p
    <2>1. s.length \in Nat /\ Members(s) \in SUBSET (0..s.length)
      BY MembersBelow, GoodElim, SMT
    <2>2. \A m \in Members(s) : w * W + p >= m
      <3>1. w * W + p \in Nat
        BY <1>13, MembersBelow
      <3> HIDE DEF w
      <3> QED BY <1>14, <3>1, MembersBelow, SMT
    <2> QED BY <1>13, <2>1, <2>2, HighestIs
  <1>16. Maximum(s) = n * K * W - block * K * W - inner * W - (W - 1 - p) - 1
    BY DEF Maximum, HighestBelow, n, block, inner, p
  <1>17. n * K * W - block * K * W - inner * W - (W - 1 - p) - 1 = w * W + p
    <2>1. n \in Int /\ block \in Int /\ inner \in Int /\ p \in Int /\ W \in Int /\ K \in Int
      BY <1>1, <1>3, <1>7, <1>10, <1>12, WidthAssumption, SMT
    <2> QED BY <2>1, PositionFromEnd
  <1> QED BY <1>15, <1>16, <1>17
-----------------------------------------------------------------------------
(* The words that as_slice shows are all that is not empty. *)
LEMMA SliceAtWord ==
  ASSUME NEW s, Good(s), NEW w \in Nat
  PROVE  SliceAt(s, w) = WordAt(s, w)
  <1>1. s.length \in Nat /\ Slice(s) \subseteq Words(s.length)
    BY GoodElim, SliceInWords DEF Slice
  <1>2. CASE w \in Slice(s)
    BY <1>1, <1>2, WordAtType DEF SliceAt
  <1>3. CASE w \notin Slice(s)
    <2>1. ASSUME NEW p \in WordAt(s, w) PROVE FALSE
      <3>1. w \in Words(s.length) /\ p \in s.data[w] /\ p \in Bits
        BY WordAtType
      <3>2. w * W + p < s.length
        BY <3>1, GoodElim
      <3> QED BY <1>1, <1>3, <3>1, <3>2, BitInSlice DEF Slice
    <2> QED BY <1>3, <2>1 DEF SliceAt
  <1> QED BY <1>2, <1>3

(* A count over the words of two sets counts the numbers they stand for. *)
LEMMA CountExact ==
  ASSUME NEW s, Good(s), NEW o, Good(o),
         NEW N \in SUBSET (Members(s) \cup Members(o)),
         NEW P \in SUBSET ((Slice(s) \cup Slice(o)) \X Bits),
         \A w \in Slice(s) \cup Slice(o), p \in Bits : <<w, p>> \in P <=> w * W + p \in N
  PROVE  Cardinality(P) = Cardinality(N)
  <1> DEFINE B == Slice(s) \cup Slice(o)
  <1>1. B \in SUBSET Nat /\ IsFiniteSet(B)
    <2>1. UsizeLen(s.length) \in Nat /\ UsizeLen(o.length) \in Nat
      BY GoodElim, SliceInWords
    <2>2. \A n \in Nat : 0 \in Int /\ n - 1 \in Int /\ 0..(n - 1) \subseteq Nat
      BY SMT
    <2>3. IsFiniteSet(Slice(s)) /\ IsFiniteSet(Slice(o))
      BY <2>1, <2>2, FS_Interval DEF Slice
    <2> QED BY <2>1, <2>2, <2>3, FS_Union DEF Slice
  <1>2. \A x \in P : x[1] \in B /\ x[2] \in Bits /\ x = <<x[1], x[2]>>
    BY PairParts
  <1>3. ASSUME NEW m \in N PROVE \E x \in P : m = x[1] * W + x[2]
    <2>1. m \in Nat /\ m \in Members(s) \cup Members(o)
      BY MembersBelow
    <2>2. PICK w \in Nat : \E p \in Bits : w * W + p = m
      BY <2>1, PositionOf
    <2>3. PICK p \in Bits : w * W + p = m
      BY <2>2
    <2>4. p \in WordAt(s, w) \cup WordAt(o, w)
      BY <2>1, <2>3, MemberIff
    <2>5. w \in B
      BY <2>4, SliceAtWord DEF SliceAt
    <2>6. <<w, p>> \in P
      BY <2>3, <2>5
    <2> QED BY <2>3, <2>6
  <1>4. \A x \in P : x[1] * W + x[2] \in N
    BY <1>2
  <1>5. N = {x[1] * W + x[2] : x \in P}
    BY <1>3, <1>4
  <1> HIDE DEF B
  <1>6. P \in SUBSET (B \X Bits)
    BY DEF B
  <1> QED BY <1>1, <1>5, <1>6, PairsCount

LEMMA CountsOfGood ==
  ASSUME NEW s, Good(s), NEW o, Good(o)
  PROVE  LET A == Members(s)  B == Members(o) IN
         /\ UnionCount(s, o) = Cardinality(A \cup B)
         /\ IntersectionCount(s, o) = Cardinality(A \cap B)
         /\ DifferenceCount(s, o) = Cardinality(A \ B)
         /\ SymmetricDifferenceCount(s, o) = Cardinality(SymDiff(A, B))
  <1> DEFINE A == Members(s)
             B == Members(o)
             D == Slice(s) \cup Slice(o)
  <1>1. ASSUME NEW w \in D, NEW p \in Bits
        PROVE  /\ p \in SliceAt(s, w) <=> w * W + p \in A
               /\ p \in SliceAt(o, w) <=> w * W + p \in B
    <2>1. w \in Nat
      <3>1. UsizeLen(s.length) \in Nat /\ UsizeLen(o.length) \in Nat
        BY GoodElim, SliceInWords
      <3> QED BY <3>1, SMT DEF Slice
    <2> QED BY <2>1, SliceAtWord, MemberIff
  <1> HIDE DEF A, B, D
  <1>2. UnionCount(s, o) = Cardinality(A \cup B)
    <2> DEFINE P == {x \in D \X Bits : x[2] \in SliceAt(s, x[1]) \cup SliceAt(o, x[1])}
    <2>1. UnionCount(s, o) = Cardinality(P)
      BY DEF UnionCount, SliceCount, Pairs, D
    <2>2. \A w \in D, p \in Bits : <<w, p>> \in P <=> w * W + p \in A \cup B
      BY <1>1
    <2>3. P \in SUBSET (D \X Bits)
      OBVIOUS
    <2> HIDE DEF P
    <2> QED BY <2>1, <2>2, <2>3, CountExact DEF A, B, D
  <1>3. IntersectionCount(s, o) = Cardinality(A \cap B)
    <2> DEFINE P == {x \in D \X Bits : x[2] \in SliceAt(s, x[1]) \cap SliceAt(o, x[1])}
    <2>1. IntersectionCount(s, o) = Cardinality(P)
      BY DEF IntersectionCount, SliceCount, Pairs, D
    <2>2. \A w \in D, p \in Bits : <<w, p>> \in P <=> w * W + p \in A \cap B
      BY <1>1
    <2>3. P \in SUBSET (D \X Bits)
      OBVIOUS
    <2> HIDE DEF P
    <2> QED BY <2>1, <2>2, <2>3, CountExact DEF A, B, D
  <1>4. DifferenceCount(s, o) = Cardinality(A \ B)
    <2> DEFINE P == {x \in D \X Bits : x[2] \in SliceAt(s, x[1]) \ SliceAt(o, x[1])}
    <2>1. DifferenceCount(s, o) = Cardinality(P)
      BY DEF DifferenceCount, SliceCount, Pairs, D
    <2>2. \A w \in D, p \in Bits : <<w, p>> \in P <=> w * W + p \in A \ B
      BY <1>1
    <2>3. P \in SUBSET (D \X Bits)
      OBVIOUS
    <2> HIDE DEF P
    <2> QED BY <2>1, <2>2, <2>3, CountExact DEF A, B, D
  <1>5. SymmetricDifferenceCount(s, o) = Cardinality(SymDiff(A, B))
    <2> DEFINE P == {x \in D \X Bits : x[2] \in SymDiff(SliceAt(s, x[1]), SliceAt(o, x[1]))}
    <2>1. SymmetricDifferenceCount(s, o) = Cardinality(P)
      BY DEF SymmetricDifferenceCount, SliceCount, Pairs, D
    <2>2. \A w \in D, p \in Bits : <<w, p>> \in P <=> w * W + p \in SymDiff(A, B)
      BY <1>1 DEF SymDiff
    <2>3. P \in SUBSET (D \X Bits) /\ SymDiff(A, B) \subseteq A \cup B
      BY DEF SymDiff
    <2> HIDE DEF P
    <2> QED BY <2>1, <2>2, <2>3, CountExact DEF A, B, D
  <1> QED BY <1>2, <1>3, <1>4, <1>5 DEF A, B

(* is_clear, is_full and the comparisons look at words; words that agree are
   numbers that agree. *)
LEMMA ComparisonsOfGood ==
  ASSUME NEW s, Good(s), NEW o, Good(o)
  PROVE  LET A == Members(s)  B == Members(o) IN
         /\ IsClear(s) <=> A = {}
         /\ IsFull(s) <=> A = Universe(s)
         /\ IsDisjoint(s, o) <=> A \cap B = {}
         /\ IsSubset(s, o) <=> A \subseteq B
         /\ Eq(s, o) <=> s.length = o.length /\ A = B
  <1> DEFINE A == Members(s)
             B == Members(o)
  <1>1. /\ \A w \in Nat, p \in Bits : p \in WordAt(s, w) <=> w * W + p \in A
        /\ \A w \in Nat, p \in Bits : p \in WordAt(o, w) <=> w * W + p \in B
    BY MemberIff
  <1>2. /\ DOMAIN s.data = Words(s.length) /\ DOMAIN o.data = Words(o.length)
        /\ Words(s.length) \subseteq Nat /\ Words(o.length) \subseteq Nat
        /\ s.data \in [Words(s.length) -> SUBSET Bits]
        /\ o.data \in [Words(o.length) -> SUBSET Bits]
        /\ \A w : WordAt(s, w) = IF w \in DOMAIN s.data THEN s.data[w] ELSE {}
        /\ \A w : WordAt(o, w) = IF w \in DOMAIN o.data THEN o.data[w] ELSE {}
    BY GoodElim DEF WordAt
  <1>3. /\ A \subseteq Universe(s) /\ A \subseteq Nat /\ B \subseteq Nat
        /\ Universe(s) = 0..(s.length - 1) /\ s.length \in Nat
    BY MembersBelow, GoodElim
  <1>4. \A m \in Nat : \E w \in Nat, p \in Bits : w * W + p = m
    BY PositionOf
  <1> HIDE DEF A, B
  <1>5. IsClear(s) <=> A = {}
    <2>1. ASSUME IsClear(s), NEW m \in A PROVE FALSE
      <3>1. PICK w \in Nat, p \in Bits : w * W + p = m
        BY <1>3, <1>4
      <3> QED BY <1>1, <1>2, <2>1, <3>1 DEF IsClear
    <2>2. ASSUME A = {}, NEW w \in DOMAIN s.data PROVE s.data[w] = {}
      BY <1>1, <1>2, <2>2
    <2> QED BY <2>1, <2>2 DEF IsClear
  <1>6. IsFull(s) <=> A = Universe(s)
    <2>1. <<0, s.length>> \in Ranges(s)
      BY <1>3, SMT DEF Ranges
    <2>2. ContainsAllInRange(s, <<0, s.length>>) <=> Universe(s) \subseteq A
      BY <1>3, <2>1, RangesOfGood DEF A
    <2> QED BY <1>3, <2>2 DEF IsFull
  <1>7. IsDisjoint(s, o) <=> A \cap B = {}
    <2>1. ASSUME IsDisjoint(s, o), NEW m \in A \cap B PROVE FALSE
      <3>1. PICK w \in Nat, p \in Bits : w * W + p = m
        BY <1>3, <1>4
      <3>2. p \in WordAt(s, w) /\ p \in WordAt(o, w)
        BY <1>1, <2>1, <3>1
      <3> QED BY <1>2, <2>1, <3>2 DEF IsDisjoint
    <2>2. ASSUME A \cap B = {}, NEW w \in DOMAIN s.data \cap DOMAIN o.data
          PROVE  s.data[w] \cap o.data[w] = {}
      BY <1>1, <1>2, <2>2
    <2> QED BY <2>1, <2>2 DEF IsDisjoint
  <1>8. IsSubset(s, o) <=> A \subseteq B
    <2>1. ASSUME IsSubset(s, o), NEW m \in A PROVE m \in B
      <3>1. PICK w \in Nat, p \in Bits : w * W + p = m
        BY <1>3, <1>4
      <3>2. w \in DOMAIN s.data /\ p \in s.data[w]
        BY <1>1, <1>2, <2>1, <3>1
      <3>3. p \in WordAt(o, w)
        BY <2>1, <3>2 DEF IsSubset
      <3> QED BY <1>1, <3>1, <3>3
    <2>2. ASSUME A \subseteq B, NEW w \in DOMAIN s.data PROVE s.data[w] \subseteq WordAt(o, w)
      BY <1>1, <1>2, <2>2
    <2> QED BY <2>1, <2>2 DEF IsSubset
  <1>9. Eq(s, o) <=> s.length = o.length /\ A = B
    <2>1. Eq(s, o) => s.length = o.length /\ A = B
      BY DEF Eq, A, B, Members
    <2>2. ASSUME s.length = o.length, A = B PROVE s.data = o.data
      <3>1. \A w \in Words(s.length) : WordAt(s, w) = WordAt(o, w)
        <4>1. \A w \in Nat : WordAt(s, w) \subseteq Bits /\ WordAt(o, w) \subseteq Bits
          BY WordAtType
        <4>2. \A w \in Nat : \A p \in Bits : p \in WordAt(s, w) <=> p \in WordAt(o, w)
          BY <1>1, <2>2
        <4>3. \A w \in Nat : WordAt(s, w) = WordAt(o, w)
          BY <4>1, <4>2
        <4> QED BY <1>2, <4>3
      <3>2. \A w \in Words(s.length) : s.data[w] = o.data[w]
        BY <1>2, <2>2, <3>1
      <3> QED BY <1>2, <2>2, <3>2
    <2> QED BY <2>1, <2>2 DEF Eq
  <1> QED BY <1>5, <1>6, <1>7, <1>8, <1>9 DEF A, B

(* For every width of words and blocks and sets of any two lengths: minimum,
   maximum, the counts and the comparisons are those of the sets of numbers. *)
THEOREM QueriesCorrect ==
  ASSUME SurplusBits = FALSE
  PROVE  Spec => []QueriesExact
  <1>1. Inv => QueriesExact
    <2> SUFFICES ASSUME Inv, iter = NoIter, NEW x \in Names, NEW y \in Names
                 PROVE  LET s == set[x]  o == set[y]  A == Members(s)  B == Members(o) IN
                        /\ IsClear(s) <=> A = {}
                        /\ IsFull(s) <=> A = Universe(s)
                        /\ A # {} => Minimum(s) = Lowest(A) /\ Maximum(s) = Highest(A)
                        /\ UnionCount(s, o) = Cardinality(A \cup B)
                        /\ IntersectionCount(s, o) = Cardinality(A \cap B)
                        /\ DifferenceCount(s, o) = Cardinality(A \ B)
                        /\ SymmetricDifferenceCount(s, o) = Cardinality(SymDiff(A, B))
                        /\ IsDisjoint(s, o) <=> A \cap B = {}
                        /\ IsSubset(s, o) <=> A \subseteq B
                        /\ Eq(s, o) <=> s.length = o.length /\ A = B
      BY DEF QueriesExact
    <2>1. Good(set[x]) /\ Good(set[y])
      BY DEF Inv
    <2>2. Members(set[x]) # {} => /\ Minimum(set[x]) = Lowest(Members(set[x]))
                                  /\ Maximum(set[x]) = Highest(Members(set[x]))
      BY <2>1, MinimumExact, MaximumExact
    <2> QED BY <2>1, <2>2, CountsOfGood, ComparisonsOfGood
  <1> QED BY <1>1, Reachable, PTL
-----------------------------------------------------------------------------
(* The iterators. Whatever next and next_back have done, what is left are the
   bits of `first`, which is word lo - 1, of the words lo..hi-1, and of `last`,
   which is word hi; everything in front of it was returned by next, everything
   behind it by next_back. *)
Iterators ==
  [kind : {"ones", "into_ones", "zeroes"}, of : Names, first : SUBSET Bits,
   last : SUBSET Bits, lo : Nat, hi : Nat, idxFront : Nat, idxBack : Nat,
   front : Seq(Nat), back : Seq(Nat), done : BOOLEAN]

IteratedWord(it, s, w) == IF it.kind = "zeroes" THEN Bits \ s.data[w] ELSE s.data[w]

(* The bits of word w that are left. *)
View(it, s, w) ==
  IF w = it.lo - 1 THEN it.first
  ELSE IF w = it.hi THEN it.last
  ELSE IF w \in it.lo..(it.hi - 1) THEN IteratedWord(it, s, w) ELSE {}

Left(it, s) == {m \in Nat : m % W \in View(it, s, m \div W)}

(* A position is where its word is, unless it will not be looked at again. *)
Window(it, s) ==
  /\ it \in Iterators
  /\ 1 <= it.lo /\ it.lo <= it.hi
  /\ it.lo..(it.hi - 1) \subseteq DOMAIN s.data
  /\ it.first # {} \/ it.lo < it.hi => it.idxFront = (it.lo - 1) * W
  /\ it.kind # "zeroes" => /\ it.idxFront <= it.idxBack
                           /\ it.last # {} \/ it.lo < it.hi => it.idxBack = it.hi * W
  /\ it.kind = "zeroes" => it.last = {}

Wanted(it, s) == IF it.kind = "zeroes" THEN Universe(s) \ Members(s) ELSE Members(s)

(* What will still be returned: the zeroes behind the length are not. *)
Seen(it, s) == IF it.kind = "zeroes" THEN Left(it, s) \cap Universe(s) ELSE Left(it, s)

Answers(it, s) ==
  /\ Returned(it) \subseteq Wanted(it, s)
  /\ Seen(it, s) = Wanted(it, s) \ Returned(it)
  /\ Ascending(it.front) /\ Descending(it.back)
  /\ \A a \in Elements(it.front) : \A m \in Left(it, s) : a < m
  /\ \A b \in Elements(it.back) : \A m \in Left(it, s) : m < b
  /\ \A a \in Elements(it.front), b \in Elements(it.back) : a < b
  /\ it.done => Seen(it, s) = {}

IteratorInv == iter # NoIter => Window(iter, set[iter.of]) /\ Answers(iter, set[iter.of])

LEMMA ViewType ==
  ASSUME NEW s, Good(s), NEW it, Window(it, s), NEW w \in Nat
  PROVE  View(it, s, w) \subseteq Bits
  <1>1. it.lo..(it.hi - 1) \subseteq Words(s.length)
    BY GoodElim DEF Window
  <1>2. it.first \subseteq Bits /\ it.last \subseteq Bits
    BY DEF Window, Iterators
  <1>3. w \in it.lo..(it.hi - 1) => IteratedWord(it, s, w) \subseteq Bits
    BY <1>1, GoodElim DEF IteratedWord
  <1> QED BY <1>2, <1>3 DEF View

LEMMA LeftIff ==
  ASSUME NEW it, NEW s, NEW w \in Nat, NEW p \in Bits
  PROVE  w * W + p \in Nat /\ (w * W + p \in Left(it, s) <=> p \in View(it, s, w))
  <1> DEFINE m == w * W + p
  <1>1. m \in Nat
    BY WidthAssumption, SMT DEF Bits
  <1>2. m \div W \in Nat /\ m % W \in Bits /\ (m \div W) * W + (m % W) = m
    BY <1>1, PositionOf
  <1>3. m \div W = w /\ m % W = p
    BY <1>2, SamePosition
  <1> QED BY <1>1, <1>3 DEF Left

(* The loop of next moves the front word to the next one that has bits; what is
   left stays the same. *)
LEMMA FillFrontKeeps ==
  ASSUME NEW s, Good(s), NEW it, Window(it, s), s = set[it.of]
  PROVE  /\ Window(FillFront(it), s)
         /\ \A w \in Nat : View(FillFront(it), s, w) = View(it, s, w)
         /\ FillFront(it).first = {} => FillFront(it).lo = FillFront(it).hi
         /\ FillFront(it).kind = it.kind /\ FillFront(it).of = it.of
         /\ FillFront(it).front = it.front /\ FillFront(it).back = it.back
         /\ FillFront(it).done = it.done
  <1>1. /\ it \in Iterators /\ it.lo \in Nat /\ it.hi \in Nat /\ 1 <= it.lo /\ it.lo <= it.hi
        /\ it.first \subseteq Bits /\ it.idxFront \in Nat /\ it.idxBack \in Nat
    BY DEF Window, Iterators
  <1>2. CASE it.first # {}
    BY <1>2, <1>1 DEF FillFront
  <1>3. CASE it.first = {} /\ Waiting(it) = {}
    <2> DEFINE f == [it EXCEPT !.first = {}, !.lo = it.hi,
                               !.idxFront = it.idxFront + (it.hi - it.lo) * W]
    <2>1. FillFront(it) = f
      BY <1>3 DEF FillFront
    <2>2. it.idxFront + (it.hi - it.lo) * W \in Nat
      BY <1>1, WidthAssumption, SMT
    <2>3. /\ f \in Iterators /\ f.first = {} /\ f.last = it.last
          /\ f.lo = it.hi /\ f.hi = it.hi /\ f.idxFront = it.idxFront + (it.hi - it.lo) * W
          /\ f.idxBack = it.idxBack
          /\ f.kind = it.kind /\ f.of = it.of /\ f.front = it.front /\ f.back = it.back
          /\ f.done = it.done
      BY <1>1, <2>2 DEF Iterators
    <2> HIDE DEF f
    <2>4. f.lo..(f.hi - 1) = {}
      BY <1>1, <2>3, SMT
    <2>5. f.kind # "zeroes" => f.idxFront <= f.idxBack
      <3>1. CASE it.lo = it.hi
        BY <1>1, <2>3, <3>1, WidthAssumption, SMT DEF Window
      <3>2. CASE it.lo < it.hi
        <4>1. it.kind # "zeroes" => it.idxFront = (it.lo - 1) * W /\ it.idxBack = it.hi * W
          BY <3>2 DEF Window
        <4>2. (it.lo - 1) * W + (it.hi - it.lo) * W <= it.hi * W
          BY <1>1, WidthAssumption, SMT
        <4> QED BY <2>3, <4>1, <4>2
      <3> QED BY <1>1, <3>1, <3>2, SMT
    <2>6. Window(f, s)
      <3>1. f.kind # "zeroes" => (f.last # {} \/ f.lo < f.hi => f.idxBack = f.hi * W)
        BY <1>1, <2>3, SMT DEF Window
      <3>2. f.first # {} \/ f.lo < f.hi => f.idxFront = (f.lo - 1) * W
        BY <1>1, <2>3, SMT
      <3>3. 1 <= f.lo /\ f.lo <= f.hi
        BY <1>1, <2>3, SMT
      <3> QED BY <2>3, <2>4, <2>5, <3>1, <3>2, <3>3 DEF Window
    <2>7. ASSUME NEW w \in Nat PROVE View(f, s, w) = View(it, s, w)
      <3>1. \A v \in it.lo..(it.hi - 1) : IteratedWord(it, s, v) = {}
        BY <1>3 DEF Waiting, IterWord, IteratedWord
      <3>2. CASE w = it.lo - 1 \/ w \in it.lo..(it.hi - 1)
        <4>1. View(it, s, w) = {} /\ w # it.hi
          BY <1>1, <1>3, <3>1, <3>2, SMT DEF View
        <4>2. View(f, s, w) = {}
          BY <2>3, <2>4, <4>1 DEF View
        <4> QED BY <4>1, <4>2
      <3>3. CASE ~(w = it.lo - 1 \/ w \in it.lo..(it.hi - 1))
        <4>1. w # it.hi - 1
          BY <1>1, <3>3, SMT
        <4> QED BY <2>3, <2>4, <3>3, <4>1 DEF View
      <3> QED BY <3>2, <3>3
    <2> QED BY <2>1, <2>3, <2>6, <2>7
  <1>4. CASE it.first = {} /\ Waiting(it) # {}
    <2> DEFINE v == Lowest(Waiting(it))
               upto == IF Waiting(it) = {} THEN it.hi ELSE Lowest(Waiting(it)) + 1
               word == IF Waiting(it) = {} THEN {} ELSE IterWord(it, upto - 1)
               f == [it EXCEPT !.first = word, !.lo = upto,
                               !.idxFront = it.idxFront + (upto - it.lo) * W]
    <2>1. FillFront(it) = f
      BY <1>4 DEF FillFront
    <2>2. v \in Waiting(it) /\ \A u \in Waiting(it) : v <= u
      <3>1. Waiting(it) \in SUBSET Nat
        BY <1>1, SMT DEF Waiting
      <3> QED BY <1>4, <3>1, LowestExists
    <2>3. v \in it.lo..(it.hi - 1) /\ IterWord(it, v) # {}
      BY <2>2 DEF Waiting
    <2>0. upto = v + 1
      BY <1>4
    <2> HIDE DEF v, upto
    <2>4. /\ v \in Nat /\ v + 1 - 1 = v /\ it.lo <= v /\ v + 1 <= it.hi /\ it.lo < it.hi
          /\ v + 1 \in Nat
      BY <1>1, <2>3, SMT
    <2>5. IterWord(it, v) = View(it, s, v) /\ IterWord(it, v) \subseteq Bits
      <3>1. View(it, s, v) = IteratedWord(it, s, v)
        BY <1>1, <2>3, <2>4, SMT DEF View
      <3> QED BY <2>4, <3>1, ViewType DEF IterWord, IteratedWord
    <2>11. word = IterWord(it, v)
      <3>1. word = IterWord(it, upto - 1)
        BY <1>4
      <3>2. upto - 1 = v
        BY <2>0, <2>4
      <3> QED BY <3>1, <3>2 DEF IterWord
    <2> HIDE DEF word
    <2>6. /\ it.idxFront = (it.lo - 1) * W
          /\ it.idxFront + (upto - it.lo) * W = v * W /\ v * W \in Nat
      <3>1. it.idxFront = (it.lo - 1) * W
        BY <2>4 DEF Window
      <3>2. upto - it.lo \in Nat /\ upto \in Nat
        BY <1>1, <2>0, <2>4, SMT
      <3>3. \A a, b, c, d \in Nat : b = c + 1 => (a - 1) * d + (b - a) * d = c * d /\ c * d \in Nat
        BY SMT
      <3>4. (it.lo - 1) * W + (upto - it.lo) * W = v * W /\ v * W \in Nat
        BY <1>1, <2>0, <2>4, <3>2, <3>3, WidthAssumption
      <3> QED BY <3>1, <3>4
    <2>7. /\ f \in Iterators /\ f.first = IterWord(it, v) /\ f.last = it.last
          /\ f.lo = v + 1 /\ f.hi = it.hi /\ f.idxFront = v * W
          /\ f.idxBack = it.idxBack
          /\ f.kind = it.kind /\ f.of = it.of /\ f.front = it.front /\ f.back = it.back
          /\ f.done = it.done
      <3> DEFINE x == it.idxFront + (upto - it.lo) * W
      <3>1. x = v * W /\ x \in Nat /\ word \in SUBSET Bits /\ upto \in Nat
        BY <2>0, <2>4, <2>5, <2>6, <2>11
      <3> HIDE DEF x
      <3>2. f = [it EXCEPT !.first = word, !.lo = upto, !.idxFront = x]
        BY DEF x
      <3> HIDE DEF f
      <3> QED BY <1>1, <2>0, <2>11, <3>1, <3>2 DEF Iterators
    <2> HIDE DEF f
    <2>8. Window(f, s)
      <3>1. f.kind # "zeroes" => /\ f.idxFront <= f.idxBack
                                 /\ (f.last # {} \/ f.lo < f.hi => f.idxBack = f.hi * W)
        <4>1. it.kind # "zeroes" => it.idxBack = it.hi * W
          BY <2>4 DEF Window
        <4>2. v * W <= it.hi * W
          <5>1. v * W + W <= W * it.hi
            BY <1>1, <2>4, BlockStep, WidthAssumption, SMT
          <5>2. W * it.hi = it.hi * W /\ it.hi * W \in Nat
            BY <1>1, WidthAssumption, SMT
          <5> QED BY <2>6, <5>1, <5>2, WidthAssumption, SMT
        <4> QED BY <2>7, <4>1, <4>2
      <3>2. f.idxFront = (f.lo - 1) * W
        BY <2>4, <2>7
      <3>3. 1 <= f.lo /\ f.lo <= f.hi /\ f.lo..(f.hi - 1) \subseteq it.lo..(it.hi - 1)
        BY <1>1, <2>4, <2>7, SMT
      <3> QED BY <2>7, <3>1, <3>2, <3>3 DEF Window
    <2>9. ASSUME NEW w \in Nat PROVE View(f, s, w) = View(it, s, w)
      <3>1. \A u \in it.lo..(v - 1) : IteratedWord(it, s, u) = {}
        <4>1. ASSUME NEW u \in it.lo..(v - 1), IteratedWord(it, s, u) # {} PROVE FALSE
          <5>1. u \in it.lo..(it.hi - 1) /\ u < v /\ u \in Nat
            BY <1>1, <2>4, SMT
          <5>2. u \in Waiting(it)
            BY <4>1, <5>1 DEF Waiting, IterWord, IteratedWord
          <5> QED BY <2>2, <2>4, <5>1, <5>2, SMT
        <4> QED BY <4>1
      <3>2. CASE w = it.lo - 1 \/ w \in it.lo..(v - 1)
        <4>1. View(it, s, w) = {} /\ w # v /\ w # it.hi /\ w \notin (v + 1)..(it.hi - 1)
          BY <1>1, <1>4, <2>4, <3>1, <3>2, SMT DEF View
        <4>2. View(f, s, w) = {}
          BY <2>4, <2>7, <4>1 DEF View
        <4> QED BY <4>1, <4>2
      <3>3. CASE w = v
        BY <2>4, <2>5, <2>7, <3>3 DEF View
      <3>4. CASE w \in (v + 1)..(it.hi - 1)
        <4>1. w # v /\ w # it.hi /\ w # it.lo - 1 /\ w \in it.lo..(it.hi - 1)
          BY <1>1, <2>4, <3>4, SMT
        <4> QED BY <2>4, <2>7, <3>4, <4>1 DEF View, IteratedWord
      <3>5. CASE w = it.hi
        <4>1. w # v /\ w # it.lo - 1
          BY <1>1, <2>4, <3>5, SMT
        <4> QED BY <2>4, <2>7, <3>5, <4>1 DEF View
      <3>6. CASE w < it.lo - 1 \/ w > it.hi
        <4>1. /\ w # v /\ w # it.lo - 1 /\ w # it.hi /\ w \notin it.lo..(it.hi - 1)
              /\ w \notin (v + 1)..(it.hi - 1)
          BY <1>1, <2>4, <3>6, SMT
        <4> QED BY <2>4, <2>7, <4>1 DEF View
      <3> QED BY <1>1, <2>4, <3>2, <3>3, <3>4, <3>5, <3>6, SMT
    <2>10. f.first # {}
      BY <2>3, <2>7
    <2> QED BY <2>1, <2>7, <2>8, <2>9, <2>10
  <1> QED BY <1>2, <1>3, <1>4

(* The same for next_back, which only iterators over ones have. *)
LEMMA FillBackKeeps ==
  ASSUME NEW s, Good(s), NEW it, Window(it, s), s = set[it.of], it.kind # "zeroes"
  PROVE  /\ Window(FillBack(it), s)
         /\ \A w \in Nat : View(FillBack(it), s, w) = View(it, s, w)
         /\ FillBack(it).last = {} => FillBack(it).lo = FillBack(it).hi
         /\ FillBack(it).kind = it.kind /\ FillBack(it).of = it.of
         /\ FillBack(it).front = it.front /\ FillBack(it).back = it.back
         /\ FillBack(it).done = it.done
  <1>1. /\ it \in Iterators /\ it.lo \in Nat /\ it.hi \in Nat /\ 1 <= it.lo /\ it.lo <= it.hi
        /\ it.first \subseteq Bits /\ it.idxFront \in Nat /\ it.idxBack \in Nat
    BY DEF Window, Iterators
  <1> DEFINE downto == IF Waiting(it) = {} THEN it.lo ELSE Highest(Waiting(it))
             word == IF Waiting(it) = {} THEN {} ELSE IterWord(it, downto)
             x == it.idxBack - (it.hi - downto) * W
             f == [it EXCEPT !.last = word, !.hi = downto, !.idxBack = x]
  <1>2. CASE it.last # {}
    BY <1>2, <1>1 DEF FillBack
  <1>3. CASE it.last = {}
    <2>1. FillBack(it) = f
      BY <1>3 DEF FillBack
    (* The word that is taken and those behind it. *)
    <2>2. /\ downto \in it.lo..it.hi /\ downto \in Nat
          /\ Waiting(it) # {} => downto < it.hi /\ downto \in Waiting(it)
          /\ Waiting(it) = {} => downto = it.lo
          /\ \A u \in Waiting(it) : u <= downto
      <3>1. CASE Waiting(it) = {}
        BY <1>1, <3>1, SMT
      <3>2. CASE Waiting(it) # {}
        <4>1. Waiting(it) \in SUBSET (0..it.hi) /\ Waiting(it) \subseteq it.lo..(it.hi - 1)
          BY <1>1, SMT DEF Waiting
        <4>2. downto = Highest(Waiting(it))
          BY <3>2
        <4> HIDE DEF downto
        <4>3. downto \in Waiting(it) /\ \A u \in Waiting(it) : downto >= u
          BY <1>1, <3>2, <4>1, <4>2, HighestExists
        <4>4. downto \in it.lo..(it.hi - 1)
          BY <4>1, <4>3
        <4>5. downto \in it.lo..it.hi /\ downto \in Nat /\ downto < it.hi
          BY <1>1, <4>4, SMT
        <4>6. \A u \in Waiting(it) : u <= downto
          BY <1>1, <4>1, <4>3, <4>5, SMT
        <4> QED BY <3>2, <4>3, <4>5, <4>6
      <3> QED BY <3>1, <3>2
    <2>3. Waiting(it) = {} => word = {}
      OBVIOUS
    <2>4. Waiting(it) # {} => word = IterWord(it, downto)
      OBVIOUS
    <2> HIDE DEF downto
    <2>5. Waiting(it) # {} => /\ word = View(it, s, downto) /\ word = IteratedWord(it, s, downto)
                              /\ word # {}
      <3>1. SUFFICES ASSUME Waiting(it) # {}
                     PROVE  /\ word = View(it, s, downto) /\ word = IteratedWord(it, s, downto)
                            /\ word # {}
        OBVIOUS
      <3>2. downto \in it.lo..(it.hi - 1) /\ downto # it.hi /\ downto # it.lo - 1
        BY <1>1, <2>2, <3>1, SMT
      <3>3. View(it, s, downto) = IteratedWord(it, s, downto)
        BY <3>2 DEF View
      <3>4. word = IteratedWord(it, s, downto)
        BY <2>4, <3>1 DEF IterWord, IteratedWord
      <3>5. word # {}
        BY <2>2, <2>4, <3>1 DEF Waiting
      <3> QED BY <3>3, <3>4, <3>5
    <2> HIDE DEF word
    <2>6. word \in SUBSET Bits
      BY <2>2, <2>3, <2>5, ViewType
    <2>7. /\ x \in Nat /\ it.idxFront <= x
          /\ it.lo < it.hi => x = downto * W
      <3>1. CASE it.lo = it.hi
        <4>1. downto = it.hi /\ it.hi - downto = 0 /\ 0 * W = 0
          BY <1>1, <2>2, <3>1, WidthAssumption, SMT
        <4> QED BY <1>1, <3>1, <4>1, SMT DEF Window
      <3>2. CASE it.lo < it.hi
        <4>1. it.idxBack = it.hi * W /\ it.idxFront = (it.lo - 1) * W
          BY <3>2 DEF Window
        <4>2. \A a, b, c \in Nat : b * c - (b - a) * c = a * c /\ a * c \in Nat
          BY SMT
        <4>3. x = downto * W /\ x \in Nat
          BY <1>1, <2>2, <4>1, <4>2, WidthAssumption
        <4>4. (it.lo - 1) * W <= downto * W
          <5>1. it.lo - 1 \in Nat /\ it.lo - 1 < downto
            BY <1>1, <2>2, SMT
          <5>2. (it.lo - 1) * W + W <= W * downto
            BY <2>2, <5>1, BlockStep, WidthAssumption
          <5>3. W * downto = downto * W /\ downto * W \in Nat /\ (it.lo - 1) * W \in Nat
            BY <2>2, <5>1, WidthAssumption, SMT
          <5> QED BY <5>2, <5>3, WidthAssumption, SMT
        <4> QED BY <4>1, <4>3, <4>4
      <3> QED BY <1>1, <3>1, <3>2, SMT
    <2> HIDE DEF x
    <2>8. /\ f \in Iterators /\ f.first = it.first /\ f.last = word
          /\ f.lo = it.lo /\ f.hi = downto /\ f.idxFront = it.idxFront /\ f.idxBack = x
          /\ f.kind = it.kind /\ f.of = it.of /\ f.front = it.front /\ f.back = it.back
          /\ f.done = it.done
      BY <1>1, <2>2, <2>6, <2>7 DEF Iterators
    <2> HIDE DEF f
    <2>9. Window(f, s)
      <3>1. 1 <= f.lo /\ f.lo <= f.hi /\ f.lo..(f.hi - 1) \subseteq it.lo..(it.hi - 1)
        BY <1>1, <2>2, <2>8, SMT
      <3>2. f.first # {} \/ f.lo < f.hi => f.idxFront = (f.lo - 1) * W
        <4>1. it.lo < downto => it.lo < it.hi
          BY <1>1, <2>2, SMT
        <4> QED BY <2>8, <4>1 DEF Window
      <3>3. f.last # {} \/ f.lo < f.hi => f.idxBack = f.hi * W
        <4>1. f.last # {} \/ f.lo < f.hi => it.lo < it.hi
          BY <1>1, <2>2, <2>3, <2>8, SMT
        <4> QED BY <2>7, <2>8, <4>1
      <3> QED BY <2>7, <2>8, <3>1, <3>2, <3>3 DEF Window
    <2>10. ASSUME NEW w \in Nat PROVE View(f, s, w) = View(it, s, w)
      <3>1. ASSUME NEW u \in it.lo..(it.hi - 1), u > downto \/ Waiting(it) = {}
            PROVE  IteratedWord(it, s, u) = {}
        <4>1. u \in Nat /\ u \notin Waiting(it)
          BY <1>1, <2>2, <3>1, SMT
        <4> QED BY <4>1 DEF Waiting, IterWord, IteratedWord
      <3>2. CASE w < it.lo
        <4>1. w # downto /\ w # it.hi /\ w \notin it.lo..(it.hi - 1) /\ w \notin it.lo..(downto - 1)
          BY <1>1, <2>2, <3>2, SMT
        <4> QED BY <2>8, <4>1 DEF View
      <3>3. CASE w \in it.lo..(downto - 1)
        <4>1. w # downto /\ w # it.hi /\ w # it.lo - 1 /\ w \in it.lo..(it.hi - 1)
          BY <1>1, <2>2, <3>3, SMT
        <4> QED BY <2>8, <3>3, <4>1 DEF View, IteratedWord
      <3>4. CASE w = downto
        <4>1. w # it.lo - 1
          BY <1>1, <2>2, <3>4, SMT
        <4>2. View(f, s, w) = word
          BY <2>8, <3>4, <4>1 DEF View
        <4>3. CASE Waiting(it) # {}
          BY <2>5, <3>4, <4>2, <4>3
        <4>4. CASE Waiting(it) = {}
          <5>1. View(it, s, w) = {}
            BY <1>3, <3>1, <4>1, <4>4 DEF View
          <5> QED BY <2>3, <4>2, <4>4, <5>1
        <4> QED BY <4>3, <4>4
      <3>5. CASE w > downto
        <4>1. w # it.lo - 1 /\ w # downto /\ w \notin it.lo..(downto - 1)
          BY <1>1, <2>2, <3>5, SMT
        <4>2. View(it, s, w) = {}
          BY <1>3, <3>1, <3>5, <4>1 DEF View
        <4>3. View(f, s, w) = {}
          BY <2>8, <4>1 DEF View
        <4> QED BY <4>2, <4>3
      <3>6. w < it.lo \/ w \in it.lo..(downto - 1) \/ w = downto \/ w > downto
        BY <1>1, <2>2, SMT
      <3> QED BY <3>2, <3>3, <3>4, <3>5, <3>6
    <2>11. f.last = {} => f.lo = f.hi
      BY <2>2, <2>5, <2>8
    <2> QED BY <2>1, <2>8, <2>9, <2>10, <2>11
  <1> QED BY <1>2, <1>3

LEMMA SameView ==
  ASSUME NEW it, NEW f, NEW s, \A w \in Nat : View(f, s, w) = View(it, s, w)
  PROVE  Left(f, s) = Left(it, s)
  <1>1. \A m \in Nat : m \div W \in Nat
    BY PositionOf
  <1> QED BY <1>1 DEF Left

(* A bit that is taken out of one word is one number less that is left. *)
LEMMA TakenBit ==
  ASSUME NEW it, NEW J, NEW s, NEW w \in Nat, NEW p \in Bits, p \in View(it, s, w),
         View(J, s, w) = View(it, s, w) \ {p},
         \A v \in Nat : v # w => View(J, s, v) = View(it, s, v)
  PROVE  /\ w * W + p \in Left(it, s)
         /\ Left(J, s) = Left(it, s) \ {w * W + p}
  <1>1. w * W + p \in Left(it, s)
    BY LeftIff
  <1>2. ASSUME NEW m \in Nat PROVE m \in Left(J, s) <=> m \in Left(it, s) \ {w * W + p}
    <2>1. PICK v \in Nat : \E q \in Bits : v * W + q = m
      BY PositionOf
    <2>2. PICK q \in Bits : v * W + q = m
      BY <2>1
    <2>3. m = w * W + p <=> v = w /\ q = p
      BY <2>2, SamePosition
    <2>4. /\ m \in Left(J, s) <=> q \in View(J, s, v)
          /\ m \in Left(it, s) <=> q \in View(it, s, v)
      BY <2>2, LeftIff
    <2>5. CASE v = w
      BY <2>3, <2>4, <2>5
    <2>6. CASE v # w
      BY <2>3, <2>4, <2>6
    <2> QED BY <2>5, <2>6
  <1>3. Left(J, s) \subseteq Nat /\ Left(it, s) \subseteq Nat
    BY DEF Left
  <1> QED BY <1>1, <1>2, <1>3

(* The lowest bit of the first word is the smallest number that is left, the
   highest bit of the last word the greatest. *)
LEMMA EndsOfLeft ==
  ASSUME NEW it, NEW s, NEW w \in Nat, NEW p \in Bits
  PROVE  /\ /\ \A v \in Nat : v < w => View(it, s, v) = {}
            /\ \A q \in View(it, s, w) : p <= q
            => \A m \in Left(it, s) : w * W + p <= m
         /\ /\ \A v \in Nat : v > w => View(it, s, v) = {}
            /\ \A q \in View(it, s, w) : q <= p
            => \A m \in Left(it, s) : m <= w * W + p
  <1>1. ASSUME NEW m \in Left(it, s)
        PROVE  \E v \in Nat : \E q \in Bits : q \in View(it, s, v) /\ m = v * W + q
    <2>1. m \in Nat
      BY DEF Left
    <2>2. PICK v \in Nat : \E q \in Bits : v * W + q = m
      BY <2>1, PositionOf
    <2>3. PICK q \in Bits : v * W + q = m
      BY <2>2
    <2> QED BY <2>3, LeftIff
  <1>2. ASSUME \A v \in Nat : v < w => View(it, s, v) = {},
               \A q \in View(it, s, w) : p <= q, NEW m \in Left(it, s)
        PROVE  w * W + p <= m
    <2>1. PICK v \in Nat : \E q \in Bits : q \in View(it, s, v) /\ m = v * W + q
      BY <1>1
    <2>2. PICK q \in Bits : q \in View(it, s, v) /\ m = v * W + q
      BY <2>1
    <2>3. w <= v /\ (w = v => p <= q)
      <3>1. ~(v < w)
        BY <1>2, <2>2
      <3> QED BY <1>2, <2>2, <3>1, SMT
    <2> QED BY <2>2, <2>3, WordOrder
  <1>3. ASSUME \A v \in Nat : v > w => View(it, s, v) = {},
               \A q \in View(it, s, w) : q <= p, NEW m \in Left(it, s)
        PROVE  m <= w * W + p
    <2>1. PICK v \in Nat : \E q \in Bits : q \in View(it, s, v) /\ m = v * W + q
      BY <1>1
    <2>2. PICK q \in Bits : q \in View(it, s, v) /\ m = v * W + q
      BY <2>1
    <2>3. v <= w /\ (v = w => q <= p)
      <3>1. ~(v > w)
        BY <1>3, <2>2
      <3> QED BY <1>3, <2>2, <3>1, SMT
    <2> QED BY <2>2, <2>3, WordOrder
  <1> QED BY <1>2, <1>3

LEMMA AppendElements ==
  ASSUME NEW q \in Seq(Nat), NEW m \in Nat
  PROVE  /\ Append(q, m) \in Seq(Nat)
         /\ Elements(Append(q, m)) = Elements(q) \cup {m}
         /\ Ascending(q) /\ (\A a \in Elements(q) : a < m) => Ascending(Append(q, m))
         /\ Descending(q) /\ (\A a \in Elements(q) : m < a) => Descending(Append(q, m))
  <1> DEFINE n == Len(q)
             r == Append(q, m)
  <1>1. /\ n \in Nat /\ r \in Seq(Nat) /\ Len(r) = n + 1 /\ r[n + 1] = m
        /\ \A i \in 1..n : r[i] = q[i] /\ q[i] \in Nat
    OBVIOUS
  <1> HIDE DEF n, r
  <1>2. 1..(n + 1) = 1..n \cup {n + 1}
    BY <1>1, SMT
  <1>3. Elements(r) = Elements(q) \cup {m}
    <2>1. Elements(r) = {r[i] : i \in 1..(n + 1)} /\ Elements(q) = {q[i] : i \in 1..n}
      BY <1>1 DEF Elements, n
    <2>2. \A a \in Elements(r) : a \in Elements(q) \cup {m}
      BY <1>1, <1>2, <2>1
    <2>3. \A a \in Elements(q) : a \in Elements(r)
      BY <1>1, <1>2, <2>1
    <2>4. m \in Elements(r)
      BY <1>1, <1>2, <2>1
    <2> QED BY <2>2, <2>3, <2>4
  <1>4. ASSUME NEW i \in 2..Len(r)
        PROVE  \/ i \in 2..n /\ r[i] = q[i] /\ r[i - 1] = q[i - 1]
               \/ r[i] = m /\ i - 1 \in 1..n /\ r[i - 1] = q[i - 1] /\ q[i - 1] \in Elements(q)
    <2>1. CASE i = n + 1
      <3>1. i - 1 \in 1..n
        BY <1>1, <2>1, SMT
      <3> QED BY <1>1, <2>1, <3>1 DEF Elements, n
    <2>2. CASE i # n + 1
      <3>1. i \in 2..n /\ i \in 1..n /\ i - 1 \in 1..n
        BY <1>1, <2>2, SMT
      <3> QED BY <1>1, <3>1
    <2> QED BY <2>1, <2>2
  <1>5. Ascending(q) /\ (\A a \in Elements(q) : a < m) => Ascending(r)
    BY <1>4 DEF Ascending, n
  <1>6. Descending(q) /\ (\A a \in Elements(q) : m < a) => Descending(r)
    <2>1. ASSUME Descending(q), \A a \in Elements(q) : m < a, NEW i \in 2..Len(r)
          PROVE  r[i - 1] > r[i]
      <3>1. CASE i \in 2..n /\ r[i] = q[i] /\ r[i - 1] = q[i - 1]
        BY <2>1, <3>1 DEF Descending, n
      <3>2. CASE r[i] = m /\ i - 1 \in 1..n /\ r[i - 1] = q[i - 1] /\ q[i - 1] \in Elements(q)
        BY <1>1, <2>1, <3>2, SMT
      <3> QED BY <1>4, <3>1, <3>2
    <2> QED BY <2>1 DEF Descending
  <1> QED BY <1>1, <1>3, <1>5, <1>6 DEF r

(* What next does: it returns the smallest number that is left, if any; an
   iterator over zeroes ends instead when that lies behind the length. *)
NextAnswer(it, J, s) ==
  /\ J.kind = it.kind /\ J.of = it.of /\ J.back = it.back
  /\ \/ Left(it, s) = {} /\ Left(J, s) = {} /\ J.front = it.front /\ J.done
     \/ \E m \in Left(it, s) :
          /\ \A n \in Left(it, s) : m <= n
          /\ Left(J, s) = Left(it, s) \ {m}
          /\ IF it.kind = "zeroes" /\ m >= s.length THEN J.front = it.front /\ J.done
             ELSE J.front = Append(it.front, m) /\ J.done = it.done

(* What next_back does: the greatest one. *)
BackAnswer(it, J, s) ==
  /\ J.kind = it.kind /\ J.of = it.of /\ J.front = it.front
  /\ \/ Left(it, s) = {} /\ Left(J, s) = {} /\ J.back = it.back /\ J.done
     \/ \E m \in Left(it, s) :
          /\ \A n \in Left(it, s) : n <= m
          /\ Left(J, s) = Left(it, s) \ {m}
          /\ J.back = Append(it.back, m) /\ J.done = it.done

LEMMA NextStep ==
  ASSUME NEW s, Good(s), NEW it, Window(it, s), s = set[it.of]
  PROVE  Window(IterNext(it), s) /\ NextAnswer(it, IterNext(it), s)
  <1> DEFINE f == FillFront(it)
             J == IterNext(it)
  <1>1. /\ Window(f, s) /\ Left(f, s) = Left(it, s)
        /\ f.first = {} => f.lo = f.hi
        /\ f.kind = it.kind /\ f.of = it.of /\ f.front = it.front /\ f.back = it.back
        /\ f.done = it.done
    BY FillFrontKeeps, SameView
  <1> HIDE DEF f
  <1>2. /\ f \in Iterators /\ f.lo \in Nat /\ f.hi \in Nat /\ 1 <= f.lo /\ f.lo <= f.hi
        /\ f.first \in SUBSET Bits /\ f.last \in SUBSET Bits /\ f.front \in Seq(Nat)
        /\ f.idxFront \in Nat /\ f.idxBack \in Nat /\ f.lo - 1 \in Nat /\ f.lo - 1 # f.hi
    <2>1. f \in Iterators /\ 1 <= f.lo /\ f.lo <= f.hi
      BY <1>1 DEF Window
    <2>2. f.lo \in Nat /\ f.hi \in Nat
      BY <2>1 DEF Iterators
    <2>3. f.lo - 1 \in Nat /\ f.lo - 1 # f.hi
      BY <2>1, <2>2, SMT
    <2> QED BY <2>1, <2>2, <2>3 DEF Iterators
  <1>3. Bits \in SUBSET Nat
    BY WidthAssumption, SMT DEF Bits
  <1>4. CASE f.first # {}
    <2> DEFINE p == Lowest(f.first)
               bit == f.idxFront + p
               over == it.kind = "zeroes" /\ bit >= set[it.of].length
               w == f.lo - 1
    <2>1. p \in f.first /\ p \in Bits /\ \A q \in f.first : p <= q
      BY <1>2, <1>3, <1>4, LowestExists
    <2>2. J = IF over THEN [[f EXCEPT !.first = @ \ {p}] EXCEPT !.done = TRUE]
              ELSE [[f EXCEPT !.first = @ \ {p}] EXCEPT !.front = Append(@, bit)]
      BY <1>4 DEF IterNext, f
    <2>3. bit = w * W + p
      BY <1>1, <1>4 DEF Window
    <2> HIDE DEF p, w
    <2>4. bit \in Nat
      BY <1>2, <1>3, <2>1, SMT
    <2>5. Append(f.front, bit) \in Seq(Nat)
      BY <1>2, <2>4
    <2> HIDE DEF bit
    <2>6. /\ J \in Iterators /\ J.first = f.first \ {p} /\ J.last = f.last
          /\ J.lo = f.lo /\ J.hi = f.hi /\ J.idxFront = f.idxFront /\ J.idxBack = f.idxBack
          /\ J.kind = f.kind /\ J.of = f.of /\ J.back = f.back
          /\ IF over THEN J.front = f.front /\ J.done
             ELSE J.front = Append(f.front, bit) /\ J.done = f.done
      <3> DEFINE g == [f EXCEPT !.first = @ \ {p}]
      <3>1. /\ g \in Iterators /\ g.first = f.first \ {p} /\ g.last = f.last
            /\ g.lo = f.lo /\ g.hi = f.hi /\ g.idxFront = f.idxFront /\ g.idxBack = f.idxBack
            /\ g.kind = f.kind /\ g.of = f.of /\ g.front = f.front /\ g.back = f.back
            /\ g.done = f.done
        BY <1>2 DEF Iterators
      <3> HIDE DEF g
      <3>2. CASE over
        <4>1. J = [g EXCEPT !.done = TRUE]
          BY <2>2, <3>2 DEF g
        <4> HIDE DEF J, over
        <4> QED BY <3>1, <3>2, <4>1 DEF Iterators
      <3>3. CASE ~over
        <4>1. J = [g EXCEPT !.front = Append(@, bit)]
          BY <2>2, <3>3 DEF g
        <4> HIDE DEF J, over
        <4> QED BY <2>5, <3>1, <3>3, <4>1 DEF Iterators
      <3> QED BY <3>2, <3>3
    <2> HIDE DEF J
    <2>7. Window(J, s)
      BY <1>1, <1>4, <2>6 DEF Window
    <2>8. View(f, s, w) = f.first /\ View(J, s, w) = f.first \ {p} /\ w \in Nat
      BY <1>2, <2>6 DEF View, w
    <2>9. \A v \in Nat : v # w => View(J, s, v) = View(f, s, v)
      BY <2>6 DEF View, w, IteratedWord
    <2>10. bit \in Left(f, s) /\ Left(J, s) = Left(f, s) \ {bit}
      BY <2>1, <2>3, <2>8, <2>9, TakenBit
    <2>11. \A v \in Nat : v < w => View(f, s, v) = {}
      <3>1. SUFFICES ASSUME NEW v \in Nat, v < w PROVE View(f, s, v) = {}
        OBVIOUS
      <3>2. v # f.lo - 1 /\ v # f.hi /\ v \notin f.lo..(f.hi - 1)
        BY <1>2, <3>1, SMT DEF w
      <3> QED BY <3>2 DEF View
    <2>12. \A n \in Left(f, s) : bit <= n
      BY <2>1, <2>3, <2>8, <2>11, EndsOfLeft
    <2>13. over <=> it.kind = "zeroes" /\ bit >= s.length
      OBVIOUS
    <2> HIDE DEF over
    <2> QED BY <1>1, <2>6, <2>7, <2>10, <2>12, <2>13 DEF NextAnswer, J
  <1>5. CASE f.first = {} /\ f.last # {}
    <2> DEFINE p == Lowest(f.last)
               bit == f.idxBack + p
               w == f.hi
    <2>1. p \in f.last /\ p \in Bits /\ \A q \in f.last : p <= q
      BY <1>2, <1>3, <1>5, LowestExists
    <2>2. J = [f EXCEPT !.idxFront = f.idxBack, !.last = @ \ {p}, !.front = Append(@, bit)]
      BY <1>5 DEF IterNext, f
    <2>3. f.kind # "zeroes" /\ bit = w * W + p
      BY <1>1, <1>5 DEF Window
    <2> HIDE DEF p, w
    <2>4. bit \in Nat
      BY <1>2, <1>3, <2>1, SMT
    <2>5. Append(f.front, bit) \in Seq(Nat)
      BY <1>2, <2>4
    <2> HIDE DEF bit
    <2> HIDE DEF J
    <2>6. /\ J \in Iterators /\ J.first = f.first /\ J.last = f.last \ {p}
          /\ J.lo = f.lo /\ J.hi = f.hi /\ J.idxFront = f.idxBack /\ J.idxBack = f.idxBack
          /\ J.kind = f.kind /\ J.of = f.of /\ J.back = f.back
          /\ J.front = Append(f.front, bit) /\ J.done = f.done
      BY <1>2, <2>2, <2>5 DEF Iterators
    <2>7. Window(J, s)
      <3>1. f.lo = f.hi /\ ~(f.lo < f.hi) /\ f.idxBack <= f.idxBack
        BY <1>1, <1>2, <1>5, SMT
      <3> QED BY <1>1, <1>5, <2>3, <2>6, <3>1 DEF Window
    <2>8. View(f, s, w) = f.last /\ View(J, s, w) = f.last \ {p} /\ w \in Nat
      BY <1>2, <2>6 DEF View, w
    <2>9. \A v \in Nat : v # w => View(J, s, v) = View(f, s, v)
      BY <2>6 DEF View, w, IteratedWord
    <2>10. bit \in Left(f, s) /\ Left(J, s) = Left(f, s) \ {bit}
      BY <2>1, <2>3, <2>8, <2>9, TakenBit
    <2>11. \A v \in Nat : v < w => View(f, s, v) = {}
      <3>1. SUFFICES ASSUME NEW v \in Nat, v < w PROVE View(f, s, v) = {}
        OBVIOUS
      <3>2. v # f.hi /\ v \notin f.lo..(f.hi - 1)
        BY <1>1, <1>2, <1>5, <3>1, SMT DEF w
      <3> QED BY <1>5, <3>2 DEF View
    <2>12. \A n \in Left(f, s) : bit <= n
      BY <2>1, <2>3, <2>8, <2>11, EndsOfLeft
    <2> QED BY <1>1, <2>3, <2>6, <2>7, <2>10, <2>12 DEF NextAnswer, J
  <1>6. CASE f.first = {} /\ f.last = {}
    <2>1. J = [f EXCEPT !.done = TRUE]
      BY <1>6 DEF IterNext, f
    <2> HIDE DEF J
    <2>2. /\ J \in Iterators /\ J.first = f.first /\ J.last = f.last
          /\ J.lo = f.lo /\ J.hi = f.hi /\ J.idxFront = f.idxFront /\ J.idxBack = f.idxBack
          /\ J.kind = f.kind /\ J.of = f.of /\ J.back = f.back
          /\ J.front = f.front /\ J.done
      BY <1>2, <2>1 DEF Iterators
    <2>3. Window(J, s)
      BY <1>1, <1>6, <2>2 DEF Window
    <2>4. f.lo..(f.hi - 1) = {}
      BY <1>1, <1>2, <1>6, SMT
    <2>5. \A v \in Nat : View(f, s, v) = {} /\ View(J, s, v) = {}
      BY <1>6, <2>2, <2>4 DEF View
    <2>6. Left(f, s) = {} /\ Left(J, s) = {}
      <3>1. \A m \in Nat : m \div W \in Nat
        BY PositionOf
      <3> QED BY <2>5, <3>1 DEF Left
    <2> QED BY <1>1, <2>2, <2>3, <2>6 DEF NextAnswer, J
  <1> QED BY <1>4, <1>5, <1>6

LEMMA BackStep ==
  ASSUME NEW s, Good(s), NEW it, Window(it, s), s = set[it.of], it.kind # "zeroes"
  PROVE  Window(IterNextBack(it), s) /\ BackAnswer(it, IterNextBack(it), s)
  <1> DEFINE f == FillBack(it)
             J == IterNextBack(it)
  <1>1. /\ Window(f, s) /\ Left(f, s) = Left(it, s)
        /\ f.last = {} => f.lo = f.hi
        /\ f.kind = it.kind /\ f.of = it.of /\ f.front = it.front /\ f.back = it.back
        /\ f.done = it.done
    BY FillBackKeeps, SameView
  <1> HIDE DEF f
  <1>2. /\ f \in Iterators /\ f.lo \in Nat /\ f.hi \in Nat /\ 1 <= f.lo /\ f.lo <= f.hi
        /\ f.first \in SUBSET Bits /\ f.last \in SUBSET Bits /\ f.back \in Seq(Nat)
        /\ f.idxFront \in Nat /\ f.idxBack \in Nat /\ f.lo - 1 \in Nat /\ f.lo - 1 # f.hi
    <2>1. f \in Iterators /\ 1 <= f.lo /\ f.lo <= f.hi
      BY <1>1 DEF Window
    <2>2. f.lo \in Nat /\ f.hi \in Nat
      BY <2>1 DEF Iterators
    <2>3. f.lo - 1 \in Nat /\ f.lo - 1 # f.hi
      BY <2>1, <2>2, SMT
    <2> QED BY <2>1, <2>2, <2>3 DEF Iterators
  <1>3. Bits \subseteq Nat /\ W - 1 \in Nat /\ Bits = 0..(W - 1)
    BY WidthAssumption, SMT DEF Bits
  <1>4. ASSUME NEW A \in SUBSET Bits, A # {}
        PROVE  Highest(A) \in A /\ Highest(A) \in Bits /\ \A q \in A : q <= Highest(A)
    <2>1. Highest(A) \in A /\ \A q \in A : Highest(A) >= q
      BY <1>3, <1>4, HighestExists
    <2> QED BY <1>3, <2>1, SMT
  <1>5. CASE f.last # {}
    <2> DEFINE p == Highest(f.last)
               bit == f.idxBack + p
               w == f.hi
    <2>1. p \in f.last /\ p \in Bits /\ \A q \in f.last : q <= p
      BY <1>2, <1>4, <1>5
    <2>2. J = [f EXCEPT !.last = @ \ {p}, !.back = Append(@, bit)]
      BY <1>5 DEF IterNextBack, f
    <2>3. f.kind # "zeroes" /\ bit = w * W + p
      BY <1>1, <1>5 DEF Window
    <2> HIDE DEF p, w
    <2>4. bit \in Nat
      BY <1>2, <1>3, <2>1, SMT
    <2>5. Append(f.back, bit) \in Seq(Nat)
      BY <1>2, <2>4
    <2> HIDE DEF bit
    <2> HIDE DEF J
    <2>6. /\ J \in Iterators /\ J.first = f.first /\ J.last = f.last \ {p}
          /\ J.lo = f.lo /\ J.hi = f.hi /\ J.idxFront = f.idxFront /\ J.idxBack = f.idxBack
          /\ J.kind = f.kind /\ J.of = f.of /\ J.front = f.front
          /\ J.back = Append(f.back, bit) /\ J.done = f.done
      BY <1>2, <2>2, <2>5 DEF Iterators
    <2>7. Window(J, s)
      BY <1>1, <1>5, <2>3, <2>6 DEF Window
    <2>8. View(f, s, w) = f.last /\ View(J, s, w) = f.last \ {p} /\ w \in Nat
      BY <1>2, <2>6 DEF View, w
    <2>9. \A v \in Nat : v # w => View(J, s, v) = View(f, s, v)
      BY <2>6 DEF View, w, IteratedWord
    <2>10. bit \in Left(f, s) /\ Left(J, s) = Left(f, s) \ {bit}
      BY <2>1, <2>3, <2>8, <2>9, TakenBit
    <2>11. \A v \in Nat : v > w => View(f, s, v) = {}
      <3>1. SUFFICES ASSUME NEW v \in Nat, v > w PROVE View(f, s, v) = {}
        OBVIOUS
      <3>2. v # f.lo - 1 /\ v # f.hi /\ v \notin f.lo..(f.hi - 1)
        BY <1>2, <3>1, SMT DEF w
      <3> QED BY <3>2 DEF View
    <2>12. \A n \in Left(f, s) : n <= bit
      BY <2>1, <2>3, <2>8, <2>11, EndsOfLeft
    <2> QED BY <1>1, <2>6, <2>7, <2>10, <2>12 DEF BackAnswer, J
  <1>6. CASE f.last = {} /\ f.first # {}
    <2> DEFINE p == Highest(f.first)
               bit == f.idxFront + p
               w == f.lo - 1
    <2>1. p \in f.first /\ p \in Bits /\ \A q \in f.first : q <= p
      BY <1>2, <1>4, <1>6
    <2>2. J = [f EXCEPT !.idxBack = f.idxFront, !.first = @ \ {p}, !.back = Append(@, bit)]
      BY <1>6 DEF IterNextBack, f
    <2>3. bit = w * W + p
      BY <1>1, <1>6 DEF Window
    <2> HIDE DEF p, w
    <2>4. bit \in Nat
      BY <1>2, <1>3, <2>1, SMT
    <2>5. Append(f.back, bit) \in Seq(Nat)
      BY <1>2, <2>4
    <2> HIDE DEF bit
    <2> HIDE DEF J
    <2>6. /\ J \in Iterators /\ J.first = f.first \ {p} /\ J.last = f.last
          /\ J.lo = f.lo /\ J.hi = f.hi /\ J.idxFront = f.idxFront /\ J.idxBack = f.idxFront
          /\ J.kind = f.kind /\ J.of = f.of /\ J.front = f.front
          /\ J.back = Append(f.back, bit) /\ J.done = f.done
      BY <1>2, <2>2, <2>5 DEF Iterators
    <2>7. Window(J, s)
      <3>1. f.lo = f.hi /\ ~(f.lo < f.hi) /\ f.idxFront <= f.idxFront
        BY <1>1, <1>2, <1>6, SMT
      <3> QED BY <1>1, <1>6, <2>6, <3>1 DEF Window
    <2>8. View(f, s, w) = f.first /\ View(J, s, w) = f.first \ {p} /\ w \in Nat
      BY <1>2, <2>6 DEF View, w
    <2>9. \A v \in Nat : v # w => View(J, s, v) = View(f, s, v)
      BY <2>6 DEF View, w, IteratedWord
    <2>10. bit \in Left(f, s) /\ Left(J, s) = Left(f, s) \ {bit}
      BY <2>1, <2>3, <2>8, <2>9, TakenBit
    <2>11. \A v \in Nat : v > w => View(f, s, v) = {}
      <3>1. SUFFICES ASSUME NEW v \in Nat, v > w PROVE View(f, s, v) = {}
        OBVIOUS
      <3>2. v # f.lo - 1 /\ v \notin f.lo..(f.hi - 1)
        BY <1>1, <1>2, <1>6, <3>1, SMT DEF w
      <3> QED BY <1>6, <3>2 DEF View
    <2>12. \A n \in Left(f, s) : n <= bit
      BY <2>1, <2>3, <2>8, <2>11, EndsOfLeft
    <2> QED BY <1>1, <2>6, <2>7, <2>10, <2>12 DEF BackAnswer, J
  <1>7. CASE f.first = {} /\ f.last = {}
    <2>1. J = [f EXCEPT !.done = TRUE]
      BY <1>7 DEF IterNextBack, f
    <2> HIDE DEF J
    <2>2. /\ J \in Iterators /\ J.first = f.first /\ J.last = f.last
          /\ J.lo = f.lo /\ J.hi = f.hi /\ J.idxFront = f.idxFront /\ J.idxBack = f.idxBack
          /\ J.kind = f.kind /\ J.of = f.of /\ J.back = f.back
          /\ J.front = f.front /\ J.done
      BY <1>2, <2>1 DEF Iterators
    <2>3. Window(J, s)
      BY <1>1, <1>7, <2>2 DEF Window
    <2>4. f.lo..(f.hi - 1) = {}
      BY <1>1, <1>2, <1>7, SMT
    <2>5. \A v \in Nat : View(f, s, v) = {} /\ View(J, s, v) = {}
      BY <1>7, <2>2, <2>4 DEF View
    <2>6. Left(f, s) = {} /\ Left(J, s) = {}
      <3>1. \A m \in Nat : m \div W \in Nat
        BY PositionOf
      <3> QED BY <2>5, <3>1 DEF Left
    <2> QED BY <1>1, <2>2, <2>3, <2>6 DEF BackAnswer, J
  <1> QED BY <1>5, <1>6, <1>7

LEMMA NextAnswers ==
  ASSUME NEW s, Good(s), NEW it, Window(it, s), Answers(it, s),
         NEW J, Window(J, s), NextAnswer(it, J, s)
  PROVE  Answers(J, s)
  <1>1. /\ J.kind = it.kind /\ J.back = it.back
        /\ Wanted(J, s) = Wanted(it, s)
        /\ Left(it, s) \subseteq Nat /\ s.length \in Nat
        /\ it.front \in Seq(Nat) /\ it.back \in Seq(Nat)
    BY GoodElim DEF NextAnswer, Wanted, Left, Window, Iterators
  <1>2. CASE Left(it, s) = {} /\ Left(J, s) = {} /\ J.front = it.front /\ J.done
    <2>1. Returned(J) = Returned(it) /\ Seen(it, s) = {} /\ Seen(J, s) = {}
      BY <1>1, <1>2 DEF Returned, Seen
    <2> QED BY <1>1, <1>2, <2>1 DEF Answers
  <1>3. ASSUME NEW m \in Left(it, s), \A n \in Left(it, s) : m <= n,
               Left(J, s) = Left(it, s) \ {m},
               it.kind = "zeroes", m >= s.length, J.front = it.front, J.done
        PROVE  Answers(J, s)
    <2>1. Seen(it, s) = {}
      <3>1. ASSUME NEW n \in Left(it, s), n \in Universe(s) PROVE FALSE
        BY <1>1, <1>3, <3>1, SMT DEF Universe
      <3> QED BY <1>3, <3>1 DEF Seen
    <2>2. Seen(J, s) = {}
      BY <1>1, <1>3, <2>1 DEF Seen
    <2>3. Returned(J) = Returned(it)
      BY <1>1, <1>3 DEF Returned
    <2> QED BY <1>1, <1>3, <2>1, <2>2, <2>3 DEF Answers
  <1>4. ASSUME NEW m \in Left(it, s), \A n \in Left(it, s) : m <= n,
               Left(J, s) = Left(it, s) \ {m},
               ~(it.kind = "zeroes" /\ m >= s.length),
               J.front = Append(it.front, m), J.done = it.done
        PROVE  Answers(J, s)
    <2>1. m \in Nat /\ m \in Seen(it, s)
      <3>1. it.kind = "zeroes" => m \in Universe(s)
        BY <1>1, <1>4, SMT DEF Universe
      <3> QED BY <1>1, <1>4, <3>1 DEF Seen
    <2>2. Seen(J, s) = Seen(it, s) \ {m}
      BY <1>1, <1>4 DEF Seen
    <2>3. \A a \in Elements(it.front) : a < m
      BY DEF Answers
    <2>4. Elements(J.front) = Elements(it.front) \cup {m} /\ Ascending(J.front)
      BY <1>1, <1>4, <2>1, <2>3, AppendElements DEF Answers
    <2>5. Returned(J) = Returned(it) \cup {m}
      BY <1>1, <2>4 DEF Returned
    <2>6. \A n \in Left(J, s) : m < n
      BY <1>1, <1>4, SMT
    <2>7. \A b \in Elements(J.back) : m < b
      BY <1>1 DEF Answers
    <2>8. \A a \in Elements(J.front) : \A n \in Left(J, s) : a < n
      BY <1>4, <2>4, <2>6 DEF Answers
    <2>9. \A b \in Elements(J.back) : \A n \in Left(J, s) : n < b
      BY <1>1, <1>4 DEF Answers
    <2>10. \A a \in Elements(J.front), b \in Elements(J.back) : a < b
      BY <1>1, <2>4, <2>7 DEF Answers
    <2>11. Returned(J) \subseteq Wanted(J, s) /\ Seen(J, s) = Wanted(J, s) \ Returned(J)
      BY <1>1, <2>1, <2>2, <2>5 DEF Answers
    <2>12. ~it.done
      BY <2>1 DEF Answers
    <2>13. Descending(J.back)
      BY <1>1 DEF Answers
    <2> QED BY <1>4, <2>4, <2>8, <2>9, <2>10, <2>11, <2>12, <2>13 DEF Answers
  <1> QED BY <1>2, <1>3, <1>4 DEF NextAnswer

LEMMA BackAnswers ==
  ASSUME NEW s, Good(s), NEW it, Window(it, s), Answers(it, s), it.kind # "zeroes",
         NEW J, Window(J, s), BackAnswer(it, J, s)
  PROVE  Answers(J, s)
  <1>1. /\ J.kind = it.kind /\ J.front = it.front
        /\ Wanted(J, s) = Wanted(it, s)
        /\ Left(it, s) \subseteq Nat
        /\ it.front \in Seq(Nat) /\ it.back \in Seq(Nat)
    BY DEF BackAnswer, Wanted, Left, Window, Iterators
  <1>2. CASE Left(it, s) = {} /\ Left(J, s) = {} /\ J.back = it.back /\ J.done
    <2>1. Returned(J) = Returned(it) /\ Seen(it, s) = {} /\ Seen(J, s) = {}
      BY <1>1, <1>2 DEF Returned, Seen
    <2> QED BY <1>1, <1>2, <2>1 DEF Answers
  <1>3. ASSUME NEW m \in Left(it, s), \A n \in Left(it, s) : n <= m,
               Left(J, s) = Left(it, s) \ {m},
               J.back = Append(it.back, m), J.done = it.done
        PROVE  Answers(J, s)
    <2>1. m \in Nat /\ m \in Seen(it, s)
      BY <1>1, <1>3 DEF Seen
    <2>2. Seen(J, s) = Seen(it, s) \ {m}
      BY <1>1, <1>3 DEF Seen
    <2>3. \A b \in Elements(it.back) : m < b
      BY DEF Answers
    <2>4. Elements(J.back) = Elements(it.back) \cup {m} /\ Descending(J.back)
      BY <1>1, <1>3, <2>1, <2>3, AppendElements DEF Answers
    <2>5. Returned(J) = Returned(it) \cup {m}
      BY <1>1, <2>4 DEF Returned
    <2>6. \A n \in Left(J, s) : n < m
      BY <1>1, <1>3, SMT
    <2>7. \A a \in Elements(J.front) : a < m
      BY <1>1 DEF Answers
    <2>8. \A b \in Elements(J.back) : \A n \in Left(J, s) : n < b
      BY <1>3, <2>4, <2>6 DEF Answers
    <2>9. \A a \in Elements(J.front) : \A n \in Left(J, s) : a < n
      BY <1>1, <1>3 DEF Answers
    <2>10. \A a \in Elements(J.front), b \in Elements(J.back) : a < b
      BY <1>1, <2>4, <2>7 DEF Answers
    <2>11. Returned(J) \subseteq Wanted(J, s) /\ Seen(J, s) = Wanted(J, s) \ Returned(J)
      BY <1>1, <2>1, <2>2, <2>5 DEF Answers
    <2>12. ~it.done
      BY <2>1 DEF Answers
    <2>13. Ascending(J.front)
      BY <1>1 DEF Answers
    <2> QED BY <1>3, <2>4, <2>8, <2>9, <2>10, <2>11, <2>12, <2>13 DEF Answers
  <1> QED BY <1>2, <1>3 DEF BackAnswer

(* An iterator that has not returned anything has everything left. *)
LEMMA FreshAnswers ==
  ASSUME NEW s, NEW it, it.front = <<>>, it.back = <<>>, ~it.done,
         Seen(it, s) = Wanted(it, s)
  PROVE  Answers(it, s)
  <1>1. Elements(<<>>) = {} /\ Ascending(<<>>) /\ Descending(<<>>)
    BY DEF Elements, Ascending, Descending
  <1>2. Returned(it) = {}
    BY <1>1 DEF Returned
  <1> QED BY <1>1, <1>2 DEF Answers

LEMMA NewIterType ==
  ASSUME NEW kind \in {"ones", "into_ones", "zeroes"}, NEW x \in Names,
         NEW first \in SUBSET Bits, NEW last \in SUBSET Bits,
         NEW lo \in Nat, NEW hi \in Nat, NEW idxBack \in Nat
  PROVE  LET it == NewIter(kind, x, first, last, lo, hi, idxBack) IN
         /\ it \in Iterators
         /\ it.kind = kind /\ it.of = x /\ it.first = first /\ it.last = last
         /\ it.lo = lo /\ it.hi = hi /\ it.idxFront = 0 /\ it.idxBack = idxBack
         /\ it.front = <<>> /\ it.back = <<>> /\ ~it.done
  <1> DEFINE none == <<>>
             it == [kind |-> kind, of |-> x, first |-> first, last |-> last, lo |-> lo,
                    hi |-> hi, idxFront |-> 0, idxBack |-> idxBack, front |-> none,
                    back |-> none, done |-> FALSE]
  <1>1. none \in Seq(Nat)
    OBVIOUS
  <1>2. NewIter(kind, x, first, last, lo, hi, idxBack) = it
    BY DEF NewIter
  <1> HIDE DEF none
  <1>3. /\ it \in Iterators
        /\ it.kind = kind /\ it.of = x /\ it.first = first /\ it.last = last
        /\ it.lo = lo /\ it.hi = hi /\ it.idxFront = 0 /\ it.idxBack = idxBack
        /\ it.front = none /\ it.back = none /\ ~it.done
    BY <1>1 DEF Iterators
  <1> HIDE DEF it
  <1> QED BY <1>2, <1>3 DEF none

(* ones over as_slice, into_ones over all words: words 0..n-1 hold every bit. *)
LEMMA OnesStart ==
  ASSUME NEW s, Good(s), NEW x \in Names, NEW kind \in {"ones", "into_ones"},
         NEW n \in Nat, 0..(n - 1) \subseteq Words(s.length),
         \A w \in Nat : w \notin 0..(n - 1) => WordAt(s, w) = {},
         NEW idxBack \in Nat, n > 1 => idxBack = (n - 1) * W,
         NEW it, it = NewIter(kind, x, WordAt(s, 0), IF n > 1 THEN s.data[n - 1] ELSE {},
                              1, IF n > 1 THEN n - 1 ELSE 1, idxBack)
  PROVE  Window(it, s) /\ Answers(it, s) /\ it.of = x
  <1> DEFINE last == IF n > 1 THEN s.data[n - 1] ELSE {}
             hi == IF n > 1 THEN n - 1 ELSE 1
  <1>1. /\ hi \in Nat /\ 1 <= hi /\ 0 # hi /\ 1 - 1 = 0
        /\ n > 1 => hi = n - 1 /\ n - 1 \in 0..(n - 1) /\ n - 1 \in Nat
        /\ 1..(hi - 1) \subseteq 0..(n - 1) /\ (1 < hi => n > 1)
        /\ \A w \in Nat : w # 0 /\ w # hi /\ w \notin 1..(hi - 1) => w \notin 0..(n - 1)
        /\ ~(n > 1) => hi \notin 0..(n - 1)
    BY SMT
  <1> HIDE DEF hi
  <1>2. \A w \in 0..(n - 1) : WordAt(s, w) = s.data[w]
    BY WordAtType
  <1>3. last = WordAt(s, hi) /\ (last # {} => n > 1)
    BY <1>1, <1>2
  <1> HIDE DEF last
  <1>4. last \in SUBSET Bits /\ WordAt(s, 0) \in SUBSET Bits
    BY <1>3, WordAtType
  <1>5. /\ it \in Iterators
        /\ it.kind = kind /\ it.of = x /\ it.first = WordAt(s, 0) /\ it.last = last
        /\ it.lo = 1 /\ it.hi = hi /\ it.idxFront = 0 /\ it.idxBack = idxBack
        /\ it.front = <<>> /\ it.back = <<>> /\ ~it.done
    <2>1. it = NewIter(kind, x, WordAt(s, 0), last, 1, hi, idxBack)
      BY DEF last, hi
    <2>2. kind \in {"ones", "into_ones", "zeroes"} /\ 1 \in Nat
      OBVIOUS
    <2> QED BY <1>1, <1>4, <2>1, <2>2, NewIterType
  <1>6. kind # "zeroes"
    OBVIOUS
  <1>7. Window(it, s)
    <2>1. it.lo..(it.hi - 1) \subseteq DOMAIN s.data
      BY <1>1, <1>5, GoodElim
    <2>2. 0 * W = 0 /\ 0 <= idxBack
      BY WidthAssumption, SMT
    <2>3. last # {} \/ 1 < hi => idxBack = hi * W
      BY <1>1, <1>3
    <2> QED BY <1>1, <1>5, <1>6, <2>1, <2>2, <2>3 DEF Window
  <1>8. ASSUME NEW w \in Nat PROVE View(it, s, w) = WordAt(s, w)
    <2>1. CASE w = 0
      BY <1>1, <1>5, <2>1 DEF View
    <2>2. CASE w = hi
      BY <1>1, <1>3, <1>5, <2>2 DEF View
    <2>3. CASE w \in 1..(hi - 1)
      <3>1. w # 0 /\ w # hi
        BY <1>1, <2>3, SMT
      <3>2. View(it, s, w) = s.data[w]
        BY <1>1, <1>5, <1>6, <2>3, <3>1 DEF View, IteratedWord
      <3> QED BY <1>1, <1>2, <2>3, <3>2
    <2>4. CASE w # 0 /\ w # hi /\ w \notin 1..(hi - 1)
      <3>1. WordAt(s, w) = {}
        BY <1>1, <2>4
      <3> QED BY <1>1, <1>5, <2>4, <3>1 DEF View
    <2> QED BY <2>1, <2>2, <2>3, <2>4
  <1>9. Left(it, s) = Members(s)
    <2>1. ASSUME NEW m \in Nat PROVE m \in Left(it, s) <=> m \in Members(s)
      <3>1. PICK w \in Nat : \E p \in Bits : w * W + p = m
        BY PositionOf
      <3>2. PICK p \in Bits : w * W + p = m
        BY <3>1
      <3> QED BY <1>8, <3>2, LeftIff, MemberIff
    <2>2. Left(it, s) \subseteq Nat /\ Members(s) \subseteq Nat
      BY MembersBelow DEF Left
    <2> QED BY <2>1, <2>2
  <1>10. Seen(it, s) = Wanted(it, s)
    BY <1>5, <1>6, <1>9 DEF Seen, Wanted
  <1> QED BY <1>5, <1>7, <1>10, FreshAnswers

LEMMA ZeroesStart ==
  ASSUME NEW s, Good(s), NEW x \in Names, NEW it,
         it = NewIter("zeroes", x, Bits \ SliceAt(s, 0), {}, 1,
                      IF UsizeLen(s.length) > 1 THEN UsizeLen(s.length) ELSE 1, 0)
  PROVE  Window(it, s) /\ Answers(it, s) /\ it.of = x
  <1> DEFINE n == UsizeLen(s.length)
             hi == IF n > 1 THEN n ELSE 1
  <1>1. n \in Nat /\ 0..(n - 1) \subseteq Words(s.length) /\ s.length \in Nat
    BY GoodElim, SliceInWords
  <1>2. \A w \in Nat, p \in Bits : w * W + p < s.length => w \in 0..(n - 1)
    BY <1>1, BitInSlice
  <1> HIDE DEF n
  <1>3. /\ hi \in Nat /\ 1 <= hi /\ 1 - 1 = 0
        /\ 1..(hi - 1) \subseteq 0..(n - 1)
        /\ \A w \in 0..(n - 1) : w \in Nat /\ (w = 0 \/ (w # 0 /\ w # hi /\ w \in 1..(hi - 1)))
    BY <1>1, SMT
  <1> HIDE DEF hi
  <1>4. /\ it \in Iterators
         /\ it.kind = "zeroes" /\ it.of = x /\ it.first = Bits \ SliceAt(s, 0) /\ it.last = {}
         /\ it.lo = 1 /\ it.hi = hi /\ it.idxFront = 0 /\ it.idxBack = 0
         /\ it.front = <<>> /\ it.back = <<>> /\ ~it.done
    <2> DEFINE A == Bits \ SliceAt(s, 0)
               none == {}
    <2>1. it = NewIter("zeroes", x, A, none, 1, hi, 0)
      BY DEF n, hi
    <2>2. /\ A \in SUBSET Bits /\ none \in SUBSET Bits /\ 1 \in Nat /\ 0 \in Nat
          /\ "zeroes" \in {"ones", "into_ones", "zeroes"}
      OBVIOUS
    <2> HIDE DEF A, none
    <2>3. /\ it \in Iterators
          /\ it.kind = "zeroes" /\ it.of = x /\ it.first = A /\ it.last = none
          /\ it.lo = 1 /\ it.hi = hi /\ it.idxFront = 0 /\ it.idxBack = 0
          /\ it.front = <<>> /\ it.back = <<>> /\ ~it.done
      BY <1>3, <2>1, <2>2, NewIterType
    <2> QED BY <2>3 DEF A, none
  <1>5. Window(it, s)
    <2>1. it.lo..(it.hi - 1) \subseteq DOMAIN s.data
      BY <1>1, <1>3, <1>4, GoodElim
    <2>2. (it.lo - 1) * W = 0
      BY <1>4, WidthAssumption, SMT
    <2>3. 1 <= it.lo /\ it.lo <= it.hi
      BY <1>3, <1>4
    <2>4. it.kind = "zeroes" /\ it.last = {} /\ it.idxFront = (it.lo - 1) * W
      BY <1>4, <2>2
    <2> QED BY <1>4, <2>1, <2>3, <2>4, Zenon DEF Window
  <1>6. ASSUME NEW w \in 0..(n - 1) PROVE View(it, s, w) = Bits \ WordAt(s, w)
    <2>1. CASE w = 0
      <3>1. SliceAt(s, 0) = WordAt(s, 0)
        BY SliceAtWord
      <3> QED BY <1>3, <1>4, <2>1, <3>1 DEF View
    <2>2. CASE w # 0 /\ w # hi /\ w \in 1..(hi - 1)
      <3>1. View(it, s, w) = Bits \ s.data[w]
        BY <1>3, <1>4, <2>2 DEF View, IteratedWord
      <3> QED BY <1>1, <3>1, WordAtType
    <2> QED BY <1>3, <2>1, <2>2
  <1>7. ASSUME NEW m \in Universe(s) PROVE m \in Left(it, s) <=> m \notin Members(s)
    <2>1. m \in Nat /\ m < s.length
      BY <1>1, SMT DEF Universe
    <2>2. PICK w \in Nat : \E p \in Bits : w * W + p = m
      BY <2>1, PositionOf
    <2>3. PICK p \in Bits : w * W + p = m
      BY <2>2
    <2>4. w \in 0..(n - 1)
      BY <1>2, <2>1, <2>3
    <2> QED BY <1>6, <2>3, <2>4, LeftIff, MemberIff
  <1>8. Seen(it, s) = Wanted(it, s)
    BY <1>7, <1>4 DEF Seen, Wanted
  <1> QED BY <1>5, <1>8, <1>4, FreshAnswers

LEMMA BorrowStart ==
  ASSUME NEW x \in Names, Good(set[x]), NEW it \in {Ones(x), IntoOnes(x), Zeroes(x)}
  PROVE  Window(it, set[x]) /\ Answers(it, set[x]) /\ it.of = x
  <1> DEFINE s == set[x]
             u == UsizeLen(s.length)
             n == K * SimdBlockLen(s.length)
  <1>1. /\ s.length \in Nat /\ u \in Nat /\ n \in Nat /\ Words(s.length) = 0..(n - 1)
        /\ 0..(u - 1) \subseteq Words(s.length) /\ Slice(s) = 0..(u - 1)
    BY GoodElim, SliceInWords, WordsType DEF Words, Slice
  <1>2. SliceAt(s, 0) = WordAt(s, 0)
    BY SliceAtWord
  <1>3. \A w \in Nat : w \notin 0..(u - 1) => WordAt(s, w) = {}
    BY <1>1, SliceAtWord DEF SliceAt
  <1>4. \A w \in Nat : w \notin 0..(n - 1) => WordAt(s, w) = {}
    BY <1>1, WordAtType
  <1>5. Ones(x) = NewIter("ones", x, WordAt(s, 0), IF u > 1 THEN s.data[u - 1] ELSE {},
                          1, IF u > 1 THEN u - 1 ELSE 1, (IF u > 1 THEN u - 1 ELSE u) * W)
    BY <1>2 DEF Ones
  <1>6. IntoOnes(x) = NewIter("into_ones", x, WordAt(s, 0), IF n > 1 THEN s.data[n - 1] ELSE {},
                              1, IF n > 1 THEN n - 1 ELSE 1, (IF n > 0 THEN n - 1 ELSE 0) * W)
    BY DEF IntoOnes
  <1>7. Zeroes(x) = NewIter("zeroes", x, Bits \ SliceAt(s, 0), {}, 1, IF u > 1 THEN u ELSE 1, 0)
    BY DEF Zeroes
  <1> HIDE DEF s, n
  <1>8. CASE it = Ones(x)
    <2> HIDE DEF u
    <2> DEFINE b == (IF u > 1 THEN u - 1 ELSE u) * W
    <2>1. b \in Nat /\ (u > 1 => b = (u - 1) * W)
      BY <1>1, WidthAssumption, SMT
    <2> HIDE DEF b
    <2>2. Ones(x) = NewIter("ones", x, WordAt(s, 0), IF u > 1 THEN s.data[u - 1] ELSE {},
                            1, IF u > 1 THEN u - 1 ELSE 1, b)
      BY <1>5 DEF b
    <2> QED BY <1>1, <1>3, <1>8, <2>1, <2>2, OnesStart DEF s
  <1>9. CASE it = IntoOnes(x)
    <2> DEFINE b == (IF n > 0 THEN n - 1 ELSE 0) * W
    <2>1. b \in Nat /\ (n > 1 => b = (n - 1) * W)
      BY <1>1, WidthAssumption, SMT
    <2> HIDE DEF b
    <2>2. IntoOnes(x) = NewIter("into_ones", x, WordAt(s, 0), IF n > 1 THEN s.data[n - 1] ELSE {},
                                1, IF n > 1 THEN n - 1 ELSE 1, b)
      BY <1>6 DEF b
    <2> QED BY <1>1, <1>4, <1>9, <2>1, <2>2, OnesStart DEF s
  <1>10. CASE it = Zeroes(x)
    BY <1>7, <1>10, ZeroesStart DEF s
  <1> QED BY <1>8, <1>9, <1>10

(* What is left lies between the two positions and the ends of their words. *)
LEMMA HintHolds ==
  ASSUME NEW s, Good(s), NEW it, Window(it, s), Answers(it, s), s = set[it.of]
  PROVE  /\ it.idxFront <= it.idxBack \/ it.kind = "zeroes"
         /\ Cardinality(Wanted(it, s) \ Returned(it)) <= UpperHint(it)
  <1>1. /\ s.length \in Nat /\ Universe(s) = 0..(s.length - 1) /\ W \in Nat /\ W - 1 \in Nat
        /\ W >= 1
    BY MembersBelow, GoodElim, WidthAssumption, SMT
  <1>2. /\ it.lo \in Nat /\ it.hi \in Nat /\ 1 <= it.lo /\ it.lo <= it.hi
        /\ it.idxFront \in Nat /\ it.idxBack \in Nat
    BY DEF Window, Iterators
  <1>3. CASE it.kind = "zeroes"
    <2>1. Wanted(it, s) \ Returned(it) \subseteq Universe(s)
      BY <1>3 DEF Wanted
    <2>2. IsFiniteSet(0..(s.length - 1)) /\ Cardinality(0..(s.length - 1)) = s.length
      <3>1. 0 \in Int /\ s.length - 1 \in Int
        BY <1>1, SMT
      <3>2. /\ IsFiniteSet(0..(s.length - 1))
            /\ Cardinality(0..(s.length - 1)) = IF 0 > s.length - 1 THEN 0 ELSE s.length - 1 - 0 + 1
        BY <3>1, FS_Interval
      <3> QED BY <1>1, <3>2, SMT
    <2>3. Cardinality(Wanted(it, s) \ Returned(it)) <= s.length
      BY <1>1, <2>1, <2>2, FS_Subset
    <2> QED BY <1>3, <2>3 DEF UpperHint
  <1>4. CASE it.kind # "zeroes"
    <2> DEFINE a == it.idxFront
               b == it.idxBack
               L == Left(it, s)
    <2>1. a \in Nat /\ b \in Nat /\ a <= b
      BY <1>2, <1>4 DEF Window
    <2>2. Wanted(it, s) \ Returned(it) = L
      BY <1>4 DEF Answers, Seen
    <2>3. UpperHint(it) = b - a + 2 * W
      BY <1>4 DEF UpperHint
    <2>4. ASSUME NEW m \in L
          PROVE  \E v \in Nat : \E q \in Bits : m = v * W + q /\ q \in View(it, s, v)
      <3>1. m \in Nat
        BY DEF Left
      <3>2. PICK v \in Nat : \E q \in Bits : v * W + q = m
        BY <3>1, PositionOf
      <3>3. PICK q \in Bits : v * W + q = m
        BY <3>2
      <3> QED BY <3>3, LeftIff
    <2>5. 0 \in Bits /\ W - 1 \in Bits /\ \A q \in Bits : q \in Nat /\ 0 <= q /\ q <= W - 1
      BY <1>1, SMT DEF Bits
    <2>6. \A x, y, n \in Nat : y + 1 = x + n => IsFiniteSet(x..y) /\ Cardinality(x..y) = n
      <3>1. SUFFICES ASSUME NEW x \in Nat, NEW y \in Nat, NEW n \in Nat, y + 1 = x + n
                     PROVE  IsFiniteSet(x..y) /\ Cardinality(x..y) = n
        OBVIOUS
      <3>2. x \in Int /\ y \in Int
        BY SMT
      <3>3. IsFiniteSet(x..y) /\ Cardinality(x..y) = IF x > y THEN 0 ELSE y - x + 1
        BY <3>2, FS_Interval
      <3> QED BY <3>1, <3>3, SMT
    <2>7. CASE it.lo < it.hi
      <3>1. a = (it.lo - 1) * W /\ b = it.hi * W
        BY <1>4, <2>7 DEF Window
      <3>2. L \subseteq a..(b + W - 1)
        <4>1. SUFFICES ASSUME NEW m \in L PROVE m \in a..(b + W - 1)
          OBVIOUS
        <4>2. PICK v \in Nat : \E q \in Bits : m = v * W + q /\ q \in View(it, s, v)
          BY <2>4
        <4>3. PICK q \in Bits : m = v * W + q /\ q \in View(it, s, v)
          BY <4>2
        <4>4. it.lo - 1 <= v /\ v <= it.hi /\ it.lo - 1 \in Nat
          <5>1. v = it.lo - 1 \/ v = it.hi \/ v \in it.lo..(it.hi - 1)
            BY <4>3 DEF View
          <5> QED BY <1>2, <5>1, SMT
        <4>5. (it.lo - 1) * W + 0 <= v * W + q
          BY <2>5, <4>4, WordOrder
        <4>6. v * W + q <= it.hi * W + (W - 1)
          BY <1>2, <2>5, <4>4, WordOrder
        <4>7. m \in Nat
          BY DEF Left
        <4> QED BY <1>1, <2>1, <3>1, <4>3, <4>5, <4>6, <4>7, SMT
      <3> HIDE DEF a, b, L
      <3> DEFINE e == b + W - 1
                 n == b + W - a
      <3>3. e \in Nat /\ n \in Nat /\ e + 1 = a + n
        BY <1>1, <2>1, SMT
      <3>4. n <= b - a + 2 * W
        BY <1>1, <2>1, SMT
      <3> HIDE DEF e, n
      <3>5. IsFiniteSet(a..e) /\ Cardinality(a..e) = n
        BY <2>1, <2>6, <3>3
      <3>7. L \subseteq a..e
        BY <3>2 DEF e
      <3>8. Cardinality(L) \in Nat /\ Cardinality(L) <= n
        BY <3>5, <3>7, FS_Subset, FS_CardinalityType
      <3>6. Cardinality(L) <= b - a + 2 * W
        BY <1>1, <2>1, <3>3, <3>4, <3>8, SMT
      <3> QED BY <2>1, <2>2, <2>3, <3>6 DEF a, b
    <2>8. CASE it.lo = it.hi
      <3> DEFINE A == a..(a + W - 1)
                 B == b..(b + W - 1)
      <3>1. L \subseteq A \cup B
        <4>1. SUFFICES ASSUME NEW m \in L PROVE m \in A \cup B
          OBVIOUS
        <4>2. PICK v \in Nat : \E q \in Bits : m = v * W + q /\ q \in View(it, s, v)
          BY <2>4
        <4>3. PICK q \in Bits : m = v * W + q /\ q \in View(it, s, v)
          BY <4>2
        <4>4. (v = it.lo - 1 /\ q \in it.first) \/ (v = it.hi /\ q \in it.last)
          <5>1. v \notin it.lo..(it.hi - 1)
            BY <1>2, <2>8, SMT
          <5>2. q \in View(it, s, v)
            BY <4>3
          <5>3. CASE v = it.lo - 1
            BY <5>2, <5>3 DEF View
          <5>4. CASE v # it.lo - 1 /\ v = it.hi
            BY <5>2, <5>4 DEF View
          <5>5. CASE v # it.lo - 1 /\ v # it.hi
            BY <5>1, <5>2, <5>5 DEF View
          <5> QED BY <5>3, <5>4, <5>5
        <4>5. q \in Nat /\ 0 <= q /\ q <= W - 1
          BY <2>5
        <4>6. CASE v = it.lo - 1 /\ q \in it.first
          <5>1. m = a + q
            BY <4>3, <4>6 DEF Window
          <5> QED BY <1>1, <2>1, <4>5, <5>1, SMT
        <4>7. CASE v = it.hi /\ q \in it.last
          <5>1. m = b + q
            BY <1>4, <4>3, <4>7 DEF Window
          <5> QED BY <1>1, <2>1, <4>5, <5>1, SMT
        <4> QED BY <4>4, <4>6, <4>7
      <3> HIDE DEF a, b, L
      <3> DEFINE d == a + W - 1
                 e == b + W - 1
      <3>2. d \in Nat /\ e \in Nat /\ d + 1 = a + W /\ e + 1 = b + W
        BY <1>1, <2>1, SMT
      <3>8. A = a..d /\ B = b..e
        OBVIOUS
      <3> HIDE DEF d, e, A, B
      <3>3. IsFiniteSet(A) /\ IsFiniteSet(B) /\ Cardinality(A) = W /\ Cardinality(B) = W
        BY <1>1, <2>1, <2>6, <3>2, <3>8
      <3>4. /\ IsFiniteSet(A \cup B)
            /\ Cardinality(A \cup B) = Cardinality(A) + Cardinality(B) - Cardinality(A \cap B)
        BY <3>3, FS_Union
      <3>5. Cardinality(A \cap B) \in Nat /\ Cardinality(A \cup B) \in Nat
        BY <3>3, <3>4, FS_Intersection, FS_CardinalityType
      <3>6. Cardinality(L) \in Nat /\ Cardinality(L) <= Cardinality(A \cup B)
        BY <3>1, <3>4, FS_Subset, FS_CardinalityType
      <3>7. Cardinality(L) <= b - a + 2 * W
        BY <1>1, <2>1, <3>3, <3>4, <3>5, <3>6, SMT
      <3> QED BY <2>1, <2>2, <2>3, <3>7 DEF a, b
    <2> QED BY <1>2, <2>7, <2>8, SMT
  <1> QED BY <1>3, <1>4

LEMMA IteratorStep ==
  ASSUME Inv, IteratorInv, [Next]_vars
  PROVE  IteratorInv'
  <1>1. \A x \in Names : Good(set[x])
    BY DEF Inv
  <1>2. ASSUME iter' = NoIter PROVE IteratorInv'
    BY <1>2 DEF IteratorInv
  <1>3. ASSUME NEW x \in Names, Borrow(x) PROVE IteratorInv'
    <2>1. iter' \in {Ones(x), IntoOnes(x), Zeroes(x)} /\ set' = set
      BY <1>3 DEF Borrow
    <2>2. Window(iter', set[x]) /\ Answers(iter', set[x]) /\ iter'.of = x
      BY <1>1, <2>1, BorrowStart
    <2>3. Window(iter', set'[iter'.of]) /\ Answers(iter', set'[iter'.of])
      BY <2>1, <2>2
    <2> QED BY <2>3 DEF IteratorInv
  <1>4. ASSUME iter # NoIter
        PROVE  /\ Good(set[iter.of]) /\ Window(iter, set[iter.of]) /\ Answers(iter, set[iter.of])
    <2>1. Window(iter, set[iter.of]) /\ Answers(iter, set[iter.of])
      BY <1>4 DEF IteratorInv
    <2>2. iter.of \in Names
      BY <2>1 DEF Window, Iterators
    <2> QED BY <1>1, <2>1, <2>2
  <1>5. CASE TakeFront
    <2>1. iter # NoIter /\ iter' = IterNext(iter) /\ set' = set
      BY <1>5 DEF TakeFront
    <2> DEFINE s == set[iter.of]
    <2>2. Window(iter', s) /\ NextAnswer(iter, iter', s)
      BY <1>4, <2>1, NextStep
    <2>3. Answers(iter', s)
      BY <1>4, <2>1, <2>2, NextAnswers
    <2>4. iter'.of = iter.of
      BY <2>2 DEF NextAnswer
    <2>5. Window(iter', set'[iter'.of]) /\ Answers(iter', set'[iter'.of])
      BY <2>1, <2>2, <2>3, <2>4
    <2> QED BY <2>5 DEF IteratorInv
  <1>6. CASE TakeBack
    <2>1. iter # NoIter /\ iter.kind # "zeroes" /\ iter' = IterNextBack(iter) /\ set' = set
      BY <1>6 DEF TakeBack
    <2> DEFINE s == set[iter.of]
    <2>2. Window(iter', s) /\ BackAnswer(iter, iter', s)
      BY <1>4, <2>1, BackStep
    <2>3. Answers(iter', s)
      BY <1>4, <2>1, <2>2, BackAnswers
    <2>4. iter'.of = iter.of
      BY <2>2 DEF BackAnswer
    <2>5. Window(iter', set'[iter'.of]) /\ Answers(iter', set'[iter'.of])
      BY <2>1, <2>2, <2>3, <2>4
    <2> QED BY <2>5 DEF IteratorInv
  <1>7. ASSUME NEW x, NEW s, Becomes(x, s) PROVE iter' = NoIter
    BY <1>7 DEF Becomes
  <1>8. ASSUME NEW x \in Names, Create(x) \/ ChangeBit(x) \/ ChangeRange(x) \/ Empty(x)
        PROVE  iter' = NoIter
    BY <1>7, <1>8 DEF Create, ChangeBit, ChangeRange, Empty
  <1>9. ASSUME NEW x \in Names, NEW y \in Names, Combine(x, y) \/ CreateFrom(x, y)
        PROVE  iter' = NoIter
    BY <1>7, <1>9 DEF Combine, CreateFrom
  <1>10. CASE Return
    BY <1>2, <1>10 DEF Return
  <1>11. CASE UNCHANGED vars
    <2>1. set' = set /\ iter' = iter
      BY <1>11 DEF vars
    <2>2. iter' # NoIter => Window(iter', set'[iter'.of]) /\ Answers(iter', set'[iter'.of])
      BY <1>4, <2>1
    <2> QED BY <2>2 DEF IteratorInv
  <1> QED BY <1>2, <1>3, <1>5, <1>6, <1>8, <1>9, <1>10, <1>11 DEF Next

LEMMA Iterating ==
  ASSUME SurplusBits = FALSE
  PROVE  Spec => [](Inv /\ IteratorInv)
  <1>1. Init => IteratorInv
    BY DEF Init, IteratorInv
  <1>2. Inv /\ IteratorInv /\ [Next]_vars => IteratorInv'
    BY IteratorStep
  <1> QED BY <1>1, <1>2, Reachable, PTL DEF Spec

(* For every width of words and blocks: an iterator returns every element once,
   next the smallest one that is left and next_back the greatest, in whatever
   order they are called; after the first None nothing is left; and size_hint
   neither underflows nor promises less than what comes. *)
THEOREM IteratorsCorrect ==
  ASSUME SurplusBits = FALSE
  PROVE  Spec => []IteratorSound
  <1>1. Inv /\ IteratorInv => IteratorSound
    <2> SUFFICES ASSUME Inv, IteratorInv, iter # NoIter
                 PROVE  IteratorExact /\ HintSound
      BY DEF IteratorSound, IteratorExact, HintSound
    <2> DEFINE s == set[iter.of]
    <2>1. Window(iter, s) /\ Answers(iter, s)
      BY DEF IteratorInv
    <2>2. Good(s)
      BY <2>1 DEF Inv, Window, Iterators
    <2>3. Expected(iter) = Wanted(iter, s)
      BY DEF Expected, Wanted
    <2>4. HintSound
      BY <2>1, <2>2, <2>3, HintHolds DEF HintSound
    <2>5. \A c \in Expected(iter) \ Returned(iter) : c \in Left(iter, s)
      BY <2>1, <2>3 DEF Answers, Seen
    <2>6. IteratorExact
      <3>1. iter.done => Returned(iter) = Expected(iter)
        BY <2>1, <2>3 DEF Answers
      <3> QED BY <2>1, <2>3, <2>5, <3>1 DEF IteratorExact, Answers
    <2> QED BY <2>4, <2>6
  <1> QED BY <1>1, Iterating, PTL

(* Sets own the blocks their length asks for, and an iterator borrows a set. *)
THEOREM TypeCorrect ==
  ASSUME SurplusBits = FALSE
  PROVE  Spec => []TypeOK
  <1>1. Inv /\ IteratorInv => TypeOK
    BY DEF Inv, Good, IteratorInv, Window, Iterators, TypeOK
  <1> QED BY <1>1, Iterating, PTL
=============================================================================
