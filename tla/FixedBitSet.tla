------------------------------ MODULE FixedBitSet ------------------------------
(***************************************************************************)
(* The bit sets of fixedbitset/src/lib.rs: a length in bits and a vector   *)
(* of SIMD blocks, each of K words (usize) of W bits. A word is modelled   *)
(* by the set of its positions that are 1, so `|` is \cup and `& !` is \.  *)
(*                                                                         *)
(* The operations of the crate are operators from bit sets to bit sets;    *)
(* the behaviours are a caller that works on several bit sets and iterates *)
(* over one of them from both ends. What an operation returns is compared  *)
(* with the same operation on the set of numbers the bit set stands for.   *)
(***************************************************************************)
EXTENDS Integers, Sequences, FiniteSets

CONSTANTS
  W,            (* BITS, the bits of a word                                  *)
  K,            (* Block::USIZE_COUNT, the words of a SIMD block             *)
  MaxLen,       (* bound: the longest bit set                                *)
  Names,        (* the caller's variables of type FixedBitSet                *)
  SurplusBits   (* may a caller give with_capacity_and_blocks a last block
                   with bits at or behind the length?                        *)

ASSUME WidthAssumption ==
  /\ W \in Nat \ {0} /\ K \in Nat \ {0}
  /\ MaxLen \in Nat
  /\ SurplusBits \in BOOLEAN

VARIABLES
  set,          (* the bit sets                                              *)
  iter          (* the iterator that is alive, which borrows its set         *)

vars == <<set, iter>>

Bits == 0..(W - 1)

(* div_rem, and one block more for a rest. *)
BlocksFor(bits, size) == bits \div size + (IF bits % size > 0 THEN 1 ELSE 0)

UsizeLen(length)     == BlocksFor(length, W)
SimdBlockLen(length) == BlocksFor(length, K * W)

(* The words a bit set of this length owns, and those that as_slice shows. *)
Words(length) == 0..(K * SimdBlockLen(length) - 1)
Slice(s)      == 0..(UsizeLen(s.length) - 1)

BitSets(length) == [length : {length}, data : [Words(length) -> SUBSET Bits]]

(* A word of a bit set, and the empty word behind its end. *)
WordAt(s, w) == IF w \in DOMAIN s.data THEN s.data[w] ELSE {}

(* What the bit set stands for. *)
Members(s)   == UNION {{w * W + p : p \in s.data[w]} : w \in DOMAIN s.data}
Universe(s)  == 0..(s.length - 1)

SymDiff(A, B) == (A \ B) \cup (B \ A)
Lowest(A)  == CHOOSE x \in A : \A y \in A : x <= y
Highest(A) == CHOOSE x \in A : \A y \in A : x >= y
-----------------------------------------------------------------------------
WithCapacity(bits) == [length |-> bits, data |-> [w \in Words(bits) |-> {}]]

GrowLengthOnly(s, bits) == [s EXCEPT !.length = bits] \* mutant

(* Vec::resize keeps the words there are and fills the new ones with NONE. *)
GrowInner(s, bits) ==
  [length |-> bits, data |-> [w \in Words(bits) |-> WordAt(s, w)]]

Grow(s, bits) == IF bits > s.length THEN GrowInner(s, bits) ELSE s

(* The word `bit \div W` of the bit set is assigned. *)
Assign(s, bit, word) == [s EXCEPT !.data[bit \div W] = word]

WordOf(s, bit) == s.data[bit \div W]

Contains(s, bit) == bit < s.length /\ bit % W \in WordOf(s, bit)

(* insert and put; remove; toggle; set; copy_bit. All panic past the length. *)
Insert(s, bit) == Assign(s, bit, WordOf(s, bit) \cup {bit % W})
Remove(s, bit) == Assign(s, bit, WordOf(s, bit) \ {bit % W})
Toggle(s, bit) == Assign(s, bit, SymDiff(WordOf(s, bit), {bit % W}))
Set(s, bit, enabled) == IF enabled THEN Insert(s, bit) ELSE Remove(s, bit)
CopyBit(s, from, to) == Set(s, to, Contains(s, from))

GrowAndInsert(s, bit) == Insert(Grow(s, bit + 1), bit)
Extend(s, bit) == Insert(IF bit >= s.length THEN Grow(s, bit + 1) ELSE s, bit)
Clear(s) == [s EXCEPT !.data = [w \in DOMAIN s.data |-> {}]]

(* with_capacity_and_blocks: blocks that are missing leave zeros. *)
WithBlocks(bits, blocks) ==
  [WithCapacity(bits) EXCEPT !.data =
     [w \in Words(bits) |-> IF w < UsizeLen(bits) /\ w < Len(blocks) THEN blocks[w + 1] ELSE {}]]
-----------------------------------------------------------------------------
MaskAtWholeEnd(start, end, w) == \* mutant
  {p \in Bits : /\ start \div W <= w /\ w <= end \div W
                /\ w = start \div W => p >= start % W
                /\ w = end \div W => end % W > 0}

(* Masks: the bits of word w that lie in start..end-1, from the masks of the
   first and of the last word. The last word may lie behind the bit set, when
   end is a multiple of W; its mask is empty and not returned. *)
MaskAt(start, end, w) ==
  {p \in Bits : /\ start \div W <= w /\ w <= end \div W
                /\ w = start \div W => p >= start % W
                /\ w = end \div W => p < end % W}

MaskBlocks(start, end) ==
  {w \in (start \div W)..(end \div W) : MaskAt(start, end, w) # {}}

Ranges(s) == {r \in (0..s.length) \X (0..s.length) : r[1] <= r[2]}

(* f applied to every word that a mask is returned for. *)
OnRange(s, r, f(_, _)) ==
  [s EXCEPT !.data = [w \in DOMAIN s.data |->
     IF w \in MaskBlocks(r[1], r[2]) THEN f(s.data[w], MaskAt(r[1], r[2], w)) ELSE s.data[w]]]

InsertRange(s, r) == OnRange(s, r, LAMBDA word, mask : word \cup mask)
RemoveRange(s, r) == OnRange(s, r, LAMBDA word, mask : word \ mask)
ToggleRange(s, r) == OnRange(s, r, LAMBDA word, mask : SymDiff(word, mask))
SetRange(s, r, enabled) == IF enabled THEN InsertRange(s, r) ELSE RemoveRange(s, r)

(* The pairs of a word and a position in it: how many there are is what adding
   up count_ones gives. *)
Pairs(blocks, word(_)) == {x \in blocks \X Bits : x[2] \in word(x[1])}

CountOnes(s, r) ==
  Cardinality(Pairs(MaskBlocks(r[1], r[2]), LAMBDA w : s.data[w] \cap MaskAt(r[1], r[2], w)))
CountZeroes(s, r) ==
  Cardinality(Pairs(MaskBlocks(r[1], r[2]), LAMBDA w : MaskAt(r[1], r[2], w) \ s.data[w]))

ContainsAllInRange(s, r) ==
  \A w \in MaskBlocks(r[1], r[2]) : MaskAt(r[1], r[2], w) \subseteq s.data[w]
ContainsAnyInRange(s, r) ==
  \E w \in MaskBlocks(r[1], r[2]) : MaskAt(r[1], r[2], w) \cap s.data[w] # {}
IsFull(s) == ContainsAllInRange(s, <<0, s.length>>)
-----------------------------------------------------------------------------
(* The in-place operations zip the SIMD blocks of both sets. *)
Zip(s, o, f(_, _)) ==
  [s EXCEPT !.data = [w \in DOMAIN s.data |->
     IF w \in DOMAIN o.data THEN f(s.data[w], o.data[w]) ELSE s.data[w]]]

GrowToNothing(s, o) == s \* mutant
GrowTo(s, o) == IF o.length >= s.length THEN Grow(s, o.length) ELSE s

UnionWith(s, o) == Zip(GrowTo(s, o), o, LAMBDA x, y : x \cup y)
DifferenceWith(s, o) == Zip(s, o, LAMBDA x, y : x \ y)
SymmetricDifferenceWith(s, o) == Zip(GrowTo(s, o), o, LAMBDA x, y : SymDiff(x, y))

IntersectCommon(s, o) == Zip(s, o, LAMBDA x, y : x \cap y) \* mutant

(* What self has beyond other is cleared. *)
IntersectWith(s, o) ==
  [s EXCEPT !.data = [w \in DOMAIN s.data |-> s.data[w] \cap WordAt(o, w)]]

(* The operators & | ^ copy the shorter or the longer vector. *)
Shorter(s, o) == IF s.length <= o.length THEN s ELSE o
Longer(s, o)  == IF s.length <= o.length THEN o ELSE s

BitAnd(s, o) == Zip(Shorter(s, o), Longer(s, o), LAMBDA x, y : x \cap y)
BitOr(s, o)  == Zip(Longer(s, o), Shorter(s, o), LAMBDA x, y : x \cup y)
BitXor(s, o) == Zip(Longer(s, o), Shorter(s, o), LAMBDA x, y : SymDiff(x, y))

(* clone_from copies the blocks into the blocks self has and shortens it. *)
CloneFrom(s, source) ==
  LET me == IF s.length < source.length THEN GrowInner(s, source.length) ELSE s
      copied == [w \in DOMAIN me.data |-> WordAt(source, w)]
  IN [length |-> source.length, data |-> [w \in Words(source.length) |-> copied[w]]]
-----------------------------------------------------------------------------
IsClear(s) == \A w \in DOMAIN s.data : s.data[w] = {}

(* The lowest SIMD block that is not empty, and the lowest word in it. *)
Minimum(s) ==
  LET block == Lowest({b \in 0..(SimdBlockLen(s.length) - 1) : \E k \in 0..(K - 1) : s.data[b * K + k] # {}})
      inner == Lowest({k \in 0..(K - 1) : s.data[block * K + k] # {}})
  IN block * K * W + inner * W + Lowest(s.data[block * K + inner])

(* The same from the end of the last SIMD block: the bits behind the highest
   one are subtracted from the bits that all blocks have. *)
HighestBelow(s, bits) ==
  LET n == SimdBlockLen(s.length)
      FromEnd(b, k) == s.data[(n - 1 - b) * K + (K - 1 - k)]
      block == Lowest({b \in 0..(n - 1) : \E k \in 0..(K - 1) : FromEnd(b, k) # {}})
      inner == Lowest({k \in 0..(K - 1) : FromEnd(block, k) # {}})
      leading == W - 1 - Highest(FromEnd(block, inner))
  IN bits - block * K * W - inner * W - leading - 1

MaximumFromLength(s) == HighestBelow(s, s.length) \* mutant
Maximum(s) == HighestBelow(s, SimdBlockLen(s.length) * K * W)

(* The counts work on as_slice; behind the shorter one the longer is counted. *)
SliceAt(s, w) == IF w \in Slice(s) THEN s.data[w] ELSE {}
SliceCount(s, o, f(_, _)) ==
  Cardinality(Pairs(Slice(s) \cup Slice(o), LAMBDA w : f(SliceAt(s, w), SliceAt(o, w))))

UnionCount(s, o)        == SliceCount(s, o, LAMBDA x, y : x \cup y)
IntersectionCount(s, o) == SliceCount(s, o, LAMBDA x, y : x \cap y)
DifferenceCount(s, o)   == SliceCount(s, o, LAMBDA x, y : x \ y)
SymmetricDifferenceCount(s, o) == SliceCount(s, o, LAMBDA x, y : SymDiff(x, y))

IsDisjoint(s, o) == \A w \in DOMAIN s.data \cap DOMAIN o.data : s.data[w] \cap o.data[w] = {}
IsSubset(s, o)   == \A w \in DOMAIN s.data : s.data[w] \subseteq WordAt(o, w)
Eq(s, o)         == s.length = o.length /\ s.data = o.data
-----------------------------------------------------------------------------
(* The iterators. Ones has a front word and a back word and the words
   lo..hi-1 between them; idxFront and idxBack are the positions of their
   first bits. IntoOnes is the same over all words the set owns. Zeroes is
   one-sided. `front` and `back` of the history are what was returned. *)
NoIter == [kind |-> "none"]

NewIter(kind, x, first, last, lo, hi, idxBack) ==
  [kind |-> kind, of |-> x, first |-> first, last |-> last, lo |-> lo, hi |-> hi,
   idxFront |-> 0, idxBack |-> idxBack, front |-> <<>>, back |-> <<>>, done |-> FALSE]

Ones(x) ==
  LET s == set[x]  n == UsizeLen(s.length)
  IN NewIter("ones", x, SliceAt(s, 0), IF n > 1 THEN s.data[n - 1] ELSE {},
             1, IF n > 1 THEN n - 1 ELSE 1, (IF n > 1 THEN n - 1 ELSE n) * W)

IntoOnes(x) ==
  LET s == set[x]  n == K * SimdBlockLen(s.length)
  IN NewIter("into_ones", x, WordAt(s, 0), IF n > 1 THEN s.data[n - 1] ELSE {},
             1, IF n > 1 THEN n - 1 ELSE 1, (IF n > 0 THEN n - 1 ELSE 0) * W)

Zeroes(x) ==
  LET n == UsizeLen(set[x].length)
  IN NewIter("zeroes", x, Bits \ SliceAt(set[x], 0), {}, 1, IF n > 1 THEN n ELSE 1, 0)

IterWord(it, w) ==
  IF it.kind = "zeroes" THEN Bits \ set[it.of].data[w] ELSE set[it.of].data[w]

Waiting(it) == {w \in it.lo..(it.hi - 1) : IterWord(it, w) # {}}

(* The loop of next: words are taken from the front until one is not empty. *)
FillFront(it) ==
  LET upto == IF Waiting(it) = {} THEN it.hi ELSE Lowest(Waiting(it)) + 1
  IN IF it.first # {} THEN it
     ELSE [it EXCEPT !.first = IF Waiting(it) = {} THEN {} ELSE IterWord(it, upto - 1),
                     !.lo = upto, !.idxFront = @ + (upto - it.lo) * W]

(* The upper bound of size_hint; its subtraction is on usize. *)
UpperHint(it) ==
  IF it.kind = "zeroes" THEN set[it.of].length ELSE it.idxBack - it.idxFront + 2 * W

FillBackByOne(it) == \* mutant
  LET downto == IF Waiting(it) = {} THEN it.lo ELSE Highest(Waiting(it))
  IN IF it.last # {} THEN it
     ELSE [it EXCEPT !.last = IF Waiting(it) = {} THEN {} ELSE IterWord(it, downto),
                     !.hi = downto, !.idxBack = @ - W]

FillBack(it) ==
  LET downto == IF Waiting(it) = {} THEN it.lo ELSE Highest(Waiting(it))
  IN IF it.last # {} THEN it
     ELSE [it EXCEPT !.last = IF Waiting(it) = {} THEN {} ELSE IterWord(it, downto),
                     !.hi = downto, !.idxBack = @ - (it.hi - downto) * W]

IterNext(it) ==
  LET f == FillFront(it) IN
  IF f.first # {} THEN
    LET bit == f.idxFront + Lowest(f.first)
        rest == [f EXCEPT !.first = @ \ {Lowest(f.first)}]
    IN IF it.kind = "zeroes" /\ bit >= set[it.of].length THEN [rest EXCEPT !.done = TRUE]
       ELSE [rest EXCEPT !.front = Append(@, bit)]
  ELSE IF f.last # {} THEN
    [f EXCEPT !.idxFront = f.idxBack, !.last = @ \ {Lowest(f.last)},
              !.front = Append(@, f.idxBack + Lowest(f.last))]
  ELSE [f EXCEPT !.done = TRUE]

IterNextBack(it) ==
  LET f == FillBack(it) IN
  IF f.last # {} THEN
    [f EXCEPT !.last = @ \ {Highest(f.last)}, !.back = Append(@, f.idxBack + Highest(f.last))]
  ELSE IF f.first # {} THEN
    [f EXCEPT !.idxBack = f.idxFront, !.first = @ \ {Highest(f.first)},
              !.back = Append(@, f.idxFront + Highest(f.first))]
  ELSE [f EXCEPT !.done = TRUE]
-----------------------------------------------------------------------------
Init ==
  /\ set = [x \in Names |-> WithCapacity(0)]
  /\ iter = NoIter

(* No set is changed while an iterator borrows it. *)
Becomes(x, s) ==
  /\ iter = NoIter
  /\ s.length <= MaxLen
  /\ set' = [set EXCEPT ![x] = s]
  /\ UNCHANGED iter

Create(x) == \E n \in 0..MaxLen : Becomes(x, WithCapacity(n)) \/ Becomes(x, Grow(set[x], n))

(* The blocks are the words of another set, shorter or longer than the new set
   needs. *)
CreateFrom(x, y) ==
  \E n \in 0..MaxLen :
    /\ SurplusBits \/ Members(set[y]) \subseteq 0..(n - 1)
    /\ Becomes(x, WithBlocks(n, [i \in 1..UsizeLen(set[y].length) |-> set[y].data[i - 1]]))

ChangeBit(x) ==
  \E bit \in 0..(MaxLen - 1) :
    \/ bit < set[x].length /\ \/ Becomes(x, Toggle(set[x], bit))
                              \/ \E on \in BOOLEAN : Becomes(x, Set(set[x], bit, on))
                              \/ \E from \in 0..MaxLen : Becomes(x, CopyBit(set[x], from, bit))
    \/ Becomes(x, GrowAndInsert(set[x], bit))
    \/ Becomes(x, Extend(set[x], bit))

ChangeRange(x) ==
  \E r \in Ranges(set[x]) :
    \/ \E on \in BOOLEAN : Becomes(x, SetRange(set[x], r, on))
    \/ Becomes(x, ToggleRange(set[x], r))

Combine(x, y) ==
  x # y /\
  (\/ Becomes(x, UnionWith(set[x], set[y])) \/ Becomes(x, IntersectWith(set[x], set[y]))
   \/ Becomes(x, DifferenceWith(set[x], set[y]))
   \/ Becomes(x, SymmetricDifferenceWith(set[x], set[y]))
   \/ Becomes(x, BitAnd(set[x], set[y])) \/ Becomes(x, BitOr(set[x], set[y]))
   \/ Becomes(x, BitXor(set[x], set[y])) \/ Becomes(x, CloneFrom(set[x], set[y])))

Empty(x) == Becomes(x, Clear(set[x]))

(* Bound: the other sets are empty meanwhile, an iterator does not see them. *)
Borrow(x) ==
  /\ iter = NoIter
  /\ \A y \in Names \ {x} : set[y] = WithCapacity(0)
  /\ iter' \in {Ones(x), IntoOnes(x), Zeroes(x)}
  /\ UNCHANGED set

TakeFront ==
  /\ iter # NoIter
  /\ iter' = IterNext(iter)
  /\ UNCHANGED set

TakeBack ==
  /\ iter # NoIter /\ iter.kind # "zeroes"
  /\ iter' = IterNextBack(iter)
  /\ UNCHANGED set

Return == iter # NoIter /\ iter' = NoIter /\ UNCHANGED set

Next ==
  \/ \E x \in Names : Create(x) \/ ChangeBit(x) \/ ChangeRange(x) \/ Empty(x) \/ Borrow(x)
  \/ \E x, y \in Names : Combine(x, y) \/ CreateFrom(x, y)
  \/ TakeFront \/ TakeBack \/ Return

Spec == Init /\ [][Next]_vars
-----------------------------------------------------------------------------
IsBitSet(s) == s.length \in 0..MaxLen /\ s \in BitSets(s.length)

(* The sets own the SIMD blocks their length asks for, and an iterator has two
   words of its set and a stretch of words between them. *)
TypeOK ==
  /\ DOMAIN set = Names
  /\ \A x \in Names : IsBitSet(set[x])
  /\ iter # NoIter =>
       /\ iter.of \in Names /\ iter.first \subseteq Bits /\ iter.last \subseteq Bits
       /\ iter.lo <= iter.hi /\ iter.done \in BOOLEAN

(* The documentation of with_capacity_and_blocks (lib.rs:123-125) says that
   longer blocks are truncated to the capacity, and the operations rely on it
   (lib.rs:911-917): no bit at or behind the length is ever set, in whatever
   order a caller grows, changes, combines and copies its sets (as_mut_slice,
   which hands out the words, is left out). is_subset, is_disjoint, ones and ==
   look at whole SIMD blocks and would see such a bit. *)
NoGhostBits == \A x \in Names : Members(set[x]) \subseteq Universe(set[x])

(* s is a bit set of this length that stands for M. *)
Denotes(s, length, M) == IsBitSet(s) /\ s.length = length /\ Members(s) = M

Longest(s, o)  == Highest({s.length, o.length})
Shortest(s, o) == Lowest({s.length, o.length})

(* union_with, intersect_with, difference_with, symmetric_difference_with, the
   operators & | ^ and clone_from work on SIMD blocks of two sets of different
   lengths; each returns the set-theoretic result, with the length it says. *)
AlgebraExact ==
  iter = NoIter => \A x, y \in Names :
    LET s == set[x]  o == set[y]  A == Members(s)  B == Members(o) IN
    /\ Denotes(UnionWith(s, o), Longest(s, o), A \cup B)
    /\ Denotes(IntersectWith(s, o), s.length, A \cap B)
    /\ Denotes(DifferenceWith(s, o), s.length, A \ B)
    /\ Denotes(SymmetricDifferenceWith(s, o), Longest(s, o), SymDiff(A, B))
    /\ Denotes(BitAnd(s, o), Shortest(s, o), A \cap B)
    /\ Denotes(BitOr(s, o), Longest(s, o), A \cup B)
    /\ Denotes(BitXor(s, o), Longest(s, o), SymDiff(A, B))
    /\ Denotes(CloneFrom(s, o), o.length, B)

(* The masks of a range start..end-1 cover exactly the range, also when it is
   empty, ends with a word, or ends with the set; what is inserted, removed,
   toggled and counted with them is exactly the range. *)
RangesExact ==
  iter = NoIter => \A x \in Names : \A r \in Ranges(set[x]) :
    LET s == set[x]  A == Members(s)  R == r[1]..(r[2] - 1) IN
    /\ MaskBlocks(r[1], r[2]) \subseteq Slice(s)
    /\ Denotes(InsertRange(s, r), s.length, A \cup R)
    /\ Denotes(RemoveRange(s, r), s.length, A \ R)
    /\ Denotes(ToggleRange(s, r), s.length, SymDiff(A, R))
    /\ CountOnes(s, r) = Cardinality(A \cap R)
    /\ CountZeroes(s, r) = Cardinality(R \ A)
    /\ ContainsAllInRange(s, r) <=> R \subseteq A
    /\ ContainsAnyInRange(s, r) <=> R \cap A # {}

(* All operations that combine two sets or change a range of one. *)
OperationsExact == AlgebraExact /\ RangesExact

(* minimum, maximum, the counts over two sets and the comparisons return what
   they would return of the sets of numbers, for sets of any two lengths. *)
QueriesExact ==
  iter = NoIter => \A x, y \in Names :
    LET s == set[x]  o == set[y]  A == Members(s)  B == Members(o) IN
    /\ IsClear(s) <=> A = {}
    /\ IsFull(s) <=> A = Universe(s)
    /\ A # {} => Minimum(s) = Lowest(A) /\ Maximum(s) = Highest(A)
    /\ UnionCount(s, o) = Cardinality(A \cup B)
    /\ IntersectionCount(s, o) = Cardinality(A \cap B)
    /\ DifferenceCount(s, o) = Cardinality(A \ B)
    /\ SymmetricDifferenceCount(s, o) = Cardinality(SymDiff(A, B))
    /\ IsDisjoint(s, o) <=> A \cap B = {}
    /\ IsSubset(s, o) <=> A \subseteq B
    /\ Eq(s, o) <=> s.length = o.length /\ A = B

(* What an iterator should return. *)
Expected(it) ==
  IF it.kind = "zeroes" THEN Universe(set[it.of]) \ Members(set[it.of]) ELSE Members(set[it.of])

Ascending(seq)   == \A i \in 2..Len(seq) : seq[i - 1] < seq[i]
Descending(seq)  == \A i \in 2..Len(seq) : seq[i - 1] > seq[i]
Elements(seq)    == {seq[i] : i \in 1..Len(seq)}
Returned(it)     == Elements(it.front) \cup Elements(it.back)

(* ones, into_ones and zeroes return every element once however next and
   next_back alternate: next the smallest one that is left, next_back the
   greatest; after the first None there is nothing left. *)
IteratorExact ==
  iter # NoIter =>
    /\ Returned(iter) \subseteq Expected(iter)
    /\ Ascending(iter.front) /\ Descending(iter.back)
    /\ \A a \in Elements(iter.front), b \in Elements(iter.back) : a < b
    /\ \A c \in Expected(iter) \ Returned(iter) :
         /\ \A a \in Elements(iter.front) : a < c
         /\ \A b \in Elements(iter.back) : c < b
    /\ iter.done => Returned(iter) = Expected(iter)

(* size_hint (lib.rs:1395 and 1617) subtracts two positions that next and
   next_back move towards and onto each other: it does not underflow, and what
   it returns is a bound of what is left. *)
HintSound ==
  iter # NoIter =>
    /\ iter.idxFront <= iter.idxBack \/ iter.kind = "zeroes"
    /\ Cardinality(Expected(iter) \ Returned(iter)) <= UpperHint(iter)

(* Whatever next, next_back and size_hint do in between, an iterator returns what
   it should and says how much is left. *)
IteratorSound == IteratorExact /\ HintSound
=============================================================================
