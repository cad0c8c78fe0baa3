---------------------------- MODULE WindowProofs ----------------------------
(***************************************************************************)
(* Proofs about the two windows of internal/dedup, for every size.         *)
(*                                                                         *)
(* ReplayWindow, for every word size, width and largest packet number: the *)
(* ring bitmap is exact, no number is delivered twice, and the window      *)
(* implements AntiReplay.  The argument reads the bitmap through ring      *)
(* positions 0..width-1 (BitAt) and shows what setBit, clearRange and      *)
(* advance do to one position.                                             *)
(*                                                                         *)
(* DedupWindow, for every capacity and every set of identities and paths:  *)
(* the ring and the map agree, the window remembers exactly the last       *)
(* Capacity identities, and it implements FifoMemory.                      *)
(*                                                                         *)
(* geminactl probe, which feeds that window, for every number of probes    *)
(* and copies: what it prints and what the gateway counts add up.          *)
(***************************************************************************)
EXTENDS ReplayWindow, ProbeCommand, Sequences, FiniteSetTheorems, TLAPS

-----------------------------------------------------------------------------
(* Division and remainder: words and bits, and slots of a ring of w.       *)

(* Division with remainder, as Go's / and % compute it on the non-negative
   operands of the ring arithmetic. *)
LEMMA DivMod ==
  ASSUME NEW a \in Int, NEW w \in Nat \ {0}
  PROVE  /\ a % w \in 0..(w - 1)
         /\ a \div w \in Int
         /\ a = w * (a \div w) + (a % w)
  BY Z3

(* A number in the form w * q + r has remainder r. *)
LEMMA ModUnique ==
  ASSUME NEW x \in Int, NEW w \in Nat \ {0}, NEW q \in Int,
         NEW r \in 0..(w - 1), x = w * q + r
  PROVE  x % w = r
  BY Z3

(* A step of k < w numbers moves the ring position by k, wrapping at most
   once. *)
LEMMA ModShift ==
  ASSUME NEW a \in Int, NEW w \in Nat \ {0}, NEW k \in 0..(w - 1)
  PROVE  (a + k) % w = IF (a % w) + k < w THEN (a % w) + k
                                          ELSE (a % w) + k - w
<1> DEFINE q == a \div w
           r == a % w
<1>1. q \in Int /\ r \in 0..(w - 1) /\ a = w * q + r
  BY DivMod
<1> HIDE DEF q, r
<1>2. CASE r + k < w
  <2>1. a + k = w * q + (r + k) /\ r + k \in 0..(w - 1)
    BY <1>1, <1>2
  <2>2. (a + k) % w = r + k
    BY <1>1, <2>1, ModUnique
  <2> QED
    BY <1>2, <2>2 DEF r
<1>3. CASE r + k >= w
  <2>1. w * (q + 1) = w * q + w /\ w * q \in Int
    BY <1>1
  <2>2. PICK t \in Int, s \in 0..(w - 1) : t = q + 1 /\ s = r + k - w
    BY <1>1, <1>3
  <2>3. PICK x \in Int : x = a + k /\ x = w * t + s
    BY <1>1, <2>1, <2>2
  <2>4. x % w = s
    BY <2>3, ModUnique, Zenon
  <2>5. ~(r + k < w)
    BY <1>1, <1>3
  <2> QED
    BY <2>2, <2>3, <2>4, <2>5 DEF r
<1> QED
  BY <1>1, <1>2, <1>3

(* The order of two numbers read off their words: a smaller word index is
   a smaller number, and within one word the bits decide. *)
LEMMA DivOrder ==
  ASSUME NEW a \in Int, NEW b \in Int, NEW w \in Nat \ {0}
  PROVE  /\ a \div w < b \div w => a < b
         /\ a \div w = b \div w => (a <= b <=> a % w <= b % w)
         /\ a \div w = b \div w /\ a % w = b % w => a = b
<1> DEFINE p == a \div w
           q == b \div w
<1>1. /\ p \in Int /\ a % w \in 0..(w - 1) /\ a = w * p + (a % w)
      /\ q \in Int /\ b % w \in 0..(w - 1) /\ b = w * q + (b % w)
  BY DivMod
<1>2. w * p \in Int /\ w * q \in Int
  BY <1>1
<1> HIDE DEF p, q
<1>3. ASSUME p < q PROVE a < b
  <2>1. q = p + 1 + (q - p - 1) /\ q - p - 1 \in Nat
    BY <1>1, <1>3
  <2>2. w * q = w * p + w + w * (q - p - 1)
    BY <1>1, <2>1, Z3
  <2>3. w * (q - p - 1) \in Nat
    BY <2>1, Z3
  <2> QED
    BY <1>1, <1>2, <2>2, <2>3
<1>4. ASSUME p = q PROVE a <= b <=> a % w <= b % w
  BY <1>1, <1>2, <1>4
<1>5. ASSUME p = q, a % w = b % w PROVE a = b
  BY <1>1, <1>2, <1>5
<1> QED
  BY <1>3, <1>4, <1>5 DEF p, q

(* Within w consecutive numbers no two share a slot of a ring of w. *)
LEMMA SlotInjective ==
  ASSUME NEW w \in Nat \ {0}, NEW m \in Int, NEW n \in Int, m <= n, n - m < w,
         m % w = n % w
  PROVE  m = n
<1>1. PICK k \in 0..(w - 1) : n = m + k
  OBVIOUS
<1>2. m % w \in 0..(w - 1)
  BY DivMod
<1>3. (m + k) % w = IF (m % w) + k < w THEN (m % w) + k ELSE (m % w) + k - w
  BY ModShift, Zenon
<1>4. k = 0
  BY <1>1, <1>2, <1>3
<1> QED
  BY <1>1, <1>4

(* Taking the remainder early does not matter: a slot advanced by k. *)
LEMMA ModAdd ==
  ASSUME NEW a \in Int, NEW w \in Nat \ {0}, NEW k \in Int
  PROVE  ((a % w) + k) % w = (a + k) % w
<1>1. PICK q \in Int, r \in 0..(w - 1) : q = a \div w /\ r = a % w /\ a = w * q + r
  BY DivMod
<1>2. PICK x \in Int : x = r + k
  OBVIOUS
<1>3. PICK t \in Int, s \in 0..(w - 1) : s = x % w /\ x = w * t + s
  BY DivMod, Zenon
<1>4. PICK y \in Int, u \in Int : y = a + k /\ u = q + t
  OBVIOUS
<1>5. w * u = w * q + w * t
  <2>1. w * (q + t) = w * q + w * t
    BY Z3
  <2> QED
    BY <1>4, <2>1
<1>6. y = w * u + s
  <2>1. PICK b \in Int, c \in Int : b = w * q /\ c = w * t
    BY Z3
  <2>2. a = b + r /\ x = r + k /\ x = c + s /\ y = a + k
    BY <1>1, <1>2, <1>3, <1>4, <2>1
  <2>3. y = b + c + s
    BY <2>2
  <2> QED
    BY <1>5, <2>1, <2>3
<1>7. y % w = s
  BY <1>6, ModUnique
<1> QED
  BY <1>1, <1>2, <1>3, <1>4, <1>7

-----------------------------------------------------------------------------
(* NewReplayWindow builds at least one word, and its effective width covers
   the width that was asked for. *)
LEMMA Sizes ==
  /\ NumWords \in Nat \ {0}
  /\ width \in Nat \ {0}
  /\ width >= Requested
  /\ WordBits \in Nat \ {0}
<1> DEFINE c == Requested + WordBits - 1
<1>1. WordBits \in Nat \ {0} /\ c \in Int /\ c >= WordBits
  BY SizeAssumption
<1>2. /\ NumWords \in Int /\ c % WordBits \in 0..(WordBits - 1)
      /\ c = WordBits * NumWords + (c % WordBits)
  BY <1>1, DivMod, Zenon DEF NumWords
<1>3. WordBits * NumWords > 0
  BY <1>1, <1>2
<1>4. NumWords > 0
  BY <1>1, <1>2, <1>3, Z3
<1>5. width = WordBits * NumWords /\ width \in Int
  BY <1>1, <1>2, Z3 DEF width
<1> QED
  BY <1>1, <1>2, <1>3, <1>4, <1>5, SizeAssumption

(* The bit at ring position q. *)
BitAt(ws, q) == q % WordBits \in ws[q \div WordBits]
Positions == 0..(width - 1)
Bitmaps == [Index -> SUBSET Bits]

(* A ring position names a bit of a word of the bitmap. *)
LEMMA PositionInRange ==
  ASSUME NEW q \in Positions
  PROVE  q \div WordBits \in Index /\ q % WordBits \in Bits /\ q \in Int
<1>1. /\ q \in Int /\ q >= 0 /\ q < width
  BY Sizes DEF Positions
<1>2. /\ q \div WordBits \in Int /\ q % WordBits \in 0..(WordBits - 1)
      /\ q = WordBits * (q \div WordBits) + (q % WordBits)
  BY <1>1, Sizes, DivMod, Zenon
<1> DEFINE d == q \div WordBits
<1> HIDE DEF d
<1>3. d \in Int /\ WordBits * d > -WordBits /\ WordBits * d < NumWords * WordBits
  BY <1>1, <1>2, Sizes DEF d, width
<1>4. d > -1
  BY <1>3, Sizes, Z3
<1>5. d < NumWords
  BY <1>3, Sizes, Z3
<1> QED
  BY <1>1, <1>2, <1>3, <1>4, <1>5, Sizes DEF d, Index, Bits

(* Every number has a ring position. *)
LEMMA NumberPosition ==
  ASSUME NEW n \in Int
  PROVE  n % width \in Positions
  BY DivMod, Sizes, Zenon DEF Positions

(* Two ring positions are equal when word and bit are. *)
LEMMA PositionEqual ==
  ASSUME NEW p \in Positions, NEW q \in Positions,
         p \div WordBits = q \div WordBits, p % WordBits = q % WordBits
  PROVE  p = q
  BY PositionInRange, DivOrder, Sizes

(* Within one window of width consecutive numbers, no two share a slot. *)
LEMMA SlotUnique ==
  ASSUME NEW m \in Int, NEW n \in Int, m <= n, n - m < width,
         m % width = n % width
  PROVE  m = n
  BY Sizes, SlotInjective, Zenon

(* setBit sets the slot of its number and no other. *)
LEMMA SetBitAt ==
  ASSUME NEW ws \in Bitmaps, NEW n \in Int
  PROVE  /\ setBit(ws, n) \in Bitmaps
         /\ \A q \in Positions :
              BitAt(setBit(ws, n), q) <=> (BitAt(ws, q) \/ q = n % width)
<1> DEFINE pos == n % width
<1>1. pos \in Positions
  BY NumberPosition
<1> HIDE DEF pos
<1>2. /\ pos \div WordBits \in Index /\ pos % WordBits \in Bits
  BY <1>1, PositionInRange
<1>3. setBit(ws, n) =
        [ws EXCEPT ![pos \div WordBits] = @ \cup {pos % WordBits}]
  BY DEF setBit, pos
<1>4. setBit(ws, n) \in Bitmaps
  BY <1>2, <1>3 DEF Bitmaps
<1>5. ASSUME NEW q \in Positions
      PROVE  BitAt(setBit(ws, n), q) <=> (BitAt(ws, q) \/ q = pos)
  <2>1. q \div WordBits \in Index /\ q % WordBits \in Bits
    BY PositionInRange
  <2>2. CASE q \div WordBits = pos \div WordBits
    <3>1. BitAt(setBit(ws, n), q)
            <=> BitAt(ws, q) \/ q % WordBits = pos % WordBits
      BY <1>2, <1>3, <2>1, <2>2 DEF BitAt, Bitmaps
    <3>2. q % WordBits = pos % WordBits => q = pos
      BY <1>1, <2>2, PositionEqual
    <3> QED
      BY <3>1, <3>2
  <2>3. CASE q \div WordBits # pos \div WordBits
    <3>1. BitAt(setBit(ws, n), q) <=> BitAt(ws, q)
      BY <1>2, <1>3, <2>1, <2>3 DEF BitAt, Bitmaps
    <3> QED
      BY <3>1, <2>3
  <2> QED
    BY <2>2, <2>3
<1> QED
  BY <1>4, <1>5 DEF pos

(* clearRange clears exactly the positions lo..hi, across word borders. *)
LEMMA ClearRangeAt ==
  ASSUME NEW ws \in Bitmaps, NEW lo \in Positions, NEW hi \in Positions,
         lo <= hi
  PROVE  /\ clearRange(ws, lo, hi) \in Bitmaps
         /\ \A q \in Positions :
              BitAt(clearRange(ws, lo, hi), q)
                <=> (BitAt(ws, q) /\ ~(lo <= q /\ q <= hi))
<1> DEFINE W(x) == x \div WordBits
           B(x) == x % WordBits
<1>1. \A x \in Positions : W(x) \in Index /\ B(x) \in Bits /\ x \in Int
  BY PositionInRange
<1>2. \A x, y \in Positions :
        /\ W(x) < W(y) => x < y
        /\ W(x) = W(y) => (x <= y <=> B(x) <= B(y))
  BY <1>1, DivOrder, Sizes, Zenon
<1>3. \A x \in Positions : W(x) \in Int /\ B(x) \in Int /\ 0 <= B(x)
                           /\ B(x) <= WordBits - 1
  BY <1>1, Sizes DEF Index, Bits
<1>4. clearRange(ws, lo, hi) =
        IF W(lo) = W(hi)
        THEN [ws EXCEPT ![W(lo)] = @ \ (B(lo)..B(hi))]
        ELSE [wd \in Index |->
                IF wd = W(lo) THEN ws[wd] \ (B(lo)..(WordBits - 1))
                ELSE IF W(lo) < wd /\ wd < W(hi) THEN {}
                ELSE IF wd = W(hi) THEN ws[wd] \ (0..B(hi))
                ELSE ws[wd]]
  BY DEF clearRange, wordMask
<1> HIDE DEF W, B
<1>5. clearRange(ws, lo, hi) \in Bitmaps
  BY <1>1, <1>4 DEF Bitmaps
<1>6. ASSUME NEW q \in Positions
      PROVE  BitAt(clearRange(ws, lo, hi), q)
               <=> (BitAt(ws, q) /\ ~(lo <= q /\ q <= hi))
  <2> DEFINE cs == clearRange(ws, lo, hi)
  <2>0. /\ BitAt(cs, q) <=> B(q) \in cs[W(q)]
        /\ BitAt(ws, q) <=> B(q) \in ws[W(q)]
    BY DEF BitAt, W, B
  <2>1. W(q) \in Index /\ W(lo) \in Index /\ W(hi) \in Index
    BY <1>1
  <2>2. CASE W(lo) = W(hi)
    <3>1. CASE W(q) = W(lo)
      <4>1. cs[W(q)] = ws[W(q)] \ (B(lo)..B(hi))
        BY <1>4, <2>1, <2>2, <3>1 DEF Bitmaps
      <4>2. B(q) \in B(lo)..B(hi) <=> lo <= q /\ q <= hi
        BY <1>2, <1>3, <2>2, <3>1
      <4> QED
        BY <2>0, <4>1, <4>2
    <3>2. CASE W(q) # W(lo)
      <4>1. cs[W(q)] = ws[W(q)]
        BY <1>4, <2>1, <2>2, <3>2 DEF Bitmaps
      <4>2. ~(lo <= q /\ q <= hi)
        BY <1>1, <1>2, <1>3, <2>2, <3>2
      <4> QED
        BY <2>0, <4>1, <4>2
    <3> QED
      BY <3>1, <3>2
  <2>3. CASE W(lo) # W(hi)
    <3>0. W(lo) < W(hi)
      BY <1>1, <1>2, <1>3, <2>3
    <3>1. CASE W(q) = W(lo)
      <4>1. cs[W(q)] = ws[W(q)] \ (B(lo)..(WordBits - 1))
        BY <1>4, <2>1, <2>3, <3>1
      <4>2. B(q) \in B(lo)..(WordBits - 1) <=> lo <= q
        BY <1>2, <1>3, <3>1, Sizes
      <4>3. q <= hi
        BY <1>1, <1>2, <3>0, <3>1
      <4> QED
        BY <2>0, <4>1, <4>2, <4>3
    <3>2. CASE W(lo) < W(q) /\ W(q) < W(hi)
      <4>1. cs[W(q)] = {}
        BY <1>3, <1>4, <2>1, <2>3, <3>2
      <4>2. lo <= q /\ q <= hi
        BY <1>1, <1>2, <3>2
      <4> QED
        BY <2>0, <4>1, <4>2
    <3>3. CASE W(q) = W(hi)
      <4>1. cs[W(q)] = ws[W(q)] \ (0..B(hi))
        BY <1>3, <1>4, <2>1, <2>3, <3>3
      <4>2. B(q) \in 0..B(hi) <=> q <= hi
        BY <1>2, <1>3, <3>3
      <4>3. lo <= q
        BY <1>1, <1>2, <3>0, <3>3
      <4> QED
        BY <2>0, <4>1, <4>2, <4>3
    <3>4. CASE W(q) < W(lo) \/ W(hi) < W(q)
      <4>1. cs[W(q)] = ws[W(q)]
        BY <1>3, <1>4, <2>1, <2>3, <3>0, <3>4
      <4>2. ~(lo <= q /\ q <= hi)
        BY <1>1, <1>2, <3>4
      <4> QED
        BY <2>0, <4>1, <4>2
    <3> QED
      BY <1>3, <3>0, <3>1, <3>2, <3>3, <3>4
  <2> QED
    BY <2>2, <2>3
<1> QED
  BY <1>5, <1>6

(* advance keeps the bit of every number that stays in the window and
   leaves the slots of the numbers it brings in clear, wherever the
   cleared run wraps around the ring. *)
LEMMA AdvanceAt ==
  ASSUME NEW ws \in Bitmaps, NEW l \in Int, NEW n \in Int, l < n
  PROVE  /\ advance(ws, l, n) \in Bitmaps
         /\ \A p \in (n - width + 1)..n :
              BitAt(advance(ws, l, n), p % width)
                <=> (p <= l /\ BitAt(ws, p % width))
<1> DEFINE startPos == (l + 1) % width
           endPos == n % width
           slots == advance(ws, l, n)
<1>1. startPos \in Positions /\ endPos \in Positions
  BY NumberPosition
<1>2. startPos \in Int /\ endPos \in Int /\ 0 <= startPos /\ 0 <= endPos
      /\ startPos < width /\ endPos < width
      /\ 0 \in Positions /\ width - 1 \in Positions
  BY <1>1, Sizes DEF Positions
<1>3. slots = IF n - l >= width
              THEN [wd \in Index |-> {}]
              ELSE IF startPos <= endPos
                   THEN clearRange(ws, startPos, endPos)
                   ELSE clearRange(clearRange(ws, startPos, width - 1),
                                   0, endPos)
  BY DEF advance
<1> HIDE DEF startPos, endPos, slots
<1>4. CASE n - l >= width
  <2>1. slots = [wd \in Index |-> {}]
    BY <1>3, <1>4
  <2>2. slots \in Bitmaps
    BY <2>1 DEF Bitmaps
  <2>3. ASSUME NEW p \in (n - width + 1)..n
        PROVE  BitAt(slots, p % width)
                 <=> (p <= l /\ BitAt(ws, p % width))
    <3>1. p % width \in Positions
      BY NumberPosition, Sizes
    <3>2. (p % width) \div WordBits \in Index
      BY <3>1, PositionInRange
    <3>3. ~BitAt(slots, p % width)
      BY <2>1, <3>2 DEF BitAt
    <3>4. ~(p <= l)
      BY <1>4, Sizes
    <3> QED
      BY <3>3, <3>4
  <2> QED
    BY <2>2, <2>3 DEF slots
<1>5. CASE ~(n - l >= width)
  \* the positions the slide clears: those of the numbers l+1..n
  <2> DEFINE Cleared(q) == IF startPos <= endPos
                           THEN startPos <= q /\ q <= endPos
                           ELSE startPos <= q \/ q <= endPos
  <2>1. slots \in Bitmaps
        /\ \A q \in Positions :
             BitAt(slots, q) <=> (BitAt(ws, q) /\ ~Cleared(q))
    <3>1. CASE startPos <= endPos
      BY <1>1, <1>3, <1>5, <3>1, ClearRangeAt
    <3>2. CASE ~(startPos <= endPos)
      <4> DEFINE mid == clearRange(ws, startPos, width - 1)
      <4>1. mid \in Bitmaps
            /\ \A q \in Positions :
                 BitAt(mid, q)
                   <=> (BitAt(ws, q) /\ ~(startPos <= q /\ q <= width - 1))
        BY <1>1, <1>2, ClearRangeAt, Sizes
      <4> HIDE DEF mid
      <4>2. clearRange(mid, 0, endPos) \in Bitmaps
            /\ \A q \in Positions :
                 BitAt(clearRange(mid, 0, endPos), q)
                   <=> (BitAt(mid, q) /\ ~(0 <= q /\ q <= endPos))
        BY <1>1, <1>2, <4>1, ClearRangeAt
      <4>3. slots = clearRange(mid, 0, endPos)
        BY <1>3, <1>5, <3>2 DEF mid
      <4>4. \A q \in Positions : 0 <= q /\ q <= width - 1
        BY Sizes DEF Positions
      <4> QED
        BY <3>2, <4>1, <4>2, <4>3, <4>4
    <3> QED
      BY <3>1, <3>2
  <2>2. ASSUME NEW p \in (n - width + 1)..n
        PROVE  p % width \in Positions /\ (Cleared(p % width) <=> ~(p <= l))
    \* d numbers from the oldest number a = n - width + 1 of the new window
    <3>1. PICK a \in Int : a = n - width + 1
      BY Sizes
    <3>2. PICK d \in 0..(width - 1), e \in 0..(width - 1), f \in 0..(width - 1) :
             p = a + d /\ l + 1 = a + e /\ n = a + f /\ f = width - 1
      BY <1>5, <3>1, Sizes
    <3>3. a % width \in 0..(width - 1)
      BY Sizes, DivMod, Zenon
    <3>4. /\ (a + d) % width = IF (a % width) + d < width THEN (a % width) + d
                               ELSE (a % width) + d - width
          /\ (a + e) % width = IF (a % width) + e < width THEN (a % width) + e
                               ELSE (a % width) + e - width
          /\ (a + f) % width = IF (a % width) + f < width THEN (a % width) + f
                               ELSE (a % width) + f - width
      BY Sizes, ModShift, Zenon
    <3>4a. /\ p % width = (a + d) % width
           /\ startPos = (a + e) % width
           /\ endPos = (a + f) % width
      BY <3>2 DEF startPos, endPos
    <3>5. p <= l <=> d < e
      BY <3>2
    <3>6. p % width \in Positions
      BY NumberPosition, Sizes
    <3> QED
      BY <3>2, <3>3, <3>4, <3>4a, <3>5, <3>6, Sizes
  <2> QED
    BY <2>1, <2>2 DEF slots
<1> QED
  BY <1>4, <1>5

-----------------------------------------------------------------------------
(* The inductive invariant.  AtMostOnce alone is not inductive: that
   Observe answers a number once rests on the bitmap being exact, and that
   the first number finds no bit set rests on the bitmap being empty until
   last moves. *)
Untouched == last = 0 => words = [wd \in Index |-> {}]

ReplayInv ==
  /\ ReplayTypeOK
  /\ BitmapExact
  /\ Untouched
  /\ AtMostOnce
  /\ NoFalseDuplicate

(* testBit reads the ring position of its number. *)
LEMMA TestBitAt ==
  ASSUME NEW ws, NEW n
  PROVE  testBit(ws, n) <=> BitAt(ws, n % width)
  BY DEF testBit, BitAt

(* The history after a number not delivered before is answered first-copy. *)
LEMMA FirstCopyAnswered ==
  ASSUME ReplayTypeOK, AtMostOnce, NEW n \in Numbers, n \notin Accepted,
         Answered(n, "first-copy")
  PROVE  /\ delivered' \in [Numbers -> Nat]
         /\ verdict' \in [n : 0..MaxNumber, d : Decisions]
         /\ Accepted' = Accepted \cup {n}
         /\ AtMostOnce'
         /\ NoFalseDuplicate'
<1>1. delivered[n] = 0
  BY DEF ReplayTypeOK, Accepted
<1>2. /\ delivered' = [delivered EXCEPT ![n] = @ + 1]
      /\ verdict' = [n |-> n, d |-> "first-copy"]
  BY DEF Answered
<1>3. delivered' \in [Numbers -> Nat]
      /\ delivered'[n] = 1
      /\ \A m \in Numbers \ {n} : delivered'[m] = delivered[m]
  BY <1>1, <1>2 DEF ReplayTypeOK
<1>4. Accepted' = Accepted \cup {n}
  BY <1>3 DEF Accepted
<1>5. verdict' \in [n : 0..MaxNumber, d : Decisions]
  BY <1>2, SizeAssumption DEF Numbers, Decisions
<1>6. AtMostOnce'
  BY <1>3 DEF AtMostOnce
<1>7. NoFalseDuplicate'
  BY <1>2 DEF NoFalseDuplicate
<1> QED
  BY <1>3, <1>4, <1>5, <1>6, <1>7

(* The history after any other answer. *)
LEMMA OtherwiseAnswered ==
  ASSUME ReplayTypeOK, AtMostOnce, NEW n \in 0..MaxNumber, NEW d \in Decisions,
         d # "first-copy", d = "duplicate" => n \in Accepted,
         Answered(n, d)
  PROVE  /\ delivered' = delivered
         /\ verdict' \in [n : 0..MaxNumber, d : Decisions]
         /\ Accepted' = Accepted
         /\ AtMostOnce'
         /\ NoFalseDuplicate'
<1>1. delivered' = delivered /\ verdict' = [n |-> n, d |-> d]
  BY DEF Answered
<1>2. Accepted' = Accepted
  BY <1>1 DEF Accepted
<1> QED
  BY <1>1, <1>2 DEF AtMostOnce, NoFalseDuplicate

(* A new window satisfies the invariant. *)
LEMMA InitReplayInv == ReplayInit => ReplayInv
<1> SUFFICES ASSUME ReplayInit PROVE ReplayInv
  OBVIOUS
<1>1. ReplayTypeOK
  BY SizeAssumption DEF ReplayInit, ReplayTypeOK, Decisions
<1>2. Accepted = {}
  BY DEF ReplayInit, Accepted
<1>3. BitmapExact
  <2>1. ASSUME NEW p \in (last - width + 1)..last PROVE ~testBit(words, p)
    <3>1. p \in Int
      BY Sizes DEF ReplayInit
    <3>2. (p % width) \div WordBits \in Index
      BY <3>1, NumberPosition, PositionInRange
    <3> QED
      BY <3>2 DEF ReplayInit, testBit
  <2> QED
    BY <1>2, <2>1 DEF BitmapExact
<1>4. AtMostOnce /\ NoFalseDuplicate /\ Untouched
  BY DEF ReplayInit, AtMostOnce, NoFalseDuplicate, Untouched
<1> QED
  BY <1>1, <1>3, <1>4 DEF ReplayInv

(* Every Observe preserves the invariant. *)
LEMMA NextReplayInv == ReplayInv /\ [ReplayNext]_replayVars => ReplayInv'
<1> SUFFICES ASSUME ReplayInv, [ReplayNext]_replayVars PROVE ReplayInv'
  OBVIOUS
<1> USE DEF ReplayInv
<1>0. /\ last \in Nat /\ last <= MaxNumber /\ words \in Bitmaps
      /\ MaxNumber \in Nat /\ width \in Nat \ {0}
      /\ \A m \in Numbers : m \in Nat /\ m >= 1 /\ m <= MaxNumber
  BY SizeAssumption, Sizes DEF ReplayTypeOK, Bitmaps, Numbers
<1>1. CASE ObserveZero
  <2>1. /\ delivered' = delivered /\ Accepted' = Accepted
        /\ verdict' \in [n : 0..MaxNumber, d : Decisions]
        /\ AtMostOnce' /\ NoFalseDuplicate'
    BY <1>0, <1>1, OtherwiseAnswered DEF ObserveZero, Decisions
  <2> QED
    BY <1>1, <2>1 DEF ObserveZero, ReplayTypeOK, BitmapExact, Untouched
<1>2. ASSUME NEW n \in Numbers, ObserveInitial(n) PROVE ReplayInv'
  <2>1. n \notin Accepted
    BY <1>0, <1>2 DEF ObserveInitial, BitmapExact
  <2>2. /\ delivered' \in [Numbers -> Nat] /\ Accepted' = Accepted \cup {n}
        /\ verdict' \in [n : 0..MaxNumber, d : Decisions]
        /\ AtMostOnce' /\ NoFalseDuplicate'
    BY <1>2, <2>1, FirstCopyAnswered DEF ObserveInitial
  <2>3. Accepted = {}
    BY <1>0, <1>2 DEF ObserveInitial, BitmapExact, Accepted
  <2>4. words' \in Bitmaps
        /\ \A q \in Positions : BitAt(words', q) <=> q = n % width
    <3>1. \A q \in Positions : ~BitAt(words, q)
      BY <1>2, PositionInRange DEF ObserveInitial, Untouched, BitAt
    <3> QED
      BY <1>0, <1>2, <3>1, SetBitAt DEF ObserveInitial
  <2>5. BitmapExact'
    <3>1. ASSUME NEW p \in (n - width + 1)..n
          PROVE  testBit(words', p) <=> p \in Accepted'
      <4>1. p \in Int /\ n \in Int /\ p <= n /\ n - p < width
        BY <1>0
      <4>2. testBit(words', p) <=> p % width = n % width
        BY <2>4, <4>1, NumberPosition, TestBitAt, Zenon
      <4> QED
        BY <2>2, <2>3, <4>1, <4>2, SlotUnique
    <3> QED
      BY <1>0, <1>2, <2>2, <2>3, <3>1 DEF BitmapExact, ObserveInitial
  <2> QED
    BY <1>0, <1>2, <2>2, <2>4, <2>5
       DEF ReplayTypeOK, Bitmaps, Untouched, ObserveInitial
<1>3. ASSUME NEW n \in Numbers, ObserveAhead(n) PROVE ReplayInv'
  <2>1. n \notin Accepted /\ last < n
    BY <1>0, <1>3 DEF ObserveAhead, BitmapExact
  <2>2. /\ delivered' \in [Numbers -> Nat] /\ Accepted' = Accepted \cup {n}
        /\ verdict' \in [n : 0..MaxNumber, d : Decisions]
        /\ AtMostOnce' /\ NoFalseDuplicate'
    BY <1>3, <2>1, FirstCopyAnswered DEF ObserveAhead
  <2> DEFINE slid == advance(words, last, n)
  <2>3. slid \in Bitmaps
        /\ \A p \in (n - width + 1)..n :
             BitAt(slid, p % width)
               <=> (p <= last /\ BitAt(words, p % width))
    <3>1. last \in Int /\ n \in Int /\ words \in Bitmaps
      BY <1>0
    <3> QED
      BY <2>1, <3>1, AdvanceAt
  <2> HIDE DEF slid
  <2>4. words' \in Bitmaps
        /\ \A q \in Positions :
             BitAt(words', q) <=> (BitAt(slid, q) \/ q = n % width)
    <3>1. words' = setBit(slid, n)
      BY <1>3, Zenon DEF ObserveAhead, slid
    <3> QED
      BY <1>0, <2>3, <3>1, SetBitAt
  <2>5. BitmapExact'
    <3>1. ASSUME NEW p \in (n - width + 1)..n
          PROVE  testBit(words', p) <=> p \in Accepted'
      <4>1. p \in Int /\ n \in Int /\ p <= n /\ n - p < width
        BY <1>0
      <4>2. testBit(words', p)
              <=> ((p <= last /\ testBit(words, p)) \/ p % width = n % width)
        BY <2>3, <2>4, <4>1, NumberPosition, TestBitAt
      <4>3. p % width = n % width <=> p = n
        BY <4>1, SlotUnique
      <4>4. p <= last => (testBit(words, p) <=> p \in Accepted)
        BY <1>0, <2>1, <4>1 DEF BitmapExact
      <4>5. p \in Accepted => p <= last
        BY Zenon DEF BitmapExact
      <4> QED
        BY <2>2, <4>2, <4>3, <4>4, <4>5
    <3> QED
      BY <1>0, <1>3, <2>1, <2>2, <3>1
         DEF BitmapExact, ObserveAhead, Accepted
  <2> QED
    BY <1>0, <1>3, <2>2, <2>4, <2>5
       DEF ReplayTypeOK, Bitmaps, Untouched, ObserveAhead
<1>4. ASSUME NEW n \in Numbers, ObserveStale(n) PROVE ReplayInv'
  <2>1. /\ delivered' = delivered /\ Accepted' = Accepted
        /\ verdict' \in [n : 0..MaxNumber, d : Decisions]
        /\ AtMostOnce' /\ NoFalseDuplicate'
    BY <1>0, <1>4, OtherwiseAnswered DEF ObserveStale, Decisions
  <2> QED
    BY <1>4, <2>1 DEF ObserveStale, ReplayTypeOK, BitmapExact, Untouched
<1>5. ASSUME NEW n \in Numbers, ObserveInWindow(n) PROVE ReplayInv'
  <2>1. n \in (last - width + 1)..last /\ last' = last /\ last # 0
    BY <1>0, <1>5 DEF ObserveInWindow
  <2>2. testBit(words, n) <=> n \in Accepted
    BY <2>1, Zenon DEF BitmapExact
  <2>3. CASE testBit(words, n)
    <3>1. Answered(n, "duplicate") /\ words' = words
      BY <1>5, <2>3, Zenon DEF ObserveInWindow
    <3>2. /\ delivered' = delivered /\ Accepted' = Accepted
          /\ verdict' \in [n : 0..MaxNumber, d : Decisions]
          /\ AtMostOnce' /\ NoFalseDuplicate'
      BY <1>0, <2>2, <2>3, <3>1, OtherwiseAnswered DEF Decisions
    <3> QED
      BY <2>1, <3>1, <3>2 DEF ReplayTypeOK, BitmapExact, Untouched
  <2>4. CASE ~testBit(words, n)
    <3>1. Answered(n, "first-copy") /\ words' = setBit(words, n)
      BY <1>5, <2>4 DEF ObserveInWindow
    <3>2. /\ delivered' \in [Numbers -> Nat] /\ Accepted' = Accepted \cup {n}
          /\ verdict' \in [n : 0..MaxNumber, d : Decisions]
          /\ AtMostOnce' /\ NoFalseDuplicate'
      BY <2>2, <2>4, <3>1, FirstCopyAnswered
    <3>3. words' \in Bitmaps
          /\ \A q \in Positions :
               BitAt(words', q) <=> (BitAt(words, q) \/ q = n % width)
      BY <1>0, <3>1, SetBitAt
    <3>4. ASSUME NEW p \in (last - width + 1)..last
          PROVE  testBit(words', p) <=> p \in Accepted'
      <4>1. p \in Int /\ n \in Int
        BY <1>0
      <4>2. testBit(words', p) <=> (testBit(words, p) \/ p % width = n % width)
        BY <3>3, <4>1, NumberPosition, TestBitAt
      <4>3. p % width = n % width <=> p = n
        <5>0. n - p < width /\ p - n < width
          BY <1>0, <2>1
        <5>1. CASE p <= n
          BY <4>1, <5>0, <5>1, SlotUnique
        <5>2. CASE n <= p
          BY <4>1, <5>0, <5>2, SlotUnique, Zenon
        <5> QED
          BY <4>1, <5>1, <5>2
      <4> QED
        BY <3>2, <4>2, <4>3 DEF BitmapExact
    <3> QED
      BY <1>0, <2>1, <3>2, <3>3, <3>4
         DEF ReplayTypeOK, Bitmaps, BitmapExact, Untouched
  <2> QED
    BY <2>3, <2>4
<1>6. CASE UNCHANGED replayVars
  BY <1>6 DEF replayVars, ReplayTypeOK, BitmapExact, Untouched, AtMostOnce,
              NoFalseDuplicate, Accepted
<1> QED
  BY <1>1, <1>2, <1>3, <1>4, <1>5, <1>6 DEF ReplayNext, ReplayObserve

-----------------------------------------------------------------------------
(* The inductive invariant holds in every reachable state. *)
THEOREM ReplayInvariance == ReplaySpec => []ReplayInv
  BY InitReplayInv, NextReplayInv, PTL DEF ReplaySpec

(* replay.go keeps a well-formed window: words of the right number and
   size, a decision for every call. *)
THEOREM ReplayTypeCorrect == ReplaySpec => []ReplayTypeOK
<1>1. ReplayInv => ReplayTypeOK
  BY DEF ReplayInv
<1> QED
  BY <1>1, ReplayInvariance, PTL

(* The ring bitmap is exact after any sequence of Observe calls, for every
   word size and width: advance clears every slot it reuses, and no other. *)
THEOREM BitmapIsExact == ReplaySpec => []BitmapExact
<1>1. ReplayInv => BitmapExact
  BY DEF ReplayInv
<1> QED
  BY <1>1, ReplayInvariance, PTL

(* Observe answers first-copy at most once for each packet number. *)
THEOREM DeliveredAtMostOnce == ReplaySpec => []AtMostOnce
<1>1. ReplayInv => AtMostOnce
  BY DEF ReplayInv
<1> QED
  BY <1>1, ReplayInvariance, PTL

(* Observe answers duplicate only for a number it delivered. *)
THEOREM DuplicatesAreReal == ReplaySpec => []NoFalseDuplicate
<1>1. ReplayInv => NoFalseDuplicate
  BY Zenon DEF ReplayInv
<1> QED
  BY <1>1, ReplayInvariance, PTL

(* A first-copy answer of the ring is an Offer of AntiReplay. *)
LEMMA FirstCopyIsOffer ==
  ASSUME ReplayInv, NEW n \in Numbers, n \notin Accepted, ~(n + width <= last),
         Answered(n, "first-copy"), last' = IF n > last THEN n ELSE last
  PROVE  Abstract!Offer(n)
<1>1. Accepted' = Accepted \cup {n} /\ verdict' = [n |-> n, d |-> "first-copy"]
  BY FirstCopyAnswered, Zenon DEF ReplayInv, Answered
<1>2. n # 0
  BY DEF Numbers
<1>3. Abstract!Answer(n) = "first-copy"
  BY <1>2 DEF Abstract!Answer
<1> QED
  BY <1>1, <1>3, Zenon DEF Abstract!Offer

(* Any other answer of the ring is an Offer of AntiReplay. *)
LEMMA OtherIsOffer ==
  ASSUME ReplayInv, NEW n \in 0..MaxNumber, NEW d \in Decisions, d # "first-copy",
         Abstract!Answer(n) = d, Answered(n, d), last' = last
  PROVE  Abstract!Offer(n)
<1>1. Accepted' = Accepted /\ verdict' = [n |-> n, d |-> d]
  BY DEF Answered, Accepted
<1> QED
  BY <1>1 DEF Abstract!Offer

(* replay.go implements AntiReplay: the caller of Observe cannot tell the
   ring bitmap from an unbounded set of accepted numbers. *)
THEOREM ReplayRefinement == ReplaySpec => ImplementsAntiReplay
<1>1. ReplayInit => Abstract!Init
  BY DEF ReplayInit, Abstract!Init, Accepted
<1>2. ASSUME ReplayInv, [ReplayNext]_replayVars PROVE [Abstract!Next]_(Abstract!vars)
  <2>0. /\ last \in Nat /\ width \in Nat \ {0} /\ MaxNumber \in Nat
        /\ \A m \in Numbers : m \in Nat /\ m >= 1 /\ m \in 0..MaxNumber
    BY <1>2, SizeAssumption, Sizes DEF ReplayInv, ReplayTypeOK, Numbers
  <2>1. CASE ObserveZero
    <3>1. Abstract!Answer(0) = "invalid"
      BY Zenon DEF Abstract!Answer
    <3>2. Abstract!Offer(0)
      BY <1>2, <2>0, <2>1, <3>1, OtherIsOffer DEF ObserveZero, Decisions
    <3> QED
      BY <2>0, <3>2 DEF Abstract!Next
  <2>2. ASSUME NEW n \in Numbers, ReplayObserve(n) PROVE Abstract!Offer(n)
    <3>1. CASE ObserveInitial(n) \/ ObserveAhead(n)
      <4>1. n > last /\ last' = n /\ Answered(n, "first-copy")
        BY <2>0, <3>1 DEF ObserveInitial, ObserveAhead
      <4>2. n \notin Accepted
        BY <1>2, <2>0, <4>1 DEF ReplayInv, BitmapExact
      <4>3. ~(n + width <= last)
        BY <2>0, <4>1
      <4> QED
        BY <1>2, <4>1, <4>2, <4>3, FirstCopyIsOffer
    <3>2. CASE ObserveStale(n)
      <4>1. n # 0 /\ n + width <= last /\ Answered(n, "stale") /\ last' = last
        BY <2>0, <3>2 DEF ObserveStale
      <4>2. Abstract!Answer(n) = "stale"
        BY <4>1 DEF Abstract!Answer
      <4> QED
        BY <1>2, <2>0, <4>1, <4>2, OtherIsOffer DEF Decisions
    <3>3. CASE ObserveInWindow(n)
      <4>1. /\ n # 0 /\ ~(n + width <= last) /\ last' = last /\ ~(n > last)
            /\ n \in (last - width + 1)..last
        BY <2>0, <3>3 DEF ObserveInWindow
      <4>2. testBit(words, n) <=> n \in Accepted
        BY <1>2, <4>1 DEF ReplayInv, BitmapExact
      <4>3. CASE n \in Accepted
        <5>1. Answered(n, "duplicate")
          BY <3>3, <4>2, <4>3 DEF ObserveInWindow
        <5>2. Abstract!Answer(n) = "duplicate"
          BY <4>1, <4>3 DEF Abstract!Answer
        <5> QED
          BY <1>2, <2>0, <4>1, <5>1, <5>2, OtherIsOffer DEF Decisions
      <4>4. CASE n \notin Accepted
        <5>1. Answered(n, "first-copy")
          BY <3>3, <4>2, <4>4 DEF ObserveInWindow
        <5> QED
          BY <1>2, <4>1, <4>4, <5>1, FirstCopyIsOffer
      <4> QED
        BY <4>3, <4>4
    <3> QED
      BY <2>2, <3>1, <3>2, <3>3 DEF ReplayObserve
  <2>3. CASE UNCHANGED replayVars
    BY <2>3 DEF replayVars, Abstract!vars, Accepted
  <2> QED
    BY <1>2, <2>0, <2>1, <2>2, <2>3 DEF ReplayNext, Abstract!Next
<1> QED
  BY <1>1, <1>2, ReplayInvariance, PTL DEF ReplaySpec, ImplementsAntiReplay, Abstract!Spec

-----------------------------------------------------------------------------
(* The invariant that makes both inductive: the age of a live entry is its
   distance from the newest one, and everything else is forgotten. *)
AgesFollowRing ==
  /\ \A k \in 0..(count - 1) : Live(k) \in Ids /\ age[Live(k)] = count - 1 - k
  /\ \A id \in Ids \ DOMAIN seen : age[id] = Capacity

IInv ==
  /\ TypeOK
  /\ {Live(k) : k \in 0..(count - 1)} = DOMAIN seen
  /\ AgesFollowRing

(* The three stated invariants follow. *)
LEMMA IInvImplies ==
  IInv => TypeOK /\ RingMatchesMap /\ RemembersExactlyCapacity
<1> SUFFICES ASSUME IInv PROVE RingMatchesMap /\ RemembersExactlyCapacity
  BY DEF IInv
<1>0. count \in Int /\ count <= Capacity /\ Capacity \in Int
  BY WindowAssumption DEF IInv, TypeOK
<1>1. RingMatchesMap
  <2>1. ASSUME NEW j \in 0..(count - 1), NEW k \in 0..(count - 1),
               Live(j) = Live(k)
        PROVE  j = k
    <3>1. count - 1 - j = count - 1 - k
      BY <2>1 DEF IInv, AgesFollowRing
    <3> QED
      BY <1>0, <3>1
  <2> QED
    BY <2>1 DEF IInv, RingMatchesMap
<1>2. RemembersExactlyCapacity
  <2>1. ASSUME NEW id \in DOMAIN seen PROVE age[id] < Capacity
    <3>1. PICK k \in 0..(count - 1) : id = Live(k)
      BY DEF IInv
    <3>2. age[id] = count - 1 - k
      BY <3>1 DEF IInv, AgesFollowRing
    <3> QED
      BY <1>0, <3>2
  <2>2. ASSUME NEW id \in Ids \ DOMAIN seen PROVE ~(age[id] < Capacity)
    BY <1>0, <2>2 DEF IInv, AgesFollowRing
  <2> QED
    BY <2>1, <2>2 DEF RemembersExactlyCapacity
<1> QED
  BY <1>1, <1>2

(* A new window satisfies the invariant. *)
LEMMA InitIInv == Init => IInv
<1> SUFFICES ASSUME Init PROVE IInv
  OBVIOUS
<1>1. DOMAIN seen = {}
  BY DEF Init
<1>2. TypeOK
  <2>1. seen \in [DOMAIN seen -> Records]
    BY <1>1 DEF Init
  <2> QED
    BY <1>1, <2>1, WindowAssumption DEF Init, TypeOK, Slots
<1>3. 0..(count - 1) = {}
  BY DEF Init
<1> QED
  BY <1>1, <1>2, <1>3 DEF Init, IInv, AgesFollowRing

(* What ObserveFirst does to the ring, whether it evicts (d = 1) or not
   (d = 0): the live entries from the d-th on keep their order and id
   comes behind them. *)
LEMMA FirstCopyRing ==
  ASSUME IInv, NEW id \in Ids, NEW path, ObserveFirst(id, path)
  PROVE  \E d \in {0, 1}, n \in Nat :
           /\ n = count - d
           /\ n < Capacity
           /\ d = 1 <=> count = Capacity
           /\ head' \in Slots
           /\ count' = n + 1
           /\ ring' \in [Slots -> Ids \cup {NoId}]
           /\ \A k \in 0..(n - 1) : Live(k)' = Live(k + d)
           /\ Live(n)' = id
           /\ DOMAIN seen' = {Live(k + d) : k \in 0..(n - 1)} \cup {id}
<1>0. /\ head \in Int /\ head \in Slots /\ count \in Int
      /\ 0 <= count /\ count <= Capacity /\ Capacity \in Nat \ {0}
      /\ ring \in [Slots -> Ids \cup {NoId}]
  BY WindowAssumption DEF IInv, TypeOK, Slots
<1>1. PICK d \in {0, 1}, n \in Nat :
        /\ d = IF count < Capacity THEN 0 ELSE 1
        /\ n = count - d /\ n < Capacity /\ (d = 1 <=> count = Capacity)
  BY <1>0
<1>2. head' = (head + d) % Capacity
  <2>1. CASE count < Capacity
    <3>1. head' = head
      BY <2>1, Zenon DEF ObserveFirst, evictIfFull
    <3>2. head % Capacity = head
      <4>1. head \in 0..(Capacity - 1)
        BY <1>0, Zenon DEF Slots
      <4>2. head = Capacity * 0 + head
        BY <1>0
      <4> QED
        BY <1>0, <4>1, <4>2, ModUnique
    <3> QED
      BY <1>0, <1>1, <2>1, <3>1, <3>2
  <2>2. CASE ~(count < Capacity)
    BY <1>1, <2>2 DEF ObserveFirst, evictIfFull
  <2> QED
    BY <2>1, <2>2
<1>3. head' \in Slots
  BY <1>0, <1>1, <1>2, DivMod DEF Slots
<1>4. /\ count' = n + 1
      /\ ring' = [ring EXCEPT ![(head' + n) % Capacity] = id]
  <2>1. evictIfFull.head = head' /\ evictIfFull.count = n
    <3>1. evictIfFull.head = head'
      BY Zenon DEF ObserveFirst
    <3>2. evictIfFull.count = IF count < Capacity THEN count ELSE count - 1
      BY Zenon DEF evictIfFull
    <3> QED
      BY <1>0, <1>1, <3>1, <3>2
  <2> QED
    BY <2>1, Zenon DEF ObserveFirst, pushID
\* the slot of the k-th entry behind the new head
<1>5. ASSUME NEW k \in Int
      PROVE  /\ (head' + k) % Capacity = (head + (k + d)) % Capacity
             /\ (head' + k) % Capacity \in Slots
  <2>1. PICK a \in Int, b \in Int : a = head + d /\ b = k + d
    BY <1>0, <1>1
  <2>2. ((a % Capacity) + k) % Capacity = (a + k) % Capacity
    BY <1>0, ModAdd, Zenon
  <2>3. a + k = head + b
    BY <1>0, <1>1, <2>1
  <2>4. (a + k) % Capacity \in Slots
    BY <1>0, DivMod DEF Slots
  <2> QED
    BY <1>2, <2>1, <2>2, <2>3, <2>4
<1>6. ring' \in [Slots -> Ids \cup {NoId}]
  BY <1>0, <1>4, Zenon
<1>7. Live(n)' = id
  <2>1. (head' + n) % Capacity \in Slots
    BY <1>1, <1>5
  <2> QED
    BY <1>0, <1>4, <2>1, Zenon DEF Live
<1>8. ASSUME NEW k \in 0..(n - 1) PROVE Live(k)' = Live(k + d)
  <2>1. (head' + k) % Capacity \in Slots /\ (head' + n) % Capacity \in Slots
        /\ (head' + k) % Capacity = (head + (k + d)) % Capacity
    BY <1>1, <1>5
  <2>2. (head' + k) % Capacity # (head' + n) % Capacity
    <3>0. head' \in Int /\ k \in Int /\ 0 <= k /\ k < n
      BY <1>0, <1>3 DEF Slots
    <3>1. PICK h \in Int : h = head'
      BY <3>0
    <3>2. PICK x \in Int, y \in Int : x = h + k /\ y = h + n
      BY <3>0
    <3>3. x <= y /\ y - x < Capacity /\ x # y
      BY <1>0, <1>1, <3>0, <3>2
    <3>4. x % Capacity # y % Capacity
      BY <1>0, <3>3, SlotInjective, Zenon
    <3> QED
      BY <3>1, <3>2, <3>4
  <2>3. ring'[(head' + k) % Capacity] = ring[(head' + k) % Capacity]
    BY <1>0, <1>4, <2>1, <2>2, Zenon
  <2> QED
    BY <2>1, <2>3 DEF Live
<1>9. DOMAIN seen' = {Live(k + d) : k \in 0..(n - 1)} \cup {id}
  <2>1. CASE count < Capacity
    <3>1. DOMAIN seen' = DOMAIN seen \cup {id} /\ d = 0
      BY <1>1, <2>1, Zenon DEF ObserveFirst, evictIfFull
    <3>2. DOMAIN seen = {Live(k) : k \in 0..(count - 1)}
      BY Zenon DEF IInv
    <3>3. {Live(k + d) : k \in 0..(n - 1)} = {Live(k) : k \in 0..(count - 1)}
      BY <1>0, <1>1, <3>1
    <3> QED
      BY <3>1, <3>2, <3>3
  <2>2. CASE ~(count < Capacity)
    <3>1. DOMAIN seen' = (DOMAIN seen \ {ring[head]}) \cup {id} /\ d = 1
      BY <1>1, <2>2, Zenon DEF ObserveFirst, evictIfFull, Restrict
    <3>2. ring[head] = Live(0)
      <4>1. head = Capacity * 0 + head /\ head \in 0..(Capacity - 1)
        BY <1>0 DEF Slots
      <4>2. head % Capacity = head
        BY <1>0, <4>1, ModUnique
      <4> QED
        BY <1>0, <4>2 DEF Live
    <3>3. \A j, k \in 0..(count - 1) : Live(j) = Live(k) => j = k
      BY IInvImplies, Zenon DEF RingMatchesMap
    <3>4. DOMAIN seen = {Live(k) : k \in 0..(count - 1)}
      BY DEF IInv
    <3>5. 0 \in 0..(count - 1) /\ n = count - 1
      BY <1>0, <1>1, <2>2, <3>1
    <3>6. ASSUME NEW x \in DOMAIN seen \ {Live(0)}
          PROVE  \E k \in 0..(n - 1) : x = Live(k + d)
      <4>1. PICK j \in 0..(count - 1) : x = Live(j)
        BY <3>4
      <4>2. j # 0
        BY <4>1, <3>6, Zenon
      <4>3. j - 1 \in 0..(n - 1) /\ (j - 1) + d = j
        BY <1>0, <3>1, <3>5, <4>2
      <4> QED
        BY <4>1, <4>3
    <3>7. ASSUME NEW k \in 0..(n - 1)
          PROVE  Live(k + d) \in DOMAIN seen \ {Live(0)}
      <4>1. k + d \in 0..(count - 1) /\ k + d # 0
        BY <1>0, <3>1, <3>5
      <4> QED
        BY <3>3, <3>4, <3>5, <4>1, Zenon
    <3> QED
      BY <3>1, <3>2, <3>6, <3>7
  <2> QED
    BY <2>1, <2>2
<1> QED
  BY <1>1, <1>3, <1>4, <1>6, <1>7, <1>8, <1>9

(* Every Observe preserves the invariant. *)
LEMMA NextIInv == IInv /\ [Next]_windowVars => IInv'
<1> SUFFICES ASSUME IInv, [Next]_windowVars PROVE IInv'
  OBVIOUS
<1>0. Capacity \in Nat \ {0} /\ count \in Int /\ age \in [Ids -> 0..Capacity]
  BY WindowAssumption DEF IInv, TypeOK
<1>1. CASE ObserveInvalid
  BY <1>1, Zenon DEF ObserveInvalid, IInv, TypeOK, AgesFollowRing, Live
<1>2. ASSUME NEW id \in Ids, NEW path \in Paths, ObserveDuplicate(id, path)
      PROVE  IInv'
  <2>1. DOMAIN seen' = DOMAIN seen /\ UNCHANGED <<ring, head, count, age>>
    BY <1>2 DEF ObserveDuplicate
  <2>2. seen' \in [DOMAIN seen' -> Records]
    <3>1. id \in DOMAIN seen /\ seen \in [DOMAIN seen -> Records]
      BY <1>2 DEF ObserveDuplicate, IInv, TypeOK
    <3>2. seen[id] \in Records /\ seen[id].copyCount + 1 \in Nat \ {0}
      BY <3>1 DEF Records
    <3>3. seen' = [seen EXCEPT ![id].copyCount = seen[id].copyCount + 1]
      BY <1>2 DEF ObserveDuplicate
    <3>4. [seen[id] EXCEPT !.copyCount = seen[id].copyCount + 1] \in Records
      BY <3>2 DEF Records
    <3>5. seen' \in [DOMAIN seen -> Records]
      BY <3>1, <3>3, <3>4
    <3> QED
      BY <2>1, <3>5
  <2> QED
    BY <2>1, <2>2 DEF IInv, TypeOK, AgesFollowRing, Live
<1>3. ASSUME NEW id \in Ids, NEW path \in Paths, ObserveFirst(id, path)
      PROVE  IInv'
  <2>1. PICK d \in {0, 1}, n \in Nat :
           /\ n = count - d
           /\ n < Capacity
           /\ d = 1 <=> count = Capacity
           /\ head' \in Slots
           /\ count' = n + 1
           /\ ring' \in [Slots -> Ids \cup {NoId}]
           /\ \A k \in 0..(n - 1) : Live(k)' = Live(k + d)
           /\ Live(n)' = id
           /\ DOMAIN seen' = {Live(k + d) : k \in 0..(n - 1)} \cup {id}
    BY <1>3, FirstCopyRing, Zenon
  <2>2. \A k \in 0..(n - 1) :
           /\ k + d \in 0..(count - 1)
           /\ Live(k + d) \in Ids
           /\ Live(k + d) \in DOMAIN seen
           /\ age[Live(k + d)] = n - 1 - k
    <3>1. ASSUME NEW k \in 0..(n - 1) PROVE k + d \in 0..(count - 1)
      BY <1>0, <2>1
    <3>2. ASSUME NEW k \in 0..(n - 1)
          PROVE  Live(k + d) \in Ids /\ age[Live(k + d)] = n - 1 - k
      <4>1. Live(k + d) \in Ids /\ age[Live(k + d)] = count - 1 - (k + d)
        BY <3>1, Zenon DEF IInv, AgesFollowRing
      <4> QED
        BY <1>0, <2>1, <4>1
    <3> QED
      BY <3>1, <3>2, Zenon DEF IInv
  <2>3. id \notin DOMAIN seen
    BY <1>3, Zenon DEF ObserveFirst
  <2>4. age' = [x \in Ids |-> IF x = id THEN 0
                              ELSE IF age[x] < Capacity THEN age[x] + 1
                              ELSE Capacity]
    BY <1>3 DEF ObserveFirst
  <2>5. {Live(k) : k \in 0..(count - 1)}' = DOMAIN seen'
    <3>1. {Live(k) : k \in 0..(count - 1)}' = {Live(k)' : k \in 0..n}
      BY <2>1
    <3>2. \A k \in 0..n : k = n \/ k \in 0..(n - 1)
      BY <2>1
    <3>3. \A k \in 0..(n - 1) : k \in 0..n
      BY <2>1
    <3>4. n \in 0..n
      BY <2>1
    <3> QED
      BY <2>1, <3>1, <3>2, <3>3, <3>4
  <2>6. TypeOK'
    <3>1. DOMAIN seen' \subseteq Ids
      BY <2>1, <2>2
    <3>2. age' \in [Ids -> 0..Capacity]
      BY <1>0, <2>4
    <3>3. seen' \in [DOMAIN seen' -> Records]
      <4> DEFINE kept == evictIfFull.seen
      <4>1. /\ DOMAIN kept \subseteq DOMAIN seen
            /\ \A x \in DOMAIN kept : kept[x] = seen[x]
        BY Zenon DEF evictIfFull, Restrict
      <4>2. \A x \in DOMAIN kept : kept[x] \in Records
        BY <4>1, Zenon DEF IInv, TypeOK
      <4>3. seen' = [x \in DOMAIN kept \cup {id} |->
                       IF x = id THEN [firstPath |-> path, copyCount |-> 1]
                                 ELSE kept[x]]
        BY <1>3 DEF ObserveFirst
      <4>4. [firstPath |-> path, copyCount |-> 1] \in Records
        BY DEF Records
      <4> HIDE DEF kept
      <4> QED
        BY <4>2, <4>3, <4>4, Zenon
    <3>4. count' \in 0..Capacity
      BY <1>0, <2>1
    <3> QED
      BY <2>1, <3>1, <3>2, <3>3, <3>4, Zenon DEF TypeOK
  <2>7. AgesFollowRing'
    <3>1. ASSUME NEW k \in 0..(n - 1)
          PROVE  Live(k)' \in Ids /\ age'[Live(k)'] = n - k
      <4>1. Live(k)' = Live(k + d) /\ Live(k + d) # id /\ Live(k + d) \in Ids
            /\ age[Live(k + d)] = n - 1 - k
        BY <2>1, <2>2, <2>3, Zenon
      <4>2. n - 1 - k < Capacity /\ n - 1 - k + 1 = n - k
        BY <1>0, <2>1
      <4> QED
        BY <2>4, <4>1, <4>2, Zenon
    <3>2. Live(n)' \in Ids /\ age'[Live(n)'] = 0
      BY <2>1, <2>4, Zenon
    <3>3. ASSUME NEW k \in 0..n
          PROVE  Live(k)' \in Ids /\ age'[Live(k)'] = n - k
      <4>1. CASE k = n
        BY <2>1, <3>2, <4>1
      <4>2. CASE k \in 0..(n - 1)
        BY <3>1, <4>2
      <4> QED
        BY <2>1, <4>1, <4>2
    <3>4. ASSUME NEW x \in Ids, x \notin DOMAIN seen' PROVE age'[x] = Capacity
      <4>1. x # id
        BY <2>1, <3>4, Zenon
      <4>2. age[x] = Capacity \/ age[x] = Capacity - 1
        <5>1. CASE x \notin DOMAIN seen
          BY <5>1 DEF IInv, AgesFollowRing
        <5>2. CASE x \in DOMAIN seen
          <6>1. PICK j \in 0..(count - 1) : x = Live(j)
            BY <5>2, Zenon DEF IInv
          <6>2. age[x] = count - 1 - j
            BY <6>1 DEF IInv, AgesFollowRing
          <6>3. j - d \notin 0..(n - 1)
            <7>1. ASSUME j - d \in 0..(n - 1) PROVE FALSE
              <8>1. PICK k \in 0..(n - 1) : k = j - d
                BY <7>1, Zenon
              <8>2. k + d = j
                BY <1>0, <2>1, <8>1
              <8>3. x \in DOMAIN seen'
                BY <2>1, <6>1, <8>2, Zenon
              <8> QED
                BY <3>4, <8>3
            <7> QED
              BY <7>1
          <6>4. d = 1 /\ j = 0 /\ count = Capacity
            BY <1>0, <2>1, <6>3
          <6> QED
            BY <1>0, <6>2, <6>4
        <5> QED
          BY <5>1, <5>2, Zenon
      <4> QED
        BY <1>0, <2>4, <4>1, <4>2
    <3>5. \A k \in 0..(count' - 1) : k \in 0..n /\ count' - 1 - k = n - k
      BY <2>1
    <3> QED
      BY <3>3, <3>4, <3>5, Zenon DEF AgesFollowRing
  <2> QED
    BY <2>5, <2>6, <2>7, Zenon DEF IInv
<1>4. CASE UNCHANGED windowVars
  BY <1>4 DEF windowVars, IInv, TypeOK, AgesFollowRing, Live
<1> QED
  BY <1>1, <1>2, <1>3, <1>4 DEF Next, Observe

-----------------------------------------------------------------------------
(* The inductive invariant holds in every reachable state. *)
THEOREM Invariance == Spec => []IInv
  BY InitIInv, NextIInv, PTL DEF Spec

(* A Window's fields stay well-formed. *)
THEOREM TypeCorrect == Spec => []TypeOK
  BY Invariance, IInvImplies, PTL

(* window.go: the ring buffer and the map hold the same identities, each in
   one live slot, after any sequence of observations. *)
THEOREM RingAndMapAgree == Spec => []RingMatchesMap
  BY Invariance, IInvImplies, PTL

(* window.go: an identity is forgotten when Capacity newer ones were taken
   in, not earlier and not later. *)
THEOREM MemoryIsExact == Spec => []RemembersExactlyCapacity
  BY Invariance, IInvImplies, PTL

-----------------------------------------------------------------------------
Entries == [id : Ids, firstPath : Paths, copyCount : Nat \ {0}]

(* The live entries form a sequence, and each remembered identity is at one
   place of it. *)
LEMMA QueueShape ==
  ASSUME IInv
  PROVE  /\ Queue \in Seq(Entries) /\ Len(Queue) = count
         /\ \A k \in 1..count :
              /\ Queue[k] = [id |-> Live(k - 1),
                             firstPath |-> seen[Live(k - 1)].firstPath,
                             copyCount |-> seen[Live(k - 1)].copyCount]
              /\ Live(k - 1) \in DOMAIN seen
         /\ \A id \in DOMAIN seen : \E k \in 1..count : Queue[k].id = id
<1>0. count \in Nat
  BY WindowAssumption DEF IInv, TypeOK
<1>1. \A k \in 1..count : k - 1 \in 0..(count - 1)
  BY <1>0
<1>2. \A k \in 1..count : Live(k - 1) \in DOMAIN seen /\ Live(k - 1) \in Ids
  BY <1>1 DEF IInv, AgesFollowRing
<1>3. \A k \in 1..count : seen[Live(k - 1)] \in Records
  BY <1>2, Zenon DEF IInv, TypeOK
<1>4. \A k \in 1..count :
        Queue[k] = [id |-> Live(k - 1),
                    firstPath |-> seen[Live(k - 1)].firstPath,
                    copyCount |-> seen[Live(k - 1)].copyCount]
  BY Zenon DEF Queue
<1>5. ASSUME NEW k \in 1..count PROVE Queue[k] \in Entries
  <2>1. PICK x \in Ids, r \in Records : x = Live(k - 1) /\ r = seen[x]
    BY <1>2, <1>3, Zenon
  <2>2. Queue[k] = [id |-> x, firstPath |-> r.firstPath, copyCount |-> r.copyCount]
    BY <1>4, <2>1
  <2>3. r.firstPath \in Paths /\ r.copyCount \in Nat \ {0}
    BY Zenon DEF Records
  <2> QED
    BY <2>2, <2>3 DEF Entries
<1>6. Queue \in [1..count -> Entries]
  BY <1>5 DEF Queue
<1>7. Queue \in Seq(Entries) /\ Len(Queue) = count
  BY <1>0, <1>6
<1>8. ASSUME NEW id \in DOMAIN seen PROVE \E k \in 1..count : Queue[k].id = id
  <2>1. PICK j \in 0..(count - 1) : id = Live(j)
    BY DEF IInv
  <2>2. PICK k \in 1..count : k = j + 1
    BY <1>0
  <2>3. Live(k - 1) = id
    <3>1. k - 1 = j
      BY <1>0, <2>2
    <3> QED
      BY <2>1, <3>1
  <2>4. Queue[k] = [id |-> id, firstPath |-> seen[id].firstPath,
                    copyCount |-> seen[id].copyCount]
    BY <1>4, <2>3
  <2> QED
    BY <2>4
<1> QED
  BY <1>2, <1>4, <1>7, <1>8

(* A duplicate changes the count of one entry and moves none. *)
LEMMA DuplicateIsAgain ==
  ASSUME IInv, NEW id \in Ids, NEW path, ObserveDuplicate(id, path)
  PROVE  Fifo!Again(id)
<1>0. count \in Nat /\ id \in DOMAIN seen
  BY WindowAssumption DEF IInv, TypeOK, ObserveDuplicate
<1>1. PICK i \in 1..count : Queue[i].id = id
  BY <1>0, QueueShape
<1>2. /\ Len(Queue) = count
      /\ Queue[i] = [id |-> id, firstPath |-> seen[id].firstPath,
                     copyCount |-> seen[id].copyCount]
      /\ Live(i - 1) = id
  BY <1>1, QueueShape
<1>3. PICK number : number = seen[id].copyCount + 1
  OBVIOUS
<1>4. /\ seen' = [seen EXCEPT ![id].copyCount = number]
      /\ result' = [decision |-> "duplicate", firstPath |-> seen[id].firstPath,
                    copyCount |-> number]
      /\ count' = count /\ \A k \in 1..count : Live(k - 1)' = Live(k - 1)
  BY <1>3 DEF ObserveDuplicate, Live
<1>5. ASSUME NEW k \in 1..count
      PROVE  [id |-> Live(k - 1), firstPath |-> seen'[Live(k - 1)].firstPath,
              copyCount |-> seen'[Live(k - 1)].copyCount]
             = IF k = i THEN [Queue[i] EXCEPT !.copyCount = number] ELSE Queue[k]
  <2>1. CASE k = i
    <3>1. seen[id] \in Records
      BY <1>0 DEF IInv, TypeOK
    <3>2. seen'[id] = [seen[id] EXCEPT !.copyCount = number]
      BY <1>0, <1>4
    <3>3. seen'[id].firstPath = seen[id].firstPath /\ seen'[id].copyCount = number
      BY <3>1, <3>2 DEF Records
    <3> QED
      BY <1>2, <2>1, <3>3
  <2>2. CASE k # i
    <3>1. k - 1 \in 0..(count - 1) /\ i - 1 \in 0..(count - 1) /\ k - 1 # i - 1
      BY <1>0, <2>2
    <3>2. Live(k - 1) # id
      BY <1>2, <3>1, IInvImplies, Zenon DEF RingMatchesMap
    <3>3. Live(k - 1) \in DOMAIN seen
      BY QueueShape
    <3>4. seen'[Live(k - 1)] = seen[Live(k - 1)]
      BY <1>4, <3>2, <3>3
    <3> QED
      BY <2>2, <3>4, QueueShape
  <2> QED
    BY <2>1, <2>2
<1>6. Queue' = [k \in 1..count |->
                  IF k = i THEN [Queue[i] EXCEPT !.copyCount = number] ELSE Queue[k]]
  <2>1. Queue' = [k \in 1..count |->
                    [id |-> Live(k - 1), firstPath |-> seen'[Live(k - 1)].firstPath,
                     copyCount |-> seen'[Live(k - 1)].copyCount]]
    BY <1>4 DEF Queue
  <2> QED
    BY <1>5, <2>1
<1>7. Queue' = [Queue EXCEPT ![i] = [Queue[i] EXCEPT !.copyCount = number]]
  <2>1. DOMAIN Queue = 1..count
    BY Zenon DEF Queue
  <2> QED
    BY <1>6, <2>1, Zenon
<1>8. Queue[i].copyCount + 1 = number /\ Queue[i].firstPath = seen[id].firstPath
  BY <1>2, <1>3
<1> QED
  BY <1>1, <1>2, <1>4, <1>7, <1>8, Zenon DEF Fifo!Again

(* A sequence is a function on its indices. *)
LEMMA SeqIsFunction == ASSUME NEW T, NEW s \in Seq(T) PROVE s \in [1..Len(s) -> T]
  OBVIOUS

(* The first copy of an identity drops the oldest entry of a full window, and
   puts the new one behind the others. *)
LEMMA FirstIsRemember ==
  ASSUME IInv, NEW id \in Ids, NEW path \in Paths, ObserveFirst(id, path)
  PROVE  Fifo!Remember(id, path)
<1> DEFINE kept == IF Len(Queue) < Capacity THEN Queue ELSE Tail(Queue)
           entry == [id |-> id, firstPath |-> path, copyCount |-> 1]
<1>0. /\ Capacity \in Nat \ {0} /\ count \in 0..Capacity
      /\ id \notin DOMAIN seen
      /\ result' = [decision |-> "first-copy", firstPath |-> path, copyCount |-> 1]
  BY WindowAssumption, Zenon DEF IInv, TypeOK, ObserveFirst
<1>1. PICK d \in {0, 1}, n \in Nat :
         /\ n = count - d
         /\ n < Capacity
         /\ d = 1 <=> count = Capacity
         /\ head' \in Slots
         /\ count' = n + 1
         /\ ring' \in [Slots -> Ids \cup {NoId}]
         /\ \A k \in 0..(n - 1) : Live(k)' = Live(k + d)
         /\ Live(n)' = id
         /\ DOMAIN seen' = {Live(k + d) : k \in 0..(n - 1)} \cup {id}
  BY FirstCopyRing, Zenon
<1>2. /\ Queue \in Seq(Entries) /\ Len(Queue) = count
      /\ \A k \in 1..count :
           /\ Queue[k] = [id |-> Live(k - 1),
                          firstPath |-> seen[Live(k - 1)].firstPath,
                          copyCount |-> seen[Live(k - 1)].copyCount]
           /\ Live(k - 1) \in DOMAIN seen
  BY QueueShape
<1>3. \A k \in 1..count : Queue[k].id # id
  BY <1>0, <1>2
<1>4. seen'[id] = [firstPath |-> path, copyCount |-> 1]
      /\ \A x \in DOMAIN seen' \ {id} : seen'[x] = seen[x]
  <2> DEFINE rest == evictIfFull.seen
  <2>1. \A x \in DOMAIN rest : rest[x] = seen[x]
    BY Zenon DEF evictIfFull, Restrict
  <2>2. seen' = [x \in DOMAIN rest \cup {id} |->
                   IF x = id THEN [firstPath |-> path, copyCount |-> 1]
                             ELSE rest[x]]
    BY Zenon DEF ObserveFirst
  <2> HIDE DEF rest
  <2> QED
    BY <2>1, <2>2, Zenon
<1>5. /\ kept \in Seq(Entries) /\ Len(kept) = n
      /\ \A k \in 1..n : kept[k] = Queue[k + d]
  <2>1. CASE count < Capacity
    <3>1. d = 0 /\ n = count /\ kept = Queue
      BY <1>0, <1>1, <1>2, <2>1
    <3> QED
      BY <1>1, <1>2, <3>1
  <2>2. CASE ~(count < Capacity)
    <3>1. d = 1 /\ n = count - 1 /\ kept = Tail(Queue) /\ Queue # <<>>
      BY <1>0, <1>1, <1>2, <2>2
    <3> HIDE DEF kept
    <3> QED
      BY <1>1, <1>2, <3>1
  <2> QED
    BY <2>1, <2>2, Zenon
<1>6. Queue' = [k \in 1..(n + 1) |->
                  [id |-> Live(k - 1)', firstPath |-> seen'[Live(k - 1)'].firstPath,
                   copyCount |-> seen'[Live(k - 1)'].copyCount]]
  BY <1>1, Zenon DEF Queue
<1>7. ASSUME NEW k \in 1..n PROVE Queue'[k] = Queue[k + d]
  <2>1. k - 1 \in 0..(n - 1) /\ (k - 1) + d = (k + d) - 1 /\ k + d \in 1..count
        /\ k \in 1..(n + 1)
    BY <1>0, <1>1
  <2>2. PICK x : x = Live((k + d) - 1)
    BY Zenon
  <2>3. Live(k - 1)' = x
    BY <1>1, <2>1, <2>2, Zenon
  <2>4. x \in DOMAIN seen /\ x \in DOMAIN seen'
    BY <1>1, <1>2, <2>1, <2>2, Zenon
  <2>5. seen'[x] = seen[x]
    BY <1>0, <1>4, <2>4, Zenon
  <2>6. Queue[k + d] = [id |-> x, firstPath |-> seen[x].firstPath,
                        copyCount |-> seen[x].copyCount]
    BY <1>2, <2>1, <2>2, Zenon
  <2> QED
    BY <1>6, <2>1, <2>3, <2>5, <2>6, Zenon
<1>8. Queue'[n + 1] = entry
  <2>1. (n + 1) - 1 = n /\ n + 1 \in 1..(n + 1)
    BY <1>1
  <2>2. PICK m : m = (n + 1) - 1
    BY Zenon
  <2>3. Queue'[n + 1] = [id |-> Live(m)', firstPath |-> seen'[Live(m)'].firstPath,
                         copyCount |-> seen'[Live(m)'].copyCount]
    BY <1>6, <2>1, <2>2, Zenon
  <2>4. m = n /\ Live(n)' = id
    BY <1>1, <2>1, <2>2, Zenon
  <2>5. Live(m)' = id
    BY <2>4, Zenon DEF Live
  <2>6. seen'[id].firstPath = path /\ seen'[id].copyCount = 1
    BY <1>4
  <2> QED
    BY <2>3, <2>5, <2>6, Zenon
<1>9. Queue' = Append(kept, entry)
  <2>1. DOMAIN Queue' = 1..(n + 1)
    BY <1>6, Zenon
  <2>2. entry \in Entries
    BY DEF Entries
  <2> HIDE DEF kept, entry
  <2>3. Append(kept, entry) \in Seq(Entries) /\ Len(Append(kept, entry)) = n + 1
    BY <1>1, <1>5, <2>2
  <2>4. \A k \in 1..n : Append(kept, entry)[k] = kept[k]
    BY <1>1, <1>5, <2>2
  <2>5. Append(kept, entry)[n + 1] = entry
    BY <1>1, <1>5, <2>2
  <2>6. ASSUME NEW k \in 1..(n + 1) PROVE Queue'[k] = Append(kept, entry)[k]
    <3>1. k \in 1..n \/ k = n + 1
      BY <1>1
    <3> QED
      BY <1>5, <1>7, <1>8, <2>4, <2>5, <3>1, Zenon
  <2>7. Queue' = [k \in 1..(n + 1) |-> Queue'[k]]
    BY <1>6
  <2>8. Append(kept, entry) = [k \in 1..(n + 1) |-> Append(kept, entry)[k]]
    <3>1. PICK new \in Seq(Entries) : new = Append(kept, entry) /\ Len(new) = n + 1
      BY <2>3, Zenon
    <3>2. new \in [1..(n + 1) -> Entries]
      BY <3>1, SeqIsFunction, Zenon
    <3> QED
      BY <3>1, <3>2, Zenon
  <2> QED
    BY <2>6, <2>7, <2>8, Zenon
<1> QED
  BY <1>0, <1>2, <1>3, <1>9, Zenon DEF Fifo!Remember

(* window.go: map, ring, head and count are a first-in first-out memory of
   the last Capacity identities, answer for answer, for every capacity. *)
THEOREM Refinement == Spec => ImplementsFifoMemory
<1>1. Init => Fifo!Init
  <2> SUFFICES ASSUME Init PROVE Fifo!Init
    OBVIOUS
  <2>1. Queue = <<>>
    BY DEF Init, Queue
  <2> QED
    BY <2>1, Zenon DEF Init, Fifo!Init, Nothing, Fifo!Nothing
<1>2. ASSUME IInv, [Next]_windowVars PROVE [Fifo!Next]_(Fifo!vars)
  <2>1. CASE ObserveInvalid
    <3>1. Queue' = Queue
      BY <2>1 DEF ObserveInvalid, Queue, Live
    <3>2. Fifo!Refuse
      BY <2>1, <3>1, Zenon DEF ObserveInvalid, Fifo!Refuse, Nothing, Fifo!Nothing
    <3> QED
      BY <3>2, Zenon DEF Fifo!Next
  <2>2. ASSUME NEW id \in Ids, NEW path \in Paths, ObserveDuplicate(id, path)
        PROVE  Fifo!Next
    BY <1>2, <2>2, DuplicateIsAgain DEF Fifo!Next
  <2>3. ASSUME NEW id \in Ids, NEW path \in Paths, ObserveFirst(id, path)
        PROVE  Fifo!Next
    BY <1>2, <2>3, FirstIsRemember DEF Fifo!Next
  <2>4. CASE UNCHANGED windowVars
    <3>1. Queue' = Queue /\ result' = result
      BY <2>4 DEF windowVars, Queue, Live
    <3> QED
      BY <3>1, Zenon DEF Fifo!vars
  <2> QED
    BY <1>2, <2>1, <2>2, <2>3, <2>4 DEF Next, Observe
<1> QED
  BY <1>1, <1>2, Invariance, PTL DEF Spec, ImplementsFifoMemory, Fifo!Spec

-----------------------------------------------------------------------------
(* geminactl probe.                                                        *)

\* The sender and the counts of the gateway.
SenderType == [pc : {"dial", "dial2", "send", "printed", "failed"},
               n : Nat \ {0}, copy : Nat \ {0}, sent : Nat]
GatewayType == [first : Nat, dup : Nat, late : Nat, reached : SUBSET Nat]

\* Where the sender stands: no probe beyond the last, a copy of the probe.
SenderInv ==
  /\ cfg \in ProbeConfigs
  /\ sender \in SenderType
  /\ sender.copy <= perProbe
  /\ sender.pc \in {"dial", "dial2"} => sender.n = 1
  /\ sender.pc = "send" => sender.n <= cfg.count /\ parseProbeConfig
  /\ sender.pc = "printed" => sender.n = cfg.count + 1 /\ sender.copy = 1

\* A datagram under way was sent, by flags that were accepted.
WireInv ==
  /\ IsFiniteSet(wire)
  /\ wire \subseteq (1..cfg.count) \X Nat
  /\ \A d \in wire : d[1] < sender.n \/ (d[1] = sender.n /\ d[2] < sender.copy)
  /\ wire # {} => parseProbeConfig

\* The probes that reached the gateway or are under way are those sent, and
\* the window knows none that did not reach it.
ReachedInv ==
  /\ gateway \in GatewayType /\ IsFiniteSet(gateway.reached)
  /\ gateway.reached \cup {d[1] : d \in wire}
       = {i \in 1..cfg.count : i < sender.n \/ (i = sender.n /\ sender.copy > 1)}

\* The two equations of the reports.
CountsInv ==
  /\ gateway.first + gateway.dup + Cardinality(wire) = sender.sent
  /\ gateway.first = Cardinality(gateway.reached) + gateway.late

\* The window of the gateway keeps its own invariant, and knows only what
\* reached it.
ProbeInv ==
  /\ IInv /\ SenderInv /\ WireInv /\ ReachedInv /\ CountsInv
  /\ DOMAIN seen \subseteq gateway.reached

(* The flags have their types, and a probe has a datagram. *)
LEMMA Flags == ASSUME cfg \in ProbeConfigs
               PROVE  /\ cfg.count \in Int /\ 1..cfg.count \subseteq Ids
                      /\ perProbe \in Nat \ {0} /\ copies \in Nat \ {0}
BY ProbeAssumption DEF perProbe, copies

(* The command starts with nothing sent. *)
LEMMA InitProbeInv == ProbeInit => ProbeInv
<1> SUFFICES ASSUME ProbeInit PROVE ProbeInv
  OBVIOUS
<1>1. IInv /\ DOMAIN seen = {}
  BY InitIInv DEF ProbeInit, Init
<1>2. SenderInv
  BY Flags DEF ProbeInit, SenderInv, SenderType
<1>3. IsFiniteSet({}) /\ Cardinality({}) = 0
  BY FS_EmptySet, Zenon
<1>4. WireInv
  BY <1>3 DEF ProbeInit, WireInv
<1>5. gateway \in GatewayType /\ gateway.reached = {} /\ wire = {} /\ sender.n = 1
      /\ sender.copy = 1 /\ cfg.count \in Int
  BY Flags, Zenon DEF ProbeInit, GatewayType
<1>6. ReachedInv
  <2>1. {i \in 1..cfg.count : i < 1 \/ (i = 1 /\ 1 > 1)} = {}
    BY <1>5
  <2>2. gateway.reached \cup {d[1] : d \in wire} = {}
    BY <1>5, Zenon
  <2> QED
    BY <1>3, <1>5, <2>1, <2>2, Zenon DEF ReachedInv
<1>7. CountsInv
  BY <1>3 DEF ProbeInit, CountsInv
<1> QED
  BY <1>1, <1>2, <1>4, <1>6, <1>7, Zenon DEF ProbeInv

(* Sending touches the sender and the wire only. *)
LEMMA WriteProbeInv == ASSUME ProbeInv, WriteProbe, UNCHANGED windowVars PROVE ProbeInv'
<1>0. /\ cfg \in ProbeConfigs /\ cfg' = cfg /\ gateway' = gateway /\ seen' = seen
      /\ sender \in SenderType /\ sender.pc = "send" /\ sender.n <= cfg.count
      /\ sender.copy <= perProbe /\ parseProbeConfig
      /\ sender' = Written /\ wire' = wire \cup {<<sender.n, sender.copy>>}
      /\ cfg.count \in Int /\ perProbe \in Nat \ {0}
  BY Flags, Zenon DEF ProbeInv, SenderInv, WriteProbe, windowVars
<1>1. perProbe' = perProbe /\ (parseProbeConfig)'
  BY <1>0, Zenon DEF perProbe, copies, parseProbeConfig
<1>2. IInv'
  BY NextIInv, Zenon DEF ProbeInv
<1>2a. sender = [pc |-> sender.pc, n |-> sender.n, copy |-> sender.copy, sent |-> sender.sent]
  BY <1>0, Zenon DEF SenderType
<1>2b. sender.n \in Nat \ {0} /\ sender.copy \in Nat \ {0} /\ sender.sent \in Nat
  BY <1>0, Zenon DEF SenderType
<1>3. /\ sender' \in SenderType /\ sender'.sent = sender.sent + 1
      /\ \/ /\ sender.copy < perProbe /\ sender'.n = sender.n /\ sender'.copy = sender.copy + 1
            /\ sender'.pc = "send"
         \/ /\ ~(sender.copy < perProbe) /\ sender'.n = sender.n + 1 /\ sender'.copy = 1
            /\ sender'.pc = IF sender.n = cfg.count THEN "printed" ELSE "send"
  <2>1. CASE sender.copy < perProbe
    <3>1. sender' = [sender EXCEPT !.copy = sender.copy + 1, !.sent = sender.sent + 1]
      BY <1>0, <2>1 DEF Written
    <3>2. sender' = [pc |-> "send", n |-> sender.n, copy |-> sender.copy + 1,
                     sent |-> sender.sent + 1]
      BY <1>0, <1>2a, <3>1, Zenon
    <3> QED
      BY <1>2b, <2>1, <3>2 DEF SenderType
  <2>2. CASE ~(sender.copy < perProbe)
    <3>1. sender' = [sender EXCEPT !.copy = 1, !.sent = sender.sent + 1, !.n = sender.n + 1,
                       !.pc = IF sender.n = cfg.count THEN "printed" ELSE "send"]
      BY <1>0, <2>2 DEF Written
    <3>2. sender' = [pc |-> IF sender.n = cfg.count THEN "printed" ELSE "send",
                     n |-> sender.n + 1, copy |-> 1, sent |-> sender.sent + 1]
      BY <1>2a, <3>1, Zenon
    <3> QED
      BY <1>2b, <2>2, <3>2 DEF SenderType
  <2> QED
    BY <2>1, <2>2, Zenon
<1>4. /\ sender.n \in Nat \ {0} /\ sender.copy \in Nat \ {0} /\ sender.sent \in Nat
      /\ sender'.n \in Nat \ {0} /\ sender'.copy \in Nat \ {0}
  BY <1>0, <1>3, Zenon DEF SenderType
<1>5. SenderInv'
  BY <1>0, <1>1, <1>3, <1>4 DEF SenderInv
<1>6. <<sender.n, sender.copy>> \notin wire /\ IsFiniteSet(wire)
  BY <1>4 DEF ProbeInv, WireInv
<1>7. IsFiniteSet(wire') /\ Cardinality(wire') = Cardinality(wire) + 1
  BY <1>0, <1>6, FS_AddElement, Zenon
<1>8. WireInv'
  <2>1. wire' \subseteq (1..cfg'.count) \X Nat
    BY <1>0, <1>4 DEF ProbeInv, WireInv
  <2>2. ASSUME NEW d \in wire'
        PROVE  d[1] < sender'.n \/ (d[1] = sender'.n /\ d[2] < sender'.copy)
    <3>0. \A e \in wire : e[1] < sender.n \/ (e[1] = sender.n /\ e[2] < sender.copy)
      BY Zenon DEF ProbeInv, WireInv
    <3>1. d[1] < sender.n \/ (d[1] = sender.n /\ d[2] <= sender.copy)
      <4>1. CASE d \in wire
        <5>1. d[1] < sender.n \/ (d[1] = sender.n /\ d[2] < sender.copy)
          BY <3>0, <4>1, Zenon
        <5>2. d[2] \in Nat
          BY <2>1
        <5> QED
          BY <1>4, <5>1, <5>2
      <4>2. CASE d = <<sender.n, sender.copy>>
        <5>1. d[1] = sender.n /\ d[2] = sender.copy
          BY <4>2
        <5> QED
          BY <1>4, <5>1
      <4> QED
        BY <1>0, <4>1, <4>2, Zenon
    <3>2. d[1] \in Int /\ d[2] \in Int
      BY <1>0, <2>1
    <3> QED
      BY <1>0, <1>3, <1>4, <3>1, <3>2
  <2> QED
    BY <1>1, <1>7, <2>1, <2>2, Zenon DEF WireInv
<1>9. ReachedInv'
  <2>1. {d[1] : d \in wire'} = {d[1] : d \in wire} \cup {sender.n}
    <3>1. <<sender.n, sender.copy>>[1] = sender.n
      OBVIOUS
    <3>2. PICK e : e = <<sender.n, sender.copy>>
      BY Zenon
    <3> QED
      BY <1>0, <3>1, <3>2
  <2>2. {i \in 1..cfg.count : i < sender'.n \/ (i = sender'.n /\ sender'.copy > 1)}
        = {i \in 1..cfg.count : i < sender.n \/ (i = sender.n /\ sender.copy > 1)} \cup {sender.n}
    BY <1>0, <1>3, <1>4
  <2> QED
    BY <1>0, <2>1, <2>2, Zenon DEF ProbeInv, ReachedInv
<1>10. CountsInv'
  <2>1. Cardinality(wire) \in Nat /\ gateway.first \in Nat /\ gateway.dup \in Nat
    BY <1>6, FS_CardinalityType DEF ProbeInv, ReachedInv, GatewayType
  <2>2. /\ gateway.first + gateway.dup + Cardinality(wire) = sender.sent
        /\ gateway.first = Cardinality(gateway.reached) + gateway.late
    BY Zenon DEF ProbeInv, CountsInv
  <2>3. gateway'.first + gateway'.dup + Cardinality(wire') = sender'.sent
    BY <1>0, <1>3, <1>4, <1>7, <2>1, <2>2
  <2> QED
    BY <1>0, <2>2, <2>3, Zenon DEF CountsInv
<1> QED
  BY <1>0, <1>2, <1>5, <1>8, <1>9, <1>10, Zenon DEF ProbeInv

(* A dial, or an error that ends the command, moves only where it stands. *)
LEMMA PcProbeInv ==
  ASSUME ProbeInv, DialUDP \/ WriteProbeFails, UNCHANGED windowVars
  PROVE  ProbeInv'
<1>0. /\ cfg \in ProbeConfigs /\ cfg' = cfg /\ gateway' = gateway /\ wire' = wire
      /\ seen' = seen /\ sender \in SenderType
  BY DEF ProbeInv, SenderInv, DialUDP, WriteProbeFails, windowVars
<1>1. PICK to : /\ sender' = [sender EXCEPT !.pc = to]
                /\ \/ to = "failed"
                   \/ to = "dial2" /\ sender.pc = "dial"
                   \/ to = "send" /\ sender.pc \in {"dial", "dial2"} /\ parseProbeConfig
  <2>1. CASE DialUDP
    <3>1. PICK ok \in BOOLEAN : sender' = [sender EXCEPT !.pc =
            IF ~ok THEN "failed"
            ELSE IF sender.pc = "dial" /\ cfg.dual THEN "dial2" ELSE "send"]
      BY <2>1 DEF DialUDP
    <3>2. sender.pc \in {"dial", "dial2"} /\ parseProbeConfig
      BY <2>1 DEF DialUDP
    <3> QED
      BY <3>1, <3>2, Zenon
  <2>2. CASE WriteProbeFails
    BY <2>2 DEF WriteProbeFails
  <2> QED
    BY <2>1, <2>2
<1>2. /\ sender'.pc = to /\ sender'.n = sender.n /\ sender'.copy = sender.copy
      /\ sender'.sent = sender.sent /\ sender' \in SenderType
  BY <1>0, <1>1 DEF SenderType
<1>3. perProbe' = perProbe /\ (parseProbeConfig' <=> parseProbeConfig)
  BY <1>0 DEF perProbe, copies, parseProbeConfig
<1>4. SenderInv'
  BY <1>0, <1>1, <1>2, <1>3, Zenon DEF ProbeInv, SenderInv, parseProbeConfig
<1>5. WireInv' /\ ReachedInv' /\ CountsInv'
  BY <1>0, <1>2, <1>3, Zenon DEF ProbeInv, WireInv, ReachedInv, CountsInv
<1>6. IInv'
  BY NextIInv DEF ProbeInv
<1> QED
  BY <1>0, <1>4, <1>5, <1>6, Zenon DEF ProbeInv

(* Observe answers first-copy for exactly the identities the window does not
   remember, and remembers no other new one. *)
LEMMA ObserveAnswers ==
  ASSUME IInv, NEW id \in Ids, NEW path, Observe(id, path)
  PROVE  /\ result'.decision = "first-copy" <=> id \notin DOMAIN seen
         /\ id \notin DOMAIN seen <=> age[id] = Capacity
         /\ DOMAIN seen' \subseteq DOMAIN seen \cup {id}
<1>1. id \notin DOMAIN seen <=> age[id] = Capacity
  <2>1. id \in DOMAIN seen <=> age[id] < Capacity
    BY IInvImplies, Zenon DEF RemembersExactlyCapacity
  <2>2. age[id] \in 0..Capacity /\ Capacity \in Nat
    BY WindowAssumption DEF IInv, TypeOK
  <2> QED
    BY <2>1, <2>2
<1>2. CASE ObserveDuplicate(id, path)
  BY <1>1, <1>2, Zenon DEF ObserveDuplicate
<1>3. CASE ObserveFirst(id, path)
  <2>1. result'.decision = "first-copy" /\ id \notin DOMAIN seen
    BY <1>3, Zenon DEF ObserveFirst
  <2>2. DOMAIN evictIfFull.seen \subseteq DOMAIN seen
    BY DEF evictIfFull, Restrict
  <2>3. DOMAIN seen' = DOMAIN evictIfFull.seen \cup {id}
    BY <1>3, Zenon DEF ObserveFirst
  <2> QED
    BY <1>1, <2>1, <2>2, <2>3
<1> QED
  BY <1>2, <1>3, Zenon DEF Observe

(* A datagram arrives. *)
LEMMA ProbeArrivesInv ==
  ASSUME ProbeInv, ProbeArrives
  PROVE  ProbeInv'
<1>1. PICK d \in wire :
        /\ Observe(d[1], pathOf(d[2]))
        /\ wire' = wire \ {d} /\ UNCHANGED <<cfg, sender>>
        /\ LET id == d[1]
               first == result'.decision = "first-copy"
               again == id \in gateway.reached /\ age[id] = Capacity IN
           gateway' = [first |-> gateway.first + (IF first THEN 1 ELSE 0),
                       dup   |-> gateway.dup + (IF first THEN 0 ELSE 1),
                       late  |-> gateway.late + (IF again THEN 1 ELSE 0),
                       reached |-> gateway.reached \cup {id}]
  BY Zenon DEF ProbeArrives
<1>2. PICK id : id = d[1]
  BY Zenon
<1>3. /\ cfg \in ProbeConfigs /\ id \in 1..cfg.count /\ id \in Ids /\ parseProbeConfig
      /\ cfg' = cfg /\ sender' = sender /\ id \in Nat
  <2>1. cfg \in ProbeConfigs /\ parseProbeConfig /\ wire \subseteq (1..cfg.count) \X Nat
    BY <1>1, Zenon DEF ProbeInv, SenderInv, WireInv
  <2>2. 1..cfg.count \subseteq Ids /\ cfg.count \in Int
    BY <2>1, Flags, Zenon
  <2>3. id \in 1..cfg.count
    BY <1>1, <1>2, <2>1
  <2>4. id \in Nat
    BY <2>2, <2>3
  <2> QED
    BY <1>1, <2>1, <2>2, <2>3, <2>4, Zenon
<1>4. pathOf(d[2]) \in Paths
  BY <1>3, Zenon DEF parseProbeConfig, pathOf
<1>5. IInv'
  BY <1>1, <1>2, <1>3, <1>4, NextIInv, Zenon DEF ProbeInv, Next
<1>6. /\ result'.decision = "first-copy" <=> id \notin DOMAIN seen
      /\ id \notin DOMAIN seen <=> age[id] = Capacity
      /\ DOMAIN seen' \subseteq DOMAIN seen \cup {id}
  BY <1>1, <1>2, <1>3, ObserveAnswers, Zenon DEF ProbeInv
<1>7. /\ gateway'.reached = gateway.reached \cup {id}
      /\ gateway'.first = gateway.first + (IF id \notin DOMAIN seen THEN 1 ELSE 0)
      /\ gateway'.dup = gateway.dup + (IF id \notin DOMAIN seen THEN 0 ELSE 1)
      /\ gateway'.late = gateway.late + (IF id \in gateway.reached /\ id \notin DOMAIN seen
                                        THEN 1 ELSE 0)
      /\ gateway' = [first |-> gateway'.first, dup |-> gateway'.dup, late |-> gateway'.late,
                     reached |-> gateway'.reached]
  BY <1>1, <1>2, <1>6, Zenon
<1>8. /\ gateway.first \in Nat /\ gateway.dup \in Nat /\ gateway.late \in Nat
      /\ gateway.reached \subseteq Nat /\ IsFiniteSet(gateway.reached)
      /\ DOMAIN seen \subseteq gateway.reached
  BY DEF ProbeInv, ReachedInv, GatewayType
<1>9. IsFiniteSet(wire) /\ IsFiniteSet(wire') /\ Cardinality(wire') = Cardinality(wire) - 1
      /\ Cardinality(wire) \in Nat
  BY <1>1, FS_RemoveElement, FS_CardinalityType, Zenon DEF ProbeInv, WireInv
<1>10. IsFiniteSet(gateway'.reached) /\ Cardinality(gateway.reached) \in Nat
       /\ Cardinality(gateway'.reached)
            = Cardinality(gateway.reached) + (IF id \in gateway.reached THEN 0 ELSE 1)
  BY <1>7, <1>8, FS_AddElement, FS_CardinalityType
<1>11. perProbe' = perProbe /\ (parseProbeConfig' <=> parseProbeConfig)
  BY <1>3 DEF perProbe, copies, parseProbeConfig
<1>12. SenderInv' /\ WireInv'
  BY <1>1, <1>3, <1>9, <1>11, Zenon DEF ProbeInv, SenderInv, WireInv
<1>13. ReachedInv'
  <2>1. gateway' \in GatewayType
    BY <1>3, <1>7, <1>8 DEF GatewayType
  <2>2. gateway'.reached \cup {e[1] : e \in wire'} = gateway.reached \cup {e[1] : e \in wire}
    BY <1>1, <1>2, <1>7, Zenon
  <2> QED
    BY <1>3, <1>10, <2>1, <2>2, Zenon DEF ProbeInv, ReachedInv
<1>14. CountsInv'
  <2>1. gateway'.first + gateway'.dup = gateway.first + gateway.dup + 1
    BY <1>7, <1>8
  <2>2. gateway'.first \in Nat /\ gateway'.dup \in Nat
    BY <1>7, <1>8
  <2>3. gateway'.first + gateway'.dup + Cardinality(wire') = sender'.sent
    <3>1. gateway.first + gateway.dup + Cardinality(wire) = sender.sent
      BY Zenon DEF ProbeInv, CountsInv
    <3> QED
      BY <1>3, <1>8, <1>9, <2>1, <2>2, <3>1
  <2>4. gateway'.first = Cardinality(gateway'.reached) + gateway'.late
    <3>1. gateway.first = Cardinality(gateway.reached) + gateway.late
      BY Zenon DEF ProbeInv, CountsInv
    <3> QED
      BY <1>7, <1>8, <1>10, <3>1
  <2> QED
    BY <2>3, <2>4, Zenon DEF CountsInv
<1>15. DOMAIN seen' \subseteq gateway'.reached
  BY <1>6, <1>7, <1>8
<1> QED
  BY <1>5, <1>12, <1>13, <1>14, <1>15, Zenon DEF ProbeInv

(* Every step of the probe command, and of the network, keeps the invariant. *)
LEMMA NextProbeInv == ProbeInv /\ [ProbeNext]_<<windowVars, probeVars>> => ProbeInv'
<1> SUFFICES ASSUME ProbeInv, [ProbeNext]_<<windowVars, probeVars>> PROVE ProbeInv'
  BY Zenon
<1>1. CASE UNCHANGED <<windowVars, probeVars>>
  <2>1. IInv'
    BY <1>1, NextIInv DEF ProbeInv
  <2>2. SenderInv' /\ WireInv' /\ ReachedInv' /\ CountsInv'
    BY <1>1, Zenon DEF probeVars, ProbeInv, SenderInv, WireInv, ReachedInv, CountsInv, perProbe,
                copies, parseProbeConfig
  <2>3. DOMAIN seen' \subseteq gateway'.reached
    BY <1>1, Zenon DEF probeVars, windowVars, ProbeInv
  <2> QED
    BY <2>1, <2>2, <2>3, Zenon DEF ProbeInv
<1>2. CASE ProbeNext
  BY <1>2, WriteProbeInv, PcProbeInv, ProbeArrivesInv, Zenon DEF ProbeNext, runProbe
<1> QED
  BY <1>1, <1>2

(* What the reports say follows. *)
LEMMA ProbeInvImplies == ProbeInv => ProbeRunAddsUp
<1> SUFFICES ASSUME ProbeInv PROVE ProbeRunAddsUp
  BY Zenon
<1>1. /\ gateway.first \in Nat /\ gateway.dup \in Nat /\ gateway.late \in Nat
      /\ sender.sent \in Nat /\ sender.n \in Nat \ {0} /\ cfg.count \in Int
  BY Flags, Zenon DEF ProbeInv, ReachedInv, GatewayType, SenderInv, SenderType
<1>2. Cardinality(wire) \in Nat
  BY FS_CardinalityType, Zenon DEF ProbeInv, WireInv
<1>3. gateway.first + gateway.dup = sender.sent - Cardinality(wire)
  BY <1>1, <1>2 DEF ProbeInv, CountsInv
<1>4. ASSUME sender.pc = "printed", wire = {}, gateway.late = 0
      PROVE  gateway.first = cfg.count /\ gateway.dup = sender.sent - cfg.count
  <2>1. sender.n = cfg.count + 1 /\ sender.copy = 1
    BY <1>4, Zenon DEF ProbeInv, SenderInv
  <2>2. gateway.reached = 1..cfg.count
    <3>1. {e[1] : e \in wire} = {}
      BY <1>4, Zenon
    <3>2. {i \in 1..cfg.count : i < sender.n \/ (i = sender.n /\ sender.copy > 1)} = 1..cfg.count
      BY <1>1, <2>1
    <3> QED
      BY <3>1, <3>2, Zenon DEF ProbeInv, ReachedInv
  <2>3. Cardinality(1..cfg.count) = cfg.count
    <3>1. cfg.count \in Int /\ cfg.count >= 0 /\ 1 \in Int
      BY <1>1, <2>1
    <3>2. Cardinality(1..cfg.count) = IF 1 > cfg.count THEN 0 ELSE cfg.count - 1 + 1
      BY <3>1, FS_Interval, Zenon
    <3> QED
      BY <3>1, <3>2
  <2>4. Cardinality(wire) = 0
    BY <1>4, FS_EmptySet
  <2> QED
    BY <1>1, <1>3, <1>4, <2>2, <2>3, <2>4 DEF ProbeInv, CountsInv
<1> QED
  BY <1>3, <1>4 DEF ProbeRunAddsUp, ProbeInv, CountsInv

(* The two ends of geminactl probe agree (src/cmd/geminactl/probe.go): what the
   sender printed as sent is what the gateway counted and what is still under
   way, and first copies are the probes that arrived and those that outlived
   the window.                                                               *)
THEOREM ProbeReportsAddUp == ProbeSpec => []ProbeRunAddsUp
  BY InitProbeInv, NextProbeInv, ProbeInvImplies, PTL DEF ProbeSpec
=============================================================================
