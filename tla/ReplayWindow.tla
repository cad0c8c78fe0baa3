---------------------------- MODULE ReplayWindow ----------------------------
(***************************************************************************)
(* internal/dedup/replay.go: the RFC 6479 sliding window of one session,   *)
(* a ring of NumWords machine words of WordBits bits.  A uint64 is the     *)
(* set of its one bits.  Observe runs under the window's mutex, so it is   *)
(* one step; the callers (several path receivers at once) offer numbers in *)
(* any order, any number of times, with any gaps.  Definitions named       *)
(* X_Y are mistaken variants of X that the properties must tell apart.     *)
(***************************************************************************)
EXTENDS Integers

CONSTANTS
  WordBits,   \* bits of a word: 64 in the code
  Requested,  \* the width asked of NewReplayWindow
  MaxNumber   \* the largest packet number: 2^64 - 1 in the code

ASSUME SizeAssumption ==
  /\ WordBits \in Nat \ {0}
  /\ Requested \in Nat \ {0}
  /\ MaxNumber \in Nat

VARIABLES
  last,       \* highest number observed, 0 = none yet
  words,      \* the ring bitmap: word index -> set of one bits
  delivered,  \* history: how often each number was answered first-copy
  verdict     \* the last Observe: its argument and its decision

replayVars == <<last, words, delivered, verdict>>

\* NewReplayWindow rounds the width up to whole words.
NumWords == (Requested + WordBits - 1) \div WordBits
width == NumWords * WordBits

Bits == 0..(WordBits - 1)
Index == 0..(NumWords - 1)
Numbers == 1..MaxNumber
Decisions == {"invalid", "first-copy", "duplicate", "stale"}

\* The numbers that have been answered first-copy.
Accepted == {n \in Numbers : delivered[n] > 0}

-----------------------------------------------------------------------------
wordMask_Exclusive(lo, hi) == lo..(hi - 1)

\* The bits lo..hi of a word, both inclusive; empty when lo > hi.
wordMask(lo, hi) == lo..hi

setBit(ws, n) ==
  LET pos == n % width
  IN  [ws EXCEPT ![pos \div WordBits] = @ \cup {pos % WordBits}]

testBit(ws, n) ==
  LET pos == n % width
  IN  pos % WordBits \in ws[pos \div WordBits]

\* Clears the ring positions lo..hi, lo <= hi: a partial low word, whole
\* middle words, a partial high word.
clearRange(ws, lo, hi) ==
  LET loWord == lo \div WordBits
      hiWord == hi \div WordBits
      loBit  == lo % WordBits
      hiBit  == hi % WordBits
  IN  IF loWord = hiWord
      THEN [ws EXCEPT ![loWord] = @ \ wordMask(loBit, hiBit)]
      ELSE [wd \in Index |->
              IF wd = loWord THEN ws[wd] \ wordMask(loBit, WordBits - 1)
              ELSE IF loWord < wd /\ wd < hiWord THEN {}
              ELSE IF wd = hiWord THEN ws[wd] \ wordMask(0, hiBit)
              ELSE ws[wd]]

advance_NoWrap(ws, l, n) ==
  LET startPos == (l + 1) % width
      endPos   == n % width
  IN  IF n - l >= width
      THEN [wd \in Index |-> {}]
      ELSE IF startPos <= endPos
           THEN clearRange(ws, startPos, endPos)
           ELSE clearRange(ws, startPos, width - 1)

\* The bitmap after the window slid from its highest number l to n > l.
advance(ws, l, n) ==
  LET startPos == (l + 1) % width
      endPos   == n % width
  IN  IF n - l >= width
      THEN [wd \in Index |-> {}]
      ELSE IF startPos <= endPos
           THEN clearRange(ws, startPos, endPos)
           ELSE clearRange(clearRange(ws, startPos, width - 1), 0, endPos)

-----------------------------------------------------------------------------
ReplayInit ==
  /\ last = 0
  /\ words = [wd \in Index |-> {}]
  /\ delivered = [n \in Numbers |-> 0]
  /\ verdict = [n |-> 0, d |-> "invalid"]

Answered(n, d) ==
  /\ verdict' = [n |-> n, d |-> d]
  /\ delivered' = IF d = "first-copy" THEN [delivered EXCEPT ![n] = @ + 1]
                                       ELSE delivered

\* n = 0 is refused before the lock is taken.
ObserveZero ==
  /\ Answered(0, "invalid")
  /\ UNCHANGED <<last, words>>

ObserveInitial(n) ==
  /\ n # 0
  /\ last = 0
  /\ last' = n
  /\ words' = setBit(words, n)
  /\ Answered(n, "first-copy")

ObserveAhead(n) ==
  /\ last # 0
  /\ n > last
  /\ words' = setBit(advance(words, last, n), n)
  /\ last' = n
  /\ Answered(n, "first-copy")

ObserveStale(n) ==
  /\ n # 0 /\ last # 0 /\ n <= last
  /\ last - n >= width
  /\ Answered(n, "stale")
  /\ UNCHANGED <<last, words>>

ObserveInWindow_Forgetful(n) ==
  /\ n # 0 /\ last # 0 /\ n <= last
  /\ last - n < width
  /\ Answered(n, IF testBit(words, n) THEN "duplicate" ELSE "first-copy")
  /\ UNCHANGED <<last, words>>

ObserveInWindow(n) ==
  /\ n # 0 /\ last # 0 /\ n <= last
  /\ last - n < width
  /\ IF testBit(words, n)
     THEN Answered(n, "duplicate") /\ UNCHANGED words
     ELSE Answered(n, "first-copy") /\ words' = setBit(words, n)
  /\ UNCHANGED last

ReplayObserve(n) ==
  \/ ObserveInitial(n)
  \/ ObserveAhead(n)
  \/ ObserveStale(n)
  \/ ObserveInWindow(n)

ReplayNext == ObserveZero \/ \E n \in Numbers : ReplayObserve(n)

ReplaySpec == ReplayInit /\ [][ReplayNext]_replayVars

-----------------------------------------------------------------------------
(* The state of a ReplayWindow built by NewReplayWindow. *)
ReplayTypeOK ==
  /\ last \in 0..MaxNumber
  /\ words \in [Index -> SUBSET Bits]
  /\ delivered \in [Numbers -> Nat]
  /\ verdict \in [n : 0..MaxNumber, d : Decisions]

(* The bitmap is exact: for each of the width numbers the window spans, the
   ring bit testBit reads is set if and only if Observe answered that number
   first-copy. A bit that survives the slide of advance (an uncleared slot)
   or is cleared too early (a word too many) breaks it. Numbers below 1 are
   spanned too while last < width; their bits are clear. Nothing ahead of
   last has been accepted, so the bits say all there is to remember. *)
BitmapExact ==
  /\ \A p \in (last - width + 1)..last : testBit(words, p) <=> p \in Accepted
  /\ \A n \in Accepted : n <= last

(* At most once: Observe never answers first-copy twice for one number,
   however far the window slid, and whatever ring slots it reused, between
   the two copies. *)
AtMostOnce == \A n \in Numbers : delivered[n] <= 1

(* No false duplicate: Observe answers duplicate only for a number whose
   first copy it really delivered, so a ring slot inherited from another
   number never makes it drop the only copy of a packet. *)
NoFalseDuplicate == verdict.d = "duplicate" => verdict.n \in Accepted

(* Observe answers every number exactly as the ring-free AntiReplay does:
   the bitmap, its words and the wrap-around are invisible to the caller. *)
Abstract == INSTANCE AntiReplay WITH Width <- width, top <- last,
                                     accepted <- Accepted
ImplementsAntiReplay == Abstract!Spec
=============================================================================
