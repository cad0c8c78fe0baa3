----------------------------- MODULE AntiReplay -----------------------------
(***************************************************************************)
(* What an anti-replay window promises, with no ring and no bitmap: every  *)
(* packet number is accepted at most once, and a number not yet accepted   *)
(* is refused only when it lies Width or more behind the highest number    *)
(* accepted so far.  ReplayWindow implements this specification.           *)
(***************************************************************************)
EXTENDS Integers

CONSTANTS
  Width,      \* how far behind the highest number a late packet may be
  MaxNumber   \* the largest packet number (2^64 - 1 in the code)

VARIABLES
  top,        \* the highest number accepted, 0 before the first
  accepted,   \* the set of numbers accepted so far
  verdict     \* the last number offered and the answer it got

vars == <<top, accepted, verdict>>

Answer(n) ==
  IF n = 0 THEN "invalid"
  ELSE IF n + Width <= top THEN "stale"
  ELSE IF n \in accepted THEN "duplicate"
  ELSE "first-copy"

Init ==
  /\ top = 0
  /\ accepted = {}
  /\ verdict = [n |-> 0, d |-> "invalid"]

Offer(n) ==
  /\ verdict' = [n |-> n, d |-> Answer(n)]
  /\ IF Answer(n) = "first-copy"
     THEN /\ accepted' = accepted \cup {n}
          /\ top' = IF n > top THEN n ELSE top
     ELSE UNCHANGED <<accepted, top>>

Next == \E n \in 0..MaxNumber : Offer(n)

Spec == Init /\ [][Next]_vars
=============================================================================
