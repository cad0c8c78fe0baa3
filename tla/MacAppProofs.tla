---------------------------- MODULE MacAppProofs ----------------------------
(***************************************************************************)
(* Proofs about the menu-bar app, the path policy and the impact figures,  *)
(* for any number of paths, segments, tokens, clicks, kills and changes    *)
(* from outside.  The invariant has a part for each half of the app: the   *)
(* paths have names of their own, which is what the policy's promises rest *)
(* on; where the token is while it moves from UserDefaults to the keychain *)
(* and into the field; and what the one task under way may still do.  What *)
(* computeImpact's loop has claimed after n segments is followed by least  *)
(* counterexample.                                                         *)
(***************************************************************************)
EXTENDS MacApp, FiniteSetTheorems, WellFoundedInduction, TLAPS

\* The configured paths have names of their own.
Path == [id : PathNames, up : BOOLEAN, metered : BOOLEAN]
PathList(ps) ==
  \E n \in Nat : /\ ps \in [1..n -> Path]
                 /\ \A i, j \in 1..n : ps[i].id = ps[j].id => i = j

(* A natural that is not above another is not above a later sum. *)
LEMMA StillNotAbove ==
  ASSUME NEW x \in Nat, NEW y \in Nat, NEW d \in Nat, ~(x > y)
  PROVE  ~(x > y + d)
OBVIOUS

(* What is added to a time is added to how long ago another was. *)
LEMMA AddsToTheDifference ==
  ASSUME NEW x \in Nat, NEW y \in Nat, NEW d \in Nat
  PROVE  (x - y) + d = (x + d) - y
OBVIOUS

(* A set of naturals that is not empty has a least one. *)
LEMMA Smallest == ASSUME NEW T \in SUBSET Nat, T # {} PROVE \E i \in T : \A j \in T : i <= j
<1>1. PICK R : R = OpToRel(<, Nat)
  BY Zenon
<1>2. IsWellFoundedOn(R, Nat)
  BY <1>1, NatLessThanWellFounded, Zenon
<1>3. PICK i \in T : \A j \in T : ~ (<<j, i>> \in R)
  BY <1>2, WFMin, Zenon
<1>4. \A j \in T : ~(j < i)
  BY <1>1, <1>3, Zenon DEF OpToRel
<1> QED
  BY <1>4

\* g is the loop that starts with base and takes the steps 1..N.
Loop(g, N, T, base, move) ==
  /\ g \in [0..N -> T] /\ g[0] = base
  /\ \A n \in 1..N : g[n] = move[<<n, g[n - 1]>>]

(* There is one.  Were there none, some length would be the least without a
   loop, and the loop one step shorter could be extended.                   *)
LEMMA LoopExists ==
  ASSUME NEW N \in Nat, NEW T, NEW base \in T, NEW move \in [(1..N) \X T -> T]
  PROVE  \E g : Loop(g, N, T, base, move)
<1> DEFINE Upto(g, m) == Loop(g, m, T, base, move)
           Bad == {m \in 0..N : ~ \E g : Upto(g, m)}
<1>1. Bad = {}
  <2> SUFFICES ASSUME Bad # {} PROVE FALSE
    OBVIOUS
  <2>1. PICK m \in Bad : \A j \in Bad : m <= j
    <3>1. Bad \in SUBSET Nat
      OBVIOUS
    <3> HIDE DEF Bad
    <3> QED
      BY <3>1, Smallest
  <2>2. m # 0
    <3>1. Upto([n \in 0..0 |-> base], 0)
      BY DEF Loop
    <3> QED
      BY <3>1, Zenon
  <2>3. m - 1 \in 0..N /\ m - 1 \notin Bad /\ m \in 1..N
    BY <2>1, <2>2
  <2>4. PICK g : Upto(g, m - 1)
    BY <2>3, Zenon
  <2>5. PICK h : h = [n \in 0..m |-> IF n = m THEN move[<<m, g[m - 1]>>] ELSE g[n]]
    BY Zenon
  <2>6. g[m - 1] \in T /\ <<m, g[m - 1]>> \in (1..N) \X T
    BY <2>3, <2>4 DEF Loop
  <2>7. move[<<m, g[m - 1]>>] \in T
    BY <2>6
  <2>8. h \in [0..m -> T] /\ h[0] = base
    BY <2>3, <2>4, <2>5, <2>7 DEF Loop
  <2>9. ASSUME NEW n \in 1..m PROVE h[n] = move[<<n, h[n - 1]>>]
    <3>1. CASE n = m
      <4>1. h[m] = move[<<m, g[m - 1]>>] /\ h[m - 1] = g[m - 1]
        BY <2>3, <2>5
      <4> QED
        BY <3>1, <4>1
    <3>2. CASE n # m
      <4>1. h[n] = g[n] /\ h[n - 1] = g[n - 1] /\ n \in 1..(m - 1)
        BY <2>3, <2>5, <3>2
      <4> QED
        BY <2>4, <4>1 DEF Loop
    <3> QED
      BY <3>1, <3>2
  <2> QED
    <3>1. Upto(h, m)
      BY <2>8, <2>9, Zenon DEF Loop
    <3> QED
      BY <2>1, <3>1, Zenon
<1>2. PICK g : Upto(g, N)
  <2>1. N \in 0..N
    OBVIOUS
  <2> QED
    BY <1>1, <2>1, Zenon
<1> QED
  BY <1>2

(* first returns a member of the list. *)
LEMMA FirstIn == ASSUME NEW T \in SUBSET Nat, T # {} PROVE first(T) \in T
<1>1. \E i \in T : \A j \in T : i <= j
  BY Smallest
<1> QED
  BY <1>1, Zenon DEF first

(* The primary is a path that is up: the preferred one if that is up, or a free
   one, or any if there is no free one. *)
LEMMA PrimaryUp ==
  ASSUME NEW ps, PathList(ps), NEW preferred, UpPaths(ps) # {}
  PROVE  /\ choosePrimary(preferred, ps) \in UpPaths(ps)
         /\ \/ ps[choosePrimary(preferred, ps)].id = preferred
            \/ choosePrimary(preferred, ps) \in FreePaths(ps)
            \/ FreePaths(ps) = {}
         /\ (\E i \in UpPaths(ps) : ps[i].id = preferred)
              => ps[choosePrimary(preferred, ps)].id = preferred
<1>1. UpPaths(ps) \in SUBSET Nat
  BY DEF PathList, UpPaths
<1>2. PICK W : W = {i \in UpPaths(ps) : ps[i].id = preferred}
  BY Zenon
<1>3. /\ W \in SUBSET Nat /\ FreePaths(ps) \in SUBSET Nat
      /\ FreePaths(ps) \subseteq UpPaths(ps) /\ W \subseteq UpPaths(ps)
  BY <1>1, <1>2 DEF FreePaths
<1>4. choosePrimary(preferred, ps) =
        IF W # {} THEN first(W)
        ELSE IF FreePaths(ps) # {} THEN first(FreePaths(ps)) ELSE first(UpPaths(ps))
  BY <1>2, Zenon DEF choosePrimary
<1>5. (\E i \in UpPaths(ps) : ps[i].id = preferred) <=> W # {}
  BY <1>2
<1>6. CASE W # {}
  <2>1. first(W) \in W
    BY <1>3, <1>6, FirstIn
  <2> QED
    BY <1>2, <1>4, <1>6, <2>1
<1>7. CASE W = {} /\ FreePaths(ps) # {}
  <2>1. first(FreePaths(ps)) \in FreePaths(ps)
    BY <1>3, <1>7, FirstIn
  <2> QED
    BY <1>3, <1>4, <1>7, <1>5, <2>1, Zenon
<1>8. CASE W = {} /\ FreePaths(ps) = {}
  <2>1. first(UpPaths(ps)) \in UpPaths(ps)
    BY <1>1, FirstIn
  <2> QED
    BY <1>4, <1>8, <1>5, <2>1, Zenon
<1> QED
  BY <1>6, <1>7, <1>8

(* Two paths up or more: the loss of any one leaves another. *)
LEMMA UpFinite ==
  ASSUME NEW ps, PathList(ps)
  PROVE  /\ Cardinality(UpPaths(ps)) \in Nat
         /\ Cardinality(UpPaths(ps)) >= 2 <=>
              UpPaths(ps) # {} /\ \A k \in DOMAIN ps : UpPaths(ps) \ {k} # {}
         /\ Cardinality(UpPaths(ps)) <= 1 =>
              \A i, j \in UpPaths(ps) : i = j
<1>1. PICK n \in Nat : DOMAIN ps = 1..n
  BY DEF PathList
<1>2. PICK U : U = UpPaths(ps)
  BY Zenon
<1>3. U \subseteq 1..n
  BY <1>1, <1>2 DEF UpPaths
<1>4. IsFiniteSet(U)
  <2>1. IsFiniteSet(1..n)
    BY FS_Interval
  <2> QED
    BY <1>3, <2>1, FS_Subset, Zenon
<1>5. Cardinality(U) \in Nat
  BY <1>4, FS_CardinalityType
<1>6. Cardinality(U) = 0 <=> U = {}
  BY <1>4, FS_EmptySet
<1>7. Cardinality(U) = 1 <=> \E x : U = {x}
  BY <1>4, FS_Singleton
<1>8. (\E x : U = {x}) <=> U # {} /\ ~\A k \in DOMAIN ps : U \ {k} # {}
  BY <1>1, <1>3, Zenon
<1>9. Cardinality(U) >= 2 <=> Cardinality(U) # 0 /\ Cardinality(U) # 1
  BY <1>5
<1>10. Cardinality(U) >= 2 <=> U # {} /\ \A k \in DOMAIN ps : U \ {k} # {}
  BY <1>6, <1>7, <1>8, <1>9, Zenon
<1>11. Cardinality(U) <= 1 => \A i, j \in U : i = j
  <2>1. Cardinality(U) <= 1 => Cardinality(U) = 0 \/ Cardinality(U) = 1
    BY <1>5
  <2> QED
    BY <1>6, <1>7, <2>1
<1> QED
  BY <1>2, <1>5, <1>10, <1>11

(* A packet goes over paths that are up, and over some if there are any. *)
LEMMA SentUp ==
  ASSUME NEW ps, PathList(ps), NEW policy, NEW unstable
  PROVE  LET sent == sendPaths(policy, ps, unstable)
             up == IdsOf(ps, UpPaths(ps))
         IN sent \subseteq up /\ (sent = {} <=> up = {}) /\ (up = {} <=> UpPaths(ps) = {})
<1>1. PICK sent : sent = sendPaths(policy, ps, unstable)
  BY Zenon
<1>2. \/ sent = IdsOf(ps, UpPaths(ps))
      \/ UpPaths(ps) # {} /\ sent = {ps[choosePrimary(policy.preferred, ps)].id}
  <2>1. CASE Cardinality(UpPaths(ps)) <= 1
    BY <1>1, <2>1 DEF sendPaths
  <2>2. CASE ~(Cardinality(UpPaths(ps)) <= 1)
    <3>1. UpPaths(ps) # {}
      BY <2>2, FS_EmptySet
    <3> QED
      BY <1>1, <3>1 DEF sendPaths
  <2> QED
    BY <2>1, <2>2
<1>3. IdsOf(ps, UpPaths(ps)) = {} <=> UpPaths(ps) = {}
  BY Zenon DEF IdsOf
<1>4. CASE sent = IdsOf(ps, UpPaths(ps))
  BY <1>1, <1>3, <1>4
<1>5. CASE UpPaths(ps) # {} /\ sent = {ps[choosePrimary(policy.preferred, ps)].id}
  <2>1. PICK k \in UpPaths(ps) : sent = {ps[k].id}
    BY <1>5, PrimaryUp
  <2>2. ps[k].id \in IdsOf(ps, UpPaths(ps))
    BY Zenon DEF IdsOf
  <2> QED
    BY <1>1, <1>3, <1>5, <2>1, <2>2
<1> QED
  BY <1>2, <1>4, <1>5

(* A metered path is used for a reason, and redundancy is used where it costs
   nothing. *)
LEMMA SentWell ==
  ASSUME NEW ps, PathList(ps), NEW policy \in Policies, NEW unstable \in BOOLEAN
  PROVE  LET sent == sendPaths(policy, ps, unstable)
             up == IdsOf(ps, UpPaths(ps))
             free == IdsOf(ps, FreePaths(ps))
         IN /\ policy.mode = "duplicate" \/ (policy.mode = "auto" /\ free = up) => sent = up
            /\ policy.mode # "duplicate" =>
                 \A p \in sent \ free :
                   p = policy.preferred \/ free = {}
                   \/ (unstable /\ policy.mode # "failover")
            /\ policy.preferred \in up => policy.preferred \in sent
<1>1. PICK sent, up, free : /\ sent = sendPaths(policy, ps, unstable)
                            /\ up = IdsOf(ps, UpPaths(ps))
                            /\ free = IdsOf(ps, FreePaths(ps))
  BY Zenon
<1>2. FreePaths(ps) \subseteq UpPaths(ps) /\ UpPaths(ps) \subseteq DOMAIN ps
  BY DEF FreePaths, UpPaths
<1>3. free = up <=> FreePaths(ps) = UpPaths(ps)
  <2>1. ASSUME free = up, NEW i \in UpPaths(ps) PROVE i \in FreePaths(ps)
    <3>1. ps[i].id \in free
      BY <1>1, <2>1, Zenon DEF IdsOf
    <3>2. PICK j \in FreePaths(ps) : ps[j].id = ps[i].id
      BY <1>1, <3>1 DEF IdsOf
    <3>3. i = j
      BY <1>2, <3>2 DEF PathList
    <3> QED
      BY <3>3
  <2> QED
    BY <1>1, <1>2, <2>1
<1>4. free = {} <=> FreePaths(ps) = {}
  BY <1>1, Zenon DEF IdsOf
<1>5. PICK chosen : chosen = effectiveMode(policy.mode, ps)
  BY Zenon
<1>6. sent = IF \/ Cardinality(UpPaths(ps)) <= 1 \/ chosen = "duplicate"
                \/ chosen = "smart" /\ unstable
             THEN up ELSE {ps[choosePrimary(policy.preferred, ps)].id}
  BY <1>1, <1>5 DEF sendPaths
<1>7. policy.mode = "duplicate" \/ (policy.mode = "auto" /\ free = up) => chosen = "duplicate"
  BY <1>3, <1>5 DEF effectiveMode
<1>8. policy.mode # "duplicate" /\ chosen = "duplicate" => free = up
  BY <1>3, <1>5 DEF effectiveMode
<1>9. policy.mode = "failover" => chosen = "failover"
  BY <1>5 DEF effectiveMode
<1>10. ASSUME policy.mode # "duplicate", NEW p \in sent \ free
       PROVE  p = policy.preferred \/ free = {} \/ (unstable /\ policy.mode # "failover")
  <2>1. CASE Cardinality(UpPaths(ps)) <= 1
    <3>1. \A i, j \in UpPaths(ps) : i = j
      BY <2>1, UpFinite
    <3>2. PICK k \in UpPaths(ps) : p = ps[k].id /\ k \notin FreePaths(ps)
      BY <1>1, <1>6, <1>10, <2>1 DEF IdsOf
    <3> QED
      BY <1>2, <1>4, <3>1, <3>2
  <2>2. CASE chosen = "duplicate"
    BY <1>6, <1>8, <1>10, <2>2
  <2>3. CASE chosen = "smart" /\ unstable
    BY <1>9, <2>3
  <2>4. CASE ~(\/ Cardinality(UpPaths(ps)) <= 1 \/ chosen = "duplicate"
               \/ chosen = "smart" /\ unstable)
    <3>1. UpPaths(ps) # {}
      BY <2>4, FS_EmptySet
    <3>2. PICK k : k = choosePrimary(policy.preferred, ps)
      BY Zenon
    <3>3. k \in FreePaths(ps) \/ ps[k].id = policy.preferred \/ FreePaths(ps) = {}
      BY <3>1, <3>2, PrimaryUp
    <3>4. p = ps[k].id
      BY <1>6, <2>4, <3>2
    <3>5. k \in FreePaths(ps) => p \in free
      BY <1>1, <3>4 DEF IdsOf
    <3> QED
      BY <1>4, <1>10, <3>3, <3>4, <3>5
  <2> QED
    BY <2>1, <2>2, <2>3, <2>4
<1>11. policy.mode = "duplicate" \/ (policy.mode = "auto" /\ free = up) => sent = up
  BY <1>6, <1>7
<1>12. ASSUME policy.preferred \in up PROVE policy.preferred \in sent
  <2>1. PICK i \in UpPaths(ps) : ps[i].id = policy.preferred
    BY <1>1, <1>12 DEF IdsOf
  <2>2. ps[choosePrimary(policy.preferred, ps)].id = policy.preferred
    BY <2>1, PrimaryUp, Zenon
  <2> QED
    BY <1>6, <1>12, <2>2
<1> QED
  BY <1>1, <1>10, <1>11, <1>12, Zenon

(* Without one path the list is still a list. *)
LEMMA WithoutList ==
  ASSUME NEW ps, PathList(ps), NEW k \in DOMAIN ps
  PROVE  PathList(Without(ps, k)) /\ UpPaths(Without(ps, k)) = UpPaths(ps) \ {k}
<1>1. PICK n \in Nat : /\ ps \in [1..n -> Path]
                       /\ \A i, j \in 1..n : ps[i].id = ps[j].id => i = j
  BY DEF PathList
<1>2. PICK qs : qs = Without(ps, k)
  BY Zenon
<1>3. /\ DOMAIN qs = 1..n /\ qs = [i \in 1..n |-> qs[i]]
      /\ \A i \in 1..n : qs[i] = [ps[i] EXCEPT !.up = ps[i].up /\ i # k]
  BY <1>1, <1>2 DEF Without
<1>4. \A i \in 1..n : /\ qs[i] \in Path /\ qs[i].id = ps[i].id
                      /\ qs[i].up <=> ps[i].up /\ i # k
  <2> SUFFICES ASSUME NEW i \in 1..n
               PROVE  /\ qs[i] \in Path /\ qs[i].id = ps[i].id
                      /\ qs[i].up <=> ps[i].up /\ i # k
    OBVIOUS
  <2>1. PICK b \in BOOLEAN : b <=> ps[i].up /\ i # k
    BY <1>1, Zenon DEF Path
  <2>2. qs[i] = [ps[i] EXCEPT !.up = b]
    BY <1>1, <1>3, <2>1 DEF Path
  <2>3. ps[i] \in Path
    BY <1>1
  <2> QED
    BY <2>1, <2>2, <2>3 DEF Path
<1>5. PathList(qs)
  BY <1>1, <1>3, <1>4 DEF PathList
<1>6. UpPaths(qs) = UpPaths(ps) \ {k}
  BY <1>1, <1>3, <1>4 DEF UpPaths
<1> QED
  BY <1>2, <1>5, <1>6

(* Paths with names of their own are all the promises of PolicySound need. *)
LEMMA PathListSound == PathList(paths) => PolicySound
<1> SUFFICES ASSUME PathList(paths) PROVE PolicySound
  OBVIOUS
<1>1. \A policy \in Policies, unstable \in BOOLEAN :
        LET sent == sendPaths(policy, paths, unstable)
            up == IdsOf(paths, UpPaths(paths))
            free == IdsOf(paths, FreePaths(paths)) IN
        /\ sent \subseteq up /\ (sent = {} <=> up = {})
        /\ policy.mode = "duplicate" \/ (policy.mode = "auto" /\ free = up) => sent = up
        /\ policy.mode # "duplicate" =>
             \A p \in sent \ free :
               p = policy.preferred \/ free = {} \/ (unstable /\ policy.mode # "failover")
        /\ policy.preferred \in up => policy.preferred \in sent
  BY SentUp, SentWell, Zenon
<1>2. ASSUME NEW ps, PathList(ps), NEW policy PROVE Sends(policy, ps) <=> UpPaths(ps) # {}
  BY <1>2, SentUp, Zenon DEF Sends
<1>3. protectionStatus(paths, FALSE, FALSE) = "protected"
        <=> Cardinality(UpPaths(paths)) >= 2
  <2>1. paths = <<>> => UpPaths(paths) = {}
    BY DEF UpPaths
  <2>2. paths = <<>> => ~(Cardinality(UpPaths(paths)) >= 2)
    BY <2>1, FS_EmptySet
  <2> QED
    BY <2>2 DEF protectionStatus
<1>4. \E policy : policy \in Policies
  <2>1. [mode |-> "auto", preferred |-> None] \in Policies
    BY DEF Policies, Modes
  <2> QED
    BY <2>1
<1>5. (\A policy \in Policies : /\ Sends(policy, paths)
                                /\ \A k \in DOMAIN paths : Sends(policy, Without(paths, k)))
        <=> UpPaths(paths) # {} /\ \A k \in DOMAIN paths : UpPaths(paths) \ {k} # {}
  <2>1. \A policy \in Policies : Sends(policy, paths) <=> UpPaths(paths) # {}
    BY <1>2
  <2>2. ASSUME NEW policy \in Policies, NEW k \in DOMAIN paths
        PROVE  Sends(policy, Without(paths, k)) <=> UpPaths(paths) \ {k} # {}
    BY <1>2, <2>2, WithoutList
  <2> QED
    BY <1>4, <2>1, <2>2, Zenon
<1>6. protectionStatus(paths, FALSE, FALSE) = "protected" <=>
        \A policy \in Policies :
          /\ Sends(policy, paths)
          /\ \A k \in DOMAIN paths : Sends(policy, Without(paths, k))
  BY <1>3, <1>5, UpFinite, Zenon
<1> QED
  BY <1>1, <1>6, Zenon DEF PolicySound

-----------------------------------------------------------------------------
(* The figures of a session.                                               *)

\* A segment of a session, and the figures while they are computed.
Segment == [duration : Nat, upCount : Nat]
Figure == [session : Nat, covered : Nat, absorbed : Nat, failovers : Nat,
           longest : Nat, previousUp : Nat, inDrop : BOOLEAN, run : Nat]

(* A sequence is a function, and has its elements. *)
LEMMA SegmentsAre ==
  ASSUME segments \in Seq(Segment)
  PROVE  /\ Len(segments) \in Nat /\ DOMAIN segments = 1..Len(segments)
         /\ \A i \in 1..Len(segments) : /\ segments[i] \in Segment
                                        /\ segments[i].duration \in Nat
                                        /\ segments[i].upCount \in Nat
<1>1. Len(segments) \in Nat /\ DOMAIN segments = 1..Len(segments)
  OBVIOUS
<1>2. \A i \in 1..Len(segments) : segments[i] \in Segment
  OBVIOUS
<1>3. \A seg \in Segment : seg.duration \in Nat /\ seg.upCount \in Nat
  BY DEF Segment
<1> QED
  BY <1>1, <1>2, <1>3

(* Times is its loop. *)
LEMMA TimesLoop ==
  ASSUME segments \in Seq(Segment), NEW S
  PROVE  /\ \A n \in 0..Len(segments) : Times(S)[n] \in Nat
         /\ Times(S)[0] = 0
         /\ \A n \in 1..Len(segments) :
              Times(S)[n] = Times(S)[n - 1] + (IF n \in S THEN segments[n].duration ELSE 0)
<1>1. PICK N \in Nat : N = Len(segments)
  BY SegmentsAre, Zenon
<1>2. \A n \in 1..N : segments[n].duration \in Nat
  BY <1>1, SegmentsAre
<1>3. PICK move : move = [p \in (1..N) \X Nat |->
                            p[2] + (IF p[1] \in S THEN segments[p[1]].duration ELSE 0)]
  BY Zenon
<1>4. move \in [(1..N) \X Nat -> Nat]
  BY <1>2, <1>3
<1>5. PICK g : Loop(g, N, Nat, 0, move)
  <2>1. 0 \in Nat
    OBVIOUS
  <2> QED
    BY <1>4, <2>1, LoopExists, Zenon
<1>6. ASSUME NEW n \in 1..N
      PROVE  move[<<n, g[n - 1]>>] = g[n - 1] + (IF n \in S THEN segments[n].duration ELSE 0)
  <2>1. <<n, g[n - 1]>> \in (1..N) \X Nat
    BY <1>5 DEF Loop
  <2> QED
    BY <1>3, <2>1
<1>7. g = [n \in 0..N |-> IF n = 0 THEN 0
                          ELSE g[n - 1] + (IF n \in S THEN segments[n].duration ELSE 0)]
  <2>1. g = [n \in 0..N |-> g[n]]
    BY <1>5 DEF Loop
  <2>2. ASSUME NEW n \in 0..N
        PROVE  g[n] = IF n = 0 THEN 0
                      ELSE g[n - 1] + (IF n \in S THEN segments[n].duration ELSE 0)
    <3>1. n = 0 \/ n \in 1..N
      OBVIOUS
    <3> QED
      BY <1>5, <1>6, <3>1, Zenon DEF Loop
  <2> QED
    BY <2>1, <2>2, Zenon
<1>8. Times(S) = [n \in 0..N |-> IF n = 0 THEN 0
                     ELSE Times(S)[n - 1] + (IF n \in S THEN segments[n].duration ELSE 0)]
  BY <1>1, <1>7, Zenon DEF Times
<1>9. PICK t : t = Times(S)
  BY Zenon
<1>10. /\ t[0] = 0
       /\ \A n \in 1..N : t[n] = t[n - 1] + (IF n \in S THEN segments[n].duration ELSE 0)
  BY <1>8, <1>9
<1>11. PICK Bad : Bad = {n \in 0..N : t[n] \notin Nat}
  BY Zenon
<1>12. Bad = {}
  <2>1. SUFFICES ASSUME Bad # {} PROVE FALSE
    OBVIOUS
  <2>2. Bad \in SUBSET Nat
    BY <1>11
  <2>3. PICK n \in Bad : \A j \in Bad : n <= j
    BY <2>1, <2>2, Smallest
  <2>4. n \in 1..N /\ n - 1 \in 0..N /\ n - 1 \notin Bad
    BY <1>10, <1>11, <2>3
  <2>5. t[n - 1] \in Nat /\ segments[n].duration \in Nat
    BY <1>2, <1>11, <2>4
  <2>6. t[n] = t[n - 1] + (IF n \in S THEN segments[n].duration ELSE 0)
    BY <1>10, <2>4
  <2>7. t[n] \in Nat
    BY <2>5, <2>6
  <2> QED
    BY <1>11, <2>3, <2>7
<1> QED
  BY <1>1, <1>9, <1>10, <1>11, <1>12

(* Time only passes. *)
LEMMA TimesRise ==
  ASSUME segments \in Seq(Segment), NEW S, NEW i \in 0..Len(segments),
         NEW j \in i..Len(segments)
  PROVE  Times(S)[i] <= Times(S)[j]
<1>1. PICK t, N : t = Times(S) /\ N = Len(segments)
  BY Zenon
<1>2. /\ N \in Nat /\ \A n \in 0..N : t[n] \in Nat
      /\ \A n \in 1..N : t[n] = t[n - 1] + (IF n \in S THEN segments[n].duration ELSE 0)
      /\ \A n \in 1..N : segments[n].duration \in Nat
  BY <1>1, TimesLoop, SegmentsAre, Zenon
<1>3. PICK Bad : Bad = {n \in i..N : t[i] > t[n]}
  BY Zenon
<1>4. SUFFICES ASSUME Bad # {} PROVE FALSE
  <2>1. j \in i..N /\ t[i] \in Nat /\ t[j] \in Nat
    BY <1>1, <1>2
  <2>2. ~(t[i] <= t[j]) => j \in Bad
    BY <1>3, <2>1
  <2> QED
    BY <1>1, <2>2
<1>5. Bad \in SUBSET Nat
  BY <1>1, <1>2, <1>3
<1>6. PICK n \in Bad : \A k \in Bad : n <= k
  BY <1>4, <1>5, Smallest
<1>7. n \in 1..N /\ n - 1 \in i..N /\ n - 1 \notin Bad
  BY <1>1, <1>2, <1>3, <1>6
<1>8. /\ t[i] \in Nat /\ t[n] \in Nat /\ t[n - 1] \in Nat /\ segments[n].duration \in Nat
      /\ t[n] = t[n - 1] + (IF n \in S THEN segments[n].duration ELSE 0)
  BY <1>1, <1>2, <1>7
<1>9. ~(t[i] > t[n - 1]) /\ t[i] > t[n]
  BY <1>3, <1>6, <1>7
<1>10. PICK d : d = IF n \in S THEN segments[n].duration ELSE 0
  BY Zenon
<1>11. d \in Nat
  <2>1. 0 \in Nat
    OBVIOUS
  <2> QED
    BY <1>8, <1>10, <2>1, Zenon
<1>12. t[n] = t[n - 1] + d
  BY <1>8, <1>10, Zenon
<1> QED
  BY <1>8, <1>9, <1>11, <1>12, StillNotAbove, Zenon

(* A stretch lasts from its first segment to its last. *)
LEMMA StretchLasts ==
  ASSUME segments \in Seq(Segment), NEW a \in 1..Len(segments), NEW b \in a..Len(segments)
  PROVE  Lasting(a..b) = Times(DOMAIN segments)[b] - Times(DOMAIN segments)[a - 1]
<1>1. PICK s, t, N : s = Times(a..b) /\ t = Times(DOMAIN segments) /\ N = Len(segments)
  BY Zenon
<1>2. /\ N \in Nat /\ DOMAIN segments = 1..N
      /\ \A n \in 1..N : segments[n].duration \in Nat
  BY <1>1, SegmentsAre, Zenon
<1>3. /\ s[0] = 0 /\ \A n \in 0..N : s[n] \in Nat
      /\ \A n \in 1..N : s[n] = s[n - 1] + (IF n \in a..b THEN segments[n].duration ELSE 0)
  BY <1>1, TimesLoop, Zenon
<1>4. /\ \A n \in 0..N : t[n] \in Nat
      /\ \A n \in 1..N : t[n] = t[n - 1] + segments[n].duration
  BY <1>1, <1>2, TimesLoop, Zenon
<1> DEFINE Upto(n) == IF n < a THEN 0 ELSE IF n <= b THEN t[n] - t[a - 1] ELSE t[b] - t[a - 1]
<1>5. PICK Bad : Bad = {n \in 0..N : s[n] # Upto(n)}
  BY Zenon
<1>6. Bad = {}
  <2>1. SUFFICES ASSUME Bad # {} PROVE FALSE
    OBVIOUS
  <2>2. Bad \in SUBSET Nat
    BY <1>2, <1>5
  <2>3. PICK n \in Bad : \A k \in Bad : n <= k
    BY <2>1, <2>2, Smallest, Zenon
  <2>4. n \in 1..N /\ n - 1 \in 0..N /\ n - 1 \notin Bad
    BY <1>1, <1>2, <1>3, <1>5, <2>3
  <2>5. s[n - 1] = Upto(n - 1)
    BY <1>5, <2>4
  <2>6. n \in 0..N /\ b \in 0..N /\ a - 1 \in 0..N
    BY <1>1, <1>2, <2>4
  <2>7. /\ s[n] = s[n - 1] + (IF n \in a..b THEN segments[n].duration ELSE 0)
         /\ s[n - 1] \in Nat
    BY <1>3, <2>4, Zenon
  <2>8. /\ s[n] = s[n - 1] + (IF n \in a..b THEN segments[n].duration ELSE 0)
        /\ t[n] = t[n - 1] + segments[n].duration
        /\ segments[n].duration \in Nat /\ t[n] \in Nat /\ t[n - 1] \in Nat
        /\ t[b] \in Nat /\ t[a - 1] \in Nat /\ s[n - 1] \in Nat
    BY <1>2, <1>4, <2>4, <2>6, <2>7, Zenon
  <2>9. s[n] = Upto(n)
    <3>1. CASE n < a
      BY <1>1, <1>2, <2>4, <2>5, <2>8, <3>1
    <3>2. CASE n = a
      BY <1>1, <1>2, <2>4, <2>5, <2>8, <3>2
    <3>3. CASE n > a /\ n <= b
      <4>1. ~(n < a) /\ n \in a..b /\ ~(n - 1 < a) /\ n - 1 <= b
        BY <1>1, <1>2, <2>4, <3>3
      <4>2. s[n] = s[n - 1] + segments[n].duration /\ Upto(n) = t[n] - t[a - 1]
        BY <2>8, <3>3, <4>1, Zenon
      <4>3. s[n - 1] = t[n - 1] - t[a - 1]
        BY <2>5, <4>1, Zenon
      <4>4. (t[n - 1] - t[a - 1]) + segments[n].duration
            = (t[n - 1] + segments[n].duration) - t[a - 1]
        <5>1. \A x, y, e \in Nat : (x - y) + e = (x + e) - y
          BY AddsToTheDifference, Zenon
        <5>2. t[n - 1] \in Nat /\ t[a - 1] \in Nat /\ segments[n].duration \in Nat
          BY <2>8, Zenon
        <5> QED
          BY <5>1, <5>2, Zenon
      <4>5. s[n] = (t[n - 1] - t[a - 1]) + segments[n].duration
        BY <4>2, <4>3, Zenon
      <4>6. t[n] - t[a - 1] = (t[n - 1] + segments[n].duration) - t[a - 1]
        BY <2>8, Zenon
      <4>7. s[n] = t[n] - t[a - 1]
        BY <4>4, <4>5, <4>6, Zenon
      <4> QED
        BY <4>2, <4>7, Zenon
    <3>4. CASE n > b
      <4>1. n - 1 >= b /\ n - 1 >= a /\ n \notin a..b
        BY <1>1, <1>2, <2>4, <3>4
      <4>2. s[n] = s[n - 1]
        BY <2>8, <4>1
      <4>3. s[n - 1] = t[b] - t[a - 1]
        <5>1. CASE n - 1 = b
          <6>1. ~(b < a) /\ b <= b
            BY <1>1, <1>2
          <6>2. Upto(b) = t[b] - t[a - 1]
            BY <6>1, Zenon
          <6> QED
            BY <2>5, <5>1, <6>2, Zenon
        <5>2. CASE n - 1 # b
          <6>1. ~(n - 1 < a) /\ ~(n - 1 <= b)
            BY <1>1, <1>2, <2>4, <4>1, <5>2
          <6> QED
            BY <2>5, <6>1
        <5> QED
          BY <5>1, <5>2, Zenon
      <4> QED
        BY <1>1, <1>2, <2>4, <3>4, <4>2, <4>3
    <3> QED
      BY <1>1, <1>2, <2>4, <3>1, <3>2, <3>3, <3>4
  <2> QED
    BY <1>5, <2>3, <2>9
<1>7. s[N] = Upto(N)
  BY <1>2, <1>5, <1>6
<1> QED
  BY <1>1, <1>2, <1>7 DEF Lasting

(* No segment lasts no time. *)
LEMMA NoTime == ASSUME segments \in Seq(Segment) PROVE Lasting({}) = 0
<1>1. PICK t, N : t = Times({}) /\ N = Len(segments)
  BY Zenon
<1>2. /\ N \in Nat /\ t[0] = 0 /\ \A n \in 0..N : t[n] \in Nat
      /\ \A n \in 1..N : t[n] = t[n - 1] + 0
  BY <1>1, TimesLoop, SegmentsAre
<1>3. PICK Bad : Bad = {n \in 0..N : t[n] # 0}
  BY Zenon
<1>4. Bad = {}
  <2>1. SUFFICES ASSUME Bad # {} PROVE FALSE
    OBVIOUS
  <2>2. Bad \in SUBSET Nat
    BY <1>2, <1>3
  <2>3. PICK n \in Bad : \A k \in Bad : n <= k
    BY <2>1, <2>2, Smallest
  <2>4. n \in 1..N /\ n - 1 \in 0..N /\ n - 1 \notin Bad
    BY <1>2, <1>3, <2>3
  <2> QED
    BY <1>2, <1>3, <2>3, <2>4
<1> QED
  BY <1>1, <1>2, <1>3, <1>4 DEF Lasting

\* c is s with one more segment.
Counted(c, s, seg) ==
  /\ c \in Figure
  /\ c.session = s.session + seg.duration
  /\ c.covered = s.covered + (IF seg.upCount >= 2 THEN seg.duration ELSE 0)
  /\ c.previousUp = seg.upCount
  /\ c.inDrop <=> seg.upCount = 1 /\ (s.previousUp >= 2 \/ s.inDrop)
  /\ c.absorbed = s.absorbed + (IF c.inDrop THEN seg.duration ELSE 0)
  /\ c.failovers = s.failovers + (IF c.inDrop /\ s.previousUp >= 2 THEN 1 ELSE 0)
  /\ c.run = IF ~c.inDrop THEN 0
             ELSE IF s.previousUp >= 2 THEN seg.duration ELSE s.run + seg.duration
  /\ c.longest = IF c.run > s.longest THEN c.run ELSE s.longest

(* CountSegment counts it. *)
LEMMA CountIs ==
  ASSUME NEW s \in Figure, NEW seg \in Segment
  PROVE  Counted(CountSegment(s, seg), s, seg)
<1>1. PICK drop \in BOOLEAN : drop <=> seg.upCount = 1 /\ (s.previousUp >= 2 \/ s.inDrop)
  BY Zenon
<1>2. PICK run : run = IF ~drop THEN 0
                       ELSE IF s.previousUp >= 2 THEN seg.duration ELSE s.run + seg.duration
  BY Zenon
<1>3. CountSegment(s, seg) =
        [session |-> s.session + seg.duration,
         covered |-> s.covered + (IF seg.upCount >= 2 THEN seg.duration ELSE 0),
         absorbed |-> s.absorbed + (IF drop THEN seg.duration ELSE 0),
         failovers |-> s.failovers + (IF drop /\ s.previousUp >= 2 THEN 1 ELSE 0),
         longest |-> IF run > s.longest THEN run ELSE s.longest,
         previousUp |-> seg.upCount, inDrop |-> drop, run |-> run]
  BY <1>1, <1>2, Zenon DEF CountSegment
<1>4. /\ seg.duration \in Nat /\ seg.upCount \in Nat /\ s.session \in Nat /\ s.covered \in Nat
      /\ s.absorbed \in Nat /\ s.failovers \in Nat /\ s.longest \in Nat /\ s.run \in Nat
  BY DEF Figure, Segment
<1>5. run \in Nat
  BY <1>2, <1>4
<1>6. PICK c : c = CountSegment(s, seg)
  BY Zenon
<1>7. c \in Figure
  BY <1>3, <1>4, <1>5, <1>6 DEF Figure
<1>8. (c.inDrop <=> drop) /\ c.run = run
  BY <1>3, <1>6
<1>9. Counted(c, s, seg)
  BY <1>1, <1>2, <1>3, <1>6, <1>7, <1>8 DEF Counted
<1> QED
  BY <1>6, <1>9

(* Figures is its loop. *)
LEMMA FiguresLoop ==
  ASSUME segments \in Seq(Segment)
  PROVE  /\ Figures(segments)[0] = NoStats /\ NoStats \in Figure
         /\ \A n \in 1..Len(segments) :
              Figures(segments)[n] = CountSegment(Figures(segments)[n - 1], segments[n])
<1>1. PICK N \in Nat : N = Len(segments)
  BY SegmentsAre, Zenon
<1>2. \A n \in 1..N : segments[n] \in Segment
  BY <1>1, SegmentsAre
<1>3. PICK move : move = [p \in (1..N) \X Figure |-> CountSegment(p[2], segments[p[1]])]
  BY Zenon
<1>4. move \in [(1..N) \X Figure -> Figure]
  <2>1. ASSUME NEW p \in (1..N) \X Figure PROVE CountSegment(p[2], segments[p[1]]) \in Figure
    <3>1. p[2] \in Figure /\ segments[p[1]] \in Segment
      BY <1>2
    <3> QED
      BY <3>1, CountIs, Zenon DEF Counted
  <2> QED
    BY <1>3, <2>1, Zenon
<1>5. NoStats \in Figure
  BY DEF NoStats, Figure
<1>6. PICK g : Loop(g, N, Figure, NoStats, move)
  BY <1>4, <1>5, LoopExists, Zenon
<1>7. ASSUME NEW n \in 1..N PROVE move[<<n, g[n - 1]>>] = CountSegment(g[n - 1], segments[n])
  <2>1. n - 1 \in 0..N
    OBVIOUS
  <2>2. <<n, g[n - 1]>> \in (1..N) \X Figure
    BY <1>6, <2>1 DEF Loop
  <2>3. PICK p : p = <<n, g[n - 1]>>
    BY Zenon
  <2>4. p[1] = n /\ p[2] = g[n - 1]
    BY <2>3
  <2>5. move[p] = CountSegment(p[2], segments[p[1]])
    BY <1>3, <2>2, <2>3, Zenon
  <2> QED
    BY <2>3, <2>4, <2>5, Zenon
<1>8. g = [n \in 0..N |-> IF n = 0 THEN NoStats ELSE CountSegment(g[n - 1], segments[n])]
  <2>1. g = [n \in 0..N |-> g[n]]
    BY <1>6, Zenon DEF Loop
  <2>2. ASSUME NEW n \in 0..N
        PROVE  g[n] = IF n = 0 THEN NoStats ELSE CountSegment(g[n - 1], segments[n])
    <3>1. n = 0 \/ n \in 1..N
      OBVIOUS
    <3> QED
      BY <1>6, <1>7, <3>1, Zenon DEF Loop
  <2> QED
    BY <2>1, <2>2, Zenon
<1>9. Figures(segments)
        = [n \in 0..N |-> IF n = 0 THEN NoStats
                          ELSE CountSegment(Figures(segments)[n - 1], segments[n])]
  BY <1>1, <1>8, Zenon DEF Figures
<1>10. 0 \in 0..N /\ \A n \in 1..N : n \in 0..N /\ n # 0
  OBVIOUS
<1> QED
  BY <1>1, <1>5, <1>9, <1>10, Zenon

(* A segment is survived right after redundancy, or after one that was. *)
LEMMA SurvivedStep ==
  ASSUME segments \in Seq(Segment), NEW n \in 1..Len(segments)
  PROVE  Survived(n) <=> /\ segments[n].upCount = 1 /\ n > 1
                         /\ segments[n - 1].upCount >= 2 \/ Survived(n - 1)
<1>0. Len(segments) \in Nat /\ \A i \in 1..Len(segments) : segments[i].upCount \in Nat
  BY SegmentsAre
<1>1. ASSUME Survived(n)
      PROVE  segments[n].upCount = 1 /\ n > 1 /\ (segments[n - 1].upCount >= 2 \/ Survived(n - 1))
  <2>1. PICK j \in 1..(n - 1) : /\ segments[j].upCount >= 2
                                /\ \A k \in (j + 1)..n : segments[k].upCount = 1
    BY <1>1 DEF Survived
  <2>2. n \in (j + 1)..n /\ n > 1
    BY <1>0
  <2>3. CASE j = n - 1
    BY <2>1, <2>2, <2>3, Zenon
  <2>4. CASE j # n - 1
    <3>1. j \in 1..((n - 1) - 1) /\ \A k \in (j + 1)..(n - 1) : k \in (j + 1)..n
      BY <1>0, <2>4
    <3>2. Survived(n - 1)
      BY <2>1, <3>1 DEF Survived
    <3> QED
      BY <2>1, <2>2, <3>2, Zenon
  <2> QED
    BY <2>3, <2>4
<1>2. ASSUME segments[n].upCount = 1, n > 1, segments[n - 1].upCount >= 2
      PROVE  Survived(n)
  <2>1. n - 1 \in 1..(n - 1) /\ \A k \in ((n - 1) + 1)..n : k = n
    BY <1>0, <1>2
  <2> QED
    BY <1>2, <2>1, Zenon DEF Survived
<1>3. ASSUME segments[n].upCount = 1, n > 1, Survived(n - 1)
      PROVE  Survived(n)
  <2>1. PICK j \in 1..((n - 1) - 1) : /\ segments[j].upCount >= 2
                                      /\ \A k \in (j + 1)..(n - 1) : segments[k].upCount = 1
    BY <1>3 DEF Survived
  <2>2. j \in 1..(n - 1) /\ \A k \in (j + 1)..n : k = n \/ k \in (j + 1)..(n - 1)
    BY <1>0
  <2> QED
    BY <1>3, <2>1, <2>2 DEF Survived
<1> QED
  BY <1>1, <1>2, <1>3

\* The drops among the first n segments, those that begin one, and the
\* stretches of drops.
Drops(n) == {i \in 1..n : Survived(i)}
Falls(n) == {i \in Drops(n) : segments[i - 1].upCount >= 2}
Covered == {i \in DOMAIN segments : segments[i].upCount >= 2}
Clock == Times(DOMAIN segments)
Stretch(x, y, n) == x \in 1..n /\ y \in 1..n /\ x <= y /\ x..y \subseteq Drops(n)

\* What the figures say after n segments.
SumsClaimed(s, n) ==
  /\ s.session = Clock[n] /\ s.covered = Times(Covered)[n]
  /\ s.absorbed = Times(Drops(Len(segments)))[n]
FallsClaimed(s, n) ==
  /\ IsFiniteSet(Falls(n)) /\ s.failovers = Cardinality(Falls(n))
  /\ s.previousUp = IF n = 0 THEN 0 ELSE segments[n].upCount
  /\ s.inDrop <=> n \in Drops(n)
RunClaimed(s, n) ==
  s.inDrop => \E a \in 1..n : /\ a..n \subseteq Drops(n) /\ a - 1 \notin Drops(n)
                              /\ s.run = Clock[n] - Clock[a - 1]
LongestClaimed(s, n) ==
  /\ \A x, y : Stretch(x, y, n) => Clock[y] - Clock[x - 1] <= s.longest
  /\ s.longest = 0 \/ \E x, y : Stretch(x, y, n) /\ Clock[y] - Clock[x - 1] = s.longest
Claimed(s, n) ==
  s \in Figure /\ SumsClaimed(s, n) /\ FallsClaimed(s, n) /\ RunClaimed(s, n)
  /\ LongestClaimed(s, n)

(* Before the first segment they say nothing. *)
LEMMA NothingClaimed == ASSUME segments \in Seq(Segment) PROVE Claimed(NoStats, 0)
<1>1. NoStats \in Figure
  BY FiguresLoop, Zenon
<1>2. SumsClaimed(NoStats, 0)
  BY TimesLoop DEF SumsClaimed, NoStats, Clock
<1>3. Drops(0) = {} /\ Falls(0) = {}
  BY DEF Drops, Falls
<1>4. FallsClaimed(NoStats, 0)
  BY <1>3, FS_EmptySet, Zenon DEF FallsClaimed, NoStats
<1>5. RunClaimed(NoStats, 0) /\ LongestClaimed(NoStats, 0)
  BY DEF RunClaimed, LongestClaimed, Stretch, NoStats
<1> QED
  BY <1>1, <1>2, <1>4, <1>5 DEF Claimed

(* The drops of one more segment. *)
LEMMA DropsStep ==
  ASSUME segments \in Seq(Segment), NEW n \in 1..Len(segments)
  PROVE  /\ Drops(n) = Drops(n - 1) \cup (IF Survived(n) THEN {n} ELSE {})
         /\ n \notin Drops(n - 1)
         /\ n \in Drops(Len(segments)) <=> Survived(n)
<1>1. Len(segments) \in Nat /\ 1..n = 1..(n - 1) \cup {n} /\ n \notin 1..(n - 1) /\ n \in 1..n
  BY SegmentsAre
<1> QED
  BY <1>1 DEF Drops

(* One more segment: the sums. *)
LEMMA SumsStep ==
  ASSUME segments \in Seq(Segment), NEW n \in 1..Len(segments), NEW s, Claimed(s, n - 1),
         NEW c, c = CountSegment(s, segments[n]), c.inDrop <=> Survived(n)
  PROVE  SumsClaimed(c, n)
<1>1. s \in Figure /\ segments[n] \in Segment /\ DOMAIN segments = 1..Len(segments)
  BY SegmentsAre, Zenon DEF Claimed
<1>2. n \in DOMAIN segments /\ (n \in Covered <=> segments[n].upCount >= 2)
      /\ (n \in Drops(Len(segments)) <=> Survived(n))
  BY <1>1, DropsStep, Zenon DEF Covered
<1>3. /\ c.session = s.session + segments[n].duration
      /\ c.covered = s.covered + (IF segments[n].upCount >= 2 THEN segments[n].duration ELSE 0)
      /\ c.absorbed = s.absorbed + (IF c.inDrop THEN segments[n].duration ELSE 0)
  <2>1. Counted(c, s, segments[n])
    BY <1>1, CountIs, Zenon
  <2> QED
    BY <2>1, Zenon DEF Counted
<1>4. /\ Clock[n] = Clock[n - 1] + segments[n].duration
      /\ Times(Covered)[n] = Times(Covered)[n - 1]
           + (IF segments[n].upCount >= 2 THEN segments[n].duration ELSE 0)
      /\ Times(Drops(Len(segments)))[n] = Times(Drops(Len(segments)))[n - 1]
           + (IF Survived(n) THEN segments[n].duration ELSE 0)
  BY <1>2, TimesLoop DEF Clock
<1> QED
  BY <1>3, <1>4, Zenon DEF Claimed, SumsClaimed

(* One more segment: whether it is a drop, and the falls. *)
LEMMA FallsStep ==
  ASSUME segments \in Seq(Segment), NEW n \in 1..Len(segments), NEW s, Claimed(s, n - 1),
         NEW c, c = CountSegment(s, segments[n])
  PROVE  FallsClaimed(c, n) /\ (c.inDrop <=> Survived(n))
<1>0. s \in Figure /\ segments[n] \in Segment /\ Len(segments) \in Nat
  BY SegmentsAre, Zenon DEF Claimed
<1>1. /\ s \in Figure /\ segments[n] \in Segment /\ c \in Figure /\ Len(segments) \in Nat
      /\ n > 1 => segments[n - 1].upCount \in Nat
  <2>1. c \in Figure
    BY <1>0, CountIs, Zenon DEF Counted
  <2>2. n > 1 => n - 1 \in 1..Len(segments)
    BY <1>0
  <2> QED
    BY <1>0, <2>1, <2>2, SegmentsAre
<1>2. /\ c.previousUp = segments[n].upCount
      /\ c.inDrop <=> segments[n].upCount = 1 /\ (s.previousUp >= 2 \/ s.inDrop)
      /\ c.failovers = s.failovers + (IF c.inDrop /\ s.previousUp >= 2 THEN 1 ELSE 0)
  <2>1. Counted(c, s, segments[n])
    BY <1>1, CountIs, Zenon
  <2> QED
    BY <2>1, Zenon DEF Counted
<1>3. /\ s.previousUp = IF n - 1 = 0 THEN 0 ELSE segments[n - 1].upCount
      /\ s.inDrop <=> n - 1 \in Drops(n - 1)
      /\ IsFiniteSet(Falls(n - 1)) /\ s.failovers = Cardinality(Falls(n - 1))
  BY Zenon DEF Claimed, FallsClaimed
<1>4. n - 1 \in Drops(n - 1) <=> n > 1 /\ Survived(n - 1)
  BY <1>1 DEF Drops
<1>5. c.inDrop <=> Survived(n)
  BY <1>1, <1>2, <1>3, <1>4, SurvivedStep
<1>6. n \in Drops(n) <=> Survived(n)
  BY <1>1 DEF Drops
<1>7. Survived(n) => n > 1
  BY SurvivedStep
<1>8. IsFiniteSet(Falls(n)) /\ c.failovers = Cardinality(Falls(n))
  <2>1. CASE Survived(n) /\ segments[n - 1].upCount >= 2
    <3>1. Falls(n) = Falls(n - 1) \cup {n} /\ n \notin Falls(n - 1)
      BY <2>1, DropsStep, Zenon DEF Falls
    <3>2. c.failovers = s.failovers + 1
      BY <1>1, <1>2, <1>3, <1>5, <1>7, <2>1
    <3> QED
      BY <1>3, <3>1, <3>2, FS_AddElement
  <2>2. CASE ~(Survived(n) /\ segments[n - 1].upCount >= 2)
    <3>1. Falls(n) = Falls(n - 1)
      BY <2>2, DropsStep, Zenon DEF Falls
    <3>2. ~(c.inDrop /\ s.previousUp >= 2)
      BY <1>1, <1>3, <1>5, <1>7, <2>2
    <3>3. c.failovers = s.failovers
      BY <1>1, <1>2, <3>2 DEF Figure
    <3> QED
      BY <1>3, <3>1, <3>3, Zenon
  <2> QED
    BY <2>1, <2>2, Zenon
<1>9. n # 0
  OBVIOUS
<1> QED
  BY <1>2, <1>5, <1>6, <1>8, <1>9, Zenon DEF FallsClaimed

(* One more segment: the drop under way began at the last fall. *)
LEMMA RunStep ==
  ASSUME segments \in Seq(Segment), NEW n \in 1..Len(segments), NEW s, Claimed(s, n - 1),
         NEW c, c = CountSegment(s, segments[n])
  PROVE  RunClaimed(c, n)
<1> SUFFICES ASSUME c.inDrop PROVE RunClaimed(c, n)
  BY Zenon DEF RunClaimed
<1>1. /\ s \in Figure /\ segments[n] \in Segment /\ segments[n].duration \in Nat
      /\ Len(segments) \in Nat /\ Survived(n) /\ n > 1
      /\ segments[n].upCount = 1 /\ (n - 1) \in 1..Len(segments)
      /\ segments[n - 1].upCount \in Nat
  BY SegmentsAre, FallsStep, SurvivedStep DEF Claimed
<1>2. /\ c.run = IF s.previousUp >= 2 THEN segments[n].duration ELSE s.run + segments[n].duration
      /\ s.previousUp >= 2 \/ s.inDrop
  <2>1. Counted(c, s, segments[n])
    BY <1>1, CountIs, Zenon
  <2> QED
    BY <2>1, Zenon DEF Counted
<1>3. /\ s.previousUp = segments[n - 1].upCount /\ (s.inDrop <=> n - 1 \in Drops(n - 1))
      /\ RunClaimed(s, n - 1)
  BY <1>1 DEF Claimed, FallsClaimed
<1>4. Drops(n) = Drops(n - 1) \cup {n} /\ n \notin Drops(n - 1)
  BY <1>1, DropsStep, Zenon
<1>5. /\ Clock[n] = Clock[n - 1] + segments[n].duration
      /\ Clock[n - 1] \in Nat /\ Clock[n] \in Nat
  <2>1. n \in DOMAIN segments /\ n - 1 \in 0..Len(segments) /\ n \in 0..Len(segments)
    BY <1>1, SegmentsAre
  <2> QED
    BY <2>1, TimesLoop DEF Clock
<1>6. CASE s.previousUp >= 2
  <2>1. ~Survived(n - 1)
    BY <1>1, <1>3, <1>6, SurvivedStep
  <2>2. n - 1 \notin Drops(n)
    BY <1>1, <2>1, Zenon DEF Drops
  <2>3. n..n \subseteq Drops(n) /\ n \in 1..n
    BY <1>1, <1>4
  <2>4. c.run = Clock[n] - Clock[n - 1]
    BY <1>1, <1>2, <1>5, <1>6
  <2> QED
    BY <2>2, <2>3, <2>4, Zenon DEF RunClaimed
<1>7. CASE ~(s.previousUp >= 2)
  <2>1. PICK a \in 1..(n - 1) : /\ a..(n - 1) \subseteq Drops(n - 1) /\ a - 1 \notin Drops(n - 1)
                                /\ s.run = Clock[n - 1] - Clock[a - 1]
    BY <1>2, <1>3, <1>7, Zenon DEF RunClaimed
  <2>2. a \in 1..n /\ a - 1 # n /\ a..n = a..(n - 1) \cup {n} /\ a - 1 \in 0..Len(segments)
    BY <1>1
  <2>3. a..n \subseteq Drops(n) /\ a - 1 \notin Drops(n)
    BY <1>4, <2>1, <2>2, Zenon
  <2>4. Clock[a - 1] \in Nat
    BY <2>2, TimesLoop, Zenon DEF Clock
  <2>5. c.run = Clock[n] - Clock[a - 1]
    <3>1. c.run = (Clock[n - 1] - Clock[a - 1]) + segments[n].duration
      BY <1>2, <1>7, <2>1, Zenon
    <3>2. segments[n].duration \in Nat
      BY <1>1, Zenon
    <3> QED
      BY <1>5, <2>4, <3>1, <3>2
  <2> QED
    BY <2>2, <2>3, <2>5, Zenon DEF RunClaimed
<1> QED
  BY <1>6, <1>7

(* One more segment: the longest drop. *)
LEMMA LongestStep ==
  ASSUME segments \in Seq(Segment), NEW n \in 1..Len(segments), NEW s, Claimed(s, n - 1),
         NEW c, c = CountSegment(s, segments[n])
  PROVE  LongestClaimed(c, n)
<1>0. Counted(c, s, segments[n])
  BY SegmentsAre, CountIs, Zenon DEF Claimed
<1>1. /\ s \in Figure /\ c \in Figure /\ segments[n] \in Segment /\ Len(segments) \in Nat
      /\ s.longest \in Nat /\ c.run \in Nat /\ c.longest \in Nat
  BY <1>0, SegmentsAre, Zenon DEF Claimed, Counted, Figure
<1>2. /\ c.longest = IF c.run > s.longest THEN c.run ELSE s.longest
      /\ ~c.inDrop => c.run = 0
  BY <1>0, Zenon DEF Counted
<1>3. (c.inDrop <=> Survived(n)) /\ RunClaimed(c, n) /\ LongestClaimed(s, n - 1)
  BY FallsStep, RunStep, Zenon DEF Claimed
<1>4. ASSUME NEW x, NEW y, Stretch(x, y, n - 1) PROVE Stretch(x, y, n)
  BY <1>1, <1>4, DropsStep DEF Stretch
<1>5. ASSUME NEW x, NEW y, Stretch(x, y, n), y # n PROVE Stretch(x, y, n - 1)
  <2>1. x \in 1..n /\ y \in 1..n /\ x <= y /\ x..y \subseteq Drops(n)
    BY <1>5 DEF Stretch
  <2>2. x \in 1..(n - 1) /\ y \in 1..(n - 1) /\ n \notin x..y
    BY <1>5, <2>1
  <2> QED
    BY <2>1, <2>2, DropsStep DEF Stretch
<1>6. ASSUME NEW x, Stretch(x, n, n) PROVE Clock[n] - Clock[x - 1] <= c.run
  <2>1. x \in 1..n /\ x..n \subseteq Drops(n) /\ n \in x..n
    BY <1>6 DEF Stretch
  <2>2. c.inDrop
    BY <1>3, <2>1 DEF Drops
  <2>3. PICK a \in 1..n : /\ a..n \subseteq Drops(n) /\ a - 1 \notin Drops(n)
                          /\ c.run = Clock[n] - Clock[a - 1]
    BY <1>3, <2>2 DEF RunClaimed
  <2>4. a <= x
    <3>1. SUFFICES ASSUME a > x PROVE FALSE
      BY <2>1
    <3>2. a - 1 \in x..n
      BY <2>1, <3>1
    <3> QED
      BY <2>1, <2>3, <3>2
  <2>5. a - 1 \in 0..Len(segments) /\ x - 1 \in (a - 1)..Len(segments) /\ x - 1 \in 0..Len(segments)
        /\ n \in 0..Len(segments)
    BY <1>1, <2>1, <2>4
  <2>6. Clock[a - 1] <= Clock[x - 1] /\ Clock[a - 1] \in Nat /\ Clock[x - 1] \in Nat /\ Clock[n] \in Nat
    BY <2>5, TimesRise, TimesLoop, Zenon DEF Clock
  <2> QED
    BY <2>3, <2>6
<1>7. ASSUME NEW x, NEW y, Stretch(x, y, n) PROVE Clock[y] - Clock[x - 1] <= c.longest
  <2>1. x - 1 \in 0..Len(segments) /\ y \in 0..Len(segments)
    BY <1>1, <1>7 DEF Stretch
  <2>2. Clock[y] \in Nat /\ Clock[x - 1] \in Nat
    BY <2>1, TimesLoop, Zenon DEF Clock
  <2>3. CASE y = n
    BY <1>1, <1>2, <1>6, <1>7, <2>2, <2>3
  <2>4. CASE y # n
    <3>1. Clock[y] - Clock[x - 1] <= s.longest
      BY <1>3, <1>5, <1>7, <2>4, Zenon DEF LongestClaimed
    <3> QED
      BY <1>1, <1>2, <2>2, <3>1
  <2> QED
    BY <2>3, <2>4, Zenon
<1>8. c.longest = 0 \/ \E x, y : Stretch(x, y, n) /\ Clock[y] - Clock[x - 1] = c.longest
  <2>1. CASE c.run > s.longest
    <3>1. c.inDrop /\ c.longest = c.run
      BY <1>1, <1>2, <2>1
    <3>2. PICK a \in 1..n : a..n \subseteq Drops(n) /\ c.run = Clock[n] - Clock[a - 1]
      BY <1>3, <3>1 DEF RunClaimed
    <3>3. Stretch(a, n, n)
      BY <3>2 DEF Stretch
    <3> QED
      BY <3>1, <3>2, <3>3, Zenon
  <2>2. CASE ~(c.run > s.longest)
    <3>1. c.longest = s.longest
      BY <1>2, <2>2
    <3> QED
      BY <1>3, <1>4, <3>1 DEF LongestClaimed
  <2> QED
    BY <2>1, <2>2
<1> QED
  BY <1>7, <1>8 DEF LongestClaimed

(* After every segment the figures are what happened. *)
LEMMA FiguresClaimed ==
  ASSUME segments \in Seq(Segment)
  PROVE  \A n \in 0..Len(segments) : Claimed(Figures(segments)[n], n)
<1>1. PICK f, N : f = Figures(segments) /\ N = Len(segments)
  BY Zenon
<1>2. N \in Nat
  BY <1>1, SegmentsAre
<1>3. PICK Bad : Bad = {n \in 0..N : ~Claimed(f[n], n)}
  BY Zenon
<1>4. SUFFICES ASSUME Bad # {} PROVE FALSE
  BY <1>1, <1>3
<1>5. Bad \in SUBSET Nat
  BY <1>2, <1>3
<1>6. PICK n \in Bad : \A k \in Bad : n <= k
  BY <1>4, <1>5, Smallest
<1>7. n # 0
  BY <1>1, <1>3, <1>6, NothingClaimed, FiguresLoop
<1>8. n \in 1..N /\ n - 1 \in 0..N /\ n - 1 \notin Bad
  BY <1>2, <1>3, <1>6, <1>7
<1>9. PICK s, c : s = f[n - 1] /\ c = f[n]
  BY Zenon
<1>10. Claimed(s, n - 1)
  BY <1>3, <1>8, <1>9, Zenon
<1>11. c = CountSegment(s, segments[n]) /\ n \in 1..Len(segments)
  BY <1>1, <1>8, <1>9, FiguresLoop
<1>12. c \in Figure
  BY <1>10, <1>11, CountIs, SegmentsAre, Zenon DEF Claimed, Counted
<1>13. FallsClaimed(c, n) /\ RunClaimed(c, n) /\ LongestClaimed(c, n) /\ SumsClaimed(c, n)
  BY <1>10, <1>11, FallsStep, RunStep, LongestStep, SumsStep, Zenon
<1>14. Claimed(c, n)
  BY <1>12, <1>13 DEF Claimed
<1> QED
  BY <1>3, <1>6, <1>9, <1>14

(* What the user is shown of any session follows. *)
LEMMA ImpactIsHonest == ASSUME segments \in Seq(Segment) PROVE ImpactHonest
<1>1. PICK N : N = Len(segments)
  BY Zenon
<1>2. N \in Nat /\ DOMAIN segments = 1..N /\ N \in 0..N
  BY <1>1, SegmentsAre
<1>3. PICK s : s = computeImpact(segments)
  BY Zenon
<1>4. Claimed(s, N)
  BY <1>1, <1>2, <1>3, FiguresClaimed DEF computeImpact
<1>5. PICK drops : drops = {i \in DOMAIN segments : Survived(i)}
  BY Zenon
<1>6. drops = Drops(N) /\ drops \subseteq 1..N
  BY <1>2, <1>5, Zenon DEF Drops
<1>7. /\ s.session = Lasting(DOMAIN segments) /\ s.covered = Lasting(Covered)
      /\ s.absorbed = Lasting(drops)
      /\ s.failovers = Cardinality({i \in drops : segments[i - 1].upCount >= 2})
  BY <1>1, <1>4, <1>6, Zenon DEF Claimed, SumsClaimed, FallsClaimed, Falls, Clock, Lasting
<1>8. ASSUME NEW a \in drops, NEW b \in drops, a..b \subseteq drops
      PROVE  Lasting(a..b) <= s.longest
  <2>1. a \in 1..N /\ b \in 1..N
    BY <1>6
  <2>2. CASE a <= b
    <3>1. Stretch(a, b, N)
      BY <1>6, <1>8, <2>1, <2>2 DEF Stretch
    <3>2. Lasting(a..b) = Clock[b] - Clock[a - 1]
      BY <1>1, <1>2, <2>1, <2>2, StretchLasts DEF Clock
    <3>3. Clock[b] - Clock[a - 1] <= s.longest
      BY <1>4, <3>1, Zenon DEF Claimed, LongestClaimed
    <3> QED
      BY <3>2, <3>3
  <2>3. CASE ~(a <= b)
    <3>1. a..b = {}
      BY <2>1, <2>3
    <3>2. Lasting(a..b) = 0
      BY <3>1, NoTime, Zenon
    <3>3. s.longest \in Nat
      BY <1>4 DEF Claimed, Figure
    <3> QED
      BY <3>2, <3>3
  <2> QED
    BY <2>2, <2>3
<1>9. ASSUME s.longest # 0
      PROVE  \E a, b \in drops : a..b \subseteq drops /\ Lasting(a..b) = s.longest
  <2>1. PICK a, b : Stretch(a, b, N) /\ Clock[b] - Clock[a - 1] = s.longest
    BY <1>4, <1>9 DEF Claimed, LongestClaimed
  <2>2. a \in 1..N /\ b \in a..N /\ a..b \subseteq drops /\ a \in a..b /\ b \in a..b
    BY <1>2, <1>6, <2>1 DEF Stretch
  <2>3. Lasting(a..b) = s.longest
    BY <1>1, <2>1, <2>2, StretchLasts DEF Clock
  <2> QED
    BY <2>2, <2>3
<1> QED
  BY <1>3, <1>5, <1>7, <1>8, <1>9, Zenon DEF ImpactHonest, Covered

-----------------------------------------------------------------------------
\* What a session remembers: its paths, and the segments so far.
SessionInv == PathList(paths) /\ segments \in Seq(Segment)

(* The paths a session starts with. *)
LEMMA InitPaths == SessionInit => SessionInv
<1> SUFFICES ASSUME SessionInit PROVE SessionInv
  BY Zenon
<1>1. PICK n \in 0..Cardinality(PathNames) :
        \E order \in [1..n -> PathNames], m \in [PathNames -> BOOLEAN] :
          /\ \A i, j \in 1..n : order[i] = order[j] => i = j
          /\ paths = [i \in 1..n |-> [id |-> order[i], up |-> TRUE,
                                      metered |-> m[order[i]]]]
  BY Zenon DEF SessionInit
<1>2. PICK order \in [1..n -> PathNames], m \in [PathNames -> BOOLEAN] :
        /\ \A i, j \in 1..n : order[i] = order[j] => i = j
        /\ paths = [i \in 1..n |-> [id |-> order[i], up |-> TRUE,
                                    metered |-> m[order[i]]]]
  BY <1>1, Zenon
<1>3. n \in Nat
  <2>1. Cardinality(PathNames) \in Nat
    BY PathsAssumption, FS_CardinalityType, Zenon
  <2> QED
    BY <1>1, <2>1
<1>4. \A i \in 1..n : paths[i] \in Path /\ paths[i].id = order[i]
  BY <1>2, Zenon DEF Path
<1>5. DOMAIN paths = 1..n /\ paths = [i \in 1..n |-> paths[i]]
  BY <1>2, Zenon
<1>6. PathList(paths)
  BY <1>2, <1>3, <1>4, <1>5, Zenon DEF PathList
<1>7. segments \in Seq(Segment)
  BY DEF SessionInit
<1> QED
  BY <1>6, <1>7 DEF SessionInv

(* Paths go up and down; they keep their names, and the stretch that ends
   becomes a segment. *)
LEMMA StepPaths == SessionInv /\ PathChanges => SessionInv'
<1> SUFFICES ASSUME SessionInv, PathChanges PROVE SessionInv'
  OBVIOUS
<1>1. PICK n \in Nat : /\ paths \in [1..n -> Path]
                       /\ \A i, j \in 1..n : paths[i].id = paths[j].id => i = j
  BY DEF SessionInv, PathList
<1>2. PICK up \in [1..n -> BOOLEAN] :
        paths' = [i \in 1..n |-> [paths[i] EXCEPT !.up = up[i]]]
  BY <1>1, Zenon DEF PathChanges
<1>3. \A i \in 1..n : paths'[i] \in Path /\ paths'[i].id = paths[i].id
  BY <1>1, <1>2 DEF Path
<1>4. paths' \in [1..n -> Path]
  BY <1>2, <1>3
<1>5. PathList(paths)'
  BY <1>1, <1>3, <1>4 DEF PathList
<1>6. segments' \in Seq(Segment)
  <2>1. PICK d \in Durations :
          segments' = Append(segments, [duration |-> d, upCount |-> UpCount])
    BY Zenon DEF PathChanges
  <2>2. d \in Nat /\ UpCount \in Nat
    BY PathsAssumption, UpFinite DEF SessionInv, UpCount
  <2>3. PICK seg \in Segment : seg = [duration |-> d, upCount |-> UpCount]
    BY <2>2, Zenon DEF Segment
  <2>4. segments \in Seq(Segment) /\ segments' = Append(segments, seg)
    BY <2>1, <2>3 DEF SessionInv
  <2> QED
    BY <2>4
<1> QED
  BY <1>5, <1>6 DEF SessionInv

-----------------------------------------------------------------------------
\* While no keychain call has failed: an unmigrated token is the one wanted,
\* otherwise the stored one is, and a field nobody edited shows it.
TokenInv ==
  /\ pending \in BOOLEAN /\ edited \in BOOLEAN /\ failed \in BOOLEAN
  /\ edited => pending
  /\ pending => view = "idle"
  /\ view \in {"read", "idle"} => legacy = ""
  /\ ~failed => /\ wanted = IF legacy = "" THEN stored ELSE legacy
                /\ view = "erase" => stored = legacy
                /\ pending /\ ~edited => field = stored

(* The token steps keep it. *)
LEMMA TokenStep == ASSUME TokenInv, View \/ EditToken \/ Reappear \/ Relaunch
                   PROVE  TokenInv'
<1>1. CASE MigrateToken
  BY <1>1, Zenon DEF TokenInv, MigrateToken, setToken
<1>2. CASE EraseLegacy
  BY <1>2, Zenon DEF TokenInv, EraseLegacy
<1>3. CASE ReadToken
  BY <1>3, Zenon DEF TokenInv, ReadToken
<1>4. CASE TokenChanged
  BY <1>4, Zenon DEF TokenInv, TokenChanged, setToken
<1>5. CASE EditToken
  BY <1>5, Zenon DEF TokenInv, EditToken
<1>6. CASE Reappear
  BY <1>6, Zenon DEF TokenInv, Reappear
<1>7. CASE Relaunch
  BY <1>7, Zenon DEF TokenInv, Relaunch
<1> QED
  BY <1>1, <1>2, <1>3, <1>4, <1>5, <1>6, <1>7, Zenon DEF View

-----------------------------------------------------------------------------
\* While no click came during a connect: there is one task at most, none once
\* the tunnel was turned off, and it creates a profile only if there is none.
Task == [pc : {"list", "save", "reload", "start", "done"}, mgr : Nat]
ConnectInv ==
  /\ connects \in Seq(Task) /\ profiles \in Nat
  /\ overlapped \in BOOLEAN /\ defied \in BOOLEAN
  /\ ~overlapped =>
       /\ profiles <= 1 /\ ~defied
       /\ \A c, d \in InFlight : c = d
       /\ wish = "off" => InFlight = {}
       /\ \A c \in DOMAIN connects :
            connects[c].pc = "save" /\ connects[c].mgr = 0 => profiles = 0

(* The task goes on to another step. *)
LEMMA GoesTo ==
  ASSUME connects \in Seq(Task), NEW c \in DOMAIN connects, NEW to, NEW m \in Nat,
         to \in {"list", "save", "reload", "start", "done"}, connects[c].pc # "done",
         Goes(c, to, m)
  PROVE  /\ connects' \in Seq(Task) /\ DOMAIN connects' = DOMAIN connects
         /\ connects'[c].pc = to /\ connects'[c].mgr = m
         /\ \A d \in DOMAIN connects \ {c} : connects'[d] = connects[d]
         /\ InFlight' \subseteq InFlight
<1>1. PICK t : t = [pc |-> to, mgr |-> m]
  BY Zenon
<1>2. t \in Task /\ t.pc = to /\ t.mgr = m
  BY <1>1, Zenon DEF Task
<1>3. connects' = [connects EXCEPT ![c] = t]
  BY <1>1 DEF Goes
<1>4. /\ connects' \in Seq(Task) /\ DOMAIN connects' = DOMAIN connects
      /\ connects'[c] = t
      /\ \A d \in DOMAIN connects \ {c} : connects'[d] = connects[d]
  BY <1>2, <1>3
<1> QED
  BY <1>2, <1>4 DEF InFlight

(* The toggle and the tasks it starts keep it. *)
LEMMA TaskStep ==
  ASSUME ConnectInv, NEW c \in DOMAIN connects, connect(c) PROVE ConnectInv'
<1>1. /\ connects \in Seq(Task) /\ connects[c] \in Task /\ profiles \in Nat
      /\ connects[c].mgr \in Nat
  <2>1. connects \in Seq(Task) /\ profiles \in Nat
    BY DEF ConnectInv
  <2>2. connects[c] \in Task
    BY <2>1
  <2> QED
    BY <2>1, <2>2, Zenon DEF Task
<1>2. CASE installList(c)
  <2>1. PICK m \in Nat : m = IF profiles > 0 THEN 1 ELSE 0
    BY <1>1, Zenon
  <2>2. /\ Goes(c, "save", m) /\ connects[c].pc # "done"
        /\ UNCHANGED <<profiles, overlapped, defied, wish>>
    BY <1>2, <2>1, Zenon DEF installList
  <2>3. /\ connects' \in Seq(Task) /\ DOMAIN connects' = DOMAIN connects
        /\ connects'[c].pc = "save" /\ connects'[c].mgr = m
        /\ \A d \in DOMAIN connects \ {c} : connects'[d] = connects[d]
        /\ InFlight' \subseteq InFlight
    BY <1>1, <2>2, GoesTo, Zenon
  <2> QED
    BY <2>1, <2>2, <2>3 DEF ConnectInv
<1>3. CASE installSave(c)
  <2>1. PICK m \in Nat : m = IF connects[c].mgr = 0 THEN profiles + 1 ELSE connects[c].mgr
    BY <1>1
  <2>2. /\ Goes(c, "reload", m) /\ connects[c].pc = "save"
        /\ UNCHANGED <<overlapped, defied, wish>>
        /\ profiles' = IF connects[c].mgr = 0 THEN profiles + 1 ELSE profiles
    BY <1>3, <2>1, Zenon DEF installSave
  <2>3. /\ connects' \in Seq(Task) /\ DOMAIN connects' = DOMAIN connects
        /\ connects'[c].pc = "reload"
        /\ \A d \in DOMAIN connects \ {c} : connects'[d] = connects[d]
        /\ InFlight' \subseteq InFlight
    BY <1>1, <2>2, GoesTo, Zenon
  <2>4. ~overlapped => \A d \in DOMAIN connects \ {c} : connects[d].pc = "done"
    BY <2>2, Zenon DEF ConnectInv, InFlight
  <2> QED
    BY <1>1, <2>2, <2>3, <2>4 DEF ConnectInv
<1>4. CASE installReload(c) \/ start(c) \/ ConnectFails(c)
  <2>1. PICK to \in {"start", "done"} : Goes(c, to, connects[c].mgr)
    BY <1>4, Zenon DEF installReload, start, ConnectFails
  <2>2. connects[c].pc # "done" /\ UNCHANGED <<profiles, overlapped, wish>>
    BY <1>4, Zenon DEF installReload, start, ConnectFails
  <2>3. /\ connects' \in Seq(Task) /\ DOMAIN connects' = DOMAIN connects
        /\ connects'[c].pc = to
        /\ \A d \in DOMAIN connects \ {c} : connects'[d] = connects[d]
        /\ InFlight' \subseteq InFlight
    BY <1>1, <2>1, <2>2, GoesTo, Zenon
  <2>4. defied' \in BOOLEAN /\ (~overlapped => ~defied')
    <3>1. ~overlapped => wish # "off"
      BY <2>2 DEF ConnectInv, InFlight
    <3>2. defied' = defied \/ defied' = (defied \/ wish = "off")
      BY <1>4, Zenon DEF installReload, start, ConnectFails
    <3> QED
      BY <3>1, <3>2 DEF ConnectInv
  <2> QED
    BY <2>2, <2>3, <2>4, Zenon DEF ConnectInv
<1> QED
  BY <1>2, <1>3, <1>4, Zenon DEF connect

(* A click. *)
LEMMA ClickStep == ASSUME ConnectInv, ClickOn \/ ClickOff PROVE ConnectInv'
<1>1. connects \in Seq(Task) /\ profiles \in Nat /\ overlapped \in BOOLEAN
  BY DEF ConnectInv
<1>2. overlapped' \in BOOLEAN /\ (~overlapped' => ~overlapped /\ InFlight = {})
  <2>1. overlapped' = (overlapped \/ InFlight # {})
    BY Zenon DEF ClickOn, ClickOff
  <2> QED
    BY <1>1, <2>1, Zenon
<1>3. CASE ClickOn
  <2>1. PICK t : t = [pc |-> "list", mgr |-> 0]
    BY Zenon
  <2>2. t \in Task /\ t.pc = "list"
    BY <2>1 DEF Task
  <2>3. PICK n \in Nat : n = Len(connects) /\ DOMAIN connects = 1..n
    BY <1>1
  <2>4. connects' = Append(connects, t) /\ wish' = "on" /\ UNCHANGED <<profiles, defied>>
    BY <1>3, <2>1, Zenon DEF ClickOn
  <2>5. /\ connects' \in Seq(Task) /\ DOMAIN connects' = 1..(n + 1)
        /\ connects'[n + 1] = t
        /\ \A d \in 1..n : connects'[d] = connects[d]
    BY <1>1, <2>2, <2>3, <2>4
  <2>6. InFlight = {} => InFlight' \subseteq {n + 1}
    BY <2>3, <2>5 DEF InFlight
  <2>7. InFlight = {} =>
          \A d \in DOMAIN connects' : connects'[d].pc # "save"
    BY <2>2, <2>3, <2>5 DEF InFlight
  <2> QED
    BY <1>2, <2>4, <2>5, <2>6, <2>7 DEF ConnectInv
<1>4. CASE ClickOff
  BY <1>2, <1>4 DEF ConnectInv, ClickOff, InFlight
<1> QED
  BY <1>3, <1>4, Zenon

(* A relaunch ends every task. *)
LEMMA RelaunchStep == ASSUME ConnectInv, Relaunch PROVE ConnectInv'
<1>1. connects \in Seq(Task)
  BY Zenon DEF ConnectInv
<1>2. /\ connects' = [c \in DOMAIN connects |-> [connects[c] EXCEPT !.pc = "done"]]
      /\ UNCHANGED <<profiles, wish, overlapped, defied>>
  BY Zenon DEF Relaunch
<1>3. PICK n \in Nat : DOMAIN connects = 1..n
  BY <1>1
<1>4. \A c \in 1..n : connects[c] \in Task
  BY <1>1, <1>3
<1>5. \A c \in 1..n : connects'[c] \in Task /\ connects'[c].pc = "done"
  BY <1>2, <1>3, <1>4 DEF Task
<1>6. connects' \in Seq(Task) /\ DOMAIN connects' = 1..n
  BY <1>2, <1>3, <1>5
<1>7. InFlight' = {}
  BY <1>5, <1>6 DEF InFlight
<1> QED
  BY <1>2, <1>5, <1>6, <1>7, Zenon DEF ConnectInv

-----------------------------------------------------------------------------
AppInv == SessionInv /\ TokenInv /\ ConnectInv

(* Where the app starts. *)
LEMMA InitAppInv == AppInit => AppInv
<1> SUFFICES ASSUME AppInit PROVE AppInv
  OBVIOUS
<1>1. SessionInv
  BY InitPaths, Zenon DEF AppInit
<1>2. TokenInv
  BY Zenon DEF AppInit, TokenInv
<1>3. ConnectInv
  <2>1. /\ connects = <<>> /\ profiles \in {0, 1} /\ overlapped = FALSE /\ defied = FALSE
    BY Zenon DEF AppInit
  <2>2. connects \in Seq(Task) /\ DOMAIN connects = {}
    BY <2>1
  <2>3. InFlight = {}
    BY <2>2 DEF InFlight
  <2>4. overlapped \in BOOLEAN /\ defied \in BOOLEAN /\ ~defied
    BY <2>1, Zenon
  <2>5. profiles \in Nat /\ profiles <= 1
    BY <2>1
  <2>6. \A c \in DOMAIN connects :
          connects[c].pc = "save" /\ connects[c].mgr = 0 => profiles = 0
    BY <2>2
  <2> QED
    BY <2>2, <2>3, <2>4, <2>5, <2>6, Zenon DEF ConnectInv
<1> QED
  BY <1>1, <1>2, <1>3 DEF AppInv

(* What one half of the app leaves alone stays as it was. *)
LEMMA TokenQuiet == ASSUME TokenInv, UNCHANGED tokenVars PROVE TokenInv'
  BY Zenon DEF TokenInv, tokenVars

(* So do the paths and the segments. *)
LEMMA PathQuiet == ASSUME SessionInv, UNCHANGED pathVars PROVE SessionInv'
<1>1. paths' = paths /\ segments' = segments
  BY DEF pathVars
<1>2. PICK n \in Nat : /\ paths \in [1..n -> Path]
                       /\ \A i, j \in 1..n : paths[i].id = paths[j].id => i = j
  BY Zenon DEF SessionInv, PathList
<1> QED
  BY <1>1, <1>2 DEF SessionInv, PathList

(* So do the tasks. *)
LEMMA ConnectQuiet ==
  ASSUME ConnectInv, UNCHANGED <<profiles, connects, wish, overlapped, defied>>
  PROVE  ConnectInv'
  BY DEF ConnectInv, InFlight

(* Every step of the app keeps the invariant. *)
LEMMA NextAppInv == ASSUME AppInv, [AppNext]_appVars PROVE AppInv'
<1>1. SessionInv /\ TokenInv /\ ConnectInv
  BY DEF AppInv
<1>2. CASE MainActor
  <2>1. UNCHANGED tokenVars /\ UNCHANGED pathVars
    BY <1>2, Zenon DEF MainActor, LoadExisting, AdoptExisting, MainQueue, ClickOn, ClickOff,
       connect, installList, installSave, installReload, start, ConnectFails
  <2>2. ConnectInv'
    <3>1. CASE LoadExisting \/ AdoptExisting \/ MainQueue
      <4>1. UNCHANGED <<profiles, connects, wish, overlapped, defied>>
        BY <3>1, Zenon DEF LoadExisting, AdoptExisting, MainQueue
      <4> QED
        BY <1>1, <4>1, ConnectQuiet
    <3> QED
      BY <1>1, <1>2, <3>1, ClickStep, TaskStep, Zenon DEF MainActor
  <2> QED
    BY <1>1, <2>1, <2>2, TokenQuiet, PathQuiet DEF AppInv
<1>3. CASE View \/ EditToken \/ Reappear
  <2>1. UNCHANGED tunnelVars /\ UNCHANGED pathVars
    BY <1>3, Zenon DEF View, MigrateToken, EraseLegacy, ReadToken, TokenChanged, EditToken,
       Reappear
  <2>2. UNCHANGED <<profiles, connects, wish, overlapped, defied>>
    BY <2>1, Zenon DEF tunnelVars
  <2> QED
    BY <1>1, <1>3, <2>1, <2>2, TokenStep, PathQuiet, ConnectQuiet DEF AppInv
<1>4. CASE Relaunch
  <2>1. UNCHANGED pathVars
    BY <1>4, Zenon DEF Relaunch
  <2> QED
    BY <1>1, <1>4, <2>1, TokenStep, PathQuiet, RelaunchStep DEF AppInv
<1>5. CASE \E p \in 1..profiles : TunnelSettles(p) \/ TunnelChanges(p)
  <2>1. /\ UNCHANGED tokenVars /\ UNCHANGED pathVars
        /\ UNCHANGED <<profiles, connects, wish, overlapped, defied>>
    BY <1>5, Zenon DEF TunnelSettles, TunnelChanges
  <2> QED
    BY <1>1, <2>1, TokenQuiet, PathQuiet, ConnectQuiet DEF AppInv
<1>6. CASE PathChanges /\ UNCHANGED <<tunnelVars, tokenVars, kills>>
  <2>1. /\ UNCHANGED tokenVars
        /\ UNCHANGED <<profiles, connects, wish, overlapped, defied>>
    BY <1>6, Zenon DEF tunnelVars
  <2> QED
    BY <1>1, <1>6, <2>1, TokenQuiet, StepPaths, ConnectQuiet DEF AppInv
<1>7. CASE UNCHANGED appVars
  <2>1. /\ UNCHANGED tokenVars /\ UNCHANGED pathVars
        /\ UNCHANGED <<profiles, connects, wish, overlapped, defied>>
    BY <1>7, Zenon DEF appVars, tunnelVars
  <2> QED
    BY <1>1, <2>1, TokenQuiet, PathQuiet, ConnectQuiet DEF AppInv
<1> QED
  BY <1>2, <1>3, <1>4, <1>5, <1>6, <1>7, Zenon DEF AppNext

(* The inductive invariant holds throughout. *)
THEOREM AppInvariance == AppSpec => []AppInv
  BY InitAppInv, NextAppInv, PTL DEF AppSpec

(* Clicks that do not overtake one another install one profile at most and are
   obeyed, for any number of clicks, kills and changes from outside. *)
THEOREM OneAtATimeTheorem == AppSpec => []OneAtATime
<1>1. AppInv => OneAtATime
  BY DEF AppInv, ConnectInv, OneAtATime
<1> QED
  BY <1>1, AppInvariance, PTL

(* The token survives every kill. *)
THEOREM TokenKeptTheorem == AppSpec => []TokenKept
<1>1. AppInv => TokenKept
  BY Zenon DEF AppInv, TokenInv, TokenKept
<1> QED
  BY <1>1, AppInvariance, PTL

(* The path policy keeps its promises for any number of paths. *)
THEOREM PolicySoundTheorem == AppSpec => []PolicySound
<1>1. AppInv => PolicySound
  BY PathListSound DEF AppInv, SessionInv
<1> QED
  BY <1>1, AppInvariance, PTL

(* The figures shown for a session claim exactly what happened, for any number
   of segments of any length. *)
THEOREM ImpactHonestTheorem == AppSpec => []ImpactHonest
<1>1. AppInv => ImpactHonest
  BY ImpactIsHonest DEF AppInv, SessionInv
<1> QED
  BY <1>1, AppInvariance, PTL
=============================================================================
