---------------------------- MODULE DedupWindow ----------------------------
(***************************************************************************)
(* internal/dedup/window.go: the probe gateway's duplicate suppression, a  *)
(* map of at most Capacity packet identities and a ring buffer that keeps  *)
(* their order of arrival.  Observe runs under the window's mutex: one     *)
(* step.  Definitions named X_Y are mistaken variants of X.                *)
(***************************************************************************)
EXTENDS Integers, Functions

CONSTANTS
  Capacity,    \* the capacity NewWindow was given
  Ids,         \* valid packet identities
  Paths,       \* valid path names
  NoId,        \* the zero PacketID an unused ring slot holds
  MaxCopies    \* bound: the copies of one remembered identity

ASSUME WindowAssumption ==
  /\ Capacity \in Nat \ {0}
  /\ NoId \notin Ids
  /\ MaxCopies \in Nat

VARIABLES
  seen,     \* map: the remembered identities -> [firstPath, copyCount]
  ring,     \* slot -> identity
  head,     \* slot of the oldest live entry
  count,    \* number of live entries
  result,   \* the Result of the last Observe
  age       \* history: first copies answered since this identity's own one,
            \* at most Capacity; Capacity also when it never had one

windowVars == <<seen, ring, head, count, result, age>>

Slots == 0..(Capacity - 1)
Nothing == [decision |-> "invalid", firstPath |-> "", copyCount |-> 0]

Init ==
  /\ seen = <<>>
  /\ ring = [i \in Slots |-> NoId]
  /\ head = 0
  /\ count = 0
  /\ result = Nothing
  /\ age = [id \in Ids |-> Capacity]

-----------------------------------------------------------------------------
evictIfFull_Newest ==
  IF count < Capacity
  THEN [seen |-> seen, head |-> head, count |-> count]
  ELSE LET newest == ring[(head + count - 1) % Capacity]
       IN  [seen |-> Restrict(seen, DOMAIN seen \ {newest}),
            head |-> head, count |-> count - 1]

\* The fields evictIfFull may change: without the oldest entry when the
\* window is full.
evictIfFull ==
  IF count < Capacity
  THEN [seen |-> seen, head |-> head, count |-> count]
  ELSE [seen |-> Restrict(seen, DOMAIN seen \ {ring[head]}),
        head |-> (head + 1) % Capacity, count |-> count - 1]

\* The ring with id as its newest entry, behind the n live entries at h.
pushID(id, h, n) == [ring EXCEPT ![(h + n) % Capacity] = id]

\* An identity or a path that is not valid, before the lock is taken.
ObserveInvalid ==
  /\ result' = Nothing
  /\ UNCHANGED <<seen, ring, head, count, age>>

ObserveDuplicate_FirstPathLost(id, path) ==
  /\ id \in DOMAIN seen
  /\ seen[id].copyCount < MaxCopies
  /\ LET copies == seen[id].copyCount + 1 IN
     /\ seen' = [seen EXCEPT ![id] = [firstPath |-> path, copyCount |-> copies]]
     /\ result' = [decision |-> "duplicate", firstPath |-> path,
                   copyCount |-> copies]
  /\ UNCHANGED <<ring, head, count, age>>

ObserveDuplicate(id, path) ==
  /\ id \in DOMAIN seen
  /\ seen[id].copyCount < MaxCopies
  /\ LET copies == seen[id].copyCount + 1 IN
     /\ seen' = [seen EXCEPT ![id].copyCount = copies]
     /\ result' = [decision |-> "duplicate", firstPath |-> seen[id].firstPath,
                   copyCount |-> copies]
  /\ UNCHANGED <<ring, head, count, age>>

ObserveFirst(id, path) ==
  /\ id \notin DOMAIN seen
  /\ LET kept == evictIfFull IN
     /\ seen' = [x \in DOMAIN kept.seen \cup {id} |->
                   IF x = id THEN [firstPath |-> path, copyCount |-> 1]
                             ELSE kept.seen[x]]
     /\ ring' = pushID(id, kept.head, kept.count)
     /\ head' = kept.head
     /\ count' = kept.count + 1
  /\ result' = [decision |-> "first-copy", firstPath |-> path, copyCount |-> 1]
  /\ age' = [x \in Ids |-> IF x = id THEN 0
                           ELSE IF age[x] < Capacity THEN age[x] + 1
                           ELSE Capacity]

Observe(id, path) == ObserveDuplicate(id, path) \/ ObserveFirst(id, path)

Next == ObserveInvalid \/ \E id \in Ids, path \in Paths : Observe(id, path)

Spec == Init /\ [][Next]_windowVars

-----------------------------------------------------------------------------
Records == [firstPath : Paths, copyCount : Nat \ {0}]

(* The fields of a Window, and the answers Observe gives. *)
TypeOK ==
  /\ DOMAIN seen \subseteq Ids
  /\ seen \in [DOMAIN seen -> Records]
  /\ ring \in [Slots -> Ids \cup {NoId}]
  /\ head \in Slots
  /\ count \in 0..Capacity
  /\ age \in [Ids -> 0..Capacity]

\* The identity of the k-th live entry of the ring, the oldest being the 0-th.
Live(k) == ring[(head + k) % Capacity]

(* The ring and the map describe one set: the live slots hold exactly the
   remembered identities, each in one slot, so evictIfFull always deletes a
   remembered identity and count equals len(seen) (the comment on the count
   field of Window). *)
RingMatchesMap ==
  /\ {Live(k) : k \in 0..(count - 1)} = DOMAIN seen
  /\ \A j, k \in 0..(count - 1) : Live(j) = Live(k) => j = k

(* The window forgets an identity exactly when Capacity newer ones have been
   answered first-copy since: never earlier (a copy that is at most
   Capacity - 1 identities late is still suppressed) and never later, in
   whatever order and however often copies arrive. *)
RemembersExactlyCapacity ==
  \A id \in Ids : id \in DOMAIN seen <=> age[id] < Capacity

\* The live entries, oldest first, with what the map says of them.
Queue == [k \in 1..count |-> [id |-> Live(k - 1),
                              firstPath |-> seen[Live(k - 1)].firstPath,
                              copyCount |-> seen[Live(k - 1)].copyCount]]

(* Map, ring, head and count together are the first-in first-out memory:
   a copy never renews an identity's place, and a duplicate is answered with
   the path and the number of copies since the identity was last taken in. *)
Fifo == INSTANCE FifoMemory WITH queue <- Queue
ImplementsFifoMemory == Fifo!Spec
=============================================================================
