----------------------------- MODULE FifoMemory -----------------------------
(***************************************************************************)
(* What the probe gateway's dedup window promises: a first-in first-out    *)
(* memory of the last Capacity packet identities, with the path each one   *)
(* first arrived on and how many copies of it arrived.  DedupWindow        *)
(* implements it with a map and a ring buffer.                             *)
(***************************************************************************)
EXTENDS Integers, Sequences

CONSTANTS Capacity, Ids, Paths

VARIABLES
  queue,    \* the remembered identities, oldest first: [id, firstPath, copyCount]
  result    \* the answer to the last observation

vars == <<queue, result>>

Nothing == [decision |-> "invalid", firstPath |-> "", copyCount |-> 0]

Init == queue = <<>> /\ result = Nothing

\* An invalid identity or path is refused and not remembered.
Refuse == result' = Nothing /\ UNCHANGED queue

Again(id) == \E i \in 1..Len(queue) :
  LET copies == queue[i].copyCount + 1 IN
  /\ queue[i].id = id
  /\ queue' = [queue EXCEPT ![i].copyCount = copies]
  /\ result' = [decision |-> "duplicate", firstPath |-> queue[i].firstPath,
                copyCount |-> copies]

Remember(id, path) ==
  LET kept == IF Len(queue) < Capacity THEN queue ELSE Tail(queue) IN
  /\ \A i \in 1..Len(queue) : queue[i].id # id
  /\ queue' = Append(kept, [id |-> id, firstPath |-> path, copyCount |-> 1])
  /\ result' = [decision |-> "first-copy", firstPath |-> path, copyCount |-> 1]

Next ==
  \/ Refuse
  \/ \E id \in Ids, path \in Paths : Again(id) \/ Remember(id, path)

Spec == Init /\ [][Next]_vars
=============================================================================
