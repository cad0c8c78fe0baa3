------------------------------ MODULE PathSet ------------------------------
(***************************************************************************)
(* internal/exit/pathset.go: the source endpoints each session was last    *)
(* seen at.  Record and Fresh are each one critical section of its mutex,  *)
(* and each reads the clock inside it.  The entries of a session are a     *)
(* function from endpoint to the time it was last seen: their order only   *)
(* orders the sends.  Definitions named X_Y are mistaken variants of X.    *)
(***************************************************************************)
EXTENDS Integers

CONSTANTS
  PathIds,    \* sessions
  Endpoints,  \* source address and port of a datagram
  TTL,        \* how long an endpoint stays fresh
  MaxTime     \* bound: the clock

ASSUME TTLAssumption == TTL \in Nat \ {0} /\ MaxTime \in Nat

VARIABLES
  paths,    \* session -> its entries: endpoint -> lastSeen
  clock,    \* ps.now
  recorded  \* history: session -> endpoint -> last Record, -1 before any

pathVars == <<paths, recorded>>

PathInit ==
  /\ paths = [i \in PathIds |-> <<>>]
  /\ clock = 0
  /\ recorded = [i \in PathIds |-> [e \in Endpoints |-> -1]]

Tick == clock < MaxTime /\ clock' = clock + 1

Record_NoRefresh(id, e) ==
  /\ paths' = [paths EXCEPT ![id] =
                 [x \in DOMAIN @ \cup {e} |-> IF x \in DOMAIN @ THEN @[x] ELSE clock]]
  /\ recorded' = [recorded EXCEPT ![id][e] = clock]

\* Record: a known endpoint is refreshed, another is appended.
Record(id, e) ==
  /\ paths' = [paths EXCEPT ![id] =
                 [x \in DOMAIN @ \cup {e} |-> IF x = e THEN clock ELSE @[x]]]
  /\ recorded' = [recorded EXCEPT ![id][e] = clock]

\* The endpoints Fresh returns: seen strictly after now - ttl.
Live(id) == {e \in DOMAIN paths[id] : paths[id][e] > clock - TTL}

\* Fresh: the entries are compacted to the live ones.
Fresh(id) ==
  /\ paths' = [paths EXCEPT ![id] = [e \in Live(id) |-> @[e]]]
  /\ UNCHANGED recorded
=============================================================================
