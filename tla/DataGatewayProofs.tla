------------------------- MODULE DataGatewayProofs -------------------------
(***************************************************************************)
(* Theorems about Allocator and DataGateway, for every pool, set of        *)
(* sessions, endpoints, uplinks, packets and bounds.  The allocator's      *)
(* properties together are inductive.  The gateway's are not: whether a    *)
(* packet is written once depends on replay windows held by session        *)
(* objects, on their being one per key, hence on the mutex of the cache    *)
(* and on the leases that a handshake in progress makes and takes back.    *)
(* GatewayInv below says all of that; one lemma per step keeps it: the     *)
(* handshake and sessionFor, the steps that change the tables, then the    *)
(* steps of the two loops.                                                 *)
(***************************************************************************)
EXTENDS DataGateway, TLAPS

\* The allocator's inductive invariant.
LeaseInv == AllocTypeOK /\ LeasesPartition

(* A held address is not a free one, and has one holder. *)
LEMMA Singletons == /\ \A x : {x} # {}
                    /\ \A x, y : {x} = {y} => x = y
<1>1. \A x : {x} # {}
  BY Zenon
<1>2. \A x, y : {x} = {y} => x = y
  BY Zenon
<1> QED BY <1>1, <1>2

(* The conjuncts of LeasesPartition, one by one. *)
LEMMA Parts ==
  ASSUME LeasesPartition
  PROVE  /\ \A id \in LeaseIds, a \in Usable : forward[id] = a <=> reverse[a] = {id}
         /\ \A a \in Usable : reverse[a] = {}
                             <=> \E i \in 1..Len(free) : free[i] = a
         /\ \A i, j \in 1..Len(free) : free[i] = free[j] => i = j
  BY DEF LeasesPartition

(* NewAllocator's stack holds every usable address exactly once and no
   session has a lease. *)
LEMMA InitLeaseInv == AllocInit => LeaseInv
<1> SUFFICES ASSUME AllocInit PROVE LeaseInv
  OBVIOUS
<1>1. free \in Seq(Usable) /\ Len(free) = Size - 3
      /\ \A i \in 1..(Size - 3) : free[i] = i + 1
  BY SizeAssumption DEF AllocInit, NewAllocator, Usable
<1>2. AllocTypeOK
  BY <1>1, SizeAssumption DEF AllocInit, AllocTypeOK, Addresses
<1>3. \A a \in Usable : \E i \in 1..Len(free) : free[i] = a
  <2> SUFFICES ASSUME NEW a \in Usable PROVE \E i \in 1..Len(free) : free[i] = a
    OBVIOUS
  <2>1. a - 1 \in 1..(Size - 3) /\ free[a - 1] = a
    BY <1>1, SizeAssumption DEF Usable
  <2> QED BY <2>1, <1>1
<1>4. \A i, j \in 1..Len(free) : free[i] = free[j] => i = j
  BY <1>1, SizeAssumption
<1>5. \A id \in LeaseIds, a \in Usable : forward[id] # a /\ reverse[a] = {}
  BY SizeAssumption DEF AllocInit, Usable, Addresses
<1>6. \A id \in LeaseIds, a \in Usable : reverse[a] # {id}
  BY <1>5, Singletons
<1>7. \A a \in Usable : reverse[a] = {}
  BY SizeAssumption DEF AllocInit, Usable, Addresses
<1> QED BY <1>2, <1>3, <1>4, <1>5, <1>6, <1>7 DEF LeaseInv, LeasesPartition

(* Popping the stack: the address popped was no one's, so the maps stay
   inverse and the rest of the stack stays what is left. *)
LEMMA FreshLeaseInv == ASSUME NEW id \in LeaseIds, LeaseInv, AllocateFresh(id)
                   PROVE  LeaseInv'
<1> DEFINE n == Len(free)
<1>1. n \in Nat /\ n >= 1 /\ free \in Seq(Usable) /\ free[n] \in Usable
  BY DEF LeaseInv, AllocTypeOK, AllocateFresh
<1>2. PICK addr \in Usable : addr = free[n]
  BY <1>1
<1>3. reverse[addr] = {} /\ \A i \in 1..n : free[i] = addr => i = n
  <2>1. n \in 1..n
    BY <1>1
  <2>2. \E i \in 1..Len(free) : free[i] = addr
    BY <2>1, <1>2
  <2>3. reverse[addr] = {}
    BY <2>2, Parts DEF LeaseInv
  <2>4. \A i \in 1..n : free[i] = addr => i = n
    BY <2>1, <1>2, Parts DEF LeaseInv
  <2> QED BY <2>3, <2>4
<1>4. /\ forward' = [forward EXCEPT ![id] = addr]
      /\ reverse' = [reverse EXCEPT ![addr] = {id}]
      /\ forward[id] = 0
  BY <1>2 DEF AllocateFresh
<1>5. /\ free' \in Seq(Usable) /\ Len(free') = n - 1
      /\ \A i \in 1..(n - 1) : free'[i] = free[i]
  <2>1. PICK m \in Nat : m = n - 1
    BY <1>1
  <2>2. 1 \in 1..(n + 1) /\ m \in 0..n /\ \A i \in 1..m : i \in 1..n
    BY <1>1, <2>1
  <2>3. free' = SubSeq(free, 1, m)
    BY <2>1 DEF AllocateFresh
  <2>4. /\ SubSeq(free, 1, m) \in Seq(Usable)
        /\ Len(SubSeq(free, 1, m)) = m
        /\ \A i \in 1..m : SubSeq(free, 1, m)[i] = free[i]
    BY <1>1, <2>1, <2>2
  <2> QED BY <2>1, <2>3, <2>4
<1>6. addr \in Addresses /\ Usable \subseteq Addresses /\ 0 \notin Usable
  BY SizeAssumption DEF Usable, Addresses
<1>7. AllocTypeOK'
  BY <1>4, <1>5, <1>6 DEF LeaseInv, AllocTypeOK
<1>8. \A x \in LeaseIds, a \in Usable : forward'[x] = a <=> reverse'[a] = {x}
  <2> SUFFICES ASSUME NEW x \in LeaseIds, NEW a \in Usable
               PROVE  forward'[x] = a <=> reverse'[a] = {x}
    OBVIOUS
  <2>1. /\ forward'[x] = IF x = id THEN addr ELSE forward[x]
        /\ reverse'[a] = IF a = addr THEN {id} ELSE reverse[a]
    BY <1>4, <1>6 DEF LeaseInv, AllocTypeOK
  <2>2. forward[x] = a <=> reverse[a] = {x}
    BY Parts DEF LeaseInv
  <2>3. forward[x] = addr => reverse[addr] = {x}
    BY Parts DEF LeaseInv
  <2>4. forward[id] # a
    BY <1>4, <1>6
  <2>5. reverse[a] # {id}
    BY <2>4, Parts DEF LeaseInv
  <2> QED BY <2>1, <2>2, <2>3, <2>5, <1>3, Singletons
<1>9. \A a \in Usable : reverse'[a] = {} <=> \E i \in 1..Len(free') : free'[i] = a
  <2> SUFFICES ASSUME NEW a \in Usable
               PROVE  reverse'[a] = {} <=> \E i \in 1..Len(free') : free'[i] = a
    OBVIOUS
  <2>0. (\E i \in 1..Len(free') : free'[i] = a) <=> \E i \in 1..(n - 1) : free[i] = a
    BY <1>1, <1>5, Zenon
  <2>1. CASE a = addr
    <3>1. reverse'[a] # {}
      BY <2>1, <1>4, <1>6, Singletons DEF LeaseInv, AllocTypeOK
    <3>2. \A i \in 1..(n - 1) : free[i] # a
      BY <2>1, <1>1, <1>3
    <3> QED BY <3>1, <3>2, <2>0
  <2>2. CASE a # addr
    <3>1. reverse'[a] = reverse[a]
      BY <2>2, <1>4, <1>6 DEF LeaseInv, AllocTypeOK
    <3>2. reverse[a] = {} <=> \E i \in 1..n : free[i] = a
      BY Parts DEF LeaseInv
    <3> QED BY <3>1, <3>2, <2>0, <2>2, <1>1, <1>2
  <2> QED BY <2>1, <2>2
<1>10. \A i, j \in 1..Len(free') : free'[i] = free'[j] => i = j
  <2>1. \A i, j \in 1..n : free[i] = free[j] => i = j
    BY Parts DEF LeaseInv
  <2>2. Len(free') = n - 1 /\ \A i \in 1..(n - 1) : i \in 1..n /\ free'[i] = free[i]
    BY <1>1, <1>5
  <2> QED BY <2>1, <2>2, Zenon
<1> QED BY <1>7, <1>8, <1>9, <1>10 DEF LeaseInv, LeasesPartition

(* Releasing: the address was on no stack, so pushing it keeps each address
   there once. *)
LEMMA ReleaseLeaseInv == ASSUME NEW id \in LeaseIds, LeaseInv, Release(id)
                     PROVE  LeaseInv'
<1> DEFINE n == Len(free)
<1>1. PICK addr \in Usable : addr = forward[id]
  BY DEF LeaseInv, AllocTypeOK, Release
<1>2. n \in Nat /\ free \in Seq(Usable) /\ 0 \notin Usable
      /\ Usable \subseteq Addresses
  BY SizeAssumption DEF LeaseInv, AllocTypeOK, Usable, Addresses
<1>3. reverse[addr] = {id} /\ \A i \in 1..n : free[i] # addr
  <2>1. reverse[addr] = {id}
    BY <1>1, Parts DEF LeaseInv
  <2>2. reverse[addr] # {}
    BY <2>1, Singletons
  <2> QED BY <2>1, <2>2, Parts DEF LeaseInv
<1>4. /\ forward' = [forward EXCEPT ![id] = 0]
      /\ reverse' = [reverse EXCEPT ![addr] = {}]
  BY <1>1 DEF Release
<1>5. /\ free' \in Seq(Usable) /\ Len(free') = n + 1 /\ free'[n + 1] = addr
      /\ \A i \in 1..n : free'[i] = free[i]
  BY <1>1, <1>2 DEF Release
<1>6. AllocTypeOK'
  BY <1>2, <1>4, <1>5 DEF LeaseInv, AllocTypeOK
<1>7. \A x \in LeaseIds, a \in Usable : forward'[x] = a <=> reverse'[a] = {x}
  <2> SUFFICES ASSUME NEW x \in LeaseIds, NEW a \in Usable
               PROVE  forward'[x] = a <=> reverse'[a] = {x}
    OBVIOUS
  <2>1. /\ forward'[x] = IF x = id THEN 0 ELSE forward[x]
        /\ reverse'[a] = IF a = addr THEN {} ELSE reverse[a]
    BY <1>2, <1>4 DEF LeaseInv, AllocTypeOK
  <2>2. forward[x] = a <=> reverse[a] = {x}
    BY Parts DEF LeaseInv
  <2>3. forward[x] = addr => x = id
    <3>1. forward[x] = addr => reverse[addr] = {x}
      BY Parts DEF LeaseInv
    <3> QED BY <3>1, <1>3, Singletons
  <2>4. reverse[a] = {id} => a = addr
    BY <1>1, Parts DEF LeaseInv
  <2> QED BY <2>1, <2>2, <2>3, <2>4, <1>2, Singletons
<1>8. \A a \in Usable : reverse'[a] = {} <=> \E i \in 1..Len(free') : free'[i] = a
  <2> SUFFICES ASSUME NEW a \in Usable
               PROVE  reverse'[a] = {} <=> \E i \in 1..Len(free') : free'[i] = a
    OBVIOUS
  <2>1. CASE a = addr
    BY <2>1, <1>2, <1>4, <1>5 DEF LeaseInv, AllocTypeOK
  <2>2. CASE a # addr
    <3>1. reverse'[a] = reverse[a]
      BY <2>2, <1>2, <1>4 DEF LeaseInv, AllocTypeOK
    <3>2. reverse[a] = {} <=> \E i \in 1..n : free[i] = a
      BY Parts DEF LeaseInv
    <3> QED BY <3>1, <3>2, <2>2, <1>2, <1>5
  <2> QED BY <2>1, <2>2
<1>9. \A i, j \in 1..Len(free') : free'[i] = free'[j] => i = j
  <2>1. \A i, j \in 1..n : free[i] = free[j] => i = j
    BY Parts DEF LeaseInv
  <2> QED BY <2>1, <1>2, <1>3, <1>5
<1> QED BY <1>6, <1>7, <1>8, <1>9 DEF LeaseInv, LeasesPartition

(* Every operation of the allocator keeps the invariant. *)
LEMMA NextLeaseInv == LeaseInv /\ [AllocNext]_allocVars => LeaseInv'
<1> SUFFICES ASSUME LeaseInv, [AllocNext]_allocVars PROVE LeaseInv'
  OBVIOUS
<1>1. ASSUME UNCHANGED allocVars PROVE LeaseInv'
  BY <1>1 DEF LeaseInv, AllocTypeOK, LeasesPartition, allocVars
<1>2. ASSUME NEW id \in LeaseIds, AllocateAgain(id) \/ AllocateExhausted(id)
      PROVE  LeaseInv'
  BY <1>1, <1>2 DEF AllocateAgain, AllocateExhausted
<1>3. ASSUME NEW id \in LeaseIds, AllocateFresh(id) PROVE LeaseInv'
  BY <1>3, FreshLeaseInv
<1>4. ASSUME NEW id \in LeaseIds, Release(id) PROVE LeaseInv'
  BY <1>4, ReleaseLeaseInv
<1> QED BY <1>1, <1>2, <1>3, <1>4 DEF AllocNext

(* NewAllocator, Allocate and Release keep the lease maps and the stack of
   free addresses well typed: only usable addresses are ever leased. *)
THEOREM AllocTypeCorrect == AllocSpec => []AllocTypeOK
<1>1. LeaseInv => AllocTypeOK
  BY DEF LeaseInv
<1> QED BY InitLeaseInv, NextLeaseInv, <1>1, PTL DEF AllocSpec

(* No sequence of Allocate and Release leases an address twice or loses one:
   LeasesPartition, for every pool. *)
THEOREM LeasesAlwaysPartition == AllocSpec => []LeasesPartition
<1>1. LeaseInv => LeasesPartition
  BY DEF LeaseInv
<1> QED BY InitLeaseInv, NextLeaseInv, <1>1, PTL DEF AllocSpec

(* A session that asks again keeps its address: LeaseSticks, for every
   pool. *)
THEOREM LeaseAlwaysSticks == AllocSpec => LeaseSticks
<1>1. LeaseInv /\ [AllocNext]_allocVars =>
        [\A id \in LeaseIds : forward[id] # 0 =>
           forward'[id] \in {forward[id], 0}]_allocVars
  BY DEF LeaseInv, AllocTypeOK, AllocNext, AllocateAgain, AllocateFresh,
         AllocateExhausted, Release, allocVars
<1> QED BY InitLeaseInv, NextLeaseInv, <1>1, PTL DEF AllocSpec, LeaseSticks

-----------------------------------------------------------------------------
\* The calls of Serve and of ServeReturn into the data plane.
SW == worker["serve"]
RW == worker["return"]

ObjectType == [id : SessionIds, key : Keys, next : Nat, seen : SUBSET Numbers]
CallType == [pc : {"idle", "admit", "lease", "lookup", "resolve", "create", "inbound",
                   "outbound"},
             id : SessionIds \cup {0}, key : 0..MaxKeys \cup {Corrupt}, number : Nat,
             obj : Nat]
ServeType == [pc : {"read", "data", "record", "egress", "returned"},
              from : Endpoints \cup {"none"}, id : SessionIds \cup {0},
              key : 0..MaxKeys \cup {Corrupt}, number : Nat, first : BOOLEAN]
RetType == [pc : {"next", "read", "frame", "fresh", "send", "returned"}, dst : Addresses,
            id : SessionIds \cup {0}, key : 0..MaxKeys, targets : SUBSET Endpoints]

\* The types of everything but leases and endpoints.
TableInv ==
  /\ keys \in [SessionIds -> 0..MaxKeys]
  /\ objects \in Seq(ObjectType)
  /\ sessions \in [SessionIds -> 0..Len(objects)]
  /\ minted \in 0..MaxKeys
  /\ worker \in [Workers -> CallType]
  /\ answered \subseteq SessionIds \X Keys
  /\ serve \in ServeType /\ ret \in RetType
  /\ wrote \in [Keys \X Numbers -> Nat]
  /\ auth \in [SessionIds -> SUBSET Endpoints]

\* Only a client of the gateway has a lease, and a held address names its
\* holder.
AllocInv ==
  /\ LeaseInv
  /\ \A a \in Addresses : \A i \in reverse[a] : a # 0 /\ forward[i] = a
  /\ \A i \in LeaseIds \ SessionIds : forward[i] = 0

\* Some replay window of this key has seen the number.
Kept(key, number) ==
  \E j \in 1..Len(objects) : objects[j].key = key /\ number \in objects[j].seen

\* Serve: where its call can be while it is where it is, and what is known of
\* the datagram in its hands; past the replay window it is an answered
\* client's.
Serving ==
  /\ SW.pc \in {"idle", "admit", "lease", "lookup", "resolve", "create", "inbound"}
  /\ SW.pc # "idle" => SW.id \in SessionIds
  /\ SW.pc \in {"admit", "lease"} => serve.pc = "read" /\ SW.key \in Keys
  /\ SW.pc \in {"lookup", "resolve", "create", "inbound"} =>
       /\ serve.pc = "data" /\ SW.id = serve.id
       /\ SW.key = serve.key /\ SW.number = serve.number
  /\ serve.pc \in {"data", "record", "egress"} =>
       /\ serve.id \in SessionIds /\ serve.key # 0
       /\ serve.key \in Keys =>
            /\ <<serve.id, serve.key>> \in answered
            /\ serve.number \in Numbers /\ serve.from \in Uplinks[serve.id]
  /\ serve.pc \in {"record", "egress"} =>
       /\ serve.key \in Keys /\ serve.from \in auth[serve.id]
       /\ Kept(serve.key, serve.number)
  /\ serve.pc = "egress" => serve.first

\* ServeReturn: its call is for the owner of the address (or outlives the loop,
\* when Serve ended the process), its targets are endpoints that opened.
Returning ==
  /\ RW.pc \in {"idle", "lookup", "resolve", "create", "outbound"}
  /\ RW.pc # "idle" =>
       /\ RW.id \in SessionIds /\ forward[RW.id] # 0 /\ RW.key = 0
       /\ ret.pc = "returned" \/ (ret.pc = "frame" /\ RW.id = ret.id)
  /\ ret.pc \in {"frame", "fresh", "send"} =>
       ret.id \in SessionIds /\ ret.dst # 0 /\ forward[ret.id] = ret.dst
  /\ ret.pc \in {"fresh", "send"} => keys[ret.id] = ret.key
  /\ ret.targets # {} => ret.pc = "send" /\ ret.targets \subseteq auth[ret.id]

\* A key is a lease, but for the one handshake between the two; no two
\* sessions share a key; an answer is not taken back.
Leased ==
  /\ SW.pc = "admit" => SW.key <= minted /\ \A i \in SessionIds : keys[i] # SW.key
  /\ SW.pc = "lease" => keys[SW.id] = SW.key /\ forward[SW.id] = 0
  /\ \A i \in SessionIds :
       /\ keys[i] <= minted
       /\ keys[i] # 0 <=> forward[i] # 0 \/ (SW.pc = "lease" /\ i = SW.id)
  /\ \A i, j \in SessionIds : keys[i] = keys[j] /\ keys[i] # 0 => i = j
  /\ \A a \in answered : keys[a[1]] = a[2] /\ forward[a[1]] # 0

\* What the call c of w may rely on: the mutex while it fills the cache, then
\* the session it found.
Filled(w, c) ==
  /\ c.pc \in {"resolve", "create"} => dmu = {w} /\ sessions[c.id] = 0
  /\ c.pc = "create" => c.obj = keys[c.id] /\ c.obj \in Keys /\ forward[c.id] # 0
  /\ c.pc \in {"inbound", "outbound"} =>
       c.obj \in 1..Len(objects) /\ objects[c.obj].id = c.id

\* The cache: every session object is the one cached for its id, and holds the
\* key registered for it.
Cached ==
  /\ \A j \in 1..Len(objects) :
       /\ sessions[objects[j].id] = j
       /\ objects[j].key = keys[objects[j].id] /\ forward[objects[j].id] # 0
  /\ \A i \in SessionIds : sessions[i] # 0 => objects[sessions[i]].id = i
  /\ \A w \in Workers : Filled(w, worker[w])

\* The path set holds the last time of every endpoint recorded, save those that
\* were dropped for age; all are endpoints that opened, and of the client.
PathInv ==
  /\ clock \in Nat /\ DOMAIN paths = SessionIds
  /\ recorded \in [SessionIds -> [Endpoints -> Int]]
  /\ \A i \in SessionIds :
       /\ DOMAIN paths[i] \subseteq auth[i] /\ auth[i] \subseteq Uplinks[i]
       /\ \A e \in DOMAIN paths[i] :
            paths[i][e] = recorded[i][e] /\ recorded[i][e] \in 0..clock
       /\ \A e \in Endpoints \ DOMAIN paths[i] :
            recorded[i][e] = -1 \/ recorded[i][e] <= clock - TTL

\* What was written is in a replay window, and is not about to be written.
Written ==
  \A k \in Keys, n \in Numbers : wrote[<<k, n>>] # 0 =>
    /\ Kept(k, n)
    /\ ~(serve.pc \in {"record", "egress"} /\ serve.first
         /\ serve.key = k /\ serve.number = n)

\* The gateway's inductive invariant.
GatewayInv == /\ TableInv /\ AllocInv /\ Serving /\ Returning
              /\ Leased /\ Cached /\ PathInv /\ Written

(* Before anything is admitted. *)
LEMMA InitGatewayInv == GatewayInit => GatewayInv
<1> SUFFICES ASSUME GatewayInit PROVE GatewayInv
  OBVIOUS
<1>1. /\ SW = Idle /\ RW = Idle /\ serve = Reading /\ ret = Waiting
      /\ Workers = {"serve", "return"} /\ objects = <<>> /\ answered = {}
      /\ \A i \in SessionIds : keys[i] = 0 /\ sessions[i] = 0
      /\ forward = [i \in LeaseIds |-> 0]
  BY TwoLoops DEF GatewayInit, Init, AllocInit, SW, RW
<1>2. TableInv
  <2>1. Idle \in CallType
    BY BoundAssumption DEF Idle, CallType
  <2>2. Reading \in ServeType
    BY BoundAssumption DEF Reading, ServeType
  <2>3. Waiting \in RetType
    BY BoundAssumption, SizeAssumption DEF Waiting, RetType, Addresses
  <2>4. objects \in Seq(ObjectType) /\ Len(objects) = 0
    BY <1>1
  <2>5. /\ keys \in [SessionIds -> 0..MaxKeys] /\ sessions \in [SessionIds -> 0..0]
        /\ minted \in 0..MaxKeys
    BY BoundAssumption DEF GatewayInit, Init
  <2>6. worker \in [Workers -> CallType]
    BY <2>1 DEF GatewayInit, Init
  <2>7. wrote \in [Keys \X Numbers -> Nat] /\ auth \in [SessionIds -> SUBSET Endpoints]
    BY DEF GatewayInit
  <2> QED
    BY <1>1, <2>2, <2>3, <2>4, <2>5, <2>6, <2>7 DEF TableInv
<1>3. AllocInv
  <2>1. LeaseInv
    BY InitLeaseInv DEF GatewayInit
  <2>2. \A a \in Addresses : reverse[a] = {}
    BY Zenon DEF GatewayInit, AllocInit
  <2> QED
    BY <1>1, <2>1, <2>2 DEF AllocInv
<1>4. Serving /\ Returning
  BY <1>1 DEF Serving, Returning, Idle, Reading, Waiting
<1>5. Leased
  <2>1. \A i \in SessionIds : forward[i] = 0
    BY <1>1, SameSessions
  <2>2. minted = 0
    BY Zenon DEF GatewayInit, Init
  <2> QED
    BY <1>1, <2>1, <2>2 DEF Leased, Idle
<1>6. Cached
  BY <1>1 DEF Cached, Filled, Idle, SW, RW
<1>7. PathInv
  <2>1. /\ clock = 0 /\ paths = [i \in SessionIds |-> <<>>]
        /\ recorded = [i \in SessionIds |-> [e \in Endpoints |-> -1]]
        /\ auth = [i \in SessionIds |-> {}]
    BY SameSessions DEF GatewayInit, PathInit
  <2>2. \A i \in SessionIds : DOMAIN paths[i] = {}
    BY <2>1
  <2> QED
    BY <2>1, <2>2, ClientsAssumption DEF PathInv
<1>8. Written
  BY DEF GatewayInit, Written
<1> QED
  BY <1>2, <1>3, <1>4, <1>5, <1>6, <1>7, <1>8 DEF GatewayInv

-----------------------------------------------------------------------------
\* Nothing here takes a lease, a key, an answer, an endpoint or a number seen
\* back.
Grows ==
  /\ \A i \in SessionIds : forward[i] # 0 => forward'[i] = forward[i] /\ keys'[i] = keys[i]
  /\ answered \subseteq answered'
  /\ \A i \in SessionIds : auth[i] \subseteq auth'[i]
  /\ \A k, n : Kept(k, n) => Kept(k, n)'

(* The session objects, one by one. *)
LEMMA ObjectFacts ==
  ASSUME TableInv
  PROVE  /\ Len(objects) \in Nat
         /\ \A j \in 1..Len(objects) :
              /\ objects[j] \in ObjectType /\ objects[j].id \in SessionIds
              /\ objects[j].key \in Keys /\ objects[j].seen \in SUBSET Numbers
<1>1. objects \in Seq(ObjectType)
  BY DEF TableInv
<1>2. Len(objects) \in Nat /\ \A j \in 1..Len(objects) : objects[j] \in ObjectType
  BY <1>1
<1> QED
  BY <1>2 DEF ObjectType

(* The cache refers to session objects. *)
LEMMA CachedIndex ==
  ASSUME TableInv, NEW i \in SessionIds
  PROVE  /\ sessions[i] \in 0..Len(objects) /\ sessions[i] \in Nat
         /\ sessions[i] # 0 => sessions[i] \in 1..Len(objects)
<1>1. Len(objects) \in Nat
  BY ObjectFacts
<1>2. sessions[i] \in 0..Len(objects)
  BY Zenon DEF TableInv
<1> QED
  BY <1>1, <1>2

(* What such a step leaves alone stays as it was: Serve, ... *)
LEMMA ServingQuiet ==
  ASSUME GatewayInv, Grows, serve' = serve, SW' = SW PROVE Serving'
<1>1. serve.pc \in {"data", "record", "egress"} => serve.id \in SessionIds
  BY Zenon DEF GatewayInv, Serving
<1>2. serve.pc \in {"record", "egress"} =>
        serve'.from \in auth'[serve'.id] /\ Kept(serve.key, serve.number)'
  BY <1>1, Zenon DEF GatewayInv, Serving, Grows
<1> QED
  BY <1>2, Zenon DEF GatewayInv, Serving, Grows

(* ... ServeReturn, ... *)
LEMMA ReturningQuiet ==
  ASSUME GatewayInv, Grows, ret' = ret, RW' = RW PROVE Returning'
<1>1. ret.targets # {} => ret.pc = "send" /\ ret'.targets \subseteq auth'[ret'.id]
  BY Zenon DEF GatewayInv, Returning, Grows
<1> QED
  BY <1>1 DEF GatewayInv, Returning, Grows

(* ... what was written, ... *)
LEMMA WrittenQuiet ==
  ASSUME GatewayInv, Grows, wrote' = wrote,
         serve' = serve \/ serve'.pc \notin {"record", "egress"}
  PROVE  Written'
  BY DEF GatewayInv, Written, Grows

(* ... the leases, ... *)
LEMMA LeasedQuiet ==
  ASSUME GatewayInv, UNCHANGED <<keys, forward, minted, answered>>,
         SW' = SW \/ {SW.pc, SW'.pc} \cap {"admit", "lease"} = {}
  PROVE  Leased'
  BY Zenon DEF GatewayInv, Leased

(* ... the pool, ... *)
LEMMA AllocQuiet == ASSUME GatewayInv, UNCHANGED allocVars PROVE AllocInv'
  BY Zenon DEF GatewayInv, AllocInv, LeaseInv, AllocTypeOK, LeasesPartition, allocVars

(* ... the endpoints, ... *)
LEMMA PathQuiet ==
  ASSUME GatewayInv, UNCHANGED <<pathVars, clock, auth>> PROVE PathInv'
  BY Zenon DEF GatewayInv, PathInv, pathVars

(* ... and the cache, while calls do not look into it. *)
LEMMA CachedQuiet ==
  ASSUME GatewayInv, Grows, UNCHANGED <<sessions, objects, dmu>>,
         \A w \in Workers : \/ worker'[w] = worker[w]
                            \/ worker'[w].pc \in {"idle", "admit", "lease", "lookup"}
  PROVE  Cached'
<1>1. \A w \in Workers : worker[w].pc # "idle" => worker[w].id \in SessionIds
  BY TwoLoops, Zenon DEF GatewayInv, Serving, Returning, SW, RW
<1>2. \A j \in 1..Len(objects) : objects[j].id \in SessionIds
  BY ObjectFacts DEF GatewayInv
<1>3. ASSUME NEW w \in Workers PROVE Filled(w, worker[w])'
  <2>1. CASE worker'[w] = worker[w]
    <3>1. Filled(w, worker[w])
      BY Zenon DEF GatewayInv, Cached
    <3> QED
      BY <1>1, <2>1, <3>1, ZenonT(30) DEF Filled, Grows
  <2>2. CASE worker'[w].pc \in {"idle", "admit", "lease", "lookup"}
    BY <2>2, Zenon DEF Filled
  <2> QED
    BY <2>1, <2>2, Zenon
<1>4. \A j \in 1..Len(objects) :
        /\ sessions[objects[j].id] = j
        /\ objects[j].key = keys'[objects[j].id] /\ forward'[objects[j].id] # 0
  BY <1>2, Zenon DEF GatewayInv, Cached, Grows
<1> QED
  BY <1>3, <1>4, Zenon DEF GatewayInv, Cached

(* A step that leaves table and endpoints alone takes nothing back. *)
LEMMA GrowsQuiet ==
  ASSUME UNCHANGED <<keys, forward, answered, auth, objects>> PROVE Grows
  BY DEF Grows, Kept

(* The keys that are not 0. *)
LEMMA KeyRange == \A k \in 0..MaxKeys : k # 0 => k \in Keys
BY BoundAssumption DEF Keys

(* One loop's call moves; the other's stays. *)
LEMMA CallMoves ==
  ASSUME TableInv, NEW w \in Workers, NEW c \in CallType, worker' = [worker EXCEPT ![w] = c]
  PROVE  /\ worker' \in [Workers -> CallType] /\ worker'[w] = c
         /\ \A v \in Workers \ {w} : worker'[v] = worker[v]
  BY DEF TableInv

(* Idle is a call like any other. *)
LEMMA IdleFacts == Idle \in CallType /\ Idle.pc = "idle"
  BY BoundAssumption DEF Idle, CallType

-----------------------------------------------------------------------------
\* A step of Serve's handshake: only the table and the pool may change.
HelloStep ==
  /\ UNCHANGED <<sessions, objects, dmu, pathVars, clock, loops, auth, wrote>>
  /\ RW' = RW /\ worker' \in [Workers -> CallType]
  /\ serve.pc = "read"
  /\ SW'.pc \in {"idle", "admit", "lease"}
  /\ SW'.pc # "idle" => SW'.id \in SessionIds /\ SW'.key \in Keys
  /\ answered' \subseteq SessionIds \X Keys
  /\ keys' \in [SessionIds -> 0..MaxKeys] /\ minted' \in 0..MaxKeys

(* What is left to show of such a step is what it does to the leases. *)
LEMMA HelloKeeps ==
  ASSUME GatewayInv, HelloStep, Grows, Leased', AllocInv' PROVE GatewayInv'
<1>1. TableInv'
  BY Zenon DEF GatewayInv, TableInv, HelloStep, loops
<1>2. Serving'
  BY Zenon DEF GatewayInv, Serving, HelloStep, loops
<1>3. Returning'
  <2>1. ret' = ret /\ RW' = RW
    BY Zenon DEF HelloStep, loops
  <2> QED
    BY <2>1, ReturningQuiet, Zenon
<1>4. Cached'
  <2>1. \A w \in Workers : \/ worker'[w] = worker[w]
                           \/ worker'[w].pc \in {"idle", "admit", "lease", "lookup"}
    BY TwoLoops, Zenon DEF HelloStep, SW, RW
  <2> QED
    BY <2>1, CachedQuiet, Zenon DEF HelloStep
<1>5. PathInv'
  BY PathQuiet, Zenon DEF HelloStep
<1>6. Written'
  BY WrittenQuiet, Zenon DEF HelloStep, loops
<1> QED
  BY <1>1, <1>2, <1>3, <1>4, <1>5, <1>6, Zenon DEF GatewayInv

(* A hello derives a key nobody has. *)
LEMMA ServeHelloInv == ASSUME GatewayInv, NEW id \in SessionIds, ServeHello(id)
                       PROVE  GatewayInv'
<1>1. PICK c : c = [Idle EXCEPT !.pc = "admit", !.id = id, !.key = minted']
  BY Zenon
<1>2. /\ worker' = [worker EXCEPT !["serve"] = c] /\ minted' = minted + 1
      /\ minted < MaxKeys /\ serve.pc = "read"
      /\ UNCHANGED <<keys, sessions, objects, dmu, answered>>
      /\ UNCHANGED <<allocVars, pathVars, clock, loops, auth, wrote>>
  BY <1>1, Zenon DEF ServeHello, AtRead, DeriveKey, tableVars, history
<1>3. minted \in 0..MaxKeys /\ minted' \in 0..MaxKeys /\ minted' \in Keys
  BY <1>2, BoundAssumption DEF GatewayInv, TableInv, Keys
<1>4. c \in CallType /\ c.pc = "admit" /\ c.id = id /\ c.key = minted'
  BY <1>1, <1>3, BoundAssumption, Zenon DEF CallType, Idle
<1>5. /\ worker' \in [Workers -> CallType] /\ SW' = c /\ RW' = RW
  BY <1>2, <1>4, CallMoves, TwoLoops, Zenon DEF GatewayInv, SW, RW
<1>6. Grows
  BY <1>2, GrowsQuiet, Zenon DEF allocVars
<1>7. Leased'
  <2>1. \A i \in SessionIds : keys[i] \in Nat /\ keys[i] <= minted
    BY DEF GatewayInv, Leased, TableInv
  <2>2. \A i \in SessionIds : keys'[i] <= minted' /\ keys'[i] # minted'
    BY <1>2, <1>3, <2>1
  <2>3. SW.pc # "lease"
    BY Zenon DEF ServeHello, AtRead, SW
  <2> QED
    BY <1>2, <1>3, <1>4, <1>5, <2>2, <2>3 DEF GatewayInv, Leased, allocVars
<1>8. HelloStep
  BY <1>2, <1>3, <1>4, <1>5, Zenon DEF GatewayInv, TableInv, HelloStep
<1> QED
  BY <1>2, <1>6, <1>7, <1>8, AllocQuiet, HelloKeeps

(* register: the identity had no key, so it has no lease either. *)
LEMMA ServeRegisterInv == ASSUME GatewayInv, ServeRegister PROVE GatewayInv'
<1>1. PICK c \in CallType : c = SW
  BY TwoLoops DEF GatewayInv, TableInv, SW
<1>2. /\ c.pc = "admit" /\ c.id \in SessionIds /\ c.key \in Keys /\ serve.pc = "read"
      /\ c.key <= minted /\ \A i \in SessionIds : keys[i] # c.key
  BY <1>1 DEF ServeRegister, register, GatewayInv, Serving, Leased, SW
<1>3. /\ UNCHANGED <<sessions, objects, dmu, minted, answered>>
      /\ UNCHANGED <<allocVars, pathVars, clock, loops, auth, wrote>>
  BY DEF ServeRegister, register, history
<1>4. /\ keys \in [SessionIds -> 0..MaxKeys] /\ minted \in 0..MaxKeys
      /\ answered \subseteq SessionIds \X Keys
  BY DEF GatewayInv, TableInv
<1>5. CASE keys[c.id] # 0
  <2>1. worker' = [worker EXCEPT !["serve"] = Idle] /\ UNCHANGED keys
    BY <1>1, <1>5 DEF ServeRegister, register, SW
  <2>2. worker' \in [Workers -> CallType] /\ SW' = Idle /\ RW' = RW
    BY <2>1, IdleFacts, CallMoves, TwoLoops, Zenon DEF GatewayInv, SW, RW
  <2>3. Grows
    BY <1>3, <2>1, GrowsQuiet, Zenon DEF allocVars
  <2>4. Leased'
    BY <1>1, <1>2, <1>3, <2>1, <2>2, IdleFacts, Zenon DEF GatewayInv, Leased, allocVars
  <2>5. HelloStep
    BY <1>2, <1>3, <1>4, <2>1, <2>2, IdleFacts, Zenon DEF HelloStep
  <2> QED
    BY <1>3, <2>3, <2>4, <2>5, AllocQuiet, HelloKeeps
<1>6. CASE keys[c.id] = 0
  <2>1. PICK d : d = [c EXCEPT !.pc = "lease"]
    BY Zenon
  <2>2. d \in CallType /\ d.pc = "lease" /\ d.id = c.id /\ d.key = c.key
    BY <2>1 DEF CallType
  <2>3. /\ worker' = [worker EXCEPT !["serve"] = d]
        /\ keys' = [keys EXCEPT ![c.id] = c.key]
    BY <1>1, <1>6, <2>1 DEF ServeRegister, register, SW
  <2>4. worker' \in [Workers -> CallType] /\ SW' = d /\ RW' = RW
    BY <2>2, <2>3, CallMoves, TwoLoops, Zenon DEF GatewayInv, SW, RW
  <2>5. /\ keys' \in [SessionIds -> 0..MaxKeys] /\ keys'[c.id] = c.key
        /\ \A i \in SessionIds \ {c.id} : keys'[i] = keys[i]
    BY <1>2, <1>4, <2>3 DEF Keys
  <2>6. forward[c.id] = 0 /\ c.key # 0
    BY <1>1, <1>2, <1>6, Zenon DEF GatewayInv, Leased, Keys
  <2>7. Grows
    BY <1>3, <2>5, <2>6, Zenon DEF Grows, Kept, allocVars
  <2>8. Leased'
    <3>1. \A i \in SessionIds : /\ keys'[i] <= minted'
                                /\ keys'[i] # 0 <=> forward'[i] # 0 \/ i = c.id
      BY <1>1, <1>2, <1>3, <2>5, <2>6 DEF GatewayInv, Leased, allocVars
    <3>2. \A i, j \in SessionIds : keys'[i] = keys'[j] /\ keys'[i] # 0 => i = j
      BY <1>2, <2>5 DEF GatewayInv, Leased
    <3>3. \A a \in answered' : keys'[a[1]] = a[2] /\ forward'[a[1]] # 0
      <4>1. \A a \in answered : a[1] \in SessionIds /\ a[1] # c.id
        BY <1>4, <2>6, Zenon DEF GatewayInv, Leased
      <4> QED
        BY <1>3, <2>5, <4>1, Zenon DEF GatewayInv, Leased, allocVars
    <3> QED
      BY <1>3, <2>2, <2>4, <2>5, <2>6, <3>1, <3>2, <3>3, ZenonT(30) DEF Leased, allocVars
  <2>9. HelloStep
    BY <1>2, <1>3, <1>4, <2>2, <2>4, <2>5, Zenon DEF HelloStep
  <2> QED
    BY <1>3, <2>7, <2>8, <2>9, AllocQuiet, HelloKeeps
<1> QED
  BY <1>5, <1>6

(* Between the registration and its end the identity has a key and no lease. *)
LEMMA LeasingFacts ==
  ASSUME GatewayInv, SW.pc = "lease"
  PROVE  /\ SW \in CallType /\ SW.id \in SessionIds /\ SW.id \in LeaseIds
         /\ SW.key \in Keys /\ serve.pc = "read"
         /\ keys[SW.id] = SW.key /\ forward[SW.id] = 0
  BY TwoLoops, SameSessions, Zenon DEF GatewayInv, TableInv, Serving, Leased, SW

(* The pool gives the leased session an address of its own. *)
LEMMA FreshAllocInv ==
  ASSUME GatewayInv, NEW id \in SessionIds, AllocateFresh(id)
  PROVE  /\ AllocInv' /\ forward'[id] # 0
         /\ \A i \in LeaseIds \ {id} : forward'[i] = forward[i]
<1>1. LeaseInv /\ id \in LeaseIds
  BY SameSessions DEF GatewayInv, AllocInv
<1>2. LeaseInv'
  BY <1>1, FreshLeaseInv
<1>3. /\ forward \in [LeaseIds -> Usable \cup {0}] /\ free \in Seq(Usable)
      /\ reverse \in [Addresses -> SUBSET LeaseIds]
  BY <1>1 DEF LeaseInv, AllocTypeOK
<1>4. PICK addr : addr = free[Len(free)]
  BY Zenon
<1>5. addr \in Usable
  BY <1>3, <1>4 DEF AllocateFresh
<1>6. addr # 0 /\ addr \in Addresses
  BY <1>5, SizeAssumption DEF Usable, Addresses
<1>7. /\ forward' = [forward EXCEPT ![id] = addr]
      /\ reverse' = [reverse EXCEPT ![addr] = {id}]
      /\ forward[id] = 0
  BY <1>4 DEF AllocateFresh
<1>8. /\ forward'[id] = addr /\ \A i \in LeaseIds \ {id} : forward'[i] = forward[i]
  BY <1>1, <1>3, <1>7, Zenon
<1>9. /\ reverse'[addr] = {id} /\ \A a \in Addresses \ {addr} : reverse'[a] = reverse[a]
  BY <1>3, <1>6, <1>7
<1>10. \A a \in Addresses : \A i \in reverse[a] : a # 0 /\ forward[i] = a /\ i \in LeaseIds
  BY <1>3, Zenon DEF GatewayInv, AllocInv
<1>11. \A a \in Addresses : \A i \in reverse'[a] : a # 0 /\ forward'[i] = a
  BY <1>6, <1>7, <1>8, <1>9, <1>10
<1>12. \A i \in LeaseIds \ SessionIds : forward'[i] = 0
  BY <1>8, Zenon DEF GatewayInv, AllocInv
<1> QED
  BY <1>2, <1>6, <1>8, <1>11, <1>12, Zenon DEF AllocInv

(* The ServerHello is returned once there is a lease. *)
LEMMA ServeLeaseInv == ASSUME GatewayInv, ServeLease PROVE GatewayInv'
<1>1. PICK c \in CallType : c = SW
  BY TwoLoops DEF GatewayInv, TableInv, SW
<1>2. SW.pc = "lease"
  BY DEF ServeLease, Answer, SW
<1>3. /\ c.id \in SessionIds /\ c.id \in LeaseIds /\ c.key \in Keys /\ serve.pc = "read"
      /\ keys[c.id] = c.key /\ forward[c.id] = 0
  BY <1>1, <1>2, LeasingFacts, Zenon
<1>4. /\ UNCHANGED <<keys, sessions, objects, dmu, minted>>
      /\ UNCHANGED <<pathVars, clock, loops, auth, wrote>>
      /\ worker' = [worker EXCEPT !["serve"] = Idle]
      /\ answered' = answered \cup {<<c.id, c.key>>}
  BY <1>1, Zenon DEF ServeLease, Answer, tableVars, SW
<1>5. AllocateFresh(c.id)
  BY <1>1, <1>3, Zenon DEF ServeLease, AllocateAgain, SW
<1>6. /\ AllocInv' /\ forward'[c.id] # 0
      /\ \A i \in LeaseIds \ {c.id} : forward'[i] = forward[i]
  BY <1>3, <1>5, FreshAllocInv, Zenon
<1>7. \A i \in SessionIds : i # c.id => forward'[i] = forward[i]
  BY <1>6, SameSessions
<1>8. worker' \in [Workers -> CallType] /\ SW' = Idle /\ RW' = RW
  BY <1>4, IdleFacts, CallMoves, TwoLoops, Zenon DEF GatewayInv, SW, RW
<1>9. Grows
  BY <1>3, <1>4, <1>7, Zenon DEF Grows, Kept
<1>10. Leased'
  <2>1. \A i \in SessionIds : keys'[i] <= minted' /\ (keys'[i] # 0 <=> forward'[i] # 0)
    <3>1. c.key # 0
      BY <1>3 DEF Keys
    <3> QED
      BY <1>1, <1>2, <1>3, <1>4, <1>6, <1>7, <3>1, ZenonT(30) DEF GatewayInv, Leased
  <2>2. \A i, j \in SessionIds : keys'[i] = keys'[j] /\ keys'[i] # 0 => i = j
    BY <1>4, Zenon DEF GatewayInv, Leased
  <2>3. \A a \in answered : keys'[a[1]] = a[2] /\ forward'[a[1]] # 0
    <3>1. \A a \in answered : a[1] \in SessionIds
      BY Zenon DEF GatewayInv, TableInv
    <3> QED
      BY <1>3, <1>4, <1>7, <3>1 DEF GatewayInv, Leased
  <2>4. \A a \in answered' : keys'[a[1]] = a[2] /\ forward'[a[1]] # 0
    BY <1>3, <1>4, <1>6, <2>3
  <2> QED
    BY <1>8, <2>1, <2>2, <2>4, IdleFacts, Zenon DEF Leased
<1>11. HelloStep
  <2>1. answered' \subseteq SessionIds \X Keys
    BY <1>3, <1>4 DEF GatewayInv, TableInv
  <2> QED
    BY <1>3, <1>4, <1>8, <2>1, IdleFacts, Zenon DEF HelloStep, GatewayInv, TableInv
<1> QED
  BY <1>6, <1>9, <1>10, <1>11, HelloKeeps

(* With the pool exhausted the key is taken back, before anyone was told. *)
LEMMA ServeLeaseFailsInv == ASSUME GatewayInv, ServeLeaseFails PROVE GatewayInv'
<1>1. PICK c \in CallType : c = SW
  BY TwoLoops DEF GatewayInv, TableInv, SW
<1>2. SW.pc = "lease"
  BY Zenon DEF ServeLeaseFails, Unwind, SW
<1>3. /\ c.id \in SessionIds /\ c.key \in Keys /\ serve.pc = "read"
      /\ keys[c.id] = c.key /\ forward[c.id] = 0
  BY <1>1, <1>2, LeasingFacts, Zenon
<1>4. /\ UNCHANGED <<sessions, objects, dmu, minted, answered, allocVars>>
      /\ UNCHANGED <<pathVars, clock, loops, auth, wrote>>
      /\ worker' = [worker EXCEPT !["serve"] = Idle]
      /\ keys' = [keys EXCEPT ![c.id] = 0]
  BY <1>1, Zenon DEF ServeLeaseFails, Unwind, AllocateExhausted, history, SW
<1>5. /\ keys' \in [SessionIds -> 0..MaxKeys] /\ keys'[c.id] = 0
      /\ \A i \in SessionIds \ {c.id} : keys'[i] = keys[i]
  BY <1>3, <1>4, BoundAssumption DEF GatewayInv, TableInv
<1>6. worker' \in [Workers -> CallType] /\ SW' = Idle /\ RW' = RW
  BY <1>4, IdleFacts, CallMoves, TwoLoops, Zenon DEF GatewayInv, SW, RW
<1>7. Grows
  BY <1>3, <1>4, <1>5, Zenon DEF Grows, Kept, allocVars
<1>8. Leased'
  <2>1. minted \in Nat
    BY DEF GatewayInv, TableInv
  <2>2. \A i \in SessionIds : keys'[i] <= minted' /\ (keys'[i] # 0 <=> forward'[i] # 0)
    BY <1>1, <1>3, <1>4, <1>5, <2>1 DEF GatewayInv, Leased, allocVars
  <2>3. \A i, j \in SessionIds : keys'[i] = keys'[j] /\ keys'[i] # 0 => i = j
    BY <1>5 DEF GatewayInv, Leased
  <2>4. \A a \in answered' : keys'[a[1]] = a[2] /\ forward'[a[1]] # 0
    <3>1. \A a \in answered : a[1] \in SessionIds /\ a[1] # c.id
      BY <1>3, Zenon DEF GatewayInv, TableInv, Leased
    <3> QED
      BY <1>4, <1>5, <3>1, Zenon DEF GatewayInv, Leased, allocVars
  <2> QED
    BY <1>6, <2>2, <2>3, <2>4, IdleFacts, Zenon DEF Leased
<1>9. HelloStep
  BY <1>3, <1>4, <1>5, <1>6, IdleFacts, Zenon DEF HelloStep, GatewayInv, TableInv
<1> QED
  BY <1>4, <1>7, <1>8, <1>9, AllocQuiet, HelloKeeps, Zenon

-----------------------------------------------------------------------------
\* Neither the leases nor the endpoints change.
CallStep ==
  /\ UNCHANGED <<keys, minted, answered, allocVars, pathVars, clock, auth, wrote>>
  /\ worker' \in [Workers -> CallType]

(* Then the pool and the endpoints are as they were, and so are the leases if
   Serve is not in a handshake, or does not move. *)
LEMMA CallKeeps ==
  ASSUME GatewayInv, CallStep, SW' = SW \/ {SW.pc, SW'.pc} \cap {"admit", "lease"} = {}
  PROVE  Leased' /\ AllocInv' /\ PathInv'
<1>1. Leased'
  BY LeasedQuiet, Zenon DEF CallStep, allocVars
<1>2. AllocInv'
  BY AllocQuiet, Zenon DEF CallStep
<1>3. PathInv'
  BY PathQuiet, Zenon DEF CallStep
<1> QED
  BY <1>1, <1>2, <1>3, Zenon

(* handleData: what a datagram names. *)
LEMMA ServeDataInv ==
  ASSUME GatewayInv, NEW id \in SessionIds, NEW key \in Keys \cup {Corrupt},
         NEW number \in Nat, NEW from \in Endpoints, ServeData(id, key, number, from),
         key \in Keys => /\ <<id, key>> \in answered /\ number \in Numbers
                         /\ from \in Uplinks[id]
  PROVE  GatewayInv'
<1>1. PICK c, s : /\ c = [Idle EXCEPT !.pc = "lookup", !.id = id, !.key = key,
                                      !.number = number]
                  /\ s = [Reading EXCEPT !.pc = "data", !.from = from, !.id = id,
                                         !.key = key, !.number = number]
  BY Zenon
<1>2. /\ worker' = [worker EXCEPT !["serve"] = c] /\ serve' = s
      /\ UNCHANGED <<keys, sessions, objects, minted, dmu, answered>>
      /\ UNCHANGED <<allocVars, pathVars, clock, ret, auth, wrote>>
      /\ SW.pc = "idle"
  BY <1>1, Zenon DEF ServeData, Call, tableVars, history, SW
<1>3. key \in 0..MaxKeys \cup {Corrupt} /\ key # 0
  BY DEF Keys, Corrupt
<1>4. /\ c \in CallType /\ c.pc = "lookup" /\ c.id = id /\ c.key = key /\ c.number = number
  BY <1>1, <1>3, Zenon DEF CallType, Idle
<1>5. /\ s \in ServeType /\ s.pc = "data" /\ s.id = id /\ s.key = key
      /\ s.number = number /\ s.from = from
  BY <1>1, <1>3, Zenon DEF ServeType, Reading
<1>6. worker' \in [Workers -> CallType] /\ SW' = c /\ RW' = RW
  BY <1>2, <1>4, CallMoves, TwoLoops, Zenon DEF GatewayInv, SW, RW
<1>7. Grows
  BY <1>2, GrowsQuiet, Zenon DEF allocVars
<1>8. TableInv'
  BY <1>2, <1>5, <1>6, Zenon DEF GatewayInv, TableInv
<1>9. Serving'
  BY <1>2, <1>3, <1>4, <1>5, <1>6, Zenon DEF Serving
<1>10. Returning'
  BY <1>2, <1>6, <1>7, ReturningQuiet, Zenon
<1>11. Leased' /\ AllocInv' /\ PathInv'
  <2>1. CallStep
    BY <1>2, <1>6, Zenon DEF CallStep
  <2>2. {SW.pc, SW'.pc} \cap {"admit", "lease"} = {}
    BY <1>2, <1>4, <1>6, Zenon
  <2> QED
    BY <2>1, <2>2, CallKeeps, Zenon
<1>12. Cached'
  <2>1. \A w \in Workers : worker'[w] = worker[w] \/ worker'[w].pc = "lookup"
    BY <1>4, <1>6, TwoLoops, Zenon DEF SW, RW
  <2> QED
    BY <1>2, <1>7, <2>1, CachedQuiet, Zenon
<1>13. Written'
  BY <1>2, <1>5, <1>7, WrittenQuiet, Zenon
<1> QED
  BY <1>8, <1>9, <1>10, <1>11, <1>12, <1>13, Zenon DEF GatewayInv

-----------------------------------------------------------------------------
\* A step of sessionFor: the call c of w goes on as d.
LookStep(w, c, d) ==
  /\ UNCHANGED <<keys, minted, answered, allocVars, pathVars, clock, loops, auth, wrote>>
  /\ worker' = [worker EXCEPT ![w] = d]
  /\ c = worker[w] /\ c.pc \in {"lookup", "resolve", "create"} /\ d \in CallType
  /\ \/ d.pc = "idle"
     \/ /\ d.pc \in {"resolve", "create", After(c)}
        /\ d.id = c.id /\ d.key = c.key /\ d.number = c.number

(* What is left to show of it is what it does to the cache. *)
LEMMA LookKeeps ==
  ASSUME GatewayInv, NEW w \in Workers, NEW c, NEW d, LookStep(w, c, d), Grows, Cached',
         objects' \in Seq(ObjectType), sessions' \in [SessionIds -> 0..Len(objects')]
  PROVE  GatewayInv'
<1>1. /\ worker' \in [Workers -> CallType] /\ worker'[w] = d
      /\ \A v \in Workers \ {w} : worker'[v] = worker[v]
  BY CallMoves, Zenon DEF LookStep, GatewayInv
<1>2. /\ UNCHANGED <<keys, minted, answered, allocVars, pathVars, clock, loops, auth, wrote>>
      /\ UNCHANGED serve /\ UNCHANGED ret
      /\ c = worker[w] /\ c.pc \in {"lookup", "resolve", "create"}
      /\ \/ d.pc = "idle"
         \/ /\ d.pc \in {"resolve", "create", After(c)}
            /\ d.id = c.id /\ d.key = c.key /\ d.number = c.number
  BY Zenon DEF LookStep, loops
<1>3. ASSUME w = "serve"
      PROVE /\ Serving' /\ Returning'
            /\ SW' = SW \/ {SW.pc, SW'.pc} \cap {"admit", "lease"} = {}
  <2>1. SW = c /\ SW' = d /\ RW' = RW
    BY <1>1, <1>2, <1>3, TwoLoops, Zenon DEF SW, RW
  <2>2. /\ serve.pc = "data" /\ c.id = serve.id /\ c.key = serve.key
        /\ c.number = serve.number /\ c.key # 0 /\ c.id \in SessionIds
    BY <1>2, <2>1, Zenon DEF GatewayInv, Serving
  <2>3. After(c) = "inbound"
    BY <2>2, Zenon DEF After
  <2>4. Serving'
    BY <1>2, <2>1, <2>2, <2>3, Zenon DEF GatewayInv, Serving
  <2>5. Returning'
    BY <1>2, <2>1, ReturningQuiet, ZenonT(30)
  <2>6. SW.pc \notin {"admit", "lease"} /\ SW'.pc \notin {"admit", "lease"}
    BY <1>2, <2>1, <2>3, Zenon
  <2> QED
    BY <2>4, <2>5, <2>6, Zenon
<1>4. ASSUME w = "return"
      PROVE /\ Serving' /\ Returning'
            /\ SW' = SW \/ {SW.pc, SW'.pc} \cap {"admit", "lease"} = {}
  <2>1. RW = c /\ RW' = d /\ SW' = SW
    BY <1>1, <1>2, <1>4, TwoLoops, Zenon DEF SW, RW
  <2>2. /\ c.id \in SessionIds /\ forward[c.id] # 0 /\ c.key = 0
        /\ ret.pc = "returned" \/ (ret.pc = "frame" /\ c.id = ret.id)
    BY <1>2, <2>1, Zenon DEF GatewayInv, Returning
  <2>3. After(c) = "outbound"
    BY <2>2 DEF After
  <2>4. UNCHANGED forward
    BY <1>2, Zenon DEF allocVars
  <2>5. Returning'
    BY <1>2, <2>1, <2>2, <2>3, <2>4, Zenon DEF GatewayInv, Returning
  <2>6. Serving'
    BY <1>2, <2>1, ServingQuiet, Zenon
  <2> QED
    BY <2>1, <2>5, <2>6, Zenon
<1>5. /\ Serving' /\ Returning'
      /\ SW' = SW \/ {SW.pc, SW'.pc} \cap {"admit", "lease"} = {}
  BY <1>3, <1>4, TwoLoops, Zenon
<1>6. TableInv'
  BY <1>1, <1>2, Zenon DEF GatewayInv, TableInv
<1>7. Leased' /\ AllocInv' /\ PathInv'
  BY <1>1, <1>2, <1>5, CallKeeps, ZenonT(30) DEF CallStep
<1>8. Written'
  BY <1>2, WrittenQuiet, Zenon
<1> QED
  BY <1>5, <1>6, <1>7, <1>8, Zenon DEF GatewayInv

(* The mutex: nobody else is between its lookup and its session. *)
LEMMA Alone ==
  ASSUME GatewayInv, NEW w \in Workers, dmu \in {{}, {w}}, NEW v \in Workers, v # w
  PROVE  worker[v].pc \notin {"resolve", "create"}
<1>1. worker[v].pc \in {"resolve", "create"} => dmu = {v}
  BY ZenonT(30) DEF GatewayInv, Cached, Filled
<1> QED
  BY <1>1, Zenon

(* What the call of w has to do with the cache. *)
LEMMA CallFacts ==
  ASSUME GatewayInv, NEW w \in Workers, worker[w].pc # "idle"
  PROVE  /\ worker[w] \in CallType /\ worker[w].id \in SessionIds
         /\ worker[w].pc = "resolve" /\ keys[worker[w].id] # 0 => forward[worker[w].id] # 0
         /\ worker[w].pc \in {"resolve", "create"} => dmu = {w} /\ sessions[worker[w].id] = 0
<1>1. worker[w] \in CallType
  BY Zenon DEF GatewayInv, TableInv
<1>2. worker[w].pc \in {"resolve", "create"} => dmu = {w} /\ sessions[worker[w].id] = 0
  BY Zenon DEF GatewayInv, Cached, Filled
<1>3. CASE w = "serve"
  BY <1>1, <1>2, <1>3, ZenonT(30) DEF GatewayInv, Serving, Leased, SW
<1>4. CASE w = "return"
  BY <1>1, <1>2, <1>4, ZenonT(30) DEF GatewayInv, Returning, RW
<1> QED
  BY <1>3, <1>4, TwoLoops, Zenon

(* The cache is as it was and the call of w is filled: so are the others. *)
LEMMA CachedMoves ==
  ASSUME GatewayInv, NEW w \in Workers, NEW d,
         UNCHANGED <<sessions, objects, keys, forward>>,
         worker'[w] = d, \A v \in Workers \ {w} : worker'[v] = worker[v],
         dmu' = dmu \/ dmu \in {{}, {w}}, Filled(w, d)'
  PROVE  Cached'
<1>1. ASSUME NEW v \in Workers, v # w PROVE Filled(v, worker[v])'
  <2>1. worker'[v] = worker[v] /\ Filled(v, worker[v])
    BY <1>1, Zenon DEF GatewayInv, Cached
  <2>2. CASE dmu' = dmu
    BY <2>1, <2>2, Zenon DEF Filled
  <2>3. CASE dmu \in {{}, {w}}
    <3>1. worker[v].pc \notin {"resolve", "create"}
      BY <1>1, <2>3, Alone
    <3> QED
      BY <2>1, <3>1, ZenonT(30) DEF Filled
  <2> QED
    BY <2>2, <2>3, Zenon
<1>2. Filled(w, worker[w])'
  BY Zenon DEF Filled
<1> QED
  BY <1>1, <1>2, Zenon DEF GatewayInv, Cached

(* The two forms of a call that goes on. *)
LEMMA CallForms ==
  ASSUME worker \in [Workers -> CallType], NEW w \in Workers, NEW p, NEW o
  PROVE  /\ [worker EXCEPT ![w].pc = p, ![w].obj = o]
              = [worker EXCEPT ![w] = [worker[w] EXCEPT !.pc = p, !.obj = o]]
         /\ [worker EXCEPT ![w].pc = p]
              = [worker EXCEPT ![w] = [worker[w] EXCEPT !.pc = p, !.obj = worker[w].obj]]
<1>1. worker[w] \in CallType
  OBVIOUS
<1>2. [worker[w] EXCEPT !.pc = p] = [worker[w] EXCEPT !.pc = p, !.obj = worker[w].obj]
  BY <1>1, Zenon DEF CallType
<1> QED
  BY <1>2, Zenon

(* sessionFor finds a session cached, or takes the mutex with it. *)
LEMMA SessionForCachedInv ==
  ASSUME GatewayInv, NEW w \in Workers, sessionForCached(w),
         UNCHANGED <<allocVars, pathVars, clock, loops, system, auth, wrote>>
  PROVE  GatewayInv'
<1>1. PICK c : c = worker[w]
  BY Zenon
<1>2. /\ c.pc = "lookup" /\ dmu = {} /\ UNCHANGED <<tableVars, minted, history>>
      /\ IF sessions[c.id] # 0
         THEN worker' = [worker EXCEPT ![w].pc = After(c), ![w].obj = sessions[c.id]]
         ELSE worker' = [worker EXCEPT ![w].pc = "resolve"] /\ dmu' = {w}
  BY <1>1, Zenon DEF sessionForCached
<1>3. /\ worker \in [Workers -> CallType] /\ c \in CallType /\ c.id \in SessionIds
      /\ objects \in Seq(ObjectType) /\ sessions \in [SessionIds -> 0..Len(objects)]
      /\ sessions[c.id] \in Nat /\ (sessions[c.id] # 0 => sessions[c.id] \in 1..Len(objects))
      /\ c.obj \in Nat /\ After(c) \in {"inbound", "outbound"}
  <2>1. worker[w].pc # "idle"
    BY <1>1, <1>2, Zenon
  <2>2. c \in CallType /\ c.id \in SessionIds
    BY <1>1, <2>1, CallFacts, Zenon
  <2>3. c.obj \in Nat
    BY <2>2, Zenon DEF CallType
  <2>4. /\ worker \in [Workers -> CallType] /\ objects \in Seq(ObjectType)
        /\ sessions \in [SessionIds -> 0..Len(objects)] /\ TableInv
    BY DEF GatewayInv, TableInv
  <2> QED
    BY <2>2, <2>3, <2>4, CachedIndex DEF After
<1>4. /\ UNCHANGED <<sessions, objects, keys, forward, answered, minted>>
      /\ UNCHANGED <<keys, minted, answered, allocVars, pathVars, clock, loops, auth, wrote>>
  BY <1>2, Zenon DEF tableVars, history, allocVars
<1>5. Grows
  BY <1>4, GrowsQuiet, Zenon
<1>6. CASE sessions[c.id] # 0
  <2>1. PICK d : d = [c EXCEPT !.pc = After(c), !.obj = sessions[c.id]]
    BY Zenon
  <2>2. /\ d \in CallType /\ d.pc = After(c) /\ d.obj = sessions[c.id]
        /\ d.id = c.id /\ d.key = c.key /\ d.number = c.number
    BY <1>3, <2>1, Zenon DEF CallType
  <2>3. worker' = [worker EXCEPT ![w] = d]
    BY <1>1, <1>2, <1>3, <1>6, <2>1, CallForms, Zenon
  <2>4. LookStep(w, c, d)
    BY <1>1, <1>2, <1>4, <2>2, <2>3, Zenon DEF LookStep
  <2>5. objects[sessions[c.id]].id = c.id
    BY <1>3, <1>6, Zenon DEF GatewayInv, Cached
  <2>6. Filled(w, d)'
    BY <1>3, <1>4, <1>6, <2>2, <2>5, Zenon DEF Filled
  <2>7. worker'[w] = d /\ \A v \in Workers \ {w} : worker'[v] = worker[v]
    BY <1>3, <2>3
  <2>8. Cached'
    BY <1>2, <1>4, <2>6, <2>7, CachedMoves
  <2> QED
    BY <1>3, <1>4, <1>5, <2>4, <2>8, LookKeeps
<1>7. CASE sessions[c.id] = 0
  <2>1. PICK d : d = [c EXCEPT !.pc = "resolve", !.obj = c.obj]
    BY Zenon
  <2>2. /\ d \in CallType /\ d.pc = "resolve"
        /\ d.id = c.id /\ d.key = c.key /\ d.number = c.number
    BY <1>3, <2>1, Zenon DEF CallType
  <2>3. worker' = [worker EXCEPT ![w] = d]
    BY <1>1, <1>2, <1>3, <1>7, <2>1, CallForms, Zenon
  <2>4. LookStep(w, c, d)
    BY <1>1, <1>2, <1>4, <2>2, <2>3 DEF LookStep
  <2>6. Filled(w, d)'
    BY <1>2, <1>4, <1>7, <2>2 DEF Filled
  <2>7. worker'[w] = d /\ \A v \in Workers \ {w} : worker'[v] = worker[v]
    BY <1>3, <2>3
  <2>8. Cached'
    BY <1>2, <1>4, <2>6, <2>7, CachedMoves
  <2> QED
    BY <1>3, <1>4, <1>5, <2>4, <2>8, LookKeeps
<1> QED
  BY <1>6, <1>7

(* sessionFor reads the key store. *)
LEMMA SessionForResolveInv ==
  ASSUME GatewayInv, NEW w \in Workers, sessionForResolve(w),
         UNCHANGED <<allocVars, pathVars, clock, loops, system, auth, wrote>>
  PROVE  GatewayInv'
<1>1. PICK c : c = worker[w]
  BY Zenon
<1>2. /\ c.pc = "resolve" /\ UNCHANGED <<tableVars, minted, history>>
      /\ IF keys[c.id] = 0
         THEN worker' = [worker EXCEPT ![w] = Idle]
         ELSE worker' = [worker EXCEPT ![w].pc = "create", ![w].obj = keys[c.id]]
              /\ dmu' = dmu
  BY <1>1, Zenon DEF sessionForResolve
<1>3. /\ worker \in [Workers -> CallType] /\ c \in CallType /\ c.id \in SessionIds
      /\ objects \in Seq(ObjectType) /\ sessions \in [SessionIds -> 0..Len(objects)]
      /\ keys[c.id] \in 0..MaxKeys /\ keys[c.id] \in Nat
      /\ dmu = {w} /\ sessions[c.id] = 0 /\ (keys[c.id] # 0 => forward[c.id] # 0)
  BY <1>1, <1>2, CallFacts, BoundAssumption DEF GatewayInv, TableInv
<1>4. /\ UNCHANGED <<sessions, objects, keys, forward, answered, minted>>
      /\ UNCHANGED <<keys, minted, answered, allocVars, pathVars, clock, loops, auth, wrote>>
  BY <1>2, Zenon DEF tableVars, history, allocVars
<1>5. Grows
  BY <1>4, GrowsQuiet
<1>6. CASE keys[c.id] # 0
  <2>1. PICK d : d = [c EXCEPT !.pc = "create", !.obj = keys[c.id]]
    BY Zenon
  <2>2. /\ d \in CallType /\ d.pc = "create" /\ d.obj = keys[c.id]
        /\ d.id = c.id /\ d.key = c.key /\ d.number = c.number
    BY <1>3, <2>1, Zenon DEF CallType
  <2>3. worker' = [worker EXCEPT ![w] = d] /\ dmu' = {w}
    BY <1>1, <1>2, <1>3, <1>6, <2>1, CallForms, Zenon
  <2>4. LookStep(w, c, d)
    BY <1>1, <1>2, <1>4, <2>2, <2>3, Zenon DEF LookStep
  <2>5. keys[c.id] \in Keys
    BY <1>3, <1>6, KeyRange, Zenon
  <2>6. Filled(w, d)'
    BY <1>3, <1>4, <1>6, <2>2, <2>3, <2>5, ZenonT(30) DEF Filled
  <2>7. worker'[w] = d /\ \A v \in Workers \ {w} : worker'[v] = worker[v]
    BY <1>3, <2>2, <2>3, CallMoves, Zenon
  <2>8. Cached'
    BY <1>3, <1>4, <2>6, <2>7, CachedMoves, Zenon
  <2> QED
    BY <1>3, <1>4, <1>5, <2>4, <2>8, LookKeeps, Zenon
<1>7. CASE keys[c.id] = 0
  <2>1. Idle \in CallType /\ Idle.pc = "idle"
    BY IdleFacts
  <2>2. worker' = [worker EXCEPT ![w] = Idle]
    BY <1>2, <1>7
  <2>4. LookStep(w, c, Idle)
    BY <1>1, <1>2, <1>4, <2>1, <2>2, Zenon DEF LookStep
  <2>6. Filled(w, Idle)'
    BY <2>1, Zenon DEF Filled
  <2>7. worker'[w] = Idle /\ \A v \in Workers \ {w} : worker'[v] = worker[v]
    BY <1>3, <2>1, <2>2, CallMoves, Zenon
  <2>8. Cached'
    BY <1>3, <1>4, <2>6, <2>7, CachedMoves, Zenon
  <2> QED
    BY <1>3, <1>4, <1>5, <2>4, <2>8, LookKeeps, Zenon
<1> QED
  BY <1>6, <1>7

(* sessionFor makes a session and caches it. *)
LEMMA SessionForCreateInv ==
  ASSUME GatewayInv, NEW w \in Workers, sessionForCreate(w),
         UNCHANGED <<allocVars, pathVars, clock, loops, system, auth, wrote>>
  PROVE  GatewayInv'
<1>1. PICK c : c = worker[w]
  BY Zenon
<1>2. PICK o : o = [id |-> c.id, key |-> c.obj, next |-> 0, seen |-> {}]
  BY Zenon
<1>3. /\ c.pc = "create" /\ UNCHANGED <<keys, minted, history>>
      /\ objects' = Append(objects, o)
      /\ sessions' = [sessions EXCEPT ![c.id] = Len(objects')]
      /\ worker' = [worker EXCEPT ![w].pc = After(c), ![w].obj = Len(objects')]
  BY <1>1, <1>2, Zenon DEF sessionForCreate
<1>4. /\ worker \in [Workers -> CallType] /\ c \in CallType /\ c.id \in SessionIds
      /\ objects \in Seq(ObjectType) /\ sessions \in [SessionIds -> 0..Len(objects)]
      /\ dmu = {w} /\ sessions[c.id] = 0 /\ After(c) \in {"inbound", "outbound"}
  BY <1>1, <1>3, CallFacts, Zenon DEF GatewayInv, TableInv, After
<1>5. c.obj = keys[c.id] /\ c.obj \in Keys /\ forward[c.id] # 0
  BY <1>1, <1>3, Zenon DEF GatewayInv, Cached, Filled
<1>6. o \in ObjectType /\ o.id = c.id /\ o.key = c.obj
  BY <1>2, <1>4, <1>5, Zenon DEF ObjectType
<1>7. PICK n \in Nat : n = Len(objects)
  BY <1>4
<1>8. /\ objects' \in Seq(ObjectType) /\ Len(objects') = n + 1 /\ objects'[n + 1] = o
      /\ \A j \in 1..n : objects'[j] = objects[j]
  BY <1>3, <1>4, <1>6, <1>7
<1>0. /\ Len(objects') = n + 1 /\ n + 1 \in 1..Len(objects') /\ objects'[n + 1] = o
      /\ \A j \in 1..n : j \in 1..Len(objects') /\ objects'[j] = objects[j]
      /\ \A j \in 1..Len(objects') : j = n + 1 \/ j \in 1..n
  <2>1. /\ n + 1 \in 1..(n + 1) /\ \A j \in 1..n : j \in 1..(n + 1)
        /\ \A j \in 1..(n + 1) : j = n + 1 \/ j \in 1..n
    OBVIOUS
  <2> QED
    BY <1>8, <2>1, Zenon
<1>9. /\ sessions' \in [SessionIds -> 0..Len(objects')] /\ sessions'[c.id] = n + 1
      /\ \A i \in SessionIds \ {c.id} : sessions'[i] = sessions[i]
  BY <1>3, <1>4, <1>7, <1>8
<1>10. /\ UNCHANGED <<keys, forward, answered, auth>>
       /\ UNCHANGED <<keys, minted, answered, allocVars, pathVars, clock, loops, auth, wrote>>
  BY <1>3, Zenon DEF history, allocVars
<1>11. Grows
  <2>1. ASSUME NEW k, NEW m, Kept(k, m) PROVE Kept(k, m)'
    <3>1. PICK j \in 1..n : objects[j].key = k /\ m \in objects[j].seen
      BY <1>7, <2>1, Zenon DEF Kept
    <3>2. j \in 1..Len(objects') /\ objects'[j] = objects[j]
      BY <1>0
    <3> QED
      BY <3>1, <3>2, Zenon DEF Kept
  <2> QED
    BY <1>10, <2>1, Zenon DEF Grows
<1>12. PICK d : d = [c EXCEPT !.pc = After(c), !.obj = n + 1]
  BY Zenon
<1>13. /\ d \in CallType /\ d.pc = After(c) /\ d.obj = n + 1
       /\ d.id = c.id /\ d.key = c.key /\ d.number = c.number
  <2>1. n + 1 \in Nat
    OBVIOUS
  <2> QED
    BY <1>4, <1>12, <2>1, Zenon DEF CallType
<1>14. /\ worker' = [worker EXCEPT ![w] = d] /\ worker'[w] = d
       /\ \A v \in Workers \ {w} : worker'[v] = worker[v]
  BY <1>1, <1>3, <1>4, <1>0, <1>12, CallForms, Zenon
<1>15. LookStep(w, c, d)
  BY <1>1, <1>3, <1>10, <1>13, <1>14, Zenon DEF LookStep
<1>16. Cached'
  <2>1. ASSUME NEW j \in 1..Len(objects')
        PROVE  /\ sessions'[objects'[j].id] = j
               /\ objects'[j].key = keys'[objects'[j].id] /\ forward'[objects'[j].id] # 0
    <3>1. CASE j = n + 1
      BY <1>5, <1>6, <1>0, <1>9, <1>10, <3>1
    <3>2. CASE j \in 1..n
      <4>1. /\ objects[j].id \in SessionIds /\ sessions[objects[j].id] = j
            /\ objects[j].key = keys[objects[j].id] /\ forward[objects[j].id] # 0
        BY <1>7, <3>2, ObjectFacts, ZenonT(30) DEF GatewayInv, Cached
      <4>2. objects[j].id # c.id
        <5>1. j # 0
          BY <3>2
        <5> QED
          BY <1>4, <4>1, <5>1, Zenon
      <4> QED
        BY <1>0, <1>9, <1>10, <3>2, <4>1, <4>2, Zenon
    <3> QED
      BY <1>0, <3>1, <3>2, Zenon
  <2>2. ASSUME NEW i \in SessionIds, sessions'[i] # 0
        PROVE  objects'[sessions'[i]].id = i
    <3>1. CASE i = c.id
      BY <1>6, <1>0, <1>9, <3>1, Zenon
    <3>2. CASE i # c.id
      <4>1. sessions'[i] = sessions[i] /\ sessions[i] # 0
        BY <1>9, <2>2, <3>2, Zenon
      <4>2. sessions[i] \in 1..n
        BY <1>7, <4>1, CachedIndex DEF GatewayInv
      <4>3. objects[sessions[i]].id = i
        BY <4>1, Zenon DEF GatewayInv, Cached
      <4> QED
        BY <1>0, <4>1, <4>2, <4>3, Zenon
    <3> QED
      BY <3>1, <3>2, Zenon
  <2>3. ASSUME NEW v \in Workers PROVE Filled(v, worker[v])'
    <3>1. CASE v = w
      <4>1. worker'[v] = d /\ d.obj \in 1..Len(objects') /\ objects'[d.obj].id = d.id
        BY <1>6, <1>0, <1>13, <1>14, <3>1, Zenon
      <4> QED
        BY <1>4, <1>13, <4>1, Zenon DEF Filled
    <3>2. CASE v # w
      <4>1. /\ worker'[v] = worker[v] /\ worker[v].pc \notin {"resolve", "create"}
            /\ Filled(v, worker[v])
        BY <1>4, <1>14, <3>2, Alone, Zenon DEF GatewayInv, Cached
      <4>2. worker[v].pc \in {"inbound", "outbound"} =>
              worker[v].obj \in 1..n /\ objects[worker[v].obj].id = worker[v].id
        BY <1>7, <4>1, Zenon DEF Filled
      <4>3. worker[v].pc \in {"inbound", "outbound"} =>
              worker[v].obj \in 1..Len(objects') /\ objects'[worker[v].obj].id = worker[v].id
        BY <1>0, <4>2, Zenon
      <4> QED
        BY <4>1, <4>3, Zenon DEF Filled
    <3> QED
      BY <3>1, <3>2, Zenon
  <2> QED
    BY <2>1, <2>2, <2>3, Zenon DEF Cached
<1> QED
  BY <1>8, <1>9, <1>11, <1>15, <1>16, LookKeeps, Zenon

(* sessionFor, on behalf of either loop. *)
LEMMA SessionForInv == GatewayInv /\ SessionFor => GatewayInv'
  BY SessionForCachedInv, SessionForResolveInv, SessionForCreateInv, Zenon DEF SessionFor

-----------------------------------------------------------------------------
\* A step in which a loop goes on and the tables stay as they are.
LoopStep ==
  /\ UNCHANGED <<sessionVars, allocVars, auth>>
  /\ serve' \in ServeType /\ ret' \in RetType /\ wrote' \in [Keys \X Numbers -> Nat]

(* What it leaves alone. *)
LEMMA LoopKeeps ==
  ASSUME GatewayInv, LoopStep, Serving', Returning', PathInv', Written'
  PROVE  GatewayInv'
<1>1. /\ UNCHANGED <<keys, sessions, objects, minted, dmu, worker, answered>>
      /\ UNCHANGED <<allocVars, auth>>
      /\ serve' \in ServeType /\ ret' \in RetType /\ wrote' \in [Keys \X Numbers -> Nat]
  BY Zenon DEF LoopStep, sessionVars, vars, tableVars, history
<1>2. TableInv'
  BY <1>1, Zenon DEF GatewayInv, TableInv
<1>3. UNCHANGED forward /\ SW' = SW
  BY <1>1, Zenon DEF allocVars, SW
<1>4. Leased' /\ AllocInv'
  BY <1>1, <1>3, LeasedQuiet, AllocQuiet, Zenon
<1>5. Grows
  BY <1>1, <1>3, GrowsQuiet, Zenon
<1>6. Cached'
  BY <1>1, <1>5, CachedQuiet
<1> QED
  BY <1>2, <1>4, <1>6, Zenon DEF GatewayInv

(* Nothing is taken back. *)
LEMMA LoopGrows == ASSUME LoopStep PROVE Grows /\ SW' = SW /\ RW' = RW
<1>1. UNCHANGED <<keys, forward, answered, auth, objects, worker>>
  BY Zenon DEF LoopStep, sessionVars, vars, tableVars, history, allocVars
<1> QED
  BY <1>1, GrowsQuiet, Zenon DEF SW, RW

(* Serve goes back to its read, or returns. *)
LEMMA ServeLoopInv ==
  ASSUME GatewayInv, LoopStep, SW.pc = "idle", serve'.pc \in {"read", "returned"}, ret' = ret,
         UNCHANGED <<pathVars, clock, auth, wrote>>
  PROVE  GatewayInv'
<1>1. Serving'
  BY LoopGrows, Zenon DEF Serving
<1>2. Returning' /\ Written' /\ PathInv'
  BY LoopGrows, ReturningQuiet, WrittenQuiet, PathQuiet, Zenon
<1> QED
  BY <1>1, <1>2, LoopKeeps, Zenon

(* ServeReturn goes on. *)
LEMMA ReturnLoopInv ==
  ASSUME GatewayInv, LoopStep, serve' = serve, Returning', wrote' = wrote, PathInv'
  PROVE  GatewayInv'
<1>1. Serving' /\ Written'
  BY LoopGrows, ServingQuiet, WrittenQuiet, Zenon
<1> QED
  BY <1>1, LoopKeeps

(* The records the loops start from. *)
LEMMA LoopRecords ==
  /\ Reading \in ServeType /\ Reading.pc = "read"
  /\ Waiting \in RetType /\ Waiting.pc = "next" /\ Waiting.targets = {}
<1>1. 0 \in 0..MaxKeys /\ 0 \in Addresses
  BY BoundAssumption, SizeAssumption DEF Addresses
<1>2. Reading \in ServeType /\ Reading.pc = "read"
  BY <1>1 DEF Reading, ServeType
<1>3. Waiting \in RetType /\ Waiting.pc = "next" /\ Waiting.targets = {}
  BY <1>1, Zenon DEF Waiting, RetType
<1> QED
  BY <1>2, <1>3

(* Serve's steps that only end a datagram, or the loop. *)
LEMMA ServeEndsInv ==
  ASSUME GatewayInv, ServeUnknown \/ EgressDrop \/ ServeReturns
  PROVE  GatewayInv'
<1>1. SW.pc = "idle"
  BY DEF GatewayInv, Serving, ServeUnknown, EgressDrop, ServeReturns, AtRead, SW
<1>2. /\ UNCHANGED <<sessionVars, allocVars, pathVars, clock, auth, wrote>> /\ ret' = ret
      /\ serve' = Reading \/ serve' = [serve EXCEPT !.pc = "returned"]
  BY Zenon DEF ServeUnknown, EgressDrop, ServeReturns
<1>3. serve \in ServeType /\ ret \in RetType /\ wrote \in [Keys \X Numbers -> Nat]
  BY DEF GatewayInv, TableInv
<1>4. serve' \in ServeType /\ serve'.pc \in {"read", "returned"}
  <2>1. CASE serve' = Reading
    BY <2>1, LoopRecords
  <2>2. CASE serve' = [serve EXCEPT !.pc = "returned"]
    BY <1>3, <2>2 DEF ServeType
  <2> QED
    BY <1>2, <2>1, <2>2, Zenon
<1>5. LoopStep
  BY <1>2, <1>3, <1>4, Zenon DEF LoopStep
<1> QED
  BY <1>1, <1>2, <1>4, <1>5, ServeLoopInv

(* A read error of Serve ends both loops. *)
LEMMA ServeFailsInv == ASSUME GatewayInv, ServeFails PROVE GatewayInv'
<1>1. PICK r : r = [Waiting EXCEPT !.pc = "returned"]
  BY Zenon
<1>2. /\ UNCHANGED <<sessionVars, allocVars, pathVars, clock, auth, wrote>>
      /\ SW.pc = "idle" /\ serve' = [serve EXCEPT !.pc = "returned"] /\ ret' = r
  BY <1>1 DEF ServeFails, AtRead, SW
<1>3. serve' \in ServeType /\ serve'.pc = "returned"
  BY <1>2, Zenon DEF GatewayInv, TableInv, ServeType
<1>4. r \in RetType /\ r.pc = "returned" /\ r.targets = {}
  BY <1>1, BoundAssumption, SizeAssumption DEF Waiting, RetType, Addresses
<1>5. LoopStep
  BY <1>2, <1>3, <1>4 DEF LoopStep, GatewayInv, TableInv
<1>6. Serving'
  BY <1>2, <1>3, <1>5, LoopGrows DEF Serving
<1>7. Written' /\ PathInv'
  BY <1>2, <1>3, <1>5, LoopGrows, WrittenQuiet, PathQuiet
<1>8. Returning'
  <2>1. UNCHANGED forward
    BY <1>2 DEF allocVars
  <2> QED
    BY <1>2, <1>4, <1>5, <2>1, LoopGrows DEF GatewayInv, Returning
<1> QED
  BY <1>5, <1>6, <1>7, <1>8, LoopKeeps

(* ServeReturn's steps that only end a packet, or the loop, or send a copy. *)
LEMMA ReturnEndsInv ==
  ASSUME GatewayInv,
         ReturnUnframed \/ ReturnSent \/ ReturnDrop \/ ReturnRead \/ ReturnReturns
         \/ \E e \in Endpoints : ReturnSend(e)
  PROVE  GatewayInv'
<1>1. /\ UNCHANGED <<sessionVars, allocVars, pathVars, clock, auth, wrote>> /\ serve' = serve
      /\ UNCHANGED <<keys, forward>> /\ PathInv'
  BY PathQuiet, Zenon
     DEF ReturnUnframed, ReturnSent, ReturnDrop, ReturnRead, ReturnReturns, ReturnSend,
         sessionVars, vars, tableVars, allocVars
<1>2. serve \in ServeType /\ ret \in RetType /\ wrote \in [Keys \X Numbers -> Nat]
  BY Zenon DEF GatewayInv, TableInv
<1>3. CASE ReturnUnframed \/ ReturnSent \/ ReturnDrop
  <2>1. ret' = Waiting /\ RW.pc = "idle"
    BY <1>3, Zenon DEF ReturnUnframed, ReturnSent, ReturnDrop, GatewayInv, Returning, RW
  <2>2. LoopStep
    BY <1>1, <1>2, <2>1, LoopRecords, Zenon DEF LoopStep
  <2>3. Returning'
    BY <2>1, <2>2, LoopGrows, LoopRecords DEF Returning
  <2> QED
    BY <1>1, <2>2, <2>3, ReturnLoopInv
<1>4. CASE ReturnRead \/ ReturnReturns
  <2>1. /\ ret.pc \in {"next", "read"} /\ RW.pc = "idle" /\ ret.targets = {}
        /\ \/ ret' = [ret EXCEPT !.pc = "read"]
           \/ ret' = [ret EXCEPT !.pc = "returned"]
    BY <1>4 DEF ReturnRead, ReturnReturns, GatewayInv, Returning
  <2>2. ret' \in RetType /\ ret'.pc \in {"read", "returned"} /\ ret'.targets = {}
    BY <1>2, <2>1, Zenon DEF RetType
  <2>3. LoopStep
    BY <1>1, <1>2, <2>2 DEF LoopStep
  <2>4. Returning'
    BY <2>1, <2>2, <2>3, LoopGrows DEF Returning
  <2> QED
    BY <1>1, <2>3, <2>4, ReturnLoopInv
<1>5. CASE \E e \in Endpoints : ReturnSend(e)
  <2>1. PICK e : /\ ret.pc = "send" /\ e \in ret.targets
                 /\ ret' = [ret EXCEPT !.targets = @ \ {e}]
    BY <1>5 DEF ReturnSend
  <2>2. /\ ret' \in RetType /\ ret'.pc = "send" /\ ret'.targets \subseteq ret.targets
        /\ ret'.id = ret.id /\ ret'.dst = ret.dst /\ ret'.key = ret.key
    BY <1>2, <2>1, Zenon DEF RetType
  <2>3. LoopStep
    BY <1>1, <1>2, <2>2 DEF LoopStep
  <2>4. RW.pc = "idle"
    BY <2>1, Zenon DEF GatewayInv, Returning
  <2>5. auth' = auth
    BY <1>1
  <2>6. Returning'
    BY <1>1, <2>1, <2>2, <2>3, <2>4, <2>5, LoopGrows, Zenon DEF GatewayInv, Returning
  <2> QED
    BY <1>1, <2>3, <2>6, ReturnLoopInv
<1> QED
  BY <1>3, <1>4, <1>5

(* The operator, the shutdown goroutine and a stutter touch neither loop. *)
LEMMA SystemInv ==
  ASSUME GatewayInv, Cancel \/ CloseConn \/ CloseDevice \/ Terminated \/ UNCHANGED gatewayVars
  PROVE  GatewayInv'
<1>1. UNCHANGED <<sessionVars, allocVars, pathVars, clock, loops, auth, wrote>>
  BY Zenon DEF Cancel, CloseConn, CloseDevice, Terminated, gatewayVars
<1>2. LoopStep /\ serve' = serve /\ ret' = ret
  BY <1>1, Zenon DEF LoopStep, loops, GatewayInv, TableInv
<1>3. Returning' /\ PathInv'
  BY <1>1, <1>2, LoopGrows, ReturningQuiet, PathQuiet, Zenon
<1> QED
  BY <1>1, <1>2, <1>3, ReturnLoopInv, Zenon

-----------------------------------------------------------------------------
(* The clock moves: what was too old stays too old. *)
LEMMA TimePassesInv == ASSUME GatewayInv, TimePasses PROVE GatewayInv'
<1>1. /\ UNCHANGED <<sessionVars, allocVars, pathVars, loops, auth, wrote>>
      /\ clock' = clock + 1
  BY Zenon DEF TimePasses, Tick
<1>2. LoopStep /\ serve' = serve /\ ret' = ret
  BY <1>1 DEF LoopStep, loops, GatewayInv, TableInv
<1>3. Returning'
  BY <1>2, LoopGrows, ReturningQuiet
<1>4. PathInv'
  <2>1. UNCHANGED <<paths, recorded, auth>> /\ clock \in Nat /\ TTL \in Nat
    BY <1>1, TTLAssumption DEF pathVars, GatewayInv, PathInv
  <2>2. ASSUME NEW i \in SessionIds, NEW e \in DOMAIN paths[i]
        PROVE  recorded[i][e] \in 0..clock'
    <3>1. recorded[i][e] \in 0..clock
      BY <2>2, Zenon DEF GatewayInv, PathInv
    <3> QED
      BY <1>1, <2>1, <3>1
  <2>3. ASSUME NEW i \in SessionIds, NEW e \in Endpoints \ DOMAIN paths[i]
        PROVE  recorded[i][e] = -1 \/ recorded[i][e] <= clock' - TTL
    <3>1. recorded[i][e] \in Int /\ (recorded[i][e] = -1 \/ recorded[i][e] <= clock - TTL)
      BY <2>3 DEF GatewayInv, PathInv
    <3> QED
      BY <1>1, <2>1, <3>1
  <2>4. clock' \in Nat
    BY <1>1, <2>1
  <2> QED
    BY <2>1, <2>2, <2>3, <2>4, Zenon DEF GatewayInv, PathInv
<1> QED
  BY <1>1, <1>2, <1>3, <1>4, ReturnLoopInv, Zenon

(* RecordPath keeps the history: the entry is new or refreshed. *)
LEMMA RecordPathInv ==
  ASSUME GatewayInv, NEW id \in SessionIds, NEW e \in auth[id], Record(id, e),
         UNCHANGED <<clock, auth>>
  PROVE  PathInv'
<1>1. /\ DOMAIN paths = SessionIds /\ recorded \in [SessionIds -> [Endpoints -> Int]]
      /\ clock \in Nat /\ auth[id] \subseteq Uplinks[id] /\ e \in Endpoints
  BY ClientsAssumption, Zenon DEF GatewayInv, PathInv
<1>2. PICK p : p = [x \in DOMAIN paths[id] \cup {e} |-> IF x = e THEN clock ELSE paths[id][x]]
  BY Zenon
<1>3. paths' = [paths EXCEPT ![id] = p] /\ recorded' = [recorded EXCEPT ![id][e] = clock]
  BY <1>2 DEF Record
<1>4. /\ DOMAIN paths' = SessionIds /\ paths'[id] = p
      /\ \A i \in SessionIds \ {id} : paths'[i] = paths[i]
  BY <1>1, <1>3, Zenon
<1>5. PICK q : q = [recorded[id] EXCEPT ![e] = clock]
  BY Zenon
<1>6. /\ q \in [Endpoints -> Int] /\ q[e] = clock
      /\ \A x \in Endpoints \ {e} : q[x] = recorded[id][x]
  <2>1. recorded[id] \in [Endpoints -> Int] /\ clock \in Int
    BY <1>1
  <2> QED
    BY <1>1, <1>5, <2>1, Zenon
<1>7. /\ recorded' = [recorded EXCEPT ![id] = q] /\ recorded'[id] = q
      /\ \A i \in SessionIds \ {id} : recorded'[i] = recorded[i]
  BY <1>1, <1>3, <1>5, Zenon
<1>8. recorded' \in [SessionIds -> [Endpoints -> Int]]
  BY <1>1, <1>6, <1>7, Zenon
<1>9. DOMAIN p = DOMAIN paths[id] \cup {e}
      /\ \A x \in DOMAIN p : p[x] = IF x = e THEN clock ELSE paths[id][x]
  BY <1>2, Zenon
<1>10. DOMAIN paths[id] \subseteq Endpoints
  BY <1>1, ClientsAssumption, Zenon DEF GatewayInv, PathInv
<1>11. ASSUME NEW i \in SessionIds
       PROVE  /\ DOMAIN paths'[i] \subseteq auth'[i] /\ auth'[i] \subseteq Uplinks[i]
              /\ \A x \in DOMAIN paths'[i] :
                   paths'[i][x] = recorded'[i][x] /\ recorded'[i][x] \in 0..clock'
              /\ \A x \in Endpoints \ DOMAIN paths'[i] :
                   recorded'[i][x] = -1 \/ recorded'[i][x] <= clock' - TTL
  <2>1. CASE i # id
    <3>1. paths'[i] = paths[i] /\ recorded'[i] = recorded[i]
      BY <1>4, <1>7, <2>1, Zenon
    <3> QED
      BY <3>1, Zenon DEF GatewayInv, PathInv
  <2>2. CASE i = id
    <3>1. DOMAIN p \subseteq auth'[id] /\ auth'[id] \subseteq Uplinks[id]
      BY <1>1, <1>9, Zenon DEF GatewayInv, PathInv
    <3>2. ASSUME NEW x \in DOMAIN p PROVE p[x] = q[x] /\ q[x] \in 0..clock
      <4>1. CASE x = e
        BY <1>1, <1>6, <1>9, <4>1
      <4>2. CASE x # e
        <5>1. x \in DOMAIN paths[id] /\ x \in Endpoints \ {e}
          BY <1>9, <1>10, <3>2, <4>2, Zenon
        <5> QED
          BY <1>6, <1>9, <4>2, <5>1, Zenon DEF GatewayInv, PathInv
      <4> QED
        BY <4>1, <4>2, Zenon
    <3>3. ASSUME NEW x \in Endpoints \ DOMAIN p PROVE q[x] = -1 \/ q[x] <= clock - TTL
      <4>1. x \in Endpoints \ DOMAIN paths[id] /\ x \in Endpoints \ {e}
        BY <1>9, <3>3, Zenon
      <4> QED
        BY <1>6, <4>1, Zenon DEF GatewayInv, PathInv
    <3> QED
      BY <1>4, <1>7, <2>2, <3>1, <3>2, <3>3, ZenonT(30)
  <2> QED
    BY <2>1, <2>2, Zenon
<1> QED
  BY <1>1, <1>4, <1>8, <1>11, Zenon DEF PathInv

(* Serve records the endpoint of a datagram that opened. *)
LEMMA ServeRecordInv == ASSUME GatewayInv, ServeRecord PROVE GatewayInv'
<1>1. /\ serve.pc = "record" /\ Record(serve.id, serve.from)
      /\ serve' = IF serve.first THEN [serve EXCEPT !.pc = "egress"] ELSE Reading
      /\ UNCHANGED <<sessionVars, allocVars, clock, ret, auth, wrote>>
  BY Zenon DEF ServeRecord
<1>2. /\ serve \in ServeType /\ ret \in RetType /\ wrote \in [Keys \X Numbers -> Nat]
      /\ SW.pc = "idle" /\ serve.id \in SessionIds /\ serve.from \in auth[serve.id]
  BY <1>1 DEF GatewayInv, TableInv, Serving
<1>3. PathInv'
  BY <1>1, <1>2, RecordPathInv, Zenon
<1>4. CASE serve.first
  <2>1. /\ serve' \in ServeType /\ serve'.pc = "egress" /\ serve'.id = serve.id
        /\ serve'.key = serve.key /\ serve'.number = serve.number
        /\ serve'.from = serve.from
    BY <1>1, <1>2, <1>4, Zenon DEF ServeType
  <2>2. serve'.first
    <3>1. serve'.first = serve.first
      BY <1>1, <1>2, <1>4, Zenon DEF ServeType
    <3> QED
      BY <1>4, <3>1
  <2>3. LoopStep
    BY <1>1, <1>2, <2>1 DEF LoopStep
  <2>4. Grows /\ SW' = SW /\ RW' = RW
    BY <2>3, LoopGrows, Zenon
  <2>5. Serving'
    <3>1. PICK k, n : k = serve.key /\ n = serve.number /\ Kept(k, n)'
      BY <1>1, <2>4 DEF GatewayInv, Serving, Grows
    <3>2. answered' = answered /\ auth' = auth
      BY <1>1 DEF sessionVars, vars, history
    <3> QED
      BY <1>1, <1>2, <2>1, <2>2, <2>4, <3>1, <3>2 DEF GatewayInv, Serving
  <2>6. Returning'
    BY <1>1, <2>4, ReturningQuiet
  <2>7. Written'
    <3> SUFFICES ASSUME NEW k \in Keys, NEW n \in Numbers, wrote[<<k, n>>] # 0
                 PROVE  /\ Kept(k, n)'
                        /\ ~(serve'.key = k /\ serve'.number = n)
      BY <1>1, Zenon DEF Written
    <3> QED
      BY <1>1, <1>4, <2>1, <2>4 DEF GatewayInv, Written, Grows
  <2> QED
    BY <1>3, <2>3, <2>5, <2>6, <2>7, LoopKeeps
<1>5. CASE ~serve.first
  <2>1. serve' = Reading
    BY <1>1, <1>5
  <2>2. LoopStep /\ serve'.pc = "read"
    BY <1>1, <1>2, <2>1, LoopRecords, Zenon DEF LoopStep
  <2>3. Serving'
    BY <1>2, <2>2, LoopGrows, Zenon DEF Serving
  <2>4. Returning' /\ Written'
    BY <1>1, <2>2, LoopGrows, ReturningQuiet, WrittenQuiet, Zenon
  <2> QED
    BY <1>3, <2>2, <2>3, <2>4, LoopKeeps
<1> QED
  BY <1>4, <1>5

(* Egress writes a packet to the device. *)
LEMMA EgressWriteInv == ASSUME GatewayInv, EgressWrite PROVE GatewayInv'
<1>1. /\ serve.pc = "egress" /\ serve' = Reading
      /\ wrote' = [wrote EXCEPT ![<<serve.key, serve.number>>] = @ + 1]
      /\ UNCHANGED <<sessionVars, allocVars, pathVars, clock, ret, auth>>
  BY Zenon DEF EgressWrite
<1>2. /\ ret \in RetType /\ wrote \in [Keys \X Numbers -> Nat]
      /\ SW.pc = "idle" /\ serve.key \in Keys /\ serve.number \in Numbers
      /\ Kept(serve.key, serve.number)
  BY <1>1, Zenon DEF GatewayInv, TableInv, Serving
<1>3. /\ wrote' \in [Keys \X Numbers -> Nat]
      /\ \A p \in Keys \X Numbers : p # <<serve.key, serve.number>> => wrote'[p] = wrote[p]
  <2>1. PICK q, D : q = <<serve.key, serve.number>> /\ D = Keys \X Numbers
    BY Zenon
  <2>2. q \in D
    BY <1>2, <2>1
  <2>3. wrote' = [wrote EXCEPT ![q] = @ + 1] /\ wrote \in [D -> Nat]
    BY <1>1, <1>2, <2>1, Zenon
  <2>4. wrote' \in [D -> Nat] /\ \A p \in D : p # q => wrote'[p] = wrote[p]
    BY <2>2, <2>3
  <2> QED
    BY <2>1, <2>4, Zenon
<1>4. LoopStep /\ serve'.pc = "read"
  BY <1>1, <1>2, <1>3, LoopRecords, Zenon DEF LoopStep
<1>5. Serving'
  BY <1>2, <1>4, LoopGrows, Zenon DEF Serving
<1>6. Returning' /\ PathInv'
  BY <1>1, <1>4, LoopGrows, ReturningQuiet, PathQuiet, Zenon
<1>7. Written'
  <2> SUFFICES ASSUME NEW k \in Keys, NEW n \in Numbers, wrote'[<<k, n>>] # 0
               PROVE  Kept(k, n)'
    BY <1>4, Zenon DEF Written
  <2>1. Kept(k, n)
    <3>1. CASE <<k, n>> = <<serve.key, serve.number>>
      BY <1>2, <3>1, Zenon
    <3>2. CASE <<k, n>> # <<serve.key, serve.number>>
      BY <1>3, <3>2, Zenon DEF GatewayInv, Written
    <3> QED
      BY <3>1, <3>2, Zenon
  <2> QED
    BY <1>4, <2>1, LoopGrows, Zenon DEF Grows
<1> QED
  BY <1>4, <1>5, <1>6, <1>7, LoopKeeps, Zenon

(* Fresh drops what is too old, and ServeReturn takes the rest. *)
LEMMA ReturnFreshInv == ASSUME GatewayInv, ReturnFresh PROVE GatewayInv'
<1>1. PICK i : i = ret.id
  BY Zenon
<1>2. /\ ret.pc = "fresh" /\ ret' = [ret EXCEPT !.pc = "send", !.targets = Live(i)]
      /\ paths' = [paths EXCEPT ![i] = [e \in Live(i) |-> paths[i][e]]]
      /\ UNCHANGED recorded
      /\ UNCHANGED <<sessionVars, allocVars, clock, serve, auth, wrote>>
  BY <1>1, Zenon DEF ReturnFresh, Fresh
<1>3. /\ serve \in ServeType /\ ret \in RetType /\ wrote \in [Keys \X Numbers -> Nat]
      /\ i \in SessionIds /\ RW.pc = "idle" /\ DOMAIN paths = SessionIds
      /\ clock \in Nat /\ TTL \in Nat
      /\ DOMAIN paths[i] \subseteq auth[i] /\ auth[i] \subseteq Endpoints
  BY <1>1, <1>2, TTLAssumption, Zenon DEF GatewayInv, TableInv, Returning, PathInv
<1>4. /\ Live(i) \subseteq auth[i] /\ Live(i) \in SUBSET Endpoints
      /\ Live(i) \subseteq DOMAIN paths[i]
  BY <1>3, Zenon DEF Live
<1>5. /\ ret' \in RetType /\ ret'.pc = "send" /\ ret'.targets = Live(i) /\ ret'.id = i
      /\ ret'.dst = ret.dst /\ ret'.key = ret.key
  BY <1>1, <1>2, <1>3, <1>4, Zenon DEF RetType
<1>6. LoopStep
  BY <1>2, <1>3, <1>5, Zenon DEF LoopStep
<1>7. Returning'
  <2>1. UNCHANGED <<keys, forward, auth>>
    BY <1>2 DEF sessionVars, vars, tableVars, allocVars
  <2>2. RW' = RW
    BY <1>6, LoopGrows
  <2>3. ret.dst # 0 /\ forward[i] = ret.dst /\ keys[i] = ret.key
    BY <1>1, <1>2 DEF GatewayInv, Returning
  <2> QED
    BY <1>3, <1>4, <1>5, <2>1, <2>2, <2>3, Zenon DEF Returning
<1>8. PathInv'
  <2>1. /\ DOMAIN paths' = SessionIds /\ DOMAIN paths'[i] = Live(i)
        /\ \A e \in Live(i) : paths'[i][e] = paths[i][e]
        /\ \A j \in SessionIds \ {i} : paths'[j] = paths[j]
    BY <1>2, <1>3
  <2>2. ASSUME NEW e \in Endpoints \ Live(i)
        PROVE  recorded[i][e] = -1 \/ recorded[i][e] <= clock - TTL
    <3>1. CASE e \in DOMAIN paths[i]
      <4>1. ~(paths[i][e] > clock - TTL)
        BY <2>2, <3>1, Zenon DEF Live
      <4>2. paths[i][e] = recorded[i][e] /\ recorded[i][e] \in 0..clock
        BY <1>3, <3>1, Zenon DEF GatewayInv, PathInv
      <4> QED
        BY <1>3, <4>1, <4>2
    <3>2. CASE e \notin DOMAIN paths[i]
      BY <1>3, <2>2, <3>2, Zenon DEF GatewayInv, PathInv
    <3> QED
      BY <3>1, <3>2, Zenon
  <2>3. ASSUME NEW e \in Live(i)
        PROVE  paths'[i][e] = recorded[i][e] /\ recorded[i][e] \in 0..clock
    BY <1>3, <1>4, <2>1, <2>3, Zenon DEF GatewayInv, PathInv
  <2>4. ASSUME NEW j \in SessionIds
        PROVE  /\ DOMAIN paths'[j] \subseteq auth[j] /\ auth[j] \subseteq Uplinks[j]
               /\ \A e \in DOMAIN paths'[j] :
                    paths'[j][e] = recorded[j][e] /\ recorded[j][e] \in 0..clock
               /\ \A e \in Endpoints \ DOMAIN paths'[j] :
                    recorded[j][e] = -1 \/ recorded[j][e] <= clock - TTL
    <3>1. CASE j = i
      BY <1>4, <2>1, <2>2, <2>3, <3>1, Zenon DEF GatewayInv, PathInv
    <3>2. CASE j # i
      <4>1. paths'[j] = paths[j]
        BY <2>1, <3>2
      <4> QED
        BY <4>1, Zenon DEF GatewayInv, PathInv
    <3> QED
      BY <3>1, <3>2, Zenon
  <2>5. /\ clock' = clock /\ recorded' = recorded /\ auth' = auth /\ clock \in Nat
        /\ recorded \in [SessionIds -> [Endpoints -> Int]]
    BY <1>2, Zenon DEF GatewayInv, PathInv
  <2> QED
    BY <2>1, <2>4, <2>5, ZenonT(30) DEF PathInv
<1> QED
  BY <1>2, <1>6, <1>7, <1>8, ReturnLoopInv

-----------------------------------------------------------------------------
(* ServeReturn looks up whose address a packet is for. *)
LEMMA ReturnLookupInv ==
  ASSUME GatewayInv, NEW dst \in Addresses, ReturnLookup(dst) PROVE GatewayInv'
<1>1. PICK id \in reverse[dst] :
        /\ Call("return", id, 0, 0)
        /\ ret' = [Waiting EXCEPT !.pc = "frame", !.dst = dst, !.id = id]
  BY Zenon DEF ReturnLookup, Lookup
<1>2. PICK c, r : /\ c = [Idle EXCEPT !.pc = "lookup", !.id = id, !.key = 0, !.number = 0]
                  /\ r = [Waiting EXCEPT !.pc = "frame", !.dst = dst, !.id = id]
  BY Zenon
<1>3. /\ worker' = [worker EXCEPT !["return"] = c] /\ ret' = r
      /\ UNCHANGED <<keys, sessions, objects, minted, dmu, answered>>
      /\ UNCHANGED <<allocVars, pathVars, clock, serve, auth, wrote>>
      /\ UNCHANGED forward
  BY <1>1, <1>2, Zenon DEF ReturnLookup, Call, tableVars, history, allocVars
<1>4. dst # 0 /\ forward[id] = dst /\ id \in SessionIds
  <2>1. dst # 0 /\ forward[id] = dst
    BY <1>1 DEF GatewayInv, AllocInv
  <2>2. id \in LeaseIds
    BY <1>1, Zenon DEF GatewayInv, AllocInv, LeaseInv, AllocTypeOK
  <2> QED
    BY <2>1, <2>2 DEF GatewayInv, AllocInv
<1>0. 0 \in 0..MaxKeys /\ 0 \in 0..MaxKeys \cup {Corrupt} /\ id \in SessionIds \cup {0}
  BY <1>4, BoundAssumption
<1>5. c \in CallType /\ c.pc = "lookup" /\ c.id = id /\ c.key = 0
  BY <1>2, <1>0, Zenon DEF CallType, Idle
<1>6. r \in RetType /\ r.pc = "frame" /\ r.dst = dst /\ r.id = id /\ r.targets = {}
  <2>1. /\ r.pc = "frame" /\ r.dst = dst /\ r.id = id /\ r.targets = {}
        /\ r = [pc |-> "frame", dst |-> dst, id |-> id, key |-> 0, targets |-> {}]
    BY <1>2, Zenon DEF Waiting
  <2>2. [pc |-> "frame", dst |-> dst, id |-> id, key |-> 0, targets |-> {}] \in RetType
    BY <1>0, Zenon DEF RetType
  <2> QED
    BY <2>1, <2>2, Zenon
<1>7. worker' \in [Workers -> CallType] /\ RW' = c /\ SW' = SW
  BY <1>3, <1>5, CallMoves, TwoLoops, Zenon DEF GatewayInv, SW, RW
<1>8. Grows
  BY <1>3, GrowsQuiet, Zenon
<1>9. TableInv'
  BY <1>3, <1>6, <1>7, Zenon DEF GatewayInv, TableInv
<1>10. Returning'
  BY <1>3, <1>4, <1>5, <1>6, <1>7, Zenon DEF Returning
<1>11. Serving' /\ Written'
  BY <1>3, <1>7, <1>8, ServingQuiet, WrittenQuiet, Zenon
<1>12. Leased' /\ AllocInv' /\ PathInv'
  BY <1>3, <1>7, CallKeeps, Zenon DEF CallStep
<1>13. Cached'
  <2>1. \A w \in Workers : worker'[w] = worker[w] \/ worker'[w].pc = "lookup"
    BY <1>5, <1>7, TwoLoops, Zenon DEF SW, RW
  <2> QED
    BY <1>3, <1>8, <2>1, CachedQuiet, Zenon
<1> QED
  BY <1>9, <1>10, <1>11, <1>12, <1>13, Zenon DEF GatewayInv

(* The bound on numbers: the call ends with nothing sealed. *)
LEMMA ReturnBoundInv == ASSUME GatewayInv, ReturnBound PROVE GatewayInv'
<1>1. /\ worker' = [worker EXCEPT !["return"] = Idle]
      /\ UNCHANGED <<keys, sessions, objects, minted, dmu, answered>>
      /\ UNCHANGED <<allocVars, pathVars, clock, loops, auth, wrote>>
      /\ serve' = serve /\ ret' = ret /\ UNCHANGED forward
  BY Zenon DEF ReturnBound, OutboundBound, tableVars, history, loops, allocVars
<1>2. worker' \in [Workers -> CallType] /\ RW' = Idle /\ SW' = SW /\ Idle.pc = "idle"
  BY <1>1, CallMoves, IdleFacts, TwoLoops, Zenon DEF GatewayInv, SW, RW
<1>3. Grows
  BY <1>1, GrowsQuiet, Zenon
<1>4. TableInv'
  BY <1>1, <1>2, Zenon DEF GatewayInv, TableInv
<1>5. Returning'
  BY <1>1, <1>2, Zenon DEF GatewayInv, Returning
<1>6. Serving' /\ Written'
  BY <1>1, <1>2, <1>3, ServingQuiet, WrittenQuiet, Zenon
<1>7. Leased' /\ AllocInv' /\ PathInv'
  BY <1>1, <1>2, CallKeeps, Zenon DEF CallStep
<1>8. Cached'
  <2>1. \A w \in Workers : worker'[w] = worker[w] \/ worker'[w].pc = "idle"
    BY <1>2, TwoLoops DEF SW, RW
  <2> QED
    BY <1>1, <1>3, <2>1, CachedQuiet, Zenon
<1> QED
  BY <1>4, <1>5, <1>6, <1>7, <1>8 DEF GatewayInv

\* A session found is used: its record j goes on as o, the call of w ends.
UseStep(w, j, o) ==
  /\ objects' = [objects EXCEPT ![j] = o] /\ worker' = [worker EXCEPT ![w] = Idle]
  /\ UNCHANGED <<keys, sessions, minted, dmu, answered, forward>>
  /\ j \in 1..Len(objects) /\ o \in ObjectType
  /\ o.id = objects[j].id /\ o.key = objects[j].key /\ objects[j].seen \subseteq o.seen

(* The cache is as good as before. *)
LEMMA UseKeeps ==
  ASSUME GatewayInv, NEW w \in Workers, NEW j, NEW o, UseStep(w, j, o)
  PROVE  /\ objects' \in Seq(ObjectType) /\ Len(objects') = Len(objects)
         /\ objects'[j] = o /\ Cached' /\ \A k, n : Kept(k, n) => Kept(k, n)'
         /\ worker' \in [Workers -> CallType] /\ worker'[w] = Idle
         /\ \A v \in Workers \ {w} : worker'[v] = worker[v]
<1>1. /\ objects' = [objects EXCEPT ![j] = o] /\ worker' = [worker EXCEPT ![w] = Idle]
      /\ UNCHANGED <<keys, sessions, minted, dmu, answered, forward>>
      /\ j \in 1..Len(objects) /\ o \in ObjectType
      /\ o.id = objects[j].id /\ o.key = objects[j].key /\ objects[j].seen \subseteq o.seen
  BY Zenon DEF UseStep
<1>2. objects \in Seq(ObjectType) /\ sessions \in [SessionIds -> 0..Len(objects)]
  BY Zenon DEF GatewayInv, TableInv
<1>3. /\ objects' \in Seq(ObjectType) /\ Len(objects') = Len(objects) /\ objects'[j] = o
      /\ \A x \in 1..Len(objects) : x # j => objects'[x] = objects[x]
  BY <1>1, <1>2
<1>4. \A x \in 1..Len(objects) :
        /\ objects'[x].id = objects[x].id /\ objects'[x].key = objects[x].key
        /\ objects[x].seen \subseteq objects'[x].seen
  BY <1>1, <1>3, Zenon
<1>5. /\ worker' \in [Workers -> CallType] /\ worker'[w] = Idle /\ Idle.pc = "idle"
      /\ \A v \in Workers \ {w} : worker'[v] = worker[v]
  BY <1>1, CallMoves, IdleFacts, Zenon DEF GatewayInv
<1>6. ASSUME NEW k, NEW n, Kept(k, n) PROVE Kept(k, n)'
  BY <1>3, <1>4, <1>6, Zenon DEF Kept
<1>7. ASSUME NEW v \in Workers PROVE Filled(v, worker[v])'
  <2>1. CASE v = w
    BY <1>5, <2>1, Zenon DEF Filled
  <2>2. CASE v # w
    <3>1. worker'[v] = worker[v] /\ Filled(v, worker[v])
      BY <1>5, <2>2, Zenon DEF GatewayInv, Cached
    <3> QED
      BY <1>1, <1>3, <1>4, <3>1, Zenon DEF Filled
  <2> QED
    BY <2>1, <2>2
<1>8. Cached'
  <2>1. ASSUME NEW x \in 1..Len(objects')
        PROVE  /\ sessions'[objects'[x].id] = x
               /\ objects'[x].key = keys'[objects'[x].id] /\ forward'[objects'[x].id] # 0
    <3>1. /\ x \in 1..Len(objects) /\ objects'[x].id = objects[x].id
          /\ objects'[x].key = objects[x].key
      BY <1>3, <1>4, Zenon
    <3>2. /\ sessions[objects[x].id] = x /\ objects[x].key = keys[objects[x].id]
          /\ forward[objects[x].id] # 0
      BY <3>1, Zenon DEF GatewayInv, Cached
    <3> QED
      BY <1>1, <3>1, <3>2, Zenon
  <2>2. ASSUME NEW i \in SessionIds, sessions'[i] # 0 PROVE objects'[sessions'[i]].id = i
    <3>1. sessions[i] # 0
      BY <1>1, <2>2, Zenon
    <3>2. sessions[i] \in 1..Len(objects)
      BY <3>1, CachedIndex, Zenon DEF GatewayInv
    <3>3. objects[sessions[i]].id = i
      BY <3>1, Zenon DEF GatewayInv, Cached
    <3> QED
      BY <1>1, <1>4, <3>2, <3>3, Zenon
  <2> QED
    BY <1>7, <2>1, <2>2, Zenon DEF Cached
<1> QED
  BY <1>3, <1>5, <1>6, <1>8, Zenon

(* The session found seals the next packet of ServeReturn. *)
LEMMA ReturnFrameInv == ASSUME GatewayInv, ReturnFrame PROVE GatewayInv'
<1>1. PICK j : j = RW.obj
  BY Zenon
<1>2. /\ ret.pc = "frame" /\ RW.pc = "outbound"
      /\ objects' = [objects EXCEPT ![j].next = @ + 1]
      /\ worker' = [worker EXCEPT !["return"] = Idle]
      /\ ret' = [ret EXCEPT !.pc = "fresh", !.key = objects[j].key]
      /\ UNCHANGED <<keys, sessions, minted, dmu, answered>>
      /\ UNCHANGED <<allocVars, pathVars, clock, serve, auth, wrote>>
      /\ UNCHANGED forward
  BY <1>1, Zenon DEF ReturnFrame, Outbound, RW, allocVars
<1>3. /\ j \in 1..Len(objects) /\ objects[j].id = RW.id /\ RW.id = ret.id
      /\ ret.id \in SessionIds
  BY <1>1, <1>2, TwoLoops, Zenon DEF GatewayInv, Cached, Filled, Returning, RW
<1>4. PICK o : o = [objects[j] EXCEPT !.next = @ + 1]
  BY Zenon
<1>5. /\ o \in ObjectType /\ o.id = objects[j].id /\ o.key = objects[j].key
      /\ o.seen = objects[j].seen
  <2>1. objects[j] \in ObjectType
    BY <1>3, ObjectFacts DEF GatewayInv
  <2> QED
    BY <1>4, <2>1 DEF ObjectType
<1>6. UseStep("return", j, o)
  <2>1. objects \in Seq(ObjectType)
    BY DEF GatewayInv, TableInv
  <2>2. objects' = [objects EXCEPT ![j] = o]
    BY <1>2, <1>3, <1>4, <2>1
  <2> QED
    BY <1>2, <1>3, <1>5, <2>2, Zenon DEF UseStep
<1>7. "return" \in Workers
  BY TwoLoops, Zenon
<1>8. /\ objects' \in Seq(ObjectType) /\ Len(objects') = Len(objects)
      /\ Cached' /\ \A k, n : Kept(k, n) => Kept(k, n)'
      /\ worker' \in [Workers -> CallType] /\ RW' = Idle /\ SW' = SW
  BY <1>6, <1>7, UseKeeps, TwoLoops DEF SW, RW
<1>9. Grows
  BY <1>2, <1>8 DEF Grows
<1>10. objects[j].key = keys[ret.id] /\ objects[j].key \in 0..MaxKeys
  <2>1. objects[j].key = keys[ret.id]
    <3>1. \A k \in 1..Len(objects) : objects[k].key = keys[objects[k].id]
      BY Zenon DEF GatewayInv, Cached
    <3> QED
      BY <1>3, <3>1, Zenon
  <2>2. keys[ret.id] \in 0..MaxKeys
    BY <1>3, Zenon DEF GatewayInv, TableInv
  <2> QED
    BY <2>1, <2>2, Zenon
<1>11. /\ ret' \in RetType /\ ret'.pc = "fresh" /\ ret'.key = keys[ret.id]
       /\ ret'.id = ret.id /\ ret'.dst = ret.dst /\ ret'.targets = ret.targets
  <2>1. ret \in RetType
    BY DEF GatewayInv, TableInv
  <2> QED
    BY <1>2, <1>10, <2>1, Zenon DEF RetType
<1>12. TableInv'
  BY <1>2, <1>8, <1>11, Zenon DEF GatewayInv, TableInv
<1>13. Returning'
  BY <1>2, <1>8, <1>11, IdleFacts DEF GatewayInv, Returning
<1>14. Serving' /\ Written'
  BY <1>2, <1>8, <1>9, ServingQuiet, WrittenQuiet
<1>15. Leased' /\ AllocInv' /\ PathInv'
  BY <1>2, <1>8, CallKeeps, Zenon DEF CallStep
<1> QED
  BY <1>8, <1>12, <1>13, <1>14, <1>15 DEF GatewayInv

(* The session objects have different keys: their replay windows are not
   windows on the same packets. *)
LEMMA OneWindow ==
  ASSUME GatewayInv, NEW j \in 1..Len(objects), NEW k \in 1..Len(objects),
         objects[j].key = objects[k].key
  PROVE  j = k
<1>1. /\ objects[j].id \in SessionIds /\ objects[k].id \in SessionIds
      /\ objects[j].key \in Keys
  BY ObjectFacts DEF GatewayInv
<1>2. /\ objects[j].key = keys[objects[j].id] /\ objects[k].key = keys[objects[k].id]
      /\ sessions[objects[j].id] = j /\ sessions[objects[k].id] = k
  BY Zenon DEF GatewayInv, Cached
<1>3. keys[objects[j].id] # 0
  <2>1. \A x \in Keys : x # 0
    BY DEF Keys
  <2> QED
    BY <1>1, <1>2, <2>1, Zenon
<1>4. objects[j].id = objects[k].id
  BY <1>1, <1>2, <1>3, Zenon DEF GatewayInv, Leased
<1> QED
  BY <1>2, <1>4, Zenon

(* The session found opens a datagram of Serve, or does not. *)
LEMMA ServeInboundInv == ASSUME GatewayInv, ServeInbound PROVE GatewayInv'
<1>1. PICK j, id, key, number, from :
        /\ j = SW.obj /\ id = serve.id /\ key = serve.key
        /\ number = serve.number /\ from = serve.from
  BY Zenon
<1>2. SW.pc = "inbound"
  BY Zenon DEF ServeInbound, Inbound, SW
<1>3. /\ serve.pc = "data" /\ SW.key = key /\ SW.number = number /\ SW.id = id
      /\ id \in SessionIds /\ j \in 1..Len(objects) /\ objects[j].id = id
      /\ serve \in ServeType /\ ret \in RetType /\ objects \in Seq(ObjectType)
  BY <1>1, <1>2, TwoLoops, Zenon DEF GatewayInv, TableInv, Serving, Cached, Filled, SW
<1>4. /\ objects[j] \in ObjectType /\ objects[j].key \in Keys
      /\ objects[j].seen \in SUBSET Numbers
  BY <1>3, ObjectFacts, Zenon DEF GatewayInv
<1>5. /\ worker' = [worker EXCEPT !["serve"] = Idle]
      /\ UNCHANGED <<keys, sessions, minted, dmu, answered>>
      /\ UNCHANGED <<allocVars, pathVars, clock, ret, wrote>> /\ UNCHANGED forward
  BY DEF ServeInbound, Inbound, allocVars
<1>6. objects' = IF objects[j].key = key /\ number \notin objects[j].seen
                 THEN [objects EXCEPT ![j].seen = @ \cup {number}] ELSE objects
  BY <1>1, <1>3, Zenon DEF ServeInbound, Inbound, SW
<1>7. /\ serve' = IF objects[j].key = key
                  THEN [serve EXCEPT !.pc = "record", !.first = number \notin objects[j].seen]
                  ELSE Reading
      /\ auth' = IF objects[j].key = key THEN [auth EXCEPT ![id] = @ \cup {from}] ELSE auth
  BY <1>1 DEF ServeInbound, Opens, FirstCopy, SW
<1>8. "serve" \in Workers
  BY TwoLoops, Zenon
<1>9. auth \in [SessionIds -> SUBSET Endpoints] /\ wrote \in [Keys \X Numbers -> Nat]
  BY Zenon DEF GatewayInv, TableInv
<1>10. CASE objects[j].key # key
  <2>1. objects' = objects /\ serve' = Reading /\ auth' = auth
    BY <1>6, <1>7, <1>10, Zenon
  <2>2. UseStep("serve", j, objects[j])
    <3>1. objects = [objects EXCEPT ![j] = objects[j]]
      BY <1>3
    <3> QED
      BY <1>3, <1>4, <1>5, <2>1, <3>1, Zenon DEF UseStep
  <2>3. /\ Cached' /\ worker' \in [Workers -> CallType] /\ SW' = Idle /\ RW' = RW
    BY <1>8, <2>2, UseKeeps, TwoLoops, Zenon DEF SW, RW
  <2>4. Grows
    BY <1>5, <2>1, GrowsQuiet
  <2>5. TableInv'
    BY <1>5, <2>1, <2>3, LoopRecords, Zenon DEF GatewayInv, TableInv
  <2>6. Serving'
    BY <2>1, <2>3, IdleFacts, LoopRecords, Zenon DEF Serving
  <2>7. Returning' /\ Written'
    BY <1>5, <2>1, <2>3, <2>4, LoopRecords, ReturningQuiet, WrittenQuiet, Zenon
  <2>8. Leased' /\ AllocInv' /\ PathInv'
    BY <1>2, <1>5, <2>1, <2>3, IdleFacts, CallKeeps, Zenon DEF CallStep
  <2> QED
    BY <2>3, <2>5, <2>6, <2>7, <2>8 DEF GatewayInv
<1>11. CASE objects[j].key = key
  <2>1. /\ key \in Keys /\ key # 0 /\ <<id, key>> \in answered /\ number \in Numbers
        /\ from \in Uplinks[id] /\ from \in Endpoints
    BY <1>1, <1>3, <1>4, <1>11, ClientsAssumption, Zenon DEF GatewayInv, Serving
  <2>2. PICK o : o = [objects[j] EXCEPT !.seen = @ \cup {number}]
    BY Zenon
  <2>3. /\ o \in ObjectType /\ o.id = id /\ o.key = key
        /\ o.seen = objects[j].seen \cup {number}
    BY <1>3, <1>4, <1>11, <2>1, <2>2, Zenon DEF ObjectType
  <2>4. objects' = [objects EXCEPT ![j] = o]
    <3>1. CASE number \notin objects[j].seen
      BY <1>3, <1>6, <1>11, <2>2, <3>1
    <3>2. CASE number \in objects[j].seen
      <4>1. o = objects[j]
        <5>1. objects[j].seen \cup {number} = objects[j].seen
          BY <3>2
        <5> QED
          BY <1>4, <2>2, <5>1, Zenon DEF ObjectType
      <4> QED
        BY <1>3, <1>6, <3>2, <4>1
    <3> QED
      BY <3>1, <3>2
  <2>5. UseStep("serve", j, o)
    BY <1>3, <1>5, <1>11, <2>3, <2>4, Zenon DEF UseStep
  <2>6. /\ objects' \in Seq(ObjectType) /\ Len(objects') = Len(objects)
        /\ objects'[j] = o /\ Cached' /\ \A k, n : Kept(k, n) => Kept(k, n)'
        /\ worker' \in [Workers -> CallType] /\ SW' = Idle /\ RW' = RW
    BY <1>8, <2>5, UseKeeps, TwoLoops DEF SW, RW
  <2>7. /\ auth' \in [SessionIds -> SUBSET Endpoints] /\ auth'[id] = auth[id] \cup {from}
        /\ \A i \in SessionIds \ {id} : auth'[i] = auth[i]
    BY <1>3, <1>7, <1>9, <1>11, <2>1
  <2>8. Grows
    BY <1>5, <2>6, <2>7, Zenon DEF Grows
  <2>9. /\ serve' \in ServeType /\ serve'.pc = "record" /\ serve'.id = id
        /\ serve'.key = key /\ serve'.number = number /\ serve'.from = from
    BY <1>1, <1>3, <1>7, <1>11, Zenon DEF ServeType
  <2>10. serve'.first <=> number \notin objects[j].seen
    BY <1>3, <1>7, <1>11, Zenon DEF ServeType
  <2>11. TableInv'
    BY <1>5, <2>6, <2>7, <2>9, Zenon DEF GatewayInv, TableInv
  <2>12. Kept(key, number)'
    BY <1>3, <2>3, <2>6, Zenon DEF Kept
  <2>13. Serving'
    BY <1>3, <1>5, <2>1, <2>6, <2>7, <2>9, <2>12, IdleFacts, Zenon DEF Serving
  <2>14. Returning'
    BY <1>5, <2>6, <2>8, ReturningQuiet
  <2>15. Written'
    <3> SUFFICES ASSUME NEW k \in Keys, NEW n \in Numbers, wrote[<<k, n>>] # 0
                 PROVE  /\ Kept(k, n)'
                        /\ key = k /\ number = n => number \in objects[j].seen
      BY <1>5, <2>9, <2>10, Zenon DEF Written
    <3>1. Kept(k, n)
      BY Zenon DEF GatewayInv, Written
    <3>2. PICK x \in 1..Len(objects) : objects[x].key = k /\ n \in objects[x].seen
      BY <3>1 DEF Kept
    <3>3. key = k => x = j
      BY <1>3, <1>11, <3>2, OneWindow, Zenon
    <3> QED
      BY <2>6, <3>1, <3>2, <3>3, Zenon
  <2>16. UNCHANGED <<keys, forward, minted, answered>> /\ Leased' /\ AllocInv'
    BY <1>2, <1>5, <2>6, IdleFacts, LeasedQuiet, AllocQuiet
  <2>17. PathInv'
    <3>1. UNCHANGED <<paths, recorded, clock>>
      BY <1>5 DEF pathVars
    <3>2. \A i \in SessionIds : DOMAIN paths[i] \subseteq auth[i] /\ auth[i] \subseteq Uplinks[i]
      BY Zenon DEF GatewayInv, PathInv
    <3>3. \A i \in SessionIds : DOMAIN paths[i] \subseteq auth'[i] /\ auth'[i] \subseteq Uplinks[i]
      BY <2>1, <2>7, <3>2, Zenon
    <3> QED
      BY <3>1, <3>3, Zenon DEF GatewayInv, PathInv
  <2> QED
    BY <2>6, <2>11, <2>13, <2>14, <2>15, <2>16, <2>17 DEF GatewayInv
<1> QED
  BY <1>10, <1>11

-----------------------------------------------------------------------------
(* Every step of the gateway. *)
LEMMA NextGatewayInv == GatewayInv /\ [GatewayNext]_gatewayVars => GatewayInv'
<1> SUFFICES ASSUME GatewayInv, [GatewayNext]_gatewayVars PROVE GatewayInv'
  OBVIOUS
<1>1. CASE Arrivals
  <2>1. CASE \E id \in SessionIds : ServeHello(id)
    BY <2>1, ServeHelloInv
  <2>2. CASE \E a \in answered : \E n \in Packets[a[1]], e \in Uplinks[a[1]] :
               ServeData(a[1], a[2], n, e)
    <3>1. PICK a \in answered : \E n \in Packets[a[1]], e \in Uplinks[a[1]] :
                                  ServeData(a[1], a[2], n, e)
      BY <2>2, Zenon
    <3>2. a \in SessionIds \X Keys
      BY DEF GatewayInv, TableInv
    <3>3. PICK id \in SessionIds, key \in Keys : a = <<id, key>>
      BY <3>2
    <3>4. PICK n \in Packets[id], e \in Uplinks[id] : ServeData(id, key, n, e)
      BY <3>1, <3>3, Zenon
    <3>5. n \in Numbers /\ n \in Nat /\ e \in Endpoints
      BY ClientsAssumption DEF Numbers
    <3> QED
      BY <3>3, <3>4, <3>5, ServeDataInv, Zenon
  <2>3. CASE \E s \in Strays : ServeData(s[1], Corrupt, 1, s[2])
    <3>1. PICK s \in Strays : ServeData(s[1], Corrupt, 1, s[2])
      BY <2>3, Zenon
    <3>2. PICK id \in SessionIds, e \in Endpoints : s = <<id, e>>
      BY ClientsAssumption
    <3>3. ServeData(id, Corrupt, 1, e)
      BY <3>1, <3>2
    <3>4. Corrupt \notin Keys
      BY DEF Corrupt, Keys
    <3> QED
      BY <3>3, <3>4, ServeDataInv, Zenon
  <2>4. CASE (\E dst \in Addresses : ReturnLookup(dst)) \/ ReturnDrop
    BY <2>4, ReturnLookupInv, ReturnEndsInv, Zenon
  <2> QED
    BY <1>1, <2>1, <2>2, <2>3, <2>4, Zenon DEF Arrivals
<1>2. CASE ServeStep
  BY <1>2, ServeRegisterInv, ServeLeaseInv, ServeLeaseFailsInv, ServeEndsInv,
     ServeInboundInv, ServeRecordInv, EgressWriteInv, Zenon DEF ServeStep
<1>3. CASE ReturnStep \/ ReturnReturns
  BY <1>3, ReturnFrameInv, ReturnEndsInv, ReturnBoundInv, ReturnFreshInv DEF ReturnStep
<1>4. CASE SessionFor
  BY <1>4, SessionForInv
<1>5. CASE ServeFails
  BY <1>5, ServeFailsInv
<1>6. CASE TimePasses
  BY <1>6, TimePassesInv
<1>7. CASE Shutdown \/ Cancel \/ Terminated \/ UNCHANGED gatewayVars
  BY <1>7, SystemInv DEF Shutdown
<1> QED
  BY <1>1, <1>2, <1>3, <1>4, <1>5, <1>6, <1>7 DEF GatewayNext

(* The invariant of the gateway: tables, leases, cache, path set, both loops
   and the history of the device, in every reachable state. *)
THEOREM GatewayInvariance == GatewaySpec => []GatewayInv
  BY InitGatewayInv, NextGatewayInv, PTL DEF GatewaySpec

(* Admission is fail-closed (datagateway.go, handleHandshake): between two
   datagrams a session has a key exactly when it has a lease, every answered
   client has both, and a cached session holds the registered key. *)
THEOREM AdmittedHasLeaseTheorem == GatewaySpec => []AdmittedHasLease
<1>1. ASSUME GatewayInv PROVE AdmittedHasLease
  <2>1. AtRead => SW.pc # "lease"
    BY Zenon DEF AtRead, SW
  <2>2. AtRead => \A i \in SessionIds : keys[i] # 0 <=> forward[i] # 0
    BY <1>1, <2>1, Zenon DEF GatewayInv, Leased
  <2>3. \A a \in answered : keys[a[1]] = a[2] /\ forward[a[1]] # 0
    BY <1>1 DEF GatewayInv, Leased
  <2>4. ASSUME NEW i \in SessionIds, sessions[i] # 0
        PROVE  objects[sessions[i]].key = keys[i]
    <3>1. sessions[i] \in 1..Len(objects)
      BY <1>1, <2>4, CachedIndex, Zenon DEF GatewayInv
    <3> QED
      BY <1>1, <2>4, <3>1, Zenon DEF GatewayInv, Cached
  <2> QED
    BY <2>2, <2>3, <2>4, Zenon DEF AdmittedHasLease
<1> QED
  BY <1>1, GatewayInvariance, PTL

(* A packet from the device is sealed for the session that holds its
   destination address and goes only to endpoints that session was opened
   from (router.go and pathset.go together with the data plane). *)
THEOREM ReturnToOwnerTheorem == GatewaySpec => []ReturnToOwner
<1>1. ASSUME GatewayInv PROVE ReturnToOwner
  <2> SUFFICES ASSUME ret.pc \in {"fresh", "send"}
               PROVE  /\ forward[ret.id] = ret.dst /\ keys[ret.id] = ret.key
                      /\ ret.targets \subseteq auth[ret.id]
                      /\ auth[ret.id] \subseteq Uplinks[ret.id]
    BY ZenonT(30) DEF ReturnToOwner
  <2>1. /\ ret.id \in SessionIds /\ forward[ret.id] = ret.dst /\ keys[ret.id] = ret.key
        /\ ret.targets \subseteq auth[ret.id]
    BY <1>1 DEF GatewayInv, Returning
  <2> QED
    BY <1>1, <2>1, Zenon DEF GatewayInv, PathInv
<1> QED
  BY <1>1, GatewayInvariance, PTL

(* ServeReturn duplicates a packet to exactly the endpoints recorded less than
   TTL ago (pathset.go, Fresh), whatever was pruned or refreshed before. *)
THEOREM FreshExactTheorem == GatewaySpec => FreshExact
<1> DEFINE A == (ret.pc = "fresh" /\ ret'.pc = "send") =>
                  ret'.targets = {e \in Endpoints : /\ recorded[ret.id][e] >= 0
                                                    /\ clock - recorded[ret.id][e] < TTL}
<1>1. GatewayInv /\ [GatewayNext]_gatewayVars => [A]_gatewayVars
  <2> SUFFICES ASSUME GatewayInv, GatewayNext, ret.pc = "fresh", ret'.pc = "send"
               PROVE  ret'.targets = {e \in Endpoints : /\ recorded[ret.id][e] >= 0
                                                        /\ clock - recorded[ret.id][e] < TTL}
    OBVIOUS
  <2>1. ReturnFresh
    <3>1. ret' # ret
      OBVIOUS
    <3>2. ~ServeFails
      BY Zenon DEF ServeFails, Waiting
    <3> QED
      BY <3>1, <3>2, Zenon
          DEF GatewayNext, Arrivals, ServeStep, ReturnStep, Shutdown, SessionFor,
         ServeHello, ServeData, ReturnLookup, ReturnDrop, ReturnRead, ServeRegister,
         ServeLease, ServeLeaseFails,
         ServeUnknown, ServeInbound, ServeRecord, EgressDrop, EgressWrite, ServeReturns,
         ReturnFrame, ReturnUnframed, ReturnBound, ReturnSend, ReturnSent, ReturnReturns,
         CloseConn, CloseDevice, Cancel, TimePasses, Terminated, loops, gatewayVars
  <2>2. ret'.targets = Live(ret.id) /\ ret.id \in SessionIds
    BY <2>1 DEF ReturnFresh, GatewayInv, TableInv, RetType, Returning
  <2>3. PICK i \in SessionIds : i = ret.id
    BY <2>2, Zenon
  <2>4. /\ DOMAIN paths[i] \subseteq Endpoints /\ clock \in Nat /\ TTL \in Nat
        /\ recorded[i] \in [Endpoints -> Int]
    BY ClientsAssumption, TTLAssumption, Zenon DEF GatewayInv, PathInv
  <2>5. ASSUME NEW e \in Endpoints
        PROVE  e \in Live(i) <=> recorded[i][e] >= 0 /\ clock - recorded[i][e] < TTL
    <3>1. CASE e \in DOMAIN paths[i]
      <4>1. paths[i][e] = recorded[i][e] /\ recorded[i][e] \in 0..clock
        BY <3>1, Zenon DEF GatewayInv, PathInv
      <4> QED
        BY <2>4, <3>1, <4>1 DEF Live
    <3>2. CASE e \notin DOMAIN paths[i]
      <4>1. recorded[i][e] \in Int /\ (recorded[i][e] = -1 \/ recorded[i][e] <= clock - TTL)
        BY <2>4, <2>5, <3>2, Zenon DEF GatewayInv, PathInv
      <4> QED
        BY <2>4, <3>2, <4>1 DEF Live
    <3> QED
      BY <3>1, <3>2, Zenon
  <2>6. Live(i) \subseteq Endpoints
    BY <2>4 DEF Live
  <2> QED
    BY <2>2, <2>3, <2>5, <2>6, Zenon
<1> QED
  BY <1>1, GatewayInvariance, PTL DEF GatewaySpec, FreshExact

(* What is written to the device came from the address leased to its session
   and was not written before (router.go, Egress), whatever copies arrived. *)
THEOREM EgressOwnOnceTheorem == GatewaySpec => EgressOwnOnce
<1> DEFINE A == \A p \in Keys \X Numbers : wrote'[p] # wrote[p] =>
                  /\ wrote[p] = 0 /\ p = <<keys[serve.id], serve.number>>
                  /\ forward[serve.id] # 0
                  /\ Inner(serve.id, p[2]) = forward[serve.id]
<1>1. GatewayInv /\ [GatewayNext]_gatewayVars => [A]_gatewayVars
  <2> SUFFICES ASSUME GatewayInv, GatewayNext, NEW p \in Keys \X Numbers,
                      wrote'[p] # wrote[p]
               PROVE  /\ wrote[p] = 0 /\ p = <<keys[serve.id], serve.number>>
                      /\ forward[serve.id] # 0
                      /\ Inner(serve.id, p[2]) = forward[serve.id]
    BY Zenon
  <2>1. EgressWrite
    <3>1. wrote' # wrote
      BY Zenon
    <3> QED
      BY <3>1, Zenon
          DEF GatewayNext, Arrivals, ServeStep, ReturnStep, Shutdown, SessionFor,
         ServeHello, ServeData, ReturnLookup, ReturnDrop, ReturnRead, ServeRegister,
         ServeLease, ServeLeaseFails,
         ServeUnknown, ServeInbound, ServeRecord, EgressDrop, ServeReturns,
         ReturnFrame, ReturnUnframed, ReturnBound, ReturnFresh, ReturnSend, ReturnSent,
         ReturnReturns, ServeFails, CloseConn, CloseDevice, Cancel, TimePasses, Terminated,
         gatewayVars
  <2>2. /\ serve.pc = "egress" /\ forward[serve.id] # 0
        /\ Inner(serve.id, serve.number) = forward[serve.id]
        /\ wrote' = [wrote EXCEPT ![<<serve.key, serve.number>>] = @ + 1]
    BY <2>1, Zenon DEF EgressWrite
  <2>3. p = <<serve.key, serve.number>>
    BY <2>2, Zenon DEF GatewayInv, TableInv
  <2>4. /\ serve.key \in Keys /\ serve.number \in Numbers /\ serve.first
        /\ <<serve.id, serve.key>> \in answered
    BY <2>2, Zenon DEF GatewayInv, Serving
  <2>5. keys[serve.id] = serve.key
    BY <2>4, Zenon DEF GatewayInv, Leased
  <2>6. wrote[p] = 0
    BY <2>2, <2>3, <2>4, Zenon DEF GatewayInv, Written
  <2> QED
    BY <2>2, <2>3, <2>5, <2>6, Zenon
<1> QED
  BY <1>1, GatewayInvariance, PTL DEF GatewaySpec, EgressOwnOnce
=============================================================================
