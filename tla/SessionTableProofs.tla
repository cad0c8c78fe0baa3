------------------------- MODULE SessionTableProofs -------------------------
(***************************************************************************)
(* Proofs about SessionTable for any number of goroutines, identities and  *)
(* keys: one delivery, no repeated nonce, and Forget is final.  First the  *)
(* inductive invariant and the steps that leave the session objects alone  *)
(* (calls, lookups, and keys that enter and leave the store), then the     *)
(* steps that make, change and drop session objects, and the theorems.     *)
(***************************************************************************)
EXTENDS SessionTable, TLAPS

Labels == {"idle", "admit", "lease", "lookup", "resolve", "create", "inbound",
           "outbound", "evict"}
CallType == [pc : Labels, id : SessionIds \cup {0}, key : 0..MaxKeys,
             number : 0..MaxNumber, obj : Nat]
ObjectType == [id : SessionIds, key : Keys, next : 0..MaxNumber,
               seen : SUBSET Numbers]

TypeInv ==
  /\ keys \in [SessionIds -> 0..MaxKeys]
  /\ objects \in Seq(ObjectType)
  /\ sessions \in [SessionIds -> 0..Len(objects)]
  /\ minted \in 0..MaxKeys
  /\ worker \in [Workers -> CallType]
  /\ answered \subseteq SessionIds \X Keys
  /\ ended \subseteq Keys
  /\ delivered \in [Keys \X Numbers -> Nat]
  /\ sealed \in [Keys \X Numbers -> Nat]

\* What a call carries at each step.
Carries(c) ==
  /\ c.pc # "idle" => c.id \in SessionIds
  /\ c.pc \in {"admit", "lease", "inbound"} => c.key \in Keys
  /\ c.pc \in {"lookup", "resolve", "create", "inbound"} /\ c.key # 0
       => c.number \in Numbers
  /\ c.pc \in {"inbound", "outbound"} => c.obj \in 1..Len(objects)
  /\ c.pc = "create" => c.obj \in Keys
CallInv == \A w \in Workers : Carries(worker[w])

\* DataPlane.mu.
Mutex ==
  \A w \in Workers : worker[w].pc \in {"resolve", "create", "evict"} => dmu = {w}

\* A key nobody has used, and where such keys are.
Fresh(k) ==
  /\ \A i \in SessionIds : keys[i] # k
  /\ \A j \in 1..Len(objects) : objects[j].key # k
  /\ \A w \in Workers : /\ worker[w].pc = "create" => worker[w].obj # k
                        /\ worker[w].pc = "evict" => worker[w].key # k
  /\ k \notin ended
Minting ==
  /\ \A k \in Keys : k > minted => Fresh(k)
  /\ \A w \in Workers, k \in Keys :
       worker[w].pc = "admit" /\ worker[w].key = k => k <= minted /\ Fresh(k)
  /\ \A v, w \in Workers :
       worker[v].pc = "admit" /\ worker[w].pc = "admit"
         /\ worker[v].key = worker[w].key => v = w

\* What holds of a call inside DataPlane.mu.
Inside(c) ==
  /\ c.pc \in {"resolve", "create"} => sessions[c.id] = 0
  /\ c.pc = "create" =>
       /\ \A j \in 1..Len(objects) : objects[j].key # c.obj
       /\ \A i \in SessionIds : keys[i] = c.obj => i = c.id
  /\ c.pc = "evict" =>
       /\ \A j \in 1..Len(objects) : objects[j].key # keys[c.id]
       /\ c.key # 0 =>
            /\ \A i \in SessionIds : keys[i] # c.key
            /\ \A j \in 1..Len(objects) :
                 objects[j].key = c.key => objects[j].id = c.id
InsideInv == \A w \in Workers : Inside(worker[w])

\* A key belongs to one identity and to one session object, which is cached
\* as long as the store has the key.
OneOwner ==
  /\ \A i, j \in SessionIds : keys[i] = keys[j] /\ keys[i] # 0 => i = j
  /\ \A i, j \in 1..Len(objects) : objects[i].key = objects[j].key => i = j
  /\ \A i \in SessionIds : sessions[i] # 0 => objects[sessions[i]].id = i
  /\ \A i \in SessionIds, j \in 1..Len(objects) :
       keys[i] = objects[j].key => sessions[i] = j

\* The histories follow the replay windows and the counters.
Counted ==
  \A k \in Keys, n \in Numbers :
    /\ delivered[<<k, n>>] =
         IF \E j \in 1..Len(objects) : objects[j].key = k /\ n \in objects[j].seen
         THEN 1 ELSE 0
    /\ sealed[<<k, n>>] =
         IF \E j \in 1..Len(objects) : objects[j].key = k /\ n <= objects[j].next
         THEN 1 ELSE 0

IInv == /\ TypeInv /\ CallInv /\ Mutex /\ Minting /\ InsideInv /\ OneOwner
        /\ Counted /\ ForgetIsFinal

(* The stated invariants follow. *)
LEMMA IInvImplies == IInv => DeliveredOnce /\ NonceNeverRepeats /\ ForgetIsFinal
<1> SUFFICES ASSUME IInv PROVE DeliveredOnce /\ NonceNeverRepeats /\ ForgetIsFinal
  OBVIOUS
<1>1. ASSUME NEW k \in Keys, NEW n \in Numbers
      PROVE  delivered[<<k, n>>] <= 1 /\ sealed[<<k, n>>] <= 1
  BY DEF IInv, Counted
<1>2. DOMAIN delivered = Keys \X Numbers /\ DOMAIN sealed = Keys \X Numbers
  BY DEF IInv, TypeInv
<1> QED
  BY <1>1, <1>2 DEF IInv, DeliveredOnce, NonceNeverRepeats

(* An idle call carries nothing and is outside every critical section. *)
LEMMA IdleFacts ==
  /\ Idle \in CallType /\ Idle.pc = "idle"
  /\ Carries(Idle) /\ Inside(Idle)
  BY BoundAssumption DEF Idle, CallType, Labels, Carries, Inside

(* Before the first call there is no key, no session and no history. *)
LEMMA InitIInv == Init => IInv
<1> SUFFICES ASSUME Init PROVE IInv
  OBVIOUS
<1>1. \A w \in Workers : worker[w] = Idle
  BY DEF Init
<1>2. TypeInv
  BY BoundAssumption, IdleFacts DEF Init, TypeInv, Keys, Numbers
<1>3. CallInv /\ InsideInv
  BY <1>1, IdleFacts DEF CallInv, InsideInv
<1>4. Len(objects) = 0 /\ ended = {} /\ \A i \in SessionIds : keys[i] = 0 /\ sessions[i] = 0
  BY DEF Init
<1>5. Mutex /\ Minting /\ OneOwner /\ ForgetIsFinal
  BY <1>1, <1>4, IdleFacts DEF Mutex, Minting, Fresh, OneOwner, ForgetIsFinal, Keys
<1>6. Counted
  BY <1>4 DEF Init, Counted
<1> QED
  BY <1>2, <1>3, <1>5, <1>6 DEF IInv

(* The object sessionFor makes for a key: nothing sealed on it, nothing accepted. *)
LEMMA NewObject ==
  \A i \in SessionIds, k \in Keys :
    /\ [id |-> i, key |-> k, next |-> 0, seen |-> {}] \in ObjectType
    /\ [id |-> i, key |-> k, next |-> 0, seen |-> {}].key = k
    /\ [id |-> i, key |-> k, next |-> 0, seen |-> {}].id = i
    /\ [id |-> i, key |-> k, next |-> 0, seen |-> {}].next = 0
    /\ [id |-> i, key |-> k, next |-> 0, seen |-> {}].seen = {}
  BY BoundAssumption DEF ObjectType

(* What the type invariant says of the session objects. *)
LEMMA ObjectFacts ==
  ASSUME TypeInv
  PROVE  /\ Len(objects) \in Nat /\ 0 \notin Keys
         /\ \A j \in 1..Len(objects) : objects[j] \in ObjectType /\ objects[j].key \in Keys
<1>1. objects \in Seq(ObjectType)
  BY DEF TypeInv
<1>2. Len(objects) \in Nat /\ \A j \in 1..Len(objects) : objects[j] \in ObjectType
  BY <1>1
<1>3. \A o \in ObjectType : o.key \in Keys
  BY DEF ObjectType
<1>4. 0 \notin Keys
  BY BoundAssumption DEF Keys
<1> QED
  BY <1>2, <1>3, <1>4

(* The histories and the objects that they follow stay as they were. *)
LEMMA CountedSame ==
  ASSUME Counted, UNCHANGED <<objects, delivered, sealed>> PROVE Counted'
  BY Zenon DEF Counted

(* One call moves and the others stay where they are. *)
LEMMA CallMoves ==
  ASSUME TypeInv, NEW w \in Workers, NEW r \in CallType,
         worker' = [worker EXCEPT ![w] = r]
  PROVE  /\ worker' \in [Workers -> CallType]
         /\ worker'[w] = r
         /\ \A v \in Workers \ {w} : worker'[v] = worker[v]
  BY DEF TypeInv

(* A step of one call that leaves the tables alone keeps the invariant when
   the call arrives with what its new place asks for: a key just minted for
   "admit", a key the store has for "create". *)
LEMMA MoveKeeps ==
  ASSUME IInv, NEW w \in Workers, NEW r \in CallType,
         worker' = [worker EXCEPT ![w] = r],
         UNCHANGED <<keys, sessions, objects, ended, delivered, sealed>>,
         minted' \in 0..MaxKeys, minted' >= minted,
         answered' \subseteq SessionIds \X Keys,
         Mutex', Carries(r), Inside(r), r.pc # "evict",
         r.pc = "admit" => minted < r.key /\ r.key <= minted',
         r.pc = "create" => \E i \in SessionIds : keys[i] = r.obj
  PROVE  IInv'
<1>1. /\ worker' \in [Workers -> CallType]
      /\ worker'[w] = r
      /\ \A v \in Workers \ {w} : worker'[v] = worker[v]
  BY CallMoves, Zenon DEF IInv
<1>2. TypeInv'
  BY <1>1 DEF IInv, TypeInv
<1>3. CallInv'
  BY <1>1 DEF IInv, CallInv, Carries
<1>4. InsideInv'
  BY <1>1 DEF IInv, InsideInv, Inside
<1>5. OneOwner' /\ Counted'
  BY DEF IInv, OneOwner, Counted
<1>6. ForgetIsFinal'
  BY <1>1 DEF IInv, ForgetIsFinal
<1>7. ASSUME NEW k \in Keys, Fresh(k) PROVE Fresh(k)'
  BY <1>1, <1>7 DEF Fresh
<1>8. Minting'
  <2>1. minted \in Int /\ minted' \in Int /\ \A v \in Workers : worker[v].key \in 0..MaxKeys
    BY BoundAssumption DEF IInv, TypeInv, CallType
  <2>2. ASSUME NEW k \in Keys, k > minted' PROVE Fresh(k)'
    BY <1>7, <2>1, <2>2, BoundAssumption DEF IInv, Minting, Keys
  <2>3. ASSUME NEW v \in Workers, NEW k \in Keys, worker'[v].pc = "admit",
               worker'[v].key = k
        PROVE  k <= minted' /\ Fresh(k)'
    <3>1. CASE v = w
      <4>1. k > minted /\ k <= minted'
        BY <1>1, <2>1, <2>3, <3>1, BoundAssumption DEF Keys
      <4> QED
        BY <4>1, <1>7 DEF IInv, Minting
    <3>2. CASE v # w
      <4>1. k <= minted /\ Fresh(k)
        BY <1>1, <2>3, <3>2 DEF IInv, Minting
      <4> QED
        BY <4>1, <1>7, <2>1 DEF Keys
    <3> QED
      BY <3>1, <3>2
  <2>4. ASSUME NEW u \in Workers, NEW v \in Workers, worker'[u].pc = "admit",
               worker'[v].pc = "admit", worker'[u].key = worker'[v].key
        PROVE  u = v
    <3>1. \A x \in Workers : worker[x].pc = "admit" => worker[x].key <= minted
      BY DEF IInv, Minting, CallInv, Carries
    <3>2. r.key \in Int
      BY BoundAssumption DEF CallType
    <3>3. CASE u # w /\ v # w
      BY <1>1, <2>4, <3>3 DEF IInv, Minting
    <3>4. CASE u = w /\ v # w
      BY <1>1, <2>1, <2>4, <3>1, <3>2, <3>4, BoundAssumption
    <3>5. CASE u # w /\ v = w
      BY <1>1, <2>1, <2>4, <3>1, <3>2, <3>5, BoundAssumption
    <3> QED
      BY <3>3, <3>4, <3>5
  <2> QED
    BY <2>2, <2>3, <2>4 DEF Minting
<1> QED
  BY <1>2, <1>3, <1>4, <1>5, <1>6, <1>8 DEF IInv

(* DataPlane.mu: a call leaves it, or was never inside. *)
LEMMA MutexKeeps ==
  ASSUME IInv, NEW w \in Workers, NEW r \in CallType,
         worker' = [worker EXCEPT ![w] = r],
         r.pc \notin {"resolve", "create", "evict"},
         \/ dmu' = dmu
         \/ dmu' = dmu \ {w} /\ worker[w].pc \in {"resolve", "create", "evict"}
  PROVE  Mutex'
<1>1. worker'[w] = r /\ \A v \in Workers \ {w} : worker'[v] = worker[v]
  BY CallMoves, Zenon DEF IInv
<1> QED
  BY <1>1 DEF IInv, Mutex

(* DataPlane.mu: a call enters it when it is free, or stays inside. *)
LEMMA MutexEnters ==
  ASSUME IInv, NEW w \in Workers, NEW r \in CallType,
         worker' = [worker EXCEPT ![w] = r], dmu' = {w},
         dmu = {} \/ worker[w].pc \in {"resolve", "create", "evict"}
  PROVE  Mutex'
<1>1. worker'[w] = r /\ \A v \in Workers \ {w} : worker'[v] = worker[v]
  BY CallMoves, Zenon DEF IInv
<1> QED
  BY <1>1 DEF IInv, Mutex

(* A call that ends, the tables as they were. *)
LEMMA IdleKeeps ==
  ASSUME IInv, NEW w \in Workers, worker' = [worker EXCEPT ![w] = Idle],
         UNCHANGED <<tableVars, minted, ended, delivered, sealed>>,
         answered' \subseteq SessionIds \X Keys,
         \/ dmu' = dmu
         \/ dmu' = dmu \ {w} /\ worker[w].pc \in {"resolve", "create", "evict"}
  PROVE  IInv'
<1>1. Mutex'
  BY IdleFacts, MutexKeeps, Zenon
<1>2. minted' \in 0..MaxKeys /\ minted' >= minted
  BY DEF IInv, TypeInv
<1> QED
  BY <1>1, <1>2, IdleFacts, MoveKeeps, Zenon DEF tableVars

(* A handshake derives the next key. *)
LEMMA DeriveKeyIInv ==
  ASSUME IInv, NEW w \in Workers, NEW id \in SessionIds, DeriveKey(w, id)
  PROVE  IInv'
<1>1. PICK r : r = [Idle EXCEPT !.pc = "admit", !.id = id, !.key = minted']
  OBVIOUS
<1>2. /\ minted \in 0..MaxKeys /\ minted' \in 0..MaxKeys /\ minted' \in Keys
      /\ minted' = minted + 1
  BY BoundAssumption DEF IInv, TypeInv, DeriveKey, Keys
<1>3. r \in CallType /\ r.pc = "admit" /\ r.id = id /\ r.key = minted'
  <2>1. r = [pc |-> "admit", id |-> id, key |-> minted', number |-> 0, obj |-> 0]
    BY <1>1, Zenon DEF Idle
  <2>2. "admit" \in Labels /\ 0 \in 0..MaxNumber
    BY BoundAssumption DEF Labels
  <2> QED
    BY <1>2, <2>1, <2>2 DEF CallType
<1>4. worker' = [worker EXCEPT ![w] = r]
  BY <1>1 DEF DeriveKey
<1>5. Carries(r) /\ Inside(r)
  BY <1>2, <1>3 DEF Carries, Inside
<1>6. /\ UNCHANGED <<keys, sessions, objects, ended, delivered, sealed, dmu>>
      /\ answered' \subseteq SessionIds \X Keys
  BY DEF DeriveKey, tableVars, history, IInv, TypeInv
<1>7. Mutex'
  BY <1>3, <1>4, <1>6, MutexKeeps, Zenon
<1>8. minted' >= minted /\ minted < r.key /\ r.key <= minted'
  BY <1>2, <1>3
<1> QED
  BY <1>2, <1>3, <1>4, <1>5, <1>6, <1>7, <1>8, MoveKeeps, Zenon

(* The ServerHello is returned. *)
LEMMA AnswerIInv ==
  ASSUME IInv, NEW w \in Workers, Answer(w) PROVE IInv'
<1>1. worker[w].id \in SessionIds /\ worker[w].key \in Keys
  BY DEF IInv, CallInv, Carries, Answer
<1>2. answered' \subseteq SessionIds \X Keys
  BY <1>1 DEF IInv, TypeInv, Answer
<1> QED
  BY <1>2, IdleKeeps, Zenon DEF Answer

(* A datagram or a return packet asks for its session. *)
LEMMA CallIInv ==
  ASSUME IInv, NEW w \in Workers, NEW id \in SessionIds, NEW key \in 0..MaxKeys,
         NEW number \in 0..MaxNumber, key # 0 => number \in Numbers,
         Call(w, id, key, number)
  PROVE  IInv'
<1>1. PICK r : r = [Idle EXCEPT !.pc = "lookup", !.id = id, !.key = key,
                                !.number = number]
  OBVIOUS
<1>2. r \in CallType /\ r.pc = "lookup" /\ r.id = id /\ r.key = key /\ r.number = number
  BY <1>1, Zenon DEF Idle, CallType, Labels
<1>3. worker' = [worker EXCEPT ![w] = r]
  BY <1>1 DEF Call
<1>4. Carries(r) /\ Inside(r)
  BY <1>2 DEF Carries, Inside
<1>5. /\ UNCHANGED <<keys, sessions, objects, ended, delivered, sealed, dmu>>
      /\ answered' \subseteq SessionIds \X Keys
      /\ minted' \in 0..MaxKeys /\ minted' >= minted
  BY DEF Call, tableVars, history, IInv, TypeInv
<1>6. Mutex'
  BY <1>2, <1>3, <1>5, MutexKeeps, Zenon
<1> QED
  BY <1>2, <1>3, <1>4, <1>5, <1>6, MoveKeeps, Zenon

(* sessionFor takes DataPlane.mu and looks in the cache. *)
LEMMA CachedIInv ==
  ASSUME IInv, NEW w \in Workers, sessionForCached(w) PROVE IInv'
<1> DEFINE c == worker[w]
<1>1. c \in CallType /\ c.pc = "lookup" /\ dmu = {} /\ Carries(c)
  BY DEF IInv, TypeInv, CallInv, sessionForCached
<1>2. c.id \in SessionIds /\ sessions[c.id] \in 0..Len(objects) /\ Len(objects) \in Nat
  BY <1>1 DEF Carries, IInv, TypeInv
<1>3. /\ UNCHANGED <<keys, sessions, objects, ended, delivered, sealed>>
      /\ answered' \subseteq SessionIds \X Keys
      /\ minted' \in 0..MaxKeys /\ minted' >= minted
  BY DEF sessionForCached, tableVars, history, IInv, TypeInv
<1>4. CASE sessions[c.id] # 0
  <2>1. PICK r : r = [c EXCEPT !.pc = After(c), !.obj = sessions[c.id]]
    OBVIOUS
  <2>2. After(c) \in {"inbound", "outbound"} /\ (After(c) = "inbound" => c.key # 0)
    BY DEF After
  <2>3. /\ r \in CallType /\ r.pc = After(c) /\ r.id = c.id /\ r.key = c.key
        /\ r.number = c.number /\ r.obj = sessions[c.id]
    <3>1. After(c) \in Labels /\ sessions[c.id] \in Nat
      BY <1>2, <2>2 DEF Labels
    <3>2. r = [pc |-> After(c), id |-> c.id, key |-> c.key, number |-> c.number,
               obj |-> sessions[c.id]]
      BY <1>1, <2>1, Zenon DEF CallType
    <3> QED
      BY <1>1, <3>1, <3>2 DEF CallType
  <2>4. worker' = [worker EXCEPT ![w] = r] /\ dmu' = dmu
    BY <1>4, <2>1, Zenon DEF sessionForCached, IInv, TypeInv
  <2>5. c.key # 0 => c.key \in Keys
    BY <1>1, BoundAssumption DEF CallType, Keys
  <2>6. Carries(r) /\ Inside(r)
    BY <1>1, <1>2, <1>4, <2>2, <2>3, <2>5 DEF Carries, Inside
  <2>7. Mutex'
    BY <2>2, <2>3, <2>4, MutexKeeps, Zenon
  <2> QED
    BY <1>3, <2>2, <2>3, <2>4, <2>6, <2>7, MoveKeeps, Zenon
<1>5. CASE sessions[c.id] = 0
  <2>1. PICK r : r = [c EXCEPT !.pc = "resolve"]
    BY Zenon
  <2>2. /\ r \in CallType /\ r.pc = "resolve" /\ r.id = c.id /\ r.key = c.key
        /\ r.number = c.number
    BY <1>1, <2>1 DEF CallType, Labels
  <2>3. worker' = [worker EXCEPT ![w] = r] /\ dmu' = {w}
    BY <1>5, <2>1 DEF sessionForCached, IInv, TypeInv
  <2>4. Carries(r) /\ Inside(r)
    BY <1>1, <1>2, <1>5, <2>2 DEF Carries, Inside
  <2>5. Mutex'
    BY <1>1, <2>2, <2>3, MutexEnters, Zenon
  <2> QED
    BY <1>3, <2>2, <2>3, <2>4, <2>5, MoveKeeps, Zenon
<1> QED
  BY <1>4, <1>5

(* sessionFor reads the store: the key it finds has no session object, or
   that object would have been in the cache. *)
LEMMA ResolveIInv ==
  ASSUME IInv, NEW w \in Workers, sessionForResolve(w) PROVE IInv'
<1> DEFINE c == worker[w]
<1>1. c \in CallType /\ c.pc = "resolve" /\ dmu = {w} /\ Carries(c) /\ Inside(c)
  BY DEF IInv, TypeInv, CallInv, InsideInv, Mutex, sessionForResolve
<1>2. c.id \in SessionIds /\ keys[c.id] \in 0..MaxKeys /\ sessions[c.id] = 0
  BY <1>1 DEF Carries, Inside, IInv, TypeInv
<1>3. /\ UNCHANGED <<tableVars, minted, ended, delivered, sealed>>
      /\ answered' \subseteq SessionIds \X Keys
      /\ minted' \in 0..MaxKeys /\ minted' >= minted
  BY DEF sessionForResolve, tableVars, history, IInv, TypeInv
<1>4. CASE keys[c.id] = 0
  BY <1>1, <1>3, <1>4, IdleKeeps DEF sessionForResolve
<1>5. CASE keys[c.id] # 0
  <2>1. PICK r : r = [c EXCEPT !.pc = "create", !.obj = keys[c.id]]
    OBVIOUS
  <2>2. /\ r \in CallType /\ r.pc = "create" /\ r.id = c.id /\ r.key = c.key
        /\ r.number = c.number /\ r.obj = keys[c.id] /\ r.obj \in Keys
    <3>1. "create" \in Labels /\ keys[c.id] \in Nat /\ keys[c.id] \in Keys
      BY <1>2, <1>5, BoundAssumption DEF Labels, Keys
    <3>2. r = [pc |-> "create", id |-> c.id, key |-> c.key, number |-> c.number,
               obj |-> keys[c.id]]
      BY <1>1, <2>1, Zenon DEF CallType
    <3> QED
      BY <1>1, <3>1, <3>2 DEF CallType
  <2>3. worker' = [worker EXCEPT ![w] = r] /\ dmu' = {w}
    BY <1>1, <1>5, <2>1, Zenon DEF sessionForResolve, IInv, TypeInv
  <2>4. \A j \in 1..Len(objects) : objects[j].key # r.obj
    BY <1>2, <2>2 DEF IInv, OneOwner
  <2>5. \A i \in SessionIds : keys[i] = r.obj => i = r.id
    BY <1>2, <1>5, <2>2 DEF IInv, OneOwner
  <2>6. Carries(r) /\ Inside(r)
    BY <1>1, <1>2, <2>2, <2>4, <2>5 DEF Carries, Inside
  <2>7. Mutex'
    BY <1>1, <2>2, <2>3, MutexEnters, Zenon
  <2> QED
    BY <1>2, <1>3, <2>2, <2>3, <2>6, <2>7, MoveKeeps, Zenon DEF tableVars
<1> QED
  BY <1>4, <1>5

(* Admit stores a key: a fresh one, under an identity that has none. *)
LEMMA RegisterIInv ==
  ASSUME IInv, NEW w \in Workers, register(w) PROVE IInv'
<1> DEFINE c == worker[w]
<1>1. /\ c \in CallType /\ c.pc = "admit" /\ c.id \in SessionIds /\ c.key \in Keys
  BY DEF IInv, TypeInv, CallInv, Carries, register
<1>2. Fresh(c.key) /\ c.key <= minted
  BY <1>1 DEF IInv, Minting
<1>3. CASE keys[c.id] # 0
  <2>1. answered' \subseteq SessionIds \X Keys
    BY DEF register, history, IInv, TypeInv
  <2> QED
    BY <1>3, <2>1, IdleKeeps DEF register, history, tableVars
<1>4. CASE keys[c.id] = 0
  <2>1. PICK r : r = [c EXCEPT !.pc = "lease"]
    BY Zenon
  <2>2. r \in CallType /\ r.pc = "lease" /\ r.id = c.id /\ r.key = c.key
    BY <1>1, <2>1 DEF CallType, Labels
  <2>3. /\ worker' = [worker EXCEPT ![w] = r]
        /\ keys' = [keys EXCEPT ![c.id] = c.key]
        /\ UNCHANGED <<sessions, objects, minted, dmu, answered, ended, delivered, sealed>>
    BY <1>4, <2>1 DEF register, history, IInv, TypeInv
  <2>4. /\ worker' \in [Workers -> CallType]
        /\ worker'[w] = r
        /\ \A v \in Workers \ {w} : worker'[v] = worker[v]
    BY <2>2, <2>3, CallMoves, Zenon DEF IInv
  <2>5. /\ keys' \in [SessionIds -> 0..MaxKeys]
        /\ keys'[c.id] = c.key
        /\ \A i \in SessionIds \ {c.id} : keys'[i] = keys[i]
    BY <1>1, <2>3, BoundAssumption DEF IInv, TypeInv, Keys
  <2>6. TypeInv'
    BY <2>3, <2>4, <2>5 DEF IInv, TypeInv
  <2>7. CallInv'
    BY <1>1, <2>2, <2>3, <2>4 DEF IInv, CallInv, Carries
  <2>8. Mutex'
    BY <2>2, <2>3, MutexKeeps, Zenon
  <2>9. InsideInv'
    <3>1. ASSUME NEW v \in Workers, v # w PROVE Inside(worker[v])'
      <4>1. worker'[v] = worker[v] /\ Inside(worker[v])
        BY <2>4, <3>1 DEF IInv, InsideInv
      <4> QED
        BY <1>1, <1>2, <2>3, <2>5, <3>1, <4>1 DEF Inside, Fresh
    <3>2. Inside(worker[w])'
      BY <2>2, <2>4, Zenon DEF Inside
    <3> QED
      BY <3>1, <3>2, Zenon DEF InsideInv
  <2>10. OneOwner'
    BY <1>1, <1>2, <2>3, <2>5 DEF IInv, OneOwner, Fresh
  <2>11. Counted'
    BY <2>3, CountedSame, Zenon DEF IInv
  <2>12. ForgetIsFinal'
    BY <1>1, <1>2, <2>2, <2>3, <2>4, <2>5 DEF IInv, ForgetIsFinal, Fresh
  <2>13. ASSUME NEW k \in Keys, Fresh(k), k # c.key PROVE Fresh(k)'
    BY <1>1, <2>2, <2>3, <2>4, <2>5, <2>13 DEF Fresh
  <2>14. Minting'
    <3>1. ASSUME NEW k \in Keys, k > minted' PROVE Fresh(k)'
      <4>1. k > minted /\ k # c.key
        BY <1>2, <2>3, <3>1, BoundAssumption DEF Keys, IInv, TypeInv
      <4> QED
        BY <4>1, <2>13 DEF IInv, Minting
    <3>2. ASSUME NEW v \in Workers, NEW k \in Keys, worker'[v].pc = "admit",
                 worker'[v].key = k
          PROVE  k <= minted' /\ Fresh(k)'
      <4>1. v # w /\ worker'[v] = worker[v]
        BY <2>2, <2>4, <3>2
      <4>2. k # c.key /\ k <= minted /\ Fresh(k)
        BY <1>1, <3>2, <4>1 DEF IInv, Minting
      <4> QED
        BY <2>3, <2>13, <4>2
    <3>3. ASSUME NEW u \in Workers, NEW v \in Workers, worker'[u].pc = "admit",
                 worker'[v].pc = "admit", worker'[u].key = worker'[v].key
          PROVE  u = v
      BY <2>2, <2>4, <3>3 DEF IInv, Minting
    <3> QED
      BY <3>1, <3>2, <3>3 DEF Minting
  <2> QED
    BY <2>6, <2>7, <2>8, <2>9, <2>10, <2>11, <2>12, <2>14 DEF IInv
<1> QED
  BY <1>3, <1>4

(* A key leaves the store, and the call that removed it ends or goes on to
   evict the session. *)
LEMMA RemoveKeeps ==
  ASSUME IInv, NEW w \in Workers, NEW id \in SessionIds, NEW r \in CallType,
         worker' = [worker EXCEPT ![w] = r], keys' = [keys EXCEPT ![id] = 0],
         UNCHANGED <<sessions, objects, minted, history>>, Mutex',
         \/ r = Idle
         \/ r.pc = "evict" /\ r.id = id /\ r.key = keys[id] /\ dmu = {}
  PROVE  IInv'
<1>1. /\ worker' \in [Workers -> CallType]
      /\ worker'[w] = r
      /\ \A v \in Workers \ {w} : worker'[v] = worker[v]
  BY CallMoves, Zenon DEF IInv
<1>2. /\ keys' \in [SessionIds -> 0..MaxKeys]
      /\ keys'[id] = 0
      /\ \A i \in SessionIds \ {id} : keys'[i] = keys[i]
  BY BoundAssumption DEF IInv, TypeInv
<1>3. 0 \notin Keys /\ \A j \in 1..Len(objects) : objects[j].key \in Keys
  BY ObjectFacts DEF IInv
<1>4. UNCHANGED <<sessions, objects, minted, answered, ended, delivered, sealed>>
  BY DEF history
<1>5. r.pc \in {"idle", "evict"} /\ (r.pc = "idle" => r = Idle)
  BY IdleFacts
<1>6. TypeInv'
  BY <1>1, <1>2, <1>4 DEF IInv, TypeInv
<1>7. Carries(r)
  BY <1>5, IdleFacts, Zenon DEF Carries
<1>8. CallInv'
  BY <1>1, <1>4, <1>7 DEF IInv, CallInv, Carries
<1>9. InsideInv'
  <2>1. ASSUME NEW v \in Workers, v # w PROVE Inside(worker[v])'
    <3>1. worker'[v] = worker[v] /\ Inside(worker[v]) /\ Carries(worker[v])
      BY <1>1, <2>1 DEF IInv, InsideInv, CallInv
    <3>2. worker[v].pc = "create" => worker[v].obj \in Keys
      BY <3>1 DEF Carries
    <3> QED
      BY <1>2, <1>3, <1>4, <3>1, <3>2 DEF Inside
  <2>2. Inside(worker[w])'
    <3>1. CASE r.pc = "idle"
      BY <1>1, <3>1 DEF Inside
    <3>2. CASE r.pc = "evict"
      <4>1. r.id = id /\ r.key = keys[id]
        BY <3>2, IdleFacts
      <4>2. \A j \in 1..Len(objects) : objects[j].key # keys'[id]
        BY <1>2, <1>3
      <4>3. r.key # 0 => \A i \in SessionIds : keys'[i] # r.key
        BY <1>2, <4>1 DEF IInv, OneOwner
      <4>4. ASSUME NEW j \in 1..Len(objects), objects[j].key = r.key
            PROVE  objects[j].id = id
        <5>1. sessions[id] = j /\ j # 0
          BY <4>1, <4>4 DEF IInv, OneOwner
        <5> QED
          BY <5>1 DEF IInv, OneOwner
      <4> QED
        BY <1>1, <1>4, <3>2, <4>1, <4>2, <4>3, <4>4 DEF Inside
    <3> QED
      BY <1>5, <3>1, <3>2
  <2> QED
    BY <2>1, <2>2, Zenon DEF InsideInv
<1>10. OneOwner'
  BY <1>2, <1>3, <1>4 DEF IInv, OneOwner
<1>11. Counted'
  BY <1>4, CountedSame DEF IInv
<1>12. ForgetIsFinal'
  <2>1. 0 \notin ended
    BY <1>3 DEF IInv, TypeInv
  <2> QED
    BY <1>1, <1>2, <1>4, <1>5, <2>1 DEF IInv, ForgetIsFinal
<1>13. ASSUME NEW k \in Keys, Fresh(k) PROVE Fresh(k)'
  <2>1. r.pc = "evict" => r.key # k
    BY <1>13, IdleFacts DEF Fresh
  <2> QED
    BY <1>1, <1>2, <1>3, <1>4, <1>5, <1>13, <2>1 DEF Fresh
<1>14. Minting'
  BY <1>1, <1>4, <1>5, <1>13 DEF IInv, Minting
<1> QED
  BY <1>6, <1>8, <1>9, <1>10, <1>11, <1>12, <1>14 DEF IInv

(* store.Forget, after a lease that could not be granted. *)
LEMMA UnwindIInv ==
  ASSUME IInv, NEW w \in Workers, Unwind(w) PROVE IInv'
<1>1. worker[w].id \in SessionIds
  BY DEF IInv, CallInv, Carries, Unwind
<1>2. Mutex'
  BY IdleFacts, MutexKeeps, Zenon DEF Unwind
<1> QED
  BY <1>1, <1>2, IdleFacts, RemoveKeeps, Zenon DEF Unwind

(* The first half of DataPlane.Forget. *)
LEMMA ForgetKeyIInv ==
  ASSUME IInv, NEW w \in Workers, NEW id \in SessionIds, ForgetKey(w, id) PROVE IInv'
<1>1. PICK r : r = [Idle EXCEPT !.pc = "evict", !.id = id, !.key = keys[id]]
  OBVIOUS
<1>2. r = [pc |-> "evict", id |-> id, key |-> keys[id], number |-> 0, obj |-> 0]
  BY <1>1, Zenon DEF Idle
<1>3. "evict" \in Labels /\ 0 \in 0..MaxNumber /\ keys[id] \in 0..MaxKeys
  BY BoundAssumption DEF Labels, IInv, TypeInv
<1>4. r \in CallType /\ r.pc = "evict" /\ r.id = id /\ r.key = keys[id]
  BY <1>2, <1>3 DEF CallType
<1>5. worker' = [worker EXCEPT ![w] = r] /\ dmu = {} /\ dmu' = {w}
  BY <1>1 DEF ForgetKey
<1>6. Mutex'
  BY <1>4, <1>5, MutexEnters, Zenon
<1> QED
  BY <1>4, <1>5, <1>6, RemoveKeeps, Zenon DEF ForgetKey

-----------------------------------------------------------------------------
(* A session object changes its window or its counter, and the call ends. *)
LEMMA SessionKeeps ==
  ASSUME IInv, NEW w \in Workers, worker' = [worker EXCEPT ![w] = Idle],
         UNCHANGED <<keys, sessions, minted, dmu, answered, ended>>,
         objects' \in Seq(ObjectType), Len(objects') = Len(objects),
         \A j \in 1..Len(objects) : /\ objects'[j].key = objects[j].key
                                    /\ objects'[j].id = objects[j].id,
         delivered' \in [Keys \X Numbers -> Nat],
         sealed' \in [Keys \X Numbers -> Nat], Counted'
  PROVE  IInv'
<1>1. /\ worker' \in [Workers -> CallType]
      /\ worker'[w] = Idle
      /\ \A v \in Workers \ {w} : worker'[v] = worker[v]
  BY IdleFacts, CallMoves, Zenon DEF IInv
<1>2. Idle.pc = "idle" /\ Len(objects) \in Nat
  BY IdleFacts, ObjectFacts DEF IInv
<1>3. TypeInv'
  BY <1>1 DEF IInv, TypeInv
<1>4. CallInv'
  BY <1>1, <1>2 DEF IInv, CallInv, Carries
<1>5. Mutex'
  BY IdleFacts, MutexKeeps, Zenon
<1>6. InsideInv'
  <2>1. ASSUME NEW v \in Workers, v # w PROVE Inside(worker[v])'
    <3>1. worker'[v] = worker[v] /\ Inside(worker[v])
      BY <1>1, <2>1 DEF IInv, InsideInv
    <3> QED
      BY <3>1 DEF Inside
  <2>2. Inside(worker[w])'
    BY <1>1, <1>2 DEF Inside
  <2> QED
    BY <2>1, <2>2 DEF InsideInv
<1>7. ASSUME NEW i \in SessionIds, sessions[i] # 0
      PROVE  /\ objects'[sessions[i]].key = objects[sessions[i]].key
             /\ objects'[sessions[i]].id = objects[sessions[i]].id
  <2>1. sessions[i] \in 1..Len(objects)
    BY <1>2, <1>7 DEF IInv, TypeInv
  <2> QED
    BY <2>1
<1>8. OneOwner'
  <2>1. OneOwner /\ keys' = keys /\ sessions' = sessions
    BY DEF IInv
  <2>2. \A i \in SessionIds : sessions'[i] # 0 => objects'[sessions'[i]].id = i
    BY <1>7, <2>1, Zenon DEF OneOwner
  <2>3. \A i, j \in 1..Len(objects') : objects'[i].key = objects'[j].key => i = j
    BY <2>1, Zenon DEF OneOwner
  <2>4. \A i \in SessionIds, j \in 1..Len(objects') :
          keys'[i] = objects'[j].key => sessions'[i] = j
    BY <2>1 DEF OneOwner
  <2>5. \A i, j \in SessionIds : keys'[i] = keys'[j] /\ keys'[i] # 0 => i = j
    BY <2>1 DEF OneOwner
  <2> QED
    BY <2>2, <2>3, <2>4, <2>5 DEF OneOwner
<1>9. ForgetIsFinal'
  <2>1. ASSUME NEW k \in ended, NEW i \in SessionIds
        PROVE  keys'[i] # k /\ (sessions'[i] # 0 => objects'[sessions'[i]].key # k)
    <3>1. keys[i] # k /\ (sessions[i] # 0 => objects[sessions[i]].key # k)
      BY DEF IInv, ForgetIsFinal
    <3>2. keys' = keys /\ sessions' = sessions
      OBVIOUS
    <3> QED
      BY <1>7, <3>1, <3>2
  <2>2. ASSUME NEW k \in ended, NEW v \in Workers, worker'[v].pc = "create"
        PROVE  worker'[v].obj # k
    BY <1>1, <1>2, <2>2 DEF IInv, ForgetIsFinal
  <2> QED
    BY <2>1, <2>2 DEF ForgetIsFinal
<1>10. ASSUME NEW k \in Keys, Fresh(k) PROVE Fresh(k)'
  BY <1>1, <1>2, <1>10 DEF Fresh
<1>11. Minting'
  BY <1>1, <1>2, <1>10 DEF IInv, Minting
<1> QED
  BY <1>3, <1>4, <1>5, <1>6, <1>8, <1>9, <1>11 DEF IInv

(* A datagram reaches the session found: its number enters the one window
   that its key has. *)
LEMMA InboundIInv ==
  ASSUME IInv, NEW w \in Workers, Inbound(w) PROVE IInv'
<1> DEFINE c == worker[w]
<1> DEFINE o == objects[c.obj]
<1>1. /\ c.pc = "inbound" /\ c.key \in Keys /\ c.number \in Numbers
      /\ c.obj \in 1..Len(objects)
  <2>1. c.pc = "inbound" /\ Carries(c)
    BY DEF IInv, CallInv, Inbound
  <2>2. c.key \in Keys /\ c.obj \in 1..Len(objects)
    BY <2>1 DEF Carries
  <2>3. c.key # 0
    BY <2>2, ObjectFacts, Zenon DEF IInv
  <2> QED
    BY <2>1, <2>2, <2>3 DEF Carries
<1>2. /\ o \in ObjectType /\ Len(objects) \in Nat /\ objects \in Seq(ObjectType)
      /\ delivered \in [Keys \X Numbers -> Nat] /\ sealed \in [Keys \X Numbers -> Nat]
  BY <1>1, ObjectFacts DEF IInv, TypeInv
<1>3. /\ worker' = [worker EXCEPT ![w] = Idle]
      /\ UNCHANGED <<keys, sessions, minted, dmu, answered, ended, sealed>>
  BY DEF Inbound
<1>4. CASE ~(o.key = c.key /\ c.number \notin o.seen)
  <2>1. UNCHANGED <<objects, delivered>>
    BY <1>4 DEF Inbound
  <2>2. answered' \subseteq SessionIds \X Keys
    BY <1>3 DEF IInv, TypeInv
  <2> QED
    BY <1>3, <2>1, <2>2, IdleKeeps, Zenon DEF tableVars
<1>5. CASE o.key = c.key /\ c.number \notin o.seen
  <2>1. PICK p : p = [o EXCEPT !.seen = o.seen \cup {c.number}]
    BY Zenon
  <2>2. /\ p \in ObjectType /\ p.key = o.key /\ p.id = o.id /\ p.next = o.next
        /\ p.seen = o.seen \cup {c.number}
    BY <1>1, <1>2, <2>1, Zenon DEF ObjectType
  <2>3. objects' = [objects EXCEPT ![c.obj] = p]
    BY <1>1, <1>2, <1>5, <2>1 DEF Inbound
  <2>4. /\ objects' \in Seq(ObjectType) /\ Len(objects') = Len(objects)
        /\ objects'[c.obj] = p
        /\ \A j \in 1..Len(objects) : j # c.obj => objects'[j] = objects[j]
    BY <1>1, <1>2, <2>2, <2>3
  <2>5. delivered' = [delivered EXCEPT ![<<c.key, c.number>>] = @ + 1]
    BY <1>5 DEF Inbound
  <2>6. <<c.key, c.number>> \in Keys \X Numbers
    BY <1>1
  <2>7. delivered' \in [Keys \X Numbers -> Nat]
    BY <1>2, <2>5, <2>6
  <2>8. \A i, j \in 1..Len(objects) : objects[i].key = objects[j].key => i = j
    BY DEF IInv, OneOwner
  <2>9. delivered[<<c.key, c.number>>] = 0
    <3>1. ~\E j \in 1..Len(objects) : objects[j].key = c.key /\ c.number \in objects[j].seen
      BY <1>1, <1>5, <2>8
    <3> QED
      BY <1>1, <3>1 DEF IInv, Counted
  <2>10. ASSUME NEW k \in Keys, NEW n \in Numbers
         PROVE  /\ delivered'[<<k, n>>] =
                     IF \E j \in 1..Len(objects') :
                          objects'[j].key = k /\ n \in objects'[j].seen
                     THEN 1 ELSE 0
                /\ sealed'[<<k, n>>] =
                     IF \E j \in 1..Len(objects') :
                          objects'[j].key = k /\ n <= objects'[j].next
                     THEN 1 ELSE 0
    <3>1. (\E j \in 1..Len(objects') : objects'[j].key = k /\ n <= objects'[j].next)
          <=> \E j \in 1..Len(objects) : objects[j].key = k /\ n <= objects[j].next
      BY <1>1, <2>2, <2>4
    <3>2. sealed'[<<k, n>>] =
            IF \E j \in 1..Len(objects') : objects'[j].key = k /\ n <= objects'[j].next
            THEN 1 ELSE 0
      BY <1>3, <3>1, Zenon DEF IInv, Counted
    <3>3. CASE k = c.key /\ n = c.number
      <4>1. delivered'[<<k, n>>] = 1
        BY <1>2, <2>5, <2>6, <2>9, <3>3
      <4>2. \E j \in 1..Len(objects') : objects'[j].key = k /\ n \in objects'[j].seen
        BY <1>1, <1>5, <2>2, <2>4, <3>3, Zenon
      <4> QED
        BY <3>2, <4>1, <4>2
    <3>4. CASE ~(k = c.key /\ n = c.number)
      <4>1. delivered'[<<k, n>>] = delivered[<<k, n>>]
        BY <1>2, <2>5, <2>6, <3>4, Zenon
      <4>2. (\E j \in 1..Len(objects') : objects'[j].key = k /\ n \in objects'[j].seen)
            <=> \E j \in 1..Len(objects) : objects[j].key = k /\ n \in objects[j].seen
        BY <1>1, <1>5, <2>2, <2>4, <3>4, Zenon
      <4> QED
        BY <3>2, <4>1, <4>2, Zenon DEF IInv, Counted
    <3> QED
      BY <3>3, <3>4, Zenon
  <2>11. Counted'
    BY <2>10, Zenon DEF Counted
  <2>12. \A j \in 1..Len(objects) : /\ objects'[j].key = objects[j].key
                                    /\ objects'[j].id = objects[j].id
    BY <2>2, <2>4, Zenon
  <2> QED
    BY <1>2, <1>3, <2>4, <2>7, <2>11, <2>12, SessionKeeps, Zenon
<1> QED
  BY <1>4, <1>5

(* A packet for the client takes the next number of the one counter that its
   key has. *)
LEMMA OutboundIInv ==
  ASSUME IInv, NEW w \in Workers, Outbound(w) PROVE IInv'
<1> DEFINE c == worker[w]
<1> DEFINE o == objects[c.obj]
<1> DEFINE m == o.next + 1
<1>1. c.pc = "outbound" /\ c.obj \in 1..Len(objects) /\ o.next < MaxNumber
  BY Zenon DEF IInv, CallInv, Carries, Outbound
<1>2. /\ o \in ObjectType /\ Len(objects) \in Nat /\ objects \in Seq(ObjectType)
      /\ delivered \in [Keys \X Numbers -> Nat] /\ sealed \in [Keys \X Numbers -> Nat]
  BY <1>1, ObjectFacts DEF IInv, TypeInv
<1>3. /\ worker' = [worker EXCEPT ![w] = Idle]
      /\ UNCHANGED <<keys, sessions, minted, dmu, answered, ended, delivered>>
  BY Zenon DEF Outbound
<1>4. o.key \in Keys /\ o.next \in 0..MaxNumber /\ m \in Numbers /\ m \in 0..MaxNumber
  <2>1. o.key \in Keys /\ o.next \in 0..MaxNumber
    BY <1>2 DEF ObjectType
  <2>2. PICK n \in 0..MaxNumber : n = o.next
    BY <2>1
  <2>3. n + 1 \in Numbers /\ n + 1 \in 0..MaxNumber
    BY <1>1, <2>2, BoundAssumption DEF Numbers
  <2> QED
    BY <2>1, <2>2, <2>3
<1>5. PICK p : p = [o EXCEPT !.next = m]
  BY Zenon
<1>6. /\ p \in ObjectType /\ p.key = o.key /\ p.id = o.id /\ p.next = m
      /\ p.seen = o.seen
  BY <1>2, <1>4, <1>5, Zenon DEF ObjectType
<1>7. objects' = [objects EXCEPT ![c.obj] = p]
  BY <1>1, <1>2, <1>5, Zenon DEF Outbound
<1>8. /\ objects' \in Seq(ObjectType) /\ Len(objects') = Len(objects)
      /\ objects'[c.obj] = p
      /\ \A j \in 1..Len(objects) : j # c.obj => objects'[j] = objects[j]
  BY <1>1, <1>2, <1>6, <1>7
<1>9. sealed' = [sealed EXCEPT ![<<o.key, m>>] = @ + 1] /\ <<o.key, m>> \in Keys \X Numbers
  BY <1>4, ZenonT(30) DEF Outbound
<1>10. sealed' \in [Keys \X Numbers -> Nat]
  BY <1>2, <1>9
<1>11. \A i, j \in 1..Len(objects) : objects[i].key = objects[j].key => i = j
  BY DEF IInv, OneOwner
<1>12. sealed[<<o.key, m>>] = 0
  <2>1. ~(m <= o.next)
    BY <1>4
  <2>2. ~\E j \in 1..Len(objects) : objects[j].key = o.key /\ m <= objects[j].next
    BY <1>1, <1>11, <2>1, Zenon
  <2> QED
    BY <1>4, <2>2, Zenon DEF IInv, Counted
<1>13. ASSUME NEW k \in Keys, NEW n \in Numbers
       PROVE  /\ delivered'[<<k, n>>] =
                   IF \E j \in 1..Len(objects') :
                        objects'[j].key = k /\ n \in objects'[j].seen
                   THEN 1 ELSE 0
              /\ sealed'[<<k, n>>] =
                   IF \E j \in 1..Len(objects') :
                        objects'[j].key = k /\ n <= objects'[j].next
                   THEN 1 ELSE 0
  <2>1. (\E j \in 1..Len(objects') : objects'[j].key = k /\ n \in objects'[j].seen)
        <=> \E j \in 1..Len(objects) : objects[j].key = k /\ n \in objects[j].seen
    <3>1. \A j \in 1..Len(objects) : /\ objects'[j].key = objects[j].key
                                     /\ objects'[j].seen = objects[j].seen
      BY <1>6, <1>8, Zenon
    <3> QED
      BY <1>8, <3>1, Zenon
  <2>2. delivered'[<<k, n>>] =
          IF \E j \in 1..Len(objects') : objects'[j].key = k /\ n \in objects'[j].seen
          THEN 1 ELSE 0
    BY <1>3, <2>1, Zenon DEF IInv, Counted
  <2>3. CASE k = o.key /\ n = m
    <3>1. sealed'[<<k, n>>] = 1
      BY <1>2, <1>9, <1>12, <2>3
    <3>2. n <= p.next
      BY <1>4, <1>6, <2>3 DEF Numbers
    <3>3. \E j \in 1..Len(objects') : objects'[j].key = k /\ n <= objects'[j].next
      BY <1>1, <1>6, <1>8, <2>3, <3>2, Zenon
    <3> QED
      BY <2>2, <3>1, <3>3, ZenonT(30)
  <2>4. CASE ~(k = o.key /\ n = m)
    <3>1. sealed'[<<k, n>>] = sealed[<<k, n>>]
      BY <1>2, <1>9, <2>4, Zenon
    <3>2. k = o.key => (n <= p.next <=> n <= o.next)
      BY <1>4, <1>6, <2>4 DEF Numbers
    <3>3. (\E j \in 1..Len(objects') : objects'[j].key = k /\ n <= objects'[j].next)
          <=> \E j \in 1..Len(objects) : objects[j].key = k /\ n <= objects[j].next
      BY <1>1, <1>6, <1>8, <3>2, Zenon
    <3> QED
      BY <2>2, <3>1, <3>3, Zenon DEF IInv, Counted
  <2> QED
    BY <2>3, <2>4
<1>14. Counted'
  BY <1>13, Zenon DEF Counted
<1>15. \A j \in 1..Len(objects) : /\ objects'[j].key = objects[j].key
                                  /\ objects'[j].id = objects[j].id
  BY <1>6, <1>8, Zenon
<1>16. delivered' \in [Keys \X Numbers -> Nat]
  BY <1>2, <1>3
<1> QED
  BY <1>3, <1>8, <1>10, <1>14, <1>15, <1>16, SessionKeeps, Zenon

(* The second half of DataPlane.Forget: the session of the key that is gone
   leaves the cache, and the key has ended. *)
LEMMA ForgetEvictIInv ==
  ASSUME IInv, NEW w \in Workers, ForgetEvict(w) PROVE IInv'
<1> DEFINE c == worker[w]
<1>1. /\ c \in CallType /\ c.pc = "evict" /\ c.id \in SessionIds /\ Inside(c)
      /\ dmu = {w} /\ c.key \in 0..MaxKeys
  BY DEF IInv, TypeInv, CallInv, Carries, InsideInv, Mutex, ForgetEvict, CallType
<1>2. /\ sessions' = [sessions EXCEPT ![c.id] = 0]
      /\ ended' = ended \cup ({c.key} \ {0})
      /\ worker' = [worker EXCEPT ![w] = Idle] /\ dmu' = dmu \ {w}
      /\ UNCHANGED <<keys, objects, minted, answered, delivered, sealed>>
  BY DEF ForgetEvict
<1>3. /\ worker' \in [Workers -> CallType]
      /\ worker'[w] = Idle /\ Idle.pc = "idle"
      /\ \A v \in Workers \ {w} : worker'[v] = worker[v]
  BY <1>2, IdleFacts, CallMoves, Zenon DEF IInv
<1>4. Len(objects) \in Nat /\ 0 \notin Keys
  BY ObjectFacts DEF IInv
<1>5. /\ sessions' \in [SessionIds -> 0..Len(objects)] /\ sessions'[c.id] = 0
      /\ \A i \in SessionIds \ {c.id} : sessions'[i] = sessions[i]
  BY <1>1, <1>2, <1>4 DEF IInv, TypeInv
<1>6. ended' \subseteq Keys
  <2>1. c.key # 0 => c.key \in Keys
    BY <1>1, BoundAssumption DEF Keys
  <2>2. ended \subseteq Keys
    BY Zenon DEF IInv, TypeInv
  <2> QED
    BY <1>2, <2>1, <2>2
<1>7. TypeInv'
  BY <1>2, <1>3, <1>5, <1>6, Zenon DEF IInv, TypeInv
<1>8. CallInv'
  BY <1>2, <1>3 DEF IInv, CallInv, Carries
<1>9. Mutex'
  BY <1>1, <1>2, IdleFacts, MutexKeeps, Zenon
<1>10. ASSUME NEW v \in Workers
       PROVE  worker'[v].pc \notin {"resolve", "create", "evict"}
  BY <1>1, <1>3 DEF IInv, Mutex
<1>11. InsideInv'
  BY <1>10, Zenon DEF InsideInv, Inside
<1>12. OneOwner'
  <2>1. \A j \in 1..Len(objects) : objects[j].key # keys[c.id]
    BY <1>1 DEF Inside
  <2> QED
    BY <1>1, <1>2, <1>5, <2>1, Zenon DEF IInv, OneOwner
<1>13. Counted'
  BY <1>2, CountedSame, Zenon DEF IInv
<1>14. ForgetIsFinal'
  <2>1. ASSUME NEW k \in ended', NEW i \in SessionIds
        PROVE  keys[i] # k /\ (sessions'[i] # 0 => objects[sessions'[i]].key # k)
    <3>1. CASE k \in ended
      BY <1>5, <3>1 DEF IInv, ForgetIsFinal
    <3>2. CASE k \notin ended
      <4>1. k = c.key /\ c.key # 0
        BY <1>2, <2>1, <3>2
      <4>2. keys[i] # k
        BY <1>1, <4>1, Zenon DEF Inside
      <4>3. ASSUME sessions'[i] # 0 PROVE objects[sessions'[i]].key # k
        <5>1. i # c.id /\ sessions'[i] = sessions[i] /\ sessions[i] \in 1..Len(objects)
          BY <1>4, <1>5, <4>3 DEF IInv, TypeInv
        <5>2. objects[sessions[i]].id = i
          BY <1>4, <5>1 DEF IInv, OneOwner
        <5> QED
          BY <1>1, <4>1, <5>1, <5>2 DEF Inside
      <4> QED
        BY <4>2, <4>3
    <3> QED
      BY <3>1, <3>2
  <2> QED
    BY <1>2, <1>10, <2>1, Zenon DEF ForgetIsFinal
<1>15. ASSUME NEW k \in Keys, Fresh(k) PROVE Fresh(k)'
  <2>1. c.key # k
    BY <1>1, <1>15 DEF Fresh
  <2> QED
    BY <1>2, <1>10, <1>15, <2>1 DEF Fresh
<1>16. Minting'
  BY <1>2, <1>3, <1>15 DEF IInv, Minting
<1> QED
  BY <1>7, <1>8, <1>9, <1>11, <1>12, <1>13, <1>14, <1>16 DEF IInv

(* sessionFor makes the session of a key: the first object the key has. *)
LEMMA CreateIInv ==
  ASSUME IInv, NEW w \in Workers, sessionForCreate(w) PROVE IInv'
<1> DEFINE c == worker[w]
<1> DEFINE n == Len(objects) + 1
<1> DEFINE o == [id |-> c.id, key |-> c.obj, next |-> 0, seen |-> {}]
<1>1. /\ c \in CallType /\ c.pc = "create" /\ Carries(c) /\ Inside(c) /\ dmu = {w}
      /\ c.id \in SessionIds /\ c.obj \in Keys
  BY DEF IInv, TypeInv, CallInv, Carries, InsideInv, Mutex, sessionForCreate
<1>2. /\ objects \in Seq(ObjectType) /\ Len(objects) \in Nat /\ 0 \notin Keys
      /\ \A j \in 1..Len(objects) : objects[j] \in ObjectType
  BY ObjectFacts DEF IInv, TypeInv
<1>3. o \in ObjectType /\ o.key = c.obj /\ o.id = c.id /\ o.next = 0 /\ o.seen = {}
  BY <1>1, NewObject, Zenon
<1>4. /\ objects' = Append(objects, o)
      /\ UNCHANGED <<keys, minted, answered, ended, delivered, sealed>>
      /\ dmu' = dmu \ {w}
  BY DEF sessionForCreate, history
<1> HIDE DEF o
<1>5. /\ objects' \in Seq(ObjectType) /\ Len(objects') = n /\ n \in Nat \ {0}
      /\ objects'[n] = o
      /\ \A j \in 1..Len(objects) : objects'[j] = objects[j]
  BY <1>2, <1>3, <1>4
<1>6. /\ \A j \in 1..n : j = n \/ j \in 1..Len(objects)
      /\ n \in 1..n /\ n \notin 1..Len(objects) /\ 1..Len(objects) \subseteq 1..n
      /\ 0..Len(objects) \subseteq 0..n /\ n \in 0..n
  BY <1>2
<1>7. PICK r : r = [c EXCEPT !.pc = After(c), !.obj = n]
  OBVIOUS
<1>8. /\ After(c) \in {"inbound", "outbound"} /\ (After(c) = "inbound" => c.key \in Keys)
  BY <1>1, BoundAssumption DEF After, CallType, Keys
<1>9. /\ r \in CallType /\ r.pc = After(c) /\ r.id = c.id /\ r.key = c.key
      /\ r.number = c.number /\ r.obj = n
  <2>1. r = [pc |-> After(c), id |-> c.id, key |-> c.key, number |-> c.number, obj |-> n]
    BY <1>1, <1>7, Zenon DEF CallType
  <2>2. After(c) \in Labels /\ n \in Nat
    BY <1>5, <1>8 DEF Labels
  <2> QED
    BY <1>1, <2>1, <2>2 DEF CallType
<1>10. /\ worker' = [worker EXCEPT ![w] = r]
       /\ sessions' = [sessions EXCEPT ![c.id] = n]
  BY <1>5, <1>7, Zenon DEF sessionForCreate, IInv, TypeInv
<1> HIDE DEF n
<1>11. /\ worker' \in [Workers -> CallType]
       /\ worker'[w] = r
       /\ \A v \in Workers \ {w} : worker'[v] = worker[v]
  BY <1>9, <1>10, CallMoves, Zenon DEF IInv
<1>12. /\ sessions' \in [SessionIds -> 0..n] /\ sessions'[c.id] = n
       /\ \A i \in SessionIds \ {c.id} : sessions'[i] = sessions[i]
  BY <1>1, <1>6, <1>10, Zenon DEF IInv, TypeInv
<1>13. TypeInv'
  BY <1>4, <1>5, <1>11, <1>12, Zenon DEF IInv, TypeInv
<1>14. CallInv'
  <2>1. ASSUME NEW v \in Workers, v # w PROVE Carries(worker[v])'
    <3>1. worker'[v] = worker[v] /\ Carries(worker[v])
      BY <1>11, <2>1, Zenon DEF IInv, CallInv
    <3> QED
      BY <1>5, <1>6, <3>1 DEF Carries
  <2>2. r.pc = "inbound" => r.number \in Numbers
    <3>1. c.key \in Keys => c.key # 0
      BY <1>2, ZenonT(30)
    <3> QED
      BY <1>1, <1>8, <1>9, <3>1 DEF Carries
  <2>3. Carries(worker[w])'
    BY <1>1, <1>5, <1>6, <1>8, <1>9, <1>11, <2>2 DEF Carries
  <2> QED
    BY <2>1, <2>3 DEF CallInv
<1>15. Mutex'
  BY <1>1, <1>4, <1>8, <1>9, <1>10, MutexKeeps, Zenon
<1>16. ASSUME NEW v \in Workers
       PROVE  worker'[v].pc \notin {"resolve", "create", "evict"}
  <2>1. CASE v = w
    BY <1>8, <1>9, <1>11, <2>1
  <2>2. CASE v # w
    <3>1. worker[v].pc \notin {"resolve", "create", "evict"}
      BY <1>1, <2>2 DEF IInv, Mutex
    <3> QED
      BY <1>11, <2>2, <3>1, Zenon
  <2> QED
    BY <2>1, <2>2, Zenon
<1>17. InsideInv'
  BY <1>16 DEF InsideInv, Inside
<1>18. /\ \A j \in 1..Len(objects) : objects[j].key # c.obj
       /\ \A i \in SessionIds : keys[i] = c.obj => i = c.id
       /\ sessions[c.id] = 0
  BY <1>1, Zenon DEF Inside
<1>19. OneOwner'
  <2>1. \A i, j \in SessionIds : keys'[i] = keys'[j] /\ keys'[i] # 0 => i = j
    BY <1>4, Zenon DEF IInv, OneOwner
  <2>2. ASSUME NEW i \in 1..n, NEW j \in 1..n, objects'[i].key = objects'[j].key
        PROVE  i = j
    <3>1. \A k, l \in 1..Len(objects) : objects[k].key = objects[l].key => k = l
      BY ZenonT(30) DEF IInv, OneOwner
    <3>2. /\ objects'[n].key = c.obj
          /\ \A k \in 1..Len(objects) : /\ objects'[k].key = objects[k].key
                                        /\ objects'[k].key # c.obj
      BY <1>3, <1>5, <1>18
    <3>3. (i = n \/ i \in 1..Len(objects)) /\ (j = n \/ j \in 1..Len(objects))
      BY <1>6
    <3> QED
      BY <2>2, <3>1, <3>2, <3>3, Zenon
  <2>3. ASSUME NEW i \in SessionIds, sessions'[i] # 0
        PROVE  objects'[sessions'[i]].id = i
    <3>1. CASE i = c.id
      BY <1>3, <1>5, <1>12, <3>1, Zenon
    <3>2. CASE i # c.id
      <4>1. sessions'[i] = sessions[i] /\ sessions[i] \in 1..Len(objects)
        BY <1>2, <1>12, <2>3, <3>2 DEF IInv, TypeInv
      <4>2. objects[sessions[i]].id = i
        BY <2>3, <4>1, Zenon DEF IInv, OneOwner
      <4> QED
        BY <1>5, <4>1, <4>2, Zenon
    <3> QED
      BY <3>1, <3>2, Zenon
  <2>4. ASSUME NEW i \in SessionIds, NEW j \in 1..n, keys'[i] = objects'[j].key
        PROVE  sessions'[i] = j
    <3>1. CASE j = n
      BY <1>3, <1>4, <1>5, <1>12, <1>18, <2>4, <3>1, Zenon
    <3>2. CASE j # n
      <4>1. j \in 1..Len(objects) /\ j # 0
        BY <1>6, <3>2
      <4>2. sessions[i] = j
        BY <1>4, <1>5, <2>4, <4>1, Zenon DEF IInv, OneOwner
      <4> QED
        BY <1>12, <1>18, <4>1, <4>2
    <3> QED
      BY <3>1, <3>2, Zenon
  <2> QED
    BY <1>5, <2>1, <2>2, <2>3, <2>4, Zenon DEF OneOwner
<1>20. Counted'
  <2>1. ASSUME NEW k \in Keys, NEW m \in Numbers
        PROVE  /\ (\E j \in 1..n : objects'[j].key = k /\ m \in objects'[j].seen)
                  <=> \E j \in 1..Len(objects) : objects[j].key = k /\ m \in objects[j].seen
               /\ (\E j \in 1..n : objects'[j].key = k /\ m <= objects'[j].next)
                  <=> \E j \in 1..Len(objects) : objects[j].key = k /\ m <= objects[j].next
    <3>1. ~(m <= 0)
      BY DEF Numbers
    <3> QED
      BY <1>3, <1>5, <1>6, <3>1
  <2>2. ASSUME NEW k \in Keys, NEW m \in Numbers
        PROVE  /\ delivered'[<<k, m>>] =
                    IF \E j \in 1..n : objects'[j].key = k /\ m \in objects'[j].seen
                    THEN 1 ELSE 0
               /\ sealed'[<<k, m>>] =
                    IF \E j \in 1..n : objects'[j].key = k /\ m <= objects'[j].next
                    THEN 1 ELSE 0
    <3>1. delivered' = delivered /\ sealed' = sealed
      BY <1>4
    <3>2. delivered[<<k, m>>] =
            IF \E j \in 1..Len(objects) : objects[j].key = k /\ m \in objects[j].seen
            THEN 1 ELSE 0
      BY Zenon DEF IInv, Counted
    <3>3. sealed[<<k, m>>] =
            IF \E j \in 1..Len(objects) : objects[j].key = k /\ m <= objects[j].next
            THEN 1 ELSE 0
      BY Zenon DEF IInv, Counted
    <3>4. delivered'[<<k, m>>] =
            IF \E j \in 1..n : objects'[j].key = k /\ m \in objects'[j].seen
            THEN 1 ELSE 0
      <4>1. (\E j \in 1..n : objects'[j].key = k /\ m \in objects'[j].seen)
            <=> \E j \in 1..Len(objects) : objects[j].key = k /\ m \in objects[j].seen
        BY <2>1, Zenon
      <4> QED
        BY <3>1, <3>2, <4>1, ZenonT(30)
    <3>5. sealed'[<<k, m>>] =
            IF \E j \in 1..n : objects'[j].key = k /\ m <= objects'[j].next
            THEN 1 ELSE 0
      <4>1. (\E j \in 1..n : objects'[j].key = k /\ m <= objects'[j].next)
            <=> \E j \in 1..Len(objects) : objects[j].key = k /\ m <= objects[j].next
        BY <2>1, Zenon
      <4> QED
        BY <3>1, <3>3, <4>1, ZenonT(30)
    <3> QED
      BY <3>4, <3>5, Zenon
  <2>3. Len(objects') = n
    BY <1>5
  <2> QED
    BY <2>2, <2>3, Zenon DEF Counted
<1>21. ForgetIsFinal'
  <2>1. c.obj \notin ended
    BY <1>1 DEF IInv, ForgetIsFinal
  <2>2. ASSUME NEW k \in ended, NEW i \in SessionIds
        PROVE  keys[i] # k /\ (sessions'[i] # 0 => objects'[sessions'[i]].key # k)
    <3>1. keys[i] # k /\ (sessions[i] # 0 => objects[sessions[i]].key # k)
      BY Zenon DEF IInv, ForgetIsFinal
    <3>2. CASE i = c.id
      BY <1>3, <1>5, <1>12, <2>1, <3>1, <3>2
    <3>3. CASE i # c.id
      <4>1. sessions'[i] = sessions[i]
        BY <1>12, <3>3, Zenon
      <4>2. sessions[i] \in 0..Len(objects)
        BY Zenon DEF IInv, TypeInv
      <4>3. sessions[i] # 0 => sessions[i] \in 1..Len(objects)
        BY <1>2, <4>2
      <4> QED
        BY <1>5, <3>1, <4>1, <4>3, Zenon
    <3> QED
      BY <3>2, <3>3, Zenon
  <2> QED
    BY <1>4, <1>16, <2>2, Zenon DEF ForgetIsFinal
<1>22. ASSUME NEW k \in Keys, Fresh(k) PROVE Fresh(k)'
  <2>1. c.obj # k
    BY <1>1, <1>22 DEF Fresh
  <2>2. \A j \in 1..n : objects'[j].key # k
    <3>1. \A j \in 1..Len(objects) : objects[j].key # k
      BY <1>22, Zenon DEF Fresh
    <3>2. ASSUME NEW j \in 1..n PROVE objects'[j].key # k
      <4>1. CASE j = n
        BY <1>3, <1>5, <2>1, <4>1, Zenon
      <4>2. CASE j # n
        <5>1. j \in 1..Len(objects)
          BY <1>6, <4>2, Zenon
        <5> QED
          BY <1>5, <3>1, <5>1, Zenon
      <4> QED
        BY <4>1, <4>2, Zenon
    <3> QED
      BY <3>2, Zenon
  <2> QED
    BY <1>4, <1>5, <1>16, <1>22, <2>2 DEF Fresh
<1>23. Minting'
  <2>1. r.pc # "admit"
    BY <1>8, <1>9
  <2> QED
    BY <1>4, <1>11, <1>22, <2>1 DEF IInv, Minting
<1> QED
  BY <1>13, <1>14, <1>15, <1>17, <1>19, <1>20, <1>21, <1>23 DEF IInv

(* Every step of every call keeps the invariant. *)
LEMMA NextIInv == IInv /\ [Next]_vars => IInv'
<1> SUFFICES ASSUME IInv, [Next]_vars PROVE IInv'
  OBVIOUS
<1>1. CASE UNCHANGED vars
  <2>1. UNCHANGED <<keys, sessions, objects, minted, dmu, worker, answered, ended,
                    delivered, sealed>>
    BY <1>1, Zenon DEF vars, tableVars, history
  <2>2. TypeInv' /\ CallInv'
    BY <2>1, Zenon DEF IInv, TypeInv, CallInv, Carries
  <2>3. Mutex' /\ InsideInv'
    BY <2>1, ZenonT(30) DEF IInv, Mutex, InsideInv, Inside
  <2>4. OneOwner' /\ ForgetIsFinal'
    BY <2>1 DEF IInv, OneOwner, ForgetIsFinal
  <2>5. Counted'
    BY <2>1, CountedSame, Zenon DEF IInv
  <2>6. Minting'
    BY <2>1 DEF IInv, Minting, Fresh
  <2> QED
    BY <2>2, <2>3, <2>4, <2>5, <2>6 DEF IInv
<1>2. ASSUME NEW w \in Workers, NEW id \in SessionIds, DeriveKey(w, id) \/ ForgetKey(w, id)
      PROVE  IInv'
  BY <1>2, DeriveKeyIInv, ForgetKeyIInv
<1>3. ASSUME NEW w \in Workers, register(w) \/ Answer(w) \/ Unwind(w) PROVE IInv'
  BY <1>3, RegisterIInv, AnswerIInv, UnwindIInv
<1>4. ASSUME NEW w \in Workers, Handle(w) PROVE IInv'
  <2>1. PICK a \in answered, n \in Numbers : Call(w, a[1], a[2], n)
    BY <1>4 DEF Handle
  <2>2. a[1] \in SessionIds /\ a[2] \in Keys
    BY DEF IInv, TypeInv
  <2>3. a[2] \in 0..MaxKeys /\ n \in 0..MaxNumber
    BY <2>2, BoundAssumption DEF Keys, Numbers
  <2> QED
    BY <2>1, <2>2, <2>3, CallIInv
<1>5. ASSUME NEW w \in Workers, FrameReturn(w) PROVE IInv'
  <2>1. 0 \in 0..MaxKeys /\ 0 \in 0..MaxNumber
    BY BoundAssumption
  <2> QED
    BY <1>5, <2>1, CallIInv DEF FrameReturn
<1>6. ASSUME NEW w \in Workers,
             sessionForCached(w) \/ sessionForResolve(w) \/ sessionForCreate(w)
      PROVE  IInv'
  BY <1>6, CachedIInv, ResolveIInv, CreateIInv
<1>7. ASSUME NEW w \in Workers, Inbound(w) \/ Outbound(w) \/ ForgetEvict(w) PROVE IInv'
  BY <1>7, InboundIInv, OutboundIInv, ForgetEvictIInv
<1>8. ASSUME NEW w \in Workers, OutboundBound(w) PROVE IInv'
  <2>1. answered' \subseteq SessionIds \X Keys
    BY <1>8 DEF OutboundBound, history, IInv, TypeInv
  <2> QED
    BY <1>8, <2>1, IdleKeeps, Zenon DEF OutboundBound, history
<1> QED
  BY <1>1, <1>2, <1>3, <1>4, <1>5, <1>6, <1>7, <1>8 DEF Next, Step

(* The inductive invariant holds in every reachable state. *)
THEOREM Invariance == Spec => []IInv
  BY InitIInv, NextIInv, PTL DEF Spec

(* However many goroutines call HandleClassified, FrameReturn, Forget and the
   handshake at once, a packet is handed on at most once for its key and
   number (DeliveredOnce). *)
THEOREM DeliveryTheorem == Spec => []DeliveredOnce
  BY Invariance, IInvImplies, PTL

(* ... no nonce is used twice under a key (NonceNeverRepeats), although the
   counter lives in a session object that sessionFor makes on demand ... *)
THEOREM NonceTheorem == Spec => []NonceNeverRepeats
  BY Invariance, IInvImplies, PTL

(* ... and a key that a returned Forget removed is not found again in the
   store, in the cache or in a lookup under way (ForgetIsFinal). *)
THEOREM ForgetTheorem == Spec => []ForgetIsFinal
  BY Invariance, IInvImplies, PTL
=============================================================================
