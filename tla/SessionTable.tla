---------------------------- MODULE SessionTable ----------------------------
(***************************************************************************)
(* internal/gateway/admission.go and dataplane.go: the keys of admitted    *)
(* sessions (SessionStore), the responder sessions cached over them        *)
(* (DataPlane), and the handshake that fills the first.  Both say they are *)
(* safe for concurrent use, so any number of workers call them here, one   *)
(* step per critical section.  Keys are numbered as they are derived: each *)
(* handshake has a fresh ephemeral key, so no two derive the same one.  A  *)
(* datagram opens under the key that sealed it and no other.  The replay   *)
(* window of a session is the set of numbers it has seen (ReplayWindow     *)
(* shows that, for numbers that stay within its width).  Definitions named *)
(* X_Y are mistaken variants of X.                                         *)
(***************************************************************************)
EXTENDS Integers, Sequences, FiniteSets

CONSTANTS
  Workers,     \* goroutines calling the API
  SessionIds,  \* session identities clients present
  MaxKeys,     \* bound: handshakes that derive a key
  MaxNumber    \* bound: packet numbers, each way

ASSUME BoundAssumption == MaxKeys \in Nat /\ MaxNumber \in Nat

VARIABLES
  keys,      \* SessionStore.keys: id -> key, 0 when absent
  sessions,  \* DataPlane.sessions: id -> index in objects, 0 when absent
  objects,   \* every responder Session made, in order: [id, key, next, seen]
  minted,    \* keys derived so far
  dmu,       \* who holds DataPlane.mu: a set of at most one worker
  worker,    \* worker -> its call: [pc, id, key, number, obj]
  answered,  \* <<id, key>> whose ServerHello was returned
  ended,     \* history: keys that a returned DataPlane.Forget removed
  delivered, \* history: <<key, number>> -> first copies handed on
  sealed     \* history: <<key, number>> -> packets sealed for the client

tableVars == <<keys, sessions, objects>>
history == <<answered, ended, delivered, sealed>>
vars == <<tableVars, minted, dmu, worker, history>>

Keys == 1..MaxKeys
Numbers == 1..MaxNumber
Idle == [pc |-> "idle", id |-> 0, key |-> 0, number |-> 0, obj |-> 0]

Init ==
  /\ keys = [i \in SessionIds |-> 0]
  /\ sessions = [i \in SessionIds |-> 0]
  /\ objects = <<>>
  /\ minted = 0 /\ dmu = {}
  /\ worker = [w \in Workers |-> Idle]
  /\ answered = {} /\ ended = {}
  /\ delivered = [p \in Keys \X Numbers |-> 0]
  /\ sealed = [p \in Keys \X Numbers |-> 0]

-----------------------------------------------------------------------------
\* Handshake: an accepted hello derives a fresh key (nothing shared yet).
DeriveKey(w, id) ==
  /\ worker[w].pc = "idle" /\ minted < MaxKeys
  /\ minted' = minted + 1
  /\ worker' = [worker EXCEPT ![w] =
                  [Idle EXCEPT !.pc = "admit", !.id = id, !.key = minted']]
  /\ UNCHANGED <<tableVars, dmu, history>>

\* register, reached from Admit: test and set in one critical section.
register(w) ==
  LET c == worker[w] IN
  /\ c.pc = "admit"
  /\ IF keys[c.id] # 0
     THEN /\ worker' = [worker EXCEPT ![w] = Idle]  \* ErrSessionReused
          /\ UNCHANGED keys
     ELSE /\ keys' = [keys EXCEPT ![c.id] = c.key]
          /\ worker' = [worker EXCEPT ![w].pc = "lease"]
  /\ UNCHANGED <<sessions, objects, minted, dmu, history>>

\* The lease was granted or none is needed: the ServerHello is returned.
Answer(w) ==
  /\ worker[w].pc = "lease"
  /\ answered' = answered \cup {<<worker[w].id, worker[w].key>>}
  /\ worker' = [worker EXCEPT ![w] = Idle]
  /\ UNCHANGED <<tableVars, minted, dmu, ended, delivered, sealed>>

\* The lease failed, or the answer could not be encoded: store.Forget.
Unwind(w) ==
  /\ worker[w].pc = "lease"
  /\ keys' = [keys EXCEPT ![worker[w].id] = 0]
  /\ worker' = [worker EXCEPT ![w] = Idle]
  /\ UNCHANGED <<sessions, objects, minted, dmu, history>>

-----------------------------------------------------------------------------
\* HandleClassified and FrameReturn both begin with sessionFor, which waits
\* for DataPlane.mu.  A call is a datagram to open (its key and number) or,
\* with key 0, a payload to seal.
Call(w, id, key, number) ==
  /\ worker[w].pc = "idle"
  /\ worker' = [worker EXCEPT ![w] = [Idle EXCEPT
                  !.pc = "lookup", !.id = id, !.key = key, !.number = number]]
  /\ UNCHANGED <<tableVars, minted, dmu, history>>

Handle(w) ==
  \E a \in answered, n \in Numbers : Call(w, a[1], a[2], n)

FrameReturn(w) == \E id \in SessionIds : Call(w, id, 0, 0)

After(c) == IF c.key = 0 THEN "outbound" ELSE "inbound"

sessionForCached_NoWait(w) ==
  LET c == worker[w] IN
  /\ c.pc = "lookup"
  /\ IF sessions[c.id] # 0
     THEN /\ worker' = [worker EXCEPT ![w].pc = After(c),
                                      ![w].obj = sessions[c.id]]
          /\ UNCHANGED dmu
     ELSE /\ worker' = [worker EXCEPT ![w].pc = "resolve"]
          /\ dmu' = dmu \cup {w}
  /\ UNCHANGED <<tableVars, minted, history>>

\* sessionFor, d.mu taken: a cached session is returned at once.
sessionForCached(w) ==
  LET c == worker[w] IN
  /\ c.pc = "lookup" /\ dmu = {}
  /\ IF sessions[c.id] # 0
     THEN /\ worker' = [worker EXCEPT ![w].pc = After(c),
                                      ![w].obj = sessions[c.id]]
          /\ UNCHANGED dmu
     ELSE /\ worker' = [worker EXCEPT ![w].pc = "resolve"]
          /\ dmu' = {w}
  /\ UNCHANGED <<tableVars, minted, history>>

\* sessionFor: SessionKey reads the store, d.mu still held.  obj keeps the
\* key it read.  ErrUnknownSession when there is none.
sessionForResolve(w) ==
  LET c == worker[w] IN
  /\ c.pc = "resolve"
  /\ IF keys[c.id] = 0
     THEN worker' = [worker EXCEPT ![w] = Idle] /\ dmu' = dmu \ {w}
     ELSE /\ worker' = [worker EXCEPT ![w].pc = "create",
                                      ![w].obj = keys[c.id]]
          /\ UNCHANGED dmu
  /\ UNCHANGED <<tableVars, minted, history>>

\* sessionFor: a new Session is made and cached, d.mu released.
sessionForCreate(w) ==
  LET c == worker[w] IN
  /\ c.pc = "create"
  /\ objects' = Append(objects,
                  [id |-> c.id, key |-> c.obj, next |-> 0, seen |-> {}])
  /\ sessions' = [sessions EXCEPT ![c.id] = Len(objects')]
  /\ worker' = [worker EXCEPT ![w].pc = After(c), ![w].obj = Len(objects')]
  /\ dmu' = dmu \ {w}
  /\ UNCHANGED <<keys, minted, history>>

-----------------------------------------------------------------------------
\* InboundClassified on the session found: open, then Observe.
Inbound(w) ==
  LET c == worker[w]
      o == objects[c.obj]
      first == o.key = c.key /\ c.number \notin o.seen
  IN
  /\ c.pc = "inbound"
  /\ objects' = IF first THEN [objects EXCEPT ![c.obj].seen = @ \cup {c.number}]
                         ELSE objects
  /\ delivered' = IF first THEN [delivered EXCEPT ![<<c.key, c.number>>] = @ + 1]
                           ELSE delivered
  /\ worker' = [worker EXCEPT ![w] = Idle]
  /\ UNCHANGED <<keys, sessions, minted, dmu, answered, ended, sealed>>

\* Outbound on the session found: the next number, taken under its mutex,
\* seals the packet.
Outbound(w) ==
  LET c == worker[w]
      o == objects[c.obj]
  IN
  /\ c.pc = "outbound" /\ o.next < MaxNumber
  /\ objects' = [objects EXCEPT ![c.obj].next = @ + 1]
  /\ sealed' = [sealed EXCEPT ![<<o.key, o.next + 1>>] = @ + 1]
  /\ worker' = [worker EXCEPT ![w] = Idle]
  /\ UNCHANGED <<keys, sessions, minted, dmu, answered, ended, delivered>>

\* The bound on numbers: the model stops a packet it has no number for.
OutboundBound(w) ==
  /\ worker[w].pc = "outbound" /\ objects[worker[w].obj].next = MaxNumber
  /\ worker' = [worker EXCEPT ![w] = Idle]
  /\ UNCHANGED <<tableVars, minted, dmu, history>>

-----------------------------------------------------------------------------
ForgetKey_CacheOnly(w, id) ==
  /\ worker[w].pc = "idle" /\ dmu = {}
  /\ dmu' = {w}
  /\ worker' = [worker EXCEPT ![w] =
                  [Idle EXCEPT !.pc = "evict", !.id = id, !.key = keys[id]]]
  /\ UNCHANGED <<tableVars, minted, history>>

\* DataPlane.Forget, d.mu taken: the resolver's Forget removes the key ...
ForgetKey(w, id) ==
  /\ worker[w].pc = "idle" /\ dmu = {}
  /\ dmu' = {w}
  /\ keys' = [keys EXCEPT ![id] = 0]
  /\ worker' = [worker EXCEPT ![w] =
                  [Idle EXCEPT !.pc = "evict", !.id = id, !.key = keys[id]]]
  /\ UNCHANGED <<sessions, objects, minted, history>>

ForgetEvict_Kept(w) ==
  LET c == worker[w] IN
  /\ c.pc = "evict"
  /\ ended' = ended \cup ({c.key} \ {0})
  /\ worker' = [worker EXCEPT ![w] = Idle]
  /\ dmu' = dmu \ {w}
  /\ UNCHANGED <<tableVars, minted, answered, delivered, sealed>>

\* ... and the cached session is deleted, d.mu released.
ForgetEvict(w) ==
  LET c == worker[w] IN
  /\ c.pc = "evict"
  /\ sessions' = [sessions EXCEPT ![c.id] = 0]
  /\ ended' = ended \cup ({c.key} \ {0})
  /\ worker' = [worker EXCEPT ![w] = Idle]
  /\ dmu' = dmu \ {w}
  /\ UNCHANGED <<keys, objects, minted, answered, delivered, sealed>>

-----------------------------------------------------------------------------
Step(w) ==
  \/ \E id \in SessionIds : DeriveKey(w, id) \/ ForgetKey(w, id)
  \/ register(w) \/ Answer(w) \/ Unwind(w)
  \/ Handle(w) \/ FrameReturn(w)
  \/ sessionForCached(w) \/ sessionForResolve(w) \/ sessionForCreate(w)
  \/ Inbound(w) \/ Outbound(w) \/ OutboundBound(w) \/ ForgetEvict(w)

Next == \E w \in Workers : Step(w)
Spec == Init /\ [][Next]_vars

-----------------------------------------------------------------------------
(* A packet is handed on at most once for its key and number, whichever
   workers carry its copies: no interleaving of sessionFor, Forget and a new
   handshake gives one key a second, empty replay window. *)
DeliveredOnce == \A p \in DOMAIN delivered : delivered[p] <= 1

(* "Nonces never repeat under a key" (crypto.go:21): no two packets for the
   client are sealed with the same key and number, although the counter that
   numbers them belongs to a session object that Forget may drop and
   sessionFor may make again. *)
NonceNeverRepeats == \A p \in DOMAIN sealed : sealed[p] <= 1

(* What DataPlane.Forget ended stays ended ("neither still live nor
   resurrected", dataplane.go:88): no later lookup finds the key in the store
   or in the cached session, nor is a session being made from it. *)
ForgetIsFinal ==
  \A k \in ended :
    /\ \A i \in SessionIds :
         keys[i] # k /\ (sessions[i] # 0 => objects[sessions[i]].key # k)
    /\ \A w \in Workers : worker[w].pc = "create" => worker[w].obj # k

(* "The gateway never reuses a SessionID for a second key"
   (docs/security/stage-2-session-security.md:24): no identity is admitted,
   its ServerHello returned, with two different keys. *)
SessionIdSingleUse == \A a, b \in answered : a[1] = b[1] => a[2] = b[2]
=============================================================================
