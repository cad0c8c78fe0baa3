------------------------- MODULE ClientTunnelProofs -------------------------
(***************************************************************************)
(* Proofs about the tunnel provider and its bridge to the core, for any    *)
(* number of starts, packets and batches.  The invariants need to know     *)
(* what an instance has at each step (Stage): the settings callback is     *)
(* pending until it reports, the relay is the session the start made, the  *)
(* receive loop is armed from before the relay is stored, and a running    *)
(* outbound callback holds a session and a path that is up.                *)
(***************************************************************************)
EXTENDS ClientTunnel, TLAPS

Early == {"new", "make", "open", "begin", "hello", "await", "cancel"}
Pcs == Early \cup {"loop", "store", "settings", "up", "failed", "stopping", "stopped"}
States == {<<>>, initialPathStates}
ProvType ==
  [pc : Pcs, start : Nat, hs : Nat, core : Nat, relay : Nat, states : States,
   settings : BOOLEAN, sender : BOOLEAN, closed : BOOLEAN, loopActive : BOOLEAN,
   oneShot : {"idle", "armed", "hello", "other", "error"}, failed : BOOLEAN,
   finished : Nat]
InbType == [pc : {"off", "armed", "got", "call", "write"}, ref : Nat, n : Nat]
OutType == [pc : {"off", "armed", "frame", "send"}, ref : Nat, states : States, left : Nat]
SessionType == [framed : Nat, tried : SUBSET Nat, seen : SUBSET Nat, written : SUBSET Nat]

TypeInv ==
  /\ hs \in [next : Nat, pending : SUBSET Nat]
  /\ next \in Nat
  /\ DOMAIN sessions \subseteq 1..next
  /\ sessions \in [DOMAIN sessions -> SessionType]
  /\ prov \in ProvType /\ inb \in InbType /\ out \in OutType

\* The handle connect holds is the one that is pending.
Pending == hs.pending = IF prov.pc \in {"hello", "await", "cancel"} THEN {prov.hs} ELSE {}

\* What an instance has at each step.
Stage ==
  /\ prov.pc \in Early => prov.core = Nil
  /\ prov.pc \in Early \cup {"loop"} => inb.pc = "off"
  /\ prov.pc \in Early \cup {"loop", "store"} =>
       prov.finished = 0 /\ ~prov.settings /\ out.pc = "off"
  /\ prov.settings => prov.pc # "up" /\ prov.finished = 0 /\ out.pc = "off"
  /\ prov.finished <= 1
  /\ prov.pc \in {"loop", "store", "settings", "up"} => prov.core # Nil
  /\ prov.pc = "settings" => prov.settings
  /\ prov.pc \in {"settings", "up"} => prov.relay = prov.core
  /\ prov.pc \in {"store", "settings", "up"} =>
       prov.loopActive /\ (~prov.failed => inb.pc # "off")
  /\ prov.pc = "up" => out.pc # "off"
  /\ prov.relay # Nil => prov.states = initialPathStates
  /\ out.pc \in {"frame", "send"} => out.ref # Nil /\ out.states = initialPathStates
  /\ out.pc = "send" => out.left # 0

\* Every number framed was sent or is being sent.
Sent ==
  \A h \in DOMAIN sessions :
    (1..sessions[h].framed) \ sessions[h].tried \subseteq
         IF out.pc = "send" /\ out.ref = h THEN {sessions[h].framed} ELSE {}

IInv == TypeInv /\ Pending /\ Stage /\ HandleLive /\ AcceptedIsWritten /\ Sent

(* The stated invariants follow. *)
LEMMA IInvImplies ==
  IInv => HandshakesConsumed /\ HandleLive /\ AcceptedIsWritten /\ StaysConnected
          /\ prov.finished <= 1
<1> SUFFICES ASSUME IInv
             PROVE  HandshakesConsumed /\ StaysConnected
  BY DEF IInv, Stage
<1>1. HandshakesConsumed
  BY DEF IInv, Pending, HandshakesConsumed
<1>2. StaysConnected
  BY DEF IInv, Stage, Sent, StaysConnected
<1> QED
  BY <1>1, <1>2

(* A fresh process. *)
LEMMA InitIInv == Init => IInv
<1> SUFFICES ASSUME Init PROVE IInv
  OBVIOUS
<1>1. DOMAIN sessions = {}
  BY DEF Init
<1>2. sessions \in [DOMAIN sessions -> SessionType]
  BY <1>1 DEF Init
<1>3. TypeInv
  BY <1>1, <1>2 DEF Init, TypeInv, NewProvider, InbOff, OutOff, ProvType, Pcs, Early,
     States, InbType, OutType, Nil
<1>4. Pending /\ Stage
  BY DEF Init, Pending, Stage, NewProvider, InbOff, OutOff, Early, Nil
<1>5. HandleLive
  BY DEF Init, HandleLive, Referenced, NewProvider, InbOff, OutOff, Nil
<1> QED
  BY <1>1, <1>3, <1>4, <1>5 DEF IInv, AcceptedIsWritten, Sent

(* With one path that is up and costs nothing, every packet goes over it. *)
LEMMA WifiChosen ==
  Wifi \in sendPaths([mode |-> "auto", preferred |-> "none"], initialPathStates, FALSE)
<1>1. UpPaths(initialPathStates) = {1} /\ FreePaths(initialPathStates) = {1}
   BY DEF UpPaths, FreePaths, initialPathStates
<1>2. effectiveMode("auto", initialPathStates) = "duplicate"
  BY <1>1 DEF effectiveMode
<1> QED
  BY <1>1, <1>2, Zenon DEF sendPaths, IdsOf, initialPathStates

\* What connecting and the two registries have in common before there is a
\* session: an early step of startTunnel goes on or gives up.
EarlyStep ==
  /\ UNCHANGED <<next, sessions, inb, out>>
  /\ hs' \in [next : Nat, pending : SUBSET Nat]
  /\ prov.pc \in Early /\ prov' \in ProvType
  /\ prov'.pc \in Early \cup {"failed"}
  /\ prov'.core = prov.core /\ prov'.relay = prov.relay /\ prov'.states = prov.states
  /\ prov'.settings = prov.settings
  /\ prov'.finished = IF prov'.pc = "failed" THEN prov.finished + 1 ELSE prov.finished

(* Such a step keeps the invariant if the handshake it holds is the one
   pending. *)
LEMMA EarlyKeeps == ASSUME IInv, EarlyStep, Pending' PROVE IInv'
<1>1. TypeInv'
  BY DEF IInv, TypeInv, EarlyStep
<1>2. Stage'
  BY DEF IInv, Stage, EarlyStep, Early, Nil
<1>3. HandleLive'
  BY DEF IInv, HandleLive, EarlyStep, Referenced, Early
<1>4. AcceptedIsWritten' /\ Sent'
  BY DEF IInv, AcceptedIsWritten, Sent, EarlyStep
<1> QED
  BY <1>1, <1>2, <1>3, <1>4 DEF IInv

(* Records: one field moves and the others stay. *)
LEMMA GotoFields ==
  ASSUME NEW p \in ProvType, NEW pc \in Pcs, NEW q, q = [p EXCEPT !.pc = pc]
  PROVE  /\ q \in ProvType /\ q.pc = pc
         /\ q.hs = p.hs /\ q.core = p.core /\ q.relay = p.relay /\ q.states = p.states
         /\ q.settings = p.settings /\ q.loopActive = p.loopActive
         /\ q.failed = p.failed /\ q.finished = p.finished
  BY DEF ProvType

(* finish(error): the start is over and reported. *)
LEMMA RefusedFields ==
  ASSUME NEW p \in ProvType, NEW q, q = Refused(p)
  PROVE  /\ q \in ProvType /\ q.pc = "failed"
         /\ q.hs = p.hs /\ q.core = p.core /\ q.relay = p.relay /\ q.states = p.states
         /\ q.settings = p.settings /\ q.loopActive = p.loopActive
         /\ q.failed = p.failed /\ q.finished = p.finished + 1
<1>1. "failed" \in Pcs /\ p.finished + 1 \in Nat
  BY DEF Pcs, ProvType
<1> QED
  BY <1>1, Zenon DEF ProvType, Refused

(* startTunnel up to the handshake: nothing is registered yet. *)
LEMMA BeforeIInv ==
  ASSUME IInv, StartTunnel \/ MakeRelay \/ OpenSender PROVE IInv'
<1>1. /\ UNCHANGED <<hs, next, sessions, inb, out>>
      /\ prov.pc \in {"new", "make", "open"}
      /\ \/ \E pc \in {"make", "open"} : Goto(pc)
         \/ Refuse
         \/ prov' = [prov EXCEPT !.pc = "begin", !.sender = TRUE]
  BY DEF StartTunnel, MakeRelay, OpenSender
<1>2. prov \in ProvType /\ hs \in [next : Nat, pending : SUBSET Nat]
  BY DEF IInv, TypeInv
<1>3. /\ prov' \in ProvType /\ prov'.pc \in {"make", "open", "begin", "failed"}
      /\ prov'.core = prov.core /\ prov'.relay = prov.relay /\ prov'.states = prov.states
      /\ prov'.settings = prov.settings
      /\ prov'.finished = IF prov'.pc = "failed" THEN prov.finished + 1 ELSE prov.finished
  <2>1. CASE \E pc \in {"make", "open"} : Goto(pc)
    BY <1>2, <2>1, GotoFields DEF Goto, Pcs, Early
  <2>2. CASE Refuse
    BY <1>2, <2>2, RefusedFields DEF Refuse
  <2>3. CASE prov' = [prov EXCEPT !.pc = "begin", !.sender = TRUE]
    BY <1>2, <2>3, Zenon DEF ProvType, Pcs, Early
  <2> QED
    BY <1>1, <2>1, <2>2, <2>3
<1>4. EarlyStep
  BY <1>1, <1>2, <1>3 DEF EarlyStep, Early
<1>5. Pending'
  BY <1>1, <1>3 DEF IInv, Pending
<1> QED
  BY <1>4, <1>5, EarlyKeeps

(* cc_handshake_begin registers the handle that connect then holds. *)
LEMMA BeginIInv == ASSUME IInv, BeginHandshake PROVE IInv'
<1>1. /\ UNCHANGED <<next, sessions, inb, out>> /\ prov.pc = "begin"
      /\ prov \in ProvType /\ hs \in [next : Nat, pending : SUBSET Nat]
      /\ hs.pending = {}
  BY DEF BeginHandshake, IInv, TypeInv, Pending
<1>2. CASE Refuse /\ UNCHANGED hs
  <2>1. /\ prov' \in ProvType /\ prov'.pc = "failed"
        /\ prov'.core = prov.core /\ prov'.relay = prov.relay /\ prov'.states = prov.states
        /\ prov'.settings = prov.settings /\ prov'.finished = prov.finished + 1
    BY <1>1, <1>2, RefusedFields DEF Refuse
  <2>2. EarlyStep /\ Pending'
    BY <1>1, <1>2, <2>1 DEF EarlyStep, Early, Pending
  <2> QED
    BY <2>2, EarlyKeeps
<1>3. CASE hs' = HsAdd /\ prov' = [prov EXCEPT !.pc = "hello", !.hs = hs'.next]
  <2>1. /\ hs' \in [next : Nat, pending : SUBSET Nat]
        /\ hs'.pending = {hs'.next} /\ hs'.next \in Nat
    BY <1>1, <1>3 DEF HsAdd
  <2>2. /\ prov' \in ProvType /\ prov'.pc = "hello" /\ prov'.hs = hs'.next
        /\ prov'.core = prov.core /\ prov'.relay = prov.relay /\ prov'.states = prov.states
        /\ prov'.settings = prov.settings /\ prov'.finished = prov.finished
    BY <1>1, <1>3, <2>1, Zenon DEF ProvType, Pcs, Early
  <2>3. EarlyStep /\ Pending'
    BY <1>1, <2>1, <2>2 DEF EarlyStep, Early, Pending
  <2> QED
    BY <2>3, EarlyKeeps
<1> QED
  BY <1>2, <1>3 DEF BeginHandshake

(* connect while the handle is pending: sending, waiting, giving up. *)
LEMMA WaitIInv == ASSUME IInv, SendHello \/ ReceiveFails PROVE IInv'
<1>1. /\ UNCHANGED <<hs, next, sessions, inb, out>> /\ prov.pc \in {"hello", "await"}
      /\ \/ Goto("cancel")
         \/ prov' = [prov EXCEPT !.pc = "await", !.oneShot = "armed"]
         \/ prov' = [prov EXCEPT !.pc = "cancel", !.oneShot = "idle"]
  BY DEF SendHello, ReceiveFails
<1>2. prov \in ProvType /\ hs \in [next : Nat, pending : SUBSET Nat]
  BY DEF IInv, TypeInv
<1>3. /\ prov' \in ProvType /\ prov'.pc \in {"await", "cancel"} /\ prov'.hs = prov.hs
      /\ prov'.core = prov.core /\ prov'.relay = prov.relay /\ prov'.states = prov.states
      /\ prov'.settings = prov.settings /\ prov'.finished = prov.finished
  <2>1. CASE Goto("cancel")
    BY <1>2, <2>1, GotoFields DEF Goto, Pcs, Early
  <2>2. CASE prov' = [prov EXCEPT !.pc = "await", !.oneShot = "armed"]
    BY <1>2, <2>2, Zenon DEF ProvType, Pcs, Early
  <2>3. CASE prov' = [prov EXCEPT !.pc = "cancel", !.oneShot = "idle"]
    BY <1>2, <2>3, Zenon DEF ProvType, Pcs, Early
  <2> QED
    BY <1>1, <2>1, <2>2, <2>3
<1>4. EarlyStep /\ Pending'
  BY <1>1, <1>2, <1>3 DEF IInv, Pending, EarlyStep, Early
<1> QED
  BY <1>4, EarlyKeeps

(* connect's deferred cancel takes the handle out again. *)
LEMMA CancelIInv == ASSUME IInv, CancelHandshake PROVE IInv'
<1>1. /\ UNCHANGED <<next, sessions, inb, out>> /\ prov.pc = "cancel"
      /\ prov \in ProvType /\ hs \in [next : Nat, pending : SUBSET Nat]
      /\ hs.pending = {prov.hs} /\ hs' = HsTake(prov.hs)
  BY DEF CancelHandshake, IInv, TypeInv, Pending
<1>2. hs' \in [next : Nat, pending : SUBSET Nat] /\ hs'.pending = {}
  BY <1>1 DEF HsTake
<1>3. /\ prov' \in ProvType /\ prov'.pc = "failed"
      /\ prov'.core = prov.core /\ prov'.relay = prov.relay /\ prov'.states = prov.states
      /\ prov'.settings = prov.settings /\ prov'.finished = prov.finished + 1
  BY <1>1, RefusedFields DEF CancelHandshake, Refuse
<1>4. EarlyStep /\ Pending'
  BY <1>1, <1>2, <1>3 DEF EarlyStep, Early, Pending
<1> QED
  BY <1>4, EarlyKeeps

(* The one-shot receive's callback leaves its answer, at any time. *)
LEMMA OneShotIInv == ASSUME IInv, OneShotReceive PROVE IInv'
<1>1. PICK r \in {"hello", "other", "error"} : prov' = [prov EXCEPT !.oneShot = r]
  BY DEF OneShotReceive
<1>2. UNCHANGED <<hs, next, sessions, inb, out>> /\ prov \in ProvType
  BY DEF OneShotReceive, IInv, TypeInv
<1>3. /\ prov' \in ProvType /\ prov'.pc = prov.pc /\ prov'.hs = prov.hs
      /\ prov'.core = prov.core /\ prov'.relay = prov.relay /\ prov'.states = prov.states
      /\ prov'.settings = prov.settings /\ prov'.loopActive = prov.loopActive
      /\ prov'.failed = prov.failed /\ prov'.finished = prov.finished
  BY <1>1, <1>2 DEF ProvType
<1>4. TypeInv' /\ Pending' /\ Stage'
  BY <1>2, <1>3 DEF IInv, TypeInv, Pending, Stage
<1>5. HandleLive'
  BY <1>2, <1>3 DEF IInv, HandleLive, Referenced
<1>6. AcceptedIsWritten' /\ Sent'
  BY <1>2 DEF IInv, AcceptedIsWritten, Sent
<1> QED
  BY <1>4, <1>5, <1>6 DEF IInv

(* The session the core answers with is registered under a new handle. *)
LEMMA CompleteIInv == ASSUME IInv, CompleteHandshake PROVE IInv'
<1>1. /\ UNCHANGED <<inb, out>> /\ prov.pc = "await"
      /\ prov \in ProvType /\ hs \in [next : Nat, pending : SUBSET Nat]
      /\ hs.pending = {prov.hs} /\ hs' = HsTake(prov.hs)
  BY DEF CompleteHandshake, IInv, TypeInv, Pending
<1>2. hs' \in [next : Nat, pending : SUBSET Nat] /\ hs'.pending = {}
  BY <1>1 DEF HsTake
<1>3. CASE /\ prov' = Refused([prov EXCEPT !.oneShot = "idle"])
           /\ UNCHANGED <<next, sessions>>
  <2>1. PICK p : p = [prov EXCEPT !.oneShot = "idle"]
    BY Zenon
  <2>2. /\ p \in ProvType /\ p.core = prov.core /\ p.relay = prov.relay
        /\ p.states = prov.states /\ p.settings = prov.settings /\ p.finished = prov.finished
    BY <1>1, <2>1 DEF ProvType
  <2>3. prov' = Refused(p)
    BY <1>3, <2>1
  <2>4. /\ prov' \in ProvType /\ prov'.pc = "failed"
        /\ prov'.core = prov.core /\ prov'.relay = prov.relay /\ prov'.states = prov.states
        /\ prov'.settings = prov.settings /\ prov'.finished = prov.finished + 1
    BY <2>2, <2>3, RefusedFields
  <2>5. EarlyStep /\ Pending'
    BY <1>1, <1>2, <1>3, <2>4 DEF EarlyStep, Early, Pending
  <2> QED
    BY <2>5, EarlyKeeps
<1>4. CASE /\ Add(NewSession)
           /\ prov' = [prov EXCEPT !.pc = "loop", !.core = next', !.oneShot = "idle"]
  <2>1. /\ next' = next + 1 /\ next \in Nat /\ next' \in Nat /\ next' # 0
        /\ DOMAIN sessions \subseteq 1..next
        /\ DOMAIN sessions' = DOMAIN sessions \cup {next'}
        /\ sessions'[next'] = NewSession
        /\ \A h \in DOMAIN sessions : sessions'[h] = sessions[h]
    BY <1>4 DEF Add, IInv, TypeInv
  <2>2. sessions' \in [DOMAIN sessions' -> SessionType]
    <3>1. NewSession \in SessionType
      BY DEF NewSession, SessionType
    <3>2. \A h \in DOMAIN sessions : sessions[h] \in SessionType
      BY DEF IInv, TypeInv
    <3> QED
      BY <1>4, <3>1, <3>2 DEF Add
  <2>3. /\ prov' \in ProvType /\ prov'.pc = "loop" /\ prov'.core = next'
        /\ prov'.relay = prov.relay /\ prov'.states = prov.states
        /\ prov'.settings = prov.settings /\ prov'.finished = prov.finished
    BY <1>1, <1>4, <2>1, Zenon DEF ProvType, Pcs
  <2>4. /\ inb.pc = "off" /\ out.pc = "off" /\ prov.core = Nil
        /\ prov.finished = 0 /\ ~prov.settings
    BY <1>1 DEF IInv, Stage, Early
  <2>5. prov.relay = Nil /\ inb.ref = Nil /\ out.ref = Nil
    BY <1>1, <2>4 DEF IInv, HandleLive, Referenced
  <2>6. TypeInv'
    BY <1>1, <1>2, <2>1, <2>2, <2>3 DEF IInv, TypeInv
  <2>7. Pending'
    BY <1>2, <2>3 DEF Pending
  <2>8. Stage'
    BY <1>1, <2>1, <2>3, <2>4, <2>5 DEF IInv, Stage, Early, Nil
  <2>9. HandleLive'
    BY <1>1, <2>1, <2>3, <2>5 DEF HandleLive, Referenced
  <2>10. AcceptedIsWritten'
    <3>1. NewSession.seen = {} /\ NewSession.written = {} /\ inb'.pc # "write" /\ inb.pc # "write"
      BY <1>1, <2>4 DEF NewSession
    <3>2. \A h \in DOMAIN sessions : sessions[h].seen = sessions[h].written
      BY <3>1, Zenon DEF IInv, AcceptedIsWritten
    <3> QED
      BY <2>1, <3>1, <3>2 DEF AcceptedIsWritten
  <2>11. Sent'
    BY <1>1, <2>1, <2>4 DEF IInv, Sent, NewSession
  <2> QED
    BY <2>6, <2>7, <2>8, <2>9, <2>10, <2>11 DEF IInv
<1> QED
  BY <1>3, <1>4 DEF CompleteHandshake

(* The receive loop is armed, for the first time. *)
LEMMA ReceiveLoopIInv == ASSUME IInv, ReceiveLoop PROVE IInv'
<1>1. /\ UNCHANGED <<hs, next, sessions, out>> /\ prov.pc = "loop"
      /\ prov \in ProvType /\ inb \in InbType
      /\ prov' = [prov EXCEPT !.pc = "store", !.loopActive = TRUE]
      /\ inb' = [inb EXCEPT !.pc = "armed"]
  BY DEF ReceiveLoop, IInv, TypeInv
<1>2. /\ prov' \in ProvType /\ prov'.pc = "store" /\ prov'.loopActive
      /\ prov'.core = prov.core /\ prov'.relay = prov.relay /\ prov'.states = prov.states
      /\ prov'.settings = prov.settings /\ prov'.finished = prov.finished
  BY <1>1, Zenon DEF ProvType, Pcs
<1>3. inb' \in InbType /\ inb'.pc = "armed" /\ inb'.ref = inb.ref /\ inb.pc = "off"
  BY <1>1 DEF InbType, IInv, Stage
<1>4. TypeInv' /\ Pending'
  BY <1>1, <1>2, <1>3 DEF IInv, TypeInv, Pending
<1>5. Stage'
  BY <1>1, <1>2, <1>3 DEF IInv, Stage, Early
<1>6. HandleLive'
  BY <1>1, <1>2, <1>3 DEF IInv, HandleLive, Referenced
<1>7. AcceptedIsWritten' /\ Sent'
  BY <1>1, <1>3 DEF IInv, AcceptedIsWritten, Sent
<1> QED
  BY <1>4, <1>5, <1>6, <1>7 DEF IInv

(* The relay is stored under the lock and the settings are asked for. *)
LEMMA StoreRelayIInv == ASSUME IInv, StoreRelay PROVE IInv'
<1>1. /\ UNCHANGED <<hs, next, sessions, inb, out>> /\ prov.pc = "store"
      /\ prov \in ProvType
      /\ prov' = [prov EXCEPT !.pc = "settings", !.relay = prov.core,
                              !.states = initialPathStates, !.settings = TRUE]
  BY DEF StoreRelay, IInv, TypeInv
<1>2. /\ prov' \in ProvType /\ prov'.pc = "settings" /\ prov'.relay = prov.core
      /\ prov'.states = initialPathStates /\ prov'.settings
      /\ prov'.core = prov.core /\ prov'.loopActive = prov.loopActive
      /\ prov'.failed = prov.failed /\ prov'.finished = prov.finished
  BY <1>1, Zenon DEF ProvType, Pcs, States
<1>3. TypeInv' /\ Pending'
  BY <1>1, <1>2 DEF IInv, TypeInv, Pending
<1>4. Stage'
  BY <1>1, <1>2 DEF IInv, Stage, Early
<1>5. HandleLive'
  BY <1>1, <1>2 DEF IInv, HandleLive, Referenced
<1>6. AcceptedIsWritten' /\ Sent'
  BY <1>1 DEF IInv, AcceptedIsWritten, Sent
<1> QED
  BY <1>3, <1>4, <1>5, <1>6 DEF IInv

(* The settings callback, before or after stopTunnel. *)
LEMMA SettingsDoneIInv == ASSUME IInv, SettingsDone PROVE IInv'
<1>1. PICK ok \in BOOLEAN :
        /\ out' = IF ok THEN [out EXCEPT !.pc = "armed"] ELSE out
        /\ prov' = [prov EXCEPT !.settings = FALSE, !.finished = @ + 1,
                      !.pc = IF @ # "settings" THEN @ ELSE IF ok THEN "up" ELSE "failed"]
  BY Zenon DEF SettingsDone
<1>2. /\ UNCHANGED <<hs, next, sessions, inb>> /\ prov.settings
      /\ prov \in ProvType /\ out \in OutType /\ prov.finished = 0 /\ out.pc = "off"
      /\ prov.pc \notin Early \cup {"loop", "store", "up"}
  BY DEF SettingsDone, IInv, TypeInv, Stage
<1>3. PICK pc : pc = IF prov.pc # "settings" THEN prov.pc ELSE IF ok THEN "up" ELSE "failed"
  BY Zenon
<1>4. /\ pc \in Pcs /\ pc \notin Early \cup {"loop", "store", "settings"}
      /\ (pc = "up" => ok /\ prov.pc = "settings")
  BY <1>2, <1>3 DEF ProvType, Pcs, Early
<1>5. prov' = [prov EXCEPT !.settings = FALSE, !.finished = 1, !.pc = pc]
  BY <1>1, <1>2, <1>3
<1>6. /\ prov' \in ProvType /\ ~prov'.settings /\ prov'.finished = 1 /\ prov'.pc = pc
      /\ prov'.core = prov.core /\ prov'.relay = prov.relay /\ prov'.states = prov.states
      /\ prov'.loopActive = prov.loopActive /\ prov'.failed = prov.failed
  BY <1>2, <1>4, <1>5, Zenon DEF ProvType
<1>7. out' \in OutType /\ out'.pc \in {"armed", "off"} /\ (ok => out'.pc = "armed")
      /\ out'.ref = out.ref
  <2>1. CASE ok
    BY <1>1, <1>2, <2>1 DEF OutType
  <2>2. CASE ~ok
    BY <1>1, <1>2, <2>2
  <2> QED
    BY <2>1, <2>2
<1>8. TypeInv' /\ Pending'
  BY <1>2, <1>4, <1>6, <1>7 DEF IInv, TypeInv, Pending, Early
<1>9. Stage'
  BY <1>2, <1>4, <1>6, <1>7 DEF IInv, Stage, Early
<1>10. HandleLive'
  BY <1>2, <1>4, <1>6, <1>7 DEF IInv, HandleLive, Referenced
<1>11. AcceptedIsWritten' /\ Sent'
  BY <1>2, <1>7 DEF IInv, AcceptedIsWritten, Sent
<1> QED
  BY <1>8, <1>9, <1>10, <1>11 DEF IInv

-----------------------------------------------------------------------------
(* deinit frees the sessions nobody names and leaves the others as they are. *)
LEMMA ReleaseFacts ==
  ASSUME TypeInv, NEW R, sessions' = Restrict(sessions, DOMAIN sessions \cap R)
  PROVE  /\ DOMAIN sessions' = DOMAIN sessions \cap R
         /\ DOMAIN sessions' \subseteq 1..next
         /\ \A h \in DOMAIN sessions' : sessions'[h] = sessions[h]
         /\ sessions' \in [DOMAIN sessions' -> SessionType]
<1>1. DOMAIN sessions' = DOMAIN sessions \cap R
  BY DEF Restrict
<1>2. \A h \in DOMAIN sessions' : sessions'[h] = sessions[h]
  BY <1>1 DEF Restrict
<1>3. \A h \in DOMAIN sessions : sessions[h] \in SessionType
  BY DEF TypeInv
<1>4. sessions' = [h \in DOMAIN sessions' |-> sessions'[h]]
  BY DEF Restrict
<1>5. sessions' \in [DOMAIN sessions' -> SessionType]
  BY <1>1, <1>2, <1>3, <1>4
<1> QED
  BY <1>1, <1>2, <1>5, Zenon DEF TypeInv

(* stopTunnel closes the sender. *)
LEMMA CloseSenderIInv == ASSUME IInv, CloseSender PROVE IInv'
<1>1. /\ UNCHANGED <<hs, next, sessions, inb, out>>
      /\ prov.pc \in {"settings", "up", "failed"} /\ prov \in ProvType
      /\ prov' = [Close(prov) EXCEPT !.pc = "stopping"]
  BY DEF CloseSender, IInv, TypeInv
<1>2. PICK p : p = Close(prov)
  BY Zenon
<1>3. /\ p \in ProvType /\ p.core = prov.core /\ p.relay = prov.relay
      /\ p.states = prov.states /\ p.settings = prov.settings /\ p.finished = prov.finished
  BY <1>1, <1>2, Zenon DEF Close, ProvType
<1>4. /\ prov' \in ProvType /\ prov'.pc = "stopping"
      /\ prov'.core = prov.core /\ prov'.relay = prov.relay /\ prov'.states = prov.states
      /\ prov'.settings = prov.settings /\ prov'.finished = prov.finished
  BY <1>1, <1>2, <1>3, GotoFields DEF Pcs
<1>5. TypeInv' /\ Pending'
  BY <1>1, <1>4 DEF IInv, TypeInv, Pending
<1>6. Stage'
  BY <1>1, <1>4 DEF IInv, Stage, Early
<1>7. HandleLive'
  BY <1>1, <1>4 DEF IInv, HandleLive, Referenced
<1>8. AcceptedIsWritten' /\ Sent'
  BY <1>1 DEF IInv, AcceptedIsWritten, Sent
<1> QED
  BY <1>5, <1>6, <1>7, <1>8 DEF IInv

(* stopTunnel drops the relay; a callback that holds it keeps the session. *)
LEMMA DropRelayIInv == ASSUME IInv, DropRelay PROVE IInv'
<1>1. /\ UNCHANGED <<hs, next, inb, out>>
      /\ prov.pc = "stopping" /\ prov \in ProvType
      /\ prov' = [prov EXCEPT !.pc = "stopped", !.relay = Nil]
  BY DEF DropRelay, IInv, TypeInv
<1>2. /\ prov' \in ProvType /\ prov'.pc = "stopped" /\ prov'.relay = Nil
      /\ prov'.core = prov.core
      /\ prov'.settings = prov.settings /\ prov'.finished = prov.finished
  BY <1>1, Zenon DEF ProvType, Pcs, Nil
<1>3. PICK R : R = Referenced(prov', inb, out)
  BY Zenon
<1>4. /\ DOMAIN sessions' = DOMAIN sessions \cap R
      /\ DOMAIN sessions' \subseteq 1..next
      /\ \A h \in DOMAIN sessions' : sessions'[h] = sessions[h]
      /\ sessions' \in [DOMAIN sessions' -> SessionType]
  <2>1. sessions' = Restrict(sessions, DOMAIN sessions \cap R)
    BY <1>3 DEF DropRelay, Release
  <2> QED
    BY <2>1, ReleaseFacts, Zenon DEF IInv
<1>5. TypeInv' /\ Pending'
  BY <1>1, <1>2, <1>4 DEF IInv, TypeInv, Pending
<1>6. Stage'
  BY <1>1, <1>2 DEF IInv, Stage, Early
<1>7. HandleLive'
  <2>1. R = {Nil, inb.ref, out.ref}
    BY <1>2, <1>3 DEF Referenced
  <2>2. {inb.ref, out.ref} \subseteq Referenced(prov, inb, out)
    BY DEF Referenced
  <2>3. \A h \in R \ {Nil} : h \in DOMAIN sessions /\ h = prov.core
    BY <2>1, <2>2 DEF IInv, HandleLive
  <2> QED
    BY <1>1, <1>2, <1>3, <1>4, <2>3 DEF HandleLive
<1>8. AcceptedIsWritten' /\ Sent'
  BY <1>1, <1>4 DEF IInv, AcceptedIsWritten, Sent
<1> QED
  BY <1>5, <1>6, <1>7, <1>8 DEF IInv

(* Another instance is started; nothing refers to the sessions of the last. *)
LEMMA DiscardIInv == ASSUME IInv, Discard PROVE IInv'
<1>1. /\ UNCHANGED <<hs, next>> /\ prov.pc \in {"failed", "stopped"}
      /\ inb.pc \in {"off", "armed"} /\ out.pc \in {"off", "armed"}
      /\ prov \in ProvType
      /\ prov' = NewProvider(prov.start + 1) /\ inb' = InbOff /\ out' = OutOff
  BY DEF Discard, IInv, TypeInv
<1>2. prov.start + 1 \in Nat
  BY <1>1 DEF ProvType
<1>3. /\ prov' \in ProvType /\ inb' \in InbType /\ out' \in OutType
      /\ prov'.pc = "new" /\ prov'.relay = Nil /\ prov'.core = Nil
      /\ ~prov'.settings /\ prov'.finished = 0
      /\ inb'.pc = "off" /\ inb'.ref = Nil /\ out'.pc = "off" /\ out'.ref = Nil
  BY <1>1, <1>2 DEF NewProvider, InbOff, OutOff, ProvType, Pcs, Early, States, InbType,
     OutType, Nil
<1>4. PICK R : R = Referenced(prov', inb', out')
  BY Zenon
<1>5. /\ DOMAIN sessions' = DOMAIN sessions \cap R
      /\ DOMAIN sessions' \subseteq 1..next
      /\ \A h \in DOMAIN sessions' : sessions'[h] = sessions[h]
      /\ sessions' \in [DOMAIN sessions' -> SessionType]
  <2>1. sessions' = Restrict(sessions, DOMAIN sessions \cap R)
    BY <1>4 DEF Discard, Release
  <2> QED
    BY <2>1, ReleaseFacts, Zenon DEF IInv
<1>6. TypeInv' /\ Pending'
  BY <1>1, <1>3, <1>5 DEF IInv, TypeInv, Pending
<1>7. Stage'
  BY <1>3 DEF Stage, Early, Nil
<1>8. HandleLive'
  BY <1>3 DEF HandleLive, Referenced
<1>9. AcceptedIsWritten' /\ Sent'
  BY <1>1, <1>3, <1>5, Zenon DEF IInv, AcceptedIsWritten, Sent
<1> QED
  BY <1>6, <1>7, <1>8, <1>9 DEF IInv

-----------------------------------------------------------------------------
(* receiveNext goes on while the loop is active. *)
LEMMA RearmFacts ==
  /\ Rearm \in InbType /\ Rearm.ref = Nil /\ Rearm.pc \in {"off", "armed"}
  /\ prov.loopActive => Rearm.pc = "armed"
  BY DEF Rearm, InbOff, InbType, Nil

\* A step of the receive loop: it goes on as long as the loop is active.
InbStep ==
  /\ UNCHANGED <<hs, next, prov, out>>
  /\ inb.pc # "off" /\ inb' \in InbType
  /\ prov.loopActive => inb'.pc # "off"

(* The receive loop leaves the stages of the instance alone. *)
LEMMA InbStage == ASSUME IInv, InbStep PROVE Pending' /\ Stage'
<1>1. Pending'
  BY DEF IInv, Pending, InbStep
<1>2. Stage'
  BY DEF IInv, Stage, InbStep
<1> QED
  BY <1>1, <1>2

(* A datagram, the end of the connection, or neither. *)
LEMMA ReceiveIInv == ASSUME IInv, Receive PROVE IInv'
<1>1. /\ UNCHANGED <<hs, next, sessions, out>> /\ inb.pc = "armed"
      /\ prov \in ProvType /\ inb \in InbType
  BY Zenon DEF Receive, IInv, TypeInv
<1>2. CASE \E n \in 0..MaxIn : inb' = [inb EXCEPT !.pc = "got", !.n = n] /\ UNCHANGED prov
  <2>1. PICK n \in 0..MaxIn : inb' = [inb EXCEPT !.pc = "got", !.n = n] /\ UNCHANGED prov
    BY <1>2, Zenon
  <2>2. n \in Nat
    OBVIOUS
  <2>3. inb' \in InbType /\ inb'.pc = "got" /\ inb'.ref = inb.ref
    BY <1>1, <2>1, <2>2, Zenon DEF InbType
  <2>4. Pending' /\ Stage'
    <3>1. InbStep
      BY <1>1, <2>1, <2>3 DEF InbStep
    <3> QED
      BY <3>1, InbStage
  <2>5. TypeInv'
    BY <1>1, <2>1, <2>3 DEF IInv, TypeInv
  <2>6. HandleLive'
    BY <1>1, <2>1, <2>3 DEF IInv, HandleLive, Referenced
  <2>7. AcceptedIsWritten' /\ Sent'
    BY <1>1, <2>1, <2>3 DEF IInv, AcceptedIsWritten, Sent
  <2> QED
    BY <2>4, <2>5, <2>6, <2>7 DEF IInv
<1>3. CASE inb' = InbOff /\ prov' = [prov EXCEPT !.failed = TRUE]
  <2>1. inb' \in InbType /\ inb'.pc = "off" /\ inb'.ref = Nil
    BY <1>3 DEF InbOff, InbType, Nil
  <2>2. /\ prov' \in ProvType /\ prov'.failed /\ prov'.pc = prov.pc
        /\ prov'.hs = prov.hs /\ prov'.core = prov.core /\ prov'.relay = prov.relay
        /\ prov'.states = prov.states /\ prov'.settings = prov.settings
        /\ prov'.loopActive = prov.loopActive /\ prov'.finished = prov.finished
    BY <1>1, <1>3, Zenon DEF ProvType
  <2>3. TypeInv' /\ Pending'
    BY <1>1, <2>1, <2>2 DEF IInv, TypeInv, Pending
  <2>4. Stage'
    BY <1>1, <2>1, <2>2, Zenon DEF IInv, Stage
  <2>5. HandleLive'
    BY <1>1, <2>1, <2>2 DEF IInv, HandleLive, Referenced
  <2>6. AcceptedIsWritten' /\ Sent'
    BY <1>1, <2>1 DEF IInv, AcceptedIsWritten, Sent
  <2> QED
    BY <2>3, <2>4, <2>5, <2>6 DEF IInv
<1>4. CASE inb' = Rearm /\ UNCHANGED prov
  <2>1. /\ inb' \in InbType /\ inb'.ref = Nil /\ inb'.pc \in {"off", "armed"}
        /\ prov.loopActive => inb'.pc = "armed"
    BY <1>4, RearmFacts
  <2>2. Pending' /\ Stage'
    <3>1. InbStep
      BY <1>1, <1>4, <2>1 DEF InbStep
    <3> QED
      BY <3>1, InbStage
  <2>3. TypeInv'
    BY <1>1, <1>4, <2>1 DEF IInv, TypeInv
  <2>4. HandleLive'
    BY <1>1, <1>4, <2>1 DEF IInv, HandleLive, Referenced
  <2>5. AcceptedIsWritten' /\ Sent'
    BY <1>1, <2>1 DEF IInv, AcceptedIsWritten, Sent
  <2> QED
    BY <2>2, <2>3, <2>4, <2>5 DEF IInv
<1> QED
  BY <1>2, <1>3, <1>4, Zenon DEF Receive

(* handleInbound reads the relay under the lock, or finds none. *)
LEMMA HandleInboundIInv == ASSUME IInv, HandleInbound PROVE IInv'
<1>1. /\ UNCHANGED <<hs, next, sessions, prov, out>> /\ inb.pc = "got"
      /\ prov \in ProvType /\ inb \in InbType
      /\ inb' = IF prov.relay = Nil THEN Rearm
                ELSE [inb EXCEPT !.pc = "call", !.ref = prov.relay]
  BY DEF HandleInbound, IInv, TypeInv
<1>2. /\ inb' \in InbType /\ inb'.ref \in {Nil, prov.relay}
      /\ inb'.pc \in {"off", "armed", "call"}
      /\ prov.loopActive => inb'.pc # "off"
  <2>1. CASE prov.relay = Nil
    BY <1>1, <2>1, RearmFacts
  <2>2. CASE prov.relay # Nil
    BY <1>1, <2>2, Zenon DEF InbType, ProvType
  <2> QED
    BY <2>1, <2>2
<1>3. Pending' /\ Stage'
  <2>1. InbStep
    BY <1>1, <1>2 DEF InbStep
  <2> QED
    BY <2>1, InbStage
<1>4. TypeInv'
  BY <1>1, <1>2 DEF IInv, TypeInv
<1>5. HandleLive'
  BY <1>1, <1>2 DEF IInv, HandleLive, Referenced
<1>6. AcceptedIsWritten' /\ Sent'
  BY <1>1, <1>2 DEF IInv, AcceptedIsWritten, Sent
<1> QED
  BY <1>3, <1>4, <1>5, <1>6 DEF IInv

(* One field of one session moves. *)
LEMMA SessionFields ==
  ASSUME NEW S, NEW s \in [S -> SessionType], NEW h \in S, NEW v \in SessionType, NEW t,
         t = [s EXCEPT ![h] = v]
  PROVE  /\ t \in [S -> SessionType] /\ DOMAIN t = S /\ t[h] = v
         /\ \A g \in S \ {h} : t[g] = s[g]
  OBVIOUS

(* A number is accepted. *)
LEMMA SeenFields ==
  ASSUME NEW r \in SessionType, NEW n \in Nat, NEW q, q = [r EXCEPT !.seen = @ \cup {n}]
  PROVE  /\ q \in SessionType /\ q.seen = r.seen \cup {n} /\ q.written = r.written
         /\ q.framed = r.framed /\ q.tried = r.tried
<1>1. r.seen \cup {n} \in SUBSET Nat
  BY DEF SessionType
<1> QED
  BY <1>1 DEF SessionType

(* A number is written. *)
LEMMA WrittenFields ==
  ASSUME NEW r \in SessionType, NEW n \in Nat, NEW q, q = [r EXCEPT !.written = @ \cup {n}]
  PROVE  /\ q \in SessionType /\ q.written = r.written \cup {n} /\ q.seen = r.seen
         /\ q.framed = r.framed /\ q.tried = r.tried
<1>1. r.written \cup {n} \in SUBSET Nat
  BY DEF SessionType
<1> QED
  BY <1>1 DEF SessionType

(* The buffers the app lends the bridge hold whatever comes back in them. *)
LEMMA BuffersSuffice ==
  ASSUME NEW payload \in Payloads
  PROVE  /\ ~(payload > inboundBuffer(payload + frameAdds))
         /\ outboundInto(payload, payload + frameOverhead)
  BY TunnelAssumption DEF inboundBuffer, outboundInto, frameAdds, frameOverhead, maxPayload

(* So cc_inbound never fails after the window has accepted: it delivers the
   first copy, or leaves the session as it was. *)
LEMMA InboundCases ==
  ASSUME ReceiveInbound
  PROVE  \/ /\ inb' = [inb EXCEPT !.pc = "write"]
            /\ sessions' = [sessions EXCEPT ![inb.ref].seen = @ \cup {inb.n}]
            /\ inb.ref \in DOMAIN sessions /\ inb.n \notin sessions[inb.ref].seen
         \/ inb' = Rearm /\ Release(prov, inb', out)
<1>1. PICK payload \in Payloads :
        LET result == inboundInto(inb.ref, inb.n, payload, inboundBuffer(payload + frameAdds))
            accepted == IF result \in {"first", "too large"}
                        THEN [sessions EXCEPT ![inb.ref].seen = @ \cup {inb.n}]
                        ELSE sessions
        IN IF result = "first"
           THEN inb' = [inb EXCEPT !.pc = "write"] /\ sessions' = accepted
           ELSE /\ inb' = Rearm
                /\ sessions' = Restrict(accepted,
                                 DOMAIN accepted \cap Referenced(prov, inb', out))
  BY Zenon DEF ReceiveInbound
<1>2. PICK result : result = inboundInto(inb.ref, inb.n, payload,
                                         inboundBuffer(payload + frameAdds))
  BY Zenon
<1>3. /\ result # "too large"
      /\ result = "first" => inb.ref \in DOMAIN sessions /\ inb.n \notin sessions[inb.ref].seen
  BY <1>2, BuffersSuffice DEF inboundInto
<1>4. CASE result = "first"
  BY <1>1, <1>2, <1>3, <1>4
<1>5. CASE result # "first"
  <2>1. result \notin {"first", "too large"}
    BY <1>3, <1>5, Zenon
  <2> QED
    BY <1>1, <1>2, <1>5, <2>1, Zenon DEF Release
<1> QED
  BY <1>4, <1>5, Zenon

(* cc_inbound accepts a number once and hands it on to the write. *)
LEMMA ReceiveInboundIInv == ASSUME IInv, ReceiveInbound PROVE IInv'
<1>1. /\ UNCHANGED <<hs, next, prov, out>> /\ inb.pc = "call"
      /\ prov \in ProvType /\ inb \in InbType /\ inb.n \in Nat
      /\ sessions \in [DOMAIN sessions -> SessionType]
  BY DEF ReceiveInbound, IInv, TypeInv, InbType
<1>2. CASE /\ inb' = [inb EXCEPT !.pc = "write"]
           /\ sessions' = [sessions EXCEPT ![inb.ref].seen = @ \cup {inb.n}]
           /\ inb.ref \in DOMAIN sessions /\ inb.n \notin sessions[inb.ref].seen
  <2>1. /\ inb' = [inb EXCEPT !.pc = "write"]
        /\ sessions' = [sessions EXCEPT ![inb.ref].seen = @ \cup {inb.n}]
        /\ inb.ref \in DOMAIN sessions /\ inb.n \notin sessions[inb.ref].seen
    BY <1>2
  <2>2. inb' \in InbType /\ inb'.pc = "write" /\ inb'.ref = inb.ref /\ inb'.n = inb.n
    BY <1>1, <2>1 DEF InbType
  <2>3. PICK v : v = [sessions[inb.ref] EXCEPT !.seen = @ \cup {inb.n}]
    BY Zenon
  <2>4. sessions' = [sessions EXCEPT ![inb.ref] = v]
    BY <2>1, <2>3
  <2>5. /\ v \in SessionType /\ v.seen = sessions[inb.ref].seen \cup {inb.n}
        /\ v.written = sessions[inb.ref].written
        /\ v.framed = sessions[inb.ref].framed /\ v.tried = sessions[inb.ref].tried
    BY <1>1, <2>1, <2>3, SeenFields
  <2>6. /\ DOMAIN sessions' = DOMAIN sessions
        /\ sessions' \in [DOMAIN sessions -> SessionType]
        /\ sessions'[inb.ref] = v
        /\ \A g \in DOMAIN sessions \ {inb.ref} : sessions'[g] = sessions[g]
    BY <1>1, <2>1, <2>4, <2>5, SessionFields
  <2>7. Pending' /\ Stage'
    <3>1. InbStep
      BY <1>1, <2>2 DEF InbStep
    <3> QED
      BY <3>1, InbStage
  <2>8. TypeInv'
    BY <1>1, <2>2, <2>6 DEF IInv, TypeInv
  <2>9. HandleLive'
    BY <1>1, <2>2, <2>6 DEF IInv, HandleLive, Referenced
  <2>10. AcceptedIsWritten'
    <3>1. sessions[inb.ref].seen = sessions[inb.ref].written
      BY <1>1, <2>1 DEF IInv, AcceptedIsWritten
    <3>2. /\ sessions'[inb.ref].seen = sessions'[inb.ref].written \cup {inb'.n}
          /\ sessions'[inb.ref].written \cap {inb'.n} = {}
      BY <2>1, <2>2, <2>5, <2>6, <3>1
    <3>3. \A g \in DOMAIN sessions \ {inb.ref} :
            sessions'[g].seen = sessions'[g].written
      BY <1>1, <2>6 DEF IInv, AcceptedIsWritten
    <3> QED
      BY <2>2, <2>6, <3>2, <3>3 DEF AcceptedIsWritten
  <2>11. Sent'
    <3>1. \A g \in DOMAIN sessions : /\ sessions'[g].framed = sessions[g].framed
                                     /\ sessions'[g].tried = sessions[g].tried
      BY <2>5, <2>6
    <3> QED
      BY <1>1, <2>6, <3>1 DEF IInv, Sent
  <2> QED
    BY <2>7, <2>8, <2>9, <2>10, <2>11 DEF IInv
<1>3. CASE inb' = Rearm /\ Release(prov, inb', out)
  <2>1. inb' = Rearm /\ Release(prov, inb', out)
    BY <1>3
  <2>2. /\ inb' \in InbType /\ inb'.ref = Nil /\ inb'.pc \in {"off", "armed"}
        /\ prov.loopActive => inb'.pc = "armed"
    BY <2>1, RearmFacts
  <2>3. PICK R : R = Referenced(prov, inb', out)
    BY Zenon
  <2>4. /\ DOMAIN sessions' = DOMAIN sessions \cap R
        /\ DOMAIN sessions' \subseteq 1..next
        /\ \A h \in DOMAIN sessions' : sessions'[h] = sessions[h]
        /\ sessions' \in [DOMAIN sessions' -> SessionType]
    <3>1. sessions' = Restrict(sessions, DOMAIN sessions \cap R)
      BY <2>1, <2>3 DEF Release
    <3> QED
      BY <3>1, ReleaseFacts, Zenon DEF IInv
  <2>5. Pending' /\ Stage'
    <3>1. InbStep
      BY <1>1, <2>2 DEF InbStep
    <3> QED
      BY <3>1, InbStage
  <2>6. TypeInv'
    BY <1>1, <2>2, <2>4 DEF IInv, TypeInv
  <2>7. HandleLive'
    <3>1. R \ {Nil} \subseteq Referenced(prov, inb, out)
      BY <2>2, <2>3 DEF Referenced
    <3>2. \A h \in R \ {Nil} : h \in DOMAIN sessions /\ h = prov.core
      BY <3>1 DEF IInv, HandleLive
    <3> QED
      BY <1>1, <2>3, <2>4, <3>2 DEF HandleLive
  <2>8. AcceptedIsWritten' /\ Sent'
    BY <1>1, <2>2, <2>4 DEF IInv, AcceptedIsWritten, Sent
  <2> QED
    BY <2>5, <2>6, <2>7, <2>8 DEF IInv
<1> QED
  BY <1>2, <1>3, InboundCases, Zenon

(* packetFlow is given the number, and the callback lets go of the relay. *)
LEMMA WritePacketsIInv == ASSUME IInv, WritePackets PROVE IInv'
<1>1. /\ UNCHANGED <<hs, next, prov, out>> /\ inb.pc = "write" /\ inb' = Rearm
      /\ prov \in ProvType /\ inb \in InbType /\ inb.n \in Nat
      /\ sessions \in [DOMAIN sessions -> SessionType] /\ DOMAIN sessions \subseteq 1..next
  BY DEF WritePackets, IInv, TypeInv, InbType
<1>2. /\ inb' \in InbType /\ inb'.ref = Nil /\ inb'.pc \in {"off", "armed"}
      /\ prov.loopActive => inb'.pc = "armed"
  BY <1>1, RearmFacts
<1>3. PICK w, R : /\ w = [sessions EXCEPT ![inb.ref].written = @ \cup {inb.n}]
                  /\ R = Referenced(prov, inb', out)
  BY Zenon
<1>4. sessions' = Restrict(w, DOMAIN w \cap R)
  BY <1>3 DEF WritePackets
<1>5. /\ DOMAIN w = DOMAIN sessions /\ w \in [DOMAIN sessions -> SessionType]
      /\ \A h \in DOMAIN sessions :
           /\ w[h].seen = w[h].written
           /\ w[h].framed = sessions[h].framed /\ w[h].tried = sessions[h].tried
  <2>1. CASE inb.ref \in DOMAIN sessions
    <3>1. PICK v : v = [sessions[inb.ref] EXCEPT !.written = @ \cup {inb.n}]
      BY Zenon
    <3>2. w = [sessions EXCEPT ![inb.ref] = v]
      BY <1>3, <3>1
    <3>3. /\ v \in SessionType /\ v.written = sessions[inb.ref].written \cup {inb.n}
          /\ v.seen = sessions[inb.ref].seen
          /\ v.framed = sessions[inb.ref].framed /\ v.tried = sessions[inb.ref].tried
      BY <1>1, <2>1, <3>1, WrittenFields
    <3>4. /\ DOMAIN w = DOMAIN sessions /\ w \in [DOMAIN sessions -> SessionType]
          /\ w[inb.ref] = v
          /\ \A g \in DOMAIN sessions \ {inb.ref} : w[g] = sessions[g]
      BY <1>1, <2>1, <3>2, <3>3, SessionFields
    <3>5. /\ sessions[inb.ref].seen = sessions[inb.ref].written \cup {inb.n}
          /\ \A g \in DOMAIN sessions \ {inb.ref} : sessions[g].seen = sessions[g].written
      BY <1>1, <2>1, Zenon DEF IInv, AcceptedIsWritten
    <3>6. /\ w[inb.ref].seen = w[inb.ref].written
          /\ w[inb.ref].framed = sessions[inb.ref].framed
          /\ w[inb.ref].tried = sessions[inb.ref].tried
      BY <3>3, <3>4, <3>5, Zenon
    <3>7. \A g \in DOMAIN sessions \ {inb.ref} :
            /\ w[g].seen = w[g].written
            /\ w[g].framed = sessions[g].framed /\ w[g].tried = sessions[g].tried
      BY <3>4, <3>5
    <3> QED
      BY <3>4, <3>6, <3>7
  <2>2. CASE inb.ref \notin DOMAIN sessions
    <3>1. w = sessions
      BY <1>1, <1>3, <2>2
    <3>2. \A g \in DOMAIN sessions : sessions[g].seen = sessions[g].written
      BY <1>1, <2>2, ZenonT(30) DEF IInv, AcceptedIsWritten
    <3> QED
      BY <1>1, <3>1, <3>2
  <2> QED
    BY <2>1, <2>2
<1>6. /\ DOMAIN sessions' = DOMAIN sessions \cap R
      /\ \A h \in DOMAIN sessions' : sessions'[h] = w[h]
      /\ sessions' \in [DOMAIN sessions' -> SessionType]
  <2>1. DOMAIN sessions' = DOMAIN sessions \cap R
    BY <1>4, <1>5 DEF Restrict
  <2>2. \A h \in DOMAIN sessions' : sessions'[h] = w[h]
    BY <1>4, <2>1 DEF Restrict
  <2>3. sessions' = [h \in DOMAIN sessions' |-> sessions'[h]]
    BY <1>4 DEF Restrict
  <2> QED
    BY <1>5, <2>1, <2>2, <2>3
<1>7. Pending' /\ Stage'
  <2>1. InbStep
    BY <1>1, <1>2 DEF InbStep
  <2> QED
    BY <2>1, InbStage
<1>8. TypeInv'
  BY <1>1, <1>2, <1>6 DEF IInv, TypeInv
<1>9. HandleLive'
  <2>1. R \ {Nil} \subseteq Referenced(prov, inb, out)
    BY <1>2, <1>3 DEF Referenced
  <2>2. \A h \in R \ {Nil} : h \in DOMAIN sessions /\ h = prov.core
    BY <2>1 DEF IInv, HandleLive
  <2> QED
    BY <1>1, <1>3, <1>6, <2>2 DEF HandleLive
<1>10. AcceptedIsWritten'
  BY <1>2, <1>5, <1>6 DEF AcceptedIsWritten
<1>11. Sent'
  BY <1>1, <1>5, <1>6 DEF IInv, Sent
<1> QED
  BY <1>7, <1>8, <1>9, <1>10, <1>11 DEF IInv

-----------------------------------------------------------------------------
\* A step of the outbound loop: it goes on, with the snapshot it took.
OutStep ==
  /\ UNCHANGED <<hs, next, prov, inb>>
  /\ out.pc # "off" /\ out' \in OutType
  /\ prov.pc = "up" => out'.pc # "off"
  /\ out'.pc \in {"frame", "send"} => out'.ref # Nil /\ out'.states = initialPathStates
  /\ out'.pc = "send" => out'.left # 0

(* The outbound loop leaves the stages of the instance alone. *)
LEMMA OutStage == ASSUME IInv, OutStep PROVE Pending' /\ Stage'
<1>1. Pending'
  BY DEF IInv, Pending, OutStep
<1>2. Stage'
  BY Zenon DEF IInv, Stage, OutStep
<1> QED
  BY <1>1, <1>2

(* The callback takes its snapshot of the relay and the path states. *)
LEMMA ReadPacketsIInv == ASSUME IInv, ReadPackets PROVE IInv'
<1>1. /\ UNCHANGED <<hs, next, sessions, prov, inb>> /\ out.pc = "armed"
      /\ prov \in ProvType
  BY DEF ReadPackets, IInv, TypeInv
<1>2. /\ out' \in OutType /\ out'.ref \in {Nil, prov.relay}
      /\ out'.pc \in {"off", "frame"}
      /\ prov.pc = "up" => out'.pc # "off"
      /\ out'.pc = "frame" => out'.ref # Nil /\ out'.states = initialPathStates
  <2>1. CASE prov.relay = Nil
    <3>1. prov.pc # "up"
      BY <2>1 DEF IInv, Stage
    <3>2. out' = OutOff
      BY <2>1 DEF ReadPackets
    <3>3. OutOff \in OutType /\ OutOff.ref = Nil /\ OutOff.pc = "off"
      BY DEF OutOff, OutType, States, Nil
    <3> QED
      BY <3>1, <3>2, <3>3
  <2>2. CASE prov.relay # Nil
    <3>1. PICK b \in 1..Batch :
            out' = [pc |-> "frame", ref |-> prov.relay, states |-> prov.states, left |-> b]
      BY <2>2 DEF ReadPackets
    <3>2. b \in Nat /\ prov.states = initialPathStates /\ prov.relay \in Nat
      BY <1>1, <2>2 DEF IInv, Stage, ProvType
    <3> QED
      BY <2>2, <3>1, <3>2 DEF OutType, States
  <2> QED
    BY <2>1, <2>2
<1>3. Pending' /\ Stage'
  <2>1. OutStep
    BY <1>1, <1>2 DEF OutStep
  <2> QED
    BY <2>1, OutStage
<1>4. TypeInv'
  BY <1>1, <1>2 DEF IInv, TypeInv
<1>5. HandleLive'
  BY <1>1, <1>2 DEF IInv, HandleLive, Referenced
<1>6. AcceptedIsWritten' /\ Sent'
  BY <1>1, <1>2, Zenon DEF IInv, AcceptedIsWritten, Sent
<1> QED
  BY <1>3, <1>4, <1>5, <1>6 DEF IInv

(* A packet that is not relayed. *)
LEMMA SkipPacketIInv == ASSUME IInv, SkipPacket PROVE IInv'
<1>1. /\ UNCHANGED <<hs, next, sessions, prov, inb>> /\ out.pc = "frame"
      /\ out \in OutType /\ out.left > 0
      /\ out' = [out EXCEPT !.left = @ - 1]
  BY DEF SkipPacket, IInv, TypeInv
<1>2. out.left - 1 \in Nat
  BY <1>1 DEF OutType
<1>3. /\ out' \in OutType /\ out'.ref = out.ref /\ out'.pc = "frame"
      /\ out'.states = out.states
  BY <1>1, <1>2 DEF OutType
<1>4. out.ref # Nil /\ out.states = initialPathStates
  BY <1>1 DEF IInv, Stage
<1>5. Pending' /\ Stage'
  <2>1. OutStep
    BY <1>1, <1>3, <1>4 DEF OutStep
  <2> QED
    BY <2>1, OutStage
<1>6. TypeInv'
  BY <1>1, <1>3 DEF IInv, TypeInv
<1>7. HandleLive'
  BY <1>1, <1>3 DEF IInv, HandleLive, Referenced
<1>8. AcceptedIsWritten' /\ Sent'
  BY <1>1, <1>3 DEF IInv, AcceptedIsWritten, Sent
<1> QED
  BY <1>5, <1>6, <1>7, <1>8 DEF IInv

(* A number is framed. *)
LEMMA FramedFields ==
  ASSUME NEW r \in SessionType, NEW q, q = [r EXCEPT !.framed = @ + 1]
  PROVE  /\ q \in SessionType /\ q.framed = r.framed + 1 /\ q.tried = r.tried
         /\ q.seen = r.seen /\ q.written = r.written
<1>1. r.framed + 1 \in Nat
  BY DEF SessionType
<1> QED
  BY <1>1 DEF SessionType

(* A number is sent. *)
LEMMA TriedFields ==
  ASSUME NEW r \in SessionType, NEW q, q = [r EXCEPT !.tried = @ \cup {r.framed}]
  PROVE  /\ q \in SessionType /\ q.tried = r.tried \cup {r.framed} /\ q.framed = r.framed
         /\ q.seen = r.seen /\ q.written = r.written
<1>1. r.tried \cup {r.framed} \in SUBSET Nat
  BY DEF SessionType
<1> QED
  BY <1>1 DEF SessionType

(* cc_outbound numbers the packet; it is on its way until it is sent. *)
LEMMA FramePacketIInv == ASSUME IInv, FramePacket PROVE IInv'
<1>1. /\ UNCHANGED <<hs, next, prov, inb>> /\ out.pc = "frame" /\ out.left > 0
      /\ out \in OutType /\ out.ref \in DOMAIN sessions
      /\ out' = [out EXCEPT !.pc = "send"]
      /\ sessions' = [sessions EXCEPT ![out.ref].framed = @ + 1]
      /\ sessions \in [DOMAIN sessions -> SessionType]
  BY BuffersSuffice DEF FramePacket, IInv, TypeInv
<1>2. /\ out' \in OutType /\ out'.ref = out.ref /\ out'.pc = "send"
      /\ out'.states = out.states /\ out'.left # 0
  BY <1>1 DEF OutType
<1>3. PICK v : v = [sessions[out.ref] EXCEPT !.framed = @ + 1]
  BY Zenon
<1>4. sessions' = [sessions EXCEPT ![out.ref] = v]
  BY <1>1, <1>3
<1>5. /\ v \in SessionType /\ v.framed = sessions[out.ref].framed + 1
      /\ v.tried = sessions[out.ref].tried
      /\ v.seen = sessions[out.ref].seen /\ v.written = sessions[out.ref].written
  BY <1>1, <1>3, FramedFields
<1>6. /\ DOMAIN sessions' = DOMAIN sessions
      /\ sessions' \in [DOMAIN sessions -> SessionType]
      /\ sessions'[out.ref] = v
      /\ \A g \in DOMAIN sessions \ {out.ref} : sessions'[g] = sessions[g]
  BY <1>1, <1>4, <1>5, SessionFields
<1>7. Pending' /\ Stage'
  <2>1. out.ref # Nil /\ out.states = initialPathStates
    BY <1>1 DEF IInv, Stage
  <2>2. OutStep
    BY <1>1, <1>2, <2>1 DEF OutStep
  <2> QED
    BY <2>2, OutStage
<1>8. TypeInv'
  BY <1>1, <1>2, <1>6 DEF IInv, TypeInv
<1>9. HandleLive'
  BY <1>1, <1>2, <1>6 DEF IInv, HandleLive, Referenced
<1>10. AcceptedIsWritten'
  <2>1. \A g \in DOMAIN sessions : /\ sessions'[g].seen = sessions[g].seen
                                   /\ sessions'[g].written = sessions[g].written
    BY <1>5, <1>6
  <2> QED
    BY <1>1, <1>6, <2>1 DEF IInv, AcceptedIsWritten
<1>11. Sent'
  <2>1. sessions[out.ref].framed \in Nat
    BY <1>1 DEF SessionType
  <2>2. 1..sessions[out.ref].framed \subseteq sessions[out.ref].tried
    BY <1>1 DEF IInv, Sent
  <2>3. (1..sessions'[out.ref].framed) \ sessions'[out.ref].tried
           \subseteq {sessions'[out.ref].framed}
    BY <1>5, <1>6, <2>1, <2>2
  <2>4. \A g \in DOMAIN sessions \ {out.ref} :
          (1..sessions[g].framed) \ sessions[g].tried = {}
    BY <1>1 DEF IInv, Sent
  <2> QED
    BY <1>2, <1>6, <2>3, <2>4 DEF Sent
<1> QED
  BY <1>7, <1>8, <1>9, <1>10, <1>11 DEF IInv

(* sendOutbound tries the packet on the one path there is. *)
LEMMA SendOutboundIInv == ASSUME IInv, SendOutbound PROVE IInv'
<1>1. /\ UNCHANGED <<hs, next, prov, inb>> /\ out.pc = "send"
      /\ out \in OutType
      /\ out' = [out EXCEPT !.pc = "frame", !.left = @ - 1]
      /\ sessions \in [DOMAIN sessions -> SessionType]
      /\ out.ref # Nil /\ out.states = initialPathStates
  BY DEF SendOutbound, IInv, TypeInv, Stage
<1>2. sessions' = [sessions EXCEPT ![out.ref].tried = @ \cup {sessions[out.ref].framed}]
  BY <1>1, WifiChosen DEF SendOutbound, Send
<1>3. out.ref \in DOMAIN sessions
  BY <1>1 DEF IInv, HandleLive, Referenced
<1>4. out.left \in Nat \ {0}
  BY <1>1 DEF IInv, Stage, OutType
<1>5. /\ out' \in OutType /\ out'.ref = out.ref /\ out'.pc = "frame"
      /\ out'.states = out.states
  <2>1. out.left - 1 \in Nat
    BY <1>4
  <2> QED
    BY <1>1, <2>1, Zenon DEF OutType
<1>6. PICK v : v = [sessions[out.ref] EXCEPT !.tried = @ \cup {sessions[out.ref].framed}]
  BY Zenon
<1>7. sessions' = [sessions EXCEPT ![out.ref] = v]
  BY <1>2, <1>6
<1>8. /\ v \in SessionType /\ v.framed = sessions[out.ref].framed
      /\ v.tried = sessions[out.ref].tried \cup {sessions[out.ref].framed}
      /\ v.seen = sessions[out.ref].seen /\ v.written = sessions[out.ref].written
  BY <1>1, <1>3, <1>6, TriedFields
<1>9. /\ DOMAIN sessions' = DOMAIN sessions
      /\ sessions' \in [DOMAIN sessions -> SessionType]
      /\ sessions'[out.ref] = v
      /\ \A g \in DOMAIN sessions \ {out.ref} : sessions'[g] = sessions[g]
  BY <1>1, <1>3, <1>7, <1>8, SessionFields
<1>10. Pending' /\ Stage'
  <2>1. OutStep
    BY <1>1, <1>5 DEF OutStep
  <2> QED
    BY <2>1, OutStage
<1>11. TypeInv'
  BY <1>1, <1>5, <1>9 DEF IInv, TypeInv
<1>12. HandleLive'
  BY <1>1, <1>5, <1>9 DEF IInv, HandleLive, Referenced
<1>13. AcceptedIsWritten'
  <2>1. \A g \in DOMAIN sessions : /\ sessions'[g].seen = sessions[g].seen
                                   /\ sessions'[g].written = sessions[g].written
    BY <1>8, <1>9, Zenon
  <2> QED
    BY <1>1, <1>9, <2>1 DEF IInv, AcceptedIsWritten
<1>14. Sent'
  <2>1. (1..sessions[out.ref].framed) \ sessions[out.ref].tried
           \subseteq {sessions[out.ref].framed}
    BY <1>1, <1>3 DEF IInv, Sent
  <2>2. (1..sessions'[out.ref].framed) \ sessions'[out.ref].tried = {}
    BY <1>8, <1>9, <2>1, Zenon
  <2>3. \A g \in DOMAIN sessions \ {out.ref} :
          (1..sessions[g].framed) \ sessions[g].tried = {}
    BY <1>1 DEF IInv, Sent
  <2> QED
    BY <1>9, <2>2, <2>3 DEF Sent
<1> QED
  BY <1>10, <1>11, <1>12, <1>13, <1>14 DEF IInv

(* The batch is done and the callback lets go of the relay. *)
LEMMA ReadOutboundLoopIInv == ASSUME IInv, ReadOutboundLoop PROVE IInv'
<1>1. /\ UNCHANGED <<hs, next, prov, inb>> /\ out.pc = "frame"
      /\ out' = [OutOff EXCEPT !.pc = "armed"]
  BY DEF ReadOutboundLoop
<1>2. out' \in OutType /\ out'.ref = Nil /\ out'.pc = "armed"
  BY <1>1 DEF OutOff, OutType, States, Nil
<1>3. PICK R : R = Referenced(prov, inb, out')
  BY Zenon
<1>4. /\ DOMAIN sessions' = DOMAIN sessions \cap R
      /\ DOMAIN sessions' \subseteq 1..next
      /\ \A h \in DOMAIN sessions' : sessions'[h] = sessions[h]
      /\ sessions' \in [DOMAIN sessions' -> SessionType]
  <2>1. sessions' = Restrict(sessions, DOMAIN sessions \cap R)
    BY <1>3 DEF ReadOutboundLoop, Release
  <2> QED
    BY <2>1, ReleaseFacts, Zenon DEF IInv
<1>5. Pending' /\ Stage'
  <2>1. OutStep
    BY <1>1, <1>2 DEF OutStep
  <2> QED
    BY <2>1, OutStage
<1>6. TypeInv'
  BY <1>1, <1>2, <1>4 DEF IInv, TypeInv
<1>7. HandleLive'
  <2>1. R \ {Nil} \subseteq Referenced(prov, inb, out)
    BY <1>2, <1>3 DEF Referenced
  <2>2. \A h \in R \ {Nil} : h \in DOMAIN sessions /\ h = prov.core
    BY <2>1 DEF IInv, HandleLive
  <2> QED
    BY <1>1, <1>3, <1>4, <2>2 DEF HandleLive
<1>8. AcceptedIsWritten' /\ Sent'
  BY <1>1, <1>2, <1>4 DEF IInv, AcceptedIsWritten, Sent
<1> QED
  BY <1>5, <1>6, <1>7, <1>8 DEF IInv

-----------------------------------------------------------------------------
(* Every step keeps the invariant. *)
LEMMA NextIInv == ASSUME IInv, [Next]_vars PROVE IInv'
<1>1. ASSUME StartTunnel \/ MakeRelay \/ OpenSender PROVE IInv'
  BY <1>1, BeforeIInv, Zenon
<1>2. ASSUME Connect PROVE IInv'
  BY <1>2, BeginIInv, WaitIInv, OneShotIInv, CancelIInv, CompleteIInv, Zenon DEF Connect
<1>3. ASSUME ReceiveLoop \/ StoreRelay \/ SettingsDone PROVE IInv'
  BY <1>3, ReceiveLoopIInv, StoreRelayIInv, SettingsDoneIInv, Zenon
<1>4. ASSUME Stopping PROVE IInv'
  BY <1>4, CloseSenderIInv, DropRelayIInv, DiscardIInv, Zenon DEF Stopping
<1>5. ASSUME Inbound PROVE IInv'
  BY <1>5, ReceiveIInv, HandleInboundIInv, ReceiveInboundIInv, WritePacketsIInv, Zenon
     DEF Inbound
<1>6. ASSUME Outbound PROVE IInv'
  BY <1>6, ReadPacketsIInv, SkipPacketIInv, FramePacketIInv, SendOutboundIInv,
     ReadOutboundLoopIInv, Zenon DEF Outbound
<1>7. ASSUME UNCHANGED vars PROVE IInv'
  BY <1>7 DEF vars, IInv, TypeInv, Pending, Stage, HandleLive, AcceptedIsWritten, Sent,
     Referenced
<1> QED
  BY <1>1, <1>2, <1>3, <1>4, <1>5, <1>6, <1>7, Zenon DEF Next, Starting

(* The inductive invariant holds throughout. *)
THEOREM TunnelInvariance == Spec => []IInv
  BY InitIInv, NextIInv, PTL DEF Spec

(* The handshake handle is consumed however connect ends. *)
THEOREM HandshakesConsumedTheorem == Spec => []HandshakesConsumed
  BY TunnelInvariance, IInvImplies, PTL

(* Every handle that is used is live and of its own instance. *)
THEOREM HandleLiveTheorem == Spec => []HandleLive
  BY TunnelInvariance, IInvImplies, PTL

(* What a session accepts is written to the tunnel, once. *)
THEOREM AcceptedIsWrittenTheorem == Spec => []AcceptedIsWritten
  BY TunnelInvariance, IInvImplies, PTL

(* A tunnel reported up carries traffic both ways. *)
THEOREM StaysConnectedTheorem == Spec => []StaysConnected
  BY TunnelInvariance, IInvImplies, PTL

(* A start is reported at most once: the safety half of StartFinishes. *)
THEOREM ReportedOnce == Spec => [](prov.finished <= 1)
  BY TunnelInvariance, IInvImplies, PTL
=============================================================================
