--------------------------- MODULE RestartProofs ---------------------------
(***************************************************************************)
(* Proofs about the two models in which the gateway restarts.              *)
(* GatewayProcess, for any number of overlapping processes, every          *)
(* environment, every identity file and any number of faults: no root      *)
(* behind the privilege boundary, and one identity for ever.               *)
(* DualPathSession, for any paths, window width and number of attempts,    *)
(* ephemeral keys, packets and restarts: no nonce repeats, the ends agree  *)
(* on the key, and a packet is handed on once.                             *)
(***************************************************************************)
EXTENDS DualPathSession, GatewayProcess, TLAPS

-----------------------------------------------------------------------------
(* Sessions, end to end.                                                   *)

Phases == {"down", "begun", "up"}
SessionType == [eph : 0..MaxEphs, next : 0..MaxPackets, top : 0..MaxPackets,
                seen : SUBSET Numbers]
ClientType == [id : 0..MaxAttempts, phase : Phases, session : SessionType]

TypeInv ==
  /\ client \in ClientType
  /\ table \in [Ids -> SessionType]
  /\ ephs \in 0..MaxEphs
  /\ restarts \in Nat
  /\ sealed \in [Packets -> Nat]
  /\ delivered \in [Packets -> Nat]
  /\ arrived \subseteq Packets

\* A client that is up has a key, another has none.
ClientInv ==
  /\ client.phase \in {"begun", "up"} => client.id \in Ids
  /\ client.phase = "up" => client.session.eph \in Ephs
  /\ client.phase # "up" => client.session = NoSession

\* The gateway's keys are ephemeral keys it has made.
TableInv == \A i \in Ids : table[i].eph <= ephs

\* What is in transit; until a restart, an answer names the key of its id.
IsHello(m) == \E i \in Ids : m = Hello(i)
IsAnswer(m) == \E i \in Ids, e \in Ephs : m = ServerHello(i, e)
IsData(m) == \E d \in Sides, i \in Ids, e \in Ephs, n \in Numbers : m = Data(d, i, e, n)
NetInv ==
  \A c \in net :
    /\ IsHello(c.msg) \/ IsAnswer(c.msg) \/ IsData(c.msg)
    /\ \A i \in Ids, e \in Ephs :
         c.msg = ServerHello(i, e) /\ restarts = 0 => table[i].eph = e

\* The session of an end for an id, whether it holds a key, and whether no
\* session of that end ever had it.
SessionOf(side, i) == IF side = "initiator" THEN client.session ELSE table[i]
Holds(side, i, e) ==
  IF side = "initiator"
  THEN client.phase = "up" /\ client.id = i /\ client.session.eph = e
  ELSE table[i].eph = e
Unused(side, i, e) ==
  IF side = "initiator"
  THEN client.id < i \/ (client.id = i /\ client.phase = "begun")
  ELSE ephs < e

\* The histories of a packet follow the session that holds its key.
PacketInv(side, i, e, n) ==
  LET p == <<<<i, e>>, side, n>>
      s == SessionOf(side, i)
  IN
  /\ sealed[p] <= 1 /\ delivered[p] <= 1
  /\ Unused(side, i, e) => sealed[p] = 0 /\ delivered[p] = 0 /\ p \notin arrived
  /\ Holds(side, i, e) =>
       /\ s.next < n => sealed[p] = 0
       /\ n \in s.seen => delivered[p] = 1
       /\ n \notin s.seen => delivered[p] = 0
       /\ p \in arrived => n \in s.seen \/ n + Width <= s.top
PacketsInv ==
  \A side \in Sides, i \in Ids, e \in Ephs, n \in Numbers : PacketInv(side, i, e, n)

IInv == TypeInv /\ ClientInv /\ TableInv /\ NetInv /\ PacketsInv /\ KeyAgreement

(* The stated invariants follow. *)
LEMMA IInvImplies == IInv => NonceUnique /\ KeyAgreement /\ EndToEndOnce
<1> SUFFICES ASSUME IInv PROVE NonceUnique /\ KeyAgreement /\ EndToEndOnce
  OBVIOUS
<1>1. ASSUME NEW p \in Packets
      PROVE  \E side \in Sides, i \in Ids, e \in Ephs, n \in Numbers :
               p = <<<<i, e>>, side, n>>
  BY DEF Packets
<1>2. ASSUME NEW p \in Packets PROVE sealed[p] <= 1 /\ delivered[p] <= 1
  BY <1>1 DEF IInv, PacketsInv, PacketInv
<1>3. ASSUME NEW p \in arrived PROVE delivered[p] = 1 \/ Skewed(p) \/ Gone(p)
  <2>1. p \in Packets
    BY DEF IInv, TypeInv
  <2>2. PICK side \in Sides, i \in Ids, e \in Ephs, n \in Numbers :
          p = <<<<i, e>>, side, n>>
    BY <1>1, <2>1
  <2>3. p[1][1] = i /\ p[1][2] = e /\ p[2] = side /\ p[3] = n
    BY <2>2
  <2>4. Receiver(p) = SessionOf(side, i)
    BY <2>3 DEF Receiver, SessionOf, Sides
  <2>5. SUFFICES ASSUME ~Gone(p) PROVE delivered[p] = 1 \/ Skewed(p)
    OBVIOUS
  <2>6. SessionOf(side, i).eph = e /\ (side = "initiator" => client.id = i)
    BY <2>3, <2>4, <2>5 DEF Gone
  <2>7. Holds(side, i, e)
    <3>1. CASE side = "initiator"
      <4>1. client.session.eph = e /\ e # 0
        BY <2>6, <3>1 DEF SessionOf, Ephs
      <4>2. client.phase = "up"
        BY <4>1 DEF IInv, ClientInv, NoSession
      <4> QED
        BY <2>6, <3>1, <4>1, <4>2 DEF Holds
    <3>2. CASE side # "initiator"
      BY <2>6, <3>2 DEF Holds, SessionOf
    <3> QED
      BY <3>1, <3>2
  <2>8. PacketInv(side, i, e, n)
    BY DEF IInv, PacketsInv
  <2> QED
    BY <2>2, <2>3, <2>4, <2>7, <2>8 DEF PacketInv, Skewed
<1> QED
  BY <1>2, <1>3 DEF NonceUnique, EndToEndOnce, IInv

(* A session that has sent and seen nothing. *)
LEMMA NewSessionFacts ==
  ASSUME NEW e \in 0..MaxEphs
  PROVE  /\ NewSession(e) \in SessionType /\ NewSession(e).eph = e
         /\ NewSession(e).next = 0 /\ NewSession(e).seen = {}
<1>1. NewSession(e) = [eph |-> e, next |-> 0, top |-> 0, seen |-> {}]
  BY DEF NewSession, NoSession
<1>2. 0 \in 0..MaxPackets
  BY BoundAssumption
<1> QED
  BY <1>1, <1>2 DEF SessionType

(* No session. *)
LEMMA NoSessionFacts == NoSession \in SessionType /\ NoSession.eph = 0
<1>1. 0 \in 0..MaxPackets /\ 0 \in 0..MaxEphs
  BY BoundAssumption
<1> QED
  BY <1>1 DEF NoSession, SessionType

(* Before the first handshake. *)
LEMMA InitIInv == Init => IInv
<1> SUFFICES ASSUME Init PROVE IInv
  OBVIOUS
<1>1. client.id = 0 /\ client.phase = "down" /\ client.session = NoSession
  BY DEF Init
<1>2. TypeInv
  BY <1>1, NoSessionFacts, BoundAssumption DEF Init, TypeInv, ClientType, Phases
<1>3. ClientInv /\ KeyAgreement
  BY <1>1 DEF ClientInv, KeyAgreement
<1>4. TableInv /\ NetInv
  BY NoSessionFacts DEF Init, TableInv, NetInv
<1>5. ASSUME NEW side \in Sides, NEW i \in Ids, NEW e \in Ephs, NEW n \in Numbers
      PROVE  PacketInv(side, i, e, n)
  <2>1. <<<<i, e>>, side, n>> \in Packets
    BY DEF Packets
  <2>2. /\ sealed[<<<<i, e>>, side, n>>] = 0 /\ delivered[<<<<i, e>>, side, n>>] = 0
        /\ arrived = {}
    BY <2>1 DEF Init
  <2>3. ~Holds(side, i, e)
    <3>1. e # 0 /\ table[i].eph = 0
      BY NoSessionFacts DEF Init, Ephs
    <3> QED
      BY <1>1, <3>1 DEF Holds
  <2> QED
    BY <2>2, <2>3 DEF PacketInv
<1> QED
  BY <1>2, <1>3, <1>4, <1>5 DEF IInv, PacketsInv

(* The kind of a message tells its fields. *)
LEMMA MessageFacts ==
  ASSUME IInv, NEW c \in net
  PROVE  /\ ClassifyDatagram(c.msg) = "hello" => IsHello(c.msg)
         /\ ClassifyDatagram(c.msg) = "answer" => IsAnswer(c.msg)
         /\ ClassifyDatagram(c.msg) = "data" => IsData(c.msg)
<1>1. IsHello(c.msg) \/ IsAnswer(c.msg) \/ IsData(c.msg)
  BY DEF IInv, NetInv
<1>2. IsHello(c.msg) => c.msg.kind = "hello"
  BY DEF IsHello, Hello
<1>3. IsAnswer(c.msg) => c.msg.kind = "answer"
  BY DEF IsAnswer, ServerHello
<1>4. IsData(c.msg) => c.msg.kind = "data"
  BY DEF IsData, Data
<1> QED
  BY <1>1, <1>2, <1>3, <1>4 DEF ClassifyDatagram

(* Copies that are not answers join those in transit. *)
LEMMA NetKeeps ==
  ASSUME IInv, NEW new, net' = net \cup new,
         \A c \in new : IsHello(c.msg) \/ IsData(c.msg),
         restarts' = restarts, \A i \in Ids : table'[i].eph = table[i].eph
  PROVE  NetInv'
<1>1. ASSUME NEW c \in new, NEW i \in Ids, NEW e \in Ephs PROVE c.msg # ServerHello(i, e)
  <2>1. ServerHello(i, e).kind = "answer"
    BY DEF ServerHello
  <2>2. IsHello(c.msg) => c.msg.kind = "hello"
    BY DEF IsHello, Hello
  <2>3. IsData(c.msg) => c.msg.kind = "data"
    BY DEF IsData, Data
  <2> QED
    BY <2>1, <2>2, <2>3
<1> QED
  BY <1>1 DEF IInv, NetInv, IsHello, IsAnswer, IsData

(* A step without traffic: a key that an end holds afterwards is one it held,
   the session as it was, or one that was unused, with a new session. *)
LEMMA QuietKeeps ==
  ASSUME IInv, UNCHANGED history,
         \A side \in Sides, i \in Ids, e \in Ephs :
           /\ Unused(side, i, e)' => Unused(side, i, e)
           /\ Holds(side, i, e)' =>
                \/ Holds(side, i, e) /\ SessionOf(side, i)' = SessionOf(side, i)
                \/ Unused(side, i, e) /\ SessionOf(side, i)'.seen = {}
  PROVE  PacketsInv'
<1> SUFFICES ASSUME NEW side \in Sides, NEW i \in Ids, NEW e \in Ephs, NEW n \in Numbers
             PROVE  PacketInv(side, i, e, n)'
  BY DEF PacketsInv
<1>1. PacketInv(side, i, e, n)
  BY DEF IInv, PacketsInv
<1>2. sealed' = sealed /\ delivered' = delivered /\ arrived' = arrived
  BY DEF history
<1> QED
  BY <1>1, <1>2, Zenon DEF PacketInv

(* A handshake begins under a new id. *)
LEMMA BeginIInv ==
  ASSUME IInv, NEW path \in PathNames, BeginClientHandshake(path) PROVE IInv'
<1>1. /\ client \in ClientType /\ client.id \in 0..MaxAttempts /\ client.phase = "down"
      /\ client.id < MaxAttempts
  BY DEF IInv, TypeInv, ClientType, BeginClientHandshake
<1>2. client.id + 1 \in Ids /\ client.id + 1 \in 0..MaxAttempts
  BY <1>1, BoundAssumption DEF Ids
<1>3. /\ client'.id = client.id + 1 /\ client'.phase = "begun"
      /\ client'.session = NoSession /\ client' \in ClientType
  BY <1>2, NoSessionFacts DEF BeginClientHandshake, ClientType, Phases
<1>4. UNCHANGED <<table, ephs, restarts, sealed, delivered, arrived, history>>
  BY DEF BeginClientHandshake, history
<1>5. TypeInv'
  BY <1>3, <1>4 DEF IInv, TypeInv
<1>6. ClientInv' /\ KeyAgreement'
  BY <1>2, <1>3 DEF ClientInv, KeyAgreement
<1>7. TableInv'
  BY <1>4 DEF IInv, TableInv
<1>8. NetInv'
  <2>1. PICK new : new = {[path |-> path, msg |-> Hello(client.id + 1)]}
    BY Zenon
  <2>2. net' = net \cup new /\ \A c \in new : IsHello(c.msg)
    BY <1>2, <2>1 DEF IsHello, BeginClientHandshake
  <2> QED
    BY <1>4, <2>2, NetKeeps
<1>9. ASSUME NEW side \in Sides, NEW i \in Ids, NEW e \in Ephs
      PROVE  /\ Unused(side, i, e)' => Unused(side, i, e)
             /\ Holds(side, i, e)' =>
                  Holds(side, i, e) /\ SessionOf(side, i)' = SessionOf(side, i)
  BY <1>1, <1>3, <1>4, BoundAssumption DEF Unused, Holds, SessionOf, Ids
<1>10. PacketsInv'
  BY <1>4, <1>9, QuietKeeps, Zenon
<1> QED
  BY <1>5, <1>6, <1>7, <1>8, <1>10 DEF IInv

(* A client that goes down, by itself or for an answer that is not its own. *)
LEMMA DownIInv ==
  ASSUME IInv, client.phase \in {"begun", "up"}, client' \in ClientType,
         client'.id = client.id, client'.phase = "down", client'.session = NoSession,
         UNCHANGED <<table, ephs, restarts, net, history>>
  PROVE  IInv'
<1>1. UNCHANGED <<sealed, delivered, arrived>>
  BY DEF history
<1>2. TypeInv'
  BY <1>1, Zenon DEF IInv, TypeInv
<1>3. ClientInv' /\ KeyAgreement' /\ TableInv' /\ NetInv'
  BY Zenon DEF IInv, ClientInv, KeyAgreement, TableInv, NetInv
<1>4. ASSUME NEW side \in Sides, NEW i \in Ids, NEW e \in Ephs
      PROVE  /\ Unused(side, i, e)' => Unused(side, i, e)
             /\ Holds(side, i, e)' =>
                  Holds(side, i, e) /\ SessionOf(side, i)' = SessionOf(side, i)
  BY DEF Unused, Holds, SessionOf
<1>5. PacketsInv'
  BY <1>4, QuietKeeps
<1> QED
  BY <1>2, <1>3, <1>5 DEF IInv

(* The client gives up. *)
LEMMA AbandonIInv == ASSUME IInv, Abandon PROVE IInv'
<1>1. client \in ClientType
  BY DEF IInv, TypeInv
<1>2. /\ client' \in ClientType /\ client'.id = client.id
      /\ client'.phase = "down" /\ client'.session = NoSession
  BY <1>1, NoSessionFacts, Zenon DEF Abandon, ClientType, Phases
<1> QED
  BY <1>2, DownIInv DEF Abandon

(* A hello is admitted: a new ephemeral key for an id that had none. *)
LEMMA HandshakeIInv ==
  ASSUME IInv, NEW c \in net, Handshake(c) PROVE IInv'
<1>1. PICK h \in Ids : c.msg = Hello(h)
  BY MessageFacts DEF Handshake, IsHello
<1>2. c.msg.id = h
  BY <1>1 DEF Hello
<1> DEFINE f == ephs + 1
<1>3. /\ ephs \in 0..MaxEphs /\ f \in Ephs /\ f \in 0..MaxEphs /\ ephs < f
  BY BoundAssumption DEF IInv, TypeInv, Handshake, Ephs
<1>4. /\ table[h].eph = 0 /\ ephs' = f
      /\ table' = [table EXCEPT ![h] = NewSession(f)]
      /\ net' = net \cup {[path |-> c.path, msg |-> ServerHello(h, f)]}
      /\ UNCHANGED <<client, restarts, sealed, delivered, arrived, history>>
  BY <1>2 DEF Handshake, history
<1> HIDE DEF f
<1>5. /\ table' \in [Ids -> SessionType] /\ table'[h] = NewSession(f)
      /\ table'[h].eph = f /\ table'[h].seen = {}
      /\ \A i \in Ids \ {h} : table'[i] = table[i]
  BY <1>3, <1>4, NewSessionFacts DEF IInv, TypeInv
<1>6. TypeInv'
  BY <1>3, <1>4, <1>5 DEF IInv, TypeInv
<1>7. ClientInv'
  BY <1>4 DEF IInv, ClientInv
<1>8. \A i \in Ids : table[i].eph \in 0..MaxEphs /\ table[i].eph <= ephs
  BY DEF IInv, TableInv, TypeInv, SessionType
<1>9. TableInv'
  <2>1. ASSUME NEW i \in Ids PROVE table'[i].eph <= f
    <3>1. CASE i = h
      BY <1>3, <1>5, <3>1 DEF Ephs
    <3>2. CASE i # h
      <4>1. table'[i].eph = table[i].eph
        BY <1>5, <3>2
      <4>2. PICK k \in 0..MaxEphs : k = table[i].eph /\ k <= ephs
        BY <1>8
      <4>3. k <= f
        BY <1>3, <4>2 DEF Ephs
      <4> QED
        BY <4>1, <4>2, <4>3
    <3> QED
      BY <3>1, <3>2
  <2> QED
    BY <1>4, <2>1 DEF TableInv
<1>10. NetInv'
  <2>1. ASSUME NEW i \in Ids, NEW e \in Ephs, ServerHello(h, f) = ServerHello(i, e)
        PROVE  i = h /\ e = f
    <3>1. /\ ServerHello(h, f).id = h /\ ServerHello(h, f).eph = f
          /\ ServerHello(i, e).id = i /\ ServerHello(i, e).eph = e
      BY DEF ServerHello
    <3> QED
      BY <2>1, <3>1
  <2>2. ASSUME NEW d \in net', NEW i \in Ids, NEW e \in Ephs,
               d.msg = ServerHello(i, e), restarts' = 0
        PROVE  table'[i].eph = e
    <3>1. CASE d \in net
      <4>1. table[i].eph = e /\ e # 0
        BY <1>4, <2>2, <3>1 DEF IInv, NetInv, Ephs
      <4> QED
        BY <1>4, <1>5, <4>1
    <3>2. CASE d \notin net
      <4>1. d.msg = ServerHello(h, f)
        BY <1>4, <2>2, <3>2
      <4> QED
        BY <1>5, <2>1, <2>2, <4>1, Zenon
    <3> QED
      BY <3>1, <3>2
  <2>3. ASSUME NEW d \in net' PROVE IsHello(d.msg) \/ IsAnswer(d.msg) \/ IsData(d.msg)
    <3>1. CASE d \in net
      BY <3>1 DEF IInv, NetInv
    <3>2. CASE d \notin net
      <4>1. d.msg = ServerHello(h, f)
        BY <1>4, <2>3, <3>2
      <4> QED
        BY <1>3, <4>1 DEF IsAnswer
    <3> QED
      BY <3>1, <3>2
  <2> QED
    BY <2>2, <2>3 DEF NetInv, IsHello, IsAnswer, IsData
<1>11. KeyAgreement'
  <2> SUFFICES ASSUME client.phase = "up", restarts = 0
               PROVE  table'[client.id].eph = client.session.eph
    BY <1>4 DEF KeyAgreement
  <2>1. client.id \in Ids /\ client.session.eph # 0 /\ table[client.id].eph = client.session.eph
    BY DEF IInv, ClientInv, KeyAgreement, Ephs
  <2> QED
    BY <1>4, <1>5, <2>1
<1>12. ASSUME NEW side \in Sides, NEW i \in Ids, NEW e \in Ephs
       PROVE  /\ Unused(side, i, e)' => Unused(side, i, e)
              /\ Holds(side, i, e)' =>
                   \/ Holds(side, i, e) /\ SessionOf(side, i)' = SessionOf(side, i)
                   \/ Unused(side, i, e) /\ SessionOf(side, i)'.seen = {}
  <2>1. f < e => ephs < e
    BY <1>3 DEF Ephs
  <2>2. CASE side = "initiator"
    BY <1>4, <2>2 DEF Unused, Holds, SessionOf
  <2>3. CASE side # "initiator"
    BY <1>3, <1>4, <1>5, <2>1, <2>3 DEF Unused, Holds, SessionOf
  <2> QED
    BY <2>2, <2>3, Zenon
<1>13. PacketsInv'
  BY <1>4, <1>12, QuietKeeps
<1> QED
  BY <1>6, <1>7, <1>9, <1>10, <1>11, <1>13 DEF IInv

(* An answer reaches the client that waits for it, or for another. *)
LEMMA CompleteIInv ==
  ASSUME IInv, NEW c \in net, Complete(c) PROVE IInv'
<1>1. PICK h \in Ids, f \in Ephs : c.msg = ServerHello(h, f)
  BY MessageFacts DEF Complete, IsAnswer
<1>2. PICK m \in Arrives(c) :
        client' = IF m.id = client.id /\ VerifyHandshake(m)
                  THEN [client EXCEPT !.phase = "up", !.session = NewSession(m.eph)]
                  ELSE [client EXCEPT !.phase = "down"]
  BY Zenon DEF Complete
<1>3. /\ client \in ClientType /\ client.phase = "begun" /\ client.session = NoSession
      /\ client.id \in Ids
      /\ UNCHANGED <<table, ephs, restarts, net, sealed, delivered, arrived, history>>
  BY DEF IInv, TypeInv, ClientInv, Complete, history
<1>4. m.id = h /\ (m.eph = f \/ m.eph = 0)
  BY <1>1, <1>2 DEF Arrives, ServerHello
<1>5. CASE ~(m.id = client.id /\ VerifyHandshake(m))
  <2>1. client' = [client EXCEPT !.phase = "down"]
    BY <1>2, <1>5
  <2>2. /\ client' \in ClientType /\ client'.id = client.id
        /\ client'.phase = "down" /\ client'.session = NoSession
    BY <1>3, <2>1 DEF ClientType, Phases
  <2> QED
    BY <1>3, <2>2, DownIInv
<1>6. CASE m.id = client.id /\ VerifyHandshake(m)
  <2>1. h = client.id /\ m.eph = f /\ f \in 0..MaxEphs
    BY <1>4, <1>6, BoundAssumption DEF VerifyHandshake, Ephs
  <2>2. client' = [client EXCEPT !.phase = "up", !.session = NewSession(f)]
    BY <1>2, <1>6, <2>1
  <2>3. /\ client' \in ClientType /\ client'.id = client.id /\ client'.phase = "up"
        /\ client'.session = NewSession(f)
    BY <1>3, <2>1, <2>2, NewSessionFacts, Zenon DEF ClientType, Phases
  <2>4. client'.session.eph = f /\ client'.session.seen = {}
    BY <2>1, <2>3, NewSessionFacts
  <2>5. TypeInv'
    BY <1>3, <2>3 DEF IInv, TypeInv
  <2>6. ClientInv'
    BY <1>3, <2>3, <2>4, Zenon DEF ClientInv
  <2>7. TableInv' /\ NetInv'
    BY <1>3, Zenon DEF IInv, TableInv, NetInv
  <2>8. KeyAgreement'
    <3>1. restarts = 0 => table[h].eph = f
      BY <1>1 DEF IInv, NetInv
    <3> QED
      BY <1>3, <2>1, <2>3, <2>4, <3>1, Zenon DEF KeyAgreement
  <2>9. ASSUME NEW side \in Sides, NEW i \in Ids, NEW e \in Ephs
        PROVE  /\ Unused(side, i, e)' => Unused(side, i, e)
               /\ Holds(side, i, e)' =>
                    \/ Holds(side, i, e) /\ SessionOf(side, i)' = SessionOf(side, i)
                    \/ Unused(side, i, e) /\ SessionOf(side, i)'.seen = {}
    BY <1>3, <2>3, <2>4, Zenon DEF Unused, Holds, SessionOf
  <2>10. PacketsInv'
    BY <1>3, <2>9, QuietKeeps, Zenon
  <2> QED
    BY <2>5, <2>6, <2>7, <2>8, <2>10 DEF IInv
<1> QED
  BY <1>5, <1>6

(* The gateway restarts with an empty table. *)
LEMMA RestartIInv == ASSUME IInv, Restart PROVE IInv'
<1>1. /\ table' = [i \in Ids |-> NoSession] /\ restarts' = restarts + 1
      /\ restarts \in Nat /\ restarts' \in Nat /\ restarts' # 0
      /\ UNCHANGED <<client, ephs, net, sealed, delivered, arrived, history>>
  BY DEF IInv, TypeInv, Restart, history
<1>2. \A i \in Ids : table'[i] \in SessionType /\ table'[i].eph = 0
  BY <1>1, NoSessionFacts
<1>3. TypeInv'
  BY <1>1, <1>2, NoSessionFacts DEF IInv, TypeInv
<1>4. ClientInv' /\ NetInv' /\ KeyAgreement'
  BY <1>1, Zenon DEF IInv, ClientInv, NetInv, KeyAgreement
<1>5. TableInv'
  <2>1. 0 <= ephs
    BY DEF IInv, TypeInv
  <2> QED
    BY <1>1, <1>2, <2>1 DEF TableInv
<1>6. ASSUME NEW side \in Sides, NEW i \in Ids, NEW e \in Ephs
      PROVE  /\ Unused(side, i, e)' => Unused(side, i, e)
             /\ Holds(side, i, e)' =>
                  Holds(side, i, e) /\ SessionOf(side, i)' = SessionOf(side, i)
  <2>1. e # 0
    BY SMTT(30) DEF Ephs
  <2> QED
    BY <1>1, <1>2, <2>1 DEF Unused, Holds, SessionOf
<1>7. PacketsInv'
  BY <1>1, <1>6, QuietKeeps, Zenon
<1> QED
  BY <1>3, <1>4, <1>5, <1>7 DEF IInv

(* A key that an end holds is not unused there. *)
LEMMA HeldIsUsed ==
  ASSUME IInv, NEW side \in Sides, NEW i \in Ids, NEW e \in Ephs, Holds(side, i, e)
  PROVE  ~Unused(side, i, e)
<1>1. CASE side = "initiator"
  BY <1>1 DEF Holds, Unused, Ids
<1>2. CASE side # "initiator"
  <2>1. table[i].eph = e /\ table[i].eph <= ephs /\ ephs \in 0..MaxEphs
    BY <1>2, Zenon DEF Holds, IInv, TableInv, TypeInv
  <2> QED
    BY <1>2, <2>1, BoundAssumption DEF Unused, Ephs
<1> QED
  BY <1>1, <1>2

(* An end holds at most one key for an id. *)
LEMMA HoldsOne ==
  ASSUME NEW side, NEW i, NEW e, NEW f, Holds(side, i, e), Holds(side, i, f)
  PROVE  e = f
  BY DEF Holds

\* A step after which every end holds the keys it held, and only the session
\* of one end for one id has changed.
OneSession(x, j) ==
  \A side \in Sides, i \in Ids, e \in Ephs :
    /\ Unused(side, i, e)' <=> Unused(side, i, e)
    /\ Holds(side, i, e)' <=> Holds(side, i, e)
    /\ Holds(side, i, e) /\ ~(side = x /\ i = j)
         => SessionOf(side, i)' = SessionOf(side, i)

\* An end seals packet k under its key f and counts it.
Seals(x, j, f, k) ==
  /\ SessionOf(x, j).next \in Nat /\ SessionOf(x, j).next < k
  /\ SessionOf(x, j)'.next = k
  /\ SessionOf(x, j)'.seen = SessionOf(x, j).seen
  /\ SessionOf(x, j)'.top = SessionOf(x, j).top
  /\ sealed' = [sealed EXCEPT ![<<<<j, f>>, x, k>>] = @ + 1]
  /\ delivered' = delivered /\ arrived' = arrived

(* The history after a packet is sealed. *)
LEMMA SealedHistory ==
  ASSUME IInv, NEW x \in Sides, NEW j \in Ids, NEW f \in Ephs, NEW k \in Numbers,
         NEW q, q = <<<<j, f>>, x, k>>, Holds(x, j, f), Seals(x, j, f, k)
  PROVE  /\ sealed' \in [Packets -> Nat] /\ sealed'[q] = 1
         /\ \A p \in Packets : p # q => sealed'[p] = sealed[p]
<1>1. q \in Packets
  BY DEF Packets
<1>2. sealed \in [Packets -> Nat]
  BY DEF IInv, TypeInv
<1>3. PacketInv(x, j, f, k)
  BY DEF IInv, PacketsInv
<1>4. SessionOf(x, j).next < k
  BY Zenon DEF Seals
<1>5. sealed[q] = 0
  BY <1>3, <1>4, Zenon DEF PacketInv
<1>6. sealed' = [sealed EXCEPT ![q] = @ + 1]
  BY Zenon DEF Seals
<1> QED
  BY <1>1, <1>2, <1>5, <1>6

(* A packet is sealed with the number after the last. *)
LEMMA SealKeeps ==
  ASSUME IInv, NEW x \in Sides, NEW j \in Ids, NEW f \in Ephs, NEW k \in Numbers,
         Holds(x, j, f), OneSession(x, j), Seals(x, j, f, k)
  PROVE  PacketsInv' /\ sealed' \in [Packets -> Nat]
<1>1. PICK q : q = <<<<j, f>>, x, k>>
  BY Zenon
<1>2. /\ sealed' \in [Packets -> Nat] /\ sealed'[q] = 1
      /\ \A p \in Packets : p # q => sealed'[p] = sealed[p]
  BY <1>1, SealedHistory, SMTT(30)
<1>3. /\ SessionOf(x, j)'.next = k /\ SessionOf(x, j)'.seen = SessionOf(x, j).seen
      /\ SessionOf(x, j)'.top = SessionOf(x, j).top
      /\ delivered' = delivered /\ arrived' = arrived
  BY Zenon DEF Seals
<1>4. \A n \in Numbers : k < n => SessionOf(x, j).next < n
  <2>1. PICK a : a = SessionOf(x, j).next
    BY Zenon
  <2>2. a \in Nat /\ a < k
    BY <2>1, Zenon DEF Seals
  <2>3. \A n \in Numbers : k < n => a < n
    BY <2>2, BoundAssumption DEF Numbers
  <2> QED
    BY <2>1, <2>3, Zenon
<1>5. ~(k < k) /\ 1 <= 1
  BY BoundAssumption DEF Numbers
<1>6. ASSUME NEW side \in Sides, NEW i \in Ids, NEW e \in Ephs, NEW n \in Numbers
      PROVE  PacketInv(side, i, e, n)'
  <2>1. PICK p : p = <<<<i, e>>, side, n>>
    BY Zenon
  <2>2. p \in Packets
    BY <2>1 DEF Packets
  <2>3. PacketInv(side, i, e, n)
    BY Zenon DEF IInv, PacketsInv
  <2>4. /\ Unused(side, i, e)' <=> Unused(side, i, e)
        /\ Holds(side, i, e)' <=> Holds(side, i, e)
        /\ Holds(side, i, e) /\ ~(side = x /\ i = j)
             => SessionOf(side, i)' = SessionOf(side, i)
    BY Zenon DEF OneSession
  <2>5. CASE p = q
    <3>1. side = x /\ i = j /\ e = f /\ n = k
      BY <1>1, <2>1, <2>5
    <3>2. ~Unused(side, i, e)
      BY <3>1, HeldIsUsed, Zenon
    <3> QED
      BY <1>2, <1>3, <1>5, <2>1, <2>3, <2>4, <2>5, <3>1, <3>2, Zenon DEF PacketInv
  <2>6. CASE p # q
    <3>1. sealed'[p] = sealed[p]
      BY <1>2, <2>2, <2>6, Zenon
    <3>2. CASE side = x /\ i = j
      BY <1>3, <1>4, <2>1, <2>3, <2>4, <3>1, <3>2, Zenon DEF PacketInv
    <3>3. CASE ~(side = x /\ i = j)
      BY <1>3, <2>1, <2>3, <2>4, <3>1, <3>3, Zenon DEF PacketInv
    <3> QED
      BY <3>2, <3>3, Zenon
  <2> QED
    BY <2>5, <2>6, Zenon
<1> QED
  BY <1>2, <1>6, Zenon DEF PacketsInv

(* What the window makes of a number. *)
LEMMA ObserveFacts ==
  ASSUME NEW s \in SessionType, NEW n \in Numbers
  PROVE  LET o == Observe(s, n) IN
         /\ o.session \in SessionType
         /\ o.session.eph = s.eph /\ o.session.next = s.next
         /\ o.first => n \notin s.seen /\ o.session.seen = s.seen \cup {n}
         /\ ~o.first => o.session = s /\ (n \in s.seen \/ n + Width <= s.top)
         /\ \A k \in Numbers : k + Width <= s.top => k + Width <= o.session.top
         /\ o.first \in BOOLEAN
<1> DEFINE o == Observe(s, n)
<1>1. CASE n + Width <= s.top \/ n \in s.seen
  <2>1. o = [first |-> FALSE, session |-> s]
    BY <1>1 DEF Observe
  <2>2. o.first = FALSE /\ o.session = s
    BY <2>1
  <2> QED
    BY <1>1, <2>2, Zenon
<1>2. CASE ~(n + Width <= s.top \/ n \in s.seen)
  <2>1. PICK t : t = IF n > s.top THEN n ELSE s.top
    OBVIOUS
  <2>2. s.top \in 0..MaxPackets
    BY DEF SessionType
  <2>3. t \in 0..MaxPackets /\ s.top <= t
    BY <2>1, <2>2, BoundAssumption DEF Numbers
  <2>4. PICK r : r = [s EXCEPT !.top = t, !.seen = s.seen \cup {n}]
    OBVIOUS
  <2>5. r = [eph |-> s.eph, next |-> s.next, top |-> t, seen |-> s.seen \cup {n}]
    BY <2>4, Zenon DEF SessionType
  <2>6. r \in SessionType /\ r.eph = s.eph /\ r.next = s.next /\ r.top = t
        /\ r.seen = s.seen \cup {n}
    BY <2>3, <2>5 DEF SessionType
  <2>7. o = [first |-> TRUE, session |-> r]
    BY <1>2, <2>1, <2>4 DEF Observe, SessionType
  <2>8. o.first = TRUE /\ o.session = r
    BY <2>7
  <2>9. ASSUME NEW k \in Numbers, k + Width <= s.top PROVE k + Width <= r.top
    BY <2>2, <2>3, <2>6, <2>9, HealthyAssumption DEF Numbers
  <2> QED
    BY <1>2, <2>6, <2>8, <2>9, Zenon
<1> QED
  BY <1>1, <1>2, Zenon

\* Packet k arrives at the end whose session s holds its key f.
Receives(x, j, f, k, s) ==
  LET o == Observe(s, k)
      q == <<<<j, f>>, x, k>>
  IN
  /\ SessionOf(x, j)' = o.session
  /\ delivered' = IF o.first THEN [delivered EXCEPT ![q] = @ + 1] ELSE delivered
  /\ arrived' = arrived \cup {q} /\ sealed' = sealed

\* What is recorded of packet q, which arrives for the first time or not.
Noted(q, first) ==
  /\ delivered' \in [Packets -> Nat] /\ arrived' \subseteq Packets
  /\ first => delivered'[q] = 1
  /\ ~first => delivered'[q] = delivered[q]
  /\ \A p \in Packets :
       p # q => delivered'[p] = delivered[p] /\ (p \in arrived' <=> p \in arrived)

(* The history after a packet arrived. *)
LEMMA ReceivedHistory ==
  ASSUME IInv, NEW x \in Sides, NEW j \in Ids, NEW f \in Ephs, NEW k \in Numbers,
         NEW s \in SessionType, s = SessionOf(x, j), Holds(x, j, f),
         Receives(x, j, f, k, s)
  PROVE  Noted(<<<<j, f>>, x, k>>, Observe(s, k).first)
<1>0. PICK q, o : q = <<<<j, f>>, x, k>> /\ o = Observe(s, k)
  BY Zenon
<1>1. q \in Packets
  BY <1>0 DEF Packets
<1>2. delivered \in [Packets -> Nat] /\ arrived \subseteq Packets
  BY DEF IInv, TypeInv
<1>3. PacketInv(x, j, f, k)
  BY Zenon DEF IInv, PacketsInv
<1>4. o.first => k \notin s.seen
  BY <1>0, ObserveFacts, Zenon
<1>5. o.first => delivered[q] = 0
  BY <1>0, <1>3, <1>4, Zenon DEF PacketInv
<1>6. /\ o.first => delivered' = [delivered EXCEPT ![q] = @ + 1]
      /\ ~o.first => delivered' = delivered
      /\ arrived' = arrived \cup {q}
  BY <1>0, Zenon DEF Receives
<1>7. ASSUME o.first PROVE Noted(q, o.first)
  BY <1>1, <1>2, <1>5, <1>6, <1>7 DEF Noted
<1>8. ASSUME ~o.first PROVE Noted(q, o.first)
  BY <1>1, <1>2, <1>6, <1>8 DEF Noted
<1>9. Noted(q, o.first)
  BY <1>7, <1>8, Zenon
<1> QED
  BY <1>0, <1>9, Zenon

(* An authentic copy arrives at the end that holds its key, and goes through
   the window of its session. *)
LEMMA ReceiveKeeps ==
  ASSUME IInv, NEW x \in Sides, NEW j \in Ids, NEW f \in Ephs, NEW k \in Numbers,
         NEW s \in SessionType, s = SessionOf(x, j),
         Holds(x, j, f), OneSession(x, j), Receives(x, j, f, k, s)
  PROVE  /\ PacketsInv' /\ delivered' \in [Packets -> Nat]
         /\ arrived' \subseteq Packets
<1>1. PICK q : q = <<<<j, f>>, x, k>>
  BY Zenon
<1>2. PICK o : o = Observe(s, k)
  BY Zenon
<1>3. /\ o.session.next = s.next
      /\ o.first => k \notin s.seen /\ o.session.seen = s.seen \cup {k}
      /\ ~o.first => o.session = s /\ (k \in s.seen \/ k + Width <= s.top)
      /\ \A n \in Numbers : n + Width <= s.top => n + Width <= o.session.top
  BY <1>2, ObserveFacts, Zenon
<1>4. /\ delivered' \in [Packets -> Nat] /\ arrived' \subseteq Packets
      /\ o.first => delivered'[q] = 1
      /\ ~o.first => delivered'[q] = delivered[q]
      /\ \A p \in Packets :
           p # q => delivered'[p] = delivered[p] /\ (p \in arrived' <=> p \in arrived)
  <2>1. Noted(q, o.first)
    BY <1>1, <1>2, ReceivedHistory, Zenon
  <2> QED
    BY <2>1, Zenon DEF Noted
<1>5. SessionOf(x, j)' = o.session /\ sealed' = sealed /\ 1 <= 1
  <2>1. SessionOf(x, j)' = o.session /\ sealed' = sealed
    BY <1>2, Zenon DEF Receives
  <2> QED
    BY <2>1
<1>6. ASSUME NEW side \in Sides, NEW i \in Ids, NEW e \in Ephs, NEW n \in Numbers
      PROVE  PacketInv(side, i, e, n)'
  <2>1. PICK p : p = <<<<i, e>>, side, n>>
    BY Zenon
  <2>2. p \in Packets
    BY <2>1 DEF Packets
  <2>3. PacketInv(side, i, e, n)
    BY Zenon DEF IInv, PacketsInv
  <2>4. /\ Unused(side, i, e)' <=> Unused(side, i, e)
        /\ Holds(side, i, e)' <=> Holds(side, i, e)
        /\ Holds(side, i, e) /\ ~(side = x /\ i = j)
             => SessionOf(side, i)' = SessionOf(side, i)
    BY Zenon DEF OneSession
  <2>5. CASE p = q
    <3>1. side = x /\ i = j /\ e = f /\ n = k
      BY <1>1, <2>1, <2>5
    <3>2. ~Unused(side, i, e)
      BY <3>1, HeldIsUsed, Zenon
    <3>3. CASE o.first
      <4>1. k \in o.session.seen
        BY <1>3, <3>3, Zenon
      <4> QED
        BY <1>3, <1>4, <1>5, <2>1, <2>3, <2>4, <2>5, <3>1, <3>2, <3>3, <4>1, ZenonT(40)
           DEF PacketInv
    <3>4. CASE ~o.first
      BY <1>3, <1>4, <1>5, <2>1, <2>3, <2>4, <2>5, <3>1, <3>2, <3>4, ZenonT(40)
         DEF PacketInv
    <3> QED
      BY <3>3, <3>4, Zenon
  <2>6. CASE p # q
    <3>1. delivered'[p] = delivered[p] /\ (p \in arrived' <=> p \in arrived)
      BY <1>4, <2>2, <2>6, Zenon
    <3>2. CASE ~(side = x /\ i = j)
      BY <1>5, <2>1, <2>3, <2>4, <3>1, <3>2, Zenon DEF PacketInv
    <3>3. CASE ~Holds(side, i, e)
      BY <1>5, <2>1, <2>3, <2>4, <3>1, <3>3, Zenon DEF PacketInv
    <3>4. CASE side = x /\ i = j /\ Holds(side, i, e)
      <4>1. e = f
        BY <3>4, HoldsOne, Zenon
      <4>2. n # k
        BY <1>1, <2>1, <2>6, <3>4, <4>1, Zenon
      <4>3. n \in o.session.seen <=> n \in s.seen
        BY <1>3, <4>2, Zenon
      <4> QED
        BY <1>3, <1>5, <2>1, <2>3, <2>4, <3>1, <3>4, <4>3, Zenon DEF PacketInv
    <3> QED
      BY <3>2, <3>3, <3>4, Zenon
  <2> QED
    BY <2>5, <2>6, Zenon
<1> QED
  BY <1>4, <1>6, Zenon DEF PacketsInv

(* Copies of a packet join those in transit. *)
LEMMA DataKeeps ==
  ASSUME IInv, NEW d \in Sides, NEW i \in Ids, NEW e \in Ephs, NEW n \in Numbers,
         net' = net \cup OnAllPaths(Data(d, i, e, n)), restarts' = restarts,
         \A k \in Ids : table'[k].eph = table[k].eph
  PROVE  NetInv'
<1>1. PICK new : new = OnAllPaths(Data(d, i, e, n))
  OBVIOUS
<1>2. net' = net \cup new /\ \A c \in new : c.msg = Data(d, i, e, n)
  BY <1>1 DEF OnAllPaths
<1>3. \A c \in new : IsData(c.msg)
  BY <1>2 DEF IsData
<1>4. \A c \in new : IsHello(c.msg) \/ IsData(c.msg)
  BY <1>3, Zenon
<1> QED
  BY <1>2, <1>4, NetKeeps, Zenon

(* What is left to show when the client's session alone changes, its key not. *)
LEMMA ClientKeeps ==
  ASSUME IInv, client.phase = "up", NEW j, j = client.id,
         NEW s \in SessionType, s.eph = client.session.eph,
         client' = [client EXCEPT !.session = s], UNCHANGED <<table, ephs, restarts>>
  PROVE  /\ client' \in ClientType /\ client'.session = s
         /\ ClientInv' /\ TableInv' /\ KeyAgreement'
         /\ OneSession("initiator", j)
<1>1. client \in ClientType
  BY DEF IInv, TypeInv
<1>2. /\ client' \in ClientType /\ client'.id = client.id
      /\ client'.phase = client.phase /\ client'.session = s
  BY <1>1 DEF ClientType
<1>3. ClientInv' /\ TableInv' /\ KeyAgreement'
  BY <1>2 DEF IInv, ClientInv, TableInv, KeyAgreement
<1>4. OneSession("initiator", j)
  BY <1>2 DEF OneSession, Unused, Holds, SessionOf
<1> QED
  BY <1>2, <1>3, <1>4

(* The same for one session of the gateway. *)
LEMMA TableKeeps ==
  ASSUME IInv, NEW j \in Ids, NEW s \in SessionType, s.eph = table[j].eph,
         table' = [table EXCEPT ![j] = s], UNCHANGED <<client, ephs, restarts>>
  PROVE  /\ table' \in [Ids -> SessionType] /\ table'[j] = s
         /\ \A i \in Ids : table'[i].eph = table[i].eph
         /\ ClientInv' /\ TableInv' /\ KeyAgreement'
         /\ OneSession("responder", j)
<1>1. /\ table' \in [Ids -> SessionType] /\ table'[j] = s
      /\ \A i \in Ids \ {j} : table'[i] = table[i]
  BY DEF IInv, TypeInv
<1>2. \A i \in Ids : table'[i].eph = table[i].eph
  BY <1>1
<1>3. ClientInv' /\ TableInv'
  BY <1>2 DEF IInv, ClientInv, TableInv
<1>4. KeyAgreement'
  BY <1>2 DEF IInv, ClientInv, KeyAgreement
<1>5. OneSession("responder", j)
  BY <1>1, <1>2 DEF OneSession, Unused, Holds, SessionOf, Sides
<1> QED
  BY <1>1, <1>2, <1>3, <1>4, <1>5

(* The session after a packet is sealed. *)
LEMMA SealedSession ==
  ASSUME NEW s \in SessionType, NEW n \in 0..MaxPackets, NEW r,
         r = [s EXCEPT !.next = n]
  PROVE  /\ r \in SessionType /\ r.next = n /\ r.eph = s.eph /\ r.seen = s.seen
         /\ r.top = s.top
  BY DEF SessionType

(* The client sends. *)
LEMMA ClientOutboundIInv == ASSUME IInv, ClientOutbound PROVE IInv'
<1>1. /\ client \in ClientType /\ client.phase = "up" /\ client.id \in Ids
      /\ client.session.eph \in Ephs /\ client.session \in SessionType
      /\ client.session.next < MaxPackets
  BY DEF IInv, TypeInv, ClientInv, ClientOutbound, ClientType
<1>2. PICK s \in SessionType : s = client.session
  BY <1>1
<1> PICK j \in Ids, f \in Ephs : j = client.id /\ f = s.eph
  BY <1>1, <1>2
<1>3. PICK k : k = s.next + 1
  OBVIOUS
<1>4. s.next \in 0..MaxPackets
  BY DEF SessionType
<1>5. k \in Numbers /\ k \in 0..MaxPackets /\ s.next \in Nat /\ s.next < k
  BY <1>1, <1>2, <1>3, <1>4, BoundAssumption DEF Numbers
<1>6. PICK r : r = [s EXCEPT !.next = k]
  BY Zenon
<1>7. /\ r \in SessionType /\ r.next = k /\ r.eph = s.eph /\ r.seen = s.seen
      /\ r.top = s.top
  BY <1>5, <1>6, SealedSession
<1>8. /\ client' = [client EXCEPT !.session = r]
      /\ net' = net \cup OnAllPaths(Data("initiator", j, f, k))
      /\ sealed' = [sealed EXCEPT ![<<<<j, f>>, "initiator", k>>] = @ + 1]
      /\ UNCHANGED <<table, ephs, restarts, delivered, arrived>>
  BY <1>1, <1>2, <1>3, <1>6
     DEF ClientOutbound, sendDir, nonce, DeriveSessionKey, ClientType
<1>9. /\ client' \in ClientType /\ client'.session = r
      /\ ClientInv' /\ TableInv' /\ KeyAgreement'
      /\ OneSession("initiator", j)
  BY <1>1, <1>2, <1>7, <1>8, ClientKeeps
<1>10. "initiator" \in Sides
  BY DEF Sides
<1>11. NetInv'
  BY <1>1, <1>2, <1>5, <1>8, <1>10, DataKeeps, Zenon
<1>12. /\ Holds("initiator", j, f)
       /\ SessionOf("initiator", j) = s
       /\ SessionOf("initiator", j)' = r
  BY <1>1, <1>2, <1>9 DEF Holds, SessionOf
<1>13. PacketsInv' /\ sealed' \in [Packets -> Nat]
  <2>1. delivered' = delivered /\ arrived' = arrived
    BY <1>8
  <2>2. Seals("initiator", j, f, k)
    BY <1>5, <1>7, <1>8, <1>12, <2>1, Zenon DEF Seals
  <2> QED
    BY <1>5, <1>9, <1>10, <1>12, <2>2, SealKeeps, Zenon
<1>14. TypeInv'
  BY <1>8, <1>9, <1>13, Zenon DEF IInv, TypeInv
<1> QED
  BY <1>9, <1>11, <1>13, <1>14 DEF IInv

(* The gateway sends. *)
LEMMA GatewayOutboundIInv ==
  ASSUME IInv, NEW id \in Ids, GatewayOutbound(id) PROVE IInv'
<1>1. PICK s \in SessionType : s = table[id]
  BY DEF IInv, TypeInv
<1>2. PICK k : k = s.next + 1
  OBVIOUS
<1>3. s.next \in 0..MaxPackets /\ s.eph \in 0..MaxEphs
  BY DEF SessionType
<1>4. s.eph # 0 /\ s.next < MaxReplies
  BY <1>1, Zenon DEF GatewayOutbound
<1>5. k \in Numbers /\ k \in 0..MaxPackets /\ s.next \in Nat /\ s.next < k
  BY <1>2, <1>3, <1>4, BoundAssumption, SMTT(30) DEF Numbers
<1>6. s.eph \in Ephs
  BY <1>3, <1>4, BoundAssumption DEF Ephs
<1>7. PICK r : r = [s EXCEPT !.next = k]
  BY Zenon
<1>8. /\ r \in SessionType /\ r.next = k /\ r.eph = s.eph /\ r.seen = s.seen
      /\ r.top = s.top
  BY <1>5, <1>7, SealedSession
<1>9. /\ table' = [table EXCEPT ![id] = r]
      /\ net' = net \cup OnAllPaths(Data("responder", id, s.eph, k))
      /\ sealed' = [sealed EXCEPT ![<<<<id, s.eph>>, "responder", k>>] = @ + 1]
      /\ UNCHANGED <<client, ephs, restarts, delivered, arrived>>
  BY <1>1, <1>2, <1>7
     DEF GatewayOutbound, sendDir, nonce, DeriveSessionKey, IInv, TypeInv
<1>10. /\ table' \in [Ids -> SessionType] /\ table'[id] = r
       /\ \A i \in Ids : table'[i].eph = table[i].eph
       /\ ClientInv' /\ TableInv' /\ KeyAgreement'
       /\ OneSession("responder", id)
  BY <1>1, <1>8, <1>9, TableKeeps, Zenon
<1>11. "responder" \in Sides
  BY Zenon DEF Sides
<1>12. NetInv'
  BY <1>5, <1>6, <1>9, <1>10, <1>11, DataKeeps, Zenon
<1>13. /\ Holds("responder", id, s.eph)
       /\ SessionOf("responder", id) = s /\ SessionOf("responder", id)' = r
  BY <1>1, <1>10, Zenon DEF Holds, SessionOf
<1>14. PacketsInv' /\ sealed' \in [Packets -> Nat]
  <2>1. delivered' = delivered /\ arrived' = arrived
    BY <1>9
  <2>2. Seals("responder", id, s.eph, k)
    BY <1>5, <1>8, <1>9, <1>13, <2>1, Zenon DEF Seals
  <2> QED
    BY <1>5, <1>6, <1>10, <1>11, <1>13, <2>2, SealKeeps, Zenon
<1>15. TypeInv'
  BY <1>9, <1>10, <1>14, Zenon DEF IInv, TypeInv
<1> QED
  BY <1>10, <1>12, <1>14, <1>15 DEF IInv

(* What arrives of a packet is one, perhaps with another key than any. *)
LEMMA ArrivedFacts ==
  ASSUME IInv, NEW c \in net, ClassifyDatagram(c.msg) = "data", NEW m \in Arrives(c)
  PROVE  m.id \in Ids /\ m.id = c.msg.id /\ m.number \in Numbers
         /\ m.eph \in Ephs \cup {0}
<1>1. PICK d \in Sides, i \in Ids, e \in Ephs, n \in Numbers : c.msg = Data(d, i, e, n)
  BY MessageFacts DEF IsData
<1>2. m = c.msg \/ m = [c.msg EXCEPT !.eph = 0]
  BY DEF Arrives
<1>3. \/ m = [kind |-> "data", dir |-> d, id |-> i, eph |-> e, number |-> n]
      \/ m = [kind |-> "data", dir |-> d, id |-> i, eph |-> 0, number |-> n]
  BY <1>1, <1>2, SMTT(30) DEF Data
<1> QED
  BY <1>1, <1>3 DEF Data

(* A copy that does not open, or comes the wrong way, changes nothing. *)
LEMMA IgnoredFacts ==
  ASSUME NEW s, NEW side, NEW m, NEW r, r = Inbound(s, side, m)
  PROVE  \/ ~r.first /\ ~r.opens /\ r.session = s
         \/ /\ m.eph = s.eph /\ r.opens /\ r.session = Observe(s, m.number).session
            /\ r.first = Observe(s, m.number).first
<1>1. CASE m.dir # peerDir(side) \/ ~open(s, m)
  BY <1>1, ZenonT(40) DEF Inbound
<1>2. CASE ~(m.dir # peerDir(side) \/ ~open(s, m))
  BY <1>2 DEF Inbound, open
<1> QED
  BY <1>1, <1>2, Zenon

(* A step that changes nothing. *)
LEMMA StutterIInv == ASSUME IInv, UNCHANGED vars PROVE IInv'
<1>1. UNCHANGED <<client, table, ephs, restarts, net, sealed, delivered, arrived>>
  BY Zenon DEF vars, history
<1>2. TypeInv' /\ ClientInv' /\ TableInv' /\ NetInv' /\ KeyAgreement'
  BY <1>1, Zenon DEF IInv, TypeInv, ClientInv, TableInv, NetInv, KeyAgreement
<1>3. PacketsInv'
  <2>1. \A side \in Sides, i \in Ids, e \in Ephs :
          /\ Unused(side, i, e)' <=> Unused(side, i, e)
          /\ Holds(side, i, e)' <=> Holds(side, i, e)
          /\ SessionOf(side, i)' = SessionOf(side, i)
    BY <1>1 DEF Holds, Unused, SessionOf
  <2>2. UNCHANGED history
    BY Zenon DEF vars
  <2>3. \A side \in Sides, i \in Ids, e \in Ephs :
          /\ Unused(side, i, e)' => Unused(side, i, e)
          /\ Holds(side, i, e)' =>
               \/ Holds(side, i, e) /\ SessionOf(side, i)' = SessionOf(side, i)
               \/ Unused(side, i, e) /\ SessionOf(side, i)'.seen = {}
    BY <2>1, Zenon
  <2> QED
    BY <2>2, <2>3, QuietKeeps, Zenon
<1> QED
  BY <1>2, <1>3 DEF IInv

(* A copy reaches the gateway. *)
LEMMA GatewayInboundIInv ==
  ASSUME IInv, NEW c \in net, GatewayInbound(c) PROVE IInv'
<1>1. PICK m \in Arrives(c) : GatewayReceives(m)
  BY Zenon DEF GatewayInbound
<1>2. m.id \in Ids /\ m.number \in Numbers /\ m.eph \in Ephs \cup {0}
  BY ArrivedFacts DEF GatewayInbound
<1>3. PICK j \in Ids, k \in Numbers : j = m.id /\ k = m.number
  BY <1>2
<1>4. PICK s \in SessionType : s = table[j]
  BY DEF IInv, TypeInv
<1>5. PICK r : r = Inbound(s, "responder", m)
  BY Zenon
<1>6. /\ s.eph # 0 /\ table' = [table EXCEPT ![j] = r.session]
      /\ Recorded(j, "responder", m, r)
      /\ UNCHANGED <<client, ephs, restarts, net, sealed>>
  BY <1>1, <1>3, <1>4, <1>5, Zenon DEF GatewayReceives
<1>7. CASE ~r.first /\ ~r.opens /\ r.session = s
  <2>1. delivered' = delivered /\ arrived' = arrived
    BY <1>6, <1>7, Zenon DEF Recorded
  <2>2. table' = table
    BY <1>4, <1>6, <1>7, Zenon DEF IInv, TypeInv
  <2> QED
    BY <1>6, <2>1, <2>2, StutterIInv, Zenon DEF vars, history
<1>8. CASE /\ m.eph = s.eph /\ r.opens /\ r.session = Observe(s, k).session
           /\ r.first = Observe(s, k).first
  <2>1. PICK f \in Ephs : f = m.eph
    BY <1>2, <1>6, <1>8, Zenon
  <2>2. PICK q : q = <<<<j, f>>, "responder", k>>
    BY Zenon
  <2>3. /\ delivered' = IF Observe(s, k).first THEN [delivered EXCEPT ![q] = @ + 1]
                                               ELSE delivered
        /\ arrived' = arrived \cup {q}
    BY <1>3, <1>6, <1>8, <2>1, <2>2, Zenon DEF Recorded, DeriveSessionKey
  <2>4. PICK t : t = r.session
    BY Zenon
  <2>5. t \in SessionType /\ t.eph = s.eph
    BY <1>8, <2>4, ObserveFacts, SMTT(30)
  <2>6. /\ table' \in [Ids -> SessionType] /\ table'[j] = t
        /\ \A i \in Ids : table'[i].eph = table[i].eph
        /\ ClientInv' /\ TableInv' /\ KeyAgreement'
        /\ OneSession("responder", j)
    BY <1>4, <1>6, <2>4, <2>5, TableKeeps, ZenonT(40)
  <2>7. /\ Holds("responder", j, f) /\ s = SessionOf("responder", j)
        /\ SessionOf("responder", j)' = Observe(s, k).session
    BY <1>4, <1>8, <2>1, <2>4, <2>6, Zenon DEF Holds, SessionOf
  <2>8. "responder" \in Sides
    BY Zenon DEF Sides
  <2>9. PacketsInv' /\ delivered' \in [Packets -> Nat] /\ arrived' \subseteq Packets
    <3>1. sealed' = sealed
      BY <1>6
    <3>2. Receives("responder", j, f, k, s)
      BY <2>2, <2>3, <2>7, <3>1, Zenon DEF Receives
    <3> QED
      BY <2>6, <2>7, <2>8, <3>2, ReceiveKeeps, Zenon
  <2>10. NetInv'
    BY <1>6, <2>6, ZenonT(40) DEF IInv, NetInv
  <2>11. TypeInv'
    BY <1>6, <2>6, <2>9, Zenon DEF IInv, TypeInv
  <2> QED
    BY <2>6, <2>9, <2>10, <2>11, Zenon DEF IInv
<1> QED
  BY <1>3, <1>5, <1>7, <1>8, IgnoredFacts

(* A copy reaches the client. *)
LEMMA ClientInboundIInv ==
  ASSUME IInv, NEW c \in net, ClientInbound(c) PROVE IInv'
<1>1. PICK m \in Arrives(c) :
        LET r == Inbound(client.session, "initiator", m) IN
        /\ client' = [client EXCEPT !.session = r.session]
        /\ Recorded(client.id, "initiator", m, r)
  BY DEF ClientInbound
<1>2. m.id \in Ids /\ m.number \in Numbers /\ m.eph \in Ephs \cup {0}
  BY ArrivedFacts DEF ClientInbound
<1>3. /\ client \in ClientType /\ client.phase = "up" /\ client.id \in Ids
      /\ client.session.eph \in Ephs /\ client.session \in SessionType
  BY Zenon DEF IInv, TypeInv, ClientInv, ClientInbound, ClientType
<1>4. PICK j \in Ids, k \in Numbers : j = client.id /\ k = m.number
  BY <1>2, <1>3
<1>5. PICK s \in SessionType : s = client.session
  BY <1>3
<1>6. PICK r : r = Inbound(s, "initiator", m)
  OBVIOUS
<1>7. /\ client' = [client EXCEPT !.session = r.session]
      /\ Recorded(j, "initiator", m, r)
      /\ UNCHANGED <<table, ephs, restarts, net, sealed>>
  BY <1>1, <1>4, <1>5, <1>6 DEF ClientInbound
<1>8. CASE ~r.first /\ ~r.opens /\ r.session = s
  <2>1. delivered' = delivered /\ arrived' = arrived
    BY <1>7, <1>8 DEF Recorded
  <2>2. client' = client
    BY <1>3, <1>5, <1>7, <1>8 DEF ClientType
  <2> QED
    BY <1>7, <2>1, <2>2, StutterIInv DEF vars, history
<1>9. CASE /\ m.eph = s.eph /\ r.opens /\ r.session = Observe(s, k).session
           /\ r.first = Observe(s, k).first
  <2>1. PICK f \in Ephs : f = m.eph
    BY <1>3, <1>5, <1>9, Zenon
  <2>2. PICK q : q = <<<<j, f>>, "initiator", k>>
    BY Zenon
  <2>3. /\ delivered' = IF Observe(s, k).first THEN [delivered EXCEPT ![q] = @ + 1]
                                               ELSE delivered
        /\ arrived' = arrived \cup {q}
    BY <1>4, <1>7, <1>9, <2>1, <2>2, Zenon DEF Recorded, DeriveSessionKey
  <2>4. PICK t : t = r.session
    OBVIOUS
  <2>5. t \in SessionType /\ t.eph = s.eph
    BY <1>9, <2>4, ObserveFacts, SMTT(30)
  <2>6. /\ client' \in ClientType /\ client'.session = t
        /\ ClientInv' /\ TableInv' /\ KeyAgreement'
        /\ OneSession("initiator", j)
    BY <1>3, <1>4, <1>5, <1>7, <2>4, <2>5, ClientKeeps, Zenon
  <2>7. /\ Holds("initiator", j, f) /\ s = SessionOf("initiator", j)
        /\ SessionOf("initiator", j)' = Observe(s, k).session
    BY <1>3, <1>4, <1>5, <1>9, <2>1, <2>4, <2>6, Zenon DEF Holds, SessionOf
  <2>8. "initiator" \in Sides
    BY DEF Sides
  <2>9. PacketsInv' /\ delivered' \in [Packets -> Nat] /\ arrived' \subseteq Packets
    <3>1. sealed' = sealed
      BY <1>7
    <3>2. Receives("initiator", j, f, k, s)
      BY <2>2, <2>3, <2>7, <3>1, Zenon DEF Receives
    <3> QED
      BY <2>6, <2>7, <2>8, <3>2, ReceiveKeeps, Zenon
  <2>10. NetInv'
    BY <1>7 DEF IInv, NetInv
  <2>11. TypeInv'
    BY <1>7, <2>6, <2>9 DEF IInv, TypeInv
  <2> QED
    BY <2>6, <2>9, <2>10, <2>11, Zenon DEF IInv
<1> QED
  BY <1>4, <1>6, <1>8, <1>9, IgnoredFacts

(* Every step keeps the invariant. *)
LEMMA NextIInv == IInv /\ [Next]_vars => IInv'
<1> SUFFICES ASSUME IInv, [Next]_vars PROVE IInv'
  OBVIOUS
<1>1. CASE \E p \in PathNames : BeginClientHandshake(p)
  BY <1>1, BeginIInv
<1>2. CASE Abandon
  BY <1>2, AbandonIInv
<1>3. CASE ClientOutbound
  BY <1>3, ClientOutboundIInv
<1>4. CASE Restart
  BY <1>4, RestartIInv
<1>5. CASE \E id \in Ids : GatewayOutbound(id)
  BY <1>5, GatewayOutboundIInv
<1>6. CASE \E c \in net : Handshake(c)
  BY <1>6, HandshakeIInv
<1>7. CASE \E c \in net : Complete(c)
  BY <1>7, CompleteIInv
<1>8. CASE \E c \in net : GatewayInbound(c)
  BY <1>8, GatewayInboundIInv
<1>9. CASE \E c \in net : ClientInbound(c)
  BY <1>9, ClientInboundIInv
<1>10. CASE UNCHANGED vars
  BY <1>10, StutterIInv
<1> QED
  BY <1>1, <1>2, <1>3, <1>4, <1>5, <1>6, <1>7, <1>8, <1>9, <1>10 DEF Next

(* The invariant holds in every reachable state, whatever the bounds. *)
THEOREM Invariance == Spec => []IInv
  BY InitIInv, NextIInv, PTL DEF Spec

(* Neither end ever seals two packets under one key, direction and number,
   over repeated handshakes, answers that arrive late and restarts. *)
THEOREM NonceTheorem == Spec => []NonceUnique
<1>1. IInv => NonceUnique
  BY IInvImplies
<1> QED
  BY <1>1, Invariance, PTL

(* Until the gateway restarts, a client that is up and the gateway hold the
   same key for its session, however late the hello and its answer came. *)
THEOREM AgreementTheorem == Spec => []KeyAgreement
<1>1. IInv => KeyAgreement
  BY IInvImplies
<1> QED
  BY <1>1, Invariance, PTL

(* At either end a packet is handed on at most once over all copies on all
   paths; once an authentic copy arrived it has been, unless packets a whole
   window newer overtook it or its session is gone. *)
THEOREM DeliveryTheorem == Spec => []EndToEndOnce
<1>1. IInv => EndToEndOnce
  BY IInvImplies, Zenon
<1> QED
  BY <1>1, Invariance, PTL

-----------------------------------------------------------------------------
(* The gateway process.                                                    *)

\* The labels between the bind of the UDP port and the signal.
Holding == {"tunsetiff", "set_mtu", "run_as", "setgid", "setuid", "verify",
            "identity", "create", "write", "announce", "tier", "metrics", "serve"}
Labels == Holding \cup {"down", "listen", "stopping"}
MetricsStates == {"off", "starting", "listening", "failed", "closed"}
ProcType == [pc : Labels, uid : Uids, caps : SUBSET CapSets,
             key : Keys \cup {NoKey}, metrics : MetricsStates]

ProcessTypeInv ==
  /\ config \in ConfigType
  /\ proc \in [Procs -> ProcType]
  /\ port \in Procs \cup {Nobody}
  /\ file \in FileType
  /\ announced \subseteq Keys \cup {NoKey}

\* The port is a lock on everything between ListenPacket and the signal.
PortHeld == \A p \in Procs : proc[p].pc \in Holding => port = p

\* Without root there is no capability but those the start brought along,
\* except between Setuid and its check.
Dropped ==
  \A p \in Procs :
    /\ proc[p].pc # "verify" /\ proc[p].uid # 0 => NoneGained(proc[p].uid, proc[p].caps)
    /\ proc[p].pc = "verify" => proc[p].uid = RunAs

\* What the identity file holds at each step of LoadOrCreateIdentity.
FileFollows ==
  /\ \A k \in announced : file.state = "whole" /\ file.key = k
  /\ \A p \in Procs :
       /\ proc[p].pc = "create" => file.state = "absent"
       /\ proc[p].pc = "write" => file.state = "partial"
       /\ proc[p].pc = "announce" => file.state = "whole" /\ file.key = proc[p].key
       /\ config.mode = "data" /\ proc[p].pc \in {"tier", "metrics", "serve"}
            => proc[p].key \in announced

ProcessIInv == ProcessTypeInv /\ PortHeld /\ Dropped /\ RootOnlyOnRequest /\ FileFollows

(* The stated invariants follow. *)
LEMMA ProcessIInvImplies == ProcessIInv => RootOnlyOnRequest /\ IdentityPinned
  BY Zenon DEF ProcessIInv, FileFollows, IdentityPinned, At

(* Before the first start nothing runs and nothing is announced. *)
LEMMA InitProcessIInv == ProcessInit => ProcessIInv
<1> SUFFICES ASSUME ProcessInit PROVE ProcessIInv
  OBVIOUS
<1>1. Down \in ProcType /\ Down.pc = "down" /\ Down.uid = 0
  BY DEF Down, ProcType, Labels, Holding, MetricsStates, Uids
<1>2. \A p \in Procs : proc[p] = Down
  BY DEF ProcessInit
<1>3. ProcessTypeInv
  BY <1>1, ProcessAssumption DEF ProcessInit, ProcessTypeInv
<1>4. announced = {}
  BY DEF ProcessInit
<1> QED
  BY <1>1, <1>2, <1>3, <1>4, Zenon
     DEF ProcessIInv, PortHeld, Dropped, RootOnlyOnRequest, PastBoundary, FileFollows, Holding

(* A step that only moves one process on to another label. *)
LEMMA GotoEffect ==
  ASSUME ProcessTypeInv, NEW p \in Procs, NEW l \in Labels, Goto(p, l)
  PROVE  /\ proc' \in [Procs -> ProcType]
         /\ \A q \in Procs \ {p} : proc'[q] = proc[q]
         /\ proc'[p].pc = l /\ proc'[p].uid = proc[p].uid
         /\ proc'[p].caps = proc[p].caps /\ proc'[p].key = proc[p].key
<1>1. proc[p] \in ProcType /\ proc' = [proc EXCEPT ![p].pc = l]
  BY DEF ProcessTypeInv, Goto
<1>2. PICK r : r = [proc[p] EXCEPT !.pc = l]
  BY Zenon
<1>3. /\ r \in ProcType /\ r.pc = l /\ r.uid = proc[p].uid
      /\ r.caps = proc[p].caps /\ r.key = proc[p].key
  BY <1>1, <1>2 DEF ProcType
<1>4. proc' = [proc EXCEPT ![p] = r]
  BY <1>1, <1>2, Zenon
<1> QED
  BY <1>3, <1>4 DEF ProcessTypeInv

(* What a step of p must keep so that the invariant holds after it: of the
   other processes it may only take or free the port when none of them has
   it, and change the identity file or what is announced while it has it. *)
LEMMA StepKeeps ==
  ASSUME ProcessIInv, NEW p \in Procs, config' = config,
         proc' \in [Procs -> ProcType], \A q \in Procs \ {p} : proc'[q] = proc[q],
         port' \in Procs \cup {Nobody}, port' = port \/ port \in {p, Nobody},
         file' \in FileType, announced' \subseteq Keys \cup {NoKey},
         (file' = file /\ announced' = announced) \/ port = p,
         proc'[p].pc \in Holding => port' = p,
         proc'[p].pc # "verify" /\ proc'[p].uid # 0 => NoneGained(proc'[p].uid, proc'[p].caps),
         proc'[p].pc = "verify" => proc'[p].uid = RunAs,
         (config.mode = "data" /\ proc'[p].pc \in PastBoundary)
           => config.runAs = "root" \/ (proc'[p].uid # 0 /\ NoneGained(proc'[p].uid, proc'[p].caps)),
         \A k \in announced' : file'.state = "whole" /\ file'.key = k,
         proc'[p].pc = "create" => file'.state = "absent",
         proc'[p].pc = "write" => file'.state = "partial",
         proc'[p].pc = "announce"
           => file'.state = "whole" /\ file'.key = proc'[p].key,
         config.mode = "data" /\ proc'[p].pc \in {"tier", "metrics", "serve"}
           => proc'[p].key \in announced'
  PROVE  ProcessIInv'
<1>0. Nobody \notin Procs
  BY ProcessAssumption, Zenon
<1>1. ProcessTypeInv'
  BY Zenon DEF ProcessIInv, ProcessTypeInv
<1>2. PortHeld'
  <2>1. ASSUME NEW q \in Procs, q # p, proc'[q].pc \in Holding PROVE port' = q
    <3>1. port = q
      BY <2>1, Zenon DEF ProcessIInv, PortHeld
    <3> QED
      BY <1>0, <2>1, <3>1, Zenon
  <2> QED
    BY <2>1, Zenon DEF PortHeld
<1>3. Dropped'
  BY Zenon DEF ProcessIInv, Dropped, NoneGained
<1>4. RootOnlyOnRequest'
  BY Zenon DEF ProcessIInv, RootOnlyOnRequest, NoneGained
<1>5. FileFollows'
  <2>1. ASSUME NEW q \in Procs, q # p, proc[q].pc \in Holding
        PROVE  file' = file /\ announced' = announced
    <3>1. port = q
      BY <2>1, Zenon DEF ProcessIInv, PortHeld
    <3> QED
      BY <2>1, <3>1, Zenon
  <2>2. ASSUME NEW q \in Procs, q # p
        PROVE  /\ proc'[q].pc = "create" => file'.state = "absent"
               /\ proc'[q].pc = "write" => file'.state = "partial"
               /\ proc'[q].pc = "announce"
                    => file'.state = "whole" /\ file'.key = proc'[q].key
               /\ config.mode = "data" /\ proc'[q].pc \in {"tier", "metrics", "serve"}
                    => proc'[q].key \in announced'
    <3>1. proc'[q] = proc[q]
      BY <2>2, Zenon
    <3>2. CASE proc[q].pc \in Holding
      BY <2>1, <2>2, <3>1, <3>2, Zenon DEF ProcessIInv, FileFollows
    <3>3. CASE proc[q].pc \notin Holding
      BY <3>1, <3>3, Zenon DEF Holding
    <3> QED
      BY <3>2, <3>3, Zenon
  <2> QED
    BY <2>2, Zenon DEF FileFollows
<1> QED
  BY <1>1, <1>2, <1>3, <1>4, <1>5, Zenon DEF ProcessIInv

(* A process that ends takes the port with it and leaves the file alone. *)
LEMMA EndsKeeps ==
  ASSUME ProcessIInv, NEW p \in Procs, config' = config, Ends(p)
  PROVE  ProcessIInv'
<1>1. Down \in ProcType /\ Down.pc = "down" /\ Down.uid = 0
  BY Zenon DEF Down, ProcType, Labels, Holding, MetricsStates, Uids
<1>2. /\ proc' \in [Procs -> ProcType] /\ proc'[p] = Down
      /\ \A q \in Procs \ {p} : proc'[q] = proc[q]
  BY <1>1 DEF ProcessIInv, ProcessTypeInv, Ends
<1>3. /\ port' \in Procs \cup {Nobody} /\ (port' = port \/ port \in {p, Nobody})
      /\ file' = file /\ announced' = announced
  BY ZenonT(30) DEF ProcessIInv, ProcessTypeInv, Ends
<1>4. file' \in FileType /\ announced' \subseteq Keys \cup {NoKey}
      /\ \A k \in announced' : file'.state = "whole" /\ file'.key = k
  BY <1>3 DEF ProcessIInv, ProcessTypeInv, FileFollows
<1>5. proc'[p].pc = "down" /\ proc'[p].uid = 0
  BY <1>1, <1>2
<1>6. "down" \notin Holding /\ "down" \notin PastBoundary
  BY DEF Holding, PastBoundary
<1> QED
  BY <1>2, <1>3, <1>4, <1>5, <1>6, StepKeeps, Zenon

(* A step that moves on to a label of its own promise. *)
LEMMA GotoKeeps ==
  ASSUME ProcessIInv, NEW p \in Procs, NEW l \in Labels, Goto(p, l),
         UNCHANGED <<config, port, file, announced>>,
         l \in Holding => proc[p].pc \in Holding,
         proc[p].pc # "verify" \/ proc[p].caps = {}, l # "verify",
         (config.mode = "data" /\ l \in PastBoundary)
           => config.runAs = "root" \/ (proc[p].uid # 0 /\ NoneGained(proc[p].uid, proc[p].caps)),
         l \notin {"create", "write", "announce"},
         config.mode = "data" /\ l \in {"tier", "metrics", "serve"}
           => proc[p].key \in announced
  PROVE  ProcessIInv'
<1>1. /\ proc' \in [Procs -> ProcType]
      /\ \A q \in Procs \ {p} : proc'[q] = proc[q]
      /\ proc'[p].pc = l /\ proc'[p].uid = proc[p].uid
      /\ proc'[p].caps = proc[p].caps /\ proc'[p].key = proc[p].key
  BY GotoEffect, Zenon DEF ProcessIInv
<1>2. /\ port' \in Procs \cup {Nobody} /\ file' \in FileType
      /\ announced' \subseteq Keys \cup {NoKey}
      /\ \A k \in announced' : file'.state = "whole" /\ file'.key = k
  BY DEF ProcessIInv, ProcessTypeInv, FileFollows
<1>3. proc'[p].pc \in Holding => port' = p
  BY <1>1, Zenon DEF ProcessIInv, PortHeld
<1>4. proc[p].uid # 0 => NoneGained(proc[p].uid, proc[p].caps)
  BY Zenon DEF ProcessIInv, Dropped, NoneGained
<1> QED
  BY <1>1, <1>2, <1>3, <1>4, StepKeeps, ZenonT(30)

(* The steps of a start up to the privilege boundary. *)
LEMMA BoundaryKeeps ==
  ASSUME ProcessIInv, NEW p \in Procs, config' = config,
         \/ Start(p) \/ ListenPacket(p) \/ tunSetIff(p) \/ setMTU(p)
         \/ dropToRunAs(p) \/ Setgid(p) \/ Setuid(p) \/ VerifyDrop(p)
  PROVE  ProcessIInv'
<1>0. /\ proc[p] \in ProcType /\ config \in ConfigType /\ ProcessTypeInv
      /\ proc[p].uid # 0 /\ proc[p].pc # "verify" => NoneGained(proc[p].uid, proc[p].caps)
  BY Zenon DEF ProcessIInv, ProcessTypeInv, Dropped
<1>1. CASE Start(p)
  <2>1. PICK r : r = [Down EXCEPT !.pc = "listen", !.uid = config.uid,
                        !.caps = config.held]
    OBVIOUS
  <2>2. /\ r \in ProcType /\ r.pc = "listen"
        /\ r.uid # 0 => NoneGained(r.uid, r.caps)
    BY <1>0, <2>1, Zenon
       DEF Down, ProcType, Labels, MetricsStates, CapSets, ConfigType, NoneGained
  <2>3. /\ proc' = [proc EXCEPT ![p] = r]
        /\ UNCHANGED <<port, file, announced>>
    BY <1>1, <2>1 DEF Start
  <2>4. /\ proc' \in [Procs -> ProcType] /\ proc'[p] = r
        /\ \A q \in Procs \ {p} : proc'[q] = proc[q]
    BY <1>0, <2>2, <2>3, Zenon DEF ProcessTypeInv
  <2>5. /\ port' \in Procs \cup {Nobody} /\ file' \in FileType
        /\ announced' \subseteq Keys \cup {NoKey}
        /\ \A k \in announced' : file'.state = "whole" /\ file'.key = k
    BY <2>3, Zenon DEF ProcessIInv, ProcessTypeInv, FileFollows
  <2>6. "listen" \notin Holding /\ "listen" \notin PastBoundary
    BY DEF Holding, PastBoundary
  <2> QED
    BY <2>2, <2>3, <2>4, <2>5, <2>6, StepKeeps, Zenon
<1>2. CASE ListenPacket(p)
  <2>1. CASE Ends(p)
    BY <2>1, EndsKeeps
  <2>2. CASE /\ port = Nobody /\ port' = p /\ Goto(p, AfterListen)
             /\ UNCHANGED <<tun, mtu, file, announced>>
    <3>1. /\ AfterListen \in {"metrics", "tunsetiff", "run_as"}
          /\ AfterListen = "metrics" <=> config.mode = "probe"
      BY <1>0 DEF AfterListen, ConfigType
    <3>2. AfterListen \in Labels
      BY <3>1 DEF Labels, Holding
    <3>3. /\ proc' \in [Procs -> ProcType]
          /\ \A q \in Procs \ {p} : proc'[q] = proc[q]
          /\ proc'[p].pc = AfterListen /\ proc'[p].uid = proc[p].uid
          /\ proc'[p].caps = proc[p].caps
      BY <1>0, <2>2, <3>2, GotoEffect, Zenon
    <3>4. /\ file' \in FileType /\ announced' \subseteq Keys \cup {NoKey}
          /\ \A k \in announced' : file'.state = "whole" /\ file'.key = k
      BY <2>2, Zenon DEF ProcessIInv, ProcessTypeInv, FileFollows
    <3>5. proc[p].uid # 0 => NoneGained(proc[p].uid, proc[p].caps)
      BY <1>0, <1>2, Zenon DEF ListenPacket, At
    <3>6. config.mode = "data" => AfterListen \notin PastBoundary
      BY <3>1 DEF PastBoundary
    <3> QED
      BY <2>2, <3>1, <3>3, <3>4, <3>5, <3>6, StepKeeps, Zenon
  <2> QED
    BY <1>2, <2>1, <2>2 DEF ListenPacket
<1>3. CASE tunSetIff(p)
  <2>1. CASE Ends(p)
    BY <2>1, EndsKeeps
  <2>2. CASE Goto(p, "set_mtu") /\ UNCHANGED <<port, mtu, file, announced>>
    BY <1>3, <2>2, GotoKeeps, Zenon DEF tunSetIff, At, Labels, Holding, PastBoundary
  <2> QED
    BY <1>3, <2>1, <2>2, Zenon DEF tunSetIff
<1>4. CASE setMTU(p)
  <2>1. CASE Ends(p)
    BY <2>1, EndsKeeps
  <2>2. CASE Goto(p, "run_as") /\ UNCHANGED <<port, tun, file, announced>>
    BY <1>4, <2>2, GotoKeeps, Zenon DEF setMTU, At, Labels, Holding, PastBoundary
  <2> QED
    BY <1>4, <2>1, <2>2, Zenon DEF setMTU
<1>5. CASE dropToRunAs(p)
  <2>1. CASE Ends(p)
    BY <2>1, EndsKeeps
  <2>2. CASE /\ config.runAs = "root" \/ proc[p].uid # 0
             /\ Goto(p, "identity") /\ UNCHANGED <<port, tun, mtu, file, announced>>
    BY <1>0, <1>5, <2>2, GotoKeeps, Zenon DEF dropToRunAs, parseRunAs, At, Labels, Holding
  <2>3. CASE Goto(p, "setgid") /\ UNCHANGED <<port, tun, mtu, file, announced>>
    BY <1>5, <2>3, GotoKeeps, Zenon DEF dropToRunAs, parseRunAs, At, Labels, Holding, PastBoundary
  <2> QED
    BY <1>5, <2>1, <2>2, <2>3, Zenon DEF dropToRunAs, parseRunAs
<1>6. CASE Setgid(p)
  <2>1. CASE Ends(p)
    BY <2>1, EndsKeeps
  <2>2. CASE Goto(p, "setuid") /\ UNCHANGED <<port, tun, mtu, file, announced>>
    BY <1>6, <2>2, GotoKeeps, Zenon DEF Setgid, At, Labels, Holding, PastBoundary
  <2> QED
    BY <1>6, <2>1, <2>2 DEF Setgid
<1>7. CASE Setuid(p)
  <2>1. PICK r : r = [proc[p] EXCEPT !.uid = RunAs, !.caps = @ \cap config.keep,
                                     !.pc = "verify"]
    OBVIOUS
  <2>2. r \in ProcType /\ r.pc = "verify" /\ r.uid = RunAs
    <3>1. RunAs \in Uids /\ "verify" \in Labels
      BY DEF Uids, Labels, Holding
    <3> QED
      BY <1>0, <2>1, <3>1, Zenon DEF ProcType
  <2>3. proc' = [proc EXCEPT ![p] = r] /\ UNCHANGED <<port, file, announced>>
    BY <1>7, <2>1, Zenon DEF Setuid
  <2>4. /\ proc' \in [Procs -> ProcType] /\ proc'[p] = r
        /\ \A q \in Procs \ {p} : proc'[q] = proc[q]
    BY <1>0, <2>2, <2>3, Zenon DEF ProcessTypeInv
  <2>5. /\ port' \in Procs \cup {Nobody} /\ file' \in FileType
        /\ announced' \subseteq Keys \cup {NoKey}
        /\ \A k \in announced' : file'.state = "whole" /\ file'.key = k
    BY <2>3, Zenon DEF ProcessIInv, ProcessTypeInv, FileFollows
  <2>6. port' = p
    BY <1>7, <2>3 DEF Setuid, At, Holding, ProcessIInv, PortHeld
  <2>7. "verify" \notin PastBoundary
    BY DEF PastBoundary
  <2> QED
    BY <2>2, <2>3, <2>4, <2>5, <2>6, <2>7, StepKeeps, Zenon
<1>8. CASE VerifyDrop(p)
  <2>1. CASE Ends(p)
    BY <2>1, EndsKeeps
  <2>2. CASE /\ checkNoCapabilities(proc[p].caps)
             /\ Goto(p, "identity") /\ UNCHANGED <<port, tun, mtu, file, announced>>
    <3>1. proc[p].caps = {} /\ proc[p].uid # 0 /\ proc[p].pc = "verify"
      BY <1>8, <2>2, ProcessAssumption, Zenon
         DEF VerifyDrop, At, checkNoCapabilities, ProcessIInv, Dropped
    <3> QED
      BY <2>2, <3>1, GotoKeeps, Zenon DEF Labels, Holding, NoneGained
  <2> QED
    BY <1>8, <2>1, <2>2, Zenon DEF VerifyDrop
<1> QED
  BY <1>1, <1>2, <1>3, <1>4, <1>5, <1>6, <1>7, <1>8

(* The steps of LoadOrCreateIdentity, and the log line clients pin from.  The
   process holds the port in each, so no other one is at any of them. *)
LEMMA IdentityKeeps ==
  ASSUME ProcessIInv, NEW p \in Procs, config' = config,
         LoadOrCreateIdentity(p) \/ CreateFile(p) \/ WriteFile(p) \/ Announce(p)
  PROVE  ProcessIInv'
<1>0. /\ ProcessTypeInv /\ proc[p] \in ProcType /\ file \in FileType
      /\ announced \subseteq Keys \cup {NoKey} /\ proc \in [Procs -> ProcType]
      /\ \A k \in announced : file.state = "whole" /\ file.key = k
  BY Zenon DEF ProcessIInv, ProcessTypeInv, FileFollows
<1>1. /\ proc[p].pc \in {"identity", "create", "write", "announce"} /\ port = p
      /\ port \in Procs \cup {Nobody}
  <2>1. proc[p].pc \in {"identity", "create", "write", "announce"}
    BY Zenon DEF LoadOrCreateIdentity, CreateFile, WriteFile, Announce, At
  <2> QED
    BY <2>1 DEF Holding, ProcessIInv, PortHeld
<1>2. /\ proc[p].uid # 0 => NoneGained(proc[p].uid, proc[p].caps)
      /\ config.mode = "data"
           => config.runAs = "root" \/ (proc[p].uid # 0 /\ NoneGained(proc[p].uid, proc[p].caps))
  BY <1>1, Zenon DEF ProcessIInv, Dropped, RootOnlyOnRequest, PastBoundary
<1>3. ASSUME NEW k \in Keys \cup {NoKey}, NEW l \in {"announce", "create"},
             proc' = [proc EXCEPT ![p].key = k, ![p].pc = l],
             UNCHANGED <<port, tun, mtu, file, announced>>,
             l = "announce" => file.state = "whole" /\ file.key = k,
             l = "create" => file.state = "absent"
      PROVE  ProcessIInv'
  <2>1. PICK r : r = [proc[p] EXCEPT !.key = k, !.pc = l]
    OBVIOUS
  <2>2. /\ r \in ProcType /\ r.pc = l /\ r.key = k
        /\ r.uid = proc[p].uid /\ r.caps = proc[p].caps
    BY <1>0, <2>1, Zenon DEF ProcType, Labels, Holding
  <2>3. proc' = [proc EXCEPT ![p] = r]
    BY <1>3, <2>1, Zenon
  <2>4. /\ proc' \in [Procs -> ProcType] /\ proc'[p] = r
        /\ \A q \in Procs \ {p} : proc'[q] = proc[q]
    BY <1>0, <2>2, <2>3
  <2> QED
    BY <1>0, <1>1, <1>2, <1>3, <2>2, <2>4, StepKeeps
<1>4. CASE LoadOrCreateIdentity(p)
  <2>1. CASE Ends(p)
    BY <2>1, EndsKeeps
  <2>2. CASE /\ file.state = "whole"
             /\ proc' = [proc EXCEPT ![p].key = file.key, ![p].pc = "announce"]
             /\ UNCHANGED <<port, tun, mtu, file, announced>>
    <3>1. file.key \in Keys \cup {NoKey}
      BY <1>0 DEF FileType
    <3> QED
      BY <1>3, <2>2, <3>1, Zenon
  <2>3. CASE /\ file.state = "absent"
             /\ \E k \in UnusedKeys :
                  proc' = [proc EXCEPT ![p].key = k, ![p].pc = "create"]
             /\ UNCHANGED <<port, tun, mtu, file, announced>>
    <3>1. UnusedKeys \subseteq Keys
      BY DEF UnusedKeys
    <3> QED
      BY <1>3, <2>3, <3>1, Zenon
  <2> QED
    BY <1>4, <2>1, <2>2, <2>3, Zenon DEF LoadOrCreateIdentity
\* the other three move on to l, and may change the file or what is announced
<1>5. ASSUME NEW l \in {"write", "announce", "tier"}, Goto(p, l), port' = port,
             file' \in FileType, announced' \subseteq Keys \cup {NoKey},
             \A k \in announced' : file'.state = "whole" /\ file'.key = k,
             l = "write" => file'.state = "partial",
             l = "announce" => file'.state = "whole" /\ file'.key = proc[p].key,
             l = "tier" => proc[p].key \in announced'
      PROVE  ProcessIInv'
  <2>1. l \in Labels
    BY DEF Labels, Holding
  <2>2. /\ proc' \in [Procs -> ProcType]
        /\ \A q \in Procs \ {p} : proc'[q] = proc[q]
        /\ proc'[p].pc = l /\ proc'[p].uid = proc[p].uid
        /\ proc'[p].caps = proc[p].caps /\ proc'[p].key = proc[p].key
    BY <1>0, <1>5, <2>1, GotoEffect, Zenon
  <2> QED
    BY <1>1, <1>2, <1>5, <2>2, StepKeeps, Zenon
<1>6. CASE CreateFile(p)
  <2>1. CASE Ends(p)
    BY <2>1, EndsKeeps
  <2>2. CASE ~Ends(p)
    <3>1. file.state = "absent"
      BY <1>6, Zenon DEF CreateFile, At, ProcessIInv, FileFollows
    <3>2. /\ file' = [state |-> "partial", key |-> NoKey, owner |-> proc[p].uid]
          /\ Goto(p, "write") /\ UNCHANGED <<port, announced>>
      BY <1>6, <2>2, <3>1, Zenon DEF CreateFile
    <3>3. announced = {}
      BY <1>0, <3>1
    <3>4. file' \in FileType /\ file'.state = "partial"
      BY <1>0, <3>2 DEF FileType, ProcType
    <3> QED
      BY <1>0, <1>5, <3>2, <3>3, <3>4, Zenon
  <2> QED
    BY <2>1, <2>2
<1>7. CASE WriteFile(p)
  <2>1. /\ file' = [file EXCEPT !.state = "whole", !.key = proc[p].key]
        /\ Goto(p, "announce") /\ UNCHANGED <<port, announced>>
        /\ file.state = "partial"
    BY <1>7 DEF WriteFile, At, ProcessIInv, FileFollows
  <2>2. announced = {}
    BY <1>0, <2>1
  <2>3. file' \in FileType /\ file'.state = "whole" /\ file'.key = proc[p].key
    BY <1>0, <2>1, Zenon DEF FileType, ProcType
  <2> QED
    BY <1>0, <1>5, <2>1, <2>2, <2>3
<1>8. CASE Announce(p)
  <2>1. /\ announced' = announced \cup {proc[p].key} /\ Goto(p, "tier")
        /\ UNCHANGED <<port, file>>
        /\ file.state = "whole" /\ file.key = proc[p].key
    BY <1>8, Zenon DEF Announce, At, ProcessIInv, FileFollows
  <2>2. proc[p].key \in Keys \cup {NoKey}
    BY <1>0 DEF ProcType
  <2> QED
    BY <1>0, <1>5, <2>1, <2>2, Zenon
<1> QED
  BY <1>4, <1>6, <1>7, <1>8

(* From the tier to the exit, with the metrics server beside it. *)
LEMMA ServingKeeps ==
  ASSUME ProcessIInv, NEW p \in Procs, config' = config,
         \/ Tier(p) \/ StartMetrics(p) \/ MetricsListen(p) \/ MetricsShutdown(p)
         \/ Signal(p) \/ Return(p)
  PROVE  ProcessIInv'
<1>0. /\ ProcessTypeInv /\ proc[p] \in ProcType /\ file \in FileType
      /\ announced \subseteq Keys \cup {NoKey} /\ proc \in [Procs -> ProcType]
      /\ port \in Procs \cup {Nobody}
      /\ \A k \in announced : file.state = "whole" /\ file.key = k
  BY Zenon DEF ProcessIInv, ProcessTypeInv, FileFollows
<1>1. CASE Tier(p)
  <2>1. CASE Ends(p)
    BY <2>1, EndsKeeps
  <2>2. CASE Goto(p, "metrics") /\ UNCHANGED <<port, tun, mtu, file, announced>>
    <3>1. proc[p].pc = "tier"
      BY <1>1, Zenon DEF Tier, At
    <3>2. /\ config.mode = "data" => proc[p].key \in announced
          /\ config.mode = "data"
               => config.runAs = "root" \/ (proc[p].uid # 0 /\ NoneGained(proc[p].uid, proc[p].caps))
      BY <3>1, Zenon DEF ProcessIInv, FileFollows, RootOnlyOnRequest, PastBoundary
    <3> QED
      BY <2>2, <3>1, <3>2, GotoKeeps, Zenon DEF Labels, Holding
  <2> QED
    BY <1>1, <2>1, <2>2 DEF Tier
\* a step that changes the metrics field, and goes on to serve from metrics
<1>2. ASSUME NEW m \in MetricsStates, NEW l \in Labels,
             proc' = [proc EXCEPT ![p].pc = l, ![p].metrics = m],
             l = proc[p].pc \/ (proc[p].pc = "metrics" /\ l = "serve"),
             UNCHANGED <<port, file, announced>>
      PROVE  ProcessIInv'
  <2>1. PICK r : r = [proc[p] EXCEPT !.pc = l, !.metrics = m]
    OBVIOUS
  <2>2. /\ r \in ProcType /\ r.pc = l /\ r.key = proc[p].key
        /\ r.uid = proc[p].uid /\ r.caps = proc[p].caps
    BY <1>0, <2>1, Zenon DEF ProcType
  <2>3. proc' = [proc EXCEPT ![p] = r]
    BY <1>2, <2>1, Zenon
  <2>4. /\ proc' \in [Procs -> ProcType] /\ proc'[p] = r
        /\ \A q \in Procs \ {p} : proc'[q] = proc[q]
    BY <1>0, <2>2, <2>3
  <2>5. l \in Holding => port = p
    BY <1>2 DEF ProcessIInv, PortHeld, Holding
  <2>6. /\ l # "verify" /\ proc[p].uid # 0 => NoneGained(proc[p].uid, proc[p].caps)
        /\ l = "verify" => proc[p].uid = RunAs
    BY <1>2 DEF ProcessIInv, Dropped
  <2>7. config.mode = "data" /\ l \in PastBoundary
          => config.runAs = "root" \/ (proc[p].uid # 0 /\ NoneGained(proc[p].uid, proc[p].caps))
    BY <1>2 DEF ProcessIInv, RootOnlyOnRequest, PastBoundary
  <2>8. /\ l = "create" => file.state = "absent"
        /\ l = "write" => file.state = "partial"
        /\ l = "announce" => file.state = "whole" /\ file.key = proc[p].key
        /\ config.mode = "data" /\ l \in {"tier", "metrics", "serve"}
             => proc[p].key \in announced
    BY <1>2 DEF ProcessIInv, FileFollows
  <2> QED
    BY <1>0, <1>2, <2>2, <2>4, <2>5, <2>6, <2>7, <2>8, StepKeeps
<1>3. CASE StartMetrics(p)
  <2>1. PICK m \in MetricsStates : m = IF config.metrics THEN "starting" ELSE "off"
    BY DEF MetricsStates
  <2>2. /\ proc[p].pc = "metrics" /\ "serve" \in Labels
        /\ proc' = [proc EXCEPT ![p].pc = "serve", ![p].metrics = m]
        /\ UNCHANGED <<port, file, announced>>
    BY <1>3, <2>1 DEF StartMetrics, At, Labels, Holding
  <2> QED
    BY <1>2, <2>2, Zenon
<1>4. ASSUME NEW m \in MetricsStates, proc' = [proc EXCEPT ![p].metrics = m],
             UNCHANGED <<port, file, announced>>
      PROVE  ProcessIInv'
  <2>1. PICK l \in Labels : l = proc[p].pc
    BY <1>0 DEF ProcType
  <2>2. [proc[p] EXCEPT !.metrics = m] = [proc[p] EXCEPT !.pc = l, !.metrics = m]
    BY <1>0, <2>1, Zenon DEF ProcType
  <2>3. proc' = [proc EXCEPT ![p].pc = l, ![p].metrics = m]
    BY <1>4, <2>2, Zenon
  <2> QED
    BY <1>2, <1>4, <2>1, <2>3, Zenon
<1>5. CASE MetricsListen(p)
  <2>1. PICK m \in MetricsStates :
          m = IF At(p, "stopping") THEN "closed"
              ELSE IF \E q \in Procs : proc[q].metrics = "listening" THEN "failed"
              ELSE "listening"
    BY DEF MetricsStates
  <2> QED
    BY <1>4, <1>5, <2>1, Zenon DEF MetricsListen
<1>6. CASE MetricsShutdown(p)
  <2>1. "closed" \in MetricsStates
    BY DEF MetricsStates
  <2> QED
    BY <1>4, <1>6, <2>1, Zenon DEF MetricsShutdown
<1>7. CASE Signal(p)
  <2>1. /\ proc[p].pc = "serve" /\ port' = Nobody /\ Goto(p, "stopping")
        /\ UNCHANGED <<file, announced>>
    BY <1>7, Zenon DEF Signal, At
  <2>2. port = p
    BY <2>1, Zenon DEF ProcessIInv, PortHeld, Holding
  <2>3. "stopping" \in Labels /\ "stopping" \notin Holding
    BY DEF Labels, Holding
  <2>4. /\ proc' \in [Procs -> ProcType]
        /\ \A q \in Procs \ {p} : proc'[q] = proc[q]
        /\ proc'[p].pc = "stopping" /\ proc'[p].uid = proc[p].uid
        /\ proc'[p].caps = proc[p].caps
    BY <1>0, <2>1, <2>3, GotoEffect
  <2>5. /\ proc[p].uid # 0 => NoneGained(proc[p].uid, proc[p].caps)
        /\ config.mode = "data"
             => config.runAs = "root" \/ (proc[p].uid # 0 /\ NoneGained(proc[p].uid, proc[p].caps))
    BY <2>1, Zenon DEF ProcessIInv, Dropped, RootOnlyOnRequest, PastBoundary
  <2> QED
    BY <1>0, <2>1, <2>2, <2>3, <2>4, <2>5, StepKeeps, Zenon
<1>8. CASE Return(p)
  BY <1>8, EndsKeeps DEF Return
<1> QED
  BY <1>1, <1>3, <1>5, <1>6, <1>7, <1>8

(* Every step preserves the invariant. *)
LEMMA NextProcessIInv == ProcessIInv /\ [ProcessNext]_processVars => ProcessIInv'
<1> SUFFICES ASSUME ProcessIInv, [ProcessNext]_processVars PROVE ProcessIInv'
  OBVIOUS
<1>1. CASE UNCHANGED processVars
  BY <1>1, Zenon
     DEF processVars, ProcessIInv, ProcessTypeInv, PortHeld, Dropped, RootOnlyOnRequest,
         NoneGained, FileFollows
<1>2. ASSUME NEW p \in Procs, Step(p) PROVE ProcessIInv'
  <2>1. config' = config
    BY <1>2, Zenon DEF Step
  <2> QED
    BY <1>2, <2>1, BoundaryKeeps, IdentityKeeps, ServingKeeps, Zenon DEF Step
<1>3. ASSUME NEW p \in Procs, Metrics(p) PROVE ProcessIInv'
  BY <1>3, ServingKeeps, Zenon DEF Metrics
<1>4. ASSUME NEW p \in Procs, Signal(p) PROVE ProcessIInv'
  BY <1>4, ServingKeeps DEF Signal
<1>5. ASSUME NEW p \in Procs, Fault(p) PROVE ProcessIInv'
  BY <1>5, EndsKeeps DEF Fault
<1> QED
  BY <1>1, <1>2, <1>3, <1>4, <1>5 DEF ProcessNext

-----------------------------------------------------------------------------
(* The inductive invariant holds in every reachable state. *)
THEOREM ProcessInvariance == ProcessSpec => []ProcessIInv
  BY InitProcessIInv, NextProcessIInv, PTL DEF ProcessSpec

(* cmd/gateway: whatever fails or is killed, no process reaches the identity
   file, the metrics server or the packet path with root or a capability,
   unless the operator asked for root, or started it without root but with
   capabilities, which it keeps. *)
THEOREM RootOnlyWhenAsked == ProcessSpec => []RootOnlyOnRequest
  BY ProcessInvariance, ProcessIInvImplies, PTL

(* identity.go: an announced key stays the key in the file and of every
   serving gateway, for any number of overlapping starts, kills and
   restarts; the UDP port is the lock the file itself does not have. *)
THEOREM IdentityNeverChanges == ProcessSpec => []IdentityPinned
  BY ProcessInvariance, ProcessIInvImplies, PTL
=============================================================================
