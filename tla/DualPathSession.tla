-------------------------- MODULE DualPathSession --------------------------
(***************************************************************************)
(* pkg/clientcore end to end: a client and a gateway make a session by the *)
(* two-message handshake (handshake_message.go) and exchange packets, each *)
(* copied over every path (session.go, data.go, crypto.go).  A copy may be *)
(* repeated, overtaken or, on a path that is not healthy, lost or          *)
(* corrupted; the client may give a handshake up and begin another; the    *)
(* gateway may restart, which loses its session table.                     *)
(*   A handshake attempt is its session id and the client's ephemeral key  *)
(* (both fresh in BeginClientHandshake); with the gateway's ephemeral key  *)
(* it makes the session key, so <<id, eph>> is a key.  A datagram opens    *)
(* under the key, direction and number it was sealed with only: that is    *)
(* the cipher's part.  The replay window is the abstract one that          *)
(* ReplayWindow implements.  Definitions named X_Y are mistaken variants.  *)
(***************************************************************************)
EXTENDS Integers, FiniteSets

CONSTANTS
  PathNames,    \* the paths between client and gateway
  Healthy,      \* the paths that neither lose nor corrupt a copy
  Width,        \* the width of a replay window
  MaxAttempts,  \* bound: handshakes the client begins
  MaxEphs,      \* bound: ephemeral keys the gateway makes
  MaxPackets,   \* bound: packets the client seals under a key
  MaxReplies,   \* bound: packets the gateway seals under a key, no more
  MaxRestarts   \* bound: restarts of the gateway

ASSUME HealthyAssumption == Healthy \subseteq PathNames /\ Width \in Nat \ {0}
ASSUME BoundAssumption ==
  /\ {MaxAttempts, MaxEphs, MaxPackets, MaxReplies, MaxRestarts} \subseteq Nat
  /\ MaxReplies <= MaxPackets

VARIABLES
  client,    \* [id, phase, session]; phase "down", "begun" or "up"
  table,     \* the gateway's sessions: id -> session
  ephs,      \* ephemeral keys the gateway has made
  restarts,
  net,       \* copies in transit: [path, msg]
  sealed,    \* history: <<key, direction byte, number>> -> packets sealed
  delivered, \* history: <<key, receiving side, number>> -> first copies
  arrived    \* history: <<key, receiving side, number>> that opened there

history == <<sealed, delivered, arrived>>
vars == <<client, table, ephs, restarts, net, history>>

Sides == {"initiator", "responder"}
Ids == 1..MaxAttempts
Ephs == 1..MaxEphs
Numbers == 1..MaxPackets
Packets == (Ids \X Ephs) \X Sides \X Numbers
Other(side) == IF side = "initiator" THEN "responder" ELSE "initiator"

\* sendDir and peerDir.
sendDir_Same(side) == "initiator"
sendDir(side) == side
peerDir(side) == Other(side)

\* NewSession: nothing sent, nothing seen.
NoSession == [eph |-> 0, next |-> 0, top |-> 0, seen |-> {}]
NewSession(eph) == [NoSession EXCEPT !.eph = eph]

Init ==
  /\ client = [id |-> 0, phase |-> "down", session |-> NoSession]
  /\ table = [i \in Ids |-> NoSession]
  /\ ephs = 0 /\ restarts = 0 /\ net = {}
  /\ sealed = [p \in Packets |-> 0]
  /\ delivered = [p \in Packets |-> 0]
  /\ arrived = {}

Hello(id) == [kind |-> "hello", id |-> id]
ServerHello(id, eph) == [kind |-> "answer", id |-> id, eph |-> eph]
Data(dir, id, eph, n) ==
  [kind |-> "data", dir |-> dir, id |-> id, eph |-> eph, number |-> n]
ClassifyDatagram(m) == m.kind
OnAllPaths(msg) == {[path |-> p, msg |-> msg] : p \in PathNames}

\* What may arrive of a copy: itself or, on a path that is not healthy, one
\* that verifies under no identity and opens under no key.  (A lost copy is one that never arrives.)
Arrives(c) == {c.msg} \cup
  (IF c.path \in Healthy THEN {} ELSE {[c.msg EXCEPT !.eph = 0]})

\* The key two ends derive, the nonce of a packet under it, and what opens
\* and verifies: exactly what was sealed or signed.
DeriveSessionKey(id, eph) == <<id, eph>>
nonce(key, dir, n) == <<key, dir, n>>
open(s, m) == m.eph = s.eph
VerifyHandshake(m) == m.eph # 0

-----------------------------------------------------------------------------
\* BeginClientHandshake: a fresh id and ephemeral key, one hello.
BeginClientHandshake(path) ==
  /\ client.phase = "down" /\ client.id < MaxAttempts
  /\ client' = [id |-> client.id + 1, phase |-> "begun", session |-> NoSession]
  /\ net' = net \cup {[path |-> path, msg |-> Hello(client.id + 1)]}
  /\ UNCHANGED <<table, ephs, restarts, history>>

\* The client stops waiting, or the tunnel is stopped: a new start begins a
\* new handshake.
Abandon ==
  /\ client.phase \in {"begun", "up"}
  /\ client' = [client EXCEPT !.phase = "down", !.session = NoSession]
  /\ UNCHANGED <<table, ephs, restarts, net, history>>

Handshake_Rebinds(c) ==
  /\ c \in net /\ ClassifyDatagram(c.msg) = "hello" /\ ephs < MaxEphs
  /\ ephs' = ephs + 1
  /\ table' = [table EXCEPT ![c.msg.id] = NewSession(ephs')]
  /\ net' = net \cup {[path |-> c.path, msg |-> ServerHello(c.msg.id, ephs')]}
  /\ UNCHANGED <<client, restarts, history>>

\* Handshake: a hello for a free id is admitted and answered with a fresh
\* ephemeral key; any other (ErrSessionReused) changes nothing.
Handshake(c) ==
  /\ c \in net /\ ClassifyDatagram(c.msg) = "hello" /\ ephs < MaxEphs
  /\ table[c.msg.id].eph = 0
  /\ ephs' = ephs + 1
  /\ table' = [table EXCEPT ![c.msg.id] = NewSession(ephs')]
  /\ net' = net \cup {[path |-> c.path, msg |-> ServerHello(c.msg.id, ephs')]}
  /\ UNCHANGED <<client, restarts, history>>

\* Complete: only the answer to the handshake in flight; an answer for
\* another id, or one that does not verify, fails it.
Complete(c) ==
  /\ c \in net /\ ClassifyDatagram(c.msg) = "answer" /\ client.phase = "begun"
  /\ \E m \in Arrives(c) :
       client' = IF m.id = client.id /\ VerifyHandshake(m)
                 THEN [client EXCEPT !.phase = "up", !.session = NewSession(m.eph)]
                 ELSE [client EXCEPT !.phase = "down"]
  /\ UNCHANGED <<table, ephs, restarts, net, history>>

-----------------------------------------------------------------------------
\* Outbound: the next number, sealed and sent over every path.
ClientOutbound ==
  LET s == client.session
      dir == sendDir("initiator")
      n == s.next + 1
  IN
  /\ client.phase = "up" /\ s.next < MaxPackets
  /\ client' = [client EXCEPT !.session.next = n]
  /\ net' = net \cup OnAllPaths(Data(dir, client.id, s.eph, n))
  /\ sealed' = [sealed EXCEPT ![nonce(DeriveSessionKey(client.id, s.eph), dir, n)] = @ + 1]
  /\ UNCHANGED <<table, ephs, restarts, delivered, arrived>>

GatewayOutbound(id) ==
  LET s == table[id]
      dir == sendDir("responder")
      n == s.next + 1
  IN
  /\ s.eph # 0 /\ s.next < MaxReplies
  /\ table' = [table EXCEPT ![id].next = n]
  /\ net' = net \cup OnAllPaths(Data(dir, id, s.eph, n))
  /\ sealed' = [sealed EXCEPT ![nonce(DeriveSessionKey(id, s.eph), dir, n)] = @ + 1]
  /\ UNCHANGED <<client, ephs, restarts, delivered, arrived>>

\* ReplayWindow.Observe, abstractly: whether n is a first copy, and the
\* window after it.
Observe(s, n) ==
  IF n + Width <= s.top \/ n \in s.seen
  THEN [first |-> FALSE, session |-> s]
  ELSE [first |-> TRUE,
        session |-> [s EXCEPT !.top = IF n > @ THEN n ELSE @,
                              !.seen = @ \cup {n}]]

\* InboundClassified: parse, check the direction, open, and only then the
\* window.
Inbound_WindowFirst(s, side, m) ==
  IF m.dir # peerDir(side) THEN [first |-> FALSE, opens |-> FALSE, session |-> s]
  ELSE LET o == Observe(s, m.number) IN
       [first |-> o.first /\ open(s, m), opens |-> open(s, m),
        session |-> o.session]
Inbound(s, side, m) ==
  IF m.dir # peerDir(side) \/ ~open(s, m)
  THEN [first |-> FALSE, opens |-> FALSE, session |-> s]
  ELSE LET o == Observe(s, m.number) IN
       [first |-> o.first, opens |-> TRUE, session |-> o.session]

\* What an endpoint makes of a copy; the copy may yet arrive again.
Recorded(id, side, m, r) ==
  LET p == <<DeriveSessionKey(id, m.eph), side, m.number>> IN
  /\ delivered' = IF r.first THEN [delivered EXCEPT ![p] = @ + 1] ELSE delivered
  /\ arrived' = IF r.opens THEN arrived \cup {p} ELSE arrived

GatewayReceives(m) ==
  /\ table[m.id].eph # 0
  /\ LET r == Inbound(table[m.id], "responder", m) IN
     /\ table' = [table EXCEPT ![m.id] = r.session]
     /\ Recorded(m.id, "responder", m, r)
  /\ UNCHANGED <<client, ephs, restarts, net, sealed>>
GatewayInbound(c) ==
  c \in net /\ ClassifyDatagram(c.msg) = "data" /\ \E m \in Arrives(c) : GatewayReceives(m)

\* The header's session id is authenticated with the rest: a copy of
\* another session does not open here.
ClientInbound(c) ==
  /\ c \in net /\ ClassifyDatagram(c.msg) = "data" /\ client.phase = "up"
  /\ c.msg.id = client.id
  /\ \E m \in Arrives(c) :
       LET r == Inbound(client.session, "initiator", m) IN
       /\ client' = [client EXCEPT !.session = r.session]
       /\ Recorded(client.id, "initiator", m, r)
  /\ UNCHANGED <<table, ephs, restarts, net, sealed>>

-----------------------------------------------------------------------------
Restart_KeepsKeys ==
  /\ restarts < MaxRestarts
  /\ restarts' = restarts + 1
  /\ table' = [i \in Ids |-> NewSession(table[i].eph)]
  /\ UNCHANGED <<client, ephs, net, history>>

\* The gateway restarts: its session table is in memory only, its identity
\* is on disk.
Restart ==
  /\ restarts < MaxRestarts
  /\ restarts' = restarts + 1
  /\ table' = [i \in Ids |-> NoSession]
  /\ UNCHANGED <<client, ephs, net, history>>

Next ==
  \/ \E p \in PathNames : BeginClientHandshake(p)
  \/ Abandon \/ ClientOutbound \/ Restart
  \/ \E id \in Ids : GatewayOutbound(id)
  \/ \E c \in net : Handshake(c) \/ Complete(c) \/ GatewayInbound(c)
                    \/ ClientInbound(c)

\* A healthy path brings what it carries to the gateway.  A copy that changes
\* nothing more is no step, so one fair choice serves every copy.
Fairness ==
  WF_vars(\E c \in net : c.path \in Healthy /\ GatewayInbound(c))

Spec == Init /\ [][Next]_vars /\ Fairness

-----------------------------------------------------------------------------
(* No nonce is used twice under a key: the two ends share it and both count
   from one (crypto.go:21). *)
NonceUnique == \A p \in Packets : sealed[p] <= 1

(* While the gateway has not restarted, a client that is up and the gateway
   hold the same key for its session: repeated and late hellos and answers
   of this and earlier attempts never part them. *)
KeyAgreement ==
  (client.phase = "up" /\ restarts = 0) =>
    table[client.id].eph = client.session.eph

\* The session that would hand the packet on.
Receiver(p) == IF p[2] = "responder" THEN table[p[1][1]] ELSE client.session
Gone(p) == \/ Receiver(p).eph # p[1][2]
           \/ p[2] = "initiator" /\ client.id # p[1][1]
Skewed(p) == p[3] + Width <= Receiver(p).top

(* A packet is handed on at most once at either end, over every copy on
   every path and across a restart of the gateway, whose windows are lost
   ("no old datagram decrypts into a new session",
   docs/security/stage-2-session-security.md:47); and once an authentic copy
   of it arrived it was handed on, unless packets a whole window newer
   overtook it: corrupted copies, copies of other sessions and duplicates
   never use up its place. *)
EndToEndOnce ==
  /\ \A p \in Packets : delivered[p] <= 1
  /\ \A p \in arrived : delivered[p] = 1 \/ Skewed(p) \/ Gone(p)

(* One healthy path is enough: every packet the client seals is handed on at
   the gateway, whatever the other path does to its copies, unless the
   gateway lost the session or the paths are a window apart.  (Each of these
   is for good, so all packets so far being settled again and again is each
   of them being settled in the end.) *)
HealthyPathDelivers ==
  []<>(\A id \in Ids, e \in Ephs, n \in Numbers :
         LET p == <<<<id, e>>, "responder", n>> IN
         sealed[<<<<id, e>>, sendDir("initiator"), n>>] > 0
           => (delivered[p] = 1 \/ Skewed(p) \/ Gone(p)))
=============================================================================
