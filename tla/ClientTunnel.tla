---------------------------- MODULE ClientTunnel ----------------------------
(***************************************************************************)
(* The macOS packet-tunnel extension and the bridge it calls.              *)
(*                                                                         *)
(*   bridge/geminacore: the process-wide registries of in-flight           *)
(*   handshakes (hs) and of sessions, keyed by handles that are never      *)
(*   reused.  A session is abstracted to the numbers it has framed and     *)
(*   accepted; its window is module ReplayWindow.                          *)
(*                                                                         *)
(*   GeminaTunnelBootstrap / GeminaTunnelProvider / WiFiPathSender /       *)
(*   CoreTransport: startTunnel step by step (prov.pc), the asynchronous   *)
(*   settings callback, stopTunnel in its two steps, the receive loop of   *)
(*   the Wi-Fi path (inb) and the loop reading packetFlow (out).  Each     *)
(*   callback takes a reference to the relay under stateLock and uses it   *)
(*   after the lock is gone.                                               *)
(*                                                                         *)
(* External, modelled from their use: NetworkExtension runs startTunnel    *)
(* and stopTunnel of an instance one after the other, and runs every       *)
(* callback once; an NWConnection completes each receive and send, with an *)
(* error once it is cancelled; reference counting runs deinit when the     *)
(* last reference goes.  Definitions named X_Y are mistaken variants of X. *)
(***************************************************************************)
EXTENDS PathPolicy, Functions

CONSTANTS
  MaxStarts,  \* bound: provider instances of the process
  MaxIn,      \* bound: packet numbers the gateway sends in a session
  MaxOut,     \* bound: packets read from the tunnel in a session
  Batch,      \* bound: packets of one readPackets callback
  Payloads    \* sizes of the packets in frames

\* What Outbound accepts; a frame adds a header of 30 bytes and a tag of 16.
maxPayload == 1600
frameAdds == 46

ASSUME TunnelAssumption ==
  /\ {MaxStarts, MaxIn, MaxOut, Batch} \subseteq Nat \ {0}
  /\ Payloads \subseteq 0..maxPayload

VARIABLES
  hs,        \* hsRegistry: [next, pending]
  next,      \* registry.next: the last session handle given out
  sessions,  \* registry.sessions: handle -> what the session has done
  prov,      \* the provider instance: pc, its handles and its sender
  inb,       \* the receive loop: [pc, ref, n]
  out        \* the outbound loop: [pc, ref, states, left]

vars == <<hs, next, sessions, prov, inb, out>>
Nil == 0
Wifi == "wifi"

\* framed and seen are the session's own state; tried and written record the
\* numbers handed to the path and to packetFlow.
NewSession == [framed |-> 0, tried |-> {}, seen |-> {}, written |-> {}]

\* failed: the connection reported an error or its end to the receive loop;
\* finished: how often startTunnel's completion handler was called.
NewProvider(k) ==
  [pc |-> "new", start |-> k, hs |-> Nil, core |-> Nil, relay |-> Nil,
   states |-> <<>>, settings |-> FALSE, sender |-> FALSE, closed |-> FALSE,
   loopActive |-> FALSE, oneShot |-> "idle", failed |-> FALSE,
   finished |-> 0]
InbOff == [pc |-> "off", ref |-> Nil, n |-> 0]
OutOff == [pc |-> "off", ref |-> Nil, states |-> <<>>, left |-> 0]

Init ==
  /\ hs = [next |-> 0, pending |-> {}]
  /\ next = 0 /\ sessions = [h \in {} |-> NewSession]
  /\ prov = NewProvider(1)
  /\ inb = InbOff /\ out = OutOff

\* deinit: the sessions some reference still names; the rest are freed.
Referenced(p, i, o) ==
  LET connecting == IF p.pc \in {"loop", "store"} THEN p.core ELSE Nil
  IN {p.relay, connecting, i.ref, o.ref}
Release(p, i, o) == sessions' = Restrict(sessions, DOMAIN sessions \cap Referenced(p, i, o))

-----------------------------------------------------------------------------
(* startTunnel, makeRelay and CoreTransport.connect.                       *)

\* hsRegistry.add and take; the handle added is the new next.
HsAdd == [next |-> hs.next + 1, pending |-> hs.pending \cup {hs.next + 1}]
HsTake(h) == [hs EXCEPT !.pending = @ \ {h}]

\* registry.add; the handle added is next + 1.
Add(s) ==
  /\ next' = next + 1
  /\ sessions' = [h \in DOMAIN sessions \cup {next + 1} |->
                    IF h = next + 1 THEN s ELSE sessions[h]]

\* An early exit of startTunnel: finish(error).
Refused(p) == [p EXCEPT !.pc = "failed", !.finished = @ + 1]
Refuse == prov' = Refused(prov)
Goto(pc) == prov' = [prov EXCEPT !.pc = pc]

StartTunnel ==
  /\ prov.pc = "new"
  /\ Goto("make") \/ Refuse           \* no gateway address
  /\ UNCHANGED <<hs, next, sessions, inb, out>>

MakeRelay ==
  /\ prov.pc = "make"
  /\ Goto("open") \/ Refuse           \* port, token or key missing
  /\ UNCHANGED <<hs, next, sessions, inb, out>>

\* primaryWiFiInterfaceName gives up after two seconds; the connection is then
\* made on no interface in particular.
primaryWiFiInterfaceName == {"named", "none"}
resolveInterface == {"found", "missing"}
awaitReady == {"ready", "failed", "cancelled", "timeout"}

OpenSender ==
  /\ prov.pc = "open"
  /\ \E name \in primaryWiFiInterfaceName, i \in resolveInterface, r \in awaitReady :
       IF (name = "named" => i = "found") /\ r = "ready"
       THEN prov' = [prov EXCEPT !.pc = "begin", !.sender = TRUE]
       ELSE Refuse
  /\ UNCHANGED <<hs, next, sessions, inb, out>>

BeginHandshake ==
  /\ prov.pc = "begin"
  /\ \/ Refuse /\ UNCHANGED hs          \* the core or the buffer: no handle
     \/ /\ hs' = HsAdd
        /\ prov' = [prov EXCEPT !.pc = "hello", !.hs = hs'.next]
  /\ UNCHANGED <<next, sessions, inb, out>>

SendHello ==
  /\ prov.pc = "hello"
  /\ \/ prov' = [prov EXCEPT !.pc = "await", !.oneShot = "armed"]
     \/ Goto("cancel")
  /\ UNCHANGED <<hs, next, sessions, inb, out>>

\* armOneShotReceive's callback, also when nobody waits for it any more.
OneShotReceive ==
  /\ prov.oneShot = "armed"
  /\ \E r \in {"hello", "other", "error"} : prov' = [prov EXCEPT !.oneShot = r]
  /\ UNCHANGED <<hs, next, sessions, inb, out>>

ReceiveFails ==
  /\ prov.pc = "await"
  /\ \/ prov.oneShot = "armed" /\ Goto("cancel")      \* timed out
     \/ prov.oneShot = "error"
        /\ prov' = [prov EXCEPT !.pc = "cancel", !.oneShot = "idle"]
  /\ UNCHANGED <<hs, next, sessions, inb, out>>

CancelHandshake_Dropped ==
  /\ prov.pc = "cancel"
  /\ Refuse
  /\ UNCHANGED <<hs, next, sessions, inb, out>>

\* connect's deferred cc_handshake_cancel.
CancelHandshake ==
  /\ prov.pc = "cancel"
  /\ hs' = HsTake(prov.hs)
  /\ Refuse
  /\ UNCHANGED <<next, sessions, inb, out>>

CompleteHandshake ==
  /\ prov.pc = "await" /\ prov.oneShot \in {"hello", "other"}
  /\ hs' = HsTake(prov.hs)
  /\ IF prov.oneShot = "hello" /\ prov.hs \in hs.pending
     THEN /\ Add(NewSession)
          /\ prov' = [prov EXCEPT !.pc = "loop", !.core = next', !.oneShot = "idle"]
     ELSE /\ prov' = Refused([prov EXCEPT !.oneShot = "idle"])
          /\ UNCHANGED <<next, sessions>>
  /\ UNCHANGED <<inb, out>>

ReceiveLoop ==
  /\ prov.pc = "loop"
  /\ prov' = [prov EXCEPT !.pc = "store", !.loopActive = TRUE]
  /\ inb' = [inb EXCEPT !.pc = "armed"]
  /\ UNCHANGED <<hs, next, sessions, out>>

initialPathStates == <<[id |-> Wifi, up |-> TRUE, metered |-> FALSE]>>

StoreRelay ==
  /\ prov.pc = "store"
  /\ prov' = [prov EXCEPT !.pc = "settings", !.relay = prov.core,
                          !.states = initialPathStates, !.settings = TRUE]
  /\ UNCHANGED <<hs, next, sessions, inb, out>>

SettingsDone_Weak ==
  /\ prov.settings
  /\ \E ok \in BOOLEAN :
       LET runs == prov.pc = "settings" IN
       /\ out' = IF ok /\ runs THEN [out EXCEPT !.pc = "armed"] ELSE out
       /\ prov' = [prov EXCEPT !.settings = FALSE,
                     !.finished = IF runs THEN @ + 1 ELSE @,
                     !.pc = IF ~runs THEN @ ELSE IF ok THEN "up" ELSE "failed"]
  /\ UNCHANGED <<hs, next, sessions, inb>>

\* setTunnelNetworkSettings' callback; stopTunnel may have run before it.
SettingsDone ==
  /\ prov.settings
  /\ \E ok \in BOOLEAN :
       /\ out' = IF ok THEN [out EXCEPT !.pc = "armed"] ELSE out
       /\ prov' = [prov EXCEPT !.settings = FALSE, !.finished = @ + 1,
                     !.pc = IF @ # "settings" THEN @ ELSE IF ok THEN "up" ELSE "failed"]
  /\ UNCHANGED <<hs, next, sessions, inb>>

-----------------------------------------------------------------------------
(* stopTunnel: close the sender, then drop the relay.                      *)

\* WiFiPathSender.close, if there is a sender.
Close(p) == [p EXCEPT !.closed = p.sender, !.loopActive = FALSE]

CloseSender ==
  /\ prov.pc \in {"settings", "up", "failed"}
  /\ prov' = [Close(prov) EXCEPT !.pc = "stopping"]
  /\ UNCHANGED <<hs, next, sessions, inb, out>>

DropRelay_Frees ==
  /\ prov.pc = "stopping"
  /\ prov' = [prov EXCEPT !.pc = "stopped", !.relay = Nil]
  /\ sessions' = Restrict(sessions, DOMAIN sessions \ {prov.core})
  /\ UNCHANGED <<hs, next, inb, out>>

DropRelay_Keeps ==
  /\ prov.pc = "stopping"
  /\ prov' = [prov EXCEPT !.pc = "stopped"]
  /\ UNCHANGED <<hs, next, sessions, inb, out>>

DropRelay ==
  /\ prov.pc = "stopping"
  /\ prov' = [prov EXCEPT !.pc = "stopped", !.relay = Nil]
  /\ Release(prov', inb, out)
  /\ UNCHANGED <<hs, next, inb, out>>

\* The system lets go of the instance and may start another; a callback that
\* is running, or the pending settings callback, keeps it.
Discard ==
  /\ prov.pc \in {"failed", "stopped"} /\ ~prov.settings
  /\ inb.pc \in {"off", "armed"} /\ out.pc \in {"off", "armed"}
  /\ prov.start < MaxStarts
  /\ prov' = NewProvider(prov.start + 1)
  /\ inb' = InbOff /\ out' = OutOff
  /\ Release(prov', inb', out')
  /\ UNCHANGED <<hs, next>>

-----------------------------------------------------------------------------
(* The receive loop: receiveNext's callback runs handleInbound, then       *)
(* re-arms while the loop is active.                                       *)

Rearm_Complete == InbOff
Rearm == IF prov.loopActive THEN [InbOff EXCEPT !.pc = "armed"] ELSE InbOff

\* 0 is a datagram that does not authenticate.
Receive ==
  /\ inb.pc = "armed"
  /\ \/ \E n \in 0..MaxIn : inb' = [inb EXCEPT !.pc = "got", !.n = n] /\ UNCHANGED prov
     \/ inb' = InbOff /\ prov' = [prov EXCEPT !.failed = TRUE]
     \/ inb' = Rearm /\ UNCHANGED prov      \* neither data nor an end
  /\ UNCHANGED <<hs, next, sessions, out>>

HandleInbound ==
  /\ inb.pc = "got"
  /\ inb' = IF prov.relay = Nil THEN Rearm
            ELSE [inb EXCEPT !.pc = "call", !.ref = prov.relay]
  /\ UNCHANGED <<hs, next, sessions, prov, out>>

\* The buffer CoreTransport.inbound lends the bridge for a datagram.
inboundBuffer(wire) == IF wire > 1 THEN wire ELSE 1

\* cc_inbound delivers the first copy of a packet that authenticates.  A
\* payload too large for the buffer is an error that comes after the window
\* has accepted the number.
inboundInto(h, n, payload, buffer) ==
  IF h \notin DOMAIN sessions \/ n = 0 THEN "rejected"
  ELSE IF payload > buffer THEN "too large"
  ELSE IF n \in sessions[h].seen THEN "duplicate" ELSE "first"

ReceiveInbound ==
  /\ inb.pc = "call"
  /\ \E payload \in Payloads :
       LET result == inboundInto(inb.ref, inb.n, payload, inboundBuffer(payload + frameAdds))
           accepted == IF result \in {"first", "too large"}
                       THEN [sessions EXCEPT ![inb.ref].seen = @ \cup {inb.n}]
                       ELSE sessions
       IN IF result = "first"
          THEN inb' = [inb EXCEPT !.pc = "write"] /\ sessions' = accepted
          ELSE /\ inb' = Rearm
               /\ sessions' = Restrict(accepted,
                                DOMAIN accepted \cap Referenced(prov, inb', out))
  /\ UNCHANGED <<hs, next, prov, out>>

WritePackets_Rechecks ==
  /\ inb.pc = "write"
  /\ inb' = Rearm
  /\ sessions' = IF prov.relay = Nil THEN sessions
                 ELSE [sessions EXCEPT ![inb.ref].written = @ \cup {inb.n}]
  /\ UNCHANGED <<hs, next, prov, out>>

WritePackets ==
  /\ inb.pc = "write"
  /\ inb' = Rearm
  /\ LET wrote == [sessions EXCEPT ![inb.ref].written = @ \cup {inb.n}]
     IN sessions' = Restrict(wrote, DOMAIN wrote \cap Referenced(prov, inb', out))
  /\ UNCHANGED <<hs, next, prov, out>>

-----------------------------------------------------------------------------
(* The outbound loop: readPackets' callback takes a snapshot, relays the   *)
(* packets, then re-arms.                                                  *)

ReadPackets ==
  /\ out.pc = "armed"
  /\ IF prov.relay = Nil THEN out' = OutOff
     ELSE \E b \in 1..Batch :
            /\ sessions[prov.relay].framed + b <= MaxOut
            /\ out' = [pc |-> "frame", ref |-> prov.relay, states |-> prov.states, left |-> b]
  /\ UNCHANGED <<hs, next, sessions, prov, inb>>

\* shouldRelayOutbound: a packet of the batch that is not IPv4 is passed over.
\* So is one larger than maxPayload, by Outbound.
SkipPacket ==
  /\ out.pc = "frame" /\ out.left > 0
  /\ out' = [out EXCEPT !.left = @ - 1]
  /\ UNCHANGED <<hs, next, sessions, prov, inb>>

\* CoreTransport.outbound's buffer leaves frameOverhead for what a frame adds.
frameOverhead == 64
outboundInto(payload, buffer) == payload + frameAdds <= buffer

\* cc_outbound takes the next number, and then fails if the buffer is short.
FramePacket ==
  /\ out.pc = "frame" /\ out.left > 0
  /\ out.ref \in DOMAIN sessions
  /\ sessions' = [sessions EXCEPT ![out.ref].framed = @ + 1]
  /\ \E payload \in Payloads :
       out' = IF outboundInto(payload, payload + frameOverhead)
              THEN [out EXCEPT !.pc = "send"] ELSE [out EXCEPT !.left = @ - 1]
  /\ UNCHANGED <<hs, next, prov, inb>>

\* WiFiPathSender.send returns or throws (the sender closed, or a send error).
Send(h) == [sessions EXCEPT ![h].tried = @ \cup {sessions[h].framed}]

\* sendOutbound after framing; what send throws is collected and ignored.
SendOutbound ==
  /\ out.pc = "send"
  /\ out' = [out EXCEPT !.pc = "frame", !.left = @ - 1]
  /\ sessions' =
       IF Wifi \in sendPaths([mode |-> "auto", preferred |-> "none"], out.states, FALSE)
       THEN Send(out.ref) ELSE sessions
  /\ UNCHANGED <<hs, next, prov, inb>>

ReadOutboundLoop ==
  /\ out.pc = "frame" /\ out.left = 0
  /\ out' = [OutOff EXCEPT !.pc = "armed"]
  /\ Release(prov, inb, out')
  /\ UNCHANGED <<hs, next, prov, inb>>

-----------------------------------------------------------------------------
Connect == BeginHandshake \/ SendHello \/ OneShotReceive \/ ReceiveFails
           \/ CancelHandshake \/ CompleteHandshake
Starting == StartTunnel \/ MakeRelay \/ OpenSender \/ Connect
            \/ ReceiveLoop \/ StoreRelay \/ SettingsDone
Stopping == CloseSender \/ DropRelay \/ Discard
Inbound == Receive \/ HandleInbound \/ ReceiveInbound \/ WritePackets
Outbound == ReadPackets \/ SkipPacket \/ FramePacket \/ SendOutbound \/ ReadOutboundLoop
Next == Starting \/ Stopping \/ Inbound \/ Outbound

\* startTunnel goes on once it has begun: its waits end, by an answer, an error
\* or a timeout, except resolveInterface's, which the path monitor must answer.
\* stopTunnel runs to its end and every callback that has started returns.
Fairness ==
  /\ WF_vars(MakeRelay \/ OpenSender \/ BeginHandshake \/ SendHello \/ ReceiveFails
             \/ CompleteHandshake \/ CancelHandshake \/ ReceiveLoop \/ StoreRelay)
  /\ WF_vars(SettingsDone)
  /\ WF_vars(DropRelay)
  /\ WF_vars(HandleInbound \/ ReceiveInbound \/ WritePackets)
  /\ WF_vars(SkipPacket \/ FramePacket \/ SendOutbound \/ ReadOutboundLoop)

Spec == Init /\ [][Next]_vars /\ Fairness

-----------------------------------------------------------------------------
(* "From here the in-flight handshake handle MUST be consumed or it (and the
   client's ephemeral private key) leaks" (CoreTransport.swift:102): once
   connect is over, however it ended, nothing is pending; and the handle
   connect holds is the only one there is. *)
HandshakesConsumed ==
  /\ hs.pending # {} => prov.pc \in {"hello", "await", "cancel"} /\ hs.pending = {prov.hs}
  /\ prov.pc \in {"hello", "await", "cancel"} => hs.pending = {prov.hs}

(* A handle is live whenever it is used: a callback that took the relay under
   the lock and lost the race with stopTunnel still calls the bridge with a
   registered handle, of its own instance, never one freed under it. *)
HandleLive ==
  \A h \in Referenced(prov, inb, out) \ {Nil} : h \in DOMAIN sessions /\ h = prov.core

(* No packet is swallowed between the window and the tunnel: a number the
   session has accepted was written to packetFlow, or is on its way there in
   the callback that accepted it, and is written once, also when the tunnel
   stops in between.  This needs the buffer the app lends the bridge to hold
   every payload: the bridge finds out only after the window has accepted
   (registry.go:134). *)
AcceptedIsWritten ==
  \A h \in DOMAIN sessions :
    LET coming == IF inb.pc = "write" /\ inb.ref = h THEN {inb.n} ELSE {}
    IN /\ sessions[h].seen = sessions[h].written \cup coming
       /\ sessions[h].written \cap coming = {}

(* A tunnel reported up carries traffic both ways until its connection fails
   (the two hardware findings of WS-F): both loops are armed or running, and
   no packet is framed and then lost in a short buffer or sent over no path. *)
StaysConnected ==
  /\ prov.pc = "up" /\ ~prov.failed => inb.pc # "off" /\ out.pc # "off"
  /\ \A h \in DOMAIN sessions :
       (1..sessions[h].framed) \ sessions[h].tried \subseteq
         IF out.pc = "send" /\ out.ref = h THEN {sessions[h].framed} ELSE {}

(* A start is reported once, and always: whatever fails, times out or races
   it, startTunnel calls its completion handler, also when stopTunnel ran
   before the settings callback ("A weak capture risked silently skipping",
   GeminaTunnelProvider.swift:142).  The system shows the tunnel as connecting
   until then. *)
StartFinishes ==
  /\ [](prov.finished <= 1)
  /\ \A k \in 1..MaxStarts :
       (prov.start = k /\ prov.pc = "make") ~> (prov.start = k /\ prov.finished = 1)

(* After stopTunnel the session is freed, whatever was in flight: the last
   callback to let go of the relay frees it. *)
TearsDown ==
  \A h \in 1..MaxStarts :
    (prov.pc = "stopped" /\ prov.core = h) ~> h \notin DOMAIN sessions
=============================================================================
