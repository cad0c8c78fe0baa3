---------------------------- MODULE DataGateway ----------------------------
(***************************************************************************)
(* internal/gateway/datagateway.go with internal/exit/router.go: the       *)
(* gateway as cmd/gateway runs it.  Three goroutines share the session     *)
(* table, the allocator and the path set: Serve, which handles one         *)
(* datagram at a time; ServeReturn, which routes packets of the TUN device *)
(* back; and the one that closes socket and device on shutdown.  The       *)
(* network may lose, repeat and reorder what a client sends from its own   *)
(* uplinks, and corrupt anything.  Nothing here calls Forget or Release:   *)
(* neither does the gateway.  A datagram refused before it changes state   *)
(* (not a hello or data, stale timestamp, no entitlement) is no step.      *)
(* Definitions named X_Y are mistaken variants of X.                       *)
(***************************************************************************)
EXTENDS SessionTable, Allocator, PathSet

CONSTANTS
  Uplinks,  \* session -> the endpoints its client sends from
  Packets,  \* bound: session -> the packet numbers its client sends
  Strays,   \* bound: <<session, endpoint>> of datagrams that open under no key
  MaxReturns,  \* bound: packets read from the device
  MayStop   \* bound: whether the operator may stop the gateway

ASSUME SameSessions == SessionIds \subseteq LeaseIds /\ PathIds = SessionIds
ASSUME TwoLoops == Workers = {"serve", "return"}
ASSUME ClientsAssumption ==
  /\ Uplinks \in [SessionIds -> SUBSET Endpoints]
  /\ Packets \in [SessionIds -> SUBSET Numbers]
  /\ Strays \subseteq SessionIds \X Endpoints

VARIABLES
  serve,    \* Serve: [pc, from, id, key, number, first]
  ret,      \* ServeReturn: [pc, dst, id, key, targets]; "next" is the top of
            \* its loop, "read" is inside a read of the device
  context,  \* "running" or "cancelled"
  conn,     \* the socket: "open" or "closed"
  dev,      \* the TUN device: "open" or "closed"
  auth,     \* history: session -> endpoints an opened datagram came from
  wrote     \* history: <<key, number>> -> writes to the device

sessionVars == <<vars>>
loops == <<serve, ret>>
system == <<context, conn, dev>>
gatewayVars == <<sessionVars, allocVars, pathVars, clock, loops, system, auth, wrote>>

Reading == [pc |-> "read", from |-> "none", id |-> 0, key |-> 0, number |-> 0,
            first |-> FALSE]
Waiting == [pc |-> "next", dst |-> 0, id |-> 0, key |-> 0, targets |-> {}]
Corrupt == -1  \* the key of a datagram that opens under none

\* The inner source address of a client's n-th packet: the address leased to
\* it, or for an even number one that is not (a misconfigured client).
Inner(id, n) == IF n % 2 = 1 THEN forward[id]
                ELSE CHOOSE a \in Addresses : a # forward[id]

GatewayInit ==
  /\ Init /\ AllocInit /\ PathInit
  /\ serve = Reading /\ ret = Waiting
  /\ context = "running" /\ conn = "open" /\ dev = "open"
  /\ auth = [i \in SessionIds |-> {}]
  /\ wrote = [p \in Keys \X Numbers |-> 0]

-----------------------------------------------------------------------------
AtRead == serve.pc = "read" /\ worker["serve"].pc = "idle"

\* handleHandshake: a hello that passes its checks reaches Handshake.
ServeHello(id) ==
  /\ AtRead /\ conn = "open"
  /\ DeriveKey("serve", id)
  /\ UNCHANGED <<allocVars, pathVars, clock, loops, system, auth, wrote>>

ServeRegister ==
  /\ register("serve")
  /\ UNCHANGED <<allocVars, pathVars, clock, loops, system, auth, wrote>>

\* Handshake's leaser is the router's Lease.
ServeLease ==
  /\ Answer("serve")
  /\ AllocateAgain(worker["serve"].id) \/ AllocateFresh(worker["serve"].id)
  /\ UNCHANGED <<pathVars, clock, loops, system, auth, wrote>>

ServeLeaseFails_Admits ==
  /\ Answer("serve")
  /\ AllocateExhausted(worker["serve"].id)
  /\ UNCHANGED <<pathVars, clock, loops, system, auth, wrote>>

ServeLeaseFails ==
  /\ Unwind("serve")
  /\ AllocateExhausted(worker["serve"].id)
  /\ UNCHANGED <<pathVars, clock, loops, system, auth, wrote>>

\* handleData begins: a datagram of an answered client over one of its
\* uplinks, or one that opens under no key, from somewhere else.
ServeData(id, key, number, from) ==
  /\ AtRead /\ conn = "open"
  /\ Call("serve", id, key, number)
  /\ serve' = [Reading EXCEPT !.pc = "data", !.from = from, !.id = id,
                              !.key = key, !.number = number]
  /\ UNCHANGED <<allocVars, pathVars, clock, ret, system, auth, wrote>>

\* sessionFor, on behalf of either loop.
SessionFor ==
  /\ \E w \in Workers : sessionForCached(w) \/ sessionForResolve(w)
                        \/ sessionForCreate(w)
  /\ UNCHANGED <<allocVars, pathVars, clock, loops, system, auth, wrote>>

\* handleData: no such session, the record carries no SessionID.
ServeUnknown ==
  /\ serve.pc = "data" /\ worker["serve"].pc = "idle"
  /\ serve' = Reading
  /\ UNCHANGED <<sessionVars, allocVars, pathVars, clock, ret, system, auth, wrote>>

Opens == objects[worker["serve"].obj].key = serve.key
FirstCopy == serve.number \notin objects[worker["serve"].obj].seen

ServeInbound_KeepsId ==
  /\ Inbound("serve")
  /\ serve' = [serve EXCEPT !.pc = "record", !.first = Opens /\ FirstCopy]
  /\ auth' = IF Opens THEN [auth EXCEPT ![serve.id] = @ \cup {serve.from}]
                      ELSE auth
  /\ UNCHANGED <<allocVars, pathVars, clock, ret, system, wrote>>

\* handleData: a datagram that does not open loses its SessionID; a
\* duplicate keeps it.
ServeInbound ==
  /\ Inbound("serve")
  /\ serve' = IF Opens THEN [serve EXCEPT !.pc = "record", !.first = FirstCopy]
                       ELSE Reading
  /\ auth' = IF Opens THEN [auth EXCEPT ![serve.id] = @ \cup {serve.from}]
                      ELSE auth
  /\ UNCHANGED <<allocVars, pathVars, clock, ret, system, wrote>>

\* Serve: RecordPath for every datagram that opened.
ServeRecord ==
  /\ serve.pc = "record"
  /\ Record(serve.id, serve.from)
  /\ serve' = IF serve.first THEN [serve EXCEPT !.pc = "egress"] ELSE Reading
  /\ UNCHANGED <<sessionVars, allocVars, clock, ret, system, auth, wrote>>

\* Egress drops a packet with no lease or not from it, or fails to write it.
EgressDrop ==
  /\ serve.pc = "egress"
  /\ serve' = Reading
  /\ UNCHANGED <<sessionVars, allocVars, pathVars, clock, ret, system, auth, wrote>>

EgressWrite_Unfiltered ==
  /\ serve.pc = "egress" /\ dev = "open"
  /\ wrote' = [wrote EXCEPT ![<<serve.key, serve.number>>] = @ + 1]
  /\ serve' = Reading
  /\ UNCHANGED <<sessionVars, allocVars, pathVars, clock, ret, system, auth>>

EgressWrite ==
  /\ serve.pc = "egress" /\ dev = "open"
  /\ forward[serve.id] # 0 /\ Inner(serve.id, serve.number) = forward[serve.id]
  /\ wrote' = [wrote EXCEPT ![<<serve.key, serve.number>>] = @ + 1]
  /\ serve' = Reading
  /\ UNCHANGED <<sessionVars, allocVars, pathVars, clock, ret, system, auth>>

\* ReadFrom fails on the closed socket.
ServeReturns ==
  /\ AtRead /\ conn = "closed"
  /\ serve' = [serve EXCEPT !.pc = "returned"]
  /\ UNCHANGED <<sessionVars, allocVars, pathVars, clock, ret, system, auth, wrote>>

\* ReadFrom fails on the open socket: Serve returns and main ends the process,
\* its other goroutines with it.
ServeFails ==
  /\ AtRead /\ conn = "open"
  /\ serve' = [serve EXCEPT !.pc = "returned"]
  /\ ret' = [Waiting EXCEPT !.pc = "returned"]
  /\ UNCHANGED <<sessionVars, allocVars, pathVars, clock, system, auth, wrote>>

-----------------------------------------------------------------------------
Framed == Cardinality({p \in Keys \X Numbers : sealed[p] > 0})

\* ServeReturn calls Read: it waits in the kernel, or fails at once on a
\* device that is closed.
ReturnRead ==
  /\ ret.pc = "next"
  /\ ret' = [ret EXCEPT !.pc = IF dev = "open" THEN "read" ELSE "returned"]
  /\ UNCHANGED <<sessionVars, allocVars, pathVars, clock, serve, system, auth, wrote>>

\* The read returns a packet for a leased address and FrameReturn starts.  A
\* read begun before the device was closed may still return one: OpenTUN has
\* called Fd, and a read of a descriptor in blocking mode is not interrupted.
ReturnLookup(dst) ==
  /\ ret.pc = "read" /\ Framed < MaxReturns
  /\ \E id \in Lookup(dst) :
       /\ Call("return", id, 0, 0)
       /\ ret' = [Waiting EXCEPT !.pc = "frame", !.dst = dst, !.id = id]
  /\ UNCHANGED <<allocVars, pathVars, clock, serve, system, auth, wrote>>

\* Not IPv4, or for an address nobody leases: dropped.
ReturnDrop ==
  /\ ret.pc = "read"
  /\ ret' = Waiting
  /\ UNCHANGED <<sessionVars, allocVars, pathVars, clock, serve, system, auth, wrote>>

ReturnFrame ==
  /\ ret.pc = "frame"
  /\ Outbound("return")
  /\ ret' = [ret EXCEPT !.pc = "fresh", !.key = objects[worker["return"].obj].key]
  /\ UNCHANGED <<allocVars, pathVars, clock, serve, system, auth, wrote>>

\* FrameReturn failed: "frame-error" (the bound on numbers ends up here too).
ReturnUnframed ==
  /\ ret.pc = "frame" /\ worker["return"].pc = "idle"
  /\ ret' = Waiting
  /\ UNCHANGED <<sessionVars, allocVars, pathVars, clock, serve, system, auth, wrote>>
ReturnBound ==
  /\ OutboundBound("return")
  /\ UNCHANGED <<allocVars, pathVars, clock, loops, system, auth, wrote>>

ReturnFresh ==
  /\ ret.pc = "fresh"
  /\ Fresh(ret.id)
  /\ ret' = [ret EXCEPT !.pc = "send", !.targets = Live(ret.id)]
  /\ UNCHANGED <<sessionVars, allocVars, clock, serve, system, auth, wrote>>

\* SendTo each endpoint; a failure does not stop the others.
ReturnSend(e) ==
  /\ ret.pc = "send" /\ e \in ret.targets
  /\ ret' = [ret EXCEPT !.targets = @ \ {e}]
  /\ UNCHANGED <<sessionVars, allocVars, pathVars, clock, serve, system, auth, wrote>>

ReturnSent ==
  /\ ret.pc = "send" /\ ret.targets = {}
  /\ ret' = Waiting
  /\ UNCHANGED <<sessionVars, allocVars, pathVars, clock, serve, system, auth, wrote>>

\* A read that fails in the kernel ends the loop for good, whether the device
\* was closed meanwhile or not.
ReturnReturns ==
  /\ ret.pc = "read"
  /\ ret' = [ret EXCEPT !.pc = "returned"]
  /\ UNCHANGED <<sessionVars, allocVars, pathVars, clock, serve, system, auth, wrote>>

-----------------------------------------------------------------------------
Cancel ==
  /\ MayStop /\ context = "running"
  /\ context' = "cancelled"
  /\ UNCHANGED <<sessionVars, allocVars, pathVars, clock, loops, conn, dev, auth, wrote>>

\* The shutdown goroutine: the socket first, then the device.
CloseConn ==
  /\ context = "cancelled" /\ conn = "open"
  /\ conn' = "closed"
  /\ UNCHANGED <<sessionVars, allocVars, pathVars, clock, loops, context, dev, auth, wrote>>

CloseDevice_Never == FALSE /\ UNCHANGED gatewayVars

CloseDevice ==
  /\ conn = "closed" /\ dev = "open"
  /\ dev' = "closed"
  /\ UNCHANGED <<sessionVars, allocVars, pathVars, clock, loops, context, conn, auth, wrote>>

TimePasses ==
  /\ Tick
  /\ UNCHANGED <<sessionVars, allocVars, pathVars, loops, system, auth, wrote>>

Terminated ==
  /\ serve.pc = "returned" /\ ret.pc = "returned"
  /\ UNCHANGED gatewayVars

Arrivals ==
  \/ \E id \in SessionIds : ServeHello(id)
  \/ \E a \in answered : \E n \in Packets[a[1]], e \in Uplinks[a[1]] :
       ServeData(a[1], a[2], n, e)
  \/ \E s \in Strays : ServeData(s[1], Corrupt, 1, s[2])
  \/ (\E dst \in Addresses : ReturnLookup(dst)) \/ ReturnDrop

ServeStep == ServeRegister \/ ServeLease \/ ServeLeaseFails \/ ServeUnknown
             \/ ServeInbound \/ ServeRecord \/ EgressDrop \/ EgressWrite
             \/ ServeReturns
ReturnStep == ReturnRead \/ ReturnFrame \/ ReturnUnframed \/ ReturnBound \/ ReturnFresh
              \/ (\E e \in Endpoints : ReturnSend(e)) \/ ReturnSent
Shutdown == CloseConn \/ CloseDevice

GatewayNext ==
  Arrivals \/ ServeStep \/ ReturnStep \/ SessionFor \/ ReturnReturns
  \/ ServeFails \/ Shutdown \/ Cancel \/ TimePasses \/ Terminated

\* Each goroutine runs on when it can.  Nothing makes packets arrive, the
\* operator stop the gateway, or a read the kernel holds return: not even
\* closing the device, whose descriptor OpenTUN may have left blocking (Fd).
GatewayFairness ==
  /\ WF_gatewayVars(ServeStep) /\ WF_gatewayVars(ReturnStep)
  /\ WF_gatewayVars(SessionFor) /\ WF_gatewayVars(Shutdown)

GatewaySpec == GatewayInit /\ [][GatewayNext]_gatewayVars /\ GatewayFairness

-----------------------------------------------------------------------------
(* Admission is fail-closed ("an admitted session always has a valid
   tunnelIP", datagateway.go:166): between two datagrams a session has a key
   exactly when it has a lease, even after a pool ran dry half-way through a
   handshake, and every answered client still has both.  The session cached
   for an identity always holds the key registered for it, although the cache
   is filled from two goroutines and a refused handshake takes its key out of
   the store alone. *)
AdmittedHasLease ==
  /\ AtRead => \A i \in SessionIds : keys[i] # 0 <=> forward[i] # 0
  /\ \A a \in answered : keys[a[1]] = a[2] /\ forward[a[1]] # 0
  /\ \A i \in SessionIds :
       sessions[i] # 0 => objects[sessions[i]].key = keys[i]

(* A packet from the device goes back sealed for the session that holds its
   destination address, and only to endpoints from which a datagram of that
   session was opened. *)
ReturnToOwner ==
  ret.pc \in {"fresh", "send"} =>
    /\ forward[ret.id] = ret.dst /\ keys[ret.id] = ret.key
    /\ ret.targets \subseteq auth[ret.id]
    /\ auth[ret.id] \subseteq Uplinks[ret.id]

(* The return loop duplicates to every uplink recorded less than TTL ago and
   to no other: pruning, refreshing and a clock at the very edge neither
   lose a live endpoint nor keep a dead one. *)
FreshExact ==
  [][(ret.pc = "fresh" /\ ret'.pc = "send") =>
       ret'.targets = {e \in Endpoints : /\ recorded[ret.id][e] >= 0
                                         /\ clock - recorded[ret.id][e] < TTL}]_gatewayVars

(* What reaches the internet came from its session's own address and was
   written once, whatever copies of the packet arrived over which uplink. *)
EgressOwnOnce ==
  [][\A p \in Keys \X Numbers : wrote'[p] # wrote[p] =>
       /\ wrote[p] = 0 /\ p = <<keys[serve.id], serve.number>>
       /\ forward[serve.id] # 0
       /\ Inner(serve.id, p[2]) = forward[serve.id]]_gatewayVars

(* Told to stop, the gateway stops working wherever the signal finds it, even
   while packets keep arriving from the device: Serve returns, and from some
   moment on the return loop has either returned too or does nothing but wait
   in the one read it was in when the device was closed.  That this last read
   wakes (datagateway.go:211, router.go:136) is the operating system's part
   and is not claimed: main returns after Serve, which ends the process. *)
GatewayStops ==
  context = "cancelled" ~>
    [](serve.pc = "returned" /\ ret.pc \in {"read", "returned"})
=============================================================================
