----------------------------- MODULE Benchmark -----------------------------
(***************************************************************************)
(* geminactl benchmark: pings to one gateway after another, each waiting   *)
(* for the next datagram on the socket until its own deadline.  A nonce is *)
(* the number of its ping (64 random bits do not repeat).  Pongs may be    *)
(* late, repeated or lost.  Definitions named X_Y are mistaken variants.   *)
(***************************************************************************)
EXTENDS Integers, Sequences, FiniteSets

CONSTANTS
  Targets,  \* the -to flags, a sequence
  Pings,    \* -count
  Timeout,  \* -timeout, in ticks
  MaxDup    \* bound: datagrams the network repeats per target

\* A -count below one counts as none; no target at all is refused.
ASSUME BenchmarkAssumption ==
  Targets \in Seq(STRING) /\ Targets # <<>> /\ Pings \in Nat /\ Timeout \in Nat

VARIABLES
  target,   \* index of the target being pinged
  ping,     \* number of the ping
  step,     \* "dial", "write", "read" or "done"
  waited,   \* ticks since the ping was written
  socket,   \* datagrams received and not yet read
  air,      \* pings and pongs under way on this socket
  dups,     \* repetitions so far on this socket
  rtts,     \* per target: ping -> round-trip time
  answered, \* history: per target, pings whose pong came before their deadline
  stray     \* history: targets that got a pong late or twice

benchVars ==
  <<target, ping, step, waited, socket, air, dups, rtts, answered, stray>>

TargetIds == 1..Len(Targets)

BenchmarkInit ==
  /\ target = 1 /\ ping = 1 /\ step = "dial" /\ waited = 0
  /\ socket = <<>> /\ air = {} /\ dups = 0
  /\ rtts = [t \in TargetIds |-> <<>>]
  /\ answered = [t \in TargetIds |-> {}]
  /\ stray = {}

\* defer conn.Close(): what was under way to this socket is gone.
Close ==
  /\ socket' = <<>> /\ air' = {} /\ dups' = 0 /\ ping' = 1 /\ waited' = 0
  /\ target' = target + 1
  /\ step' = IF target = Len(Targets) THEN "done" ELSE "dial"

\* The end of the loop body; `left' is what stays in the socket.
NextPing(left) ==
  IF ping = Pings THEN Close
  ELSE /\ ping' = ping + 1 /\ step' = "write" /\ waited' = 0
       /\ socket' = left /\ UNCHANGED <<air, dups, target>>

Dial ==
  /\ step = "dial"
  /\ \/ Pings > 0 /\ step' = "write"
        /\ UNCHANGED <<target, ping, waited, socket, air, dups>>
     \/ Close  \* the target cannot be resolved, or no pings: no round trips
  /\ UNCHANGED <<rtts, answered, stray>>

WritePing ==
  /\ step = "write"
  /\ air' = air \cup {ping}
  /\ step' = "read" /\ waited' = 0
  /\ UNCHANGED <<target, ping, socket, dups, rtts, answered, stray>>

WriteFails ==
  /\ step = "write"
  /\ NextPing(socket)
  /\ UNCHANGED <<rtts, answered, stray>>

ReadPong_AnyNonce ==
  /\ step = "read" /\ socket # <<>>
  /\ rtts' = [rtts EXCEPT ![target] =
       [j \in DOMAIN rtts[target] \cup {ping} |->
          IF j = ping THEN waited ELSE rtts[target][j]]]
  /\ NextPing(Tail(socket))
  /\ UNCHANGED <<answered, stray>>

\* One read per ping: a datagram with another nonce uses it up.
ReadPong ==
  /\ step = "read" /\ socket # <<>>
  /\ rtts' = IF Head(socket) = ping
             THEN [rtts EXCEPT ![target] =
                     [j \in DOMAIN rtts[target] \cup {ping} |->
                        IF j = ping THEN waited ELSE rtts[target][j]]]
             ELSE rtts
  /\ NextPing(Tail(socket))
  /\ UNCHANGED <<answered, stray>>

\* The deadline passes, or the read fails (an ICMP error): lost.
ReadFails ==
  /\ step = "read" /\ socket = <<>>
  /\ NextPing(socket)
  /\ UNCHANGED <<rtts, answered, stray>>

Tick ==
  /\ step = "read" /\ socket = <<>> /\ waited < Timeout
  /\ waited' = waited + 1
  /\ UNCHANGED <<target, ping, step, socket, air, dups, rtts, answered, stray>>

\* Outside: the gateway answers and the pong arrives, perhaps not for the
\* last time.  A ping whose wait is over is answered late.
PongArrives ==
  /\ step \in {"read", "write"}
  /\ \E j \in air :
       /\ \/ air' = air \ {j} /\ UNCHANGED dups
          \/ dups < MaxDup /\ dups' = dups + 1 /\ UNCHANGED air
       /\ socket' = Append(socket, j)
       /\ LET inTime == step = "read" /\ j = ping /\ j \notin answered[target] IN
          /\ answered' = IF inTime
                         THEN [answered EXCEPT ![target] = @ \cup {j}]
                         ELSE answered
          /\ stray' = IF inTime THEN stray ELSE stray \cup {target}
  /\ UNCHANGED <<target, ping, step, waited, rtts>>

BenchmarkNext == Dial \/ WritePing \/ WriteFails \/ ReadPong \/ ReadFails \/ Tick
                 \/ PongArrives
BenchmarkSpec == BenchmarkInit /\ [][BenchmarkNext]_benchVars

-----------------------------------------------------------------------------
Fastest(f) == CHOOSE v \in {f[j] : j \in DOMAIN f} : \A j \in DOMAIN f : v <= f[j]
Slowest(f) == CHOOSE v \in {f[j] : j \in DOMAIN f} : \A j \in DOMAIN f : v >= f[j]
Sums(f) ==
  LET sum[n \in 0..Pings] ==
        IF n = 0 THEN 0 ELSE sum[n - 1] + (IF n \in DOMAIN f THEN f[n] ELSE 0)
  IN sum

\* summarise: `sent' is the same for all, so loss compares as pings not counted.
summarise(t) ==
  LET received == Cardinality(DOMAIN rtts[t]) IN
  [received |-> received, loss |-> Pings - received,
   avg |-> IF received = 0 THEN 0 ELSE Sums(rtts[t])[Pings] \div received,
   min |-> IF received = 0 THEN 0 ELSE Fastest(rtts[t]),
   max |-> IF received = 0 THEN 0 ELSE Slowest(rtts[t])]

\* The loop over the results, in order: the best of the first n, 0 when none of
\* them answered.
Best(results) ==
  LET best[n \in 0..Len(results)] ==
        IF n = 0 THEN 0
        ELSE LET b == best[n - 1]
                 r == results[n] IN
             IF /\ r.received # 0
                /\ \/ b = 0
                   \/ r.loss < results[b].loss
                   \/ r.loss = results[b].loss /\ r.avg < results[b].avg
             THEN n ELSE b
  IN best
recommend(results) == Best(results)[Len(results)]

(* A round trip is of an answer that came before its ping's deadline, and where
   no pong came late or twice, every such answer is counted.  The target
   recommended is one that answered, none lost less, none as good was faster,
   and the earlier one wins a tie.  (A late pong is read in place of the next
   one's, so the pings after it count as lost: see the README.) *)
BenchmarkExact ==
  /\ \A t \in TargetIds :
       /\ DOMAIN rtts[t] \subseteq answered[t]
       /\ \A j \in DOMAIN rtts[t] : rtts[t][j] <= Timeout
       /\ (t < target /\ t \notin stray) => DOMAIN rtts[t] = answered[t]
  /\ step = "done" =>
       LET results == [t \in TargetIds |-> summarise(t)]
           best    == recommend(results)
       IN IF best = 0 THEN \A t \in TargetIds : rtts[t] = <<>>
          ELSE /\ results[best].received > 0
               /\ \A t \in TargetIds \ {best} :
                    LET r == results[t]
                        b == results[best] IN
                    \/ r.received = 0 \/ r.loss > b.loss
                    \/ r.loss = b.loss /\ r.avg > b.avg
                    \/ r.loss = b.loss /\ r.avg = b.avg /\ t > best
=============================================================================
