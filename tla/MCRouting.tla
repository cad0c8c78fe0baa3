----------------------------- MODULE MCRouting -----------------------------
(* Routing instances of DataGateway.  The gateway never releases a lease, so
   a behaviour may also be of a second mode, where the allocator alone is
   used: every order of Allocate and Release by more sessions than the pool
   has addresses. *)
EXTENDS MCDataGateway

VARIABLE mode  \* "gateway" or "pool"

MCInit == GatewayInit /\ mode \in {"gateway", "pool"}

MCGateway == mode = "gateway" /\ GatewayNext
MCPool ==
  /\ mode = "pool" /\ AllocNext
  /\ UNCHANGED <<sessionVars, pathVars, clock, loops, system, auth, wrote>>
MCNext == (MCGateway \/ MCPool) /\ UNCHANGED mode

MCSpec == MCInit /\ [][MCNext]_<<gatewayVars, mode>>

-----------------------------------------------------------------------------
\* The loop of NewAllocator over a prefix of n addresses: from the address
\* after .1, stop at the end of the prefix or at its last address.
Collect(n) ==
  LET from[a \in Nat] ==
        IF a \notin 0..(n - 1) \/ a + 1 \notin 0..(n - 1)
        THEN <<>> ELSE <<a>> \o from[a + 1]
  IN  from[2]

\* Allocator's closed form is what the loop collects; no smaller prefix has
\* any address.
ASSUME \A n \in {4, 8, 16, 32} : Collect(n) = [i \in 1..(n - 3) |-> i + 1]
ASSUME \A n \in {1, 2} : Collect(n) = <<>>
=============================================================================
