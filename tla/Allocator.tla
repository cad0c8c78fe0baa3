----------------------------- MODULE Allocator -----------------------------
(***************************************************************************)
(* internal/exit/allocator.go: the tunnel addresses leased to sessions.    *)
(* Every operation is one critical section of the allocator's mutex.       *)
(* Addresses are offsets in the pool's prefix, 0 to Size - 1.  Definitions *)
(* named X_Y are mistaken variants of X.                                   *)
(***************************************************************************)
EXTENDS Integers, Sequences

CONSTANTS
  LeaseIds,  \* the sessions that may ask for a lease
  Size       \* addresses in the prefix

\* NewAllocator refuses (ErrInvalidPool) a prefix with no usable address.
ASSUME SizeAssumption == Size \in Nat /\ Size >= 4

VARIABLES
  forward,  \* session -> address, 0 when it has no lease
  reverse,  \* address -> {the session that holds it} or {}
  free      \* the stack of available addresses

allocVars == <<forward, reverse, free>>

Addresses == 0..(Size - 1)
\* Neither the network address 0, the gateway's 1 nor the broadcast Size - 1.
Usable == 2..(Size - 2)

\* NewAllocator's loop collects the usable addresses in ascending order.
NewAllocator == [i \in 1..(Size - 3) |-> i + 1]

AllocInit ==
  /\ forward = [i \in LeaseIds |-> 0]
  /\ reverse = [a \in Addresses |-> {}]
  /\ free = NewAllocator

\* Allocate: an existing lease is returned, nothing changes.
AllocateAgain(id) == forward[id] # 0 /\ UNCHANGED allocVars

\* Allocate: the last free address is popped.
AllocateFresh(id) ==
  /\ forward[id] = 0 /\ free # <<>>
  /\ LET addr == free[Len(free)] IN
     /\ forward' = [forward EXCEPT ![id] = addr]
     /\ reverse' = [reverse EXCEPT ![addr] = {id}]
  /\ free' = SubSeq(free, 1, Len(free) - 1)

\* Allocate: ErrPoolExhausted.
AllocateExhausted(id) ==
  forward[id] = 0 /\ free = <<>> /\ UNCHANGED allocVars

Lookup(addr) == reverse[addr]

Release_KeepsReverse(id) ==
  /\ forward[id] # 0
  /\ forward' = [forward EXCEPT ![id] = 0]
  /\ free' = Append(free, forward[id])
  /\ UNCHANGED reverse

\* Release: the address goes back on the stack.
Release(id) ==
  /\ forward[id] # 0
  /\ forward' = [forward EXCEPT ![id] = 0]
  /\ reverse' = [reverse EXCEPT ![forward[id]] = {}]
  /\ free' = Append(free, forward[id])

AllocNext ==
  \E id \in LeaseIds :
    AllocateAgain(id) \/ AllocateFresh(id) \/ AllocateExhausted(id)
    \/ Release(id)

AllocSpec == AllocInit /\ [][AllocNext]_allocVars

-----------------------------------------------------------------------------
(* The maps and the stack hold sessions and usable addresses only: the
   network, gateway and broadcast addresses are never leased. *)
AllocTypeOK ==
  /\ forward \in [LeaseIds -> Usable \cup {0}]
  /\ reverse \in [Addresses -> SUBSET LeaseIds]
  /\ free \in Seq(Usable)

(* Whatever the order of leases and releases, the two maps are each other's
   inverse and the stack holds every other usable address exactly once: no
   address is leased twice, lost, or found under a session that let it go. *)
LeasesPartition ==
  /\ \A id \in LeaseIds, a \in Usable : forward[id] = a <=> reverse[a] = {id}
  /\ \A a \in Usable : reverse[a] = {} <=> \E i \in 1..Len(free) : free[i] = a
  /\ \A i, j \in 1..Len(free) : free[i] = free[j] => i = j

(* A lease never changes under its holder: the only way from an address is
   to none at all (a session that asks again keeps the one it has). *)
LeaseSticks ==
  [][\A id \in LeaseIds : forward[id] # 0 => forward'[id] \in {forward[id], 0}]_allocVars
=============================================================================
