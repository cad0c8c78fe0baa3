# Gemina in TLA+

Gemina is a VPN that sends every packet over two uplinks at once (Wi-Fi and a
USB-tethered phone) and drops the slower copy at the other end. This directory
models the parts of it that keep state, checks them with TLC on small instances,
and proves every safety property of those runs with TLAPS, for every size:
windows, probe gateway, session table, leases, the running gateway, its start-up,
both ends of a session, the tunnel extension, the app, entitlement and the
commands of geminactl.

Paths below are relative to the repository root. `PROJECT.json` maps each
definition to its lines of source, lists the runs, the mutants (one mistaken
variant of the code for each property, which the property must catch), the
hazards and the theorems.

## 1. The system

| part | state | operations | talks to |
|---|---|---|---|
| `internal/dedup` ReplayWindow | highest number, ring of 64-bit words | `Observe` | every session |
| `internal/dedup` Window | map of identities, ring, head, count | `Observe` | probe gateway |
| `internal/gateway` Server, `internal/metrics` | counters, metric series, socket | `Serve`, `Handle`, `Render` | window, scraper |
| `internal/gateway` Admission, SessionStore, DataPlane | keys, session cache | `Handshake`, `Open`, `Seal`, `Forget` | entitlement, allocator |
| `internal/exit` Allocator | leases, reverse leases, free list | `Allocate`, `Lookup`, `Release` | admission, router |
| `internal/exit` PathSet | last time each endpoint was seen | `Record`, `Fresh` | router |
| `internal/exit` Router, `internal/gateway` DataGateway | TUN device, socket, two loops | `Serve`, `HandleDatagram`, `Egress`, `ServeReturn` | all of the above |
| `pkg/clientcore` | session number, replay window, keys in flight | handshake, `Outbound`, `Inbound` | the network |
| `bridge/geminacore` | two registries of handles | `cc_handshake_*`, `cc_session_*` | Swift |
| `apps/macos/PacketTunnelExtension` | relay, sender, three callbacks | `startTunnel`, `stopTunnel` | bridge, NetworkExtension |
| `apps/macos/Core` | none (pure) | path policy, status, impact | UI, tunnel |
| `internal/entitlement` | none but the clock | `OnPaymentEvent`, `Issue`, `Verify`, `Admit` | Stripe, admission |
| `cmd/gateway`, `identity.go`, `tun_linux.go` | process credentials, ports, TUN, identity file | `main`, `runDataGateway`, `dropPrivileges` | supervisor, kernel |
| `apps/macos/AppUI` | adopted profile, status shown, token | Protect toggle, install, token field | NetworkExtension, keychain |
| `cmd/geminactl` | sockets, counters | `probe`, `benchmark` | the gateways |
| `internal/platform/darwin`, `internal/paths`, `internal/diagnostics` | evidence collected so far | `preflight`, `darwin-evidence` | the Mac's interfaces and USB bus |

What is hard about it: two copies of everything, in any order; a ring bitmap
with word boundaries and jumps; two goroutines of the gateway sharing sessions,
leases and endpoints; check-then-act across two locks (`sessionFor`, `Forget`);
Swift callbacks that outlive the tunnel that armed them; a gateway that forgets
everything but its identity when it restarts, and may be killed inside any
system call of its start; an app that suspends in the middle of an install;
evidence gathered by one command after another; clocks that differ.

## 2. The modules

Definitions carry the source's names. A definition named `X_Y` is a mistaken
variant of `X`, used only as a mutant.

* **AntiReplay** - what an anti-replay window promises: a number is a first copy
  once, a duplicate afterwards, stale once it is a window behind.
  **ReplayWindow** - `replay.go`: words are sets of bit positions, `advance`
  clears the slots it passes over with `clearRange` and its masks. Word size and
  width are constants.
* **FifoMemory** - the last `Capacity` distinct identities, with first path and
  copy count. **DedupWindow** - `window.go`: the map, the ring, eviction.
* **ProbeServer** extends DedupWindow with `Serve`, `Handle`, the counters and
  the metrics registry. A rendering takes the set of series under the lock and
  loads each counter, in label order, in a step of its own, beside the server.
* **SessionTable** - the key store, the session cache and the session objects,
  with any number of goroutines inside `Handshake`, `Open`, `Seal` and `Forget`.
  Each locked section is a step, and every read that is used after an unlock is
  carried in the goroutine's own state.
* **Allocator**, **PathSet** - the two tables of `internal/exit`. Addresses are
  offsets into the prefix; MCRouting checks `NewAllocator`'s loop against the
  closed form the module uses, and runs the pool by itself, releases included,
  beside the gateway.
* **DataGateway** composes SessionTable, Allocator and PathSet: the loop that
  reads the socket, the loop that reads the TUN device, shutdown, and a clock.
* **DualPathSession** - both ends of `clientcore` over a network that loses,
  repeats, reorders and corrupts; repeated handshakes; a gateway restart. A copy
  stays in the network for ever, so loss and repetition are the choice of what
  is delivered and how often.
* **PathPolicy**, **Protection** - the three pure functions of
  `apps/macos/Core`, over a session whose paths go up and down. The filters over
  the list of paths are sets of its positions, so that the policy can be reasoned
  about for a list of any length. **MacApp**
  extends them with the menu-bar app: each `await` of an install and each queued
  step of a status change is an action, NetworkExtension changes the connection
  in between, and the app may be killed and started again.
* **ClientTunnel** - the tunnel extension and the bridge's registries: one
  provider instance after another in one process, with the receive loop, the
  outbound loop and the settings callback racing `stopTunnel`. Packets have
  sizes, and the bridge finds a buffer too short only after the session's window
  has accepted the packet.
* **Entitlement** - checkout, signed webhooks, tokens, hellos and their clocks;
  `time.Unix` and `time.Sub` with their widths, scaled down. Stripe's clock is off
  by at most `Drift`; a hello's stamp is any number.
* **GatewayProcess** - a gateway process from `main` to exit, a step per system
  call. What the host keeps (identity file, interface, ports) is apart from what
  a process loses. Processes may overlap, and a supervisor starts them again
  (`Restart=always` in `deploy/systemd`). A process starts as root or as a user,
  with the capabilities it was given. A call that fails and a kill are one
  action, because every error ends in `os.Exit`.
* **ProbeCommand** - `geminactl probe` over the duplicate window it talks to. No
  two datagrams of a run are alike (identity and number of the copy), so those
  under way are a set. **Preflight** - collectors, classifier, verdict and
  reports; while the machine is looked at, links change and a name may pass to
  other hardware. **Benchmark** - pings,
  deadlines, and the recommendation. Each has a specification of its own, which
  the theorems are about; **Geminactl** is the command line that picks one of
  them, and what TLC runs.
* The proofs: **WindowProofs** (both windows and the probe command),
  **SessionTableProofs**, **DataGatewayProofs** (with the allocator),
  **RestartProofs** (both ends of a session, and the gateway process),
  **ClientTunnelProofs**, **ServiceProofs** (entitlement and the probe gateway),
  **CommandProofs** (preflight and benchmark), **MacAppProofs** (with the path
  policy and the impact figures). **MC...** modules give TLC its constants.

## 3. The runs

| run | bounds | shows |
|---|---|---|
| geminactl | window of 3 over 5 identities; probe runs of up to 8 datagrams; 4 interfaces, 4 kinds of hardware, 1 change; 2 targets, 3 pings; a replay window of 3 words of 2 bits, numbers to 11 | exactly the last 3 identities are remembered, implements FifoMemory; probe counts add up; reports are true; the benchmark is exact; the replay bitmap is exact, no number accepted twice, implements AntiReplay |
| probe_server | 4 datagrams, one scrape | counters account for every datagram; a scrape is honest; Serve stops |
| session_table | 3 goroutines, 1 id, 2 keys, 2 numbers | one delivery and no repeated nonce although objects are dropped and remade; a forgotten key stays forgotten |
| gateway_shutdown | a /30 (one address), 2 clients, stop at any time | fail-closed admission, with store, cache and leases in agreement; Serve ends, and the return loop takes up no packet after its last read |
| gateway_routing | 2 clients, 3 uplinks, clock past the TTL; the pool alone with 6 sessions | return traffic reaches the owner on all its live uplinks and nothing else; egress once, from the own address; leases partition the pool |
| dual_path_session | window 2, 3 packets, 2 handshakes, 1 restart | end-to-end exactly once for what arrives in the window, unique nonces, key agreement; one healthy path delivers all |
| mac_app | 2 clicks, 1 change of the tunnel, 1 kill; 2 paths, 4 segments | the status settles on the truth (exceptions below); one profile and clicks obeyed; the token is kept; policy, headline and figures are sound |
| client_tunnel | 3 instances, 3 numbers each way, payloads of 0, 1 and 1600 bytes | each start answered once, no leaked handshake, no use of a freed handle, nothing accepted is lost, the receive loop stays armed, a stopped tunnel frees its session |
| entitlement | 2 subjects, 2 purchases, 2 posts, 1 hello, clock to 5; stamps right, ahead and at the ends of int64 | only those who paid get in, and not after drift, tolerance and TTL |
| gateway_process | 2 processes, 4 keys, 3 faults, the deployed environment, a user's own, and deviations of them | root or a capability only on request or as started; an announced identity never changes; the gateway comes back |
| session_id_reuse | 1 goroutine, 2 keys | a violation, see section 6 |
| hello_tolerance | 1 subject, stamps right and ahead by more than a `Duration` | a violation, see section 6 |

Why these bounds are enough to meet the hard cases. Replay: three words, so that
a jump can stay in a word, cross one, wrap the ring and exceed it (the replay
window has a behaviour of its own in the geminactl run). Geminactl:
more identities than slots, so that evicted ones return; two interfaces of each
kind, so that roles are ambiguous, an adapter of contradictory evidence, and a
change between any two commands; the second interface of a kind starts usable or
absent, and the bus and the version vary only where the command reads them; three
pings, so that a late pong meets the next one and its answer the one after. SessionTable: three
goroutines are the two copies of a packet and one `Forget` or handshake; the
properties are about one id, and only the mutex is shared between ids.
Routing: one session more than addresses in the pool; a client with two uplinks
beside one that sends from an address not its own, and a clock that passes the
TTL of a refreshed endpoint. DualPathSession: more packets than the window is
wide, so that a path can fall a whole window behind.
ClientTunnel: an instance that failed, one that was stopped with a callback
running, and one after them, on handles that go on counting.
Entitlement: the clock outruns tolerance plus TTL, and a stamp can saturate `Sub`
or wrap in `Unix`. ClientTunnel's payloads are the ends of what `Outbound`
accepts. MacApp: two connects that
overlap each other, a click and a kill; a session is spent on the toggle, on the
token or on the paths, which share no state, and a behaviour is not followed
after clicks overlap, since both properties of the toggle except that case.
GatewayProcess: a start that meets a
running gateway, and three kills, enough to be killed inside the first write,
inside the next start and while serving.

Deadlock is checked except in geminactl, dual_path_session, mac_app,
client_tunnel and entitlement, where the system may stop: a command ends, nobody
has to speak or click, and the bounds end the behaviour.

### Fairness

All weak, and only for steps the program takes by itself.

* ProbeServer, DataGateway: a goroutine that can run does, the closing goroutine
  included. That closing the device wakes a read that is parked in it is not
  assumed: `OpenTUN` calls `Fd`, which may leave the descriptor blocking.
  Nothing makes packets arrive, an open device fail, or the operator stop it.
* DualPathSession: a path in `Healthy` brings what it carries. This is the
  premise of HealthyPathDelivers, not a claim about networks.
* ClientTunnel: `startTunnel`, `stopTunnel` and started callbacks run to their
  end, and the system calls back the settings handler. The waits of
  `awaitReady` and `receiveOneDatagram` end by their timeouts; that
  `resolveInterface`'s wait, which has none, ends is an assumption about the path
  monitor.
* GatewayProcess: a process takes its next step, and the supervisor starts one
  that is down. Faults are bounded and never fair: ComesBack is about what follows
  the last one.
* MacApp: the main queue and the main actor go on, and a transition of the tunnel
  ends. An install may stay suspended for ever (the user need not answer the
  prompt), and nobody has to click.

### Assumptions about what is outside

Ciphers, key agreement and signatures are ideal. ClientHellos arrive intact.
NetworkExtension runs `startTunnel` and `stopTunnel` of an instance one after
the other and every callback once; an `NWConnection` completes each receive and
send, with an error once cancelled; reference counting frees at the last
reference. Copies of a client's packets reach the gateway from its own uplinks.
Webhook handler and gateway share a clock; Stripe's lies within `Drift` of it,
and both within the width of a `Duration` (`ClockAssumption`). Nothing is assumed
about a client's. NetworkExtension posts status changes on the main thread.

### What some properties do not say

* ScrapeHonest says that every figure of a rendering lies between its values
  before and after, that a rendering with a duplicate has a first copy, and that
  each rejection it shows has its reason but for the one being counted. That it
  shows no more duplicates than first copies would be false (a first-copy
  series created after the listing is missing), and nothing promises it.
* HealthyPathDelivers holds for a packet whose copy on the healthy path is less
  than a window behind; a slower one is stale by design.
* BenchmarkExact does not say that every answer in time is counted. A ping reads
  one datagram: a pong that comes after its deadline is read by the next ping,
  does not match, and uses up its read; the pong of that ping then meets the one
  after, and so on, so that one late pong can make all later pings to this
  target count as lost. The property demands an exact count only where no pong
  came late or twice.
* OneAtATime and StatusSettles except clicks that overtake a connect under way:
  two quick clicks can install two profiles, and a waiting connect starts the
  tunnel after a click to stop it. TokenKept excepts failed keychain calls, whose
  result the code ignores: a failed read empties the field, and the field's
  `onChange` then deletes the stored token.
* StatusSettles excepts one more case. adopt removes the observer; if
  NotificationCenter then drops the block it had queued for it, an assignment
  queued before overwrites what adopt read, and the headline stays stale until
  the next change.
* GatewayStops does not say that the return loop ends, only that it takes up no
  packet after the read it was in: main returns after Serve, which ends the
  process.
* RootOnlyOnRequest has two exceptions, both the code's: `RUN_AS=root`, and a
  process that was not root to begin with, which keeps the capabilities it was
  given (`dropPrivileges` and its check are skipped).
* ReportIsTrue demands the whole truth only of a machine that did not change
  during the collection. Otherwise a candidate whose name was left alone is a
  live link of its role, and the only one among such names; one whose name was
  touched gave each piece of evidence at some time, but perhaps as different
  hardware, because evidence is joined by name.
* ComesBack calls a gateway with a short identity file one that may not serve:
  `LoadOrCreateIdentity` refuses it at every start until someone removes it.
* `OnPaymentEvent` is not wired into `cmd/gateway`; Entitlement composes it with
  admission as a hosted deployment would.

## 4. What is proved

For every value of the constants, under the named assumptions only:
`SizeAssumption` and `WindowAssumption` (sizes are positive, the zero identity is
not a valid one, a pool has at least four addresses), `ProcessAssumption`
(the constants have their types, the id in RUN_AS is not 0, an identity file
that is whole holds a key), the `BoundAssumption` of SessionTable and of
DualPathSession (the bounds are naturals, and no more replies than packets),
`TTLAssumption`, `SameSessions`, `TwoLoops` and `ClientsAssumption` of the gateway
(a positive TTL; one set of sessions; two goroutines; uplinks are endpoints and
packet numbers are numbers), `PathsAssumption` (finitely many interfaces,
durations are numbers), `HealthyAssumption` and `TunnelAssumption` (positive
widths and bounds), `ProbeAssumption` and `BenchmarkAssumption` (flags have their
types, probes are numbered from one, there is a target), `MachineAssumption`
(finitely many interfaces; a device is Wi-Fi, or a phone, exactly when it gives
evidence of that role and of no other, so that hardware of contradictory evidence
is neither), and `ClockAssumption` (see above; tolerances are less than the
largest `Duration`). `TunnelAssumption` also bounds payloads by `maxPayload`.

Loops over data (a sum, the best of a list, the figures of a session) are
recursive functions. The library's induction theorems cannot be instantiated
here, so what such a loop computes is proved by least counterexample: a nonempty
set of naturals has a least member (Smallest, from the library's WFMin), so if
the claim about the first n elements fails for some n, it fails at a first one,
and the step from n - 1 contradicts it. That the recursive function exists at
all is proved the same way (LoopExists).

* **WindowProofs**, anti-replay window - ReplayTypeCorrect, BitmapIsExact,
  DeliveredAtMostOnce, DuplicatesAreReal, and ReplayRefinement:
  `ReplaySpec => ImplementsAntiReplay`. AtMostOnce is
  not inductive: whether a copy is let in is read from the bitmap. The inductive
  invariant is the types, BitmapExact (the bit of each number of the window says
  exactly whether it was delivered), AtMostOnce, NoFalseDuplicate, and that the
  bitmap is empty until the first number. Two numbers of a window never share a position
  (SlotInjective); `clearRange`, and from it `advance`, clears
  exactly the positions of the numbers it passes over (ClearRangeAt, AdvanceAt).
* **WindowProofs**, dedup window - TypeCorrect, RingAndMapAgree, MemoryIsExact. The
  inductive invariant gives each live slot the age of its identity; that no
  identity occupies two slots follows. Refinement:
  `Spec => ImplementsFifoMemory`, where the queue is the ring read from its head,
  each identity with its entry of the map (QueueShape): a duplicate changes one
  entry in place (DuplicateIsAgain), a first copy drops the head and appends
  (FirstIsRemember).
* **WindowProofs**, probe command - ProbeReportsAddUp, for any number of probes,
  flags, window capacity and order of arrival. ProbeRunAddsUp speaks of the end of
  a run; the invariant (ProbeInv) says at each moment that datagrams counted and
  under way are those sent (CountsInv), that the probes which reached the gateway
  or are under way are exactly the sender's so far (ReachedInv), that what
  is under way was sent and comes before the next datagram (WireInv), and
  that the window knows only what reached it, with
  its own invariant to say when it has forgotten.
* **DataGatewayProofs** - of the allocator: AllocTypeCorrect,
  LeasesAlwaysPartition, LeaseAlwaysSticks. Types and partition are inductive
  together: popping the stack needs the popped address to be nobody's.
  Of the gateway: AdmittedHasLease, ReturnToOwner, FreshExact and EgressOwnOnce,
  for any sessions, keys, uplinks, packets, pool and TTL. None is inductive. The
  invariant GatewayInv adds: a key is a lease, save for the one handshake between
  the two (Leased); a session object is the one cached for its id and holds the
  registered key, and a goroutine that fills the cache is alone in it (Cached);
  ServeReturn's call is for the holder of the address, even while Serve admits
  someone (Returning); an endpoint missing from the path set was never recorded or
  is too old (PathInv, from which FreshExact is read off); what was written is in
  the replay window of its key (Written). As no two objects have the same key
  (OneWindow), a packet that window calls new was not written before.
* **RestartProofs**, gateway process - RootOnlyWhenAsked and IdentityNeverChanges, for any
  number of processes, faults and environments. Neither is inductive. The
  invariant adds: between the listener and the signal a process holds the port
  (PortHeld), so at most one is inside `LoadOrCreateIdentity`; a process without
  root has no capability but those a user started it with, save between `setuid`
  and the check (Dropped); and the
  file is absent before it is created, short before it is written, and holds the
  key of a process about to announce it (FileFollows).
  A step of one process is shown to keep all three once, for a record that
  replaces its own (StepKeeps), and each action is an instance of that.
* **ServiceProofs**, entitlement - AdmittedPaid and AccessEnds, for any subjects, clocks and number
  of deliveries. The invariant adds that a purchase called completed is and stays
  paid, that a token expires at most drift, tolerance and TTL after the signing of
  a post that says so (Earned). Of a stamp not ahead by more than `Drift`, the skew
  the code computes bounds its age, even where `time.Sub` saturates (ClockInv,
  SkewExact).
* **ServiceProofs**, probe gateway - CountersAreConserved and ScrapesAreHonest, for
  any datagrams, capacity, summary interval and number of renderings. Between
  datagrams counters and series agree; inside one they differ by the updates
  `Handle` still has to make, which CountInv counts. A rendering under way is
  followed by what it would show if the rest were loaded now (View): a series
  already loaded keeps its value, one still to load has its current one, so the
  view never falls below the total at the beginning nor exceeds the series
  (ViewInv), and when nothing is left to load the view is what is shown.
  ScrapeHonest needs two causes as well: a duplicate's series exists only after a
  first copy was counted, and reasons lag rejections by one at most.
* **SessionTableProofs** - DeliveredOnce,
  NonceNeverRepeats and ForgetIsFinal, for any number of goroutines, identities,
  keys and packet numbers. None is inductive. The invariant adds: a key newly
  derived occurs nowhere yet (Minting); one goroutine at a time is inside
  `DataPlane.mu` (Mutex), and what it found there still holds (InsideInv); a key has
  one identity and at most one session object, which is the cached one as long
  as the store has the key (OneOwner). From OneOwner, what was delivered and sealed
  under a key is what its one object has seen and numbered (Counted).
* **RestartProofs**, both ends - NonceUnique, KeyAgreement and EndToEndOnce, for any
  paths, window width, attempts, keys, packets and restarts. The invariant
  follows each packet (PacketInv): a key no session of an end has had yet has no
  history there; while a session holds the key, what it sealed is at most its
  counter, and what it delivered is exactly its window's `seen`; after that the
  history stands still. An answer in transit names the key the gateway's table
  has, until a restart (NetInv), which gives KeyAgreement. EndToEndOnce is read off
  PacketInv.
* **ClientTunnelProofs** - HandshakesConsumed, HandleLive, AcceptedIsWritten,
  StaysConnected, and ReportedOnce (a start is answered at most once: the safety
  half of StartFinishes), for any number of instances and packets. The invariant
  says who may hold a reference to which session at each stage of start and stop,
  what each of the three callbacks has in its hands, that a buffer the app lends
  holds what is put into it, and that an instance that has
  not started, or has ended, has nothing armed.
* **MacAppProofs** - OneAtATime and TokenKept, for any number of clicks, kills and
  changes from outside, and PolicySound, for any number of paths. For the first,
  the invariant says that while no click came during a connect there is one task
  at most, none once the tunnel was turned off, and it creates a profile only if
  there is none. For the policy, the list of paths names each path once; that a
  first path up exists whenever one is up is the least-element lemma (FirstIn).
  TokenInv says where the token is at each step of the migration.
* **MacAppProofs**, impact figures - ImpactHonestTheorem, for any number of
  segments of any length. What the loop has claimed after n segments (Claimed) is
  compared with the segments themselves: the sums with the time of those that
  count, `inSurvivedDrop` with Survived, the current run with the time since the
  last fall, the longest with all stretches so far (SumsStep, FallsStep, RunStep,
  LongestStep). A stretch lasts from the time at its first segment to that at its
  last (StretchLasts).
* **CommandProofs**, preflight - ReportsAreTrue, for any machine that
  MachineAssumption allows and any changes between the collecting commands. Each
  step's part of the invariant says what it gathered was true of the name when
  gathered, and still is of a name that was not touched (MachineInv,
  FlagsInv, AddressInv, EvidenceInv,
  FunctionsInv); the report is computed from those alone (Candidates, Classified,
  Verdicts).
* **CommandProofs**, benchmark - BenchmarkIsExact, for any targets, pings, timeout
  and pongs. The invariant says of which pings pongs can be under way or unread
  (PongsInv), and that where none came late or twice at most the awaited one is
  unread (CalmInv): without it a stale datagram could use up a read. That `Best`
  is the first target of least loss and then least average is BestIsBest.

Only model-checked:

* liveness (ServeStops, GatewayStops, HealthyPathDelivers, StatusSettles,
  StartFinishes' other half, TearsDown, ComesBack): the prover has no fairness
  reasoning;
* the commands composed: the theorems are about each command's own specification,
  the run about Geminactl, which adds that the others stand still;
* the loop of `NewAllocator`, against its closed form.

## 5. What is not modelled

How a socket is bound to an interface, NAT, the cutting of command output into
blocks and lines, the HTTP exchange with Stripe, the copies between C and Go
buffers: stateless or pure I/O. Byte layouts, wording, log records, JSON and the
metrics text. `Consent.swift` is text. `research/` is not part of the product.

Hazards known and not covered are in `PROJECT.json` with the reason. The main
ones: one read error of the device ends the return loop while the other goes on;
the client's path states are seeded once and not updated; a damaged ClientHello
is answered and leaves both ends with different keys; a subject with the
separator can pay and never get a token. Also met while modelling, and outside
every property: leases are never released by the gateway; `resolveInterface`
waits without a timeout; the identity file is neither written atomically nor
synced; a metrics address in use is only logged; `primaryWiFiInterfaceName` may
time out, and the gateway socket is then not pinned to an interface;
`TunnelController.lastError`, where `connect` says errors surface, is never
assigned.

## 6. Findings

`docs/security/stage-2-session-security.md:21`: "A SessionID/key pair is
**single-use for the gateway's lifetime**." `SessionStore.Forget`
(`internal/gateway/admission.go:72`) deletes the only record of an id, and
`register` then accepts it again. Run session_id_reuse: handshake,
`DataPlane.Forget`, handshake with the same id, answered with a second key. The
properties that matter for the cipher (NonceNeverRepeats, DeliveredOnce) are per
key and hold all the same.

`pkg/clientcore/handshake_message.go:22`: "CheckHandshakeFresh reports whether a
ClientHello timestamp is within tolerance of now (in either direction)." For a
timestamp ahead of the clock by more than the largest `Duration` (292 years)
`time.Sub` returns the smallest one, whose negation is itself: the skew stays
negative and passes. Run hello_tolerance shows such a hello admitted. AccessEnds
holds all the same, for it rests on the token's expiry; its second part, about
late hellos, is for clocks that are not ahead.

## 7. Plan

Built in this order: windows, probe server, session table, allocator and path
set, their composition, the two ends, the client, entitlement; then the gateway
process, geminactl with preflight and benchmark, the app; proofs of the windows
with both refinements, the session table, the two ends, the gateway process and
entitlement, the running gateway with its allocator, the tunnel extension, the
app, the probe gateway, the impact figures, the commands of geminactl. Every
safety property of a passing run is now a theorem; what is left is liveness.
