--------------------------- MODULE GatewayProcess ---------------------------
(***************************************************************************)
(* cmd/gateway: the life of a gateway process from main to exit, with      *)
(* privdrop.go, internal/gateway/identity.go and internal/exit/tun_linux.go*)
(* as it calls them.  A supervisor (Restart=always in deploy/systemd)      *)
(* starts it again whenever it is down, and two processes may overlap, as  *)
(* they do while a new deployment replaces the old one.  Every system call *)
(* is a step.  A call that fails and a process that is killed look the     *)
(* same from outside, since each error ends in os.Exit: both are Fault.    *)
(* What the host keeps (identity file, TUN interface, ports) is apart from *)
(* what a process loses.  Definitions named X_Y are mistaken variants of X.*)
(***************************************************************************)
EXTENDS Integers, FiniteSets

CONSTANTS
  Procs,      \* process instances that may overlap
  Keys,       \* Ed25519 keys rand may produce
  Configs,    \* environments the operator may choose: see ConfigType
  Files,      \* identity files the first start may find: see FileType
  RunAs,      \* the uid GEMINA_GATEWAY_RUN_AS names, not 0
  MaxFaults   \* bound: failed calls, kills and signals

NoKey == "no key"
Nobody == "nobody"
Uids == {0, RunAs, RunAs + 1}
CapSets == {"CapPrm", "CapEff", "CapAmb"}

\* The capabilities the kernel asks for: CAP_NET_ADMIN, CAP_SETUID with
\* CAP_SETGID, and CAP_DAC_OVERRIDE.
Capabilities == {"net_admin", "setids", "dac_override"}

ConfigType == [
  mode        : {"probe", "data"},
  uid         : Uids,              \* the uid the process is started with
  held        : SUBSET CapSets,    \* its capability sets that are not empty
  grants      : SUBSET Capabilities, \* ... and what is in them
  keep        : SUBSET CapSets,    \* what securebits keep when uid 0 is left
  dir         : Uids,              \* the owner of the state directory
  runAs       : {"root", "id", "bad"},
  exit        : BOOLEAN,           \* GEMINA_GATEWAY_EXIT=on
  tun         : {"none", "owned", "provisioned"},  \* set up by the host, for
                                   \* uid, or for RunAs if the start is as root
  entitlement : BOOLEAN,           \* not (hosted and no key)
  metrics     : BOOLEAN]           \* GEMINA_GATEWAY_METRICS_ADDR is set

FileType == [state : {"absent", "partial", "whole"},
             key   : Keys \cup {NoKey},
             owner : Uids]

ASSUME ProcessAssumption ==
  /\ Nobody \notin Procs /\ NoKey \notin Keys
  /\ RunAs \in Nat \ {0} /\ MaxFaults \in Nat
  /\ Configs \subseteq ConfigType /\ Files \subseteq FileType
  /\ \A f \in Files : f.state = "whole" => f.key \in Keys

VARIABLES
  config,     \* the environment, fixed
  proc,       \* process -> [pc, uid, caps, key, metrics]
  port,       \* the process that holds the UDP port
  tun,        \* the process attached to the TUN interface
  mtu,        \* the interface has the requested MTU
  file,       \* the identity file
  announced,  \* public keys logged, which clients pin
  faults      \* faults left

processVars == <<config, proc, port, tun, mtu, file, announced, faults>>

Down == [pc |-> "down", uid |-> 0, caps |-> {}, key |-> NoKey, metrics |-> "off"]

ProcessInit ==
  /\ config \in Configs
  /\ proc = [p \in Procs |-> Down]
  /\ port = Nobody /\ tun = Nobody
  /\ mtu = (config.tun = "provisioned")
  /\ file \in Files
  /\ announced = {}
  /\ faults = MaxFaults

At(p, label) == proc[p].pc = label
Goto(p, label) == proc' = [proc EXCEPT ![p].pc = label]

\* The process ends and the kernel closes what it held; an interface the host
\* did not set up goes with its last descriptor.
Ends(p) ==
  /\ proc' = [proc EXCEPT ![p] = Down]
  /\ port' = IF port = p THEN Nobody ELSE port
  /\ tun' = IF tun = p THEN Nobody ELSE tun
  /\ mtu' = IF tun = p /\ config.tun = "none" THEN FALSE ELSE mtu
  /\ UNCHANGED <<file, announced>>

-----------------------------------------------------------------------------
\* main, up to the choice of mode; root or not, with the capabilities the
\* container, the unit (ambient) or the binary (file) gives it.
Start(p) ==
  /\ At(p, "down")
  /\ proc' = [proc EXCEPT ![p] =
       [Down EXCEPT !.pc = "listen", !.uid = config.uid, !.caps = config.held]]
  /\ UNCHANGED <<port, tun, mtu, file, announced>>

AfterListen ==
  CASE config.mode = "probe" -> "metrics"
    [] config.mode = "data" /\ config.exit -> "tunsetiff"
    [] OTHER -> "run_as"

ListenPacket_Shared(p) ==
  /\ At(p, "listen")
  /\ port' = p /\ Goto(p, AfterListen)
  /\ UNCHANGED <<tun, mtu, file, announced>>

\* One process at a time has the port; the others exit with "listen".
ListenPacket(p) ==
  /\ At(p, "listen")
  /\ \/ /\ port = Nobody
        /\ port' = p /\ Goto(p, AfterListen)
        /\ UNCHANGED <<tun, mtu, file, announced>>
     \/ port # Nobody /\ Ends(p)

-----------------------------------------------------------------------------
\* The kernel's question before a privileged call.
Capable(p, capability) == "CapEff" \in proc[p].caps /\ capability \in config.grants

\* openExitDevice: OpenTUN attaches to the interface, which needs CAP_NET_ADMIN
\* or an interface made for this uid, and no other process on it.
tunSetIff(p) ==
  /\ At(p, "tunsetiff")
  /\ LET may == /\ tun = Nobody
                /\ \/ Capable(p, "net_admin")
                   \/ config.tun # "none" /\ proc[p].uid # 0
     IN
     \/ /\ may
        /\ tun' = p /\ Goto(p, "set_mtu")
        /\ UNCHANGED <<port, mtu, file, announced>>
     \/ ~may /\ Ends(p)

setMTU_NeverSkips(p) ==
  /\ At(p, "set_mtu")
  /\ \/ /\ Capable(p, "net_admin")
        /\ mtu' = TRUE /\ Goto(p, "run_as")
        /\ UNCHANGED <<port, tun, file, announced>>
     \/ ~Capable(p, "net_admin") /\ Ends(p)

\* setMTU: nothing to do when the interface has the MTU, else SIOCSIFMTU.
setMTU(p) ==
  /\ At(p, "set_mtu")
  /\ LET may == mtu \/ Capable(p, "net_admin") IN
     \/ /\ may
        /\ mtu' = TRUE /\ Goto(p, "run_as")
        /\ UNCHANGED <<port, tun, file, announced>>
     \/ ~may /\ Ends(p)

-----------------------------------------------------------------------------
\* A positive number for the uid, and for the gid if there is one.
parseRunAs == config.runAs = "id"

\* dropToRunAs: "root" keeps what there is; an id that does not parse ends the
\* process; one that is not root is left alone.
dropToRunAs(p) ==
  /\ At(p, "run_as")
  /\ \/ /\ \/ config.runAs = "root"
           \/ parseRunAs /\ proc[p].uid # 0
        /\ Goto(p, "identity")
        /\ UNCHANGED <<port, tun, mtu, file, announced>>
     \/ /\ parseRunAs /\ proc[p].uid = 0
        /\ Goto(p, "setgid")
        /\ UNCHANGED <<port, tun, mtu, file, announced>>
     \/ config.runAs # "root" /\ ~parseRunAs /\ Ends(p)

\* dropPrivileges: the groups while still root.
Setgid(p) ==
  /\ At(p, "setgid")
  /\ \/ /\ Capable(p, "setids")
        /\ Goto(p, "setuid")
        /\ UNCHANGED <<port, tun, mtu, file, announced>>
     \/ ~Capable(p, "setids") /\ Ends(p)

\* Leaving uid 0 clears the capability sets, but for what securebits keep.
Setuid(p) ==
  /\ At(p, "setuid")
  /\ proc' = [proc EXCEPT ![p].uid = RunAs, ![p].caps = @ \cap config.keep,
                          ![p].pc = "verify"]
  /\ UNCHANGED <<port, tun, mtu, file, announced>>

checkNoCapabilities_OnlyEff(caps) == "CapEff" \notin caps
checkNoCapabilities(caps) == caps = {}

\* The check after the drop: setuid(0) must fail, which it does without an
\* effective CAP_SETUID, and no capability may be left.
VerifyDrop(p) ==
  /\ At(p, "verify")
  /\ LET dropped == /\ ~Capable(p, "setids")
                    /\ checkNoCapabilities(proc[p].caps) IN
     \/ /\ dropped
        /\ Goto(p, "identity")
        /\ UNCHANGED <<port, tun, mtu, file, announced>>
     \/ ~dropped /\ Ends(p)

-----------------------------------------------------------------------------
\* The kernel's checks on the key, which is 0600, and on its directory: root
\* without CAP_DAC_OVERRIDE is a user like any other.
MayAccess(p) == file.owner = proc[p].uid \/ Capable(p, "dac_override")
MayCreate(p) == config.dir = proc[p].uid \/ Capable(p, "dac_override")
UnusedKeys == Keys \ (announced \cup {file.key} \cup {proc[q].key : q \in Procs})

\* LoadOrCreateIdentity: ReadFile, and GenerateKey when there is no file.
LoadOrCreateIdentity(p) ==
  /\ At(p, "identity")
  /\ \/ /\ file.state = "whole" /\ MayAccess(p)
        /\ proc' = [proc EXCEPT ![p].key = file.key, ![p].pc = "announce"]
        /\ UNCHANGED <<port, tun, mtu, file, announced>>
     \/ /\ file.state = "absent"
        /\ \E k \in UnusedKeys :
             proc' = [proc EXCEPT ![p].key = k, ![p].pc = "create"]
        /\ UNCHANGED <<port, tun, mtu, file, announced>>
     \/ /\ \/ file.state = "partial"
           \/ file.state = "whole" /\ ~MayAccess(p)
        /\ Ends(p)

\* os.WriteFile opens the file with O_CREATE|O_TRUNC ...
CreateFile(p) ==
  /\ At(p, "create")
  /\ LET may == IF file.state = "absent" THEN MayCreate(p) ELSE MayAccess(p) IN
     \/ /\ may
        /\ file' = [state |-> "partial", key |-> NoKey,
                    owner |-> IF file.state = "absent" THEN proc[p].uid
                                                       ELSE file.owner]
        /\ Goto(p, "write")
        /\ UNCHANGED <<port, tun, mtu, announced>>
     \/ ~may /\ Ends(p)

\* ... and writes it: a process that ends in between leaves it short.
WriteFile(p) ==
  /\ At(p, "write")
  /\ file' = [file EXCEPT !.state = "whole", !.key = proc[p].key]
  /\ Goto(p, "announce")
  /\ UNCHANGED <<port, tun, mtu, announced>>

\* "gateway identity ... public_key": from now on clients may pin the key.
Announce(p) ==
  /\ At(p, "announce")
  /\ announced' = announced \cup {proc[p].key}
  /\ Goto(p, "tier")
  /\ UNCHANGED <<port, tun, mtu, file>>

\* The tier, then NewDataGateway and exitDevice.enable, which cannot fail
\* (AssertIPForward only warns).
Tier(p) ==
  /\ At(p, "tier")
  /\ \/ /\ config.entitlement
        /\ Goto(p, "metrics")
        /\ UNCHANGED <<port, tun, mtu, file, announced>>
     \/ ~config.entitlement /\ Ends(p)

-----------------------------------------------------------------------------
\* startMetricsServer starts its goroutines and main goes on to Serve.
StartMetrics(p) ==
  /\ At(p, "metrics")
  /\ proc' = [proc EXCEPT ![p].pc = "serve",
                          ![p].metrics = IF config.metrics THEN "starting" ELSE "off"]
  /\ UNCHANGED <<port, tun, mtu, file, announced>>

\* ListenAndServe: an address in use is logged and nothing else.
MetricsListen(p) ==
  /\ proc[p].metrics = "starting"
  /\ proc' = [proc EXCEPT ![p].metrics =
       IF At(p, "stopping") THEN "closed"
       ELSE IF \E q \in Procs : proc[q].metrics = "listening" THEN "failed"
       ELSE "listening"]
  /\ UNCHANGED <<port, tun, mtu, file, announced>>

MetricsShutdown(p) ==
  /\ At(p, "stopping") /\ proc[p].metrics = "listening"
  /\ proc' = [proc EXCEPT ![p].metrics = "closed"]
  /\ UNCHANGED <<port, tun, mtu, file, announced>>

\* SIGTERM once NotifyContext is in place: Serve closes the socket, returns
\* nil, and main returns without waiting for the metrics server.
Signal(p) ==
  /\ At(p, "serve") /\ faults > 0
  /\ faults' = faults - 1
  /\ port' = Nobody /\ Goto(p, "stopping")
  /\ UNCHANGED <<config, tun, mtu, file, announced>>

Return(p) == At(p, "stopping") /\ Ends(p)

\* A call fails and the process exits, or it is killed.
Fault(p) ==
  /\ ~At(p, "down") /\ faults > 0
  /\ faults' = faults - 1
  /\ Ends(p)
  /\ UNCHANGED config

-----------------------------------------------------------------------------
Step(p) ==
  /\ \/ Start(p) \/ ListenPacket(p) \/ tunSetIff(p) \/ setMTU(p)
     \/ dropToRunAs(p) \/ Setgid(p) \/ Setuid(p) \/ VerifyDrop(p)
     \/ LoadOrCreateIdentity(p) \/ CreateFile(p) \/ WriteFile(p)
     \/ Announce(p) \/ Tier(p) \/ StartMetrics(p) \/ Return(p)
  /\ UNCHANGED <<config, faults>>

Metrics(p) ==
  /\ MetricsListen(p) \/ MetricsShutdown(p)
  /\ UNCHANGED <<config, faults>>

ProcessNext == \E p \in Procs : Step(p) \/ Metrics(p) \/ Signal(p) \/ Fault(p)

\* A process runs on, and the supervisor starts it again.
ProcessFairness == \A p \in Procs : WF_processVars(Step(p)) /\ WF_processVars(Metrics(p))

ProcessSpec == ProcessInit /\ [][ProcessNext]_processVars /\ ProcessFairness

-----------------------------------------------------------------------------
(* The privilege boundary of runDataGateway's comment: the identity file, the
   metrics server and the packet path are reached only without root and
   without a capability, whatever of the drop failed or left something
   behind.  There are two exceptions: the operator wrote
   GEMINA_GATEWAY_RUN_AS=root, or the process was not root to begin with and
   "is left alone", with the ambient or file capabilities it was given (the
   check for capabilities comes after the drop, and there was none). *)
PastBoundary == {"identity", "create", "write", "announce", "tier", "metrics",
                 "serve", "stopping"}
NoneGained(uid, caps) ==
  caps = {} \/ (config.uid # 0 /\ uid = config.uid /\ caps = config.held)
RootOnlyOnRequest ==
  \A p \in Procs :
    (config.mode = "data" /\ proc[p].pc \in PastBoundary)
      => \/ config.runAs = "root"
         \/ proc[p].uid # 0 /\ NoneGained(proc[p].uid, proc[p].caps)

(* "A new key would break every client's pin": a key that was announced is in
   the identity file, whole, and is the key of every gateway that serves,
   wherever earlier processes were killed and although two may start at once
   (LoadOrCreateIdentity has no lock; the UDP port, bound before, is one). *)
IdentityPinned ==
  /\ \A k \in announced : file.state = "whole" /\ file.key = k
  /\ \A p \in Procs :
       (config.mode = "data" /\ At(p, "serve")) => proc[p].key \in announced

\* What a start needs, read from the environment and the identity file.
MayServe ==
  LET drops == config.uid = 0 /\ config.runAs = "id"
      uid == IF drops THEN RunAs ELSE config.uid
      may(capability) == "CapEff" \in config.held /\ capability \in config.grants
      owns(owner) == owner = uid \/ (~drops /\ may("dac_override"))
  IN \/ config.mode = "probe"
     \/ /\ config.exit => \/ may("net_admin")
                          \/ config.uid # 0 /\ config.tun = "provisioned"
        /\ config.runAs # "bad"
        /\ drops => may("setids") /\ config.keep \cap config.held = {}
        /\ config.entitlement
        /\ \/ file.state = "absent" /\ owns(config.dir)
           \/ file.state = "whole" /\ owns(file.owner)

(* Once calls stop failing, a gateway serves for good exactly when its
   environment and its identity file allow it: no order of kills, restarts
   and overlapping starts leaves a port, an interface or a file behind that
   keeps the next start out, except the short identity file of a process
   killed inside WriteFile. *)
ComesBack == <>[]((\E p \in Procs : At(p, "serve")) <=> MayServe)
=============================================================================
