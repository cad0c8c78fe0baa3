----------------------------- MODULE Preflight -----------------------------
(***************************************************************************)
(* geminactl preflight and darwin-evidence: internal/platform/darwin       *)
(* collects evidence with one command after another, internal/paths        *)
(* classifies it, internal/diagnostics turns it into a verdict.  The       *)
(* machine goes on changing meanwhile: links drop, phones are plugged in,  *)
(* and a name that became free is given to other hardware.                 *)
(* A line of command output is modelled by the words the parsers look for. *)
(* Definitions named X_Y are mistaken variants of X.                       *)
(***************************************************************************)
EXTENDS Integers, Sequences, FiniteSets

CONSTANTS
  Nics,       \* BSD names the machine may have
  Hardware,   \* what may have a name: [device, port, words], what it is, its
              \* hardware port in networksetup, the words of its block in ioreg
  LinkStates, \* sets of "present", "up", "running", "ipv4" a link may be in
  UsbFunctions, \* USB interface descriptors that may be on the bus
  Versions,   \* what sw_vers may print: <<major, minor>>, or <<>>
  MaxChanges  \* bound: changes of the machine during a collection

Roles == {"wi-fi", "android-usb-tether"}
Device(role) == IF role = "wi-fi" THEN "wi-fi" ELSE "phone"

\* Whether a piece of hardware gives evidence of a role.
Says(role, h) ==
  IF role = "wi-fi" THEN h.port \in {"wifi", "ieee80211", "airport"}
  ELSE "android" \in h.words /\ {"rndis", "tether"} \cap h.words # {}

\* What gives evidence of one role alone is that, and nothing else is; what
\* gives evidence of both may be anything.  A link that is not there has no
\* state; a version that parses begins with its major number.
ASSUME MachineAssumption ==
  /\ IsFiniteSet(Nics) /\ "none" \notin Nics
  /\ \A h \in Hardware, role \in Roles :
       h.device = Device(role)
         <=> Says(role, h) /\ \A other \in Roles \ {role} : ~Says(other, h)
  /\ \A s \in LinkStates : s # {} => "present" \in s
  /\ Versions \subseteq Seq(Nat)

VARIABLES
  nic,        \* name -> its link state; {} when it is not there
  hw,         \* name -> the hardware that has it
  bus,        \* the USB functions plugged in
  version,    \* the macOS version
  collect,    \* the collection: [pc, flags, ipv4, evidence, functions, version]
  report,     \* the report printed
  changes,    \* changes of the machine since the collection began
  touched,    \* history: names whose link or hardware changed
  was         \* history: name -> what was so of it during the collection

machineVars == <<nic, hw, bus, version, changes, touched, was>>
preflightVars == <<machineVars, collect, report>>

NoNic == "none"
NoIssue == ""
NoReport == [kind |-> "none"]

-----------------------------------------------------------------------------
(* The evidence vocabulary: evidence.go, live_evidence.go, usb_functions.go *)

isWiFiEvidenceValue(value) == value \in {"wifi", "ieee80211", "airport"}

blockHasAndroidUSBTetherEvidence(words) ==
  "android" \in words /\ ("rndis" \in words \/ "tether" \in words)

\* Class, subclass and protocol of the RNDIS control interface.
blockIsAndroidRNDISControl(descriptor) == descriptor = <<224, 1, 3>>

\* Conflicting evidence is no evidence.
LinkKindFromEvidence(evidence) ==
  CASE evidence = {"wifi"} -> "wi-fi"
    [] evidence = {"android-rndis"} -> "android-usb-tether"
    [] OTHER -> "unknown"

-----------------------------------------------------------------------------
(* The classifier: internal/paths *)

Usable(observation) ==
  /\ observation.up /\ observation.running
  /\ ~observation.loopback /\ observation.hasIPv4

matchingUsable(kind, observations) ==
  {n \in DOMAIN observations :
     observations[n].kind = kind /\ Usable(observations[n])}

classifyRole_TakesFirst(role, observations) ==
  LET matches == matchingUsable(role, observations) IN
  IF matches = {} THEN [candidate |-> NoNic, issue |-> "missing-candidate"]
  ELSE [candidate |-> CHOOSE n \in matches : TRUE, issue |-> NoIssue]

classifyRole(role, observations) ==
  LET matches == matchingUsable(role, observations) IN
  CASE matches = {} ->
         [candidate |-> NoNic, issue |-> "missing-candidate"]
    [] Cardinality(matches) = 1 ->
         [candidate |-> CHOOSE n \in matches : TRUE, issue |-> NoIssue]
    [] OTHER ->
         [candidate |-> NoNic, issue |-> "ambiguous-candidate"]

Classify(observations) == [role \in Roles |-> classifyRole(role, observations)]

Complete(classification) ==
  \A role \in Roles : classification[role].candidate # NoNic

-----------------------------------------------------------------------------
(* The verdict: internal/diagnostics *)

\* A claimed tether is a candidate; else an RNDIS function on the bus will do.
androidTetherSupport(classification, functions) ==
  CASE classification["android-usb-tether"].candidate # NoNic ->
         [present |-> TRUE, usable |-> TRUE, mode |-> "native-ncm"]
    [] classification["android-usb-tether"].candidate = NoNic
         /\ functions > 0 ->
         [present |-> TRUE, usable |-> FALSE, mode |-> "app-driver-rndis"]
    [] OTHER -> [present |-> FALSE, usable |-> FALSE, mode |-> "none"]

decideVerdict(macOSSupported, wifi, android) ==
  CASE ~macOSSupported -> "unsupported-macos"
    [] macOSSupported /\ wifi /\ android -> "supported"
    [] macOSSupported /\ wifi /\ ~android -> "needs-android"
    [] macOSSupported /\ ~wifi /\ android -> "needs-wifi"
    [] OTHER -> "needs-both"

minMacOSMajor == 11

\* Whether the version parses, and its major number when it does.
parseMacOSMajor(v) == IF v = <<>> THEN [n |-> 0, ok |-> FALSE]
                                  ELSE [n |-> Head(v), ok |-> TRUE]

nextStep(verdict, ok) ==
  CASE verdict = "supported"     -> {}
    [] verdict = "needs-android" -> {"connect-android"}
    [] verdict = "needs-wifi"    -> {"join-wifi"}
    [] verdict = "needs-both"    -> {"join-wifi", "connect-android"}
    [] OTHER -> IF ok THEN {"update-macos"} ELSE {"find-macos-version"}

BuildCompatibilityReport(observations, functions, v) ==
  LET classification == Classify(observations)
      wifi    == classification["wi-fi"].candidate # NoNic
      tether  == androidTetherSupport(classification, functions)
      major   == parseMacOSMajor(v)
      verdict == decideVerdict(major.ok /\ major.n >= minMacOSMajor,
                               wifi, tether.present)
  IN [kind |-> "preflight", verdict |-> verdict, ready |-> verdict = "supported",
      tether |-> tether, nextStep |-> nextStep(verdict, major.ok),
      candidates |-> [role \in Roles |-> classification[role].candidate]]

\* An unclaimed function explains a tether without a candidate.
deviceFunctionIssues(classification, functions) ==
  IF functions > 0 /\ classification["android-usb-tether"].candidate = NoNic
  THEN {<<"tether-present-not-usable", "android-usb-tether">>} ELSE {}

diagnosticCandidates(classification) ==
  [role \in Roles |-> classification[role].candidate]

diagnosticIssues(classification) ==
  {<<classification[role].issue, role>> :
     role \in {r \in Roles : classification[r].issue # NoIssue}}

BuildDarwinEvidenceReport(observations, functions) ==
  LET classification == Classify(observations) IN
  [kind |-> "darwin-evidence", complete |-> Complete(classification),
   candidates |-> diagnosticCandidates(classification),
   issues |-> diagnosticIssues(classification)
              \cup deviceFunctionIssues(classification, functions)]

-----------------------------------------------------------------------------
Present == {n \in Nics : "present" \in nic[n]}
Connected == {n \in Nics : {"up", "running"} \subseteq nic[n]}
Addressed == {n \in Nics : "ipv4" \in nic[n]}
FlagsOf(n) == [up |-> "up" \in nic[n], running |-> "running" \in nic[n],
               loopback |-> hw[n].device = "loopback"]

\* What is so of a name now: it is up, has an address, gives evidence of a role.
Facts(n) ==
  {f \in {"up"} : n \in Connected} \cup {f \in {"ipv4"} : n \in Addressed}
  \cup {role \in Roles : n \in Present /\ Says(role, hw[n])}

PreflightInit ==
  /\ nic \in [Nics -> LinkStates] /\ hw \in [Nics -> Hardware]
  /\ bus \in SUBSET UsbFunctions
  /\ version \in Versions
  /\ collect = [pc |-> "interfaces", flags |-> <<>>, ipv4 |-> {},
                evidence |-> [n \in Nics |-> {}], functions |-> 0]
  /\ report = NoReport
  /\ changes = 0 /\ touched = {}
  /\ was = [n \in Nics |-> Facts(n)]

\* NetInterfaceSource.Interfaces lists the interfaces with their flags ...
ListInterfaces ==
  /\ collect.pc = "interfaces"
  /\ collect' = [collect EXCEPT !.pc = "addresses",
                                !.flags = [n \in Present |-> FlagsOf(n)]]
  /\ UNCHANGED <<machineVars, report>>

\* ... and then asks for the addresses of each.
ListAddresses ==
  /\ collect.pc = "addresses"
  /\ collect' = [collect EXCEPT !.pc = "networksetup",
       !.ipv4 = Addressed \cap DOMAIN collect.flags]
  /\ UNCHANGED <<machineVars, report>>

\* CombinedInterfaceSource.Interfaces adds evidence by BSD name.
Merge(names, value) ==
  [n \in Nics |-> collect.evidence[n] \cup (IF n \in names THEN {value} ELSE {})]

\* networksetup -listallhardwareports
WiFiEvidence ==
  /\ collect.pc = "networksetup"
  /\ collect' = [collect EXCEPT !.pc = "ioreg",
       !.evidence = Merge({n \in Present : isWiFiEvidenceValue(hw[n].port)},
                          "wifi")]
  /\ UNCHANGED <<machineVars, report>>

\* ioreg -r -c IOEthernetInterface -l
AndroidEvidence ==
  /\ collect.pc = "ioreg"
  /\ collect' = [collect EXCEPT !.pc = "usb",
       !.evidence =
         Merge({n \in Present :
                  blockHasAndroidUSBTetherEvidence(hw[n].words)},
               "android-rndis")]
  /\ UNCHANGED <<machineVars, report>>

\* ioreg -r -c IOUSBHostInterface -l
TetherFunctions ==
  /\ collect.pc = "usb"
  /\ collect' = [collect EXCEPT !.pc = "report",
       !.functions = Cardinality({f \in bus : blockIsAndroidRNDISControl(f)})]
  /\ UNCHANGED <<machineVars, report>>

\* snapshotFromInterfaceRecord and InterfaceSnapshot.Observation.
Observations ==
  [n \in DOMAIN collect.flags |->
     [kind |-> LinkKindFromEvidence(collect.evidence[n]),
      up |-> collect.flags[n].up, running |-> collect.flags[n].running,
      loopback |-> collect.flags[n].loopback, hasIPv4 |-> n \in collect.ipv4]]

\* runPreflight reads the version last; runDarwinEvidence does not need it.
ReportPreflight ==
  /\ collect.pc = "report"
  /\ report' = BuildCompatibilityReport(Observations, collect.functions, version)
  /\ collect' = [collect EXCEPT !.pc = "done"]
  /\ UNCHANGED machineVars

ReportEvidence ==
  /\ collect.pc = "report"
  /\ report' = BuildDarwinEvidenceReport(Observations, collect.functions)
  /\ collect' = [collect EXCEPT !.pc = "done"]
  /\ UNCHANGED machineVars

\* A command or a system call fails: no report at all.
CollectFails ==
  /\ collect.pc \notin {"done", "failed"}
  /\ collect' = [collect EXCEPT !.pc = "failed"]
  /\ UNCHANGED <<machineVars, report>>

Collection == ListInterfaces \/ ListAddresses \/ WiFiEvidence \/ AndroidEvidence
              \/ TetherFunctions \/ CollectFails

\* Outside: a link or an address comes or goes, other hardware takes a name, a
\* USB function is plugged in or out.
MachineChanges ==
  /\ changes < MaxChanges /\ collect.pc \notin {"done", "failed"}
  /\ \/ /\ \E n \in Nics, h \in Hardware, s \in LinkStates :
             /\ <<h, s>> # <<hw[n], nic[n]>>
             /\ hw' = [hw EXCEPT ![n] = h] /\ nic' = [nic EXCEPT ![n] = s]
             /\ touched' = touched \cup {n}
        /\ UNCHANGED bus
     \/ /\ \E f \in UsbFunctions :
             bus' = IF f \in bus THEN bus \ {f} ELSE bus \cup {f}
        /\ UNCHANGED <<nic, hw, touched>>
  /\ changes' = changes + 1
  /\ was' = [n \in Nics |-> was[n] \cup Facts(n)']
  /\ UNCHANGED <<version, collect, report>>

\* Either command, on a machine that may change at any moment.
PreflightNext == Collection \/ ReportPreflight \/ ReportEvidence \/ MachineChanges
PreflightSpec == PreflightInit /\ [][PreflightNext]_preflightVars

-----------------------------------------------------------------------------
\* What is true of the machine, read from its hardware.
LiveLinks(device) ==
  {n \in Connected \cap Addressed : hw[n].device = device}
One(set) == Cardinality(set) = 1
Tetherable == <<224, 1, 3>> \in bus

VerdictIsTrue ==
  LET wifi == One(LiveLinks("wi-fi"))
      ncm  == One(LiveLinks("phone"))
      mac  == version # <<>> /\ version[1] >= 11
  IN
  /\ report.ready <=> mac /\ wifi /\ (ncm \/ Tetherable)
  /\ mac => /\ "join-wifi" \in report.nextStep <=> ~wifi
            /\ "connect-android" \in report.nextStep <=> ~ncm /\ ~Tetherable
  /\ report.tether.usable <=> ncm

IssuesAreTrue ==
  LET Live(role) == LiveLinks(Device(role))
      Issue(what, role) == <<what, role>> \in report.issues
      Phone == "android-usb-tether"
  IN
  /\ report.complete <=> \A role \in Roles : One(Live(role))
  /\ \A role \in Roles :
       /\ Issue("missing-candidate", role) <=> Live(role) = {}
       /\ Issue("ambiguous-candidate", role) <=> Cardinality(Live(role)) > 1
  /\ Issue("tether-present-not-usable", Phone) <=> Tetherable /\ ~One(Live(Phone))

(* On a machine that did not change, the verdict and the evidence report are
   the truth about it: ready exactly when macOS is new enough, there is one
   live Wi-Fi link, and a phone is one live link or can be driven over RNDIS.
   The user is told to join Wi-Fi whenever there is not exactly one live Wi-Fi
   link, so also when there are two, and to connect a phone likewise; a role
   without a candidate has the issue that tells the two cases apart, and a
   function on the bus never counts as a candidate (the comment on
   USBTetherFunction).
   Evidence is joined by name (live_evidence.go:81), and the machine may change
   between two commands.  Then a candidate whose name was left alone is a live
   link of its role still, and no other such link was passed over for it.  Of
   a candidate whose name was not, it is only so that the name was up, had an
   address and gave evidence of the role at some moment each: it may combine
   what was read of one piece of hardware with what was read of the next. *)
ReportIsTrue ==
  collect.pc = "done" =>
    /\ changes = 0 => IF report.kind = "preflight" THEN VerdictIsTrue
                                                   ELSE IssuesAreTrue
    /\ \A role \in Roles :
         LET n == report.candidates[role]
             steady == LiveLinks(Device(role)) \ touched
         IN n # NoNic => /\ {"up", "ipv4", role} \subseteq was[n]
                         /\ n \in touched \cup steady
                         /\ steady \subseteq {n}
=============================================================================
