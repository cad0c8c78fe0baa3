--------------------------- MODULE CommandProofs ----------------------------
(***************************************************************************)
(* Proofs about the commands of geminactl that measure, for any machine,   *)
(* targets and number of pings, and whatever the network and the machine   *)
(* do meanwhile.  Each command has an invariant of its own, proved of its  *)
(* own specification.                                                      *)
(***************************************************************************)
EXTENDS Preflight, Benchmark, FiniteSetTheorems, WellFoundedInduction, TLAPS

-----------------------------------------------------------------------------
(* The order of recommend: loss first, then the average.                   *)

(* What does not beat a result is behind it or equal to it. *)
LEMMA BehindOrEqual ==
  \A l1, a1, l2, a2 \in Int :
    ~(l1 < l2) /\ ~(l1 = l2 /\ a1 < a2)
    => l1 > l2 \/ (l1 = l2 /\ (a1 > a2 \/ a1 = a2))
OBVIOUS

-----------------------------------------------------------------------------
(* geminactl preflight and geminactl darwin-evidence.                      *)

\* The steps after net.Interfaces, and after the evidence of a role is read;
\* the word for that evidence; the names left alone since the collection began.
Began == {"addresses", "networksetup", "ioreg", "usb", "report"}
Asked(role) == IF role = "wi-fi" THEN {"ioreg", "usb", "report"} ELSE {"usb", "report"}
Word(role) == IF role = "wi-fi" THEN "wifi" ELSE "android-rndis"
Steady == Nics \ touched

\* The machine, and what was so of it since the collection began.
MachineInv ==
  /\ nic \in [Nics -> LinkStates] /\ hw \in [Nics -> Hardware]
  /\ version \in Versions /\ changes \in Nat /\ (changes = 0 => touched = {})
  /\ \A n \in Nics : Facts(n) \subseteq was[n]

\* The flags: of names that were up when they say so, exact of those left alone.
FlagsInv ==
  collect.pc \in Began =>
    /\ DOMAIN collect.flags \subseteq Nics
    /\ \A n \in DOMAIN collect.flags :
         collect.flags[n].up /\ collect.flags[n].running => "up" \in was[n]
    /\ \A n \in Steady :
         /\ n \in DOMAIN collect.flags <=> n \in Present
         /\ n \in Present =>
              /\ collect.flags[n].up /\ collect.flags[n].running <=> n \in Connected
              /\ collect.flags[n].loopback <=> hw[n].device = "loopback"

\* The addresses: of names that had one, exact of those left alone.
AddressInv ==
  collect.pc \in Began \ {"addresses"} =>
    /\ \A n \in collect.ipv4 : n \in Nics /\ "ipv4" \in was[n]
    /\ \A n \in Steady : n \in collect.ipv4 <=> n \in Addressed /\ n \in Present

\* The evidence: given under the name it is filed under, and of a name left
\* alone given by the hardware that has it still.
EvidenceInv ==
  /\ collect.evidence \in [Nics -> SUBSET {"wifi", "android-rndis"}]
  /\ \A n \in Nics, role \in Roles :
       Word(role) \in collect.evidence[n] => role \in was[n]
  /\ \A n \in Steady, role \in Roles :
       /\ Word(role) \in collect.evidence[n] => n \in Present /\ Says(role, hw[n])
       /\ collect.pc \in Asked(role) /\ n \in Present /\ Says(role, hw[n])
            => Word(role) \in collect.evidence[n]

\* The USB functions counted.
FunctionsInv ==
  collect.pc = "report" =>
    collect.functions \in Nat /\ (changes = 0 => (collect.functions > 0 <=> Tetherable))

\* The collection has the fields the steps assign.
CollectShape ==
  collect = [pc |-> collect.pc, flags |-> collect.flags, ipv4 |-> collect.ipv4,
             evidence |-> collect.evidence, functions |-> collect.functions]

\* A step takes what it prints from what the steps before it gathered: the
\* report is as true as each of those was when it was read, and as true as it
\* still is of what did not change.
PreflightInv ==
  /\ MachineInv /\ CollectShape /\ FlagsInv /\ AddressInv /\ EvidenceInv /\ FunctionsInv
  /\ ReportIsTrue

(* Nothing is collected when the command starts. *)
LEMMA InitPreflightInv == PreflightInit => PreflightInv
<1> SUFFICES ASSUME PreflightInit PROVE PreflightInv
  OBVIOUS
<1>1. /\ collect = [pc |-> "interfaces", flags |-> <<>>, ipv4 |-> {},
                    evidence |-> [n \in Nics |-> {}], functions |-> 0]
      /\ changes = 0 /\ touched = {} /\ was = [n \in Nics |-> Facts(n)]
      /\ nic \in [Nics -> LinkStates] /\ hw \in [Nics -> Hardware]
      /\ version \in Versions
  BY DEF PreflightInit
<1>2. collect.pc = "interfaces" /\ collect.evidence = [n \in Nics |-> {}] /\ CollectShape
  BY <1>1 DEF CollectShape
<1>3. MachineInv /\ FlagsInv /\ AddressInv /\ FunctionsInv /\ ReportIsTrue
  BY <1>1, <1>2 DEF MachineInv, FlagsInv, AddressInv, FunctionsInv, ReportIsTrue, Began
<1>4. EvidenceInv
  BY <1>2 DEF EvidenceInv, Asked, Steady
<1> QED
  BY <1>2, <1>3, <1>4 DEF PreflightInv

(* What is so of a name. *)
LEMMA FactsOf ==
  ASSUME NEW n \in Nics
  PROVE  /\ "up" \in Facts(n) <=> n \in Connected
         /\ "ipv4" \in Facts(n) <=> n \in Addressed
         /\ \A role \in Roles : role \in Facts(n) <=> n \in Present /\ Says(role, hw[n])
  BY DEF Facts, Roles

(* What is so of a name was so during the collection. *)
LEMMA FactsWere ==
  ASSUME MachineInv, NEW n \in Nics
  PROVE  /\ n \in Connected => "up" \in was[n]
         /\ n \in Addressed => "ipv4" \in was[n]
         /\ \A role \in Roles : n \in Present /\ Says(role, hw[n]) => role \in was[n]
<1>1. Facts(n) \subseteq was[n]
  BY Zenon DEF MachineInv
<1> QED
  BY <1>1, FactsOf

(* A step of the collection leaves the machine alone. *)
LEMMA MachineQuiet ==
  ASSUME PreflightInv, UNCHANGED machineVars
  PROVE  /\ MachineInv' /\ UNCHANGED <<nic, hw, bus, version, changes, touched, was>>
         /\ Present' = Present /\ Connected' = Connected /\ Addressed' = Addressed
         /\ Tetherable' = Tetherable /\ Steady' = Steady
<1>1. UNCHANGED <<nic, hw, bus, version, changes, touched, was>>
  BY DEF machineVars
<1>2. /\ Present' = Present /\ Connected' = Connected /\ Addressed' = Addressed
      /\ Tetherable' = Tetherable /\ Steady' = Steady
  BY <1>1 DEF Present, Connected, Addressed, Tetherable, Steady
<1>3. \A n \in Nics : Facts(n)' = Facts(n)
  BY <1>1, <1>2 DEF Facts
<1>4. MachineInv'
  BY <1>1, <1>3 DEF PreflightInv, MachineInv
<1> QED
  BY <1>1, <1>2, <1>4

(* net.Interfaces gives the flags of the interfaces there are. *)
LEMMA ListInterfacesInv == ASSUME PreflightInv, ListInterfaces PROVE PreflightInv'
<1>1. PICK fl : fl = [n \in Present |-> FlagsOf(n)]
  BY Zenon
<1>2. /\ collect.pc = "interfaces" /\ UNCHANGED machineVars /\ CollectShape
      /\ collect' = [collect EXCEPT !.pc = "addresses", !.flags = fl]
  BY <1>1, Zenon DEF ListInterfaces, PreflightInv
<1>3. /\ CollectShape' /\ collect'.pc = "addresses" /\ collect'.flags = fl
      /\ collect'.evidence = collect.evidence
  BY <1>2, Zenon DEF CollectShape
<1>4. FlagsInv'
  <2>1. /\ DOMAIN fl = Present /\ Present \subseteq Nics
        /\ \A n \in Present : /\ fl[n].up <=> "up" \in nic[n]
                              /\ fl[n].running <=> "running" \in nic[n]
                              /\ fl[n].loopback <=> hw[n].device = "loopback"
    BY <1>1, Zenon DEF FlagsOf, Present
  <2>2. \A n \in Present : fl[n].up /\ fl[n].running <=> n \in Connected
    BY <2>1 DEF Connected, Present
  <2>3. \A n \in Present : n \in Connected => "up" \in was[n]
    BY <2>1, FactsWere DEF PreflightInv
  <2> QED
    BY <1>2, <1>3, <2>1, <2>2, <2>3, MachineQuiet DEF FlagsInv, Steady
<1>5. AddressInv' /\ FunctionsInv' /\ ReportIsTrue'
  BY <1>3 DEF AddressInv, FunctionsInv, ReportIsTrue
<1>6. EvidenceInv'
  BY <1>2, <1>3, MachineQuiet DEF PreflightInv, EvidenceInv, Asked
<1> QED
  BY <1>2, <1>3, <1>4, <1>5, <1>6, MachineQuiet DEF PreflightInv

(* Interface.Addrs gives the addresses of those interfaces as they are now. *)
LEMMA ListAddressesInv == ASSUME PreflightInv, ListAddresses PROVE PreflightInv'
<1>1. PICK ip : ip = Addressed \cap DOMAIN collect.flags
  BY Zenon
<1>2. /\ collect.pc = "addresses" /\ UNCHANGED machineVars /\ CollectShape
      /\ collect' = [collect EXCEPT !.pc = "networksetup", !.ipv4 = ip]
  BY <1>1, Zenon DEF ListAddresses, PreflightInv
<1>3. /\ CollectShape' /\ collect'.pc = "networksetup" /\ collect'.ipv4 = ip
      /\ collect'.flags = collect.flags /\ collect'.evidence = collect.evidence
  BY <1>2, Zenon DEF CollectShape
<1>4. FlagsInv'
  BY <1>2, <1>3, MachineQuiet DEF PreflightInv, FlagsInv, Began
<1>5. AddressInv'
  <2>1. ip \subseteq Nics
    BY <1>1 DEF Addressed
  <2>2. \A n \in ip : "ipv4" \in was[n]
    BY <1>1, <2>1, FactsWere DEF PreflightInv
  <2>3. \A n \in Steady : n \in ip <=> n \in Addressed /\ n \in Present
    BY <1>1, <1>2 DEF PreflightInv, FlagsInv, Began
  <2> QED
    BY <1>2, <1>3, <2>1, <2>2, <2>3, MachineQuiet DEF AddressInv
<1>6. FunctionsInv' /\ ReportIsTrue'
  BY <1>3 DEF FunctionsInv, ReportIsTrue
<1>7. EvidenceInv'
  BY <1>2, <1>3, MachineQuiet DEF PreflightInv, EvidenceInv, Asked
<1> QED
  BY <1>2, <1>3, <1>4, <1>5, <1>6, <1>7, MachineQuiet DEF PreflightInv

(* Evidence is added to the interfaces that have it. *)
LEMMA MergeAdds ==
  ASSUME PreflightInv, NEW names, NEW value \in {"wifi", "android-rndis"}
  PROVE  /\ Merge(names, value) \in [Nics -> SUBSET {"wifi", "android-rndis"}]
         /\ \A n \in Nics : \A v : v \in Merge(names, value)[n]
              <=> v \in collect.evidence[n] \/ (v = value /\ n \in names)
<1>1. collect.evidence \in [Nics -> SUBSET {"wifi", "android-rndis"}]
  BY DEF PreflightInv, EvidenceInv
<1> QED
  BY <1>1 DEF Merge

(* The evidence of a role is added to the names whose hardware gives it. *)
LEMMA EvidenceAdded ==
  ASSUME PreflightInv, UNCHANGED machineVars, NEW asked \in Roles, NEW names,
         \A n \in Nics : n \in names <=> n \in Present /\ Says(asked, hw[n]),
         collect'.evidence = Merge(names, Word(asked)),
         \A role \in Roles : collect'.pc \in Asked(role)
           => role = asked \/ collect.pc \in Asked(role)
  PROVE  EvidenceInv'
<1>1. PICK ev : ev = Merge(names, Word(asked))
  BY Zenon
<1>2. /\ ev \in [Nics -> SUBSET {"wifi", "android-rndis"}]
      /\ \A n \in Nics : \A v :
           v \in ev[n] <=> v \in collect.evidence[n] \/ (v = Word(asked) /\ n \in names)
  <2>1. Word(asked) \in {"wifi", "android-rndis"}
    BY DEF Word
  <2> QED
    BY <1>1, <2>1, MergeAdds
<1>3. \A role \in Roles : Word(role) = Word(asked) <=> role = asked
  BY DEF Roles, Word
<1>4. \A n \in Nics, role \in Roles :
        Word(role) \in ev[n]
          <=> \/ Word(role) \in collect.evidence[n]
              \/ role = asked /\ n \in Present /\ Says(role, hw[n])
  BY <1>2, <1>3, ZenonT(30)
<1>5. \A n \in Nics, role \in Roles :
        n \in Present /\ Says(role, hw[n]) => role \in was[n]
  BY FactsWere DEF PreflightInv
<1>6. \A n \in Nics, role \in Roles : Word(role) \in ev[n] => role \in was[n]
  BY <1>4, <1>5, Zenon DEF PreflightInv, EvidenceInv
<1>7. \A n \in Steady, role \in Roles :
        /\ Word(role) \in ev[n] => n \in Present /\ Says(role, hw[n])
        /\ collect'.pc \in Asked(role) /\ n \in Present /\ Says(role, hw[n])
             => Word(role) \in ev[n]
  <2>1. \A n \in Steady : n \in Nics
    BY DEF Steady
  <2> QED
    BY <1>4, <2>1, ZenonT(30) DEF PreflightInv, EvidenceInv
<1>8. collect'.evidence = ev
  BY <1>1
<1>9. Steady' = Steady /\ hw' = hw /\ was' = was /\ Present' = Present
  BY MachineQuiet
<1> QED
  BY <1>2, <1>6, <1>7, <1>8, <1>9 DEF EvidenceInv

(* networksetup names the Wi-Fi interfaces. *)
LEMMA WiFiEvidenceInv == ASSUME PreflightInv, WiFiEvidence PROVE PreflightInv'
<1>1. PICK names : names = {n \in Present : isWiFiEvidenceValue(hw[n].port)}
  BY Zenon
<1>2. PICK ev : ev = Merge(names, "wifi")
  BY Zenon
<1>3. /\ collect.pc = "networksetup" /\ UNCHANGED machineVars /\ CollectShape
      /\ collect' = [collect EXCEPT !.pc = "ioreg", !.evidence = ev]
  BY <1>1, <1>2, Zenon DEF WiFiEvidence, PreflightInv
<1>4. /\ CollectShape' /\ collect'.pc = "ioreg" /\ collect'.evidence = ev
      /\ collect'.flags = collect.flags /\ collect'.ipv4 = collect.ipv4
  BY <1>3, Zenon DEF CollectShape
<1>5. FlagsInv' /\ AddressInv'
  BY <1>3, <1>4, MachineQuiet DEF PreflightInv, FlagsInv, AddressInv, Began
<1>6. FunctionsInv' /\ ReportIsTrue'
  BY <1>4 DEF FunctionsInv, ReportIsTrue
<1>7. "wi-fi" \in Roles /\ Word("wi-fi") = "wifi"
  BY DEF Roles, Word
<1>8. \A n \in Nics : n \in names <=> n \in Present /\ Says("wi-fi", hw[n])
  BY <1>1 DEF isWiFiEvidenceValue, Says
<1>9. \A role \in Roles : collect'.pc \in Asked(role)
        => role = "wi-fi" \/ collect.pc \in Asked(role)
  BY <1>4 DEF Roles, Asked
<1>10. EvidenceInv'
  <2>1. collect'.evidence = Merge(names, Word("wi-fi"))
    BY <1>2, <1>4, <1>7, Zenon
  <2> QED
    BY <1>3, <1>7, <1>8, <1>9, <2>1, EvidenceAdded
<1> QED
  BY <1>3, <1>4, <1>5, <1>6, <1>10, MachineQuiet DEF PreflightInv

(* ioreg names the Ethernet interfaces of phones. *)
LEMMA AndroidEvidenceInv == ASSUME PreflightInv, AndroidEvidence PROVE PreflightInv'
<1>1. PICK names :
        names = {n \in Present : blockHasAndroidUSBTetherEvidence(hw[n].words)}
  BY Zenon
<1>2. PICK ev : ev = Merge(names, "android-rndis")
  BY Zenon
<1>3. /\ collect.pc = "ioreg" /\ UNCHANGED machineVars /\ CollectShape
      /\ collect' = [collect EXCEPT !.pc = "usb", !.evidence = ev]
  BY <1>1, <1>2, Zenon DEF AndroidEvidence, PreflightInv
<1>4. /\ CollectShape' /\ collect'.pc = "usb" /\ collect'.evidence = ev
      /\ collect'.flags = collect.flags /\ collect'.ipv4 = collect.ipv4
  BY <1>3, Zenon DEF CollectShape
<1>5. FlagsInv' /\ AddressInv'
  BY <1>3, <1>4, MachineQuiet DEF PreflightInv, FlagsInv, AddressInv, Began
<1>6. FunctionsInv' /\ ReportIsTrue'
  BY <1>4 DEF FunctionsInv, ReportIsTrue
<1>7. "android-usb-tether" \in Roles /\ Word("android-usb-tether") = "android-rndis"
  BY DEF Roles, Word
<1>8. \A n \in Nics :
        n \in names <=> n \in Present /\ Says("android-usb-tether", hw[n])
  BY <1>1 DEF blockHasAndroidUSBTetherEvidence, Says
<1>9. \A role \in Roles : collect'.pc \in Asked(role)
        => role = "android-usb-tether" \/ collect.pc \in Asked(role)
  BY <1>3, <1>4 DEF Roles, Asked
<1>10. EvidenceInv'
  <2>1. collect'.evidence = Merge(names, Word("android-usb-tether"))
    BY <1>2, <1>4, <1>7, Zenon
  <2> QED
    BY <1>3, <1>7, <1>8, <1>9, <2>1, EvidenceAdded
<1> QED
  BY <1>3, <1>4, <1>5, <1>6, <1>10, MachineQuiet DEF PreflightInv

(* ioreg counts the USB functions that may tether. *)
LEMMA TetherFunctionsInv == ASSUME PreflightInv, TetherFunctions PROVE PreflightInv'
<1>1. PICK num : num = Cardinality({f \in bus : blockIsAndroidRNDISControl(f)})
  BY Zenon
<1>2. /\ collect.pc = "usb" /\ UNCHANGED machineVars /\ CollectShape
      /\ collect' = [collect EXCEPT !.pc = "report", !.functions = num]
  BY <1>1, Zenon DEF TetherFunctions, PreflightInv
<1>3. /\ CollectShape' /\ collect'.pc = "report" /\ collect'.functions = num
      /\ collect'.flags = collect.flags /\ collect'.ipv4 = collect.ipv4
      /\ collect'.evidence = collect.evidence
  BY <1>2, Zenon DEF CollectShape
<1>4. FlagsInv' /\ AddressInv'
  BY <1>2, <1>3, MachineQuiet DEF PreflightInv, FlagsInv, AddressInv, Began
<1>5. EvidenceInv'
  BY <1>2, <1>3, MachineQuiet DEF PreflightInv, EvidenceInv, Asked
<1>6. ReportIsTrue'
  BY <1>3 DEF ReportIsTrue
<1>7. num \in Nat /\ (num > 0 <=> Tetherable)
  <2>1. CASE Tetherable
    <3>1. {f \in bus : blockIsAndroidRNDISControl(f)} = {<<224, 1, 3>>}
      BY <2>1 DEF Tetherable, blockIsAndroidRNDISControl
    <3>2. num = 1
      BY <1>1, <3>1, FS_Singleton, ZenonT(30)
    <3> QED
      BY <2>1, <3>2
  <2>2. CASE ~Tetherable
    <3>1. {f \in bus : blockIsAndroidRNDISControl(f)} = {}
      BY <2>2 DEF Tetherable, blockIsAndroidRNDISControl
    <3>2. num = 0
      BY <1>1, <3>1, FS_EmptySet
    <3> QED
      BY <2>2, <3>2
  <2> QED
    BY <2>1, <2>2
<1>8. FunctionsInv'
  BY <1>2, <1>3, <1>7, MachineQuiet DEF FunctionsInv
<1> QED
  BY <1>2, <1>3, <1>4, <1>5, <1>6, <1>8, MachineQuiet DEF PreflightInv

(* A step that fails reports nothing. *)
LEMMA CollectFailsInv == ASSUME PreflightInv, CollectFails PROVE PreflightInv'
<1>1. /\ UNCHANGED machineVars /\ CollectShape
      /\ collect' = [collect EXCEPT !.pc = "failed"]
  BY DEF CollectFails, PreflightInv
<1>2. /\ CollectShape' /\ collect'.pc = "failed" /\ collect'.evidence = collect.evidence
  BY <1>1 DEF CollectShape
<1>3. FlagsInv' /\ AddressInv' /\ FunctionsInv' /\ ReportIsTrue'
  BY <1>2 DEF FlagsInv, AddressInv, FunctionsInv, ReportIsTrue, Began
<1>4. EvidenceInv'
  BY <1>1, <1>2, MachineQuiet DEF PreflightInv, EvidenceInv, Asked
<1> QED
  BY <1>1, <1>2, <1>3, <1>4, MachineQuiet DEF PreflightInv

(* A change of the machine only adds to what was so of it, and names that stay
   steady are as they were. *)
LEMMA MachineChangesInv == ASSUME PreflightInv, MachineChanges PROVE PreflightInv'
<1>1. /\ changes' = changes + 1 /\ was' = [n \in Nics |-> was[n] \cup Facts(n)']
      /\ UNCHANGED <<version, collect, report>> /\ collect.pc \notin {"done", "failed"}
  BY DEF MachineChanges
<1>2. nic \in [Nics -> LinkStates] /\ hw \in [Nics -> Hardware]
  BY DEF PreflightInv, MachineInv
<1>3. /\ nic' \in [Nics -> LinkStates] /\ hw' \in [Nics -> Hardware]
      /\ touched \subseteq touched'
      /\ \A n \in Nics : n \notin touched' => nic'[n] = nic[n] /\ hw'[n] = hw[n]
  <2>1. CASE \E n \in Nics, h \in Hardware, s \in LinkStates :
               /\ hw' = [hw EXCEPT ![n] = h] /\ nic' = [nic EXCEPT ![n] = s]
               /\ touched' = touched \cup {n}
    BY <1>2, <2>1
  <2>2. CASE UNCHANGED <<nic, hw, touched>>
    BY <1>2, <2>2
  <2> QED
    BY <2>1, <2>2 DEF MachineChanges
<1>4. changes' \in Nat /\ changes' # 0
  BY <1>1 DEF PreflightInv, MachineInv
<1>5. \A n \in Nics : was[n] \subseteq was'[n] /\ Facts(n)' \subseteq was'[n]
  BY <1>1, Zenon
<1>6. \A n \in Steady' :
        /\ n \in Nics /\ n \in Steady /\ hw'[n] = hw[n]
        /\ n \in Present' <=> n \in Present
        /\ n \in Connected' <=> n \in Connected
        /\ n \in Addressed' <=> n \in Addressed
  BY <1>3 DEF Steady, Present, Connected, Addressed
<1>7. MachineInv'
  BY <1>1, <1>3, <1>4, <1>5 DEF PreflightInv, MachineInv
<1>8. CollectShape' /\ ReportIsTrue'
  BY <1>1, Zenon DEF PreflightInv, CollectShape, ReportIsTrue
<1>9. FlagsInv'
  BY <1>1, <1>5, <1>6 DEF PreflightInv, FlagsInv
<1>10. AddressInv'
  BY <1>1, <1>5, <1>6 DEF PreflightInv, AddressInv
<1>11. FunctionsInv'
  BY <1>1, <1>4 DEF PreflightInv, FunctionsInv
<1>12. EvidenceInv'
  BY <1>1, <1>5, <1>6 DEF PreflightInv, EvidenceInv
<1> QED
  BY <1>7, <1>8, <1>9, <1>10, <1>11, <1>12 DEF PreflightInv

(* The interfaces a role may take: each was up, had an address and gave evidence
   of the role; of the names left alone they are the live links of its kind. *)
LEMMA Matches ==
  ASSUME PreflightInv, collect.pc = "report", NEW role \in Roles
  PROVE  LET S == matchingUsable(role, Observations) IN
         /\ S \subseteq Nics
         /\ \A n \in S : {"up", "ipv4", role} \subseteq was[n]
         /\ \A n \in Steady : n \in S <=> n \in LiveLinks(Device(role))
<1>1. PICK S : S = matchingUsable(role, Observations)
  BY Zenon
<1>2. /\ DOMAIN collect.flags \subseteq Nics
      /\ \A n \in DOMAIN collect.flags :
           collect.flags[n].up /\ collect.flags[n].running => "up" \in was[n]
      /\ \A n \in Steady :
           /\ n \in DOMAIN collect.flags <=> n \in Present
           /\ n \in Present =>
                /\ collect.flags[n].up /\ collect.flags[n].running <=> n \in Connected
                /\ collect.flags[n].loopback <=> hw[n].device = "loopback"
  BY DEF PreflightInv, FlagsInv, Began
<1>3. /\ \A n \in collect.ipv4 : n \in Nics /\ "ipv4" \in was[n]
      /\ \A n \in Steady : n \in collect.ipv4 <=> n \in Addressed /\ n \in Present
  BY DEF PreflightInv, AddressInv, Began
<1>4. \A n \in Nics :
        LinkKindFromEvidence(collect.evidence[n]) = role
          <=> collect.evidence[n] = {Word(role)}
  BY DEF LinkKindFromEvidence, Roles, Word
<1>5. \A n : n \in S <=> /\ n \in DOMAIN collect.flags
                         /\ LinkKindFromEvidence(collect.evidence[n]) = role
                         /\ collect.flags[n].up /\ collect.flags[n].running
                         /\ ~collect.flags[n].loopback /\ n \in collect.ipv4
  BY <1>1, Zenon DEF matchingUsable, Usable, Observations
<1>6. /\ collect.evidence \in [Nics -> SUBSET {"wifi", "android-rndis"}]
      /\ \A n \in Nics, r \in Roles : Word(r) \in collect.evidence[n] => r \in was[n]
      /\ \A n \in Steady, r \in Roles :
           Word(r) \in collect.evidence[n] <=> n \in Present /\ Says(r, hw[n])
  BY DEF PreflightInv, EvidenceInv, Asked, Roles
<1>7. S \subseteq Nics
  BY <1>2, <1>5
<1>8. ASSUME NEW n \in S PROVE {"up", "ipv4", role} \subseteq was[n]
  <2>1. n \in Nics /\ collect.evidence[n] = {Word(role)}
    BY <1>4, <1>5, <1>7, <1>8
  <2>2. role \in was[n]
    BY <1>6, <2>1
  <2> QED
    BY <1>2, <1>3, <1>5, <1>8, <2>2
<1>9. ASSUME NEW n \in Steady PROVE n \in S <=> n \in LiveLinks(Device(role))
  <2>1. n \in Nics /\ hw[n] \in Hardware
    BY <1>9 DEF Steady, PreflightInv, MachineInv
  <2>2. n \in Addressed => n \in Present
    BY <2>1, MachineAssumption DEF PreflightInv, MachineInv, Addressed, Present
  <2>3. hw[n].device = Device(role)
          <=> Says(role, hw[n]) /\ \A other \in Roles \ {role} : ~Says(other, hw[n])
    BY <2>1, MachineAssumption, Zenon
  <2>4. n \in Present =>
          (collect.evidence[n] = {Word(role)} <=> hw[n].device = Device(role))
    <3>1. \A v \in collect.evidence[n] : \E r \in Roles : v = Word(r)
      BY <1>6, <2>1 DEF Roles, Word
    <3>2. \A r \in Roles : Word(r) = Word(role) <=> r = role
      BY DEF Roles, Word
    <3>3. collect.evidence[n] = {Word(role)}
            <=> /\ Word(role) \in collect.evidence[n]
                /\ \A r \in Roles \ {role} : Word(r) \notin collect.evidence[n]
      <4>1. ASSUME collect.evidence[n] = {Word(role)}
            PROVE  /\ Word(role) \in collect.evidence[n]
                   /\ \A r \in Roles \ {role} : Word(r) \notin collect.evidence[n]
        BY <3>2, <4>1, Zenon
      <4>2. ASSUME Word(role) \in collect.evidence[n],
                   \A r \in Roles \ {role} : Word(r) \notin collect.evidence[n]
            PROVE  collect.evidence[n] = {Word(role)}
        BY <3>1, <4>2, Zenon
      <4> QED
        BY <4>1, <4>2, Zenon
    <3> QED
      BY <1>6, <1>9, <2>3, <3>3, Zenon
  <2>5. hw[n].device = Device(role) => hw[n].device # "loopback"
    BY DEF Device
  <2>6. n \in LiveLinks(Device(role))
          <=> n \in Connected /\ n \in Addressed /\ hw[n].device = Device(role)
    BY Zenon DEF LiveLinks
  <2> QED
    BY <1>2, <1>3, <1>4, <1>5, <1>9, <2>1, <2>2, <2>4, <2>5, <2>6, ZenonT(30)
<1> QED
  BY <1>1, <1>7, <1>8, <1>9

(* No issue is not an issue. *)
LEMMA NoIssueIsNone == NoIssue # "missing-candidate" /\ NoIssue # "ambiguous-candidate"
  BY Zenon DEF NoIssue

(* classifyRole takes the one interface there is, or says why not. *)
LEMMA Candidates ==
  ASSUME NEW role, NEW obs, NEW S \in SUBSET Nics, S = matchingUsable(role, obs)
  PROVE  LET c == classifyRole(role, obs) IN
         /\ c.candidate # NoNic <=> One(S)
         /\ c.candidate # NoNic => S = {c.candidate}
         /\ c.issue \in {NoIssue, "missing-candidate", "ambiguous-candidate"}
         /\ c.issue = "missing-candidate" <=> S = {}
         /\ c.issue = "ambiguous-candidate" <=> Cardinality(S) > 1
         /\ S = {} => ~One(S)
<1>1. IsFiniteSet(S) /\ Cardinality(S) \in Nat /\ (Cardinality(S) = 0 <=> S = {})
  BY MachineAssumption, FS_Subset, FS_CardinalityType, FS_EmptySet
<1>2. CASE S = {}
  BY <1>1, <1>2 DEF classifyRole, One, NoNic
<1>3. CASE Cardinality(S) = 1
  <2>0. \E x : S = {x}
    BY <1>1, <1>3, FS_Singleton
  <2>1. PICK n : n = CHOOSE x \in S : TRUE
    BY Zenon
  <2>2. n \in S /\ S = {n}
    BY <2>0, <2>1
  <2>3. n # NoNic
    BY <2>2, MachineAssumption DEF NoNic
  <2>4. classifyRole(role, obs) = [candidate |-> n, issue |-> NoIssue]
    <3>1. S # {}
      BY <2>2
    <3> QED
      BY <1>3, <2>1, <3>1 DEF classifyRole
  <2>5. PICK c : c = classifyRole(role, obs)
    BY Zenon
  <2>6. c.candidate = n /\ c.issue = NoIssue
    BY <2>4, <2>5
  <2>7. One(S) /\ S # {} /\ ~(Cardinality(S) > 1)
    BY <1>3, <2>2 DEF One
  <2> QED
    BY <2>2, <2>3, <2>5, <2>6, <2>7, NoIssueIsNone
<1>4. CASE S # {} /\ Cardinality(S) # 1
  BY <1>1, <1>4 DEF classifyRole, One, NoNic
<1> QED
  BY <1>2, <1>3, <1>4, Zenon

\* What the report may say of a candidate: see ReportIsTrue.
Credible(role, n) ==
  /\ {"up", "ipv4", role} \subseteq was[n]
  /\ n \in touched \cup (LiveLinks(Device(role)) \ touched)
  /\ LiveLinks(Device(role)) \ touched \subseteq {n}

(* What both reports are made from. *)
LEMMA Classified ==
  ASSUME PreflightInv, collect.pc = "report"
  PROVE  LET c == Classify(Observations) IN
         /\ DOMAIN c = Roles
         /\ \A role \in Roles :
              /\ c[role].candidate # NoNic => Credible(role, c[role].candidate)
              /\ c[role].issue \in {NoIssue, "missing-candidate", "ambiguous-candidate"}
              /\ changes = 0 =>
                   LET S == LiveLinks(Device(role)) IN
                   /\ c[role].candidate # NoNic <=> One(S)
                   /\ c[role].issue = "missing-candidate" <=> S = {}
                   /\ c[role].issue = "ambiguous-candidate" <=> Cardinality(S) > 1
                   /\ S = {} => ~One(S)
<1>1. PICK c : c = Classify(Observations)
  BY Zenon
<1>2. DOMAIN c = Roles /\ \A role \in Roles : c[role] = classifyRole(role, Observations)
  BY <1>1 DEF Classify
<1>3. ASSUME NEW role \in Roles
      PROVE  /\ c[role].candidate # NoNic => Credible(role, c[role].candidate)
             /\ c[role].issue \in {NoIssue, "missing-candidate", "ambiguous-candidate"}
             /\ changes = 0 =>
                  LET S == LiveLinks(Device(role)) IN
                  /\ c[role].candidate # NoNic <=> One(S)
                  /\ c[role].issue = "missing-candidate" <=> S = {}
                  /\ c[role].issue = "ambiguous-candidate" <=> Cardinality(S) > 1
                  /\ S = {} => ~One(S)
  <2>1. PICK S : S = matchingUsable(role, Observations)
    BY Zenon
  <2>2. /\ S \subseteq Nics
        /\ \A n \in S : {"up", "ipv4", role} \subseteq was[n]
        /\ \A n \in Steady : n \in S <=> n \in LiveLinks(Device(role))
    BY <2>1, Matches
  <2>3. /\ c[role].candidate # NoNic <=> One(S)
        /\ c[role].candidate # NoNic => S = {c[role].candidate}
        /\ c[role].issue \in {NoIssue, "missing-candidate", "ambiguous-candidate"}
        /\ c[role].issue = "missing-candidate" <=> S = {}
        /\ c[role].issue = "ambiguous-candidate" <=> Cardinality(S) > 1
        /\ S = {} => ~One(S)
    <3>1. PICK k : k = classifyRole(role, Observations)
      BY Zenon
    <3>2. S \in SUBSET Nics
      BY <2>2, Zenon
    <3>3. /\ k.candidate # NoNic <=> One(S)
          /\ k.candidate # NoNic => S = {k.candidate}
          /\ k.issue \in {NoIssue, "missing-candidate", "ambiguous-candidate"}
          /\ k.issue = "missing-candidate" <=> S = {}
          /\ k.issue = "ambiguous-candidate" <=> Cardinality(S) > 1
          /\ S = {} => ~One(S)
      BY <2>1, <3>1, <3>2, Candidates
    <3>4. c[role] = k
      BY <1>2, <3>1, Zenon
    <3> QED
      BY <3>3, <3>4
  <2>4. ASSUME c[role].candidate # NoNic PROVE Credible(role, c[role].candidate)
    <3>1. PICK n : n = c[role].candidate
      BY Zenon
    <3>2. S = {n} /\ n \in Nics
      BY <2>2, <2>3, <2>4, <3>1
    <3>3. {"up", "ipv4", role} \subseteq was[n]
      BY <2>2, <3>2, Zenon
    <3>4. \A m \in Steady : m = n <=> m \in LiveLinks(Device(role))
      BY <2>2, <3>2, Zenon
    <3>5. n \in touched \/ (n \in Steady /\ n \notin touched)
      BY <3>2 DEF Steady
    <3>6. \A m \in LiveLinks(Device(role)) \ touched : m \in Steady
      BY Zenon DEF LiveLinks, Connected, Steady
    <3>7. n \in touched \cup (LiveLinks(Device(role)) \ touched)
      BY <3>4, <3>5
    <3>8. LiveLinks(Device(role)) \ touched \subseteq {n}
      BY <3>4, <3>6
    <3> QED
      BY <3>1, <3>3, <3>7, <3>8, Zenon DEF Credible
  <2>5. ASSUME changes = 0
        PROVE  LET T == LiveLinks(Device(role)) IN
               /\ c[role].candidate # NoNic <=> One(T)
               /\ c[role].issue = "missing-candidate" <=> T = {}
               /\ c[role].issue = "ambiguous-candidate" <=> Cardinality(T) > 1
               /\ T = {} => ~One(T)
    <3>1. S = LiveLinks(Device(role))
      <4>1. Steady = Nics
        BY <2>5 DEF PreflightInv, MachineInv, Steady
      <4>2. LiveLinks(Device(role)) \subseteq Nics
        BY DEF LiveLinks, Connected
      <4> QED
        BY <2>2, <4>1, <4>2
    <3> QED
      BY <2>3, <3>1
  <2> QED
    BY <2>3, <2>4, <2>5, Zenon
<1> QED
  BY <1>1, <1>2, <1>3, Zenon

(* A step of the collection leaves the live links alone. *)
LEMMA LinksQuiet ==
  ASSUME PreflightInv, UNCHANGED machineVars, NEW device
  PROVE  LiveLinks(device)' = LiveLinks(device)
  BY MachineQuiet, Zenon DEF LiveLinks

\* The candidate the report names, said as ReportIsTrue does.
Vouched(role) ==
  LET n == report.candidates[role]
      steady == LiveLinks(Device(role)) \ touched
  IN /\ {"up", "ipv4", role} \subseteq was[n]
     /\ n \in touched \cup steady
     /\ steady \subseteq {n}

(* The verdict of each combination. *)
LEMMA Verdicts ==
  ASSUME NEW mac \in BOOLEAN, NEW wifi \in BOOLEAN, NEW phone \in BOOLEAN
  PROVE  decideVerdict(mac, wifi, phone) =
           IF ~mac THEN "unsupported-macos"
           ELSE IF wifi THEN IF phone THEN "supported" ELSE "needs-android"
           ELSE IF phone THEN "needs-wifi" ELSE "needs-both"
  BY DEF decideVerdict

(* geminactl preflight prints its report. *)
LEMMA ReportPreflightInv == ASSUME PreflightInv, ReportPreflight PROVE PreflightInv'
<1>1. PICK r : r = BuildCompatibilityReport(Observations, collect.functions, version)
  BY Zenon
<1>2. /\ collect.pc = "report" /\ report' = r /\ UNCHANGED machineVars /\ CollectShape
      /\ collect' = [collect EXCEPT !.pc = "done"]
  BY <1>1, Zenon DEF ReportPreflight, PreflightInv
<1>3. CollectShape' /\ collect'.pc = "done" /\ collect'.evidence = collect.evidence
  BY <1>2 DEF CollectShape
<1>4. FlagsInv' /\ AddressInv' /\ FunctionsInv'
  BY <1>3 DEF FlagsInv, AddressInv, FunctionsInv, Began
<1>5. EvidenceInv'
  BY <1>2, <1>3, MachineQuiet DEF PreflightInv, EvidenceInv, Asked
<1>6. PICK c : c = Classify(Observations)
  BY Zenon
<1>7. PICK t, v : /\ t = androidTetherSupport(c, collect.functions)
                  /\ v = decideVerdict(parseMacOSMajor(version).ok
                                        /\ parseMacOSMajor(version).n >= minMacOSMajor,
                                       c["wi-fi"].candidate # NoNic, t.present)
  BY Zenon
<1>8. /\ r.kind = "preflight" /\ (r.ready <=> v = "supported") /\ r.tether = t
      /\ r.nextStep = nextStep(v, parseMacOSMajor(version).ok)
      /\ r.candidates = [role \in Roles |-> c[role].candidate]
  BY <1>1, <1>6, <1>7, Zenon DEF BuildCompatibilityReport
<1>9. \A role \in Roles :
        c[role].candidate # NoNic => Credible(role, c[role].candidate)
  BY <1>2, <1>6, Classified
<1>10. ASSUME changes = 0
       PROVE  LET wifi == One(LiveLinks("wi-fi"))
                  ncm  == One(LiveLinks("phone"))
                  mac  == version # <<>> /\ version[1] >= 11
              IN
              /\ r.ready <=> mac /\ wifi /\ (ncm \/ Tetherable)
              /\ mac => /\ "join-wifi" \in r.nextStep <=> ~wifi
                        /\ "connect-android" \in r.nextStep <=> ~ncm /\ ~Tetherable
              /\ r.tether.usable <=> ncm
  <2>1. /\ c["wi-fi"].candidate # NoNic <=> One(LiveLinks("wi-fi"))
        /\ c["android-usb-tether"].candidate # NoNic <=> One(LiveLinks("phone"))
    <3>1. \A role \in Roles : c[role].candidate # NoNic <=> One(LiveLinks(Device(role)))
      BY <1>2, <1>6, <1>10, Classified
    <3>2. /\ "wi-fi" \in Roles /\ Device("wi-fi") = "wi-fi"
          /\ "android-usb-tether" \in Roles /\ Device("android-usb-tether") = "phone"
      BY DEF Roles, Device
    <3> QED
      BY <3>1, <3>2, Zenon
  <2>2. /\ parseMacOSMajor(version).ok <=> version # <<>>
        /\ parseMacOSMajor(version).n >= minMacOSMajor <=> version # <<>> /\ version[1] >= 11
    <3>1. version \in Seq(Nat)
      BY MachineAssumption DEF PreflightInv, MachineInv
    <3>2. CASE version = <<>>
      BY <3>2 DEF parseMacOSMajor, minMacOSMajor
    <3>3. CASE version # <<>>
      <4>1. Head(version) = version[1]
        BY <3>1, <3>3
      <4> QED
        BY <3>3, <4>1 DEF parseMacOSMajor, minMacOSMajor
    <3> QED
      BY <3>2, <3>3
  <2>3. collect.functions > 0 <=> Tetherable
    BY <1>2, <1>10 DEF PreflightInv, FunctionsInv
  <2>4. /\ t.present <=> One(LiveLinks("phone")) \/ Tetherable
        /\ t.usable <=> One(LiveLinks("phone"))
    BY <1>7, <2>1, <2>3 DEF androidTetherSupport
  <2>5. /\ v = "supported" <=> /\ version # <<>> /\ version[1] >= 11
                               /\ One(LiveLinks("wi-fi"))
                               /\ One(LiveLinks("phone")) \/ Tetherable
        /\ version # <<>> /\ version[1] >= 11 =>
             v = IF One(LiveLinks("wi-fi"))
                 THEN IF One(LiveLinks("phone")) \/ Tetherable THEN "supported"
                                                                ELSE "needs-android"
                 ELSE IF One(LiveLinks("phone")) \/ Tetherable THEN "needs-wifi"
                                                                ELSE "needs-both"
    <3>1. PICK m, w, a : /\ m \in BOOLEAN /\ w \in BOOLEAN /\ a \in BOOLEAN
                         /\ m = (parseMacOSMajor(version).ok
                                   /\ parseMacOSMajor(version).n >= minMacOSMajor)
                         /\ w = (c["wi-fi"].candidate # NoNic) /\ a = t.present
      <4>1. t.present \in BOOLEAN
        BY <1>7 DEF androidTetherSupport
      <4> QED
        BY <4>1, Zenon
    <3>2. v = decideVerdict(m, w, a)
      BY <1>7, <3>1, Zenon
    <3>3. /\ m <=> version # <<>> /\ version[1] >= 11
          /\ w <=> One(LiveLinks("wi-fi"))
          /\ a <=> One(LiveLinks("phone")) \/ Tetherable
      BY <2>1, <2>2, <2>4, <3>1, Zenon
    <3>4. v = IF ~m THEN "unsupported-macos"
              ELSE IF w THEN IF a THEN "supported" ELSE "needs-android"
              ELSE IF a THEN "needs-wifi" ELSE "needs-both"
      BY <3>1, <3>2, Verdicts, Zenon
    <3>5. /\ v = "supported" <=> m /\ w /\ a
          /\ m => v = IF w THEN IF a THEN "supported" ELSE "needs-android"
                         ELSE IF a THEN "needs-wifi" ELSE "needs-both"
      BY <3>1, <3>4
    <3> QED
      BY <3>3, <3>5, Zenon
  <2>6. version # <<>> /\ version[1] >= 11 =>
          /\ "join-wifi" \in r.nextStep <=> ~One(LiveLinks("wi-fi"))
          /\ "connect-android" \in r.nextStep <=> ~One(LiveLinks("phone")) /\ ~Tetherable
    BY <1>8, <2>5 DEF nextStep
  <2>7. r.tether.usable <=> One(LiveLinks("phone"))
    BY <1>8, <2>4
  <2>8. r.ready <=> /\ version # <<>> /\ version[1] >= 11
                    /\ One(LiveLinks("wi-fi"))
                    /\ One(LiveLinks("phone")) \/ Tetherable
    BY <1>8, <2>5, Zenon
  <2> QED
    BY <2>6, <2>7, <2>8, Zenon
<1>11. ReportIsTrue'
  <2>1. changes' = 0 => VerdictIsTrue'
    <3>1. /\ LiveLinks("wi-fi")' = LiveLinks("wi-fi") /\ LiveLinks("phone")' = LiveLinks("phone")
          /\ Tetherable' = Tetherable /\ version' = version /\ changes' = changes
      BY <1>2, MachineQuiet, LinksQuiet
    <3> QED
      BY <1>2, <1>10, <3>1, Zenon DEF VerdictIsTrue
  <2>2. ASSUME NEW role \in Roles
        PROVE  report'.candidates[role] # NoNic => Vouched(role)'
    <3>1. report'.candidates[role] = c[role].candidate
      BY <1>2, <1>8
    <3>2. /\ LiveLinks(Device(role))' = LiveLinks(Device(role))
          /\ touched' = touched /\ was' = was
      BY <1>2, LinksQuiet, MachineQuiet
    <3> QED
      BY <1>9, <3>1, <3>2, Zenon DEF Vouched, Credible
  <2>3. report'.kind = "preflight"
    BY <1>2, <1>8
  <2> QED
    BY <2>1, <2>2, <2>3, Zenon DEF ReportIsTrue, Vouched
<1> QED
  BY <1>2, <1>3, <1>4, <1>5, <1>11, MachineQuiet DEF PreflightInv

(* geminactl darwin-evidence prints its report. *)
LEMMA ReportEvidenceInv == ASSUME PreflightInv, ReportEvidence PROVE PreflightInv'
<1>1. PICK r : r = BuildDarwinEvidenceReport(Observations, collect.functions)
  BY Zenon
<1>2. /\ collect.pc = "report" /\ report' = r /\ UNCHANGED machineVars /\ CollectShape
      /\ collect' = [collect EXCEPT !.pc = "done"]
  BY <1>1, Zenon DEF ReportEvidence, PreflightInv
<1>3. CollectShape' /\ collect'.pc = "done" /\ collect'.evidence = collect.evidence
  BY <1>2 DEF CollectShape
<1>4. FlagsInv' /\ AddressInv' /\ FunctionsInv'
  BY <1>3 DEF FlagsInv, AddressInv, FunctionsInv, Began
<1>5. EvidenceInv'
  BY <1>2, <1>3, MachineQuiet DEF PreflightInv, EvidenceInv, Asked
<1>6. PICK c : c = Classify(Observations)
  BY Zenon
<1>7. PICK d, f : d = diagnosticIssues(c) /\ f = deviceFunctionIssues(c, collect.functions)
  BY Zenon
<1>8. /\ r.kind = "darwin-evidence" /\ (r.complete <=> Complete(c))
      /\ r.candidates = [role \in Roles |-> c[role].candidate] /\ r.issues = d \cup f
  BY <1>1, <1>6, <1>7, Zenon DEF BuildDarwinEvidenceReport, diagnosticCandidates
<1>9. \A role \in Roles :
        c[role].candidate # NoNic => Credible(role, c[role].candidate)
  BY <1>2, <1>6, Classified
<1>10. ASSUME changes = 0
       PROVE  LET Live(role) == LiveLinks(Device(role))
                  Issue(what, role) == <<what, role>> \in r.issues
                  Phone == "android-usb-tether"
              IN
              /\ r.complete <=> \A role \in Roles : One(Live(role))
              /\ \A role \in Roles :
                   /\ Issue("missing-candidate", role) <=> Live(role) = {}
                   /\ Issue("ambiguous-candidate", role) <=> Cardinality(Live(role)) > 1
              /\ Issue("tether-present-not-usable", Phone)
                   <=> Tetherable /\ ~One(Live(Phone))
  <2>0. "android-usb-tether" \in Roles
    BY DEF Roles
  <2>1. \A role \in Roles :
          LET S == LiveLinks(Device(role)) IN
          /\ c[role].candidate # NoNic <=> One(S)
          /\ c[role].issue = "missing-candidate" <=> S = {}
          /\ c[role].issue = "ambiguous-candidate" <=> Cardinality(S) > 1
          /\ c[role].issue \in {NoIssue, "missing-candidate", "ambiguous-candidate"}
    BY <1>2, <1>6, <1>10, Classified
  <2>2. collect.functions > 0 <=> Tetherable
    BY <1>2, <1>10 DEF PreflightInv, FunctionsInv
  <2>3. r.complete <=> \A role \in Roles : One(LiveLinks(Device(role)))
    BY <1>8, <2>1, Zenon DEF Complete
  <2>4. ASSUME NEW role \in Roles, NEW what \in {"missing-candidate", "ambiguous-candidate"}
        PROVE  <<what, role>> \in r.issues <=> c[role].issue = what
    <3>1. <<what, role>> \notin f
      BY <1>7, <2>4 DEF deviceFunctionIssues
    <3>2. what # NoIssue
      BY <2>4, NoIssueIsNone
    <3>3. <<what, role>> \in d <=> c[role].issue = what
      BY <1>7, <2>4, <3>2, Zenon DEF diagnosticIssues
    <3> QED
      BY <1>8, <3>1, <3>3
  <2>5. <<"tether-present-not-usable", "android-usb-tether">> \in r.issues
          <=> Tetherable /\ ~One(LiveLinks(Device("android-usb-tether")))
    <3>1. <<"tether-present-not-usable", "android-usb-tether">> \notin d
      BY <1>7, <2>1, Zenon DEF diagnosticIssues
    <3>2. <<"tether-present-not-usable", "android-usb-tether">> \in f
            <=> collect.functions > 0 /\ c["android-usb-tether"].candidate = NoNic
      BY <1>7, Zenon DEF deviceFunctionIssues
    <3>3. c["android-usb-tether"].candidate = NoNic
            <=> ~One(LiveLinks(Device("android-usb-tether")))
      BY <2>0, <2>1, Zenon
    <3> QED
      BY <1>8, <2>2, <3>1, <3>2, <3>3, Zenon
  <2>6. ASSUME NEW role \in Roles
        PROVE  LET S == LiveLinks(Device(role)) IN
               /\ <<"missing-candidate", role>> \in r.issues <=> S = {}
               /\ <<"ambiguous-candidate", role>> \in r.issues <=> Cardinality(S) > 1
    BY <2>1, <2>4, <2>6, Zenon
  <2> QED
    BY <2>3, <2>5, <2>6, Zenon
<1>11. ReportIsTrue'
  <2>1. changes' = 0 => IssuesAreTrue'
    <3>1. /\ \A role \in Roles : LiveLinks(Device(role))' = LiveLinks(Device(role))
          /\ Tetherable' = Tetherable /\ changes' = changes
      BY <1>2, MachineQuiet, LinksQuiet
    <3>2. "android-usb-tether" \in Roles
      BY DEF Roles
    <3> QED
      BY <1>2, <1>10, <3>1, <3>2, ZenonT(30) DEF IssuesAreTrue, One
  <2>2. ASSUME NEW role \in Roles
        PROVE  report'.candidates[role] # NoNic => Vouched(role)'
    <3>1. report'.candidates[role] = c[role].candidate
      BY <1>2, <1>8
    <3>2. /\ LiveLinks(Device(role))' = LiveLinks(Device(role))
          /\ touched' = touched /\ was' = was
      BY <1>2, LinksQuiet, MachineQuiet
    <3> QED
      BY <1>9, <3>1, <3>2, Zenon DEF Vouched, Credible
  <2>3. report'.kind # "preflight"
    BY <1>2, <1>8
  <2> QED
    BY <2>1, <2>2, <2>3, Zenon DEF ReportIsTrue, Vouched
<1> QED
  BY <1>2, <1>3, <1>4, <1>5, <1>11, MachineQuiet DEF PreflightInv

(* Every step keeps the invariant. *)
LEMMA NextPreflightInv == PreflightInv /\ [PreflightNext]_preflightVars => PreflightInv'
<1> SUFFICES ASSUME PreflightInv, [PreflightNext]_preflightVars PROVE PreflightInv'
  OBVIOUS
<1>1. CASE UNCHANGED preflightVars
  <2>1. UNCHANGED <<machineVars, collect, report>>
    BY <1>1, ZenonT(30) DEF preflightVars
  <2>2. FlagsInv' /\ AddressInv' /\ EvidenceInv' /\ FunctionsInv' /\ CollectShape'
    BY <2>1, MachineQuiet
       DEF PreflightInv, FlagsInv, AddressInv, EvidenceInv, FunctionsInv, CollectShape
  <2>3. \A device : LiveLinks(device)' = LiveLinks(device)
    BY <2>1, LinksQuiet
  <2>4. ReportIsTrue'
    BY <2>1, <2>3, MachineQuiet
       DEF PreflightInv, ReportIsTrue, VerdictIsTrue, IssuesAreTrue, One
  <2> QED
    BY <2>1, <2>2, <2>4, MachineQuiet DEF PreflightInv
<1>2. CASE Collection
  BY <1>2, ListInterfacesInv, ListAddressesInv, WiFiEvidenceInv, AndroidEvidenceInv,
     TetherFunctionsInv, CollectFailsInv DEF Collection
<1>3. CASE ReportPreflight \/ ReportEvidence \/ MachineChanges
  BY <1>3, ReportPreflightInv, ReportEvidenceInv, MachineChangesInv
<1> QED
  BY <1>1, <1>2, <1>3 DEF PreflightNext

(* The reports of preflight and darwin-evidence are as true as what they were
   made from (src/cmd/geminactl/preflight.go), for any hardware and however
   often the machine changes: exactly if it did not; and otherwise a candidate
   whose name was left alone is a live link of its role, the only one of those
   left alone, and any candidate's name was up, had an address and gave
   evidence of the role during the collection, if not all at once.           *)
THEOREM ReportsAreTrue == PreflightSpec => []ReportIsTrue
<1>1. PreflightInv => ReportIsTrue
  BY DEF PreflightInv
<1> QED
  BY <1>1, InitPreflightInv, NextPreflightInv, PTL DEF PreflightSpec

-----------------------------------------------------------------------------
(* geminactl benchmark.                                                    *)

(* A set of naturals that is not empty has a least one. *)
LEMMA Smallest == ASSUME NEW T \in SUBSET Nat, T # {} PROVE \E i \in T : \A j \in T : i <= j
<1>1. PICK R : R = OpToRel(<, Nat)
  BY Zenon
<1>2. IsWellFoundedOn(R, Nat)
  BY <1>1, NatLessThanWellFounded, Zenon
<1>3. PICK i \in T : \A j \in T : ~ (<<j, i>> \in R)
  BY <1>2, WFMin, Zenon
<1>4. \A j \in T : ~(j < i)
  BY <1>1, <1>3, Zenon DEF OpToRel
<1> QED
  BY <1>4

\* g is the loop that starts with base and takes the steps 1..N.
Loop(g, N, T, base, move) ==
  /\ g \in [0..N -> T] /\ g[0] = base
  /\ \A n \in 1..N : g[n] = move[<<n, g[n - 1]>>]

(* There is one.  Were there none, some length would be the least without a
   loop, and the loop one step shorter could be extended.                   *)
LEMMA LoopExists ==
  ASSUME NEW N \in Nat, NEW T, NEW base \in T, NEW move \in [(1..N) \X T -> T]
  PROVE  \E g : Loop(g, N, T, base, move)
<1> DEFINE Upto(g, m) == Loop(g, m, T, base, move)
           Bad == {m \in 0..N : ~ \E g : Upto(g, m)}
<1>1. Bad = {}
  <2> SUFFICES ASSUME Bad # {} PROVE FALSE
    OBVIOUS
  <2>1. PICK m \in Bad : \A j \in Bad : m <= j
    <3>1. Bad \in SUBSET Nat
      OBVIOUS
    <3> HIDE DEF Bad
    <3> QED
      BY <3>1, Smallest
  <2>2. m # 0
    <3>1. Upto([n \in 0..0 |-> base], 0)
      BY DEF Loop
    <3> QED
      BY <3>1, Zenon
  <2>3. m - 1 \in 0..N /\ m - 1 \notin Bad /\ m \in 1..N
    BY <2>1, <2>2
  <2>4. PICK g : Upto(g, m - 1)
    BY <2>3, Zenon
  <2>5. PICK h : h = [n \in 0..m |-> IF n = m THEN move[<<m, g[m - 1]>>] ELSE g[n]]
    BY Zenon
  <2>6. g[m - 1] \in T /\ <<m, g[m - 1]>> \in (1..N) \X T
    BY <2>3, <2>4 DEF Loop
  <2>7. move[<<m, g[m - 1]>>] \in T
    BY <2>6, Zenon
  <2>8. h \in [0..m -> T] /\ h[0] = base
    BY <2>3, <2>4, <2>5, <2>7 DEF Loop
  <2>9. ASSUME NEW n \in 1..m PROVE h[n] = move[<<n, h[n - 1]>>]
    <3>1. CASE n = m
      <4>1. h[m] = move[<<m, g[m - 1]>>] /\ h[m - 1] = g[m - 1]
        BY <2>3, <2>5
      <4> QED
        BY <3>1, <4>1, Zenon
    <3>2. CASE n # m
      <4>1. h[n] = g[n] /\ h[n - 1] = g[n - 1] /\ n \in 1..(m - 1)
        BY <2>3, <2>5, <3>2
      <4> QED
        BY <2>4, <4>1, Zenon DEF Loop
    <3> QED
      BY <3>1, <3>2
  <2> QED
    <3>1. Upto(h, m)
      BY <2>8, <2>9, Zenon DEF Loop
    <3> QED
      BY <2>1, <3>1, Zenon
<1>2. PICK g : Upto(g, N)
  <2>1. N \in 0..N
    OBVIOUS
  <2> QED
    BY <1>1, <2>1, Zenon
<1> QED
  BY <1>2

(* The sum of round trips is the loop of summarise. *)
LEMMA SumsLoop == ASSUME Pings \in Nat, NEW f, \A j \in DOMAIN f : f[j] \in Nat
  PROVE /\ Sums(f) \in [0..Pings -> Nat]
        /\ Sums(f) = [n \in 0..Pings |-> IF n = 0 THEN 0 ELSE Sums(f)[n - 1] + (IF n \in DOMAIN f THEN f[n] ELSE 0)]
<1>1. PICK move : move = [p \in (1..Pings) \X Nat |-> p[2] + (IF p[1] \in DOMAIN f THEN f[p[1]] ELSE 0)]
  BY Zenon
<1>2. move \in [(1..Pings) \X Nat -> Nat]
  BY <1>1
<1>3. PICK g : Loop(g, Pings, Nat, 0, move)
  <2>1. 0 \in Nat
    OBVIOUS
  <2> QED
    BY <1>2, <2>1, LoopExists, Zenon
<1>4. \A n \in 1..Pings : move[<<n, g[n - 1]>>] = g[n - 1] + (IF n \in DOMAIN f THEN f[n] ELSE 0)
  <2>1. ASSUME NEW n \in 1..Pings PROVE move[<<n, g[n - 1]>>] = g[n - 1] + (IF n \in DOMAIN f THEN f[n] ELSE 0)
    <3>1. <<n, g[n - 1]>> \in (1..Pings) \X Nat
      BY <1>3 DEF Loop
    <3> QED
      BY <1>1, <3>1
  <2> QED
    BY <2>1
<1>5. g = [n \in 0..Pings |-> IF n = 0 THEN 0 ELSE g[n - 1] + (IF n \in DOMAIN f THEN f[n] ELSE 0)]
  <2>1. g = [n \in 0..Pings |-> g[n]]
    BY <1>3 DEF Loop
  <2>2. ASSUME NEW n \in 0..Pings
        PROVE  g[n] = IF n = 0 THEN 0 ELSE g[n - 1] + (IF n \in DOMAIN f THEN f[n] ELSE 0)
    <3>1. n = 0 \/ n \in 1..Pings
      OBVIOUS
    <3> QED
      BY <1>3, <1>4, <3>1, Zenon DEF Loop
  <2>3. [n \in 0..Pings |-> g[n]] = [n \in 0..Pings |-> IF n = 0 THEN 0 ELSE g[n - 1] + (IF n \in DOMAIN f THEN f[n] ELSE 0)]
    BY <2>2, Zenon
  <2> QED
    BY <2>1, <2>3, Zenon
<1>6. Sums(f) = [n \in 0..Pings |-> IF n = 0 THEN 0 ELSE Sums(f)[n - 1] + (IF n \in DOMAIN f THEN f[n] ELSE 0)]
  BY <1>5, Zenon DEF Sums
<1>7. PICK s : s = Sums(f)
  BY Zenon
<1>8. \A n \in 0..Pings : s[n] = IF n = 0 THEN 0 ELSE s[n - 1] + (IF n \in DOMAIN f THEN f[n] ELSE 0)
  BY <1>6, <1>7
<1>9. PICK Bad : Bad = {n \in 0..Pings : s[n] \notin Nat}
  BY Zenon
<1>10. Bad = {}
  <2>1. SUFFICES ASSUME Bad # {} PROVE FALSE
    OBVIOUS
  <2>2. Bad \in SUBSET Nat
    BY <1>9
  <2>3. PICK n \in Bad : \A j \in Bad : n <= j
    BY <2>1, <2>2, Smallest
  <2>4. n # 0
    BY <1>8, <1>9
  <2>5. s[n - 1] \in Nat
    BY <1>9, <2>3, <2>4
  <2> QED
    <3>1. s[n] = s[n - 1] + (IF n \in DOMAIN f THEN f[n] ELSE 0)
      BY <1>8, <1>9, <2>3, <2>4
    <3>2. (IF n \in DOMAIN f THEN f[n] ELSE 0) \in Nat
      OBVIOUS
    <3>3. s[n] \in Nat
      BY <2>5, <3>1, <3>2
    <3> QED
      BY <1>9, <2>3, <3>3
<1>11. s \in [0..Pings -> Nat]
  <2>1. s = [n \in 0..Pings |-> s[n]]
    <3>1. \E e : s = [n \in 0..Pings |-> e[n]]
      <4> DEFINE e == [n \in 0..Pings |-> IF n = 0 THEN 0 ELSE s[n - 1] + (IF n \in DOMAIN f THEN f[n] ELSE 0)]
      <4>1. s = e
        BY <1>6, <1>7, Zenon
      <4>2. e = [n \in 0..Pings |-> e[n]]
        BY Zenon
      <4> QED
        BY <4>1, <4>2, Zenon
    <3> QED
      BY <3>1
  <2> QED
    BY <1>9, <1>10, <2>1
<1> QED
  BY <1>6, <1>7, <1>11, Zenon

\* The n-th result replaces the b-th; the t-th is behind the b-th.
Better(results, n, b) ==
  /\ results[n].received # 0
  /\ \/ b = 0
     \/ results[n].loss < results[b].loss
     \/ results[n].loss = results[b].loss /\ results[n].avg < results[b].avg
Behind(results, t, b) ==
  \/ results[t].received = 0 \/ results[t].loss > results[b].loss
  \/ results[t].loss = results[b].loss /\ results[t].avg > results[b].avg
  \/ results[t].loss = results[b].loss /\ results[t].avg = results[b].avg /\ t > b
Chosen(results, n, b) ==
  IF b = 0 THEN \A t \in 1..n : results[t].received = 0
  ELSE b \in 1..n /\ results[b].received # 0 /\ \A t \in (1..n) \ {b} : Behind(results, t, b)

(* The loop of recommend. *)
LEMMA BestLoop ==
  ASSUME NEW results, Len(results) \in Nat
  PROVE  /\ Best(results)[0] = 0
         /\ \A n \in 1..Len(results) :
              Best(results)[n] = IF Better(results, n, Best(results)[n - 1])
                                 THEN n ELSE Best(results)[n - 1]
<1>1. PICK N : N = Len(results)
  BY Zenon
<1>2. N \in Nat
  BY <1>1
<1>3. PICK T : T = 0..N
  BY Zenon
<1>4. PICK move : move = [p \in (1..N) \X T |-> IF Better(results, p[1], p[2]) THEN p[1] ELSE p[2]]
  BY Zenon
<1>5. move \in [(1..N) \X T -> T]
  <2>1. ASSUME NEW p \in (1..N) \X T
        PROVE  (IF Better(results, p[1], p[2]) THEN p[1] ELSE p[2]) \in T
    BY <1>2, <1>3
  <2> QED
    BY <1>4, <2>1, Zenon
<1>6. PICK g : Loop(g, N, T, 0, move)
  <2>1. 0 \in T
    BY <1>2, <1>3
  <2> QED
    BY <1>2, <1>5, <2>1, LoopExists, Zenon
<1>7. \A n \in 1..N : move[<<n, g[n - 1]>>] = IF Better(results, n, g[n - 1]) THEN n ELSE g[n - 1]
  <2>1. ASSUME NEW n \in 1..N
        PROVE  move[<<n, g[n - 1]>>] = IF Better(results, n, g[n - 1]) THEN n ELSE g[n - 1]
    <3>1. <<n, g[n - 1]>> \in (1..N) \X T
      BY <1>2, <1>6 DEF Loop
    <3> QED
      BY <1>4, <3>1
  <2> QED
    BY <2>1, Zenon
<1>8. g = [n \in 0..N |-> IF n = 0 THEN 0
                          ELSE IF Better(results, n, g[n - 1]) THEN n ELSE g[n - 1]]
  <2>1. g = [n \in 0..N |-> g[n]]
    BY <1>6 DEF Loop
  <2>2. ASSUME NEW n \in 0..N
        PROVE  g[n] = IF n = 0 THEN 0
                      ELSE IF Better(results, n, g[n - 1]) THEN n ELSE g[n - 1]
    <3>1. n = 0 \/ n \in 1..N
      BY <1>2
    <3> QED
      BY <1>6, <1>7, <3>1, Zenon DEF Loop
  <2>3. [n \in 0..N |-> g[n]]
        = [n \in 0..N |-> IF n = 0 THEN 0
                          ELSE IF Better(results, n, g[n - 1]) THEN n ELSE g[n - 1]]
    BY <2>2, Zenon
  <2> QED
    BY <2>1, <2>3, Zenon
<1>9. Best(results) = [n \in 0..N |-> IF n = 0 THEN 0
                          ELSE IF Better(results, n, Best(results)[n - 1])
                               THEN n ELSE Best(results)[n - 1]]
  BY <1>1, <1>8, Zenon DEF Best, Better
<1> QED
  BY <1>1, <1>2, <1>9

(* What it computes: after n results the one chosen is the best of them. *)
LEMMA BestIsBest ==
  ASSUME NEW results, Len(results) \in Nat,
         \A t \in 1..Len(results) : results[t].loss \in Int /\ results[t].avg \in Int
  PROVE  \A n \in 0..Len(results) : Chosen(results, n, Best(results)[n])
<1>1. PICK N, B : N = Len(results) /\ B = Best(results)
  BY Zenon
<1>2. /\ N \in Nat /\ B[0] = 0
      /\ \A n \in 1..N : B[n] = IF Better(results, n, B[n - 1]) THEN n ELSE B[n - 1]
      /\ \A t \in 1..N : results[t].loss \in Int /\ results[t].avg \in Int
  BY <1>1, BestLoop, Zenon
<1>3. PICK Bad : Bad = {n \in 0..N : ~Chosen(results, n, B[n])}
  BY Zenon
<1>4. SUFFICES ASSUME Bad # {} PROVE FALSE
  BY <1>1, <1>3, Zenon
<1>5. PICK n \in Bad : \A j \in Bad : n <= j
  <2>1. Bad \in SUBSET Nat
    BY <1>2, <1>3
  <2> QED
    BY <1>4, <2>1, Smallest, Zenon
<1>6. n # 0
  <2>1. Chosen(results, 0, 0)
    BY DEF Chosen
  <2> QED
    BY <1>2, <1>3, <2>1, Zenon
<1>7. n \in 1..N /\ n - 1 \in 0..N /\ n - 1 \notin Bad
  BY <1>2, <1>3, <1>5, <1>6
<1>8. PICK b : b = B[n - 1]
  BY Zenon
<1>9. Chosen(results, n - 1, b) /\ B[n] = IF Better(results, n, b) THEN n ELSE b
  BY <1>2, <1>3, <1>7, <1>8, Zenon
<1>10. CASE Better(results, n, b)
  <2>1. B[n] = n /\ results[n].received # 0
    BY <1>9, <1>10, Zenon DEF Better
  <2>2. ASSUME NEW t \in (1..n) \ {n} PROVE Behind(results, t, n)
    <3>1. t \in 1..(n - 1) /\ t \in 1..N
      BY <1>2, <1>7
    <3>2. CASE b = 0
      BY <1>9, <3>1, <3>2, Zenon DEF Chosen, Behind
    <3>3. CASE b # 0
      <4>1. b \in 1..(n - 1) /\ b \in 1..N /\ (t = b \/ Behind(results, t, b))
        BY <1>2, <1>7, <1>9, <3>1, <3>3 DEF Chosen
      <4>2. /\ results[t].loss \in Int /\ results[t].avg \in Int
            /\ results[b].loss \in Int /\ results[b].avg \in Int
            /\ results[n].loss \in Int /\ results[n].avg \in Int
        BY <1>2, <1>7, <3>1, <4>1, Zenon
      <4>3. \/ results[n].loss < results[b].loss
            \/ results[n].loss = results[b].loss /\ results[n].avg < results[b].avg
        BY <1>10, <3>3, Zenon DEF Better
      <4>4. \/ results[t].received = 0 \/ results[t].loss > results[b].loss
            \/ /\ results[t].loss = results[b].loss
               /\ results[t].avg > results[b].avg \/ results[t].avg = results[b].avg
        BY <4>1, Zenon DEF Behind
      <4>5. \/ results[t].received = 0 \/ results[t].loss > results[n].loss
            \/ results[t].loss = results[n].loss /\ results[t].avg > results[n].avg
        <5>1. PICK l1, a1, l2, a2, l3, a3 :
                /\ l1 = results[t].loss /\ a1 = results[t].avg
                /\ l2 = results[b].loss /\ a2 = results[b].avg
                /\ l3 = results[n].loss /\ a3 = results[n].avg
          BY Zenon
        <5>2. /\ l1 \in Int /\ a1 \in Int /\ l2 \in Int /\ a2 \in Int
              /\ l3 \in Int /\ a3 \in Int
          BY <4>2, <5>1, Zenon
        <5>3. l3 < l2 \/ (l3 = l2 /\ a3 < a2)
          BY <4>3, <5>1, Zenon
        <5>4. \/ results[t].received = 0
              \/ l1 > l2 \/ (l1 = l2 /\ (a1 > a2 \/ a1 = a2))
          BY <4>4, <5>1, Zenon
        <5>5. results[t].received = 0 \/ l1 > l3 \/ (l1 = l3 /\ a1 > a3)
          BY <5>2, <5>3, <5>4
        <5> QED
          BY <5>1, <5>5, Zenon
      <4> QED
        BY <4>5, Zenon DEF Behind
    <3> QED
      BY <3>2, <3>3, Zenon
  <2>3. Chosen(results, n, B[n])
    BY <1>2, <1>7, <2>1, <2>2 DEF Chosen
  <2> QED
    BY <1>3, <2>3
<1>11. CASE ~Better(results, n, b)
  <2>1. B[n] = b
    BY <1>9, <1>11, Zenon
  <2>2. CASE b = 0
    <3>1. results[n].received = 0
      BY <1>11, <2>2 DEF Better
    <3>2. ASSUME NEW t \in 1..n PROVE results[t].received = 0
      <4>1. t = n \/ t \in 1..(n - 1)
        BY <1>7
      <4> QED
        BY <1>9, <2>2, <3>1, <4>1, Zenon DEF Chosen
    <3> QED
      BY <1>3, <2>1, <2>2, <3>2, Zenon DEF Chosen
  <2>3. CASE b # 0
    <3>1. b \in 1..(n - 1) /\ b \in 1..N /\ b \in 1..n /\ results[b].received # 0
      BY <1>2, <1>7, <1>9, <2>3 DEF Chosen
    <3>2. ASSUME NEW t \in (1..n) \ {b} PROVE Behind(results, t, b)
      <4>1. CASE t = n
        <5>1. n > b /\ n \in 1..N
          BY <1>2, <1>7, <3>1
        <5>2. results[n].loss \in Int /\ results[n].avg \in Int
              /\ results[b].loss \in Int /\ results[b].avg \in Int
          BY <1>2, <3>1, <5>1, Zenon
        <5>3. \/ results[n].received = 0
              \/ /\ ~(results[n].loss < results[b].loss)
                 /\ ~(results[n].loss = results[b].loss /\ results[n].avg < results[b].avg)
          BY <1>11, Zenon DEF Better
        <5>4. \/ results[n].received = 0 \/ results[n].loss > results[b].loss
              \/ /\ results[n].loss = results[b].loss
                 /\ results[n].avg > results[b].avg \/ results[n].avg = results[b].avg
          BY <5>2, <5>3, BehindOrEqual, Zenon
        <5> QED
          BY <4>1, <5>1, <5>4, Zenon DEF Behind
      <4>2. CASE t # n
        <5>1. t \in (1..(n - 1)) \ {b}
          BY <1>7, <4>2
        <5> QED
          BY <1>9, <2>3, <5>1, Zenon DEF Chosen
      <4> QED
        BY <4>1, <4>2, Zenon
    <3> QED
      BY <1>3, <2>1, <2>3, <3>1, <3>2, Zenon DEF Chosen
  <2> QED
    BY <2>2, <2>3
<1> QED
  BY <1>10, <1>11, Zenon

\* Round trips of one target: of pings answered in time, within the timeout.
RttsOf(f, pings) ==
  /\ DOMAIN f \subseteq 1..Pings /\ DOMAIN f \subseteq pings
  /\ \A j \in DOMAIN f : f[j] \in 0..Timeout
  /\ f = <<>> \/ DOMAIN f # {}

\* Where the command stands in its two loops.
LoopInv ==
  /\ target \in Nat \ {0} /\ target <= Len(Targets) + 1
  /\ step \in {"dial", "write", "read", "done"}
  /\ step # "done" => target <= Len(Targets)
  /\ step = "done" => target = Len(Targets) + 1
  /\ ping \in Nat \ {0} /\ (step = "dial" => ping = 1)
  /\ step \in {"write", "read"} => ping <= Pings
  /\ waited \in 0..Timeout

\* The targets behind have their round trips, those ahead none.
RttsInv ==
  /\ DOMAIN rtts = TargetIds /\ DOMAIN answered = TargetIds
  /\ \A t \in TargetIds :
       /\ RttsOf(rtts[t], answered[t])
       /\ t < target /\ t \notin stray => DOMAIN rtts[t] = answered[t]
       /\ t > target \/ (t = target /\ step = "dial") => answered[t] = {} /\ DOMAIN rtts[t] = {}

\* Pongs are of pings written, and those of this ping were answered.
PongsInv ==
  /\ socket \in Seq(Nat)
  /\ \A j \in air : j \in 1..ping /\ (step = "write" => j < ping)
  /\ \A i \in 1..Len(socket) :
       /\ socket[i] <= ping /\ (step = "write" => socket[i] < ping)
       /\ socket[i] = ping => ping \in answered[target]
  /\ step \in {"dial", "done"} => air = {} /\ socket = <<>>

\* Where no pong came late or twice, at most the one awaited is unread.
CalmInv ==
  step \in {"write", "read"} /\ target \notin stray =>
    \/ socket = <<>> /\ answered[target] = DOMAIN rtts[target]
    \/ /\ step = "read" /\ socket = <<ping>>
       /\ answered[target] = DOMAIN rtts[target] \cup {ping}

\* The invariant of the benchmark.
BenchInv == LoopInv /\ RttsInv /\ PongsInv /\ CalmInv

(* There is a target, and the flags have their types. *)
LEMMA Bench == /\ Len(Targets) \in Nat \ {0} /\ Pings \in Nat /\ Timeout \in Nat
               /\ TargetIds = 1..Len(Targets)
<1>1. Len(Targets) # 0
  BY BenchmarkAssumption
<1> QED
  BY <1>1, BenchmarkAssumption DEF TargetIds

(* Nothing is measured when the command starts. *)
LEMMA InitBenchInv == BenchmarkInit => BenchInv
<1> SUFFICES ASSUME BenchmarkInit PROVE BenchInv
  OBVIOUS
<1>1. LoopInv
  BY Bench DEF BenchmarkInit, LoopInv
<1>2. DOMAIN <<>> = {}
  OBVIOUS
<1>3. RttsOf(<<>>, {})
  BY <1>2 DEF RttsOf
<1>4. RttsInv
  BY <1>2, <1>3 DEF BenchmarkInit, RttsInv
<1>5. PongsInv
  BY DEF BenchmarkInit, PongsInv
<1>6. CalmInv
  BY DEF BenchmarkInit, CalmInv
<1> QED
  BY <1>1, <1>4, <1>5, <1>6 DEF BenchInv

\* One target's pings go on, or are over: nothing else changes but its rtts.
Settled(left) ==
  /\ NextPing(left) /\ UNCHANGED <<answered, stray>> /\ step \in {"write", "read"}
  /\ left \in Seq(Nat) /\ \A i \in 1..Len(left) : left[i] <= ping
  /\ DOMAIN rtts' = TargetIds /\ \A t \in TargetIds \ {target} : rtts'[t] = rtts[t]
  /\ RttsOf(rtts'[target], answered[target])
  /\ target \notin stray => left = <<>> /\ answered[target] = DOMAIN rtts'[target]

(* The end of the loop body, or of a target. *)
LEMMA SettledInv == ASSUME BenchInv, NEW left, Settled(left) PROVE BenchInv'
<1>0. /\ Len(Targets) \in Nat \ {0} /\ Pings \in Nat /\ Timeout \in Nat
      /\ TargetIds = 1..Len(Targets)
  BY Bench, Zenon
<1>1. /\ target \in Nat \ {0} /\ target <= Len(Targets) /\ target \in TargetIds
      /\ ping \in Nat \ {0} /\ ping <= Pings /\ waited \in 0..Timeout
      /\ answered' = answered /\ stray' = stray
  BY <1>0 DEF BenchInv, LoopInv, Settled
<1>2. /\ DOMAIN rtts' = TargetIds /\ DOMAIN answered' = TargetIds
      /\ \A t \in TargetIds : RttsOf(rtts'[t], answered'[t])
      /\ \A t \in TargetIds : t > target => answered'[t] = {} /\ DOMAIN rtts'[t] = {}
      /\ \A t \in TargetIds : t < target /\ t \notin stray' => DOMAIN rtts'[t] = answered'[t]
  <2>1. ASSUME NEW t \in TargetIds PROVE RttsOf(rtts'[t], answered'[t])
    BY <1>1, Zenon DEF BenchInv, RttsInv, Settled
  <2>2. ASSUME NEW t \in TargetIds, t # target PROVE rtts'[t] = rtts[t]
    BY <2>2, Zenon DEF Settled
  <2>3. DOMAIN rtts' = TargetIds /\ DOMAIN answered' = TargetIds
    BY <1>1, Zenon DEF BenchInv, RttsInv, Settled
  <2> QED
    BY <1>0, <1>1, <2>1, <2>2, <2>3 DEF BenchInv, RttsInv
<1>3. CASE ping = Pings
  <2>1. /\ socket' = <<>> /\ air' = {} /\ ping' = 1 /\ waited' = 0 /\ target' = target + 1
        /\ step' = IF target = Len(Targets) THEN "done" ELSE "dial"
    BY <1>3, Zenon DEF Settled, NextPing, Close
  <2>2. LoopInv'
    BY <1>0, <1>1, <2>1 DEF LoopInv
  <2>3. PongsInv' /\ CalmInv'
    BY <2>1 DEF PongsInv, CalmInv
  <2>4. target \notin stray' => DOMAIN rtts'[target] = answered'[target]
    BY <1>1, ZenonT(30) DEF Settled
  <2>5. ASSUME NEW t \in TargetIds
        PROVE  /\ RttsOf(rtts'[t], answered'[t])
               /\ t < target' /\ t \notin stray' => DOMAIN rtts'[t] = answered'[t]
               /\ t > target' \/ (t = target' /\ step' = "dial")
                    => answered'[t] = {} /\ DOMAIN rtts'[t] = {}
    <3>1. t < target' => t < target \/ t = target
      BY <1>0, <1>1, <2>1
    <3>2. t >= target' => t > target
      BY <1>0, <1>1, <2>1
    <3> QED
      BY <1>0, <1>1, <1>2, <2>1, <2>4, <3>1, <3>2
  <2> QED
    BY <1>2, <2>2, <2>3, <2>5, Zenon DEF BenchInv, RttsInv
<1>4. CASE ping # Pings
  <2>1. /\ ping' = ping + 1 /\ step' = "write" /\ waited' = 0 /\ socket' = left
        /\ air' = air /\ target' = target
    BY <1>4, Zenon DEF Settled, NextPing
  <2>2. LoopInv'
    BY <1>0, <1>1, <1>4, <2>1 DEF LoopInv
  <2>3. RttsInv'
    BY <1>0, <1>1, <1>2, <2>1, Zenon DEF RttsInv
  <2>4. PongsInv'
    <3>1. ASSUME NEW j \in air PROVE j \in 1..ping' /\ j < ping'
      BY <1>1, <2>1 DEF BenchInv, PongsInv
    <3>2. ASSUME NEW i \in 1..Len(left) PROVE left[i] <= ping' /\ left[i] < ping' /\ left[i] # ping'
      BY <1>1, <2>1 DEF Settled
    <3> QED
      BY <2>1, <3>1, <3>2, Zenon DEF PongsInv, Settled
  <2>5. CalmInv'
    BY <1>1, <2>1, Zenon DEF CalmInv, Settled
  <2> QED
    BY <2>2, <2>3, <2>4, <2>5 DEF BenchInv
<1> QED
  BY <1>3, <1>4

(* A dial opens a socket with nothing in it, or counts every ping as lost. *)
LEMMA DialInv == ASSUME BenchInv, Dial PROVE BenchInv'
<1>0. /\ Len(Targets) \in Nat \ {0} /\ Pings \in Nat /\ Timeout \in Nat
      /\ TargetIds = 1..Len(Targets)
  BY Bench
<1>1. /\ target \in Nat \ {0} /\ target <= Len(Targets) /\ target \in TargetIds /\ step = "dial"
      /\ rtts' = rtts /\ answered' = answered /\ stray' = stray
      /\ answered[target] = {} /\ DOMAIN rtts[target] = {} /\ air = {} /\ socket = <<>>
  <2>1. step = "dial" /\ rtts' = rtts /\ answered' = answered /\ stray' = stray
    BY Zenon DEF Dial
  <2>2. target \in Nat \ {0} /\ target <= Len(Targets) /\ target \in TargetIds
    BY <1>0, <2>1 DEF BenchInv, LoopInv
  <2> QED
    BY <2>1, <2>2, Zenon DEF BenchInv, RttsInv, PongsInv
<1>2. CASE Pings > 0 /\ step' = "write" /\ UNCHANGED <<target, ping, waited, socket, air, dups>>
  <2>1. ping = 1
    BY <1>1, Zenon DEF BenchInv, LoopInv
  <2>2. LoopInv'
    BY <1>0, <1>1, <1>2, <2>1 DEF BenchInv, LoopInv
  <2>3. RttsInv'
    BY <1>1, <1>2, Zenon DEF BenchInv, RttsInv
  <2>4. PongsInv'
    <3>1. Len(socket') = 0 /\ socket' \in Seq(Nat) /\ air' = {}
      BY <1>1, <1>2
    <3> QED
      BY <1>1, <1>2, <3>1 DEF PongsInv
  <2>5. CalmInv'
    BY <1>1, <1>2, Zenon DEF CalmInv
  <2> QED
    BY <2>2, <2>3, <2>4, <2>5 DEF BenchInv
<1>3. CASE Close
  <2>1. /\ socket' = <<>> /\ air' = {} /\ ping' = 1 /\ waited' = 0 /\ target' = target + 1
        /\ step' = IF target = Len(Targets) THEN "done" ELSE "dial"
    BY <1>3, Zenon DEF Close
  <2>2. LoopInv'
    BY <1>0, <1>1, <2>1 DEF LoopInv
  <2>3. PongsInv' /\ CalmInv'
    BY <2>1 DEF PongsInv, CalmInv
  <2>4. ASSUME NEW t \in TargetIds
        PROVE  /\ t < target' /\ t \notin stray' => DOMAIN rtts'[t] = answered'[t]
               /\ t > target' \/ (t = target' /\ step' = "dial")
                    => answered'[t] = {} /\ DOMAIN rtts'[t] = {}
    <3>1. t < target' => t < target \/ t = target
      BY <1>0, <1>1, <2>1
    <3>2. t >= target' => t > target
      BY <1>0, <1>1, <2>1
    <3>3. /\ t < target /\ t \notin stray => DOMAIN rtts[t] = answered[t]
          /\ t > target => answered[t] = {} /\ DOMAIN rtts[t] = {}
      BY Zenon DEF BenchInv, RttsInv
    <3>4. t = target' => t >= target'
      BY <1>1, <2>1
    <3>5. t > target' => t >= target'
      BY <1>0, <1>1, <2>1
    <3> QED
      BY <1>1, <3>1, <3>2, <3>3, <3>4, <3>5, Zenon
  <2>5. RttsInv'
    BY <1>1, <2>4, Zenon DEF BenchInv, RttsInv
  <2> QED
    BY <2>2, <2>3, <2>5 DEF BenchInv
<1> QED
  BY <1>2, <1>3 DEF Dial

(* A ping is written, or time passes while its pong is awaited. *)
LEMMA WriteTickInv == ASSUME BenchInv, WritePing \/ Tick PROVE BenchInv'
<1>0. Pings \in Nat /\ Timeout \in Nat
  BY Bench, Zenon
<1>1. /\ target' = target /\ ping' = ping /\ socket' = socket /\ rtts' = rtts
      /\ answered' = answered /\ stray' = stray /\ step' = "read"
      /\ step \in {"write", "read"} /\ air' \subseteq air \cup {ping} /\ waited' \in 0..Timeout
  <2>1. waited \in 0..Timeout
    BY Zenon DEF BenchInv, LoopInv
  <2> QED
    BY <1>0, <2>1 DEF WritePing, Tick
<1>2. LoopInv'
  BY <1>1, Zenon DEF BenchInv, LoopInv
<1>3. RttsInv'
  BY <1>1, Zenon DEF BenchInv, RttsInv
<1>4. PongsInv'
  BY <1>1 DEF BenchInv, LoopInv, PongsInv
<1>5. CalmInv'
  BY <1>1, Zenon DEF BenchInv, CalmInv
<1> QED
  BY <1>2, <1>3, <1>4, <1>5 DEF BenchInv

(* A write or a read that fails loses the ping. *)
LEMMA LostInv == ASSUME BenchInv, WriteFails \/ ReadFails PROVE BenchInv'
<1>0. TargetIds = 1..Len(Targets) /\ Len(Targets) \in Nat
  BY Bench
<1>1. /\ NextPing(socket) /\ rtts' = rtts /\ UNCHANGED <<answered, stray>>
      /\ step = "write" \/ (step = "read" /\ socket = <<>>)
  BY Zenon DEF WriteFails, ReadFails
<1>2. target \in TargetIds
  BY <1>0, <1>1 DEF BenchInv, LoopInv
<1>3. target \notin stray => socket = <<>> /\ answered[target] = DOMAIN rtts[target]
  <2>1. <<>> # <<ping>>
    BY Zenon
  <2> QED
    BY <1>1, <2>1 DEF BenchInv, CalmInv
<1>4. Settled(socket)
  BY <1>1, <1>2, <1>3, Zenon DEF BenchInv, RttsInv, PongsInv, Settled
<1> QED
  BY <1>4, SettledInv

(* A read takes one datagram, and counts it if its nonce is the one awaited. *)
LEMMA ReadPongInv == ASSUME BenchInv, ReadPong PROVE BenchInv'
<1>0. TargetIds = 1..Len(Targets) /\ Len(Targets) \in Nat /\ Pings \in Nat
  BY Bench, Zenon
<1>1. /\ step = "read" /\ socket # <<>> /\ NextPing(Tail(socket)) /\ UNCHANGED <<answered, stray>>
      /\ socket \in Seq(Nat)
  BY Zenon DEF ReadPong, BenchInv, PongsInv
<1>2. target \in TargetIds /\ ping \in 1..Pings /\ waited \in 0..Timeout
  BY <1>0, <1>1 DEF BenchInv, LoopInv
<1>3. /\ Tail(socket) \in Seq(Nat) /\ Head(socket) = socket[1] /\ 1 \in 1..Len(socket)
      /\ \A i \in 1..Len(Tail(socket)) : Tail(socket)[i] = socket[i + 1] /\ i + 1 \in 1..Len(socket)
  BY <1>1
<1>4. \A i \in 1..Len(Tail(socket)) : Tail(socket)[i] <= ping
  BY <1>3 DEF BenchInv, PongsInv
<1>5. target \notin stray => /\ Head(socket) = ping /\ Tail(socket) = <<>>
                            /\ answered[target] = DOMAIN rtts[target] \cup {ping}
  <2>1. Head(<<ping>>) = ping /\ Tail(<<ping>>) = <<>>
    BY <1>2
  <2> QED
    BY <1>1, <2>1, Zenon DEF BenchInv, CalmInv
<1>6. CASE Head(socket) = ping
  <2>1. PICK f : f = [j \in DOMAIN rtts[target] \cup {ping} |->
                        IF j = ping THEN waited ELSE rtts[target][j]]
    BY Zenon
  <2>2. rtts' = [rtts EXCEPT ![target] = f]
    BY <1>6, <2>1, Zenon DEF ReadPong
  <2>3. /\ DOMAIN rtts = TargetIds /\ RttsOf(rtts[target], answered[target])
        /\ ping \in answered[target]
    BY <1>2, <1>3, <1>6, Zenon DEF BenchInv, RttsInv, PongsInv
  <2>4. DOMAIN f = DOMAIN rtts[target] \cup {ping}
    BY <2>1, Zenon
  <2>5. RttsOf(f, answered[target])
    BY <1>2, <2>1, <2>3, <2>4, Zenon DEF RttsOf
  <2>6. /\ DOMAIN rtts' = TargetIds /\ rtts'[target] = f
        /\ \A t \in TargetIds \ {target} : rtts'[t] = rtts[t]
    BY <1>2, <2>2, <2>3, Zenon
  <2>7. Settled(Tail(socket))
    BY <1>1, <1>3, <1>4, <1>5, <2>4, <2>5, <2>6, Zenon DEF Settled
  <2> QED
    BY <2>7, SettledInv
<1>7. CASE Head(socket) # ping
  <2>1. rtts' = rtts
    BY <1>7, Zenon DEF ReadPong
  <2>2. Settled(Tail(socket))
    BY <1>1, <1>2, <1>3, <1>4, <1>5, <1>7, <2>1, Zenon DEF BenchInv, RttsInv, Settled
  <2> QED
    BY <2>2, SettledInv
<1> QED
  BY <1>6, <1>7

(* A pong comes in time, late or twice. *)
LEMMA PongArrivesInv == ASSUME BenchInv, PongArrives PROVE BenchInv'
<1>0. TargetIds = 1..Len(Targets) /\ Len(Targets) \in Nat /\ Pings \in Nat
  BY Bench
<1>1. PICK j \in air :
        /\ air' \subseteq air /\ socket' = Append(socket, j)
        /\ LET inTime == step = "read" /\ j = ping /\ j \notin answered[target] IN
           /\ answered' = IF inTime THEN [answered EXCEPT ![target] = answered[target] \cup {j}]
                          ELSE answered
           /\ stray' = IF inTime THEN stray ELSE stray \cup {target}
  BY Zenon DEF PongArrives
<1>2. /\ step \in {"read", "write"} /\ target' = target /\ ping' = ping /\ step' = step
      /\ waited' = waited /\ rtts' = rtts
  BY Zenon DEF PongArrives
<1>3. target \in TargetIds /\ target \in Nat /\ ping \in Nat \ {0} /\ DOMAIN answered = TargetIds
      /\ socket \in Seq(Nat) /\ j \in 1..ping /\ (step = "write" => j < ping)
  BY <1>0, <1>1, <1>2 DEF BenchInv, LoopInv, RttsInv, PongsInv
<1>4. LoopInv'
  BY <1>2 DEF BenchInv, LoopInv
<1>5. /\ socket' \in Seq(Nat) /\ Len(socket') = Len(socket) + 1
      /\ \A i \in 1..Len(socket') :
           (i \in 1..Len(socket) /\ socket'[i] = socket[i]) \/ socket'[i] = j
  BY <1>1, <1>3
<1>6. CASE step = "read" /\ j = ping /\ j \notin answered[target]
  <2>1. /\ answered' = [answered EXCEPT ![target] = answered[target] \cup {ping}] /\ stray' = stray
    BY <1>1, <1>6, Zenon
  <2>2. /\ DOMAIN answered' = TargetIds /\ answered'[target] = answered[target] \cup {ping}
        /\ \A t \in TargetIds \ {target} : answered'[t] = answered[t]
    BY <1>3, <2>1, Zenon
  <2>3. ASSUME NEW t \in TargetIds
        PROVE  /\ RttsOf(rtts'[t], answered'[t])
               /\ t < target' /\ t \notin stray' => DOMAIN rtts'[t] = answered'[t]
               /\ t > target' \/ (t = target' /\ step' = "dial")
                    => answered'[t] = {} /\ DOMAIN rtts'[t] = {}
    <3>1. CASE t = target
      BY <1>2, <1>3, <1>6, <2>2, <3>1 DEF BenchInv, RttsInv, RttsOf
    <3>2. CASE t # target
      BY <1>2, <1>6, <2>1, <2>2, <3>2, Zenon DEF BenchInv, RttsInv
    <3> QED
      BY <3>1, <3>2, Zenon
  <2>4. RttsInv'
    BY <1>2, <2>2, <2>3, Zenon DEF BenchInv, RttsInv
  <2>5. PongsInv'
    BY <1>1, <1>2, <1>3, <1>5, <1>6, <2>2 DEF BenchInv, PongsInv
  <2>6. CalmInv'
    <3>1. ASSUME target \notin stray PROVE socket = <<>> /\ answered[target] = DOMAIN rtts[target]
      BY <1>6, <3>1, Zenon DEF BenchInv, CalmInv
    <3>2. socket = <<>> => socket' = <<ping>>
      BY <1>1, <1>6
    <3> QED
      BY <1>2, <1>6, <2>1, <2>2, <3>1, <3>2, Zenon DEF CalmInv
  <2> QED
    BY <1>4, <2>4, <2>5, <2>6, Zenon DEF BenchInv
<1>7. CASE ~(step = "read" /\ j = ping /\ j \notin answered[target])
  <2>1. answered' = answered /\ stray' = stray \cup {target}
    BY <1>1, <1>7, Zenon
  <2>2. RttsInv'
    BY <1>2, <2>1, Zenon DEF BenchInv, RttsInv
  <2>3. PongsInv'
    <3>1. j = ping => ping \in answered[target]
      BY <1>2, <1>3, <1>7
    <3> QED
      BY <1>1, <1>2, <1>3, <1>5, <2>1, <3>1 DEF BenchInv, PongsInv
  <2>4. CalmInv'
    BY <1>2, <2>1 DEF CalmInv
  <2> QED
    BY <1>4, <2>2, <2>3, <2>4 DEF BenchInv
<1> QED
  BY <1>6, <1>7, Zenon

(* Every step keeps the invariant. *)
LEMMA NextBenchInv == BenchInv /\ [BenchmarkNext]_benchVars => BenchInv'
<1> SUFFICES ASSUME BenchInv, [BenchmarkNext]_benchVars PROVE BenchInv'
  OBVIOUS
<1>1. CASE UNCHANGED benchVars
  BY <1>1, Zenon DEF benchVars, BenchInv, LoopInv, RttsInv, PongsInv, CalmInv
<1>2. CASE BenchmarkNext
  BY <1>2, DialInv, WriteTickInv, LostInv, ReadPongInv, PongArrivesInv DEF BenchmarkNext
<1> QED
  BY <1>1, <1>2, Zenon

(* What is reported of round trips, and what is recommended, follows. *)
LEMMA BenchInvImplies == BenchInv => BenchmarkExact
<1> SUFFICES ASSUME BenchInv PROVE BenchmarkExact
  OBVIOUS
<1>0. TargetIds = 1..Len(Targets) /\ Len(Targets) \in Nat /\ Pings \in Nat /\ Timeout \in Nat
  BY Bench
<1>1. ASSUME NEW t \in TargetIds
      PROVE  /\ DOMAIN rtts[t] \subseteq answered[t]
             /\ \A j \in DOMAIN rtts[t] : rtts[t][j] <= Timeout
             /\ (t < target /\ t \notin stray) => DOMAIN rtts[t] = answered[t]
  BY <1>0 DEF BenchInv, RttsInv, RttsOf
<1>2. PICK results : results = [t \in TargetIds |-> summarise(t)]
  BY Zenon
<1>3. Len(results) = Len(Targets)
  BY <1>0, <1>2
<1>4. ASSUME NEW t \in TargetIds
      PROVE  /\ results[t].received = Cardinality(DOMAIN rtts[t])
             /\ results[t].received \in Nat
             /\ results[t].loss \in Int /\ results[t].avg \in Int
             /\ results[t].received = 0 => rtts[t] = <<>>
  <2>1. IsFiniteSet(DOMAIN rtts[t])
    <3>1. IsFiniteSet(1..Pings)
      BY <1>0, FS_Interval
    <3> QED
      BY <3>1, FS_Subset, Zenon DEF BenchInv, RttsInv, RttsOf
  <2>2. PICK k : k = Cardinality(DOMAIN rtts[t])
    BY Zenon
  <2>3. k \in Nat /\ (k = 0 => DOMAIN rtts[t] = {})
    BY <2>1, <2>2, FS_CardinalityType, FS_EmptySet
  <2>4. PICK s : s = Sums(rtts[t])[Pings]
    BY Zenon
  <2>5. s \in Nat
    <3>1. \A j \in DOMAIN rtts[t] : rtts[t][j] \in Nat
      BY <1>0 DEF BenchInv, RttsInv, RttsOf
    <3>2. Sums(rtts[t]) \in [0..Pings -> Nat]
      BY <1>0, <3>1, SumsLoop, Zenon
    <3> QED
      BY <1>0, <2>4, <3>2
  <2>6. /\ results[t].received = k /\ results[t].loss = Pings - k
        /\ results[t].avg = IF k = 0 THEN 0 ELSE s \div k
    BY <1>2, <2>2, <2>4, Zenon DEF summarise
  <2>7. k # 0 => s \div k \in Int
    BY <2>3, <2>5
  <2>8. k = 0 => rtts[t] = <<>>
    BY <2>3, Zenon DEF BenchInv, RttsInv, RttsOf
  <2> QED
    BY <1>0, <2>2, <2>3, <2>6, <2>7, <2>8
<1>5. PICK best : best = recommend(results)
  BY Zenon
<1>6. Chosen(results, Len(results), best)
  <2>1. Len(results) \in 0..Len(results) /\ Len(results) \in Nat
    BY <1>0, <1>3
  <2>2. \A t \in 1..Len(results) : results[t].loss \in Int /\ results[t].avg \in Int
    BY <1>0, <1>3, <1>4, Zenon
  <2> QED
    BY <1>5, <2>1, <2>2, BestIsBest, Zenon DEF recommend
<1>7. IF best = 0 THEN \A t \in TargetIds : rtts[t] = <<>>
      ELSE /\ results[best].received > 0
           /\ \A t \in TargetIds \ {best} :
                LET r == results[t]
                    b == results[best] IN
                \/ r.received = 0 \/ r.loss > b.loss
                \/ r.loss = b.loss /\ r.avg > b.avg
                \/ r.loss = b.loss /\ r.avg = b.avg /\ t > best
  <2>1. CASE best = 0
    BY <1>0, <1>3, <1>4, <1>6, <2>1, Zenon DEF Chosen
  <2>2. CASE best # 0
    <3>1. best \in TargetIds /\ results[best].received # 0
          /\ \A t \in TargetIds \ {best} : Behind(results, t, best)
      BY <1>0, <1>3, <1>6, <2>2, Zenon DEF Chosen
    <3>2. results[best].received > 0
      BY <1>4, <3>1
    <3> QED
      BY <2>2, <3>1, <3>2, Zenon DEF Behind
  <2> QED
    BY <2>1, <2>2, Zenon
<1> QED
  BY <1>1, <1>2, <1>5, <1>7, ZenonT(30) DEF BenchmarkExact

(* The benchmark is exact (src/cmd/geminactl/benchmark.go): a ping is counted
   as received only if its own pong came in time, every such pong is counted
   where none came late or twice, and the target recommended is the first of
   those that lost least and, among them, were fastest.                      *)
THEOREM BenchmarkIsExact == BenchmarkSpec => []BenchmarkExact
  BY InitBenchInv, NextBenchInv, BenchInvImplies, PTL DEF BenchmarkSpec
=============================================================================
