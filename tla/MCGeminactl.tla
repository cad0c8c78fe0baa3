---------------------------- MODULE MCGeminactl ----------------------------
(***************************************************************************)
(* Constants for TLC: Geminactl on small instances of each command, and    *)
(* the replay window of a session beside them: with command "replay" no    *)
(* command runs, and the window is offered numbers.                        *)
(***************************************************************************)
EXTENDS Geminactl, ReplayWindow

\* Wi-Fi, two phones macOS drives, and an adapter of contradictory evidence.
WiFi == [device |-> "wi-fi", port |-> "airport", words |-> {"usb"}]
Phone1 == [device |-> "phone", port |-> "ethernet", words |-> {"android", "tether"}]
Phone2 == [device |-> "phone", port |-> "ethernet", words |-> {"android", "rndis"}]
Odd == [device |-> "other", port |-> "wifi", words |-> {"android", "rndis"}]
MCHardware == {WiFi, Phone1, Phone2, Odd}
MCNics == {"en0", "en1", "en5", "en6"}

\* Not there; no address yet; carrier lost, address kept; usable.
MCLinkStates == {{}, {"present", "up", "running"}, {"present", "up", "ipv4"},
                 {"present", "up", "running", "ipv4"}}

\* The RNDIS control interface of a phone, and an interface of a dock.
MCUsbFunctions == {<<224, 1, 3>>, <<2, 13, 0>>}
MCVersions == {<<>>, <<10, 15>>, <<11, 0>>}

MCTargets == <<"home", "hosted">>

MCProbeConfigs ==
  {[count |-> 4, duplicate |-> FALSE, dual |-> TRUE,
    path |-> "wi-fi", path2 |-> "android-usb-tether"],
   [count |-> 4, duplicate |-> TRUE, dual |-> FALSE,
    path |-> "wi-fi", path2 |-> "wi-fi"],
   [count |-> 2, duplicate |-> TRUE, dual |-> TRUE,
    path |-> "android-usb-tether", path2 |-> "wi-fi"]}

\* Only the command that runs has a choice of inputs; the others start alike.
\* The second interface of a kind starts either usable or not there, the one
\* of contradictory evidence usable; the dock is there when preflight looks at
\* the bus with a version it accepts.
MCInit ==
  /\ hw \in {[n \in Nics |-> CASE n = "en0" -> WiFi [] n = "en1" -> second
                               [] n = "en5" -> Phone1 [] OTHER -> Phone2] :
               second \in {WiFi, Odd}}
  /\ nic \in {f \in [Nics -> LinkStates] : \A n \in {"en1", "en6"} :
                f[n] \in {{}, {"present", "up", "running", "ipv4"}}}
  /\ hw["en1"] = Odd => nic["en1"] # {}
  /\ CtlInit
  /\ ReplayInit
  /\ cmd # "probe" => cfg = CHOOSE c \in ProbeConfigs : c.count = 2
  /\ cmd \notin {"preflight", "darwin-evidence"} =>
       nic = [n \in Nics |-> {}] /\ bus = {}
  /\ cmd # "preflight" => version = <<>> /\ <<2, 13, 0>> \notin bus
  /\ cmd = "preflight" /\ version # <<11, 0>> => bus = {} /\ hw["en1"] = WiFi
MCNext ==
  \/ CtlNext /\ UNCHANGED replayVars
  \/ cmd = "replay" /\ ReplayNext /\ UNCHANGED ctlVars
MCSpec == MCInit /\ [][MCNext]_<<ctlVars, replayVars>>
=============================================================================
