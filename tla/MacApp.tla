------------------------------- MODULE MacApp -------------------------------
(***************************************************************************)
(* apps/macos/AppUI: the menu-bar app.  TunnelController installs the VPN  *)
(* profile, starts and stops the tunnel and shows its status; StatusView   *)
(* keeps the token in the keychain.  Everything runs on the main actor but *)
(* suspends at each await, while NetworkExtension changes the connection   *)
(* and posts notifications to the main queue.  The app may be killed and   *)
(* started again; profiles, tunnel and keychain live on.  The paths of a   *)
(* session, of which the app knows one so far, are those of Protection.     *)
(* Definitions named X_Y are mistaken variants of X.                       *)
(***************************************************************************)
EXTENDS Protection

CONSTANTS
  Tokens,      \* tokens a user may have
  MaxClicks,   \* bound: clicks that turn Protect on
  MaxChanges,  \* bound: changes of the tunnel nobody in the app asked for
  MaxQueue,    \* bound: items in the main queue when the tunnel changes
  MaxKills     \* bound: times the app is killed

VARIABLES
  profiles,   \* number of profiles installed; they are 1, 2, ...
  vpn,        \* profile -> NEVPNStatus of its connection
  manager,    \* the adopted profile, observed for status changes; 0: none
  observer,   \* statusObserver: which registration it is, counted by adopt
  shown,      \* TunnelController.status
  queue,      \* main queue: <<"post", profile, observer>> and <<"set", status>>
  missed,     \* history: a change was queued for an observer that is gone
  loader,     \* loadExisting: [pc, found]
  connects,   \* one connect() task per click: a sequence of [pc, mgr]
  changes, kills,
  wish,       \* history: what the last click asked for
  overlapped, \* history: a click came while a connect was under way
  defied,     \* history: the app started the tunnel after a click to stop it
  legacy,     \* token an earlier build left in UserDefaults; "" if none
  stored,     \* token in the keychain; "" if none
  field,      \* the token @State
  view,       \* StatusView: "appear", "erase", "read" or "idle"
  edited,     \* the user typed into the field; its onChange has not run
  pending,    \* the field changed; its onChange has not run
  wanted,     \* history: the token the user entered last
  failed      \* history: a keychain call failed

tunnelVars == <<profiles, vpn, manager, observer, shown, queue, missed, loader,
                connects, changes, wish, overlapped, defied>>
tokenVars == <<legacy, stored, field, view, edited, pending, wanted, failed>>
appVars == <<tunnelVars, tokenVars, pathVars, kills>>

On == {"connected", "connecting", "reasserting"}
InFlight == {c \in DOMAIN connects : connects[c].pc # "done"}

\* StatusView.status: the headline for a status of the connection.
headline(s) ==
  CASE s \in {"connecting", "reasserting", "disconnecting"} -> "connecting"
    [] s = "connected" ->
         protectionStatus(<<[id |-> "Wi-Fi", up |-> TRUE, metered |-> FALSE]>>,
                          FALSE, FALSE)
    [] OTHER -> "off"

\* The toggle, and whether it can be used.
protectOn == shown \in On
isConfigured == field # ""

AppInit ==
  /\ SessionInit
  /\ profiles \in {0, 1}
  /\ vpn = [p \in 1..(MaxClicks + 1) |-> "disconnected"]
  /\ manager = 0 /\ observer = 0 /\ shown = "invalid" /\ queue = <<>> /\ missed = FALSE
  /\ loader = [pc |-> "load", found |-> 0]
  /\ connects = <<>> /\ changes = 0 /\ kills = 0
  /\ wish = "none" /\ overlapped = FALSE /\ defied = FALSE
  /\ legacy \in Tokens \cup {""} /\ stored \in Tokens \cup {""}
  /\ field = "" /\ view = "appear" /\ edited = FALSE /\ pending = FALSE
  /\ wanted = IF legacy # "" THEN legacy ELSE stored
  /\ failed = FALSE

-----------------------------------------------------------------------------
(* TunnelController *)

adopt_NoRead(p) == manager' = p /\ observer' = observer + 1 /\ UNCHANGED shown

\* Adopts p, reads its status and observes it in place of what was observed.
\* The connection posts on the main thread, so not in between.
adopt(p) == manager' = p /\ observer' = observer + 1 /\ shown' = vpn[p]

\* A suspended loadAllFromPreferences returns; on an error there is nothing.
LoadExisting ==
  /\ loader.pc = "load"
  /\ \E found \in {0, IF profiles > 0 THEN 1 ELSE 0} :
       loader' = [pc |-> IF found = 0 THEN "done" ELSE "adopt", found |-> found]
  /\ UNCHANGED <<profiles, vpn, manager, observer, shown, queue, missed, connects,
                 changes, wish, overlapped, defied, tokenVars, kills, pathVars>>

AdoptExisting ==
  /\ loader.pc = "adopt"
  /\ adopt(loader.found)
  /\ loader' = [loader EXCEPT !.pc = "done"]
  /\ UNCHANGED <<profiles, vpn, queue, missed, connects, changes, wish, overlapped,
                 defied, tokenVars, kills, pathVars>>

\* protectBinding.set(true): connect() starts a task.
ClickOn ==
  /\ isConfigured /\ ~protectOn /\ Len(connects) < MaxClicks
  /\ connects' = Append(connects, [pc |-> "list", mgr |-> 0])
  /\ wish' = "on"
  /\ overlapped' = (overlapped \/ InFlight # {})
  /\ UNCHANGED <<profiles, vpn, manager, observer, shown, queue, loader, missed,
                 changes, defied, tokenVars, kills, pathVars>>

\* The task goes on after an await that succeeded, or ends on an error.
Goes(c, to, mgr) == connects' = [connects EXCEPT ![c] = [pc |-> to, mgr |-> mgr]]
ConnectFails(c) ==
  /\ connects[c].pc # "done"
  /\ Goes(c, "done", connects[c].mgr)
  /\ UNCHANGED <<profiles, vpn, manager, observer, shown, queue, loader, missed,
                 changes, wish, overlapped, defied, tokenVars, kills, pathVars>>

installList_AlwaysNew(c) ==
  /\ connects[c].pc = "list"
  /\ Goes(c, "save", 0)
  /\ UNCHANGED <<profiles, vpn, manager, observer, shown, queue, loader, missed,
                 changes, wish, overlapped, defied, tokenVars, kills, pathVars>>

\* The first profile, or a new one.
installList(c) ==
  /\ connects[c].pc = "list"
  /\ Goes(c, "save", IF profiles > 0 THEN 1 ELSE 0)
  /\ UNCHANGED <<profiles, vpn, manager, observer, shown, queue, loader, missed,
                 changes, wish, overlapped, defied, tokenVars, kills, pathVars>>

installSave(c) ==
  /\ connects[c].pc = "save"
  /\ profiles' = IF connects[c].mgr = 0 THEN profiles + 1 ELSE profiles
  /\ Goes(c, "reload", IF connects[c].mgr = 0 THEN profiles + 1 ELSE connects[c].mgr)
  /\ UNCHANGED <<vpn, manager, observer, shown, queue, loader, missed, changes, wish,
                 overlapped, defied, tokenVars, kills, pathVars>>

installReload(c) ==
  /\ connects[c].pc = "reload"
  /\ adopt(connects[c].mgr)
  /\ Goes(c, "start", connects[c].mgr)
  /\ UNCHANGED <<profiles, vpn, queue, loader, missed, changes, wish, overlapped,
                 defied, tokenVars, kills, pathVars>>

\* NetworkExtension: the connection of p is now in s, and says so to the
\* observer it has, if any.
Becomes(p, s) ==
  /\ vpn' = [vpn EXCEPT ![p] = s]
  /\ queue' = IF p = manager THEN Append(queue, <<"post", p, observer>>) ELSE queue

\* start() starts whichever manager is adopted by now.
start(c) ==
  /\ connects[c].pc = "start" /\ manager # 0
  /\ IF vpn[manager] = "disconnected" THEN Becomes(manager, "connecting")
                                      ELSE UNCHANGED <<vpn, queue>>
  /\ Goes(c, "done", connects[c].mgr)
  /\ defied' = (defied \/ wish = "off")
  /\ UNCHANGED <<profiles, manager, observer, shown, loader, missed, changes, wish,
                 overlapped, tokenVars, kills, pathVars>>

\* protectBinding.set(false): stop(); one click until the next to turn it on.
ClickOff ==
  /\ isConfigured /\ protectOn /\ wish # "off"
  /\ IF manager # 0 /\ vpn[manager] \in On
     THEN Becomes(manager, "disconnecting") ELSE UNCHANGED <<vpn, queue>>
  /\ wish' = "off"
  /\ overlapped' = (overlapped \/ InFlight # {})
  /\ UNCHANGED <<profiles, manager, observer, shown, loader, missed, connects, changes,
                 defied, tokenVars, kills, pathVars>>

\* The main queue: the observer's block reads the status of its connection
\* and starts a task for the main actor, which assigns it.  A block queued for
\* an observer that adopt has removed meanwhile may run or not.
MainQueue ==
  /\ queue # <<>>
  /\ LET item == Head(queue) IN
     IF item[1] = "post"
     THEN /\ \/ /\ queue' = Append(Tail(queue), <<"set", vpn[item[2]]>>)
                /\ UNCHANGED missed
             \/ /\ item[3] # observer
                /\ queue' = Tail(queue) /\ missed' = TRUE
          /\ UNCHANGED shown
     ELSE queue' = Tail(queue) /\ shown' = item[2] /\ UNCHANGED missed
  /\ UNCHANGED <<profiles, vpn, manager, observer, loader, connects, changes, wish,
                 overlapped, defied, tokenVars, kills, pathVars>>

\* Outside: a transition in progress ends; or, of its own accord or from the
\* system settings, the tunnel comes up, reasserts or goes down.
TunnelSettles(p) ==
  /\ Len(queue) < MaxQueue
  /\ \/ vpn[p] = "connecting" /\ \E s \in {"connected", "disconnecting"} : Becomes(p, s)
     \/ vpn[p] = "reasserting" /\ Becomes(p, "connected")
     \/ vpn[p] = "disconnecting" /\ Becomes(p, "disconnected")
  /\ UNCHANGED <<profiles, manager, observer, shown, loader, missed, connects, changes,
                 wish, overlapped, defied, tokenVars, kills, pathVars>>

TunnelChanges(p) ==
  /\ Len(queue) < MaxQueue
  /\ changes < MaxChanges /\ changes' = changes + 1
  /\ \/ vpn[p] = "disconnected" /\ Becomes(p, "connecting")
     \/ vpn[p] = "connected" /\ \E s \in {"reasserting", "disconnecting"} : Becomes(p, s)
  /\ UNCHANGED <<profiles, manager, observer, shown, loader, missed, connects, wish,
                 overlapped, defied, tokenVars, kills, pathVars>>

-----------------------------------------------------------------------------
(* StatusView and KeychainStore *)

setToken_OnlyUpdates(token, ok) ==
  IF ok /\ (stored # "" \/ token = "") THEN token ELSE stored

\* What the keychain holds after setToken: an update, an insert if there is
\* nothing to update, a deletion of an empty token; errors are ignored.
setToken(token, ok) == IF ok THEN token ELSE stored

\* loadToken: store the legacy value, erase it, read the keychain.
MigrateToken ==
  /\ view = "appear"
  /\ IF legacy = "" THEN view' = "read" /\ UNCHANGED <<stored, failed>>
     ELSE \E ok \in BOOLEAN : /\ stored' = setToken(legacy, ok)
                              /\ failed' = (failed \/ ~ok)
                              /\ view' = "erase"
  /\ UNCHANGED <<tunnelVars, legacy, field, edited, pending, wanted, kills, pathVars>>

EraseLegacy ==
  /\ view = "erase" /\ view' = "read" /\ legacy' = ""
  /\ UNCHANGED <<tunnelVars, stored, field, edited, pending, wanted, failed, kills,
                 pathVars>>

ReadToken ==
  /\ view = "read" /\ view' = "idle"
  /\ \E ok \in BOOLEAN :
       /\ field' = IF ok THEN stored ELSE ""
       /\ failed' = (failed \/ ~ok)
  /\ pending' = (field' # field)
  /\ UNCHANGED <<tunnelVars, legacy, stored, edited, wanted, kills, pathVars>>

EditToken ==
  /\ view = "idle" /\ ~pending
  /\ \E t \in (Tokens \cup {""}) \ {field} : field' = t
  /\ edited' = TRUE /\ pending' = TRUE
  /\ UNCHANGED <<tunnelVars, legacy, stored, view, wanted, failed, kills, pathVars>>

\* onChange(of: token), whoever changed it.
TokenChanged ==
  /\ pending
  /\ \E ok \in BOOLEAN : /\ stored' = setToken(field, ok)
                         /\ failed' = (failed \/ ~ok)
  /\ wanted' = IF edited THEN field ELSE wanted
  /\ edited' = FALSE /\ pending' = FALSE
  /\ UNCHANGED <<tunnelVars, legacy, field, view, kills, pathVars>>

\* The window is opened again.
Reappear ==
  /\ view = "idle" /\ ~pending /\ view' = "appear"
  /\ UNCHANGED <<tunnelVars, legacy, stored, field, edited, pending, wanted, failed,
                 kills, pathVars>>

\* The app is killed, at any step, and started again.
Relaunch ==
  /\ kills < MaxKills /\ kills' = kills + 1
  /\ manager' = 0 /\ observer' = 0 /\ shown' = "invalid" /\ queue' = <<>>
  /\ missed' = FALSE
  /\ loader' = [pc |-> "load", found |-> 0]
  /\ connects' = [c \in DOMAIN connects |-> [connects[c] EXCEPT !.pc = "done"]]
  /\ field' = "" /\ view' = "appear" /\ edited' = FALSE /\ pending' = FALSE
  /\ UNCHANGED <<profiles, vpn, changes, wish, overlapped, defied, legacy, stored,
                 wanted, failed, pathVars>>

-----------------------------------------------------------------------------
connect(c) == installList(c) \/ installSave(c) \/ installReload(c) \/ start(c)
                             \/ ConnectFails(c)
View == MigrateToken \/ EraseLegacy \/ ReadToken \/ TokenChanged

\* loadToken runs on the main actor without suspending.
MainActorFree == view \notin {"erase", "read"}

MainActor ==
  /\ MainActorFree
  /\ \/ LoadExisting \/ AdoptExisting \/ MainQueue
     \/ ClickOn \/ ClickOff
     \/ \E c \in DOMAIN connects : connect(c)

AppNext ==
  \/ MainActor \/ View \/ EditToken \/ Reappear \/ Relaunch
  \/ \E p \in 1..profiles : TunnelSettles(p) \/ TunnelChanges(p)
  \/ PathChanges /\ UNCHANGED <<tunnelVars, tokenVars, kills>>

\* The main actor and the main queue go on; a transition of the tunnel ends.
AppFairness ==
  /\ WF_appVars(MainActorFree /\ MainQueue)
  /\ WF_appVars(MainActorFree /\ (LoadExisting \/ AdoptExisting))
  /\ WF_appVars(View)
  /\ \A p \in 1..(MaxClicks + 1) : WF_appVars(p \in 1..profiles /\ TunnelSettles(p))

AppSpec == AppInit /\ [][AppNext]_appVars /\ AppFairness

-----------------------------------------------------------------------------
(* The headline tells the truth in the end: once the tunnel stops changing,
   what an app with an adopted profile shows is what the connection is in,
   although the status is copied by adopt and by two queued steps behind it,
   in between which profile and connection may change.  Two cases are
   excepted: clicks while a connect is under way (see OneAtATime), and a
   change whose queued block never runs, since adopt has removed its observer.
   In the second an assignment queued before it overwrites what adopt read,
   and nothing corrects the headline before the next change. *)
StatusSettles ==
  <>[](overlapped \/ missed \/ manager = 0 \/ headline(shown) = headline(vpn[manager]))

(* Clicks that do not overtake one another are safe: however installs fail or
   are killed half way, there is never a second profile, and a tunnel the user
   turned off is not started again by the app.  (connect() has no guard of its
   own: two quick clicks install two profiles, and a task that is still
   waiting starts the tunnel after a click to stop it.) *)
OneAtATime == overlapped \/ (profiles <= 1 /\ ~defied)

(* Neither the migration from UserDefaults nor a reload loses the token,
   wherever the app is killed, unless a keychain call failed.  (It does then:
   setToken's result is ignored before the legacy value is erased, and a failed
   read empties the field, whose onChange deletes the stored token.) *)
TokenKept == failed \/ wanted \in {legacy, stored}
=============================================================================
