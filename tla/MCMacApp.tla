------------------------------ MODULE MCMacApp ------------------------------
(* MacApp for TLC: a session is spent on the Protect toggle, with a token   *)
(* loaded and no keychain errors, on the token settings, or on the paths.   *)
(* It is left where one click has overtaken another.                        *)
EXTENDS MacApp

VARIABLE session

MCInit ==
  /\ AppInit
  /\ session \in {"protect", "settings", "paths"}
  /\ session # "settings" => legacy = "" /\ stored = "t1"
  /\ session # "protect" => profiles = 0
  /\ session # "paths" => paths = <<>>

MCNext ==
  /\ AppNext /\ ~overlapped
  /\ UNCHANGED session
  /\ session = "protect" =>
       ~failed' /\ ~edited' /\ ~(view = "idle" /\ view' = "appear" /\ kills' = kills)
  /\ session # "protect" => connects' = <<>>
  /\ IF session = "paths" THEN UNCHANGED tokenVars /\ kills' = 0 ELSE UNCHANGED pathVars

MCSpec == MCInit /\ [][MCNext]_<<appVars, session>> /\ AppFairness
=============================================================================
