----------------------------- MODULE PathPolicy -----------------------------
(***************************************************************************)
(* apps/macos/Core/PathPolicy.swift: which of the paths that are up carry  *)
(* the next packet.  Paths are a sequence of [id, up, metered] in the      *)
(* order they are configured, as in the code, where order breaks ties; a   *)
(* filtered list is the set of positions it keeps.  Definitions named X_Y  *)
(* are mistaken variants of X.                                             *)
(***************************************************************************)
EXTENDS Integers, Sequences, FiniteSets

Modes == {"duplicate", "failover", "smart", "auto"}
UpPaths(ps) == {i \in DOMAIN ps : ps[i].up}
FreePaths(ps) == {i \in UpPaths(ps) : ~ps[i].metered}
IdsOf(ps, kept) == {ps[i].id : i \in kept}

effectiveMode_Any(mode, ps) ==
  IF mode # "auto" THEN mode
  ELSE IF FreePaths(ps) # {} THEN "duplicate" ELSE "smart"

\* auto is duplicate when no path is metered, smart when one is.
effectiveMode(mode, ps) ==
  IF mode # "auto" THEN mode
  ELSE IF FreePaths(ps) = UpPaths(ps) THEN "duplicate" ELSE "smart"

first(kept) == CHOOSE i \in kept : \A j \in kept : i <= j

\* The preferred path if it is up, or the first unmetered one, or the first.
choosePrimary(preferred, ps) ==
  LET wanted == {i \in UpPaths(ps) : ps[i].id = preferred}
  IN IF wanted # {} THEN first(wanted)
     ELSE IF FreePaths(ps) # {} THEN first(FreePaths(ps)) ELSE first(UpPaths(ps))

sendPaths(policy, ps, primaryUnstable) ==
  LET up == UpPaths(ps)
      mode == effectiveMode(policy.mode, ps)
  IN IF Cardinality(up) <= 1 \/ mode = "duplicate" \/ (mode = "smart" /\ primaryUnstable)
     THEN IdsOf(ps, up)
     ELSE {ps[choosePrimary(policy.preferred, ps)].id}
=============================================================================
