----------------------------- MODULE Geminactl -----------------------------
(***************************************************************************)
(* cmd/geminactl: the command line picks one of four commands, each a      *)
(* module of its own.  With command "serve" nobody runs geminactl and the  *)
(* window meets datagrams in any order.                                    *)
(***************************************************************************)
EXTENDS ProbeCommand, Preflight, Benchmark

CONSTANT Commands  \* what os.Args[1] may be

VARIABLE cmd       \* the command

ctlVars == <<windowVars, preflightVars, benchVars, probeVars, cmd>>

CtlInit ==
  /\ cmd \in Commands
  /\ ProbeInit
  /\ PreflightInit
  /\ BenchmarkInit

CtlNext ==
  /\ \/ /\ cmd = "serve" /\ Next
        /\ UNCHANGED <<preflightVars, benchVars, probeVars>>
     \/ /\ cmd = "probe" /\ ProbeNext
        /\ UNCHANGED <<preflightVars, benchVars>>
     \/ /\ cmd = "preflight" /\ (Collection \/ ReportPreflight \/ MachineChanges)
        /\ UNCHANGED <<windowVars, benchVars, probeVars>>
     \/ /\ cmd = "darwin-evidence" /\ (Collection \/ ReportEvidence \/ MachineChanges)
        /\ UNCHANGED <<windowVars, benchVars, probeVars>>
     \/ /\ cmd = "benchmark" /\ BenchmarkNext
        /\ UNCHANGED <<windowVars, preflightVars, probeVars>>
  /\ UNCHANGED cmd

CtlSpec == CtlInit /\ [][CtlNext]_ctlVars
=============================================================================
