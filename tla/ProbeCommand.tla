---------------------------- MODULE ProbeCommand ----------------------------
(***************************************************************************)
(* cmd/geminactl/probe.go: the probe command numbers its probes and sends  *)
(* copies of each over one or two bound sockets to the probe gateway's     *)
(* duplicate window.  Definitions named X_Y are mistaken variants of X.    *)
(***************************************************************************)
EXTENDS DedupWindow, FiniteSets

CONSTANT ProbeConfigs  \* [count, duplicate, dual, path, path2]: the flags

\* The values the flags can have; probes are numbered from 1.
ASSUME ProbeAssumption ==
  /\ ProbeConfigs \subseteq [count : Int, duplicate : BOOLEAN, dual : BOOLEAN,
                             path : STRING, path2 : STRING]
  /\ \A c \in ProbeConfigs : 1..c.count \subseteq Ids

VARIABLES
  cfg,     \* the flags
  sender,  \* [pc, n, copy, sent]
  wire,    \* datagrams under way: <<identity, number of the copy>>
  gateway  \* what the gateway counted: [first, dup, late, reached]

probeVars == <<cfg, sender, wire, gateway>>

\* Copies of one probe over the first interface.
copies == IF cfg.duplicate THEN 2 ELSE 1

ProbeInit ==
  /\ Init
  /\ cfg \in ProbeConfigs
  /\ sender = [pc |-> "dial", n |-> 1, copy |-> 1, sent |-> 0]
  /\ wire = {}
  /\ gateway = [first |-> 0, dup |-> 0, late |-> 0, reached |-> {}]

-----------------------------------------------------------------------------
\* The identities a session may send: rejected flags never get here.
parseProbeConfig == cfg.count >= 1 /\ cfg.path \in Paths /\ cfg.path2 \in Paths

\* DialUDP for each interface: unknown, not bound or not connected is an error.
DialUDP ==
  /\ sender.pc \in {"dial", "dial2"} /\ parseProbeConfig
  /\ \E ok \in BOOLEAN :
       sender' = [sender EXCEPT !.pc =
         IF ~ok THEN "failed"
         ELSE IF sender.pc = "dial" /\ cfg.dual THEN "dial2" ELSE "send"]
  /\ UNCHANGED <<cfg, wire, gateway>>

\* Datagrams of one probe, and the path its copy-th one takes.
perProbe == copies + (IF cfg.dual THEN 1 ELSE 0)
pathOf(copy) == IF copy <= copies THEN cfg.path ELSE cfg.path2

\* The loop of runProbe: the next datagram, or the summary after the last.
Written ==
  IF sender.copy < perProbe
  THEN [sender EXCEPT !.copy = @ + 1, !.sent = @ + 1]
  ELSE [sender EXCEPT !.copy = 1, !.sent = @ + 1, !.n = @ + 1,
          !.pc = IF sender.n = cfg.count THEN "printed" ELSE "send"]

WriteProbe_NewIdentity ==
  LET id == IF sender.copy <= copies THEN sender.n ELSE sender.n + 1 IN
  /\ sender.pc = "send"
  /\ wire' = wire \cup {<<id, sender.copy>>}
  /\ sender' = Written
  /\ UNCHANGED <<cfg, gateway>>

\* Same identity over the second path.
WriteProbe ==
  /\ sender.pc = "send"
  /\ wire' = wire \cup {<<sender.n, sender.copy>>}
  /\ sender' = Written
  /\ UNCHANGED <<cfg, gateway>>

\* A write error ends the command; what was sent stays sent.
WriteProbeFails ==
  /\ sender.pc = "send"
  /\ sender' = [sender EXCEPT !.pc = "failed"]
  /\ UNCHANGED <<cfg, wire, gateway>>

\* A datagram reaches the gateway's window; one that never does is lost.
ProbeArrives ==
  \E d \in wire :
    /\ Observe(d[1], pathOf(d[2]))
    /\ wire' = wire \ {d}
    /\ LET id == d[1]
           first == result'.decision = "first-copy"
           again == id \in gateway.reached /\ age[id] = Capacity IN
       gateway' = [first |-> gateway.first + (IF first THEN 1 ELSE 0),
                   dup   |-> gateway.dup + (IF first THEN 0 ELSE 1),
                   late  |-> gateway.late + (IF again THEN 1 ELSE 0),
                   reached |-> gateway.reached \cup {id}]
    /\ UNCHANGED <<cfg, sender>>

runProbe == (DialUDP \/ WriteProbe \/ WriteProbeFails) /\ UNCHANGED windowVars

ProbeNext == runProbe \/ ProbeArrives
ProbeSpec == ProbeInit /\ [][ProbeNext]_<<windowVars, probeVars>>

-----------------------------------------------------------------------------
(* What the probe command and the gateway report adds up.  Every datagram that
   arrived is one first copy or one duplicate; an identity is counted first
   again only when Capacity others came between its copies, whatever path they
   took; and when nothing is lost or that late, the gateway has seen as many
   distinct probes as the printed line says, all else being duplicates. *)
ProbeRunAddsUp ==
  /\ gateway.first + gateway.dup = sender.sent - Cardinality(wire)
  /\ gateway.first = Cardinality(gateway.reached) + gateway.late
  /\ (sender.pc = "printed" /\ wire = {} /\ gateway.late = 0) =>
       gateway.first = cfg.count /\ gateway.dup = sender.sent - cfg.count
=============================================================================
