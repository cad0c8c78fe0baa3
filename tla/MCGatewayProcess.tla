-------------------------- MODULE MCGatewayProcess --------------------------
(* GatewayProcess with the deployed configuration and each deviation of it
   the start-up code distinguishes. *)
EXTENDS GatewayProcess

\* deploy/systemd: root with three capabilities, exit on, dropped to RunAs, who
\* owns the state directory.
Deployed ==
  [mode |-> "data", uid |-> 0, held |-> {"CapPrm", "CapEff"},
   grants |-> {"net_admin", "setids"}, keep |-> {}, dir |-> RunAs,
   runAs |-> "id", exit |-> TRUE, tun |-> "none", entitlement |-> TRUE,
   metrics |-> TRUE]

\* A user's own gateway: nothing but an interface made for them; or with
\* CAP_NET_ADMIN, ambient or on the binary.
SelfHosted == [Deployed EXCEPT !.uid = RunAs + 1, !.dir = RunAs + 1,
                               !.held = {}, !.grants = {}, !.tun = "provisioned"]
Ambient == [SelfHosted EXCEPT !.held = CapSets, !.grants = {"net_admin"}]
FileCaps == [Ambient EXCEPT !.held = {"CapPrm", "CapEff"}]

\* One or two deviations at a time from these.
MCConfigs ==
  {[c EXCEPT !.mode = mode, !.metrics = metrics] :
     c \in {Deployed, SelfHosted}, mode \in {"probe", "data"},
     metrics \in BOOLEAN}
  \cup {[Deployed EXCEPT !.grants = grants, !.keep = keep, !.runAs = runAs] :
         grants \in {{"net_admin"}, {"net_admin", "setids"}, Capabilities},
         keep \in {{}, {"CapPrm"}, {"CapPrm", "CapEff"}},
         runAs \in {"root", "id", "bad"}}
  \cup {[c EXCEPT !.exit = exit, !.tun = tap, !.entitlement = ent] :
         c \in {Deployed, SelfHosted}, exit \in BOOLEAN,
         tap \in {"none", "owned", "provisioned"}, ent \in BOOLEAN}
  \cup {[c EXCEPT !.tun = tap, !.runAs = runAs] :
         c \in {Ambient, FileCaps, [Deployed EXCEPT !.held = {}, !.grants = {}]},
         tap \in {"none", "provisioned"}, runAs \in {"root", "id"}}

\* No file yet, and the file of an earlier deployment, as root or not.
MCFiles == {[state |-> "absent", key |-> NoKey, owner |-> 0],
            [state |-> "whole", key |-> "k0", owner |-> 0],
            [state |-> "whole", key |-> "k0", owner |-> RunAs]}
=============================================================================
