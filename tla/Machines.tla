------------------------------ MODULE Machines ------------------------------
(***************************************************************************)
(* The machines at both ends: the hosts a control plane has registered     *)
(* (Hosts), and what the command line keeps of the machines it provisions, *)
(* bootstraps and destroys (CliContext, for which a registration is one    *)
(* answered call). Neither specification reads the other's variables.      *)
(***************************************************************************)
EXTENDS Hosts

CONSTANTS CliName, Local, LocalName, LocalNode, Given, Aliases, GroupOrder, Kinds, Faults,
          Stuck, MaxCommands  \* of CliContext

VARIABLES inv, devices, type, runs, reg, count, made, means, letGo, last, clean

C == INSTANCE CliContext WITH Name <- CliName

ASSUME ContextAssumption ==
    /\ C!LocalAssumption /\ C!NameAssumption /\ C!GivenAssumption /\ C!AliasAssumption
    /\ C!GroupAssumption
    /\ C!KindAssumption /\ C!BoundAssumption /\ C!FaultAssumption

\* CliContext!TypeOK.
ContextTyped == C!TypeOK

\* CliContext!DevicesApart: a machine is one device, whatever fails (upsert_device,
\* _find_device_key, _migrate_legacy_payload).
DevicesApart == C!DevicesApart

\* CliContext!TornDownAfterSound: what a device runs is torn down where it was
\* deployed (infra_destroy, _device_target_host).
TornDownAfterSound == C!TornDownAfterSound

\* CliContext!KnownAfterSound: no sound command forgets a machine on which a
\* bootstrap left something (infra_destroy, remove_device).
KnownAfterSound == C!KnownAfterSound

\* CliContext!OnlyTheAskedAfterSound: destroying a device takes down no other
\* (_resolve_destroy_hosts, _expand_host_identifiers).
OnlyTheAskedAfterSound == C!OnlyTheAskedAfterSound
=============================================================================
