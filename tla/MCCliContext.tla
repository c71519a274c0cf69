---------------------------- MODULE MCCliContext ----------------------------
(* An instance of CliContext for TLC. Behaviours begin with no file, with    *)
(* one of the older format or with the inventory that is shipped. Three      *)
(* commands follow; four, of which any may fail, with no file, no inventory  *)
(* and no name of another machine in a registration; and five, of which only *)
(* destructions fail, without Terraform as well. The variables of Hosts stay *)
(* as they begin.                                                            *)
EXTENDS Machines, TLC

CONSTANTS l, i, lo, ln, n, n2

\* the names users give the machines, one for each or several
OwnNames == [x \in CliName |-> IF x \in {lo, ln} THEN {l} ELSE {i}]

Order1 == <<"lan", "local", "control_plane", "lab_hosts">>

\* two names of one machine
Twins == Permutations({n, n2})

\* no host is registered
NoPath == <<>>

ASSUME C!OneMachine

VARIABLE fresh

MCInit == Init /\ C!Init /\ fresh = (devices = <<>> /\ inv = C!NoInv)

\* no device is registered with what another may be called
Plain == \A k \in DOMAIN devices : devices[k].lab # None => devices[k].lab.also = {}

MCNext ==
    /\ count <= 2 \/ (fresh /\ Plain /\ (count <= 3 \/ clean))
    /\ C!Next
    /\ clean' \/ (fresh /\ count <= 3)
    /\ UNCHANGED <<vars, fresh>>

MCSpec == MCInit /\ [][MCNext]_<<vars, C!vars, fresh>>

\* the commands as the cfg gives them
GivenSpec == MCInit /\ [][C!Next /\ UNCHANGED <<vars, fresh>>]_<<vars, C!vars, fresh>>

\* CliContext!LabsGone: when everything has been destroyed, no lab runs
\* (infra_destroy).
LabsGone == C!LabsGone
=============================================================================
