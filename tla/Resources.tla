------------------------------ MODULE Resources ------------------------------
(***************************************************************************)
(* What a host has to give: limits of a project's containers               *)
(* (ProjectLimits), ports of the host (Ports) and capacity for             *)
(* deployments (Capacity). The code of the three shares nothing but the    *)
(* names; each module is a specification of its own.                       *)
(***************************************************************************)
EXTENDS ProjectLimits

CONSTANTS
    Name,           \* names of containers, environments and projects
    \* Ports
    Project, Proxy, MaxPort, Tries,
    PortLists,      \* lists of host ports in use
    \* Capacity
    Host,
    HostTotal,      \* what a host has
    HostStatus,
    Ask,
    LabLimit,       \* limits of labs
    MaxLabs,
    MaxDeployments  \* bound on requests for labs and deployments

VARIABLES box, file, p_pc, p_job, got, tries, p_jobs, p_met, raced, ran, lost
VARIABLES labs, rows, c_pc, c_job, lab, row, c_todo, sum, choice, next, c_jobs,
          mixedLabs, mixedHosts, undisturbed, even

P == INSTANCE Ports WITH
    Wanted <- PortLists, pc <- p_pc, job <- p_job, jobs <- p_jobs, met <- p_met

C == INSTANCE Capacity WITH
    Total <- HostTotal, Status <- HostStatus, Limit <- LabLimit, MaxJobs <- MaxDeployments,
    pc <- c_pc, job <- c_job, todo <- c_todo, jobs <- c_jobs

\* The types of Ports and of Capacity.
TheOthersTyped == P!TypeOK /\ C!TypeOK

\* Ports!PortsApart: containers that have run share no port unless the requests
\* that made them met (docker_interface.py:70).
PortsApart == P!PortsApart

\* Ports!LoneSucceeds: a request that met no other fails for no port
\* (docker_interface.py:690).
LoneSucceeds == P!LoneSucceeds

\* Capacity!LabsKept, HostsKept, GrantsNearLimit: where deployments never
\* overlapped, a lab stays within its limits and a bounded host within its
\* totals, and what is given exceeds what is recorded by less than one MiB each
\* (controller.py:1250, controller_helpers.py:101, 235).
CapacityKept == C!LabsKept /\ C!HostsKept /\ C!GrantsNearLimit

\* Capacity!ScheduledFits: the checks do not refuse a lab the scheduler chose
\* while nothing was written (controller.py:1895).
ScheduledFits == C!ScheduledFits

\* Capacity!Balanced: least_allocated keeps labs within one deployment of each
\* other (controller.py:245).
Balanced == C!Balanced
=============================================================================
