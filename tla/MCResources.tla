----------------------------- MODULE MCResources -----------------------------
(* One instance of Resources for TLC: a behaviour divides limits, takes      *)
(* ports, or accounts for capacity (twice: requests that cross on one host,  *)
(* and a request at a time that the scheduler places on three); the others   *)
(* stay as they begin.                                                       *)
EXTENDS Resources, TLC

CONSTANTS c1, c2, c3, r1, r2, h1, h2, h3

ThreeContainers == {c1, c2, c3}
TwoNames        == {c1, c2}
TwoRequests     == {r1, r2}
ThreeHosts      == {h1, h2, h3}

\* too low for three, or with a remainder
SmallLimits == {2, 5}

\* one port, two, one port twice
Lists == {<<1>>, <<1, 2>>, <<2, 2>>}

\* the second is smaller, the third unbounded
Totals == h1 :> [cpu |-> 4, mb |-> 3] @@ h2 :> [cpu |-> 6, mb |-> 2]
                                      @@ h3 :> [cpu |-> 0, mb |-> 0]
AllUp  == [h \in ThreeHosts |-> "online"]
Unset  == -1

\* 3 halves of a MiB are recorded as one
WindowAsks   == {[cpu |-> 2, mem |-> 3], [cpu |-> 3, mem |-> 0]}
WindowLimits == {[cpu |-> 2, mb |-> 2], [cpu |-> Unset, mb |-> 1]}

SchedulerAsks   == {[cpu |-> 1, mem |-> 2], [cpu |-> 2, mem |-> 2]}
SchedulerLimits == {[cpu |-> Unset, mb |-> Unset], [cpu |-> 4, mb |-> 0]}

AllAsks   == WindowAsks \cup SchedulerAsks
AllLimits == WindowLimits \cup SchedulerLimits

Window == INSTANCE Capacity WITH
    Host <- {h1}, Total <- [h \in {h1} |-> Totals[h]], Status <- [h \in {h1} |-> "online"],
    Ask <- WindowAsks, Limit <- WindowLimits, MaxJobs <- MaxDeployments,
    pc <- c_pc, job <- c_job, todo <- c_todo, jobs <- c_jobs

Scheduler == INSTANCE Capacity WITH
    Total <- Totals, Status <- AllUp, Ask <- SchedulerAsks, Limit <- SchedulerLimits,
    Request <- {r1}, MaxJobs <- MaxDeployments,
    pc <- c_pc, job <- c_job, todo <- c_todo, jobs <- c_jobs

ASSUME P!NameAssumption /\ P!PortAssumption /\ P!BoundAssumption
ASSUME C!AskAssumption /\ C!HostAssumption /\ C!LimitAssumption /\ C!BoundAssumption

VARIABLE about

limitVars == vars
portVars  == <<box, file, p_pc, p_job, got, tries, p_jobs, p_met, raced, ran, lost>>
capacityVars == <<labs, rows, c_pc, c_job, lab, row, c_todo, sum, choice, next, c_jobs,
                  mixedLabs, mixedHosts, undisturbed, even>>

MCInit ==
    /\ about \in {"limits", "ports", "window", "scheduler"}
    /\ Init /\ P!Init /\ C!Init

MCNext ==
    /\ \/ about = "limits" /\ Next /\ UNCHANGED <<portVars, capacityVars>>
       \/ about = "ports" /\ P!Next /\ UNCHANGED <<limitVars, capacityVars>>
       \/ about = "window" /\ Window!Next /\ UNCHANGED <<limitVars, portVars>>
       \/ about = "scheduler" /\ Scheduler!Next /\ UNCHANGED <<limitVars, portVars>>
    /\ UNCHANGED about

MCSpec == MCInit /\ [][MCNext]_<<about, limitVars, portVars, capacityVars>>

\* c1 and c2 are containers, and names to Ports and Capacity
Symmetry == Permutations({c1, c2}) \cup Permutations(TwoRequests)
=============================================================================
