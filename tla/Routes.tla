------------------------------- MODULE Routes -------------------------------
(***************************************************************************)
(* Routes at both ends: the lab host's files and the threads that change   *)
(* them (IngressRoutes), and what the control plane makes of hostnames,    *)
(* ports and rows (Exposure, for which the routes are one table). Neither  *)
(* specification reads the other's variables.                              *)
(***************************************************************************)
EXTENDS IngressRoutes

CONSTANTS Lab, Env, Project, Service, LabOf, Slug, SlugOf, Domain, None, MaxPort,
          ComposeFile, MaxJobs, MaxFaults   \* of Exposure

VARIABLES envs, projects, domain, box, up, file, table, jobs, faults, answered, left

X == INSTANCE Exposure WITH File <- ComposeFile

\* Exposure!Reachable: an answered hostname leads to its container whenever that
\* runs (controller.py:1806).
Reachable == X!Reachable

\* Exposure!RoutesHaveBoxes and LeadsHome: no removal, replacement or failed
\* attempt leaves a route to a port nothing has, or to another container's
\* (controller.py:1806, docker_interface.py:547).
RoutesLeadHome == X!RoutesHaveBoxes /\ X!LeadsHome
=============================================================================
