-------------------------- MODULE MCReconcilerLive --------------------------
(* Both halves of the reconciler under fairness: a behaviour has containers  *)
(* (Reconciler) or projects (Projects) to reconcile, and nothing of the      *)
(* other kind; the code goes from the one to the other and shares nothing.   *)
EXTENDS Reconciler

CONSTANTS c1, r1, r2, l1, reconciler

OneContainer == {c1}
TwoRequests  == {r1, r2}

VARIABLES kind, projects, dir, up, p_routed, p_pc, job, row, gone, next, jobs, p_faults,
          due, spoiled, answer

projectVars == <<projects, dir, up, p_routed, p_pc, job, row, gone, next, jobs, p_faults,
                 due, spoiled, answer>>

P == INSTANCE Projects WITH
    Lab <- {l1}, Life <- {"persistent", "ephemeral"}, Request <- {r1},
    Reconciler <- reconciler, MaxJobs <- 3, MaxFaults <- 1,
    rows <- projects, routed <- p_routed, pc <- p_pc, faults <- p_faults

\* the environment of a behaviour with projects is one the reconciler leaves alone
MCInit ==
    /\ Init /\ P!Init
    /\ \/ kind = "containers"
       \/ kind = "projects" /\ lifetime[c1] = "SESSION"

\* heartbeats, faults and exits beside one request, or two requests that may
\* cross beside the periodic passes
Sizes ==
    /\ calls = 1 => req[r2].pc = "idle"
    /\ calls = 2 => /\ exits = 0 /\ faults = 0
                   /\ lifetime[c1] = "PERSISTENT"

Containers == kind = "containers" /\ Next /\ Sizes' /\ UNCHANGED projectVars
Projects   == kind = "projects" /\ P!Next /\ UNCHANGED vars

MCNext == (Containers \/ Projects) /\ UNCHANGED kind

MCSpec ==
    /\ MCInit /\ [][MCNext]_<<kind, vars, projectVars>>
    /\ WF_vars(kind = "containers" /\ Tick)
    /\ \A t \in Thread : WF_vars(kind = "containers" /\ Pass(t))
    /\ \A r \in Request : WF_vars(kind = "containers" /\ Answering(r))
    /\ WF_projectVars(kind = "projects" /\ P!Pass)
    /\ SF_projectVars(kind = "projects" /\ P!Visit(l1))
    /\ WF_projectVars(kind = "projects" /\ P!Serve(r1))

\* When users, processes and faults come to rest, environments and projects end
\* up as their rows want them (_reconcile_container, service.py:189, and
\* _reconcile_project, service.py:303).
AllConverge == Converges /\ P!Converges

\* An ephemeral environment or project whose time has run out loses its row,
\* whatever interrupted the passes so far (service.py:123, 337).
AllExpiredGo == ExpiredGoes /\ P!ExpiredGoes
=============================================================================
