--------------------------- MODULE ProjectLimits ---------------------------
(***************************************************************************)
(* The limit of a compose project, divided among its containers            *)
(* (docker_interface.py, _apply_compose_project_limits).                   *)
(*                                                                         *)
(* A deployment writes the limit beside the compose file, brings the       *)
(* project up, lists its containers and updates them one by one; an up     *)
(* does the same with the limit it finds written. CPU and memory are       *)
(* divided alike and set in one call: one limit stands for both, in the    *)
(* units Docker counts. To Docker, a container with 0 has no limit.        *)
(***************************************************************************)
EXTENDS Integers, Sequences, FiniteSets, FiniteSetsExt

CONSTANTS
    Container,  \* containers the project may have
    Request,    \* threads of the lab host
    Limit,      \* limits in use
    None,       \* no limit
    MaxJobs,    \* bound on requests
    MaxFaults   \* bound on calls Docker refuses

ASSUME ContainerAssumption == IsFiniteSet(Container)
ASSUME LimitAssumption == Limit \subseteq Nat \ {0} /\ None \notin Int
ASSUME BoundAssumption == MaxJobs \in Nat /\ MaxFaults \in Nat

VARIABLES
    meta,       \* the limit written beside the compose file
    services,   \* what the compose file wants
    here, quota,\* containers of the project's label, and their limits
    pc, job,
    total,      \* the limit a request divides
    todo, idx,  \* the containers it has listed, the number it has updated
    jobs, faults,
    \* history
    given,      \* what a request has handed out
    met,        \* requests that overlap or have overlapped another
    whole       \* the last request, if it met no other and has divided a limit

local == <<pc, job, total, todo, idx, given>>
vars == <<meta, services, here, quota, local, jobs, faults, met, whole>>

Total == Limit \cup {None}
Busy  == {r \in Request : pc[r] # "idle"}

TypeOK ==
    /\ meta \in Total
    /\ services \subseteq Container /\ here \subseteq Container
    /\ quota \in [Container -> Nat]
    /\ pc \in [Request -> {"idle", "up", "list", "update"}]
    /\ job \in [Request -> {"none", "deploy", "up"}]
    /\ total \in [Request -> Total]
    /\ todo \in [Request -> Seq(Container)]
    /\ idx \in [Request -> Nat]
    /\ jobs \in 0..MaxJobs /\ faults \in 0..MaxFaults
    /\ given \in [Request -> Nat]
    /\ met \subseteq Request /\ whole \subseteq Request
    /\ \A r \in Request : idx[r] <= Len(todo[r])
    /\ \A r \in Request : pc[r] = "update" <=> idx[r] < Len(todo[r])

Init ==
    /\ meta = None /\ services = {} /\ here = {}
    /\ quota = [c \in Container |-> 0]
    /\ pc = [r \in Request |-> "idle"] /\ job = [r \in Request |-> "none"]
    /\ total = [r \in Request |-> None]
    /\ todo = [r \in Request |-> <<>>] /\ idx = [r \in Request |-> 0]
    /\ jobs = 0 /\ faults = 0
    /\ given = [r \in Request |-> 0] /\ met = {} /\ whole = {}

-----------------------------------------------------------------------------
(* The division.                                                           *)

\* mutation: the remainder is forgotten
Part_Base(limit, n, i) == limit \div n

\* what the i-th of n containers gets
Part(limit, n, i) == (limit \div n) + (IF i <= limit % n THEN 1 ELSE 0)

\* a part of 0 would be no limit
TooLow(limit, n) == limit < n

\* mutation: only what the compose file wants
Listed_Wanted == services

\* all containers of the project's label, left by an older file or not
Listed == here

\* any order: Docker lists the newest first
Orders(S) == {s \in [1..Cardinality(S) -> S] : \A i, j \in DOMAIN s : s[i] = s[j] => i = j}

-----------------------------------------------------------------------------
(* Requests.                                                               *)

Goto(r, label) == pc' = [pc EXCEPT ![r] = label]

Begin(r, op) ==
    /\ pc[r] = "idle" /\ jobs < MaxJobs
    /\ jobs' = jobs + 1
    /\ job' = [job EXCEPT ![r] = op]
    /\ Goto(r, "up")
    /\ met' = IF Busy = {} THEN met \ {r} ELSE met \cup Busy \cup {r}
    /\ whole' = {}

Leave(r) ==
    /\ Goto(r, "idle")
    /\ job' = [job EXCEPT ![r] = "none"]
    /\ total' = [total EXCEPT ![r] = None]
    /\ todo' = [todo EXCEPT ![r] = <<>>]
    /\ idx' = [idx EXCEPT ![r] = 0]
    /\ given' = [given EXCEPT ![r] = 0]

Fault == faults < MaxFaults /\ faults' = faults + 1

\* _ensure_compose_source and _write_project_metadata
BeginDeploy(r) ==
    /\ Begin(r, "deploy")
    /\ meta' \in Total
    /\ total' = [total EXCEPT ![r] = meta']
    /\ services' \in SUBSET Container \ {{}}
    /\ UNCHANGED <<here, quota, todo, idx, given, faults>>

BeginUp(r) ==
    /\ services # {}
    /\ Begin(r, "up")
    /\ UNCHANGED <<meta, services, here, quota, total, todo, idx, given, faults>>

\* docker compose up: what is missing is made, some of the rest made anew,
\* and what the file no longer wants is left; the arguments of a deployment
\* are its own
Up(r) ==
    /\ pc[r] = "up"
    /\ \/ /\ here' = here \cup services
          /\ \E anew \in SUBSET services :
              quota' = [c \in Container |-> IF c \in anew \cup (services \ here) THEN 0 ELSE quota[c]]
          /\ Goto(r, "list") /\ UNCHANGED <<job, total, todo, idx, given, faults>>
       \/ /\ here' \in SUBSET (here \cup services) /\ here \subseteq here'
          /\ quota' = [c \in Container |-> IF c \in here' \ here THEN 0 ELSE quota[c]]
          /\ Fault /\ Leave(r)
    /\ UNCHANGED <<meta, services, jobs, met, whole>>

\* an up reads the limit now; without a limit or containers there is nothing
\* to do; a limit too low for the containers is an error
List(r) ==
    LET limit == IF job[r] = "up" THEN meta ELSE total[r]
        n == Cardinality(Listed)
    IN  /\ pc[r] = "list"
        /\ IF limit = None \/ n = 0 \/ TooLow(limit, n) THEN Leave(r)
           ELSE /\ \E s \in Orders(Listed) : todo' = [todo EXCEPT ![r] = s]
                /\ total' = [total EXCEPT ![r] = limit]
                /\ Goto(r, "update") /\ UNCHANGED <<job, idx, given>>
        /\ UNCHANGED <<meta, services, here, quota, jobs, faults, met, whole>>

\* the last one, or one before
Update(r) ==
    LET n == Len(todo[r])
        i == idx[r] + 1
        c == todo[r][i]
        part == Part(total[r], n, i)
    IN  /\ pc[r] = "update" /\ c \in here
        /\ quota' = [quota EXCEPT ![c] = part]
        /\ IF i = n
           THEN Leave(r) /\ whole' = {r} \ met
           ELSE /\ idx' = [idx EXCEPT ![r] = i]
                /\ given' = [given EXCEPT ![r] = @ + part]
                /\ UNCHANGED <<pc, job, total, todo, whole>>
        /\ UNCHANGED <<meta, services, here, jobs, faults, met>>

\* the container is gone, or Docker refuses
UpdateFails(r) ==
    /\ pc[r] = "update"
    /\ IF todo[r][idx[r] + 1] \in here THEN Fault ELSE UNCHANGED faults
    /\ Leave(r)
    /\ UNCHANGED <<meta, services, here, quota, jobs, met, whole>>

\* compose_down, in one step; who is under way meets it
Down ==
    /\ here # {} /\ jobs < MaxJobs
    /\ jobs' = jobs + 1
    /\ here' = {} /\ quota' = [c \in Container |-> 0]
    /\ met' = met \cup Busy /\ whole' = {}
    /\ UNCHANGED <<meta, services, local, faults>>

Serve(r) == Up(r) \/ List(r) \/ Update(r) \/ UpdateFails(r)

Next == Down \/ \E r \in Request : BeginDeploy(r) \/ BeginUp(r) \/ Serve(r)

Spec == Init /\ [][Next]_vars

-----------------------------------------------------------------------------
(* Properties.                                                             *)

Sum(S) == MapThenSumSet(LAMBDA c : quota[c], S)

(* After a deployment or an up that met no other and had a limit to        *)
(* divide, no container is without limit and together they have exactly    *)
(* the limit written for the project, whatever the containers were, left   *)
(* behind by an older file or by a failed request                          *)
(* (docker_interface.py:362).                                              *)
WholeIsShared == whole # {} => (\A c \in here : quota[c] > 0) /\ Sum(here) = meta

(* A request, whomever it met, hands out exactly its limit if it reaches   *)
(* the last container, and no container gets 0, which would be no limit    *)
(* (docker_interface.py:369, 385).                                         *)
HandsOutAll ==
    \A r \in Request : pc[r] = "update" =>
        LET n == Len(todo[r])
        IN  /\ Part(total[r], n, idx[r] + 1) > 0
            /\ idx[r] = n - 1 => given[r] + Part(total[r], n, n) = total[r]
=============================================================================
