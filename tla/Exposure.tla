------------------------------ MODULE Exposure ------------------------------
(***************************************************************************)
(* Hostnames, published ports and rows: what leads from outside to which   *)
(* container. The control plane names a route after a lab and an           *)
(* environment or a service (controller.py: _route_hostname), and points   *)
(* it at a port of the host; Docker gives that port to the container that  *)
(* asks for it. Nothing ties the route to the container, nor the hostname  *)
(* to one owner.                                                           *)
(*                                                                         *)
(* Handlers and passes run one at a time here (Environments, Projects and  *)
(* IngressRoutes have their interleavings), each with the calls that may   *)
(* fail. One host; one name of an environment or a project per host; a     *)
(* container publishes at most one port; labs are there from the start,    *)
(* and again after they are deleted.                                       *)
(***************************************************************************)
EXTENDS Naturals, FiniteSets

CONSTANTS
    Lab, Env, Project, Service,
    LabOf,      \* the lab of an environment or a project
    Slug,       \* names of a resource and a lab, joined as in a hostname
    SlugOf,     \* the one of an environment or of a service of a project
    Domain,     \* base domains in use
    None,
    MaxPort,    \* the last port, 65535
    File,       \* compose files in use: services, each with a port, or 0 for none
    MaxJobs,    \* bound on handlers that run
    MaxFaults   \* bound on calls that fail

Resource == Env \cup (Project \X Service)
Compose  == UNION {[S -> 0..MaxPort] : S \in SUBSET Service}

NameAssumption   == /\ LabOf \in [Env \cup Project -> Lab]
                    /\ SlugOf \in [Resource -> Slug]
                    /\ Env \cap (Project \X Service) = {}
                    /\ None \notin Domain \cup 0..MaxPort
FileAssumption   == MaxPort \in Nat \ {0} /\ File \subseteq Compose
LimitsAssumption == MaxJobs \in Nat /\ MaxFaults \in Nat

VARIABLES
    \* database
    envs,      \* environments
    projects,  \* projects: the services exposed
    domain,    \* the host's base domain
    \* lab host
    box,       \* containers, running or not: the port published, or 0
    up,        \* those that run
    file,      \* compose files, without services if there is only the directory
    table,     \* routes: the port led to, or 0
    \* bounds
    jobs, faults,
    \* history
    answered,  \* the domain of the hostname that the last deployment has answered
    left       \* hostnames whose routes, if there are any, the code has left behind

rows    == <<envs, projects, domain>>
labhost == <<box, up, file, table>>
vars    == <<rows, labhost, jobs, faults, answered, left>>

All(p)   == {p} \X Service
Empty    == [s \in {} |-> 0]
HostOf(r) == <<SlugOf[r], domain>>
Hosts(R) == {HostOf(r) : r \in R}

TypeOK ==
    /\ envs \subseteq Env
    /\ projects \in [Project -> {None} \cup SUBSET Service]
    /\ domain \in Domain \cup {None}
    /\ box \in [Resource -> 0..MaxPort \cup {None}]
    /\ up \subseteq {r \in Resource : box[r] # None}
    /\ \A q, r \in up : q # r /\ box[q] = box[r] => box[q] = 0
    /\ file \in [Project -> {None} \cup Compose]
    /\ table \in [Slug \X Domain -> 0..MaxPort]
    /\ jobs \in 0..MaxJobs /\ faults \in 0..MaxFaults
    /\ answered \in [Resource -> Domain \cup {None}]
    /\ left \subseteq Slug \X (Domain \cup {None})

Init ==
    /\ envs = {} /\ projects = [p \in Project |-> None]
    /\ domain \in Domain \cup {None}
    /\ box = [r \in Resource |-> None] /\ up = {}
    /\ file = [p \in Project |-> None]
    /\ table = [h \in Slug \X Domain |-> 0]
    /\ jobs = 0 /\ faults = 0
    /\ answered = [r \in Resource |-> None] /\ left = {}

-----------------------------------------------------------------------------
(* Handlers, routes and ports.                                             *)

Begin == jobs < MaxJobs /\ jobs' = jobs + 1
Fault == faults < MaxFaults /\ faults' = faults + 1

Answer(R, d) == answered' = [r \in Resource |-> IF r \in R THEN d ELSE answered[r]]

\* mutation: a route that exists is kept
Put_Keeps(R, port) ==
    [h \in DOMAIN table |-> IF h \in Hosts(R) /\ table[h] = 0
                            THEN port[CHOOSE r \in R : HostOf(r) = h] ELSE table[h]]

\* routes to these resources, under the host's domain if it has one
Put(R, port) ==
    [h \in DOMAIN table |-> IF h \in Hosts(R) THEN port[CHOOSE r \in R : HostOf(r) = h]
                            ELSE table[h]]

Dropped(R) == [h \in DOMAIN table |-> IF h \in Hosts(R) THEN 0 ELSE table[h]]

\* mutation: ports of stopped containers are free
UsedBy_Running(R) == {box[r] : r \in R \cap up} \ {0, None}

\* _used_host_ports: containers that run or not
UsedBy(R) == {box[r] : r \in R} \ {0, None}

Free(want, used) == want..MaxPort \ used

\* _next_available_host_port
Place(want, used) == CHOOSE q \in Free(want, used) : \A o \in Free(want, used) : q <= o

\* Docker lets one container at a time have a port
Runs(S) == /\ up' = S
           /\ \A q, r \in S : q # r /\ box'[q] = box'[r] => box'[q] = 0

-----------------------------------------------------------------------------
(* Environments.                                                           *)

\* deploy_lab_environment: the old container and its route go; a container, a
\* row, and then the route, whose PUT may fail
DeployEnv(e) ==
    LET old    == {e} \cap envs
        others == UsedBy(Resource \ old)
    IN  /\ Begin
        /\ old = {e} \/ box[e] = None
        /\ \E want \in 0..MaxPort, external \in BOOLEAN :
            LET exposes == external /\ want # 0 /\ domain # None
            IN  /\ Free(want, others) # {}
                /\ box' = [box EXCEPT ![e] = Place(want, others)]
                /\ \/ /\ table' = IF exposes THEN Put({e}, box') ELSE Dropped(old)
                      /\ Answer({e}, IF exposes THEN domain ELSE None)
                      /\ left' = left \ Hosts(old \cup {r \in {e} : exposes})
                      /\ UNCHANGED faults
                   \/ /\ external /\ Fault
                      /\ table' = Dropped(old)
                      /\ Answer({e}, None)
                      /\ left' = left \ Hosts(old)
        /\ Runs(up \cup {e})
        /\ envs' = envs \cup {e}
        /\ UNCHANGED <<projects, domain, file>>

\* ... or it ends with the old container gone: no port is free, or the lab host
\* refuses to delete the route or to create a container
ReplaceFails(e) ==
    /\ Begin
    /\ e \in envs
    /\ box' = [box EXCEPT ![e] = None]
    /\ up' = up \ {e}
    /\ Answer({e}, None)
    /\ \/ /\ table' = Dropped({e}) /\ left' = left \ Hosts({e})
          /\ IF \E want \in 1..MaxPort : Free(want, UsedBy(Resource \ {e})) = {}
             THEN UNCHANGED faults ELSE Fault
       \/ table' = table /\ left' = left \cup Hosts({e}) /\ Fault
    /\ UNCHANGED <<rows, file>>

\* by a user, or by the reconciler, which goes on if the container is not removed
RemoveEnv(e) ==
    /\ Begin
    /\ e \in envs
    /\ envs' = envs \ {e}
    /\ Answer({e}, None)
    /\ \E fails \in SUBSET {"container", "route"} :
        /\ IF fails = {} THEN UNCHANGED faults ELSE Fault
        /\ IF "container" \in fails THEN UNCHANGED <<box, up>>
           ELSE box' = [box EXCEPT ![e] = None] /\ up' = up \ {e}
        /\ IF "route" \in fails THEN table' = table /\ left' = left \cup Hosts({e})
           ELSE table' = Dropped({e}) /\ left' = left \ Hosts({e})
    /\ UNCHANGED <<projects, domain, file>>

\* set_lab_environments_state; a start is refused if another has the port by now
StopEnv(e) ==
    /\ Begin
    /\ e \in envs \cap up
    /\ up' = up \ {e}
    /\ UNCHANGED <<rows, box, file, table, faults, answered, left>>

StartEnv(e) ==
    /\ Begin
    /\ e \in envs \ up /\ box[e] # None
    /\ UNCHANGED <<rows, box, file, table, faults, answered, left>>
    /\ Runs(up \cup {e})

-----------------------------------------------------------------------------
(* Projects.                                                               *)

Services(p, f) == {p} \X DOMAIN f
Boxes(p, f)    == [r \in Resource |-> IF r \in Services(p, f) THEN f[r[2]] ELSE box[r]]
Apart(f)       == \A s, t \in DOMAIN f : s # t /\ f[s] = f[t] => f[s] = 0
Held(R)        == {box[r] : r \in R \cap up} \ {0}

\* no container outside of the file has a port that it asks for
Granted(p, f) == Apart(f) /\ \A s \in DOMAIN f : f[s] \notin Held(Resource \ Services(p, f))

\* ... nor has another service of the file, which is about to be replaced
Clear(p, f) == Granted(p, f) /\ \A s \in DOMAIN f : f[s] \notin Held(Services(p, f) \ {<<p, s>>})

\* _remap_compose_ports_in_payload: ports that no other container has (Ports has
\* the search itself)
Moved(p, f) ==
    {g \in [DOMAIN f -> 0..MaxPort] :
        /\ Apart(g)
        /\ \A s \in DOMAIN f : /\ g[s] = 0 <=> f[s] = 0
                               /\ g[s] \in Free(f[s], UsedBy(Resource \ Services(p, f)))}

\* the compose file as docker compose up brings it up, ports moved if Docker says
\* that one is allocated
Settled(p, f) == (IF Granted(p, f) THEN {f} ELSE {}) \cup (IF Clear(p, f) THEN {} ELSE Moved(p, f))

\* docker compose up: services that are no longer in the file keep running
Started(p, g) ==
    /\ box' = Boxes(p, g)
    /\ Runs(up \cup Services(p, g))
    /\ file' = [file EXCEPT ![p] = g]

\* exposed services without a container, or two of one hostname
Missing(asked) == \/ \E r \in asked : box'[r] = None
                  \/ domain # None /\ \E q, r \in asked : q # r /\ SlugOf[q] = SlugOf[r]

\* exposed services with no hostname, or no port to lead to
Unroutable(asked) == asked # {} /\ (domain = None \/ \E r \in asked : box'[r] = 0)

\* deploy_lab_project: the services are up before the hostnames are looked at;
\* routes of services no longer exposed, or no longer in the file, stay; one of
\* these may be exposed, whether it runs or not
DeployProject(p) ==
    /\ Begin
    /\ \E f \in File, exposed \in SUBSET Service, external \in BOOLEAN :
       \E g \in Settled(p, f) :
        LET asked  == {p} \X exposed
            routes == {r \in asked : external}
        IN  /\ Started(p, g)
            /\ ~Missing(asked) /\ (external => ~Unroutable(asked))
            /\ table' = Put(routes, box')
            /\ projects' = [projects EXCEPT ![p] = exposed]
            /\ answered' = [r \in Resource |-> IF r \in routes THEN domain
                                               ELSE IF r \in All(p) THEN None ELSE answered[r]]
            /\ left' = (left \cup Hosts(All(p))) \ Hosts(routes \cap up')
    /\ UNCHANGED <<envs, domain, faults>>

\* ... or it is refused when the services are up: the row stays as it was, routes
\* set in this attempt are deleted, the ones there were before among them
DeployProjectRefused(p) ==
    /\ Begin
    /\ \E f \in File, exposed \in SUBSET Service, external \in BOOLEAN :
       \E g \in Settled(p, f) :
        LET asked == {p} \X exposed
        IN  /\ Started(p, g)
            /\ \E set \in SUBSET {r \in asked : external /\ box'[r] \notin {0, None}} :
               \E kept \in SUBSET set :
                /\ Missing(asked) => set = {}
                /\ IF kept = {} /\ (Missing(asked) \/ (external /\ Unroutable(asked)))
                   THEN UNCHANGED faults ELSE Fault
                /\ table' = [h \in DOMAIN table |->
                                IF h \in Hosts(set \ kept) THEN 0 ELSE Put(kept, box')[h]]
    /\ Answer(All(p), None)
    /\ left' = left \cup Hosts(All(p))
    /\ UNCHANGED <<rows>>

\* ... or the lab host fails: with the compose file or without it and the services
\* as they were, or with some of them up, at their own ports
StartFails(p) ==
    /\ Begin
    /\ \E f \in File :
        /\ IF Settled(p, f) = {} THEN UNCHANGED faults ELSE Fault
        /\ \/ file' \in {[file EXCEPT ![p] = g] : g \in {f, Empty}} /\ UNCHANGED <<box, up>>
           \/ \E g \in {f} \cup Settled(p, f) :
                /\ file' = [file EXCEPT ![p] = g]
                /\ box' = Boxes(p, g)
                /\ \E S \in SUBSET Services(p, g) : Runs((up \ Services(p, g)) \cup S)
    /\ Answer(All(p), None)
    /\ left' = left \cup Hosts(All(p))
    /\ UNCHANGED <<rows, table>>

\* compose_up, by a user or by the reconciler: no ports are moved
ProjectUp(p) ==
    /\ Begin
    /\ projects[p] # None /\ file[p] \notin {None, Empty}
    /\ box' = Boxes(p, file[p])
    /\ LET moved == {r \in Services(p, file[p]) : box[r] # box'[r]}
       IN  /\ \E S \in SUBSET Services(p, file[p]) :
                /\ Runs((up \ moved) \cup S)
                /\ IF Granted(p, file[p]) /\ S # Services(p, file[p]) THEN Fault ELSE UNCHANGED faults
           /\ left' = left \cup Hosts(moved)
    /\ UNCHANGED <<rows, file, table, answered>>

\* the containers of the services in the file
Ended(R) == /\ box' = [r \in Resource |-> IF r \in R THEN None ELSE box[r]]
            /\ up' = up \ R

Listed(p) == IF file[p] = None THEN {} ELSE Services(p, file[p])

\* compose_down: the routes stay, the ports do not
ProjectDown(p) ==
    /\ Begin
    /\ projects[p] # None /\ file[p] \notin {None, Empty}
    /\ Ended(Listed(p))
    /\ left' = left \cup Hosts(Listed(p))
    /\ UNCHANGED <<rows, file, table, faults, answered>>

\* by a user, or by the reconciler, which goes on if the services are not removed
RemoveProject(p) ==
    LET exposed == {p} \X projects[p]
    IN  /\ Begin
        /\ projects[p] # None
        /\ projects' = [projects EXCEPT ![p] = None]
        /\ \E kept \in SUBSET exposed, removed \in BOOLEAN :
            /\ removed => file[p] # Empty
            /\ IF kept # {} \/ (~removed /\ file[p] # Empty) THEN Fault ELSE UNCHANGED faults
            /\ IF removed THEN Ended(Listed(p)) /\ file' = [file EXCEPT ![p] = None]
               ELSE UNCHANGED <<box, up, file>>
            /\ table' = Dropped(exposed \ kept)
            /\ left' = (left \ Hosts(exposed \ kept)) \cup Hosts(kept)
        /\ Answer(All(p), None)
        /\ UNCHANGED <<envs, domain>>

-----------------------------------------------------------------------------
(* Labs and the host.                                                      *)

Exposed(P, E) == E \cup UNION {{p} \X projects[p] : p \in P}

\* delete_lab: rows go, whether their containers do or not; if a route is not
\* deleted it ends there, with all rows
DeleteLab(l) ==
    LET E == {e \in envs : LabOf[e] = l}
        P == {p \in Project : LabOf[p] = l /\ projects[p] # None}
    IN  /\ Begin
        /\ \E Q \in SUBSET {p \in P : file[p] # Empty}, D \in SUBSET E :
            /\ Ended(D \cup UNION {Listed(p) : p \in Q})
            /\ file' = [p \in Project |-> IF p \in Q THEN None ELSE file[p]]
            /\ \/ /\ IF D = E /\ \A p \in P \ Q : file[p] = Empty THEN UNCHANGED faults ELSE Fault
                  /\ table' = Dropped(Exposed(Q, D))
                  /\ left' = left \ Hosts(Exposed(Q, D))
                  /\ envs' = envs \ E
                  /\ projects' = [p \in Project |-> IF p \in P THEN None ELSE projects[p]]
               \/ \E r \in Exposed(Q, D) :
                  /\ Fault
                  /\ table' = Dropped(Exposed(Q, D) \ {r})
                  /\ left' = (left \ Hosts(Exposed(Q, D))) \cup {HostOf(r)}
                  /\ UNCHANGED <<envs, projects>>
        /\ Answer(E \cup UNION {All(p) : p \in P}, None)
        /\ UNCHANGED domain

\* register_host: routes of the domain before are not looked at again
RegisterHost ==
    /\ Begin
    /\ domain' \in (Domain \cup {None}) \ {domain}
    /\ left' = left \cup {h \in DOMAIN table : h[2] = domain}
    /\ UNCHANGED <<envs, projects, labhost, faults, answered>>

Next ==
    \/ \E e \in Env : DeployEnv(e) \/ ReplaceFails(e) \/ RemoveEnv(e) \/ StopEnv(e) \/ StartEnv(e)
    \/ \E p \in Project : \/ DeployProject(p) \/ DeployProjectRefused(p) \/ StartFails(p)
                          \/ ProjectUp(p) \/ ProjectDown(p) \/ RemoveProject(p)
    \/ \E l \in Lab : DeleteLab(l)
    \/ RegisterHost

Spec == Init /\ [][Next]_vars

-----------------------------------------------------------------------------
(* Properties.                                                             *)

\* Resources whose hostname no other has. The code lets several have one, of which
\* the last deployed has the route (README, Disagreements found).
Own == {r \in Resource : \A q \in Resource : SlugOf[q] = SlugOf[r] => q = r}

\* The hostname that a deployment has answered leads to its container whenever
\* that runs, if it is its own, whatever else is deployed, stopped or removed,
\* and under whatever domain the host is by then: README.md:56, launched services
\* "easily reachable from outside".
Reachable ==
    \A r \in up \cap Own : answered[r] # None => table[<<SlugOf[r], answered[r]>>] = box[r]

\* A route leads to the port of a container of its hostname, running or not,
\* unless the code has left it behind: no removal, replacement or failed attempt
\* leaves others, also where several resources have the hostname.
RoutesHaveBoxes ==
    \A h \in DOMAIN table \ left : table[h] # 0 =>
        \E r \in Resource : SlugOf[r] = h[1] /\ box[r] = table[h]

\* Such a route leads to no other container: an environment never gets the port of
\* one that is stopped, as a service of a project may while that one does not run.
LeadsHome ==
    \A h \in DOMAIN table \ left, r \in up :
        (table[h] # 0 /\ box[r] = table[h]) =>
            \/ SlugOf[r] = h[1]
            \/ r \notin Env /\ \A q \in up : SlugOf[q] = h[1] => box[q] # table[h]

\* Services that a project's last deployment has not exposed have no route: --help
\* says of --exposed-services "service names to expose via ingress". The code does not
\* keep this (README, Disagreements found).
OnlyNamed ==
    \A p \in Project : projects[p] # None =>
        \A r \in ({p} \X (Service \ projects[p])) \cap up, h \in DOMAIN table :
            SlugOf[r] = h[1] /\ table[h] # 0 => table[h] # box[r]
=============================================================================
