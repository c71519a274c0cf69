---------------------------- MODULE Environments ----------------------------
(***************************************************************************)
(* Deploying, replacing and removing the environments of a lab             *)
(* (control_plane/controller.py), while the reconciler removes others      *)
(* (reconciliation/service.py). The control plane keeps a row for each     *)
(* container and for each private network; Docker keeps the containers and *)
(* networks, the ingress proxy the routes. Nothing spans the three: a      *)
(* request calls the lab host and writes rows in turn, and other requests  *)
(* run at its awaits. A step is the code between two awaits, with the call *)
(* awaited answered in the same step.                                      *)
(*                                                                         *)
(* One lab on one host that routes, with its default networks; requests    *)
(* that fail before they change anything are left out.                     *)
(***************************************************************************)
EXTENDS Naturals, FiniteSets

CONSTANTS
    Env,       \* names of environments
    Slug,      \* what _safe_slug makes of names
    SlugOf,    \* the slug of a name: two names may share one
    Request,   \* users' requests under way at once
    Reaper,    \* the reconciler's pass
    MaxJobs,   \* bound on requests and passes
    MaxFaults  \* bound on calls that fail, restarts of the control plane

ASSUME SlugAssumption   == SlugOf \in [Env -> Slug]
ASSUME ReaperAssumption == Reaper \notin Request
ASSUME LimitsAssumption == MaxJobs \in Nat /\ MaxFaults \in Nat

Actor == Request \cup {Reaper}

VARIABLES
    \* database
    rows,      \* containers: primary key, name, Docker's id
    networks,  \* networks: Docker's id, and the slug the name is made of
    \* lab host
    docker,    \* the container of a name, 0 if the name is free
    bridge,    \* the private network of a slug, 0 if there is none
    routed,    \* slugs with an ingress route
    late,      \* creations Docker still works on, their caller gone
    \* per request
    pc, job,
    row,       \* the row it works on
    net,       \* the network it works on
    made,      \* the container it has created
    todo,      \* rows still to remove
    \* bounds
    next,      \* the next id Docker or the database gives
    jobs, faults,
    \* history
    scope,     \* per request: the slugs it works on
    crossed,   \* requests that met others they do not go well with
    spoiled,   \* slugs on which requests clashed, or a call or a start failed
    reaped,    \* slugs whose environment the reconciler has removed
    known      \* what the last request for a name has answered, if it met no foe

database == <<rows, networks>>
labhost  == <<docker, bridge, routed, late>>
local    == <<job, row, net, made, todo>>
history  == <<scope, crossed, spoiled, reaped, known>>
vars     == <<database, labhost, pc, local, next, jobs, faults, history>>

NoRow       == [pk |-> 0]
NoContainer == [id |-> 0, net |-> 0]
NoJob       == [op |-> "none"]

RowsOf(e) == {w \in rows : w.name = e}
NetworksOf(s) == {n \in networks : n.slug = s}

\* a container runs in a network; a stopped one leaves it
Attached(n) == \E e \in Env : docker[e].id # 0 /\ docker[e].net = n

\* the name of what the request works on: the deployed name, a row's name
NameAt(a) == IF job[a].op = "deploy" THEN job[a].name ELSE row[a].name
SlugAt(a) == SlugOf[NameAt(a)]

Deployment == [op : {"deploy"}, name : Env, private : BOOLEAN, external : BOOLEAN]
Removal    == [op : {"delete", "clear", "reap", "drop"}]
Unknown    == [op |-> "unknown"]
NowGone    == [op |-> "removed"]
Answer     == Deployment \cup {Unknown, NowGone}

DeployPc  == {"new_net", "insert_net", "create", "undo_net", "undo_row",
              "store", "get", "put"}
RemovePc  == {"stop", "delete", "force", "fetch", "look", "row", "route",
              "read_net", "drop_net", "net_row"}

Busy == {a \in Actor : pc[a] # "idle"}

RowType == [pk : 0..next, name : Env, id : 0..next]

TypeOK ==
    /\ rows \subseteq RowType
    /\ networks \subseteq [id : 0..next, slug : Slug]
    /\ docker \in [Env -> [id : 0..next, net : 0..next]]
    /\ bridge \in [Slug -> 0..next]
    /\ routed \subseteq Slug
    /\ late \subseteq Deployment
    /\ pc \in [Actor -> DeployPc \cup RemovePc \cup {"idle"}]
    /\ job \in [Actor -> Deployment \cup Removal \cup {NoJob}]
    /\ row \in [Actor -> RowType \cup {NoRow}]
    /\ net \in [Actor -> 0..next]
    /\ made \in [Actor -> 0..next]
    /\ todo \in [Actor -> SUBSET RowType]
    /\ next \in Nat \ {0}
    /\ jobs \in 0..MaxJobs
    /\ faults \in 0..MaxFaults
    /\ scope \in [Actor -> SUBSET Slug]
    /\ crossed \subseteq Busy
    /\ spoiled \subseteq Slug
    /\ reaped \subseteq Slug
    /\ known \in [Env -> Answer]
    /\ \A a \in Busy :
        /\ pc[a] \in DeployPc => job[a] \in Deployment
        /\ pc[a] = "create" => (net[a] # 0 <=> job[a].private)
        /\ job[a] \notin Deployment => job[a] \in Removal /\ row[a] \in RowType

Init ==
    /\ rows = {} /\ networks = {}
    /\ docker = [e \in Env |-> NoContainer]
    /\ bridge = [s \in Slug |-> 0]
    /\ routed = {} /\ late = {}
    /\ pc = [a \in Actor |-> "idle"]
    /\ job = [a \in Actor |-> NoJob]
    /\ row = [a \in Actor |-> NoRow]
    /\ net = [a \in Actor |-> 0]
    /\ made = [a \in Actor |-> 0]
    /\ todo = [a \in Actor |-> {}]
    /\ next = 1
    /\ jobs = 0 /\ faults = 0
    /\ scope = [a \in Actor |-> {}]
    /\ crossed = {} /\ spoiled = {} /\ reaped = {}
    /\ known = [e \in Env |-> Unknown]

-----------------------------------------------------------------------------
(* How requests begin, fail and end.                                       *)

Goto(a, label) == pc' = [pc EXCEPT ![a] = label]

\* slugs something is still at work on
InUse == UNION {scope[a] : a \in Actor} \cup {SlugOf[l.name] : l \in late}

\* requests for one slug go well together if all deploy a name that has no
\* row, or if all remove; a replacement goes with none
Kind(j, first) == CASE j.op # "deploy" -> "removal"
                    [] first = NoRow   -> "first"
                    [] OTHER           -> "replacement"

\* request a begins to work on these slugs with this row in hand; history:
\* whom it clashes with
Begin(a, j, slugs, first, rest, label) ==
    /\ pc[a] = "idle"
    /\ jobs < MaxJobs
    /\ jobs' = jobs + 1
    /\ Goto(a, label)
    /\ job' = [job EXCEPT ![a] = j]
    /\ row' = [row EXCEPT ![a] = first]
    /\ todo' = [todo EXCEPT ![a] = rest]
    /\ scope' = [scope EXCEPT ![a] = slugs]
    /\ LET met == {b \in Busy : scope[b] \cap slugs # {}}
           foes == {b \in met : \/ Kind(j, first) = "replacement"
                                \/ Kind(job[b], row[b]) # Kind(j, first)}
           stale == {SlugOf[l.name] : l \in late} \cap slugs
       IN /\ crossed' = crossed \cup foes
                           \cup (IF foes # {} \/ stale # {} THEN {a} ELSE {})
          /\ spoiled' = spoiled \cup stale
                           \cup UNION {scope[b] \cap slugs : b \in foes}
    /\ known' = [e \in Env |-> IF SlugOf[e] \in slugs THEN Unknown ELSE known[e]]
    /\ UNCHANGED <<database, labhost, net, made, next, faults, reaped>>

\* the request is over; what it held is forgotten
Over(a) ==
    /\ Goto(a, "idle")
    /\ job' = [job EXCEPT ![a] = NoJob]
    /\ row' = [row EXCEPT ![a] = NoRow]
    /\ net' = [net EXCEPT ![a] = 0]
    /\ made' = [made EXCEPT ![a] = 0]
    /\ todo' = [todo EXCEPT ![a] = {}]
    /\ scope' = [scope EXCEPT ![a] = {}]
    /\ crossed' = crossed \ {a}

\* with an error: nothing is known of what it leaves
Quit(a) == Over(a) /\ UNCHANGED <<reaped, known>>

\* with an answer that concerns these names
Reply(a, names, answer) ==
    /\ Over(a)
    /\ known' = [e \in Env |-> IF e \in names /\ a \notin crossed
                               THEN answer ELSE known[e]]
    /\ UNCHANGED reaped

\* the request goes on
Move(a, label) ==
    /\ Goto(a, label)
    /\ UNCHANGED <<job, row, todo, scope, crossed, reaped, known>>

On(a, label) == Move(a, label) /\ UNCHANGED <<net, made>>

\* a call fails that Docker would not have refused: the lab host answers an
\* error, or call_lab_host times out
Fault(a) ==
    /\ faults < MaxFaults
    /\ faults' = faults + 1
    /\ spoiled' = spoiled \cup scope[a]

NoFault == UNCHANGED <<faults, spoiled>>

-----------------------------------------------------------------------------
(* deploy_lab_environment, delete_lab_environment, delete_lab_environments   *)
(* and the reconciler's two ways to let an environment go, as they begin:    *)
(* with the rows they read. A name with two rows is answered 500.            *)

BeginDeploy(a, j) ==
    /\ Cardinality(RowsOf(j.name)) <= 1
    /\ \/ /\ RowsOf(j.name) = {}
          /\ Begin(a, j, {SlugOf[j.name]}, NoRow, {},
                   IF j.private THEN "new_net" ELSE "create")
       \/ \E w \in RowsOf(j.name) :
              Begin(a, j, {SlugOf[j.name]}, w, {}, "stop")

BeginDelete(a, e) ==
    /\ Cardinality(RowsOf(e)) <= 1
    /\ \E w \in RowsOf(e) :
          Begin(a, [op |-> "delete"], {SlugOf[e]}, w, {}, "fetch")

BeginClear(a) ==
    \E w \in rows : Begin(a, [op |-> "clear"], {SlugOf[v.name] : v \in rows},
                          w, rows \ {w}, "fetch")

\* a pass reads the rows and later removes one of them: because its time is
\* up or it is done ("reap"), or because its container is gone ("drop").
\* Which rows may go is the subject of Reconciler; here, any.
BeginReap(op) ==
    \E w \in rows : Begin(Reaper, [op |-> op], {SlugOf[w.name]}, w, {},
                          IF op = "reap" THEN "stop" ELSE "look")

-----------------------------------------------------------------------------
(* remove_runtime_container, and what each request does after it.            *)

\* fetch_runtime_container: any answer but an error lets the request go on
Fetch(a) ==
    /\ pc[a] = "fetch"
    /\ \/ On(a, "stop") /\ NoFault
       \/ Fault(a) /\ Quit(a)
    /\ UNCHANGED <<database, labhost, next, jobs>>

\* the container of the row at hand, if it still exists
Exists(a) == docker[row[a].name].id = row[a].id

Stopped(a) ==
    docker' = IF Exists(a) THEN [docker EXCEPT ![row[a].name].net = 0] ELSE docker

Removed(a) ==
    docker' = IF Exists(a) THEN [docker EXCEPT ![row[a].name] = NoContainer]
                           ELSE docker

\* the answer is not looked at, but a lost one is an exception
Stop(a) ==
    /\ pc[a] = "stop"
    /\ \/ Stopped(a) /\ NoFault /\ On(a, "delete")
       \/ UNCHANGED docker /\ Fault(a) /\ On(a, "delete")
       \/ (Stopped(a) \/ UNCHANGED docker) /\ Fault(a) /\ Quit(a)
    /\ UNCHANGED <<database, bridge, routed, late, next, jobs>>

\* where a request goes on once the container is gone
Gone(op) == IF op \in {"delete", "clear"} THEN "row" ELSE "route"

\* the row's turn is over: the next one, or the answer
RowDone(a) ==
    \/ /\ todo[a] = {}
       /\ IF job[a].op = "delete" THEN Reply(a, {row[a].name}, NowGone)
                                  ELSE Quit(a)
    \/ \E w \in todo[a] :
          /\ Goto(a, "fetch")
          /\ row' = [row EXCEPT ![a] = w]
          /\ todo' = [todo EXCEPT ![a] = @ \ {w}]
          /\ net' = [net EXCEPT ![a] = 0]
          /\ UNCHANGED <<job, made, scope, crossed, reaped, known>>

\* mutation: a refused delete is not forced
Delete_Unforced(a) ==
    /\ pc[a] = "delete"
    /\ Removed(a) \/ (Exists(a) /\ UNCHANGED docker)
    /\ NoFault /\ On(a, Gone(job[a].op))
    /\ UNCHANGED <<database, bridge, routed, late, next, jobs>>

\* refused when the container has been started again
Delete(a) ==
    /\ pc[a] = "delete"
    /\ \/ Removed(a) /\ NoFault /\ On(a, Gone(job[a].op))
       \/ /\ Exists(a) /\ UNCHANGED docker /\ NoFault
          /\ On(a, "force")
       \/ (Removed(a) \/ UNCHANGED docker) /\ Fault(a) /\ Quit(a)
    /\ UNCHANGED <<database, bridge, routed, late, next, jobs>>

\* a second refusal ends a deployment or a removal; delete_lab_environments
\* goes on with the next row, the reconciler as if it had succeeded
ForceDelete(a) ==
    /\ pc[a] = "force"
    /\ \/ Removed(a) /\ NoFault /\ On(a, Gone(job[a].op))
       \/ /\ UNCHANGED docker /\ Fault(a)
          /\ CASE job[a].op = "clear" -> RowDone(a)
               [] job[a].op = "reap"  -> On(a, "route")
               [] OTHER -> Quit(a)
       \/ (Removed(a) \/ UNCHANGED docker) /\ Fault(a) /\ Quit(a)
    /\ UNCHANGED <<database, bridge, routed, late, next, jobs>>

\* _reconcile_container, a single-use row: it goes if the lab host does not
\* know its container, or fails to say so
Look(a) ==
    /\ pc[a] = "look"
    /\ \/ ~Exists(a) /\ NoFault /\ On(a, "row")
       \/ Exists(a) /\ NoFault /\ Quit(a)
       \/ Fault(a) /\ (Quit(a) \/ (On(a, "row")))
    /\ UNCHANGED <<database, labhost, next, jobs>>

\* delete_row: by primary key, whatever the row says by now. The reconciler
\* leaves the private network and its row behind.
DeleteRow(a) ==
    /\ pc[a] = "row"
    /\ rows' = {w \in rows : w.pk # row[a].pk}
    /\ IF job[a].op = "reap"
         THEN /\ Over(a)
              /\ reaped' = reaped \cup scope[a]
              /\ UNCHANGED known
         ELSE On(a, "route")
    /\ NoFault
    /\ UNCHANGED <<networks, labhost, next, jobs>>

\* where a request goes on after its route
Unrouted(a) ==
    CASE job[a].op = "reap" -> On(a, "row")
      [] job[a].op = "drop" -> /\ Over(a)
                               /\ reaped' = reaped \cup scope[a]
                               /\ UNCHANGED known
      [] OTHER -> On(a, "read_net")

\* _delete_ingress_route_if_possible: the reconciler's ignores an error
\* answer, the controller's raises
DropRoute(a) ==
    /\ pc[a] = "route"
    /\ \/ routed' = routed \ {SlugAt(a)} /\ NoFault /\ Unrouted(a)
       \/ /\ UNCHANGED routed /\ Fault(a)
          /\ IF a = Reaper THEN Unrouted(a) ELSE Quit(a)
       \/ routed' \in {routed, routed \ {SlugAt(a)}} /\ Fault(a) /\ Quit(a)
    /\ UNCHANGED <<database, docker, bridge, late, next, jobs>>

-----------------------------------------------------------------------------
(* The private network of the environment that is replaced or removed.       *)

NetDone(a) ==
    IF job[a].op = "deploy"
      THEN /\ Move(a, IF job[a].private THEN "new_net" ELSE "create")
           /\ net' = [net EXCEPT ![a] = 0]
           /\ UNCHANGED made
      ELSE RowDone(a)

\* network_repo.get_by_name; two rows of one name are an exception
ReadNet(a) ==
    /\ pc[a] = "read_net"
    /\ LET found == NetworksOf(SlugAt(a)) IN
       \/ found = {} /\ NetDone(a)
       \/ Cardinality(found) > 1 /\ Quit(a)
       \/ /\ Cardinality(found) = 1
          /\ Move(a, "drop_net")
          /\ UNCHANGED made
          /\ \E n \in found : net' = [net EXCEPT ![a] = n.id]
    /\ NoFault
    /\ UNCHANGED <<database, labhost, next, jobs>>

\* DELETE /networks/{id}: Docker refuses while a container runs in it
WithoutNet(n) == [s \in Slug |-> IF bridge[s] = n THEN 0 ELSE bridge[s]]

DropNet(a) ==
    /\ pc[a] = "drop_net"
    /\ \/ /\ ~Attached(net[a])
          /\ bridge' = WithoutNet(net[a])
          /\ NoFault /\ On(a, "net_row")
       \/ /\ Attached(net[a])
          /\ UNCHANGED bridge /\ NoFault /\ NetDone(a)
       \/ UNCHANGED bridge /\ Fault(a) /\ (NetDone(a) \/ Quit(a))
       \/ /\ ~Attached(net[a])
          /\ bridge' = WithoutNet(net[a])
          /\ Fault(a) /\ Quit(a)
    /\ UNCHANGED <<database, docker, routed, late, next, jobs>>

DeleteNetRow(a) ==
    /\ pc[a] = "net_row"
    /\ networks' = {n \in networks : n.id # net[a]}
    /\ NetDone(a)
    /\ NoFault
    /\ UNCHANGED <<rows, labhost, next, jobs>>

-----------------------------------------------------------------------------
(* The new environment.                                                      *)

\* POST /networks: Docker refuses a name that is taken, or has no addresses
\* left to give
NewNet(a) ==
    /\ pc[a] = "new_net"
    /\ LET s == SlugAt(a)
           created == bridge[s] = 0 /\ bridge' = [bridge EXCEPT ![s] = next]
       IN \/ /\ created /\ NoFault
             /\ Move(a, "insert_net")
             /\ net' = [net EXCEPT ![a] = next]
             /\ UNCHANGED made
          \/ UNCHANGED bridge /\ NoFault /\ Quit(a)
          \/ (created \/ UNCHANGED bridge) /\ Fault(a) /\ Quit(a)
    /\ next' = next + 1
    /\ UNCHANGED <<database, docker, routed, late, jobs>>

InsertNet(a) ==
    /\ pc[a] = "insert_net"
    /\ networks' = networks \cup {[id |-> net[a], slug |-> SlugAt(a)]}
    /\ On(a, "create") /\ NoFault
    /\ UNCHANGED <<rows, labhost, next, jobs>>

\* Docker gives the name to a new container and starts it in its network;
\* when the start fails, the container stays
Creates(j, id) ==
    /\ docker[j.name].id = 0
    /\ j.private => bridge[SlugOf[j.name]] # 0
    /\ docker' = [docker EXCEPT ![j.name] =
          [id |-> id, net |-> IF j.private THEN bridge[SlugOf[j.name]] ELSE 0]]

Leaves(j, id) ==
    /\ docker[j.name].id = 0
    /\ docker' = [docker EXCEPT ![j.name] = [id |-> id, net |-> 0]]

\* the compensation: a private network is removed again
Undo(a) == IF net[a] # 0 THEN On(a, "undo_net")
                         ELSE Quit(a)

\* mutation: a taken name counts as success
Create_Adopts(a) ==
    /\ pc[a] = "create"
    /\ \/ Creates(job[a], next) /\ made' = [made EXCEPT ![a] = next]
       \/ /\ docker[job[a].name].id # 0 /\ UNCHANGED docker
          /\ made' = [made EXCEPT ![a] = docker[job[a].name].id]
    /\ Move(a, "store") /\ NoFault
    /\ next' = next + 1
    /\ UNCHANGED <<database, bridge, routed, late, net, jobs>>

\* POST /containers; an image that must be pulled first outlasts the timeout,
\* and the container is created after the caller has given up
Create(a) ==
    /\ pc[a] = "create"
    /\ \/ /\ Creates(job[a], next) /\ NoFault
          /\ Move(a, "store")
          /\ made' = [made EXCEPT ![a] = next]
          /\ UNCHANGED <<net, late>>
       \/ UNCHANGED <<docker, late>> /\ NoFault /\ Undo(a)
       \/ /\ Leaves(job[a], next) /\ UNCHANGED <<late, faults>>
          /\ spoiled' = spoiled \cup scope[a]
          /\ Undo(a)
       \/ (Creates(job[a], next) \/ Leaves(job[a], next))
          /\ UNCHANGED late /\ Fault(a) /\ Undo(a)
       \/ /\ UNCHANGED docker /\ late' = late \cup {job[a]}
          /\ Fault(a) /\ Undo(a)
    /\ next' = next + 1
    /\ UNCHANGED <<database, bridge, routed, jobs>>

\* whatever the lab host answers, the network's row goes
UndoNet(a) ==
    /\ pc[a] = "undo_net"
    /\ \/ ~Attached(net[a]) /\ bridge' = WithoutNet(net[a]) /\ NoFault
       \/ Attached(net[a]) /\ UNCHANGED bridge /\ NoFault
       \/ UNCHANGED bridge /\ Fault(a)
    /\ On(a, "undo_row")
    /\ UNCHANGED <<database, docker, routed, late, next, jobs>>

\* mutation: the row of the network stays
UndoRow_KeepsRow(a) ==
    /\ pc[a] = "undo_row"
    /\ Quit(a) /\ NoFault
    /\ UNCHANGED <<database, labhost, next, jobs>>

UndoRow(a) ==
    /\ pc[a] = "undo_row"
    /\ networks' = {n \in networks : n.id # net[a]}
    /\ Quit(a) /\ NoFault
    /\ UNCHANGED <<rows, labhost, next, jobs>>

DeployDone(a) == Reply(a, {job[a].name}, job[a])

Stored(a) ==
    IF job[a].external THEN On(a, "get")
                       ELSE DeployDone(a)

\* the new container gets a row, or the row of the one it replaces; that row
\* may be gone by now, which is an exception (StaleDataError)
Store(a) ==
    /\ pc[a] = "store"
    /\ \/ /\ row[a] = NoRow
          /\ rows' = rows \cup {[pk |-> next, name |-> job[a].name, id |-> made[a]]}
          /\ Stored(a)
       \/ /\ row[a] # NoRow /\ \E w \in rows : w.pk = row[a].pk
          /\ rows' = {w \in rows : w.pk # row[a].pk}
                      \cup {[row[a] EXCEPT !.id = made[a]]}
          /\ Stored(a)
       \/ /\ row[a] # NoRow /\ \A w \in rows : w.pk # row[a].pk
          /\ UNCHANGED rows /\ Quit(a)
    /\ next' = next + 1
    /\ NoFault
    /\ UNCHANGED <<networks, labhost, jobs>>

\* the published port is read from the container, which must still be there
GetPort(a) ==
    /\ pc[a] = "get"
    /\ \/ /\ docker[job[a].name].id = made[a]
          /\ On(a, "put") /\ NoFault
       \/ docker[job[a].name].id # made[a] /\ Quit(a) /\ NoFault
       \/ Fault(a) /\ Quit(a)
    /\ UNCHANGED <<database, labhost, next, jobs>>

\* mutation: a route that could not be set is no error
PutRoute_Ignores(a) ==
    /\ pc[a] = "put"
    /\ \/ routed' = routed \cup {SlugAt(a)} /\ NoFault
       \/ UNCHANGED routed /\ Fault(a)
    /\ DeployDone(a)
    /\ UNCHANGED <<database, docker, bridge, late, next, jobs>>

PutRoute(a) ==
    /\ pc[a] = "put"
    /\ \/ routed' = routed \cup {SlugAt(a)} /\ NoFault /\ DeployDone(a)
       \/ routed' \in {routed, routed \cup {SlugAt(a)}} /\ Fault(a) /\ Quit(a)
    /\ UNCHANGED <<database, docker, bridge, late, next, jobs>>

-----------------------------------------------------------------------------
\* a creation whose caller has given up is carried out, or fails
LateCreate(j) ==
    /\ j \in late
    /\ late' = late \ {j}
    /\ \/ Creates(j, next) \/ Leaves(j, next) \/ UNCHANGED docker
    /\ next' = next + 1
    /\ UNCHANGED <<database, bridge, routed, pc, local, jobs, faults, history>>

\* the control plane is restarted: its requests are gone
Restart ==
    /\ faults < MaxFaults
    /\ faults' = faults + 1
    /\ Busy # {}
    /\ pc' = [a \in Actor |-> "idle"]
    /\ job' = [a \in Actor |-> NoJob]
    /\ row' = [a \in Actor |-> NoRow]
    /\ net' = [a \in Actor |-> 0]
    /\ made' = [a \in Actor |-> 0]
    /\ todo' = [a \in Actor |-> {}]
    /\ scope' = [a \in Actor |-> {}]
    /\ crossed' = {}
    /\ spoiled' = spoiled \cup UNION {scope[a] : a \in Actor}
    /\ UNCHANGED <<database, labhost, next, jobs, reaped, known>>

Step(a) ==
    \/ Fetch(a) \/ Stop(a) \/ Delete(a) \/ ForceDelete(a) \/ Look(a)
    \/ DeleteRow(a) \/ DropRoute(a)
    \/ ReadNet(a) \/ DropNet(a) \/ DeleteNetRow(a)
    \/ NewNet(a) \/ InsertNet(a) \/ Create(a) \/ UndoNet(a) \/ UndoRow(a)
    \/ Store(a) \/ GetPort(a) \/ PutRoute(a)

Next ==
    \/ \E a \in Request :
         \/ \E j \in Deployment : BeginDeploy(a, j)
         \/ \E e \in Env : BeginDelete(a, e)
         \/ BeginClear(a)
    \/ \E op \in {"reap", "drop"} : BeginReap(op)
    \/ \E a \in Actor : Step(a)
    \/ \E j \in late : LateCreate(j)
    \/ Restart

Spec == Init /\ [][Next]_vars

-----------------------------------------------------------------------------
\* nobody is at work on the slug, and nothing has gone wrong on it
Calm(s) == s \notin spoiled /\ s \notin InUse

\* Whatever was deployed, replaced, refused and removed on it, a calm slug
\* holds nothing that the database does not account for: no container without
\* its row, no name with two rows, no private network without its row nor a
\* row without its network, no route without an environment. Nor is there a
\* network without an environment, so that the name can be deployed again:
\* Docker would refuse a second network of the same name. The reconciler is the
\* exception, it leaves the networks of what it removes.
NothingStray ==
    \A s \in Slug : Calm(s) =>
        /\ \A e \in Env : SlugOf[e] = s =>
            /\ docker[e].id # 0 => \E w \in RowsOf(e) : w.id = docker[e].id
            /\ Cardinality(RowsOf(e)) <= 1
        /\ NetworksOf(s) = IF bridge[s] = 0 THEN {}
                           ELSE {[id |-> bridge[s], slug |-> s]}
        /\ s \in routed \/ (bridge[s] # 0 /\ s \notin reaped) =>
               \E w \in rows : SlugOf[w.name] = s

\* However requests cross, fail and are cut off, no two rows name the same
\* container: container_id is UNIQUE, and the write of a row never meets that.
OneRowPerContainer == \A v, w \in rows : v.id = w.id => v = w

\* A row goes only after its container: deleting by primary key never takes
\* the row of a container that runs, unless requests clashed or a call failed.
RowsOutliveContainers ==
    [][\A w \in rows :
        (\A v \in rows' : v.pk # w.pk) /\ SlugOf[w.name] \notin spoiled'
            => docker[w.name].id # w.id]_vars

\* What an answer promises holds until the name is worked on again, even if
\* calls failed before or failed elsewhere: after a deployment, one row and its
\* container, in its own network and with its route if it asked for them; after
\* a removal no row, and no route.
AnswersHold ==
    \A e \in Env :
        LET s == SlugOf[e] IN
        /\ known[e] = NowGone => RowsOf(e) = {} /\ s \notin routed
        /\ known[e].op = "deploy" =>
            /\ \E w \in rows : RowsOf(e) = {w} /\ docker[e].id = w.id
            /\ known[e].private =>
                /\ docker[e].net = bridge[s] /\ bridge[s] # 0
                /\ [id |-> bridge[s], slug |-> s] \in networks
            /\ known[e].external => s \in routed
=============================================================================
