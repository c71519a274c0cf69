# Verification of docker-interface

TLA+ models of the control plane and the lab host of docker-interface, the TLC
runs that check them on small instances, and TLAPS proofs of the properties
that matter most for every instance. Paths below are relative to `src/`.

## The system

Three programs (`README.md`):

* **lab host** (`lab_host/`): one per machine. A FastAPI program whose
  synchronous endpoints run in a pool of threads and drive Docker, Docker
  Compose and a Traefik ingress proxy. A thread publishes heartbeats to
  RabbitMQ.
* **control plane** (`control_plane/`): one process, one asyncio loop, a SQL
  database of hosts, labs, containers, projects and networks. Handlers
  interleave at every `await`; each has a database session of its own whose
  repositories commit at once. Two threads feed the *reconciler*, which brings
  containers and projects to the state their rows ask for.
* **cli** (`cli/`): one user's commands; a YAML inventory, Ansible, and HTTP
  calls to the control plane.

The control plane calls a lab host over HTTP (15 s timeout by default); the
lab host never calls back, it only publishes heartbeats.

### Components

| component | state | operations | what is hard | what makes it correct |
|---|---|---|---|---|
| Reconciler (`reconciliation/service.py`) | `_RECONCILE_LOCK`; container and project rows | `reconcile_heartbeat_payload` and its helpers | stale rows, stale heartbeats, exceptions at every await, users at work meanwhile | passes exclude each other; only disposable rows go; nothing is left behind; containers settle in their desired state |
| Consumer, periodic thread (`rabbitmq_consumer.py`) | the connection, the queue's messages, the lock | `_on_message`, `_periodic_reconcile_forever` | the thread dies with its connection; one failing host ends a pass | no heartbeat is lost, every reachable host is visited |
| Publisher (`lab_host/rabbitmq_publisher.py`) | none | `_publish_loop` | what the snapshot leaves out | the reconciler can decide from it |
| State endpoint (`controller.py:2226`) | `Container.status` | stop, start, pause, unpause | crossing requests, status observed after the operation | the row says what the user asked for |
| Environments (`controller.py:1194-1539`, `1959-2110`) | container and network rows; the containers, networks and routes they stand for | deploy with replacement, delete one, delete all | compensation, timeouts with late effect, requests that cross, the reconciler | nothing without a row, no two rows for one container, answers that hold |
| Projects (`controller.py:1542`, `2026`, `service.py:303`) | project rows; directory, containers and routes they stand for | deploy, delete, up, down, the reconciler's half | failures after the deployment, one directory for several labs, the reconciler | nothing without a row; projects settle |
| Labs (`controller.py:426-1022`) | lab, network and container rows | `create_lab`, `delete_lab`, `delete_host` | compensation, cascades, deletion crossing creation and deployment | nothing survives its lab; a lab stays whole |
| Host registry (`controller.py:426-600`, `secret_store.py`, `networking/providers.py`) | host rows, API keys, wildcard names | `register_host`, `delete_host`, `mark_online` | three stores changed one after the other, unique names, addresses and paths | a registered host can be called |
| Capacity (`controller_helpers.py:168-295`) | the sums of the rows | `enforce_resource_capacity` | check-then-act | allocations stay within the lab's and the host's limits |
| Scheduler (`controller.py:230-416`) | none | `_select_target_lab`, `_select_target_host_for_lab` | rounding, missing limits | the chosen target can take the load |
| Hostnames (`controller.py:101-227`) | the proxy's routes; rows, ports and the host's domain they are made from | set and deleted by every deployment and removal | shared names, ports that change hands, routes left behind | a hostname leads to what was deployed under it, and nowhere else |
| Ingress routes (`docker_interface.py:952-1207`) | a JSON file and the proxy's YAML file | upsert, remove | read-modify-write without a lock | no route is lost; both files agree |
| Ports, compose packages (`docker_interface.py:70-574`) | host ports | selection, remapping, limits | time of check to time of use, rounding | distinct ports; parts within the quota |
| CLI inventory (`cli/core/infra/state.py`, `ansible/inventory.py`) | two YAML files | upsert, find, migrate, remove | identity of a device | one device for a machine |
| CLI commands (`cli/core/click/cli.py`) | none of their own | provision, bootstrap, destroy, remove-device | order of teardown, partial failure, what an earlier command left | nothing is forgotten while it runs; only what was asked is destroyed |

`PROJECT.json` lists every component with its status, every hazard with its
line and the properties that cover it, and the lines each definition models.

## Modules

### ContainerRuntime

Constant operators: what Docker does to a container on `start`, `stop`,
`pause`, `unpause` and `remove`, and the answer the lab host's endpoint gives.
An answer is reduced to what the control plane tells apart: `ok` (below 400),
`missing` (404), `refused` (anything else). Docker itself is external; the
facts taken from it are that a stopped container may have ended with 0, that
starting a paused container is refused, and that only a forced remove takes a
container that is up. Environments have no restart policy, so the status
`restarting` does not occur.

### Reconciler

The container half of the reconciler with everything it races with. A step is
the code between two awaits, with the call that is awaited answered in the
same step.

| model | code |
|---|---|
| `rows`, `status`, `lifetime`, `elapsed` | the `containers` table; `elapsed` is `_ttl_expired` |
| `docker`, `routed` | the lab host's containers and ingress routes |
| `queue`, `Publish`, `Deliver` | RabbitMQ and the two ends of it |
| `lock`, `Acquire`, `Skip`, `Release` | `_RECONCILE_LOCK`, its failed acquisition, the `finally` clause |
| `pc`, `view`, `seen`, `todo`, `cur` | a thread's coroutine: the await it is at, `runtime_by_id`, the rows as read, those still to do, the one at hand |
| `Decide` | the decision table of `_reconcile_container` |
| `ExamineBeat`, `ExamineFetch`, `ExamineRaises` | the runtime from the heartbeat, from the lab host, or no answer |
| `Correct` | start, stop or pause towards the desired status |
| `RemoveStop` ... `RemoveRow`, `DropRow`, `DropRoute` | the two ways a row goes |
| `RequestRead`, `RequestCall`, `RequestReload`, `RequestWrite` | one name of `set_lab_environments_state` |
| `Exit`, `Elapse` | a process ends; time passes |

A *fault* is a lab host call answered with an error that Docker did not cause
(`Answered` with `refused`), a call without an answer, before or after it took
effect (`Raised`), or the secret store without the API key. Every path of the
code that such a call can take is there; `MaxFaults` bounds how many happen.

Abstractions. One host and one lab: passes over several hosts repeat the same
loop. A heartbeat's statuses are taken in one step, although the publisher
reads them one after another: each decision uses one container's entry only.
A lost answer's late effect takes place at the latest when the caller gives
up. `last_seen_utc` and `mark_online` are left out, no decision here reads
them. A row's `lifetime_type` is not changed by any code in this module.

### RouteTable, IngressRoutes

`RouteTable` is what the ingress endpoints promise: a table of which each
request changes one entry. `IngressRoutes` is what they do: `routes.json` is
read, changed and written back, `routes.yml` is rendered from the same table,
and nothing locks them although the endpoints run in a pool of threads.
`Path.write_text` opens (and so truncates) a file and then writes, so each
write is two steps (`OpenJson`/`WriteJson`, `OpenYml`/`WriteYml`), and two
writers may leave one's text over the other's tail (`Torn`). A file that cannot
be parsed is read as the empty table (`_load_ingress_routes_state`). The text
is taken to reach the file in one write: the table fits Python's buffer. The
first request also creates the files (`CheckJson` ... `CreateYml`). A crash is
the restart of the program: its requests are gone, its files stay.
`ensure_ingress_proxy` removes the proxy's container, rewrites `routes.yml`
and runs a new container; the ports it chooses are in `Ports`.

Two history variables state what can be promised without a lock: `overlap`
holds the requests that were not alone all the time, `known` what the last
undisturbed request left for each hostname. No action's guard reads them.

### Environments

Deploying, replacing and removing environments: the database's rows, the lab
host's containers, networks and routes, and nothing that spans them. As in
`Reconciler`, a step is the code between two awaits.

| model | code |
|---|---|
| `rows`, `networks` | the tables, reduced to keys, names and Docker's ids |
| `docker`, `bridge`, `routed` | the lab host's containers, networks, routes; Docker refuses a name that is taken, for networks too (Engine 25 and later) |
| `late`, `LateCreate` | a creation that outlasts `call_lab_host`'s 15 s, such as one that pulls its image |
| `pc`, `job`, `row`, `net`, `made`, `todo` | a handler's coroutine: its await, the payload, `existing_by_name` or the row at hand, the network row, the created container, the rows left |
| `BeginDeploy`, `BeginDelete`, `BeginClear`, `BeginReap` | the handlers and the reconciler's two removals, with the rows they read |
| `Stop`, `Delete`, `ForceDelete` | `remove_runtime_container`, and what each caller makes of its answer |
| `DropRoute`, `ReadNet`, `DropNet`, `DeleteNetRow` | what goes with the container |
| `NewNet`, `InsertNet`, `Create`, `Store`, `GetPort`, `PutRoute` | the new environment |
| `UndoNet`, `UndoRow` | the compensation of a failed creation |

A network's name is made of the *slug* of the environment's, a route's host
name too, so both are kept per slug; `SlugOf` says which names share one.

A *fault* is, as above, a call that fails although Docker would have obeyed, or
has no answer, before or after its effect, or a restart of the control plane.
The reconciler removes any row here (which rows may go is `Reconciler`'s
subject), and leaves the private network, as in the code.

Five history variables, which no guard reads, say what can be promised. Requests
for one slug (`scope` holds those a request works on) go well together if all of them deploy a name that had no row
(`Kind` "first"), or if all of them remove; a replacement goes well with none.
`crossed` holds the requests that met others they do not go well with,
`spoiled` the slugs this happened on or a call failed on, `reaped` those the
reconciler removed from, `known` what the last undisturbed request answered for
each name. Leaving any of these conditions out makes TLC find a behaviour of
the code that breaks the property: a deletion that crosses a replacement leaves
a container without a row; a start that fails leaves a container that holds the
name (`docker_interface.py:699`); after the reconciler's removal a deployment
with a private network is refused, for the network is still there; removing one
name takes the route of another with its slug.

Abstractions. One lab, on a host that routes and has an ingress domain, with its
default networks; an external deployment publishes a port. Rejections before
the first change (unknown lab, capacity, limits) are left out: `Capacity` is
about them. Ids are never given twice, so `existing` (`controller.py:1444`) is
always None. Containers of compose projects are left to `Projects`.

### Labs

`create_lab`, `delete_lab` and `delete_host`, call by call and commit by commit,
with deployments into the labs meanwhile.

| model | code |
|---|---|
| `host`, `labs`, `netRows`, `boxRows` | the tables; `DropLab` and `DeleteHost` are their cascades, `InsertNet` and `Store` fail once the lab is gone |
| `bridges`, `boxes` | the lab host's networks and containers; a network in use is not removed |
| `pc`, `job`, `lab`, `made`, `todo` | a handler's await, its payload, the lab it works on, what it has made and not recorded, what it has still to remove |
| `InsertLab` ... `UpdateLab` | the creation: the row, each network and its row, the pointers to both |
| `UndoNet`, `UndoLab` | `create_lab`'s two handlers of exceptions |
| `ListBoxes` ... `DropLabRow` | the deletion: containers, networks, volumes, then the rows, table by table |
| `Raise`, `RaiseLate`, `PostNetFails`, `MakeLate` | calls without an answer, before or after their effect |

History: `spoiled` are the labs whose requests do not go well together (a
deletion with a creation or a deployment), whose creation was lost or removal
refused, or whose host was forgotten; `ready`, `kept` and `doomed` what was
answered for and what a deletion was begun for. Environments and projects are
one kind of container here.

### Projects

A compose project of one name: its rows (one per lab), its directory, its
containers and routes, deployed, removed, brought up and down by users and by
the reconciler.

| model | code |
|---|---|
| `rows` | the `projects` table: the wanted state, the lifetime, whether services are exposed, whether the time has run out |
| `dir`, `up` | `_compose_project_path(name)` and the containers of the project's label: one of each on a host, whatever the labs |
| `BeginDeploy`, `Source`, `Start`, `Routes`, `Store` | a deployment: the directory is removed and filled, compose is started, services are routed, the row is written |
| `Down`, `Rmtree`, `DeleteRow`, `Unroute` | a removal, in the order of the user's handler or of the reconciler |
| `Call`, `Write` | `up` and `down` by users, which store the wanted state after the call, if it is not the one the row had when it was read |
| `Visit`, `Ps`, `ReapRefused`, `PassEnds` | the reconciler's reading of a row, its `ps` and what it makes of both, the end, also by a `ps` that raises |
| `gone` | callers that no longer wait: the lab host goes on without them |

History: `due` are the rows whose *last* deployment has had its time, `spoiled`
the labs in which a deployment met another actor or a call failed, `answer` what
the last answer that met nobody said. Two cases the model shows and no property
claims: a redeployment that exposes fewer services leaves the old routes, and one
whose new source cannot be written leaves a directory without a compose file,
so that neither a user nor the reconciler can start it again.

### Capacity

`enforce_resource_capacity` and the scheduler. Allocation is kept nowhere: each
request sums rows lab by lab, checks, and writes its row many awaits later.
CPUs are counted in halves, memory in halves of a MiB, since rows hold whole MiB
and the lab host gets the limit as it was written (`GrantsNearLimit`).

| model | code |
|---|---|
| `CheckLab`, `ReadLab`, `CheckHost`, `sum` | the sums of `controller_helpers.py:168-295` and their checks, one read of the database in a step |
| `LabLoad`, `HostLoad`, `Eligible`, `Consider`, `Select`, `ConsiderHost`, `SelectHost` | the scores, filters and orders of `_select_target_lab` and `_select_target_host_for_lab` |
| `choice` | what the scheduler may choose from, with the allocation it read |

History: `mixedLabs` and `mixedHosts`, where two deployments were under way at
once (the check is then stale and the limit may be passed, as TLC shows when the
condition is left out); `undisturbed`, `even`.

### Ports, ProjectLimits

`Ports`: host ports of the containers of one lab host. Finding a port free
(`docker_interface.py:70-165`) and taking it are two steps; each creation of a
container is tried again with other ports (`create_container`, 690-713),
compose projects are started first and moved only when Docker refuses, the proxy
of the host's network lists no ports. `met`, `raced`, `ran` and `lost` are
history. What the model shows and the properties allow for: `compose_up` never
moves ports, so that a stopped project may lose its port to a newcomer; a
creation whose start was refused leaves its container, so that the retry meets
its own name.

`ProjectLimits`: `_apply_compose_project_limits`, which divides the limit
written beside the compose file among the project's containers, one update after
the other, with requests that cross. CPU and memory are divided alike.

### Exposure

What leads from outside to which container: rows, hostnames, routes and ports
of one host together. Handlers run one at a time, each with the points where a
call of it may fail; how they interleave is in `Environments`, `Projects`,
`IngressRoutes` and `Ports`.

| model | code |
|---|---|
| `envs`, `projects`, `domain` | the rows with `exposed_services`, and the host's `base_domain` |
| `box`, `up`, `file` | containers with the port they publish, those that run, compose files as remapped |
| `HostOf`, `SlugOf`, `table` | `_route_hostname`, and the proxy's routes (what `RouteTable` promises) |
| `Put`, `Dropped` | `_ensure_ingress_route_for_runtime_container`, `_delete_ingress_route_if_possible` |
| `DeployEnv`, `ReplaceFails`, `RemoveEnv`, `StopEnv`, `StartEnv` | environments, by users and the reconciler |
| `Settled`, `Started`, `StartFails` | `deploy_compose_package`: which ports the services end up with |
| `DeployProject`, `DeployProjectRefused`, `ProjectUp`, `ProjectDown`, `RemoveProject` | projects, by users and the reconciler |
| `DeleteLab`, `RegisterHost` | `delete_lab`; a host registered again with another domain |

`docker compose up` leaves services that are no longer in the file running, and
`down` does not end them. `_used_host_ports` reads the ports a container asked
for, so a container without a fixed port counts as publishing none, as it does
for the route. `answered` and `left` are history. `left` names the hostnames
whose routes the code leaves behind: services no longer exposed or no longer in
the file, projects that are down or were refused when their services were up,
calls that failed, domains the host no longer has.

### Hosts

`register_host` await by await: the row by name, the row by address, the key
into the secret store, the row, the DNS provider; `delete_host`, and heartbeats
(`ReadBeat`, `WriteBeat`), whose update writes the status and nothing else.

| model | code |
|---|---|
| `rows` | the `hosts` table with its unique columns |
| `key` | the API key a machine takes, which its owner may change |
| `secrets`, `PathOf`, `Durable` | `secret_store.py`: the path drops characters; without Vault a restart empties the store |
| `target`, `HasWildcard` | `ingress_target`, where the wildcard name is to lead: a column of its own, an address or a name; without it, or without a base domain, `_ensure_dns_wildcard_for_host` does nothing |
| `dns` | the wildcard records of `networking/providers.py` |

History: `met`, `sound` and `wild` say which registrations met nothing: no request
with such a name, address or key, and none at work on a row with one (`Meets`).
`sound` also loses the hosts whose key a restart has emptied out of the process
(without Vault), and those whose key a registration of another hostname with the
same path has replaced. `wild` holds the hosts whose last registration gave the
provider a wildcard name: one that leaves the ingress target out leaves the
provider's record where it was. Shown and not claimed: a deleted host leaves its secret and its wildcard name; a heartbeat
makes a DRAINING host ONLINE, and nothing ever sets OFFLINE.

### Heartbeats

What starts a pass: publishers, the durable queue at the broker, the consumer
thread, the periodic thread, `_RECONCILE_LOCK`, and the hosts in their order.
What a pass does for a host is `Reconciler`.

| model | code |
|---|---|
| `linked`, `Link`, `Publish`, `Unlink` | `rabbitmq_publisher.py`: it connects again by itself |
| `queue`, `taken`, `bound` | the broker: declared queue, delivered messages that are not acknowledged |
| `conn`, `Start`, `Die`, `Restart` | the consumer connects once; its thread ends with the connection, and starts with the process only |
| `Take`, `Answer` | `_on_message` and its acknowledgement, which may find the connection gone |
| `Wake`, `Rest` | `_periodic_reconcile_forever` |
| `Enter`, `Visit`, `lock`, `left` | a pass over one or all hosts; one that raises ends the pass (`down`) |

A message's name is used again once it has left the broker, so any number of
heartbeats may be sent. `heard` and `cut` are history.

### CliContext

What the command line keeps of the machines, and what runs on them. The
commands of one user follow each other, so an action is a command, up to the
point where it fails.

| model | code |
|---|---|
| `inv` | the Ansible inventory: per group, a host's address |
| `devices`, `type` | `infra_state.yaml`: devices with their roles, and the kind of the last provisioning |
| `runs`, `reg` | what runs on a machine (a control plane, a lab host, labs), and the hosts registered with its control plane |
| `made` | the machines of Terraform's state |
| `MigrateOne`, `Upsert`, `At`, `Keys` | `state.py`: migration of the two older lists, and how a device is found |
| `also`, `Named`, `Identifiers`, `Leads` | `register_ip` and `lab_host_id`, which a device is called by too: they may be what another device is called, and the registration then leads there |
| `Stuck`, `Refusals`, `stays` | containers Docker refuses to remove: `lab_host.teardown.yaml` and `control_plane.teardown.yaml` ignore that (`failed_when: false`) and succeed, `host.teardown.containers.yaml` does not |
| `Shipped` | `cli/data/inventory/inventory.yaml`, which has `local-node` and `localhost` |
| `InGroups`, `InDevices`, `Only` | the loops over the inventory and the devices, as folds |
| `Provision...`, `Bootstrap...`, `Destroy...`, `RemoveHosts`, `RemoveDevice` | the commands, with the point each failure leaves them at |
| `Become` | what a playbook leaves on a machine |

A playbook for a host the inventory does not have does nothing and succeeds, as
Ansible does. `--remove-volumes` has its default. The hosts of a group are
expanded at once: the code does so host by host, in the order of the file, which
makes a difference only where a name means two machines. Where several hosts have
an address, any of them is taken. A `register_ip` that is nobody's address or
name is no identifier of anything and is left out, as is a lab of a torn-down
host that has no containers. `means` (the machine a name was last given to),
`letGo` (machines the user took out of the context as they were, or on which Docker
refused a removal), `last` and `clean` (nothing but a destruction has failed, and
Terraform has made nothing) are history. `Asked` are the machines a destruction is
about: the one the user means, and those that registrations tie to it (`Tied`),
since a device that is called what another is called cannot be destroyed without
it. Destroying a device with a control plane resets the whole context
(`cli.py:1480`): what then still runs is in `letGo`. After a LAN provisioning
Terraform's machines are never destroyed (`cli.py:1466`). A host the CLI destroys stays registered with the
control plane, where it is then one of `Heartbeats`' hosts whose visit raises,
and keeps the periodic pass from the hosts behind it.

### Machines

The machines at both ends: `Hosts`, what a control plane knows of the hosts
registered with it, and an instance `C` of `CliContext`, what the command line
knows of the machines it deployed them to. A registration is where they meet: in
`CliContext` it is one answered call, in `Hosts` every await of it. Neither reads
the other's variables. `ContextAssumption` is what is assumed of the constants of
`C`, and its properties are stated here again, for the run and the theorems.

### MC modules, Proofs modules

`MCx` holds the instance of `x` for TLC; `xProofs` the theorems about it and
their proofs (`MachinesProofs` for `Hosts` and `CliContext`). Three MC modules hold several components: `MCReconcilerLive`
(`Reconciler`, `Projects`), `MCRoutes` (`Routes`, which composes `IngressRoutes`
and `Exposure`, the last in two instances of its own) and
`MCResources` (`Resources`, which composes `ProjectLimits`, `Ports` and
`Capacity`, the last in two instances of its own). What they combine
shares no state in the code either, so the initial state chooses (`kind`,
`mode`, `about`) the one a behaviour is about, and the others stay as they
begin; the properties that are stated for one of them name the choice.
Operators named `x_y`, under a comment `mutation`, are variants of
`x` with a plausible bug in them, which no specification uses: each property is
known to fail for one of them.

## Runs

Deadlock is checked where the system can always go on: in the runs of
`Reconciler` and `Heartbeats`, whose periodic thread never ends. The other runs
set `CHECK_DEADLOCK FALSE`: what they model rests when its requests or commands
have been served (in `recon_live`, that holds of a behaviour with projects).
`SYMMETRY` is used in runs without liveness only, over
requests, keys or names that the module treats alike and never orders.

| run | instance | properties |
|---|---|---|
| `recon` | 2 environments of any lifetime, 1 heartbeat waiting, 1 exit, 1 fault; 2 requests of one user for the first while the second is left alone | `OnePass`, `LossJustified`, `CleanUnlessFault` |
| `recon_live` | fair; 1 environment with 1 request, 1 heartbeat, 1 exit, 1 fault, or with 2 requests that may cross; or 1 project with 3 requests and 1 fault | `AllConverge` (`Converges` of both modules), `AllExpiredGo` (`ExpiredGoes` of both) |
| `recon_completed` | 1 environment, 1 heartbeat, 1 exit, no request, no fault | violated: `CompletedStaysDown` |
| `routes` | *serial*: 1 thread, 2 hostnames, 2 upstreams, 4 requests. *overlapping*: 2 threads, 2 hostnames, 3 requests, 1 restart. *environments*: 2 environments, a project, 2 ports, 5 handlers, 1 fault. *services*: 1 environment, a project of 1 or 2 services, 3 ports, 4 handlers, 1 fault. *shared*: 2 environments and a service, two of which have one hostname, 2 ports, 4 handlers, 1 fault | `SerialImplementsRouteTable`; `LoneRequestRepairs`, `AnswersHold`; `Reachable`, `RoutesLeadHome` (`RoutesHaveBoxes`, `LeadsHome`) |
| `envs` | 2 names of one slug, 2 users and the reconciler, 3 requests; 1 name with a fourth request, with 3 and 1 fault, or with 2 and 2 faults | `NothingStray`, `AnswersHold`, `OneRowPerContainer`, `RowsOutliveContainers` |
| `labs` | 1 name, 5 requests, 3 at once, 1 fault; or 4 requests, 2 at once, 2 faults | `NothingStray`, `LabsComplete`, `RowsGoLast` |
| `projects` | 1 lab, every lifetime, 2 users and the reconciler, 3 requests, 1 fault | `TypeOK`, `NothingStray`, `AnswersHold` |
| `resources` | *limits*: 3 containers, 2 threads, 3 requests, 1 refused call. *ports*: 3 ports, 2 containers, a project, the proxy, 2 threads, 3 requests. *window*: 1 bounded host, 2 labs, 2 requests at once, 4 in all. *scheduler*: 3 hosts, one unbounded, 2 labs, 4 requests | `WholeIsShared`, `HandsOutAll`; `PortsApart`, `LoneSucceeds`; `CapacityKept` (`LabsKept`, `HostsKept`, `GrantsNearLimit`), `ScheduledFits`; `Balanced`; `TheOthersTyped` |
| `hosts` | 3 names, two of which have one path, 2 addresses, 2 keys, 1 domain, 2 ingress targets or none, 2 requests at once, 3 in all, 1 fault, Vault | `TypeOK`, `Manageable`, `WildcardsFollow` |
| `beats` | fair; 2 hosts and an unknown one, 2 messages, prefetch 2, 2 faults | `NoneLost`, `OnceUnlessCut`, `Consumed`, `Visited` |
| `ctx` | the own and one LAN machine, 2 names for each, the shipped inventory or none, lab hosts registered under the own machine's address too, lab hosts Docker does not remove, Terraform. 3 commands of which any may fail once there is no file and no inventory, else only destructions, from no file or one of the older format; from nothing, and with registrations of no other device, 4 of which any may fail or 5 of which only destructions fail | `TornDownAfterSound`, `KnownAfterSound`, `OnlyTheAskedAfterSound`; `ContextTyped`, `DevicesApart` |
| `ctx_labs` | the same machines, 6 commands that all succeed, among them destroying everything | violated: `LabsGone` |

What the passing runs show, in a sentence each, is in `PROJECT.json`. Types are
proved for every module (`RoutesTyped`, `ExposureTyped`, `PortsTyped` and the
like), and checked by runs for `Projects`, `Hosts`, `Ports`, `Capacity` and
`CliContext`. That `Heartbeats`' passes exclude each other is
proved, and the lock is that of `recon`'s `OnePass`.

### Why the bounds are enough

*State constraints.* `recon`, `envs` and `labs` do not take every bound at its
largest at once: `RequestsForOne` and both `Sizes` (in the MC modules) list the
combinations that are explored, each of them whole. They constrain runs of
safety properties only; in `recon_live` the same is said in the next-state
relation, by counters and by which requests are made.

*Reconciler.* Two threads are the whole system's. A removal disturbs one row, so
two environments show interference between rows and one shows everything else.
One heartbeat waiting while another is being handled is enough for it to be
stale. Two requests are the least that cross, or that undo each other during
one removal. One fault reaches every error path once; a second only repeats a
shorter behaviour, since a pass ends at an exception.

*Ingress.* Two requests that overlap and a third that finds what they left, a
restart anywhere, and a second hostname that should not be disturbed.

*Exposure.* Fewer ports than containers, so that a port changes hands, and one
more handler than it takes to deploy, stop, replace and start again what lost its
port. Two services are one that leaves the file and one that stays. Where
hostnames are shared (*shared*), a third resource that has its own stands beside
them. Labs meet at ports and hostnames only, both of which are there with one lab.

*Environments, labs, projects.* Three at work at once are two users and the
reconciler, or a creation, a deletion and a deployment; one more request finds
what they have left. Two faults let a compensation fail too. Names of
environments interfere only through a slug: two that share one are that case,
and names that share none are like one name twice. Labs use one name, again and
again: their ids differ, and what could confuse two labs is a name used twice.

*Resources.* Two overlapping deployments are the least that pass a check
together; the other two are what they replace or delete. One payload is
given half a MiB more than is recorded for it, labs have limits or none. The
scheduler needs as many deployments as make one lab lead. There are as many ports
as containers that want them, so that one is always contended; two tries of
five. Three containers and limits of 2 and 5 make a limit too low for three and a
division with a remainder.

*Hosts.* Two names and addresses give every way a payload meets rows: new, the
same, renamed, moved, and two rows at once; a third name has the path of the
first, so that one hostname's registration replaces another's key. Two ingress
targets and none are a wildcard name that is moved, or left as it was.

*Heartbeats.* Names of messages are used again, so two messages are one handled
and one delivered or queued behind it, any number of times; a prefetch of two
lets both be delivered when the connection breaks. Two faults are a host that
fails and a broker or restart.

*CliContext.* Provision, bootstrap twice, destroy, and one before any of them.
The own machine and another, with two names each, are every way to name a
machine; one address of another device is what a registration can be called by
wrongly, and one container that Docker keeps is a refused removal. Files of the
older format are all those with these machines, and stand for the provisioning
that wrote them.

### Fairness

`Reconciler`: the periodic thread loops forever (`_periodic_reconcile_forever`
catches every exception), the event loop resumes every coroutine, every call
ends because it has a timeout. Heartbeats may stop at any moment, users and
processes owe nothing, so `Converges` and `ExpiredGoes` do not rely on RabbitMQ.

`Projects`: weak fairness of the pass and of each request's steps, for the same
reason, and strong fairness of the visit of each lab: every pass goes through
all labs, so that each is visited again and again. In `recon_live` each of these
conditions is on the actions of the component the behaviour is about.

`Heartbeats`: weak fairness of the consumer's and the periodic thread's steps,
of the broker's delivery and of visits. Nothing is assumed of lab hosts, the
broker or connections, which may stay down. The periodic thread only *tries* the
lock, so a stream of heartbeats may keep it away: `Visited` is stated for
behaviours in which it gets the lock again and again.

### Disagreements found

Two are runs, whose properties TLC finds violated:

* **A finished single-use environment runs again** (`recon_completed`).
  Heartbeat entries carry no `exit_code` (`rabbitmq_publisher.py:43-52`), the
  completion test needs one (`service.py:203`), and the row still says STARTED.
  `db/models/shared.py:7`: "running until action is completed".
* **Labs survive their lab hosts** (`ctx_labs`): lab hosts are torn down before
  the control plane deletes the labs (`cli.py:1343-1405`). `cli.py:1405`:
  "Destroying labs via control-plane API (containers, networks, volumes)...".

The others are stated as formulas in the modules and no run is kept for them;
the second column says under which constants the code violates them.

| formula | module, constants | what the code does |
|---|---|---|
| `StoppedOnlyByStop` | `Reconciler`, no heartbeat, 1 request | *A start may record STOPPED.* The endpoint stores the status observed after the operation as the desired one (`controller.py:2274`). `db/models/shared.py:5`: "running until explicitly stopped" |
| `PersistentRuns` | `Reconciler`, fair, 1 request, 1 fault | *A paused container is never brought back.* The reconciler only ever starts it (`service.py:222-231`), which Docker refuses. `db/models/shared.py:5` |
| `RunsItsTime` | `Projects`, fair, `Life` ephemeral, 2 requests | *A project deployed again inherits the age of the first.* The update leaves `created_at_utc` (`controller.py:1852`, `service.py:337`). `db/models/shared.py:6`: "running for a predetermined time" |
| `StaysUp` | `Projects`, fair, 2 labs, 3 requests | *Labs of one host share projects of one name.* Rows are unique per lab (`db/models/project.py:34`), the directory and the compose project are not (`docker_interface.py:266`). `db/models/shared.py:5` |
| `Reachable`, for all of `up` and not only `Own` | `Exposure`, two projects whose services share a slug | *A hostname belongs to whoever wrote its route last.* Hostnames are compared within one request only (`controller.py:1737-1750`), so a second project of a lab with a service of the same name takes the route over. `README.md:56`: launched services are "lengvai pasiekiamos išoriškai" (easily reachable from outside) |
| `OnlyNamed` | `Exposure`, a project deployed twice | *A service that is no longer exposed stays reachable.* A redeployment replaces `exposed_services` and deletes no route (`controller.py:1847`). `cli.py:2477`: "service names to expose via ingress" |
| `Manageable`, if `Restart` leaves `sound` as it is | `Hosts`, `Durable = FALSE` | *A restart loses every API key* unless Vault is set up, which the deployment does not do (`cli/data/project/control_plane.deploy.yaml:253-263`); the rows stay. `README.md:56`: a registered host can be managed |
| `Manageable`, if `Put` leaves `sound` as it is | `Hosts`, `PathOf` not injective | *A refused registration replaces another host's key*: paths drop characters of names (`secret_store.py:91`) and the key is stored before the unique row (`controller.py:481`). `README.md:56` |
| `Known` | `CliContext`, `Faults` with `"bootstrap"` or `"provision"` | *A machine is forgotten while it runs*, after a bootstrap that failed late, or a provisioning repeated and failed, which takes the host out of every group (`cli.py:1025`). Forgetting without a teardown is what `--force` is for (`cli.py:1234`) |
| `Known`, if refused removals are not in `letGo` | `CliContext`, `Stuck` with `"lab"` or `"cp"` | *A machine is forgotten while it runs*, after a teardown in which Docker refused to remove a container: `failed_when: false` (`lab_host.teardown.yaml:13-21`, `control_plane.teardown.yaml:10-24`) makes it a success, and the device is forgotten (`cli.py:1455-1456`). `cli.py:1234`, as above |
| `OnlyTheAskedAfterSound`, with `Meant(d)` for `Asked(d)` | `CliContext`, `Aliases` with another machine's address | *Another machine is destroyed*: a lab host registered under another device's address, or with its name as `lab_host_id`, is called so from then on (`cli.py:233-238`, `state.py:144-149`), and destroying either tears down both (`cli.py:395-400`). `cli.py:1229`: "Device name in inventory or raw IP" |
| `OnlyTheAskedAfterSound` | `CliContext`, a name for two machines (`Given`), or, without its last disjunct, `Kinds` with `"cloud"` | *Other machines are destroyed*: a name given to another machine moves the old device's roles (`state.py:228`), and Terraform destroys all it made (`cli.py:1466`). `cli.py:1229`: "Device name in inventory or raw IP" |

### What the properties leave out

Some hazards are what the code does, every time the circumstances arise, so that
a property about them would only be violated, and nothing in the repository says
otherwise. The models take these steps; the history variable named here keeps
them out of the properties. `PROJECT.json` lists each hazard, with a note and
without a property where nothing of it is covered.

| circumstances | what the code then leaves | left out by |
|---|---|---|
| the lab host answers an error to a fetch (`service.py:117`) | a single-use container without its row | `CleanUnlessFault`: calls that failed; `LossJustified` asks for the row's kind only |
| a removal and a replacement of one name cross (`db/repos/container.py:38`, `controller.py:1485`) | a container without a row | `spoiled` |
| two deployments pass the capacity check (`controller.py:1250`) | a lab or host over its limit | `mixedLabs`, `mixedHosts` |
| a network cannot be removed (`controller.py:1413`) | the network, without its row | `spoiled` |
| the reconciler removes an environment (`service.py:150`) | its private network and that network's row | `reaped` |
| a lab's removals are refused (`controller.py:1007`) | containers and networks without rows | `Labs`' `spoiled` |
| a project is deployed while a pass looks at it (`service.py:326`) | a deployment that the pass then removes | `Projects`' `spoiled` |
| two route changes overlap, or one is cut off (`docker_interface.py:1003`, `1165`) | a table without one change, or without all but one | `overlap`, `known` |
| two requests seek host ports at once (`docker_interface.py:70`) | one port for two containers, which cannot both run | `met`, `raced` |
| a project's deployment is refused when its services are up (`controller.py:1806`) | routes to services whose row does not expose them, or none where there were some | `left`, `answered` |

## Proofs

`ReconcilerProofs` proves, for any sets of environments and requests and any
bounds, from `NoneAssumption` and `BoundsAssumption` (the bounds are natural
numbers):

* `TypesKept`, through `TypeCorrect`: `TypeOK` is not inductive by itself,
  since a step uses `docker[cur[t]]` and `docker[req[r].name]`; `TypeInv` adds
  that a thread knows its row and a request its container wherever they are
  used.
* `PassesExclude`: `OnePass`, inductive with `TypeInv`.
* `OnlyDisposableRowsLost`: `LossInv` adds that at every await of a removal the
  row at hand is disposable; `Decide` enters a removal only then
  (`DecideJustified`), and nothing un-expires a row or changes its lifetime.
* `RemovalIsClean`: `CleanInv` says, as long as no call has failed, that the
  container is gone from `rm_route` on and the route from `rm_row` on. It rests
  on `NothingComesBack` (no step recreates a container or a route, or forgets a
  fault) and `DeleteRemoves` (a delete that is not refused, or is forced,
  leaves no container).

`RoutesProofs` proves of `IngressRoutes`, for any threads, hostnames, upstreams and bounds,
from `NoRouteAssumption`, `UnknownAssumption` and `LimitsAssumption`:

* `RoutesTyped`: `TypeOK`, with `Overlaps` (either the one request under way
  has been alone, or all have not and nothing is known).
* `RepairsAlways` and `AnswersStand`, from one invariant `LoneInv` that follows
  an undisturbed request through both files: what the files hold at each of its
  steps, and that every hostname but its own keeps what is known of it.
* `SerialImplements`: if all threads are one and nothing restarts, every step
  maps to a change of one entry of `RouteTable` or to a stutter; truncating
  `routes.json` is the step at which the entry changes (`stored`). The run states
  the same of its *serial* behaviours (`SerialImplementsRouteTable`).

and of `Exposure`, an instance `X`, for any labs, environments, projects,
services, domains, ports, compose files and bounds, from `Assumed`, which are the module's
assumptions and nothing else. Hostnames may be shared: `Reachable` speaks of those
that are not (`Own`), beside others that are, `RoutesLeadHome` of all.

* `RoutesTied` and `ExposureTyped`: `RouteInv`, inductive, and `TypeOK` in it.
  `Reachable` says where an answered hostname leads while its container runs,
  which says nothing of one that is stopped and started again. `Leads` therefore
  says it of containers that are there, running or not, and of the port that the
  compose file would give the container at the next `up`; it is said of what has
  its hostname for itself. `Homely` is said of hostnames, not of resources: a
  route not left behind is of the host's present domain and leads to a container
  of the hostname, and if that is a service, it runs and is exposed by its
  project's row (so that a removal, which goes by the row, finds every route
  there is). `EnvsApart` says that environments have ports of their own whether
  they run or not, because a port is sought among all containers.
* `HostnamesReach` and `RoutesGoHome` (`Reachable`, `RoutesLeadHome`) follow from
  it. Every handler touches one resource, one project or one lab: `StepKeeps`
  leaves the others alone, once for all of them (`Untouched`, `OthersHomely`), and
  `PutIs` and `DroppedIs` say what setting and deleting routes does to a table
  that is read by hostname, of which the resource may share one with others.

`EnvironmentsProofs` proves, for any names, slugs, requests and bounds, from
`SlugAssumption`, `ReaperAssumption` and `LimitsAssumption`:

* `EnvironmentsTyped`: `TypeOK`, through `TypeInv`, in parts that steps disturb
  separately: the tables (`DataInv`), the counters and history (`SpentInv`), and
  each request's own state (`LocalInv`), with what a request holds at each await
  (`Held`). The step that matters is that a network taken from an old row is
  let go before the creation, so that the compensation removes only a network
  of its own.
* `RowsNameTheirOwn`: `OneRowPerContainer`. `FreshInv` adds that containers
  named in rows or held by requests are older than `next`, and that a container
  a request has created and not yet stored is named by no row and held by no
  other request.
* `AnswersStand`, `RowsOutlive` and `NothingStrays` (`AnswersHold`,
  `RowsOutliveContainers`, `NothingStray`), from one invariant `SInv`. It says who
  has which network and which row, whom each request works beside (`Peace`: those
  that may, a removal with another and anybody with other slugs; everything else is
  noted as a clash), what a deployment or deletion that met no foe may rely on
  (`Undisturbed`), what was answered (`Known`), how far a removal has come
  (`Bare`) and that the row it holds is the one in the table (`Alike`). On top,
  `Accounted` says for a slug that nobody spoiled that every container, network
  and route is accounted for by a row, or is in the hands of the one who is about
  to remove or to record it (`Contained`, `Registered`, `Sure`, `Needed`): with
  nobody at work only the rows remain, which is `NothingStray`.

`LabsProofs` proves, for any names, requests and bounds, from
`BoundAssumption`, with one lemma per action and invariant:

* `TypeCorrect`, `LabsStayComplete` and `RowsStay`, from one invariant `IInv`.
  `Creating` says that a creation works on a lab nobody was answered for, and
  that the networks it has made are there unless a deletion has begun;
  `Deleting` that a deletion past its first read has only what is in its list
  left to remove, unless something crossed; `Deploying` that deployments go
  into labs that were answered for. `Pair` relates two requests: creations work
  on different labs (so that no compensation takes another's networks), and a
  deployment that meets a deletion has spoiled the lab.
* `NothingStrays`: `NothingStray`, from a second invariant `SInv` beside it. While
  a lab is created, no container is in it, and every network of it is in the
  hands of its creation (`Alone`), so that taking the networks back leaves
  nothing. A deletion past its first read has on its list whatever of the lab is
  still there (`Emptying`), since what had no row was held by a request that
  crosses it; and its networks are empty when their turn comes, because a
  container is of the lab of its network (`Homes`, by `Apart` and `Pointed`). All
  of these hold unless the lab is spoiled.

`HeartbeatsProofs` proves, for any number of hosts, messages, prefetch and
faults, from `SizeAssumption`, `MessageAssumption`, `NoneAssumption` and
`BoundAssumption`:

* `TypeCorrect`, `HeartbeatsNotLost`, `HandledOnce` and `PassesExclude`.
  `Control` relates the threads, the lock and the hosts left; `Handling` says
  that the message at hand is the first of those delivered, or went back, and
  that what is queued, delivered and handled keeps apart.

`ResourcesProofs` proves, for any containers, requests and limits:

* `TypeCorrect`, and `AllHandedOut`: `HandsOutAll`. `Shares` says what a request
  has handed out after `idx` of `n` containers, `Handed`, in closed form: `idx`
  times the quotient, plus the smaller of `idx` and the remainder.
* `WholeShared`: `WholeIsShared`. `Alone` says what a request that met nobody has
  written so far: the quotas of the containers behind it are their parts, the
  others' are untouched. At the last container `PartsAddUp` turns that into the
  sum. Sums are folds of the community modules, defined by a recursive function
  over the subsets of a set; the lemmas of the first section get from it, by
  well-founded induction over finite sets (a least subset for which the claim
  fails), that a sum can be split at any element, and so its other laws.

and of `Ports`, an instance `P`, for any names, lists of ports, number of ports
and requests, from `NameAssumption`, `PortAssumption` and `BoundAssumption`:

* `PortsTyped`, `PortsStayApart` and `NobodyAloneFails` (`PortsApart`,
  `LoneSucceeds`), from one invariant `PortInv`. `PortsApart` speaks of containers
  that have run, which is not enough to go on: `Apart` says it of all
  containers, and with a weaker promise of the host's proxy, which publishes
  nothing that Docker lists and is in the hands of whoever starts it (`Owned`).
  `Away` keeps the ports a request has read and not yet taken apart from what
  others that met nobody have made; `Lone` says at every await what a request
  alone may rely on, and `Crossed` and `Marked` what is known of those that are
  not alone. That the ports `Placed` finds are free and differ (`PlacedIsFresh`)
  is a statement about a recursive function, shown by a least counterexample.

and of `Capacity`, an instance `C`, for any hosts, totals, asks, limits and
requests, from `AskAssumption`, `HostAssumption`, `LimitAssumption` and
`BoundAssumption`:

* `CapacityStaysKept`: `CapacityKept`, from `CapInv`. That a lab is within its
  limit now says nothing of the row that is written many awaits after the check.
  `LabPromise` and `HostPromise` therefore say of a deployment past its check
  that the *other* rows of the lab, and of the host, leave room for what it will
  write: deletions only make more, and whoever might take it is at work at the
  same lab or host, which `Pair` has noted in `mixedLabs` and `mixedHosts`.
  `HostRead` is the same for a sum taken lab by lab: the labs read so far have no
  more now than was added. `Knows` says that the row a session has read is the
  one in the table, so that subtracting it subtracts what is there (`MinusRow`);
  a deployment whose row was deleted meanwhile (`Sound`) has no promise, and
  writes nothing. The sums are those of the first section: `RowsSum` takes a row
  out, `SumLess` and `SumApart` compare and join sets of rows, and `MemNear` adds
  up the remainders of the memory limits, for `GrantsNearLimit`.
* `ScheduledIsAccepted`: `ScheduledFits`, and `LabsStayBalanced`: `Balanced`, from
  `SchInv` beside `CapInv`. `Reliable` says of a request since whose first read
  nothing was written that what it has noted of the labs is so, that the lab it
  has chosen and that lab's host had room for it by the scheduler's sums, and that
  its own sum of the host, taken lab by lab, is exact; `RoomStays` then takes the
  scheduler's check to the check of the deployment, which leaves out the row to be
  replaced. `Impartial` says that every lab it may choose from is noted, as long
  as none was full, and that the one it chose has the least load (`LeastOf`). A
  write therefore adds to a lab that was ahead of nobody, without the new row.
  Loads are compared by cross multiplication: `LeqTrans`, `LeqTotal` and
  `LoadGrows` show that this is an order, in which a load grows with the rows,
  also where a capacity is zero, not set, or the host unbounded. Both hold for
  several requests at once, and for hosts with different states.
* `OthersTyped`: `TheOthersTyped`, with `PortsTyped`.

`MachinesProofs` proves of `Hosts`, for any names, addresses, keys, requests and
bounds, from the module's assumptions:

* `TypeCorrect` and `WildcardsFollowHolds`, from `IInv`. Next to the types it
  says that requests at work are among those counted (`Counted`), that keys of
  rows are unique and older than `next` (`Fresh`), that a request past its reads
  holds what it found (`Found`), and that a request nothing has crossed is alone
  with what it is about, or has been noted as met (`AllSolo`). The first attempt
  failed: with four requests, a deletion that had read its row before a
  registration changed it was met by nobody. `Begin` notes that now (`Meets`).
* `ManageableHolds`, from `Managed` beside it, with Vault or without and for any
  `PathOf`. A request that met nobody brings the key its machine takes, and at
  `store` finds it under its path (`KeyKnown`). Hosts that had the path and are
  not the one the request has read are no longer sound by then (`Displaced`), so
  that whichever row the request writes, no sound row is left with a key that is
  not its own.

and of `CliContext`, an instance `C`, for any machines, names, kinds of
provisioning, failing commands and bounds, from `ContextAssumption` and, as a
hypothesis, `OneMachine`: users give a name to one machine. The code takes a name
for whatever it was last given to; for a name of two machines
`OnlyTheAskedAfterSound` is false, and among the disagreements above. Nothing is
assumed of `register_ip` and `lab_host_id`, nor of what Docker removes.

* `ContextIsTyped`, `OneDeviceAMachine`, `TornDownWhereDeployed`,
  `NoMachineForgotten` and `NoOtherDestroyed` (`ContextTyped`, `DevicesApart`,
  `TornDownAfterSound`, `KnownAfterSound`, `OnlyTheAskedAfterSound`), from one
  invariant `CtxInv`. Whatever fails, every identifier of a device but those of a
  registration belongs to the machine of its address (`Fits`), as does every host
  of the inventory (`InvFits`), and devices are of different machines (`Apart`). `DevicesApart`
  alone is not inductive: a device is found by any of its identifiers
  (`_find_device_key`, `_expand_host_identifiers`), so that one that belonged to
  another machine would join two at the next command. As long as the history is
  clean, what devices run is listed in the inventory (`AllListed`) and what runs
  on a machine is with its device or let go (`Kept`).
* The commands go through sequences: groups, devices, playbooks. Each loop is a
  fold, by whose definition its results exist for every set of steps
  (`FoldExists`) and a claim that holds at first and is kept by every step holds
  in the end (`Along`). With it: identifiers that belong to machines which
  registrations keep together (`Together`) expand to such only (`ExpandIs`, from
  `TiedIs` and `TogetherIs`), so that a destruction stays within `Asked`
  (`AskedIs`); pruning the inventory before the devices expands to no more
  (`ExpandNarrow`), so that what was torn down and what is forgotten agree
  (`ForgottenKept`); a teardown touches the machines of its devices only, and what
  is found there is gone unless its removal was refused (`TornAllAre`). A failing
  teardown is a prefix of one (`TeardownFails`).

`ProjectsProofs` proves, for any labs, lifetimes, requests and bounds:

* `TypeCorrect`, `NothingStrayHolds` and `AnswersHoldHolds`, from one invariant
  in two halves, `Actors` (where a request stands, what it holds, and whom it has
  met) and `Labs` (what the row, the directory and the containers are while a
  deployment, a removal or nobody is at work). Every step lets one actor begin
  (`Enter`) or go on (`Walk`), and keeps each half for a reason of its own: a
  deployment that nothing spoiled is alone with its project, and a removal that
  nothing spoiled meets no deployment and no start. Labs of one host share
  directory and compose project, so what is said of these is said where one lab
  uses the name (`Lab = {l}`); what is said of rows holds for any labs.

Every invariant and every action property of a passing run is stated by a theorem
(that of `RouteTable`'s *serial* behaviours by `SerialImplements`). Model-checked
only are the liveness properties, which need fairness and
are out of the prover's reach.

## Plan

Every component named above has its modules. What is worth doing next:

`Ports` with several containers per project; `Exposure` with the steps of
crossing handlers.

## Not modelled

* **Lab host summaries** (`lab_host/mappings.py`), request schemas
  (`control_plane/models.py`), session setup: formatting and declarations,
  without state that a property could be about.
* **Lab host volumes, inspection, exec, logs**: thin calls of the Docker SDK.
  `delete_lab`'s pruning of volumes is a step without effect in `Labs`.
* **Ingress providers** of `networking/providers.py`: nothing calls them.
* **infra status and the control-plane commands of the CLI**: one HTTP call each,
  modelled where it is answered.
* **Playbooks and Terraform files**: only by what they start, keep and remove on
  a machine.
* **Schema migrations**: generated scripts, run at deployment.
