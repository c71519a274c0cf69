------------------------------- MODULE Ports -------------------------------
(***************************************************************************)
(* Host ports of the containers of a lab host (docker_interface.py).       *)
(*                                                                         *)
(* A container is created with ports moved away from those of every other  *)
(* container; a compose project is started first, and its ports are moved  *)
(* only when Docker says that one is allocated; the proxy of the host's    *)
(* network moves its two ports, and publishes none that Docker lists.      *)
(* Finding a port free and taking it are two steps. Requests are threads   *)
(* of the lab host; a step is one call of Docker, or reading all           *)
(* containers.                                                             *)
(*                                                                         *)
(* One container per compose project. All ports are of one protocol.       *)
(***************************************************************************)
EXTENDS Naturals, Sequences, FiniteSets, Functions

CONSTANTS
    Name,       \* names of containers
    Project,    \* the container of a compose project
    Proxy,      \* the ingress proxy
    Request,    \* threads that serve a request
    MaxPort,    \* the last port, 65535
    Wanted,     \* lists of host ports in use
    Tries,      \* attempts to create a container, 5
    MaxJobs     \* bound on requests

NameAssumption == /\ Project \notin Name /\ Proxy \notin Name /\ Project # Proxy
PortAssumption == MaxPort \in Nat \ {0} /\ Wanted \subseteq Seq(1..MaxPort)
BoundAssumption == Tries \in Nat \ {0} /\ MaxJobs \in Nat

VARIABLES
    box,        \* containers, running or not
    file,       \* the ports of the compose file
    pc, job,
    got,        \* the ports a request goes for
    tries,
    jobs,
    \* history
    met,        \* requests that overlap or have overlapped another
    raced,      \* containers of such requests
    ran,        \* containers that have been started
    lost        \* requests that failed for a port that another has

history == <<met, raced, ran, lost>>
vars == <<box, file, pc, job, got, tries, jobs, history>>

Port == 1..MaxPort
Box  == Name \cup {Project, Proxy}
NoBox == [ports |-> {}, listed |-> FALSE, up |-> FALSE, here |-> FALSE]
NoJob == [op |-> "none"]

BoxType == [ports : SUBSET Port, listed : BOOLEAN, up : BOOLEAN, here : BOOLEAN]
Create == [op : {"create"}, name : Name, want : Wanted]
Deploy == [op : {"deploy"}, name : {Project}, want : Wanted]
Ensure == [op : {"host", "bridge"}, name : {Proxy}, want : {w \in Wanted : Len(w) = 2}]

Busy == {r \in Request : pc[r] # "idle"}

TypeOK ==
    /\ box \in [Box -> BoxType]
    /\ \A b \in Box : ~box[b].here => box[b] = NoBox
    /\ file \in Seq(Port)
    /\ pc \in [Request -> {"idle", "read", "create", "start", "up", "remap", "remove"}]
    /\ job \in [Request -> Create \cup Deploy \cup Ensure \cup {NoJob}]
    /\ got \in [Request -> Seq(Port)]
    /\ tries \in [Request -> 0..Tries]
    /\ jobs \in 0..MaxJobs
    /\ met \subseteq Request /\ raced \subseteq Box /\ ran \subseteq Box
    /\ lost \subseteq Request
    /\ \A r \in Request : pc[r] = "idle" <=> job[r] = NoJob
    /\ \A b \in ran \cup raced : box[b].here \/ \E r \in Busy : job[r].name = b

Init ==
    /\ box = [b \in Box |-> NoBox] /\ file = <<>>
    /\ pc = [r \in Request |-> "idle"] /\ job = [r \in Request |-> NoJob]
    /\ got = [r \in Request |-> <<>>] /\ tries = [r \in Request |-> 0]
    /\ jobs = 0
    /\ met = {} /\ raced = {} /\ ran = {} /\ lost = {}

-----------------------------------------------------------------------------
(* _used_host_ports, _next_available_host_port.                            *)

\* mutation: containers that have ended do not count
Used_Unended == UNION {box[b].ports : b \in {c \in Box : box[c].listed /\ (box[c].up \/ c \notin ran)}}

\* running or not; the proxy of the host's network has no bindings
Used == UNION {box[b].ports : b \in {c \in Box : box[c].listed}}

\* mutation: one port more than there are
Free_OneMore(p, used) == {q \in p..(MaxPort + 1) : q \notin used}

Free(p, used) == {q \in p..MaxPort : q \notin used}

\* mutation: the next port, taken or not
Place_Next(p, used) == IF p \in used /\ p < MaxPort THEN p + 1 ELSE p

Place(p, used) == CHOOSE q \in Free(p, used) : \A o \in Free(p, used) : q <= o

\* the ports of a list, one after the other; no value if there are not enough
Placed(want, used) ==
    LET step[i \in 0..Len(want)] ==
            IF i = 0 THEN <<>>
            ELSE LET before == step[i - 1]
                     taken  == used \cup Range(before)
                 IN  IF Len(before) < i - 1 \/ Free(want[i], taken) = {} THEN before
                     ELSE Append(before, Place(want[i], taken))
    IN  step[Len(want)]

Fits(want, used) == Len(Placed(want, used)) = Len(want)

-----------------------------------------------------------------------------
(* Docker.                                                                 *)

\* containers that have one of a container's ports
Holders(b, ports) == {c \in Box \ {b} : box[c].up /\ box[c].ports \cap ports # {}}

\* "port is already allocated", and not that an address is in use
Allocated(b, ports) == \E c \in Holders(b, ports) : box[c].listed

Made(ports, listed, up) == [ports |-> ports, listed |-> listed, up |-> up, here |-> TRUE]

-----------------------------------------------------------------------------
(* Requests.                                                               *)

Begin(r, j, label) ==
    /\ pc[r] = "idle" /\ jobs < MaxJobs
    /\ jobs' = jobs + 1
    /\ pc' = [pc EXCEPT ![r] = label]
    /\ job' = [job EXCEPT ![r] = j]
    /\ got' = [got EXCEPT ![r] = j.want]
    /\ met' = IF Busy = {} THEN met \ {r} ELSE met \cup Busy \cup {r}
    /\ raced' = IF Busy = {} THEN raced
                ELSE raced \cup {b \in {j.name} \cup {job[a].name : a \in Busy} : box[b].here}
    /\ lost' = lost \ {r}

Goto(r, label) == pc' = [pc EXCEPT ![r] = label] /\ UNCHANGED job

Leave(r) ==
    /\ pc' = [pc EXCEPT ![r] = "idle"]
    /\ job' = [job EXCEPT ![r] = NoJob]
    /\ got' = [got EXCEPT ![r] = <<>>]
    /\ tries' = [tries EXCEPT ![r] = 0]

Lose(r) == Leave(r) /\ lost' = lost \cup {r}

\* a container made by a request
Put(r, b, new) ==
    /\ box' = [box EXCEPT ![b] = new]
    /\ raced' = IF r \in met THEN raced \cup {b} ELSE raced \ {b}

BeginCreate(r) ==
    /\ \E j \in Create : Begin(r, j, "read")
    /\ UNCHANGED <<box, file, tries, ran>>

BeginDeploy(r) ==
    /\ \E j \in Deploy : Begin(r, j, "up") /\ file' = j.want
    /\ UNCHANGED <<box, tries, ran>>

BeginEnsure(r) ==
    /\ \E j \in Ensure : Begin(r, j, "remove")
    /\ UNCHANGED <<box, file, tries, ran>>

\* _remap_requested_ports_if_needed; ensure_ingress_proxy
Read(r) ==
    /\ pc[r] = "read"
    /\ IF Fits(got[r], Used)
       THEN /\ got' = [got EXCEPT ![r] = Placed(got[r], Used)]
            /\ Goto(r, "create") /\ UNCHANGED tries
       ELSE Leave(r)
    /\ UNCHANGED <<box, file, jobs, history>>

\* the name may be taken: by the container of the last attempt, if not before
CreateBox(r) ==
    LET b == job[r].name
    IN  /\ pc[r] = "create"
        /\ IF box[b].here
           THEN /\ IF tries[r] > 0 THEN Lose(r) ELSE Leave(r) /\ UNCHANGED lost
                /\ UNCHANGED <<box, raced, ran>>
           ELSE /\ Put(r, b, Made(Range(got[r]), job[r].op # "host", FALSE))
                /\ ran' = ran \ {b}
                /\ Goto(r, "start") /\ UNCHANGED <<got, tries, lost>>
        /\ UNCHANGED <<file, jobs, met>>

\* it is left behind when it cannot be started; the proxy of the host's network
\* starts in any case
StartBox(r) ==
    LET b == job[r].name
        clash == job[r].op # "host" /\ Holders(b, box[b].ports) # {}
        again == job[r].op = "create" /\ Allocated(b, box[b].ports) /\ tries[r] + 1 < Tries
    IN  /\ pc[r] = "start" /\ box[b].here
        /\ IF ~clash
           THEN /\ box' = [box EXCEPT ![b].up = TRUE] /\ ran' = ran \cup {b}
                /\ Leave(r) /\ UNCHANGED lost
           ELSE /\ UNCHANGED <<box, ran>>
                /\ IF again
                   THEN /\ tries' = [tries EXCEPT ![r] = @ + 1]
                        /\ Goto(r, "read") /\ UNCHANGED <<got, lost>>
                   ELSE IF job[r].op = "create" /\ Allocated(b, box[b].ports) THEN Lose(r)
                   ELSE Leave(r) /\ UNCHANGED lost
        /\ UNCHANGED <<file, jobs, met, raced>>

\* removed by another request
StartFails(r) ==
    /\ pc[r] = "start" /\ ~box[job[r].name].here
    /\ Leave(r)
    /\ UNCHANGED <<box, file, jobs, history>>

\* what is removed before its successor has its ports
RemoveProxy(r) ==
    /\ pc[r] = "remove"
    /\ box' = [box EXCEPT ![Proxy] = NoBox]
    /\ raced' = raced \ {Proxy} /\ ran' = ran \ {Proxy}
    /\ Goto(r, IF job[r].op = "host" THEN "read" ELSE "create")
    /\ UNCHANGED <<file, got, tries, jobs, met, lost>>

-----------------------------------------------------------------------------
(* Compose.                                                                *)

\* the container of the file's ports, made anew if they have changed; left as
\* created if it cannot be started
Compose(bad) ==
    /\ box' = [box EXCEPT ![Project] = Made(Range(file), TRUE, ~bad)]
    /\ ran' = IF bad THEN ran \ {Project} ELSE ran \cup {Project}

Twice == Cardinality(Range(file)) < Len(file)
Clash == Twice \/ Holders(Project, Range(file)) # {}
Moves == Twice \/ Allocated(Project, Range(file))

\* deploy_compose_package: docker compose up, once more after a remap
Up(r) ==
    /\ pc[r] = "up"
    /\ Compose(Clash)
    /\ raced' = IF r \in met THEN raced \cup {Project} ELSE raced \ {Project}
    /\ IF Moves /\ tries[r] = 0 THEN Goto(r, "remap") /\ UNCHANGED <<got, tries, lost>>
       ELSE IF Moves THEN Lose(r)
       ELSE Leave(r) /\ UNCHANGED lost
    /\ UNCHANGED <<file, jobs, met>>

\* _remap_compose_ports_if_needed: its own containers count as well
Remap(r) ==
    /\ pc[r] = "remap"
    /\ IF ~Fits(file, Used) THEN Leave(r) /\ UNCHANGED <<file, lost>>
       ELSE /\ file' = Placed(file, Used)
            /\ IF file' = file THEN Lose(r)
               ELSE /\ tries' = [tries EXCEPT ![r] = 1]
                    /\ Goto(r, "up") /\ UNCHANGED <<got, lost>>
    /\ UNCHANGED <<box, jobs, met, raced, ran>>

\* compose_up looks at no ports; who is under way meets it
UpAgain ==
    /\ file # <<>>
    /\ Compose(Clash)
    /\ met' = met \cup Busy
    /\ raced' = raced \cup {Project}
                      \cup {b \in {job[a].name : a \in Busy} : box[b].here}
    /\ UNCHANGED <<file, pc, job, got, tries, jobs, lost>>

Down ==
    /\ box[Project].here
    /\ box' = [box EXCEPT ![Project] = NoBox]
    /\ raced' = raced \ {Project} /\ ran' = ran \ {Project}
    /\ met' = met \cup {r \in Busy : job[r].op = "deploy"}
    /\ UNCHANGED <<file, pc, job, got, tries, jobs, lost>>

-----------------------------------------------------------------------------
(* set_container_state, destroy_container.                                 *)

Stop(b) ==
    /\ box[b].up
    /\ box' = [box EXCEPT ![b].up = FALSE]
    /\ UNCHANGED <<file, pc, job, got, tries, jobs, history>>

Start(b) ==
    /\ box[b].here /\ ~box[b].up /\ Holders(b, box[b].ports) = {}
    /\ box' = [box EXCEPT ![b].up = TRUE]
    /\ ran' = ran \cup {b}
    /\ UNCHANGED <<file, pc, job, got, tries, jobs, met, raced, lost>>

Destroy(b) ==
    /\ box[b].here
    /\ box' = [box EXCEPT ![b] = NoBox]
    /\ raced' = raced \ {b} /\ ran' = ran \ {b}
    /\ UNCHANGED <<file, pc, job, got, tries, jobs, met, lost>>

Serve(r) ==
    \/ Read(r) \/ CreateBox(r) \/ StartBox(r) \/ StartFails(r) \/ RemoveProxy(r)
    \/ Up(r) \/ Remap(r)

Next ==
    \/ \E r \in Request : BeginCreate(r) \/ BeginDeploy(r) \/ BeginEnsure(r) \/ Serve(r)
    \/ \E b \in Name : Stop(b) \/ Start(b) \/ Destroy(b)
    \/ UpAgain \/ Down

Spec == Init /\ [][Next]_vars

-----------------------------------------------------------------------------
(* Properties.                                                             *)

(* Two containers that have both run have no port in common, unless the    *)
(* requests that made both met others: a container that is stopped can be  *)
(* started again, its ports were given to nobody (docker_interface.py:70). *)
(* The proxy of the host's network keeps away from them too (1104). What   *)
(* compose starts keeps away from running containers only.                 *)
PortsApart ==
    \A b, c \in ran \ {Project} :
        \/ b = c \/ {b, c} \subseteq raced
        \/ \E d \in {b, c} : d = Proxy /\ box[d].listed
        \/ box[b].ports \cap box[c].ports = {}

(* A request that met no other never fails because Docker has given its    *)
(* port to another container: neither a container's creation nor the       *)
(* second attempt at a project (docker_interface.py:104, 172, 690).        *)
LoneSucceeds == lost \subseteq met
=============================================================================
