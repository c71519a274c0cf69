------------------------------ MODULE Projects ------------------------------
(***************************************************************************)
(* Compose projects: deployed, removed, brought up and down by users       *)
(* (control_plane/controller.py) and by the reconciler                     *)
(* (reconciliation/service.py), carried out by the lab host                *)
(* (lab_host/docker_interface.py) in a directory of the project's name.    *)
(* A row belongs to a lab, but the directory and the containers are known  *)
(* to the lab host by the project's name alone: here one name, which       *)
(* several labs of one host may use.                                       *)
(*                                                                         *)
(* A step is the code between two awaits; a deployment and a removal are   *)
(* two steps at the lab host (directory and containers). It goes on if its *)
(* caller has given up. The containers of a project are taken together:    *)
(* none, running, or all ended with exit code 0; so are the services it    *)
(* exposes and their routes.                                               *)
(***************************************************************************)
EXTENDS Naturals

CONSTANTS
    Lab,        \* labs of one host that use the project's name
    Life,       \* lifetimes in use
    Request,    \* users' requests
    Reconciler, \* the reconciler's pass
    MaxJobs,    \* bound on requests
    MaxFaults   \* bound on calls that fail and on containers that end

ASSUME LifeAssumption == Life \subseteq {"persistent", "ephemeral", "single_use", "session"}
ASSUME ActorAssumption == Reconciler \notin Request
ASSUME BoundAssumption == MaxJobs \in Nat /\ MaxFaults \in Nat

VARIABLES
    rows,       \* projects
    dir,        \* the directory: "none", "bare" (no compose file), "ready"
    up,         \* the containers
    routed,     \* labs with a route to an exposed service
    pc, job,
    row,        \* the row as the actor has read it
    gone,       \* actors whose caller no longer waits
    next, jobs, faults,
    \* history
    due,        \* rows whose last deployment has had its time
    spoiled,    \* labs whose actors clashed, or one of whose calls failed
    answer      \* the last answer of an actor that met no other: what holds

labhost == <<dir, up, routed>>
history == <<due, spoiled, answer>>
vars == <<rows, labhost, pc, job, row, gone, next, jobs, faults, history>>

Actor == Request \cup {Reconciler}
NoRow == [pk |-> 0]
NoJob == [op |-> "none"]

RowType == [pk : 1..next, lab : Lab, state : {"RUNNING", "STOPPED"}, life : Life,
            exposed : BOOLEAN, expired : BOOLEAN]
Deployment == [op : {"deploy"}, lab : Lab, life : Life, exposed : BOOLEAN]
Other      == [op : {"delete", "up", "down", "look", "reap"}, lab : Lab]
Label == {"idle", "source", "start", "routes", "store", "down", "rmtree", "row", "unroute",
          "call", "write", "ps", "ends"}

RowsOf(l) == {w \in rows : w.lab = l}
Find(pk)  == {w \in rows : w.pk = pk}
Busy == {a \in Actor : pc[a] # "idle"}

TypeOK ==
    /\ rows \subseteq RowType
    /\ \A v, w \in rows : v.lab = w.lab => v = w
    /\ dir \in {"none", "bare", "ready"}
    /\ up \in {"none", "running", "ended"}
    /\ routed \subseteq Lab
    /\ pc \in [Actor -> Label]
    /\ job \in [Actor -> Deployment \cup Other \cup {NoJob}]
    /\ row \in [Actor -> RowType \cup {NoRow}]
    /\ gone \subseteq Busy
    /\ next \in Nat \ {0} /\ jobs \in 0..MaxJobs /\ faults \in 0..MaxFaults
    /\ due \subseteq 1..next
    /\ spoiled \subseteq Lab
    /\ answer \in [Lab -> {"unknown", "deployed", "removed"}]
    /\ \A a \in Busy : job[a].op # "deploy" => row[a] # NoRow

Init ==
    /\ rows = {} /\ dir = "none" /\ up = "none" /\ routed = {}
    /\ pc = [a \in Actor |-> "idle"]
    /\ job = [a \in Actor |-> NoJob]
    /\ row = [a \in Actor |-> NoRow]
    /\ gone = {}
    /\ next = 1 /\ jobs = 0 /\ faults = 0
    /\ due = {} /\ spoiled = {} /\ answer = [l \in Lab |-> "unknown"]

-----------------------------------------------------------------------------
(* Requests and their calls.                                               *)

Goto(a, label) == pc' = [pc EXCEPT ![a] = label]

Leave(a) ==
    /\ Goto(a, "idle")
    /\ job' = [job EXCEPT ![a] = NoJob]
    /\ row' = [row EXCEPT ![a] = NoRow]
    /\ gone' = gone \ {a}

\* removals go well together; a deployment goes well with nothing, not even with
\* a look that may end in a removal, an up with no removal
Clashes(op, other) ==
    \/ "deploy" \in {op, other}
    \/ {op, other} \cap {"delete", "reap"} # {} /\ {op, other} \cap {"up"} # {}

Clash(a, op, l) ==
    LET foes == {b \in Busy \ {a} : Clashes(op, job[b].op)}
    IN  IF foes = {} THEN {} ELSE {l} \cup {job[b].lab : b \in foes}

Meet(a, op, l) ==
    /\ spoiled' = spoiled \cup Clash(a, op, l)
    /\ answer' = [k \in Lab |-> IF k \in {l} \cup Clash(a, op, l) THEN "unknown" ELSE answer[k]]

Begin(r, j, w, label) ==
    /\ pc[r] = "idle" /\ jobs < MaxJobs
    /\ jobs' = jobs + 1
    /\ job' = [job EXCEPT ![r] = j]
    /\ row' = [row EXCEPT ![r] = w]
    /\ Goto(r, label)
    /\ Meet(r, j.op, j.lab)

Fault == faults < MaxFaults /\ faults' = faults + 1

Spoil(a) == /\ spoiled' = spoiled \cup {job[a].lab}
            /\ answer' = [answer EXCEPT ![job[a].lab] = "unknown"]

\* where an actor is after its call, and where if nobody waits for it
After(a, label) == IF a \in gone THEN Leave(a) ELSE Goto(a, label) /\ UNCHANGED <<job, row, gone>>

\* a call is refused or cannot be made: its actor ends, having changed nothing
Refused(a) ==
    /\ pc[a] \in {"source", "start", "down", "call"}
    /\ Fault /\ Spoil(a) /\ Leave(a)
    /\ UNCHANGED <<rows, labhost, next, jobs, due>>

\* the caller gives up, the lab host goes on
GiveUp(a) ==
    /\ pc[a] \in {"source", "start", "down", "rmtree", "call"}
    /\ a \notin gone
    /\ Fault /\ Spoil(a)
    /\ gone' = gone \cup {a}
    /\ UNCHANGED <<rows, labhost, pc, job, row, next, jobs, due>>

\* an answer that holds until somebody begins something that may change it
Answer(a, what) ==
    answer' = IF job[a].lab \in spoiled THEN answer ELSE [answer EXCEPT ![job[a].lab] = what]

-----------------------------------------------------------------------------
(* deploy_lab_project; deploy_compose_package.                             *)

BeginDeploy(r) ==
    /\ \E j \in Deployment :
        \/ RowsOf(j.lab) = {} /\ Begin(r, j, NoRow, "source")
        \/ \E w \in RowsOf(j.lab) : Begin(r, j, w, "source")
    /\ UNCHANGED <<rows, labhost, gone, next, faults, due>>

\* _ensure_compose_source: the old directory goes first
Source(r) ==
    /\ pc[r] = "source"
    /\ \/ dir' = "ready" /\ After(r, "start") /\ UNCHANGED <<faults, spoiled, answer>>
       \/ dir' = "bare" /\ Fault /\ Spoil(r) /\ Leave(r)
    /\ UNCHANGED <<rows, up, routed, next, jobs, due>>

\* docker compose up, then the limits, which may be refused when all is up
Start(r) ==
    /\ pc[r] = "start"
    /\ dir = "ready"
    /\ up' = "running"
    /\ \/ After(r, "routes") /\ UNCHANGED <<faults, spoiled, answer>>
       \/ Fault /\ Spoil(r) /\ Leave(r)
    /\ UNCHANGED <<rows, dir, routed, next, jobs, due>>

\* the directory has been removed or emptied meanwhile
StartFails(r) ==
    /\ pc[r] = "start" /\ dir # "ready"
    /\ Leave(r)
    /\ UNCHANGED <<rows, labhost, next, jobs, faults, history>>

\* mutation: a redeployment sets no routes
Routes_FirstOnly(r) ==
    /\ pc[r] = "routes"
    /\ routed' = IF job[r].exposed /\ row[r] = NoRow THEN routed \cup {job[r].lab} ELSE routed
    /\ Goto(r, "store")
    /\ UNCHANGED <<rows, dir, up, job, row, gone, next, jobs, faults, history>>

\* networks, services and hostnames are checked, then routes set
Routes(r) ==
    /\ pc[r] = "routes"
    /\ routed' = IF job[r].exposed THEN routed \cup {job[r].lab} ELSE routed
    /\ Goto(r, "store")
    /\ UNCHANGED <<rows, dir, up, job, row, gone, next, jobs, faults, history>>

\* a check or a call fails: the routes set are taken back, which may fail too
RoutesFail(r) ==
    /\ pc[r] = "routes"
    /\ routed' \in {routed, routed \ {job[r].lab}}
                   \cup {routed \cup {l} : l \in {k \in {job[r].lab} : job[r].exposed}}
    /\ Fault /\ Spoil(r) /\ Leave(r)
    /\ UNCHANGED <<rows, dir, up, next, jobs, due>>

\* mutation: a redeployment inserts a row of its own
Store_Inserts(r) ==
    /\ pc[r] = "store"
    /\ rows' = rows \cup {[pk |-> next, lab |-> job[r].lab, state |-> "RUNNING", life |-> job[r].life,
                           exposed |-> job[r].exposed, expired |-> FALSE]}
    /\ next' = next + 1
    /\ Answer(r, "deployed") /\ Leave(r)
    /\ UNCHANGED <<labhost, jobs, faults, due, spoiled>>

\* a new row, or all of an old one but its time of creation
Store(r) ==
    LET j == job[r]
        new == [pk |-> IF row[r] = NoRow THEN next ELSE row[r].pk, lab |-> j.lab,
                state |-> "RUNNING", life |-> j.life, exposed |-> j.exposed,
                expired |-> FALSE]
    IN  /\ pc[r] = "store"
        /\ IF row[r] = NoRow
           THEN /\ RowsOf(j.lab) = {}
                /\ rows' = rows \cup {new} /\ next' = next + 1 /\ due' = due
           ELSE /\ Find(row[r].pk) # {}
                /\ rows' = (rows \ Find(row[r].pk)) \cup {[new EXCEPT !.expired = w.expired] : w \in Find(row[r].pk)}
                /\ next' = next /\ due' = due \ {row[r].pk}
        \* routes of services that are no longer exposed stay
        /\ IF row[r] # NoRow /\ row[r].exposed /\ ~j.exposed
           THEN Spoil(r)
           ELSE Answer(r, "deployed") /\ UNCHANGED spoiled
        /\ Leave(r)
        /\ UNCHANGED <<labhost, jobs, faults>>

\* the name is taken by now, or the row has been deleted
StoreRaises(r) ==
    /\ pc[r] = "store"
    /\ IF row[r] = NoRow THEN RowsOf(job[r].lab) # {} ELSE Find(row[r].pk) = {}
    /\ Leave(r)
    /\ UNCHANGED <<rows, labhost, next, jobs, faults, history>>

-----------------------------------------------------------------------------
(* delete_lab_project(s), the reconciler's removal; destroy_compose_project. *)

BeginDelete(r) ==
    /\ \E w \in rows : Begin(r, [op |-> "delete", lab |-> w.lab], w, "down")
    /\ UNCHANGED <<rows, labhost, gone, next, faults, due>>

Removed(a) == IF job[a].op = "reap" /\ row[a].exposed THEN "unroute" ELSE "row"

\* without a directory the answer is 404
Down(a) ==
    /\ pc[a] = "down"
    /\ IF dir = "none" THEN up' = up /\ After(a, Removed(a))
                       ELSE up' = "none" /\ After(a, "rmtree")
    /\ UNCHANGED <<rows, dir, routed, next, jobs, faults, history>>

Rmtree(a) ==
    /\ pc[a] = "rmtree"
    /\ dir' = "none"
    /\ After(a, Removed(a))
    /\ UNCHANGED <<rows, up, routed, next, jobs, faults, history>>

\* mutation: a user's removal leaves the route
DeleteRow_KeepsRoute(a) ==
    /\ pc[a] = "row"
    /\ rows' = rows \ Find(row[a].pk)
    /\ Leave(a) /\ Answer(a, "removed")
    /\ UNCHANGED <<labhost, next, jobs, faults, due, spoiled>>

\* mutation: the reconciler's removal leaves the row
DeleteRow_UserOnly(a) ==
    /\ pc[a] = "row"
    /\ rows' = IF job[a].op = "delete" THEN rows \ Find(row[a].pk) ELSE rows
    /\ Leave(a) /\ Answer(a, "removed")
    /\ UNCHANGED <<labhost, next, jobs, faults, due, spoiled>>

\* a user's removal deletes the row and then the route, the reconciler's the
\* other way round; the row as it was read says whether there are routes
DeleteRow(a) ==
    /\ pc[a] = "row"
    /\ rows' = rows \ Find(row[a].pk)
    /\ IF job[a].op = "delete" /\ row[a].exposed
       THEN Goto(a, "unroute") /\ UNCHANGED <<job, row, gone, answer>>
       ELSE Leave(a) /\ Answer(a, "removed")
    /\ UNCHANGED <<labhost, next, jobs, faults, due, spoiled>>

\* an error answered is ignored by the reconciler, and ends a user's request;
\* an error raised ends both
Unroute(a) ==
    /\ pc[a] = "unroute"
    /\ \/ /\ routed' = routed \ {job[a].lab}
          /\ IF job[a].op = "reap" THEN Goto(a, "row") /\ UNCHANGED <<job, row, gone, answer>>
                                   ELSE Leave(a) /\ Answer(a, "removed")
          /\ UNCHANGED <<faults, spoiled>>
       \/ /\ routed' \in {routed, routed \ {job[a].lab}}
          /\ Fault /\ Spoil(a)
          /\ \/ Leave(a)
             \/ job[a].op = "reap" /\ Goto(a, "row") /\ UNCHANGED <<job, row, gone>>
    /\ UNCHANGED <<rows, dir, up, next, jobs, due>>

-----------------------------------------------------------------------------
(* set_lab_projects_state; compose_up, compose_down.                       *)

BeginState(r) ==
    /\ \E w \in rows, op \in {"up", "down"} : Begin(r, [op |-> op, lab |-> w.lab], w, "call")
    /\ UNCHANGED <<rows, labhost, gone, next, faults, due>>

\* compose brings up what ready says, and takes down what has a directory;
\* an error is noted (a user's request) or ignored (the reconciler's)
Call(a) ==
    /\ pc[a] = "call"
    /\ \/ /\ job[a].op = "up" /\ dir = "ready"
          /\ up' = "running" /\ After(a, IF a = Reconciler THEN "ends" ELSE "write")
       \/ /\ job[a].op = "down" /\ dir # "none"
          /\ up' = "none" /\ After(a, IF a = Reconciler THEN "ends" ELSE "write")
       \/ /\ IF job[a].op = "up" THEN dir # "ready" ELSE dir = "none"
          /\ up' = up /\ Leave(a)
    /\ UNCHANGED <<rows, dir, routed, next, jobs, faults, history>>

\* a state the row had when it was read is not written again
Restated(r, state, w) ==
    IF w.pk = row[r].pk /\ row[r].state # state THEN [w EXCEPT !.state = state] ELSE w

\* the row is updated if it is still there, else the request fails
Write(r) ==
    /\ pc[r] = "write"
    /\ rows' = {Restated(r, IF job[r].op = "up" THEN "RUNNING" ELSE "STOPPED", w) : w \in rows}
    /\ Leave(r)
    /\ UNCHANGED <<labhost, next, jobs, faults, history>>

-----------------------------------------------------------------------------
(* _reconcile_project.                                                     *)

\* the row is read, then the lab host asked; the step is the answer
Visit(l) ==
    /\ pc[Reconciler] = "idle"
    /\ \E w \in RowsOf(l) :
        /\ row' = [row EXCEPT ![Reconciler] = w]
        /\ job' = [job EXCEPT ![Reconciler] = [op |-> "look", lab |-> w.lab]]
        /\ spoiled' = spoiled \cup Clash(Reconciler, "look", w.lab)
    /\ Goto(Reconciler, "ps")
    /\ UNCHANGED <<rows, labhost, gone, next, jobs, faults, due, answer>>

Becomes(op, label) ==
    /\ job' = [job EXCEPT ![Reconciler].op = op]
    /\ Goto(Reconciler, label)
    /\ Meet(Reconciler, op, row[Reconciler].lab)

\* an error is taken for no containers
Ps ==
    LET w == row[Reconciler]
        seen(error) == IF error \/ dir = "none" THEN "none" ELSE up
        removed(error) == \/ w.life = "ephemeral" /\ w.expired
                          \/ w.life = "single_use" /\ seen(error) = "ended"
        kept(error) == w.life # "session" /\ ~removed(error)
    IN  /\ pc[Reconciler] = "ps"
        /\ \E error \in BOOLEAN :
            /\ IF error THEN Fault ELSE faults' = faults
            /\ \/ /\ removed(error)
                  /\ Becomes("reap", "down") /\ UNCHANGED <<row, gone>>
               \/ /\ kept(error) /\ w.state = "RUNNING" /\ seen(error) # "running"
                  /\ Becomes("up", "call") /\ UNCHANGED <<row, gone>>
               \/ /\ kept(error) /\ w.state = "STOPPED" /\ seen(error) # "none"
                  /\ Becomes("down", "call") /\ UNCHANGED <<row, gone>>
               \/ /\ \/ w.life = "session"
                     \/ kept(error) /\ w.state = "RUNNING" /\ seen(error) = "running"
                     \/ kept(error) /\ w.state = "STOPPED" /\ seen(error) = "none"
                  /\ Leave(Reconciler) /\ UNCHANGED <<spoiled, answer>>
        /\ UNCHANGED <<rows, labhost, next, jobs, due>>

\* whatever compose answers to the removal, the row goes
ReapRefused ==
    /\ pc[Reconciler] = "down"
    /\ Fault /\ Spoil(Reconciler)
    /\ Goto(Reconciler, Removed(Reconciler))
    /\ UNCHANGED <<rows, labhost, job, row, gone, next, jobs, due>>

\* the visit is over, or the question raised
PassEnds ==
    /\ \/ pc[Reconciler] = "ends" /\ faults' = faults
       \/ pc[Reconciler] = "ps" /\ Fault
    /\ Leave(Reconciler)
    /\ UNCHANGED <<rows, labhost, next, jobs, history>>

-----------------------------------------------------------------------------
(* What happens by itself.                                                 *)

End ==
    /\ up = "running" /\ faults < MaxFaults
    /\ up' = "ended" /\ faults' = faults + 1
    /\ UNCHANGED <<rows, dir, routed, pc, job, row, gone, next, jobs, history>>

Elapse ==
    /\ \E w \in rows :
        /\ w.life = "ephemeral" /\ w.pk \notin due
        /\ rows' = (rows \ {w}) \cup {[w EXCEPT !.expired = TRUE]}
        /\ due' = due \cup {w.pk}
    /\ UNCHANGED <<labhost, pc, job, row, gone, next, jobs, faults, spoiled, answer>>

Pass == \/ \E l \in Lab : Visit(l)
        \/ Ps \/ ReapRefused \/ PassEnds
        \/ Down(Reconciler) \/ Rmtree(Reconciler) \/ Unroute(Reconciler)
        \/ DeleteRow(Reconciler) \/ Call(Reconciler)

Serve(r) ==
    \/ Source(r) \/ Start(r) \/ StartFails(r) \/ Routes(r) \/ RoutesFail(r) \/ Store(r) \/ StoreRaises(r)
    \/ Down(r) \/ Rmtree(r) \/ DeleteRow(r) \/ Unroute(r)
    \/ Call(r) \/ Write(r)

Next ==
    \/ End \/ Elapse \/ Pass
    \/ \E r \in Request : BeginDeploy(r) \/ BeginDelete(r) \/ BeginState(r) \/ Serve(r)
    \/ \E a \in Actor : Refused(a) \/ GiveUp(a)

Spec == Init /\ [][Next]_vars

\* the periodic thread runs a pass over all rows again and again, and requests
\* go on
Fairness == /\ WF_vars(Pass)
            /\ \A l \in Lab : SF_vars(Visit(l))
            /\ \A r \in Request : WF_vars(Serve(r))
FairSpec == Spec /\ Fairness

-----------------------------------------------------------------------------
(* Properties.                                                             *)

(* While nobody works on a lab's project and nothing went wrong, it has    *)
(* containers, a directory and a route only if it has a row: removals by   *)
(* users and by the reconciler, alone or together, leave nothing           *)
(* (controller.py:2192, service.py:279, docker_interface.py:665).          *)
NothingStray ==
    \A l \in Lab : \/ l \in spoiled \/ RowsOf(l) # {}
                   \/ \E a \in Busy : job[a].lab = l
                   \/ /\ l \notin routed
                      /\ Lab = {l} => dir = "none" /\ up = "none"

(* An answer that met no other request holds: a deployed project has its   *)
(* row, its directory and its route, a removed one has neither row nor     *)
(* route (controller.py:1814, 2207).                                       *)
AnswersHold ==
    \A l \in Lab :
        /\ answer[l] = "deployed" =>
            \E w \in RowsOf(l) : /\ Lab = {l} => dir = "ready"
                                 /\ w.exposed => l \in routed
        /\ answer[l] = "removed" => RowsOf(l) = {} /\ l \notin routed

(* In the end the containers are as the row wants them, if the directory   *)
(* has what compose needs (service.py:372).                                *)
Converges ==
    <>[](\A w \in rows : w.life = "persistent" =>
            IF w.state = "STOPPED" THEN up = "none" \/ dir = "none"
            ELSE up = "running" \/ dir # "ready")

(* An ephemeral project whose time has run out loses its row.              *)
ExpiredGoes == \A l \in Lab :
    (\E w \in RowsOf(l) : w.expired /\ w.life = "ephemeral") ~>
        ~(\E w \in RowsOf(l) : w.expired /\ w.life = "ephemeral")

(* What db/models/shared.py:6 says of EPHEMERAL, "running for a            *)
(* predetermined time": the reconciler takes down no deployment before it  *)
(* has had its time (service.py:337). The code does not keep this (README,  *)
(* Disagreements found).                                                   *)
RunsItsTime ==
    [][\A w \in rows :
            /\ \A v \in rows' : v.pk # w.pk
            /\ pc[Reconciler] = "row" /\ pc'[Reconciler] = "idle"
            /\ w.life = "ephemeral" /\ w.lab \notin spoiled
            => w.pk \in due]_vars

(* What shared.py:5 says of PERSISTENT, "running until explicitly          *)
(* stopped": a project nobody stops or removes stays up. Not kept where two *)
(* labs of one host have projects of one name.                             *)
StaysUp == \A l \in Lab :
    <>[](\A w \in RowsOf(l) : w.life = "persistent" /\ w.state = "RUNNING" => up = "running")
=============================================================================
