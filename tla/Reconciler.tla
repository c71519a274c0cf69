----------------------------- MODULE Reconciler -----------------------------
(***************************************************************************)
(* The container half of the control plane's reconciler                    *)
(* (control_plane/reconciliation/service.py), with everything it races     *)
(* with: the consumer thread that feeds it heartbeats and the periodic     *)
(* thread (rabbitmq_consumer.py), the state requests of users              *)
(* (controller.set_lab_environments_state), the containers themselves and  *)
(* a lab host that may refuse a call or lose its answer.                   *)
(*                                                                         *)
(* Both threads submit the same coroutine to the one event loop; it runs   *)
(* until its next await, so a step below is the code between two awaits,   *)
(* with the call awaited answered at the lab host in the same step.        *)
(* One host, one lab; one row and one container per member of Container.   *)
(***************************************************************************)
EXTENDS Naturals, Sequences, ContainerRuntime

CONSTANTS
    Container,  \* environments of the lab: a database row and a container each
    Request,    \* concurrent calls of the state endpoint
    None,       \* no container
    MaxBeats,   \* bound on heartbeats waiting in the queue
    MaxCalls,   \* bound on state requests
    MaxExits,   \* bound on processes that end by themselves
    MaxFaults   \* bound on calls the lab host refuses or whose answer is lost

ASSUME NoneAssumption   == None \notin Container
ASSUME BoundsAssumption ==
    /\ MaxBeats \in Nat /\ MaxCalls \in Nat
    /\ MaxExits \in Nat /\ MaxFaults \in Nat

Thread   == {"consumer", "periodic"}
Lifetime == {"PERSISTENT", "EPHEMERAL", "SINGLE_USE", "SESSION"}

VARIABLES
    \* database
    rows,       \* the environments that still have a row
    status,     \* Container.status of a row
    lifetime,   \* Container.lifetime_type, never changed here
    elapsed,    \* the rows whose time to live has run out
    \* lab host
    docker,     \* the container behind a row
    routed,     \* the environments with an ingress route
    queue,      \* heartbeats in the broker: a container's status in each
    \* reconciler, per thread
    lock,       \* _RECONCILE_LOCK: its holder or "free"
    pc,         \* where the thread's coroutine is
    view,       \* runtime_by_id
    seen,       \* statuses as the pass read them from the database
    todo,       \* rows of the pass still to reconcile
    cur,        \* the row being reconciled
    \* state requests
    req,
    \* bounds
    calls, exits, faults

database == <<rows, status, lifetime, elapsed>>
labhost  == <<docker, routed>>
thread   == <<lock, pc, view, seen, todo, cur>>
spent    == <<calls, exits, faults>>
vars     == <<database, labhost, queue, thread, req, spent>>

\* where a pass is when it holds the lock: the awaits of _reconcile_for_host,
\* _reconcile_container and _remove_container_row_and_runtime
StatePc   == {"start", "stop", "pause"}
RemovalPc == {"rm_stop", "rm_delete", "rm_force", "rm_route", "rm_row"}
DropPc    == {"drop_row", "drop_route"}
InPass    == {"list", "next"} \cup StatePc \cup RemovalPc \cup DropPc
Pc        == {"idle", "submitted"} \cup InPass

\* a heartbeat names each container's status, "absent" when it is not listed
Snapshot == [Container -> RuntimeStatus \cup {"absent"}]
NoView   == [c \in Container |-> "absent"]

IdleRequest == [pc |-> "idle", name |-> None, op |-> "stop",
                read |-> "STARTED", reply |-> "exited"]
RequestState ==
    [pc : {"idle", "call", "reload", "write"}, name : Container \cup {None},
     op : Op, read : ContainerStatus, reply : RuntimeStatus]

TypeOK ==
    /\ rows \subseteq Container
    /\ status \in [Container -> ContainerStatus]
    /\ lifetime \in [Container -> Lifetime]
    /\ elapsed \subseteq Container
    /\ docker \in [Container -> Runtime]
    /\ routed \subseteq Container
    /\ queue \in Seq(Snapshot)
    /\ lock \in Thread \cup {"free"}
    /\ pc \in [Thread -> Pc]
    /\ view \in [Thread -> Snapshot]
    /\ seen \in [Thread -> [Container -> ContainerStatus]]
    /\ todo \in [Thread -> SUBSET Container]
    /\ cur \in [Thread -> Container \cup {None}]
    /\ req \in [Request -> RequestState]
    /\ calls \in 0..MaxCalls
    /\ exits \in 0..MaxExits
    /\ faults \in 0..MaxFaults

\* every environment was deployed: its row says STARTED and its container runs
Init ==
    /\ rows = Container
    /\ status = [c \in Container |-> "STARTED"]
    /\ lifetime \in [Container -> Lifetime]
    /\ elapsed = {}
    /\ docker = [c \in Container |-> Running]
    /\ routed = Container
    /\ queue = <<>>
    /\ lock = "free"
    /\ pc = [t \in Thread |-> "idle"]
    /\ view = [t \in Thread |-> NoView]
    /\ seen = [t \in Thread |-> [c \in Container |-> "STARTED"]]
    /\ todo = [t \in Thread |-> {}]
    /\ cur = [t \in Thread |-> None]
    /\ req = [r \in Request |-> IdleRequest]
    /\ calls = 0 /\ exits = 0 /\ faults = 0

-----------------------------------------------------------------------------
(* Calls to the lab host.                                                  *)

Fault == faults < MaxFaults /\ faults' = faults + 1

\* the call is answered with this code: by Docker, or by a lab host that
\* fails the request without touching the container
Answered(c, outcomes, code) ==
    \/ /\ \E o \in outcomes :
            /\ o.code = code
            /\ docker' = [docker EXCEPT ![c] = o.rt]
       /\ UNCHANGED faults
    \/ code = "refused" /\ Fault /\ UNCHANGED docker

\* the call times out or the connection breaks, before it was carried out or
\* after: call_lab_host turns httpx.HTTPError into an HTTPException
Raised(c, outcomes) ==
    /\ Fault
    /\ \/ UNCHANGED docker
       \/ \E o \in outcomes : docker' = [docker EXCEPT ![c] = o.rt]

-----------------------------------------------------------------------------
(* The two threads.                                                        *)

\* lab host: _publish_loop sends the status of every container, no exit code
Publish ==
    /\ Len(queue) < MaxBeats
    /\ queue' = Append(queue, [c \in Container |-> docker[c].status])
    /\ UNCHANGED <<database, labhost, thread, req, spent>>

\* _on_message, handle_heartbeat: the thread then blocks on the future
Deliver ==
    /\ pc["consumer"] = "idle"
    /\ queue # <<>>
    /\ queue' = Tail(queue)
    /\ view' = [view EXCEPT !["consumer"] = Head(queue)]
    /\ pc' = [pc EXCEPT !["consumer"] = "submitted"]
    /\ UNCHANGED <<database, labhost, lock, seen, todo, cur, req, spent>>

\* _periodic_reconcile_forever: RECONCILE_INTERVAL_SECONDS have passed
Tick ==
    /\ pc["periodic"] = "idle"
    /\ pc' = [pc EXCEPT !["periodic"] = "submitted"]
    /\ UNCHANGED <<database, labhost, queue, lock, view, seen, todo, cur, req,
                   spent>>

\* lock.acquire(blocking=False) succeeds
Acquire(t) ==
    /\ pc[t] = "submitted"
    /\ lock = "free"
    /\ lock' = t
    /\ pc' = [pc EXCEPT ![t] = "list"]
    /\ UNCHANGED <<database, labhost, queue, view, seen, todo, cur, req, spent>>

\* mutation: the acquisition stands inside the try, so that the finally clause of
\* a skipped run releases the other thread's lock
Skip_ReleasesLock(t) ==
    /\ pc[t] = "submitted"
    /\ lock # "free"
    /\ lock' = "free"
    /\ pc' = [pc EXCEPT ![t] = "idle"]
    /\ view' = [view EXCEPT ![t] = NoView]
    /\ UNCHANGED <<database, labhost, queue, seen, todo, cur, req, spent>>

\* ... or does not: the heartbeat is skipped, and acknowledged all the same
Skip(t) ==
    /\ pc[t] = "submitted"
    /\ lock # "free"
    /\ pc' = [pc EXCEPT ![t] = "idle"]
    /\ view' = [view EXCEPT ![t] = NoView]
    /\ UNCHANGED <<database, labhost, queue, lock, seen, todo, cur, req, spent>>

\* mutation: the statuses of an earlier pass are kept instead of read again
List_Cached(t) ==
    /\ pc[t] = "list"
    /\ todo' = [todo EXCEPT ![t] = rows]
    /\ pc' = [pc EXCEPT ![t] = "next"]
    /\ UNCHANGED <<database, labhost, queue, lock, view, seen, cur, req, spent>>

\* container_repo.list_by_lab_id: the rows are read once for the whole pass; it
\* has none when the secret store does not give the host's API key
List(t) ==
    /\ pc[t] = "list"
    /\ seen' = [seen EXCEPT ![t] = status]
    /\ \/ todo' = [todo EXCEPT ![t] = rows] /\ UNCHANGED faults
       \/ todo' = todo /\ Fault
    /\ pc' = [pc EXCEPT ![t] = "next"]
    /\ UNCHANGED <<database, labhost, queue, lock, view, cur, req, calls, exits>>

\* the finally clause, after the last row or after an exception; whichever it
\* was, the consumer is done with the message
Release(t) ==
    /\ lock' = "free"
    /\ pc' = [pc EXCEPT ![t] = "idle"]
    /\ view' = [view EXCEPT ![t] = NoView]
    /\ seen' = [seen EXCEPT ![t] = [c \in Container |-> "STARTED"]]
    /\ todo' = [todo EXCEPT ![t] = {}]
    /\ cur' = [cur EXCEPT ![t] = None]

Finish(t) ==
    /\ pc[t] = "next"
    /\ todo[t] = {}
    /\ Release(t)
    /\ UNCHANGED <<database, labhost, queue, req, spent>>

\* the coroutine goes on to another await of the same row
Goto(t, label) ==
    /\ pc' = [pc EXCEPT ![t] = label]
    /\ UNCHANGED <<lock, view, seen, todo, cur>>

\* the row is dealt with
Done(t) ==
    /\ pc' = [pc EXCEPT ![t] = "next"]
    /\ cur' = [cur EXCEPT ![t] = None]
    /\ UNCHANGED <<lock, view, seen, todo>>

-----------------------------------------------------------------------------
(* _reconcile_container.                                                   *)

\* a heartbeat entry as a runtime payload: its exit_code key is missing
FromBeat(s) == [status |-> s, exit |-> "unreported"]

\* mutation: any container that ended with code 0 is taken for a finished job
Decide_AnyCompletion(life, expired, desired, rt) ==
    CASE life = "SESSION" -> "next"
      [] (life = "EPHEMERAL" /\ expired) \/ (IsEnded(rt.status) /\ rt.exit = "zero") ->
           "rm_stop"
      [] life = "SINGLE_USE" /\ rt.status = "absent" -> "drop_row"
      [] desired = "STARTED" /\ ~IsUp(rt.status) -> "start"
      [] OTHER -> "next"

\* what the code does next with a row of this lifetime and status, having
\* seen the runtime payload rt (Absent for None)
Decide(life, expired, desired, rt) ==
    CASE life = "SESSION" -> "next"
      [] life = "EPHEMERAL" /\ expired -> "rm_stop"
      [] life = "SINGLE_USE" /\ rt.status = "absent" -> "drop_row"
      [] life = "SINGLE_USE" /\ IsEnded(rt.status) /\ rt.exit = "zero" -> "rm_stop"
      [] OTHER ->
           CASE desired = "STARTED" /\ ~IsUp(rt.status) -> "start"
             [] desired = "STOPPED" /\ (IsUp(rt.status) \/ rt.status = "paused") -> "stop"
             [] desired = "PAUSED" /\ rt.status = "running" -> "pause"
             [] OTHER -> "next"

\* the rows are taken in no particular order: the query has no ORDER BY
Begin(t, c, rt) ==
    LET step == Decide(lifetime[c], c \in elapsed, seen[t][c], rt) IN
    /\ pc[t] = "next"
    /\ c \in todo[t]
    /\ todo' = [todo EXCEPT ![t] = @ \ {c}]
    /\ pc' = [pc EXCEPT ![t] = step]
    /\ cur' = [cur EXCEPT ![t] = IF step = "next" THEN None ELSE c]
    /\ UNCHANGED <<database, labhost, queue, lock, view, seen, req, calls, exits>>

\* the heartbeat has the container
ExamineBeat(t, c) ==
    /\ view[t][c] # "absent"
    /\ Begin(t, c, FromBeat(view[t][c]))
    /\ UNCHANGED faults

\* it has not, or there is no heartbeat: _fetch_container_summary asks the lab
\* host, and takes every error answer for a container that does not exist
ExamineFetch(t, c) ==
    /\ view[t][c] = "absent"
    /\ \/ Begin(t, c, docker[c]) /\ UNCHANGED faults
       \/ Begin(t, c, Absent) /\ Fault

\* the answer is lost
ExamineRaises(t) ==
    /\ pc[t] = "next"
    /\ \E c \in todo[t] : view[t][c] = "absent"
    /\ Fault
    /\ Release(t)
    /\ UNCHANGED <<database, labhost, queue, req, calls, exits>>

\* POST .../state/start, stop or pause; the answer is not looked at
Correct(t) ==
    LET outcomes == StateCall(pc[t], docker[cur[t]]) IN
    /\ pc[t] \in StatePc
    /\ \/ \E code \in Code : Answered(cur[t], outcomes, code) /\ Done(t)
       \/ Raised(cur[t], outcomes) /\ Release(t)
    /\ UNCHANGED <<database, routed, queue, req, calls, exits>>

-----------------------------------------------------------------------------
(* _remove_container_row_and_runtime: remove_runtime_container, then       *)
(* _delete_ingress_route_if_possible, then the row.                        *)

RemoveStop(t) ==
    LET outcomes == StateCall("stop", docker[cur[t]]) IN
    /\ pc[t] = "rm_stop"
    /\ \/ \E code \in Code : Answered(cur[t], outcomes, code) /\ Goto(t, "rm_delete")
       \/ Raised(cur[t], outcomes) /\ Release(t)
    /\ UNCHANGED <<database, routed, queue, req, calls, exits>>

\* mutation: the refused delete is not repeated with force
RemoveDelete_NoForce(t) ==
    LET outcomes == DeleteCall(FALSE, docker[cur[t]]) IN
    /\ pc[t] = "rm_delete"
    /\ \/ \E code \in Code : Answered(cur[t], outcomes, code) /\ Goto(t, "rm_route")
       \/ Raised(cur[t], outcomes) /\ Release(t)
    /\ UNCHANGED <<database, routed, queue, req, calls, exits>>

RemoveDelete(t) ==
    LET outcomes == DeleteCall(FALSE, docker[cur[t]]) IN
    /\ pc[t] = "rm_delete"
    /\ \/ Answered(cur[t], outcomes, "refused") /\ Goto(t, "rm_force")
       \/ \E code \in {"ok", "missing"} :
            Answered(cur[t], outcomes, code) /\ Goto(t, "rm_route")
       \/ Raised(cur[t], outcomes) /\ Release(t)
    /\ UNCHANGED <<database, routed, queue, req, calls, exits>>

\* the answer of the forced delete is not looked at
RemoveForce(t) ==
    LET outcomes == DeleteCall(TRUE, docker[cur[t]]) IN
    /\ pc[t] = "rm_force"
    /\ \/ \E code \in Code : Answered(cur[t], outcomes, code) /\ Goto(t, "rm_route")
       \/ Raised(cur[t], outcomes) /\ Release(t)
    /\ UNCHANGED <<database, routed, queue, req, calls, exits>>

\* DELETE /ingress/routes/{fqdn}: carried out, refused (not looked at), or lost
Unroute(t) ==
    \/ routed' = routed \ {cur[t]} /\ UNCHANGED faults
    \/ Fault /\ UNCHANGED routed

RouteRaises(t) ==
    /\ Fault
    /\ Release(t)
    /\ routed' \in {routed, routed \ {cur[t]}}

RemoveRoute(t) ==
    /\ pc[t] = "rm_route"
    /\ \/ Unroute(t) /\ Goto(t, "rm_row")
       \/ RouteRaises(t)
    /\ UNCHANGED <<database, docker, queue, req, calls, exits>>

RemoveRow(t) ==
    /\ pc[t] = "rm_row"
    /\ rows' = rows \ {cur[t]}
    /\ Done(t)
    /\ UNCHANGED <<status, lifetime, elapsed, labhost, queue, req, spent>>

\* a single-use row whose container was not found: the row goes first
DropRow(t) ==
    /\ pc[t] = "drop_row"
    /\ rows' = rows \ {cur[t]}
    /\ Goto(t, "drop_route")
    /\ UNCHANGED <<status, lifetime, elapsed, labhost, queue, req, spent>>

DropRoute(t) ==
    /\ pc[t] = "drop_route"
    /\ \/ Unroute(t) /\ Done(t)
       \/ RouteRaises(t)
    /\ UNCHANGED <<database, docker, queue, req, calls, exits>>

-----------------------------------------------------------------------------
(* set_lab_environments_state, for one of the names in its payload.        *)

\* get_by_name: the row is loaded into the request's own session
RequestRead(r, c, op) ==
    /\ req[r].pc = "idle"
    /\ calls < MaxCalls
    /\ c \in rows
    /\ calls' = calls + 1
    /\ req' = [req EXCEPT ![r] = [IdleRequest EXCEPT !.pc = "call", !.name = c,
                                    !.op = op, !.read = status[c]]]
    /\ UNCHANGED <<database, labhost, queue, thread, exits, faults>>

RequestEnds(r) == req' = [req EXCEPT ![r] = IdleRequest]

\* the lab host carries the operation out, or the request fails
RequestCall(r) ==
    LET c == req[r].name
        outcomes == StateCall(req[r].op, docker[c])
    IN
    /\ req[r].pc = "call"
    /\ \/ Answered(c, outcomes, "ok") /\ req' = [req EXCEPT ![r].pc = "reload"]
       \/ \E code \in {"refused", "missing"} :
            Answered(c, outcomes, code) /\ RequestEnds(r)
       \/ Raised(c, outcomes) /\ RequestEnds(r)
    /\ UNCHANGED <<database, routed, queue, thread, calls, exits>>

\* the lab host's container.reload(): the status it answers with is read after
\* the operation, and the container may have changed or gone since
RequestReload(r) ==
    LET c == req[r].name IN
    /\ req[r].pc = "reload"
    /\ IF docker[c] = Absent
         THEN RequestEnds(r)
         ELSE req' = [req EXCEPT ![r].pc = "write", ![r].reply = docker[c].status]
    /\ UNCHANGED <<database, labhost, queue, thread, spent>>

\* container_repo.update: the session writes the columns whose value differs
\* from the one it loaded, and raises StaleDataError when the row has gone
RequestWrite(r) ==
    LET c   == req[r].name
        new == to_container_status(req[r].reply)
    IN
    /\ req[r].pc = "write"
    /\ status' = IF c \in rows /\ new # req[r].read
                   THEN [status EXCEPT ![c] = new] ELSE status
    /\ RequestEnds(r)
    /\ UNCHANGED <<rows, lifetime, elapsed, labhost, queue, thread, spent>>

-----------------------------------------------------------------------------
(* The environment.                                                        *)

\* the container's main process ends by itself
Exit(c, e) ==
    /\ docker[c].status = "running"
    /\ exits < MaxExits
    /\ exits' = exits + 1
    /\ docker' = [docker EXCEPT ![c] = [status |-> "exited", exit |-> e]]
    /\ UNCHANGED <<database, routed, queue, thread, req, calls, faults>>

\* _ttl_expired becomes true of an EPHEMERAL row with a positive time to live
Elapse(c) ==
    /\ lifetime[c] = "EPHEMERAL"
    /\ c \in rows \ elapsed
    /\ elapsed' = elapsed \cup {c}
    /\ UNCHANGED <<rows, status, lifetime, labhost, queue, thread, req, spent>>

-----------------------------------------------------------------------------
Pass(t) ==
    \/ Acquire(t) \/ Skip(t) \/ List(t) \/ Finish(t)
    \/ \E c \in Container : ExamineBeat(t, c) \/ ExamineFetch(t, c)
    \/ ExamineRaises(t)
    \/ Correct(t)
    \/ RemoveStop(t) \/ RemoveDelete(t) \/ RemoveForce(t)
    \/ RemoveRoute(t) \/ RemoveRow(t)
    \/ DropRow(t) \/ DropRoute(t)

Answering(r) == RequestCall(r) \/ RequestReload(r) \/ RequestWrite(r)

Next ==
    \/ Publish \/ Deliver \/ Tick
    \/ \E t \in Thread : Pass(t)
    \/ \E r \in Request, c \in Container, op \in Op : RequestRead(r, c, op)
    \/ \E r \in Request : Answering(r)
    \/ \E c \in Container, e \in ExitCode : Exit(c, e)
    \/ \E c \in Container : Elapse(c)

Spec == Init /\ [][Next]_vars

\* Both threads loop forever, the event loop runs every coroutine it was given
\* and every call ends (it has a timeout). Nothing else is owed: heartbeats may
\* stop, users need not call, no process need end.
Fairness ==
    /\ WF_vars(Tick)
    /\ \A t \in Thread : WF_vars(Pass(t))
    /\ \A r \in Request : WF_vars(Answering(r))

LiveSpec == Spec /\ Fairness

-----------------------------------------------------------------------------
(* Properties.                                                             *)

\* Passes never overlap: a thread is inside _reconcile_for_host exactly while
\* it holds _RECONCILE_LOCK, however the other thread's calls and the
\* exceptions of lab host calls interleave.
OnePass == \A t \in Thread : pc[t] \in InPass <=> lock = t

\* The reconciler takes away no environment that was to stay: a row is missing
\* only if its lifetime is SINGLE_USE, or EPHEMERAL with its time run out. The
\* decision is taken several calls before the row is deleted.
LossJustified ==
    \A c \in Container \ rows :
        \/ lifetime[c] = "SINGLE_USE"
        \/ lifetime[c] = "EPHEMERAL" /\ c \in elapsed

\* Removing a row leaves neither a container nor a route behind, unless a call
\* to the lab host has failed: whatever a user does between the stop and the
\* delete, the forced delete takes the container.
CleanUnlessFault ==
    \A c \in Container \ rows :
        docker[c] # Absent \/ c \in routed
            => faults > 0 \/ \E t \in Thread : cur[t] = c /\ pc[t] = "drop_route"

\* An EPHEMERAL environment whose time ran out loses its row in the end, even
\* if every pass so far was cut short or a heartbeat was skipped.
ExpiredGoes ==
    \A c \in Container :
        (lifetime[c] = "EPHEMERAL" /\ c \in elapsed) ~> c \notin rows

\* A paused container is left out of the STARTED case: see PersistentRuns.
Settled(c) ==
    CASE status[c] = "STARTED" -> docker[c].status \in {"running", "paused"}
      [] status[c] = "STOPPED" -> docker[c].status \notin {"running", "paused"}
      [] status[c] = "PAUSED"  -> docker[c].status # "running"
      [] OTHER -> TRUE

\* When users, processes and faults come to rest, every environment that still
\* has a row ends up, and stays, in the state its row asks for, although each
\* pass acts on rows and heartbeats that may be out of date.
Converges ==
    \A c \in Container :
        lifetime[c] # "SESSION" => <>[](c \in rows => Settled(c))

\* "running until action is completed" (db/models/shared.py:7): once a
\* single-use container has ended with exit code 0, the reconciler does not
\* start it again. The code does not keep this (README, Disagreements found).
CompletedStaysDown ==
    [][\A c \in Container :
         /\ lifetime[c] = "SINGLE_USE"
         /\ docker[c] = [status |-> "exited", exit |-> "zero"]
         /\ docker'[c].status = "running"
         => \E r \in Request : req[r].pc = "call" /\ req'[r].pc # "call"]_vars

\* "running until explicitly stopped" (db/models/shared.py:5): the desired
\* status of a persistent environment becomes STOPPED only by a stop request.
\* Not kept either.
StoppedOnlyByStop ==
    [][\A c \in Container :
         /\ lifetime[c] = "PERSISTENT"
         /\ status[c] # "STOPPED" /\ status'[c] = "STOPPED"
         => \E r \in Request : req[r].pc = "write" /\ req[r].op = "stop"
                               /\ req'[r].pc = "idle"]_vars

\* "running until explicitly stopped" (db/models/shared.py:5): a persistent
\* environment whose row stays STARTED is running again in the end. Not kept
\* either.
PersistentRuns ==
    \A c \in Container :
        lifetime[c] = "PERSISTENT" =>
            (status[c] = "STARTED" ~> docker[c].status = "running"
                                      \/ status[c] # "STARTED")
=============================================================================
