-------------------------- MODULE ContainerRuntime --------------------------
(***************************************************************************)
(* What a lab host's container endpoints answer and do to one container.   *)
(* lab_host/docker_interface.py hands every call to the Docker engine, so  *)
(* the effect of a call is Docker's (external); the answer is the HTTP     *)
(* code lab_host/controller.py maps the exception to, reduced to the three *)
(* classes the control plane tells apart:                                  *)
(*   "ok"       any code below 400                                         *)
(*   "missing"  404, docker.errors.NotFound                                *)
(*   "refused"  any other code from 400 up, docker.errors.APIError         *)
(* A module of constant operators: it has no state of its own.             *)
(***************************************************************************)

\* status strings of Docker this code meets: environments are created without
\* a restart policy, so "restarting" never occurs
RuntimeStatus == {"created", "running", "paused", "exited"}

ExitCode == {"zero", "nonzero"}

\* the container does not exist on the host
Absent == [status |-> "absent", exit |-> "zero"]

Runtime == [status : RuntimeStatus, exit : ExitCode] \cup {Absent}

\* Docker reports exit code 0 for a container that has not ended
Running == [status |-> "running", exit |-> "zero"]
Paused  == [status |-> "paused", exit |-> "zero"]

\* the status sets the control plane and the reconciler test against
IsUp(s)    == s \in {"running", "restarting"}
IsEnded(s) == s \in {"exited", "dead", "stopped"}

Code == {"ok", "refused", "missing"}

Answer(code, rt) == [code |-> code, rt |-> rt]

Op == {"start", "stop", "pause", "unpause"}

\* container.stop(): SIGTERM, then SIGKILL; the process may still exit with 0.
\* Stopping a container that is not up changes nothing and is no error.
Stop(rt) ==
    IF rt.status \in {"running", "paused"}
      THEN {Answer("ok", [status |-> "exited", exit |-> e]) : e \in ExitCode}
      ELSE {Answer("ok", rt)}

\* container.start(): Docker refuses to start a paused container
Start(rt) ==
    IF rt.status = "paused" THEN {Answer("refused", rt)}
                            ELSE {Answer("ok", Running)}

Pause(rt) ==
    IF rt.status = "running" THEN {Answer("ok", Paused)}
                             ELSE {Answer("refused", rt)}

Unpause(rt) ==
    IF rt.status = "paused" THEN {Answer("ok", Running)}
                            ELSE {Answer("refused", rt)}

\* POST /containers/{id}/state/{op}: the answers Docker may give, each with
\* the container it leaves behind
StateCall(op, rt) ==
    IF rt = Absent THEN {Answer("missing", rt)}
    ELSE CASE op = "stop"    -> Stop(rt)
           [] op = "start"   -> Start(rt)
           [] op = "pause"   -> Pause(rt)
           [] op = "unpause" -> Unpause(rt)

\* DELETE /containers/{id}?force=...: only force removes a container that is up
DeleteCall(force, rt) ==
    IF rt = Absent THEN {Answer("missing", rt)}
    ELSE IF force \/ rt.status \notin {"running", "paused"}
      THEN {Answer("ok", Absent)}
      ELSE {Answer("refused", rt)}

\* the desired status the control plane stores for a reported runtime status
\* (controller_helpers.to_container_status)
ContainerStatus == {"CREATED", "STARTED", "STOPPED", "PAUSED"}

to_container_status(s) ==
    CASE IsUp(s)      -> "STARTED"
      [] s = "paused" -> "PAUSED"
      [] IsEnded(s)   -> "STOPPED"
      [] OTHER        -> "CREATED"
=============================================================================
