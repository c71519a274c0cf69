---------------------------- MODULE IngressRoutes ----------------------------
(***************************************************************************)
(* The ingress routes of a lab host (lab_host/docker_interface.py): the    *)
(* routes file routes.json, which every request reads, changes and writes  *)
(* back, and the proxy's configuration routes.yml, rendered from the same  *)
(* table. The endpoints run in a pool of threads and nothing locks the     *)
(* files. Path.write_text truncates the file when it opens it and writes   *)
(* its text afterwards, so each write is two steps.                        *)
(***************************************************************************)
EXTENDS Naturals

CONSTANTS
    Thread,     \* requests the pool carries out at once
    Hostname,
    Upstream,   \* where a route leads: host, port, scheme, metadata
    NoRoute,    \* no entry for a hostname
    Unknown,    \* nothing is promised of a hostname (see known)
    MaxCalls,   \* bound on requests
    MaxCrashes  \* bound on restarts of the lab host program

ASSUME NoRouteAssumption == NoRoute \notin Upstream
ASSUME UnknownAssumption == Unknown \notin Upstream \cup {NoRoute}
ASSUME LimitsAssumption  == MaxCalls \in Nat /\ MaxCrashes \in Nat

VARIABLES
    routes_json, routes_yml,  \* the files
    proxy,      \* the proxy's container: "up" or "gone"
    pc, job,    \* per thread: the step it is at, the request it serves
    routes,     \* per thread: the table it has loaded and changed
    calls, crashes,
    \* history
    overlap,    \* requests under way that were not alone all the time
    known       \* what the last undisturbed request left for each hostname

files   == <<routes_json, routes_yml>>
history == <<overlap, known>>
vars    == <<files, proxy, pc, job, routes, calls, crashes, history>>

Table    == [Hostname -> Upstream \cup {NoRoute}]
NoRoutes == [h \in Hostname |-> NoRoute]

\* a file and the table _load_ingress_routes_state makes of it: a missing, a
\* truncated and an unparsable file all give the empty table
Missing    == [kind |-> "missing", table |-> NoRoutes]
Blank      == [kind |-> "blank", table |-> NoRoutes]
Torn       == [kind |-> "torn", table |-> NoRoutes]
Whole(tab) == [kind |-> "whole", table |-> tab]
File == {Missing, Blank, Torn} \cup {Whole(tab) : tab \in Table}

\* the bytes go to the start of the file: over what another thread has written
\* since this one truncated it, they leave that text's tail behind, if it is
\* the longer one
Written(file, tab) ==
    IF file.kind = "blank" \/ file = Whole(tab) THEN {Whole(tab)}
                                                ELSE {Whole(tab), Torn}

Job   == [op : {"upsert", "remove", "ensure"}, host : Hostname, up : Upstream]
NoJob == [op |-> "none"]

Busy == {t \in Thread : pc[t] # "idle"}

Pc == {"idle", "check_json", "create_json", "fill_json", "check_yml",
       "create_yml", "remove_proxy", "load", "open_json", "write_json",
       "open_yml", "write_yml", "run_proxy", "answer"}

TypeOK ==
    /\ routes_json \in File
    /\ routes_yml \in File
    /\ proxy \in {"up", "gone"}
    /\ pc \in [Thread -> Pc]
    /\ job \in [Thread -> Job \cup {NoJob}]
    /\ \A t \in Busy : job[t] \in Job
    /\ routes \in [Thread -> Table]
    /\ calls \in 0..MaxCalls
    /\ crashes \in 0..MaxCrashes
    /\ overlap \subseteq Busy
    /\ known \in [Hostname -> Upstream \cup {NoRoute, Unknown}]

\* a new lab host: no files, no proxy
Init ==
    /\ routes_json = Missing
    /\ routes_yml = Missing
    /\ proxy = "gone"
    /\ pc = [t \in Thread |-> "idle"]
    /\ job = [t \in Thread |-> NoJob]
    /\ routes = [t \in Thread |-> NoRoutes]
    /\ calls = 0
    /\ crashes = 0
    /\ overlap = {}
    /\ known = NoRoutes

Goto(t, label) == pc' = [pc EXCEPT ![t] = label]

-----------------------------------------------------------------------------
\* a request comes in; history: it and those under way are no longer alone,
\* and what they leave behind is anyone's guess
Begin(t, j) ==
    /\ pc[t] = "idle"
    /\ calls < MaxCalls
    /\ calls' = calls + 1
    /\ job' = [job EXCEPT ![t] = j]
    /\ Goto(t, "check_json")
    /\ overlap' = IF Busy = {} THEN overlap ELSE Busy \cup {t}
    /\ known' = IF Busy = {} THEN known ELSE [h \in Hostname |-> Unknown]
    /\ UNCHANGED <<files, proxy, routes, crashes>>

(* _ensure_ingress_layout, which creates each file that does not exist.      *)

CheckJson(t) ==
    /\ pc[t] = "check_json"
    /\ Goto(t, IF routes_json.kind = "missing" THEN "create_json" ELSE "check_yml")
    /\ UNCHANGED <<files, proxy, job, routes, calls, crashes, history>>

CreateJson(t) ==
    /\ pc[t] = "create_json"
    /\ routes_json' = Blank
    /\ Goto(t, "fill_json")
    /\ UNCHANGED <<routes_yml, proxy, job, routes, calls, crashes, history>>

FillJson(t) ==
    /\ pc[t] = "fill_json"
    /\ routes_json' \in Written(routes_json, NoRoutes)
    /\ Goto(t, "check_yml")
    /\ UNCHANGED <<routes_yml, proxy, job, routes, calls, crashes, history>>

Ready(t) == IF job[t].op = "ensure" THEN "remove_proxy" ELSE "load"

CheckYml(t) ==
    /\ pc[t] = "check_yml"
    /\ Goto(t, IF routes_yml.kind = "missing" THEN "create_yml" ELSE Ready(t))
    /\ UNCHANGED <<files, proxy, job, routes, calls, crashes, history>>

\* the text written is empty
CreateYml(t) ==
    /\ pc[t] = "create_yml"
    /\ routes_yml' = Blank
    /\ Goto(t, Ready(t))
    /\ UNCHANGED <<routes_json, proxy, job, routes, calls, crashes, history>>

(* upsert_ingress_route, remove_ingress_route, ensure_ingress_proxy.         *)

\* ensure_ingress_proxy removes the proxy's container if there is one
RemoveProxy(t) ==
    /\ pc[t] = "remove_proxy"
    /\ proxy' = "gone"
    /\ Goto(t, "load")
    /\ UNCHANGED <<files, job, routes, calls, crashes, history>>

\* mutation: the table is begun anew with every route
Changed_Anew(j, tab) ==
    CASE j.op = "upsert" -> [NoRoutes EXCEPT ![j.host] = j.up]
      [] j.op = "remove" -> [tab EXCEPT ![j.host] = NoRoute]
      [] j.op = "ensure" -> tab

\* what a request makes of the table it loaded
Changed(j, tab) ==
    CASE j.op = "upsert" -> [tab EXCEPT ![j.host] = j.up]
      [] j.op = "remove" -> [tab EXCEPT ![j.host] = NoRoute]
      [] j.op = "ensure" -> tab

\* mutation: a route that is not in the file needs no write
Load_SkipsMissing(t) ==
    /\ pc[t] = "load"
    /\ routes' = [routes EXCEPT ![t] = Changed(job[t], routes_json.table)]
    /\ Goto(t, CASE job[t].op = "upsert" -> "open_json"
                 [] job[t].op = "ensure" -> "open_yml"
                 [] routes_json.table[job[t].host] = NoRoute -> "answer"
                 [] OTHER -> "open_json")
    /\ UNCHANGED <<files, proxy, job, calls, crashes, history>>

\* _load_ingress_routes_state
Load(t) ==
    /\ pc[t] = "load"
    /\ routes' = [routes EXCEPT ![t] = Changed(job[t], routes_json.table)]
    /\ Goto(t, IF job[t].op = "ensure" THEN "open_yml" ELSE "open_json")
    /\ UNCHANGED <<files, proxy, job, calls, crashes, history>>

\* _write_ingress_routes_state
OpenJson(t) ==
    /\ pc[t] = "open_json"
    /\ routes_json' = Blank
    /\ Goto(t, "write_json")
    /\ UNCHANGED <<routes_yml, proxy, job, routes, calls, crashes, history>>

\* mutation: the proxy's configuration is left to the next ensure
WriteJson_Only(t) ==
    /\ pc[t] = "write_json"
    /\ routes_json' \in Written(routes_json, routes[t])
    /\ Goto(t, "answer")
    /\ UNCHANGED <<routes_yml, proxy, job, routes, calls, crashes, history>>

WriteJson(t) ==
    /\ pc[t] = "write_json"
    /\ routes_json' \in Written(routes_json, routes[t])
    /\ Goto(t, "open_yml")
    /\ UNCHANGED <<routes_yml, proxy, job, routes, calls, crashes, history>>

\* _write_ingress_dynamic_config
OpenYml(t) ==
    /\ pc[t] = "open_yml"
    /\ routes_yml' = Blank
    /\ Goto(t, "write_yml")
    /\ UNCHANGED <<routes_json, proxy, job, routes, calls, crashes, history>>

WriteYml(t) ==
    /\ pc[t] = "write_yml"
    /\ routes_yml' \in Written(routes_yml, routes[t])
    /\ Goto(t, IF job[t].op = "ensure" THEN "run_proxy" ELSE "answer")
    /\ UNCHANGED <<routes_json, proxy, job, routes, calls, crashes, history>>

\* containers.run, which fails if the name is taken, and may fail anyway
RunProxy(t) ==
    /\ pc[t] = "run_proxy"
    /\ proxy' \in {proxy, "up"}
    /\ Goto(t, "answer")
    /\ UNCHANGED <<files, job, routes, calls, crashes, history>>

\* history: an undisturbed request vouches for its hostname
Respond(t) ==
    /\ pc[t] = "answer"
    /\ Goto(t, "idle")
    /\ job' = [job EXCEPT ![t] = NoJob]
    /\ routes' = [routes EXCEPT ![t] = NoRoutes]
    /\ overlap' = overlap \ {t}
    /\ known' = IF t \in overlap \/ job[t].op = "ensure" THEN known
                ELSE [known EXCEPT ![job[t].host] = routes[t][job[t].host]]
    /\ UNCHANGED <<files, proxy, calls, crashes>>

\* the lab host program is restarted: its requests are gone, its files stay
Crash ==
    /\ crashes < MaxCrashes
    /\ crashes' = crashes + 1
    /\ pc' = [t \in Thread |-> "idle"]
    /\ job' = [t \in Thread |-> NoJob]
    /\ routes' = [t \in Thread |-> NoRoutes]
    /\ overlap' = {}
    /\ known' = IF Busy = {} THEN known ELSE [h \in Hostname |-> Unknown]
    /\ UNCHANGED <<files, proxy, calls>>

-----------------------------------------------------------------------------
Step(t) ==
    \/ CheckJson(t) \/ CreateJson(t) \/ FillJson(t) \/ CheckYml(t) \/ CreateYml(t)
    \/ RemoveProxy(t) \/ Load(t)
    \/ OpenJson(t) \/ WriteJson(t) \/ OpenYml(t) \/ WriteYml(t)
    \/ RunProxy(t) \/ Respond(t)

Next ==
    \/ \E t \in Thread : Step(t)
    \/ \E t \in Thread, j \in Job : Begin(t, j)
    \/ Crash

Spec == Init /\ [][Next]_vars

-----------------------------------------------------------------------------
(* Properties.                                                             *)

\* A request that was alone from its arrival to its answer leaves both files
\* whole and in agreement, whatever earlier requests that overlapped, or a
\* restart in the middle of one, had left in them.
LoneRequestRepairs ==
    \A t \in Thread \ overlap :
        pc[t] = "answer" =>
            /\ routes_json.table = routes[t]
            /\ routes_yml = Whole(routes[t])

\* What an undisturbed request answered for a hostname stays in both files, for
\* as long as no two requests overlap and no restart interrupts one; a restart
\* while nothing is under way loses nothing.
AnswersHold ==
    Busy = {} =>
        \A h \in Hostname :
            known[h] # Unknown =>
                routes_json.table[h] = known[h] /\ routes_yml.table[h] = known[h]

\* the table as the endpoints promise it: what is being written counts
stored ==
    IF \E t \in Thread : pc[t] = "write_json"
      THEN routes[CHOOSE t \in Thread : pc[t] = "write_json"]
      ELSE routes_json.table

Serial == INSTANCE RouteTable WITH table <- stored

\* Requests carried out one at a time, by a lab host that is not restarted,
\* implement the table of routes: each changes its own entry, in one step of
\* the table, and the creation of the files changes none.
ImplementsRouteTable == Serial!Spec
=============================================================================
