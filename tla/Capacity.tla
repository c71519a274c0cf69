------------------------------ MODULE Capacity ------------------------------
(***************************************************************************)
(* What a lab and a host may be asked for (controller_helpers.py:          *)
(* enforce_resource_capacity and what it sums) and the scheduler that      *)
(* chooses a lab or a host (controller.py). Allocation is nowhere kept: it *)
(* is summed from the rows, lab by lab, and the row that uses it up is     *)
(* written many awaits later. A step is one read of the database, the      *)
(* checks that follow it, or the write at the end; the scheduler, which    *)
(* only chooses, reads and checks one lab in a step.                       *)
(*                                                                         *)
(* CPUs are counted in halves (a project may ask for part of one), memory  *)
(* in halves of a MiB (rows and limits hold whole MiB).                    *)
(***************************************************************************)
EXTENDS Integers, FiniteSets, FiniteSetsExt, Sequences

CONSTANTS
    Host,       \* hosts, none of which changes
    Total,      \* cpu_total and memory_total_mb of each
    Status,     \* status of each: "online", "offline" or "draining"
    Name,       \* names of environments and projects
    Ask,        \* what a payload asks for: [cpu, mem], 0 for None
    Limit,      \* limits a lab may be created with: [cpu, mb]
    Request,    \* requests under way at once
    MaxLabs,    \* bound on labs
    MaxJobs     \* bound on requests

NoLimit == -1   \* a limit that is not set

AskAssumption == Ask \subseteq [cpu : Nat, mem : Nat \ {1}]
HostAssumption ==
    /\ IsFiniteSet(Host)
    /\ Total \in [Host -> [cpu : Nat, mb : Nat]]
    /\ Status \in [Host -> {"online", "offline", "draining"}]
LimitAssumption == Limit \subseteq [cpu : Nat \cup {NoLimit}, mb : Nat \cup {NoLimit}]
BoundAssumption == MaxLabs \in Nat /\ MaxJobs \in Nat

VARIABLES
    labs,       \* a lab's id is its place here
    rows,       \* environments and projects
    pc,
    job,        \* what the request was asked
    lab, row,   \* the lab it deploys to, the row it replaces
    todo,       \* labs or hosts still to read
    sum,        \* what it has summed
    choice,     \* what it may choose from, with the allocation it read
    next, jobs,
    \* history
    mixedLabs,  \* labs and hosts on which two deployments were under way at once
    mixedHosts,
    undisturbed,\* scheduled requests beside which nothing was written
    even        \* so far only the scheduler has deployed, and to any lab it liked

history == <<mixedLabs, mixedHosts, undisturbed, even>>
vars == <<labs, rows, pc, job, lab, row, todo, sum, choice, next, jobs, history>>

Lab   == 1..Len(labs)
NoRow == [pk |-> 0, cpu |-> 0, mb |-> 0]
NoJob == [op |-> "none"]
Nothing == [cpu |-> 0, mb |-> 0]

Plus(a, b)  == [cpu |-> a.cpu + b.cpu, mb |-> a.mb + b.mb]
Minus(a, b) == [cpu |-> a.cpu - b.cpu, mb |-> a.mb - b.mb]
Sum(S) == [cpu |-> MapThenSumSet(LAMBDA w : w.cpu, S), mb |-> MapThenSumSet(LAMBDA w : w.mb, S)]
Within(a, limit) == /\ limit.cpu = NoLimit \/ a.cpu <= limit.cpu
                    /\ limit.mb = NoLimit \/ a.mb <= limit.mb

Unbounded(h) == Total[h] = Nothing
RowsOf(l) == {w \in rows : w.lab = l}
LabsOn(h) == {l \in Lab : labs[l].host = h}
RowsOn(h) == {w \in rows : labs[w.lab].host = h}

\* what a row records of a payload's limits, in whole MiB, and what the lab
\* host is told (mem): nothing on an unbounded host
InMiB(ask) == [cpu |-> ask.cpu, mb |-> ask.mem \div 2]

Effective(h, ask) == IF Unbounded(h) THEN [cpu |-> 0, mb |-> 0, mem |-> 0]
                     ELSE [cpu |-> ask.cpu, mb |-> InMiB(ask).mb, mem |-> ask.mem]

\* a ratio of 1 stands for a capacity of 0
Ratio(used, capacity) == IF capacity > 0 THEN <<used, capacity>> ELSE <<1, 1>>
Leq(p, q) == p[1] * q[2] <= q[1] * p[2]
Higher(p, q) == IF Leq(p, q) THEN q ELSE p
Load(used, capacity) ==
    Higher(Ratio(used.cpu, capacity.cpu), Ratio(used.mb, capacity.mb))
HostLoad(h, used) == IF Unbounded(h) THEN <<0, 1>> ELSE Load(used, Total[h])
LabLoad(l, used) ==
    LET own   == labs[l]
        total == Total[own.host]
    IN  IF Unbounded(own.host) THEN <<0, 1>>
        ELSE Load(used, [cpu |-> IF own.cpu = NoLimit THEN total.cpu ELSE own.cpu,
                         mb  |-> IF own.mb  = NoLimit THEN total.mb  ELSE own.mb])

\* sorted by load if the method says so, then by id
Best(c, load, method) ==
    \A d \in DOMAIN load \ {c} :
        IF method = "first_fit" THEN c.id < d.id
        ELSE Leq(load[c], load[d]) /\ (Leq(load[d], load[c]) => c.id < d.id)

\* hosts have ids too
HostId == CHOOSE f \in [Host -> 1..Cardinality(Host)] :
              \A h, g \in Host : f[h] = f[g] => h = g

\* an environment asks for whole CPUs
Payload  == [kind : {"environment"}, name : Name, ask : {a \in Ask : a.cpu % 2 = 0}]
            \cup [kind : {"project"}, name : Name, ask : Ask]
Method   == {"first_fit", "least_allocated"}
Amount   == [cpu : Int, mb : Int]
RowType  == [pk : 1..next, lab : Lab, kind : {"environment", "project"}, name : Name,
             cpu : Nat, mb : Nat, mem : Nat]

TypeOK ==
    /\ labs \in Seq([host : Host, failed : BOOLEAN, cpu : Nat \cup {NoLimit}, mb : Nat \cup {NoLimit}])
    /\ Len(labs) <= MaxLabs
    /\ rows \subseteq RowType
    /\ \A v, w \in rows : v.pk = w.pk => v = w
    /\ pc \in [Request -> {"idle", "consider", "lab", "host", "write",
                           "consider_host", "room", "insert"}]
    /\ \A r \in Request :
        /\ pc[r] \in {"lab", "host", "write"} => job[r].op = "deploy" /\ lab[r] \in Lab
        /\ row[r] = NoRow \/ row[r] \in RowType
        /\ sum[r] \in Amount
        /\ pc[r] = "idle" => job[r] = NoJob /\ choice[r] = {} /\ todo[r] = {}
    /\ jobs \in 0..MaxJobs
    /\ mixedLabs \subseteq Lab /\ mixedHosts \subseteq Host
    /\ undisturbed \subseteq Request

Init ==
    /\ labs = <<>> /\ rows = {}
    /\ pc = [r \in Request |-> "idle"]
    /\ job = [r \in Request |-> NoJob]
    /\ lab = [r \in Request |-> 0]
    /\ row = [r \in Request |-> NoRow]
    /\ todo = [r \in Request |-> {}]
    /\ sum = [r \in Request |-> Nothing]
    /\ choice = [r \in Request |-> {}]
    /\ next = 1 /\ jobs = 0
    /\ mixedLabs = {} /\ mixedHosts = {} /\ undisturbed = {} /\ even = TRUE

Start(r, j, label) ==
    /\ pc[r] = "idle" /\ jobs < MaxJobs
    /\ jobs' = jobs + 1
    /\ job' = [job EXCEPT ![r] = j]
    /\ pc' = [pc EXCEPT ![r] = label]

Finish(r) ==
    /\ pc' = [pc EXCEPT ![r] = "idle"]
    /\ job' = [job EXCEPT ![r] = NoJob]
    /\ lab' = [lab EXCEPT ![r] = 0]
    /\ row' = [row EXCEPT ![r] = NoRow]
    /\ sum' = [sum EXCEPT ![r] = Nothing]
    /\ UNCHANGED <<todo, choice>>

-----------------------------------------------------------------------------
(* deploy_lab_environment and deploy_lab_project.                          *)

Deploying(r) == pc[r] \in {"lab", "host", "write"}

\* from its first read to its write a deployment minds the others of its host
MindOthers(r, l) ==
    LET others == {o \in Request \ {r} : Deploying(o)}
    IN  /\ mixedLabs'  = mixedLabs \cup {lab[o] : o \in {p \in others : lab[p] = l}}
        /\ mixedHosts' = mixedHosts \cup
               ({labs[l].host} \cap {labs[lab[o]].host : o \in others})

\* the row to replace is read first and stays as it was in the session
Enter(r, l, kind, name) ==
    /\ lab' = [lab EXCEPT ![r] = l]
    /\ \/ /\ ~\E w \in RowsOf(l) : w.kind = kind /\ w.name = name
          /\ row' = [row EXCEPT ![r] = NoRow]
       \/ \E w \in RowsOf(l) : /\ w.kind = kind /\ w.name = name
                               /\ row' = [row EXCEPT ![r] = w]
    /\ MindOthers(r, l)

FirstCheck(l) == IF Unbounded(labs[l].host) THEN "write" ELSE "lab"

BeginDeploy(r) ==
    /\ \E l \in Lab, p \in Payload :
        /\ Start(r, [op |-> "deploy", payload |-> p, method |-> "none"], FirstCheck(l))
        /\ Enter(r, l, p.kind, p.name)
    /\ UNCHANGED <<labs, rows, todo, sum, choice, next, undisturbed, even>>

InSession(r, S) == {IF w.pk = row[r].pk THEN row[r] ELSE w : w \in S}
\* mutation: what is used, without what is asked for
After_Before(r, used) == Minus(used, row[r])

After(r, used) ==
    Plus(Minus(used, row[r]), Effective(labs[lab[r]].host, job[r].payload.ask))

Refuse(r) ==
    /\ Finish(r)
    /\ undisturbed' = undisturbed \ {r}
    /\ UNCHANGED <<labs, rows, next, jobs, mixedLabs, mixedHosts, even>>

CheckLab(r) ==
    LET used == Sum(InSession(r, RowsOf(lab[r])))
    IN  /\ pc[r] = "lab"
        /\ IF Within(After(r, used), labs[lab[r]])
           THEN /\ pc' = [pc EXCEPT ![r] = "host"]
                /\ todo' = [todo EXCEPT ![r] = LabsOn(labs[lab[r]].host)]
                /\ sum' = [sum EXCEPT ![r] = Nothing]
                /\ UNCHANGED <<labs, rows, job, lab, row, choice, next, jobs, history>>
           ELSE Refuse(r)

\* the labs of a host are summed one after the other
ReadLab(r) ==
    /\ pc[r] \in {"host", "room"}
    /\ \E l \in todo[r] :
        /\ sum' = [sum EXCEPT ![r] = Plus(@, Sum(InSession(r, RowsOf(l))))]
        /\ todo' = [todo EXCEPT ![r] = @ \ {l}]
    /\ UNCHANGED <<labs, rows, pc, job, lab, row, choice, next, jobs, history>>

CheckHost(r) ==
    /\ pc[r] = "host" /\ todo[r] = {}
    /\ IF Within(After(r, sum[r]), Total[labs[lab[r]].host])
       THEN /\ pc' = [pc EXCEPT ![r] = "write"]
            /\ UNCHANGED <<labs, rows, job, lab, row, todo, sum, choice, next, jobs, history>>
       ELSE Refuse(r)

\* the row a deployment leaves
NewRow(r, pk) ==
    LET p     == job[r].payload
        grant == Effective(labs[lab[r]].host, p.ask)
    IN  [pk |-> pk, lab |-> lab[r], kind |-> p.kind, name |-> p.name,
         cpu |-> grant.cpu, mb |-> grant.mb, mem |-> grant.mem]

Write(r) ==
    LET p   == job[r].payload
        taken == p.kind = "project" /\ \E w \in RowsOf(lab[r]) : w.kind = p.kind /\ w.name = p.name
        old == {w \in rows : w.pk = row[r].pk}
    IN  /\ pc[r] = "write"
        /\ \/ /\ row[r] = NoRow /\ ~taken
              /\ rows' = rows \cup {NewRow(r, next)}
              /\ next' = next + 1
              /\ even' = (even /\ r \in undisturbed /\ job[r].method = "least_allocated")
           \/ /\ old # {}
              /\ rows' = (rows \ old) \cup {NewRow(r, row[r].pk)}
              /\ next' = next
              /\ even' = FALSE
        /\ undisturbed' = {}
        /\ Finish(r)
        /\ UNCHANGED <<labs, jobs, mixedLabs, mixedHosts>>

\* the lab host refuses; the row to update is gone, or the name taken
Fail(r) ==
    /\ pc[r] = "write"
    /\ Refuse(r)

\* a deletion, by a user or the reconciler
Delete ==
    /\ \E w \in rows : rows' = rows \ {w}
    /\ undisturbed' = {} /\ even' = FALSE
    /\ UNCHANGED <<labs, pc, job, lab, row, todo, sum, choice, next, jobs, mixedLabs, mixedHosts>>

-----------------------------------------------------------------------------
(* The scheduler: deploy_environment_scheduled, deploy_project_scheduled.  *)

BeginSchedule(r) ==
    /\ Lab # {}
    /\ \E p \in Payload, m \in Method :
        Start(r, [op |-> "deploy", payload |-> p, method |-> m], "consider")
    /\ todo' = [todo EXCEPT ![r] = Lab]
    /\ undisturbed' = undisturbed \cup {r}
    /\ UNCHANGED <<labs, rows, lab, row, sum, choice, next, mixedLabs, mixedHosts, even>>

\* mutation: the scheduler looks at the lab only
Fits_LabOnly(l, ask) ==
    Unbounded(labs[l].host) \/ Within(Plus(Sum(RowsOf(l)), InMiB(ask)), labs[l])

\* the checks of a first deployment, with the limits as the payload has them
Fits(l, ask) ==
    LET h == labs[l].host
    IN  Unbounded(h) \/ /\ Within(Plus(Sum(RowsOf(l)), InMiB(ask)), labs[l])
                        /\ Within(Plus(Sum(RowsOn(h)), InMiB(ask)), Total[h])

Eligible(l) == ~labs[l].failed /\ Status[labs[l].host] = "online"

\* mutation: a lab's load is that of its host
Consider_HostLoad(r) ==
    /\ pc[r] = "consider" /\ todo[r] # {}
    /\ LET l == Min(todo[r])
            fits == Fits(l, job[r].payload.ask)
        IN  /\ todo' = [todo EXCEPT ![r] = @ \ {l}]
            /\ choice' = IF Eligible(l) /\ fits
                         THEN [choice EXCEPT ![r] = @ \cup {[id |-> l, used |-> Sum(RowsOn(labs[l].host))]}]
                         ELSE choice
            /\ even' = (even /\ (Eligible(l) => fits))
    /\ UNCHANGED <<labs, rows, pc, job, lab, row, sum, next, jobs, mixedLabs, mixedHosts, undisturbed>>

Consider(r) ==
    /\ pc[r] = "consider" /\ todo[r] # {}
    /\ LET l == Min(todo[r])
            fits == Fits(l, job[r].payload.ask)
        IN  /\ todo' = [todo EXCEPT ![r] = @ \ {l}]
            /\ choice' = IF Eligible(l) /\ fits
                         THEN [choice EXCEPT ![r] = @ \cup {[id |-> l, used |-> Sum(RowsOf(l))]}]
                         ELSE choice
            /\ even' = (even /\ (Eligible(l) => fits))
    /\ UNCHANGED <<labs, rows, pc, job, lab, row, sum, next, jobs, mixedLabs, mixedHosts, undisturbed>>

Select(r) ==
    /\ pc[r] = "consider" /\ todo[r] = {}
    /\ \/ choice[r] = {} /\ Refuse(r)
       \/ \E c \in choice[r] :
            /\ Best(c, [d \in choice[r] |-> LabLoad(d.id, d.used)], job[r].method)
            /\ Enter(r, c.id, job[r].payload.kind, job[r].payload.name)
            /\ pc' = [pc EXCEPT ![r] = FirstCheck(c.id)]
            /\ choice' = [choice EXCEPT ![r] = {}]
            /\ UNCHANGED <<labs, rows, job, todo, sum, next, jobs, undisturbed, even>>

-----------------------------------------------------------------------------
(* create_lab and create_lab_scheduled, as far as the capacity goes.       *)

NewLab == [op : {"create"}, limit : Limit, failed : BOOLEAN, host : Host]

BeginCreate(r) ==
    /\ Len(labs) < MaxLabs
    /\ \E j \in NewLab :
        /\ Status[j.host] = "online"
        /\ Start(r, j, IF Unbounded(j.host) THEN "insert" ELSE "room")
        /\ todo' = [todo EXCEPT ![r] = IF Unbounded(j.host) THEN {} ELSE LabsOn(j.host)]
    /\ UNCHANGED <<labs, rows, lab, row, sum, choice, next, history>>

\* None counts as 0
Wanted(limit) == [cpu |-> IF limit.cpu = NoLimit THEN 0 ELSE limit.cpu,
                  mb  |-> IF limit.mb  = NoLimit THEN 0 ELSE limit.mb]

\* allocations count, the limits of other labs do not
CheckRoom(r) ==
    /\ pc[r] = "room" /\ todo[r] = {}
    /\ IF Within(Plus(sum[r], Wanted(job[r].limit)), Total[job[r].host])
       THEN /\ pc' = [pc EXCEPT ![r] = "insert"]
            /\ UNCHANGED <<labs, rows, job, lab, row, todo, sum, choice, next, jobs, history>>
       ELSE Refuse(r)

BeginCreateScheduled(r) ==
    /\ Len(labs) < MaxLabs
    /\ \E limit \in Limit, failed \in BOOLEAN, m \in Method :
        Start(r, [op |-> "create", limit |-> limit, failed |-> failed, method |-> m], "consider_host")
    /\ todo' = [todo EXCEPT ![r] = Host]
    /\ UNCHANGED <<labs, rows, lab, row, sum, choice, next, history>>

ConsiderHost(r) ==
    /\ pc[r] = "consider_host"
    /\ todo[r] # {}
    /\ LET h == CHOOSE g \in todo[r] : \A k \in todo[r] : HostId[g] <= HostId[k]
            used == Sum(RowsOn(h))
        IN  /\ todo' = [todo EXCEPT ![r] = @ \ {h}]
            /\ choice' = IF /\ Status[h] = "online"
                            /\ \/ Unbounded(h)
                               \/ Within(Plus(used, Wanted(job[r].limit)), Total[h])
                         THEN [choice EXCEPT ![r] = @ \cup {[id |-> HostId[h], host |-> h, used |-> used]}]
                         ELSE choice
    /\ UNCHANGED <<labs, rows, pc, job, lab, row, sum, next, jobs, history>>

SelectHost(r) ==
    /\ pc[r] = "consider_host" /\ todo[r] = {}
    /\ \/ choice[r] = {} /\ Refuse(r)
       \/ \E c \in choice[r] :
            /\ Best(c, [d \in choice[r] |-> HostLoad(d.host, d.used)], job[r].method)
            /\ job' = [job EXCEPT ![r] = [op |-> "create", limit |-> @.limit,
                                          failed |-> @.failed, host |-> c.host]]
            /\ pc' = [pc EXCEPT ![r] = "insert"]
            /\ choice' = [choice EXCEPT ![r] = {}]
            /\ UNCHANGED <<labs, rows, lab, row, todo, sum, next, jobs, history>>

\* an unbounded host's labs have no limits
InsertLab(r) ==
    LET j == job[r]
        limit == IF Unbounded(j.host) THEN [cpu |-> NoLimit, mb |-> NoLimit] ELSE j.limit
    IN  /\ pc[r] = "insert"
        /\ Len(labs) < MaxLabs
        /\ labs' = Append(labs, [host |-> j.host, failed |-> j.failed,
                                  cpu |-> limit.cpu, mb |-> limit.mb])
        /\ even' = (even /\ rows = {})
        /\ undisturbed' = {}
        /\ Finish(r)
        /\ UNCHANGED <<rows, next, jobs, mixedLabs, mixedHosts>>

\* the host is not reached, or the name is taken
FailLab(r) ==
    /\ pc[r] = "insert"
    /\ Refuse(r)

-----------------------------------------------------------------------------

Next ==
    \/ Delete
    \/ \E r \in Request :
        \/ BeginDeploy(r) \/ CheckLab(r) \/ ReadLab(r) \/ CheckHost(r) \/ Write(r) \/ Fail(r)
        \/ BeginSchedule(r) \/ Consider(r) \/ Select(r)
        \/ BeginCreate(r) \/ CheckRoom(r) \/ BeginCreateScheduled(r)
        \/ ConsiderHost(r) \/ SelectHost(r) \/ InsertLab(r) \/ FailLab(r)

Spec == Init /\ [][Next]_vars

-----------------------------------------------------------------------------
(* Properties.                                                             *)

(* A lab whose deployments never overlapped stays within its limits,       *)
(* although the check and the row it stands for are many awaits apart and  *)
(* rows are replaced and deleted meanwhile (controller.py:1250, 1602).     *)
LabsKept == \A l \in Lab \ mixedLabs : Within(Sum(RowsOf(l)), labs[l])

(* A bounded host on which no two deployments overlapped stays within its  *)
(* totals, whatever the limits of its labs add up to.                      *)
HostsKept == \A h \in Host \ mixedHosts : Unbounded(h) \/ Within(Sum(RowsOn(h)), Total[h])

(* Rows hold whole MiB while the lab host gets the limit as it was written *)
(* (parse_memory_limit_to_mb): what a lab's deployments are given exceeds  *)
(* its limit by less than one MiB for each of them.                        *)
GrantsNearLimit ==
    \A l \in Lab \ mixedLabs :
        labs[l].mb # NoLimit =>
            MapThenSumSet(LAMBDA w : w.mem, RowsOf(l)) <= 2 * labs[l].mb + Cardinality(RowsOf(l))

(* A lab the scheduler chose while nothing else was written is not refused *)
(* by the checks of the deployment that follows (controller.py:1895).      *)
ScheduledFits ==
    [][\A r \in undisturbed : pc[r] \in {"lab", "host"} => pc'[r] # "idle"]_vars

(* least_allocated balances: if only the scheduler deploys, nothing is       *)
(* written while it chooses and no lab is full, then no lab is ahead by more*)
(* than one of its deployments (_select_target_lab, _lab_load_score).       *)
Balanced ==
    even => \A l, m \in {n \in Lab : Eligible(n)} :
        \/ RowsOf(l) = {}
        \/ Leq(LabLoad(l, Sum(RowsOf(l))), LabLoad(m, Sum(RowsOf(m))))
        \/ \E w \in RowsOf(l) :
              Leq(LabLoad(l, Sum(RowsOf(l) \ {w})), LabLoad(m, Sum(RowsOf(m))))

=============================================================================
