------------------------------- MODULE Hosts -------------------------------
(***************************************************************************)
(* The registry of lab hosts: controller.register_host and delete_host,    *)
(* the API keys in the secret store (secret_store.py), the wildcard names  *)
(* at the DNS provider (networking/providers.py) and the heartbeats that   *)
(* mark a host online (db/repos/host.py).                                  *)
(*                                                                         *)
(* A machine answers at an address and takes one API key, which its owner  *)
(* may change. A registration has the key the machine took when it was     *)
(* asked for its health; any other is refused before anything changes.     *)
(* A step is the code between two awaits. An update writes the columns the *)
(* request has changed since it read the row, and no others.               *)
(***************************************************************************)
EXTENDS Naturals, FiniteSets

CONSTANTS
    Name, Ip, Key,
    Domain,     \* base domains
    Target,     \* where wildcard names may lead: addresses and names
    PathOf,     \* build_host_api_key_secret_path, which drops characters
    Durable,    \* the secrets are kept in Vault, not in the process
    Registrations,  \* what hosts are registered with
    Request,    \* users' requests
    None,
    MaxJobs,    \* bound on requests
    MaxFaults   \* bound on failed calls, changes of a key and restarts

Path == {PathOf[n] : n \in Name}

ASSUME PathAssumption == DOMAIN PathOf = Name
ASSUME NoneAssumption == None \notin Key \cup Domain \cup Target
ASSUME DurableAssumption == Durable \in BOOLEAN
ASSUME BoundAssumption == MaxJobs \in Nat /\ MaxFaults \in Nat

VARIABLES
    rows,       \* hosts
    key,        \* the API key a machine takes
    secrets,    \* the secret store
    dns,        \* where wildcard names lead
    pc, job,
    found,      \* the row the request has read, or written
    beat,       \* the row the reconciler has read for a heartbeat
    next, jobs, faults,
    \* history
    met,        \* requests that met another, or a change of their host's key
    sound,      \* hosts whose last registration met nothing and went through, and
                \* whose key was not lost since, nor replaced by another host's
    wild        \* hosts whose last registration gave the DNS provider a wildcard name

outside == <<key, dns>>
history == <<met, sound, wild>>
vars == <<rows, outside, secrets, pc, job, found, beat, next, jobs, faults, history>>

NoRow == [id |-> 0]
NoJob == [op |-> "none"]
Status == {"ONLINE", "DRAINING"}
RowType == [id : 1..next, name : Name, ip : Ip, path : Path, status : Status,
            domain : Domain \cup {None}, target : Target \cup {None}]
Payload == [op : {"register"}, name : Name, ip : Ip, status : Status,
            domain : Domain \cup {None}, target : Target \cup {None}]
ASSUME RegistrationAssumption == Registrations \subseteq Payload

Label == {"idle", "name", "ip", "put", "store", "dns"}

TypeOK ==
    /\ rows \subseteq RowType
    /\ \A r, s \in rows : (r.id = s.id \/ r.name = s.name \/ r.ip = s.ip \/ r.path = s.path)
                             => r = s
    /\ key \in [Ip -> Key]
    /\ secrets \in [Path -> Key \cup {None}]
    /\ dns \in [Domain -> Target \cup {None}]
    /\ pc \in [Request -> Label]
    /\ job \in [Request -> {NoJob} \cup [payload : Payload, key : Key]]
    /\ \A a \in Request : job[a] = NoJob <=> pc[a] = "idle"
    /\ found \in [Request -> RowType \cup {NoRow}]
    /\ beat \in RowType \cup {NoRow}
    /\ next \in 1..MaxJobs + 1 /\ jobs \in 0..MaxJobs /\ faults \in 0..MaxFaults
    /\ met \subseteq {a \in Request : pc[a] # "idle"}
    /\ sound \subseteq 1..next /\ wild \subseteq 1..next

Init ==
    /\ rows = {} /\ key \in [Ip -> Key]
    /\ secrets = [p \in Path |-> None] /\ dns = [d \in Domain |-> None]
    /\ pc = [a \in Request |-> "idle"] /\ job = [a \in Request |-> NoJob]
    /\ found = [a \in Request |-> NoRow] /\ beat = NoRow
    /\ next = 1 /\ jobs = 0 /\ faults = 0
    /\ met = {} /\ sound = {} /\ wild = {}

Ids(s) == {r.id : r \in s}
Fault == faults < MaxFaults /\ faults' = faults + 1
Goto(a, label) == pc' = [pc EXCEPT ![a] = label] /\ UNCHANGED <<job, met>>

\* the request ends, with an answer or an error
Leave(a) ==
    /\ pc' = [pc EXCEPT ![a] = "idle"] /\ job' = [job EXCEPT ![a] = NoJob]
    /\ found' = [found EXCEPT ![a] = NoRow] /\ met' = met \ {a}

-----------------------------------------------------------------------------
(* register_host                                                           *)

\* rows a payload is about
About(p) == {r \in rows : r.name = p.name \/ r.ip = p.ip \/ r.path = PathOf[p.name]}

Meet(p, q) == \/ p.name = q.name \/ p.ip = q.ip \/ PathOf[p.name] = PathOf[q.name]
              \/ About(p) \cap About(q) # {}

\* a payload meets a request with such a payload, or at work on a row it is about
Meets(b, p) == Meet(job[b].payload, p) \/ found[b].id \in Ids(About(p))

\* GET /health has been answered with a code below 400
Begin(a) ==
    \E p \in Registrations :
        LET others == {b \in Request : pc[b] # "idle" /\ Meets(b, p)} IN
        /\ pc[a] = "idle" /\ jobs < MaxJobs
        /\ jobs' = jobs + 1
        /\ pc' = [pc EXCEPT ![a] = "name"]
        /\ job' = [job EXCEPT ![a] = [payload |-> p, key |-> key[p.ip]]]
        /\ IF others = {} THEN UNCHANGED history
           ELSE LET touched == Ids(About(p) \cup UNION {About(job[b].payload) : b \in others}
                                     \cup {found[b] : b \in others})
                IN  /\ met' = met \cup others \cup {a}
                    /\ sound' = sound \ touched /\ wild' = wild \ touched
        /\ UNCHANGED <<rows, outside, secrets, found, beat, next, faults>>

\* host_repo.get_by_hostname
FindName(a) ==
    /\ pc[a] = "name"
    /\ \/ \E r \in rows : r.name = job[a].payload.name /\ found' = [found EXCEPT ![a] = r]
       \/ (\A r \in rows : r.name # job[a].payload.name) /\ found' = found
    /\ Goto(a, "ip")
    /\ UNCHANGED <<rows, outside, secrets, beat, next, jobs, faults, sound, wild>>

\* host_repo.get_by_ip, and 409 if name and address are two hosts'
FindIp(a) ==
    LET byIp == {r \in rows : r.ip = job[a].payload.ip} IN
    /\ pc[a] = "ip"
    /\ \/ /\ found[a] # NoRow /\ \E r \in byIp : r.id # found[a].id
          /\ Leave(a)
       \/ /\ found[a] # NoRow /\ \A r \in byIp : r.id = found[a].id
          /\ found' = found /\ Goto(a, "put")
       \/ /\ found[a] = NoRow
          /\ found' = [found EXCEPT ![a] = IF byIp = {} THEN NoRow ELSE CHOOSE r \in byIp : TRUE]
          /\ Goto(a, "put")
    /\ UNCHANGED <<rows, outside, secrets, beat, next, jobs, faults, sound, wild>>

\* put_secret; Vault may fail, or time out and store the key
Put(a) ==
    LET p == PathOf[job[a].payload.name]
        stored == secrets' = [secrets EXCEPT ![p] = job[a].key] IN
    /\ pc[a] = "put"
    /\ \/ /\ stored /\ Goto(a, "store") /\ UNCHANGED <<found, faults>>
          /\ sound' = sound \ Ids({r \in rows : r.path = p /\ r.id # found[a].id})
       \/ Durable /\ Fault /\ secrets' = secrets /\ sound' = sound /\ Leave(a)
       \/ /\ Durable /\ Fault /\ stored /\ Leave(a)
          /\ sound' = sound \ Ids({r \in rows : r.path = p})
    /\ UNCHANGED <<rows, outside, beat, next, jobs, wild>>

\* the row as the payload has it
Asked(a, id) ==
    LET p == job[a].payload IN
    [id |-> id, name |-> p.name, ip |-> p.ip, path |-> PathOf[p.name], status |-> p.status,
     domain |-> p.domain, target |-> p.target]

\* mutation: every column is written
Merged_All(now, read, asked) == asked

\* the row with the columns that were changed
Merged(now, read, asked) ==
    [c \in DOMAIN now |-> IF asked[c] = read[c] THEN now[c] ELSE asked[c]]

\* mutation: an address may be two hosts'
Unique_ButIp(r, s) == \A t \in s : r.name # t.name /\ r.path # t.path

\* hostname, ip_address and api_key_secret_path are unique
Unique(r, s) == \A t \in s : r.name # t.name /\ r.ip # t.ip /\ r.path # t.path

\* the row has a base domain and an ingress target
HasWildcard(r) == r.domain # None /\ r.target # None

Stored(a, r) ==
    /\ sound' = IF a \in met THEN sound \ {r.id} ELSE sound \cup {r.id}
    /\ wild' = wild \ {r.id}
    /\ IF HasWildcard(r) THEN Goto(a, "dns") /\ found' = [found EXCEPT ![a] = r]
       ELSE Leave(a)

\* host_repo.insert
Insert(a) ==
    LET r == Asked(a, next) IN
    /\ pc[a] = "store" /\ found[a] = NoRow
    /\ IF Unique(r, rows)
       THEN rows' = rows \cup {r} /\ next' = next + 1 /\ Stored(a, r)
       ELSE UNCHANGED <<rows, next, sound, wild>> /\ Leave(a)
    /\ UNCHANGED <<outside, secrets, beat, jobs, faults>>

\* host_repo.update: StaleDataError when the row has gone
Update(a) ==
    LET now == {r \in rows : r.id = found[a].id}
        others == rows \ now
        becomes == {Merged(r, found[a], Asked(a, r.id)) : r \in now} IN
    /\ pc[a] = "store" /\ found[a] # NoRow
    /\ IF now # {} /\ \A r \in becomes : Unique(r, others)
       THEN rows' = others \cup becomes /\ \E r \in becomes : Stored(a, r)
       ELSE UNCHANGED <<rows, sound, wild>> /\ Leave(a)
    /\ UNCHANGED <<outside, secrets, beat, next, jobs, faults>>

\* mutation: the wildcard name is left to a host that has it
Wildcard_FirstOnly(r) == dns' = [dns EXCEPT ![r.domain] = IF @ = None THEN r.target ELSE @]

\* the provider's record of the name is replaced
Wildcard(r) == dns' = [dns EXCEPT ![r.domain] = r.target]

\* _ensure_dns_wildcard_for_host; the row stays when it fails
EnsureDns(a) ==
    LET r == found[a]
        same == Ids({s \in rows : s.domain = r.domain}) IN
    /\ pc[a] = "dns"
    /\ \/ /\ Wildcard(r) /\ faults' = faults
          /\ wild' = IF a \in met THEN wild \ same ELSE (wild \ same) \cup {r.id}
       \/ Fault /\ UNCHANGED <<dns, wild>>
       \/ Fault /\ Wildcard(r) /\ wild' = wild \ same
    /\ Leave(a)
    /\ UNCHANGED <<rows, key, secrets, beat, next, jobs, sound>>

-----------------------------------------------------------------------------
(* Beside it.                                                              *)

\* delete_host; the secret and the wildcard name stay
Delete(a) ==
    /\ pc[a] = "idle" /\ jobs < MaxJobs
    /\ jobs' = jobs + 1
    /\ \E r \in rows : rows' = rows \ {r}
    /\ UNCHANGED <<outside, secrets, pc, job, found, beat, next, faults, history>>

\* resolve_from_heartbeat_payload
ReadBeat ==
    /\ beat = NoRow
    /\ \E r \in rows : beat' = r
    /\ UNCHANGED <<rows, outside, secrets, pc, job, found, next, jobs, faults, history>>

\* mark_online; it raises when the row has gone
WriteBeat ==
    LET now == {r \in rows : r.id = beat.id} IN
    /\ beat # NoRow
    /\ rows' = (rows \ now) \cup {Merged(r, beat, [beat EXCEPT !.status = "ONLINE"]) : r \in now}
    /\ beat' = NoRow
    /\ UNCHANGED <<outside, secrets, pc, job, found, next, jobs, faults, history>>

\* a machine is given another key
Rekey(i) ==
    /\ Fault
    /\ \E k \in Key \ {key[i]} : key' = [key EXCEPT ![i] = k]
    /\ met' = met \cup {a \in Request : pc[a] # "idle" /\ job[a].payload.ip = i}
    /\ sound' = sound \ Ids({r \in rows : r.ip = i})
    /\ UNCHANGED <<rows, dns, secrets, pc, job, found, beat, next, jobs, wild>>

\* the control plane restarts: requests end where they are
Restart ==
    LET cut == {PathOf[job[a].payload.name] : a \in {b \in Request : pc[b] = "store"}} IN
    /\ Fault
    /\ secrets' = IF Durable THEN secrets ELSE [p \in Path |-> None]
    /\ pc' = [a \in Request |-> "idle"] /\ job' = [a \in Request |-> NoJob]
    /\ found' = [a \in Request |-> NoRow] /\ beat' = NoRow
    /\ met' = {}
    /\ sound' = IF Durable THEN sound \ Ids({r \in rows : r.path \in cut}) ELSE {}
    /\ UNCHANGED <<rows, outside, next, jobs, wild>>

Next ==
    \/ \E a \in Request : Begin(a) \/ FindName(a) \/ FindIp(a) \/ Put(a) \/ Insert(a)
                             \/ Update(a) \/ EnsureDns(a) \/ Delete(a)
    \/ ReadBeat \/ WriteBeat \/ Restart
    \/ \E i \in Ip : Rekey(i)

Spec == Init /\ [][Next]_vars

-----------------------------------------------------------------------------

\* A host whose registration went through, without meeting another request for
\* its name, address or key, can be called: the key its row leads to is the one
\* its machine takes. Renaming and moving hosts, refused registrations of
\* others, heartbeats, deletions and restarts leave this so (register_host,
\* resolve_lab_host_connection), except where a registration of another
\* hostname with this one's path has replaced the key, and where a restart has
\* emptied a store that is not Vault. While another key is being stored for the
\* host, it may be out of step with the row.
Manageable ==
    \A r \in rows :
        r.id \in sound /\ (\A a \in Request : pc[a] = "store"
                               => PathOf[job[a].payload.name] # r.path)
            => secrets[r.path] = key[r.ip]

\* The wildcard name of a host whose last registration asked for one, met no
\* other and got an answer leads where the host's row says, unless a later
\* registration took the name (_ensure_dns_wildcard_for_host). A registration
\* without a base domain or an ingress target leaves the provider's record as
\* it is, and so does a deletion.
WildcardsFollow ==
    \A r \in rows : r.id \in wild => HasWildcard(r) /\ dns[r.domain] = r.target

=============================================================================
