----------------------------- MODULE CliContext -----------------------------
(***************************************************************************)
(* What the command line keeps of the machines: the Ansible inventory      *)
(* (cli/core/ansible/inventory.py) and the devices of infra_state.yaml     *)
(* (cli/core/infra/state.py), and the commands that provision, bootstrap,  *)
(* destroy and remove machines (cli/core/click/cli.py) against what then   *)
(* runs on them.                                                           *)
(*                                                                         *)
(* The commands of one user follow each other, so an action is a command,  *)
(* up to where it fails. A playbook for a host the inventory does not have *)
(* does nothing and succeeds: Ansible skips a play without hosts.          *)
(***************************************************************************)
EXTENDS Naturals, Sequences, FiniteSets, SequencesExt

CONSTANTS
    Ip, Name,
    Local, LocalName,   \* 127.0.0.1 and localhost
    LocalNode,  \* local-node, if the inventory of cli/data is there, or None
    Given,      \* the addresses users give a name
    Aliases,    \* what users give --register-ip and --lab-host-id
    GroupOrder, \* the order in which the inventory got its groups
    Kinds,      \* the kinds of provisioning in use
    Faults,     \* the commands whose playbooks or calls may fail
    Stuck,      \* the containers Docker may refuse to remove
    MaxCommands,    \* bound on commands
    None

Id == Ip \cup Name
Group == {"local", "lan", "control_plane", "lab_hosts"}
Part == {"cp", "lab", "work"}
Role == {None} \cup [target : Id, at : Ip, also : SUBSET Id]

\* assumed by Machines
LocalAssumption == Local \in Ip /\ LocalName \in Name /\ LocalNode \in Name \cup {None}
NameAssumption ==
    /\ IsFiniteSet(Id) /\ Ip \cap Name = {}
    /\ None \notin Id \cup [target : Id, at : Ip, also : SUBSET Id]
GivenAssumption ==
    /\ Given \in [Name -> SUBSET Ip]
    /\ \A n \in Name : n \in {LocalName, LocalNode} => Given[n] \subseteq {Local}
AliasAssumption == Aliases \subseteq Id
GroupAssumption == GroupOrder \in Seq(Group) /\ Range(GroupOrder) = Group /\ IsInjective(GroupOrder)
KindAssumption == Kinds \subseteq {"local", "lan", "cloud"}
BoundAssumption == MaxCommands \in Nat
FaultAssumption == Faults \subseteq {"provision", "bootstrap", "destroy"} /\ Stuck \subseteq Part

\* users give a name to one machine
OneMachine == \A n \in Name : \E m \in Ip : Given[n] = {m}

VARIABLES
    inv,            \* the inventory
    devices, type,  \* infra_state.yaml
    runs,           \* what runs on a machine: cp, lab (the lab host), work (labs)
    reg,            \* the lab hosts registered with a machine's control plane
    count,          \* commands so far
    made,           \* machines Terraform made
    \* history
    means,          \* the machine a name was last given to, or has for good
    letGo,          \* machines the user took out of the context as they were, or
                    \* on which Docker refused a removal
    last,           \* the last command, and the machines it was about
    clean           \* nothing but a destruction has failed, and Terraform made nothing

context == <<inv, devices, type>>
world == <<runs, reg, made>>
vars == <<context, world, count, means, letGo, last, clean>>

Device == [key : Ip, ip : Ip, name : Name \cup {None}, cp : Role, lab : Role]

TypeOK ==
    /\ inv \in [Group -> [Id -> Ip \cup {None}]]
    /\ devices \in Seq(Device)
    /\ \A i, j \in DOMAIN devices : devices[i].key = devices[j].key => i = j
    /\ type \in {None, "local", "lan", "cloud"}
    /\ runs \in [Ip -> SUBSET Part]
    /\ reg \in [Ip -> SUBSET Ip] /\ made \subseteq Ip
    /\ \A m \in Ip : "cp" \notin runs[m] => reg[m] = {}
    /\ means \in [Name -> Ip \cup {None}]
    /\ letGo \subseteq Ip /\ count \in 0..MaxCommands
    /\ last \in [op : {"other", "destroy", "all"}, on : SUBSET Ip]
    /\ clean \in BOOLEAN /\ (clean => made = {})

-----------------------------------------------------------------------------
(* The inventory.                                                          *)

NoInv == [g \in Group |-> [h \in Id |-> None]]

Listed(h) == \E g \in Group : inv[g][h] # None

\* a host has the variables of the last group that has it
Where(h) ==
    LET g == SelectLastInSeq(GroupOrder, LAMBDA x : inv[x][h] # None) IN
    IF g = 0 THEN None ELSE inv[GroupOrder[g]][h]

\* _resolve_device: the hosts a device may be, with their addresses
Resolve(d) ==
    CASE Listed(d) -> {[host |-> d, at |-> Where(d)]}
      [] ~Listed(d) /\ \E h \in Id : Where(h) = d ->
            {[host |-> h, at |-> d] : h \in {x \in Id : Where(x) = d}}
      [] OTHER -> IF d \in Ip THEN {[host |-> d, at |-> d]}
                  ELSE IF d = LocalName THEN {[host |-> d, at |-> Local]} ELSE {}

\* _remove_hosts_from_inventory
Prune(iv, hosts) ==
    [g \in Group |-> [h \in Id |-> IF h \in hosts \/ iv[g][h] \in hosts THEN None ELSE iv[g][h]]]

-----------------------------------------------------------------------------
(* The devices.                                                            *)

\* _find_device_key, or the entry whose key is the address, or a new one
At(ds, ip, name) ==
    LET known == SelectInSeq(ds, LAMBDA e : e.ip = ip \/ (name # None /\ e.name = name))
        keyed == SelectInSeq(ds, LAMBDA e : e.key = ip)
    IN  IF known # 0 THEN known ELSE IF keyed # 0 THEN keyed ELSE Len(ds) + 1

Upsert(ds, ip, name) ==
    LET k == At(ds, ip, name) IN
    IF k <= Len(ds)
    THEN [ds EXCEPT ![k].ip = ip, ![k].name = IF name # None THEN name ELSE @]
    ELSE Append(ds, [key |-> ip, ip |-> ip, name |-> name, cp |-> None, lab |-> None])

\* set_control_plane, set_lab_host
SetRole(ds, to, role, also) ==
    LET name == IF to.host = to.at THEN None ELSE to.host IN
    [Upsert(ds, to.at, name) EXCEPT ![At(ds, to.at, name)][role] =
        [target |-> to.host, at |-> to.at, also |-> also]]

\* also: register_ip and lab_host_id, which may be what another device is called
Named(role) == IF role = None THEN {} ELSE {role.target, role.at} \cup role.also
Identifiers(e) == ({e.key, e.ip, e.name} \cup Named(e.cp) \cup Named(e.lab)) \ {None}

\* what a host of the group is called, for those in s
InGroup(s, group) ==
    s \cup UNION {{h, group[h]} : h \in {x \in Id : group[x] # None /\ {x, group[x]} \cap s # {}}}
InDevice(s, e) == IF Identifiers(e) \cap s # {} THEN s \cup Identifiers(e) ELSE s

\* _expand_host_identifiers: one pass over the groups, one over the devices
InGroups(iv, hosts) == FoldLeft(LAMBDA s, g : InGroup(s, iv[g]), hosts, GroupOrder)
InDevices(hosts) == FoldLeft(InDevice, hosts, devices)
Expand(iv, hosts) == InDevices(InGroups(iv, hosts))

\* mutation: every device of the state
Keys_All(iv, hosts) == {e.key : e \in Range(devices)}

\* _device_keys_for_identifiers
Keys(iv, hosts) ==
    {e.key : e \in {x \in Range(devices) : Identifiers(x) \cap Expand(iv, hosts) # {}}}

\* the devices of a set, in their order
Only(S) == FoldLeft(LAMBDA ds, e : IF e \in S THEN Append(ds, e) ELSE ds, <<>>, devices)

Without(keys) == Only({e \in Range(devices) : e.key \notin keys})

\* find_device
Find(d) ==
    LET k == SelectInSeq(devices, LAMBDA e : d \in Identifiers(e)) IN
    IF k = 0 THEN {} ELSE {Identifiers(devices[k])}

\* _resolve_destroy_hosts for a device: what it may be taken for
Targets(d) ==
    IF Resolve(d) # {} THEN {{r.host, r.at} : r \in Resolve(d)} ELSE Find(d)

-----------------------------------------------------------------------------
(* Schema 1, which InfraState migrates: devices keyed by their addresses.  *)

\* mutation: devices are keyed by what was typed for them
MigrateOne_ByTarget(ds, l) ==
    LET k == SelectInSeq(ds, LAMBDA e : Named(e.cp) \cup Named(e.lab) = {l.target, l.at})
        e == IF k = 0 THEN [key |-> l.at, ip |-> l.at, name |-> None, cp |-> None, lab |-> None]
             ELSE ds[k]
        f == [e EXCEPT ![l.role] = [target |-> l.target, at |-> l.at, also |-> {}]]
    IN  IF k = 0 THEN Append(ds, f) ELSE [ds EXCEPT ![k] = f]

MigrateOne(ds, l) ==
    LET k == SelectInSeq(ds, LAMBDA e : e.key = l.at)
        named == IF l.target \in Ip THEN None ELSE l.target
        e == IF k = 0 THEN [key |-> l.at, ip |-> l.at, name |-> named, cp |-> None, lab |-> None]
             ELSE [ds[k] EXCEPT !.name = IF named # None THEN named ELSE @]
        f == [e EXCEPT ![l.role] = [target |-> l.target, at |-> l.at, also |-> {}]]
    IN  IF k = 0 THEN Append(ds, f) ELSE [ds EXCEPT ![k] = f]

\* _migrate_legacy_payload: the control plane, then the lab hosts
Migrate(legacy) == FoldLeft(MigrateOne, <<>>, legacy)

\* what an earlier version kept of a control plane, a lab host and a machine
Legacy ==
    LET entry(role) == {[role |-> role, target |-> t, at |-> m] :
                            m \in Ip, t \in Id}
        sound(l) == l.target = l.at \/ (l.target \in Name /\ Given[l.target] = {l.at})
    IN  {<<>>} \cup {<<c, b>> : c \in {e \in entry("cp") : sound(e)},
                               b \in {e \in entry("lab") : sound(e)}}

GroupOf == [cp |-> "control_plane", lab |-> "lab_hosts"]

Quiet == [op |-> "other", on |-> {}]

Counted == count < MaxCommands /\ count' = count + 1

\* the inventory of cli/data, if it is there
Shipped ==
    [g \in Group |-> [h \in Id |->
        IF \/ g = "local" /\ h = LocalNode
           \/ g \in {"control_plane", "lab_hosts"} /\ h = LocalName /\ LocalNode # None
        THEN Local ELSE None]]

Init ==
    \E old \in Legacy, begun \in {NoInv, Shipped} :
        LET Has(m, role) == \E i \in DOMAIN old : old[i].at = m /\ old[i].role = role IN
        /\ devices = Migrate(old)
        /\ inv = [g \in Group |-> [h \in Id |->
                    IF \E i \in DOMAIN old : GroupOf[old[i].role] = g /\ old[i].target = h
                    THEN (CHOOSE l \in Range(old) : GroupOf[l.role] = g /\ l.target = h).at
                    ELSE begun[g][h]]]
        /\ type = IF old = <<>> THEN None ELSE "lan"
        /\ runs = [m \in Ip |-> {r \in {"cp", "lab"} : Has(m, r)}]
        /\ reg = [m \in Ip |-> IF Has(m, "cp") THEN {h \in Ip : Has(h, "lab")} ELSE {}]
        /\ made = {} /\ count = 0 /\ letGo = {} /\ last = Quiet /\ clean = TRUE
        /\ means = [n \in Name |-> IF Cardinality(Given[n]) = 1 THEN CHOOSE m \in Given[n] : TRUE
                                   ELSE None]

-----------------------------------------------------------------------------
(* infra provision.                                                        *)

ProvisionLocal(name) ==
    /\ Counted /\ "local" \in Kinds /\ Local \in Given[name]
    /\ inv' = [inv EXCEPT !["local"][name] = Local]
    /\ type' = "local"
    /\ devices' = Upsert(devices, Local, IF name = LocalName THEN None ELSE name)
    /\ means' = [means EXCEPT ![name] = Local]
    /\ last' = Quiet
    /\ UNCHANGED <<world, letGo, clean>>

\* one machine, with a name or without
ProvisionLan(m, name) ==
    LET host == IF name = None THEN m ELSE name
        listed == [inv EXCEPT !["lan"][host] = m] IN
    /\ Counted /\ "lan" \in Kinds /\ m # Local /\ (name # None => name # LocalName /\ m \in Given[name])
    /\ last' = Quiet
    /\ \/ /\ inv' = listed /\ type' = "lan"
          /\ devices' = IF name = None THEN Upsert(devices, m, None)
                        ELSE Upsert(Upsert(devices, m, None), m, name)
          /\ means' = IF name = None THEN means ELSE [means EXCEPT ![name] = m]
          /\ UNCHANGED clean
       \/ /\ "provision" \in Faults /\ inv' = Prune(listed, {host}) /\ clean' = FALSE
          /\ UNCHANGED <<devices, type, means>>
    /\ UNCHANGED <<world, letGo>>

\* infra_provision, for machines without names
UpsertAll(ds, ms) == FoldLeft(LAMBDA es, m : Upsert(es, m, None), ds, ms)

\* Terraform makes machines, which are not put into the inventory
ProvisionCloud(ms) ==
    /\ Counted /\ "cloud" \in Kinds /\ made = {} /\ Local \notin ms
    /\ \A m \in ms : runs[m] = {} /\ \A e \in Range(devices) : e.ip # m
    /\ made' = ms /\ type' = "cloud"
    /\ devices' = UpsertAll(devices, SetToSeq(ms))
    /\ last' = Quiet /\ clean' = FALSE
    /\ UNCHANGED <<inv, runs, reg, means, letGo>>

-----------------------------------------------------------------------------
(* infra bootstrap: what is deployed, registered and kept.                 *)

\* get_control_plane
ControlPlane ==
    LET k == SelectInSeq(devices, LAMBDA e : e.cp # None) IN
    IF k = 0 THEN None ELSE devices[k].cp.at

\* _ensure_inventory_host
Enlist(group, to) == inv' = [inv EXCEPT ![group][to.host] = to.at]

Deployed(m, role) == [runs EXCEPT ![m] = @ \cup {role}]

BootstrapControlPlane(d) ==
    \E to \in Resolve(d) :
        /\ Counted /\ Enlist("control_plane", to) /\ last' = Quiet
        /\ \/ /\ runs' = Deployed(to.at, "cp") /\ devices' = SetRole(devices, to, "cp", {})
              /\ UNCHANGED clean
           \/ \* it fails before or after the containers are there
              /\ "bootstrap" \in Faults /\ clean' = FALSE
              /\ runs' \in {runs, Deployed(to.at, "cp")} /\ UNCHANGED devices
        /\ UNCHANGED <<type, reg, made, means, letGo>>

\* where a registration leads: to the machine itself, if --register-ip is not given
Leads(ip, m) == IF ip = None THEN {m} ELSE IF ip \in Ip THEN {ip} ELSE Given[ip]

\* _register_lab_host, answered by the control plane's register_host, which
\* asks the lab host at that address for its health
Registered(cp, hosts) ==
    \E h \in hosts : /\ "cp" \in runs[cp] /\ "lab" \in runs'[h]
                     /\ reg' = [reg EXCEPT ![cp] = @ \cup {h}]

BootstrapLabHost(d) ==
    \E to \in Resolve(d), ip \in Aliases \cup {None}, id \in Aliases \cup {None} :
        /\ Counted /\ ControlPlane # None
        /\ Enlist("lab_hosts", to) /\ last' = Quiet
        /\ \/ /\ runs' = Deployed(to.at, "lab")
              /\ Registered(ControlPlane, Leads(ip, to.at))
              /\ \/ devices' = SetRole(devices, to, "lab", {ip, id} \ {None}) /\ UNCHANGED clean
                 \/ \* the answer does not come
                    "bootstrap" \in Faults /\ clean' = FALSE /\ UNCHANGED devices
           \/ \* it fails, as it does without the control plane, before or after the containers are there
              /\ "bootstrap" \in Faults /\ clean' = FALSE
              /\ runs' \in {runs, Deployed(to.at, "lab")} /\ UNCHANGED <<reg, devices>>
        /\ UNCHANGED <<type, made, means, letGo>>

\* users run labs on a lab host that can be called
RunLab(h) ==
    /\ Counted /\ "lab" \in runs[h] /\ \E c \in Ip : h \in reg[c]
    /\ runs' = [runs EXCEPT ![h] = @ \cup {"work"}]
    /\ last' = Quiet
    /\ UNCHANGED <<context, reg, made, means, letGo, clean>>

-----------------------------------------------------------------------------
(* infra destroy.                                                          *)

\* mutation: the address is taken for the host's name
TargetHost_Address(e) == e.ip

\* _device_target_host
TargetHost(e) == IF e.cp # None THEN e.cp.target ELSE IF e.lab # None THEN e.lab.target ELSE e.ip

\* containers that are not removed, and the machines they are on
Refusals == {s \in [Ip -> SUBSET Stuck] : \A m \in Ip : s[m] \subseteq runs[m]}
NoneRefused == [m \in Ip |-> {}]

\* docker rm -f: what of a machine is removed, but for what stays
Removed(w, m, what, stays) ==
    IF m = None THEN w ELSE [w EXCEPT !.runs[m] = @ \ (what \ stays[m])]

\* _destroy_all_labs_via_control_plane, _prune_and_remove_hosts_via_control_plane:
\* the first lab whose host does not answer ends both; labs in early come before
Swept(w, c, early) ==
    LET working == {h \in w.reg[c] : "work" \in w.runs[h]}
        answers == {h \in w.reg[c] : "lab" \in w.runs[h]}
        gone == IF w.reg[c] \subseteq answers THEN working ELSE working \cap answers \cap early
    IN  IF "cp" \notin w.runs[c] THEN w
        ELSE [runs |-> [h \in Ip |-> IF h \in gone THEN w.runs[h] \ {"work"} ELSE w.runs[h]],
              reg |-> IF w.reg[c] \subseteq answers THEN [w.reg EXCEPT ![c] = {}] ELSE w.reg]

\* lab_host.teardown.yaml, which succeeds when a removal is refused
Unhosted(w, e, stays) ==
    IF e.lab = None THEN w ELSE Removed(w, Where(TargetHost(e)), {"lab"}, stays)

\* ... then the control plane's API
Begun(w, e, early, stays) ==
    IF e.cp = None THEN Unhosted(w, e, stays) ELSE Swept(Unhosted(w, e, stays), e.cp.at, early)

\* ... then all containers: control_plane.teardown.yaml, or, for a device that
\* is neither, host.teardown.containers.yaml
Emptied(w, e, early, stays) == Removed(Begun(w, e, early, stays), Where(TargetHost(e)), Part, stays)

\* the first of these succeeds when removals are refused, the second does not
Torn(w, e, early, stays) ==
    CASE e.cp # None -> Emptied(w, e, early, stays)
      [] e.cp = None /\ e.lab # None -> Unhosted(w, e, stays)
      [] OTHER -> Emptied(w, e, early, NoneRefused)

\* playbooks one after the other, of devices or, where there is none, of hosts
Running == [runs |-> runs, reg |-> reg]
TornAll(order, early, stays) ==
    FoldLeft(LAMBDA w, e : Torn(w, e, early, stays), Running, order)
EmptiedAll(hosts) ==
    FoldLeft(LAMBDA w, h : Removed(w, Where(h), Part, NoneRefused), Running, hosts)

\* _remove_hosts_from_inventory, then _remove_hosts_from_state with what is left
Forget(hosts) == inv' = Prune(inv, hosts) /\ devices' = Without(Keys(inv', hosts))

\* the order of a teardown: control planes last
Order(keys) ==
    LET chosen == {e \in Range(devices) : e.key \in keys} IN
    Only({e \in chosen : e.cp = None}) \o Only({e \in chosen : e.cp # None})

\* mutation: the volume of the database is kept
Become_KeepsVolumes(w) == runs' = w.runs /\ reg' = w.reg

\* with its control plane, a machine loses the database
Become(w) ==
    /\ runs' = w.runs
    /\ reg' = [m \in Ip |-> IF "cp" \in w.runs[m] THEN w.reg[m] ELSE {}]

\* machines of those given on which a control plane or a lab host is left
Loaded(w, ms) == {m \in ms : w.runs[m] \cap {"cp", "lab"} # {}}

\* mutation: the inventory is cleared before the playbooks have succeeded
DestroyFails_Pruned(hosts, order, early, stays) ==
    \E n \in 0..Len(order) - 1 :
        LET w == TornAll(SubSeq(order, 1, n), early, stays) IN
        /\ "destroy" \in Faults /\ Become(w)
        /\ inv' = Prune(inv, UNION {Identifiers(e) : e \in Range(order)})
        /\ UNCHANGED <<devices, type, made, letGo>>

\* a playbook fails: nothing of the context is changed
DestroyFails(hosts, order, early, stays) ==
    /\ "destroy" \in Faults
    /\ \/ \* a device's: before it has done anything, or part of it, or all
          \E n \in 0..Len(order) - 1 :
              LET w == TornAll(SubSeq(order, 1, n), early, stays)
                  e == order[n + 1] IN
              \/ Become(w)
              \/ Become(Unhosted(w, e, stays))
              \/ Become(Begun(w, e, early, stays))
              \/ (e.cp # None \/ e.lab = None) /\ Become(Emptied(w, e, early, stays))
       \/ \* a host's, where there is no device
          /\ order = <<>>
          /\ \E done \in SUBSET hosts : \E h \in hosts \ done :
              LET w == EmptiedAll(SetToSeq(done)) IN
              Become(w) \/ Become(Removed(w, Where(h), Part, stays))
    /\ UNCHANGED <<context, made, letGo>>

\* the hosts have been torn down, in the order given
DestroyEnds(hosts, order, early, stays) ==
    LET torn == IF order # <<>> THEN TornAll(order, early, stays) ELSE EmptiedAll(SetToSeq(hosts))
        cloud == type \notin {"local", "lan"}
        after == IF cloud THEN [torn EXCEPT !.runs = [m \in Ip |-> IF m \in made THEN {} ELSE @[m]]]
                 ELSE torn
        free == letGo \cup {m \in Ip : stays[m] # {}}
    IN  \/ \* to the end; the context is cleared with a control plane
           /\ Become(after) /\ made' = IF cloud THEN {} ELSE made
           /\ IF \E i \in DOMAIN order : order[i].cp # None
              THEN /\ inv' = NoInv /\ devices' = <<>> /\ type' = None
                   /\ letGo' = Loaded(after, Ip)
              ELSE /\ Forget(hosts) /\ UNCHANGED type
                   /\ letGo' = Loaded(after, free)
        \/ \* Terraform fails
           /\ cloud /\ "destroy" \in Faults
           /\ Become(torn) /\ Forget(hosts) /\ letGo' = Loaded(torn, free)
           /\ UNCHANGED <<type, made>>

\* the machines a user means by a device
Meant(d) == IF d \in Ip THEN {d} ELSE {means[d]} \ {None}

\* the machines of a device: its own and those its registration is called by
Tied(e) == {e.ip} \cup UNION {Meant(x) : x \in IF e.lab = None THEN {} ELSE e.lab.also}

Together(ms) == \A e \in Range(devices) : Tied(e) \cap ms # {} => Tied(e) \subseteq ms

\* the least set of machines with what the user means that keeps devices together
Asked(d) == {m \in Ip : \A ms \in SUBSET Ip : Meant(d) \subseteq ms /\ Together(ms) => m \in ms}

Working == {m \in Ip : "work" \in runs[m]}

Destroy(d) ==
    \E hosts \in Targets(d), early \in SUBSET Working, stays \in Refusals :
        LET order == Order(Keys(inv, hosts)) IN
        /\ Counted
        /\ DestroyFails(hosts, order, early, stays) \/ DestroyEnds(hosts, order, early, stays)
        /\ last' = [op |-> "destroy", on |-> Asked(d)]
        /\ UNCHANGED <<means, clean>>

\* _collect_context_hosts
ContextHosts == UNION {Identifiers(e) : e \in Range(devices)}

\* without a device: all the context has
DestroyAll ==
    LET hosts == ContextHosts
        order == Order(Keys(inv, hosts))
        cps == {e.cp.at : e \in {x \in Range(devices) : x.cp # None}} IN
    \E early \in SUBSET Working, stays \in Refusals :
        /\ Counted
        /\ \/ DestroyFails(hosts, order, early, stays) /\ last' = Quiet
           \/ /\ DestroyEnds(hosts, order, early, stays)
              /\ last' = [op |-> "all", on |-> UNION {reg[c] : c \in cps}]
        /\ UNCHANGED <<means, clean>>

\* infra remove-device, infra destroy --force
RemoveHosts(hosts, ms) ==
    /\ Counted /\ Forget(hosts)
    /\ letGo' = letGo \cup Loaded(Running, ms)
    /\ last' = Quiet
    /\ UNCHANGED <<type, world, means, clean>>

RemoveDevice(d) == \E hosts \in Targets(d) : RemoveHosts(hosts, Asked(d))

RemoveAll == RemoveHosts(ContextHosts, {e.ip : e \in Range(devices)})

Next ==
    \/ \E n \in Name : ProvisionLocal(n)
    \/ \E m \in Ip, n \in Name \cup {None} : ProvisionLan(m, n)
    \/ \E ms \in SUBSET Ip \ {{}} : ProvisionCloud(ms)
    \/ \E d \in Id : BootstrapControlPlane(d)
    \/ \E d \in Id : BootstrapLabHost(d)
    \/ \E h \in Ip : RunLab(h)
    \/ \E d \in Id : Destroy(d)
    \/ \E d \in Id : RemoveDevice(d)
    \/ DestroyAll
    \/ RemoveAll

Spec == Init /\ [][Next]_vars

-----------------------------------------------------------------------------

\* A machine is one device, whatever fails: one for an address and one for a
\* name, with what was deployed there (upsert_device, _find_device_key,
\* _migrate_legacy_payload).
DevicesApart ==
    /\ \A i, j \in DOMAIN devices :
        LET e == devices[i] f == devices[j] IN
        e.ip = f.ip \/ (e.name # None /\ e.name = f.name) => i = j
    /\ \A e \in Range(devices) : \A role \in {"cp", "lab"} :
        e[role] # None => e[role].at = e.ip

\* What a device runs is torn down where it was deployed: its host is in the
\* inventory, with that address (infra_destroy, _device_target_host).
TornDownThere ==
    \A e \in Range(devices) : \A role \in {"cp", "lab"} :
        e[role] # None => Where(e[role].target) = e[role].at

\* The same as long as nothing but destructions has failed.
TornDownAfterSound == clean => TornDownThere

\* A machine on which a bootstrap left something is in the context, unless the
\* user took it, or a device a registration ties it to, out with remove-device
\* or --force, or destroyed a control plane, which clears the context, or Docker
\* refused to remove a container there, which lab_host.teardown.yaml and
\* control_plane.teardown.yaml ignore: no other command forgets it.
Known ==
    \A m \in Ip :
        runs[m] \cap {"cp", "lab"} # {} /\ m \notin letGo =>
            \/ \E e \in Range(devices) : e.ip = m
            \/ \E h \in Id : Where(h) = m

\* The same as long as nothing but destructions has failed.
KnownAfterSound == clean => Known

\* Destroying a device takes down a control plane or a lab host on no machine
\* but that device and those that registrations tie to it, because a lab host
\* is called what another device is called, as long as nothing but
\* destructions has failed (_resolve_destroy_hosts, _expand_host_identifiers).
OnlyTheAskedAfterSound ==
    [][\A m \in Ip : runs[m] \cap {"cp", "lab"} \subseteq runs'[m]
                     \/ last'.op # "destroy" \/ m \in last'.on \/ ~clean]_vars

\* When everything has been destroyed, no lab runs on a host of the control
\* planes that were in the context. The code does not keep this (README,
\* Disagreements found).
LabsGone == last.op = "all" => \A h \in last.on : "work" \notin runs[h]

=============================================================================
