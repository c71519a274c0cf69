------------------------------ MODULE MCHosts ------------------------------
(***************************************************************************)
(* An instance of Hosts for TLC. Behaviours start after one request: it    *)
(* has been refused, or has registered a host, meeting no other. Two of    *)
(* the three hostnames have one path.                                      *)
(***************************************************************************)
EXTENDS Hosts, TLC

CONSTANTS a, ab, b, path1, path2, i1, i2, k1, k2, t1, t2, r1, r2

\* a-b and ab have one path
Paths == a :> path1 @@ ab :> path1 @@ b :> path2

\* a host that is drained is registered without a base domain
Some == {p \in Payload : IF p.domain = None THEN p.target = None ELSE p.status = "ONLINE"}

Registered(r) ==
    /\ rows = {r} /\ next = 2
    /\ secrets = [p \in Path |-> IF p = r.path THEN key[r.ip] ELSE None]
    /\ dns = [d \in Domain |-> IF r.domain = d THEN r.target ELSE None]
    /\ sound = {1} /\ wild = IF HasWildcard(r) THEN {1} ELSE {}

Refused ==
    /\ rows = {} /\ next = 1
    /\ secrets = [p \in Path |-> None] /\ dns = [d \in Domain |-> None]
    /\ sound = {} /\ wild = {}

MCInit ==
    /\ key \in [Ip -> Key]
    /\ \/ Refused
       \/ \E p \in Some :
              /\ p.status = "ONLINE"
              /\ Registered([id |-> 1, name |-> p.name, ip |-> p.ip, path |-> PathOf[p.name],
                             status |-> p.status, domain |-> p.domain, target |-> p.target])
    /\ pc = [x \in Request |-> "idle"] /\ job = [x \in Request |-> NoJob]
    /\ found = [x \in Request |-> NoRow] /\ beat = NoRow
    /\ jobs = 1 /\ faults = 0 /\ met = {}

MCSpec == MCInit /\ [][Next]_vars

Symmetry == Permutations({a, ab}) \cup Permutations({i1, i2}) \cup Permutations({k1, k2})
            \cup Permutations({t1, t2}) \cup Permutations({r1, r2})
=============================================================================
