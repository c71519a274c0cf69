--------------------------- MODULE MachinesProofs ---------------------------
(***************************************************************************)
(* Proofs about Machines, for any constants that satisfy the assumptions.  *)
(*                                                                         *)
(* Of the hosts a control plane has registered (Hosts): the type           *)
(* invariant, that wildcard names follow their hosts, and that the control *)
(* plane can call a host, unless its key was lost or replaced since.       *)
(*                                                                         *)
(* Of what the command line keeps of its machines (CliContext), where      *)
(* users give a name to one machine: what its variables are, that a        *)
(* machine is one device, and, as long as nothing but destructions has     *)
(* failed, that devices are torn down where they were deployed, that no    *)
(* machine is forgotten unless Docker refused a removal there, and that a  *)
(* destruction takes down no machine but the one that is meant and those   *)
(* that registrations tie to it.                                           *)
(***************************************************************************)
EXTENDS Machines, Functions, SequenceTheorems, FiniteSetTheorems, WellFoundedInduction, TLAPS

-----------------------------------------------------------------------------
(* Hosts: the inductive invariant.                                         *)

\* Rows that differ in their status at most: heartbeats change nothing else.
Like(r, s) == /\ r.id = s.id /\ r.name = s.name /\ r.ip = s.ip
              /\ r.path = s.path /\ r.domain = s.domain /\ r.target = s.target

IsAbout(r, p) == r.name = p.name \/ r.ip = p.ip \/ r.path = PathOf[p.name]

\* What a request has read, or written, by the time it is where it is.
Found ==
    \A a \in Request :
        /\ pc[a] \in {"idle", "name"} => found[a] = NoRow
        /\ pc[a] = "dns" => found[a] # NoRow /\ HasWildcard(found[a])

\* A request knows all there is to know about its name and address: the row it
\* has read, or written, is as it was, and there is no other.
Knows(a) ==
    LET p == job[a].payload IN
    /\ \A r \in rows : r.id = found[a].id => Like(r, found[a]) /\ IsAbout(r, p)
    /\ pc[a] = "ip" => \A r \in rows : r.name = p.name => r.id = found[a].id
    /\ pc[a] \in {"put", "store"} =>
        \A r \in rows : r.name = p.name \/ r.ip = p.ip => r.id = found[a].id
    /\ pc[a] = "dns" => /\ found[a].name = p.name /\ found[a].ip = p.ip
                        /\ found[a].path = PathOf[p.name] /\ found[a].domain = p.domain
                        /\ found[a].target = p.target

\* Another request neither asks for the same, nor works on a row that request
\* a is about.
Strangers(a, b) ==
    LET p == job[a].payload
        q == job[b].payload
    IN  /\ p.name # q.name /\ p.ip # q.ip /\ PathOf[p.name] # PathOf[q.name]
        /\ \A r \in rows : ~(IsAbout(r, p) /\ IsAbout(r, q))
        /\ \A r \in rows : r.id = found[b].id => ~IsAbout(r, p) /\ r.id # found[a].id

Alone(a) == Knows(a) /\ \A b \in Request \ {a} : pc[b] # "idle" => Strangers(a, b)

\* No host whose registration holds has the request's path.
Clear(a) == \A r \in rows : r.path = PathOf[job[a].payload.name] => r.id \notin sound

\* A request is alone with what it is about, or has met another and with it
\* taken their hosts from those whose registration holds.
Solo(a) == Alone(a) \/ (a \in met /\ Clear(a))
AllSolo == \A a \in Request : pc[a] # "idle" => Solo(a)

\* Each row needs a request of its own.
Working == {a \in Request : pc[a] \in {"name", "ip", "put", "store"}}
Counted == IsFiniteSet(Working) /\ next + Cardinality(Working) <= jobs + 1

\* The next row's id is new.
Fresh == /\ \A r \in rows : r.id < next
         /\ \A a \in Request : found[a].id < next

IInv == TypeOK /\ Counted /\ Fresh /\ Found /\ AllSolo /\ WildcardsFollow

-----------------------------------------------------------------------------
(* Lemmas about rows and requests.                                         *)

\* A row has an id, which the absence of a row has not.
LEMMA RowIds == NoRow.id = 0 /\ \A r \in RowType : r.id \in 1..next /\ r.id # 0 /\ r # NoRow
  BY DEF RowType, NoRow

\* Ids in use grow.
LEMMA Grow ==
    ASSUME TypeOK, next' \in {next, next + 1}
    PROVE  RowType \subseteq RowType' /\ 1..next \subseteq 1..next'
<1>1. next \in Nat /\ next' \in Nat /\ next <= next'
  BY BoundAssumption DEF TypeOK
<1>2. 1..next \subseteq 1..next'
  BY <1>1
<1> QED BY <1>2 DEF RowType

\* What Merged returns: a row, column by column.
LEMMA MergedRow ==
    ASSUME NEW now \in RowType, NEW read, NEW asked \in RowType
    PROVE  LET m == Merged(now, read, asked) IN
           /\ m \in RowType
           /\ m.id = IF asked.id = read.id THEN now.id ELSE asked.id
           /\ m.name = IF asked.name = read.name THEN now.name ELSE asked.name
           /\ m.ip = IF asked.ip = read.ip THEN now.ip ELSE asked.ip
           /\ m.path = IF asked.path = read.path THEN now.path ELSE asked.path
           /\ m.domain = IF asked.domain = read.domain THEN now.domain ELSE asked.domain
           /\ m.target = IF asked.target = read.target THEN now.target ELSE asked.target
<1>1. DOMAIN now = {"id", "name", "ip", "path", "status", "domain", "target"}
  BY DEF RowType
<1>2. Merged(now, read, asked) =
        [id |-> IF asked.id = read.id THEN now.id ELSE asked.id,
         name |-> IF asked.name = read.name THEN now.name ELSE asked.name,
         ip |-> IF asked.ip = read.ip THEN now.ip ELSE asked.ip,
         path |-> IF asked.path = read.path THEN now.path ELSE asked.path,
         status |-> IF asked.status = read.status THEN now.status ELSE asked.status,
         domain |-> IF asked.domain = read.domain THEN now.domain ELSE asked.domain,
         target |-> IF asked.target = read.target THEN now.target ELSE asked.target]
  BY <1>1 DEF Merged
<1> QED BY <1>2 DEF RowType

\* A payload's row is a row, with the id it is given.
LEMMA AskedRow ==
    ASSUME TypeOK, NEW a \in Request, pc[a] # "idle", NEW id
    PROVE  LET r == Asked(a, id)
               p == job[a].payload
           IN  /\ p \in Payload /\ job[a].key \in Key
               /\ id \in 1..next => r \in RowType
               /\ id \in 1..next' => r \in RowType'
               /\ r.id = id /\ r.name = p.name /\ r.ip = p.ip
               /\ r.path = PathOf[p.name] /\ r.domain = p.domain /\ r.target = p.target
<1>1. job[a] \in [payload : Payload, key : Key]
  BY DEF TypeOK
<1>2. job[a].payload \in Payload /\ job[a].key \in Key
  BY <1>1
<1> QED BY <1>2, PathAssumption DEF Asked, RowType, Payload, Path

\* A step of somebody else leaves a request alone, or clear, if every row is
\* like one that was there, or new and not about it, and if no request comes to
\* work on a row that it is about.
LEMMA Bystander ==
    ASSUME NEW a \in Request, Solo(a), a \in met => a \in met',
           pc'[a] = pc[a], job'[a] = job[a], found'[a] = found[a],
           \A r \in rows' :
              \/ \E s \in rows : Like(r, s) /\ (r.id \in sound' => s.id \in sound)
              \/ /\ Alone(a) => ~IsAbout(r, job[a].payload) /\ r.id # found[a].id
                 /\ r.id \in sound' => r.path # PathOf[job[a].payload.name],
           Alone(a) =>
              \A b \in Request \ {a} : pc'[b] # "idle" =>
                /\ pc[b] # "idle" /\ job'[b] = job[b]
                /\ \A r \in rows' : r.id = found'[b].id =>
                                      ~IsAbout(r, job[a].payload) /\ r.id # found[a].id
    PROVE  Solo(a)'
<1>1. ASSUME Alone(a) PROVE Alone(a)'
  <2>1. Knows(a)'
    BY <1>1 DEF Alone, Knows, Like, IsAbout
  <2>2. ASSUME NEW b \in Request \ {a}, pc'[b] # "idle" PROVE Strangers(a, b)'
    BY <1>1, <2>2 DEF Alone, Strangers, Like, IsAbout
  <2> QED BY <2>1, <2>2 DEF Alone
<1>2. ASSUME Clear(a) PROVE Clear(a)'
  BY <1>2 DEF Clear, Like
<1> QED BY <1>1, <1>2 DEF Solo

\* Fewer requests at work, and no fewer begun.
LEMMA FewerWork ==
    ASSUME TypeOK, Counted, next' = next, jobs' = jobs, Working' \subseteq Working
    PROVE  Counted'
<1>1. IsFiniteSet(Working') /\ Cardinality(Working') <= Cardinality(Working)
  BY FS_Subset DEF Counted
<1>2. Cardinality(Working') \in Nat /\ Cardinality(Working) \in Nat
  BY <1>1, FS_CardinalityType DEF Counted
<1>3. next \in Nat /\ jobs \in Nat
  BY BoundAssumption DEF TypeOK
<1> QED BY <1>1, <1>2, <1>3 DEF Counted

-----------------------------------------------------------------------------
(* One lemma per action.                                                   *)

\* There are no hosts and no requests at the start.
LEMMA InitHolds == Init => IInv
<1> SUFFICES ASSUME Init PROVE IInv
  OBVIOUS
<1>1. TypeOK
  BY BoundAssumption DEF Init, TypeOK, Label
<1>2. Counted
  <2>1. Working = {}
    BY DEF Init, Working
  <2> QED BY <2>1, FS_EmptySet, BoundAssumption DEF Init, Counted
<1>3. Fresh /\ Found /\ AllSolo /\ WildcardsFollow
  BY DEF Init, Fresh, NoRow, Found, AllSolo, WildcardsFollow, HasWildcard
<1> QED BY <1>1, <1>2, <1>3 DEF IInv

\* A registration that meets another marks both.
LEMMA BeginHolds == ASSUME IInv, NEW a \in Request, Begin(a) PROVE IInv'
<1>0. TypeOK /\ Counted /\ Fresh /\ Found /\ AllSolo /\ WildcardsFollow
  BY DEF IInv
<1> DEFINE others(p) == {b \in Request : pc[b] # "idle" /\ Meets(b, p)}
           Touched(p) == Ids(About(p) \cup UNION {About(job[b].payload) : b \in others(p)}
                               \cup {found[b] : b \in others(p)})
<1>1. PICK p \in Registrations :
        /\ pc[a] = "idle" /\ jobs < MaxJobs
        /\ jobs' = jobs + 1
        /\ pc' = [pc EXCEPT ![a] = "name"]
        /\ job' = [job EXCEPT ![a] = [payload |-> p, key |-> key[p.ip]]]
        /\ \/ others(p) = {} /\ UNCHANGED history
           \/ /\ met' = met \cup others(p) \cup {a}
              /\ sound' = sound \ Touched(p) /\ wild' = wild \ Touched(p)
        /\ UNCHANGED <<rows, outside, secrets, found, beat, next, faults>>
  BY DEF Begin, history
<1>2. p \in Payload /\ p.ip \in Ip /\ key[p.ip] \in Key
  BY <1>0, RegistrationAssumption DEF Payload, TypeOK
<1>3. TypeOK'
  <2>1. job' \in [Request -> {NoJob} \cup [payload : Payload, key : Key]]
    BY <1>0, <1>1, <1>2 DEF TypeOK
  <2>2. \A b \in Request : job'[b] = NoJob <=> pc'[b] = "idle"
    BY <1>0, <1>1, <1>2 DEF TypeOK, NoJob
  <2>3. met' \subseteq {b \in Request : pc'[b] # "idle"}
    BY <1>0, <1>1 DEF TypeOK, history
  <2>4. pc' \in [Request -> Label] /\ jobs' \in 0..MaxJobs
    BY <1>0, <1>1, BoundAssumption DEF TypeOK, Label
  <2>5. sound' \subseteq 1..next /\ wild' \subseteq 1..next
    BY <1>0, <1>1 DEF TypeOK, history
  <2> QED BY <1>0, <1>1, <2>1, <2>2, <2>3, <2>4, <2>5 DEF TypeOK, outside, RowType
<1>4. Counted'
  <2>1. Working' = Working \cup {a} /\ a \notin Working
    BY <1>0, <1>1 DEF TypeOK, Working
  <2>2. IsFiniteSet(Working') /\ Cardinality(Working') = Cardinality(Working) + 1
    BY <1>0, <2>1, FS_AddElement DEF Counted
  <2>3. Cardinality(Working) \in Nat /\ next \in Nat /\ jobs \in Nat
    BY <1>0, FS_CardinalityType, BoundAssumption DEF Counted, TypeOK
  <2> QED BY <1>0, <1>1, <2>2, <2>3 DEF Counted
<1>5. Found' /\ Fresh'
  BY <1>0, <1>1 DEF Found, Fresh, TypeOK, HasWildcard
<1>6. AllSolo'
  <2>1. job'[a].payload = p /\ pc'[a] = "name" /\ found'[a] = NoRow
    BY <1>0, <1>1 DEF TypeOK, Found, HasWildcard
  <2>2. met \subseteq met' /\ sound' \subseteq sound
    BY <1>1 DEF history
  <2>3. ASSUME others(p) = {} PROVE Alone(a)'
    <3>1. Knows(a)'
      BY <1>0, <1>1, <2>1, RowIds DEF Knows, TypeOK
    <3>2. ASSUME NEW b \in Request \ {a}, pc'[b] # "idle" PROVE Strangers(a, b)'
      <4>1. pc[b] # "idle" /\ job'[b] = job[b] /\ found'[b] = found[b] /\ rows' = rows
        BY <1>0, <1>1, <3>2 DEF TypeOK
      <4>2. ~Meets(b, p)
        BY <2>3, <4>1
      <4>3. \A r \in rows : r.id = found[b].id => ~IsAbout(r, p)
        BY <4>2 DEF Meets, Ids, About, IsAbout
      <4>4. \A r \in rows : ~(IsAbout(r, p) /\ IsAbout(r, job[b].payload))
        BY <4>2 DEF Meets, Meet, About, IsAbout
      <4> QED BY <1>0, <2>1, <4>1, <4>2, <4>3, <4>4, RowIds
          DEF Strangers, Meets, Meet, TypeOK
    <3> QED BY <3>1, <3>2 DEF Alone
  <2>4. ASSUME others(p) # {} PROVE a \in met' /\ Clear(a)'
    <3>1. \A r \in rows : r.path = PathOf[p.name] => r.id \in Touched(p)
      BY DEF About, Ids
    <3> QED BY <1>1, <2>1, <2>4, <3>1 DEF Clear
  <2>5. ASSUME NEW b \in others(p), b # a PROVE b \in met' /\ Clear(b)'
    <3>1. \A r \in About(job[b].payload) : r.id \in Touched(p)
      <4>1. About(job[b].payload) \subseteq UNION {About(job[c].payload) : c \in others(p)}
        BY <2>5
      <4> QED BY <4>1 DEF Ids
    <3>2. \A r \in rows : r.path = PathOf[job[b].payload.name] => r.id \in Touched(p)
      BY <3>1 DEF About
    <3> QED BY <1>0, <1>1, <2>5, <3>2 DEF Clear, TypeOK
  <2>6. ASSUME NEW b \in Request \ {a}, pc'[b] # "idle", b \notin others(p) PROVE Solo(b)'
    <3>1. /\ pc[b] # "idle" /\ pc'[b] = pc[b] /\ job'[b] = job[b] /\ found' = found
          /\ rows' = rows /\ ~Meets(b, p)
      BY <1>0, <1>1, <2>6 DEF TypeOK
    <3>2. CASE Clear(b) /\ b \in met
      BY <2>2, <3>1, <3>2 DEF Solo, Clear
    <3>3. CASE Alone(b)
      <4>1. Knows(b)'
        BY <3>1, <3>3 DEF Alone, Knows
      <4>2. Strangers(b, a)'
        <5>1. ~Meet(job[b].payload, p)
          BY <3>1 DEF Meets
        <5>2. \A r \in rows : r.id # found[a].id
          BY <1>0, <1>1, RowIds DEF Found, TypeOK, HasWildcard
        <5> QED BY <2>1, <3>1, <5>1, <5>2, <1>1 DEF Strangers, Meet, About, IsAbout
      <4>3. ASSUME NEW c \in Request \ {a, b}, pc'[c] # "idle" PROVE Strangers(b, c)'
        BY <1>0, <1>1, <3>1, <3>3, <4>3 DEF Alone, Strangers, TypeOK
      <4> QED BY <4>1, <4>2, <4>3 DEF Alone, Solo
    <3> QED BY <1>0, <3>1, <3>2, <3>3 DEF AllSolo, Solo
  <2> QED BY <2>3, <2>4, <2>5, <2>6 DEF AllSolo, Solo
<1>7. WildcardsFollow'
  BY <1>0, <1>1 DEF WildcardsFollow, history, outside, HasWildcard
<1> QED BY <1>3, <1>4, <1>5, <1>6, <1>7 DEF IInv

\* The host of that name is read.
LEMMA FindNameHolds == ASSUME IInv, NEW a \in Request, FindName(a) PROVE IInv'
<1>0. TypeOK /\ Counted /\ Fresh /\ Found /\ AllSolo /\ WildcardsFollow
  BY DEF IInv
<1>1. /\ pc[a] = "name" /\ pc' = [pc EXCEPT ![a] = "ip"]
      /\ UNCHANGED <<rows, outside, secrets, beat, next, jobs, faults, sound, wild, job, met>>
      /\ found' \in [Request -> RowType \cup {NoRow}]
      /\ \A b \in Request \ {a} : found'[b] = found[b]
      /\ \/ found'[a] \in rows /\ found'[a].name = job[a].payload.name
         \/ (\A r \in rows : r.name # job[a].payload.name) /\ found'[a] = NoRow
  BY <1>0 DEF FindName, Goto, TypeOK, Found, HasWildcard
<1>2. TypeOK'
  BY <1>0, <1>1, BoundAssumption DEF TypeOK, outside, RowType, Label
<1>3. Counted'
  BY <1>0, <1>1, FewerWork DEF TypeOK, Working
<1>4. Found' /\ Fresh'
  BY <1>0, <1>1, RowIds DEF Found, Fresh, TypeOK, HasWildcard
<1>5. AllSolo'
  <2>1. ASSUME Alone(a) PROVE Alone(a)'
    <3>1. Alone(a)
      BY <2>1
    <3>2. \A r \in rows : r.id = found'[a].id => r = found'[a] /\ r.name = job[a].payload.name
      BY <1>0, <1>1, RowIds DEF TypeOK
    <3>3. Knows(a)'
      BY <1>0, <1>1, <3>2 DEF Knows, Like, IsAbout, TypeOK
    <3>4. ASSUME NEW b \in Request \ {a}, pc'[b] # "idle" PROVE Strangers(a, b)'
      <4>1. Strangers(a, b) /\ pc[b] # "idle"
        BY <1>0, <1>1, <3>1, <3>4 DEF Alone, TypeOK
      <4> QED BY <1>1, <3>2, <4>1 DEF Strangers, IsAbout
    <3> QED BY <3>3, <3>4 DEF Alone
  <2>2. ASSUME Clear(a) PROVE Clear(a)'
    BY <1>1, <2>2 DEF Clear
  <2>3. ASSUME NEW b \in Request \ {a}, pc[b] # "idle" PROVE Solo(b)'
    <3>1. ASSUME Alone(b), NEW c \in Request \ {b}, pc'[c] # "idle"
          PROVE  /\ pc[c] # "idle" /\ job'[c] = job[c]
                 /\ \A r \in rows' : r.id = found'[c].id =>
                                  ~IsAbout(r, job[b].payload) /\ r.id # found[b].id
      <4>1. pc[c] # "idle" /\ Strangers(b, c)
        BY <1>0, <1>1, <3>1 DEF TypeOK, Alone
      <4> QED BY <1>0, <1>1, <3>1, <4>1, RowIds
          DEF TypeOK, Strangers, Alone, Knows, IsAbout
    <3>2. Solo(b)
      BY <1>0, <2>3 DEF AllSolo
    <3> QED BY <1>0, <1>1, <3>1, <3>2, Bystander DEF TypeOK, Like
  <2> QED BY <1>0, <1>1, <2>1, <2>2, <2>3 DEF AllSolo, Solo, TypeOK
<1>6. WildcardsFollow'
  BY <1>0, <1>1 DEF WildcardsFollow, outside, HasWildcard
<1> QED BY <1>2, <1>3, <1>4, <1>5, <1>6 DEF IInv

\* What is typed about requests.
RequestsTyped ==
    /\ pc \in [Request -> Label]
    /\ job \in [Request -> {NoJob} \cup [payload : Payload, key : Key]]
    /\ \A b \in Request : job[b] = NoJob <=> pc[b] = "idle"
    /\ found \in [Request -> RowType \cup {NoRow}]
    /\ met \subseteq {b \in Request : pc[b] # "idle"}

\* A request that ends leaves the others alone, or clear, if rows that are new
\* in this step are not about them.
LEMMA LeaveHolds ==
    ASSUME TypeOK, Fresh, Found, AllSolo, NEW a \in Request, Leave(a), pc[a] # "idle",
           RowType \subseteq RowType',
           \A b \in Request \ {a} : pc[b] # "idle" =>
             \A r \in rows' :
              \/ \E s \in rows : Like(r, s) /\ (r.id \in sound' => s.id \in sound)
              \/ /\ Alone(b) => ~IsAbout(r, job[b].payload) /\ r.id # found[b].id
                 /\ r.id \in sound' => r.path # PathOf[job[b].payload.name]
    PROVE  /\ RequestsTyped' /\ Found' /\ AllSolo'
           /\ pc'[a] = "idle" /\ \A b \in Request \ {a} : pc'[b] = pc[b]
           /\ \A b \in Request : found'[b].id < next
<1>1. /\ pc' = [pc EXCEPT ![a] = "idle"] /\ job' = [job EXCEPT ![a] = NoJob]
      /\ found' = [found EXCEPT ![a] = NoRow] /\ met' = met \ {a}
  BY DEF Leave
<1>2. /\ pc'[a] = "idle"
      /\ \A b \in Request \ {a} : pc'[b] = pc[b] /\ job'[b] = job[b] /\ found'[b] = found[b]
  BY <1>1 DEF TypeOK
<1>3. RequestsTyped'
  BY <1>1 DEF TypeOK, RequestsTyped, Label
<1>4. Found'
  BY <1>1 DEF TypeOK, Found, HasWildcard
<1>5. AllSolo'
  <2> SUFFICES ASSUME NEW b \in Request \ {a}, pc[b] # "idle" PROVE Solo(b)'
    BY <1>1, <1>2 DEF AllSolo
  <2>1. Solo(b)
    BY DEF AllSolo
  <2>2. ASSUME Alone(b), NEW c \in Request \ {b}, pc'[c] # "idle"
        PROVE  /\ pc[c] # "idle" /\ job'[c] = job[c]
               /\ \A r \in rows' : r.id = found'[c].id =>
                                ~IsAbout(r, job[b].payload) /\ r.id # found[b].id
    <3>1. c # a /\ found'[c] = found[c] /\ pc[c] # "idle" /\ job'[c] = job[c]
      BY <1>2, <2>2
    <3>2. Strangers(b, c)
      BY <2>2, <3>1 DEF Alone
    <3> QED BY <2>2, <3>1, <3>2 DEF Strangers, Like, IsAbout
  <2>3. b \in met => b \in met'
    BY <1>1
  <2> QED BY <1>2, <2>1, <2>2, <2>3, Bystander
<1>6. \A b \in Request : found'[b].id < next
  BY <1>1, <1>2, RowIds, BoundAssumption DEF TypeOK, Fresh
<1> QED BY <1>2, <1>3, <1>4, <1>5, <1>6

\* The address is looked up, and the request goes on with at most one host.
LEMMA FindIpHolds == ASSUME IInv, NEW a \in Request, FindIp(a) PROVE IInv'
<1>0. TypeOK /\ Counted /\ Fresh /\ Found /\ AllSolo /\ WildcardsFollow
  BY DEF IInv
<1> DEFINE byIp == {r \in rows : r.ip = job[a].payload.ip}
<1>1. /\ pc[a] = "ip"
      /\ UNCHANGED <<rows, outside, secrets, beat, next, jobs, faults, sound, wild>>
  BY DEF FindIp
<1>2. WildcardsFollow'
  BY <1>0, <1>1 DEF WildcardsFollow, outside, HasWildcard
<1>3. CASE Leave(a)
  <2>1. RequestsTyped' /\ Fresh' /\ Found' /\ AllSolo' /\ pc'[a] = "idle"
        /\ \A b \in Request \ {a} : pc'[b] = pc[b]
    BY <1>0, <1>1, <1>3, LeaveHolds DEF Like, RowType, Fresh
  <2>2. TypeOK'
    BY <1>0, <1>1, <2>1 DEF TypeOK, RequestsTyped, outside, RowType
  <2>3. Counted'
    BY <1>0, <1>1, <2>1, FewerWork DEF Working
  <2> QED BY <1>2, <2>1, <2>2, <2>3 DEF IInv
<1>4. CASE /\ pc' = [pc EXCEPT ![a] = "put"] /\ UNCHANGED <<job, met>>
           /\ \/ /\ found[a] # NoRow /\ \A r \in byIp : r.id = found[a].id
                 /\ found' = found
              \/ /\ found[a] = NoRow
                 /\ found' = [found EXCEPT ![a] = IF byIp = {} THEN NoRow
                                                  ELSE CHOOSE r \in byIp : TRUE]
  <2>1. /\ found' \in [Request -> RowType \cup {NoRow}]
        /\ \A b \in Request \ {a} : found'[b] = found[b]
        /\ \/ found'[a] = found[a] /\ found[a] # NoRow /\ \A r \in byIp : r.id = found[a].id
           \/ found[a] = NoRow /\ found'[a] = NoRow /\ byIp = {}
           \/ found[a] = NoRow /\ found'[a] \in byIp
    <3>1. byIp # {} => (CHOOSE r \in byIp : TRUE) \in byIp
      OBVIOUS
    <3> QED BY <1>0, <1>4, <3>1 DEF TypeOK
  <2>2. TypeOK'
    BY <1>0, <1>1, <1>4, <2>1 DEF TypeOK, outside, RowType, Label
  <2>3. Counted'
    BY <1>0, <1>1, <1>4, FewerWork DEF TypeOK, Working
  <2>4. Found' /\ Fresh'
    BY <1>0, <1>1, <1>4, <2>1, RowIds DEF Found, Fresh, TypeOK, HasWildcard
  <2>5. ASSUME Alone(a) PROVE Alone(a)'
    <3>1. Alone(a)
      BY <2>5
    <3>2. /\ \A r \in rows : r.ip = job[a].payload.ip => r.id = found'[a].id
          /\ \A r \in rows : r.id = found'[a].id => Like(r, found'[a])
          /\ \A r \in rows : r.id = found'[a].id => IsAbout(r, job[a].payload)
      BY <1>0, <1>1, <2>1, <3>1, RowIds DEF TypeOK, Alone, Knows, Like, IsAbout
    <3>3. \A r \in rows : r.name = job[a].payload.name => r.id = found[a].id
      BY <1>1, <3>1 DEF Alone, Knows
    <3>4. \A r \in rows : r.name = job[a].payload.name => r.id = found'[a].id
      BY <1>0, <2>1, <3>3, RowIds DEF TypeOK
    <3>5. Knows(a)'
      BY <1>0, <1>1, <1>4, <3>2, <3>4 DEF Knows, TypeOK, Like, IsAbout
    <3>6. ASSUME NEW b \in Request \ {a}, pc'[b] # "idle" PROVE Strangers(a, b)'
      <4>1. Strangers(a, b)
        BY <1>0, <1>4, <3>1, <3>6 DEF Alone, TypeOK
      <4> QED BY <1>1, <1>4, <2>1, <3>2, <4>1 DEF Strangers, IsAbout
    <3> QED BY <3>5, <3>6 DEF Alone
  <2>6. ASSUME NEW b \in Request \ {a}, pc[b] # "idle" PROVE Solo(b)'
    <3>1. ASSUME Alone(b), NEW c \in Request \ {b}, pc'[c] # "idle"
          PROVE  /\ pc[c] # "idle" /\ job'[c] = job[c]
                 /\ \A r \in rows' : r.id = found'[c].id =>
                                  ~IsAbout(r, job[b].payload) /\ r.id # found[b].id
      <4>1. pc[c] # "idle" /\ Strangers(b, c) /\ Knows(b)
        BY <1>0, <1>1, <1>4, <3>1 DEF TypeOK, Alone
      <4>2. \A r \in rows : r.id = found'[a].id => r.id = found[a].id \/ r.ip = job[a].payload.ip
        BY <1>0, <2>1, RowIds DEF TypeOK
      <4> QED BY <1>1, <1>4, <2>1, <3>1, <4>1, <4>2 DEF Strangers, Knows, IsAbout
    <3>2. Solo(b)
      BY <1>0, <2>6 DEF AllSolo
    <3> QED BY <1>0, <1>1, <1>4, <2>1, <3>1, <3>2, Bystander DEF TypeOK, Like
  <2>7. Clear(a) => Clear(a)'
    BY <1>1, <1>4 DEF Clear
  <2>8. AllSolo'
    BY <1>0, <1>1, <1>4, <2>5, <2>6, <2>7 DEF AllSolo, Solo, TypeOK
  <2> QED BY <1>2, <2>2, <2>3, <2>4, <2>8 DEF IInv
<1> QED BY <1>0, <1>3, <1>4 DEF FindIp, Goto

\* The key goes to the secret store, which is no matter of the rows.
LEMMA PutHolds == ASSUME IInv, NEW a \in Request, Put(a) PROVE IInv'
<1>0. TypeOK /\ Counted /\ Fresh /\ Found /\ AllSolo /\ WildcardsFollow
  BY DEF IInv
<1>1. /\ pc[a] = "put" /\ UNCHANGED <<rows, outside, beat, next, jobs, wild>>
      /\ sound' \subseteq sound
      /\ \/ secrets' = [secrets EXCEPT ![PathOf[job[a].payload.name]] = job[a].key]
         \/ secrets' = secrets
      /\ faults' \in {faults, faults + 1} /\ (faults' = faults \/ faults < MaxFaults)
      /\ \/ Goto(a, "store") /\ found' = found
         \/ Leave(a)
  BY DEF Put, Fault
<1>2. WildcardsFollow'
  BY <1>0, <1>1 DEF WildcardsFollow, outside, HasWildcard
<1>3. secrets' \in [Path -> Key \cup {None}] /\ faults' \in 0..MaxFaults
  <2>1. job[a].key \in Key
    BY <1>0, <1>1, AskedRow
  <2> QED BY <1>0, <1>1, <2>1, BoundAssumption DEF TypeOK
<1>4. CASE Leave(a)
  <2>1. RequestsTyped' /\ Fresh' /\ Found' /\ AllSolo' /\ pc'[a] = "idle"
        /\ \A b \in Request \ {a} : pc'[b] = pc[b]
    BY <1>0, <1>1, <1>4, LeaveHolds DEF Like, RowType, Fresh
  <2>2. TypeOK'
    BY <1>0, <1>1, <1>3, <2>1 DEF TypeOK, RequestsTyped, outside, RowType
  <2>3. Counted'
    BY <1>0, <1>1, <2>1, FewerWork DEF Working
  <2> QED BY <1>2, <2>1, <2>2, <2>3 DEF IInv
<1>5. CASE Goto(a, "store") /\ found' = found
  <2>1. pc' = [pc EXCEPT ![a] = "store"] /\ job' = job /\ met' = met /\ found' = found
    BY <1>5 DEF Goto
  <2>2. TypeOK'
    BY <1>0, <1>1, <1>3, <2>1 DEF TypeOK, outside, RowType, Label
  <2>3. Counted'
    BY <1>0, <1>1, <2>1, FewerWork DEF TypeOK, Working
  <2>4. Found' /\ Fresh'
    BY <1>0, <1>1, <2>1 DEF Found, Fresh, TypeOK, HasWildcard
  <2>5. ASSUME NEW b \in Request, pc[b] # "idle" PROVE Solo(b)'
    <3>1. Clear(b) => Clear(b)'
      BY <1>1, <2>1 DEF Clear
    <3>2. Alone(b) => Alone(b)'
      BY <1>0, <1>1, <2>1 DEF Alone, Knows, Strangers, TypeOK
    <3> QED BY <1>0, <2>1, <2>5, <3>1, <3>2 DEF AllSolo, Solo
  <2>6. AllSolo'
    BY <1>0, <1>1, <2>1, <2>5 DEF AllSolo, TypeOK
  <2> QED BY <1>2, <2>2, <2>3, <2>4, <2>6 DEF IInv
<1> QED BY <1>1, <1>4, <1>5

\* A row is stored, new or changed: the request has had its row, and turns to
\* the wildcard name if there is one.
LEMMA StoredHolds ==
    ASSUME IInv, NEW a \in Request, pc[a] = "store", NEW r, Stored(a, r),
           next' \in {next, next + 1}, r \in RowType', r.id < next', r \in rows',
           \A q \in rows' : q = r \/ (q \in rows /\ q.id # r.id),
           UNCHANGED <<outside, secrets, beat, jobs, faults>>,
           Alone(a) => /\ r.name = job[a].payload.name /\ r.ip = job[a].payload.ip
                       /\ r.path = PathOf[job[a].payload.name]
                       /\ r.domain = job[a].payload.domain
                       /\ r.target = job[a].payload.target,
           \A b \in Request \ {a} : pc[b] # "idle" =>
                /\ Alone(b) => ~IsAbout(r, job[b].payload) /\ r.id # found[b].id
                /\ Alone(a) => r.id # found[b].id
    PROVE  /\ RequestsTyped' /\ Found' /\ AllSolo' /\ WildcardsFollow'
           /\ sound' \subseteq 1..next' /\ wild' \subseteq 1..next'
           /\ \A b \in Request : found'[b].id < next'
           /\ Working' = Working \ {a}
<1>0. TypeOK /\ Counted /\ Fresh /\ Found /\ AllSolo /\ WildcardsFollow
  BY DEF IInv
<1>1. /\ sound' = IF a \in met THEN sound \ {r.id} ELSE sound \cup {r.id}
      /\ wild' = wild \ {r.id}
      /\ \/ Leave(a)
         \/ /\ HasWildcard(r) /\ pc' = [pc EXCEPT ![a] = "dns"] /\ job' = job /\ met' = met
            /\ found' = [found EXCEPT ![a] = r]
  BY DEF Stored, Goto
<1>2. RowType \subseteq RowType' /\ 1..next \subseteq 1..next' /\ next \in Nat /\ next' \in Nat
      /\ next <= next'
  BY <1>0, Grow, BoundAssumption DEF TypeOK
<1>3. r.id \in 1..next' /\ r.id # 0
  BY DEF RowType
<1>4. WildcardsFollow'
  BY <1>0, <1>1 DEF WildcardsFollow, outside, HasWildcard
<1>5. sound' \subseteq 1..next' /\ wild' \subseteq 1..next'
  BY <1>0, <1>1, <1>2, <1>3 DEF TypeOK
<1>6. ASSUME NEW b \in Request \ {a}, pc[b] # "idle", NEW q \in rows'
      PROVE  \/ \E s \in rows : Like(q, s) /\ (q.id \in sound' => s.id \in sound)
             \/ /\ Alone(b) => ~IsAbout(q, job[b].payload) /\ q.id # found[b].id
                /\ q.id \in sound' => q.path # PathOf[job[b].payload.name]
  <2>1. CASE q \in rows /\ q.id # r.id
    BY <1>1, <2>1 DEF Like
  <2>2. CASE q = r
    <3>1. r.id \in sound' => Alone(a)
      BY <1>0, <1>1 DEF AllSolo, Solo
    <3>2. Alone(a) => r.path # PathOf[job[b].payload.name]
      BY <1>6 DEF Alone, Strangers
    <3> QED BY <1>6, <2>2, <3>1, <3>2
  <2> QED BY <2>1, <2>2
<1>7. CASE Leave(a)
  <2>1. /\ RequestsTyped' /\ Found' /\ AllSolo'
        /\ pc'[a] = "idle" /\ \A b \in Request \ {a} : pc'[b] = pc[b]
        /\ \A b \in Request : found'[b].id < next
    BY <1>0, <1>2, <1>6, <1>7, LeaveHolds
  <2>2. Working' = Working \ {a}
    BY <2>1 DEF Working
  <2>3. \A b \in Request : found'[b] \in RowType' \cup {NoRow}
    BY <2>1 DEF RequestsTyped, NoRow
  <2>4. \A b \in Request : found'[b].id \in Nat
    <3> SUFFICES ASSUME NEW b \in Request PROVE found'[b].id \in Nat
      OBVIOUS
    <3> QED BY <1>2, <2>3 DEF RowType, NoRow
  <2> QED BY <1>2, <1>4, <1>5, <2>1, <2>2, <2>4
<1>8. CASE /\ HasWildcard(r) /\ pc' = [pc EXCEPT ![a] = "dns"] /\ job' = job /\ met' = met
           /\ found' = [found EXCEPT ![a] = r]
  <2>1. /\ pc'[a] = "dns" /\ found'[a] = r
        /\ \A b \in Request \ {a} : pc'[b] = pc[b] /\ found'[b] = found[b]
    BY <1>0, <1>8 DEF TypeOK
  <2>2. RequestsTyped'
    BY <1>0, <1>2, <1>8, <2>1 DEF TypeOK, RequestsTyped, Label
  <2>3. Found'
    BY <1>0, <1>3, <1>8, <2>1 DEF Found, NoRow, HasWildcard
  <2>4. \A b \in Request : found'[b].id < next'
    <3> SUFFICES ASSUME NEW b \in Request \ {a} PROVE found[b].id < next'
      BY <2>1
    <3> QED BY <1>0, <1>2, RowIds DEF TypeOK, Fresh
  <2>5. Working' = Working \ {a}
    BY <2>1 DEF Working
  <2>6. ASSUME NEW b \in Request \ {a}, pc[b] # "idle" PROVE Solo(b)'
    <3>1. ASSUME Alone(b), NEW c \in Request \ {b}, pc'[c] # "idle"
          PROVE  /\ pc[c] # "idle" /\ job'[c] = job[c]
                 /\ \A q \in rows' : q.id = found'[c].id =>
                                  ~IsAbout(q, job[b].payload) /\ q.id # found[b].id
      <4>1. pc[c] # "idle" /\ Strangers(b, c) /\ job'[c] = job[c]
        BY <1>8, <2>1, <3>1 DEF Alone
      <4> QED BY <2>1, <2>6, <3>1, <4>1 DEF Strangers
    <3>2. Solo(b)
      BY <1>0, <2>6 DEF AllSolo
    <3> QED BY <1>6, <1>8, <2>1, <2>6, <3>1, <3>2, Bystander
  <2>7. ASSUME Alone(a) PROVE Alone(a)'
    <3>1. Knows(a)'
      BY <1>8, <2>1, <2>7 DEF Knows, Like, IsAbout
    <3>2. ASSUME NEW b \in Request \ {a}, pc'[b] # "idle" PROVE Strangers(a, b)'
      <4>1. Strangers(a, b) /\ r.id # found[b].id /\ pc[b] # "idle"
        BY <2>1, <2>7, <3>2 DEF Alone
      <4>2. ~IsAbout(r, job[b].payload)
        BY <2>7, <4>1 DEF Strangers, IsAbout
      <4> QED BY <1>8, <2>1, <4>1, <4>2 DEF Strangers
    <3> QED BY <3>1, <3>2 DEF Alone
  <2>8. ASSUME a \in met, Clear(a) PROVE Clear(a)'
    BY <1>1, <1>8, <2>8 DEF Clear
  <2>9. AllSolo'
    BY <1>0, <1>8, <2>1, <2>6, <2>7, <2>8 DEF AllSolo, Solo
  <2> QED BY <1>4, <1>5, <2>2, <2>3, <2>4, <2>5, <2>9
<1> QED BY <1>1, <1>7, <1>8

\* A new row.
LEMMA InsertHolds == ASSUME IInv, NEW a \in Request, Insert(a) PROVE IInv'
<1>0. TypeOK /\ Counted /\ Fresh /\ Found /\ AllSolo /\ WildcardsFollow
  BY DEF IInv
<1> DEFINE r == Asked(a, next)
<1>1. /\ pc[a] = "store" /\ found[a] = NoRow
      /\ UNCHANGED <<outside, secrets, beat, jobs, faults>>
  BY DEF Insert
<1>2. CASE UNCHANGED <<rows, next, sound, wild>> /\ Leave(a)
  <2>1. RequestsTyped' /\ Fresh' /\ Found' /\ AllSolo' /\ pc'[a] = "idle"
        /\ \A b \in Request \ {a} : pc'[b] = pc[b]
    BY <1>0, <1>1, <1>2, LeaveHolds DEF Like, RowType, Fresh
  <2>2. TypeOK'
    BY <1>0, <1>1, <1>2, <2>1 DEF TypeOK, RequestsTyped, outside, RowType
  <2>3. Counted'
    BY <1>0, <1>1, <1>2, <2>1, FewerWork DEF Working
  <2>4. WildcardsFollow'
    BY <1>0, <1>1, <1>2 DEF WildcardsFollow, outside, HasWildcard
  <2> QED BY <2>1, <2>2, <2>3, <2>4 DEF IInv
<1>3. CASE Unique(r, rows) /\ rows' = rows \cup {r} /\ next' = next + 1 /\ Stored(a, r)
  <2>1. /\ next \in Nat \ {0} /\ jobs \in 0..MaxJobs /\ MaxJobs \in Nat
        /\ RowType \subseteq RowType' /\ 1..next \subseteq 1..next'
    BY <1>0, <1>3, Grow, BoundAssumption DEF TypeOK
  <2>2. /\ r \in RowType' /\ r.id = next /\ r.name = job[a].payload.name
        /\ r.ip = job[a].payload.ip /\ r.path = PathOf[job[a].payload.name]
        /\ r.domain = job[a].payload.domain /\ r.target = job[a].payload.target
    <3>1. next \in 1..next'
      BY <1>3, <2>1
    <3> QED BY <1>0, <1>1, <3>1, AskedRow
  <2>3. \A q \in rows : q.id \in Nat /\ q.id < next
    BY <1>0, RowIds DEF TypeOK, Fresh
  <2>4. \A b \in Request : found[b].id \in Nat /\ found[b].id < next
    <3> SUFFICES ASSUME NEW b \in Request PROVE found[b].id \in Nat /\ found[b].id < next
      OBVIOUS
    <3>1. found[b] \in RowType \cup {NoRow}
      BY <1>0 DEF TypeOK
    <3> QED BY <1>0, <3>1, RowIds DEF Fresh
  <2>5. ASSUME NEW b \in Request \ {a}, pc[b] # "idle", Alone(b) PROVE ~IsAbout(r, job[b].payload)
    <3>1. Strangers(b, a)
      BY <1>1, <2>5 DEF Alone
    <3> QED BY <2>2, <3>1 DEF Strangers, IsAbout
  <2>6. /\ RequestsTyped' /\ Found' /\ AllSolo' /\ WildcardsFollow'
        /\ sound' \subseteq 1..next' /\ wild' \subseteq 1..next'
        /\ \A b \in Request : found'[b].id < next'
        /\ Working' = Working \ {a}
    <3>1. \A q \in rows' : q = r \/ (q \in rows /\ q.id # r.id)
      BY <1>3, <2>1, <2>2, <2>3
    <3>2. \A b \in Request : r.id # found[b].id
      BY <2>1, <2>2, <2>4
    <3>3. r \in rows' /\ r.id < next'
      BY <1>3, <2>1, <2>2
    <3> HIDE DEF r
    <3> QED BY <1>1, <1>3, <2>2, <2>5, <3>1, <3>2, <3>3, StoredHolds
  <2>7. Counted' /\ next' \in 1..(MaxJobs + 1)
    <3>1. a \in Working
      BY <1>1 DEF Working
    <3>2. IsFiniteSet(Working') /\ Cardinality(Working') = Cardinality(Working) - 1
      BY <1>0, <2>6, <3>1, FS_RemoveElement DEF Counted
    <3>3. Cardinality(Working) \in Nat /\ Cardinality(Working') \in Nat
      BY <1>0, <3>2, FS_CardinalityType DEF Counted
    <3> QED BY <1>0, <1>1, <1>3, <2>1, <3>2, <3>3 DEF Counted
  <2>8. Fresh'
    BY <1>3, <2>1, <2>2, <2>3, <2>6 DEF Fresh
  <2>9. TypeOK'
    <3>1. rows' \subseteq RowType'
      BY <1>0, <1>3, <2>1, <2>2 DEF TypeOK
    <3>2. \A p, q \in rows' : (p.id = q.id \/ p.name = q.name \/ p.ip = q.ip \/ p.path = q.path)
                                 => p = q
      <4>1. \A q \in rows : q.id # r.id /\ q.name # r.name /\ q.ip # r.ip /\ q.path # r.path
        BY <1>3, <2>1, <2>2, <2>3 DEF Unique
      <4> HIDE DEF r
      <4> QED BY <1>0, <1>3, <4>1 DEF TypeOK
    <3> QED BY <1>0, <1>1, <2>1, <2>6, <2>7, <3>1, <3>2
        DEF TypeOK, RequestsTyped, outside
  <2> QED BY <2>6, <2>7, <2>8, <2>9 DEF IInv
<1> QED BY <1>2, <1>3 DEF Insert

\* The row as it is now, with what the request has changed since it read it.
LEMMA UpdateHolds == ASSUME IInv, NEW a \in Request, Update(a) PROVE IInv'
<1>0. TypeOK /\ Counted /\ Fresh /\ Found /\ AllSolo /\ WildcardsFollow
  BY DEF IInv
<1>1. /\ pc[a] = "store" /\ found[a] # NoRow
      /\ UNCHANGED <<outside, secrets, beat, next, jobs, faults>>
  BY DEF Update
<1>2. CASE UNCHANGED <<rows, sound, wild>> /\ Leave(a)
  <2>1. RequestsTyped' /\ Fresh' /\ Found' /\ AllSolo' /\ pc'[a] = "idle"
        /\ \A b \in Request \ {a} : pc'[b] = pc[b]
    BY <1>0, <1>1, <1>2, LeaveHolds DEF Like, RowType, Fresh
  <2>2. TypeOK'
    BY <1>0, <1>1, <1>2, <2>1 DEF TypeOK, RequestsTyped, outside, RowType
  <2>3. Counted'
    BY <1>0, <1>1, <1>2, <2>1, FewerWork DEF Working
  <2>4. WildcardsFollow'
    BY <1>0, <1>1, <1>2 DEF WildcardsFollow, outside, HasWildcard
  <2> QED BY <2>1, <2>2, <2>3, <2>4 DEF IInv
<1>3. CASE \E n \in rows :
             LET m == Merged(n, found[a], Asked(a, n.id)) IN
             /\ n.id = found[a].id /\ Unique(m, rows \ {n})
             /\ rows' = (rows \ {n}) \cup {m} /\ Stored(a, m)
  <2>1. PICK n \in rows :
             LET m == Merged(n, found[a], Asked(a, n.id)) IN
             /\ n.id = found[a].id /\ Unique(m, rows \ {n})
             /\ rows' = (rows \ {n}) \cup {m} /\ Stored(a, m)
    BY <1>3
  <2> DEFINE p == job[a].payload
             m == Merged(n, found[a], Asked(a, n.id))
  <2>2. /\ n \in RowType /\ n.id \in 1..next /\ n.id < next /\ next \in Nat
        /\ RowType' = RowType /\ \A q \in rows : q.id = n.id => q = n
    BY <1>0, <1>1, RowIds, BoundAssumption DEF TypeOK, Fresh, RowType
  <2>3. /\ m \in RowType /\ m.id = n.id
        /\ m.name = (IF p.name = found[a].name THEN n.name ELSE p.name)
        /\ m.ip = (IF p.ip = found[a].ip THEN n.ip ELSE p.ip)
        /\ m.path = (IF PathOf[p.name] = found[a].path THEN n.path ELSE PathOf[p.name])
        /\ m.domain = (IF p.domain = found[a].domain THEN n.domain ELSE p.domain)
        /\ m.target = (IF p.target = found[a].target THEN n.target ELSE p.target)
    <3> DEFINE asked == Asked(a, n.id)
    <3>1. /\ asked \in RowType /\ asked.id = n.id /\ asked.name = p.name /\ asked.ip = p.ip
          /\ asked.path = PathOf[p.name] /\ asked.domain = p.domain /\ asked.target = p.target
      BY <1>0, <1>1, <2>2, AskedRow
    <3> HIDE DEF asked
    <3>2. LET k == Merged(n, found[a], asked) IN
           /\ k \in RowType
           /\ k.id = IF asked.id = found[a].id THEN n.id ELSE asked.id
           /\ k.name = IF asked.name = found[a].name THEN n.name ELSE asked.name
           /\ k.ip = IF asked.ip = found[a].ip THEN n.ip ELSE asked.ip
           /\ k.path = IF asked.path = found[a].path THEN n.path ELSE asked.path
           /\ k.domain = IF asked.domain = found[a].domain THEN n.domain ELSE asked.domain
           /\ k.target = IF asked.target = found[a].target THEN n.target ELSE asked.target
      BY <2>2, <3>1, MergedRow
    <3>3. m = Merged(n, found[a], asked)
      BY DEF asked
    <3> HIDE DEF m
    <3> QED BY <3>1, <3>2, <3>3
  <2> HIDE DEF m
  <2>4. n.id = found[a].id /\ Unique(m, rows \ {n})
        /\ rows' = (rows \ {n}) \cup {m} /\ Stored(a, m)
    BY <2>1 DEF m
  <2>5. Alone(a) => m.name = p.name /\ m.ip = p.ip /\ m.path = PathOf[p.name] /\ m.domain = p.domain
                   /\ m.target = p.target
    <3>1. Alone(a) => Like(n, found[a])
      BY <2>1 DEF Alone, Knows
    <3> QED BY <2>3, <3>1 DEF Like
  <2>6. ASSUME NEW b \in Request \ {a}, pc[b] # "idle"
        PROVE  /\ Alone(b) => ~IsAbout(m, job[b].payload) /\ m.id # found[b].id
               /\ Alone(a) => m.id # found[b].id
    <3>1. Alone(b) => Strangers(b, a)
      BY <1>1 DEF Alone
    <3>2. Alone(a) => Strangers(a, b)
      BY <2>6 DEF Alone
    <3>3. Alone(b) => ~IsAbout(n, job[b].payload) /\ n.id # found[b].id
      BY <2>1, <3>1 DEF Strangers
    <3>4. Alone(b) => ~IsAbout(m, job[b].payload)
      BY <2>3, <3>1, <3>3 DEF Strangers, IsAbout
    <3>5. Alone(a) => n.id # found[b].id
      BY <2>1, <3>2 DEF Strangers
    <3> QED BY <2>3, <3>3, <3>4, <3>5
  <2>7. /\ RequestsTyped' /\ Found' /\ AllSolo' /\ WildcardsFollow'
        /\ sound' \subseteq 1..next' /\ wild' \subseteq 1..next'
        /\ \A b \in Request : found'[b].id < next'
        /\ Working' = Working \ {a}
    <3>1. \A q \in rows' : q = m \/ (q \in rows /\ q.id # m.id)
      BY <2>2, <2>3, <2>4
    <3>2. m \in rows' /\ m.id < next' /\ m \in RowType' /\ next' = next
      BY <1>1, <2>2, <2>3, <2>4
    <3> QED BY <1>1, <2>4, <2>5, <2>6, <3>1, <3>2, StoredHolds
  <2>8. Counted'
    BY <1>0, <1>1, <2>7, FewerWork
  <2>9. Fresh'
    BY <1>0, <1>1, <2>2, <2>3, <2>4, <2>7 DEF Fresh
  <2>10. TypeOK'
    <3>1. rows' \subseteq RowType'
      BY <1>0, <2>2, <2>3, <2>4 DEF TypeOK
    <3>2. \A q, s \in rows' : (q.id = s.id \/ q.name = s.name \/ q.ip = s.ip \/ q.path = s.path)
                                 => q = s
      <4>1. \A q \in rows \ {n} : q.id # m.id /\ q.name # m.name /\ q.ip # m.ip /\ q.path # m.path
        BY <2>2, <2>3, <2>4 DEF Unique
      <4> QED BY <1>0, <2>4, <4>1 DEF TypeOK
    <3> QED BY <1>0, <1>1, <2>2, <2>7, <3>1, <3>2 DEF TypeOK, RequestsTyped, outside
  <2> QED BY <2>7, <2>8, <2>9, <2>10 DEF IInv
<1>4. \/ UNCHANGED <<rows, sound, wild>> /\ Leave(a)
      \/ \E n \in rows :
             LET m == Merged(n, found[a], Asked(a, n.id)) IN
             /\ n.id = found[a].id /\ Unique(m, rows \ {n})
             /\ rows' = (rows \ {n}) \cup {m} /\ Stored(a, m)
  <2> DEFINE now == {r \in rows : r.id = found[a].id}
             becomes == {Merged(r, found[a], Asked(a, r.id)) : r \in now}
  <2>1. SUFFICES ASSUME now # {}, \A r \in becomes : Unique(r, rows \ now),
                        rows' = (rows \ now) \cup becomes, \E r \in becomes : Stored(a, r)
                 PROVE  \E n \in rows :
                           LET m == Merged(n, found[a], Asked(a, n.id)) IN
                           /\ n.id = found[a].id /\ Unique(m, rows \ {n})
                           /\ rows' = (rows \ {n}) \cup {m} /\ Stored(a, m)
    BY DEF Update
  <2>2. PICK n \in now : TRUE
    BY <2>1
  <2>3. now = {n}
    BY <1>0, <2>2 DEF TypeOK
  <2>4. becomes = {Merged(n, found[a], Asked(a, n.id))}
    BY <2>3
  <2> QED BY <2>1, <2>2, <2>3, <2>4
<1> QED BY <1>2, <1>3, <1>4

\* The wildcard name is given to the host as it was stored.
LEMMA EnsureDnsHolds == ASSUME IInv, NEW a \in Request, EnsureDns(a) PROVE IInv'
<1>0. TypeOK /\ Counted /\ Fresh /\ Found /\ AllSolo /\ WildcardsFollow
  BY DEF IInv
<1> DEFINE r == found[a]
           same == Ids({s \in rows : s.domain = r.domain})
<1>1. /\ pc[a] = "dns" /\ Leave(a)
      /\ UNCHANGED <<rows, key, secrets, beat, next, jobs, sound>>
      /\ \/ /\ Wildcard(r) /\ faults' = faults
            /\ wild' = IF a \in met THEN wild \ same ELSE (wild \ same) \cup {r.id}
         \/ Fault /\ UNCHANGED <<dns, wild>>
         \/ Fault /\ Wildcard(r) /\ wild' = wild \ same
  BY DEF EnsureDns
<1>2. r \in RowType /\ r.domain \in Domain /\ r.target \in Target /\ HasWildcard(r)
  <2>1. r \in RowType /\ r.domain # None /\ r.target # None
    BY <1>0, <1>1 DEF TypeOK, Found, HasWildcard
  <2> QED BY <2>1 DEF RowType, HasWildcard
<1> HIDE DEF r
<1>3. RequestsTyped' /\ Fresh' /\ Found' /\ AllSolo' /\ pc'[a] = "idle"
      /\ \A b \in Request \ {a} : pc'[b] = pc[b]
  BY <1>0, <1>1, LeaveHolds DEF Like, RowType, Fresh
<1>4. TypeOK'
  <2>1. dns' \in [Domain -> Target \cup {None}] /\ faults' \in 0..MaxFaults
    BY <1>0, <1>1, <1>2, BoundAssumption DEF TypeOK, Wildcard, Fault
  <2>2. wild' \subseteq 1..next'
    BY <1>0, <1>1, <1>2, RowIds DEF TypeOK
  <2> QED BY <1>0, <1>1, <1>3, <2>1, <2>2 DEF TypeOK, RequestsTyped, RowType
<1>5. Counted'
  BY <1>0, <1>1, <1>3, FewerWork DEF Working
<1>6. WildcardsFollow'
  <2> SUFFICES ASSUME NEW s \in rows, s.id \in wild'
               PROVE  HasWildcard(s) /\ dns'[s.domain] = s.target
    BY <1>1 DEF WildcardsFollow, HasWildcard
  <2>1. s \in RowType
    BY <1>0 DEF TypeOK
  <2>2. CASE UNCHANGED <<dns, wild>>
    BY <1>0, <2>2 DEF WildcardsFollow, HasWildcard
  <2>3. CASE Wildcard(r) /\ s.id \in wild \ same
    <3>1. s.domain # r.domain
      BY <2>3 DEF Ids
    <3>2. HasWildcard(s) /\ dns[s.domain] = s.target
      BY <1>0, <2>3 DEF WildcardsFollow, HasWildcard
    <3>3. s.domain \in Domain
      BY <2>1, <3>2 DEF RowType, HasWildcard
    <3> QED BY <1>0, <1>2, <2>3, <3>1, <3>2, <3>3 DEF Wildcard, TypeOK
  <2>4. CASE Wildcard(r) /\ a \notin met /\ s.id = r.id
    <3>1. Alone(a)
      BY <1>0, <1>1, <2>4 DEF AllSolo, Solo
    <3>2. Like(s, r)
      BY <2>4, <3>1 DEF Alone, Knows, r
    <3> QED BY <1>0, <1>2, <2>4, <3>2 DEF Wildcard, TypeOK, Like, HasWildcard
  <2> QED BY <1>1, <2>2, <2>3, <2>4
<1> QED BY <1>3, <1>4, <1>5, <1>6 DEF IInv

\* The rows are those that were there, but for their status, and the requests
\* as they were.
LEMMA SameRowsHold ==
    ASSUME IInv, rows' \subseteq RowType,
           \A q \in rows' : \E s \in rows : Like(q, s),
           \A q, s \in rows' : q.id = s.id => q = s,
           UNCHANGED <<dns, pc, job, found, next>>,
           met \subseteq met', met' \subseteq {b \in Request : pc[b] # "idle"},
           sound' \subseteq sound, wild' = wild,
           key' \in [Ip -> Key], secrets' = secrets, beat' \in RowType \cup {NoRow},
           jobs' \in 0..MaxJobs, jobs <= jobs', faults' \in 0..MaxFaults
    PROVE  IInv'
<1>0. TypeOK /\ Counted /\ Fresh /\ Found /\ AllSolo /\ WildcardsFollow
  BY DEF IInv
<1>1. \A q, s \in rows' : (q.id = s.id \/ q.name = s.name \/ q.ip = s.ip \/ q.path = s.path)
                              => q = s
  <2> SUFFICES ASSUME NEW q \in rows', NEW s \in rows',
                      q.id = s.id \/ q.name = s.name \/ q.ip = s.ip \/ q.path = s.path
               PROVE  q = s
    OBVIOUS
  <2>1. PICK t \in rows : Like(q, t)
    OBVIOUS
  <2>2. PICK u \in rows : Like(s, u)
    OBVIOUS
  <2>3. t = u
    BY <1>0, <2>1, <2>2 DEF TypeOK, Like
  <2> QED BY <2>1, <2>2, <2>3 DEF Like
<1>2. TypeOK'
  BY <1>0, <1>1 DEF TypeOK, RowType
<1>3. Counted'
  <2>1. Working' = Working
    BY DEF Working
  <2>2. Cardinality(Working) \in Nat /\ next \in Nat /\ jobs \in Nat /\ jobs' \in Nat
    BY <1>0, FS_CardinalityType, BoundAssumption DEF Counted, TypeOK
  <2> QED BY <1>0, <2>1, <2>2 DEF Counted
<1>4. Fresh' /\ Found'
  BY <1>0 DEF Fresh, Found, Like, HasWildcard
<1>5. WildcardsFollow'
  BY <1>0 DEF WildcardsFollow, Like, HasWildcard
<1>6. AllSolo'
  <2> SUFFICES ASSUME NEW b \in Request, pc[b] # "idle" PROVE Solo(b)'
    BY DEF AllSolo
  <2>1. Solo(b)
    BY <1>0 DEF AllSolo
  <2>2. ASSUME Alone(b), NEW c \in Request \ {b}, pc'[c] # "idle"
        PROVE  /\ pc[c] # "idle" /\ job'[c] = job[c]
               /\ \A r \in rows' : r.id = found'[c].id =>
                                ~IsAbout(r, job[b].payload) /\ r.id # found[b].id
    BY <2>2 DEF Alone, Strangers, Like, IsAbout
  <2>3. \A q \in rows' : \E s \in rows : Like(q, s) /\ (q.id \in sound' => s.id \in sound)
    BY DEF Like
  <2> QED BY <2>1, <2>2, <2>3, Bystander
<1> QED BY <1>2, <1>3, <1>4, <1>5, <1>6 DEF IInv

\* A row goes.
LEMMA DeleteHolds == ASSUME IInv, NEW a \in Request, Delete(a) PROVE IInv'
<1>1. /\ jobs < MaxJobs /\ jobs' = jobs + 1 /\ rows' \subseteq rows
      /\ UNCHANGED <<outside, secrets, pc, job, found, beat, next, faults, history>>
  BY DEF Delete
<1>2. TypeOK
  BY DEF IInv
<1>3. jobs' \in 0..MaxJobs /\ jobs <= jobs'
  BY <1>1, <1>2, BoundAssumption DEF TypeOK
<1> QED BY <1>1, <1>2, <1>3, SameRowsHold DEF TypeOK, Like, outside, history

\* The reconciler reads a row for a heartbeat.
LEMMA ReadBeatHolds == ASSUME IInv, ReadBeat PROVE IInv'
<1>1. /\ beat' \in rows
      /\ UNCHANGED <<rows, outside, secrets, pc, job, found, next, jobs, faults, history>>
  BY DEF ReadBeat
<1>2. TypeOK
  BY DEF IInv
<1>3. jobs' \in 0..MaxJobs /\ jobs <= jobs'
  BY <1>1, <1>2, BoundAssumption DEF TypeOK
<1> QED BY <1>1, <1>2, <1>3, SameRowsHold DEF TypeOK, Like, outside, history

\* A heartbeat changes the status of the row it is for, and no other column.
LEMMA WriteBeatHolds == ASSUME IInv, WriteBeat PROVE IInv'
<1> DEFINE now == {r \in rows : r.id = beat.id}
           asked == [beat EXCEPT !.status = "ONLINE"]
<1>1. /\ beat # NoRow
      /\ rows' = (rows \ now) \cup {Merged(r, beat, asked) : r \in now}
      /\ beat' = NoRow
      /\ UNCHANGED <<outside, secrets, pc, job, found, next, jobs, faults, history>>
  BY DEF WriteBeat
<1>2. TypeOK
  BY DEF IInv
<1>3. jobs' \in 0..MaxJobs /\ jobs <= jobs'
  BY <1>1, <1>2, BoundAssumption DEF TypeOK
<1>4. /\ asked \in RowType /\ asked.id = beat.id /\ asked.name = beat.name /\ asked.ip = beat.ip
      /\ asked.path = beat.path /\ asked.domain = beat.domain /\ asked.target = beat.target
  BY <1>1, <1>2 DEF TypeOK, RowType, Status
<1> HIDE DEF asked
<1>5. ASSUME NEW r \in now PROVE Like(Merged(r, beat, asked), r) /\ Merged(r, beat, asked) \in RowType
  <2>1. r \in RowType
    BY <1>2 DEF TypeOK
  <2> DEFINE m == Merged(r, beat, asked)
  <2>2. /\ m \in RowType
        /\ m.id = IF asked.id = beat.id THEN r.id ELSE asked.id
        /\ m.name = IF asked.name = beat.name THEN r.name ELSE asked.name
        /\ m.ip = IF asked.ip = beat.ip THEN r.ip ELSE asked.ip
        /\ m.path = IF asked.path = beat.path THEN r.path ELSE asked.path
        /\ m.domain = IF asked.domain = beat.domain THEN r.domain ELSE asked.domain
        /\ m.target = IF asked.target = beat.target THEN r.target ELSE asked.target
    BY <1>4, <2>1, MergedRow
  <2> HIDE DEF m
  <2>3. Like(m, r)
    BY <1>4, <2>2 DEF Like
  <2> QED BY <2>2, <2>3 DEF m
<1>6. \A q \in rows' : \/ q \in rows /\ q \notin now
                       \/ \E r \in now : q = Merged(r, beat, asked) /\ Like(q, r) /\ q \in RowType
  BY <1>1, <1>5
<1>7. \A q \in rows' : q \in RowType /\ \E s \in rows : Like(q, s)
  BY <1>2, <1>6 DEF TypeOK, Like
<1>8. \A q, s \in rows' : q.id = s.id => q = s
  BY <1>2, <1>6 DEF TypeOK, Like
<1> QED BY <1>1, <1>2, <1>3, <1>7, <1>8, SameRowsHold DEF TypeOK, outside, history

\* A machine gets another key: no row changes.
LEMMA RekeyHolds == ASSUME IInv, NEW i \in Ip, Rekey(i) PROVE IInv'
<1>1. PICK k \in Key : key' = [key EXCEPT ![i] = k]
  BY DEF Rekey
<1>2. TypeOK
  BY DEF IInv
<1>3. /\ key' \in [Ip -> Key] /\ faults' \in 0..MaxFaults
      /\ jobs' \in 0..MaxJobs /\ jobs <= jobs'
  BY <1>1, <1>2, BoundAssumption DEF Rekey, Fault, TypeOK
<1> QED BY <1>2, <1>3, SameRowsHold DEF Rekey, TypeOK, Like

\* A restart ends all requests.
LEMMA RestartHolds == ASSUME IInv, Restart PROVE IInv'
<1>0. TypeOK /\ Counted /\ Fresh /\ Found /\ AllSolo /\ WildcardsFollow
  BY DEF IInv
<1>1. /\ faults' \in 0..MaxFaults /\ secrets' \in [Path -> Key \cup {None}]
      /\ pc' = [a \in Request |-> "idle"] /\ job' = [a \in Request |-> NoJob]
      /\ found' = [a \in Request |-> NoRow] /\ beat' = NoRow
      /\ met' = {} /\ sound' \subseteq sound
      /\ UNCHANGED <<rows, outside, next, jobs, wild>>
  BY <1>0, BoundAssumption DEF Restart, Fault, TypeOK
<1>2. TypeOK'
  BY <1>0, <1>1 DEF TypeOK, outside, RowType, Label
<1>3. Working' \subseteq Working
  BY <1>1 DEF Working
<1>4. Counted'
  BY <1>0, <1>1, <1>3, FewerWork
<1>5. next \in Nat \ {0}
  BY <1>0, BoundAssumption DEF TypeOK
<1>6. Fresh' /\ Found' /\ AllSolo' /\ WildcardsFollow'
  BY <1>0, <1>1, <1>5, RowIds DEF Fresh, Found, AllSolo, WildcardsFollow, outside, HasWildcard
<1> QED BY <1>2, <1>4, <1>6 DEF IInv

\* Every step keeps the invariant.
LEMMA StepHolds == IInv /\ [Next]_vars => IInv'
<1> SUFFICES ASSUME IInv, [Next]_vars PROVE IInv'
  OBVIOUS
<1>1. CASE UNCHANGED vars
  <2>1. TypeOK
    BY DEF IInv
  <2>2. jobs' \in 0..MaxJobs /\ jobs <= jobs'
    BY <1>1, <2>1, BoundAssumption DEF vars, TypeOK
  <2> QED BY <1>1, <2>1, <2>2, SameRowsHold DEF vars, outside, history, TypeOK, Like
<1>2. ASSUME NEW a \in Request,
             \/ Begin(a) \/ FindName(a) \/ FindIp(a) \/ Put(a) \/ Insert(a) \/ Update(a)
             \/ EnsureDns(a) \/ Delete(a)
      PROVE  IInv'
  BY <1>2, BeginHolds, FindNameHolds, FindIpHolds, PutHolds, InsertHolds, UpdateHolds,
     EnsureDnsHolds, DeleteHolds
<1> QED BY <1>1, <1>2, ReadBeatHolds, WriteBeatHolds, RestartHolds, RekeyHolds DEF Next

\* The inductive invariant holds: every request that met nobody knows what the
\* database holds about its name and its address.
THEOREM InvHolds == Spec => []IInv
  BY InitHolds, StepHolds, PTL DEF Spec

\* The types of rows, requests and stores; ids, names, addresses and paths stay
\* unique, although they are checked by nobody but the database.
THEOREM TypeCorrect == Spec => []TypeOK
<1>1. IInv => TypeOK
  BY DEF IInv
<1> QED BY <1>1, InvHolds, PTL

\* The wildcard name of a host whose last registration asked for one and got an
\* answer leads where its row says, until a registration takes the name.
THEOREM WildcardsFollowHolds == Spec => []WildcardsFollow
<1>1. IInv => WildcardsFollow
  BY DEF IInv
<1> QED BY <1>1, InvHolds, PTL

-----------------------------------------------------------------------------
(* Manageable.                                                             *)

\* The key a request that has met nobody brings is its machine's, and the one
\* that is stored.
KeyKnown(a) ==
    /\ job[a].key = key[job[a].payload.ip]
    /\ pc[a] = "store" => secrets[PathOf[job[a].payload.name]] = job[a].key

\* While a request has its key stored at a path, no registration holds of the
\* host that had the path, if that is not the host the request has read.
Displaced(a) ==
    pc[a] = "store" =>
        \A r \in rows : r.path = PathOf[job[a].payload.name] /\ r.id \in sound
                           => r.id = found[a].id

Managed ==
    /\ \A a \in Request : Displaced(a)
    /\ \A a \in Request : pc[a] # "idle" /\ a \notin met => KeyKnown(a)
    /\ Manageable

\* Requests that are not at the row, and keys that stay.
LEMMA KeysStay ==
    ASSUME Managed, rows' = rows, sound' \subseteq sound,
           UNCHANGED <<key, secrets>>,
           \A a \in Request : (pc'[a] = "store" <=> pc[a] = "store")
                              /\ (pc[a] = "store" => job'[a] = job[a] /\ found'[a] = found[a])
    PROVE  Manageable' /\ \A a \in Request : Displaced(a)'
  BY DEF Managed, Manageable, Displaced

\* At first there is no host.
LEMMA ManagedInit == Init => Managed
  BY DEF Init, Managed, Manageable, Displaced

\* A registration begins with the key its machine takes.
LEMMA ManagedBegin ==
    ASSUME IInv, Managed, NEW a \in Request, Begin(a) PROVE Managed'
<1>1. PICK p \in Registrations :
        /\ pc[a] = "idle" /\ pc' = [pc EXCEPT ![a] = "name"]
        /\ job' = [job EXCEPT ![a] = [payload |-> p, key |-> key[p.ip]]]
        /\ met \subseteq met' /\ sound' \subseteq sound
        /\ UNCHANGED <<rows, outside, secrets, found, beat>>
  BY DEF Begin, history
<1>2. TypeOK
  BY DEF IInv
<1>3. Manageable' /\ \A b \in Request : Displaced(b)'
  BY <1>1, <1>2, KeysStay DEF TypeOK, outside
<1>4. \A b \in Request : pc'[b] # "idle" /\ b \notin met' => KeyKnown(b)'
  BY <1>1, <1>2 DEF TypeOK, Managed, KeyKnown, outside
<1> QED BY <1>3, <1>4 DEF Managed

\* The lookups end a request or let it go on.
LEMMA ManagedFind ==
    ASSUME IInv, Managed, NEW a \in Request, FindName(a) \/ FindIp(a) PROVE Managed'
<1>1. TypeOK
  BY DEF IInv
<1>2. /\ UNCHANGED <<rows, outside, secrets, sound>>
      /\ pc[a] \in {"name", "ip"} /\ pc'[a] # "store"
      /\ met' \subseteq met /\ met \subseteq met' \cup {a}
      /\ \A b \in Request \ {a} : pc'[b] = pc[b] /\ job'[b] = job[b] /\ found'[b] = found[b]
      /\ pc'[a] = "idle" \/ (job'[a] = job[a] /\ met' = met)
  <2>1. CASE FindName(a)
    BY <1>1, <2>1 DEF FindName, Goto, TypeOK
  <2>2. CASE FindIp(a)
    BY <1>1, <2>2 DEF FindIp, Goto, Leave, TypeOK
  <2> QED BY <2>1, <2>2
<1>3. Manageable' /\ \A b \in Request : Displaced(b)'
  BY <1>2, KeysStay DEF outside
<1>4. \A b \in Request : pc'[b] # "idle" /\ b \notin met' => KeyKnown(b)'
  BY <1>2 DEF Managed, KeyKnown, outside
<1> QED BY <1>3, <1>4 DEF Managed

\* A key that is being stored is out of step with the row at its path alone.
LEMMA ManagedPut ==
    ASSUME IInv, Managed, NEW a \in Request, Put(a) PROVE Managed'
<1>1. TypeOK /\ AllSolo
  BY DEF IInv
<1> DEFINE path == PathOf[job[a].payload.name]
<1>2. /\ pc[a] = "put" /\ UNCHANGED <<rows, outside>> /\ sound' \subseteq sound
      /\ \/ secrets' = [secrets EXCEPT ![path] = job[a].key] \/ secrets' = secrets
  BY DEF Put
<1>3. path \in Path /\ job[a].key \in Key
  <2>1. job[a].payload \in Payload /\ job[a].key \in Key
    BY <1>1, <1>2, AskedRow
  <2> QED BY <2>1, PathAssumption DEF Payload, Path
<1>4. \A b \in Request \ {a} : pc'[b] = pc[b] /\ job'[b] = job[b] /\ found'[b] = found[b]
                               /\ (b \notin met' => b \notin met)
  BY <1>1 DEF Put, Goto, Leave, TypeOK
<1>5. \A q \in Path \ {path} : secrets'[q] = secrets[q]
  BY <1>1, <1>2 DEF TypeOK
<1>6. \/ /\ pc'[a] = "store" /\ job'[a] = job[a] /\ (a \notin met' => a \notin met)
         /\ found'[a] = found[a] /\ secrets'[path] = job[a].key
         /\ \A r \in rows : r.path = path /\ r.id \in sound' => r.id = found[a].id
      \/ /\ pc'[a] = "idle"
         /\ secrets' = secrets \/ \A r \in rows : r.path = path => r.id \notin sound'
  <2>1. CASE /\ Goto(a, "store") /\ found' = found
             /\ secrets' = [secrets EXCEPT ![path] = job[a].key]
             /\ sound' = sound \ Ids({r \in rows : r.path = path /\ r.id # found[a].id})
    <3>1. \A r \in rows : r.path = path /\ r.id \in sound' => r.id = found[a].id
      BY <2>1 DEF Ids
    <3> QED BY <1>1, <1>3, <2>1, <3>1 DEF Goto, TypeOK
  <2>2. CASE Leave(a) /\ (secrets' = secrets \/ sound' = sound \ Ids({r \in rows : r.path = path}))
    <3>1. pc'[a] = "idle"
      BY <1>1, <2>2 DEF Leave, TypeOK
    <3> QED BY <2>2, <3>1 DEF Ids
  <2> QED BY <2>1, <2>2 DEF Put
<1>7. Manageable'
  <2> SUFFICES ASSUME NEW r \in rows, r.id \in sound',
                      \A b \in Request : pc'[b] = "store" => PathOf[job'[b].payload.name] # r.path
               PROVE  secrets'[r.path] = key[r.ip]
    BY <1>2 DEF Manageable, outside
  <2>1. r.path \in Path
    <3>1. r \in RowType
      BY <1>1 DEF TypeOK
    <3> QED BY <3>1 DEF RowType
  <2>2. secrets'[r.path] = secrets[r.path]
    BY <1>2, <1>5, <1>6, <2>1
  <2>3. \A b \in Request : pc[b] = "store" => PathOf[job[b].payload.name] # r.path
    BY <1>2, <1>4
  <2> QED BY <1>2, <2>2, <2>3 DEF Managed, Manageable
<1>8. ASSUME NEW b \in Request, pc'[b] # "idle", b \notin met' PROVE KeyKnown(b)'
  <2>1. CASE b = a
    BY <1>2, <1>6, <1>8, <2>1 DEF Managed, KeyKnown, outside
  <2>2. CASE b # a
    <3>1. Strangers(b, a) /\ KeyKnown(b)
      BY <1>1, <1>2, <1>4, <1>8, <2>2 DEF AllSolo, Solo, Alone, Managed
    <3>2. PathOf[job[b].payload.name] \in Path \ {path}
      <4>1. job[b].payload \in Payload
        BY <1>1, <1>4, <1>8, <2>2, AskedRow
      <4> QED BY <3>1, <4>1, PathAssumption DEF Payload, Path, Strangers
    <3> QED BY <1>2, <1>4, <1>5, <2>2, <3>1, <3>2 DEF KeyKnown, outside
  <2> QED BY <2>1, <2>2
<1>9. \A b \in Request : Displaced(b)'
  BY <1>2, <1>4, <1>6 DEF Managed, Displaced
<1> QED BY <1>7, <1>8, <1>9 DEF Managed

\* A request that ends at the row, having stored its key in vain: no host is
\* left with it.
LEMMA ManagedInVain ==
    ASSUME IInv, Managed, NEW a \in Request, pc[a] = "store", Leave(a),
           UNCHANGED <<rows, outside, secrets, sound>>,
           Alone(a) => \A r \in rows : r.path = PathOf[job[a].payload.name] => r.id \notin sound
    PROVE  Managed'
<1>1. TypeOK /\ AllSolo
  BY DEF IInv
<1>2. /\ pc'[a] = "idle"
      /\ \A b \in Request \ {a} : /\ pc'[b] = pc[b] /\ job'[b] = job[b] /\ found'[b] = found[b]
                                  /\ b \notin met' => b \notin met
  BY <1>1 DEF Leave, TypeOK
<1>3. \A r \in rows : r.id \in sound => r.path # PathOf[job[a].payload.name]
  BY <1>1 DEF AllSolo, Solo, Clear
<1>4. Manageable'
  BY <1>2, <1>3 DEF Managed, Manageable, outside
<1>5. \A b \in Request : pc'[b] # "idle" /\ b \notin met' => KeyKnown(b)'
  BY <1>2 DEF Managed, KeyKnown, outside
<1>6. \A b \in Request : Displaced(b)'
  BY <1>2 DEF Managed, Displaced
<1> QED BY <1>4, <1>5, <1>6 DEF Managed

\* A request that stores its row: the host has the key that was stored for it.
LEMMA ManagedStored ==
    ASSUME IInv, Managed, NEW a \in Request, pc[a] = "store", NEW m, Stored(a, m),
           m \in rows',
           \A q \in rows' : q = m \/ (q \in rows /\ q.id # m.id /\ q.path # m.path),
           UNCHANGED <<outside, secrets>>,
           Alone(a) => m.path = PathOf[job[a].payload.name] /\ m.ip = job[a].payload.ip
    PROVE  Managed'
<1>1. TypeOK /\ AllSolo
  BY DEF IInv
<1>2. /\ pc'[a] \in {"idle", "dns"}
      /\ pc'[a] = "dns" => job'[a] = job[a] /\ met' = met
      /\ \A b \in Request \ {a} : /\ pc'[b] = pc[b] /\ job'[b] = job[b] /\ found'[b] = found[b]
                                  /\ b \notin met' => b \notin met
      /\ sound' = IF a \in met THEN sound \ {m.id} ELSE sound \cup {m.id}
  <2>1. CASE Leave(a)
    BY <1>1, <2>1 DEF Leave, TypeOK, Stored
  <2>2. CASE Goto(a, "dns") /\ found' = [found EXCEPT ![a] = m]
    BY <1>1, <2>2 DEF Goto, TypeOK, Stored
  <2> QED BY <2>1, <2>2 DEF Stored
<1>3. Manageable'
  <2> SUFFICES ASSUME NEW q \in rows', q.id \in sound',
                      \A b \in Request : pc'[b] = "store" => PathOf[job'[b].payload.name] # q.path
               PROVE  secrets[q.path] = key[q.ip]
    BY DEF Manageable, outside
  <2>1. CASE q = m
    <3>1. a \notin met /\ Alone(a) /\ KeyKnown(a)
      BY <1>1, <1>2, <2>1 DEF AllSolo, Solo, Managed
    <3> QED BY <2>1, <3>1 DEF KeyKnown
  <2>2. CASE q \in rows /\ q.id # m.id /\ q.path # m.path
    <3>1. q.id \in sound
      BY <1>2, <2>2
    <3>2. PathOf[job[a].payload.name] # q.path
      BY <1>1, <2>2, <3>1 DEF AllSolo, Solo, Clear
    <3>3. \A b \in Request : pc[b] = "store" => PathOf[job[b].payload.name] # q.path
      BY <1>2, <3>2
    <3> QED BY <2>2, <3>1, <3>3 DEF Managed, Manageable
  <2> QED BY <2>1, <2>2
<1>4. \A b \in Request : pc'[b] # "idle" /\ b \notin met' => KeyKnown(b)'
  BY <1>2 DEF Managed, KeyKnown, outside
<1>5. ASSUME NEW b \in Request PROVE Displaced(b)'
  <2> SUFFICES ASSUME b # a, pc[b] = "store", NEW q \in rows', q.id \in sound',
                      q.path = PathOf[job[b].payload.name]
               PROVE  q.id = found[b].id
    BY <1>2 DEF Displaced
  <2>1. CASE q = m
    <3>1. Alone(a) /\ Strangers(a, b)
      BY <1>1, <1>2, <2>1 DEF AllSolo, Solo, Alone
    <3> QED BY <2>1, <3>1 DEF Strangers
  <2>2. CASE q \in rows /\ q.id # m.id
    BY <1>2, <2>2 DEF Managed, Displaced
  <2> QED BY <2>1, <2>2
<1> QED BY <1>3, <1>4, <1>5 DEF Managed

\* A new row.
LEMMA ManagedInsert ==
    ASSUME IInv, Managed, NEW a \in Request, Insert(a) PROVE Managed'
<1>1. TypeOK /\ Fresh
  BY DEF IInv
<1> DEFINE r == Asked(a, next)
           p == job[a].payload
<1>2. /\ pc[a] = "store" /\ found[a] = NoRow /\ UNCHANGED <<outside, secrets>>
      /\ \/ Unique(r, rows) /\ rows' = rows \cup {r} /\ Stored(a, r)
         \/ UNCHANGED <<rows, sound>> /\ Leave(a)
  BY DEF Insert
<1>3. /\ p \in Payload /\ p.name \in Name
      /\ r.id = next /\ r.name = p.name /\ r.ip = p.ip /\ r.path = PathOf[p.name]
  BY <1>1, <1>2, AskedRow DEF Payload
<1>4. CASE UNCHANGED <<rows, sound>> /\ Leave(a)
  <2>1. \A q \in rows : q.path = PathOf[p.name] => q.id \notin sound
    <3>1. \A q \in rows : q.id # NoRow.id
      BY <1>1, RowIds DEF TypeOK
    <3> QED BY <1>2, <3>1 DEF Managed, Displaced
  <2> QED BY <1>2, <1>4, <2>1, ManagedInVain
<1>5. CASE Unique(r, rows) /\ rows' = rows \cup {r} /\ Stored(a, r)
  <2>1. \A q \in rows : q.id # r.id /\ q.path # r.path
    <3>1. \A q \in rows : q.id \in Nat /\ q.id < next
      BY <1>1, RowIds DEF TypeOK, Fresh
    <3> QED BY <1>3, <1>5, <3>1 DEF Unique
  <2> HIDE DEF r
  <2> QED BY <1>2, <1>3, <1>5, <2>1, ManagedStored
<1> QED BY <1>2, <1>4, <1>5

\* A changed row.
LEMMA ManagedUpdate ==
    ASSUME IInv, Managed, NEW a \in Request, Update(a) PROVE Managed'
<1>1. TypeOK /\ Fresh
  BY DEF IInv
<1> DEFINE now == {r \in rows : r.id = found[a].id}
           becomes == {Merged(r, found[a], Asked(a, r.id)) : r \in now}
           p == job[a].payload
<1>2. /\ pc[a] = "store" /\ found[a] # NoRow /\ UNCHANGED <<outside, secrets>>
      /\ \/ /\ now # {} /\ \A r \in becomes : Unique(r, rows \ now)
            /\ rows' = (rows \ now) \cup becomes /\ \E r \in becomes : Stored(a, r)
         \/ /\ ~(now # {} /\ \A r \in becomes : Unique(r, rows \ now))
            /\ UNCHANGED <<rows, sound>> /\ Leave(a)
  BY DEF Update
<1>3. \A r \in rows : r \in RowType
  BY <1>1 DEF TypeOK
<1>4. ASSUME Alone(a), NEW r \in now
      PROVE  LET m == Merged(r, found[a], Asked(a, r.id)) IN
             m.name = p.name /\ m.ip = p.ip /\ m.path = PathOf[p.name]
  <2> DEFINE asked == Asked(a, r.id)
             m == Merged(r, found[a], asked)
  <2>1. /\ asked \in RowType /\ asked.name = p.name /\ asked.ip = p.ip
        /\ asked.path = PathOf[p.name]
    BY <1>1, <1>2, <1>3, RowIds, AskedRow
  <2> HIDE DEF asked
  <2>2. /\ m.name = IF asked.name = found[a].name THEN r.name ELSE asked.name
        /\ m.ip = IF asked.ip = found[a].ip THEN r.ip ELSE asked.ip
        /\ m.path = IF asked.path = found[a].path THEN r.path ELSE asked.path
    BY <1>3, <2>1, MergedRow
  <2> HIDE DEF m
  <2>3. Like(r, found[a])
    BY <1>4 DEF Alone, Knows
  <2>4. m.name = p.name /\ m.ip = p.ip /\ m.path = PathOf[p.name]
    BY <2>1, <2>2, <2>3 DEF Like
  <2> QED BY <2>4 DEF m, asked
<1>5. ASSUME NEW r \in now
      PROVE  Merged(r, found[a], Asked(a, r.id)).id = r.id
  <2> DEFINE asked == Asked(a, r.id)
  <2>1. asked \in RowType /\ asked.id = r.id
    BY <1>1, <1>2, <1>3, RowIds, AskedRow
  <2> HIDE DEF asked
  <2>2. Merged(r, found[a], asked).id = IF asked.id = found[a].id THEN r.id ELSE asked.id
    BY <1>3, <2>1, MergedRow
  <2> QED BY <2>1, <2>2 DEF asked
<1>6. CASE ~(now # {} /\ \A r \in becomes : Unique(r, rows \ now)) /\ UNCHANGED <<rows, sound>> /\ Leave(a)
  <2>1. ASSUME Alone(a), NEW q \in rows, q.path = PathOf[p.name], q.id \in sound PROVE FALSE
    <3>1. q \in now
      BY <1>2, <2>1 DEF Managed, Displaced
    <3>2. \A s \in rows : s.name = p.name \/ s.ip = p.ip => s \in now
      BY <1>2, <2>1 DEF Alone, Knows
    <3>3. \A s \in rows : s.path = PathOf[p.name] => s \in now
      BY <1>1, <2>1, <3>1 DEF TypeOK
    <3>4. ASSUME NEW r \in now PROVE Unique(Merged(r, found[a], Asked(a, r.id)), rows \ now)
      <4> DEFINE m == Merged(r, found[a], Asked(a, r.id))
      <4>1. m.name = p.name /\ m.ip = p.ip /\ m.path = PathOf[p.name]
        BY <1>4, <2>1
      <4> HIDE DEF m
      <4>2. \A t \in rows \ now : m.name # t.name /\ m.ip # t.ip /\ m.path # t.path
        BY <3>2, <3>3, <4>1
      <4> QED BY <4>2 DEF Unique, m
    <3> QED BY <1>6, <3>1, <3>4
  <2> QED BY <1>2, <1>6, <2>1, ManagedInVain
<1>7. CASE /\ now # {} /\ \A r \in becomes : Unique(r, rows \ now)
           /\ rows' = (rows \ now) \cup becomes /\ \E r \in becomes : Stored(a, r)
  <2>1. PICK n \in now : Stored(a, Merged(n, found[a], Asked(a, n.id)))
    BY <1>7
  <2> DEFINE m == Merged(n, found[a], Asked(a, n.id))
  <2>2. now = {n}
    BY <1>1 DEF TypeOK
  <2>3. becomes = {m}
    BY <2>2
  <2>4. m.id = n.id
    BY <1>5
  <2>5. Alone(a) => m.path = PathOf[p.name] /\ m.ip = p.ip
    BY <1>4
  <2>6. Unique(m, rows \ {n}) /\ rows' = (rows \ {n}) \cup {m} /\ Stored(a, m)
    BY <1>7, <2>1, <2>2, <2>3
  <2> HIDE DEF m
  <2>7. \A q \in rows' : q = m \/ (q \in rows /\ q.id # m.id /\ q.path # m.path)
    BY <1>1, <2>4, <2>6 DEF Unique, TypeOK
  <2> QED BY <1>2, <2>4, <2>5, <2>6, <2>7, ManagedStored
<1> QED BY <1>2, <1>6, <1>7

\* The wildcard name, a deletion and heartbeats touch no key, and no path.
LEMMA ManagedAside ==
    ASSUME IInv, Managed,
           \/ \E a \in Request : EnsureDns(a) \/ Delete(a)
           \/ ReadBeat \/ WriteBeat \/ UNCHANGED vars
    PROVE  Managed'
<1>1. TypeOK
  BY DEF IInv
<1>2. \A q \in rows' : \E s \in rows : Like(q, s)
  <2>1. CASE WriteBeat
    <3> DEFINE asked == [beat EXCEPT !.status = "ONLINE"]
    <3>1. beat \in RowType /\ \A r \in rows : r \in RowType
      BY <1>1, <2>1 DEF WriteBeat, TypeOK
    <3>2. /\ asked \in RowType /\ asked.id = beat.id /\ asked.name = beat.name
          /\ asked.ip = beat.ip /\ asked.path = beat.path /\ asked.domain = beat.domain
          /\ asked.target = beat.target
      BY <3>1 DEF RowType, Status
    <3> HIDE DEF asked
    <3>3. \A r \in rows : Like(Merged(r, beat, asked), r)
      <4> SUFFICES ASSUME NEW r \in rows PROVE Like(Merged(r, beat, asked), r)
        OBVIOUS
      <4> DEFINE m == Merged(r, beat, asked)
      <4>1. /\ m.id = IF asked.id = beat.id THEN r.id ELSE asked.id
            /\ m.name = IF asked.name = beat.name THEN r.name ELSE asked.name
            /\ m.ip = IF asked.ip = beat.ip THEN r.ip ELSE asked.ip
            /\ m.path = IF asked.path = beat.path THEN r.path ELSE asked.path
            /\ m.domain = IF asked.domain = beat.domain THEN r.domain ELSE asked.domain
            /\ m.target = IF asked.target = beat.target THEN r.target ELSE asked.target
        BY <3>1, <3>2, MergedRow
      <4> HIDE DEF m
      <4>2. Like(m, r)
        BY <3>2, <4>1 DEF Like
      <4> QED BY <4>2 DEF m
    <3> QED BY <2>1, <3>3 DEF WriteBeat, Like, asked
  <2>2. CASE ReadBeat \/ UNCHANGED vars \/ \E a \in Request : EnsureDns(a) \/ Delete(a)
    BY <2>2 DEF ReadBeat, vars, EnsureDns, Delete, Like
  <2> QED BY <2>1, <2>2
<1>3. /\ UNCHANGED <<key, secrets>> /\ sound' = sound
      /\ \A b \in Request :
            \/ pc'[b] = pc[b] /\ job'[b] = job[b] /\ found'[b] = found[b]
               /\ (b \notin met' => b \notin met)
            \/ pc[b] = "dns" /\ pc'[b] = "idle"
  <2>1. ASSUME NEW a \in Request, EnsureDns(a)
        PROVE  /\ UNCHANGED <<key, secrets>> /\ sound' = sound
               /\ pc[a] = "dns" /\ pc'[a] = "idle"
               /\ \A b \in Request \ {a} :
                    /\ pc'[b] = pc[b] /\ job'[b] = job[b] /\ found'[b] = found[b]
                    /\ b \notin met' => b \notin met
    BY <1>1, <2>1 DEF EnsureDns, Leave, TypeOK
  <2>2. CASE ReadBeat \/ WriteBeat \/ UNCHANGED vars \/ \E a \in Request : Delete(a)
    BY <2>2 DEF ReadBeat, WriteBeat, vars, Delete, outside, history
  <2> QED BY <2>1, <2>2
<1>5. \A b \in Request : Displaced(b)'
  BY <1>2, <1>3 DEF Managed, Displaced, Like
<1>6. \A b \in Request : pc'[b] # "idle" /\ b \notin met' => KeyKnown(b)'
  BY <1>3 DEF Managed, KeyKnown
<1>7. Manageable'
  BY <1>2, <1>3 DEF Managed, Manageable, Like
<1> QED BY <1>5, <1>6, <1>7 DEF Managed

\* A machine with another key is no longer its row's, nor its requests'.
LEMMA ManagedRekey == ASSUME IInv, Managed, NEW i \in Ip, Rekey(i) PROVE Managed'
<1>1. TypeOK
  BY DEF IInv
<1>2. PICK k \in Key : key' = [key EXCEPT ![i] = k]
  BY DEF Rekey
<1>3. /\ met' = met \cup {a \in Request : pc[a] # "idle" /\ job[a].payload.ip = i}
      /\ \A r \in rows : r.id \in sound' => r.id \in sound /\ r.ip # i
      /\ UNCHANGED <<rows, secrets, pc, job, found>>
  BY DEF Rekey, Ids
<1>4. \A j \in Ip \ {i} : key'[j] = key[j]
  BY <1>1, <1>2 DEF TypeOK
<1>5. \A r \in rows : r.ip \in Ip
  <2>1. \A r \in rows : r \in RowType
    BY <1>1 DEF TypeOK
  <2> QED BY <2>1 DEF RowType
<1>6. \A b \in Request : pc[b] # "idle" => job[b].payload.ip \in Ip
  <2>1. \A b \in Request : pc[b] # "idle" => job[b].payload \in Payload
    BY <1>1, AskedRow
  <2> QED BY <2>1 DEF Payload
<1>7. Manageable'
  BY <1>3, <1>4, <1>5 DEF Managed, Manageable
<1>8. \A b \in Request : pc'[b] # "idle" /\ b \notin met' => KeyKnown(b)'
  BY <1>3, <1>4, <1>6 DEF Managed, KeyKnown
<1>9. \A b \in Request : Displaced(b)'
  BY <1>3 DEF Managed, Displaced
<1> QED BY <1>7, <1>8, <1>9 DEF Managed

\* A restart cuts requests off between the key and the row, or loses every key.
LEMMA ManagedRestart == ASSUME IInv, Managed, Restart PROVE Managed'
<1>1. /\ UNCHANGED <<rows, key>>
      /\ \A a \in Request : pc'[a] = "idle"
  BY DEF Restart, outside
<1>2. CASE Durable
  <2>1. secrets' = secrets
    BY <1>2 DEF Restart
  <2>2. \A r \in rows : r.id \in sound' =>
           /\ r.id \in sound
           /\ \A a \in Request : pc[a] = "store" => PathOf[job[a].payload.name] # r.path
    BY <1>2 DEF Restart, Ids
  <2> QED BY <1>1, <2>1, <2>2 DEF Managed, Manageable, Displaced
<1>3. CASE ~Durable
  <2>1. sound' = {}
    BY <1>3 DEF Restart
  <2> QED BY <1>1, <2>1 DEF Managed, Manageable, Displaced
<1> QED BY <1>2, <1>3

\* Every step keeps hosts manageable, and keys as registrations found them.
LEMMA ManagedStep == ASSUME IInv, Managed, [Next]_vars PROVE Managed'
  BY ManagedBegin, ManagedFind, ManagedPut, ManagedInsert, ManagedUpdate, ManagedAside,
     ManagedRekey, ManagedRestart DEF Next

\* A host whose registration went through can be called with the key its row
\* leads to, unless that key has been lost since or replaced by another host's.
THEOREM ManageableHolds == Spec => []Manageable
<1>1. IInv /\ Managed /\ [Next]_vars => IInv' /\ Managed'
  BY StepHolds, ManagedStep
<1>2. Init => IInv /\ Managed
  BY InitHolds, ManagedInit
<1>3. IInv /\ Managed => Manageable
  BY DEF Managed
<1> QED BY <1>1, <1>2, <1>3, PTL DEF Spec

-----------------------------------------------------------------------------
(* Numbers, sequences and folds.                                            *)

\* A set of numbers has a least.
LEMMA LeastIs ==
    ASSUME NEW M \in SUBSET Nat, M # {}
    PROVE  \E k \in M : \A j \in M : k <= j
<1> DEFINE R == {p \in Nat \X Nat : p[1] < p[2]}
<1>1. IsWellFoundedOn(R, Nat)
  BY NatLessThanWellFounded DEF OpToRel
<1>2. PICK k \in M : \A j \in M : <<j, k>> \notin R
  <2> HIDE DEF R
  <2> QED BY <1>1, WFMin
<1>3. ASSUME NEW j \in M, j < k PROVE FALSE
  <2>1. <<j, k>> \in R
    BY <1>3
  <2> QED BY <1>2, <2>1
<1> QED BY <1>2, <1>3

\* What holds at first and is kept by every step holds in the end.
LEMMA Along ==
    ASSUME NEW n \in Nat, NEW f, NEW V, f[0] \in V[0],
           \A k \in 1..n : f[k - 1] \in V[k - 1] => f[k] \in V[k]
    PROVE  \A k \in 0..n : f[k] \in V[k]
<1> DEFINE M == {k \in 0..n : f[k] \notin V[k]}
<1> SUFFICES ASSUME M # {} PROVE FALSE
  OBVIOUS
<1>1. M \in SUBSET Nat
  OBVIOUS
<1>2. PICK k \in M : \A j \in M : k <= j
  <2> HIDE DEF M
  <2> QED BY <1>1, LeastIs
<1>3. k \in 1..n /\ k - 1 \in 0..n /\ ~(k <= k - 1)
  BY <1>2
<1>4. k - 1 \notin M
  BY <1>2, <1>3
<1> QED BY <1>2, <1>3, <1>4

\* The greatest number of a set.
Top(s) == CHOOSE x \in s : \A y \in s : x >= y

\* A set of numbers up to n has a greatest.
LEMMA TopIs ==
    ASSUME NEW n \in Nat, NEW s \in SUBSET (1..n), s # {}
    PROVE  Top(s) \in s /\ \A y \in s : Top(s) >= y
<1> DEFINE M == {k \in Nat : \A y \in s : k >= y}
<1>1. n \in M /\ M \in SUBSET Nat
  OBVIOUS
<1>2. PICK k \in M : \A j \in M : k <= j
  <2> HIDE DEF M
  <2> QED BY <1>1, LeastIs
<1>3. k \in s
  <2> SUFFICES ASSUME k \notin s PROVE FALSE
    OBVIOUS
  <2>0. k \in Nat
    BY <1>2
  <2>1. \A y \in s : y \in Nat /\ k >= y /\ k # y /\ y >= 1
    BY <1>2
  <2>2. \A y \in s : k - 1 >= y
    BY <2>0, <2>1
  <2>3. k - 1 \in Nat
    <3>1. PICK y \in s : TRUE
      OBVIOUS
    <3>2. y \in Nat /\ k - 1 >= y /\ y >= 1
      BY <2>1, <2>2, <3>1
    <3> QED BY <2>0, <3>2
  <2>4. k - 1 \in M
    BY <2>2, <2>3
  <2>5. k <= k - 1
    <3> HIDE DEF M
    <3> QED BY <1>2, <2>4
  <2> QED BY <2>0, <2>5
<1>4. \E x \in s : \A y \in s : x >= y
  BY <1>2, <1>3
<1> QED BY <1>4 DEF Top

\* The results of a fold for every set of steps, the last of a set taken last.
Folded(t, n, base, step) ==
    t = [s \in SUBSET (1..n) |->
            IF s = {} THEN base ELSE step[<<t[s \ {Top(s)}], Top(s)>>]]

\* They exist.
LEMMA FoldExists ==
    ASSUME NEW n \in Nat, NEW V, NEW base \in V, NEW step \in [V \X (1..n) -> V]
    PROVE  \E t \in [SUBSET (1..n) -> V] : Folded(t, n, base, step)
<1> DEFINE Good(m) == \E t \in [SUBSET (1..m) -> V] : Folded(t, m, base, step)
           M == {m \in 0..n : ~Good(m)}
<1> SUFFICES M = {}
  <2>1. M = {} => Good(n)
    <3> HIDE DEF Good
    <3> QED OBVIOUS
  <2> QED BY <2>1
<1> SUFFICES ASSUME M # {} PROVE FALSE
  OBVIOUS
<1>1. PICK m \in M : \A j \in M : m <= j
  <2>1. M \in SUBSET Nat
    OBVIOUS
  <2> HIDE DEF M
  <2> QED BY <2>1, LeastIs
<1>2. m # 0
  <2>1. 1..0 = {}
    OBVIOUS
  <2>2. [s \in {{}} |-> base] \in [SUBSET (1..0) -> V]
    BY <2>1
  <2>3. Folded([s \in {{}} |-> base], 0, base, step)
    BY <2>1 DEF Folded
  <2>4. Good(0)
    BY <2>2, <2>3
  <2> QED BY <1>1, <2>4
<1>3. m - 1 \in 0..n /\ m \in 1..n /\ m \in Nat /\ m - 1 \in Nat
  BY <1>1, <1>2
<1>4. m - 1 \notin M
  <2>1. ~(m <= m - 1)
    BY <1>3
  <2> QED BY <1>1, <2>1
<1>5. Good(m - 1)
  BY <1>3, <1>4
<1>6. PICK u \in [SUBSET (1..(m - 1)) -> V] : Folded(u, m - 1, base, step)
  BY <1>5
<1> DEFINE t == [s \in SUBSET (1..m) |-> IF m \in s THEN step[<<u[s \ {m}], m>>] ELSE u[s]]
<1>7. \A s \in SUBSET (1..m) : /\ s \ {m} \in SUBSET (1..(m - 1))
                               /\ m \notin s => s \in SUBSET (1..(m - 1))
  BY <1>3
<1>8. t \in [SUBSET (1..m) -> V]
  BY <1>3, <1>7
<1>9. ASSUME NEW s \in SUBSET (1..m)
      PROVE  t[s] = IF s = {} THEN base ELSE step[<<t[s \ {Top(s)}], Top(s)>>]
  <2>1. CASE m \in s
    <3>1. Top(s) \in s /\ \A y \in s : Top(s) >= y
      BY <1>3, <2>1, TopIs
    <3>2. Top(s) = m
      <4>1. Top(s) \in 1..m /\ Top(s) >= m
        BY <2>1, <3>1
      <4> QED BY <1>3, <4>1
    <3>3. t[s \ {m}] = u[s \ {m}]
      OBVIOUS
    <3> QED BY <2>1, <3>2, <3>3
  <2>2. CASE m \notin s /\ s # {}
    <3>1. Top(s) \in s
      BY <1>3, <2>2, TopIs
    <3>2. s \in SUBSET (1..(m - 1)) /\ t[s] = u[s]
      BY <1>7, <2>2
    <3>3. t[s \ {Top(s)}] = u[s \ {Top(s)}]
      BY <2>2
    <3>4. u[s] = step[<<u[s \ {Top(s)}], Top(s)>>]
      BY <1>6, <2>2, <3>2 DEF Folded
    <3> QED BY <2>2, <3>2, <3>3, <3>4
  <2>3. CASE s = {}
    <3>1. s \in SUBSET (1..(m - 1)) /\ t[s] = u[s]
      BY <1>7, <2>3
    <3>2. u[s] = base
      BY <1>6, <2>3, <3>1 DEF Folded
    <3> QED BY <2>3, <3>1, <3>2
  <2> QED BY <2>1, <2>2, <2>3
<1>10. Folded(t, m, base, step)
  <2>1. t = [s \in SUBSET (1..m) |-> t[s]]
    BY <1>8
  <2> HIDE DEF t
  <2> QED BY <1>9, <2>1 DEF Folded
<1>11. Good(m)
  <2> HIDE DEF t
  <2> QED BY <1>8, <1>10
<1> QED BY <1>1, <1>11

\* What is left of the numbers up to k without the greatest.
LEMMA Before ==
    ASSUME NEW n \in Nat, NEW k \in 1..n
    PROVE  Top(1..k) = k /\ (1..k) \ {k} = 1..(k - 1) /\ 1..k \in SUBSET (1..n) /\ 1..k # {}
<1>1. k \in 1..k /\ 1..k \in SUBSET (1..k) /\ k \in Nat
  OBVIOUS
<1>2. Top(1..k) \in 1..k /\ Top(1..k) >= k
  BY <1>1, TopIs
<1> QED BY <1>2

-----------------------------------------------------------------------------
(* CliContext: what holds of a device, whatever fails.                      *)

\* What is assumed of the constants of CliContext, and that users give a name
\* to one machine.
Assumed ==
    /\ C!LocalAssumption /\ C!NameAssumption /\ C!GivenAssumption /\ C!AliasAssumption
    /\ C!GroupAssumption /\ C!BoundAssumption /\ C!OneMachine

\* A name is known to mean the machine it is given to.
MeansFit == means \in [CliName -> Ip] /\ \A n \in CliName : Given[n] = {means[n]}

\* A host is a machine's address or a name it was given.
Belongs(h, m) == h = m \/ (h \in CliName /\ Given[h] = {m})

\* A device is kept for one machine: its key, its name and what it runs, but
\* for what a lab host's registration is called by.
RoleFits(r, m) == r # None => r.at = m /\ Belongs(r.target, m)
Fits(e) ==
    /\ e \in C!Device /\ e.key = e.ip
    /\ e.name # None => Belongs(e.name, e.ip)
    /\ RoleFits(e.cp, e.ip) /\ RoleFits(e.lab, e.ip)
    /\ e.cp # None => e.cp.also = {}

\* Devices of different machines.
Apart ==
    {ds \in Seq(C!Device) :
        /\ \A i \in 1..Len(ds) : Fits(ds[i])
        /\ \A i, j \in 1..Len(ds) : ds[i].ip = ds[j].ip => i = j}

\* Devices to which others are added, without roles.
Grows(ds, es) ==
    /\ Len(ds) <= Len(es)
    /\ \A i \in 1..Len(ds) : es[i].ip = ds[i].ip /\ es[i].cp = ds[i].cp /\ es[i].lab = ds[i].lab
    /\ \A i \in 1..Len(es) : i > Len(ds) => es[i].cp = None /\ es[i].lab = None

\* The least of a set of numbers up to n is one of them.
LEMMA MinIs ==
    ASSUME NEW n \in Nat, NEW s \in SUBSET (1..n), s # {}
    PROVE  C!Min(s) \in s /\ \A y \in s : C!Min(s) <= y
<1>1. s \in SUBSET Nat
  OBVIOUS
<1>2. \E x \in s : \A y \in s : x =< y
  BY <1>1, LeastIs
<1> QED BY <1>2 DEF C!Min

\* The device of a machine, or the place for a new one.
LEMMA AtIs ==
    ASSUME Assumed, NEW ds \in Apart, NEW m \in Ip, NEW name \in CliName \cup {None},
           name # None => Given[name] = {m}
    PROVE  LET k == C!At(ds, m, name) IN
           /\ k \in 1..(Len(ds) + 1)
           /\ k <= Len(ds) => ds[k].ip = m
           /\ k = Len(ds) + 1 => \A i \in 1..Len(ds) : ds[i].ip # m
<1>1. /\ ds \in Seq(C!Device) /\ Len(ds) \in Nat
      /\ \A i \in 1..Len(ds) : Fits(ds[i])
  BY DEF Apart
<1> DEFINE Known == {i \in 1..Len(ds) : ds[i].ip = m \/ (name # None /\ ds[i].name = name)}
           Keyed == {i \in 1..Len(ds) : ds[i].key = m}
<1>2. C!At(ds, m, name) = IF Known # {} /\ C!Min(Known) # 0 THEN C!Min(Known)
                          ELSE IF Keyed # {} /\ C!Min(Keyed) # 0 THEN C!Min(Keyed) ELSE Len(ds) + 1
  BY DEF C!At, C!SelectInSeq
<1>3. \A i \in 1..Len(ds) : (i \in Known <=> ds[i].ip = m) /\ (i \in Keyed <=> ds[i].ip = m)
  <2> TAKE i \in 1..Len(ds)
  <2>1. Fits(ds[i]) /\ ds[i] \in C!Device
    BY <1>1 DEF Fits
  <2>2. ds[i].ip \in Ip
    BY <2>1 DEF C!Device
  <2>3. name # None /\ ds[i].name = name => ds[i].ip = m
    <3> HAVE name # None /\ ds[i].name = name
    <3>1. name \in CliName /\ name \notin Ip
      BY DEF Assumed, C!NameAssumption
    <3>2. Belongs(name, ds[i].ip)
      BY <2>1 DEF Fits
    <3> QED BY <2>2, <3>1, <3>2 DEF Belongs
  <2> QED BY <2>1, <2>3 DEF Fits
<1>4. Known \in SUBSET (1..Len(ds)) /\ Keyed \in SUBSET (1..Len(ds))
  OBVIOUS
<1>5. CASE Known # {}
  <2>1. C!Min(Known) \in Known
    BY <1>1, <1>4, <1>5, MinIs
  <2>2. C!Min(Known) \in 1..Len(ds)
    BY <2>1
  <2>3. C!At(ds, m, name) = C!Min(Known)
    BY <1>1, <1>2, <1>5, <2>2
  <2> HIDE DEF Known
  <2> QED BY <1>1, <1>3, <2>1, <2>2, <2>3
<1>6. CASE Known = {}
  <2>1. Keyed = {}
    BY <1>3, <1>6
  <2>2. C!At(ds, m, name) = Len(ds) + 1
    BY <1>2, <1>6, <2>1
  <2> QED BY <1>1, <1>3, <1>6, <2>2
<1> QED BY <1>5, <1>6

\* A machine becomes a device, or is one.
LEMMA UpsertIs ==
    ASSUME Assumed, NEW ds \in Apart, NEW m \in Ip, NEW name \in CliName \cup {None},
           name # None => Given[name] = {m}
    PROVE  LET es == C!Upsert(ds, m, name)
               k == C!At(ds, m, name) IN
           /\ es \in Apart /\ Grows(ds, es)
           /\ k \in 1..Len(es) /\ es[k].ip = m
<1> DEFINE es == C!Upsert(ds, m, name)
           k == C!At(ds, m, name)
           old == [ds[k] EXCEPT !.ip = m, !.name = IF name # None THEN name ELSE @]
           new == [key |-> m, ip |-> m, name |-> name, cp |-> None, lab |-> None]
<1>1. /\ k \in 1..(Len(ds) + 1)
      /\ k <= Len(ds) => ds[k].ip = m
      /\ k = Len(ds) + 1 => \A i \in 1..Len(ds) : ds[i].ip # m
  BY AtIs
<1>2. /\ ds \in Seq(C!Device) /\ Len(ds) \in Nat
      /\ \A i \in 1..Len(ds) : Fits(ds[i]) /\ ds[i] \in C!Device
      /\ \A i, j \in 1..Len(ds) : ds[i].ip = ds[j].ip => i = j
  BY DEF Apart
<1>3. name # None => Belongs(name, m)
  BY DEF Belongs
<1>4. es = IF k <= Len(ds) THEN [ds EXCEPT ![k].ip = m, ![k].name = IF name # None THEN name ELSE @]
           ELSE Append(ds, new)
  BY DEF C!Upsert
<1> HIDE DEF es, k
<1>5. CASE k <= Len(ds)
  <2>1. k \in 1..Len(ds)
    BY <1>1, <1>2, <1>5
  <2>2. es = [ds EXCEPT ![k] = old]
    BY <1>2, <1>4, <1>5, <2>1
  <2>3. /\ old \in C!Device /\ old.key = ds[k].key /\ old.ip = m /\ ds[k].ip = m
        /\ old.name = (IF name # None THEN name ELSE ds[k].name)
        /\ old.cp = ds[k].cp /\ old.lab = ds[k].lab
    BY <1>1, <1>2, <1>5, <2>1 DEF C!Device
  <2>4. Fits(old)
    BY <1>2, <1>3, <2>1, <2>3 DEF Fits
  <2> HIDE DEF old
  <2>5. es \in Seq(C!Device) /\ Len(es) = Len(ds) /\ \A i \in 1..Len(ds) : es[i] = IF i = k THEN old ELSE ds[i]
    BY <1>2, <2>1, <2>2, <2>3
  <2>6. \A i \in 1..Len(ds) : es[i].ip = ds[i].ip /\ es[i].cp = ds[i].cp /\ es[i].lab = ds[i].lab
    BY <2>3, <2>5
  <2>7. es \in Apart
    BY <1>2, <2>4, <2>5, <2>6 DEF Apart
  <2>8. Grows(ds, es)
    BY <1>2, <2>5, <2>6 DEF Grows
  <2>9. k \in 1..Len(es) /\ es[k].ip = m
    BY <2>1, <2>3, <2>5
  <2> QED BY <2>7, <2>8, <2>9 DEF es, k
<1>6. CASE k = Len(ds) + 1
  <2>1. es = Append(ds, new)
    BY <1>2, <1>4, <1>6
  <2>2. new \in C!Device /\ Fits(new)
    BY <1>3 DEF C!Device, C!Role, Fits, RoleFits
  <2>3. new.ip = m /\ new.cp = None /\ new.lab = None
    OBVIOUS
  <2> HIDE DEF new
  <2>4. /\ es \in Seq(C!Device) /\ Len(es) = Len(ds) + 1
        /\ \A i \in 1..Len(es) : es[i] = IF i = k THEN new ELSE ds[i]
    BY <1>2, <1>6, <2>1, <2>2
  <2>5. \A i \in 1..Len(es) : i = k \/ i \in 1..Len(ds)
    BY <1>2, <1>6, <2>4
  <2>6. es \in Apart
    <3>1. \A i \in 1..Len(es) : Fits(es[i])
      BY <1>2, <2>2, <2>4, <2>5
    <3>2. ASSUME NEW i \in 1..Len(es), NEW j \in 1..Len(es), es[i].ip = es[j].ip PROVE i = j
      BY <1>1, <1>2, <1>6, <2>3, <2>4, <2>5, <3>2
    <3> QED BY <2>4, <3>1, <3>2 DEF Apart
  <2>7. Grows(ds, es)
    BY <1>2, <1>6, <2>3, <2>4, <2>5 DEF Grows
  <2>8. k \in 1..Len(es) /\ es[k].ip = m
    BY <1>2, <1>6, <2>3, <2>4
  <2> QED BY <2>6, <2>7, <2>8 DEF es, k
<1> QED BY <1>1, <1>2, <1>5, <1>6 DEF es, k

\* Machines become devices one after the other.
LEMMA UpsertsAre ==
    ASSUME Assumed, NEW ds \in Apart, NEW ms \in Seq(Ip)
    PROVE  C!UpsertAll(ds, ms) \in Apart
<1>1. PICK n \in Nat : n = Len(ms) /\ DOMAIN ms = 1..n /\ \A k \in 1..n : ms[k] \in Ip
  OBVIOUS
<1> DEFINE step == [p \in Apart \X (1..n) |-> C!Upsert(p[1], ms[p[2]], None)]
           By(t) == t = [s \in SUBSET (1..n) |->
                            IF s = {} THEN ds ELSE C!Upsert(t[s \ {Top(s)}], ms[Top(s)], None)]
           t == CHOOSE t : By(t)
<1>2. \A es \in Apart, m \in Ip : C!Upsert(es, m, None) \in Apart
  BY UpsertIs
<1>3. step \in [Apart \X (1..n) -> Apart]
  BY <1>1, <1>2
<1>4. PICK u \in [SUBSET (1..n) -> Apart] : Folded(u, n, ds, step)
  <2> HIDE DEF step
  <2> QED BY <1>1, <1>3, FoldExists
<1>5. By(u)
  <2>1. ASSUME NEW s \in SUBSET (1..n), s # {}
        PROVE  step[<<u[s \ {Top(s)}], Top(s)>>] = C!Upsert(u[s \ {Top(s)}], ms[Top(s)], None)
    <3>1. Top(s) \in 1..n /\ u[s \ {Top(s)}] \in Apart
      BY <1>1, <1>4, <2>1, TopIs
    <3> QED BY <3>1
  <2> HIDE DEF step
  <2> QED BY <1>4, <2>1 DEF Folded
<1>6. By(t)
  BY <1>5
<1>7. C!UpsertAll(ds, ms) = t[1..n]
  BY <1>1 DEF C!UpsertAll, C!FoldLeft, C!MapThenFoldSet, C!Max, Top
<1> HIDE DEF step, t
<1> DEFINE f == [k \in 0..n |-> t[1..k]]
           V == [k \in 0..n |-> Apart]
<1>8. f[0] \in V[0]
  <2>1. 1..0 = {} /\ {} \in SUBSET (1..n)
    OBVIOUS
  <2> QED BY <1>1, <1>6, <2>1
<1>9. ASSUME NEW k \in 1..n, f[k - 1] \in V[k - 1]
      PROVE  f[k] \in V[k]
  <2>1. Top(1..k) = k /\ (1..k) \ {k} = 1..(k - 1) /\ 1..k \in SUBSET (1..n) /\ 1..k # {}
    BY <1>1, Before
  <2>2. t[1..k] = C!Upsert(t[1..(k - 1)], ms[k], None)
    BY <1>6, <2>1
  <2>3. t[1..(k - 1)] \in Apart
    BY <1>1, <1>9
  <2> QED BY <1>1, <1>2, <2>2, <2>3
<1>10. \A k \in 0..n : f[k] \in V[k]
  <2> HIDE DEF f, V
  <2> QED BY <1>1, <1>8, <1>9, Along
<1> QED BY <1>1, <1>7, <1>10

-----------------------------------------------------------------------------
(* What a device may be called.                                             *)

\* A host belongs to one machine at most.
LEMMA OneOwner ==
    ASSUME Assumed, NEW h, NEW m \in Ip, NEW o \in Ip, Belongs(h, m), Belongs(h, o)
    PROVE  m = o
<1>1. h \in Ip => h \notin CliName
  BY DEF Assumed, C!NameAssumption
<1> QED BY <1>1 DEF Belongs

\* What a device is called belongs to its machine, or its registration is
\* called so.
LEMMA CalledIs ==
    ASSUME Assumed, NEW e, Fits(e)
    PROVE  /\ C!Identifiers(e) \in SUBSET C!Id
           /\ e.ip \in Ip /\ e.ip \in C!Identifiers(e)
           /\ \A x \in C!Identifiers(e) : Belongs(x, e.ip) \/ (e.lab # None /\ x \in e.lab.also)
           /\ e.cp # None => /\ e.cp.at = e.ip /\ e.cp.target \in C!Id
                             /\ e.cp.target \in C!Identifiers(e) /\ Belongs(e.cp.target, e.ip)
           /\ e.lab # None => /\ e.lab.at = e.ip /\ e.lab.target \in C!Id
                              /\ e.lab.target \in C!Identifiers(e) /\ Belongs(e.lab.target, e.ip)
                              /\ e.lab.also \in SUBSET C!Id
<1>1. e.ip \in Ip /\ e.key = e.ip /\ e.name \in CliName \cup {None} /\ None \notin C!Id
  BY DEF Fits, C!Device, Assumed, C!NameAssumption
<1>2. e.cp # None => e.cp.at = e.ip /\ e.cp.target \in C!Id /\ Belongs(e.cp.target, e.ip)
                     /\ e.cp.also = {}
  BY DEF Fits, C!Device, C!Role, RoleFits
<1>3. e.lab # None => e.lab.at = e.ip /\ e.lab.target \in C!Id /\ Belongs(e.lab.target, e.ip)
                      /\ e.lab.also \in SUBSET C!Id
  BY DEF Fits, C!Device, C!Role, RoleFits
<1>4. e.name # None => Belongs(e.name, e.ip)
  BY DEF Fits
<1>5. C!Identifiers(e) = ({e.ip, e.name} \cup (IF e.cp = None THEN {} ELSE {e.cp.target, e.cp.at})
                            \cup (IF e.lab = None THEN {} ELSE {e.lab.target, e.lab.at} \cup e.lab.also))
                         \ {None}
  BY <1>1, <1>2 DEF C!Identifiers, C!Named
<1>6. Belongs(e.ip, e.ip)
  BY DEF Belongs
<1>7. Ip \subseteq C!Id /\ CliName \subseteq C!Id
  BY DEF C!Id
<1>8. ASSUME NEW x \in C!Identifiers(e)
      PROVE  x \in C!Id /\ (Belongs(x, e.ip) \/ (e.lab # None /\ x \in e.lab.also))
  <2>1. \/ x = e.ip
        \/ x = e.name /\ e.name # None
        \/ e.cp # None /\ (x = e.cp.target \/ x = e.cp.at)
        \/ e.lab # None /\ (x = e.lab.target \/ x = e.lab.at \/ x \in e.lab.also)
    BY <1>5, <1>8
  <2> QED BY <1>1, <1>2, <1>3, <1>4, <1>6, <1>7, <2>1
<1>9. /\ e.ip \in C!Identifiers(e)
      /\ e.cp # None => e.cp.target \in C!Identifiers(e)
      /\ e.lab # None => e.lab.target \in C!Identifiers(e)
  BY <1>1, <1>2, <1>3, <1>5, <1>7
<1> QED BY <1>1, <1>2, <1>3, <1>8, <1>9

\* What a user means by a device is the machine it belongs to.
LEMMA MeantIs ==
    ASSUME Assumed, MeansFit, NEW d \in C!Id, NEW m \in Ip, Belongs(d, m)
    PROVE  C!Meant(d) = {m}
<1>1. CASE d \in Ip
  <2>1. d \notin CliName
    BY <1>1 DEF Assumed, C!NameAssumption
  <2> QED BY <1>1, <2>1 DEF Belongs, C!Meant
<1>2. CASE d \notin Ip
  <2>1. d \in CliName /\ Given[d] = {m}
    BY <1>2 DEF Belongs
  <2>2. means[d] = m
    BY <2>1 DEF MeansFit
  <2>3. m # None
    BY DEF Assumed, C!NameAssumption, C!Id
  <2> QED BY <1>2, <2>2, <2>3 DEF C!Meant
<1> QED BY <1>1, <1>2

\* What belongs to one of some machines.
Within(h, R) == \E m \in R : Belongs(h, m)

\* A device is called what belongs to the machines its registration ties
\* together.
LEMMA TiedIs ==
    ASSUME Assumed, MeansFit, NEW e, Fits(e)
    PROVE  /\ C!Tied(e) \in SUBSET Ip /\ e.ip \in C!Tied(e)
           /\ \A x \in C!Identifiers(e) : Within(x, C!Tied(e))
<1>1. /\ e.ip \in Ip
      /\ \A x \in C!Identifiers(e) : Belongs(x, e.ip) \/ (e.lab # None /\ x \in e.lab.also)
      /\ e.lab # None => e.lab.also \in SUBSET C!Id
  BY CalledIs
<1>2. PICK also \in SUBSET C!Id : also = IF e.lab = None THEN {} ELSE e.lab.also
  BY <1>1
<1>3. C!Tied(e) = {e.ip} \cup UNION {C!Meant(x) : x \in also}
  BY <1>2 DEF C!Tied
<1>4. ASSUME NEW x \in C!Id PROVE \E m \in Ip : Belongs(x, m) /\ C!Meant(x) = {m}
  <2>1. CASE x \in Ip
    BY <2>1, MeantIs DEF Belongs
  <2>2. CASE x \notin Ip
    <3>1. x \in CliName /\ means[x] \in Ip /\ Given[x] = {means[x]}
      BY <2>2 DEF C!Id, MeansFit
    <3>2. Belongs(x, means[x])
      BY <3>1 DEF Belongs
    <3> QED BY <3>1, <3>2, MeantIs
  <2> QED BY <2>1, <2>2
<1>5. ASSUME NEW x \in also PROVE Within(x, C!Tied(e))
  <2>1. PICK m \in Ip : Belongs(x, m) /\ C!Meant(x) = {m}
    BY <1>4
  <2>2. m \in C!Tied(e)
    BY <1>3, <2>1
  <2> QED BY <2>1, <2>2 DEF Within
<1>6. C!Tied(e) \in SUBSET Ip
  BY <1>1, <1>3, <1>4
<1>7. \A x \in C!Identifiers(e) : Within(x, C!Tied(e))
  <2> TAKE x \in C!Identifiers(e)
  <2>1. CASE Belongs(x, e.ip)
    BY <1>3, <2>1 DEF Within
  <2>2. CASE x \in also
    BY <1>5, <2>2
  <2> QED BY <1>1, <1>2, <2>1, <2>2
<1> QED BY <1>3, <1>6, <1>7

\* A device that is called what belongs to one of some machines that are kept
\* together is of these machines, with all it is called.
LEMMA TogetherIs ==
    ASSUME Assumed, MeansFit, devices \in Apart, NEW R \in SUBSET Ip, C!Together(R),
           NEW i \in 1..Len(devices), NEW x \in C!Identifiers(devices[i]), Within(x, R)
    PROVE  /\ devices[i].ip \in R
           /\ \A y \in C!Identifiers(devices[i]) : Within(y, R)
<1>1. Fits(devices[i]) /\ devices[i] \in C!Range(devices)
  BY DEF Apart, C!Range
<1>2. PICK e : e = devices[i]
  OBVIOUS
<1>3. /\ C!Tied(e) \in SUBSET Ip /\ e.ip \in C!Tied(e)
      /\ \A y \in C!Identifiers(e) : Within(y, C!Tied(e))
  BY <1>1, <1>2, TiedIs
<1>4. C!Tied(e) \cap R # {} => C!Tied(e) \subseteq R
  BY <1>1, <1>2 DEF C!Together
<1>5. PICK m \in R : Belongs(x, m)
  BY DEF Within
<1>6. PICK o \in C!Tied(e) : Belongs(x, o)
  BY <1>2, <1>3 DEF Within
<1>7. m = o
  BY <1>3, <1>5, <1>6, OneOwner
<1> QED BY <1>2, <1>3, <1>4, <1>7 DEF Within

\* The machines a user means by a device are known, and with them those that
\* registrations tie to them.
LEMMA AskedIs ==
    ASSUME Assumed, MeansFit, devices \in Apart, NEW d \in C!Id
    PROVE  /\ C!Asked(d) \in SUBSET Ip /\ C!Together(C!Asked(d))
           /\ \A m \in Ip : Belongs(d, m) => m \in C!Asked(d)
<1>1. ASSUME NEW m \in Ip, Belongs(d, m) PROVE m \in C!Asked(d)
  <2>1. C!Meant(d) = {m}
    BY <1>1, MeantIs
  <2> QED BY <1>1, <2>1 DEF C!Asked
<1>2. ASSUME NEW e \in C!Range(devices), C!Tied(e) \cap C!Asked(d) # {}
      PROVE  C!Tied(e) \subseteq C!Asked(d)
  <2>1. Fits(e)
    BY <1>2 DEF Apart, C!Range
  <2>2. C!Tied(e) \in SUBSET Ip
    BY <2>1, TiedIs
  <2>3. \A ms \in SUBSET Ip : C!Meant(d) \subseteq ms /\ C!Together(ms) => C!Tied(e) \subseteq ms
    BY <1>2 DEF C!Asked, C!Together
  <2> QED BY <2>2, <2>3 DEF C!Asked
<1> QED BY <1>1, <1>2 DEF C!Asked, C!Together

\* The pass over the devices, device by device.
LEMMA InDevicesAre ==
    ASSUME Assumed, devices \in Apart, NEW s \in SUBSET C!Id
    PROVE  \E f \in [0..Len(devices) -> SUBSET C!Id] :
               /\ f[0] = s /\ f[Len(devices)] = C!InDevices(s)
               /\ \A k \in 1..Len(devices) : f[k] = C!InDevice(f[k - 1], devices[k])
<1>1. PICK n \in Nat : n = Len(devices) /\ DOMAIN devices = 1..n
  BY DEF Apart
<1>0. \A i \in 1..n : C!Identifiers(devices[i]) \in SUBSET C!Id
  BY <1>1, CalledIs DEF Apart
<1> DEFINE W == SUBSET C!Id
           step == [p \in W \X (1..n) |-> C!InDevice(p[1], devices[p[2]])]
           By(t) == t = [v \in SUBSET (1..n) |->
                            IF v = {} THEN s ELSE C!InDevice(t[v \ {Top(v)}], devices[Top(v)])]
           t == CHOOSE t : By(t)
<1>2. \A v \in W, i \in 1..n : C!InDevice(v, devices[i]) \in W
  BY <1>0 DEF C!InDevice
<1>3. step \in [W \X (1..n) -> W] /\ s \in W
  BY <1>1, <1>2
<1>4. PICK u \in [SUBSET (1..n) -> W] : Folded(u, n, s, step)
  <2> HIDE DEF step, W
  <2> QED BY <1>1, <1>3, FoldExists
<1>5. By(u)
  <2>1. ASSUME NEW v \in SUBSET (1..n), v # {}
        PROVE  step[<<u[v \ {Top(v)}], Top(v)>>] = C!InDevice(u[v \ {Top(v)}], devices[Top(v)])
    <3>1. Top(v) \in 1..n /\ u[v \ {Top(v)}] \in W
      BY <1>1, <1>4, <2>1, TopIs
    <3> QED BY <3>1
  <2> HIDE DEF step
  <2> QED BY <1>4, <2>1 DEF Folded
<1>6. By(t)
  BY <1>5
<1>7. C!InDevices(s) = t[1..n]
  BY <1>1 DEF C!InDevices, C!FoldLeft, C!MapThenFoldSet, C!Max, Top
<1> HIDE DEF step, t
<1> DEFINE f == [k \in 0..n |-> t[1..k]]
           V == [k \in 0..n |-> W]
<1>8. f[0] = s
  <2>1. 1..0 = {} /\ {} \in SUBSET (1..n)
    OBVIOUS
  <2> QED BY <1>1, <1>6, <2>1
<1>9. ASSUME NEW k \in 1..n
      PROVE  f[k] = C!InDevice(f[k - 1], devices[k])
  <2>1. Top(1..k) = k /\ (1..k) \ {k} = 1..(k - 1) /\ 1..k \in SUBSET (1..n) /\ 1..k # {}
    BY <1>1, Before
  <2>2. t[1..k] = C!InDevice(t[1..(k - 1)], devices[k])
    BY <1>6, <2>1
  <2> QED BY <1>1, <2>2
<1>10. ASSUME NEW k \in 1..n, f[k - 1] \in V[k - 1] PROVE f[k] \in V[k]
  <2>0. k - 1 \in 0..n
    BY <1>1
  <2>1. PICK v \in W : v = f[k - 1]
    <3> HIDE DEF W, f
    <3> QED BY <1>10, <2>0
  <2>2. C!InDevice(v, devices[k]) \in W
    BY <1>2, <2>1
  <2>3. f[k] \in W
    BY <1>9, <2>1, <2>2
  <2> QED BY <2>3
<1>11. \A k \in 0..n : f[k] \in V[k]
  <2> HIDE DEF f, V
  <2>1. f[0] \in V[0]
    BY <1>1, <1>3, <1>8 DEF V
  <2> QED BY <1>1, <1>10, <2>1, Along
<1>12. f \in [0..n -> SUBSET C!Id] /\ f[n] = C!InDevices(s)
  BY <1>1, <1>7, <1>11
<1> HIDE DEF f
<1> QED BY <1>1, <1>8, <1>9, <1>12

\* The pass adds to what it is given what belongs to machines that are kept
\* together with those that had it.
LEMMA InDevicesGrow ==
    ASSUME Assumed, devices \in Apart, NEW s \in SUBSET C!Id
    PROVE  /\ s \subseteq C!InDevices(s) /\ C!InDevices(s) \in SUBSET C!Id
           /\ \A R \in SUBSET Ip :
                MeansFit /\ C!Together(R) /\ (\A h \in s : Within(h, R))
                    => \A h \in C!InDevices(s) : Within(h, R)
<1>1. PICK n \in Nat : n = Len(devices)
  BY DEF Apart
<1>2. PICK f \in [0..n -> SUBSET C!Id] :
          /\ f[0] = s /\ f[n] = C!InDevices(s)
          /\ \A k \in 1..n : f[k] = C!InDevice(f[k - 1], devices[k])
  BY <1>1, InDevicesAre
<1>3. s \subseteq f[n]
  <2> DEFINE V == [k \in 0..n |-> {v \in SUBSET C!Id : s \subseteq v}]
  <2>1. f[0] \in V[0]
    BY <1>1, <1>2
  <2>2. ASSUME NEW k \in 1..n, f[k - 1] \in V[k - 1] PROVE f[k] \in V[k]
    <3>1. f[k - 1] \subseteq f[k]
      BY <1>2 DEF C!InDevice
    <3>2. s \subseteq f[k - 1] /\ f[k] \in SUBSET C!Id
      BY <1>1, <1>2, <2>2
    <3> QED BY <3>1, <3>2
  <2>3. \A k \in 0..n : f[k] \in V[k]
    <3> HIDE DEF V
    <3> QED BY <1>1, <2>1, <2>2, Along
  <2> QED BY <1>1, <2>3
<1>4. ASSUME NEW R \in SUBSET Ip, MeansFit, C!Together(R), \A h \in s : Within(h, R)
      PROVE  \A h \in f[n] : Within(h, R)
  <2> DEFINE V == [k \in 0..n |-> {v \in SUBSET C!Id : \A h \in v : Within(h, R)}]
  <2>1. f[0] \in V[0]
    BY <1>1, <1>2, <1>4
  <2>2. ASSUME NEW k \in 1..n, f[k - 1] \in V[k - 1] PROVE f[k] \in V[k]
    <3>1. PICK v : v = f[k - 1]
      OBVIOUS
    <3>2. f[k] = C!InDevice(v, devices[k])
      BY <1>2, <3>1
    <3>3. v \in SUBSET C!Id /\ \A h \in v : Within(h, R)
      BY <2>2, <3>1
    <3>4. \A h \in f[k] : Within(h, R)
      <4>1. CASE C!Identifiers(devices[k]) \cap v # {}
        <5>1. PICK x \in C!Identifiers(devices[k]) : x \in v /\ Within(x, R)
          BY <3>3, <4>1
        <5>2. \A y \in C!Identifiers(devices[k]) : Within(y, R)
          BY <1>1, <1>4, <5>1, TogetherIs
        <5> QED BY <3>2, <3>3, <5>2 DEF C!InDevice
      <4>2. CASE C!Identifiers(devices[k]) \cap v = {}
        BY <3>2, <3>3, <4>2 DEF C!InDevice
      <4> QED BY <4>1, <4>2
    <3> QED BY <1>2, <3>4
  <2>3. \A k \in 0..n : f[k] \in V[k]
    <3> HIDE DEF V
    <3> QED BY <1>1, <2>1, <2>2, Along
  <2> QED BY <1>1, <2>3
<1> QED BY <1>1, <1>2, <1>3, <1>4

\* Of less it makes no more.
LEMMA InDevicesNarrow ==
    ASSUME Assumed, devices \in Apart, NEW s \in SUBSET C!Id, NEW r \in SUBSET C!Id, r \subseteq s
    PROVE  C!InDevices(r) \subseteq C!InDevices(s)
<1>1. PICK n \in Nat : n = Len(devices)
  BY DEF Apart
<1>2. PICK f \in [0..n -> SUBSET C!Id] :
          /\ f[0] = r /\ f[n] = C!InDevices(r)
          /\ \A k \in 1..n : f[k] = C!InDevice(f[k - 1], devices[k])
  BY <1>1, InDevicesAre
<1>3. PICK e \in [0..n -> SUBSET C!Id] :
          /\ e[0] = s /\ e[n] = C!InDevices(s)
          /\ \A k \in 1..n : e[k] = C!InDevice(e[k - 1], devices[k])
  BY <1>1, InDevicesAre
<1> DEFINE V == [k \in 0..n |-> SUBSET (e[k])]
<1>4. f[0] \in V[0]
  BY <1>1, <1>2, <1>3
<1>5. ASSUME NEW k \in 1..n, f[k - 1] \in V[k - 1] PROVE f[k] \in V[k]
  <2>1. f[k - 1] \subseteq e[k - 1]
    BY <1>5
  <2>2. f[k] = C!InDevice(f[k - 1], devices[k]) /\ e[k] = C!InDevice(e[k - 1], devices[k])
    BY <1>2, <1>3
  <2>3. f[k] \subseteq e[k]
    BY <2>1, <2>2 DEF C!InDevice
  <2> QED BY <2>3
<1>6. \A k \in 0..n : f[k] \in V[k]
  <2> HIDE DEF V
  <2> QED BY <1>1, <1>4, <1>5, Along
<1> QED BY <1>1, <1>2, <1>3, <1>6


-----------------------------------------------------------------------------
(* What the inventory has of a machine.                                     *)

Inventories == [C!Group -> [C!Id -> Ip \cup {None}]]

\* A host of the inventory belongs to the machine it has there.
InvFits(iv) == \A g \in C!Group, h \in C!Id : iv[g][h] # None => Belongs(h, iv[g][h])

\* The pass over the groups, group by group.
LEMMA InGroupsAre ==
    ASSUME Assumed, NEW iv \in Inventories, NEW s \in SUBSET C!Id
    PROVE  \E f \in [0..Len(GroupOrder) -> SUBSET C!Id] :
               /\ f[0] = s /\ f[Len(GroupOrder)] = C!InGroups(iv, s)
               /\ \A k \in 1..Len(GroupOrder) : f[k] = C!InGroup(f[k - 1], iv[GroupOrder[k]])
<1>1. PICK n \in Nat : n = Len(GroupOrder) /\ DOMAIN GroupOrder = 1..n
                       /\ \A k \in 1..n : GroupOrder[k] \in C!Group
  BY DEF Assumed, C!GroupAssumption
<1> DEFINE W == SUBSET C!Id
           step == [p \in W \X (1..n) |-> C!InGroup(p[1], iv[GroupOrder[p[2]]])]
           By(t) == t = [v \in SUBSET (1..n) |->
                            IF v = {} THEN s ELSE C!InGroup(t[v \ {Top(v)}], iv[GroupOrder[Top(v)]])]
           t == CHOOSE t : By(t)
<1>2. \A v \in W, k \in 1..n : C!InGroup(v, iv[GroupOrder[k]]) \in W
  <2>1. ASSUME NEW v \in W, NEW group \in [C!Id -> Ip \cup {None}]
        PROVE  C!InGroup(v, group) \in W
    BY <2>1 DEF C!InGroup, C!Id
  <2>2. \A k \in 1..n : iv[GroupOrder[k]] \in [C!Id -> Ip \cup {None}]
    BY <1>1 DEF Inventories
  <2> QED BY <2>1, <2>2
<1>3. step \in [W \X (1..n) -> W] /\ s \in W
  BY <1>1, <1>2
<1>4. PICK u \in [SUBSET (1..n) -> W] : Folded(u, n, s, step)
  <2> HIDE DEF step, W
  <2> QED BY <1>1, <1>3, FoldExists
<1>5. By(u)
  <2>1. ASSUME NEW v \in SUBSET (1..n), v # {}
        PROVE  step[<<u[v \ {Top(v)}], Top(v)>>] = C!InGroup(u[v \ {Top(v)}], iv[GroupOrder[Top(v)]])
    <3>1. Top(v) \in 1..n /\ u[v \ {Top(v)}] \in W
      BY <1>1, <1>4, <2>1, TopIs
    <3> QED BY <3>1
  <2> HIDE DEF step
  <2> QED BY <1>4, <2>1 DEF Folded
<1>6. By(t)
  BY <1>5
<1>7. C!InGroups(iv, s) = t[1..n]
  BY <1>1 DEF C!InGroups, C!FoldLeft, C!MapThenFoldSet, C!Max, Top
<1> HIDE DEF step, t
<1> DEFINE f == [k \in 0..n |-> t[1..k]]
           V == [k \in 0..n |-> W]
<1>8. f[0] = s
  <2>1. 1..0 = {} /\ {} \in SUBSET (1..n)
    OBVIOUS
  <2> QED BY <1>1, <1>6, <2>1
<1>9. ASSUME NEW k \in 1..n
      PROVE  f[k] = C!InGroup(f[k - 1], iv[GroupOrder[k]])
  <2>1. Top(1..k) = k /\ (1..k) \ {k} = 1..(k - 1) /\ 1..k \in SUBSET (1..n) /\ 1..k # {}
    BY <1>1, Before
  <2>2. t[1..k] = C!InGroup(t[1..(k - 1)], iv[GroupOrder[k]])
    BY <1>6, <2>1
  <2> QED BY <1>1, <2>2
<1>10. ASSUME NEW k \in 1..n, f[k - 1] \in V[k - 1] PROVE f[k] \in V[k]
  <2>0. k - 1 \in 0..n
    BY <1>1
  <2>1. PICK v \in W : v = f[k - 1]
    <3> HIDE DEF W, f
    <3> QED BY <1>10, <2>0
  <2>2. C!InGroup(v, iv[GroupOrder[k]]) \in W
    BY <1>2, <2>1
  <2>3. f[k] \in W
    BY <1>9, <2>1, <2>2
  <2> QED BY <2>3
<1>11. \A k \in 0..n : f[k] \in V[k]
  <2> HIDE DEF f, V
  <2>1. f[0] \in V[0]
    BY <1>1, <1>3, <1>8 DEF V
  <2> QED BY <1>1, <1>10, <2>1, Along
<1>12. f \in [0..n -> SUBSET C!Id] /\ f[n] = C!InGroups(iv, s)
  BY <1>1, <1>7, <1>11
<1> HIDE DEF f
<1> QED BY <1>1, <1>8, <1>9, <1>12

\* The pass adds to what it is given what belongs to the same machines.
LEMMA InGroupsGrow ==
    ASSUME Assumed, NEW iv \in Inventories, NEW s \in SUBSET C!Id
    PROVE  /\ s \subseteq C!InGroups(iv, s) /\ C!InGroups(iv, s) \in SUBSET C!Id
           /\ \A R \in SUBSET Ip : InvFits(iv) /\ (\A h \in s : Within(h, R))
                => \A h \in C!InGroups(iv, s) : Within(h, R)
<1>1. PICK n \in Nat : n = Len(GroupOrder) /\ \A k \in 1..n : GroupOrder[k] \in C!Group
  BY DEF Assumed, C!GroupAssumption
<1>2. PICK f \in [0..n -> SUBSET C!Id] :
          /\ f[0] = s /\ f[n] = C!InGroups(iv, s)
          /\ \A k \in 1..n : f[k] = C!InGroup(f[k - 1], iv[GroupOrder[k]])
  BY <1>1, InGroupsAre
<1>3. s \subseteq f[n]
  <2> DEFINE V == [k \in 0..n |-> {v \in SUBSET C!Id : s \subseteq v}]
  <2>1. f[0] \in V[0]
    BY <1>1, <1>2
  <2>2. ASSUME NEW k \in 1..n, f[k - 1] \in V[k - 1] PROVE f[k] \in V[k]
    <3>1. f[k - 1] \subseteq f[k]
      BY <1>2 DEF C!InGroup
    <3>2. s \subseteq f[k - 1] /\ f[k] \in SUBSET C!Id
      BY <1>1, <1>2, <2>2
    <3> QED BY <3>1, <3>2
  <2>3. \A k \in 0..n : f[k] \in V[k]
    <3> HIDE DEF V
    <3> QED BY <1>1, <2>1, <2>2, Along
  <2> QED BY <1>1, <2>3
<1>4. ASSUME NEW R \in SUBSET Ip, InvFits(iv), \A h \in s : Within(h, R)
      PROVE  \A h \in f[n] : Within(h, R)
  <2> DEFINE V == [k \in 0..n |-> {v \in SUBSET C!Id : \A h \in v : Within(h, R)}]
  <2>1. f[0] \in V[0]
    BY <1>1, <1>2, <1>4
  <2>2. ASSUME NEW k \in 1..n, f[k - 1] \in V[k - 1] PROVE f[k] \in V[k]
    <3>1. PICK v : v = f[k - 1]
      OBVIOUS
    <3>2. PICK g \in C!Group : g = GroupOrder[k]
      BY <1>1
    <3>3. f[k] = v \cup UNION {{h, iv[g][h]} : h \in {x \in C!Id : iv[g][x] # None /\ {x, iv[g][x]} \cap v # {}}}
      BY <1>2, <3>1, <3>2 DEF C!InGroup
    <3>4. v \in SUBSET C!Id /\ \A h \in v : Within(h, R)
      BY <2>2, <3>1
    <3>5. ASSUME NEW x \in C!Id, iv[g][x] # None, {x, iv[g][x]} \cap v # {}
          PROVE  Within(x, R) /\ Within(iv[g][x], R)
      <4>1. iv[g][x] \in Ip /\ Belongs(x, iv[g][x])
        BY <1>4, <3>5 DEF InvFits, Inventories
      <4>2. Belongs(iv[g][x], iv[g][x])
        BY DEF Belongs
      <4>3. CASE x \in v
        <5>1. PICK m \in R : Belongs(x, m)
          BY <3>4, <4>3 DEF Within
        <5>2. iv[g][x] = m
          BY <4>1, <5>1, OneOwner
        <5> QED BY <4>1, <4>2, <5>2 DEF Within
      <4>4. CASE iv[g][x] \in v
        <5>1. PICK m \in R : Belongs(iv[g][x], m)
          BY <3>4, <4>4 DEF Within
        <5>2. iv[g][x] = m
          BY <4>1, <4>2, <5>1, OneOwner
        <5> QED BY <4>1, <4>2, <5>2 DEF Within
      <4> QED BY <3>5, <4>3, <4>4
    <3>6. \A h \in f[k] : Within(h, R)
      BY <3>3, <3>4, <3>5
    <3> QED BY <1>2, <3>6
  <2>3. \A k \in 0..n : f[k] \in V[k]
    <3> HIDE DEF V
    <3> QED BY <1>1, <2>1, <2>2, Along
  <2> QED BY <1>1, <2>3
<1> QED BY <1>1, <1>2, <1>3, <1>4

\* Hosts that an inventory has no longer.
Narrower(iv, jv) == \A g \in C!Group, h \in C!Id : iv[g][h] # None => iv[g][h] = jv[g][h]

\* They add nothing new.
LEMMA InGroupsNarrow ==
    ASSUME Assumed, NEW iv \in Inventories, NEW jv \in Inventories, Narrower(iv, jv),
           NEW s \in SUBSET C!Id
    PROVE  C!InGroups(iv, s) \subseteq C!InGroups(jv, s)
<1>1. PICK n \in Nat : n = Len(GroupOrder) /\ \A k \in 1..n : GroupOrder[k] \in C!Group
  BY DEF Assumed, C!GroupAssumption
<1>2. PICK f \in [0..n -> SUBSET C!Id] :
          /\ f[0] = s /\ f[n] = C!InGroups(iv, s)
          /\ \A k \in 1..n : f[k] = C!InGroup(f[k - 1], iv[GroupOrder[k]])
  BY <1>1, InGroupsAre
<1>3. PICK e \in [0..n -> SUBSET C!Id] :
          /\ e[0] = s /\ e[n] = C!InGroups(jv, s)
          /\ \A k \in 1..n : e[k] = C!InGroup(e[k - 1], jv[GroupOrder[k]])
  BY <1>1, InGroupsAre
<1> DEFINE V == [k \in 0..n |-> SUBSET (e[k])]
<1>4. f[0] \in V[0]
  BY <1>1, <1>2, <1>3
<1>5. ASSUME NEW k \in 1..n, f[k - 1] \in V[k - 1] PROVE f[k] \in V[k]
  <2>1. PICK v : v = f[k - 1]
    OBVIOUS
  <2>2. PICK w : w = e[k - 1]
    OBVIOUS
  <2>3. PICK g \in C!Group : g = GroupOrder[k]
    BY <1>1
  <2>4. f[k] = v \cup UNION {{h, iv[g][h]} : h \in {x \in C!Id : iv[g][x] # None /\ {x, iv[g][x]} \cap v # {}}}
    BY <1>2, <2>1, <2>3 DEF C!InGroup
  <2>5. e[k] = w \cup UNION {{h, jv[g][h]} : h \in {x \in C!Id : jv[g][x] # None /\ {x, jv[g][x]} \cap w # {}}}
    BY <1>3, <2>2, <2>3 DEF C!InGroup
  <2>6. v \subseteq w
    BY <1>5, <2>1, <2>2
  <2>7. \A x \in C!Id : iv[g][x] # None => iv[g][x] = jv[g][x]
    BY DEF Narrower
  <2>8. f[k] \subseteq e[k]
    <3>1. ASSUME NEW x \in C!Id, iv[g][x] # None, {x, iv[g][x]} \cap v # {}
          PROVE  {x, iv[g][x]} \subseteq e[k]
      <4>1. jv[g][x] = iv[g][x] /\ {x, jv[g][x]} \cap w # {}
        BY <2>6, <2>7, <3>1
      <4> QED BY <2>5, <3>1, <4>1
    <3>2. w \subseteq e[k]
      BY <2>5
    <3> QED BY <2>4, <2>6, <3>1, <3>2
  <2> QED BY <2>8
<1>6. \A k \in 0..n : f[k] \in V[k]
  <2> HIDE DEF V
  <2> QED BY <1>1, <1>4, <1>5, Along
<1> QED BY <1>1, <1>2, <1>3, <1>6

\* All that hosts are called is called so for their machines and those that are
\* kept together with them.
LEMMA ExpandIs ==
    ASSUME Assumed, devices \in Apart, NEW iv \in Inventories, NEW s \in SUBSET C!Id
    PROVE  /\ s \subseteq C!Expand(iv, s) /\ C!Expand(iv, s) \in SUBSET C!Id
           /\ \A R \in SUBSET Ip :
                InvFits(iv) /\ MeansFit /\ C!Together(R) /\ (\A h \in s : Within(h, R))
                    => \A h \in C!Expand(iv, s) : Within(h, R)
<1>1. PICK v : v = C!InGroups(iv, s)
  OBVIOUS
<1>2. /\ s \subseteq v /\ v \in SUBSET C!Id
      /\ \A R \in SUBSET Ip : InvFits(iv) /\ (\A h \in s : Within(h, R)) => \A h \in v : Within(h, R)
  BY <1>1, InGroupsGrow
<1>3. /\ v \subseteq C!InDevices(v) /\ C!InDevices(v) \in SUBSET C!Id
      /\ \A R \in SUBSET Ip :
            MeansFit /\ C!Together(R) /\ (\A h \in v : Within(h, R))
                => \A h \in C!InDevices(v) : Within(h, R)
  BY <1>2, InDevicesGrow
<1>4. C!Expand(iv, s) = C!InDevices(v)
  BY <1>1 DEF C!Expand
<1> QED BY <1>2, <1>3, <1>4

\* A device that is called one of these is of these machines.
LEMMA MetIs ==
    ASSUME Assumed, MeansFit, devices \in Apart, NEW iv \in Inventories, InvFits(iv),
           NEW s \in SUBSET C!Id, NEW R \in SUBSET Ip, C!Together(R), \A h \in s : Within(h, R),
           NEW i \in 1..Len(devices), C!Identifiers(devices[i]) \cap C!Expand(iv, s) # {}
    PROVE  devices[i].ip \in R
<1>1. PICK x \in C!Identifiers(devices[i]) : x \in C!Expand(iv, s)
  OBVIOUS
<1>2. Within(x, R)
  BY <1>1, ExpandIs
<1> QED BY <1>1, <1>2, TogetherIs

\* Without some of the inventory, hosts are called no more.
LEMMA ExpandNarrow ==
    ASSUME Assumed, devices \in Apart, NEW iv \in Inventories, NEW jv \in Inventories,
           Narrower(iv, jv), NEW s \in SUBSET C!Id
    PROVE  C!Expand(iv, s) \subseteq C!Expand(jv, s)
<1>1. C!InGroups(iv, s) \subseteq C!InGroups(jv, s)
  BY InGroupsNarrow
<1>2. C!InGroups(iv, s) \in SUBSET C!Id /\ C!InGroups(jv, s) \in SUBSET C!Id
  BY InGroupsGrow
<1>3. PICK v : v = C!InGroups(iv, s)
  OBVIOUS
<1>4. PICK w : w = C!InGroups(jv, s)
  OBVIOUS
<1>7. C!InDevices(v) \subseteq C!InDevices(w)
  BY <1>1, <1>2, <1>3, <1>4, InDevicesNarrow
<1> QED BY <1>3, <1>4, <1>7 DEF C!Expand

\* A host is where its machine is, or nowhere.
LEMMA WhereIs ==
    ASSUME Assumed, inv \in Inventories, InvFits(inv), NEW h \in C!Id
    PROVE  /\ C!Listed(h) <=> C!Where(h) # None
           /\ C!Listed(h) => C!Where(h) \in Ip /\ Belongs(h, C!Where(h))
<1>1. PICK n \in Nat : /\ n = Len(GroupOrder) /\ DOMAIN GroupOrder = 1..n
                       /\ \A k \in 1..n : GroupOrder[k] \in C!Group
  BY DEF Assumed, C!GroupAssumption
<1>2. \A g \in C!Group : \E k \in 1..n : GroupOrder[k] = g
  BY <1>1 DEF Assumed, C!GroupAssumption, C!Range
<1> DEFINE I == {k \in 1..n : inv[GroupOrder[k]][h] # None}
<1>3. C!Where(h) = IF I # {} /\ C!Max(I) # 0 THEN inv[GroupOrder[C!Max(I)]][h] ELSE None
  BY <1>1 DEF C!Where, C!SelectLastInSeq
<1>4. C!Listed(h) <=> I # {}
  BY <1>1, <1>2 DEF C!Listed
<1>5. CASE I # {}
  <2>1. C!Max(I) \in I
    <3>1. I \in SUBSET (1..n)
      OBVIOUS
    <3> HIDE DEF I
    <3>2. Top(I) \in I
      BY <1>1, <1>5, <3>1, TopIs
    <3> QED BY <3>2 DEF Top, C!Max
  <2>2. PICK k \in 1..n : k = C!Max(I) /\ inv[GroupOrder[k]][h] # None
    BY <2>1
  <2>3. C!Where(h) = inv[GroupOrder[k]][h]
    BY <1>3, <1>5, <2>2
  <2>4. PICK g \in C!Group : g = GroupOrder[k]
    BY <1>1
  <2>5. inv[g][h] # None => inv[g][h] \in Ip /\ Belongs(h, inv[g][h])
    BY DEF InvFits, Inventories
  <2> QED BY <1>4, <1>5, <2>2, <2>3, <2>4, <2>5
<1>6. CASE I = {}
  BY <1>3, <1>4, <1>6
<1> QED BY <1>5, <1>6

\* A device stands for the machine it belongs to.
LEMMA ResolveIs ==
    ASSUME Assumed, inv \in Inventories, InvFits(inv), NEW d \in C!Id, NEW to \in C!Resolve(d)
    PROVE  to.host \in C!Id /\ to.at \in Ip /\ Belongs(to.host, to.at) /\ Belongs(d, to.at)
<1>1. \A x \in Ip : Belongs(x, x) /\ x \in C!Id /\ x \notin CliName /\ x # None
  BY DEF Belongs, C!Id, Assumed, C!NameAssumption
<1>2. CASE C!Listed(d)
  <2>1. to = [host |-> d, at |-> C!Where(d)]
    BY <1>2 DEF C!Resolve
  <2> QED BY <1>2, <2>1, WhereIs
<1>3. CASE ~C!Listed(d) /\ \E h \in C!Id : C!Where(h) = d
  <2>1. PICK h \in C!Id : C!Where(h) = d /\ to = [host |-> h, at |-> d]
    BY <1>3 DEF C!Resolve
  <2>2. d # None
    BY DEF Assumed, C!NameAssumption
  <2>3. d \in Ip /\ Belongs(h, d)
    BY <2>1, <2>2, WhereIs
  <2> QED BY <1>1, <2>1, <2>3
<1>4. CASE ~C!Listed(d) /\ ~\E h \in C!Id : C!Where(h) = d
  <2>1. to \in IF d \in Ip THEN {[host |-> d, at |-> d]}
               ELSE IF d = LocalName THEN {[host |-> d, at |-> Local]} ELSE {}
    BY <1>4 DEF C!Resolve
  <2>2. Local \in Ip /\ Belongs(LocalName, Local)
    BY DEF Assumed, C!LocalAssumption, C!GivenAssumption, C!OneMachine, Belongs
  <2>3. CASE d \in Ip
    BY <1>1, <2>1, <2>3
  <2>4. CASE d \notin Ip
    BY <2>1, <2>2, <2>4
  <2> QED BY <2>3, <2>4
<1> QED BY <1>2, <1>3, <1>4

\* What a destruction or a removal takes a device for belongs to the machines
\* that are asked for.
LEMMA TargetsAre ==
    ASSUME Assumed, MeansFit, inv \in Inventories, InvFits(inv), devices \in Apart,
           NEW d \in C!Id, NEW hosts \in C!Targets(d)
    PROVE  hosts \in SUBSET C!Id /\ \A h \in hosts : Within(h, C!Asked(d))
<1>1. \A x \in Ip : Belongs(x, x) /\ x \in C!Id
  BY DEF Belongs, C!Id
<1>2. /\ C!Asked(d) \in SUBSET Ip /\ C!Together(C!Asked(d))
      /\ \A m \in Ip : Belongs(d, m) => m \in C!Asked(d)
  BY AskedIs
<1>3. CASE C!Resolve(d) # {}
  <2>1. PICK to \in C!Resolve(d) : hosts = {to.host, to.at}
    BY <1>3 DEF C!Targets
  <2>2. to.host \in C!Id /\ to.at \in Ip /\ Belongs(to.host, to.at) /\ Belongs(d, to.at)
    BY ResolveIs
  <2>3. to.at \in C!Asked(d)
    BY <1>2, <2>2
  <2> QED BY <1>1, <2>1, <2>2, <2>3 DEF Within
<1>4. CASE C!Resolve(d) = {}
  <2>1. hosts \in C!Find(d)
    BY <1>4 DEF C!Targets
  <2> DEFINE I == {i \in 1..Len(devices) : d \in C!Identifiers(devices[i])}
  <2>2. I # {} /\ hosts = C!Identifiers(devices[C!Min(I)])
    BY <2>1 DEF C!Find, C!SelectInSeq
  <2>3. C!Min(I) \in I
    <3>1. Len(devices) \in Nat /\ I \in SUBSET (1..Len(devices))
      BY DEF Apart
    <3> HIDE DEF I
    <3> QED BY <2>2, <3>1, MinIs
  <2>4. PICK i \in 1..Len(devices) : hosts = C!Identifiers(devices[i]) /\ d \in C!Identifiers(devices[i])
    BY <2>2, <2>3
  <2>5. Fits(devices[i])
    BY DEF Apart
  <2>6. hosts \in SUBSET C!Id
    BY <2>4, <2>5, CalledIs
  <2>7. PICK m \in Ip : Belongs(d, m)
    <3>1. Within(d, C!Tied(devices[i])) /\ C!Tied(devices[i]) \in SUBSET Ip
      BY <2>4, <2>5, TiedIs
    <3> QED BY <3>1 DEF Within
  <2>8. Within(d, C!Asked(d))
    BY <1>2, <2>7 DEF Within
  <2>9. \A h \in hosts : Within(h, C!Asked(d))
    BY <1>2, <2>4, <2>8, TogetherIs
  <2> QED BY <2>6, <2>9
<1> QED BY <1>3, <1>4

\* Hosts are taken out of the inventory and nothing else is changed.
LEMMA PruneIs ==
    ASSUME Assumed, NEW iv \in Inventories, NEW hosts \in SUBSET C!Id
    PROVE  /\ C!Prune(iv, hosts) \in Inventories /\ Narrower(C!Prune(iv, hosts), iv)
           /\ InvFits(iv) => InvFits(C!Prune(iv, hosts))
           /\ \A g \in C!Group, h \in C!Id :
                h \notin hosts /\ iv[g][h] \notin hosts => C!Prune(iv, hosts)[g][h] = iv[g][h]
<1> DEFINE jv == C!Prune(iv, hosts)
<1>1. \A g \in C!Group, h \in C!Id :
        jv[g][h] = IF h \in hosts \/ iv[g][h] \in hosts THEN None ELSE iv[g][h]
  BY DEF C!Prune
<1>2. jv \in Inventories
  BY DEF C!Prune, Inventories
<1>3. Narrower(jv, iv)
  BY <1>1 DEF Narrower
<1>4. InvFits(iv) => InvFits(jv)
  BY <1>1 DEF InvFits
<1> QED BY <1>1, <1>2, <1>3, <1>4

-----------------------------------------------------------------------------
(* Devices that are chosen, in their order.                                 *)

\* Some of the devices, each once.
Some(es, S) ==
    /\ es \in Seq(C!Device)
    /\ \A i \in 1..Len(es) : \E j \in 1..Len(devices) : es[i] = devices[j] /\ devices[j] \in S
    /\ \A j \in 1..Len(devices) : devices[j] \in S => \E i \in 1..Len(es) : es[i] = devices[j]
    /\ \A i, j \in 1..Len(es) : es[i].ip = es[j].ip => i = j

\* The chosen are those of the set.
LEMMA OnlyIs ==
    ASSUME Assumed, devices \in Apart, NEW S
    PROVE  Some(C!Only(S), S)
<1>1. PICK n \in Nat : /\ n = Len(devices) /\ DOMAIN devices = 1..n
                       /\ \A k \in 1..n : devices[k] \in C!Device
                       /\ \A i, j \in 1..n : devices[i].ip = devices[j].ip => i = j
  BY DEF Apart
<1> DEFINE W == Seq(C!Device)
           Adds(v, e) == IF e \in S THEN Append(v, e) ELSE v
           step == [p \in W \X (1..n) |-> Adds(p[1], devices[p[2]])]
           By(t) == t = [v \in SUBSET (1..n) |->
                            IF v = {} THEN <<>> ELSE Adds(t[v \ {Top(v)}], devices[Top(v)])]
           t == CHOOSE t : By(t)
<1>2. \A v \in W, i \in 1..n : Adds(v, devices[i]) \in W
  BY <1>1
<1>3. step \in [W \X (1..n) -> W] /\ <<>> \in W
  BY <1>1, <1>2
<1>4. PICK u \in [SUBSET (1..n) -> W] : Folded(u, n, <<>>, step)
  <2> HIDE DEF step, W
  <2> QED BY <1>1, <1>3, FoldExists
<1>5. By(u)
  <2>1. ASSUME NEW v \in SUBSET (1..n), v # {}
        PROVE  step[<<u[v \ {Top(v)}], Top(v)>>] = Adds(u[v \ {Top(v)}], devices[Top(v)])
    <3>1. Top(v) \in 1..n /\ u[v \ {Top(v)}] \in W
      BY <1>1, <1>4, <2>1, TopIs
    <3> QED BY <3>1
  <2> HIDE DEF step
  <2> QED BY <1>4, <2>1 DEF Folded
<1>6. By(t)
  BY <1>5
<1>7. C!Only(S) = t[1..n]
  BY <1>1 DEF C!Only, C!FoldLeft, C!MapThenFoldSet, C!Max, Top
<1> HIDE DEF step, t
<1> DEFINE f == [k \in 0..n |-> t[1..k]]
           Part(k) == {es \in W :
                /\ \A i \in 1..Len(es) : \E j \in 1..k : es[i] = devices[j] /\ devices[j] \in S
                /\ \A j \in 1..k : devices[j] \in S => \E i \in 1..Len(es) : es[i] = devices[j]
                /\ \A i, j \in 1..Len(es) : es[i].ip = es[j].ip => i = j}
           V == [k \in 0..n |-> Part(k)]
<1>8. f[0] \in V[0]
  <2>1. 1..0 = {} /\ {} \in SUBSET (1..n)
    OBVIOUS
  <2>2. f[0] = <<>>
    BY <1>1, <1>6, <2>1
  <2>3. <<>> \in Part(0)
    BY <2>1
  <2>4. 0 \in 0..n
    BY <1>1
  <2> HIDE DEF Part, f
  <2> QED BY <2>2, <2>3, <2>4
<1>9. ASSUME NEW k \in 1..n, f[k - 1] \in V[k - 1]
      PROVE  f[k] \in V[k]
  <2>1. Top(1..k) = k /\ (1..k) \ {k} = 1..(k - 1) /\ 1..k \in SUBSET (1..n) /\ 1..k # {}
    BY <1>1, Before
  <2>2. PICK v : v = t[1..(k - 1)]
    OBVIOUS
  <2>3. t[1..k] = Adds(v, devices[k])
    BY <1>6, <2>1, <2>2
  <2>4. v \in Part(k - 1)
    <3> HIDE DEF Part
    <3> QED BY <1>1, <1>9, <2>2
  <2>5. /\ v \in W /\ Len(v) \in Nat
        /\ \A i \in 1..Len(v) : \E j \in 1..(k - 1) : v[i] = devices[j] /\ devices[j] \in S
        /\ \A j \in 1..(k - 1) : devices[j] \in S => \E i \in 1..Len(v) : v[i] = devices[j]
        /\ \A i, j \in 1..Len(v) : v[i].ip = v[j].ip => i = j
    BY <2>4
  <2>6. 1..k = (1..(k - 1)) \cup {k} /\ k \notin 1..(k - 1) /\ \A j \in 1..k : j \in 1..n
    BY <1>1, <2>1
  <2>7. CASE devices[k] \in S
    <3>1. PICK e \in C!Device : e = devices[k]
      BY <1>1
    <3>0. v \in Seq(C!Device)
      BY <2>5
    <3>12. Append(v, e) \in Seq(C!Device)
      BY <3>0, <3>1, AppendProperties
    <3>2. PICK w : w = Append(v, e) /\ w \in Seq(C!Device)
      BY <3>12
    <3>3. Len(w) = Len(v) + 1 /\ \A i \in 1..Len(w) : w[i] = IF i = Len(v) + 1 THEN e ELSE v[i]
      BY <3>0, <3>1, <3>2
    <3>4. \A i \in 1..Len(w) : i = Len(v) + 1 \/ i \in 1..Len(v)
      BY <2>5, <3>3
    <3>5. \A i \in 1..Len(v) : i \in 1..Len(w) /\ i # Len(v) + 1 /\ v[i].ip # e.ip
      BY <1>1, <2>5, <2>6, <3>1, <3>3
    <3>6. Len(v) + 1 \in 1..Len(w)
      BY <2>5, <3>3
    <3>7. \A i \in 1..Len(w) : \E j \in 1..k : w[i] = devices[j] /\ devices[j] \in S
      <4> TAKE i \in 1..Len(w)
      <4>1. CASE i = Len(v) + 1
        <5>1. k \in 1..k /\ w[i] = devices[k]
          BY <2>6, <3>1, <3>3, <4>1
        <5> QED BY <2>7, <5>1
      <4>2. CASE i # Len(v) + 1
        <5>1. i \in 1..Len(v) /\ w[i] = v[i]
          BY <3>3, <3>4, <4>2
        <5>2. PICK j \in 1..(k - 1) : v[i] = devices[j] /\ devices[j] \in S
          BY <2>5, <5>1
        <5>3. j \in 1..k
          BY <2>6, <5>2
        <5> QED BY <5>1, <5>2, <5>3
      <4> QED BY <4>1, <4>2
    <3>8. \A j \in 1..k : devices[j] \in S => \E i \in 1..Len(w) : w[i] = devices[j]
      <4> SUFFICES ASSUME NEW j \in 1..k, devices[j] \in S PROVE \E i \in 1..Len(w) : w[i] = devices[j]
        OBVIOUS
      <4>1. CASE j = k
        BY <3>1, <3>3, <3>6, <4>1
      <4>2. CASE j # k
        <5>1. PICK i \in 1..Len(v) : v[i] = devices[j]
          BY <2>5, <2>6, <4>2
        <5>2. i \in 1..Len(w) /\ w[i] = v[i]
          BY <3>3, <3>5
        <5> QED BY <5>1, <5>2
      <4> QED BY <4>1, <4>2
    <3>9. \A i, j \in 1..Len(w) : w[i].ip = w[j].ip => i = j
      <4> SUFFICES ASSUME NEW i \in 1..Len(w), NEW j \in 1..Len(w), w[i].ip = w[j].ip PROVE i = j
        OBVIOUS
      <4>1. \A o \in 1..Len(v) : w[o] = v[o] /\ v[o].ip # e.ip
        BY <3>3, <3>5
      <4>2. w[Len(v) + 1] = e
        BY <3>3, <3>6
      <4> QED BY <2>5, <3>4, <4>1, <4>2
    <3>10. w \in Part(k)
      BY <3>2, <3>7, <3>8, <3>9
    <3>11. t[1..k] = w
      BY <2>3, <2>7, <3>1, <3>2
    <3> HIDE DEF Part
    <3> QED BY <1>1, <3>10, <3>11
  <2>8. CASE devices[k] \notin S
    <3>1. v \in Part(k)
      BY <2>5, <2>6, <2>8
    <3>2. t[1..k] = v
      BY <2>3, <2>8
    <3> HIDE DEF Part
    <3> QED BY <1>1, <3>1, <3>2
  <2> QED BY <2>7, <2>8
<1>10. \A k \in 0..n : f[k] \in V[k]
  <2> HIDE DEF f, V
  <2> QED BY <1>1, <1>8, <1>9, Along
<1>11. C!Only(S) \in Part(n)
  <2> HIDE DEF Part
  <2> QED BY <1>1, <1>7, <1>10
<1> QED BY <1>1, <1>11 DEF Some

\* The devices of a key set are those that are called one of the hosts.
LEMMA KeysAre ==
    ASSUME Assumed, devices \in Apart, NEW iv, NEW s, NEW j \in 1..Len(devices)
    PROVE  /\ devices[j] \in C!Range(devices)
           /\ devices[j].key \in C!Keys(iv, s) <=> C!Identifiers(devices[j]) \cap C!Expand(iv, s) # {}
<1>1. DOMAIN devices = 1..Len(devices)
  BY DEF Apart
<1>2. C!Range(devices) = {devices[i] : i \in 1..Len(devices)}
  BY <1>1 DEF C!Range
<1>3. \A i \in 1..Len(devices) : devices[i].key = devices[j].key => i = j
  BY DEF Apart, Fits
<1> QED BY <1>2, <1>3 DEF C!Keys


\* The devices that are left are those that are called none of the hosts.
LEMMA WithoutIs ==
    ASSUME Assumed, devices \in Apart, NEW iv, NEW s
    PROVE  LET es == C!Without(C!Keys(iv, s)) IN
           /\ es \in Apart
           /\ \A i \in 1..Len(es) : \E j \in 1..Len(devices) :
                es[i] = devices[j] /\ C!Identifiers(devices[j]) \cap C!Expand(iv, s) = {}
           /\ \A j \in 1..Len(devices) : C!Identifiers(devices[j]) \cap C!Expand(iv, s) = {} =>
                \E i \in 1..Len(es) : es[i] = devices[j]
<1> DEFINE S == {e \in C!Range(devices) : e.key \notin C!Keys(iv, s)}
<1>1. PICK es : es = C!Only(S) /\ es = C!Without(C!Keys(iv, s))
  BY DEF C!Without
<1>2. \A j \in 1..Len(devices) : devices[j] \in S <=> C!Identifiers(devices[j]) \cap C!Expand(iv, s) = {}
  BY KeysAre
<1>3. Some(es, S)
  BY <1>1, OnlyIs
<1> HIDE DEF S
<1>4. \A j \in 1..Len(devices) : Fits(devices[j])
  BY DEF Apart
<1>5. es \in Apart
  BY <1>3, <1>4 DEF Apart, Some
<1> QED BY <1>1, <1>2, <1>3, <1>5 DEF Some

\* A teardown is of the devices that are called one of the hosts.
LEMMA OrderIs ==
    ASSUME Assumed, devices \in Apart, NEW iv, NEW s
    PROVE  LET es == C!Order(C!Keys(iv, s)) IN
           /\ es \in Seq(C!Device)
           /\ \A i \in 1..Len(es) : \E j \in 1..Len(devices) :
                es[i] = devices[j] /\ C!Identifiers(devices[j]) \cap C!Expand(iv, s) # {}
           /\ \A j \in 1..Len(devices) : C!Identifiers(devices[j]) \cap C!Expand(iv, s) # {} =>
                \E i \in 1..Len(es) : es[i] = devices[j]
<1> DEFINE chosen == {e \in C!Range(devices) : e.key \in C!Keys(iv, s)}
           A == {e \in chosen : e.cp = None}
           B == {e \in chosen : e.cp # None}
<1>1. PICK a : a = C!Only(A)
  OBVIOUS
<1>2. PICK b : b = C!Only(B)
  OBVIOUS
<1>3. PICK es : es = a \o b /\ es = C!Order(C!Keys(iv, s))
  BY <1>1, <1>2 DEF C!Order
<1>4. \A j \in 1..Len(devices) :
        /\ devices[j] \in A <=> C!Identifiers(devices[j]) \cap C!Expand(iv, s) # {} /\ devices[j].cp = None
        /\ devices[j] \in B <=> C!Identifiers(devices[j]) \cap C!Expand(iv, s) # {} /\ devices[j].cp # None
  BY KeysAre
<1>5. Some(a, A) /\ Some(b, B)
  BY <1>1, <1>2, OnlyIs
<1> HIDE DEF A, B
<1>6. a \in Seq(C!Device) /\ b \in Seq(C!Device) /\ Len(a) \in Nat /\ Len(b) \in Nat
  BY <1>5 DEF Some
<1>7. /\ es \in Seq(C!Device) /\ Len(es) = Len(a) + Len(b)
      /\ \A i \in 1..Len(es) : es[i] = IF i <= Len(a) THEN a[i] ELSE b[i - Len(a)]
  <2>1. a \in Seq(C!Device) /\ b \in Seq(C!Device)
    BY <1>6
  <2>2. /\ a \o b \in Seq(C!Device) /\ Len(a \o b) = Len(a) + Len(b)
        /\ \A i \in 1..(Len(a) + Len(b)) : (a \o b)[i] = IF i <= Len(a) THEN a[i] ELSE b[i - Len(a)]
    BY <2>1, ConcatProperties
  <2> QED BY <1>3, <2>2
<1>8. ASSUME NEW i \in 1..Len(es)
      PROVE  \E j \in 1..Len(devices) :
                es[i] = devices[j] /\ C!Identifiers(devices[j]) \cap C!Expand(iv, s) # {}
  <2>1. CASE i <= Len(a)
    <3>1. i \in 1..Len(a) /\ es[i] = a[i]
      BY <1>6, <1>7, <2>1
    <3> QED BY <1>4, <1>5, <3>1 DEF Some
  <2>2. CASE ~(i <= Len(a))
    <3>1. es[i] = b[i - Len(a)]
      BY <1>7, <2>2
    <3>2. i - Len(a) \in 1..Len(b)
      <4>1. i \in 1..(Len(a) + Len(b))
        BY <1>7
      <4> QED BY <1>6, <2>2, <4>1
    <3> QED BY <1>4, <1>5, <3>1, <3>2 DEF Some
  <2> QED BY <2>1, <2>2
<1>9. ASSUME NEW j \in 1..Len(devices), C!Identifiers(devices[j]) \cap C!Expand(iv, s) # {}
      PROVE  \E i \in 1..Len(es) : es[i] = devices[j]
  <2>1. CASE devices[j].cp = None
    <3>1. PICK i \in 1..Len(a) : a[i] = devices[j]
      BY <1>4, <1>5, <1>9, <2>1 DEF Some
    <3>2. i \in 1..Len(es) /\ es[i] = a[i]
      BY <1>6, <1>7
    <3> QED BY <3>1, <3>2
  <2>2. CASE devices[j].cp # None
    <3>1. PICK i \in 1..Len(b) : b[i] = devices[j]
      BY <1>4, <1>5, <1>9, <2>2 DEF Some
    <3>2. i + Len(a) \in 1..Len(es) /\ ~(i + Len(a) <= Len(a)) /\ (i + Len(a)) - Len(a) = i
      BY <1>6, <1>7
    <3>3. es[i + Len(a)] = b[i]
      BY <1>7, <3>2
    <3> QED BY <3>1, <3>2, <3>3
  <2> QED BY <2>1, <2>2
<1> QED BY <1>3, <1>7, <1>8, <1>9

\* The hosts or machines of a set, one after the other.
LEMMA SetToSeqIs ==
    ASSUME Assumed, NEW S \in SUBSET C!Id
    PROVE  C!SetToSeq(S) \in Seq(S)
<1>1. IsFiniteSet(C!Id)
  BY DEF Assumed, C!NameAssumption, C!IsFiniteSet, IsFiniteSet
<1>2. IsFiniteSet(S)
  BY <1>1, FS_Subset
<1>3. Cardinality(S) \in Nat /\ ExistsBijection(1..Cardinality(S), S)
  BY <1>2, FS_CardinalityType
<1>4. C!Cardinality(S) = Cardinality(S)
  BY DEF C!Cardinality, Cardinality
<1>5. \E f \in [1..C!Cardinality(S) -> S] : C!IsInjective(f)
  BY <1>3, <1>4 DEF ExistsBijection, Bijection, Injection, IsInjective, C!IsInjective
<1>6. C!SetToSeq(S) \in [1..Cardinality(S) -> S]
  BY <1>4, <1>5 DEF C!SetToSeq
<1> QED BY <1>3, <1>6

-----------------------------------------------------------------------------
(* What runs on the machines after a teardown.                              *)

Parts == {"cp", "lab", "work"}
Worlds == [runs : [Ip -> SUBSET Parts], reg : [Ip -> SUBSET Ip]]

\* The roles a machine has: a control plane, a lab host.
Roles(w, m) == w.runs[m] \cap {"cp", "lab"}

\* What is done to one machine at most.
Touches(w, v, m) ==
    /\ v \in Worlds
    /\ \A o \in Ip : v.runs[o] \subseteq w.runs[o]
    /\ \A o \in Ip : o # m => Roles(v, o) = Roles(w, o)

\* Some of what runs on a machine is removed, but for what stays.
LEMMA RemovedIs ==
    ASSUME NEW w \in Worlds, NEW m \in Ip, NEW o \in {m, None}, NEW what, NEW stays
    PROVE  LET v == C!Removed(w, o, what, stays) IN
           /\ Touches(w, v, m)
           /\ o # None /\ stays[m] = {} => v.runs[m] = w.runs[m] \ what
<1>1. PICK v : v = C!Removed(w, o, what, stays)
  OBVIOUS
<1>2. w.runs \in [Ip -> SUBSET Parts] /\ w.reg \in [Ip -> SUBSET Ip]
  BY DEF Worlds
<1>3. CASE o = None
  <2>1. v = w
    BY <1>1, <1>3 DEF C!Removed
  <2> QED BY <1>1, <1>3, <2>1 DEF Touches
<1>4. CASE o # None
  <2>1. PICK left : left = w.runs[m] \ (what \ stays[m])
    OBVIOUS
  <2>2. v = [w EXCEPT !.runs[m] = left]
    BY <1>1, <1>4, <2>1 DEF C!Removed
  <2>3. left \in SUBSET w.runs[m] /\ left \in SUBSET Parts
    BY <1>2, <2>1
  <2>4. v.runs = [w.runs EXCEPT ![m] = left] /\ v.reg = w.reg /\ v \in Worlds
    BY <1>2, <2>2, <2>3 DEF Worlds
  <2>5. Touches(w, v, m) /\ v.runs[m] = left
    BY <1>2, <2>3, <2>4 DEF Touches, Roles
  <2>6. stays[m] = {} => left = w.runs[m] \ what
    BY <2>1
  <2> QED BY <1>1, <2>5, <2>6
<1> QED BY <1>3, <1>4

\* The control plane's API ends labs and registrations, not what hosts are.
LEMMA SweptIs ==
    ASSUME NEW w \in Worlds, NEW c \in Ip, NEW early
    PROVE  \A m : Touches(w, C!Swept(w, c, early), m)
<1> DEFINE working == {h \in w.reg[c] : "work" \in w.runs[h]}
           answers == {h \in w.reg[c] : "lab" \in w.runs[h]}
           gone == IF w.reg[c] \subseteq answers THEN working ELSE working \cap answers \cap early
           r == [h \in Ip |-> IF h \in gone THEN w.runs[h] \ {"work"} ELSE w.runs[h]]
           g == IF w.reg[c] \subseteq answers THEN [w.reg EXCEPT ![c] = {}] ELSE w.reg
<1>1. w.runs \in [Ip -> SUBSET Parts] /\ w.reg \in [Ip -> SUBSET Ip]
  BY DEF Worlds
<1>2. C!Swept(w, c, early) = IF "cp" \notin w.runs[c] THEN w ELSE [runs |-> r, reg |-> g]
  BY DEF C!Swept
<1> HIDE DEF gone
<1>3. \A h \in Ip : r[h] \subseteq w.runs[h] /\ r[h] \cap {"cp", "lab"} = w.runs[h] \cap {"cp", "lab"}
  OBVIOUS
<1>4. r \in [Ip -> SUBSET Parts] /\ g \in [Ip -> SUBSET Ip]
  BY <1>1
<1> HIDE DEF r, g
<1>5. [runs |-> r, reg |-> g] \in Worlds
  BY <1>4 DEF Worlds
<1>6. \A m : Touches(w, [runs |-> r, reg |-> g], m)
  BY <1>3, <1>5 DEF Touches, Roles
<1>7. \A m : Touches(w, w, m)
  BY DEF Touches
<1> QED BY <1>2, <1>6, <1>7

\* What touches a machine after another has touched it.
LEMMA TouchesOn ==
    ASSUME NEW w, NEW v, NEW u, NEW m, Touches(w, v, m), Touches(v, u, m)
    PROVE  Touches(w, u, m)
  BY DEF Touches

\* A device's host is its machine's, and where that is or nowhere.
Placed(e) == Fits(e) /\ C!Where(C!TargetHost(e)) \in {e.ip, None}

LEMMA TargetIs ==
    ASSUME Assumed, inv \in Inventories, InvFits(inv), NEW e, Fits(e)
    PROVE  Placed(e)
<1>1. C!TargetHost(e) \in C!Id /\ Belongs(C!TargetHost(e), e.ip) /\ e.ip \in Ip
  <2>1. e.ip \in Ip /\ e.ip \in C!Id /\ Belongs(e.ip, e.ip)
    BY CalledIs DEF C!Id, Belongs
  <2>2. e.cp # None => e.cp.target \in C!Id /\ Belongs(e.cp.target, e.ip)
    BY CalledIs
  <2>3. e.lab # None => e.lab.target \in C!Id /\ Belongs(e.lab.target, e.ip)
    BY CalledIs
  <2> QED BY <2>1, <2>2, <2>3 DEF C!TargetHost
<1>2. C!Where(C!TargetHost(e)) # None =>
          C!Where(C!TargetHost(e)) \in Ip /\ Belongs(C!TargetHost(e), C!Where(C!TargetHost(e)))
  BY <1>1, WhereIs
<1>3. C!Where(C!TargetHost(e)) # None => C!Where(C!TargetHost(e)) = e.ip
  BY <1>1, <1>2, OneOwner
<1> QED BY <1>3 DEF Placed

\* What a teardown leaves of a device's roles where the device is, unless a
\* removal is refused there.
Gone(w, e, stays) ==
    C!Where(C!TargetHost(e)) = e.ip /\ stays[e.ip] = {} =>
        /\ e.lab # None => "lab" \notin w.runs[e.ip]
        /\ e.cp # None => "cp" \notin w.runs[e.ip]

\* A lab host that has been removed.
LEMMA UnhostedIs ==
    ASSUME Assumed, NEW w \in Worlds, NEW e, Placed(e), NEW stays
    PROVE  /\ Touches(w, C!Unhosted(w, e, stays), e.ip)
           /\ C!Where(C!TargetHost(e)) = e.ip /\ e.lab # None /\ stays[e.ip] = {} =>
                "lab" \notin C!Unhosted(w, e, stays).runs[e.ip]
<1>1. PICK m : m = C!Where(C!TargetHost(e))
  OBVIOUS
<1>2. e.ip \in Ip /\ m \in {e.ip, None} /\ e.ip # None
  BY <1>1, CalledIs DEF Placed, Assumed, C!NameAssumption, C!Id
<1>3. CASE e.lab = None
  <2>1. C!Unhosted(w, e, stays) = w
    BY <1>3 DEF C!Unhosted
  <2> QED BY <1>3, <2>1 DEF Touches
<1>4. CASE e.lab # None
  <2>1. PICK v : v = C!Removed(w, m, {"lab"}, stays)
    OBVIOUS
  <2>2. C!Unhosted(w, e, stays) = v
    BY <1>1, <1>4, <2>1 DEF C!Unhosted
  <2>3. Touches(w, v, e.ip) /\ (m # None /\ stays[e.ip] = {} => v.runs[e.ip] = w.runs[e.ip] \ {"lab"})
    BY <1>2, <2>1, RemovedIs
  <2> QED BY <1>1, <1>2, <2>2, <2>3
<1> QED BY <1>3, <1>4

\* A teardown that has begun.
LEMMA BegunIs ==
    ASSUME Assumed, NEW w \in Worlds, NEW e, Placed(e), NEW early, NEW stays
    PROVE  Touches(w, C!Begun(w, e, early, stays), e.ip)
<1>1. PICK u : u = C!Unhosted(w, e, stays)
  OBVIOUS
<1>2. u \in Worlds /\ Touches(w, u, e.ip)
  BY <1>1, UnhostedIs DEF Touches
<1>3. CASE e.cp = None
  BY <1>1, <1>2, <1>3 DEF C!Begun
<1>4. CASE e.cp # None
  <2>1. e.cp.at \in Ip
    BY <1>4, CalledIs DEF Placed
  <2>2. PICK v : v = C!Swept(u, e.cp.at, early)
    OBVIOUS
  <2>3. Touches(u, v, e.ip)
    BY <1>2, <2>1, <2>2, SweptIs
  <2>4. C!Begun(w, e, early, stays) = v
    BY <1>1, <1>4, <2>2 DEF C!Begun
  <2> QED BY <1>2, <2>3, <2>4, TouchesOn
<1> QED BY <1>3, <1>4

\* All containers of a device's host removed.
LEMMA EmptiedIs ==
    ASSUME Assumed, NEW w \in Worlds, NEW e, Placed(e), NEW early, NEW stays
    PROVE  Touches(w, C!Emptied(w, e, early, stays), e.ip) /\ Gone(C!Emptied(w, e, early, stays), e, stays)
<1>1. PICK m : m = C!Where(C!TargetHost(e))
  OBVIOUS
<1>2. PICK u : u = C!Begun(w, e, early, stays)
  OBVIOUS
<1>3. PICK v : v = C!Removed(u, m, C!Part, stays)
  OBVIOUS
<1>4. C!Emptied(w, e, early, stays) = v
  BY <1>1, <1>2, <1>3 DEF C!Emptied
<1>5. e.ip \in Ip /\ m \in {e.ip, None} /\ e.ip # None
  BY <1>1, CalledIs DEF Placed, Assumed, C!NameAssumption, C!Id
<1>6. Touches(w, u, e.ip) /\ u \in Worlds
  BY <1>2, BegunIs DEF Touches
<1>7. Touches(u, v, e.ip) /\ (m # None /\ stays[e.ip] = {} => v.runs[e.ip] = u.runs[e.ip] \ C!Part)
  BY <1>3, <1>5, <1>6, RemovedIs
<1>8. Touches(w, v, e.ip)
  BY <1>6, <1>7, TouchesOn
<1>9. Gone(v, e, stays)
  <2>1. "lab" \in C!Part /\ "cp" \in C!Part
    BY DEF C!Part
  <2> QED BY <1>1, <1>5, <1>7, <2>1 DEF Gone
<1> QED BY <1>4, <1>8, <1>9

\* A device that has been torn down.
LEMMA TornIs ==
    ASSUME Assumed, NEW w \in Worlds, NEW e, Placed(e), NEW early, NEW stays
    PROVE  Touches(w, C!Torn(w, e, early, stays), e.ip) /\ Gone(C!Torn(w, e, early, stays), e, stays)
<1>1. CASE e.cp # None
  <2>1. C!Torn(w, e, early, stays) = C!Emptied(w, e, early, stays)
    BY <1>1 DEF C!Torn
  <2> QED BY <2>1, EmptiedIs
<1>2. CASE e.cp = None /\ e.lab # None
  <2>1. C!Torn(w, e, early, stays) = C!Unhosted(w, e, stays)
    BY <1>2 DEF C!Torn
  <2> QED BY <1>2, <2>1, UnhostedIs DEF Gone
<1>3. CASE e.cp = None /\ e.lab = None
  <2>1. C!Torn(w, e, early, stays) = C!Emptied(w, e, early, C!NoneRefused)
    BY <1>3 DEF C!Torn
  <2>2. Touches(w, C!Torn(w, e, early, stays), e.ip)
    BY <2>1, EmptiedIs
  <2> QED BY <1>3, <2>2 DEF Gone
<1> QED BY <1>1, <1>2, <1>3

\* Devices torn down one after the other.
LEMMA TornAllAre ==
    ASSUME Assumed, C!Running \in Worlds, NEW order \in Seq(C!Device),
           \A i \in 1..Len(order) : Placed(order[i]), NEW early, NEW stays
    PROVE  LET w == C!TornAll(order, early, stays) IN
           /\ w \in Worlds
           /\ \A o \in Ip : w.runs[o] \subseteq runs[o]
           /\ \A o \in Ip : (\A i \in 1..Len(order) : order[i].ip # o)
                => Roles(w, o) = runs[o] \cap {"cp", "lab"}
           /\ \A i \in 1..Len(order) : Gone(w, order[i], stays)
<1>1. PICK n \in Nat : n = Len(order) /\ DOMAIN order = 1..n /\ \A k \in 1..n : Placed(order[k])
  OBVIOUS
<1> DEFINE W == Worlds
           step == [p \in W \X (1..n) |-> C!Torn(p[1], order[p[2]], early, stays)]
           By(t) == t = [v \in SUBSET (1..n) |->
                            IF v = {} THEN C!Running ELSE C!Torn(t[v \ {Top(v)}], order[Top(v)], early, stays)]
           t == CHOOSE t : By(t)
<1>2. \A w \in W, i \in 1..n : C!Torn(w, order[i], early, stays) \in W
  BY <1>1, TornIs DEF Touches
<1>3. step \in [W \X (1..n) -> W] /\ C!Running \in W
  BY <1>1, <1>2
<1>4. PICK u \in [SUBSET (1..n) -> W] : Folded(u, n, C!Running, step)
  <2> HIDE DEF step, W
  <2> QED BY <1>1, <1>3, FoldExists
<1>5. By(u)
  <2>1. ASSUME NEW v \in SUBSET (1..n), v # {}
        PROVE  step[<<u[v \ {Top(v)}], Top(v)>>] = C!Torn(u[v \ {Top(v)}], order[Top(v)], early, stays)
    <3>1. Top(v) \in 1..n /\ u[v \ {Top(v)}] \in W
      BY <1>1, <1>4, <2>1, TopIs
    <3> QED BY <3>1
  <2> HIDE DEF step
  <2> QED BY <1>4, <2>1 DEF Folded
<1>6. By(t)
  BY <1>5
<1>7. C!TornAll(order, early, stays) = t[1..n]
  BY <1>1 DEF C!TornAll, C!FoldLeft, C!MapThenFoldSet, C!Max, Top
<1> HIDE DEF step, t
<1> DEFINE f == [k \in 0..n |-> t[1..k]]
           Part(k) == {w \in Worlds :
               /\ \A o \in Ip : w.runs[o] \subseteq runs[o]
               /\ \A o \in Ip : (\A i \in 1..k : order[i].ip # o)
                    => Roles(w, o) = runs[o] \cap {"cp", "lab"}
               /\ \A i \in 1..k : Gone(w, order[i], stays)}
           V == [k \in 0..n |-> Part(k)]
<1>8. f[0] \in V[0]
  <2>1. 1..0 = {} /\ {} \in SUBSET (1..n) /\ 0 \in 0..n
    BY <1>1
  <2>2. f[0] = C!Running
    BY <1>6, <2>1
  <2>3. C!Running \in Part(0)
    BY <2>1 DEF C!Running, Roles
  <2> HIDE DEF Part, f
  <2> QED BY <2>1, <2>2, <2>3
<1>9. ASSUME NEW k \in 1..n, f[k - 1] \in V[k - 1]
      PROVE  f[k] \in V[k]
  <2>1. Top(1..k) = k /\ (1..k) \ {k} = 1..(k - 1) /\ 1..k \in SUBSET (1..n) /\ 1..k # {}
    BY <1>1, Before
  <2>2. PICK v : v = t[1..(k - 1)]
    OBVIOUS
  <2>3. PICK e : e = order[k]
    OBVIOUS
  <2>4. PICK w : w = C!Torn(v, e, early, stays)
    OBVIOUS
  <2>5. t[1..k] = w
    BY <1>6, <2>1, <2>2, <2>3, <2>4
  <2>6. v \in Part(k - 1)
    <3> HIDE DEF Part
    <3> QED BY <1>1, <1>9, <2>2
  <2>7. /\ v \in Worlds
        /\ \A o \in Ip : v.runs[o] \subseteq runs[o]
        /\ \A o \in Ip : (\A i \in 1..(k - 1) : order[i].ip # o)
             => Roles(v, o) = runs[o] \cap {"cp", "lab"}
        /\ \A i \in 1..(k - 1) : Gone(v, order[i], stays)
    BY <2>6
  <2>8. Placed(e) /\ Touches(v, w, e.ip) /\ Gone(w, e, stays)
    BY <1>1, <2>3, <2>4, <2>7, TornIs
  <2>9. 1..k = (1..(k - 1)) \cup {k} /\ \A i \in 1..(k - 1) : i \in 1..n
    BY <1>1, <2>1
  <2>10. \A i \in 1..k : Gone(w, order[i], stays)
    <3> TAKE i \in 1..k
    <3>1. CASE i = k
      BY <2>3, <2>8, <3>1
    <3>2. CASE i # k
      <4>1. i \in 1..(k - 1) /\ Placed(order[i])
        BY <1>1, <2>9, <3>2
      <4>2. order[i].ip \in Ip
        BY <4>1, CalledIs DEF Placed
      <4>3. w.runs[order[i].ip] \subseteq v.runs[order[i].ip]
        BY <2>8, <4>2 DEF Touches
      <4> QED BY <2>7, <4>1, <4>3 DEF Gone
    <3> QED BY <3>1, <3>2
  <2>11. w \in Worlds /\ \A o \in Ip : w.runs[o] \subseteq runs[o]
    BY <2>7, <2>8 DEF Touches
  <2>12. ASSUME NEW o \in Ip, \A i \in 1..k : order[i].ip # o
         PROVE  Roles(w, o) = runs[o] \cap {"cp", "lab"}
    <3>1. e.ip # o /\ \A i \in 1..(k - 1) : order[i].ip # o
      BY <2>3, <2>9, <2>12
    <3>2. Roles(v, o) = runs[o] \cap {"cp", "lab"}
      BY <2>7, <3>1
    <3> QED BY <2>8, <3>1, <3>2 DEF Touches
  <2>13. w \in Part(k)
    BY <2>10, <2>11, <2>12
  <2> HIDE DEF Part
  <2> QED BY <1>1, <2>5, <2>13
<1>10. \A k \in 0..n : f[k] \in V[k]
  <2> HIDE DEF f, V
  <2> QED BY <1>1, <1>8, <1>9, Along
<1>11. C!TornAll(order, early, stays) \in Part(n)
  <2> HIDE DEF Part
  <2> QED BY <1>1, <1>7, <1>10
<1> QED BY <1>1, <1>11

\* A host torn down: its machine is touched at most.
LEMMA HostEmptiedIs ==
    ASSUME Assumed, inv \in Inventories, InvFits(inv), NEW w \in Worlds, NEW h \in C!Id, NEW stays
    PROVE  \/ C!Removed(w, C!Where(h), C!Part, stays) = w
           \/ \E m \in Ip : Belongs(h, m) /\ Touches(w, C!Removed(w, C!Where(h), C!Part, stays), m)
<1>1. C!Where(h) = None \/ (C!Where(h) \in Ip /\ Belongs(h, C!Where(h)))
  BY WhereIs
<1>2. CASE C!Where(h) = None
  BY <1>2 DEF C!Removed
<1>3. CASE C!Where(h) # None
  <2>1. PICK m \in Ip : m = C!Where(h) /\ Belongs(h, m)
    BY <1>1, <1>3
  <2>2. Touches(w, C!Removed(w, m, C!Part, stays), m)
    BY RemovedIs
  <2> QED BY <2>1, <2>2
<1> QED BY <1>2, <1>3

\* Hosts torn down one after the other.
LEMMA EmptiedAllAre ==
    ASSUME Assumed, inv \in Inventories, InvFits(inv), C!Running \in Worlds,
           NEW hs \in Seq(C!Id)
    PROVE  LET w == C!EmptiedAll(hs) IN
           /\ w \in Worlds
           /\ \A o \in Ip : w.runs[o] \subseteq runs[o]
           /\ \A o \in Ip : (\A i \in 1..Len(hs) : ~Belongs(hs[i], o))
                => Roles(w, o) = runs[o] \cap {"cp", "lab"}
<1>1. PICK n \in Nat : n = Len(hs) /\ DOMAIN hs = 1..n /\ \A k \in 1..n : hs[k] \in C!Id
  OBVIOUS
<1>0. ASSUME NEW w \in Worlds, NEW h \in C!Id, NEW stays
      PROVE  \/ C!Removed(w, C!Where(h), C!Part, stays) = w
             \/ \E m \in Ip : Belongs(h, m) /\ Touches(w, C!Removed(w, C!Where(h), C!Part, stays), m)
  BY HostEmptiedIs
<1> DEFINE W == Worlds
           step == [p \in W \X (1..n) |-> C!Removed(p[1], C!Where(hs[p[2]]), C!Part, C!NoneRefused)]
           By(t) == t = [v \in SUBSET (1..n) |->
                            IF v = {} THEN C!Running ELSE C!Removed(t[v \ {Top(v)}], C!Where(hs[Top(v)]), C!Part, C!NoneRefused)]
           t == CHOOSE t : By(t)
<1>2. \A w \in W, i \in 1..n : C!Removed(w, C!Where(hs[i]), C!Part, C!NoneRefused) \in W
  BY <1>0, <1>1 DEF Touches
<1>3. step \in [W \X (1..n) -> W] /\ C!Running \in W
  BY <1>1, <1>2
<1>4. PICK u \in [SUBSET (1..n) -> W] : Folded(u, n, C!Running, step)
  <2> HIDE DEF step, W
  <2> QED BY <1>1, <1>3, FoldExists
<1>5. By(u)
  <2>1. ASSUME NEW v \in SUBSET (1..n), v # {}
        PROVE  step[<<u[v \ {Top(v)}], Top(v)>>] = C!Removed(u[v \ {Top(v)}], C!Where(hs[Top(v)]), C!Part, C!NoneRefused)
    <3>1. Top(v) \in 1..n /\ u[v \ {Top(v)}] \in W
      BY <1>1, <1>4, <2>1, TopIs
    <3> QED BY <3>1
  <2> HIDE DEF step
  <2> QED BY <1>4, <2>1 DEF Folded
<1>6. By(t)
  BY <1>5
<1>7. C!EmptiedAll(hs) = t[1..n]
  BY <1>1 DEF C!EmptiedAll, C!FoldLeft, C!MapThenFoldSet, C!Max, Top
<1> HIDE DEF step, t
<1> DEFINE f == [k \in 0..n |-> t[1..k]]
           Part(k) == {w \in Worlds :
               /\ \A o \in Ip : w.runs[o] \subseteq runs[o]
               /\ \A o \in Ip : (\A i \in 1..k : ~Belongs(hs[i], o))
                    => Roles(w, o) = runs[o] \cap {"cp", "lab"}}
           V == [k \in 0..n |-> Part(k)]
<1>8. f[0] \in V[0]
  <2>1. 1..0 = {} /\ {} \in SUBSET (1..n) /\ 0 \in 0..n
    BY <1>1
  <2>2. f[0] = C!Running
    BY <1>6, <2>1
  <2>3. C!Running \in Part(0)
    BY <2>1 DEF C!Running, Roles
  <2> HIDE DEF Part, f
  <2> QED BY <2>1, <2>2, <2>3
<1>9. ASSUME NEW k \in 1..n, f[k - 1] \in V[k - 1]
      PROVE  f[k] \in V[k]
  <2>1. Top(1..k) = k /\ (1..k) \ {k} = 1..(k - 1) /\ 1..k \in SUBSET (1..n) /\ 1..k # {}
    BY <1>1, Before
  <2>2. PICK v : v = t[1..(k - 1)]
    OBVIOUS
  <2>3. PICK h \in C!Id : h = hs[k]
    BY <1>1
  <2>4. PICK w : w = C!Removed(v, C!Where(h), C!Part, C!NoneRefused)
    OBVIOUS
  <2>5. t[1..k] = w
    BY <1>6, <2>1, <2>2, <2>3, <2>4
  <2>6. v \in Part(k - 1)
    <3> HIDE DEF Part
    <3> QED BY <1>1, <1>9, <2>2
  <2>7. /\ v \in Worlds
        /\ \A o \in Ip : v.runs[o] \subseteq runs[o]
        /\ \A o \in Ip : (\A i \in 1..(k - 1) : ~Belongs(hs[i], o))
             => Roles(v, o) = runs[o] \cap {"cp", "lab"}
    BY <2>6
  <2>8. w = v \/ \E m \in Ip : Belongs(h, m) /\ Touches(v, w, m)
    BY <1>0, <2>4, <2>7
  <2>9. 1..k = (1..(k - 1)) \cup {k}
    BY <1>1, <2>1
  <2>10. w \in Worlds /\ \A o \in Ip : w.runs[o] \subseteq runs[o]
    BY <2>7, <2>8 DEF Touches
  <2>11. ASSUME NEW o \in Ip, \A i \in 1..k : ~Belongs(hs[i], o)
         PROVE  Roles(w, o) = runs[o] \cap {"cp", "lab"}
    <3>1. ~Belongs(h, o) /\ \A i \in 1..(k - 1) : ~Belongs(hs[i], o)
      BY <2>3, <2>9, <2>11
    <3>2. Roles(v, o) = runs[o] \cap {"cp", "lab"}
      BY <2>7, <3>1
    <3> QED BY <2>8, <3>1, <3>2 DEF Touches
  <2>12. w \in Part(k)
    BY <2>10, <2>11
  <2> HIDE DEF Part
  <2> QED BY <1>1, <2>5, <2>12
<1>10. \A k \in 0..n : f[k] \in V[k]
  <2> HIDE DEF f, V
  <2> QED BY <1>1, <1>8, <1>9, Along
<1>11. C!EmptiedAll(hs) \in Part(n)
  <2> HIDE DEF Part
  <2> QED BY <1>1, <1>7, <1>10
<1> QED BY <1>1, <1>11

-----------------------------------------------------------------------------
(* CliContext: the inductive invariant.                                     *)

\* What devices run is in the inventory.
ListedIn(iv, r) == r # None => \E g \in C!Group : iv[g][r.target] # None
AllListed(iv, ds) == \A i \in 1..Len(ds) : ListedIn(iv, ds[i].cp) /\ ListedIn(iv, ds[i].lab)

\* What runs on a machine is in its device, unless the machine was let go.
Kept(rs, ds, free) ==
    \A m \in Ip \ free :
        /\ "cp" \in rs[m] => \E i \in 1..Len(ds) : ds[i].ip = m /\ ds[i].cp # None
        /\ "lab" \in rs[m] => \E i \in 1..Len(ds) : ds[i].ip = m /\ ds[i].lab # None

\* The variables that are no inventory.
Rest ==
    /\ type \in {None, "local", "lan", "cloud"}
    /\ letGo \subseteq Ip /\ count \in 0..MaxCommands
    /\ last \in [op : {"other", "destroy", "all"}, on : SUBSET Ip]
    /\ clean \in BOOLEAN
World ==
    /\ runs \in [Ip -> SUBSET Parts] /\ reg \in [Ip -> SUBSET Ip] /\ made \subseteq Ip
    /\ \A m \in Ip : "cp" \notin runs[m] => reg[m] = {}

CtxInv ==
    /\ inv \in Inventories /\ InvFits(inv)
    /\ devices \in Apart
    /\ World /\ Rest /\ MeansFit
    /\ clean => made = {} /\ AllListed(inv, devices) /\ Kept(runs, devices, letGo)

\* It says what variables are, and that a machine is one device.
LEMMA CtxInvTypes == CtxInv => C!TypeOK
<1> SUFFICES ASSUME CtxInv PROVE C!TypeOK
  OBVIOUS
<1>1. inv \in [C!Group -> [C!Id -> Ip \cup {None}]]
  BY DEF CtxInv, Inventories
<1>2. devices \in Seq(C!Device) /\ DOMAIN devices = 1..Len(devices)
  BY DEF CtxInv, Apart
<1>3. \A i, j \in 1..Len(devices) : devices[i].key = devices[j].key => i = j
  BY DEF CtxInv, Apart, Fits
<1>4. /\ runs \in [Ip -> SUBSET C!Part] /\ reg \in [Ip -> SUBSET Ip] /\ made \subseteq Ip
      /\ \A m \in Ip : "cp" \notin runs[m] => reg[m] = {}
  BY DEF CtxInv, World, Parts, C!Part
<1>5. means \in [CliName -> Ip \cup {None}]
  BY DEF CtxInv, MeansFit
<1>6. /\ type \in {None, "local", "lan", "cloud"}
      /\ letGo \subseteq Ip /\ count \in 0..MaxCommands
      /\ last \in [op : {"other", "destroy", "all"}, on : SUBSET Ip]
      /\ clean \in BOOLEAN /\ (clean => made = {})
  BY DEF CtxInv, Rest
<1> QED BY <1>1, <1>2, <1>3, <1>4, <1>5, <1>6 DEF C!TypeOK

LEMMA CtxInvApart == Assumed /\ CtxInv => DevicesApart
<1> SUFFICES ASSUME Assumed, CtxInv PROVE C!DevicesApart
  BY DEF DevicesApart
<1>1. /\ devices \in Seq(C!Device) /\ DOMAIN devices = 1..Len(devices)
      /\ \A i \in 1..Len(devices) : Fits(devices[i])
      /\ \A i, j \in 1..Len(devices) : devices[i].ip = devices[j].ip => i = j
  BY DEF CtxInv, Apart
<1>2. ASSUME NEW i \in 1..Len(devices), NEW j \in 1..Len(devices),
             devices[i].name # None, devices[i].name = devices[j].name
      PROVE  i = j
  <2>1. /\ devices[i].ip \in Ip /\ Belongs(devices[i].name, devices[i].ip)
        /\ devices[j].ip \in Ip /\ Belongs(devices[j].name, devices[j].ip)
    BY <1>1, <1>2, CalledIs DEF Fits
  <2>2. devices[i].ip = devices[j].ip
    BY <1>2, <2>1, OneOwner
  <2> QED BY <1>1, <2>2
<1>3. C!Range(devices) = {devices[i] : i \in 1..Len(devices)}
  BY <1>1 DEF C!Range
<1>4. \A i \in 1..Len(devices) : \A role \in {"cp", "lab"} :
        devices[i][role] # None => devices[i][role].at = devices[i].ip
  BY <1>1 DEF Fits, RoleFits
<1>5. \A e \in C!Range(devices) : \A role \in {"cp", "lab"} :
        e[role] # None => e[role].at = e.ip
  BY <1>3, <1>4
<1> QED BY <1>1, <1>2, <1>5 DEF C!DevicesApart


-----------------------------------------------------------------------------
(* What the steps of a command do to the context.                           *)

\* Hosts that an inventory has, another has too.
Wider(iv, jv) == \A g \in C!Group, h \in C!Id : iv[g][h] # None => jv[g][h] # None

\* A host is put into the inventory.
LEMMA EnlistIs ==
    ASSUME Assumed, NEW iv \in Inventories, InvFits(iv), NEW g \in C!Group, NEW h \in C!Id,
           NEW m \in Ip, Belongs(h, m)
    PROVE  LET jv == [iv EXCEPT ![g][h] = m] IN
           jv \in Inventories /\ InvFits(jv) /\ Wider(iv, jv) /\ jv[g][h] # None
<1> DEFINE jv == [iv EXCEPT ![g][h] = m]
<1>1. m # None
  BY DEF Assumed, C!NameAssumption, C!Id
<1>2. \A x \in C!Group, y \in C!Id : jv[x][y] = IF x = g /\ y = h THEN m ELSE iv[x][y]
  BY DEF Inventories
<1>3. jv \in Inventories
  BY DEF Inventories
<1> HIDE DEF jv
<1>4. InvFits(jv)
  BY <1>2 DEF InvFits
<1>5. Wider(iv, jv) /\ jv[g][h] # None
  BY <1>1, <1>2 DEF Wider
<1> QED BY <1>3, <1>4, <1>5 DEF jv

\* What was listed and kept still is when there is more of both.
LEMMA GrownOn ==
    ASSUME NEW iv \in Inventories, NEW jv, Wider(iv, jv), Assumed,
           NEW ds \in Apart, NEW es \in Apart, Grows(ds, es), NEW rs, NEW free
    PROVE  /\ AllListed(iv, ds) => AllListed(jv, es)
           /\ Kept(rs, ds, free) => Kept(rs, es, free)
<1>1. Len(ds) \in Nat /\ Len(es) \in Nat /\ Len(ds) <= Len(es)
  BY DEF Apart, Grows
<1>2. \A i \in 1..Len(ds) : Fits(ds[i]) /\ i \in 1..Len(es)
  BY <1>1 DEF Apart
<1>3. \A i \in 1..Len(es) : i > Len(ds) \/ i \in 1..Len(ds)
  BY <1>1
<1>4. ASSUME AllListed(iv, ds) PROVE AllListed(jv, es)
  <2> SUFFICES ASSUME NEW i \in 1..Len(es) PROVE ListedIn(jv, es[i].cp) /\ ListedIn(jv, es[i].lab)
    BY DEF AllListed
  <2>1. CASE i > Len(ds)
    BY <2>1 DEF Grows, ListedIn
  <2>2. CASE i \in 1..Len(ds)
    <3>1. /\ ds[i].cp # None => ds[i].cp.target \in C!Id
          /\ ds[i].lab # None => ds[i].lab.target \in C!Id
      BY <1>2, <2>2, CalledIs
    <3>2. ListedIn(iv, ds[i].cp) /\ ListedIn(iv, ds[i].lab)
      BY <1>4, <2>2 DEF AllListed
    <3>3. es[i].cp = ds[i].cp /\ es[i].lab = ds[i].lab
      BY <2>2 DEF Grows
    <3> QED BY <3>1, <3>2, <3>3 DEF ListedIn, Wider
  <2> QED BY <1>3, <2>1, <2>2
<1>5. ASSUME Kept(rs, ds, free) PROVE Kept(rs, es, free)
  BY <1>2, <1>5 DEF Kept, Grows
<1> QED BY <1>4, <1>5

\* Devices of which one, of to's machine, has got a role, with to for its target.
GotRole(ds, to, role, es) ==
    /\ \E k \in 1..Len(es) : es[k].ip = to.at /\ es[k][role] # None
    /\ \A i \in 1..Len(es), r \in {"cp", "lab"} :
         \/ es[i][r] = None
         \/ es[i][r].target = to.host
         \/ \E j \in 1..Len(ds) : es[i][r] = ds[j][r]
    /\ \A j \in 1..Len(ds) : \E i \in 1..Len(es) :
         /\ es[i].ip = ds[j].ip
         /\ \A r \in {"cp", "lab"} : ds[j][r] # None => es[i][r] # None

\* What a machine runs is kept with its device.
LEMMA SetRoleIs ==
    ASSUME Assumed, NEW ds \in Apart, NEW to, to.host \in C!Id, to.at \in Ip,
           Belongs(to.host, to.at), NEW role \in {"cp", "lab"},
           NEW also \in SUBSET C!Id, role = "cp" => also = {},
           NEW es, es = C!SetRole(ds, to, role, also)
    PROVE  es \in Apart /\ GotRole(ds, to, role, es)
<1> DEFINE name == IF to.host = to.at THEN None ELSE to.host
           us == C!Upsert(ds, to.at, name)
           k == C!At(ds, to.at, name)
           new == [target |-> to.host, at |-> to.at, also |-> also]
           dev == [us[k] EXCEPT ![role] = new]
<1>1. name \in CliName \cup {None} /\ (name # None => Given[name] = {to.at})
  BY DEF Belongs
<1> HIDE DEF name
<1>2. us \in Apart /\ Grows(ds, us) /\ k \in 1..Len(us) /\ us[k].ip = to.at
  BY <1>1, UpsertIs
<1>3. C!SetRole(ds, to, role, also) = [us EXCEPT ![k][role] = new]
  BY DEF C!SetRole, name
<1>4. /\ us \in Seq(C!Device) /\ Len(us) \in Nat
      /\ \A i \in 1..Len(us) : Fits(us[i]) /\ us[i] \in C!Device
      /\ \A i, j \in 1..Len(us) : us[i].ip = us[j].ip => i = j
  BY <1>2 DEF Apart, Fits
<1> HIDE DEF us, k
<1>5. es = [us EXCEPT ![k] = dev]
  BY <1>2, <1>3, <1>4
<1>6. new # None /\ new \in C!Role /\ new.target = to.host /\ new.also = also /\ RoleFits(new, to.at)
  <2>1. new \in [target : C!Id, at : Ip, also : SUBSET C!Id]
    OBVIOUS
  <2>2. new # None
    BY <2>1 DEF Assumed, C!NameAssumption
  <2> QED BY <2>1, <2>2 DEF C!Role, RoleFits
<1> HIDE DEF new
<1>7. /\ dev \in C!Device /\ dev.key = us[k].key /\ dev.ip = us[k].ip /\ dev.name = us[k].name
      /\ \A r \in {"cp", "lab"} : dev[r] = IF r = role THEN new ELSE us[k][r]
  BY <1>2, <1>4, <1>6 DEF C!Device
<1>8. Fits(dev)
  BY <1>2, <1>4, <1>6, <1>7 DEF Fits
<1> HIDE DEF dev
<1>9. /\ es \in Seq(C!Device) /\ Len(es) = Len(us)
      /\ \A i \in 1..Len(us) : es[i] = IF i = k THEN dev ELSE us[i]
  BY <1>2, <1>4, <1>5, <1>7
<1>10. \A i \in 1..Len(us) : es[i].ip = us[i].ip
  BY <1>7, <1>9
<1>11. es \in Apart
  BY <1>4, <1>8, <1>9, <1>10 DEF Apart
<1>12. es[k].ip = to.at /\ es[k][role] # None /\ k \in 1..Len(es)
  BY <1>2, <1>6, <1>7, <1>9
<1>13. \A i \in 1..Len(us), r \in {"cp", "lab"} :
         es[i][r] = IF i = k /\ r = role THEN new ELSE us[i][r]
  BY <1>7, <1>9
<1>14. Len(ds) \in Nat /\ Len(ds) <= Len(us)
  BY <1>2 DEF Apart, Grows
<1>15. \A i \in 1..Len(us), r \in {"cp", "lab"} :
         us[i][r] = None \/ (i \in 1..Len(ds) /\ us[i][r] = ds[i][r])
  <2> TAKE i \in 1..Len(us), r \in {"cp", "lab"}
  <2>1. CASE i > Len(ds)
    BY <1>2, <2>1 DEF Grows
  <2>2. CASE i \in 1..Len(ds)
    BY <1>2, <2>2 DEF Grows
  <2> QED BY <1>4, <1>14, <2>1, <2>2
<1>16. ASSUME NEW i \in 1..Len(es), NEW r \in {"cp", "lab"}
       PROVE  \/ es[i][r] = None
              \/ es[i][r].target = to.host
              \/ \E j \in 1..Len(ds) : es[i][r] = ds[j][r]
  BY <1>6, <1>9, <1>13, <1>15
<1>17. ASSUME NEW j \in 1..Len(ds)
       PROVE  \E i \in 1..Len(es) : /\ es[i].ip = ds[j].ip
                                    /\ \A r \in {"cp", "lab"} : ds[j][r] # None => es[i][r] # None
  <2>1. j \in 1..Len(es) /\ j \in 1..Len(us)
    BY <1>4, <1>9, <1>14
  <2>2. us[j].ip = ds[j].ip /\ \A r \in {"cp", "lab"} : us[j][r] = ds[j][r]
    BY <1>2 DEF Grows
  <2> QED BY <1>6, <1>10, <1>13, <2>1, <2>2
<1>18. GotRole(ds, to, role, es)
  BY <1>12, <1>16, <1>17 DEF GotRole
<1> QED BY <1>11, <1>18

\* Devices to which others are added twice.
LEMMA GrowsOn ==
    ASSUME NEW ds \in Apart, NEW us \in Apart, NEW es \in Apart, Grows(ds, us), Grows(us, es)
    PROVE  Grows(ds, es)
<1>1. Len(ds) \in Nat /\ Len(us) \in Nat /\ Len(es) \in Nat
  BY DEF Apart
<1>2. Len(ds) <= Len(us) /\ Len(us) <= Len(es)
  BY DEF Grows
<1>3. \A i \in 1..Len(ds) : i \in 1..Len(us)
  BY <1>1, <1>2
<1>4. ASSUME NEW i \in 1..Len(es), i > Len(ds) PROVE es[i].cp = None /\ es[i].lab = None
  <2>1. CASE i > Len(us)
    BY <2>1 DEF Grows
  <2>2. CASE i \in 1..Len(us)
    BY <1>4, <2>2 DEF Grows
  <2> QED BY <1>1, <2>1, <2>2
<1> QED BY <1>1, <1>2, <1>3, <1>4 DEF Grows

\* The machines after playbooks: what runs there, and without a control plane
\* no registrations.
LEMMA BecomeIs ==
    ASSUME NEW w \in Worlds, C!Become(w)
    PROVE  /\ runs' = w.runs
           /\ runs' \in [Ip -> SUBSET Parts] /\ reg' \in [Ip -> SUBSET Ip]
           /\ \A m \in Ip : "cp" \notin runs'[m] => reg'[m] = {}
BY DEF C!Become, Worlds

\* Forgetting hosts leaves devices that are called none of them, and what
\* those run in the inventory.
LEMMA ForgetIs ==
    ASSUME Assumed, inv \in Inventories, InvFits(inv), devices \in Apart,
           NEW hosts \in SUBSET C!Id, NEW jv, NEW es,
           jv = C!Prune(inv, hosts), es = C!Without(C!Keys(jv, hosts))
    PROVE  /\ jv \in Inventories /\ InvFits(jv) /\ es \in Apart
           /\ AllListed(inv, devices) => AllListed(jv, es)
           /\ \A j \in 1..Len(devices) : C!Identifiers(devices[j]) \cap C!Expand(jv, hosts) = {} =>
                \E i \in 1..Len(es) : es[i] = devices[j]
           /\ \A j \in 1..Len(devices) : C!Identifiers(devices[j]) \cap C!Expand(inv, hosts) = {} =>
                \E i \in 1..Len(es) : es[i] = devices[j]
<1>1. /\ jv \in Inventories /\ Narrower(jv, inv) /\ InvFits(jv)
      /\ \A g \in C!Group, h \in C!Id :
            h \notin hosts /\ inv[g][h] \notin hosts => jv[g][h] = inv[g][h]
  BY PruneIs
<1>2. /\ es \in Apart
      /\ \A i \in 1..Len(es) : \E j \in 1..Len(devices) :
            es[i] = devices[j] /\ C!Identifiers(devices[j]) \cap C!Expand(jv, hosts) = {}
      /\ \A j \in 1..Len(devices) : C!Identifiers(devices[j]) \cap C!Expand(jv, hosts) = {} =>
            \E i \in 1..Len(es) : es[i] = devices[j]
  BY WithoutIs
<1>3. C!Expand(jv, hosts) \subseteq C!Expand(inv, hosts)
  BY <1>1, ExpandNarrow
<1>4. hosts \subseteq C!Expand(jv, hosts)
  BY <1>1, ExpandIs
<1>5. ASSUME AllListed(inv, devices) PROVE AllListed(jv, es)
  <2> SUFFICES ASSUME NEW i \in 1..Len(es) PROVE ListedIn(jv, es[i].cp) /\ ListedIn(jv, es[i].lab)
    BY DEF AllListed
  <2>1. PICK j \in 1..Len(devices) :
            es[i] = devices[j] /\ C!Identifiers(devices[j]) \cap C!Expand(jv, hosts) = {}
    BY <1>2
  <2> DEFINE e == devices[j]
  <2>2. Fits(e)
    BY DEF Apart
  <2>3. /\ e.ip \in Ip /\ e.ip \in C!Identifiers(e)
        /\ \A x \in C!Identifiers(e) : x \notin hosts
        /\ e.cp # None => /\ e.cp.target \in C!Id /\ e.cp.target \in C!Identifiers(e)
                          /\ Belongs(e.cp.target, e.ip)
        /\ e.lab # None => /\ e.lab.target \in C!Id /\ e.lab.target \in C!Identifiers(e)
                           /\ Belongs(e.lab.target, e.ip)
    BY <1>4, <2>1, <2>2, CalledIs
  <2>4. ListedIn(inv, e.cp) /\ ListedIn(inv, e.lab)
    BY <1>5 DEF AllListed
  <2> HIDE DEF e
  <2>5. ASSUME NEW r, ListedIn(inv, r), r # None, r.target \in C!Id, r.target \in C!Identifiers(e),
               Belongs(r.target, e.ip)
        PROVE  ListedIn(jv, r)
    <3>1. PICK g \in C!Group : inv[g][r.target] # None
      BY <2>5 DEF ListedIn
    <3>2. inv[g][r.target] \in Ip /\ Belongs(r.target, inv[g][r.target])
      BY <2>5, <3>1 DEF Inventories, InvFits
    <3>3. inv[g][r.target] = e.ip
      BY <2>3, <2>5, <3>2, OneOwner
    <3>4. jv[g][r.target] = inv[g][r.target]
      BY <1>1, <2>3, <2>5, <3>3
    <3> QED BY <3>1, <3>4 DEF ListedIn
  <2>6. ListedIn(jv, e.cp)
    BY <2>3, <2>4, <2>5 DEF ListedIn
  <2>7. ListedIn(jv, e.lab)
    BY <2>3, <2>4, <2>5 DEF ListedIn
  <2> QED BY <2>1, <2>6, <2>7 DEF e
<1>6. \A j \in 1..Len(devices) : C!Identifiers(devices[j]) \cap C!Expand(inv, hosts) = {} =>
        C!Identifiers(devices[j]) \cap C!Expand(jv, hosts) = {}
  BY <1>3
<1> QED BY <1>1, <1>2, <1>5, <1>6

\* A command is counted.
LEMMA CountedIs ==
    ASSUME Assumed, count \in 0..MaxCommands, C!Counted
    PROVE  count' \in 0..MaxCommands
BY DEF C!Counted, Assumed, C!BoundAssumption

-----------------------------------------------------------------------------
(* Every command keeps the invariant.                                       *)

LEMMA ProvisionLocalKeeps ==
    ASSUME Assumed, CtxInv, NEW name \in CliName, C!ProvisionLocal(name)
    PROVE  CtxInv'
<1>1. PICK jv, es : jv = inv' /\ es = devices'
  OBVIOUS
<1>2. Local \in Ip /\ Belongs(name, Local) /\ name \in C!Id /\ Given[name] = {Local}
  <2>1. Local \in Ip /\ Local \in Given[name]
    BY DEF Assumed, C!LocalAssumption, C!ProvisionLocal
  <2>2. PICK m \in Ip : Given[name] = {m}
    BY DEF Assumed, C!OneMachine
  <2> QED BY <2>1, <2>2 DEF Belongs, C!Id
<1>3. jv = [inv EXCEPT !["local"][name] = Local] /\ "local" \in C!Group
  BY <1>1 DEF C!ProvisionLocal, C!Group
<1>4. jv \in Inventories /\ InvFits(jv) /\ Wider(inv, jv)
  BY <1>2, <1>3, EnlistIs DEF CtxInv
<1>5. PICK what \in CliName \cup {None} : what = IF name = LocalName THEN None ELSE name
  OBVIOUS
<1>6. es = C!Upsert(devices, Local, what)
  BY <1>1, <1>5 DEF C!ProvisionLocal
<1>7. es \in Apart /\ Grows(devices, es)
  BY <1>2, <1>5, <1>6, UpsertIs DEF CtxInv
<1>8. MeansFit'
  <2>1. means' = [means EXCEPT ![name] = Local]
    BY DEF C!ProvisionLocal
  <2> QED BY <1>2, <2>1 DEF CtxInv, MeansFit
<1>9. World' /\ runs' = runs /\ letGo' = letGo /\ made' = made /\ clean' = clean
  BY DEF CtxInv, World, C!ProvisionLocal, C!world
<1>10. Rest'
  <2>1. count' \in 0..MaxCommands
    BY CountedIs DEF CtxInv, Rest, C!ProvisionLocal
  <2> QED BY <1>9, <2>1 DEF CtxInv, Rest, C!ProvisionLocal, C!Quiet
<1>11. clean => AllListed(jv, es) /\ Kept(runs, es, letGo)
  BY <1>4, <1>7, GrownOn DEF CtxInv
<1> QED BY <1>1, <1>4, <1>7, <1>8, <1>9, <1>10, <1>11 DEF CtxInv

LEMMA ProvisionLanKeeps ==
    ASSUME Assumed, CtxInv, NEW m \in Ip, NEW name \in CliName \cup {None}, C!ProvisionLan(m, name)
    PROVE  CtxInv'
<1>1. PICK jv, es : jv = inv' /\ es = devices'
  OBVIOUS
<1> DEFINE host == IF name = None THEN m ELSE name
           listed == [inv EXCEPT !["lan"][host] = m]
<1>2. name # None => name \in CliName /\ Given[name] = {m}
  <2> HAVE name # None
  <2>1. name \in CliName /\ m \in Given[name]
    BY DEF C!ProvisionLan
  <2>2. PICK o \in Ip : Given[name] = {o}
    BY <2>1 DEF Assumed, C!OneMachine
  <2> QED BY <2>1, <2>2
<1>3. host \in C!Id /\ Belongs(host, m)
  BY <1>2 DEF Belongs, C!Id
<1>4. "lan" \in C!Group
  BY DEF C!Group
<1> HIDE DEF host
<1>5. listed \in Inventories /\ InvFits(listed) /\ Wider(inv, listed)
  BY <1>3, <1>4, EnlistIs DEF CtxInv
<1>6. World' /\ runs' = runs /\ letGo' = letGo /\ made' = made
  BY DEF CtxInv, World, C!ProvisionLan, C!world
<1> HIDE DEF listed
<1>7. count' \in 0..MaxCommands
  BY CountedIs DEF CtxInv, Rest, C!ProvisionLan
<1>8. \/ /\ jv = listed /\ type' = "lan" /\ clean' = clean
         /\ es = IF name = None THEN C!Upsert(devices, m, None)
                 ELSE C!Upsert(C!Upsert(devices, m, None), m, name)
         /\ means' = IF name = None THEN means ELSE [means EXCEPT ![name] = m]
      \/ /\ jv = C!Prune(listed, {host}) /\ clean' = FALSE
         /\ devices' = devices /\ type' = type /\ means' = means
  BY <1>1 DEF C!ProvisionLan, listed, host
<1>9. last' = C!Quiet
  BY DEF C!ProvisionLan
<1>10. CASE /\ jv = listed /\ type' = "lan" /\ clean' = clean
            /\ es = IF name = None THEN C!Upsert(devices, m, None)
                    ELSE C!Upsert(C!Upsert(devices, m, None), m, name)
            /\ means' = IF name = None THEN means ELSE [means EXCEPT ![name] = m]
  <2>1. devices \in Apart
    BY DEF CtxInv
  <2>2. PICK us : us = C!Upsert(devices, m, None)
    OBVIOUS
  <2>3. us \in Apart /\ Grows(devices, us)
    BY <2>1, <2>2, UpsertIs
  <2>4. es \in Apart /\ Grows(devices, es)
    <3>1. CASE name = None
      BY <1>10, <2>2, <2>3, <3>1
    <3>2. CASE name # None
      <4>1. es = C!Upsert(us, m, name)
        BY <1>10, <2>2, <3>2
      <4>2. es \in Apart /\ Grows(us, es)
        BY <1>2, <2>3, <4>1, UpsertIs
      <4> QED BY <2>1, <2>3, <4>2, GrowsOn
    <3> QED BY <3>1, <3>2
  <2>5. MeansFit'
    BY <1>2, <1>10 DEF CtxInv, MeansFit
  <2>6. Rest'
    BY <1>6, <1>7, <1>9, <1>10 DEF CtxInv, Rest, C!Quiet
  <2>7. clean => AllListed(jv, es) /\ Kept(runs, es, letGo)
    BY <1>5, <1>10, <2>1, <2>4, GrownOn DEF CtxInv
  <2> QED BY <1>1, <1>5, <1>6, <1>10, <2>4, <2>5, <2>6, <2>7 DEF CtxInv
<1>11. CASE /\ jv = C!Prune(listed, {host}) /\ clean' = FALSE
            /\ devices' = devices /\ type' = type /\ means' = means
  <2>1. jv \in Inventories /\ InvFits(jv)
    BY <1>3, <1>5, <1>11, PruneIs
  <2>2. Rest'
    BY <1>6, <1>7, <1>9, <1>11 DEF CtxInv, Rest, C!Quiet
  <2>3. MeansFit'
    BY <1>11 DEF CtxInv, MeansFit
  <2> QED BY <1>1, <1>6, <1>11, <2>1, <2>2, <2>3 DEF CtxInv
<1> QED BY <1>8, <1>10, <1>11

LEMMA ProvisionCloudKeeps ==
    ASSUME Assumed, CtxInv, NEW ms \in SUBSET Ip, C!ProvisionCloud(ms)
    PROVE  CtxInv'
<1>1. C!SetToSeq(ms) \in Seq(ms)
  BY SetToSeqIs DEF C!Id
<1>2. C!SetToSeq(ms) \in Seq(Ip)
  BY <1>1
<1>3. devices' \in Apart
  <2>1. C!UpsertAll(devices, C!SetToSeq(ms)) \in Apart
    BY <1>2, UpsertsAre DEF CtxInv
  <2> QED BY <2>1 DEF C!ProvisionCloud
<1>4. World' /\ MeansFit' /\ inv' = inv /\ clean' = FALSE
  BY DEF CtxInv, World, MeansFit, C!ProvisionCloud
<1>5. Rest'
  <2>1. count' \in 0..MaxCommands
    BY CountedIs DEF CtxInv, Rest, C!ProvisionCloud
  <2> QED BY <2>1 DEF CtxInv, Rest, C!ProvisionCloud, C!Quiet
<1> QED BY <1>3, <1>4, <1>5 DEF CtxInv

\* A host that has got a role: it is in the inventory and with its device.
LEMMA BootstrapIs ==
    ASSUME Assumed, CtxInv, NEW to, to.host \in C!Id, to.at \in Ip, Belongs(to.host, to.at),
           NEW role \in {"cp", "lab"}, NEW also \in SUBSET C!Id, role = "cp" => also = {},
           NEW g \in C!Group, NEW jv, NEW es, NEW rs,
           jv = [inv EXCEPT ![g][to.host] = to.at], es = C!SetRole(devices, to, role, also),
           rs = C!Deployed(to.at, role)
    PROVE  /\ es \in Apart
           /\ AllListed(inv, devices) => AllListed(jv, es)
           /\ Kept(runs, devices, letGo) => Kept(rs, es, letGo)
<1>1. inv \in Inventories /\ InvFits(inv) /\ devices \in Apart /\ runs \in [Ip -> SUBSET Parts]
  BY DEF CtxInv, World
<1>2. jv \in Inventories /\ Wider(inv, jv) /\ jv[g][to.host] # None
  BY <1>1, EnlistIs
<1>3. es \in Apart /\ GotRole(devices, to, role, es)
  BY <1>1, SetRoleIs
<1>4. ASSUME AllListed(inv, devices) PROVE AllListed(jv, es)
  <2>1. ASSUME NEW i \in 1..Len(es), NEW r \in {"cp", "lab"} PROVE ListedIn(jv, es[i][r])
    <3>1. CASE es[i][r] = None
      BY <3>1 DEF ListedIn
    <3>2. CASE es[i][r].target = to.host
      BY <1>2, <3>2 DEF ListedIn
    <3>3. CASE \E j \in 1..Len(devices) : es[i][r] = devices[j][r]
      <4>1. PICK j \in 1..Len(devices) : es[i][r] = devices[j][r]
        BY <3>3
      <4>2. ListedIn(inv, devices[j][r])
        BY <1>4 DEF AllListed
      <4>3. Fits(devices[j])
        BY <1>1 DEF Apart
      <4>4. devices[j][r] # None => devices[j][r].target \in C!Id
        BY <4>3, CalledIs
      <4> QED BY <1>2, <4>1, <4>2, <4>4 DEF ListedIn, Wider
    <3> QED BY <1>3, <3>1, <3>2, <3>3 DEF GotRole
  <2>2. ASSUME NEW i \in 1..Len(es) PROVE ListedIn(jv, es[i].cp) /\ ListedIn(jv, es[i].lab)
    <3>1. ListedIn(jv, es[i]["cp"]) /\ ListedIn(jv, es[i]["lab"])
      BY <2>1
    <3> QED BY <3>1
  <2> QED BY <2>2 DEF AllListed
<1>5. ASSUME Kept(runs, devices, letGo) PROVE Kept(rs, es, letGo)
  <2>1. ASSUME NEW m \in Ip \ letGo, NEW r \in {"cp", "lab"}, r \in rs[m]
        PROVE  \E i \in 1..Len(es) : es[i].ip = m /\ es[i][r] # None
    <3>1. CASE m = to.at /\ r = role
      BY <1>3, <3>1 DEF GotRole
    <3>2. CASE ~(m = to.at /\ r = role)
      <4>1. r \in runs[m]
        BY <1>1, <2>1, <3>2 DEF C!Deployed
      <4>2. PICK j \in 1..Len(devices) : devices[j].ip = m /\ devices[j][r] # None
        BY <1>5, <4>1 DEF Kept
      <4>3. PICK i \in 1..Len(es) :
              /\ es[i].ip = devices[j].ip
              /\ \A q \in {"cp", "lab"} : devices[j][q] # None => es[i][q] # None
        BY <1>3 DEF GotRole
      <4> QED BY <4>2, <4>3
    <3> QED BY <3>1, <3>2
  <2>2. ASSUME NEW m \in Ip \ letGo
        PROVE  /\ "cp" \in rs[m] => \E i \in 1..Len(es) : es[i].ip = m /\ es[i].cp # None
               /\ "lab" \in rs[m] => \E i \in 1..Len(es) : es[i].ip = m /\ es[i].lab # None
    <3>1. /\ "cp" \in rs[m] => \E i \in 1..Len(es) : es[i].ip = m /\ es[i]["cp"] # None
          /\ "lab" \in rs[m] => \E i \in 1..Len(es) : es[i].ip = m /\ es[i]["lab"] # None
      BY <2>1
    <3> QED BY <3>1
  <2> QED BY <2>2 DEF Kept
<1> QED BY <1>3, <1>4, <1>5

\* A role that is deployed.
LEMMA DeployedIs ==
    ASSUME runs \in [Ip -> SUBSET Parts], NEW m \in Ip, NEW role \in Parts
    PROVE  /\ C!Deployed(m, role) \in [Ip -> SUBSET Parts]
           /\ \A o \in Ip : runs[o] \subseteq C!Deployed(m, role)[o]
BY DEF C!Deployed

LEMMA BootstrapControlPlaneKeeps ==
    ASSUME Assumed, CtxInv, NEW d \in C!Id, C!BootstrapControlPlane(d)
    PROVE  CtxInv'
<1>1. PICK to \in C!Resolve(d) :
        /\ C!Counted /\ C!Enlist("control_plane", to) /\ last' = C!Quiet
        /\ \/ /\ runs' = C!Deployed(to.at, "cp") /\ devices' = C!SetRole(devices, to, "cp", {})
              /\ UNCHANGED clean
           \/ /\ clean' = FALSE
              /\ runs' \in {runs, C!Deployed(to.at, "cp")} /\ UNCHANGED devices
        /\ UNCHANGED <<type, reg, made, means, letGo>>
  BY DEF C!BootstrapControlPlane
<1>2. inv \in Inventories /\ InvFits(inv) /\ devices \in Apart /\ runs \in [Ip -> SUBSET Parts]
  BY DEF CtxInv, World
<1>3. to.host \in C!Id /\ to.at \in Ip /\ Belongs(to.host, to.at)
  BY <1>2, ResolveIs
<1>4. PICK jv, es, rs : jv = inv' /\ es = devices' /\ rs = runs'
  OBVIOUS
<1>5. jv = [inv EXCEPT !["control_plane"][to.host] = to.at] /\ "control_plane" \in C!Group
  BY <1>1, <1>4 DEF C!Enlist, C!Group
<1>6. jv \in Inventories /\ InvFits(jv)
  BY <1>2, <1>3, <1>5, EnlistIs
<1>7. rs \in [Ip -> SUBSET Parts] /\ \A o \in Ip : runs[o] \subseteq rs[o]
  BY <1>1, <1>2, <1>3, <1>4, DeployedIs DEF Parts
<1>8. World'
  BY <1>1, <1>4, <1>7 DEF CtxInv, World
<1>9. Rest'
  <2>1. count' \in 0..MaxCommands
    BY <1>1, CountedIs DEF CtxInv, Rest
  <2> QED BY <1>1, <2>1 DEF CtxInv, Rest, C!Quiet
<1>10. MeansFit'
  BY <1>1 DEF CtxInv, MeansFit
<1>11. CASE rs = C!Deployed(to.at, "cp") /\ es = C!SetRole(devices, to, "cp", {}) /\ UNCHANGED clean
  <2>1. /\ es \in Apart
        /\ AllListed(inv, devices) => AllListed(jv, es)
        /\ Kept(runs, devices, letGo) => Kept(rs, es, letGo)
    BY <1>3, <1>5, <1>11, BootstrapIs
  <2> QED BY <1>1, <1>4, <1>6, <1>8, <1>9, <1>10, <1>11, <2>1 DEF CtxInv
<1>12. CASE clean' = FALSE /\ es = devices
  BY <1>2, <1>4, <1>6, <1>8, <1>9, <1>10, <1>12 DEF CtxInv
<1> QED BY <1>1, <1>4, <1>11, <1>12

\* The control plane of the context is a machine.
LEMMA ControlPlaneIs ==
    ASSUME Assumed, devices \in Apart, C!ControlPlane # None
    PROVE  C!ControlPlane \in Ip
<1> DEFINE Has == {i \in 1..Len(devices) : devices[i].cp # None}
<1>1. /\ devices \in Seq(C!Device) /\ Len(devices) \in Nat /\ DOMAIN devices = 1..Len(devices)
      /\ \A i \in 1..Len(devices) : Fits(devices[i])
  BY DEF Apart
<1>2. PICK k : k = C!SelectInSeq(devices, LAMBDA e : e.cp # None)
  OBVIOUS
<1>3. k # 0 /\ C!ControlPlane = devices[k].cp.at
  BY <1>2 DEF C!ControlPlane
<1>4. k = IF Has = {} THEN 0 ELSE C!Min(Has)
  BY <1>1, <1>2 DEF C!SelectInSeq
<1>5. k \in Has
  <2>1. Has \in SUBSET (1..Len(devices)) /\ Has # {}
    BY <1>3, <1>4
  <2>2. C!Min(Has) \in Has
    BY <1>1, <2>1, MinIs
  <2> QED BY <1>4, <2>1, <2>2
<1>6. devices[k].cp.at = devices[k].ip /\ devices[k].ip \in Ip
  BY <1>1, <1>5, CalledIs
<1> QED BY <1>3, <1>6

LEMMA BootstrapLabHostKeeps ==
    ASSUME Assumed, CtxInv, NEW d \in C!Id, C!BootstrapLabHost(d)
    PROVE  CtxInv'
<1>0. PICK to \in C!Resolve(d), ip \in Aliases \cup {None}, id \in Aliases \cup {None} :
        /\ C!Counted /\ C!ControlPlane # None
        /\ C!Enlist("lab_hosts", to) /\ last' = C!Quiet
        /\ \/ /\ runs' = C!Deployed(to.at, "lab")
              /\ C!Registered(C!ControlPlane, C!Leads(ip, to.at))
              /\ \/ devices' = C!SetRole(devices, to, "lab", {ip, id} \ {None}) /\ UNCHANGED clean
                 \/ clean' = FALSE /\ UNCHANGED devices
           \/ /\ clean' = FALSE
              /\ runs' \in {runs, C!Deployed(to.at, "lab")} /\ UNCHANGED <<reg, devices>>
        /\ UNCHANGED <<type, made, means, letGo>>
  BY DEF C!BootstrapLabHost
<1> DEFINE leads == C!Leads(ip, to.at)
           also == {ip, id} \ {None}
<1>00. also \in SUBSET C!Id
  BY DEF Assumed, C!AliasAssumption
<1>1. /\ C!Counted /\ C!ControlPlane # None
      /\ C!Enlist("lab_hosts", to) /\ last' = C!Quiet
      /\ \/ /\ runs' = C!Deployed(to.at, "lab")
            /\ C!Registered(C!ControlPlane, leads)
            /\ \/ devices' = C!SetRole(devices, to, "lab", also) /\ UNCHANGED clean
               \/ clean' = FALSE /\ UNCHANGED devices
         \/ /\ clean' = FALSE
            /\ runs' \in {runs, C!Deployed(to.at, "lab")} /\ UNCHANGED <<reg, devices>>
      /\ UNCHANGED <<type, made, means, letGo>>
  BY <1>0
<1> HIDE DEF also
<1>2. /\ inv \in Inventories /\ InvFits(inv) /\ devices \in Apart /\ runs \in [Ip -> SUBSET Parts]
      /\ reg \in [Ip -> SUBSET Ip] /\ made \subseteq Ip
      /\ \A m \in Ip : "cp" \notin runs[m] => reg[m] = {}
  BY DEF CtxInv, World
<1>3. to.host \in C!Id /\ to.at \in Ip /\ Belongs(to.host, to.at)
  BY <1>2, ResolveIs
<1>4. PICK jv, es, rs : jv = inv' /\ es = devices' /\ rs = runs'
  OBVIOUS
<1>5. jv = [inv EXCEPT !["lab_hosts"][to.host] = to.at] /\ "lab_hosts" \in C!Group
  BY <1>1, <1>4 DEF C!Enlist, C!Group
<1>6. jv \in Inventories /\ InvFits(jv)
  BY <1>2, <1>3, <1>5, EnlistIs
<1>7. rs \in [Ip -> SUBSET Parts] /\ \A o \in Ip : runs[o] \subseteq rs[o]
  BY <1>1, <1>2, <1>3, <1>4, DeployedIs DEF Parts
<1>8. World'
  <2>0. leads \subseteq Ip
    <3>1. CASE ip \in CliName /\ ip \notin Ip /\ ip # None
      BY <3>1 DEF C!Leads, Assumed, C!GivenAssumption
    <3>2. CASE ip \in Ip \/ ip = None
      BY <1>3, <3>2 DEF C!Leads
    <3> QED BY <3>1, <3>2 DEF Assumed, C!AliasAssumption, C!Id
  <2> HIDE DEF leads
  <2>1. CASE C!Registered(C!ControlPlane, leads)
    <3>1. PICK c \in Ip : c = C!ControlPlane
      BY <1>1, <1>2, ControlPlaneIs
    <3>2. PICK h \in Ip : "cp" \in runs[c] /\ reg' = [reg EXCEPT ![c] = @ \cup {h}]
      BY <2>0, <2>1, <3>1 DEF C!Registered
    <3>3. \A o \in Ip : reg'[o] = IF o = c THEN reg[o] \cup {h} ELSE reg[o]
      BY <1>2, <3>2
    <3>4. reg' \in [Ip -> SUBSET Ip]
      BY <1>2, <3>2
    <3>5. \A o \in Ip : "cp" \notin rs[o] => reg'[o] = {}
      BY <1>2, <1>7, <3>2, <3>3
    <3> QED BY <1>1, <1>2, <1>4, <1>7, <3>4, <3>5 DEF World
  <2>2. CASE reg' = reg
    BY <1>1, <1>2, <1>4, <1>7, <2>2 DEF World
  <2> QED BY <1>1, <2>1, <2>2
<1>9. Rest'
  <2>1. count' \in 0..MaxCommands
    BY <1>1, CountedIs DEF CtxInv, Rest
  <2> QED BY <1>1, <2>1 DEF CtxInv, Rest, C!Quiet
<1>10. MeansFit'
  BY <1>1 DEF CtxInv, MeansFit
<1>11. CASE rs = C!Deployed(to.at, "lab") /\ es = C!SetRole(devices, to, "lab", also) /\ UNCHANGED clean
  <2>1. /\ es \in Apart
        /\ AllListed(inv, devices) => AllListed(jv, es)
        /\ Kept(runs, devices, letGo) => Kept(rs, es, letGo)
    <3>1. "lab" # "cp"
      OBVIOUS
    <3> QED BY <1>00, <1>3, <1>5, <1>11, <3>1, BootstrapIs
  <2> QED BY <1>1, <1>4, <1>6, <1>8, <1>9, <1>10, <1>11, <2>1 DEF CtxInv
<1>12. CASE clean' = FALSE /\ es = devices
  BY <1>2, <1>4, <1>6, <1>8, <1>9, <1>10, <1>12 DEF CtxInv
<1> QED BY <1>1, <1>4, <1>11, <1>12

LEMMA RunLabKeeps ==
    ASSUME Assumed, CtxInv, NEW h \in Ip, C!RunLab(h)
    PROVE  CtxInv'
<1>1. runs \in [Ip -> SUBSET Parts]
  BY DEF CtxInv, World
<1>2. PICK rs : rs = runs'
  OBVIOUS
<1>3. rs = [runs EXCEPT ![h] = @ \cup {"work"}]
  BY <1>2 DEF C!RunLab
<1>4. rs \in [Ip -> SUBSET Parts]
  BY <1>1, <1>3 DEF Parts
<1>5. \A o \in Ip : ("cp" \in rs[o] <=> "cp" \in runs[o]) /\ ("lab" \in rs[o] <=> "lab" \in runs[o])
  BY <1>1, <1>3
<1>6. UNCHANGED <<inv, devices, type, reg, made, means, letGo, clean>> /\ last' = C!Quiet /\ C!Counted
  BY DEF C!RunLab, C!context
<1>7. World'
  BY <1>2, <1>4, <1>5, <1>6 DEF CtxInv, World
<1>8. Rest'
  <2>1. count' \in 0..MaxCommands
    BY <1>6, CountedIs DEF CtxInv, Rest
  <2> QED BY <1>6, <2>1 DEF CtxInv, Rest, C!Quiet
<1>9. Kept(runs, devices, letGo) => Kept(rs, devices, letGo)
  BY <1>5 DEF Kept
<1>10. MeansFit'
  BY <1>6 DEF CtxInv, MeansFit
<1> QED BY <1>2, <1>6, <1>7, <1>8, <1>9, <1>10 DEF CtxInv

\* Less runs than before, and on machines a teardown is not about what they
\* are is left.
Lessened(hosts, order, w) ==
    /\ w \in Worlds
    /\ \A o \in Ip : w.runs[o] \subseteq runs[o]
    /\ \A o \in Ip : (\A h \in hosts : ~Belongs(h, o)) /\ (\A i \in 1..Len(order) : order[i].ip # o)
            => Roles(w, o) = runs[o] \cap {"cp", "lab"}

\* A teardown: devices that can be found are gone.
Teardown(hosts, order, stays, w) ==
    Lessened(hosts, order, w) /\ \A i \in 1..Len(order) : Gone(w, order[i], stays)

\* The devices of a teardown are devices of the context.
LEMMA OrderFits ==
    ASSUME Assumed, CtxInv, NEW hosts, NEW order, order = C!Order(C!Keys(inv, hosts))
    PROVE  order \in Seq(C!Device) /\ \A i \in 1..Len(order) : Fits(order[i]) /\ Placed(order[i])
<1>1. devices \in Apart /\ inv \in Inventories /\ InvFits(inv)
  BY DEF CtxInv
<1>2. /\ order \in Seq(C!Device)
      /\ \A i \in 1..Len(order) : \E j \in 1..Len(devices) : order[i] = devices[j]
  BY <1>1, OrderIs
<1>3. \A i \in 1..Len(order) : Fits(order[i])
  BY <1>1, <1>2 DEF Apart
<1> QED BY <1>1, <1>2, <1>3, TargetIs

\* What runs, and the registrations.
LEMMA RunningIs == CtxInv => C!Running \in Worlds
BY DEF CtxInv, World, C!Running, Worlds

\* A teardown to the end.
LEMMA TeardownEnds ==
    ASSUME Assumed, CtxInv, NEW hosts \in SUBSET C!Id, NEW order,
           order = C!Order(C!Keys(inv, hosts)), NEW early, NEW stays
    PROVE  Teardown(hosts, order, stays,
               IF order # <<>> THEN C!TornAll(order, early, stays) ELSE C!EmptiedAll(C!SetToSeq(hosts)))
<1>1. order \in Seq(C!Device) /\ \A i \in 1..Len(order) : Placed(order[i])
  BY OrderFits
<1>2. C!Running \in Worlds /\ inv \in Inventories /\ InvFits(inv)
  BY RunningIs DEF CtxInv
<1>3. CASE order # <<>>
  <2>1. Teardown(hosts, order, stays, C!TornAll(order, early, stays))
    BY <1>1, <1>2, TornAllAre DEF Teardown, Lessened
  <2> QED BY <1>3, <2>1
<1>4. CASE order = <<>>
  <2>1. PICK hs : hs = C!SetToSeq(hosts)
    OBVIOUS
  <2>2. hs \in Seq(hosts)
    BY <2>1, SetToSeqIs
  <2>3. hs \in Seq(C!Id) /\ \A i \in 1..Len(hs) : hs[i] \in hosts
    BY <2>2
  <2>4. PICK w : w = C!EmptiedAll(hs)
    OBVIOUS
  <2>5. /\ w \in Worlds
        /\ \A o \in Ip : w.runs[o] \subseteq runs[o]
        /\ \A o \in Ip : (\A i \in 1..Len(hs) : ~Belongs(hs[i], o))
             => Roles(w, o) = runs[o] \cap {"cp", "lab"}
    BY <1>2, <2>3, <2>4, EmptiedAllAre
  <2>6. Teardown(hosts, order, stays, w)
    BY <1>4, <2>3, <2>5 DEF Teardown, Lessened
  <2> QED BY <1>4, <2>1, <2>4, <2>6
<1> QED BY <1>3, <1>4

\* Less still, of what a teardown is about.
LEMMA LessenedOn ==
    ASSUME NEW hosts, NEW order, NEW w, NEW v, NEW m \in Ip, Lessened(hosts, order, w), Touches(w, v, m),
           (\E h \in hosts : Belongs(h, m)) \/ \E i \in 1..Len(order) : order[i].ip = m
    PROVE  Lessened(hosts, order, v)
BY DEF Lessened, Touches

\* A teardown of a device that fails on the way.
LEMMA DeviceFails ==
    ASSUME Assumed, CtxInv, NEW hosts \in SUBSET C!Id, NEW order, order = C!Order(C!Keys(inv, hosts)),
           NEW early, NEW stays, NEW k \in 0..Len(order) - 1, NEW w, NEW e,
           w = C!TornAll(SubSeq(order, 1, k), early, stays), e = order[k + 1]
    PROVE  /\ Lessened(hosts, order, w) /\ Lessened(hosts, order, C!Unhosted(w, e, stays))
           /\ Lessened(hosts, order, C!Begun(w, e, early, stays))
           /\ Lessened(hosts, order, C!Emptied(w, e, early, stays))
<1>1. order \in Seq(C!Device) /\ \A i \in 1..Len(order) : Placed(order[i])
  BY OrderFits
<1>2. C!Running \in Worlds
  BY RunningIs
<1>3. PICK part : part = SubSeq(order, 1, k)
  OBVIOUS
<1>4. Len(order) \in Nat /\ k + 1 \in 1..Len(order) /\ k \in Nat
  BY <1>1
<1>5. part \in Seq(C!Device) /\ Len(part) = k /\ \A i \in 1..k : part[i] = order[i] /\ i \in 1..Len(order)
  BY <1>1, <1>3, <1>4, SubSeqProperties
<1>6. \A i \in 1..Len(part) : Placed(part[i])
  BY <1>1, <1>5
<1>7. /\ w \in Worlds
      /\ \A o \in Ip : w.runs[o] \subseteq runs[o]
      /\ \A o \in Ip : (\A i \in 1..Len(part) : part[i].ip # o)
           => Roles(w, o) = runs[o] \cap {"cp", "lab"}
  <2>1. w = C!TornAll(part, early, stays)
    BY <1>3
  <2> HIDE DEF C!TornAll, Worlds, Roles, C!Running
  <2> QED BY <1>2, <1>5, <1>6, <2>1, TornAllAre
<1>8. Lessened(hosts, order, w)
  BY <1>5, <1>7 DEF Lessened
<1>9. Placed(e) /\ e.ip \in Ip /\ \E i \in 1..Len(order) : order[i].ip = e.ip
  BY <1>1, <1>4, CalledIs DEF Placed
<1>10. /\ Touches(w, C!Unhosted(w, e, stays), e.ip)
       /\ Touches(w, C!Begun(w, e, early, stays), e.ip)
       /\ Touches(w, C!Emptied(w, e, early, stays), e.ip)
  BY <1>7, <1>9, UnhostedIs, BegunIs, EmptiedIs
<1> QED BY <1>8, <1>9, <1>10, LessenedOn

\* A teardown of a host without a device that fails on the way.
LEMMA HostFails ==
    ASSUME Assumed, CtxInv, NEW hosts \in SUBSET C!Id, NEW stays,
           NEW done \in SUBSET hosts, NEW h \in hosts, NEW w, w = C!EmptiedAll(C!SetToSeq(done))
    PROVE  /\ Lessened(hosts, <<>>, w)
           /\ Lessened(hosts, <<>>, C!Removed(w, C!Where(h), C!Part, stays))
<1>1. C!Running \in Worlds /\ inv \in Inventories /\ InvFits(inv)
  BY RunningIs DEF CtxInv
<1>2. PICK hs : hs = C!SetToSeq(done)
  OBVIOUS
<1>3. hs \in Seq(done)
  BY <1>2, SetToSeqIs
<1>4. hs \in Seq(C!Id) /\ \A i \in 1..Len(hs) : hs[i] \in hosts
  BY <1>3
<1>5. /\ w \in Worlds
      /\ \A o \in Ip : w.runs[o] \subseteq runs[o]
      /\ \A o \in Ip : (\A i \in 1..Len(hs) : ~Belongs(hs[i], o))
           => Roles(w, o) = runs[o] \cap {"cp", "lab"}
  BY <1>1, <1>2, <1>4, EmptiedAllAre
<1>6. Lessened(hosts, <<>>, w)
  BY <1>4, <1>5 DEF Lessened
<1>7. PICK v : v = C!Removed(w, C!Where(h), C!Part, stays)
  OBVIOUS
<1>8. v = w \/ \E m \in Ip : Belongs(h, m) /\ Touches(w, v, m)
  BY <1>1, <1>5, <1>7, HostEmptiedIs
<1>9. Lessened(hosts, <<>>, v)
  BY <1>6, <1>8, LessenedOn
<1> QED BY <1>6, <1>7, <1>9

\* A teardown that fails on the way.
LEMMA TeardownFails ==
    ASSUME Assumed, CtxInv, NEW hosts \in SUBSET C!Id, NEW order, order = C!Order(C!Keys(inv, hosts)),
           NEW early, NEW stays, C!DestroyFails(hosts, order, early, stays)
    PROVE  /\ \E w : C!Become(w) /\ Lessened(hosts, order, w)
           /\ UNCHANGED <<inv, devices, type, made, letGo>>
<1>1. UNCHANGED <<inv, devices, type, made, letGo>>
  BY DEF C!DestroyFails, C!context
<1>2. \/ \E n \in 0..Len(order) - 1 :
            LET w == C!TornAll(SubSeq(order, 1, n), early, stays)
                e == order[n + 1] IN
            \/ C!Become(w)
            \/ C!Become(C!Unhosted(w, e, stays))
            \/ C!Become(C!Begun(w, e, early, stays))
            \/ C!Become(C!Emptied(w, e, early, stays))
      \/ /\ order = <<>>
         /\ \E done \in SUBSET hosts : \E h \in hosts \ done :
             LET w == C!EmptiedAll(C!SetToSeq(done)) IN
             C!Become(w) \/ C!Become(C!Removed(w, C!Where(h), C!Part, stays))
  BY DEF C!DestroyFails
<1>3. CASE \E n \in 0..Len(order) - 1 :
            LET w == C!TornAll(SubSeq(order, 1, n), early, stays)
                e == order[n + 1] IN
            \/ C!Become(w)
            \/ C!Become(C!Unhosted(w, e, stays))
            \/ C!Become(C!Begun(w, e, early, stays))
            \/ C!Become(C!Emptied(w, e, early, stays))
  <2>0. PICK n \in 0..Len(order) - 1 :
            LET w == C!TornAll(SubSeq(order, 1, n), early, stays)
                e == order[n + 1] IN
            \/ C!Become(w)
            \/ C!Become(C!Unhosted(w, e, stays))
            \/ C!Become(C!Begun(w, e, early, stays))
            \/ C!Become(C!Emptied(w, e, early, stays))
    BY <1>3
  <2>1. PICK w, e :
            /\ w = C!TornAll(SubSeq(order, 1, n), early, stays) /\ e = order[n + 1]
            /\ \/ C!Become(w)
               \/ C!Become(C!Unhosted(w, e, stays))
               \/ C!Become(C!Begun(w, e, early, stays))
               \/ C!Become(C!Emptied(w, e, early, stays))
    BY <2>0
  <2>2. /\ Lessened(hosts, order, w) /\ Lessened(hosts, order, C!Unhosted(w, e, stays))
        /\ Lessened(hosts, order, C!Begun(w, e, early, stays))
        /\ Lessened(hosts, order, C!Emptied(w, e, early, stays))
    BY <2>1, DeviceFails
  <2> QED BY <1>1, <2>1, <2>2
<1>4. CASE /\ order = <<>>
           /\ \E done \in SUBSET hosts : \E h \in hosts \ done :
               LET w == C!EmptiedAll(C!SetToSeq(done)) IN
               C!Become(w) \/ C!Become(C!Removed(w, C!Where(h), C!Part, stays))
  <2>0. PICK done \in SUBSET hosts, h \in hosts :
            LET w == C!EmptiedAll(C!SetToSeq(done)) IN
            C!Become(w) \/ C!Become(C!Removed(w, C!Where(h), C!Part, stays))
    BY <1>4
  <2>1. PICK w :
            /\ w = C!EmptiedAll(C!SetToSeq(done))
            /\ C!Become(w) \/ C!Become(C!Removed(w, C!Where(h), C!Part, stays))
    BY <2>0
  <2>2. /\ Lessened(hosts, order, w)
        /\ Lessened(hosts, order, C!Removed(w, C!Where(h), C!Part, stays))
    BY <1>4, <2>1, HostFails
  <2> QED BY <1>1, <2>1, <2>2
<1> QED BY <1>2, <1>3, <1>4

\* What a teardown leaves of the machines is with their devices, or let go.
LEMMA ForgottenKept ==
    ASSUME Assumed, CtxInv, clean, NEW hosts \in SUBSET C!Id, NEW order,
           order = C!Order(C!Keys(inv, hosts)), NEW stays, NEW w, Teardown(hosts, order, stays, w),
           NEW free, letGo \subseteq free, \A m \in Ip \ free : stays[m] = {}, NEW es,
           \A j \in 1..Len(devices) : C!Identifiers(devices[j]) \cap C!Expand(inv, hosts) = {} =>
                \E i \in 1..Len(es) : es[i] = devices[j]
    PROVE  Kept(w.runs, es, C!Loaded(w, free))
<1>1. /\ devices \in Apart /\ inv \in Inventories /\ InvFits(inv)
      /\ AllListed(inv, devices) /\ Kept(runs, devices, letGo)
  BY DEF CtxInv
<1>2. \A j \in 1..Len(devices) : C!Identifiers(devices[j]) \cap C!Expand(inv, hosts) # {} =>
        \E i \in 1..Len(order) : order[i] = devices[j]
  BY <1>1, OrderIs
<1>3. ASSUME NEW j \in 1..Len(devices), devices[j].cp # None \/ devices[j].lab # None
      PROVE  C!Where(C!TargetHost(devices[j])) = devices[j].ip
  <2> DEFINE e == devices[j]
             h == C!TargetHost(e)
  <2>1. Fits(e)
    BY <1>1 DEF Apart
  <2>2. /\ e.ip \in Ip
        /\ e.cp # None => e.cp.target \in C!Id
        /\ e.lab # None => e.lab.target \in C!Id
    BY <2>1, CalledIs
  <2>3. ListedIn(inv, e.cp) /\ ListedIn(inv, e.lab)
    BY <1>1 DEF AllListed
  <2>4. h = IF e.cp # None THEN e.cp.target ELSE e.lab.target
    BY <1>3 DEF C!TargetHost
  <2>5. h \in C!Id
    BY <1>3, <2>2, <2>4
  <2>6. C!Listed(h)
    BY <1>3, <2>3, <2>4 DEF ListedIn, C!Listed
  <2>7. C!Where(h) # None
    BY <1>1, <2>5, <2>6, WhereIs
  <2>8. Placed(e)
    BY <1>1, <2>1, TargetIs
  <2> QED BY <2>7, <2>8 DEF Placed
<1>4. ASSUME NEW m \in Ip \ C!Loaded(w, free), NEW r \in {"cp", "lab"}, r \in w.runs[m]
      PROVE  \E i \in 1..Len(es) : es[i].ip = m /\ es[i][r] # None
  <2>1. m \notin letGo /\ stays[m] = {}
    BY <1>4 DEF C!Loaded
  <2>2. r \in runs[m]
    BY <1>4 DEF Teardown, Lessened
  <2>3. PICK j \in 1..Len(devices) : devices[j].ip = m /\ devices[j][r] # None
    BY <1>1, <2>1, <2>2 DEF Kept
  <2>4. C!Where(C!TargetHost(devices[j])) = devices[j].ip
    BY <1>3, <2>3
  <2>5. C!Identifiers(devices[j]) \cap C!Expand(inv, hosts) = {}
    <3> SUFFICES ASSUME C!Identifiers(devices[j]) \cap C!Expand(inv, hosts) # {} PROVE FALSE
      OBVIOUS
    <3>1. PICK i \in 1..Len(order) : order[i] = devices[j]
      BY <1>2
    <3>2. Gone(w, devices[j], stays)
      BY <3>1 DEF Teardown
    <3> QED BY <1>4, <2>1, <2>3, <2>4, <3>2 DEF Gone
  <2> QED BY <2>3, <2>5
<1>5. ASSUME NEW m \in Ip \ C!Loaded(w, free)
      PROVE  /\ "cp" \in w.runs[m] => \E i \in 1..Len(es) : es[i].ip = m /\ es[i].cp # None
             /\ "lab" \in w.runs[m] => \E i \in 1..Len(es) : es[i].ip = m /\ es[i].lab # None
  <2>1. /\ "cp" \in w.runs[m] => \E i \in 1..Len(es) : es[i].ip = m /\ es[i]["cp"] # None
        /\ "lab" \in w.runs[m] => \E i \in 1..Len(es) : es[i].ip = m /\ es[i]["lab"] # None
    BY <1>4
  <2> QED BY <2>1
<1> QED BY <1>5 DEF Kept

\* A destruction that fails on the way keeps all but what runs.
LEMMA DestroyFailsKeeps ==
    ASSUME Assumed, CtxInv, NEW hosts \in SUBSET C!Id, NEW order,
           order = C!Order(C!Keys(inv, hosts)), NEW early, NEW stays,
           C!DestroyFails(hosts, order, early, stays),
           Rest', UNCHANGED <<means, clean>>
    PROVE  CtxInv'
<1>1. PICK w \in Worlds : C!Become(w) /\ \A o \in Ip : w.runs[o] \subseteq runs[o]
  BY TeardownFails DEF Lessened
<1>2. UNCHANGED <<inv, devices, type, made, letGo>>
  BY TeardownFails
<1>3. /\ runs' = w.runs /\ runs' \in [Ip -> SUBSET Parts] /\ reg' \in [Ip -> SUBSET Ip]
      /\ \A m \in Ip : "cp" \notin runs'[m] => reg'[m] = {}
  BY <1>1, BecomeIs
<1>4. World'
  BY <1>2, <1>3 DEF CtxInv, World
<1>5. Kept(runs, devices, letGo) => Kept(w.runs, devices, letGo)
  BY <1>1 DEF Kept
<1>6. MeansFit'
  BY DEF CtxInv, MeansFit
<1> QED BY <1>2, <1>3, <1>4, <1>5, <1>6 DEF CtxInv

\* A destruction to the end, or to where Terraform fails: what is torn down is
\* forgotten, or the context is cleared.
LEMMA DestroyEndsKeeps ==
    ASSUME Assumed, CtxInv, NEW hosts \in SUBSET C!Id, NEW order,
           order = C!Order(C!Keys(inv, hosts)), NEW early, NEW stays,
           C!DestroyEnds(hosts, order, early, stays),
           count' \in 0..MaxCommands, UNCHANGED <<means, clean>>,
           last' \in [op : {"other", "destroy", "all"}, on : SUBSET Ip]
    PROVE  CtxInv'
<1>1. PICK torn, cloud, after, left :
        /\ torn = IF order # <<>> THEN C!TornAll(order, early, stays)
                  ELSE C!EmptiedAll(C!SetToSeq(hosts))
        /\ left = letGo \cup {m \in Ip : stays[m] # {}}
        /\ cloud = (type \notin {"local", "lan"})
        /\ after = IF cloud THEN [torn EXCEPT !.runs = [m \in Ip |-> IF m \in made THEN {} ELSE @[m]]]
                   ELSE torn
  OBVIOUS
<1>2. \/ /\ C!Become(after) /\ made' = IF cloud THEN {} ELSE made
         /\ IF \E i \in DOMAIN order : order[i].cp # None
            THEN /\ inv' = C!NoInv /\ devices' = <<>> /\ type' = None
                 /\ letGo' = C!Loaded(after, Ip)
            ELSE /\ C!Forget(hosts) /\ UNCHANGED type
                 /\ letGo' = C!Loaded(after, left)
      \/ /\ C!Become(torn) /\ C!Forget(hosts) /\ letGo' = C!Loaded(torn, left)
         /\ UNCHANGED <<type, made>>
  BY <1>1 DEF C!DestroyEnds
<1>3. Teardown(hosts, order, stays, torn)
  BY <1>1, TeardownEnds
<1>14. letGo \subseteq left /\ left \subseteq Ip /\ \A m \in Ip \ left : stays[m] = {}
  BY <1>1 DEF CtxInv, Rest
<1>4. torn \in Worlds
  BY <1>3 DEF Teardown, Lessened
<1> DEFINE spared == [m \in Ip |-> IF m \in made THEN {} ELSE torn.runs[m]]
<1>5. after \in Worlds /\ (made = {} => after = torn)
  <2>1. torn.runs \in [Ip -> SUBSET Parts] /\ torn.reg \in [Ip -> SUBSET Ip]
    BY <1>4 DEF Worlds
  <2>2. spared \in [Ip -> SUBSET Parts] /\ (made = {} => spared = torn.runs)
    BY <2>1
  <2>3. after = IF cloud THEN [torn EXCEPT !.runs = spared] ELSE torn
    BY <1>1
  <2> HIDE DEF spared
  <2> QED BY <1>4, <2>2, <2>3 DEF Worlds
<1>6. clean => after = torn
  BY <1>5 DEF CtxInv
<1>7. MeansFit'
  BY DEF CtxInv, MeansFit
<1>8. inv \in Inventories /\ InvFits(inv) /\ devices \in Apart /\ letGo \subseteq Ip /\ made \subseteq Ip
  BY DEF CtxInv, World, Rest
<1>9. PICK jv, es, free : jv = inv' /\ es = devices' /\ free = letGo'
  OBVIOUS
<1>10. CASE /\ C!Become(after) /\ made' \in {{}, made}
            /\ jv = C!NoInv /\ es = <<>> /\ type' = None
            /\ free = C!Loaded(after, Ip)
  <2>1. /\ runs' = after.runs /\ runs' \in [Ip -> SUBSET Parts] /\ reg' \in [Ip -> SUBSET Ip]
        /\ \A m \in Ip : "cp" \notin runs'[m] => reg'[m] = {}
    BY <1>5, <1>10, BecomeIs
  <2>2. World'
    BY <1>8, <1>10, <2>1 DEF World
  <2>3. free \subseteq Ip
    BY <1>10 DEF C!Loaded
  <2>4. Rest'
    BY <1>9, <1>10, <2>3 DEF CtxInv, Rest
  <2>5. jv \in Inventories /\ InvFits(jv)
    BY <1>10 DEF C!NoInv, Inventories, InvFits
  <2>6. es \in Apart /\ Len(es) = 0
    BY <1>10 DEF Apart
  <2>7. AllListed(jv, es)
    BY <2>6 DEF AllListed
  <2>8. Kept(after.runs, es, free)
    BY <1>10 DEF Kept, C!Loaded
  <2>9. clean => made' = {}
    BY <1>10 DEF CtxInv
  <2> QED BY <1>7, <1>9, <2>1, <2>2, <2>4, <2>5, <2>6, <2>7, <2>8, <2>9 DEF CtxInv
<1>11. ASSUME NEW w \in Worlds, clean => w = torn, C!Become(w), made' \in {{}, made}, C!Forget(hosts),
              type' = type, free = C!Loaded(w, left)
       PROVE  CtxInv'
  <2>1. /\ runs' = w.runs /\ runs' \in [Ip -> SUBSET Parts] /\ reg' \in [Ip -> SUBSET Ip]
        /\ \A m \in Ip : "cp" \notin runs'[m] => reg'[m] = {}
    BY <1>11, BecomeIs
  <2>2. World'
    BY <1>8, <1>11, <2>1 DEF World
  <2>3. free \subseteq Ip
    BY <1>14, <1>11 DEF C!Loaded
  <2>4. Rest'
    BY <1>9, <1>11, <2>3 DEF CtxInv, Rest
  <2>5. jv = C!Prune(inv, hosts) /\ es = C!Without(C!Keys(jv, hosts))
    BY <1>9, <1>11 DEF C!Forget
  <2>6. /\ jv \in Inventories /\ InvFits(jv) /\ es \in Apart
        /\ AllListed(inv, devices) => AllListed(jv, es)
        /\ \A j \in 1..Len(devices) : C!Identifiers(devices[j]) \cap C!Expand(inv, hosts) = {} =>
                \E i \in 1..Len(es) : es[i] = devices[j]
    BY <1>8, <2>5, ForgetIs
  <2>7. clean => Kept(w.runs, es, free)
    <3> SUFFICES ASSUME clean PROVE Kept(torn.runs, es, C!Loaded(torn, left))
      BY <1>11
    <3> QED BY <1>3, <1>14, <2>6, ForgottenKept
  <2>8. clean => made' = {} /\ AllListed(jv, es)
    BY <1>11, <2>6 DEF CtxInv
  <2> QED BY <1>7, <1>9, <2>1, <2>2, <2>4, <2>6, <2>7, <2>8 DEF CtxInv
<1>12. CASE /\ C!Become(after) /\ made' \in {{}, made}
            /\ C!Forget(hosts) /\ type' = type /\ free = C!Loaded(after, left)
  BY <1>5, <1>6, <1>11, <1>12
<1>13. CASE /\ C!Become(torn) /\ C!Forget(hosts) /\ free = C!Loaded(torn, left)
            /\ UNCHANGED <<type, made>>
  BY <1>4, <1>11, <1>13
<1> QED BY <1>2, <1>9, <1>10, <1>12, <1>13

LEMMA DestroyKeeps ==
    ASSUME Assumed, CtxInv, NEW d \in C!Id, C!Destroy(d)
    PROVE  CtxInv'
<1>1. PICK hosts \in C!Targets(d), early \in SUBSET C!Working, stays \in C!Refusals :
        /\ C!Counted
        /\ \/ C!DestroyFails(hosts, C!Order(C!Keys(inv, hosts)), early, stays)
           \/ C!DestroyEnds(hosts, C!Order(C!Keys(inv, hosts)), early, stays)
        /\ last' = [op |-> "destroy", on |-> C!Asked(d)]
        /\ UNCHANGED <<means, clean>>
  BY DEF C!Destroy
<1>2. PICK order : order = C!Order(C!Keys(inv, hosts))
  OBVIOUS
<1>3. hosts \in SUBSET C!Id
  BY TargetsAre DEF CtxInv
<1>4. C!Asked(d) \subseteq Ip
  BY DEF C!Asked
<1>5. last' \in [op : {"other", "destroy", "all"}, on : SUBSET Ip]
  BY <1>1, <1>4
<1>6. count' \in 0..MaxCommands
  BY <1>1, CountedIs DEF CtxInv, Rest
<1>7. CASE C!DestroyFails(hosts, order, early, stays)
  <2>1. UNCHANGED <<type, letGo>>
    BY <1>2, <1>3, <1>7, TeardownFails
  <2>2. Rest'
    BY <1>1, <1>5, <1>6, <2>1 DEF CtxInv, Rest
  <2> QED BY <1>1, <1>2, <1>3, <1>7, <2>2, DestroyFailsKeeps
<1>8. CASE C!DestroyEnds(hosts, order, early, stays)
  BY <1>1, <1>2, <1>3, <1>5, <1>6, <1>8, DestroyEndsKeeps
<1> QED BY <1>1, <1>2, <1>7, <1>8

\* The hosts of the context are hosts.
LEMMA ContextHostsAre ==
    ASSUME Assumed, CtxInv
    PROVE  C!ContextHosts \in SUBSET C!Id
<1>1. /\ DOMAIN devices = 1..Len(devices) /\ \A i \in 1..Len(devices) : Fits(devices[i])
  BY DEF CtxInv, Apart
<1>2. \A i \in 1..Len(devices) : C!Identifiers(devices[i]) \in SUBSET C!Id
  BY <1>1, CalledIs
<1> QED BY <1>1, <1>2 DEF C!ContextHosts, C!Range

LEMMA DestroyAllKeeps ==
    ASSUME Assumed, CtxInv, C!DestroyAll
    PROVE  CtxInv'
<1>1. PICK hosts, order, cps :
        /\ hosts = C!ContextHosts /\ order = C!Order(C!Keys(inv, hosts))
        /\ cps = {e.cp.at : e \in {x \in C!Range(devices) : x.cp # None}}
  OBVIOUS
<1>2. PICK early \in SUBSET C!Working, stays \in C!Refusals :
        /\ C!Counted
        /\ \/ C!DestroyFails(hosts, order, early, stays) /\ last' = C!Quiet
           \/ /\ C!DestroyEnds(hosts, order, early, stays)
              /\ last' = [op |-> "all", on |-> UNION {reg[c] : c \in cps}]
        /\ UNCHANGED <<means, clean>>
  BY <1>1 DEF C!DestroyAll
<1>3. hosts \in SUBSET C!Id
  BY <1>1, ContextHostsAre
<1>4. count' \in 0..MaxCommands
  BY <1>2, CountedIs DEF CtxInv, Rest
<1>5. \A c \in cps : c \in Ip
  <2>1. /\ DOMAIN devices = 1..Len(devices) /\ \A i \in 1..Len(devices) : Fits(devices[i])
    BY DEF CtxInv, Apart
  <2>2. \A i \in 1..Len(devices) : devices[i].cp # None => devices[i].cp.at \in Ip
    BY <2>1, CalledIs
  <2> QED BY <1>1, <2>1, <2>2 DEF C!Range
<1>6. UNION {reg[c] : c \in cps} \subseteq Ip
  BY <1>5 DEF CtxInv, World
<1>7. CASE C!DestroyFails(hosts, order, early, stays) /\ last' = C!Quiet
  <2>1. UNCHANGED <<type, letGo>>
    BY <1>1, <1>3, <1>7, TeardownFails
  <2>2. Rest'
    BY <1>2, <1>4, <1>7, <2>1 DEF CtxInv, Rest, C!Quiet
  <2> QED BY <1>1, <1>2, <1>3, <1>7, <2>2, DestroyFailsKeeps
<1>8. CASE /\ C!DestroyEnds(hosts, order, early, stays)
           /\ last' = [op |-> "all", on |-> UNION {reg[c] : c \in cps}]
  <2>1. last' \in [op : {"other", "destroy", "all"}, on : SUBSET Ip]
    BY <1>6, <1>8
  <2> QED BY <1>1, <1>2, <1>3, <1>4, <1>8, <2>1, DestroyEndsKeeps
<1> QED BY <1>2, <1>7, <1>8

LEMMA RemoveHostsKeeps ==
    ASSUME Assumed, CtxInv, NEW hosts \in SUBSET C!Id, NEW ms \in SUBSET Ip, C!RemoveHosts(hosts, ms),
           \A i \in 1..Len(devices) :
                C!Identifiers(devices[i]) \cap C!Expand(C!Prune(inv, hosts), hosts) # {} =>
                    devices[i].ip \in ms
    PROVE  CtxInv'
<1>1. PICK jv, es, free : jv = inv' /\ es = devices' /\ free = letGo'
  OBVIOUS
<1>2. inv \in Inventories /\ InvFits(inv) /\ devices \in Apart /\ letGo \subseteq Ip
  BY DEF CtxInv, Rest
<1>3. jv = C!Prune(inv, hosts) /\ es = C!Without(C!Keys(jv, hosts))
  BY <1>1 DEF C!RemoveHosts, C!Forget
<1>4. free = letGo \cup {m \in ms : runs[m] \cap {"cp", "lab"} # {}}
  BY <1>1 DEF C!RemoveHosts, C!Loaded, C!Running
<1>5. /\ jv \in Inventories /\ InvFits(jv) /\ es \in Apart
      /\ AllListed(inv, devices) => AllListed(jv, es)
      /\ \A j \in 1..Len(devices) : C!Identifiers(devices[j]) \cap C!Expand(jv, hosts) = {} =>
           \E i \in 1..Len(es) : es[i] = devices[j]
  BY <1>2, <1>3, ForgetIs
<1>6. ASSUME Kept(runs, devices, letGo) PROVE Kept(runs, es, free)
  <2>1. ASSUME NEW m \in Ip \ free, NEW r \in {"cp", "lab"}, r \in runs[m]
        PROVE  \E i \in 1..Len(es) : es[i].ip = m /\ es[i][r] # None
    <3>1. m \notin letGo /\ m \notin ms
      BY <1>4, <2>1
    <3>2. PICK j \in 1..Len(devices) : devices[j].ip = m /\ devices[j][r] # None
      BY <1>6, <2>1, <3>1 DEF Kept
    <3>3. C!Identifiers(devices[j]) \cap C!Expand(jv, hosts) = {}
      BY <1>3, <3>1, <3>2
    <3> QED BY <1>5, <3>2, <3>3
  <2>2. ASSUME NEW m \in Ip \ free
        PROVE  /\ "cp" \in runs[m] => \E i \in 1..Len(es) : es[i].ip = m /\ es[i].cp # None
               /\ "lab" \in runs[m] => \E i \in 1..Len(es) : es[i].ip = m /\ es[i].lab # None
    <3>1. /\ "cp" \in runs[m] => \E i \in 1..Len(es) : es[i].ip = m /\ es[i]["cp"] # None
          /\ "lab" \in runs[m] => \E i \in 1..Len(es) : es[i].ip = m /\ es[i]["lab"] # None
      BY <2>1
    <3> QED BY <3>1
  <2> QED BY <2>2 DEF Kept
<1>7. UNCHANGED <<type, runs, reg, made, means, clean>> /\ C!Counted /\ last' = C!Quiet
  BY DEF C!RemoveHosts, C!world
<1>8. Rest'
  <2>1. count' \in 0..MaxCommands
    BY <1>7, CountedIs DEF CtxInv, Rest
  <2> QED BY <1>1, <1>2, <1>4, <1>7, <2>1 DEF CtxInv, Rest, C!Quiet
<1>9. World' /\ MeansFit'
  BY <1>7 DEF CtxInv, World, MeansFit
<1> QED BY <1>1, <1>5, <1>6, <1>7, <1>8, <1>9 DEF CtxInv

LEMMA RemoveDeviceKeeps ==
    ASSUME Assumed, CtxInv, NEW d \in C!Id, C!RemoveDevice(d)
    PROVE  CtxInv'
<1>1. PICK hosts \in C!Targets(d) : C!RemoveHosts(hosts, C!Asked(d))
  BY DEF C!RemoveDevice
<1>2. inv \in Inventories /\ InvFits(inv) /\ devices \in Apart /\ MeansFit
  BY DEF CtxInv
<1>3. hosts \in SUBSET C!Id /\ \A h \in hosts : Within(h, C!Asked(d))
  BY <1>2, TargetsAre
<1>4. C!Asked(d) \in SUBSET Ip /\ C!Together(C!Asked(d))
  BY <1>2, AskedIs
<1>5. PICK jv : jv = C!Prune(inv, hosts)
  OBVIOUS
<1>6. jv \in Inventories /\ InvFits(jv)
  BY <1>2, <1>3, <1>5, PruneIs
<1>7. \A i \in 1..Len(devices) :
        C!Identifiers(devices[i]) \cap C!Expand(jv, hosts) # {} => devices[i].ip \in C!Asked(d)
  BY <1>2, <1>3, <1>4, <1>6, MetIs
<1> QED BY <1>1, <1>3, <1>4, <1>5, <1>7, RemoveHostsKeeps

LEMMA RemoveAllKeeps ==
    ASSUME Assumed, CtxInv, C!RemoveAll
    PROVE  CtxInv'
<1>1. /\ devices \in Apart /\ DOMAIN devices = 1..Len(devices)
      /\ \A i \in 1..Len(devices) : Fits(devices[i])
  BY DEF CtxInv, Apart
<1>2. PICK ms : ms = {e.ip : e \in C!Range(devices)}
  OBVIOUS
<1>3. \A i \in 1..Len(devices) : devices[i].ip \in ms /\ devices[i].ip \in Ip
  BY <1>1, <1>2, CalledIs DEF C!Range
<1>4. ms \in SUBSET Ip
  BY <1>1, <1>2, <1>3 DEF C!Range
<1>5. C!RemoveHosts(C!ContextHosts, ms)
  BY <1>2 DEF C!RemoveAll
<1> QED BY <1>3, <1>4, <1>5, ContextHostsAre, RemoveHostsKeeps

-----------------------------------------------------------------------------
(* What the commands find at first.                                         *)

\* What an earlier version kept of a machine and what it runs.
Entries == {l \in [role : {"cp", "lab"}, target : C!Id, at : Ip] : Belongs(l.target, l.at)}

LEMMA LegacyIs ==
    ASSUME Assumed, NEW old \in C!Legacy
    PROVE  old \in Seq(Entries)
<1>1. CASE old = <<>>
  BY <1>1
<1>2. CASE old # <<>>
  <2> DEFINE entry(role) == {[role |-> role, target |-> t, at |-> m] : m \in Ip, t \in C!Id}
             Fine(l) == l.target = l.at \/ (l.target \in CliName /\ Given[l.target] = {l.at})
  <2>1. PICK c \in {e \in entry("cp") : Fine(e)}, b \in {e \in entry("lab") : Fine(e)} : old = <<c, b>>
    BY <1>2 DEF C!Legacy
  <2>2. c \in Entries /\ b \in Entries
    BY DEF Entries, Belongs
  <2> QED BY <2>1, <2>2
<1> QED BY <1>1, <1>2

\* A machine becomes a device with a role, or the device it is gets one.
LEMMA MigrateOneIs ==
    ASSUME Assumed, NEW ds \in Apart, NEW l \in Entries, NEW to, NEW es,
           to = [host |-> l.target, at |-> l.at], es = C!MigrateOne(ds, l)
    PROVE  es \in Apart /\ GotRole(ds, to, l.role, es)
<1> DEFINE Keyed == {i \in 1..Len(ds) : ds[i].key = l.at}
           new == [target |-> l.target, at |-> l.at, also |-> {}]
           bare(name) == [key |-> l.at, ip |-> l.at, name |-> name, cp |-> None, lab |-> None]
<1>1. /\ ds \in Seq(C!Device) /\ Len(ds) \in Nat /\ DOMAIN ds = 1..Len(ds)
      /\ \A i \in 1..Len(ds) : Fits(ds[i]) /\ ds[i] \in C!Device
      /\ \A i, j \in 1..Len(ds) : ds[i].ip = ds[j].ip => i = j
  BY DEF Apart, Fits
<1>2. /\ l.role \in {"cp", "lab"} /\ l.target \in C!Id /\ l.at \in Ip /\ Belongs(l.target, l.at)
      /\ to.host = l.target /\ to.at = l.at
  BY DEF Entries
<1>3. PICK name \in CliName \cup {None} : name = IF l.target \in Ip THEN None ELSE l.target
  BY <1>2 DEF C!Id
<1>4. name # None => Belongs(name, l.at)
  BY <1>2, <1>3
<1>5. PICK k : k = C!SelectInSeq(ds, LAMBDA e : e.key = l.at)
  OBVIOUS
<1>6. k = IF Keyed = {} THEN 0 ELSE C!Min(Keyed)
  BY <1>1, <1>5 DEF C!SelectInSeq
<1>7. IF k = 0 THEN \A i \in 1..Len(ds) : ds[i].key # l.at ELSE k \in 1..Len(ds) /\ ds[k].key = l.at
  <2>1. CASE Keyed = {}
    BY <1>6, <2>1
  <2>2. CASE Keyed # {}
    <3>1. C!Min(Keyed) \in Keyed
      BY <1>1, <2>2, MinIs
    <3> QED BY <1>1, <1>6, <2>2, <3>1
  <2> QED BY <2>1, <2>2
<1>8. PICK e : e = IF k = 0 THEN bare(name)
                   ELSE [ds[k] EXCEPT !.name = IF name # None THEN name ELSE @]
  OBVIOUS
<1>9. PICK f : f = [e EXCEPT ![l.role] = new]
  OBVIOUS
<1>10. es = IF k = 0 THEN Append(ds, f) ELSE [ds EXCEPT ![k] = f]
  BY <1>3, <1>5, <1>8, <1>9 DEF C!MigrateOne
<1>11. e \in C!Device /\ Fits(e) /\ e.ip = l.at
  <2>1. CASE k = 0
    BY <1>2, <1>4, <1>8, <2>1 DEF C!Device, C!Role, Fits, RoleFits
  <2>2. CASE k # 0
    BY <1>1, <1>4, <1>7, <1>8, <2>2 DEF C!Device, Fits
  <2> QED BY <2>1, <2>2
<1>12. new # None /\ new \in C!Role /\ new.target = to.host /\ new.also = {} /\ RoleFits(new, l.at)
  <2>1. new \in [target : C!Id, at : Ip, also : SUBSET C!Id]
    BY <1>2
  <2>2. new # None
    BY <2>1 DEF Assumed, C!NameAssumption
  <2> QED BY <1>2, <2>1, <2>2 DEF C!Role, RoleFits
<1> HIDE DEF new, bare, Keyed
<1>13. /\ f \in C!Device /\ f.key = e.key /\ f.ip = e.ip /\ f.name = e.name
       /\ \A r \in {"cp", "lab"} : f[r] = IF r = l.role THEN new ELSE e[r]
  BY <1>2, <1>9, <1>11, <1>12 DEF C!Device
<1>14. Fits(f) /\ f.ip = l.at
  BY <1>2, <1>11, <1>12, <1>13 DEF Fits
<1>15. CASE k = 0
  <2>1. es = Append(ds, f)
    BY <1>10, <1>15
  <2>2. /\ es \in Seq(C!Device) /\ Len(es) = Len(ds) + 1
        /\ \A i \in 1..Len(es) : es[i] = IF i = Len(ds) + 1 THEN f ELSE ds[i]
    BY <1>1, <1>13, <2>1
  <2>3. \A i \in 1..Len(ds) : ds[i].ip # l.at
    BY <1>1, <1>7, <1>15 DEF Fits
  <2>4. \A i \in 1..Len(es) : i = Len(ds) + 1 \/ i \in 1..Len(ds)
    BY <1>1, <2>2
  <2>5. es \in Apart
    <3>1. \A i \in 1..Len(es) : Fits(es[i])
      BY <1>1, <1>14, <2>2, <2>4
    <3>2. ASSUME NEW i \in 1..Len(es), NEW j \in 1..Len(es), es[i].ip = es[j].ip PROVE i = j
      BY <1>1, <1>14, <2>2, <2>3, <2>4, <3>2
    <3> QED BY <2>2, <3>1, <3>2 DEF Apart
  <2>6. \A r \in {"cp", "lab"} : f[r] = IF r = l.role THEN new ELSE None
    BY <1>8, <1>13, <1>15 DEF bare
  <2>7. ASSUME NEW j \in 1..Len(ds)
        PROVE  \E i \in 1..Len(es) : /\ es[i].ip = ds[j].ip
                                     /\ \A r \in {"cp", "lab"} : ds[j][r] # None => es[i][r] # None
    <3>1. j \in 1..Len(es) /\ es[j] = ds[j]
      BY <1>1, <2>2
    <3> QED BY <3>1
  <2>8. \A i \in 1..Len(es), r \in {"cp", "lab"} :
            \/ es[i][r] = None
            \/ es[i][r].target = to.host
            \/ \E j \in 1..Len(ds) : es[i][r] = ds[j][r]
    BY <1>12, <2>2, <2>4, <2>6
  <2>9. \E i \in 1..Len(es) : es[i].ip = to.at /\ es[i][l.role] # None
    <3>1. Len(ds) + 1 \in 1..Len(es) /\ es[Len(ds) + 1] = f
      BY <1>1, <2>2
    <3> QED BY <1>2, <1>12, <1>14, <2>6, <3>1
  <2> QED BY <2>5, <2>7, <2>8, <2>9 DEF GotRole
<1>16. CASE k # 0
  <2>1. k \in 1..Len(ds) /\ es = [ds EXCEPT ![k] = f] /\ ds[k].ip = l.at
    BY <1>1, <1>7, <1>10, <1>16 DEF Fits
  <2>2. /\ es \in Seq(C!Device) /\ Len(es) = Len(ds)
        /\ \A i \in 1..Len(ds) : es[i] = IF i = k THEN f ELSE ds[i]
    BY <1>1, <1>13, <2>1
  <2>3. \A i \in 1..Len(ds) : es[i].ip = ds[i].ip
    BY <1>14, <2>1, <2>2
  <2>4. es \in Apart
    BY <1>1, <1>14, <2>2, <2>3 DEF Apart
  <2>5. \A i \in 1..Len(ds), r \in {"cp", "lab"} :
            es[i][r] = IF i = k /\ r = l.role THEN new ELSE ds[i][r]
    <3>1. \A r \in {"cp", "lab"} : e[r] = ds[k][r]
      BY <1>1, <1>8, <1>16, <2>1 DEF C!Device
    <3> QED BY <1>13, <2>2, <3>1
  <2>6. GotRole(ds, to, l.role, es)
    BY <1>2, <1>12, <2>1, <2>2, <2>3, <2>5 DEF GotRole
  <2> QED BY <2>4, <2>6
<1> QED BY <1>15, <1>16

\* What an earlier version kept becomes devices, with roles that are listed
\* and nothing left out.
LEMMA MigrateIs ==
    ASSUME Assumed, NEW old \in Seq(Entries)
    PROVE  LET ds == C!Migrate(old) IN
           /\ ds \in Apart
           /\ \A i \in 1..Len(ds), r \in {"cp", "lab"} :
                ds[i][r] = None \/ \E j \in 1..Len(old) : ds[i][r].target = old[j].target
           /\ \A j \in 1..Len(old) : \E i \in 1..Len(ds) :
                ds[i].ip = old[j].at /\ ds[i][old[j].role] # None
<1>1. PICK n \in Nat : n = Len(old) /\ DOMAIN old = 1..n /\ \A k \in 1..n : old[k] \in Entries
  OBVIOUS
<1> DEFINE step == [p \in Apart \X (1..n) |-> C!MigrateOne(p[1], old[p[2]])]
           By(t) == t = [s \in SUBSET (1..n) |->
                            IF s = {} THEN <<>> ELSE C!MigrateOne(t[s \ {Top(s)}], old[Top(s)])]
           t == CHOOSE t : By(t)
<1>2. <<>> \in Apart
  BY DEF Apart
<1>3. \A ds \in Apart, i \in 1..n : C!MigrateOne(ds, old[i]) \in Apart
  BY <1>1, MigrateOneIs
<1>4. step \in [Apart \X (1..n) -> Apart]
  BY <1>1, <1>3
<1>5. PICK u \in [SUBSET (1..n) -> Apart] : Folded(u, n, <<>>, step)
  <2> HIDE DEF step
  <2> QED BY <1>1, <1>2, <1>4, FoldExists
<1>6. By(u)
  <2>1. ASSUME NEW s \in SUBSET (1..n), s # {}
        PROVE  step[<<u[s \ {Top(s)}], Top(s)>>] = C!MigrateOne(u[s \ {Top(s)}], old[Top(s)])
    <3>1. Top(s) \in 1..n /\ u[s \ {Top(s)}] \in Apart
      BY <1>1, <1>5, <2>1, TopIs
    <3> QED BY <3>1
  <2> HIDE DEF step
  <2> QED BY <1>5, <2>1 DEF Folded
<1>7. By(t)
  BY <1>6
<1>8. C!Migrate(old) = t[1..n]
  BY <1>1 DEF C!Migrate, C!FoldLeft, C!MapThenFoldSet, C!Max, Top
<1> HIDE DEF step, t
<1> DEFINE f == [k \in 0..n |-> t[1..k]]
           Part(k) == {ds \in Apart :
               /\ \A i \in 1..Len(ds), r \in {"cp", "lab"} :
                    ds[i][r] = None \/ \E j \in 1..k : ds[i][r].target = old[j].target
               /\ \A j \in 1..k : \E i \in 1..Len(ds) :
                    ds[i].ip = old[j].at /\ ds[i][old[j].role] # None}
           V == [k \in 0..n |-> Part(k)]
<1>9. f[0] \in V[0]
  <2>1. 1..0 = {} /\ {} \in SUBSET (1..n) /\ 0 \in 0..n
    BY <1>1
  <2>2. f[0] = <<>>
    BY <1>7, <2>1
  <2>3. <<>> \in Part(0)
    BY <1>2, <2>1
  <2> HIDE DEF f, Part
  <2> QED BY <2>1, <2>2, <2>3
<1>10. ASSUME NEW k \in 1..n, f[k - 1] \in V[k - 1]
       PROVE  f[k] \in V[k]
  <2>1. Top(1..k) = k /\ (1..k) \ {k} = 1..(k - 1) /\ 1..k \in SUBSET (1..n) /\ 1..k # {}
    BY <1>1, Before
  <2>2. t[1..k] = C!MigrateOne(t[1..(k - 1)], old[k])
    BY <1>7, <2>1
  <2>3. k - 1 \in 0..n /\ k \in 0..n
    BY <1>1
  <2>4. PICK ds, es, to : ds = f[k - 1] /\ es = f[k] /\ to = [host |-> old[k].target, at |-> old[k].at]
    OBVIOUS
  <2>5. ds \in Part(k - 1) /\ es = C!MigrateOne(ds, old[k])
    <3> HIDE DEF Part
    <3> QED BY <1>10, <2>2, <2>3, <2>4
  <2>6. es \in Apart /\ GotRole(ds, to, old[k].role, es)
    BY <1>1, <2>4, <2>5, MigrateOneIs
  <2>7. to.host = old[k].target /\ to.at = old[k].at /\ old[k].role \in {"cp", "lab"} /\ k \in 1..k
        /\ 1..(k - 1) \subseteq 1..k /\ \A j \in 1..k : j = k \/ j \in 1..(k - 1)
    BY <1>1, <2>4 DEF Entries
  <2>8. ASSUME NEW i \in 1..Len(es), NEW r \in {"cp", "lab"}
        PROVE  es[i][r] = None \/ \E j \in 1..k : es[i][r].target = old[j].target
    <3>1. CASE es[i][r].target = to.host
      BY <2>7, <3>1
    <3>2. CASE \E j \in 1..Len(ds) : es[i][r] = ds[j][r]
      <4>1. PICK j \in 1..Len(ds) : es[i][r] = ds[j][r]
        BY <3>2
      <4>2. ds[j][r] = None \/ \E q \in 1..(k - 1) : ds[j][r].target = old[q].target
        BY <2>5
      <4> QED BY <2>7, <4>1, <4>2
    <3> QED BY <2>6, <3>1, <3>2 DEF GotRole
  <2>9. ASSUME NEW j \in 1..k
        PROVE  \E i \in 1..Len(es) : es[i].ip = old[j].at /\ es[i][old[j].role] # None
    <3>1. CASE j = k
      BY <2>6, <2>7, <3>1 DEF GotRole
    <3>2. CASE j \in 1..(k - 1)
      <4>1. PICK q \in 1..Len(ds) : ds[q].ip = old[j].at /\ ds[q][old[j].role] # None
        BY <2>5, <3>2
      <4>2. PICK i \in 1..Len(es) :
                /\ es[i].ip = ds[q].ip
                /\ \A r \in {"cp", "lab"} : ds[q][r] # None => es[i][r] # None
        BY <2>6 DEF GotRole
      <4>3. old[j].role \in {"cp", "lab"}
        BY <1>1, <2>7, <3>2 DEF Entries
      <4> QED BY <4>1, <4>2, <4>3
    <3> QED BY <2>7, <3>1, <3>2
  <2>10. es \in Part(k)
    BY <2>6, <2>8, <2>9
  <2> HIDE DEF f, Part
  <2> QED BY <2>3, <2>4, <2>10
<1>11. \A k \in 0..n : f[k] \in V[k]
  <2> HIDE DEF f, V
  <2> QED BY <1>1, <1>9, <1>10, Along
<1>12. C!Migrate(old) \in Part(n)
  <2> HIDE DEF Part
  <2> QED BY <1>1, <1>8, <1>11
<1> QED BY <1>1, <1>12

\* The commands begin with the invariant.
LEMMA CtxInitHolds ==
    ASSUME Assumed, C!Init
    PROVE  CtxInv
<1>1. PICK old \in C!Legacy, begun \in {C!NoInv, C!Shipped} :
        LET Has(m, role) == \E i \in DOMAIN old : old[i].at = m /\ old[i].role = role IN
        /\ devices = C!Migrate(old)
        /\ inv = [g \in C!Group |-> [h \in C!Id |->
                    IF \E i \in DOMAIN old : C!GroupOf[old[i].role] = g /\ old[i].target = h
                    THEN (CHOOSE l \in C!Range(old) : C!GroupOf[l.role] = g /\ l.target = h).at
                    ELSE begun[g][h]]]
        /\ type = IF old = <<>> THEN None ELSE "lan"
        /\ runs = [m \in Ip |-> {r \in {"cp", "lab"} : Has(m, r)}]
        /\ reg = [m \in Ip |-> IF Has(m, "cp") THEN {h \in Ip : Has(h, "lab")} ELSE {}]
        /\ made = {} /\ count = 0 /\ letGo = {} /\ last = C!Quiet /\ clean = TRUE
        /\ means = [n \in CliName |->
                      IF C!Cardinality(Given[n]) = 1 THEN CHOOSE m \in Given[n] : TRUE ELSE None]
  BY DEF C!Init
<1>2. PICK n \in Nat : n = Len(old) /\ DOMAIN old = 1..n /\ \A k \in 1..n : old[k] \in Entries
  BY LegacyIs
<1>3. old \in Seq(Entries)
  BY LegacyIs
<1> DEFINE Has(m, role) == \E i \in 1..n : old[i].at = m /\ old[i].role = role
           For(i, g, h) == C!GroupOf[old[i].role] = g /\ old[i].target = h
<1>4. /\ devices \in Apart
      /\ \A i \in 1..Len(devices), r \in {"cp", "lab"} :
            devices[i][r] = None \/ \E j \in 1..n : devices[i][r].target = old[j].target
      /\ \A j \in 1..n : \E i \in 1..Len(devices) :
            devices[i].ip = old[j].at /\ devices[i][old[j].role] # None
  BY <1>1, <1>2, <1>3, MigrateIs
<1>5. \A k \in 1..n : /\ old[k].role \in {"cp", "lab"} /\ old[k].target \in C!Id /\ old[k].at \in Ip
                      /\ Belongs(old[k].target, old[k].at) /\ C!GroupOf[old[k].role] \in C!Group
  BY <1>2 DEF Entries, C!GroupOf, C!Group
<1>6. ASSUME NEW g \in C!Group, NEW h \in C!Id
      PROVE  /\ (\E i \in 1..n : For(i, g, h)) => inv[g][h] \in Ip /\ Belongs(h, inv[g][h])
             /\ inv[g][h] # None => inv[g][h] \in Ip /\ Belongs(h, inv[g][h])
  <2>1. inv[g][h] = IF \E i \in 1..n : For(i, g, h)
                    THEN (CHOOSE l \in C!Range(old) : C!GroupOf[l.role] = g /\ l.target = h).at
                    ELSE begun[g][h]
    BY <1>1, <1>2
  <2>3. begun[g][h] # None => begun[g][h] \in Ip /\ Belongs(h, begun[g][h])
    <3>1. CASE begun = C!NoInv
      BY <3>1 DEF C!NoInv
    <3>2. CASE begun = C!Shipped /\ begun[g][h] # None
      <4>1. begun[g][h] = Local /\ (h = LocalNode \/ h = LocalName) /\ h \in CliName /\ Local \in Ip
        <5>1. /\ begun[g][h] = IF \/ g = "local" /\ h = LocalNode
                                  \/ g \in {"control_plane", "lab_hosts"} /\ h = LocalName /\ LocalNode # None
                               THEN Local ELSE None
          BY <3>2 DEF C!Shipped
        <5>2. h # None
          BY DEF Assumed, C!NameAssumption
        <5> QED BY <3>2, <5>1, <5>2 DEF Assumed, C!LocalAssumption
      <4>2. Given[h] = {Local}
        <5>1. Given[h] \subseteq {Local}
          BY <4>1 DEF Assumed, C!GivenAssumption
        <5>2. PICK m \in Ip : Given[h] = {m}
          BY <4>1 DEF Assumed, C!OneMachine
        <5> QED BY <5>1, <5>2
      <4> QED BY <4>1, <4>2 DEF Belongs
    <3> QED BY <3>1, <3>2
  <2>2. CASE \E i \in 1..n : For(i, g, h)
    <3>1. C!Range(old) = {old[i] : i \in 1..n}
      BY <1>2 DEF C!Range
    <3>2. \E l \in C!Range(old) : C!GroupOf[l.role] = g /\ l.target = h
      BY <2>2, <3>1
    <3>3. PICK l \in C!Range(old) : /\ C!GroupOf[l.role] = g /\ l.target = h
                                    /\ l = CHOOSE x \in C!Range(old) : C!GroupOf[x.role] = g /\ x.target = h
      BY <3>2
    <3>4. inv[g][h] = l.at
      BY <2>1, <2>2, <3>3
    <3> QED BY <1>5, <2>2, <3>1, <3>3, <3>4
  <2> QED BY <2>1, <2>2, <2>3
<1>7. inv \in Inventories
  <2>1. \A g \in C!Group, h \in C!Id : inv[g][h] \in Ip \cup {None}
    BY <1>6
  <2>2. inv = [g \in C!Group |-> [h \in C!Id |-> inv[g][h]]]
    BY <1>1
  <2> QED BY <2>1, <2>2 DEF Inventories
<1>8. InvFits(inv)
  BY <1>6 DEF InvFits
<1>9. /\ type \in {None, "local", "lan", "cloud"}
      /\ runs = [m \in Ip |-> {r \in {"cp", "lab"} : Has(m, r)}]
      /\ reg = [m \in Ip |-> IF Has(m, "cp") THEN {h \in Ip : Has(h, "lab")} ELSE {}]
      /\ made = {} /\ count = 0 /\ letGo = {} /\ last = C!Quiet /\ clean = TRUE
  BY <1>1, <1>2
<1>10. World
  <2> HIDE DEF Has
  <2> QED BY <1>9 DEF World, Parts
<1>11. Rest
  BY <1>9 DEF Rest, C!Quiet, Assumed, C!BoundAssumption
<1>12. MeansFit
  <2>1. ASSUME NEW x \in CliName PROVE means[x] \in Ip /\ Given[x] = {means[x]}
    <3>1. PICK m \in Ip : Given[x] = {m}
      BY DEF Assumed, C!OneMachine
    <3>2. C!Cardinality({m}) = 1
      <4>1. C!Cardinality({m}) = Cardinality({m})
        BY DEF C!Cardinality, Cardinality
      <4> QED BY <4>1, FS_Singleton
    <3>3. means[x] = CHOOSE o \in {m} : TRUE
      BY <1>1, <3>1, <3>2
    <3> QED BY <3>1, <3>3
  <2>2. means = [x \in CliName |-> means[x]]
    BY <1>1
  <2> QED BY <2>1, <2>2 DEF MeansFit
<1>13. AllListed(inv, devices)
  <2>1. ASSUME NEW i \in 1..Len(devices), NEW r \in {"cp", "lab"} PROVE ListedIn(inv, devices[i][r])
    <3>1. CASE devices[i][r] = None
      BY <3>1 DEF ListedIn
    <3>2. CASE devices[i][r] # None
      <4>1. PICK j \in 1..n : devices[i][r].target = old[j].target
        BY <1>4, <3>2
      <4>2. PICK g \in C!Group : g = C!GroupOf[old[j].role]
        BY <1>5
      <4>3. inv[g][old[j].target] \in Ip
        BY <1>5, <1>6, <4>2
      <4>4. inv[g][old[j].target] # None
        BY <4>3 DEF Assumed, C!NameAssumption, C!Id
      <4> QED BY <4>1, <4>4 DEF ListedIn
    <3> QED BY <3>1, <3>2
  <2>2. ASSUME NEW i \in 1..Len(devices)
        PROVE  ListedIn(inv, devices[i].cp) /\ ListedIn(inv, devices[i].lab)
    <3>1. ListedIn(inv, devices[i]["cp"]) /\ ListedIn(inv, devices[i]["lab"])
      BY <2>1
    <3> QED BY <3>1
  <2> QED BY <2>2 DEF AllListed
<1>14. Kept(runs, devices, letGo)
  <2>1. ASSUME NEW m \in Ip, NEW r \in {"cp", "lab"}, r \in runs[m]
        PROVE  \E i \in 1..Len(devices) : devices[i].ip = m /\ devices[i][r] # None
    <3>1. PICK j \in 1..n : old[j].at = m /\ old[j].role = r
      BY <1>9, <2>1
    <3> QED BY <1>4, <3>1
  <2>2. ASSUME NEW m \in Ip
        PROVE  /\ "cp" \in runs[m] => \E i \in 1..Len(devices) : devices[i].ip = m /\ devices[i].cp # None
               /\ "lab" \in runs[m] => \E i \in 1..Len(devices) : devices[i].ip = m /\ devices[i].lab # None
    <3>1. /\ "cp" \in runs[m] => \E i \in 1..Len(devices) : devices[i].ip = m /\ devices[i]["cp"] # None
          /\ "lab" \in runs[m] => \E i \in 1..Len(devices) : devices[i].ip = m /\ devices[i]["lab"] # None
      BY <2>1
    <3> QED BY <3>1
  <2> QED BY <2>2 DEF Kept
<1> QED BY <1>4, <1>7, <1>8, <1>9, <1>10, <1>11, <1>12, <1>13, <1>14 DEF CtxInv

\* Every command keeps it.
LEMMA CtxStepKeeps ==
    ASSUME Assumed, CtxInv, [C!Next]_(C!vars)
    PROVE  CtxInv'
<1>1. ASSUME NEW x \in CliName, C!ProvisionLocal(x) PROVE CtxInv'
  BY <1>1, ProvisionLocalKeeps
<1>2. ASSUME NEW m \in Ip, NEW x \in CliName \cup {None}, C!ProvisionLan(m, x) PROVE CtxInv'
  BY <1>2, ProvisionLanKeeps
<1>3. ASSUME NEW ms \in SUBSET Ip \ {{}}, C!ProvisionCloud(ms) PROVE CtxInv'
  BY <1>3, ProvisionCloudKeeps
<1>4. ASSUME NEW d \in C!Id, C!BootstrapControlPlane(d) PROVE CtxInv'
  BY <1>4, BootstrapControlPlaneKeeps
<1>5. ASSUME NEW d \in C!Id, C!BootstrapLabHost(d) PROVE CtxInv'
  BY <1>5, BootstrapLabHostKeeps
<1>6. ASSUME NEW h \in Ip, C!RunLab(h) PROVE CtxInv'
  BY <1>6, RunLabKeeps
<1>7. ASSUME NEW d \in C!Id, C!Destroy(d) PROVE CtxInv'
  BY <1>7, DestroyKeeps
<1>8. ASSUME NEW d \in C!Id, C!RemoveDevice(d) PROVE CtxInv'
  BY <1>8, RemoveDeviceKeeps
<1>9. CASE C!DestroyAll
  BY <1>9, DestroyAllKeeps
<1>10. CASE C!RemoveAll
  BY <1>10, RemoveAllKeeps
<1>11. CASE UNCHANGED C!vars
  BY <1>11 DEF C!vars, C!context, C!world, CtxInv, World, Rest, MeansFit
<1> QED BY <1>1, <1>2, <1>3, <1>4, <1>5, <1>6, <1>7, <1>8, <1>9, <1>10, <1>11 DEF C!Next

\* So it always holds.
LEMMA CtxInvAlways ==
    ASSUME Assumed PROVE C!Spec => []CtxInv
<1>1. C!Init => CtxInv
  BY CtxInitHolds
<1>2. CtxInv /\ [C!Next]_(C!vars) => CtxInv'
  BY CtxStepKeeps
<1> QED BY <1>1, <1>2, PTL DEF C!Spec

-----------------------------------------------------------------------------
(* What is kept of the machines is true of them.                            *)

\* TornDownAfterSound follows: a listed host is where its machine is.
LEMMA CtxInvTornDown == Assumed /\ CtxInv => TornDownAfterSound
<1> SUFFICES ASSUME Assumed, CtxInv, clean PROVE C!TornDownThere
  BY DEF TornDownAfterSound, C!TornDownAfterSound
<1>1. /\ devices \in Apart /\ inv \in Inventories /\ InvFits(inv) /\ AllListed(inv, devices)
      /\ DOMAIN devices = 1..Len(devices)
  BY DEF CtxInv, Apart
<1>2. ASSUME NEW j \in 1..Len(devices), NEW r \in {"cp", "lab"}, devices[j][r] # None
      PROVE  C!Where(devices[j][r].target) = devices[j][r].at
  <2> DEFINE e == devices[j]
             h == e[r].target
  <2>1. Fits(e)
    BY <1>1 DEF Apart
  <2>2. /\ e.ip \in Ip /\ e[r].at = e.ip /\ h \in C!Id /\ Belongs(h, e.ip)
    BY <1>2, <2>1, CalledIs
  <2>3. ListedIn(inv, e[r])
    BY <1>1 DEF AllListed
  <2>4. C!Listed(h)
    BY <1>2, <2>3 DEF ListedIn, C!Listed
  <2>5. C!Where(h) \in Ip /\ Belongs(h, C!Where(h))
    BY <1>1, <2>2, <2>4, WhereIs
  <2>6. C!Where(h) = e.ip
    <3> HIDE DEF h, e
    <3> QED BY <2>2, <2>5, OneOwner
  <2> QED BY <2>2, <2>6
<1>3. C!Range(devices) = {devices[i] : i \in 1..Len(devices)}
  BY <1>1 DEF C!Range
<1> QED BY <1>2, <1>3 DEF C!TornDownThere

\* KnownAfterSound follows.
LEMMA CtxInvKnown == Assumed /\ CtxInv => KnownAfterSound
<1> SUFFICES ASSUME Assumed, CtxInv, clean, NEW m \in Ip, runs[m] \cap {"cp", "lab"} # {}, m \notin letGo
             PROVE  \E e \in C!Range(devices) : e.ip = m
  BY DEF KnownAfterSound, C!KnownAfterSound, C!Known
<1>1. Kept(runs, devices, letGo) /\ DOMAIN devices = 1..Len(devices)
  BY DEF CtxInv, Apart
<1>2. PICK i \in 1..Len(devices) : devices[i].ip = m
  BY <1>1 DEF Kept
<1> QED BY <1>1, <1>2 DEF C!Range

\* A step keeps what other machines are: OnlyTheAskedAfterSound.
LEMMA OnlyTheAskedStep ==
    ASSUME Assumed, CtxInv, C!Next, clean, last'.op = "destroy",
           NEW m \in Ip, m \notin last'.on
    PROVE  runs[m] \cap {"cp", "lab"} \subseteq runs'[m]
<1>1. PICK d \in C!Id : C!Destroy(d)
  <2>1. C!Quiet.op # "destroy"
    BY DEF C!Quiet
  <2>2. \A x \in CliName : C!ProvisionLocal(x) => last' = C!Quiet
    BY DEF C!ProvisionLocal
  <2>3. \A o \in Ip, x \in CliName \cup {None} : C!ProvisionLan(o, x) => last' = C!Quiet
    BY DEF C!ProvisionLan
  <2>4. \A ms \in SUBSET Ip \ {{}} : C!ProvisionCloud(ms) => last' = C!Quiet
    BY DEF C!ProvisionCloud
  <2>5. \A d \in C!Id : C!BootstrapControlPlane(d) => last' = C!Quiet
    BY DEF C!BootstrapControlPlane
  <2>6. \A d \in C!Id : C!BootstrapLabHost(d) => last' = C!Quiet
    BY DEF C!BootstrapLabHost
  <2>7. \A h \in Ip : C!RunLab(h) => last' = C!Quiet
    BY DEF C!RunLab
  <2>8. \A d \in C!Id : C!RemoveDevice(d) => last' = C!Quiet
    BY DEF C!RemoveDevice, C!RemoveHosts
  <2>9. C!DestroyAll => last'.op # "destroy"
    BY <2>1 DEF C!DestroyAll
  <2>10. C!RemoveAll => last' = C!Quiet
    BY DEF C!RemoveAll, C!RemoveHosts
  <2> QED BY <2>1, <2>2, <2>3, <2>4, <2>5, <2>6, <2>7, <2>8, <2>9, <2>10 DEF C!Next
<1>2. PICK hosts \in C!Targets(d), early \in SUBSET C!Working, stays \in C!Refusals :
        /\ \/ C!DestroyFails(hosts, C!Order(C!Keys(inv, hosts)), early, stays)
           \/ C!DestroyEnds(hosts, C!Order(C!Keys(inv, hosts)), early, stays)
        /\ last' = [op |-> "destroy", on |-> C!Asked(d)]
  BY <1>1 DEF C!Destroy
<1>3. PICK order : order = C!Order(C!Keys(inv, hosts))
  OBVIOUS
<1>4. inv \in Inventories /\ InvFits(inv) /\ devices \in Apart /\ made = {} /\ MeansFit
  BY DEF CtxInv
<1>5. hosts \in SUBSET C!Id /\ \A h \in hosts : Within(h, C!Asked(d))
  BY <1>4, TargetsAre
<1>6. C!Asked(d) \in SUBSET Ip /\ C!Together(C!Asked(d))
  BY <1>4, AskedIs
<1>7. m \notin C!Asked(d)
  BY <1>2
<1>8. \A h \in hosts : ~Belongs(h, m)
  BY <1>5, <1>6, <1>7, OneOwner DEF Within
<1>9. \A i \in 1..Len(order) : order[i].ip # m
  <2> TAKE i \in 1..Len(order)
  <2>1. PICK j \in 1..Len(devices) :
            order[i] = devices[j] /\ C!Identifiers(devices[j]) \cap C!Expand(inv, hosts) # {}
    BY <1>3, <1>4, OrderIs
  <2>2. devices[j].ip \in C!Asked(d)
    BY <1>4, <1>5, <1>6, <2>1, MetIs
  <2> QED BY <1>7, <2>1, <2>2
<1>10. CASE C!DestroyFails(hosts, order, early, stays)
  <2>1. PICK w : C!Become(w) /\ Lessened(hosts, order, w)
    BY <1>3, <1>5, <1>10, TeardownFails
  <2>2. runs' = w.runs
    BY <2>1 DEF C!Become
  <2> QED BY <1>8, <1>9, <2>1, <2>2 DEF Roles, Lessened
<1>11. CASE C!DestroyEnds(hosts, order, early, stays)
  <2>1. PICK torn : torn = IF order # <<>> THEN C!TornAll(order, early, stays)
                           ELSE C!EmptiedAll(C!SetToSeq(hosts))
    OBVIOUS
  <2>2. Teardown(hosts, order, stays, torn)
    BY <1>3, <1>5, <2>1, TeardownEnds
  <2>3. Roles(torn, m) = runs[m] \cap {"cp", "lab"}
    BY <1>8, <1>9, <2>2 DEF Teardown, Lessened
  <2>4. PICK left : left = [x \in Ip |-> IF x \in made THEN {} ELSE torn.runs[x]]
    OBVIOUS
  <2>5. \/ C!Become(torn) \/ C!Become([torn EXCEPT !.runs = left])
    BY <1>11, <2>1, <2>4 DEF C!DestroyEnds
  <2>6. torn \in Worlds /\ left = torn.runs
    BY <1>4, <2>2, <2>4 DEF Teardown, Lessened, Worlds
  <2>7. runs' = torn.runs
    BY <2>5, <2>6 DEF C!Become, Worlds
  <2> QED BY <2>3, <2>7 DEF Roles
<1> QED BY <1>2, <1>3, <1>10, <1>11

\* What the theorems assume.
LEMMA OneMachineAssumed == C!OneMachine => Assumed
BY ContextAssumption DEF Assumed

\* Type correctness of the command line's context (infra_state.yaml, the
\* inventory) and of what runs on the machines, when every name is given to
\* one machine.
THEOREM ContextIsTyped == ASSUME C!OneMachine PROVE C!Spec => []ContextTyped
<1>1. C!Spec => []CtxInv
  BY OneMachineAssumed, CtxInvAlways
<1>2. CtxInv => ContextTyped
  BY CtxInvTypes DEF ContextTyped
<1> QED BY <1>1, <1>2, PTL

\* DevicesApart: a machine is one device, with what was deployed there,
\* whatever fails (upsert_device, _find_device_key, _migrate_legacy_payload).
THEOREM OneDeviceAMachine == ASSUME C!OneMachine PROVE C!Spec => []DevicesApart
<1>1. C!Spec => []CtxInv
  BY OneMachineAssumed, CtxInvAlways
<1>2. CtxInv => DevicesApart
  BY OneMachineAssumed, CtxInvApart
<1> QED BY <1>1, <1>2, PTL

\* TornDownAfterSound: what a device runs is torn down where it was deployed,
\* as long as nothing but destructions has failed (infra_destroy,
\* _device_target_host).
THEOREM TornDownWhereDeployed == ASSUME C!OneMachine PROVE C!Spec => []TornDownAfterSound
<1>1. C!Spec => []CtxInv
  BY OneMachineAssumed, CtxInvAlways
<1>2. CtxInv => TornDownAfterSound
  BY OneMachineAssumed, CtxInvTornDown
<1> QED BY <1>1, <1>2, PTL

\* KnownAfterSound: a machine on which a bootstrap left something is in the
\* context until the user takes it out, destroys a control plane, or Docker
\* refuses to remove a container there, which the teardown playbooks ignore
\* (infra_destroy, infra_remove_device). Refused removals are any.
THEOREM NoMachineForgotten == ASSUME C!OneMachine PROVE C!Spec => []KnownAfterSound
<1>1. C!Spec => []CtxInv
  BY OneMachineAssumed, CtxInvAlways
<1>2. CtxInv => KnownAfterSound
  BY OneMachineAssumed, CtxInvKnown
<1> QED BY <1>1, <1>2, PTL

\* OnlyTheAskedAfterSound: a destruction takes down a control plane or a lab
\* host on no machine but the one the user means and those that --register-ip
\* and --lab-host-id tie to it, whatever they are (_resolve_destroy_hosts,
\* _expand_host_identifiers).
THEOREM NoOtherDestroyed == ASSUME C!OneMachine PROVE C!Spec => OnlyTheAskedAfterSound
<1> DEFINE Spared(m) == runs[m] \cap {"cp", "lab"} \subseteq runs'[m]
                        \/ last'.op # "destroy" \/ m \in last'.on \/ ~clean
<1>1. CtxInv /\ [C!Next]_(C!vars) => [\A m \in Ip : Spared(m)]_(C!vars)
  BY OneMachineAssumed, OnlyTheAskedStep
<1>2. OnlyTheAskedAfterSound <=> [][\A m \in Ip : Spared(m)]_(C!vars)
  BY DEF OnlyTheAskedAfterSound, C!OnlyTheAskedAfterSound
<1> HIDE DEF Spared
<1>3. C!Spec => []CtxInv
  BY OneMachineAssumed, CtxInvAlways
<1> QED BY <1>1, <1>2, <1>3, PTL DEF C!Spec
=============================================================================
