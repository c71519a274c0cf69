------------------------- MODULE EnvironmentsProofs -------------------------
(***************************************************************************)
(* Theorems about Environments, for any names, slugs and requests and any  *)
(* bounds: the type invariant, that no two rows name one container, that   *)
(* answers hold, that rows go only after their containers, and that        *)
(* nothing stays behind unaccounted for.                                   *)
(*                                                                         *)
(* The last three rest on one invariant, SInv, the very last on what it    *)
(* says of a slug where nothing has gone wrong (Accounted). That a step    *)
(* keeps them is proved in three layers: what a step does to the request   *)
(* that takes it (Walk, Hold, Earn, Tell) and to what is shared (Act),     *)
(* from the actions; what it leaves alone (Foreign, FirstsSpare,           *)
(* RemovalsSpare), from that and from who works on which slug; and each    *)
(* part of the invariants, from both.                                      *)
(***************************************************************************)
EXTENDS Environments, FiniteSetTheorems, TLAPS

-----------------------------------------------------------------------------
(* The type invariant in three parts: what is stored, what has gone wrong,   *)
(* and what each request holds. The last says more than TypeOK: what is in   *)
(* hand at each step.                                                        *)

DataInv ==
    /\ rows \subseteq RowType
    /\ networks \subseteq [id : 0..next, slug : Slug]
    /\ docker \in [Env -> [id : 0..next, net : 0..next]]
    /\ bridge \in [Slug -> 0..next]
    /\ routed \subseteq Slug
    /\ late \subseteq Deployment
    /\ next \in Nat \ {0}
    /\ jobs \in 0..MaxJobs

SpentInv ==
    /\ faults \in 0..MaxFaults
    /\ spoiled \subseteq Slug

Held(a) ==
    /\ pc[a] = "idle" => net[a] = 0
    /\ pc[a] \in RemovePc =>
        /\ row[a] \in RowType
        /\ job[a] \in Deployment \cup Removal
    /\ pc[a] \in DeployPc => job[a] \in Deployment
    /\ pc[a] # "idle" /\ job[a] \notin Deployment => row[a] \in RowType
    /\ pc[a] \in {"new_net", "insert_net"} => job[a].private
    /\ pc[a] = "insert_net" => net[a] # 0
    /\ pc[a] = "create" => (net[a] # 0 <=> job[a].private)

LocalInv ==
    /\ pc \in [Actor -> DeployPc \cup RemovePc \cup {"idle"}]
    /\ job \in [Actor -> Deployment \cup Removal \cup {NoJob}]
    /\ row \in [Actor -> RowType \cup {NoRow}]
    /\ net \in [Actor -> 0..next]
    /\ made \in [Actor -> 0..next]
    /\ todo \in [Actor -> SUBSET RowType]
    /\ scope \in [Actor -> SUBSET Slug]
    /\ crossed \subseteq Busy
    /\ reaped \subseteq Slug
    /\ known \in [Env -> Answer]
    /\ \A a \in Actor : Held(a)

TypeInv == DataInv /\ SpentInv /\ LocalInv

LEMMA Parts == TypeInv => TypeOK
<1> SUFFICES ASSUME TypeInv PROVE TypeOK
    OBVIOUS
<1>1. ASSUME NEW a \in Busy
      PROVE /\ pc[a] \in DeployPc => job[a] \in Deployment
            /\ pc[a] = "create" => (net[a] # 0 <=> job[a].private)
            /\ job[a] \notin Deployment => job[a] \in Removal /\ row[a] \in RowType
  <2>1. a \in Actor /\ pc[a] \in DeployPc \cup RemovePc
    BY DEF TypeInv, LocalInv, Busy
  <2>2. Held(a)
    BY <2>1 DEF TypeInv, LocalInv
  <2> QED
    BY <2>1, <2>2 DEF Held, DeployPc, RemovePc
<1> QED
    BY <1>1 DEF TypeInv, DataInv, SpentInv, LocalInv, TypeOK

\* ids are given in order: what was one stays one
LEMMA Widen ==
    ASSUME next \in Nat, next' \in Nat, next <= next'
    PROVE  0..next \subseteq 0..next' /\ RowType \subseteq RowType'
<1>1. 0..next \subseteq 0..next'
    OBVIOUS
<1> QED
    BY <1>1 DEF RowType

LEMMA Initial == Init => TypeInv
<1> SUFFICES ASSUME Init PROVE TypeInv
    OBVIOUS
<1>1. DataInv
    BY LimitsAssumption DEF Init, DataInv, NoContainer
<1>2. SpentInv
    BY LimitsAssumption DEF Init, SpentInv
<1>3. ASSUME NEW a \in Actor PROVE Held(a)
    BY DEF Init, Held, RemovePc, DeployPc
<1>4. LocalInv
    BY <1>3 DEF Init, LocalInv, Answer, Unknown
<1> QED
    BY <1>1, <1>2, <1>4 DEF TypeInv

-----------------------------------------------------------------------------
(* How a request ends, and how it goes on.                                   *)

LEMMA FaultTyped ==
    ASSUME TypeInv, NEW a \in Actor, Fault(a) \/ NoFault
    PROVE  SpentInv'
<1>1. scope[a] \subseteq Slug
    BY DEF TypeInv, LocalInv
<1>2. CASE Fault(a)
    BY <1>1, <1>2, LimitsAssumption DEF TypeInv, SpentInv, Fault
<1>3. CASE NoFault
    BY <1>3 DEF TypeInv, SpentInv, NoFault
<1> QED
    BY <1>2, <1>3

LEMMA OverTyped ==
    ASSUME TypeInv, NEW a \in Actor, Over(a),
           known' \in [Env -> Answer], reaped' \subseteq Slug,
           next' \in Nat, next <= next'
    PROVE  LocalInv'
<1>1. 0..next \subseteq 0..next' /\ RowType \subseteq RowType'
    BY Widen DEF TypeInv, DataInv
<1>2. /\ pc' \in [Actor -> DeployPc \cup RemovePc \cup {"idle"}]
      /\ job' \in [Actor -> Deployment \cup Removal \cup {NoJob}]
      /\ row' \in [Actor -> RowType' \cup {NoRow}]
      /\ scope' \in [Actor -> SUBSET Slug]
    BY <1>1 DEF TypeInv, LocalInv, Over, Goto
<1>3. /\ net' \in [Actor -> 0..next']
      /\ made' \in [Actor -> 0..next']
  <2>1. 0 \in 0..next'
    OBVIOUS
  <2> QED
    BY <2>1, <1>1 DEF TypeInv, LocalInv, Over
<1>4. todo' \in [Actor -> SUBSET (RowType')]
    BY <1>1 DEF TypeInv, LocalInv, Over
<1>5. crossed' \subseteq Busy'
    BY DEF TypeInv, LocalInv, Over, Goto, Busy
<1>6. ASSUME NEW b \in Actor PROVE Held(b)'
  <2>1. CASE b = a
    BY <2>1 DEF TypeInv, LocalInv, Over, Goto, Held, DeployPc, RemovePc
  <2>2. CASE b # a
    <3>1. /\ pc'[b] = pc[b] /\ net'[b] = net[b]
          /\ row'[b] = row[b] /\ job'[b] = job[b]
      BY <2>2 DEF TypeInv, LocalInv, Over, Goto
    <3>2. Held(b)
      BY DEF TypeInv, LocalInv
    <3> QED
      BY <3>1, <3>2, <1>1 DEF Held, DeployPc, RemovePc
  <2> QED
    BY <2>1, <2>2
<1> QED
    BY <1>2, <1>3, <1>4, <1>5, <1>6 DEF LocalInv, RowType

LEMMA QuitTyped ==
    ASSUME TypeInv, NEW a \in Actor, Quit(a), next' \in Nat, next <= next'
    PROVE  LocalInv'
<1>1. known' \in [Env -> Answer] /\ reaped' \subseteq Slug
    BY DEF Quit, TypeInv, LocalInv
<1> QED
    BY <1>1, OverTyped DEF Quit

LEMMA ReplyTyped ==
    ASSUME TypeInv, NEW a \in Actor, NEW names, NEW answer \in Answer,
           Reply(a, names, answer), next' \in Nat, next <= next'
    PROVE  LocalInv'
<1>1. known' \in [Env -> Answer] /\ reaped' \subseteq Slug
    BY DEF Reply, TypeInv, LocalInv
<1> QED
    BY <1>1, OverTyped DEF Reply

\* where a request may go on, with what it has in hand
Ready(a, label, n) ==
    /\ label \in DeployPc \cup RemovePc
    /\ label \in DeployPc => job[a] \in Deployment
    /\ label \in RemovePc =>
        row[a] \in RowType /\ job[a] \in Deployment \cup Removal
    /\ label \in {"new_net", "insert_net"} => job[a].private
    /\ label = "insert_net" => n # 0
    /\ label = "create" => (n # 0 <=> job[a].private)

LEMMA MoveTyped ==
    ASSUME TypeInv, NEW a \in Actor, pc[a] # "idle", NEW label, Move(a, label),
           NEW n, n \in 0..next', net' = [net EXCEPT ![a] = n],
           NEW c, c \in 0..next', made' = [made EXCEPT ![a] = c],
           Ready(a, label, n), next' \in Nat, next <= next'
    PROVE  LocalInv'
<1>1. 0..next \subseteq 0..next' /\ RowType \subseteq RowType'
    BY Widen DEF TypeInv, DataInv
<1>2. /\ pc' \in [Actor -> DeployPc \cup RemovePc \cup {"idle"}]
      /\ job' \in [Actor -> Deployment \cup Removal \cup {NoJob}]
      /\ row' \in [Actor -> RowType' \cup {NoRow}]
      /\ scope' \in [Actor -> SUBSET Slug]
      /\ todo' \in [Actor -> SUBSET (RowType')]
      /\ reaped' \subseteq Slug
      /\ known' \in [Env -> Answer]
    BY <1>1 DEF TypeInv, LocalInv, Move, Goto, Ready
<1>3. /\ net' \in [Actor -> 0..next']
      /\ made' \in [Actor -> 0..next']
    BY <1>1 DEF TypeInv, LocalInv
<1>4. crossed' \subseteq Busy'
    BY DEF TypeInv, LocalInv, Move, Goto, Busy, Ready, DeployPc, RemovePc
<1>5. ASSUME NEW b \in Actor PROVE Held(b)'
  <2>1. Held(b)
    BY DEF TypeInv, LocalInv
  <2>2. CASE b = a
    <3>1. pc'[a] = label /\ net'[a] = n /\ row'[a] = row[a] /\ job'[a] = job[a]
      BY DEF TypeInv, LocalInv, Move, Goto
    <3>2. label # "idle"
      BY DEF Ready, DeployPc, RemovePc
    <3>3. row[a] \in RowType \/ job[a] \in Deployment
      BY <2>1, <2>2 DEF Held
    <3> QED
      BY <3>1, <3>2, <3>3, <2>2, <1>1 DEF Held, Ready, DeployPc, RemovePc
  <2>3. CASE b # a
    <3>1. /\ pc'[b] = pc[b] /\ net'[b] = net[b]
          /\ row'[b] = row[b] /\ job'[b] = job[b]
      BY <2>3 DEF TypeInv, LocalInv, Move, Goto
    <3> QED
      BY <3>1, <2>1, <1>1 DEF Held, DeployPc, RemovePc
  <2> QED
    BY <2>2, <2>3
<1> QED
    BY <1>2, <1>3, <1>4, <1>5 DEF LocalInv, RowType

LEMMA OnTyped ==
    ASSUME TypeInv, NEW a \in Actor, pc[a] # "idle", NEW label, On(a, label),
           Ready(a, label, net[a]), next' \in Nat, next <= next'
    PROVE  LocalInv'
<1>1. /\ net' = [net EXCEPT ![a] = net[a]]
      /\ made' = [made EXCEPT ![a] = made[a]]
    BY DEF On, TypeInv, LocalInv
<1>2. net[a] \in 0..next' /\ made[a] \in 0..next'
    BY Widen DEF TypeInv, LocalInv, DataInv
<1> QED
    BY <1>1, <1>2, MoveTyped DEF On

-----------------------------------------------------------------------------
(* Each action keeps the three parts.                                        *)

LEMMA BeginTyped ==
    ASSUME TypeInv, NEW a \in Actor, NEW j, NEW slugs \in SUBSET Slug, NEW first,
           NEW rest \in SUBSET RowType, NEW label,
           Begin(a, j, slugs, first, rest, label),
           \/ j \in Deployment /\ first = NoRow
              /\ label = IF j.private THEN "new_net" ELSE "create"
           \/ j \in Deployment \cup Removal /\ first \in RowType
              /\ label \in {"stop", "fetch", "look"}
    PROVE  TypeInv'
<1>1. DataInv'
    BY LimitsAssumption DEF TypeInv, DataInv, Begin, database, labhost, RowType
<1>2. SpentInv'
    BY SlugAssumption DEF TypeInv, SpentInv, LocalInv, Begin
<1>3. pc[a] = "idle" /\ net[a] = 0
    BY DEF Begin, TypeInv, LocalInv, Held
<1>4. label \in DeployPc \cup RemovePc /\ label # "idle"
    BY DEF DeployPc, RemovePc
<1>5. /\ pc' \in [Actor -> DeployPc \cup RemovePc \cup {"idle"}]
      /\ job' \in [Actor -> Deployment \cup Removal \cup {NoJob}]
      /\ row' \in [Actor -> RowType \cup {NoRow}]
      /\ todo' \in [Actor -> SUBSET RowType]
      /\ scope' \in [Actor -> SUBSET Slug]
    BY <1>4 DEF TypeInv, LocalInv, Begin, Goto
<1>6. /\ net' = net /\ made' = made /\ next' = next /\ reaped' = reaped
      /\ RowType' = RowType
    BY DEF Begin, RowType
<1>7. known' \in [Env -> Answer]
    BY DEF TypeInv, LocalInv, Begin, Answer
<1>8. crossed' \subseteq Busy'
  <2>1. \A b \in Busy : b \in Busy'
    BY <1>3, <1>4 DEF TypeInv, LocalInv, Begin, Goto, Busy
  <2>2. a \in Busy'
    BY <1>4 DEF TypeInv, LocalInv, Begin, Goto, Busy
  <2> QED
    BY <2>1, <2>2 DEF TypeInv, LocalInv, Begin
<1>9. ASSUME NEW b \in Actor PROVE Held(b)'
  <2>1. CASE b = a
    <3>1. pc'[a] = label /\ job'[a] = j /\ row'[a] = first
      BY DEF TypeInv, LocalInv, Begin, Goto
    <3> QED
      BY <3>1, <2>1, <1>3, <1>4, <1>6 DEF Held, DeployPc, RemovePc
  <2>2. CASE b # a
    <3>1. /\ pc'[b] = pc[b] /\ job'[b] = job[b] /\ row'[b] = row[b]
      BY <2>2 DEF TypeInv, LocalInv, Begin, Goto
    <3> QED
      BY <3>1, <1>6 DEF TypeInv, LocalInv, Held
  <2> QED
    BY <2>1, <2>2
<1> QED
    BY <1>1, <1>2, <1>5, <1>6, <1>7, <1>8, <1>9 DEF TypeInv, LocalInv

LEMMA BeginsTyped ==
    ASSUME TypeInv,
           \/ \E a \in Request :
                \/ \E j \in Deployment : BeginDeploy(a, j)
                \/ \E e \in Env : BeginDelete(a, e)
                \/ BeginClear(a)
           \/ \E op \in {"reap", "drop"} : BeginReap(op)
    PROVE  TypeInv'
<1>1. /\ rows \subseteq RowType
      /\ \A w \in rows : SlugOf[w.name] \in Slug
    BY SlugAssumption DEF TypeInv, DataInv, RowType
<1>2. \A w \in rows : \A e \in Env : w \in RowsOf(e) => w \in RowType
    BY <1>1
<1>3. ASSUME NEW a \in Request, NEW j \in Deployment, BeginDeploy(a, j) PROVE TypeInv'
  <2>1. SlugOf[j.name] \in Slug
    BY SlugAssumption DEF Deployment
  <2>2. CASE RowsOf(j.name) = {} /\ Begin(a, j, {SlugOf[j.name]}, NoRow, {},
                   IF j.private THEN "new_net" ELSE "create")
    BY <2>1, <2>2, BeginTyped DEF Actor
  <2>3. ASSUME NEW w \in RowsOf(j.name),
               Begin(a, j, {SlugOf[j.name]}, w, {}, "stop")
        PROVE TypeInv'
    <3>1. w \in RowType
      BY <1>1 DEF RowsOf
    <3> QED
      BY <3>1, <2>1, <2>3, BeginTyped DEF Actor
  <2> QED
    BY <1>3, <2>2, <2>3 DEF BeginDeploy
<1>4. ASSUME NEW a \in Request, NEW e \in Env, BeginDelete(a, e) PROVE TypeInv'
  <2>1. PICK w \in RowsOf(e) :
            Begin(a, [op |-> "delete"], {SlugOf[e]}, w, {}, "fetch")
    BY <1>4 DEF BeginDelete
  <2>2. w \in RowType /\ SlugOf[e] \in Slug /\ [op |-> "delete"] \in Removal
    BY <1>1, SlugAssumption DEF RowsOf, Removal
  <2> QED
    BY <2>1, <2>2, BeginTyped DEF Actor
<1>5. ASSUME NEW a \in Request, BeginClear(a) PROVE TypeInv'
  <2>1. PICK w \in rows : Begin(a, [op |-> "clear"], {SlugOf[v.name] : v \in rows},
                                w, rows \ {w}, "fetch")
    BY <1>5 DEF BeginClear
  <2>2. /\ w \in RowType /\ rows \ {w} \subseteq RowType
        /\ {SlugOf[v.name] : v \in rows} \subseteq Slug
        /\ [op |-> "clear"] \in Removal
    BY <1>1 DEF Removal
  <2> QED
    BY <2>1, <2>2, BeginTyped DEF Actor
<1>6. ASSUME NEW op \in {"reap", "drop"}, BeginReap(op) PROVE TypeInv'
  <2>1. PICK w \in rows : Begin(Reaper, [op |-> op], {SlugOf[w.name]}, w, {},
                                IF op = "reap" THEN "stop" ELSE "look")
    BY <1>6 DEF BeginReap
  <2>2. /\ w \in RowType /\ SlugOf[w.name] \in Slug
        /\ [op |-> op] \in Removal
    BY <1>1 DEF Removal
  <2> QED
    BY <2>1, <2>2, BeginTyped DEF Actor
<1> QED
    BY <1>3, <1>4, <1>5, <1>6

\* the operations a request may be at, by what it has in hand
LEMMA Ops ==
    /\ \A j \in Deployment : j.op = "deploy" /\ j.name \in Env
    /\ \A j \in Removal : j.op \in {"delete", "clear", "reap", "drop"}
    /\ Removal \cap Deployment = {}
BY DEF Deployment, Removal

LEMMA InHand ==
    ASSUME TypeInv, NEW a \in Actor, pc[a] # "idle"
    PROVE  /\ Held(a)
           /\ a \in Busy
           /\ job[a] \in Deployment \cup Removal
           /\ job[a].op = "deploy" => job[a] \in Deployment
           /\ job[a].op # "deploy" => job[a] \in Removal /\ row[a] \in RowType
<1>1. Held(a) /\ a \in Busy /\ pc[a] \in DeployPc \cup RemovePc
    BY DEF TypeInv, LocalInv, Busy
<1> QED
    BY <1>1, Ops DEF Held

LEMMA NameTyped ==
    ASSUME TypeInv, NEW a \in Actor, pc[a] # "idle"
    PROVE  NameAt(a) \in Env /\ SlugAt(a) \in Slug
<1>1. NameAt(a) \in Env
    BY InHand DEF NameAt, Deployment, RowType
<1> QED
    BY <1>1, SlugAssumption DEF SlugAt

LEMMA RowDoneTyped ==
    ASSUME TypeInv, NEW a \in Actor, pc[a] \in RemovePc, job[a].op # "deploy",
           RowDone(a), next' \in Nat, next <= next'
    PROVE  LocalInv'
<1>0. pc[a] # "idle" /\ job[a] \in Removal /\ row[a] \in RowType
    BY InHand DEF RemovePc
<1>1. CASE todo[a] = {} /\ Reply(a, {row[a].name}, NowGone)
    BY <1>1, ReplyTyped DEF Answer
<1>2. CASE Quit(a)
    BY <1>2, QuitTyped
<1>3. ASSUME NEW w \in todo[a],
             Goto(a, "fetch"), row' = [row EXCEPT ![a] = w],
             todo' = [todo EXCEPT ![a] = @ \ {w}],
             net' = [net EXCEPT ![a] = 0],
             UNCHANGED <<job, made, scope, crossed, reaped, known>>
      PROVE LocalInv'
  <2>1. 0..next \subseteq 0..next' /\ RowType \subseteq RowType'
    BY Widen DEF TypeInv, DataInv
  <2>2. w \in RowType
    BY DEF TypeInv, LocalInv
  <2>3. /\ pc' \in [Actor -> DeployPc \cup RemovePc \cup {"idle"}]
        /\ job' \in [Actor -> Deployment \cup Removal \cup {NoJob}]
        /\ row' \in [Actor -> RowType' \cup {NoRow}]
        /\ made' \in [Actor -> 0..next']
        /\ todo' \in [Actor -> SUBSET (RowType')]
        /\ scope' \in [Actor -> SUBSET Slug]
        /\ reaped' \subseteq Slug
        /\ known' \in [Env -> Answer]
    BY <1>3, <2>1, <2>2 DEF TypeInv, LocalInv, Goto, RemovePc
  <2>4. net' \in [Actor -> 0..next']
    BY <1>3, <2>1 DEF TypeInv, LocalInv
  <2>5. crossed' \subseteq Busy'
    BY <1>3 DEF TypeInv, LocalInv, Goto, Busy
  <2>6. ASSUME NEW b \in Actor PROVE Held(b)'
    <3>1. CASE b = a
      <4>1. pc'[a] = "fetch" /\ row'[a] = w /\ job'[a] = job[a]
        BY <1>3 DEF TypeInv, LocalInv, Goto
      <4> QED
        BY <4>1, <3>1, <2>1, <2>2, <1>0 DEF Held, DeployPc, RemovePc
    <3>2. CASE b # a
      <4>1. /\ pc'[b] = pc[b] /\ net'[b] = net[b]
            /\ row'[b] = row[b] /\ job'[b] = job[b]
        BY <1>3, <3>2 DEF TypeInv, LocalInv, Goto
      <4>2. Held(b)
        BY DEF TypeInv, LocalInv
      <4> QED
        BY <4>1, <4>2, <2>1 DEF Held, DeployPc, RemovePc
    <3> QED
      BY <3>1, <3>2
  <2> QED
    BY <2>3, <2>4, <2>5, <2>6 DEF LocalInv, RowType
<1> QED
    BY <1>1, <1>2, <1>3 DEF RowDone

LEMMA NetDoneTyped ==
    ASSUME TypeInv, NEW a \in Actor, pc[a] \in RemovePc, NetDone(a),
           next' \in Nat, next <= next'
    PROVE  LocalInv'
<1>0. pc[a] # "idle"
    BY DEF RemovePc
<1>1. CASE job[a].op = "deploy"
  <2> DEFINE label == IF job[a].private THEN "new_net" ELSE "create"
  <2>1. job[a] \in Deployment /\ made' = [made EXCEPT ![a] = made[a]]
    BY <1>0, <1>1, InHand DEF NetDone, TypeInv, LocalInv
  <2>2. made[a] \in 0..next' /\ 0 \in 0..next'
    BY Widen DEF TypeInv, LocalInv, DataInv
  <2>3. Ready(a, label, 0)
    BY <2>1 DEF Ready, DeployPc, RemovePc
  <2>4. Move(a, label) /\ net' = [net EXCEPT ![a] = 0]
    BY <1>1 DEF NetDone
  <2> HIDE DEF label
  <2> QED
    BY <1>0, <2>1, <2>2, <2>3, <2>4, MoveTyped
<1>2. CASE job[a].op # "deploy"
    BY <1>2, RowDoneTyped DEF NetDone
<1> QED
    BY <1>1, <1>2

\* going on with the removal
LEMMA RemoveOnTyped ==
    ASSUME TypeInv, NEW a \in Actor, pc[a] \in RemovePc, NEW label \in RemovePc,
           On(a, label), next' \in Nat, next <= next'
    PROVE  LocalInv'
<1>1. pc[a] # "idle" /\ Held(a)
    BY InHand DEF RemovePc
<1>2. Ready(a, label, net[a])
    BY <1>1 DEF Ready, Held, DeployPc, RemovePc
<1> QED
    BY <1>1, <1>2, OnTyped

\* what changes the containers, and what the changes keep
LEMMA DockerTyped ==
    ASSUME TypeInv, NEW a \in Actor,
           Stopped(a) \/ Removed(a) \/ UNCHANGED docker
    PROVE  docker' \in [Env -> [id : 0..next, net : 0..next]]
BY DEF TypeInv, DataInv, Stopped, Removed, NoContainer

LEMMA GoneReady == \A op : Gone(op) \in RemovePc
BY DEF Gone, RemovePc

LEMMA RemovalTyped ==
    ASSUME TypeInv, NEW a \in Actor,
           Fetch(a) \/ Stop(a) \/ Delete(a) \/ ForceDelete(a) \/ Look(a)
    PROVE  TypeInv'
<1>1. /\ next' = next /\ next \in Nat /\ next <= next' /\ RowType' = RowType
      /\ UNCHANGED <<rows, networks, bridge, routed, late, jobs>>
  <2>1. UNCHANGED <<next, rows, networks, bridge, routed, late, jobs>>
    <3>1. CASE Fetch(a) \/ Look(a)
      BY <3>1 DEF Fetch, Look, database, labhost
    <3>2. CASE Stop(a) \/ Delete(a) \/ ForceDelete(a)
      BY <3>2 DEF Stop, Delete, ForceDelete, database
    <3> QED
      BY <3>1, <3>2
  <2> QED
    BY <2>1 DEF TypeInv, DataInv, RowType
<1>2. pc[a] \in RemovePc /\ pc[a] # "idle"
    BY DEF Fetch, Stop, Delete, ForceDelete, Look, RemovePc
<1>3. Fault(a) \/ NoFault
    BY DEF Fetch, Stop, Delete, ForceDelete, Look
<1>4. Stopped(a) \/ Removed(a) \/ UNCHANGED docker
    BY DEF Fetch, Stop, Delete, ForceDelete, Look, labhost
<1>5. SpentInv'
    BY <1>3, FaultTyped
<1>6. DataInv'
    BY <1>1, <1>4, DockerTyped DEF TypeInv, DataInv
<1>7. ASSUME Quit(a) PROVE LocalInv'
    BY <1>1, <1>7, QuitTyped
<1>8. ASSUME NEW label \in RemovePc, On(a, label) PROVE LocalInv'
    BY <1>1, <1>2, <1>8, RemoveOnTyped
<1>9. {"stop", "delete", "force", "row", "route"} \subseteq RemovePc
    BY DEF RemovePc
<1>10. LocalInv'
  <2>1. CASE Fetch(a)
    BY <2>1, <1>7, <1>8, <1>9 DEF Fetch
  <2>2. CASE Stop(a)
    BY <2>2, <1>7, <1>8, <1>9 DEF Stop
  <2>3. CASE Delete(a)
    BY <2>3, <1>7, <1>8, <1>9, GoneReady DEF Delete
  <2>4. CASE ForceDelete(a)
    <3>1. ASSUME job[a].op = "clear", RowDone(a) PROVE LocalInv'
      BY <3>1, <1>1, <1>2, RowDoneTyped
    <3> QED
      BY <2>4, <3>1, <1>7, <1>8, <1>9, GoneReady DEF ForceDelete
  <2>5. CASE Look(a)
    BY <2>5, <1>7, <1>8, <1>9 DEF Look
  <2> QED
    BY <2>1, <2>2, <2>3, <2>4, <2>5
<1> QED
    BY <1>5, <1>6, <1>10 DEF TypeInv

LEMMA DeleteRowTyped ==
    ASSUME TypeInv, NEW a \in Actor, DeleteRow(a)
    PROVE  TypeInv'
<1>1. /\ next' = next /\ next \in Nat /\ next <= next' /\ RowType' = RowType
      /\ pc[a] \in RemovePc /\ rows' \subseteq rows
      /\ UNCHANGED <<networks, docker, bridge, routed, late, jobs>>
    BY DEF DeleteRow, labhost, TypeInv, DataInv, RowType, RemovePc
<1>2. SpentInv'
    BY FaultTyped DEF DeleteRow
<1>3. DataInv'
    BY <1>1 DEF TypeInv, DataInv
<1>4. LocalInv'
  <2>1. CASE job[a].op = "reap"
    <3>1. scope[a] \subseteq Slug /\ reaped \subseteq Slug /\ known \in [Env -> Answer]
      BY DEF TypeInv, LocalInv
    <3> QED
      BY <2>1, <3>1, <1>1, OverTyped DEF DeleteRow
  <2>2. CASE job[a].op # "reap"
    <3>1. "route" \in RemovePc
      BY DEF RemovePc
    <3> QED
      BY <2>2, <3>1, <1>1, RemoveOnTyped DEF DeleteRow
  <2> QED
    BY <2>1, <2>2
<1> QED
    BY <1>2, <1>3, <1>4 DEF TypeInv

LEMMA DropRouteTyped ==
    ASSUME TypeInv, NEW a \in Actor, DropRoute(a)
    PROVE  TypeInv'
<1>1. /\ next' = next /\ next \in Nat /\ next <= next' /\ RowType' = RowType
      /\ pc[a] \in RemovePc /\ routed' \subseteq routed
      /\ UNCHANGED <<rows, networks, docker, bridge, late, jobs>>
    BY DEF DropRoute, database, TypeInv, DataInv, RowType, RemovePc
<1>2. SpentInv'
    BY FaultTyped DEF DropRoute
<1>3. DataInv'
    BY <1>1 DEF TypeInv, DataInv
<1>4. ASSUME Unrouted(a) PROVE LocalInv'
  <2>1. {"row", "read_net"} \subseteq RemovePc
    BY DEF RemovePc
  <2>2. ASSUME Over(a), reaped' = reaped \cup scope[a], UNCHANGED known
        PROVE LocalInv'
    <3>1. scope[a] \subseteq Slug /\ reaped \subseteq Slug /\ known \in [Env -> Answer]
      BY DEF TypeInv, LocalInv
    <3> QED
      BY <2>2, <3>1, <1>1, OverTyped
  <2> QED
    BY <1>4, <2>1, <2>2, <1>1, RemoveOnTyped DEF Unrouted
<1>5. LocalInv'
    BY <1>1, <1>4, QuitTyped DEF DropRoute
<1> QED
    BY <1>2, <1>3, <1>5 DEF TypeInv

LEMMA NetRemovalTyped ==
    ASSUME TypeInv, NEW a \in Actor, ReadNet(a) \/ DropNet(a) \/ DeleteNetRow(a)
    PROVE  TypeInv'
<1>1. /\ next' = next /\ next \in Nat /\ next <= next' /\ RowType' = RowType
      /\ pc[a] \in RemovePc /\ pc[a] # "idle" /\ networks' \subseteq networks
      /\ UNCHANGED <<rows, docker, routed, late, jobs>>
  <2>1. UNCHANGED <<next, rows, docker, routed, late, jobs>> /\ networks' \subseteq networks
    <3>1. CASE ReadNet(a)
      BY <3>1 DEF ReadNet, database, labhost
    <3>2. CASE DropNet(a)
      BY <3>2 DEF DropNet, database
    <3>3. CASE DeleteNetRow(a)
      BY <3>3 DEF DeleteNetRow, labhost
    <3> QED
      BY <3>1, <3>2, <3>3
  <2>2. pc[a] \in {"read_net", "drop_net", "net_row"}
    BY DEF ReadNet, DropNet, DeleteNetRow
  <2> QED
    BY <2>1, <2>2 DEF TypeInv, DataInv, RowType, RemovePc
<1>2. bridge' \in [Slug -> 0..next]
    BY DEF ReadNet, DropNet, DeleteNetRow, labhost, WithoutNet, TypeInv, DataInv
<1>3. SpentInv'
    BY FaultTyped DEF ReadNet, DropNet, DeleteNetRow
<1>4. DataInv'
    BY <1>1, <1>2 DEF TypeInv, DataInv
<1>5. ASSUME NetDone(a) PROVE LocalInv'
    BY <1>5, <1>1, NetDoneTyped
<1>6. ASSUME Quit(a) PROVE LocalInv'
    BY <1>6, <1>1, QuitTyped
<1>7. LocalInv'
  <2>1. CASE ReadNet(a)
    <3>1. ASSUME Move(a, "drop_net"), UNCHANGED made,
                 NEW n \in NetworksOf(SlugAt(a)), net' = [net EXCEPT ![a] = n.id]
          PROVE LocalInv'
      <4>1. n.id \in 0..next' /\ made[a] \in 0..next'
        BY <1>1 DEF NetworksOf, TypeInv, DataInv, LocalInv
      <4>2. Ready(a, "drop_net", n.id)
        BY <1>1, InHand DEF Ready, Held, DeployPc, RemovePc
      <4>3. made' = [made EXCEPT ![a] = made[a]]
        BY <3>1 DEF TypeInv, LocalInv
      <4> QED
        BY <3>1, <4>1, <4>2, <4>3, <1>1, MoveTyped
    <3> QED
      BY <2>1, <3>1, <1>5, <1>6 DEF ReadNet
  <2>2. CASE DropNet(a)
    <3>1. "net_row" \in RemovePc
      BY DEF RemovePc
    <3> QED
      BY <2>2, <3>1, <1>1, <1>5, <1>6, RemoveOnTyped DEF DropNet
  <2>3. CASE DeleteNetRow(a)
    BY <2>3, <1>5 DEF DeleteNetRow
  <2> QED
    BY <2>1, <2>2, <2>3
<1> QED
    BY <1>3, <1>4, <1>7 DEF TypeInv

LEMMA NewNetTyped ==
    ASSUME TypeInv, NEW a \in Actor, NewNet(a)
    PROVE  TypeInv'
<1>1. /\ next \in Nat \ {0} /\ next' = next + 1 /\ next' \in Nat /\ next <= next'
      /\ pc[a] = "new_net" /\ pc[a] # "idle"
      /\ UNCHANGED <<rows, networks, docker, routed, late, jobs>>
    BY DEF NewNet, database, TypeInv, DataInv
<1>2. 0..next \subseteq 0..next' /\ RowType \subseteq RowType'
    BY <1>1, Widen
<1>3. SlugAt(a) \in Slug /\ Held(a)
    BY <1>1, NameTyped, InHand
<1>4. bridge' \in [Slug -> 0..next']
  <2>1. bridge' = [bridge EXCEPT ![SlugAt(a)] = next] \/ bridge' = bridge
    BY DEF NewNet
  <2> QED
    BY <2>1, <1>1, <1>2 DEF TypeInv, DataInv
<1>5. SpentInv'
    BY FaultTyped DEF NewNet
<1>6. DataInv'
    BY <1>1, <1>2, <1>4 DEF TypeInv, DataInv
<1>7. CASE Quit(a)
    BY <1>1, <1>5, <1>6, <1>7, QuitTyped DEF TypeInv
<1>8. CASE Move(a, "insert_net") /\ net' = [net EXCEPT ![a] = next] /\ UNCHANGED made
  <2>1. next \in 0..next' /\ made[a] \in 0..next'
    BY <1>1, <1>2 DEF TypeInv, LocalInv
  <2>2. Ready(a, "insert_net", next)
    BY <1>1, <1>3 DEF Ready, Held, DeployPc, RemovePc
  <2>3. made' = [made EXCEPT ![a] = made[a]]
    BY <1>8 DEF TypeInv, LocalInv
  <2>4. LocalInv'
    BY <1>1, <1>8, <2>1, <2>2, <2>3, MoveTyped
  <2> QED
    BY <1>5, <1>6, <2>4 DEF TypeInv
<1> QED
    BY <1>7, <1>8 DEF NewNet

LEMMA InsertNetTyped ==
    ASSUME TypeInv, NEW a \in Actor, InsertNet(a)
    PROVE  TypeInv'
<1>1. /\ next \in Nat /\ next' = next /\ next <= next' /\ RowType' = RowType
      /\ pc[a] = "insert_net" /\ pc[a] # "idle"
      /\ UNCHANGED <<rows, docker, bridge, routed, late, jobs>>
    BY DEF InsertNet, labhost, TypeInv, DataInv, RowType
<1>2. SlugAt(a) \in Slug /\ Held(a) /\ net[a] \in 0..next
    BY <1>1, NameTyped, InHand DEF TypeInv, LocalInv
<1>3. DataInv'
    BY <1>1, <1>2 DEF TypeInv, DataInv, InsertNet
<1>4. SpentInv'
    BY FaultTyped DEF InsertNet
<1>5. Ready(a, "create", net[a])
    BY <1>1, <1>2 DEF Ready, Held, DeployPc, RemovePc
<1>6. On(a, "create")
    BY DEF InsertNet
<1> QED
    BY <1>1, <1>3, <1>4, <1>5, <1>6, OnTyped DEF TypeInv

\* going on with the deployment, past the creation
LEMMA DeployOnTyped ==
    ASSUME TypeInv, NEW a \in Actor, pc[a] \in DeployPc,
           NEW label \in {"undo_net", "undo_row", "get", "put"},
           On(a, label), next' \in Nat, next <= next'
    PROVE  LocalInv'
<1>1. pc[a] # "idle" /\ Held(a)
    BY InHand DEF DeployPc
<1>2. Ready(a, label, net[a])
    BY <1>1 DEF Ready, Held, DeployPc, RemovePc
<1> QED
    BY <1>1, <1>2, OnTyped

LEMMA CreationTyped ==
    ASSUME TypeInv, NEW j \in Deployment, next' = next + 1,
           Creates(j, next) \/ Leaves(j, next) \/ UNCHANGED docker
    PROVE  docker' \in [Env -> [id : 0..next', net : 0..next']]
<1>1. 0..next \subseteq 0..next' /\ next \in 0..next' /\ 0 \in 0..next'
    BY Widen DEF TypeInv, DataInv
<1>2. SlugOf[j.name] \in Slug /\ j.name \in Env
    BY SlugAssumption DEF Deployment
<1>3. docker \in [Env -> [id : 0..next', net : 0..next']]
    BY <1>1 DEF TypeInv, DataInv
<1>4. bridge[SlugOf[j.name]] \in 0..next'
    BY <1>1, <1>2 DEF TypeInv, DataInv
<1>5. CASE Creates(j, next)
    BY <1>1, <1>3, <1>4, <1>5 DEF Creates
<1>6. CASE Leaves(j, next)
    BY <1>1, <1>3, <1>6 DEF Leaves
<1> QED
    BY <1>3, <1>5, <1>6

LEMMA CreateTyped ==
    ASSUME TypeInv, NEW a \in Actor, Create(a)
    PROVE  TypeInv'
<1>1. /\ next \in Nat \ {0} /\ next' = next + 1 /\ next' \in Nat /\ next <= next'
      /\ pc[a] = "create" /\ pc[a] # "idle" /\ pc[a] \in DeployPc
      /\ UNCHANGED <<rows, networks, bridge, routed, jobs>>
    BY DEF Create, database, TypeInv, DataInv, DeployPc
<1>2. 0..next \subseteq 0..next' /\ RowType \subseteq RowType'
    BY <1>1, Widen
<1>3. Held(a) /\ job[a] \in Deployment /\ scope[a] \subseteq Slug
    BY <1>1, InHand DEF Held, TypeInv, LocalInv
<1>4. docker' \in [Env -> [id : 0..next', net : 0..next']]
  <2>1. Creates(job[a], next) \/ Leaves(job[a], next) \/ UNCHANGED docker
    BY DEF Create
  <2> QED
    BY <2>1, <1>1, <1>3, CreationTyped
<1>5. late' \subseteq Deployment
    BY <1>3 DEF Create, TypeInv, DataInv
<1>6. DataInv'
    BY <1>1, <1>2, <1>4, <1>5 DEF TypeInv, DataInv
<1>7. SpentInv'
  <2>1. \/ Fault(a) \/ NoFault
        \/ UNCHANGED faults /\ spoiled' = spoiled \cup scope[a]
    BY DEF Create
  <2> QED
    BY <2>1, <1>3, FaultTyped DEF TypeInv, SpentInv
<1>8. CASE Undo(a)
  <2>1. LocalInv'
    BY <1>1, <1>8, QuitTyped, DeployOnTyped DEF Undo
  <2> QED
    BY <1>6, <1>7, <2>1 DEF TypeInv
<1>9. CASE Move(a, "store") /\ made' = [made EXCEPT ![a] = next] /\ UNCHANGED net
  <2>1. next \in 0..next' /\ net[a] \in 0..next'
    BY <1>1, <1>2 DEF TypeInv, LocalInv
  <2>2. Ready(a, "store", net[a])
    BY <1>1, <1>3 DEF Ready, Held, DeployPc, RemovePc
  <2>3. net' = [net EXCEPT ![a] = net[a]]
    BY <1>9 DEF TypeInv, LocalInv
  <2>4. LocalInv'
    BY <1>1, <1>9, <2>1, <2>2, <2>3, MoveTyped
  <2> QED
    BY <1>6, <1>7, <2>4 DEF TypeInv
<1> QED
    BY <1>8, <1>9 DEF Create

LEMMA UndoTyped ==
    ASSUME TypeInv, NEW a \in Actor, UndoNet(a) \/ UndoRow(a)
    PROVE  TypeInv'
<1>1. /\ next \in Nat /\ next' = next /\ next <= next' /\ RowType' = RowType
      /\ pc[a] \in DeployPc /\ networks' \subseteq networks
      /\ UNCHANGED <<rows, docker, routed, late, jobs>>
  <2>1. CASE UndoNet(a)
    BY <2>1 DEF UndoNet, database, TypeInv, DataInv, RowType, DeployPc
  <2>2. CASE UndoRow(a)
    BY <2>2 DEF UndoRow, labhost, TypeInv, DataInv, RowType, DeployPc
  <2> QED
    BY <2>1, <2>2
<1>2. bridge' \in [Slug -> 0..next]
    BY DEF UndoNet, UndoRow, labhost, WithoutNet, TypeInv, DataInv
<1>3. DataInv'
    BY <1>1, <1>2 DEF TypeInv, DataInv
<1>4. SpentInv'
    BY FaultTyped DEF UndoNet, UndoRow
<1>5. LocalInv'
    BY <1>1, QuitTyped, DeployOnTyped DEF UndoNet, UndoRow
<1> QED
    BY <1>3, <1>4, <1>5 DEF TypeInv

LEMMA DeployDoneTyped ==
    ASSUME TypeInv, NEW a \in Actor, pc[a] \in DeployPc, DeployDone(a),
           next' \in Nat, next <= next'
    PROVE  LocalInv'
<1>1. job[a] \in Answer
    BY InHand DEF Held, Answer, DeployPc
<1> QED
    BY <1>1, ReplyTyped DEF DeployDone

LEMMA StoreTyped ==
    ASSUME TypeInv, NEW a \in Actor, Store(a)
    PROVE  TypeInv'
<1>1. /\ next \in Nat \ {0} /\ next' = next + 1 /\ next' \in Nat /\ next <= next'
      /\ pc[a] = "store" /\ pc[a] # "idle" /\ pc[a] \in DeployPc
      /\ UNCHANGED <<networks, docker, bridge, routed, late, jobs>>
    BY DEF Store, labhost, TypeInv, DataInv, DeployPc
<1>2. 0..next \subseteq 0..next' /\ RowType \subseteq RowType' /\ next \in 0..next'
    BY <1>1, Widen
<1>3. /\ job[a] \in Deployment /\ job[a].name \in Env
      /\ made[a] \in 0..next' /\ row[a] \in RowType \cup {NoRow}
    BY <1>1, <1>2, InHand DEF Held, TypeInv, LocalInv, Deployment
<1>4. rows' \subseteq RowType'
  <2>1. CASE rows' = rows \cup {[pk |-> next, name |-> job[a].name, id |-> made[a]]}
    BY <2>1, <1>2, <1>3 DEF TypeInv, DataInv, RowType
  <2>2. CASE row[a] # NoRow /\ rows' = {w \in rows : w.pk # row[a].pk}
                                        \cup {[row[a] EXCEPT !.id = made[a]]}
    <3>1. [row[a] EXCEPT !.id = made[a]] \in RowType'
      BY <2>2, <1>2, <1>3 DEF RowType
    <3> QED
      BY <2>2, <3>1, <1>2 DEF TypeInv, DataInv
  <2>3. CASE rows' = rows
    BY <2>3, <1>2 DEF TypeInv, DataInv
  <2> QED
    BY <2>1, <2>2, <2>3 DEF Store
<1>5. DataInv'
    BY <1>1, <1>2, <1>4 DEF TypeInv, DataInv
<1>6. SpentInv'
    BY FaultTyped DEF Store
<1>7. LocalInv'
    BY <1>1, QuitTyped, DeployDoneTyped, DeployOnTyped DEF Store, Stored
<1> QED
    BY <1>5, <1>6, <1>7 DEF TypeInv

LEMMA RoutingTyped ==
    ASSUME TypeInv, NEW a \in Actor, GetPort(a) \/ PutRoute(a)
    PROVE  TypeInv'
<1>1. /\ next \in Nat /\ next' = next /\ next <= next' /\ RowType' = RowType
      /\ pc[a] \in DeployPc /\ pc[a] # "idle"
      /\ UNCHANGED <<rows, networks, docker, bridge, late, jobs>>
  <2>1. CASE GetPort(a)
    BY <2>1 DEF GetPort, database, labhost, TypeInv, DataInv, RowType, DeployPc
  <2>2. CASE PutRoute(a)
    BY <2>2 DEF PutRoute, database, TypeInv, DataInv, RowType, DeployPc
  <2> QED
    BY <2>1, <2>2
<1>2. routed' \subseteq Slug
    BY <1>1, NameTyped DEF GetPort, PutRoute, labhost, TypeInv, DataInv
<1>3. DataInv'
    BY <1>1, <1>2 DEF TypeInv, DataInv
<1>4. SpentInv'
    BY FaultTyped DEF GetPort, PutRoute
<1>5. LocalInv'
    BY <1>1, QuitTyped, DeployDoneTyped, DeployOnTyped DEF GetPort, PutRoute
<1> QED
    BY <1>3, <1>4, <1>5 DEF TypeInv

LEMMA LateTyped ==
    ASSUME TypeInv, NEW j \in late, LateCreate(j)
    PROVE  TypeInv'
<1>1. /\ next \in Nat \ {0} /\ next' = next + 1 /\ next' \in Nat /\ next <= next'
      /\ late' \subseteq late /\ j \in Deployment
      /\ UNCHANGED <<rows, networks, bridge, routed, pc, job, row, net, made, todo,
                     jobs, faults, scope, crossed, spoiled, reaped, known>>
    BY DEF LateCreate, database, local, history, TypeInv, DataInv
<1>2. 0..next \subseteq 0..next' /\ RowType \subseteq RowType'
    BY <1>1, Widen
<1>3. docker' \in [Env -> [id : 0..next', net : 0..next']]
    BY <1>1, CreationTyped DEF LateCreate
<1>4. DataInv'
    BY <1>1, <1>2, <1>3 DEF TypeInv, DataInv
<1>5. SpentInv'
    BY <1>1 DEF TypeInv, SpentInv
<1>6. ASSUME NEW b \in Actor PROVE Held(b)'
  <2>1. Held(b)
    BY DEF TypeInv, LocalInv
  <2> QED
    BY <2>1, <1>1, <1>2 DEF Held, DeployPc, RemovePc
<1>7. Busy' = Busy
    BY <1>1 DEF Busy
<1>8. LocalInv'
    BY <1>1, <1>2, <1>6, <1>7 DEF TypeInv, LocalInv
<1> QED
    BY <1>4, <1>5, <1>8 DEF TypeInv

LEMMA RestartTyped ==
    ASSUME TypeInv, Restart
    PROVE  TypeInv'
<1>1. UNCHANGED <<rows, networks, docker, bridge, routed, late, next, jobs, reaped, known>>
      /\ RowType' = RowType
    BY DEF Restart, database, labhost, RowType
<1>2. DataInv'
    BY <1>1 DEF TypeInv, DataInv
<1>3. SpentInv'
    BY LimitsAssumption DEF TypeInv, SpentInv, LocalInv, Restart
<1>4. ASSUME NEW b \in Actor PROVE Held(b)'
    BY DEF Restart, Held, DeployPc, RemovePc
<1>5. /\ net' \in [Actor -> 0..next'] /\ made' \in [Actor -> 0..next']
    BY <1>1 DEF Restart, TypeInv, DataInv
<1>6. LocalInv'
    BY <1>1, <1>4, <1>5 DEF TypeInv, LocalInv, Restart
<1> QED
    BY <1>2, <1>3, <1>6 DEF TypeInv

LEMMA StutterTyped ==
    ASSUME TypeInv, UNCHANGED vars
    PROVE  TypeInv'
<1>1. UNCHANGED <<rows, networks, docker, bridge, routed, late, next, jobs, faults,
                  pc, job, row, net, made, todo, scope, crossed, spoiled, reaped, known>>
    BY DEF vars, database, labhost, local, history
<1>2. RowType' = RowType /\ Busy' = Busy
    BY <1>1 DEF RowType, Busy
<1>3. ASSUME NEW b \in Actor PROVE Held(b)'
    BY <1>1, <1>2 DEF Held, TypeInv, LocalInv
<1> QED
    BY <1>1, <1>2, <1>3 DEF TypeInv, DataInv, SpentInv, LocalInv

LEMMA StepTyped ==
    ASSUME TypeInv, NEW a \in Actor, Step(a)
    PROVE  TypeInv'
BY RemovalTyped, DeleteRowTyped, DropRouteTyped, NetRemovalTyped, NewNetTyped,
   InsertNetTyped, CreateTyped, UndoTyped, StoreTyped, RoutingTyped DEF Step

LEMMA NextTyped ==
    ASSUME TypeInv, [Next]_vars
    PROVE  TypeInv'
<1>1. ASSUME NEW a \in Actor, Step(a) PROVE TypeInv'
    BY <1>1, StepTyped
<1>2. ASSUME NEW j \in late, LateCreate(j) PROVE TypeInv'
    BY <1>2, LateTyped
<1>3. CASE Restart
    BY <1>3, RestartTyped
<1>4. CASE UNCHANGED vars
    BY <1>4, StutterTyped
<1> QED
    BY <1>1, <1>2, <1>3, <1>4, BeginsTyped DEF Next

LEMMA AlwaysTyped == Spec => []TypeInv
BY Initial, NextTyped, PTL DEF Spec

\* Rows, networks, routes and requests keep their types, and a deployment holds
\* a private network when it creates its container exactly if it asked for
\* one: what deploy_lab_environment compensates is what it has created.
THEOREM EnvironmentsTyped == Spec => []TypeOK
BY AlwaysTyped, Parts, PTL

-----------------------------------------------------------------------------
(* No two rows name one container. A container's id is new when it is made,  *)
(* and its maker alone holds it until it stores it.                          *)

FreshInv ==
    /\ \A w \in rows : w.id < next
    /\ \A a \in Actor : made[a] < next
    /\ \A a \in Actor : pc[a] = "store" => \A w \in rows : w.id # made[a]
    /\ \A a, b \in Actor :
        pc[a] = "store" /\ pc[b] = "store" /\ made[a] = made[b] => a = b
    /\ OneRowPerContainer

\* a step that writes no new row and hands out no container
Quiet ==
    /\ rows' \subseteq rows
    /\ next' \in Nat /\ next <= next'
    /\ \A a \in Actor : made'[a] \in {made[a], 0}
    /\ \A a \in Actor : pc'[a] = "store" => pc[a] = "store" /\ made'[a] = made[a]

LEMMA QuietFresh ==
    ASSUME TypeInv, FreshInv, Quiet
    PROVE  FreshInv'
<1>1. /\ \A w \in rows : w.id \in Nat
      /\ \A a \in Actor : made[a] \in Nat
      /\ next \in Nat \ {0}
    BY DEF TypeInv, DataInv, LocalInv, RowType
<1>2. \A w \in rows' : w.id < next'
    BY <1>1 DEF FreshInv, Quiet
<1>3. \A a \in Actor : made'[a] < next'
  <2>1. ASSUME NEW a \in Actor PROVE made'[a] < next'
    <3>1. made[a] < next /\ made[a] \in Nat /\ 0 < next
      BY <1>1 DEF FreshInv
    <3>2. made'[a] = made[a] \/ made'[a] = 0
      BY DEF Quiet
    <3> QED
      BY <3>1, <3>2, <1>1 DEF Quiet
  <2> QED
    BY <2>1
<1> QED
    BY <1>2, <1>3 DEF FreshInv, Quiet, OneRowPerContainer

\* a request ends or goes on, and has no container to store
Passes(a) ==
    \/ Over(a)
    \/ /\ UNCHANGED made
       /\ \E label : label # "store" /\ Goto(a, label)

LEMMA PassesQuiet ==
    ASSUME TypeInv, NEW a \in Actor, Passes(a),
           rows' \subseteq rows, next' \in Nat, next <= next'
    PROVE  Quiet
<1>1. CASE Over(a)
    BY <1>1 DEF TypeInv, LocalInv, Over, Goto, Quiet
<1>2. ASSUME NEW label, label # "store", Goto(a, label), UNCHANGED made
      PROVE Quiet
    BY <1>2 DEF TypeInv, LocalInv, Goto, Quiet
<1> QED
    BY <1>1, <1>2 DEF Passes

LEMMA Ways ==
    ASSUME NEW a \in Actor
    PROVE  /\ Quit(a) => Passes(a)
           /\ DeployDone(a) => Passes(a)
           /\ \A label : label # "store" /\ On(a, label) => Passes(a)
           /\ \A label : label # "store" /\ Move(a, label) /\ UNCHANGED made
                            => Passes(a)
           /\ RowDone(a) => Passes(a)
           /\ Undo(a) => Passes(a)
           /\ Stored(a) => Passes(a)
           /\ Unrouted(a) => Passes(a)
<1>1. Quit(a) => Passes(a)
    BY DEF Quit, Passes
<1>2. DeployDone(a) => Passes(a)
    BY DEF DeployDone, Reply, Passes
<1>3. \A label : label # "store" /\ On(a, label) => Passes(a)
    BY DEF On, Move, Passes
<1>4. \A label : label # "store" /\ Move(a, label) /\ UNCHANGED made => Passes(a)
    BY DEF Move, Passes
<1>5. RowDone(a) => Passes(a)
    BY <1>1 DEF RowDone, Reply, Passes
<1>6. Undo(a) => Passes(a)
    BY <1>1, <1>3 DEF Undo
<1>7. Stored(a) => Passes(a)
    BY <1>2, <1>3 DEF Stored
<1>8. Unrouted(a) => Passes(a)
    BY <1>3 DEF Unrouted, Passes
<1> QED
    BY <1>1, <1>2, <1>3, <1>4, <1>5, <1>6, <1>7, <1>8

LEMMA NetDonePasses ==
    ASSUME NEW a \in Actor, NetDone(a)
    PROVE  Passes(a)
<1>1. CASE job[a].op = "deploy"
  <2>1. PICK label : label \in {"new_net", "create"} /\ Move(a, label) /\ UNCHANGED made
    BY <1>1 DEF NetDone
  <2> QED
    BY <2>1, Ways
<1>2. CASE job[a].op # "deploy"
    BY <1>2, Ways DEF NetDone
<1> QED
    BY <1>1, <1>2

\* every step but the creation and the storing
LEMMA StepPasses ==
    ASSUME TypeInv, NEW a \in Actor, Step(a), ~Create(a), ~Store(a)
    PROVE  Quiet
<1>0. next \in Nat
    BY DEF TypeInv, DataInv
<1>1. ASSUME Passes(a), rows' \subseteq rows, next' = next \/ next' = next + 1
      PROVE Quiet
    BY <1>0, <1>1, PassesQuiet
<1>2. CASE Fetch(a)
    BY <1>1, <1>2, Ways DEF Fetch, database
<1>3. CASE Stop(a)
    BY <1>1, <1>3, Ways DEF Stop, database
<1>4. Gone(job[a].op) # "store"
    BY DEF Gone
<1>5. CASE Delete(a)
    BY <1>1, <1>4, <1>5, Ways DEF Delete, database
<1>6. CASE ForceDelete(a)
    BY <1>1, <1>4, <1>6, Ways DEF ForceDelete, database
<1>7. CASE Look(a)
    BY <1>1, <1>7, Ways DEF Look, database
<1>8. CASE DeleteRow(a)
  <2>1. Passes(a)
    BY <1>8, Ways DEF DeleteRow, Passes
  <2> QED
    BY <1>1, <1>8, <2>1 DEF DeleteRow
<1>9. CASE DropRoute(a)
    BY <1>1, <1>9, Ways DEF DropRoute, database
<1>10. CASE ReadNet(a)
  <2>1. Passes(a)
    BY <1>10, Ways, NetDonePasses DEF ReadNet
  <2> QED
    BY <1>1, <1>10, <2>1 DEF ReadNet, database
<1>11. CASE DropNet(a)
    BY <1>1, <1>11, Ways, NetDonePasses DEF DropNet, database
<1>12. CASE DeleteNetRow(a)
    BY <1>1, <1>12, NetDonePasses DEF DeleteNetRow
<1>13. CASE NewNet(a)
    BY <1>1, <1>13, Ways DEF NewNet, database
<1>14. CASE InsertNet(a)
    BY <1>1, <1>14, Ways DEF InsertNet
<1>15. CASE UndoNet(a)
    BY <1>1, <1>15, Ways DEF UndoNet, database
<1>16. CASE UndoRow(a)
    BY <1>1, <1>16, Ways DEF UndoRow
<1>17. CASE GetPort(a)
    BY <1>1, <1>17, Ways DEF GetPort, database
<1>18. CASE PutRoute(a)
    BY <1>1, <1>18, Ways DEF PutRoute, database
<1> QED
    BY <1>2, <1>3, <1>5, <1>6, <1>7, <1>8, <1>9, <1>10, <1>11, <1>12, <1>13,
       <1>14, <1>15, <1>16, <1>17, <1>18 DEF Step

LEMMA CreateFresh ==
    ASSUME TypeInv, FreshInv, NEW a \in Actor, Create(a)
    PROVE  FreshInv'
<1>1. rows' = rows /\ next \in Nat \ {0} /\ next' = next + 1
    BY DEF Create, database, TypeInv, DataInv
<1>2. CASE Undo(a)
  <2>1. Quiet
    BY <1>1, <1>2, Ways, PassesQuiet
  <2> QED
    BY <2>1, QuietFresh
<1>3. CASE Move(a, "store") /\ made' = [made EXCEPT ![a] = next]
  <2>1. /\ made'[a] = next
        /\ \A b \in Actor : b # a => made'[b] = made[b] /\ pc'[b] = pc[b]
    BY <1>3 DEF Move, Goto, TypeInv, LocalInv
  <2>2. /\ \A w \in rows : w.id \in Nat /\ w.id < next
        /\ \A b \in Actor : made[b] \in Nat /\ made[b] < next
    BY DEF TypeInv, DataInv, LocalInv, RowType, FreshInv
  <2>3. \A b \in Actor : made'[b] < next'
  <3>1. ASSUME NEW b \in Actor PROVE made'[b] < next'
    BY <1>1, <2>1, <2>2
  <3> QED
    BY <3>1
  <2>4. \A w \in rows' : w.id < next' /\ w.id # next
    BY <1>1, <2>2
  <2>5. \A b \in Actor : made[b] # next
    BY <1>1, <2>2
  <2> QED
    BY <1>1, <2>1, <2>3, <2>4, <2>5 DEF FreshInv, OneRowPerContainer
<1> QED
    BY <1>2, <1>3 DEF Create

LEMMA StoreFresh ==
    ASSUME TypeInv, FreshInv, NEW a \in Actor, Store(a)
    PROVE  FreshInv'
<1>1. /\ next \in Nat \ {0} /\ next' = next + 1 /\ pc[a] = "store"
      /\ Passes(a)
    BY Ways DEF Store, TypeInv, DataInv
<1>2. CASE rows' = rows
  <2>1. Quiet
    BY <1>1, <1>2, PassesQuiet
  <2> QED
    BY <2>1, QuietFresh
<1>3. ASSUME NEW new, new.id = made[a], NEW old \in SUBSET rows,
             rows' = old \cup {new}
      PROVE FreshInv'
  <2>1. /\ \A b \in Actor : made'[b] \in {made[b], 0}
        /\ \A b \in Actor : pc'[b] = "store" =>
              pc[b] = "store" /\ made'[b] = made[b] /\ b # a
    BY <1>1 DEF TypeInv, LocalInv, Passes, Over, Goto
  <2>2. /\ \A w \in rows : w.id \in Nat /\ w.id < next /\ w.id # made[a]
        /\ \A b \in Actor : made[b] \in Nat /\ made[b] < next
    BY <1>1 DEF TypeInv, DataInv, LocalInv, RowType, FreshInv
  <2>3. \A b \in Actor : made'[b] < next'
    <3>1. ASSUME NEW b \in Actor PROVE made'[b] < next'
      BY <1>1, <2>1, <2>2
    <3> QED
      BY <3>1
  <2>4. \A w \in rows' : w.id < next'
    BY <1>1, <1>3, <2>2
  <2>5. OneRowPerContainer'
    BY <1>3, <2>2 DEF FreshInv, OneRowPerContainer
  <2>6. ASSUME NEW b \in Actor, pc'[b] = "store", NEW w \in rows'
        PROVE w.id # made'[b]
    <3>1. pc[b] = "store" /\ made'[b] = made[b] /\ b # a
      BY <2>1, <2>6
    <3>2. made[b] # made[a]
      BY <1>1, <3>1 DEF FreshInv
    <3> QED
      BY <1>3, <3>1, <3>2 DEF FreshInv
  <2>7. ASSUME NEW b \in Actor, NEW c \in Actor,
               pc'[b] = "store", pc'[c] = "store", made'[b] = made'[c]
        PROVE b = c
    BY <2>1, <2>7 DEF FreshInv
  <2> QED
    BY <2>3, <2>4, <2>5, <2>6, <2>7 DEF FreshInv
<1>4. CASE rows' = rows \cup {[pk |-> next, name |-> job[a].name, id |-> made[a]]}
    BY <1>3, <1>4
<1>5. CASE /\ row[a] # NoRow
           /\ rows' = {w \in rows : w.pk # row[a].pk} \cup {[row[a] EXCEPT !.id = made[a]]}
  <2>1. [row[a] EXCEPT !.id = made[a]].id = made[a]
    BY <1>5 DEF TypeInv, LocalInv, RowType
  <2>2. {w \in rows : w.pk # row[a].pk} \in SUBSET rows
    OBVIOUS
  <2> QED
    BY <1>3, <1>5, <2>1, <2>2
<1> QED
    BY <1>2, <1>4, <1>5 DEF Store

LEMMA FreshKept ==
    ASSUME TypeInv, FreshInv, [Next]_vars
    PROVE  FreshInv'
<1>0. next \in Nat
    BY DEF TypeInv, DataInv
<1>1. ASSUME NEW a \in Actor, Step(a) PROVE FreshInv'
    BY <1>1, StepPasses, QuietFresh, CreateFresh, StoreFresh
<1>2. ASSUME NEW a \in Actor, NEW j, NEW slugs, NEW first, NEW rest, NEW label,
             Begin(a, j, slugs, first, rest, label), label # "store"
      PROVE FreshInv'
  <2>1. /\ UNCHANGED <<rows, next, made>> /\ Goto(a, label)
    BY <1>2 DEF Begin, database
  <2> QED
    BY <1>0, <1>2, <2>1, PassesQuiet, QuietFresh DEF Passes
<1>3. CASE \E a \in Request :
              \/ \E j \in Deployment : BeginDeploy(a, j)
              \/ \E e \in Env : BeginDelete(a, e)
              \/ BeginClear(a)
  <2>1. ASSUME NEW a \in Request, NEW j \in Deployment, BeginDeploy(a, j)
        PROVE FreshInv'
    <3>1. (IF j.private THEN "new_net" ELSE "create") # "store"
      OBVIOUS
    <3> QED
      BY <2>1, <3>1, <1>2 DEF BeginDeploy, Actor
  <2>2. ASSUME NEW a \in Request, NEW e \in Env, BeginDelete(a, e) PROVE FreshInv'
    BY <2>2, <1>2 DEF BeginDelete, Actor
  <2>3. ASSUME NEW a \in Request, BeginClear(a) PROVE FreshInv'
    BY <2>3, <1>2 DEF BeginClear, Actor
  <2> QED
    BY <1>3, <2>1, <2>2, <2>3
<1>4. ASSUME NEW op \in {"reap", "drop"}, BeginReap(op) PROVE FreshInv'
  <2>1. (IF op = "reap" THEN "stop" ELSE "look") # "store"
    OBVIOUS
  <2> QED
    BY <1>4, <2>1, <1>2 DEF BeginReap, Actor
<1>5. ASSUME NEW j \in late, LateCreate(j) PROVE FreshInv'
  <2>1. Quiet
    BY <1>0, <1>5 DEF LateCreate, database, local, Quiet
  <2> QED
    BY <2>1, QuietFresh
<1>6. CASE Restart
  <2>1. Quiet
    BY <1>0, <1>6 DEF Restart, database, Quiet
  <2> QED
    BY <2>1, QuietFresh
<1>7. CASE UNCHANGED vars
  <2>1. Quiet
    BY <1>0, <1>7 DEF vars, database, local, Quiet
  <2> QED
    BY <2>1, QuietFresh
<1> QED
    BY <1>1, <1>3, <1>4, <1>5, <1>6, <1>7 DEF Next

\* However deployments, removals, passes of the reconciler, failures and
\* restarts interleave, no two rows name one container: what deploy_lab_environment
\* writes never meets the UNIQUE constraint of container_id.
THEOREM RowsNameTheirOwn == Spec => []OneRowPerContainer
<1>1. Init => FreshInv
    BY DEF Init, FreshInv, OneRowPerContainer
<1>2. FreshInv => OneRowPerContainer
    BY DEF FreshInv
<1> QED
    BY AlwaysTyped, <1>1, <1>2, FreshKept, PTL DEF Spec

-----------------------------------------------------------------------------
(* What a step does, request by request.                                     *)

Same(b) ==
    /\ pc'[b] = pc[b] /\ job'[b] = job[b] /\ row'[b] = row[b]
    /\ net'[b] = net[b] /\ made'[b] = made[b] /\ todo'[b] = todo[b]
    /\ scope'[b] = scope[b]
    /\ b \in crossed' <=> b \in crossed

Others(a) == \A b \in Actor \ {a} : Same(b)

Ended(a) ==
    /\ pc'[a] = "idle" /\ job'[a] = NoJob /\ row'[a] = NoRow
    /\ net'[a] = 0 /\ made'[a] = 0 /\ todo'[a] = {} /\ scope'[a] = {}
    /\ a \notin crossed'

Went(a, label) ==
    /\ pc'[a] = label /\ job'[a] = job[a] /\ row'[a] = row[a]
    /\ todo'[a] = todo[a] /\ scope'[a] = scope[a]
    /\ a \in crossed' <=> a \in crossed

Turned(a) ==
    /\ pc'[a] = "fetch" /\ job'[a] = job[a] /\ scope'[a] = scope[a]
    /\ row'[a] \in todo[a] /\ todo'[a] = todo[a] \ {row'[a]}
    /\ net'[a] = 0 /\ made'[a] = made[a]
    /\ a \in crossed' <=> a \in crossed

Silent == UNCHANGED <<known, reaped>>

Quits(a) == Others(a) /\ Ended(a) /\ Silent

GoesOn(a, label) ==
    Others(a) /\ Went(a, label) /\ net'[a] = net[a] /\ made'[a] = made[a] /\ Silent

Restarts(a) == \* with a creation, after an old network
    /\ Others(a) /\ Went(a, IF job[a].private THEN "new_net" ELSE "create")
    /\ net'[a] = 0 /\ made'[a] = made[a] /\ Silent

Answers(a, e, answer) ==
    /\ Others(a) /\ Ended(a) /\ reaped' = reaped
    /\ \A f \in Env : known'[f] = IF f = e /\ a \notin crossed THEN answer ELSE known[f]

FinishesRow(a) ==
    \/ todo[a] = {} /\ job[a].op = "delete" /\ Answers(a, row[a].name, NowGone)
    \/ todo[a] = {} /\ job[a].op # "delete" /\ Quits(a)
    \/ todo[a] # {} /\ Others(a) /\ Turned(a) /\ Silent

\* The request is over, and holds nothing.
LEMMA OverDoes ==
    ASSUME TypeInv, NEW a \in Actor, Over(a)
    PROVE  Others(a) /\ Ended(a)
<1>1. Ended(a)
  BY DEF TypeInv, LocalInv, Over, Goto, Ended
<1>2. Others(a)
  BY DEF TypeInv, LocalInv, Over, Goto, Others, Same
<1> QED BY <1>1, <1>2

\* The request goes on, and all but its place and its network is as before.
LEMMA MoveDoes ==
    ASSUME TypeInv, NEW a \in Actor, NEW label, Move(a, label),
           NEW n, net' = [net EXCEPT ![a] = n] \/ (n = net[a] /\ UNCHANGED net),
           NEW m, made' = [made EXCEPT ![a] = m] \/ (m = made[a] /\ UNCHANGED made)
    PROVE  Others(a) /\ Went(a, label) /\ net'[a] = n /\ made'[a] = m /\ Silent
<1>1. Went(a, label) /\ Silent
  BY DEF TypeInv, LocalInv, Move, Goto, Went, Silent
<1>2. net'[a] = n /\ made'[a] = m
  BY DEF TypeInv, LocalInv
<1>3. Others(a)
  BY DEF TypeInv, LocalInv, Move, Goto, Others, Same
<1> QED BY <1>1, <1>2, <1>3

\* The ways a request has to end or go on.
LEMMA Endings ==
    ASSUME TypeInv, NEW a \in Actor
    PROVE  /\ Quit(a) => Quits(a)
           /\ \A label : On(a, label) => GoesOn(a, label)
           /\ \A e, answer : Reply(a, {e}, answer) => Answers(a, e, answer)
<1>1. Quit(a) => Quits(a)
  BY OverDoes DEF Quit, Quits, Silent
<1>2. ASSUME NEW label, On(a, label) PROVE GoesOn(a, label)
  BY <1>2, MoveDoes DEF On, GoesOn
<1>3. ASSUME NEW e, NEW answer, Reply(a, {e}, answer) PROVE Answers(a, e, answer)
  <2>1. Others(a) /\ Ended(a)
    BY <1>3, OverDoes DEF Reply
  <2>2. \A f \in Env : known'[f] = IF f = e /\ a \notin crossed THEN answer ELSE known[f]
    BY <1>3 DEF Reply
  <2> QED BY <1>3, <2>1, <2>2 DEF Reply, Answers
<1> QED BY <1>1, <1>2, <1>3

\* A row's turn is over.
LEMMA RowDoneDoes ==
    ASSUME TypeInv, NEW a \in Actor, RowDone(a)
    PROVE  FinishesRow(a)
<1>1. CASE todo[a] = {} /\ job[a].op = "delete" /\ Reply(a, {row[a].name}, NowGone)
  BY <1>1, Endings DEF FinishesRow
<1>2. CASE todo[a] = {} /\ job[a].op # "delete" /\ Quit(a)
  BY <1>2, Endings DEF FinishesRow
<1>3. ASSUME NEW w \in todo[a], Goto(a, "fetch"), row' = [row EXCEPT ![a] = w],
             todo' = [todo EXCEPT ![a] = @ \ {w}], net' = [net EXCEPT ![a] = 0],
             UNCHANGED <<job, made, scope, crossed, reaped, known>>
      PROVE  FinishesRow(a)
  <2>1. Turned(a)
    BY <1>3 DEF TypeInv, LocalInv, Goto, Turned
  <2>2. Others(a)
    BY <1>3 DEF TypeInv, LocalInv, Goto, Others, Same
  <2> QED BY <1>3, <2>1, <2>2 DEF FinishesRow, Silent
<1> QED BY <1>1, <1>2, <1>3 DEF RowDone

\* The private network's turn is over.
LEMMA NetDoneDoes ==
    ASSUME TypeInv, NEW a \in Actor, NetDone(a)
    PROVE  \/ job[a].op = "deploy" /\ Restarts(a)
           \/ job[a].op # "deploy" /\ FinishesRow(a)
<1>1. CASE job[a].op = "deploy"
  <2> DEFINE label == IF job[a].private THEN "new_net" ELSE "create"
  <2>1. Move(a, label) /\ net' = [net EXCEPT ![a] = 0] /\ UNCHANGED made
    BY <1>1 DEF NetDone
  <2> HIDE DEF label
  <2>2. Others(a) /\ Went(a, label) /\ net'[a] = 0 /\ made'[a] = made[a] /\ Silent
    BY <2>1, MoveDoes
  <2> QED BY <1>1, <2>2 DEF label, Restarts
<1>2. CASE job[a].op # "deploy"
  BY <1>2, RowDoneDoes DEF NetDone
<1> QED BY <1>1, <1>2

\* A row is done only by requests that remove.
LEMMA Drops ==
    ASSUME TypeInv, NEW a \in Actor, Unrouted(a)
    PROVE  \/ job[a].op = "reap" /\ GoesOn(a, "row")
           \/ job[a].op = "drop" /\ Others(a) /\ Ended(a) /\ known' = known
                                 /\ reaped' = reaped \cup scope[a]
           \/ job[a].op \notin {"reap", "drop"} /\ GoesOn(a, "read_net")
BY Endings, OverDoes DEF Unrouted

\* where a request may go on, given what it is
Leads(op, from, to) ==
    \/ from = "fetch" /\ to = "stop"
    \/ from = "stop" /\ to = "delete"
    \/ from = "delete" /\ to = "force"
    \/ from \in {"delete", "force"} /\ to = Gone(op)
    \/ from = "look" /\ to = "row"
    \/ from = "row" /\ to = "route" /\ op # "reap"
    \/ from = "route" /\ to = "row" /\ op = "reap"
    \/ from = "route" /\ to = "read_net" /\ op \notin {"reap", "drop"}
    \/ from = "read_net" /\ to = "drop_net"
    \/ from = "drop_net" /\ to = "net_row"
    \/ /\ from \in {"read_net", "drop_net", "net_row"}
       /\ to \in {"new_net", "create"} /\ op = "deploy"
    \/ from = "new_net" /\ to = "insert_net"
    \/ from = "insert_net" /\ to = "create"
    \/ from = "create" /\ to \in {"store", "undo_net"}
    \/ from = "undo_net" /\ to = "undo_row"
    \/ from = "store" /\ to = "get"
    \/ from = "get" /\ to = "put"

Walks(a) ==
    /\ pc[a] # "idle"
    /\ Others(a)
    /\ \/ Ended(a)
       \/ /\ Turned(a) /\ job[a].op # "deploy"
          /\ pc[a] \in {"force", "read_net", "drop_net", "net_row"}
       \/ Went(a, pc'[a]) /\ Leads(job[a].op, pc[a], pc'[a])

\* Every step is of one request: it ends, turns to its next row or goes on.
LEMMA Walk ==
    ASSUME TypeInv, NEW a \in Actor, Step(a)
    PROVE  Walks(a)
<1>0. ASSUME pc[a] # "idle", Quits(a) PROVE Walks(a)
  BY <1>0 DEF Quits, Walks
<1>1. ASSUME pc[a] # "idle", NEW label, GoesOn(a, label), Leads(job[a].op, pc[a], label)
      PROVE Walks(a)
  BY <1>1 DEF GoesOn, Went, Walks
<1>2. ASSUME pc[a] # "idle", NEW e, NEW answer, Answers(a, e, answer) PROVE Walks(a)
  BY <1>2 DEF Answers, Walks
<1>3. ASSUME pc[a] \in {"force", "read_net", "drop_net", "net_row"},
             job[a].op # "deploy", FinishesRow(a)
      PROVE Walks(a)
  BY <1>3 DEF FinishesRow, Answers, Quits, Walks
<1>4. ASSUME pc[a] \in {"read_net", "drop_net", "net_row"}, NetDone(a) PROVE Walks(a)
  <2>1. CASE job[a].op = "deploy" /\ Restarts(a)
    BY <1>4, <2>1 DEF Restarts, Went, Walks, Leads
  <2>2. CASE job[a].op # "deploy" /\ FinishesRow(a)
    BY <1>4, <2>2, <1>3
  <2> QED BY <1>4, <2>1, <2>2, NetDoneDoes
<1>5. ASSUME pc[a] # "idle", NEW label, Move(a, label), UNCHANGED made,
             NEW n, net' = [net EXCEPT ![a] = n], Leads(job[a].op, pc[a], label)
      PROVE Walks(a)
  <2>1. Others(a) /\ Went(a, label)
    BY <1>5, MoveDoes
  <2> QED BY <1>5, <2>1 DEF Went, Walks
<1>6. CASE Fetch(a)
  BY <1>6, <1>0, <1>1, Endings DEF Fetch, Leads
<1>7. CASE Stop(a)
  BY <1>7, <1>0, <1>1, Endings DEF Stop, Leads
<1>8. CASE Delete(a)
  BY <1>8, <1>0, <1>1, Endings DEF Delete, Leads
<1>9. CASE ForceDelete(a)
  <2>0. pc[a] = "force"
    BY <1>9 DEF ForceDelete
  <2>1. CASE Quit(a)
    BY <2>0, <2>1, <1>0, Endings
  <2>2. CASE On(a, Gone(job[a].op))
    BY <2>0, <2>2, <1>1, Endings DEF Leads
  <2>3. CASE job[a].op = "clear" /\ RowDone(a)
    BY <2>0, <2>3, <1>3, RowDoneDoes
  <2>4. CASE job[a].op = "reap" /\ On(a, "route")
    BY <2>0, <2>4, <1>1, Endings DEF Leads, Gone
  <2> QED BY <1>9, <2>1, <2>2, <2>3, <2>4 DEF ForceDelete
<1>10. CASE Look(a)
  BY <1>10, <1>0, <1>1, Endings DEF Look, Leads
<1>11. CASE DeleteRow(a)
  <2>1. CASE job[a].op = "reap"
    BY <1>11, <2>1, OverDoes DEF DeleteRow, Walks
  <2>2. CASE job[a].op # "reap"
    BY <1>11, <2>2, <1>1, Endings DEF DeleteRow, Leads
  <2> QED BY <2>1, <2>2
<1>12. CASE DropRoute(a)
  <2>0. pc[a] = "route"
    BY <1>12 DEF DropRoute
  <2>1. CASE Quit(a)
    BY <2>0, <2>1, <1>0, Endings
  <2>2. CASE Unrouted(a)
    <3>1. CASE job[a].op = "reap" /\ GoesOn(a, "row")
      BY <2>0, <3>1, <1>1 DEF Leads
    <3>2. CASE Others(a) /\ Ended(a)
      BY <2>0, <3>2 DEF Walks
    <3>3. CASE job[a].op \notin {"reap", "drop"} /\ GoesOn(a, "read_net")
      BY <2>0, <3>3, <1>1 DEF Leads
    <3> QED BY <2>2, <3>1, <3>2, <3>3, Drops
  <2> QED BY <1>12, <2>1, <2>2 DEF DropRoute
<1>13. CASE ReadNet(a)
  <2>0. pc[a] = "read_net"
    BY <1>13 DEF ReadNet
  <2>1. CASE NetDone(a)
    BY <2>0, <2>1, <1>4
  <2>2. CASE Quit(a)
    BY <2>0, <2>2, <1>0, Endings
  <2>3. ASSUME NEW n, net' = [net EXCEPT ![a] = n], Move(a, "drop_net"), UNCHANGED made
        PROVE Walks(a)
    BY <2>0, <2>3, <1>5 DEF Leads
  <2> QED BY <1>13, <2>1, <2>2, <2>3 DEF ReadNet
<1>14. CASE DropNet(a)
  <2>0. pc[a] = "drop_net"
    BY <1>14 DEF DropNet
  <2>1. CASE NetDone(a)
    BY <2>0, <2>1, <1>4
  <2>2. CASE Quit(a)
    BY <2>0, <2>2, <1>0, Endings
  <2>3. CASE On(a, "net_row")
    BY <2>0, <2>3, <1>1, Endings DEF Leads
  <2> QED BY <1>14, <2>1, <2>2, <2>3 DEF DropNet
<1>15. CASE DeleteNetRow(a)
  BY <1>15, <1>4 DEF DeleteNetRow
<1>16. CASE NewNet(a)
  <2>0. pc[a] = "new_net"
    BY <1>16 DEF NewNet
  <2>1. CASE Quit(a)
    BY <2>0, <2>1, <1>0, Endings
  <2>2. CASE Move(a, "insert_net") /\ net' = [net EXCEPT ![a] = next] /\ UNCHANGED made
    BY <2>0, <2>2, <1>5 DEF Leads
  <2> QED BY <1>16, <2>1, <2>2 DEF NewNet
<1>17. CASE InsertNet(a)
  BY <1>17, <1>1, Endings DEF InsertNet, Leads
<1>18. ASSUME pc[a] = "create", Undo(a) PROVE Walks(a)
  BY <1>18, <1>0, <1>1, Endings DEF Undo, Leads
<1>19. CASE Create(a)
  <2>0. pc[a] = "create"
    BY <1>19 DEF Create
  <2>1. CASE Move(a, "store") /\ made' = [made EXCEPT ![a] = next] /\ UNCHANGED net
    <3>1. Others(a) /\ Went(a, "store")
      BY <2>1, MoveDoes
    <3> QED BY <2>0, <3>1 DEF Went, Walks, Leads
  <2>2. CASE Undo(a)
    BY <2>0, <2>2, <1>18
  <2> QED BY <1>19, <2>1, <2>2 DEF Create
<1>20. CASE UndoNet(a)
  BY <1>20, <1>1, Endings DEF UndoNet, Leads
<1>21. CASE UndoRow(a)
  BY <1>21, <1>0, Endings DEF UndoRow
<1>22. CASE Store(a)
  <2>0. pc[a] = "store"
    BY <1>22 DEF Store
  <2>1. CASE Quit(a)
    BY <2>0, <2>1, <1>0, Endings
  <2>2. CASE Stored(a)
    BY <2>0, <2>2, <1>1, <1>2, Endings DEF Stored, DeployDone, Leads
  <2> QED BY <1>22, <2>1, <2>2 DEF Store
<1>23. CASE GetPort(a)
  BY <1>23, <1>0, <1>1, Endings DEF GetPort, Leads
<1>24. CASE PutRoute(a)
  BY <1>24, <1>0, <1>2, Endings DEF PutRoute, DeployDone
<1> QED
  BY <1>6, <1>7, <1>8, <1>9, <1>10, <1>11, <1>12, <1>13, <1>14, <1>15, <1>16, <1>17,
     <1>19, <1>20, <1>21, <1>22, <1>23, <1>24 DEF Step

-----------------------------------------------------------------------------
(* What a step does to what is shared.                                       *)

Steps == next' \in {next, next + 1}

Filed(a) ==
    /\ pc[a] = "store" /\ next' = next + 1
    /\ \/ /\ row[a] = NoRow
          /\ rows' = rows \cup {[pk |-> next, name |-> job[a].name, id |-> made[a]]}
       \/ /\ row[a] # NoRow /\ \E w \in rows : w.pk = row[a].pk
          /\ rows' = {w \in rows : w.pk # row[a].pk} \cup {[row[a] EXCEPT !.id = made[a]]}

Writes(a) ==
    \/ rows' = rows
    \/ pc[a] = "row" /\ rows' = {w \in rows : w.pk # row[a].pk}
    \/ Filed(a)

Contains(a) ==
    \/ docker' = docker
    \/ pc[a] = "stop" /\ Stopped(a)
    \/ pc[a] \in {"delete", "force"} /\ Removed(a)
    \/ /\ pc[a] = "create" /\ next' = next + 1
       /\ Creates(job[a], next) \/ Leaves(job[a], next)

Bridges(a) ==
    \/ bridge' = bridge
    \/ /\ pc[a] \in {"drop_net", "undo_net"} /\ ~Attached(net[a])
       /\ bridge' = WithoutNet(net[a])
    \/ /\ pc[a] = "new_net" /\ bridge[SlugAt(a)] = 0 /\ next' = next + 1
       /\ bridge' = [bridge EXCEPT ![SlugAt(a)] = next]

Registers(a) ==
    \/ networks' = networks
    \/ /\ pc[a] = "insert_net"
       /\ networks' = networks \cup {[id |-> net[a], slug |-> SlugAt(a)]}
    \/ pc[a] \in {"net_row", "undo_row"} /\ networks' = {n \in networks : n.id # net[a]}

Routes(a) ==
    \/ routed' = routed
    \/ pc[a] = "route" /\ routed' = routed \ {SlugAt(a)}
    \/ pc[a] = "put" /\ routed' = routed \cup {SlugAt(a)}

Delays(a) ==
    \/ late' = late
    \/ /\ pc[a] = "create" /\ late' = late \cup {job[a]}
       /\ spoiled' = spoiled \cup scope[a]

Spoils(a) == spoiled' \in {spoiled, spoiled \cup scope[a]}

\* what it holds of networks and containers
Holds(a) ==
    /\ \/ net'[a] \in {net[a], 0}
       \/ /\ pc[a] = "new_net" /\ pc'[a] = "insert_net" /\ net'[a] = next
          /\ bridge[SlugAt(a)] = 0 /\ next' = next + 1
          /\ bridge' = [bridge EXCEPT ![SlugAt(a)] = next]
       \/ /\ pc[a] = "read_net" /\ pc'[a] = "drop_net"
          /\ \E n \in networks : n.slug = SlugAt(a) /\ net'[a] = n.id
    /\ pc[a] \in {"read_net", "drop_net", "net_row"} /\ pc'[a] \in {"new_net", "create"} =>
           net'[a] = 0
    /\ pc[a] \notin {"new_net", "read_net", "drop_net", "net_row"} /\ pc'[a] # "idle" =>
           Turned(a) \/ net'[a] = net[a]
    /\ pc'[a] = "net_row" => net'[a] = net[a]
    /\ pc'[a] = "insert_net" => net'[a] = next /\ bridge'[SlugAt(a)] = next
    /\ pc'[a] # "store" /\ pc'[a] # "idle" => made'[a] = made[a]
    /\ pc'[a] = "store" =>
           /\ pc[a] = "create" /\ made'[a] = next
           /\ Creates(job[a], next)

Acts(a) ==
    /\ Steps /\ Writes(a) /\ Contains(a) /\ Bridges(a) /\ Registers(a)
    /\ Routes(a) /\ Delays(a) /\ Spoils(a)

LEMMA Act ==
    ASSUME TypeInv, NEW a \in Actor, Step(a)
    PROVE  Acts(a)
<1> USE DEF Acts, Steps, Writes, Filed, Contains, Bridges, Registers, Routes, Delays, Spoils,
            database, labhost, NoFault, Fault
<1>1. CASE Fetch(a)
  BY <1>1 DEF Fetch
<1>2. CASE Stop(a)
  BY <1>2 DEF Stop
<1>3. CASE Delete(a)
  BY <1>3 DEF Delete
<1>4. CASE ForceDelete(a)
  BY <1>4 DEF ForceDelete
<1>5. CASE Look(a)
  BY <1>5 DEF Look
<1>6. CASE DeleteRow(a)
  BY <1>6 DEF DeleteRow
<1>7. CASE DropRoute(a)
  BY <1>7 DEF DropRoute
<1>8. CASE ReadNet(a)
  BY <1>8 DEF ReadNet
<1>9. CASE DropNet(a)
  BY <1>9 DEF DropNet
<1>10. CASE DeleteNetRow(a)
  BY <1>10 DEF DeleteNetRow
<1>11. CASE NewNet(a)
  BY <1>11 DEF NewNet
<1>12. CASE InsertNet(a)
  BY <1>12 DEF InsertNet
<1>13. CASE Create(a)
  BY <1>13 DEF Create
<1>14. CASE UndoNet(a)
  BY <1>14 DEF UndoNet
<1>15. CASE UndoRow(a)
  BY <1>15 DEF UndoRow
<1>16. CASE Store(a)
  BY <1>16 DEF Store
<1>17. CASE GetPort(a)
  BY <1>17 DEF GetPort
<1>18. CASE PutRoute(a)
  BY <1>18 DEF PutRoute
<1> QED
  BY <1>1, <1>2, <1>3, <1>4, <1>5, <1>6, <1>7, <1>8, <1>9, <1>10, <1>11, <1>12, <1>13,
     <1>14, <1>15, <1>16, <1>17, <1>18 DEF Step

LEMMA Hold ==
    ASSUME TypeInv, NEW a \in Actor, Step(a)
    PROVE  Holds(a)
<1>0. ASSUME Quits(a) PROVE Holds(a)
  BY <1>0 DEF Quits, Ended, Holds
<1>1. ASSUME NEW label, GoesOn(a, label), label \notin {"idle", "store", "insert_net"},
             pc[a] \in {"read_net", "drop_net", "net_row"} => label \notin {"new_net", "create"}
      PROVE Holds(a)
  BY <1>1 DEF GoesOn, Went, Holds
<1>2. ASSUME NEW e, NEW answer, Answers(a, e, answer) PROVE Holds(a)
  BY <1>2 DEF Answers, Ended, Holds
<1>3. ASSUME pc[a] \in {"force", "read_net", "drop_net", "net_row"}, FinishesRow(a)
      PROVE Holds(a)
  <2>1. ASSUME Turned(a) PROVE Holds(a)
    BY <1>3, <2>1 DEF Turned, Holds
  <2> QED BY <1>3, <2>1, <1>0, <1>2 DEF FinishesRow
<1>4. ASSUME pc[a] \in {"read_net", "drop_net", "net_row"}, NetDone(a) PROVE Holds(a)
  <2>1. CASE job[a].op = "deploy" /\ Restarts(a)
    BY <1>4, <2>1 DEF Restarts, Went, Holds
  <2>2. CASE job[a].op # "deploy" /\ FinishesRow(a)
    BY <1>4, <2>2, <1>3
  <2> QED BY <1>4, <2>1, <2>2, NetDoneDoes
<1>6. CASE Fetch(a)
  BY <1>6, <1>0, <1>1, Endings DEF Fetch
<1>7. CASE Stop(a)
  BY <1>7, <1>0, <1>1, Endings DEF Stop
<1>8. CASE Delete(a)
  BY <1>8, <1>0, <1>1, Endings DEF Delete, Gone
<1>9. CASE ForceDelete(a)
  <2>0. pc[a] = "force"
    BY <1>9 DEF ForceDelete
  <2>1. CASE Quit(a)
    BY <2>1, <1>0, Endings
  <2>2. CASE On(a, Gone(job[a].op))
    BY <2>0, <2>2, <1>1, Endings DEF Gone
  <2>3. CASE RowDone(a)
    BY <2>0, <2>3, <1>3, RowDoneDoes
  <2>4. CASE On(a, "route")
    BY <2>0, <2>4, <1>1, Endings
  <2> QED BY <1>9, <2>1, <2>2, <2>3, <2>4 DEF ForceDelete
<1>10. CASE Look(a)
  BY <1>10, <1>0, <1>1, Endings DEF Look
<1>11. CASE DeleteRow(a)
  <2>1. CASE job[a].op = "reap"
    BY <1>11, <2>1, OverDoes DEF DeleteRow, Ended, Holds
  <2>2. CASE job[a].op # "reap"
    BY <1>11, <2>2, <1>1, Endings DEF DeleteRow
  <2> QED BY <2>1, <2>2
<1>12. CASE DropRoute(a)
  <2>0. pc[a] = "route"
    BY <1>12 DEF DropRoute
  <2>1. CASE Quit(a)
    BY <2>1, <1>0, Endings
  <2>2. CASE Unrouted(a)
    <3>1. CASE GoesOn(a, "row")
      BY <2>0, <3>1, <1>1
    <3>2. CASE Others(a) /\ Ended(a)
      BY <3>2 DEF Ended, Holds
    <3>3. CASE GoesOn(a, "read_net")
      BY <2>0, <3>3, <1>1
    <3> QED BY <2>2, <3>1, <3>2, <3>3, Drops
  <2> QED BY <1>12, <2>1, <2>2 DEF DropRoute
<1>13. CASE ReadNet(a)
  <2>0. pc[a] = "read_net"
    BY <1>13 DEF ReadNet
  <2>1. CASE NetDone(a)
    BY <2>0, <2>1, <1>4
  <2>2. CASE Quit(a)
    BY <2>2, <1>0, Endings
  <2>3. ASSUME NEW n \in NetworksOf(SlugAt(a)), net' = [net EXCEPT ![a] = n.id],
               Move(a, "drop_net"), UNCHANGED made
        PROVE Holds(a)
    <3>1. Went(a, "drop_net") /\ net'[a] = n.id /\ made'[a] = made[a]
      BY <2>3, MoveDoes
    <3>2. n \in networks /\ n.slug = SlugAt(a)
      BY DEF NetworksOf
    <3> QED BY <2>0, <3>1, <3>2 DEF Went, Holds
  <2> QED BY <1>13, <2>1, <2>2, <2>3 DEF ReadNet
<1>14. CASE DropNet(a)
  <2>0. pc[a] = "drop_net"
    BY <1>14 DEF DropNet
  <2>1. CASE NetDone(a)
    BY <2>0, <2>1, <1>4
  <2>2. CASE Quit(a)
    BY <2>2, <1>0, Endings
  <2>3. CASE On(a, "net_row")
    BY <2>0, <2>3, <1>1, Endings
  <2> QED BY <1>14, <2>1, <2>2, <2>3 DEF DropNet
<1>15. CASE DeleteNetRow(a)
  BY <1>15, <1>4 DEF DeleteNetRow
<1>16. CASE NewNet(a)
  <2>0. pc[a] = "new_net"
    BY <1>16 DEF NewNet
  <2>1. CASE Quit(a)
    BY <2>1, <1>0, Endings
  <2>2. CASE /\ bridge[SlugAt(a)] = 0 /\ bridge' = [bridge EXCEPT ![SlugAt(a)] = next]
             /\ Move(a, "insert_net") /\ net' = [net EXCEPT ![a] = next] /\ UNCHANGED made
    <3>1. Went(a, "insert_net") /\ net'[a] = next /\ made'[a] = made[a]
      BY <2>2, MoveDoes
    <3>2. bridge'[SlugAt(a)] = next
      BY <2>0, <2>2, NameTyped DEF TypeInv, DataInv
    <3>3. next' = next + 1
      BY <1>16 DEF NewNet
    <3> QED BY <2>0, <2>2, <3>1, <3>2, <3>3 DEF Went, Holds
  <2> QED BY <1>16, <2>1, <2>2 DEF NewNet
<1>17. CASE InsertNet(a)
  BY <1>17, <1>1, Endings DEF InsertNet
<1>18. ASSUME pc[a] = "create", Undo(a) PROVE Holds(a)
  BY <1>18, <1>0, <1>1, Endings DEF Undo
<1>19. CASE Create(a)
  <2>0. pc[a] = "create"
    BY <1>19 DEF Create
  <2>1. CASE /\ Move(a, "store") /\ made' = [made EXCEPT ![a] = next] /\ UNCHANGED net
             /\ Creates(job[a], next)
    <3>1. Went(a, "store") /\ net'[a] = net[a] /\ made'[a] = next
      BY <2>1, MoveDoes
    <3> QED BY <2>0, <2>1, <3>1 DEF Went, Holds
  <2>2. CASE Undo(a)
    BY <2>0, <2>2, <1>18
  <2> QED BY <1>19, <2>1, <2>2 DEF Create
<1>20. CASE UndoNet(a)
  BY <1>20, <1>1, Endings DEF UndoNet
<1>21. CASE UndoRow(a)
  BY <1>21, <1>0, Endings DEF UndoRow
<1>22. CASE Store(a)
  <2>0. pc[a] = "store"
    BY <1>22 DEF Store
  <2>1. CASE Quit(a)
    BY <2>1, <1>0, Endings
  <2>2. CASE Stored(a)
    BY <2>0, <2>2, <1>1, <1>2, Endings DEF Stored, DeployDone
  <2> QED BY <1>22, <2>1, <2>2 DEF Store
<1>23. CASE GetPort(a)
  BY <1>23, <1>0, <1>1, Endings DEF GetPort
<1>24. CASE PutRoute(a)
  BY <1>24, <1>0, <1>2, Endings DEF PutRoute, DeployDone
<1> QED
  BY <1>6, <1>7, <1>8, <1>9, <1>10, <1>11, <1>12, <1>13, <1>14, <1>15, <1>16, <1>17,
     <1>19, <1>20, <1>21, <1>22, <1>23, <1>24 DEF Step

\* what a request has achieved where it goes on
Wronged(a) == spoiled' = spoiled \cup scope[a]

Earns(a) ==
    /\ pc[a] \in {"delete", "force"} /\ pc'[a] \in {"row", "route"} =>
           Removed(a) \/ Wronged(a)
    /\ pc[a] = "look" /\ pc'[a] = "row" => ~Exists(a) \/ Wronged(a)
    /\ pc[a] = "row" => rows' = {w \in rows : w.pk # row[a].pk}
    /\ pc[a] = "route" /\ pc'[a] = "read_net" =>
           routed' = routed \ {SlugAt(a)} \/ a = Reaper
    /\ pc[a] = "store" /\ pc'[a] = "get" => Filed(a)
    /\ pc[a] = "insert_net" => networks' = networks \cup {[id |-> net[a], slug |-> SlugAt(a)]}

\* what it answers, having achieved what
Tells(a) ==
    \/ known' = known
    \/ /\ Answers(a, row[a].name, NowGone) /\ job[a].op = "delete"
       /\ pc[a] \in {"read_net", "drop_net", "net_row"}
    \/ /\ Answers(a, job[a].name, job[a])
       /\ \/ pc[a] = "store" /\ ~job[a].external /\ Filed(a)
          \/ pc[a] = "put" /\ routed' = routed \cup {SlugAt(a)}

LEMMA Tell ==
    ASSUME TypeInv, NEW a \in Actor, Step(a)
    PROVE  Tells(a)
<1>0. ASSUME Quit(a) PROVE Tells(a)
  BY <1>0 DEF Quit, Tells
<1>1. ASSUME NEW label, On(a, label) PROVE Tells(a)
  BY <1>1 DEF On, Move, Tells
<1>2. ASSUME NEW label, Move(a, label) PROVE Tells(a)
  BY <1>2 DEF Move, Tells
<1>3. ASSUME pc[a] \in {"read_net", "drop_net", "net_row"}, FinishesRow(a)
      PROVE Tells(a)
  BY <1>3 DEF FinishesRow, Quits, Silent, Tells
<1>4. ASSUME pc[a] \in {"read_net", "drop_net", "net_row"}, NetDone(a) PROVE Tells(a)
  BY <1>4, <1>2, <1>3, NetDoneDoes DEF NetDone
<1>6. CASE Fetch(a)
  BY <1>6, <1>0, <1>1 DEF Fetch
<1>7. CASE Stop(a)
  BY <1>7, <1>0, <1>1 DEF Stop
<1>8. CASE Delete(a)
  BY <1>8, <1>0, <1>1 DEF Delete
<1>9. CASE ForceDelete(a)
  <2>1. CASE job[a].op = "clear" /\ RowDone(a)
    BY <2>1, RowDoneDoes DEF FinishesRow, Quits, Silent, Tells
  <2> QED BY <1>9, <2>1, <1>0, <1>1 DEF ForceDelete
<1>10. CASE Look(a)
  BY <1>10, <1>0, <1>1 DEF Look
<1>11. CASE DeleteRow(a)
  BY <1>11, <1>1 DEF DeleteRow, Tells
<1>12. CASE DropRoute(a)
  BY <1>12, <1>0, <1>1 DEF DropRoute, Unrouted, Tells
<1>13. CASE ReadNet(a)
  BY <1>13, <1>0, <1>2, <1>4 DEF ReadNet
<1>14. CASE DropNet(a)
  BY <1>14, <1>0, <1>1, <1>4 DEF DropNet
<1>15. CASE DeleteNetRow(a)
  BY <1>15, <1>4 DEF DeleteNetRow
<1>16. CASE NewNet(a)
  BY <1>16, <1>0, <1>2 DEF NewNet
<1>17. CASE InsertNet(a)
  BY <1>17, <1>1 DEF InsertNet
<1>18. CASE Create(a)
  BY <1>18, <1>0, <1>1, <1>2 DEF Create, Undo
<1>19. CASE UndoNet(a)
  BY <1>19, <1>1 DEF UndoNet
<1>20. CASE UndoRow(a)
  BY <1>20, <1>0 DEF UndoRow
<1>21. CASE Store(a)
  <2>1. CASE Quit(a)
    BY <2>1, <1>0
  <2>2. CASE Stored(a) /\ Filed(a)
    <3>1. CASE job[a].external
      BY <2>2, <3>1, <1>1 DEF Stored
    <3>2. CASE ~job[a].external
      BY <2>2, <3>2, Endings DEF Stored, DeployDone, Filed, Tells
    <3> QED BY <3>1, <3>2
  <2> QED BY <1>21, <2>1, <2>2 DEF Store, Filed
<1>22. CASE GetPort(a)
  BY <1>22, <1>0, <1>1 DEF GetPort
<1>23. CASE PutRoute(a)
  BY <1>23, <1>0, Endings DEF PutRoute, DeployDone, Tells
<1> QED
  BY <1>6, <1>7, <1>8, <1>9, <1>10, <1>11, <1>12, <1>13, <1>14, <1>15, <1>16, <1>17,
     <1>18, <1>19, <1>20, <1>21, <1>22, <1>23 DEF Step

\* the action a request's place makes it take
LEMMA AtLabel ==
    ASSUME NEW a \in Actor, Step(a)
    PROVE  /\ pc[a] = "stop" => Stop(a)
           /\ pc[a] = "delete" => Delete(a)
           /\ pc[a] = "force" => ForceDelete(a)
           /\ pc[a] = "look" => Look(a)
           /\ pc[a] = "row" => DeleteRow(a)
           /\ pc[a] = "route" => DropRoute(a)
           /\ pc[a] = "drop_net" => DropNet(a)
           /\ pc[a] = "insert_net" => InsertNet(a)
           /\ pc[a] = "create" => Create(a)
           /\ pc[a] = "undo_net" => UndoNet(a)
           /\ pc[a] = "store" => Store(a)
BY DEF Step, Fetch, Stop, Delete, ForceDelete, Look, DeleteRow, DropRoute, ReadNet, DropNet,
       DeleteNetRow, NewNet, InsertNet, Create, UndoNet, UndoRow, Store, GetPort, PutRoute

LEMMA Earn ==
    ASSUME TypeInv, NEW a \in Actor, Step(a)
    PROVE  Earns(a)
<1>0. ASSUME Over(a), pc[a] # "row", pc[a] # "insert_net" PROVE Earns(a)
  BY <1>0, OverDoes DEF Ended, Earns
<1>1. pc'[a] = "idle" \/ pc'[a] # "idle"
  OBVIOUS
<1>2. CASE pc[a] = "delete"
  <2>1. Delete(a)
    BY <1>2, AtLabel
  <2>2. CASE Removed(a)
    BY <1>2, <2>2 DEF Earns
  <2>3. CASE On(a, "force")
    BY <1>2, <2>3, Endings DEF GoesOn, Went, Earns
  <2>4. CASE Quit(a)
    BY <1>2, <2>4, <1>0 DEF Quit
  <2> QED BY <2>1, <2>2, <2>3, <2>4 DEF Delete
<1>3. CASE pc[a] = "force"
  <2>1. ForceDelete(a)
    BY <1>3, AtLabel
  <2>2. Removed(a) \/ Wronged(a)
    BY <2>1 DEF ForceDelete, Fault, Wronged
  <2> QED BY <1>3, <2>2 DEF Earns
<1>4. CASE pc[a] = "look"
  <2>1. Look(a)
    BY <1>4, AtLabel
  <2>2. ~Exists(a) \/ Quit(a) \/ Wronged(a)
    BY <2>1 DEF Look, Fault, Wronged
  <2> QED BY <1>4, <2>2, <1>0 DEF Earns, Quit
<1>5. CASE pc[a] = "row"
  BY <1>5, AtLabel DEF Earns, DeleteRow
<1>6. CASE pc[a] = "route"
  <2>1. DropRoute(a)
    BY <1>6, AtLabel
  <2>2. Quit(a) \/ routed' = routed \ {SlugAt(a)} \/ a = Reaper
    BY <2>1 DEF DropRoute
  <2> QED BY <1>6, <2>2, <1>0 DEF Earns, Quit
<1>7. CASE pc[a] = "store"
  <2>1. Store(a)
    BY <1>7, AtLabel
  <2>2. Quit(a) \/ Filed(a)
    BY <2>1 DEF Store, Filed
  <2> QED BY <1>7, <2>2, <1>0 DEF Earns, Quit
<1>8. CASE pc[a] = "insert_net"
  BY <1>8, AtLabel DEF Earns, InsertNet
<1> QED BY <1>2, <1>3, <1>4, <1>5, <1>6, <1>7, <1>8 DEF Earns

-----------------------------------------------------------------------------
(* How a request begins.                                                     *)

KindOf(a) == Kind(job[a], row[a])

\* those of one kind may meet, but a replacement meets nobody
Mates(a, b) == KindOf(a) = KindOf(b) /\ KindOf(a) # "replacement"

Still(b) ==
    /\ pc'[b] = pc[b] /\ job'[b] = job[b] /\ row'[b] = row[b]
    /\ net'[b] = net[b] /\ made'[b] = made[b] /\ todo'[b] = todo[b]
    /\ scope'[b] = scope[b]

Deploys(a) ==
    /\ a # Reaper /\ job'[a] \in Deployment /\ todo'[a] = {}
    /\ scope'[a] = {SlugOf[job'[a].name]}
    /\ \/ /\ row'[a] = NoRow /\ RowsOf(job'[a].name) = {}
          /\ pc'[a] = IF job'[a].private THEN "new_net" ELSE "create"
       \/ /\ row'[a] \in rows /\ row'[a].name = job'[a].name
          /\ RowsOf(job'[a].name) = {row'[a]}
          /\ pc'[a] = "stop"

Removes(a) ==
    /\ job'[a] \in Removal
    /\ row'[a] \in rows /\ todo'[a] \subseteq rows
    /\ SlugOf[row'[a].name] \in scope'[a]
    /\ \A w \in todo'[a] : SlugOf[w.name] \in scope'[a]
    /\ pc'[a] = CASE job'[a].op \in {"delete", "clear"} -> "fetch"
                  [] job'[a].op = "reap" -> "stop"
                  [] OTHER -> "look"
    /\ job'[a].op # "clear" => todo'[a] = {} /\ scope'[a] = {SlugOf[row'[a].name]}
    /\ job'[a].op = "delete" => RowsOf(row'[a].name) = {row'[a]}
    /\ a = Reaper <=> job'[a].op \in {"reap", "drop"}

Greets(a) ==
    /\ crossed \subseteq crossed' /\ spoiled \subseteq spoiled'
    /\ \A b \in Busy : scope[b] \cap scope'[a] # {} =>
          \/ /\ KindOf(b) = Kind(job'[a], row'[a])
             /\ KindOf(b) # "replacement"
          \/ a \in crossed' /\ b \in crossed' /\ scope[b] \cap scope'[a] \subseteq spoiled'
    /\ \A b \in crossed' : b # a /\ b \notin crossed =>
          scope[b] \cap scope'[a] # {} /\ scope[b] \cap scope'[a] \subseteq spoiled'
    /\ a \in crossed' => scope'[a] \cap spoiled' # {}
    /\ \A l \in late : SlugOf[l.name] \in scope'[a] => SlugOf[l.name] \in spoiled'

Starts(a) ==
    /\ a \in Actor /\ pc[a] = "idle" /\ net[a] = 0 /\ net'[a] = 0 /\ made'[a] = made[a]
    /\ \A b \in Actor \ {a} : Still(b)
    /\ Deploys(a) \/ Removes(a)
    /\ Greets(a)
    /\ \A e \in Env : known'[e] = IF SlugOf[e] \in scope'[a] THEN Unknown ELSE known[e]
    /\ UNCHANGED <<rows, networks, docker, bridge, routed, late, next, reaped>>

LEMMA BeginStarts ==
    ASSUME TypeInv, NEW a \in Actor, NEW j, NEW slugs \in SUBSET Slug, NEW first,
           NEW rest, NEW label, Begin(a, j, slugs, first, rest, label),
           Deploys(a) \/ Removes(a)
    PROVE  Starts(a)
<1>1. /\ pc[a] = "idle" /\ net[a] = 0 /\ net' = net /\ made' = made
      /\ UNCHANGED <<rows, networks, docker, bridge, routed, late, next, reaped>>
  BY DEF Begin, database, labhost, TypeInv, LocalInv, Held
<1>2. /\ job'[a] = j /\ row'[a] = first /\ scope'[a] = slugs
  BY DEF Begin, TypeInv, LocalInv
<1>3. \A b \in Actor \ {a} : Still(b)
  BY DEF Begin, Goto, TypeInv, LocalInv, Still
<1>4. \A e \in Env : known'[e] = IF SlugOf[e] \in scope'[a] THEN Unknown ELSE known[e]
  BY <1>2 DEF Begin
<1>5. Greets(a)
  <2> DEFINE met == {b \in Busy : scope[b] \cap slugs # {}}
             foes == {b \in met : \/ Kind(j, first) = "replacement"
                                  \/ Kind(job[b], row[b]) # Kind(j, first)}
             stale == {SlugOf[l.name] : l \in late} \cap slugs
  <2>1. /\ crossed' = crossed \cup foes \cup (IF foes # {} \/ stale # {} THEN {a} ELSE {})
        /\ spoiled' = spoiled \cup stale \cup UNION {scope[b] \cap slugs : b \in foes}
    BY DEF Begin
  <2>2. \A b \in foes : scope[b] \cap slugs # {} /\ scope[b] \cap slugs \subseteq spoiled'
    BY <2>1
  <2>3. \A b \in Busy : scope[b] \cap slugs # {} =>
           b \in foes \/ (KindOf(b) = Kind(j, first) /\ KindOf(b) # "replacement")
    BY DEF KindOf
  <2>4. \A l \in late : SlugOf[l.name] \in slugs => SlugOf[l.name] \in stale
    OBVIOUS
  <2>5. stale \subseteq spoiled' /\ stale \subseteq slugs
    BY <2>1
  <2> HIDE DEF foes, stale
  <2>6. crossed \subseteq crossed' /\ spoiled \subseteq spoiled'
    BY <2>1
  <2>7. \A b \in crossed' : b # a /\ b \notin crossed => b \in foes
    BY <2>1
  <2>8. foes # {} => a \in crossed' /\ foes \subseteq crossed'
    BY <2>1
  <2>9. a \in crossed' => slugs \cap spoiled' # {}
    <3>1. a \notin crossed
      BY <1>1 DEF TypeInv, LocalInv, Busy
    <3>2. a \notin foes
      BY <1>1 DEF foes, Busy
    <3>3. a \in crossed' => foes # {} \/ stale # {}
      BY <2>1, <3>1, <3>2
    <3> QED BY <2>2, <2>5, <3>3
  <2> QED BY <1>2, <2>2, <2>3, <2>4, <2>5, <2>6, <2>7, <2>8, <2>9 DEF Greets
<1> QED BY <1>1, <1>2, <1>3, <1>4, <1>5 DEF Starts

\* at most one row is read where one is answered for
LEMMA AtMostOne ==
    ASSUME NEW S, IsFiniteSet(S), Cardinality(S) <= 1, NEW w \in S
    PROVE  S = {w}
<1>1. /\ IsFiniteSet(S \ {w})
      /\ Cardinality(S \ {w}) = Cardinality(S) - 1
      /\ Cardinality(S) \in Nat
  BY FS_RemoveElement, FS_CardinalityType
<1>2. Cardinality(S \ {w}) \in Nat
  BY <1>1, FS_CardinalityType
<1>3. Cardinality(S \ {w}) = 0
  BY <1>1, <1>2
<1>4. S \ {w} = {}
  BY <1>1, <1>3, FS_EmptySet
<1> QED BY <1>4

Begins ==
    \/ \E a \in Request :
         \/ \E j \in Deployment : BeginDeploy(a, j)
         \/ \E e \in Env : BeginDelete(a, e)
         \/ BeginClear(a)
    \/ \E op \in {"reap", "drop"} : BeginReap(op)

LEMMA BeginsStart ==
    ASSUME TypeInv, IsFiniteSet(rows), Begins
    PROVE  \E a \in Actor : Starts(a)
<1>1. /\ rows \subseteq RowType
      /\ \A w \in rows : w.name \in Env /\ SlugOf[w.name] \in Slug
  BY SlugAssumption DEF TypeInv, DataInv, RowType
<1>2. \A e \in Env : IsFiniteSet(RowsOf(e)) /\ RowsOf(e) \subseteq rows
  <2> TAKE e \in Env
  <2>1. RowsOf(e) \subseteq rows
    BY DEF RowsOf
  <2> QED BY <2>1, FS_Subset
<1>3. ASSUME NEW a \in Actor, NEW j, NEW slugs, NEW first, NEW rest, NEW label,
             Begin(a, j, slugs, first, rest, label)
      PROVE /\ job'[a] = j /\ row'[a] = first /\ scope'[a] = slugs
            /\ todo'[a] = rest /\ pc'[a] = label
  BY <1>3 DEF Begin, Goto, TypeInv, LocalInv
<1>4. ASSUME NEW a \in Request, NEW j \in Deployment, BeginDeploy(a, j)
      PROVE Starts(a)
  <2>0. a \in Actor /\ a # Reaper /\ {SlugOf[j.name]} \in SUBSET Slug /\ j.name \in Env
    BY SlugAssumption, ReaperAssumption DEF Actor, Deployment
  <2>1. CASE RowsOf(j.name) = {} /\ Begin(a, j, {SlugOf[j.name]}, NoRow, {},
                   IF j.private THEN "new_net" ELSE "create")
    <3>1. Deploys(a)
      BY <2>0, <2>1, <1>3 DEF Deploys
    <3> QED BY <2>0, <2>1, <3>1, BeginStarts
  <2>2. ASSUME NEW w \in RowsOf(j.name), Begin(a, j, {SlugOf[j.name]}, w, {}, "stop")
        PROVE Starts(a)
    <3>1. RowsOf(j.name) = {w}
      BY <1>4, <2>0, <1>2, AtMostOne DEF BeginDeploy
    <3>2. w \in rows /\ w.name = j.name
      BY DEF RowsOf
    <3>3. Deploys(a)
      BY <2>0, <2>2, <3>1, <3>2, <1>3 DEF Deploys
    <3> QED BY <2>0, <2>2, <3>3, BeginStarts
  <2> QED BY <1>4, <2>1, <2>2 DEF BeginDeploy
<1>5. ASSUME NEW a \in Request, NEW e \in Env, BeginDelete(a, e) PROVE Starts(a)
  <2>0. a \in Actor /\ a # Reaper /\ {SlugOf[e]} \in SUBSET Slug
    BY SlugAssumption, ReaperAssumption DEF Actor
  <2>1. PICK w \in RowsOf(e) : Begin(a, [op |-> "delete"], {SlugOf[e]}, w, {}, "fetch")
    BY <1>5 DEF BeginDelete
  <2>2. RowsOf(e) = {w} /\ w \in rows /\ w.name = e
    BY <1>5, <1>2, AtMostOne DEF BeginDelete, RowsOf
  <2>3. Removes(a)
    BY <2>0, <2>1, <2>2, <1>3 DEF Removes, Removal
  <2> QED BY <2>0, <2>1, <2>3, BeginStarts
<1>6. ASSUME NEW a \in Request, BeginClear(a) PROVE Starts(a)
  <2>0. a \in Actor /\ a # Reaper
    BY ReaperAssumption DEF Actor
  <2>1. PICK w \in rows : Begin(a, [op |-> "clear"], {SlugOf[v.name] : v \in rows},
                                w, rows \ {w}, "fetch")
    BY <1>6 DEF BeginClear
  <2>2. {SlugOf[v.name] : v \in rows} \in SUBSET Slug
    BY <1>1
  <2>3. Removes(a)
    BY <2>0, <2>1, <1>3 DEF Removes, Removal
  <2> QED BY <2>0, <2>1, <2>2, <2>3, BeginStarts
<1>7. ASSUME NEW op \in {"reap", "drop"}, BeginReap(op) PROVE Starts(Reaper)
  <2>0. Reaper \in Actor
    BY DEF Actor
  <2>1. PICK w \in rows : Begin(Reaper, [op |-> op], {SlugOf[w.name]}, w, {},
                                IF op = "reap" THEN "stop" ELSE "look")
    BY <1>7 DEF BeginReap
  <2>2. {SlugOf[w.name]} \in SUBSET Slug
    BY <1>1
  <2>3. Removes(Reaper)
    BY <2>0, <2>1, <1>3 DEF Removes, Removal
  <2> QED BY <2>0, <2>1, <2>2, <2>3, BeginStarts
<1>8. Reaper \in Actor /\ \A a \in Request : a \in Actor
  BY DEF Actor
<1> QED BY <1>4, <1>5, <1>6, <1>7, <1>8 DEF Begins

-----------------------------------------------------------------------------
(* What a row, a network and a container are keys of.                        *)

\* rows of the table, and rows requests hold
Shown == rows \cup UNION {todo[a] \cup ({row[a]} \ {NoRow}) : a \in Actor}

Keys ==
    /\ \A v \in Shown : v.pk < next /\ v.id < next /\ v.id # 0
    /\ \A v, w \in Shown : v.pk = w.pk => v.name = w.name
    /\ \A v, w \in rows : v.pk = w.pk => v = w

\* a container that waits for its row has its name, and nobody else knows it
Unsold ==
    \A b \in Actor : pc[b] = "store" =>
        /\ made[b] # 0
        /\ docker[job[b].name].id = made[b]
        /\ \A v \in Shown : v.id # made[b]

\* the row a deployment writes
New(a, v) ==
    /\ Filed(a)
    /\ \/ row[a] = NoRow /\ v = [pk |-> next, name |-> job[a].name, id |-> made[a]]
       \/ row[a] # NoRow /\ v = [row[a] EXCEPT !.id = made[a]]

LEMMA ShownIs ==
    /\ \A v : v \in Shown <=> \/ v \in rows
                              \/ \E b \in Actor : v \in todo[b] \/ (v = row[b] /\ v # NoRow)
    /\ \A v : v \in Shown' <=> \/ v \in rows'
                               \/ \E b \in Actor : v \in todo'[b] \/ (v = row'[b] /\ v # NoRow)
BY DEF Shown

LEMMA ShownTyped ==
    ASSUME TypeInv
    PROVE  /\ Shown \subseteq RowType /\ next \in Nat \ {0}
           /\ \A v \in Shown : v.pk \in Nat /\ v.id \in Nat /\ v.name \in Env
<1>1. \A v \in Shown : v \in RowType
  BY ShownIs DEF TypeInv, DataInv, LocalInv
<1>2. next \in Nat \ {0}
  BY DEF TypeInv, DataInv
<1>3. \A v \in RowType : v.pk \in Nat /\ v.id \in Nat /\ v.name \in Env
  BY <1>2 DEF RowType
<1> QED BY <1>1, <1>2, <1>3

LEMMA NewIs ==
    ASSUME TypeInv, NEW a \in Actor, NEW v, New(a, v)
    PROVE  /\ pc[a] = "store" /\ v.id = made[a] /\ next' = next + 1
           /\ \/ row[a] = NoRow /\ v.pk = next /\ v.name = job[a].name
                 /\ rows' = rows \cup {v}
              \/ row[a] # NoRow /\ row[a] \in Shown /\ v.pk = row[a].pk /\ v.name = row[a].name
                 /\ rows' = {w \in rows : w.pk # row[a].pk} \cup {v}
<1>1. row[a] # NoRow => row[a] \in RowType
  BY DEF TypeInv, LocalInv
<1>2. row[a] # NoRow => row[a] \in Shown
  BY ShownIs
<1> QED BY <1>1, <1>2 DEF New, Filed, RowType

LEMMA RowsGrow ==
    ASSUME TypeInv, NEW a \in Actor, Step(a)
    PROVE  \/ rows' \subseteq rows
           \/ \E v : New(a, v) /\ v \in rows' /\ \A w \in rows' : w \in rows \/ w = v
<1>1. Writes(a)
  BY Act DEF Acts
<1>2. CASE Filed(a)
  <2> DEFINE v == IF row[a] = NoRow
                    THEN [pk |-> next, name |-> job[a].name, id |-> made[a]]
                    ELSE [row[a] EXCEPT !.id = made[a]]
  <2>1. New(a, v) /\ v \in rows' /\ \A w \in rows' : w \in rows \/ w = v
    BY <1>2 DEF New, Filed
  <2> QED BY <2>1
<1> QED BY <1>1, <1>2 DEF Writes

LEMMA ShownGrows ==
    ASSUME TypeInv, NEW a \in Actor, Step(a), NEW v \in Shown'
    PROVE  v \in Shown \/ (New(a, v) /\ v \in rows')
<1>1. CASE v \in rows'
  BY <1>1, RowsGrow, ShownIs
<1>2. ASSUME NEW b \in Actor, v \in todo'[b] \/ (v = row'[b] /\ v # NoRow)
      PROVE v \in Shown
  <2>1. v \in todo[b] \/ (v = row[b] /\ v # NoRow)
    BY <1>2, Walk DEF Walks, Others, Same, Ended, Turned, Went
  <2> QED BY <2>1, ShownIs
<1> QED BY <1>1, <1>2, ShownIs

LEMMA KeysStep ==
    ASSUME TypeInv, FreshInv, Keys, Unsold, NEW a \in Actor, Step(a)
    PROVE  Keys'
<1>1. next \in Nat /\ next' \in {next, next + 1}
  BY ShownTyped, Act DEF Acts, Steps
<1>2. /\ \A v \in Shown : v.pk < next /\ v.id < next /\ v.id # 0 /\ v.pk \in Nat /\ v.id \in Nat
      /\ \A v, w \in Shown : v.pk = w.pk => v.name = w.name
      /\ \A v, w \in rows : v.pk = w.pk => v = w
  BY ShownTyped DEF Keys
<1>3. \A v : New(a, v) => v.id \in Nat /\ v.id < next /\ v.id # 0
  BY NewIs DEF FreshInv, Unsold, TypeInv, LocalInv
<1>4. \A v : New(a, v) => v.pk = next \/ \E w \in Shown : v.pk = w.pk /\ v.name = w.name
  BY NewIs
<1>5. \A v : New(a, v) => v.pk \in Nat /\ v.pk <= next
  BY <1>1, <1>2, <1>4
<1>6. \A v \in Shown' : v.pk < next' /\ v.id < next' /\ v.id # 0
  <2> TAKE v \in Shown'
  <2>1. CASE v \in Shown
    BY <1>1, <1>2, <2>1
  <2>2. CASE New(a, v)
    <3>1. next' = next + 1
      BY <2>2, NewIs
    <3> QED BY <3>1, <2>2, <1>1, <1>3, <1>5
  <2> QED BY <2>1, <2>2, ShownGrows
<1>7. \A v, w \in Shown' : v.pk = w.pk => v.name = w.name
  <2> SUFFICES ASSUME NEW v \in Shown', NEW w \in Shown', v.pk = w.pk PROVE v.name = w.name
    OBVIOUS
  <2>1. \A x, y : New(a, x) /\ New(a, y) => x = y
    BY DEF New
  <2>2. \A x : New(a, x) => \A y \in Shown : x.pk = y.pk => x.name = y.name
    <3> SUFFICES ASSUME NEW x, New(a, x), NEW y \in Shown, x.pk = y.pk PROVE x.name = y.name
      OBVIOUS
    <3>0. y.pk # next
      <4>1. y.pk \in Nat /\ y.pk < next
        BY <1>2
      <4> QED BY <4>1, <1>1
    <3>1. CASE x.pk = next
      BY <3>0, <3>1
    <3>2. ASSUME NEW z \in Shown, x.pk = z.pk, x.name = z.name PROVE x.name = y.name
      BY <3>2, <1>2
    <3> QED BY <3>1, <3>2, <1>4
  <2> QED BY <2>1, <2>2, <1>2, ShownGrows
<1>8. \A v, w \in rows' : v.pk = w.pk => v = w
  <2>1. CASE rows' \subseteq rows
    BY <2>1, <1>2
  <2>2. ASSUME NEW v, New(a, v) PROVE \A x, y \in rows' : x.pk = y.pk => x = y
    <3>1. CASE row[a] = NoRow /\ v.pk = next /\ rows' = rows \cup {v}
      <4>1. \A x \in rows : x.pk # next
        BY <1>1, <1>2, ShownIs
      <4> QED BY <3>1, <4>1, <1>2
    <3>2. CASE v.pk = row[a].pk /\ rows' = {w \in rows : w.pk # row[a].pk} \cup {v}
      BY <3>2, <1>2
    <3> QED BY <2>2, <3>1, <3>2, NewIs
  <2> QED BY <2>1, <2>2, RowsGrow
<1> QED BY <1>6, <1>7, <1>8 DEF Keys

LEMMA NoRowIs == NoRow \notin RowType
BY DEF NoRow, RowType

LEMMA RowAt ==
    ASSUME TypeInv, NEW a \in Actor, pc[a] \in RemovePc
    PROVE  row[a] \in Shown /\ row[a] # NoRow /\ row[a].name \in Env /\ row[a] \in RowType
<1>1. row[a] \in RowType
  BY DEF TypeInv, LocalInv, Held
<1>2. row[a] # NoRow
  BY <1>1, NoRowIs
<1> QED BY <1>1, <1>2, ShownIs DEF RowType

LEMMA JobAt ==
    ASSUME TypeInv, NEW a \in Actor, pc[a] \in DeployPc \/ (pc[a] # "idle" /\ job[a].op = "deploy")
    PROVE  /\ job[a] \in Deployment /\ job[a].op = "deploy" /\ job[a].name \in Env
           /\ job[a].private \in BOOLEAN /\ job[a].external \in BOOLEAN
           /\ NameAt(a) = job[a].name /\ SlugAt(a) = SlugOf[job[a].name]
<1>1. job[a] \in Deployment
  <2>1. CASE pc[a] \in DeployPc
    BY <2>1 DEF TypeInv, LocalInv, Held
  <2>2. CASE pc[a] # "idle" /\ job[a].op = "deploy"
    BY <2>2, InHand
  <2> QED BY <2>1, <2>2
<1> QED BY <1>1 DEF Deployment, NameAt, SlugAt

\* what becomes of the container of a name
Kept(e) == docker'[e] = docker[e]

Created(e, j) ==
    /\ e = j.name /\ docker[e].id = 0 /\ docker'[e].id = next /\ next' = next + 1
    /\ docker'[e].net \in {0, bridge[SlugOf[e]]}

LEMMA MadeIs ==
    ASSUME TypeInv, NEW j \in Deployment, next' = next + 1,
           Creates(j, next) \/ Leaves(j, next), NEW e \in Env
    PROVE  Kept(e) \/ Created(e, j)
<1>1. j.name \in Env /\ docker \in [Env -> [id : 0..next, net : 0..next]]
  BY DEF TypeInv, DataInv, Deployment
<1>2. CASE Leaves(j, next)
  BY <1>1, <1>2 DEF Leaves, Kept, Created
<1>3. CASE Creates(j, next)
  <2>1. PICK n : n \in {0, bridge[SlugOf[j.name]]}
                 /\ docker' = [docker EXCEPT ![j.name] = [id |-> next, net |-> n]]
    BY <1>3 DEF Creates
  <2> QED BY <1>1, <1>3, <2>1 DEF Creates, Kept, Created
<1> QED BY <1>2, <1>3

LEMMA DockerStep ==
    ASSUME TypeInv, NEW a \in Actor, Step(a), NEW e \in Env
    PROVE  \/ Kept(e)
           \/ /\ pc[a] = "stop" /\ e = row[a].name /\ docker[e].id = row[a].id
              /\ docker'[e].id = docker[e].id /\ docker'[e].net = 0
           \/ /\ pc[a] \in {"delete", "force"} /\ e = row[a].name /\ docker[e].id = row[a].id
              /\ docker'[e].id = 0 /\ docker'[e].net = 0
           \/ pc[a] = "create" /\ Created(e, job[a])
<1>1. docker \in [Env -> [id : 0..next, net : 0..next]]
  BY DEF TypeInv, DataInv
<1>2. Contains(a)
  BY Act DEF Acts
<1>3. CASE docker' = docker
  BY <1>3 DEF Kept
<1>4. CASE pc[a] = "stop" /\ Stopped(a)
  <2>1. row[a].name \in Env
    BY <1>4, RowAt DEF RemovePc
  <2> QED BY <1>1, <1>4, <2>1 DEF Stopped, Exists, Kept
<1>5. CASE pc[a] \in {"delete", "force"} /\ Removed(a)
  <2>1. row[a].name \in Env
    BY <1>5, RowAt DEF RemovePc
  <2> QED BY <1>1, <1>5, <2>1 DEF Removed, Exists, NoContainer, Kept
<1>6. CASE /\ pc[a] = "create" /\ next' = next + 1
           /\ Creates(job[a], next) \/ Leaves(job[a], next)
  BY <1>6, JobAt, MadeIs DEF DeployPc
<1> QED BY <1>2, <1>3, <1>4, <1>5, <1>6 DEF Contains

LEMMA UnsoldStep ==
    ASSUME TypeInv, FreshInv, Keys, Unsold, NEW a \in Actor, Step(a)
    PROVE  Unsold'
<1> SUFFICES ASSUME NEW b \in Actor, pc'[b] = "store"
             PROVE  /\ made'[b] # 0
                    /\ docker'[job'[b].name].id = made'[b]
                    /\ \A v \in Shown' : v.id # made'[b]
  BY DEF Unsold
<1>1. CASE b = a
  <2>1. pc[a] = "create" /\ made'[a] = next /\ Creates(job[a], next)
    BY <1>1, Hold DEF Holds
  <2>2. job'[a] = job[a]
    BY <1>1, Walk DEF Walks, Went, Ended, Turned
  <2>3. docker'[job[a].name].id = next
    BY <2>1, JobAt DEF Creates, DeployPc, TypeInv, DataInv
  <2>4. \A v \in Shown' : v \in Shown
    BY <2>1, ShownGrows, NewIs
  <2>5. \A v \in Shown : v.id # next
    BY ShownTyped DEF Keys
  <2>6. next # 0
    BY ShownTyped
  <2> QED BY <1>1, <2>1, <2>2, <2>3, <2>4, <2>5, <2>6
<1>2. CASE b # a
  <2>1. pc[b] = "store" /\ job'[b] = job[b] /\ made'[b] = made[b]
    BY <1>2, Walk DEF Walks, Others, Same
  <2> DEFINE e == job[b].name
  <2>2. /\ e \in Env /\ made[b] # 0 /\ docker[e].id = made[b]
        /\ \A v \in Shown : v.id # made[b]
    BY <2>1, JobAt DEF Unsold, DeployPc
  <2>3. docker'[e].id = docker[e].id
    <3>1. pc[a] \in {"delete", "force"} => row[a] \in Shown
      BY RowAt DEF RemovePc
    <3> QED BY <3>1, <2>2, DockerStep DEF Kept, Created
  <2>4. ASSUME NEW v \in Shown' PROVE v.id # made[b]
    <3>1. CASE v \in Shown
      BY <3>1, <2>2
    <3>2. CASE New(a, v)
      <4>1. pc[a] = "store" /\ v.id = made[a]
        BY <3>2, NewIs
      <4> QED BY <4>1, <2>1, <1>2 DEF FreshInv
    <3> QED BY <3>1, <3>2, ShownGrows
  <2> QED BY <2>1, <2>2, <2>3, <2>4
<1> QED BY <1>1, <1>2

\* who has which network for a slug's: Docker, a row, a request, a container
Has(n, s) ==
    \/ bridge[s] = n
    \/ \E m \in networks : m.id = n /\ m.slug = s
    \/ \E a \in Busy : net[a] = n /\ SlugAt(a) = s
    \/ \E e \in Env : docker[e].net = n /\ SlugOf[e] = s

OneSlugEach == \A n \in Nat \ {0} : \A s, t \in Slug :
    Has(n, s) => n < next /\ (Has(n, t) => s = t)

\* a deployment has a network of its own
Making == {"insert_net", "create", "undo_net", "undo_row", "store", "get", "put"}

OwnNets ==
    /\ \A n \in networks : n.id # 0
    /\ \A a, b \in Actor :
        /\ pc[a] = "new_net" => net[a] = 0
        /\ pc[a] \in Making /\ pc[b] \in Making /\ net[a] = net[b] /\ net[a] # 0 => a = b

LEMMA Stays ==
    ASSUME TypeInv, NEW a \in Actor, Step(a), NEW b \in Actor, pc'[b] # "idle",
           b # a \/ ~Turned(a)
    PROVE  /\ pc[b] # "idle" /\ SlugAt(b)' = SlugAt(b) /\ job'[b] = job[b]
           /\ row'[b] = row[b] /\ scope'[b] = scope[b] /\ todo'[b] = todo[b]
           /\ KindOf(b)' = KindOf(b)
<1>1. /\ pc[b] # "idle" /\ job'[b] = job[b] /\ row'[b] = row[b]
      /\ scope'[b] = scope[b] /\ todo'[b] = todo[b]
  BY Walk DEF Walks, Others, Same, Ended, Went
<1> QED BY <1>1 DEF SlugAt, NameAt, KindOf, Kind

LEMMA HasStep ==
    ASSUME TypeInv, NEW a \in Actor, Step(a), NEW n \in Nat \ {0}, NEW s \in Slug, Has(n, s)'
    PROVE  Has(n, s) \/ (n = next /\ next' = next + 1 /\ s = SlugAt(a))
<1>0. pc[a] # "idle" /\ a \in Busy /\ SlugAt(a) \in Slug
  BY Walk, NameTyped DEF Walks, Busy
<1>1. bridge \in [Slug -> 0..next]
  BY DEF TypeInv, DataInv
<1>2. CASE bridge'[s] = n
  <2>1. CASE bridge' = bridge
    BY <1>2, <2>1 DEF Has
  <2>2. CASE bridge' = WithoutNet(net[a])
    BY <1>1, <1>2, <2>2 DEF Has, WithoutNet
  <2>3. CASE next' = next + 1 /\ bridge' = [bridge EXCEPT ![SlugAt(a)] = next]
    BY <1>0, <1>1, <1>2, <2>3 DEF Has
  <2> QED BY <2>1, <2>2, <2>3, Act DEF Acts, Bridges
<1>3. ASSUME NEW m \in networks', m.id = n, m.slug = s PROVE Has(n, s)
  <2>1. CASE m \in networks
    BY <1>3, <2>1 DEF Has
  <2>2. CASE m = [id |-> net[a], slug |-> SlugAt(a)]
    BY <1>0, <1>3, <2>2 DEF Has
  <2> QED BY <2>1, <2>2, Act DEF Acts, Registers
<1>4. ASSUME NEW b \in Busy', net'[b] = n, SlugAt(b)' = s
      PROVE  Has(n, s) \/ (n = next /\ next' = next + 1 /\ s = SlugAt(a))
  <2>0. b \in Actor /\ pc'[b] # "idle"
    BY DEF Busy
  <2>1. CASE b # a
    <3>1. pc[b] # "idle" /\ SlugAt(b)' = SlugAt(b) /\ net'[b] = net[b]
      BY <2>0, <2>1, Stays, Walk DEF Walks, Others, Same
    <3> QED BY <1>4, <2>0, <3>1 DEF Has, Busy
  <2>2. CASE b = a
    <3>1. ~Turned(a)
      BY <1>4, <2>2 DEF Turned
    <3>2. SlugAt(a)' = SlugAt(a)
      BY <2>0, <2>2, <3>1, Stays
    <3>3. \/ net'[a] \in {net[a], 0}
          \/ net'[a] = next /\ next' = next + 1
          \/ \E m \in networks : m.slug = SlugAt(a) /\ net'[a] = m.id
      BY Hold DEF Holds
    <3> QED BY <1>0, <1>4, <2>2, <3>2, <3>3 DEF Has
  <2> QED BY <2>1, <2>2
<1>5. ASSUME NEW e \in Env, docker'[e].net = n, SlugOf[e] = s PROVE Has(n, s)
  <2>1. docker'[e].net \in {docker[e].net, 0, bridge[s]}
    BY <1>5, DockerStep DEF Kept, Created
  <2> QED BY <1>5, <2>1 DEF Has
<1> QED BY <1>2, <1>3, <1>4, <1>5 DEF Has

LEMMA OneSlugStep ==
    ASSUME TypeInv, OneSlugEach, NEW a \in Actor, Step(a)
    PROVE  OneSlugEach'
<1>0. next \in Nat /\ next' \in {next, next + 1}
  BY ShownTyped, Act DEF Acts, Steps
<1> SUFFICES ASSUME NEW n \in Nat \ {0}, NEW s \in Slug, NEW t \in Slug, Has(n, s)'
             PROVE  n < next' /\ (Has(n, t)' => s = t)
  BY DEF OneSlugEach
<1>1. \A u \in Slug : Has(n, u)' => Has(n, u) \/ (n = next /\ next' = next + 1 /\ u = SlugAt(a))
  BY HasStep
<1>2. \A u \in Slug : Has(n, u) => n < next
  BY DEF OneSlugEach
<1>3. CASE Has(n, s)
  <2>1. n < next /\ n # next
    BY <1>0, <1>2, <1>3
  <2>2. Has(n, t)' => Has(n, t)
    BY <2>1, <1>1
  <2> QED BY <1>0, <1>3, <2>1, <2>2 DEF OneSlugEach
<1>4. CASE n = next /\ next' = next + 1 /\ s = SlugAt(a)
  <2>1. ~Has(n, t)
    BY <1>0, <1>2, <1>4
  <2> QED BY <1>0, <1>1, <1>4, <2>1
<1> QED BY <1>1, <1>3, <1>4

LEMMA OwnNetsStep ==
    ASSUME TypeInv, OneSlugEach, OwnNets, NEW a \in Actor, Step(a)
    PROVE  OwnNets'
<1>1. pc'[a] = "new_net" => net'[a] = 0
  BY Walk, Hold DEF Walks, Ended, Turned, Leads, Holds, Gone
<1>2. ASSUME pc'[a] \in Making, net'[a] # 0
      PROVE  \/ pc[a] \in Making /\ net'[a] = net[a]
             \/ net'[a] = next
  <2>0. pc'[a] # "idle" /\ ~Turned(a)
    BY <1>2 DEF Making, Turned
  <2>1. Leads(job[a].op, pc[a], pc'[a])
    BY <2>0, Walk DEF Walks, Ended
  <2>2. pc[a] \in Making \/ pc[a] = "new_net" \/ pc[a] \in {"read_net", "drop_net", "net_row"}
    BY <1>2, <2>1 DEF Leads, Making, Gone
  <2>3. CASE pc[a] \in Making
    BY <2>0, <2>3, Hold DEF Holds, Making
  <2>4. CASE pc[a] = "new_net"
    BY <1>2, <2>1, <2>4, Hold DEF Leads, Gone, Making, Holds
  <2>5. CASE pc[a] \in {"read_net", "drop_net", "net_row"}
    BY <1>2, <2>1, <2>5, Hold DEF Leads, Gone, Making, Holds
  <2> QED BY <2>2, <2>3, <2>4, <2>5
<1>3. \A b \in Actor : b # a => pc'[b] = pc[b] /\ net'[b] = net[b]
  BY Walk DEF Walks, Others, Same
<1>4. ASSUME NEW b \in Actor, pc[b] \in Making PROVE net[b] # next
  <2>1. b \in Busy /\ SlugAt(b) \in Slug /\ net[b] \in Nat
    BY <1>4, NameTyped, ShownTyped DEF Busy, Making, TypeInv, LocalInv
  <2>2. net[b] # 0 => net[b] < next
    BY <2>1 DEF OneSlugEach, Has
  <2>3. next \in Nat \ {0}
    BY ShownTyped
  <2> QED BY <2>1, <2>2, <2>3
<1>5. ASSUME NEW b \in Actor, b # a, pc'[a] \in Making, pc[b] \in Making, net'[a] = net[b],
             net[b] # 0
      PROVE FALSE
  BY <1>2, <1>4, <1>5 DEF OwnNets
<1>8. \A n \in networks' : n.id # 0
  <2>1. pc[a] = "insert_net" => net[a] # 0
    BY DEF TypeInv, LocalInv, Held
  <2> QED BY <2>1, Act DEF Acts, Registers, OwnNets
<1> SUFFICES ASSUME NEW b \in Actor, NEW c \in Actor
             PROVE  /\ pc'[b] = "new_net" => net'[b] = 0
                    /\ pc'[b] \in Making /\ pc'[c] \in Making /\ net'[b] = net'[c]
                       /\ net'[b] # 0 => b = c
  BY <1>8 DEF OwnNets, Making
<1>6. pc'[b] = "new_net" => net'[b] = 0
  BY <1>1, <1>3 DEF OwnNets
<1>7. ASSUME pc'[b] \in Making, pc'[c] \in Making, net'[b] = net'[c], net'[b] # 0 PROVE b = c
  BY <1>3, <1>5, <1>7 DEF OwnNets
<1> QED BY <1>6, <1>7

-----------------------------------------------------------------------------
(* Who works on which slug, and beside whom.                                 *)

\* where a request can be, given what it is
Labels(op) ==
    CASE op = "deploy" -> DeployPc \cup {"stop", "delete", "force", "route", "read_net",
                                         "drop_net", "net_row"}
      [] op \in {"delete", "clear"} -> RemovePc \ {"look"}
      [] op = "reap" -> {"stop", "delete", "force", "route", "row"}
      [] op = "drop" -> {"look", "row", "route"}

Within(a) ==
    pc[a] # "idle" =>
        /\ pc[a] \in Labels(job[a].op)
        /\ SlugAt(a) \in scope[a]
        /\ \A w \in todo[a] : SlugOf[w.name] \in scope[a]
        /\ job[a].op # "clear" => scope[a] = {SlugAt(a)} /\ todo[a] = {}
        /\ job[a].op = "deploy" =>
            /\ row[a] # NoRow => row[a].name = job[a].name
            /\ row[a] = NoRow => pc[a] \in DeployPc
            /\ a \in crossed => SlugAt(a) \in spoiled
        /\ a = Reaper <=> job[a].op \in {"reap", "drop"}

Peace ==
    \A a, b \in Busy : a # b =>
        /\ a \notin crossed /\ scope[a] \cap scope[b] # {} => Mates(a, b)
        /\ \A s \in scope[a] \cap scope[b] : s \notin spoiled => Mates(a, b)

LateSpoiled == \A l \in late : SlugOf[l.name] \in spoiled

LEMMA WithinStep ==
    ASSUME TypeInv, NEW a \in Actor, Step(a), \A b \in Actor : Within(b)
    PROVE  \A b \in Actor : Within(b)'
<1>0. spoiled \subseteq spoiled'
  BY Act DEF Acts, Spoils
<1> TAKE b \in Actor
<1> SUFFICES ASSUME pc'[b] # "idle" PROVE Within(b)'
  BY DEF Within
<1>1. CASE b # a
  <2>1. /\ pc[b] # "idle" /\ pc'[b] = pc[b] /\ SlugAt(b)' = SlugAt(b) /\ job'[b] = job[b]
        /\ row'[b] = row[b] /\ scope'[b] = scope[b] /\ todo'[b] = todo[b]
        /\ b \in crossed' <=> b \in crossed
    BY <1>1, Stays, Walk DEF Walks, Others, Same
  <2> QED BY <1>0, <2>1 DEF Within
<1>2. CASE b = a /\ Turned(a)
  <2>1. /\ pc'[a] = "fetch" /\ job'[a] = job[a] /\ scope'[a] = scope[a]
        /\ row'[a] \in todo[a] /\ todo'[a] \subseteq todo[a] /\ job[a].op # "deploy"
        /\ pc[a] # "idle"
    BY <1>2, Walk DEF Walks, Turned, Went, Leads, Ended, Gone
  <2>2. job[a].op = "clear"
    BY <2>1 DEF Within
  <2>3. SlugAt(a)' = SlugOf[row'[a].name]
    BY <2>1 DEF SlugAt, NameAt
  <2> QED BY <1>2, <2>1, <2>2, <2>3 DEF Within, Labels, RemovePc
<1>3. CASE b = a /\ ~Turned(a)
  <2>1. /\ pc[a] # "idle" /\ SlugAt(a)' = SlugAt(a) /\ job'[a] = job[a]
        /\ row'[a] = row[a] /\ scope'[a] = scope[a] /\ todo'[a] = todo[a]
    BY <1>3, Stays
  <2>2. /\ Leads(job[a].op, pc[a], pc'[a])
        /\ a \in crossed' <=> a \in crossed
    BY <1>3, Walk DEF Walks, Went, Ended
  <2>3. job[a].op \in {"deploy", "delete", "clear", "reap", "drop"}
    BY <2>1, InHand, Ops
  <2>4. pc[a] \in Labels(job[a].op)
    BY <2>1 DEF Within
  <2>5. pc'[a] \in Labels(job[a].op)
    BY <2>2, <2>3, <2>4 DEF Leads, Labels, Gone, RemovePc, DeployPc
  <2>6. pc[a] \in DeployPc => pc'[a] \in DeployPc
    BY <2>2 DEF Leads, Gone, DeployPc
  <2> QED BY <1>0, <1>3, <2>1, <2>2, <2>5, <2>6 DEF Within
<1> QED BY <1>1, <1>2, <1>3

LEMMA KindStays ==
    ASSUME TypeInv, NEW a \in Actor, Step(a), NEW b \in Busy'
    PROVE  /\ b \in Busy /\ KindOf(b)' = KindOf(b) /\ scope'[b] = scope[b]
           /\ b \in crossed' <=> b \in crossed
<1>0. b \in Actor /\ pc'[b] # "idle"
  BY DEF Busy
<1>1. CASE b # a
  BY <1>0, <1>1, Stays, Walk DEF Busy, Walks, Others, Same
<1>2. CASE b = a /\ Turned(a)
  <2>1. /\ pc[a] # "idle" /\ job'[a] = job[a] /\ scope'[a] = scope[a] /\ job[a].op # "deploy"
        /\ a \in crossed' <=> a \in crossed
    BY <1>2, Walk DEF Walks, Turned, Went, Leads, Ended, Gone
  <2> QED BY <1>0, <1>2, <2>1 DEF Busy, KindOf, Kind
<1>3. CASE b = a /\ ~Turned(a)
  BY <1>0, <1>3, Stays, Walk DEF Busy, Walks, Went, Ended
<1> QED BY <1>1, <1>2, <1>3

LEMMA PeaceStep ==
    ASSUME TypeInv, NEW a \in Actor, Step(a), Peace
    PROVE  Peace'
<1>0. spoiled \subseteq spoiled'
  BY Act DEF Acts, Spoils
<1>1. ASSUME NEW b \in Busy', NEW c \in Busy', b # c
      PROVE  /\ b \notin crossed' /\ scope'[b] \cap scope'[c] # {} => Mates(b, c)'
             /\ \A s \in scope'[b] \cap scope'[c] : s \notin spoiled' => Mates(b, c)'
  <2>1. Mates(b, c) => Mates(b, c)'
    BY KindStays DEF Mates
  <2> QED BY <1>0, <1>1, <2>1, KindStays DEF Peace
<1> QED BY <1>1 DEF Peace

LEMMA LateStep ==
    ASSUME TypeInv, NEW a \in Actor, Step(a), \A b \in Actor : Within(b), LateSpoiled
    PROVE  LateSpoiled'
<1>0. spoiled \subseteq spoiled'
  BY Act DEF Acts, Spoils
<1>1. CASE late' = late
  BY <1>0, <1>1 DEF LateSpoiled
<1>2. CASE pc[a] = "create" /\ late' = late \cup {job[a]} /\ spoiled' = spoiled \cup scope[a]
  <2>1. SlugOf[job[a].name] \in scope[a]
    BY <1>2, JobAt DEF Within, DeployPc
  <2> QED BY <1>2, <2>1 DEF LateSpoiled
<1> QED BY <1>1, <1>2, Act DEF Acts, Delays

-----------------------------------------------------------------------------
(* What a step spares.                                                       *)

\* nothing of a slug's changes
Untouched(s) ==
    /\ \A e \in Env : SlugOf[e] = s => RowsOf(e)' = RowsOf(e) /\ Kept(e)
    /\ bridge'[s] = bridge[s]
    /\ NetworksOf(s)' = NetworksOf(s)
    /\ s \in routed' <=> s \in routed

LEMMA AtRow ==
    ASSUME TypeInv, NEW a \in Actor, Within(a), pc[a] \in RemovePc
    PROVE  NameAt(a) = row[a].name /\ SlugAt(a) = SlugOf[row[a].name]
<1>1. row[a] # NoRow /\ pc[a] # "idle"
  BY RowAt DEF RemovePc
<1>2. job[a].op = "deploy" => row[a].name = job[a].name
  BY <1>1 DEF Within
<1> QED BY <1>2 DEF NameAt, SlugAt

\* the rows of a name are written by those at work on the name
LEMMA RowsSpared ==
    ASSUME TypeInv, Keys, NEW a \in Actor, Within(a), Step(a), NEW e \in Env, NameAt(a) # e
    PROVE  RowsOf(e)' = RowsOf(e)
<1>1. CASE rows' = rows
  BY <1>1 DEF RowsOf
<1>2. CASE pc[a] = "row" /\ rows' = {w \in rows : w.pk # row[a].pk}
  <2>1. row[a] \in Shown /\ row[a].name # e
    BY <1>2, RowAt, AtRow DEF RemovePc
  <2>2. \A w \in rows : w.name = e => w.pk # row[a].pk
    BY <2>1, ShownIs DEF Keys
  <2> QED BY <1>2, <2>2 DEF RowsOf
<1>3. ASSUME NEW v, New(a, v) PROVE RowsOf(e)' = RowsOf(e)
  <2>0. pc[a] = "store"
    BY <1>3, NewIs
  <2>1. NameAt(a) = job[a].name /\ job[a].op = "deploy"
    BY <2>0, JobAt DEF DeployPc
  <2>2. CASE v.name = job[a].name /\ rows' = rows \cup {v}
    BY <2>1, <2>2 DEF RowsOf
  <2>3. CASE /\ row[a] # NoRow /\ row[a] \in Shown /\ v.pk = row[a].pk /\ v.name = row[a].name
             /\ rows' = {w \in rows : w.pk # row[a].pk} \cup {v}
    <3>1. row[a].name # e
      BY <2>0, <2>1, <2>3 DEF Within
    <3>2. \A w \in rows : w.name = e => w.pk # row[a].pk
      BY <2>3, <3>1, ShownIs DEF Keys
    <3> QED BY <2>3, <3>1, <3>2 DEF RowsOf
  <2> QED BY <1>3, <2>2, <2>3, NewIs
<1>4. Filed(a) => \E v : New(a, v)
  BY DEF Filed, New
<1> QED BY <1>1, <1>2, <1>3, <1>4, Act DEF Acts, Writes

LEMMA NamesSpared ==
    ASSUME TypeInv, NEW a \in Actor, Within(a), Step(a), NEW e \in Env, NameAt(a) # e
    PROVE  Kept(e)
<1>1. pc[a] \in RemovePc => row[a].name # e
  BY AtRow
<1>2. pc[a] = "create" => job[a].name # e
  BY JobAt DEF DeployPc
<1> QED BY <1>1, <1>2, DockerStep DEF RemovePc, Created

LEMMA Foreign ==
    ASSUME TypeInv, Keys, OneSlugEach, OwnNets, NEW a \in Actor, Within(a), Step(a),
           NEW s \in Slug, SlugAt(a) # s
    PROVE  Untouched(s)
<1>0. /\ pc[a] # "idle" /\ a \in Busy /\ SlugAt(a) \in Slug
      /\ bridge \in [Slug -> 0..next] /\ networks \subseteq [id : 0..next, slug : Slug]
      /\ net[a] \in Nat /\ next \in Nat
  BY Walk, NameTyped, ShownTyped DEF Walks, Busy, TypeInv, DataInv, LocalInv
<1>1. ASSUME NEW e \in Env, SlugOf[e] = s PROVE RowsOf(e)' = RowsOf(e) /\ Kept(e)
  <2>1. NameAt(a) # e
    BY <1>1 DEF SlugAt
  <2> QED BY <2>1, RowsSpared, NamesSpared
<1>2. net[a] # 0 => ~Has(net[a], s)
  <2>1. Has(net[a], SlugAt(a))
    BY <1>0 DEF Has
  <2> QED BY <1>0, <2>1 DEF OneSlugEach
<1>3. bridge'[s] = bridge[s]
  <2>1. CASE bridge' = WithoutNet(net[a])
    <3>1. bridge[s] # net[a] \/ net[a] = 0
      BY <1>2 DEF Has
    <3> QED BY <1>0, <2>1, <3>1 DEF WithoutNet
  <2>2. CASE bridge' = [bridge EXCEPT ![SlugAt(a)] = next]
    BY <1>0, <2>2
  <2> QED BY <2>1, <2>2, Act DEF Acts, Bridges
<1>4. NetworksOf(s)' = NetworksOf(s)
  <2>1. CASE networks' = networks \cup {[id |-> net[a], slug |-> SlugAt(a)]}
    BY <2>1 DEF NetworksOf
  <2>2. CASE networks' = {n \in networks : n.id # net[a]}
    <3>1. \A n \in networks : n.slug = s => n.id # net[a]
      BY <1>2 DEF Has, OwnNets
    <3> QED BY <2>2, <3>1 DEF NetworksOf
  <2>3. CASE networks' = networks
    BY <2>3 DEF NetworksOf
  <2> QED BY <2>1, <2>2, <2>3, Act DEF Acts, Registers
<1>5. s \in routed' <=> s \in routed
  BY Act DEF Acts, Routes
<1> QED BY <1>1, <1>3, <1>4, <1>5 DEF Untouched

\* a first deployment, on its own slug or on another
FirstOrForeign(b, s) == SlugAt(b) # s \/ KindOf(b) = "first"

LEMMA FirstAt ==
    ASSUME TypeInv, NEW b \in Actor, Within(b), pc[b] # "idle", KindOf(b) = "first"
    PROVE  job[b].op = "deploy" /\ row[b] = NoRow /\ pc[b] \in DeployPc
<1>1. CASE job[b].op # "deploy"
  <2>1. row[b] # NoRow
    BY <1>1, InHand, NoRowIs
  <2> QED BY <1>1, <2>1 DEF KindOf, Kind
<1>2. CASE job[b].op = "deploy"
  <2>1. row[b] = NoRow
    BY <1>2 DEF KindOf, Kind
  <2> QED BY <1>2, <2>1 DEF Within
<1> QED BY <1>1, <1>2

LEMMA FirstsSpare ==
    ASSUME TypeInv, FreshInv, Keys, Unsold, OneSlugEach, OwnNets,
           NEW b \in Actor, Within(b), Step(b),
           NEW e \in Env, FirstOrForeign(b, SlugOf[e])
    PROVE  LET s == SlugOf[e] IN
           /\ docker[e].id # 0 => Kept(e)
           /\ \A n \in Nat : bridge[s] = n /\ n # 0 /\ (SlugAt(b) # s \/ net[b] # n) =>
                 bridge'[s] = n
           /\ \A m \in networks : m.slug = s /\ (SlugAt(b) # s \/ net[b] # m.id) =>
                 m \in networks'
           /\ s \in routed => s \in routed'
           /\ \/ RowsOf(e)' = RowsOf(e)
              \/ /\ pc[b] = "store" /\ docker[e].id = made[b] /\ made[b] # 0
                 /\ \A v \in Shown : v.id # made[b]
<1> DEFINE s == SlugOf[e]
<1>0. s \in Slug /\ pc[b] # "idle" /\ bridge \in [Slug -> 0..next] /\ next \in Nat
  BY SlugAssumption, Walk, ShownTyped DEF Walks, TypeInv, DataInv
<1>1. CASE SlugAt(b) # s
  <2>1. Untouched(s)
    BY <1>0, <1>1, Foreign
  <2>2. \A m : m \in networks /\ m.slug = s => m \in networks'
    BY <2>1 DEF Untouched, NetworksOf
  <2> QED BY <2>1, <2>2 DEF Untouched
<1>2. CASE SlugAt(b) = s /\ KindOf(b) = "first"
  <2>0. /\ job[b].op = "deploy" /\ row[b] = NoRow /\ pc[b] \in DeployPc
        /\ pc[b] \notin RemovePc
    BY <1>0, <1>2, FirstAt DEF DeployPc, RemovePc
  <2>1. docker[e].id # 0 => Kept(e)
    BY <2>0, DockerStep DEF RemovePc, Created
  <2>2. ASSUME NEW n \in Nat, bridge[s] = n, n # 0, net[b] # n PROVE bridge'[s] = n
    BY <1>0, <1>2, <2>2, Act DEF Acts, Bridges, WithoutNet
  <2>3. \A m \in networks : net[b] # m.id => m \in networks'
    BY Act DEF Acts, Registers
  <2>4. s \in routed => s \in routed'
    BY <2>0, Act DEF Acts, Routes, RemovePc
  <2>5. CASE rows' = rows
    BY <2>1, <2>2, <2>3, <2>4, <2>5, <1>2 DEF RowsOf
  <2>6. CASE Filed(b)
    <3>1. pc[b] = "store"
      BY <2>6 DEF Filed
    <3>2. CASE job[b].name = e
      BY <3>1, <3>2, <1>2, <2>1, <2>2, <2>3, <2>4 DEF Unsold
    <3>3. CASE job[b].name # e
      <4>1. RowsOf(e)' = RowsOf(e)
        BY <3>3, <2>0, RowsSpared DEF NameAt
      <4> QED BY <4>1, <1>2, <2>1, <2>2, <2>3, <2>4
    <3> QED BY <3>2, <3>3
  <2>7. rows' = rows \/ Filed(b)
    BY <2>0, Act DEF Acts, Writes, RemovePc
  <2> QED BY <2>5, <2>6, <2>7
<1> QED BY <1>1, <1>2 DEF FirstOrForeign

\* a removal, on its own slug or on another
RemovalOrForeign(b, s) == SlugAt(b) # s \/ KindOf(b) = "removal"

LEMMA RemovalsSpare ==
    ASSUME TypeInv, Keys, OneSlugEach, OwnNets,
           NEW b \in Actor, Within(b), Step(b),
           NEW e \in Env, RemovalOrForeign(b, SlugOf[e])
    PROVE  /\ RowsOf(e)' \subseteq RowsOf(e)
           /\ SlugOf[e] \in routed' => SlugOf[e] \in routed
<1>0. SlugOf[e] \in Slug /\ pc[b] # "idle"
  BY SlugAssumption, Walk DEF Walks
<1>1. CASE SlugAt(b) # SlugOf[e]
  BY <1>0, <1>1, Foreign DEF Untouched
<1>2. CASE KindOf(b) = "removal"
  <2>1. job[b].op # "deploy"
    BY <1>2 DEF KindOf, Kind
  <2>2. pc[b] \notin DeployPc
    BY <2>1, JobAt
  <2>3. rows' \subseteq rows
    BY <2>2, Act DEF Acts, Writes, Filed, DeployPc
  <2>4. \A s : s \in routed' => s \in routed
    BY <2>2, Act DEF Acts, Routes, DeployPc
  <2> QED BY <2>3, <2>4 DEF RowsOf
<1> QED BY <1>1, <1>2 DEF RemovalOrForeign

-----------------------------------------------------------------------------
(* A deployment and a deletion that met no foe.                              *)

Private(a) ==
    LET s == SlugAt(a) IN
    /\ net[a] # 0 /\ bridge[s] = net[a]
    /\ pc[a] # "insert_net" => [id |-> net[a], slug |-> s] \in networks
    /\ pc[a] \in {"store", "get", "put"} => docker[job[a].name].net = net[a]

Deploying(a) ==
    LET e == job[a].name IN
    /\ row[a] = NoRow /\ pc[a] \in {"new_net", "insert_net", "create"} /\ RowsOf(e) # {} =>
        docker[e].id # 0
    /\ row[a] = NoRow /\ pc[a] = "store" => RowsOf(e) = {}
    /\ row[a] # NoRow /\ pc[a] \notin {"get", "put"} => RowsOf(e) = {row[a]}
    /\ pc[a] \in {"get", "put"} => \E w \in rows : RowsOf(e) = {w} /\ docker[e].id = w.id
    /\ pc[a] \in {"insert_net", "create", "store", "get", "put"} /\ job[a].private => Private(a)

Deleting(a) ==
    LET e == row[a].name IN
    /\ \A w \in RowsOf(e) : w.pk = row[a].pk
    /\ pc[a] \in {"route", "read_net", "drop_net", "net_row"} => RowsOf(e) = {}
    /\ pc[a] \in {"read_net", "drop_net", "net_row"} => SlugOf[e] \notin routed

Undisturbed(a) ==
    pc[a] # "idle" /\ a \notin crossed =>
        /\ job[a].op = "deploy" => Deploying(a)
        /\ job[a].op = "delete" => Deleting(a)

LEMMA KindIs ==
    ASSUME TypeInv, NEW a \in Actor, pc[a] # "idle"
    PROVE  /\ job[a].op # "deploy" => KindOf(a) = "removal"
           /\ job[a].op = "deploy" /\ row[a] = NoRow => KindOf(a) = "first"
           /\ job[a].op = "deploy" /\ row[a] # NoRow => KindOf(a) = "replacement"
<1>1. job[a].op # "deploy" => row[a] # NoRow
  BY InHand, NoRowIs
<1> QED BY <1>1 DEF KindOf, Kind

\* a step beside a deployment or a deletion is by one of its kind, or elsewhere
LEMMA Beside ==
    ASSUME TypeInv, Peace, NEW a \in Actor, pc[a] # "idle", a \notin crossed, Within(a),
           NEW b \in Actor, b # a, pc[b] # "idle", Within(b)
    PROVE  SlugAt(b) # SlugAt(a) \/ Mates(a, b)
<1>1. a \in Busy /\ b \in Busy
  BY DEF Busy
<1>2. SlugAt(a) \in scope[a] /\ SlugAt(b) \in scope[b]
  BY DEF Within
<1> QED BY <1>1, <1>2 DEF Peace

LEMMA NetsDiffer ==
    ASSUME TypeInv, OwnNets, NEW a \in Actor, NEW b \in Actor, b # a, pc[a] \in Making,
           net[a] # 0, pc[b] \in DeployPc
    PROVE  net[b] # net[a]
BY DEF OwnNets, Making, DeployPc

LEMMA OneRowStays ==
    ASSUME TypeInv, FreshInv, Keys, Unsold, OneSlugEach, OwnNets,
           NEW b \in Actor, Within(b), Step(b),
           NEW e \in Env, FirstOrForeign(b, SlugOf[e]),
           NEW w \in rows, RowsOf(e) = {w}, docker[e].id = w.id
    PROVE  RowsOf(e)' = {w} /\ Kept(e) /\ w \in rows'
<1>1. w \in Shown /\ w.id # 0
  BY ShownIs DEF Keys
<1>2. RowsOf(e)' = RowsOf(e)
  BY <1>1, FirstsSpare
<1> QED BY <1>1, <1>2, FirstsSpare DEF RowsOf

LEMMA DeployingBeside ==
    ASSUME TypeInv, FreshInv, Keys, Unsold, OneSlugEach, OwnNets, Peace,
           NEW a \in Actor, pc[a] # "idle", a \notin crossed, Within(a),
           job[a].op = "deploy", Deploying(a),
           NEW b \in Actor, b # a, Within(b), Step(b)
    PROVE  Deploying(a)'
<1>e. PICK e \in Env : e = job[a].name
  BY JobAt
<1> DEFINE s == SlugOf[e]
<1>0. /\ pc[b] # "idle" /\ e = job[a].name /\ s \in Slug /\ SlugAt(a) = s /\ net[a] \in Nat
      /\ job[a].private \in BOOLEAN
  BY <1>e, Walk, JobAt, SlugAssumption, ShownTyped DEF Walks, TypeInv, LocalInv
<1>1. /\ pc'[a] = pc[a] /\ job'[a] = job[a] /\ row'[a] = row[a] /\ net'[a] = net[a]
      /\ SlugAt(a)' = SlugAt(a)
  BY Walk DEF Walks, Others, Same, SlugAt, NameAt
<1>2. CASE SlugAt(b) # s /\ row[a] # NoRow
  <2>1. Untouched(s)
    BY <1>0, <1>2, Foreign
  <2>2. RowsOf(e)' = RowsOf(e) /\ Kept(e) /\ bridge'[s] = bridge[s]
    BY <1>0, <2>1 DEF Untouched
  <2>3. \A m : m \in networks /\ m.slug = s => m \in networks'
    BY <2>1 DEF Untouched, NetworksOf
  <2>4. pc[a] \in {"get", "put"} =>
          \E w \in rows' : RowsOf(e)' = {w} /\ docker'[e].id = w.id
    BY <1>0, <2>2 DEF Deploying, RowsOf, Kept
  <2>5. Private(a) => Private(a)'
    BY <1>0, <1>1, <2>2, <2>3 DEF Private, Kept
  <2> QED BY <1>0, <1>1, <1>2, <2>2, <2>4, <2>5 DEF Deploying
<1>3. CASE row[a] = NoRow
  <2>0. FirstOrForeign(b, s)
    BY <1>0, <1>3, Beside, KindIs DEF FirstOrForeign, Mates
  <2>1. /\ docker[e].id # 0 => Kept(e)
        /\ \A n \in Nat : bridge[s] = n /\ n # 0 /\ (SlugAt(b) # s \/ net[b] # n) =>
              bridge'[s] = n
        /\ \A m \in networks : m.slug = s /\ (SlugAt(b) # s \/ net[b] # m.id) =>
              m \in networks'
        /\ \/ RowsOf(e)' = RowsOf(e)
           \/ /\ pc[b] = "store" /\ docker[e].id = made[b] /\ made[b] # 0
              /\ \A v \in Shown : v.id # made[b]
    BY <1>0, <2>0, FirstsSpare
  <2>2. pc[a] \in {"new_net", "insert_net", "create"} /\ RowsOf(e)' # {} =>
          docker'[e].id # 0
    BY <1>0, <1>3, <2>1 DEF Deploying, Kept
  <2>3. pc[a] = "store" => RowsOf(e)' = {}
    <3>1. pc[a] = "store" => docker[e].id = made[a] /\ RowsOf(e) = {}
      BY <1>0, <1>3 DEF Unsold, Deploying
    <3>2. pc[a] = "store" /\ pc[b] = "store" => made[a] # made[b]
      BY DEF FreshInv
    <3> QED BY <2>1, <3>1, <3>2
  <2>4. pc[a] \in {"get", "put"} =>
          \E w \in rows' : RowsOf(e)' = {w} /\ docker'[e].id = w.id
    <3> SUFFICES ASSUME pc[a] \in {"get", "put"}
                 PROVE \E w \in rows' : RowsOf(e)' = {w} /\ docker'[e].id = w.id
      OBVIOUS
    <3>1. PICK w \in rows : RowsOf(e) = {w} /\ docker[e].id = w.id
      BY <1>0 DEF Deploying
    <3>2. RowsOf(e)' = {w} /\ Kept(e) /\ w \in rows'
      BY <1>0, <2>0, <3>1, OneRowStays
    <3> QED BY <3>1, <3>2 DEF Kept
  <2>5. ASSUME pc[a] \in {"insert_net", "create", "store", "get", "put"}, Private(a)
        PROVE  Private(a)'
    <3>1. net[a] # 0 /\ bridge[s] = net[a]
      BY <1>0, <2>5 DEF Private
    <3>2. SlugAt(b) # s \/ net[b] # net[a]
      <4>1. SlugAt(b) = s => KindOf(b) = "first"
        BY <2>0 DEF FirstOrForeign
      <4>2. SlugAt(b) = s => pc[b] \in DeployPc
        BY <1>0, <4>1, FirstAt
      <4>3. pc[a] \in Making
        BY <2>5 DEF Making
      <4> QED BY <3>1, <4>2, <4>3, NetsDiffer
    <3>3. bridge'[s] = net[a]
      BY <1>0, <2>1, <3>1, <3>2
    <3>4. pc[a] # "insert_net" => [id |-> net[a], slug |-> s] \in networks'
      BY <1>0, <2>1, <2>5, <3>2 DEF Private
    <3>5. pc[a] \in {"store", "get", "put"} => docker[e].id # 0
      <4>1. \A w \in rows : w.id # 0
        BY ShownIs DEF Keys
      <4> QED BY <1>0, <4>1 DEF Unsold, Deploying
    <3> QED BY <1>0, <1>1, <2>1, <2>5, <3>1, <3>3, <3>4, <3>5 DEF Private, Kept
  <2> QED BY <1>0, <1>1, <1>3, <2>2, <2>3, <2>4, <2>5 DEF Deploying
<1>4. row[a] # NoRow => SlugAt(b) # s
  BY <1>0, Beside, KindIs DEF Mates
<1> QED BY <1>2, <1>3, <1>4

LEMMA DeletingBeside ==
    ASSUME TypeInv, Keys, OneSlugEach, OwnNets, Peace,
           NEW a \in Actor, pc[a] # "idle", a \notin crossed, Within(a),
           job[a].op = "delete", Deleting(a),
           NEW b \in Actor, b # a, Within(b), Step(b)
    PROVE  Deleting(a)'
<1>e. PICK e \in Env : e = row[a].name
  BY InHand DEF RowType
<1>0. pc[b] # "idle" /\ e = row[a].name /\ SlugAt(a) = SlugOf[e]
  BY <1>e, Walk, InHand DEF Walks, RowType, SlugAt, NameAt
<1>1. pc'[a] = pc[a] /\ job'[a] = job[a] /\ row'[a] = row[a]
  BY Walk DEF Walks, Others, Same
<1>2. RemovalOrForeign(b, SlugOf[e])
  BY <1>0, Beside, KindIs DEF RemovalOrForeign, Mates
<1>3. RowsOf(e)' \subseteq RowsOf(e) /\ (SlugOf[e] \in routed' => SlugOf[e] \in routed)
  BY <1>0, <1>2, RemovalsSpare
<1> QED BY <1>0, <1>1, <1>3 DEF Deleting

LEMMA RowsStay ==
    ASSUME TypeInv, NEW a \in Actor, Step(a), pc[a] \notin {"row", "store"}
    PROVE  rows' = rows
BY Act DEF Acts, Writes, Filed

LEMMA BridgesStay ==
    ASSUME TypeInv, NEW a \in Actor, Step(a), pc[a] \notin {"drop_net", "undo_net", "new_net"}
    PROVE  bridge' = bridge
BY Act DEF Acts, Bridges

LEMMA NetworksStay ==
    ASSUME TypeInv, NEW a \in Actor, Step(a), pc[a] \notin {"net_row", "undo_row"}
    PROVE  networks \subseteq networks'
BY Act DEF Acts, Registers

LEMMA ContainersStay ==
    ASSUME TypeInv, NEW a \in Actor, Step(a), pc[a] \notin {"stop", "delete", "force", "create"}
    PROVE  docker' = docker
BY Act DEF Acts, Contains

\* what is stored is the container made, in the one row of its name
LEMMA FiledDoes ==
    ASSUME TypeInv, Keys, Unsold, NEW a \in Actor, Step(a), Filed(a), Within(a), Deploying(a),
           NEW e \in Env, e = job[a].name
    PROVE  \E w \in rows' : RowsOf(e)' = {w} /\ docker'[e].id = w.id
<1>0. pc[a] = "store"
  BY DEF Filed
<1>1. docker' = docker /\ docker[e].id = made[a]
  BY <1>0, ContainersStay DEF Unsold
<1>2. PICK v : New(a, v)
  BY DEF Filed, New
<1>3. v.id = made[a] /\ v \in rows'
  BY <1>2, NewIs
<1>4. RowsOf(e)' = {v}
  <2>1. CASE row[a] = NoRow /\ v.name = job[a].name /\ rows' = rows \cup {v}
    <3>1. RowsOf(e) = {}
      BY <1>0, <2>1 DEF Deploying
    <3> QED BY <2>1, <3>1 DEF RowsOf
  <2>2. CASE /\ row[a] # NoRow /\ v.name = row[a].name
             /\ rows' = {w \in rows : w.pk # row[a].pk} \cup {v}
    <3>1. RowsOf(e) = {row[a]}
      BY <1>0, <2>2 DEF Deploying
    <3>2. v.name = e
      BY <3>1, <2>2 DEF RowsOf
    <3> QED BY <2>2, <3>1, <3>2 DEF RowsOf
  <2> QED BY <1>2, <2>1, <2>2, NewIs
<1> QED BY <1>1, <1>3, <1>4

LEMMA DeployStays ==
    ASSUME TypeInv, NEW a \in Actor, Within(a), job[a].op = "deploy", Step(a), pc'[a] # "idle"
    PROVE  /\ ~Turned(a) /\ Leads("deploy", pc[a], pc'[a])
           /\ job'[a] = job[a] /\ row'[a] = row[a] /\ SlugAt(a)' = SlugAt(a)
<1>0. pc[a] # "idle"
  BY Walk DEF Walks
<1>1. ~Turned(a)
  BY <1>0 DEF Within, Turned
<1> QED BY <1>1, Stays, Walk DEF Walks, Ended

LEMMA PrivateGoes ==
    ASSUME TypeInv, TypeInv', NEW a \in Actor, Within(a), job[a].op = "deploy",
           Deploying(a), Step(a), job[a].private,
           pc'[a] \in {"insert_net", "create", "store", "get", "put"}
    PROVE  Private(a)'
<1>e. PICK e \in Env : e = job[a].name
  BY JobAt, Walk DEF Walks
<1> DEFINE s == SlugOf[e]
<1>0. /\ SlugAt(a) = s /\ s \in Slug /\ SlugAt(a)' = s /\ job'[a].name = e
      /\ Leads("deploy", pc[a], pc'[a]) /\ ~Turned(a)
      /\ docker \in [Env -> [id : 0..next, net : 0..next]]
  BY <1>e, JobAt, Walk, DeployStays, SlugAssumption DEF Walks, TypeInv, DataInv
<1>1. CASE pc'[a] = "insert_net"
  <2>1. net'[a] = next /\ bridge'[SlugAt(a)] = next /\ next # 0
    BY <1>1, Hold, ShownTyped DEF Holds
  <2> QED BY <1>0, <1>1, <2>1 DEF Private
<1>2. CASE pc'[a] = "create"
  <2>1. pc[a] = "insert_net"
    <3> SUFFICES ASSUME pc[a] # "insert_net" PROVE FALSE
      OBVIOUS
    <3>1. pc[a] \in {"read_net", "drop_net", "net_row"}
      BY <1>0, <1>2 DEF Leads, Gone
    <3>2. net'[a] = 0
      BY <3>1, <1>2, Hold DEF Holds
    <3>3. net'[a] # 0 <=> job'[a].private
      BY <1>2 DEF TypeInv, LocalInv, Held
    <3> QED BY <3>2, <3>3, DeployStays, <1>2
  <2>2. net'[a] = net[a] /\ bridge' = bridge
    BY <1>0, <1>2, <2>1, Hold, BridgesStay DEF Holds
  <2>3. networks' = networks \cup {[id |-> net[a], slug |-> SlugAt(a)]}
    BY <2>1, Earn DEF Earns
  <2>4. Private(a)
    BY <2>1 DEF Deploying
  <2> QED BY <1>0, <1>2, <2>2, <2>3, <2>4 DEF Private
<1>3. CASE pc'[a] \in {"store", "get", "put"}
  <2>1. /\ pc[a] \in {"create", "store", "get"} /\ pc[a] # "new_net"
        /\ pc'[a] # "store" => pc[a] # "create"
    BY <1>0, <1>3 DEF Leads, Gone
  <2>2. net'[a] = net[a] /\ bridge' = bridge /\ networks \subseteq networks'
    BY <1>0, <1>3, <2>1, Hold, BridgesStay, NetworksStay DEF Holds
  <2>3. Private(a)
    BY <2>1 DEF Deploying
  <2>4. docker'[e].net = net[a]
    <3>1. CASE pc'[a] = "store"
      <4>1. Creates(job[a], next)
        BY <3>1, Hold DEF Holds
      <4> QED BY <1>e, <1>0, <4>1, <2>3 DEF Creates, Private
    <3>2. CASE pc'[a] # "store"
      <4>1. docker' = docker
        BY <2>1, <3>2, ContainersStay
      <4> QED BY <1>e, <1>3, <2>1, <2>3, <3>2, <4>1 DEF Private
    <3> QED BY <3>1, <3>2
  <2> QED BY <1>0, <1>3, <2>1, <2>2, <2>3, <2>4 DEF Private
<1> QED BY <1>1, <1>2, <1>3

LEMMA DeployingGoes ==
    ASSUME TypeInv, TypeInv', Keys, Unsold, NEW a \in Actor, Within(a), job[a].op = "deploy",
           Deploying(a), Step(a), pc'[a] # "idle"
    PROVE  Deploying(a)'
<1>e. PICK e \in Env : e = job[a].name
  BY JobAt, Walk DEF Walks
<1>0. /\ job'[a].name = e /\ job'[a] = job[a] /\ row'[a] = row[a] /\ pc[a] # "idle"
      /\ Leads("deploy", pc[a], pc'[a])
  BY <1>e, Walk, DeployStays DEF Walks
<1>1. pc[a] # "store" => RowsOf(e)' = RowsOf(e)
  <2>1. pc[a] # "row"
    BY <1>0 DEF Within, Labels, DeployPc
  <2> QED BY <2>1, RowsStay DEF RowsOf
<1>2. pc[a] = "store" => pc'[a] = "get"
  BY <1>0 DEF Leads
<1>3. ASSUME row[a] = NoRow, pc'[a] \in {"new_net", "insert_net", "create"}, RowsOf(e)' # {}
      PROVE  docker'[e].id # 0
  <2>1. pc[a] \in {"new_net", "insert_net"}
    BY <1>0, <1>3 DEF Leads, Within, Gone, DeployPc
  <2>2. docker' = docker
    BY <2>1, ContainersStay
  <2> QED BY <1>e, <1>1, <1>3, <2>1, <2>2 DEF Deploying
<1>4. ASSUME row[a] = NoRow, pc'[a] = "store" PROVE RowsOf(e)' = {}
  <2>1. pc[a] = "create" /\ Creates(job[a], next)
    BY <1>4, Hold DEF Holds
  <2> QED BY <1>e, <1>1, <1>4, <2>1 DEF Creates, Deploying
<1>5. ASSUME row[a] # NoRow, pc'[a] \notin {"get", "put"} PROVE RowsOf(e)' = {row[a]}
  <2>1. pc[a] # "store" /\ pc[a] \notin {"get", "put"}
    BY <1>0, <1>2, <1>5 DEF Leads
  <2> QED BY <1>e, <1>1, <1>5, <2>1 DEF Deploying
<1>6. ASSUME pc'[a] \in {"get", "put"}
      PROVE  \E w \in rows' : RowsOf(e)' = {w} /\ docker'[e].id = w.id
  <2>1. CASE pc[a] = "store"
    <3>1. Filed(a)
      BY <1>2, <2>1, Earn DEF Earns
    <3> QED BY <1>e, <3>1, FiledDoes
  <2>2. CASE pc[a] # "store"
    <3>1. pc[a] = "get"
      BY <1>0, <1>6, <2>2 DEF Leads, Gone
    <3>2. docker' = docker /\ rows' = rows
      BY <3>1, ContainersStay, RowsStay
    <3>3. \E w \in rows : RowsOf(e) = {w} /\ docker[e].id = w.id
      BY <1>e, <3>1 DEF Deploying
    <3> QED BY <3>2, <3>3 DEF RowsOf
  <2> QED BY <2>1, <2>2
<1>7. pc'[a] \in {"insert_net", "create", "store", "get", "put"} /\ job[a].private
         => Private(a)'
  BY PrivateGoes
<1> QED BY <1>0, <1>3, <1>4, <1>5, <1>6, <1>7 DEF Deploying

LEMMA DeletingGoes ==
    ASSUME TypeInv, NEW a \in Actor, Within(a), job[a].op = "delete",
           Deleting(a), Step(a), pc'[a] # "idle"
    PROVE  Deleting(a)'
<1>0. pc[a] # "idle" /\ todo[a] = {} /\ a # Reaper
  BY Walk DEF Walks, Within
<1>1. ~Turned(a)
  BY <1>0 DEF Turned
<1>2. /\ job'[a] = job[a] /\ row'[a] = row[a] /\ Leads("delete", pc[a], pc'[a])
  BY <1>1, Stays, Walk DEF Walks, Ended
<1>e. PICK e \in Env : e = row[a].name
  BY <1>0, InHand DEF RowType
<1>3. SlugAt(a) = SlugOf[e]
  BY <1>e DEF SlugAt, NameAt
<1>4. pc[a] \notin DeployPc /\ pc[a] # "look"
  BY <1>0, JobAt DEF Within, Labels
<1>5. RowsOf(e)' \subseteq RowsOf(e) /\ routed' \subseteq routed
  <2>1. rows' \subseteq rows
    BY <1>4, Act DEF Acts, Writes, Filed, DeployPc
  <2>2. routed' \subseteq routed
    BY <1>4, Act DEF Acts, Routes, DeployPc
  <2> QED BY <2>1, <2>2 DEF RowsOf
<1>6. ASSUME pc'[a] \in {"route", "read_net", "drop_net", "net_row"} PROVE RowsOf(e)' = {}
  <2>1. CASE pc[a] = "row"
    <3>1. rows' = {w \in rows : w.pk # row[a].pk}
      BY <2>1, Earn DEF Earns
    <3>2. \A w \in RowsOf(e) : w.pk = row[a].pk
      BY <1>e DEF Deleting
    <3> QED BY <3>1, <3>2 DEF RowsOf
  <2>2. CASE pc[a] # "row"
    <3>1. pc[a] \in {"route", "read_net", "drop_net"}
      BY <1>2, <1>6, <2>2 DEF Leads, Gone
    <3> QED BY <1>e, <1>5, <3>1 DEF Deleting
  <2> QED BY <2>1, <2>2
<1>7. ASSUME pc'[a] \in {"read_net", "drop_net", "net_row"} PROVE SlugOf[e] \notin routed'
  <2>1. CASE pc[a] = "route"
    <3>1. pc'[a] = "read_net"
      BY <1>2, <1>7, <2>1 DEF Leads
    <3> QED BY <1>0, <1>3, <2>1, <3>1, Earn DEF Earns
  <2>2. CASE pc[a] # "route"
    <3>1. pc[a] \in {"read_net", "drop_net"}
      BY <1>2, <1>7, <2>2 DEF Leads, Gone
    <3> QED BY <1>e, <1>5, <3>1 DEF Deleting
  <2> QED BY <2>1, <2>2
<1>8. \A w \in RowsOf(e)' : w.pk = row[a].pk
  BY <1>e, <1>5 DEF Deleting
<1> QED BY <1>e, <1>2, <1>6, <1>7, <1>8 DEF Deleting

LEMMA UndisturbedStep ==
    ASSUME TypeInv, TypeInv', FreshInv, Keys, Unsold, OneSlugEach, OwnNets, Peace,
           \A c \in Actor : Within(c) /\ Undisturbed(c),
           NEW b \in Actor, Step(b)
    PROVE  \A a \in Actor : Undisturbed(a)'
<1> TAKE a \in Actor
<1> SUFFICES ASSUME pc'[a] # "idle", a \notin crossed' PROVE Undisturbed(a)'
  BY DEF Undisturbed
<1>1. pc[a] # "idle" /\ a \notin crossed
  BY KindStays DEF Busy
<1>2. job'[a] = job[a]
  BY Walk DEF Walks, Others, Same, Turned, Went, Ended
<1>3. CASE b # a
  <2>1. job[a].op = "deploy" => Deploying(a)'
    BY <1>1, <1>3, DeployingBeside DEF Undisturbed
  <2>2. job[a].op = "delete" => Deleting(a)'
    BY <1>1, <1>3, DeletingBeside DEF Undisturbed
  <2> QED BY <1>2, <2>1, <2>2 DEF Undisturbed
<1>4. CASE b = a
  <2>1. job[a].op = "deploy" => Deploying(a)'
    BY <1>1, <1>4, DeployingGoes DEF Undisturbed
  <2>2. job[a].op = "delete" => Deleting(a)'
    BY <1>1, <1>4, DeletingGoes DEF Undisturbed
  <2> QED BY <1>2, <2>1, <2>2 DEF Undisturbed
<1> QED BY <1>3, <1>4

-----------------------------------------------------------------------------
(* What was answered, and those at work beside it.                           *)

KnownGone(e) ==
    /\ RowsOf(e) = {} /\ SlugOf[e] \notin routed
    /\ \A b \in Busy : SlugOf[e] \in scope[b] => KindOf(b) = "removal"

KnownOwn(e) ==
    LET s == SlugOf[e] IN
    /\ docker[e].net = bridge[s] /\ bridge[s] # 0
    /\ [id |-> bridge[s], slug |-> s] \in networks
    /\ \A b \in Busy : net[b] # bridge[s]

KnownThere(e) ==
    /\ \E w \in rows : RowsOf(e) = {w} /\ docker[e].id = w.id
    /\ \A b \in Busy : SlugOf[e] \in scope[b] => KindOf(b) = "first"

Known(e) ==
    /\ known[e] = NowGone => KnownGone(e)
    /\ known[e].op = "deploy" =>
        /\ KnownThere(e)
        /\ known[e].private => KnownOwn(e)
        /\ known[e].external => SlugOf[e] \in routed

LEMMA GoneStays ==
    ASSUME TypeInv, Keys, OneSlugEach, OwnNets, NEW a \in Actor, Within(a), Step(a),
           NEW e \in Env, KnownGone(e)
    PROVE  KnownGone(e)'
<1>1. a \in Busy /\ pc[a] # "idle" /\ SlugAt(a) \in scope[a]
  BY Walk DEF Walks, Busy, Within
<1>2. RemovalOrForeign(a, SlugOf[e])
  BY <1>1 DEF KnownGone, RemovalOrForeign
<1>3. RowsOf(e)' = {} /\ SlugOf[e] \notin routed'
  BY <1>2, RemovalsSpare DEF KnownGone
<1> QED BY <1>3, KindStays DEF KnownGone

LEMMA OwnStays ==
    ASSUME TypeInv, FreshInv, Keys, Unsold, OneSlugEach, OwnNets,
           NEW a \in Actor, Within(a), Step(a),
           NEW e \in Env, KnownThere(e), KnownOwn(e)
    PROVE  KnownOwn(e)'
<1> DEFINE s == SlugOf[e]
<1>1. /\ a \in Busy /\ pc[a] # "idle" /\ SlugAt(a) \in scope[a] /\ s \in Slug
      /\ SlugAt(a) \in Slug /\ next \in Nat
  BY Walk, SlugAssumption, NameTyped, ShownTyped DEF Walks, Busy, Within
<1>2. FirstOrForeign(a, s)
  BY <1>1 DEF KnownThere, FirstOrForeign
<1>3. Kept(e)
  BY <1>2, OneRowStays DEF KnownThere
<1>4. bridge[s] \in Nat \ {0} /\ net[a] # bridge[s]
  BY <1>1 DEF KnownOwn, TypeInv, DataInv
<1>5. bridge'[s] = bridge[s]
  BY <1>2, <1>4, FirstsSpare
<1>6. [id |-> bridge[s], slug |-> s] \in networks'
  BY <1>2, <1>4, FirstsSpare DEF KnownOwn
<1>7. ASSUME NEW b \in Busy', net'[b] = bridge[s] PROVE FALSE
  <2>1. CASE b # a
    <3>1. b \in Busy /\ net'[b] = net[b]
      BY <2>1, KindStays, Walk DEF Walks, Others, Same, Busy
    <3> QED BY <1>7, <3>1 DEF KnownOwn
  <2>2. CASE b = a
    <3>1. bridge[s] < next
      BY <1>1, <1>4 DEF OneSlugEach, Has
    <3>2. PICK m \in networks : m.slug = SlugAt(a) /\ bridge[s] = m.id /\ pc[a] = "read_net"
      BY <1>1, <1>4, <1>7, <2>2, <3>1, Hold DEF Holds
    <3>3. SlugAt(a) = s
      BY <1>1, <1>4, <3>2 DEF OneSlugEach, Has
    <3>4. KindOf(a) = "first"
      BY <1>2, <3>3 DEF FirstOrForeign
    <3> QED BY <1>1, <3>2, <3>4, FirstAt DEF DeployPc
  <2> QED BY <2>1, <2>2
<1> QED BY <1>3, <1>4, <1>5, <1>6, <1>7 DEF KnownOwn, Kept

LEMMA ThereStays ==
    ASSUME TypeInv, FreshInv, Keys, Unsold, OneSlugEach, OwnNets,
           NEW a \in Actor, Within(a), Step(a),
           NEW e \in Env, KnownThere(e)
    PROVE  KnownThere(e)' /\ (SlugOf[e] \in routed => SlugOf[e] \in routed')
<1>1. a \in Busy /\ pc[a] # "idle" /\ SlugAt(a) \in scope[a]
  BY Walk DEF Walks, Busy, Within
<1>2. FirstOrForeign(a, SlugOf[e])
  BY <1>1 DEF KnownThere, FirstOrForeign
<1>3. PICK w \in rows : RowsOf(e) = {w} /\ docker[e].id = w.id
  BY DEF KnownThere
<1>4. RowsOf(e)' = {w} /\ docker'[e].id = w.id /\ w \in rows'
  BY <1>2, <1>3, OneRowStays DEF Kept
<1>5. SlugOf[e] \in routed => SlugOf[e] \in routed'
  BY <1>2, FirstsSpare
<1> QED BY <1>4, <1>5, KindStays DEF KnownThere

\* a deletion's answer
LEMMA GoneAnswered ==
    ASSUME TypeInv, Keys, OneSlugEach, OwnNets, Peace, NEW a \in Actor, Within(a),
           Undisturbed(a), Step(a), a \notin crossed, job[a].op = "delete",
           pc[a] \in {"read_net", "drop_net", "net_row"}, Ended(a),
           NEW e \in Env, e = row[a].name
    PROVE  KnownGone(e)'
<1>1. a \in Busy /\ pc[a] # "idle" /\ SlugAt(a) = SlugOf[e] /\ SlugAt(a) \in scope[a]
  BY DEF Busy, SlugAt, NameAt, Within
<1>2. RowsOf(e) = {} /\ SlugOf[e] \notin routed
  BY <1>1 DEF Undisturbed, Deleting
<1>3. KindOf(a) = "removal"
  BY <1>1, KindIs
<1>4. RowsOf(e)' = {} /\ SlugOf[e] \notin routed'
  BY <1>2, <1>3, RemovalsSpare DEF RemovalOrForeign
<1>5. ASSUME NEW b \in Busy', SlugOf[e] \in scope'[b] PROVE KindOf(b)' = "removal"
  <2>1. b # a
    BY DEF Busy, Ended
  <2>2. b \in Busy /\ KindOf(b)' = KindOf(b) /\ SlugOf[e] \in scope[b]
    BY <1>5, KindStays
  <2> QED BY <1>1, <1>3, <2>1, <2>2 DEF Peace, Mates
<1> QED BY <1>4, <1>5 DEF KnownGone

\* a deployment's answer
LEMMA ThereAnswered ==
    ASSUME TypeInv, Keys, Unsold, OneSlugEach, OwnNets, Peace,
           \A c \in Actor : Within(c), NEW a \in Actor,
           Undisturbed(a), Step(a), a \notin crossed, Ended(a),
           (pc[a] = "store" /\ Filed(a)) \/ pc[a] = "put",
           NEW e \in Env, e = job[a].name
    PROVE  KnownThere(e)' /\ (job[a].private => KnownOwn(e)')
<1> DEFINE s == SlugOf[e]
<1>1. /\ a \in Busy /\ pc[a] # "idle" /\ SlugAt(a) = s /\ s \in scope[a]
      /\ job[a].op = "deploy" /\ s \in Slug /\ net[a] \in Nat
  BY JobAt, SlugAssumption DEF Busy, Within, DeployPc, TypeInv, LocalInv
<1>2. Deploying(a)
  BY <1>1 DEF Undisturbed
<1>3. docker' = docker /\ bridge' = bridge /\ networks \subseteq networks'
  BY ContainersStay, BridgesStay, NetworksStay
<1>4. \E w \in rows' : RowsOf(e)' = {w} /\ docker'[e].id = w.id
  <2>1. CASE pc[a] = "put"
    <3>1. rows' = rows
      BY <2>1, RowsStay
    <3> QED BY <1>2, <1>3, <2>1, <3>1 DEF Deploying, RowsOf
  <2>2. CASE Filed(a)
    BY <1>2, <2>2, FiledDoes
  <2> QED BY <2>1, <2>2
<1>5. ASSUME NEW b \in Busy'
      PROVE  /\ b # a /\ b \in Busy /\ b \in Actor /\ pc[b] # "idle" /\ net'[b] = net[b]
             /\ s \in scope'[b] => KindOf(b)' = "first" /\ KindOf(b) = "first"
  <2>1. b # a /\ b \in Actor /\ b \in Busy
    BY KindStays DEF Busy, Ended
  <2>2. KindOf(b)' = KindOf(b) /\ scope'[b] = scope[b] /\ net'[b] = net[b]
    BY <2>1, KindStays, Walk DEF Walks, Others, Same
  <2>3. s \in scope[b] => Mates(a, b)
    BY <1>1, <2>1 DEF Peace
  <2>4. s \in scope[b] => KindOf(b) = "first"
    BY <1>1, <2>3, KindIs DEF Mates
  <2> QED BY <2>1, <2>2, <2>4 DEF Busy
<1>6. ASSUME job[a].private PROVE KnownOwn(e)'
  <2>1. Private(a)
    BY <1>2, <1>6 DEF Deploying
  <2>2. /\ net[a] # 0 /\ bridge[s] = net[a] /\ docker[e].net = net[a]
        /\ [id |-> net[a], slug |-> s] \in networks
    BY <1>1, <2>1 DEF Private
  <2>3. ASSUME NEW b \in Busy', net'[b] = net[a] PROVE FALSE
    <3>1. b # a /\ b \in Busy /\ b \in Actor /\ pc[b] # "idle" /\ net[b] = net[a]
      BY <1>5, <2>3
    <3>2. SlugAt(b) \in Slug /\ SlugAt(b) \in scope[b]
      BY <3>1, NameTyped DEF Within
    <3>3. SlugAt(b) = s
      BY <1>1, <2>2, <3>1, <3>2 DEF OneSlugEach, Has
    <3>4. KindOf(b) = "first"
      BY <1>5, <3>2, <3>3, KindStays
    <3>5. pc[b] \in DeployPc
      BY <3>1, <3>4, FirstAt
    <3> QED BY <2>2, <3>1, <3>5, NetsDiffer DEF Making
  <2> QED BY <1>3, <2>2, <2>3 DEF KnownOwn
<1> QED BY <1>4, <1>5, <1>6 DEF KnownThere

LEMMA KnownStep ==
    ASSUME TypeInv, FreshInv, Keys, Unsold, OneSlugEach, OwnNets, Peace,
           \A c \in Actor : Within(c) /\ Undisturbed(c),
           NEW a \in Actor, Step(a), NEW e \in Env, Known(e)
    PROVE  Known(e)'
<1>1. CASE known'[e] = known[e]
  BY <1>1, GoneStays, ThereStays, OwnStays DEF Known
<1>2. CASE known'[e] # known[e]
  <2>1. CASE /\ Answers(a, row[a].name, NowGone) /\ job[a].op = "delete"
             /\ pc[a] \in {"read_net", "drop_net", "net_row"}
    <3>1. e = row[a].name /\ a \notin crossed /\ known'[e] = NowGone /\ Ended(a)
      BY <1>2, <2>1 DEF Answers
    <3>2. KnownGone(e)'
      BY <2>1, <3>1, GoneAnswered
    <3> QED BY <3>1, <3>2 DEF Known, NowGone
  <2>2. CASE /\ Answers(a, job[a].name, job[a])
             /\ \/ pc[a] = "store" /\ ~job[a].external /\ Filed(a)
                \/ pc[a] = "put" /\ routed' = routed \cup {SlugAt(a)}
    <3>1. e = job[a].name /\ a \notin crossed /\ known'[e] = job[a] /\ Ended(a)
      BY <1>2, <2>2 DEF Answers
    <3>2. KnownThere(e)' /\ (job[a].private => KnownOwn(e)')
      BY <2>2, <3>1, ThereAnswered
    <3>3. job[a].op = "deploy" /\ SlugAt(a) = SlugOf[e]
      BY <2>2, <3>1, JobAt DEF DeployPc
    <3> QED BY <2>2, <3>1, <3>2, <3>3 DEF Known, NowGone
  <2> QED BY <1>2, <2>1, <2>2, Tell DEF Tells
<1> QED BY <1>1, <1>2

-----------------------------------------------------------------------------
(* A slug on which nothing has gone wrong.                                   *)

\* whose removal is past its container
Bare(a) ==
    pc[a] \in {"row", "route"} /\ job[a].op # "deploy" /\ SlugAt(a) \notin spoiled =>
        docker[row[a].name].id # row[a].id

\* the row in a removal's hands is what the table has under its key
Alike(a) ==
    pc[a] # "idle" /\ job[a].op # "deploy" =>
        \A v \in todo[a] \cup {row[a]} : \A w \in rows :
            v.pk = w.pk /\ SlugOf[v.name] \notin spoiled => v = w

LEMMA BareStep ==
    ASSUME TypeInv, Keys, \A c \in Actor : Within(c), \A c \in Actor : Bare(c),
           NEW a \in Actor, Step(a)
    PROVE  \A b \in Actor : Bare(b)'
<1>0. spoiled \subseteq spoiled'
  BY Act DEF Acts, Spoils
<1> TAKE b \in Actor
<1> SUFFICES ASSUME pc'[b] \in {"row", "route"}, job'[b].op # "deploy", SlugAt(b)' \notin spoiled'
             PROVE  docker'[row'[b].name].id # row'[b].id
  BY DEF Bare
<1>1. /\ pc[b] # "idle" /\ SlugAt(b)' = SlugAt(b) /\ job'[b] = job[b] /\ row'[b] = row[b]
  BY Stays DEF Turned
<1>e. PICK e \in Env : e = row[b].name
  BY <1>1, InHand DEF RowType
<1>2. row[b] \in Shown /\ row[b].id # 0 /\ row[b].id # next
  <2>1. row[b] # NoRow
    BY <1>1, InHand, NoRowIs
  <2>2. row[b] \in Shown
    BY <2>1, ShownIs
  <2>3. row[b].id # 0 /\ row[b].id < next /\ row[b].id \in Nat /\ next \in Nat
    BY <2>2, ShownTyped DEF Keys
  <2>4. row[b].id # next
    BY <2>3
  <2> QED BY <2>2, <2>3, <2>4
<1>3. ASSUME docker[e].id # row[b].id PROVE docker'[e].id # row[b].id
  BY <1>2, <1>3, DockerStep DEF Kept, Created
<1>4. CASE b # a
  <2>1. pc[b] \in {"row", "route"}
    BY <1>4, Walk DEF Walks, Others, Same
  <2> QED BY <1>0, <1>e, <1>1, <1>3, <2>1 DEF Bare
<1>5. CASE b = a
  <2>1. Leads(job[a].op, pc[a], pc'[a])
    BY <1>5, Walk DEF Walks, Ended, Turned
  <2>2. ~Wronged(a)
    BY <1>1, <1>5 DEF Wronged, Within
  <2>3. CASE pc[a] \in {"row", "route"}
    BY <1>0, <1>e, <1>1, <1>3, <1>5, <2>3 DEF Bare
  <2>4. CASE pc[a] = "look"
    BY <1>e, <1>1, <1>3, <1>5, <2>1, <2>2, <2>4, Earn DEF Earns, Leads, Gone, Exists
  <2>5. CASE pc[a] \in {"delete", "force"}
    <3>1. Removed(a)
      BY <1>5, <2>2, <2>5, Earn DEF Earns
    <3>2. docker[e].id = row[a].id => docker'[e].id = 0
      BY <1>e, <1>5, <3>1 DEF Removed, Exists, NoContainer, TypeInv, DataInv
    <3> QED BY <1>e, <1>1, <1>2, <1>3, <1>5, <3>2
  <2> QED BY <1>5, <2>1, <2>3, <2>4, <2>5 DEF Leads
<1> QED BY <1>4, <1>5

LEMMA AlikeStep ==
    ASSUME TypeInv, Keys, Peace, \A c \in Actor : Within(c), \A c \in Actor : Alike(c),
           NEW a \in Actor, Step(a)
    PROVE  \A b \in Actor : Alike(b)'
<1>0. spoiled \subseteq spoiled'
  BY Act DEF Acts, Spoils
<1> TAKE b \in Actor
<1> SUFFICES ASSUME pc'[b] # "idle", job'[b].op # "deploy",
                    NEW v \in todo'[b] \cup {row'[b]}, NEW w \in rows',
                    v.pk = w.pk, SlugOf[v.name] \notin spoiled'
             PROVE  v = w
  BY DEF Alike
<1>1. /\ pc[b] # "idle" /\ b \in Busy /\ job'[b] = job[b] /\ v \in todo[b] \cup {row[b]}
  BY Walk DEF Busy, Walks, Others, Same, Ended, Turned, Went
<1>2. v \in Shown /\ SlugOf[v.name] \in scope[b]
  <2>1. row[b] # NoRow /\ SlugAt(b) = SlugOf[row[b].name]
    BY <1>1, InHand, NoRowIs DEF SlugAt, NameAt
  <2> QED BY <1>1, <2>1, ShownIs DEF Within
<1>3. CASE w \in rows
  BY <1>0, <1>1, <1>3 DEF Alike
<1>4. CASE New(a, w)
  <2>0. /\ pc[a] = "store" /\ a \in Busy /\ pc[a] # "idle" /\ SlugAt(a) = SlugOf[job[a].name]
        /\ SlugAt(a) \in scope[a] /\ job[a].op = "deploy"
    BY <1>4, NewIs, JobAt DEF Busy, DeployPc, Within
  <2>1. w.pk # next
    BY <1>2, ShownTyped DEF Keys
  <2>2. row[a] # NoRow /\ row[a] \in Shown /\ w.pk = row[a].pk
    BY <1>4, <2>1, NewIs
  <2>3. v.name = row[a].name /\ row[a].name = job[a].name
    BY <1>2, <2>0, <2>2 DEF Keys, Within
  <2>4. KindOf(a) = "replacement"
    BY <2>0, <2>2, KindIs
  <2>5. SlugOf[v.name] \in scope[a] \cap scope[b] /\ a # b
    BY <1>1, <1>2, <2>0, <2>3
  <2> QED BY <1>0, <1>1, <2>0, <2>4, <2>5 DEF Peace, Mates
<1> QED BY <1>3, <1>4, RowsGrow

\* the strengthening of the invariants
SInv ==
    /\ IsFiniteSet(rows)
    /\ Keys /\ Unsold /\ OneSlugEach /\ OwnNets /\ Peace /\ LateSpoiled
    /\ \A a \in Actor : Within(a)
    /\ \A a \in Actor : Undisturbed(a)
    /\ \A e \in Env : Known(e)
    /\ \A a \in Actor : Bare(a)
    /\ \A a \in Actor : Alike(a)

LEMMA StepKeeps ==
    ASSUME TypeInv, TypeInv', FreshInv, SInv, NEW a \in Actor, Step(a)
    PROVE  SInv'
<1> USE DEF SInv
<1>1. IsFiniteSet(rows')
  <2>1. CASE rows' \subseteq rows
    BY <2>1, FS_Subset
  <2>2. ASSUME NEW v, \A w \in rows' : w \in rows \/ w = v PROVE IsFiniteSet(rows')
    <3>1. IsFiniteSet(rows \cup {v})
      BY FS_AddElement
    <3>2. rows' \subseteq rows \cup {v}
      BY <2>2
    <3> QED BY <3>1, <3>2, FS_Subset
  <2> QED BY <2>1, <2>2, RowsGrow
<1>2. Keys'
  BY KeysStep
<1>3. Unsold'
  BY UnsoldStep
<1>4. OneSlugEach'
  BY OneSlugStep
<1>5. OwnNets'
  BY OwnNetsStep
<1>6. Peace'
  BY PeaceStep
<1>7. LateSpoiled'
  BY LateStep
<1>8. \A b \in Actor : Within(b)'
  BY WithinStep
<1>9. \A b \in Actor : Undisturbed(b)'
  BY UndisturbedStep
<1>10. \A e \in Env : Known(e)'
  BY KnownStep
<1>11. \A b \in Actor : Bare(b)'
  BY BareStep
<1>12. \A b \in Actor : Alike(b)'
  BY AlikeStep
<1> QED BY <1>1, <1>2, <1>3, <1>4, <1>5, <1>6, <1>7, <1>8, <1>9, <1>10, <1>11, <1>12

-----------------------------------------------------------------------------
(* A request that begins, a late creation, a restart.                        *)

LEMMA StartKeepsKeys ==
    ASSUME TypeInv, SInv, NEW a \in Actor, Starts(a)
    PROVE  Shown' \subseteq Shown /\ Keys' /\ Unsold'
<1>0. /\ UNCHANGED <<rows, docker, next>>
      /\ \A b \in Actor \ {a} : Still(b)
      /\ todo'[a] \subseteq rows /\ (row'[a] \in rows \/ row'[a] = NoRow)
      /\ pc'[a] # "store"
  BY DEF Starts, Deploys, Removes
<1>1. ASSUME NEW v \in Shown' PROVE v \in Shown
  BY <1>0, <1>1, ShownIs DEF Still
<1>2. Keys'
  BY <1>0, <1>1 DEF SInv, Keys
<1>3. Unsold'
  BY <1>0, <1>1 DEF SInv, Unsold, Still
<1> QED BY <1>1, <1>2, <1>3

LEMMA StartKeepsNets ==
    ASSUME TypeInv, SInv, NEW a \in Actor, Starts(a)
    PROVE  OneSlugEach' /\ OwnNets'
<1>0. /\ UNCHANGED <<networks, docker, bridge, next>>
      /\ \A b \in Actor \ {a} : Still(b)
      /\ net'[a] = 0
  BY DEF Starts
<1>1. ASSUME NEW n \in Nat \ {0}, NEW s \in Slug, Has(n, s)' PROVE Has(n, s)
  <2>1. ASSUME NEW b \in Busy', net'[b] = n, SlugAt(b)' = s PROVE Has(n, s)
    <3>1. b # a /\ b \in Actor
      BY <1>0, <2>1 DEF Busy
    <3>2. b \in Busy /\ net[b] = n /\ SlugAt(b) = s
      BY <1>0, <2>1, <3>1 DEF Still, Busy, SlugAt, NameAt
    <3> QED BY <3>2 DEF Has
  <2> QED BY <1>0, <1>1, <2>1 DEF Has
<1>2. OneSlugEach'
  BY <1>0, <1>1 DEF SInv, OneSlugEach
<1>3. OwnNets'
  <2>1. \A b \in Actor : pc'[b] \in Making /\ net'[b] # 0 =>
           b # a /\ pc[b] \in Making /\ net[b] = net'[b]
    BY <1>0 DEF Still
  <2>2. \A b \in Actor : pc'[b] = "new_net" => net'[b] = 0
    BY <1>0 DEF SInv, OwnNets, Still
  <2>3. \A b, c \in Actor :
          pc'[b] \in Making /\ pc'[c] \in Making /\ net'[b] = net'[c] /\ net'[b] # 0 => b = c
    BY <2>1 DEF SInv, OwnNets
  <2> QED BY <1>0, <2>2, <2>3 DEF SInv, OwnNets, Making
<1> QED BY <1>2, <1>3

LEMMA StartKind ==
    ASSUME TypeInv, NEW a \in Actor, Starts(a)
    PROVE  /\ KindOf(a)' = Kind(job'[a], row'[a])
           /\ \A b \in Busy' : b # a =>
                 b \in Busy /\ KindOf(b)' = KindOf(b) /\ scope'[b] = scope[b]
<1>1. \A b \in Actor \ {a} : Still(b)
  BY DEF Starts
<1> QED BY <1>1 DEF Still, Busy, KindOf, Kind

LEMMA StartKeepsPeace ==
    ASSUME TypeInv, SInv, NEW a \in Actor, Starts(a)
    PROVE  Peace'
<1>0. Greets(a) /\ crossed \subseteq crossed' /\ spoiled \subseteq spoiled'
  BY DEF Starts, Greets
<1> DEFINE P(b, c) == /\ b \notin crossed' /\ scope'[b] \cap scope'[c] # {} => Mates(b, c)'
                      /\ \A s \in scope'[b] \cap scope'[c] : s \notin spoiled' => Mates(b, c)'
<1>1. ASSUME NEW b \in Busy', NEW c \in Busy', b # c, b # a, c # a PROVE P(b, c)
  <2>1. /\ b \in Busy /\ c \in Busy /\ scope'[b] = scope[b] /\ scope'[c] = scope[c]
        /\ Mates(b, c) => Mates(b, c)'
    BY <1>1, StartKind DEF Mates
  <2> QED BY <1>0, <1>1, <2>1 DEF SInv, Peace
<1>2. ASSUME NEW b \in Busy', b # a
      PROVE  /\ scope'[b] \cap scope'[a] # {} =>
                \/ KindOf(b)' = KindOf(a)' /\ KindOf(b)' # "replacement"
                \/ a \in crossed' /\ b \in crossed' /\ scope'[b] \cap scope'[a] \subseteq spoiled'
  BY <1>0, <1>2, StartKind DEF Greets
<1>3. ASSUME NEW b \in Busy', b # a PROVE P(a, b) /\ P(b, a)
  <2>1. CASE KindOf(b)' = KindOf(a)' /\ KindOf(b)' # "replacement"
    <3>1. Mates(a, b)' /\ Mates(b, a)'
      BY <2>1 DEF Mates
    <3> QED BY <3>1
  <2>2. CASE scope'[b] \cap scope'[a] = {}
    BY <2>2
  <2>3. CASE a \in crossed' /\ b \in crossed' /\ scope'[b] \cap scope'[a] \subseteq spoiled'
    BY <2>3
  <2> QED BY <1>2, <1>3, <2>1, <2>2, <2>3
<1>4. \A b, c \in Busy' : b # c => P(b, c)
  BY <1>1, <1>3
<1> QED BY <1>4 DEF Peace

LEMMA StartKeepsWithin ==
    ASSUME TypeInv, SInv, NEW a \in Actor, Starts(a)
    PROVE  \A b \in Actor : Within(b)'
<1>0. Greets(a) /\ crossed \subseteq crossed' /\ spoiled \subseteq spoiled'
  BY DEF Starts, Greets
<1> TAKE b \in Actor
<1>1. CASE b # a
  <2>1. Still(b)
    BY <1>1 DEF Starts
  <2>2. ASSUME pc[b] # "idle", job[b].op = "deploy", b \in crossed'
        PROVE  SlugAt(b) \in spoiled'
    <3>1. scope[b] = {SlugAt(b)}
      BY <2>2 DEF SInv, Within
    <3>2. b \notin crossed => scope'[b] \cap scope'[a] # {} /\ scope'[b] \cap scope'[a] \subseteq spoiled'
      BY <1>0, <1>1, <2>1, <2>2 DEF Greets, Still
    <3>3. b \in crossed => SlugAt(b) \in spoiled
      BY <2>2 DEF SInv, Within
    <3> QED BY <1>0, <2>1, <3>1, <3>2, <3>3 DEF Still
  <2>3. SlugAt(b)' = SlugAt(b)
    BY <2>1 DEF Still, SlugAt, NameAt
  <2> QED BY <1>0, <2>1, <2>2, <2>3 DEF SInv, Within, Still
<1>2. CASE b = a
  <2>1. CASE Deploys(a)
    <3>1. job'[a].op = "deploy" /\ SlugAt(a)' = SlugOf[job'[a].name]
      BY <2>1, Ops DEF Deploys, SlugAt, NameAt
    <3>2. NoRow \notin rows
      BY NoRowIs DEF TypeInv, DataInv
    <3>3. pc'[a] \in Labels(job'[a].op) /\ (row'[a] = NoRow => pc'[a] \in DeployPc)
      BY <2>1, <3>1, <3>2 DEF Deploys, Labels, DeployPc
    <3>4. a \in crossed' => SlugAt(a)' \in spoiled'
      BY <1>0, <2>1, <3>1 DEF Deploys, Greets
    <3> QED BY <1>2, <2>1, <3>1, <3>3, <3>4 DEF Within, Deploys
  <2>2. CASE Removes(a)
    <3>1. job'[a].op \in {"delete", "clear", "reap", "drop"}
      BY <2>2, Ops DEF Removes
    <3>2. SlugAt(a)' = SlugOf[row'[a].name]
      BY <3>1 DEF SlugAt, NameAt
    <3>3. pc'[a] \in Labels(job'[a].op)
      BY <2>2, <3>1 DEF Removes, Labels, RemovePc
    <3> QED BY <1>2, <2>2, <3>1, <3>2, <3>3 DEF Within, Removes
  <2> QED BY <2>1, <2>2 DEF Starts
<1> QED BY <1>1, <1>2

LEMMA StartKeepsOwn ==
    ASSUME TypeInv, SInv, NEW a \in Actor, Starts(a)
    PROVE  \A b \in Actor : Undisturbed(b)' /\ Bare(b)' /\ Alike(b)'
<1>0. /\ crossed \subseteq crossed' /\ spoiled \subseteq spoiled'
      /\ UNCHANGED <<rows, networks, docker, bridge, routed, next>>
      /\ \A e \in Env : RowsOf(e)' = RowsOf(e)
  BY DEF Starts, Greets, RowsOf
<1> TAKE b \in Actor
<1>1. CASE b # a
  <2>1. Still(b) /\ SlugAt(b)' = SlugAt(b)
    BY <1>1 DEF Starts, Still, SlugAt, NameAt
  <2>2. Undisturbed(b)'
    <3>1. Deploying(b) => Deploying(b)'
      BY <1>0, <2>1 DEF Deploying, Private, Still, RowsOf
    <3>2. Deleting(b) => Deleting(b)'
      BY <1>0, <2>1 DEF Deleting, Still, RowsOf
    <3> QED BY <1>0, <2>1, <3>1, <3>2 DEF SInv, Undisturbed, Still
  <2>3. Bare(b)' /\ Alike(b)'
    BY <1>0, <2>1 DEF SInv, Bare, Alike, Still
  <2> QED BY <2>2, <2>3
<1>2. CASE b = a
  <2>1. CASE Deploys(a)
    <3>1. job'[a].op = "deploy" /\ job'[a].name \in Env
      BY <2>1, Ops DEF Deploys
    <3>e. PICK e \in Env : e = job'[a].name
      BY <3>1
    <3>2. NoRow \notin rows
      BY NoRowIs DEF TypeInv, DataInv
    <3>3. Deploying(a)'
      BY <1>0, <2>1, <3>e, <3>2 DEF Deploying, Deploys, RowsOf
    <3>4. Bare(a)' /\ Alike(a)'
      BY <3>1 DEF Bare, Alike
    <3> QED BY <1>2, <3>1, <3>3, <3>4 DEF Undisturbed
  <2>2. CASE Removes(a)
    <3>1. job'[a].op \in {"delete", "clear", "reap", "drop"}
      BY <2>2, Ops DEF Removes
    <3>2. pc'[a] \in {"fetch", "stop", "look"}
      BY <2>2, <3>1 DEF Removes
    <3>e. PICK e \in Env : e = row'[a].name
      BY <2>2 DEF Removes, TypeInv, DataInv, RowType
    <3>3. job'[a].op = "delete" => Deleting(a)'
      BY <1>0, <2>2, <3>2, <3>e DEF Deleting, Removes, RowsOf
    <3>4. Bare(a)'
      BY <3>2 DEF Bare
    <3>5. Alike(a)'
      BY <1>0, <2>2 DEF Alike, Removes, SInv, Keys
    <3> QED BY <1>2, <3>1, <3>3, <3>4, <3>5 DEF Undisturbed
  <2> QED BY <2>1, <2>2 DEF Starts
<1> QED BY <1>1, <1>2

LEMMA StartKeepsKnown ==
    ASSUME TypeInv, SInv, NEW a \in Actor, Starts(a)
    PROVE  \A e \in Env : Known(e)'
<1> TAKE e \in Env
<1>0. /\ UNCHANGED <<rows, networks, docker, bridge, routed, next>>
      /\ known'[e] = IF SlugOf[e] \in scope'[a] THEN Unknown ELSE known[e]
      /\ \A b \in Actor \ {a} : Still(b)
      /\ net'[a] = 0 /\ RowsOf(e)' = RowsOf(e)
  BY DEF Starts, RowsOf
<1>1. CASE SlugOf[e] \in scope'[a]
  BY <1>0, <1>1 DEF Known, Unknown, NowGone
<1>2. CASE SlugOf[e] \notin scope'[a]
  <2>1. \A b \in Busy' : SlugOf[e] \in scope'[b] =>
           b \in Busy /\ KindOf(b)' = KindOf(b) /\ SlugOf[e] \in scope[b]
    BY <1>2, StartKind
  <2>2. KnownGone(e) => KnownGone(e)'
    BY <1>0, <2>1 DEF KnownGone
  <2>3. KnownThere(e) => KnownThere(e)'
    BY <1>0, <2>1 DEF KnownThere
  <2>4. KnownOwn(e) => KnownOwn(e)'
    <3>1. \A b \in Busy' : b = a \/ (b \in Busy /\ net'[b] = net[b])
      BY <1>0 DEF Busy, Still
    <3> QED BY <1>0, <3>1 DEF KnownOwn
  <2> QED BY <1>0, <1>2, <2>2, <2>3, <2>4 DEF SInv, Known
<1> QED BY <1>1, <1>2

LEMMA StartKeeps ==
    ASSUME TypeInv, SInv, NEW a \in Actor, Starts(a)
    PROVE  SInv'
<1>1. IsFiniteSet(rows')
  BY DEF Starts, SInv
<1>2. LateSpoiled'
  BY DEF Starts, Greets, SInv, LateSpoiled
<1> QED
  BY <1>1, <1>2, StartKeepsKeys, StartKeepsNets, StartKeepsPeace, StartKeepsWithin,
     StartKeepsOwn, StartKeepsKnown DEF SInv

\* a creation that is late makes a container where there was none
LEMMA LateKeeps ==
    ASSUME TypeInv, SInv, NEW j \in late, LateCreate(j)
    PROVE  SInv'
<1>0. /\ UNCHANGED <<rows, networks, bridge, routed, pc, job, row, net, made, todo, scope,
                     crossed, spoiled, known>>
      /\ late' \subseteq late /\ next' = next + 1 /\ next \in Nat /\ j \in Deployment
      /\ Busy' = Busy
      /\ \A e \in Env : RowsOf(e)' = RowsOf(e)
  BY ShownTyped DEF LateCreate, database, local, history, Busy, TypeInv, DataInv, RowsOf
<1>1. ASSUME NEW e \in Env PROVE Kept(e) \/ Created(e, j)
  BY <1>0, MadeIs DEF LateCreate, Kept
<1>2. ASSUME NEW e \in Env, docker[e].id # 0 PROVE Kept(e)
  BY <1>1, <1>2 DEF Created
<1>3. Shown' = Shown
  BY <1>0 DEF Shown
<1>4. Keys'
  <2>1. \A v \in Shown : v.pk \in Nat /\ v.id \in Nat /\ v.pk < next /\ v.id < next /\ v.id # 0
    BY ShownTyped DEF SInv, Keys
  <2>2. \A v \in Shown : v.pk < next' /\ v.id < next' /\ v.id # 0
    BY <1>0, <2>1
  <2> QED BY <1>0, <1>3, <2>2 DEF SInv, Keys
<1>5. Unsold'
  <2>1. \A b \in Actor : pc[b] = "store" => job[b].name \in Env
    BY JobAt DEF DeployPc
  <2> QED BY <1>0, <1>2, <1>3, <2>1 DEF SInv, Unsold, Kept
<1>6. OneSlugEach'
  <2>1. ASSUME NEW n \in Nat \ {0}, NEW s \in Slug, Has(n, s)' PROVE Has(n, s)
    <3>1. \A e \in Env : docker'[e].net = n => docker[e].net = n \/ bridge[SlugOf[e]] = n
      BY <1>1 DEF Kept, Created
    <3>2. \A b \in Busy : SlugAt(b)' = SlugAt(b)
      BY <1>0 DEF SlugAt, NameAt
    <3> QED BY <1>0, <2>1, <3>1, <3>2 DEF Has
  <2>2. \A n \in Nat \ {0} : n < next => n < next'
    BY <1>0
  <2> QED BY <2>1, <2>2 DEF SInv, OneSlugEach
<1>7. OwnNets'
  BY <1>0 DEF SInv, OwnNets
<1>8. Peace' /\ LateSpoiled'
  BY <1>0 DEF SInv, Peace, LateSpoiled, Mates, KindOf
<1>9. ASSUME NEW b \in Actor PROVE Within(b)'
  BY <1>0 DEF SInv, Within, SlugAt, NameAt
<1>10. \A w \in rows : w.id # 0
  BY ShownIs DEF SInv, Keys
<1>11. ASSUME NEW b \in Actor PROVE Undisturbed(b)'
  <2> SUFFICES ASSUME pc[b] # "idle", b \notin crossed PROVE Undisturbed(b)'
    BY <1>0 DEF Undisturbed
  <2>1. ASSUME job[b].op = "deploy", Deploying(b) PROVE Deploying(b)'
    <3>e. PICK e \in Env : e = job[b].name
      BY <2>1, JobAt
    <3>2. pc[b] \in {"store", "get", "put"} => Kept(e)
      BY <1>2, <1>10, <2>1, <3>e DEF Deploying, SInv, Unsold
    <3>3. docker[e].id # 0 => docker'[e].id # 0
      BY <1>2 DEF Kept
    <3>4. Private(b) => Private(b)'
      BY <1>0, <3>2, <3>e DEF Private, SlugAt, NameAt, Kept
    <3> QED BY <1>0, <2>1, <3>2, <3>3, <3>4, <3>e DEF Deploying, Kept
  <2>2. Deleting(b) => Deleting(b)'
    BY <1>0 DEF Deleting, RowsOf
  <2> QED BY <1>0, <2>1, <2>2 DEF SInv, Undisturbed
<1>12. ASSUME NEW e \in Env PROVE Known(e)'
  <2>1. KnownGone(e) => KnownGone(e)'
    BY <1>0 DEF KnownGone, KindOf
  <2>2. KnownThere(e) => KnownThere(e)' /\ Kept(e)
    <3>1. KnownThere(e) => Kept(e)
      BY <1>2, <1>10 DEF KnownThere
    <3> QED BY <1>0, <3>1 DEF KnownThere, KindOf, Kept
  <2>3. KnownThere(e) /\ KnownOwn(e) => KnownOwn(e)'
    BY <1>0, <2>2 DEF KnownOwn, Kept
  <2> QED BY <1>0, <2>1, <2>2, <2>3 DEF SInv, Known
<1>13. ASSUME NEW b \in Actor PROVE Bare(b)' /\ Alike(b)'
  <2>1. Alike(b)'
    BY <1>0 DEF SInv, Alike
  <2>2. ASSUME pc[b] \in {"row", "route"} PROVE row[b].name \in Env /\ row[b].id # next
    <3>1. row[b] \in Shown /\ row[b].name \in Env
      BY <2>2, RowAt DEF RemovePc
    <3>2. row[b].id < next /\ row[b].id \in Nat
      BY <3>1, ShownTyped DEF SInv, Keys
    <3> QED BY <1>0, <3>1, <3>2
  <2>3. Bare(b)'
    BY <1>0, <1>1, <2>2 DEF SInv, Bare, SlugAt, NameAt, Kept, Created
  <2> QED BY <2>1, <2>3
<1> QED
  BY <1>0, <1>4, <1>5, <1>6, <1>7, <1>8, <1>9, <1>11, <1>12, <1>13 DEF SInv

LEMMA RestartKeeps ==
    ASSUME TypeInv, SInv, Restart
    PROVE  SInv'
<1>0. /\ UNCHANGED <<rows, networks, docker, bridge, routed, late, next, known>>
      /\ \A b \in Actor : /\ pc'[b] = "idle" /\ row'[b] = NoRow /\ todo'[b] = {}
      /\ Busy' = {} /\ spoiled \subseteq spoiled'
      /\ \A e \in Env : RowsOf(e)' = RowsOf(e)
  BY DEF Restart, database, labhost, Busy, RowsOf
<1>1. \A v \in Shown' : v \in Shown /\ v \in rows
  BY <1>0, ShownIs
<1>2. Keys'
  BY <1>0, <1>1 DEF SInv, Keys
<1>3. Unsold' /\ Peace'
  BY <1>0 DEF Unsold, Peace
<1>4. OneSlugEach'
  <2>1. ASSUME NEW n \in Nat \ {0}, NEW s \in Slug, Has(n, s)' PROVE Has(n, s)
    BY <1>0, <2>1 DEF Has
  <2> QED BY <1>0, <2>1 DEF SInv, OneSlugEach
<1>5. OwnNets'
  BY <1>0 DEF SInv, OwnNets, Making
<1>6. LateSpoiled' /\ IsFiniteSet(rows')
  BY <1>0 DEF SInv, LateSpoiled
<1>7. \A b \in Actor : Within(b)' /\ Undisturbed(b)' /\ Bare(b)' /\ Alike(b)'
  BY <1>0 DEF Within, Undisturbed, Bare, Alike
<1>8. \A e \in Env : Known(e)'
  BY <1>0 DEF SInv, Known, KnownGone, KnownThere, KnownOwn
<1> QED BY <1>2, <1>3, <1>4, <1>5, <1>6, <1>7, <1>8 DEF SInv

LEMMA StutterKeeps ==
    ASSUME SInv, UNCHANGED vars
    PROVE  SInv'
<1>0. /\ UNCHANGED <<rows, networks, docker, bridge, routed, late, next, known,
                     pc, job, row, net, made, todo, scope, crossed, spoiled>>
      /\ Busy' = Busy /\ Shown' = Shown
      /\ \A e \in Env : RowsOf(e)' = RowsOf(e)
  BY DEF vars, database, labhost, local, history, Busy, Shown, RowsOf
<1>1. Keys' /\ Unsold' /\ OwnNets' /\ LateSpoiled' /\ IsFiniteSet(rows')
  BY <1>0 DEF SInv, Keys, Unsold, OwnNets, LateSpoiled
<1>2. OneSlugEach' /\ Peace'
  BY <1>0 DEF SInv, OneSlugEach, Has, SlugAt, NameAt, Peace, Mates, KindOf
<1>3. ASSUME NEW b \in Actor PROVE Within(b)' /\ Bare(b)' /\ Alike(b)'
  BY <1>0 DEF SInv, Within, SlugAt, NameAt, Bare, Alike
<1>4. ASSUME NEW b \in Actor PROVE Undisturbed(b)'
  BY <1>0 DEF SInv, Undisturbed, Deploying, Deleting, Private, SlugAt, NameAt, RowsOf
<1>5. ASSUME NEW e \in Env PROVE Known(e)'
  BY <1>0 DEF SInv, Known, KnownGone, KnownThere, KnownOwn, KindOf
<1> QED BY <1>1, <1>2, <1>3, <1>4, <1>5 DEF SInv

LEMMA SoundKept ==
    ASSUME TypeInv, FreshInv, SInv, [Next]_vars
    PROVE  SInv'
<1>0. TypeInv'
  BY NextTyped
<1>1. ASSUME NEW a \in Actor, Step(a) PROVE SInv'
  BY <1>0, <1>1, StepKeeps
<1>2. CASE Begins
  BY <1>2, BeginsStart, StartKeeps DEF SInv
<1>3. ASSUME NEW j \in late, LateCreate(j) PROVE SInv'
  BY <1>3, LateKeeps
<1> QED BY <1>1, <1>2, <1>3, RestartKeeps, StutterKeeps DEF Next, Begins

LEMMA InitKeeps == Init => SInv
<1> SUFFICES ASSUME Init PROVE SInv
  OBVIOUS
<1>0. /\ rows = {} /\ networks = {} /\ late = {} /\ Busy = {} /\ next = 1
      /\ \A b \in Actor : pc[b] = "idle" /\ row[b] = NoRow /\ todo[b] = {}
      /\ \A e \in Env : known[e] = Unknown /\ docker[e].net = 0
      /\ \A s \in Slug : bridge[s] = 0
  BY DEF Init, Busy, NoContainer
<1>1. Shown = {}
  BY <1>0, ShownIs
<1>2. Keys /\ Unsold /\ OwnNets /\ LateSpoiled /\ IsFiniteSet(rows)
  BY <1>0, <1>1, FS_EmptySet DEF Keys, Unsold, OwnNets, LateSpoiled, Making
<1>3. OneSlugEach /\ Peace
  BY <1>0 DEF OneSlugEach, Has, Peace
<1>4. \A b \in Actor : Within(b) /\ Undisturbed(b) /\ Bare(b) /\ Alike(b)
  BY <1>0 DEF Within, Undisturbed, Bare, Alike
<1>5. \A e \in Env : Known(e)
  BY <1>0 DEF Known, Unknown, NowGone
<1> QED BY <1>2, <1>3, <1>4, <1>5 DEF SInv

LEMMA AlwaysSound == Spec => [](TypeInv /\ FreshInv /\ SInv)
<1>1. Init => FreshInv
  BY DEF Init, FreshInv, OneRowPerContainer
<1>2. Init => TypeInv /\ FreshInv /\ SInv
  BY <1>1, Initial, InitKeeps
<1>3. TypeInv /\ FreshInv /\ SInv /\ [Next]_vars => (TypeInv /\ FreshInv /\ SInv)'
  BY NextTyped, FreshKept, SoundKept
<1> QED BY <1>2, <1>3, PTL DEF Spec

\* What a deployment or a removal has answered holds until the name is worked on
\* again, however other requests cross, fail and are cut off beside it: the row,
\* the container that deploy_lab_environment started for it, its own network with
\* its row and its route; or, after a deletion, neither row nor route.
THEOREM AnswersStand == Spec => []AnswersHold
<1>1. SInv => AnswersHold
  BY DEF SInv, Known, KnownGone, KnownThere, KnownOwn, AnswersHold
<1> QED BY <1>1, AlwaysSound, PTL

LEMMA RowsLast ==
    ASSUME TypeInv, FreshInv, SInv, [Next]_vars, NEW w \in rows,
           \A v \in rows' : v.pk # w.pk, SlugOf[w.name] \notin spoiled'
    PROVE  docker[w.name].id # w.id
<1>1. ASSUME NEW a \in Actor, Step(a) PROVE docker[w.name].id # w.id
  <2>1. pc[a] = "row" /\ rows' = {v \in rows : v.pk # row[a].pk}
    <3>1. rows' # rows
      OBVIOUS
    <3>2. ~Filed(a)
      <4> SUFFICES ASSUME Filed(a) PROVE FALSE
        OBVIOUS
      <4>1. PICK v : New(a, v)
        BY DEF Filed, New
      <4> QED BY <4>1, NewIs
    <3> QED BY <1>1, <3>1, <3>2, Act DEF Acts, Writes
  <2>2. w.pk = row[a].pk
    BY <2>1
  <2>3. row[a] \in Shown /\ w \in Shown
    BY <2>1, RowAt, ShownIs DEF RemovePc
  <2>4. job[a].op # "deploy" /\ SlugAt(a) = SlugOf[row[a].name]
    BY <2>1, AtRow DEF SInv, Within, Labels, DeployPc, RemovePc
  <2>5. row[a].name = w.name
    BY <2>2, <2>3 DEF SInv, Keys
  <2>6. SlugOf[w.name] \notin spoiled
    BY <1>1, Act DEF Acts, Spoils
  <2>7. row[a] = w
    BY <2>1, <2>2, <2>4, <2>5, <2>6 DEF SInv, Alike
  <2> QED BY <2>1, <2>4, <2>6, <2>7 DEF SInv, Bare
<1>2. rows' # rows
  OBVIOUS
<1>3. CASE Begins
  BY <1>2, <1>3, BeginsStart DEF SInv, Starts
<1>4. CASE (\E j \in late : LateCreate(j)) \/ Restart \/ UNCHANGED vars
  BY <1>2, <1>4 DEF LateCreate, Restart, vars, database
<1> QED BY <1>1, <1>3, <1>4 DEF Next, Begins

\* delete_row, which deletes by primary key whatever the row says by now, never
\* takes the row of a container that runs: where requests clashed or a call failed
\* aside, the row a request read when it began is the row it deletes, and the
\* container of that row has gone before.
THEOREM RowsOutlive == Spec => RowsOutliveContainers
<1>1. TypeInv /\ FreshInv /\ SInv /\ [Next]_vars
        => [\A w \in rows :
               (\A v \in rows' : v.pk # w.pk) /\ SlugOf[w.name] \notin spoiled'
                   => docker[w.name].id # w.id]_vars
  BY RowsLast
<1> QED BY <1>1, AlwaysSound, PTL DEF Spec, RowsOutliveContainers

-----------------------------------------------------------------------------
(* What a step does where no call failed.                                    *)

\* how a request ends or goes on where none of its calls has failed
Calmly(a) ==
    /\ pc[a] = "row" =>
        IF job[a].op = "reap" THEN reaped' = reaped \cup scope[a] ELSE pc'[a] = "route"
    /\ pc[a] = "route" =>
        /\ routed' = routed \ {SlugAt(a)}
        /\ CASE job[a].op = "reap" -> TRUE
             [] job[a].op = "drop" -> reaped' = reaped \cup scope[a]
             [] OTHER -> pc'[a] = "read_net"
    /\ pc[a] = "read_net" =>
        LET found == NetworksOf(SlugAt(a)) IN
        \/ found = {} /\ pc'[a] # "drop_net"
        \/ pc'[a] # "drop_net" /\ \E m, n \in found : m # n
        \/ pc'[a] = "drop_net" /\ \E n \in found : net'[a] = n.id
    /\ pc[a] = "drop_net" =>
        \/ pc'[a] = "net_row" /\ bridge' = WithoutNet(net[a])
        \/ pc'[a] # "net_row" /\ bridge' = bridge /\ Attached(net[a])
    /\ pc[a] \in {"net_row", "undo_row"} => networks' = {n \in networks : n.id # net[a]}
    /\ pc[a] = "new_net" => pc'[a] = "insert_net" \/ bridge' = bridge
    /\ pc[a] = "insert_net" => pc'[a] = "create"
    /\ pc[a] = "create" =>
        \/ pc'[a] = "store" /\ Creates(job[a], next)
        \/ docker' = docker /\ pc'[a] = (IF net[a] # 0 THEN "undo_net" ELSE "idle")
    /\ pc[a] = "undo_net" =>
        pc'[a] = "undo_row" /\ (Attached(net[a]) \/ bridge' = WithoutNet(net[a]))
    /\ pc[a] = "store" =>
        Filed(a) \/ (row[a] # NoRow /\ \A w \in rows : w.pk # row[a].pk)

\* more than one member, or two different ones
LEMMA TwoOf ==
    ASSUME NEW S, Cardinality(S) > 1
    PROVE  \E m, n \in S : m # n
<1> SUFFICES ASSUME \A m, n \in S : m = n PROVE FALSE
  OBVIOUS
<1>1. CASE S = {}
  <2>1. Cardinality(S) = 0
    BY <1>1, FS_EmptySet
  <2> QED BY <2>1
<1>2. ASSUME NEW x \in S PROVE FALSE
  <2>1. S = {x}
    OBVIOUS
  <2>2. Cardinality(S) = 1
    BY <2>1, FS_Singleton
  <2> QED BY <2>2
<1> QED BY <1>1, <1>2

LEMMA ReapedGrows ==
    ASSUME TypeInv, NEW a \in Actor, Step(a)
    PROVE  reaped \subseteq reaped'
<1>0. ASSUME Quit(a) PROVE reaped \subseteq reaped'
  BY <1>0 DEF Quit
<1>1. ASSUME NEW label, Move(a, label) \/ On(a, label) PROVE reaped \subseteq reaped'
  BY <1>1 DEF Move, On
<1>2. ASSUME RowDone(a) \/ NetDone(a) PROVE reaped \subseteq reaped'
  BY <1>2 DEF RowDone, NetDone, Move, Reply, Quit
<1>3. CASE Fetch(a) \/ Stop(a) \/ Delete(a) \/ ForceDelete(a) \/ Look(a)
  BY <1>3, <1>0, <1>1, <1>2 DEF Fetch, Stop, Delete, ForceDelete, Look
<1>4. CASE DeleteRow(a)
  BY <1>4, <1>1 DEF DeleteRow
<1>5. CASE DropRoute(a)
  BY <1>5, <1>0, <1>1 DEF DropRoute, Unrouted
<1>6. CASE ReadNet(a) \/ DropNet(a) \/ DeleteNetRow(a)
  BY <1>6, <1>0, <1>1, <1>2 DEF ReadNet, DropNet, DeleteNetRow
<1>7. CASE NewNet(a) \/ InsertNet(a) \/ UndoNet(a) \/ UndoRow(a)
  BY <1>7, <1>0, <1>1 DEF NewNet, InsertNet, UndoNet, UndoRow
<1>8. CASE Create(a)
  BY <1>8, <1>0, <1>1 DEF Create, Undo
<1>9. CASE Store(a) \/ GetPort(a) \/ PutRoute(a)
  BY <1>9, <1>0, <1>1 DEF Store, GetPort, PutRoute, Stored, DeployDone, Reply
<1> QED BY <1>3, <1>4, <1>5, <1>6, <1>7, <1>8, <1>9 DEF Step

LEMMA CalmStep ==
    ASSUME TypeInv, NEW a \in Actor, Step(a), ~Wronged(a)
    PROVE  Calmly(a)
<1>0. ~Fault(a)
  BY DEF Fault, Wronged
<1>e. pc[a] \in {"read_net", "drop_net", "net_row"} /\ NetDone(a)
        => pc'[a] \notin {"drop_net", "net_row"}
  BY NetDoneDoes DEF Restarts, FinishesRow, Answers, Quits, Went, Ended, Turned
<1>q. Quit(a) => pc'[a] = "idle"
  BY Endings DEF Quits, Ended
<1>o. \A label : On(a, label) => pc'[a] = label
  BY Endings DEF GoesOn, Went
<1>m. \A label : Move(a, label) => pc'[a] = label
  BY DEF Move, Goto, TypeInv, LocalInv
<1>1. ASSUME pc[a] = "row"
      PROVE  IF job[a].op = "reap" THEN reaped' = reaped \cup scope[a] ELSE pc'[a] = "route"
  BY <1>1, <1>o, AtLabel DEF DeleteRow
<1>2. ASSUME pc[a] = "route"
      PROVE  /\ routed' = routed \ {SlugAt(a)}
             /\ CASE job[a].op = "reap" -> TRUE
                  [] job[a].op = "drop" -> reaped' = reaped \cup scope[a]
                  [] OTHER -> pc'[a] = "read_net"
  <2>1. routed' = routed \ {SlugAt(a)} /\ Unrouted(a)
    BY <1>0, <1>2, AtLabel DEF DropRoute
  <2> QED BY <2>1, <1>o DEF Unrouted
<1>3. ASSUME pc[a] = "read_net"
      PROVE  LET found == NetworksOf(SlugAt(a)) IN
             \/ found = {} /\ pc'[a] # "drop_net"
             \/ pc'[a] # "drop_net" /\ \E m, n \in found : m # n
             \/ pc'[a] = "drop_net" /\ \E n \in found : net'[a] = n.id
  <2> DEFINE found == NetworksOf(SlugAt(a))
  <2>0. ReadNet(a)
    BY <1>3 DEF Step, Fetch, Stop, Delete, ForceDelete, Look, DeleteRow, DropRoute, ReadNet,
                DropNet, DeleteNetRow, NewNet, InsertNet, Create, UndoNet, UndoRow, Store,
                GetPort, PutRoute
  <2>1. CASE found = {} /\ NetDone(a)
    BY <1>3, <2>1, <1>e
  <2>2. CASE Cardinality(found) > 1 /\ Quit(a)
    BY <2>2, <1>q, TwoOf
  <2>3. ASSUME Move(a, "drop_net"), NEW n \in found, net' = [net EXCEPT ![a] = n.id]
        PROVE  pc'[a] = "drop_net" /\ \E k \in found : net'[a] = k.id
    BY <2>3, <1>m DEF TypeInv, LocalInv
  <2> QED BY <2>0, <2>1, <2>2, <2>3 DEF ReadNet
<1>4. ASSUME pc[a] = "drop_net"
      PROVE  \/ pc'[a] = "net_row" /\ bridge' = WithoutNet(net[a])
             \/ pc'[a] # "net_row" /\ bridge' = bridge /\ Attached(net[a])
  <2>1. DropNet(a)
    BY <1>4, AtLabel
  <2> QED BY <1>0, <1>4, <1>e, <1>o, <2>1 DEF DropNet
<1>5. ASSUME pc[a] \in {"net_row", "undo_row"}
      PROVE  networks' = {n \in networks : n.id # net[a]}
  BY <1>5 DEF Step, Fetch, Stop, Delete, ForceDelete, Look, DeleteRow, DropRoute, ReadNet,
              DropNet, DeleteNetRow, NewNet, InsertNet, Create, UndoNet, UndoRow, Store,
              GetPort, PutRoute
<1>6. ASSUME pc[a] = "new_net" PROVE pc'[a] = "insert_net" \/ bridge' = bridge
  <2>1. NewNet(a)
    BY <1>6 DEF Step, Fetch, Stop, Delete, ForceDelete, Look, DeleteRow, DropRoute, ReadNet,
                DropNet, DeleteNetRow, NewNet, InsertNet, Create, UndoNet, UndoRow, Store,
                GetPort, PutRoute
  <2> QED BY <1>0, <1>m, <2>1 DEF NewNet
<1>7. ASSUME pc[a] = "insert_net" PROVE pc'[a] = "create"
  BY <1>7, <1>o, AtLabel DEF InsertNet
<1>8. ASSUME pc[a] = "create"
      PROVE  \/ pc'[a] = "store" /\ Creates(job[a], next)
             \/ docker' = docker /\ pc'[a] = (IF net[a] # 0 THEN "undo_net" ELSE "idle")
  <2>1. Create(a)
    BY <1>8, AtLabel
  <2>2. Undo(a) => pc'[a] = (IF net[a] # 0 THEN "undo_net" ELSE "idle")
    BY <1>o, <1>q DEF Undo
  <2>3. spoiled' # spoiled \cup scope[a]
    BY DEF Wronged
  <2> QED BY <1>0, <1>m, <2>1, <2>2, <2>3 DEF Create
<1>9. ASSUME pc[a] = "undo_net"
      PROVE  pc'[a] = "undo_row" /\ (Attached(net[a]) \/ bridge' = WithoutNet(net[a]))
  BY <1>0, <1>9, <1>o, AtLabel DEF UndoNet
<1>10. ASSUME pc[a] = "store"
       PROVE  Filed(a) \/ (row[a] # NoRow /\ \A w \in rows : w.pk # row[a].pk)
  BY <1>10, AtLabel DEF Store, Filed
<1> QED
  BY <1>1, <1>2, <1>3, <1>4, <1>5, <1>6, <1>7, <1>8, <1>9, <1>10 DEF Calmly

-----------------------------------------------------------------------------
(* What is where, on a slug where nothing has gone wrong.                    *)

\* those at work on a slug
At(s) == {b \in Busy : SlugAt(b) = s}

\* a removal that has yet to let go of the route, or of the network
Remover(b) ==
    \/ job[b].op \in {"delete", "clear", "drop"} /\ pc[b] = "route"
    \/ job[b].op \in {"delete", "clear"} /\ pc[b] \in {"read_net", "drop_net", "net_row"}

Contained(s) ==
    \A e \in Env : SlugOf[e] = s =>
        /\ docker[e].id # 0 =>
            \/ \E w \in RowsOf(e) : w.id = docker[e].id
            \/ \E b \in At(s) : pc[b] = "store" /\ job[b].name = e
        /\ \A v, w \in RowsOf(e) : v = w

Registered(s) ==
    /\ \A n \in NetworksOf(s) :
        \/ n.id = bridge[s]
        \/ \E b \in At(s) : pc[b] = "undo_row" /\ net[b] = n.id
        \/ bridge[s] = 0 /\ \E b \in At(s) : pc[b] = "net_row" /\ net[b] = n.id
    /\ \A m, n \in NetworksOf(s) :
        \/ m = n
        \/ \E b \in At(s) : pc[b] = "undo_row" /\ net[b] \in {m.id, n.id}
    /\ bridge[s] # 0 =>
        \/ [id |-> bridge[s], slug |-> s] \in networks
        \/ \E b \in At(s) : pc[b] = "insert_net" /\ net[b] = bridge[s]

Sure(b) ==
    LET s == SlugAt(b) IN
    /\ pc[b] = "drop_net" => bridge[s] \in {0, net[b]}
    /\ pc[b] \in {"insert_net", "create", "undo_net"} /\ net[b] # 0 => ~Attached(net[b])
    /\ pc[b] \in Making \ {"undo_row"} /\ net[b] # 0 => bridge[s] = net[b]
    /\ pc[b] = "row" /\ job[b].op = "reap" => s \notin routed
    /\ pc[b] = "net_row" => bridge[s] = 0
    /\ pc[b] = "undo_row" => bridge[s] # net[b]
    /\ pc[b] \in {"undo_net", "undo_row"} => net[b] # 0

Needed(s) ==
    (\A w \in rows : SlugOf[w.name] # s) =>
        /\ s \in routed => \E b \in At(s) : Remover(b) /\ pc[b] = "route"
        /\ bridge[s] # 0 /\ s \notin reaped =>
            \E b \in At(s) :
                \/ Remover(b)
                \/ pc[b] \in {"insert_net", "create", "undo_net", "store"} /\ net[b] = bridge[s]

Accounted(s) ==
    s \notin spoiled =>
        /\ Contained(s) /\ Registered(s) /\ Needed(s)
        /\ \A b \in At(s) : Sure(b)

LEMMA AtIs ==
    /\ \A s, b : b \in At(s) <=> b \in Actor /\ pc[b] # "idle" /\ SlugAt(b) = s
    /\ \A s, b : b \in At(s)' <=> b \in Actor /\ pc'[b] # "idle" /\ SlugAt(b)' = s
BY DEF At, Busy

\* those who take no step stay where they are
LEMMA AtStays ==
    ASSUME TypeInv, NEW a \in Actor, Step(a), NEW s, NEW b, b # a
    PROVE  /\ b \in At(s) <=> b \in At(s)'
           /\ b \in Actor => Same(b) /\ SlugAt(b)' = SlugAt(b) /\ (Remover(b)' <=> Remover(b))
<1>1. b \in Actor => Same(b)
  BY Walk DEF Walks, Others
<1> QED BY <1>1, AtIs DEF Same, SlugAt, NameAt, Remover

\* two at work on one slug
LEMMA NoMix ==
    ASSUME TypeInv, Peace, NEW s \in Slug, s \notin spoiled,
           NEW a \in At(s), Within(a), NEW b \in At(s), Within(b), a # b
    PROVE  /\ Mates(a, b)
           /\ pc[a] \in DeployPc <=> pc[b] \in DeployPc
<1>1. /\ a \in Busy /\ b \in Busy /\ s \in scope[a] \cap scope[b]
      /\ a \in Actor /\ b \in Actor /\ pc[a] # "idle" /\ pc[b] # "idle"
  BY AtIs DEF Within, Busy
<1>2. Mates(a, b)
  BY <1>1 DEF Peace
<1>3. ASSUME NEW c \in {a, b}
      PROVE  /\ KindOf(c) = "first" => pc[c] \in DeployPc
             /\ KindOf(c) = "removal" => pc[c] \notin DeployPc
  <2>1. KindOf(c) = "first" => pc[c] \in DeployPc
    BY <1>1, FirstAt
  <2>2. pc[c] \in DeployPc => KindOf(c) # "removal"
    <3>1. pc[c] \in DeployPc => job[c].op = "deploy"
      BY <1>1, JobAt
    <3> QED BY <3>1 DEF KindOf, Kind
  <2> QED BY <2>1, <2>2
<1>4. KindOf(a) \in {"first", "removal"}
  BY <1>2 DEF Mates, KindOf, Kind
<1> QED BY <1>2, <1>3, <1>4 DEF Mates

\* a container joins the network of its own slug
LEMMA JoinsOwn ==
    ASSUME TypeInv, NEW a \in Actor, Step(a), NEW n \in Nat \ {0}, Attached(n)', ~Attached(n)
    PROVE  /\ pc[a] = "create" /\ bridge[SlugAt(a)] = n /\ job[a].private
<1>1. PICK e \in Env : docker'[e].id # 0 /\ docker'[e].net = n
  BY DEF Attached
<1>2. docker[e].id = 0 \/ docker[e].net # n
  BY DEF Attached
<1>3. pc[a] = "create" /\ Created(e, job[a])
  BY <1>1, <1>2, DockerStep DEF Kept
<1>4. /\ docker[e].id = 0 /\ e = job[a].name /\ next # 0
      /\ docker \in [Env -> [id : 0..next, net : 0..next]]
  BY <1>3, ShownTyped DEF Created, TypeInv, DataInv
<1>5. docker' # docker
  BY <1>1, <1>2
<1>6. Creates(job[a], next) \/ Leaves(job[a], next)
  BY <1>3, <1>5, Act DEF Acts, Contains
<1>7. CASE Leaves(job[a], next)
  BY <1>1, <1>4, <1>7 DEF Leaves
<1>8. CASE Creates(job[a], next)
  <2>1. docker'[e].net = IF job[a].private THEN bridge[SlugOf[job[a].name]] ELSE 0
    BY <1>4, <1>8 DEF Creates
  <2>2. SlugAt(a) = SlugOf[job[a].name]
    BY <1>3, JobAt DEF DeployPc
  <2> QED BY <1>1, <1>3, <2>1, <2>2
<1> QED BY <1>6, <1>7, <1>8

LEMMA ElsewhereAccounted ==
    ASSUME TypeInv, FreshInv, SInv, NEW a \in Actor, Step(a),
           NEW s \in Slug, SlugAt(a) # s, s \notin spoiled', Accounted(s)
    PROVE  Accounted(s)'
<1>0. /\ s \notin spoiled /\ Within(a) /\ pc[a] # "idle" /\ next \in Nat
      /\ reaped \subseteq reaped' /\ SlugAt(a) \in Slug
  BY Walk, Act, ReapedGrows, ShownTyped, NameTyped DEF Walks, Acts, Spoils, SInv
<1>1. Untouched(s)
  BY Foreign DEF SInv
<1>2. /\ \A e \in Env : SlugOf[e] = s => RowsOf(e)' = RowsOf(e) /\ docker'[e] = docker[e]
      /\ bridge'[s] = bridge[s] /\ NetworksOf(s)' = NetworksOf(s)
      /\ s \in routed' <=> s \in routed
  BY <1>1 DEF Untouched, Kept
<1>3. \A b \in At(s) : /\ b # a /\ b \in Actor /\ b \in At(s)' /\ Same(b)
                       /\ SlugAt(b)' = SlugAt(b) /\ (Remover(b)' <=> Remover(b))
  BY AtIs, AtStays
<1>4. \A b \in At(s)' : b \in At(s) \/ (b = a /\ pc'[a] = "fetch")
  <2> TAKE b \in At(s)'
  <2>1. CASE b # a
    BY <2>1, AtStays
  <2>2. CASE b = a
    <3>1. pc'[a] # "idle" /\ SlugAt(a)' = s
      BY <2>2, AtIs
    <3>2. Turned(a)
      BY <3>1, Stays
    <3> QED BY <2>2, <3>2 DEF Turned
  <2> QED BY <2>1, <2>2
<1>5. Contained(s) /\ Registered(s) /\ Needed(s) /\ \A b \in At(s) : Sure(b)
  BY <1>0 DEF Accounted
<1>6. Contained(s)'
  <2> SUFFICES ASSUME NEW e \in Env, SlugOf[e] = s
               PROVE  /\ docker'[e].id # 0 =>
                          \/ \E w \in RowsOf(e)' : w.id = docker'[e].id
                          \/ \E b \in At(s)' : pc'[b] = "store" /\ job'[b].name = e
                      /\ \A v, w \in RowsOf(e)' : v = w
    BY DEF Contained
  <2>1. /\ docker[e].id # 0 =>
            \/ \E w \in RowsOf(e) : w.id = docker[e].id
            \/ \E b \in At(s) : pc[b] = "store" /\ job[b].name = e
        /\ \A v, w \in RowsOf(e) : v = w
    BY <1>5 DEF Contained
  <2>2. RowsOf(e)' = RowsOf(e) /\ docker'[e] = docker[e]
    BY <1>2
  <2> QED BY <1>3, <2>1, <2>2 DEF Same
<1>7. Registered(s)'
  <2>1. bridge[s] # 0 =>
            \/ [id |-> bridge[s], slug |-> s] \in networks'
            \/ \E b \in At(s)' : pc'[b] = "insert_net" /\ net'[b] = bridge[s]
    BY <1>2, <1>3, <1>5 DEF Registered, NetworksOf, Same
  <2>2. ASSUME NEW n \in NetworksOf(s)
        PROVE  \/ n.id = bridge[s]
               \/ \E b \in At(s)' : pc'[b] = "undo_row" /\ net'[b] = n.id
               \/ bridge[s] = 0 /\ \E b \in At(s)' : pc'[b] = "net_row" /\ net'[b] = n.id
    BY <1>3, <1>5 DEF Registered, Same
  <2>3. ASSUME NEW m \in NetworksOf(s), NEW n \in NetworksOf(s)
        PROVE  m = n \/ \E b \in At(s)' : pc'[b] = "undo_row" /\ net'[b] \in {m.id, n.id}
    BY <1>3, <1>5 DEF Registered, Same
  <2> QED BY <1>2, <2>1, <2>2, <2>3 DEF Registered
<1>8. Needed(s)'
  <2> SUFFICES ASSUME \A w \in rows' : SlugOf[w.name] # s
               PROVE  /\ s \in routed' => \E b \in At(s)' : Remover(b)' /\ pc'[b] = "route"
                      /\ bridge'[s] # 0 /\ s \notin reaped' =>
                          \E b \in At(s)' :
                            \/ Remover(b)'
                            \/ /\ pc'[b] \in {"insert_net", "create", "undo_net", "store"}
                               /\ net'[b] = bridge'[s]
    BY DEF Needed
  <2>1. \A w \in rows : SlugOf[w.name] # s
    <3> SUFFICES ASSUME NEW w \in rows, SlugOf[w.name] = s PROVE FALSE
      OBVIOUS
    <3>1. w.name \in Env
      BY DEF TypeInv, DataInv, RowType
    <3>2. w \in RowsOf(w.name)
      BY DEF RowsOf
    <3>e. PICK e \in Env : e = w.name
      BY <3>1
    <3>3. w \in RowsOf(e)'
      BY <1>2, <3>2, <3>e
    <3> QED BY <3>3 DEF RowsOf
  <2>2. s \in routed => \E b \in At(s) : Remover(b) /\ pc[b] = "route"
    BY <1>5, <2>1 DEF Needed
  <2>3. bridge[s] # 0 /\ s \notin reaped =>
            \E b \in At(s) :
                \/ Remover(b)
                \/ pc[b] \in {"insert_net", "create", "undo_net", "store"} /\ net[b] = bridge[s]
    BY <1>5, <2>1 DEF Needed
  <2> QED BY <1>0, <1>2, <1>3, <2>2, <2>3 DEF Same
<1>9. ASSUME NEW b \in At(s)' PROVE Sure(b)'
  <2>1. CASE b = a /\ pc'[a] = "fetch"
    BY <2>1 DEF Sure, Making
  <2>2. CASE b \in At(s)
    <3>1. /\ Sure(b) /\ b \in Actor /\ Same(b) /\ SlugAt(b) = s /\ SlugAt(b)' = s
          /\ pc[b] # "idle" /\ net[b] \in Nat
      BY <1>3, <1>5, <2>2, AtIs, ShownTyped DEF TypeInv, LocalInv
    <3>n. PICK n \in Nat : n = net[b]
      BY <3>1
    <3>2. ASSUME n # 0, Attached(n)' PROVE Attached(n)
      <4> SUFFICES ASSUME ~Attached(n) PROVE FALSE
        OBVIOUS
      <4>2. bridge[SlugAt(a)] = n
        BY <3>2, JoinsOwn
      <4>3. Has(n, SlugAt(a)) /\ Has(n, s)
        BY <3>1, <3>n, <4>2 DEF Has, Busy
      <4> QED BY <1>0, <3>2, <4>3 DEF SInv, OneSlugEach
    <3> QED BY <1>2, <3>1, <3>2, <3>n DEF Sure, Same, Attached
  <2> QED BY <1>4, <2>1, <2>2
<1> QED BY <1>6, <1>7, <1>8, <1>9 DEF Accounted

\* what a step on the slug can count on
LEMMA CalmFacts ==
    ASSUME TypeInv, FreshInv, SInv, NEW a \in Actor, Step(a),
           NEW s \in Slug, SlugAt(a) = s, s \notin spoiled', Accounted(s)
    PROVE  /\ s \notin spoiled /\ Calmly(a) /\ a \in At(s) /\ pc[a] # "idle" /\ Within(a)
           /\ s \in scope[a] /\ reaped \subseteq reaped'
           /\ Contained(s) /\ Registered(s) /\ Needed(s)
           /\ \A b \in At(s) : Sure(b) /\ b \in Actor /\ pc[b] # "idle" /\ SlugAt(b) = s
           /\ \A b \in At(s) : b # a =>
                /\ b \in At(s)' /\ Same(b) /\ SlugAt(b)' = s /\ (Remover(b)' <=> Remover(b))
                /\ Mates(a, b) /\ (pc[a] \in DeployPc <=> pc[b] \in DeployPc)
           /\ \A b \in At(s)' : b \in At(s)
           /\ job[a].op = "deploy" => Deploying(a)
<1>1. /\ pc[a] # "idle" /\ Within(a) /\ s \in scope[a] /\ a \in At(s)
      /\ s \notin spoiled /\ reaped \subseteq reaped'
  BY Walk, Act, ReapedGrows, AtIs DEF Walks, Acts, Spoils, SInv, Within
<1>2. Calmly(a)
  BY <1>1, CalmStep DEF Wronged
<1>3. Contained(s) /\ Registered(s) /\ Needed(s) /\ \A b \in At(s) : Sure(b)
  BY <1>1 DEF Accounted
<1>4. ASSUME NEW b \in At(s), b # a
      PROVE  /\ b \in At(s)' /\ Same(b) /\ SlugAt(b)' = s /\ (Remover(b)' <=> Remover(b))
             /\ Mates(a, b) /\ (pc[a] \in DeployPc <=> pc[b] \in DeployPc)
  <2>1. b \in Actor /\ SlugAt(b) = s /\ Within(b)
    BY AtIs DEF SInv
  <2>2. b \in At(s)' /\ Same(b) /\ SlugAt(b)' = s /\ (Remover(b)' <=> Remover(b))
    BY <1>4, <2>1, AtStays
  <2>3. Mates(a, b) /\ (pc[a] \in DeployPc <=> pc[b] \in DeployPc)
    BY <1>1, <1>4, <2>1, NoMix DEF SInv
  <2> QED BY <2>2, <2>3
<1>5. \A b \in At(s)' : b \in At(s)
  BY <1>1, AtStays
<1>6. job[a].op = "deploy" => Deploying(a)
  BY <1>1 DEF SInv, Undisturbed, Within
<1> QED BY <1>1, <1>2, <1>3, <1>4, <1>5, <1>6, AtIs

LEMMA ContainedStep ==
    ASSUME TypeInv, FreshInv, SInv, NEW a \in Actor, Step(a),
           NEW s \in Slug, SlugAt(a) = s, s \notin spoiled', Accounted(s)
    PROVE  Contained(s)'
<1>0. /\ s \notin spoiled /\ Calmly(a) /\ Within(a) /\ pc[a] # "idle" /\ Contained(s)
      /\ \A b \in At(s) : b # a => b \in At(s)' /\ Same(b)
      /\ job[a].op = "deploy" => Deploying(a)
  BY CalmFacts
<1> SUFFICES ASSUME NEW e \in Env, SlugOf[e] = s
             PROVE  /\ docker'[e].id # 0 =>
                        \/ \E w \in RowsOf(e)' : w.id = docker'[e].id
                        \/ \E b \in At(s)' : pc'[b] = "store" /\ job'[b].name = e
                    /\ \A v, w \in RowsOf(e)' : v = w
  BY DEF Contained
<1>1. /\ docker[e].id # 0 =>
            \/ \E w \in RowsOf(e) : w.id = docker[e].id
            \/ \E b \in At(s) : pc[b] = "store" /\ job[b].name = e
      /\ \A v, w \in RowsOf(e) : v = w
  BY <1>0 DEF Contained
<1>2. CASE pc[a] = "store"
  <2>0. /\ job[a] \in Deployment /\ job[a].op = "deploy" /\ NameAt(a) = job[a].name
        /\ docker' = docker /\ Deploying(a)
    BY <1>0, <1>2, JobAt, ContainersStay DEF DeployPc
  <2>1. Filed(a)
    <3>1. row[a] # NoRow => row[a] \in RowsOf(job[a].name)
      BY <1>2, <2>0 DEF Deploying
    <3> QED BY <1>0, <1>2, <3>1 DEF Calmly, RowsOf
  <2>2. CASE e = job[a].name
    <3>1. \E w \in rows' : RowsOf(e)' = {w} /\ docker'[e].id = w.id
      BY <1>0, <2>0, <2>1, <2>2, FiledDoes DEF SInv
    <3> QED BY <3>1
  <2>3. CASE e # job[a].name
    <3>1. RowsOf(e)' = RowsOf(e)
      BY <1>0, <2>0, <2>3, RowsSpared DEF SInv
    <3> QED BY <1>0, <1>1, <2>0, <2>3, <3>1 DEF Same
  <2> QED BY <2>2, <2>3
<1>3. CASE pc[a] = "row"
  <2>0. /\ docker' = docker /\ row[a] \in Shown /\ row[a].name \in Env
        /\ rows' = {w \in rows : w.pk # row[a].pk} /\ SlugOf[row[a].name] = s
        /\ job[a].op # "deploy" /\ docker[row[a].name].id # row[a].id
    <3>1. pc[a] \in RemovePc /\ job[a].op # "deploy"
      BY <1>0, <1>3 DEF Within, Labels, DeployPc, RemovePc
    <3>2. docker' = docker /\ rows' = {w \in rows : w.pk # row[a].pk}
      BY <1>3, ContainersStay, Earn DEF Earns
    <3>3. row[a] \in Shown /\ row[a].name \in Env /\ SlugOf[row[a].name] = s
      BY <1>0, <3>1, RowAt, AtRow
    <3> QED BY <1>0, <1>3, <3>1, <3>2, <3>3 DEF SInv, Bare
  <2>1. RowsOf(e)' \subseteq RowsOf(e)
    BY <2>0 DEF RowsOf
  <2>2. ASSUME NEW w \in RowsOf(e), w.id = docker[e].id PROVE w \in RowsOf(e)'
    <3>1. w \in rows /\ w.name = e
      BY DEF RowsOf
    <3>2. w.pk # row[a].pk
      <4> SUFFICES ASSUME w.pk = row[a].pk PROVE FALSE
        OBVIOUS
      <4>1. row[a] = w
        BY <1>0, <2>0, <3>1 DEF SInv, Alike
      <4> QED BY <2>0, <2>2, <3>1, <4>1
    <3> QED BY <2>0, <3>1, <3>2 DEF RowsOf
  <2> QED BY <1>0, <1>1, <1>3, <2>0, <2>1, <2>2 DEF Same
<1>4. CASE pc[a] \notin {"row", "store"}
  <2>1. RowsOf(e)' = RowsOf(e)
    BY <1>4, RowsStay DEF RowsOf
  <2>2. CASE docker'[e].id \in {docker[e].id, 0}
    BY <1>0, <1>1, <1>4, <2>1, <2>2 DEF Same
  <2>3. CASE pc[a] = "create" /\ Created(e, job[a])
    <3>1. pc'[a] = "store"
      <4>1. docker'[e].id # docker[e].id
        BY <2>3, ShownTyped DEF Created
      <4> QED BY <1>0, <2>3, <4>1 DEF Calmly
    <3>2. job'[a] = job[a] /\ SlugAt(a)' = s
      BY <3>1, Stays DEF Turned
    <3>3. a \in At(s)' /\ job'[a].name = e
      BY <2>3, <3>1, <3>2, AtIs DEF Created
    <3> QED BY <1>1, <2>1, <3>1, <3>3
  <2> QED BY <2>2, <2>3, DockerStep DEF Kept
<1> QED BY <1>2, <1>3, <1>4

LEMMA RegisteredStep ==
    ASSUME TypeInv, TypeInv', FreshInv, SInv, NEW a \in Actor, Step(a),
           NEW s \in Slug, SlugAt(a) = s, s \notin spoiled', Accounted(s)
    PROVE  Registered(s)'
<1> DEFINE undoes(n) == \E b \in At(s) : pc[b] = "undo_row" /\ net[b] = n
           clears(n) == \E b \in At(s) : pc[b] = "net_row" /\ net[b] = n
           makes(n) == \E b \in At(s) : pc[b] = "insert_net" /\ net[b] = n
           undoing(n) == \E b \in At(s)' : pc'[b] = "undo_row" /\ net'[b] = n
           clearing(n) == \E b \in At(s)' : pc'[b] = "net_row" /\ net'[b] = n
           making(n) == \E b \in At(s)' : pc'[b] = "insert_net" /\ net'[b] = n
           own == [id |-> bridge[s], slug |-> s]
<1>0. /\ s \notin spoiled /\ Calmly(a) /\ a \in At(s) /\ pc[a] # "idle" /\ Registered(s) /\ Sure(a)
      /\ \A b \in At(s) : b # a => /\ b \in At(s)' /\ Same(b)
                                   /\ (pc[a] \in DeployPc <=> pc[b] \in DeployPc)
      /\ bridge \in [Slug -> 0..next] /\ next \in Nat /\ SlugAt(a) = s
      /\ networks \subseteq [id : 0..next, slug : Slug]
      /\ \A n \in networks : n.id # 0
  BY CalmFacts, ShownTyped DEF TypeInv, DataInv, SInv, OwnNets
<1>1. /\ \A n \in networks : n.slug = s =>
            n.id = bridge[s] \/ undoes(n.id) \/ (bridge[s] = 0 /\ clears(n.id))
      /\ \A m, n \in networks : m.slug = s /\ n.slug = s =>
            m = n \/ undoes(m.id) \/ undoes(n.id)
      /\ bridge[s] # 0 => own \in networks \/ makes(bridge[s])
  BY <1>0 DEF Registered, NetworksOf
<1>2. SUFFICES /\ \A n \in networks' : n.slug = s =>
                     n.id = bridge'[s] \/ undoing(n.id) \/ (bridge'[s] = 0 /\ clearing(n.id))
               /\ \A m, n \in networks' : m.slug = s /\ n.slug = s =>
                     m = n \/ undoing(m.id) \/ undoing(n.id)
               /\ bridge'[s] # 0 =>
                     [id |-> bridge'[s], slug |-> s] \in networks' \/ making(bridge'[s])
  BY DEF Registered, NetworksOf
<1>3. \A n : /\ undoes(n) => undoing(n) \/ (pc[a] = "undo_row" /\ n = net[a])
             /\ clears(n) => clearing(n) \/ (pc[a] = "net_row" /\ n = net[a])
             /\ makes(n) => making(n) \/ (pc[a] = "insert_net" /\ n = net[a])
  BY <1>0 DEF Same
<1>4. pc'[a] \in {"undo_row", "net_row", "insert_net"} => a \in At(s)'
  BY <1>0, Stays, AtIs DEF Turned
<1>5. pc[a] \in {"new_net", "insert_net"} => \A n : ~clears(n)
  BY <1>0 DEF DeployPc
<1>6. CASE pc[a] \notin {"drop_net", "net_row", "new_net", "insert_net", "undo_net", "undo_row"}
  <2>1. bridge' = bridge /\ networks' = networks
    BY <1>6, Act DEF Acts, Bridges, Registers
  <2> HIDE DEF undoes, clears, makes, undoing, clearing, making
  <2> QED BY <1>1, <1>3, <1>6, <2>1
<1>7. CASE pc[a] = "drop_net"
  <2>1. networks' = networks
    BY <1>7, Act DEF Acts, Registers
  <2>2. CASE pc'[a] = "net_row" /\ bridge' = WithoutNet(net[a])
    <3>1. bridge[s] \in {0, net[a]} /\ bridge'[s] = 0
      BY <1>0, <1>7, <2>2 DEF Sure, WithoutNet
    <3>2. net'[a] = net[a]
      BY <2>2, Hold DEF Holds
    <3>3. clearing(net[a])
      BY <1>4, <2>2, <3>2
    <3> HIDE DEF undoes, clears, makes, undoing, clearing, making
    <3> QED BY <1>0, <1>1, <1>3, <1>7, <2>1, <3>1, <3>3
  <2>3. CASE bridge' = bridge
    <3> HIDE DEF undoes, clears, makes, undoing, clearing, making
    <3> QED BY <1>1, <1>3, <1>7, <2>1, <2>3
  <2> QED BY <1>0, <1>7, <2>2, <2>3 DEF Calmly
<1>8. CASE pc[a] = "net_row"
  <2>1. /\ bridge' = bridge /\ networks' = {n \in networks : n.id # net[a]}
        /\ bridge[s] = 0
    BY <1>0, <1>8, BridgesStay DEF Calmly, Sure
  <2> HIDE DEF undoes, clears, makes, undoing, clearing, making
  <2> QED BY <1>0, <1>1, <1>3, <1>8, <2>1
<1>9. CASE pc[a] = "new_net"
  <2>1. networks' = networks
    BY <1>9, Act DEF Acts, Registers
  <2>2. CASE pc'[a] = "insert_net" /\ bridge' # bridge
    <3>1. /\ net'[a] = next /\ bridge'[s] = next /\ bridge[s] = 0
      BY <1>0, <1>9, <2>2, Hold, Act DEF Holds, Acts, Bridges
    <3>2. making(next)
      BY <1>4, <2>2, <3>1
    <3> HIDE DEF undoes, clears, makes, undoing, clearing, making
    <3> QED BY <1>0, <1>1, <1>3, <1>5, <1>9, <2>1, <3>1, <3>2
  <2>3. CASE bridge' = bridge
    <3> HIDE DEF undoes, clears, makes, undoing, clearing, making
    <3> QED BY <1>1, <1>3, <1>9, <2>1, <2>3
  <2> QED BY <1>0, <1>9, <2>2, <2>3 DEF Calmly
<1>10. CASE pc[a] = "insert_net"
  <2>1. /\ bridge' = bridge /\ networks' = networks \cup {[id |-> net[a], slug |-> s]}
        /\ net[a] # 0
    BY <1>0, <1>10, BridgesStay, Earn DEF Earns, TypeInv, LocalInv, Held
  <2>2. bridge[s] = net[a]
    BY <1>0, <1>10, <2>1 DEF Sure, Making
  <2>3. \A n \in networks : n.slug = s => n = own \/ undoes(n.id)
    <3> HIDE DEF undoes, clears, makes, undoing, clearing, making
    <3> TAKE n \in networks
    <3>1. n = [id |-> n.id, slug |-> n.slug]
      BY <1>0
    <3> QED BY <1>1, <2>1, <2>2, <3>1
  <2> HIDE DEF undoes, clears, makes, undoing, clearing, making
  <2> QED BY <1>1, <1>3, <1>10, <2>1, <2>2, <2>3
<1>11. CASE pc[a] = "undo_net"
  <2>1. networks' = networks /\ pc'[a] = "undo_row"
    BY <1>0, <1>11, Act DEF Acts, Registers, Calmly
  <2>2. net[a] # 0 /\ bridge[s] = net[a] /\ ~Attached(net[a])
    BY <1>0, <1>11 DEF Sure, Making
  <2>3. bridge'[s] = 0
    BY <1>0, <1>11, <2>2 DEF Calmly, WithoutNet
  <2>4. net'[a] = net[a]
    BY <1>11, <2>1, Hold DEF Holds, Turned
  <2>5. undoing(net[a])
    BY <1>4, <2>1, <2>4
  <2> HIDE DEF undoes, clears, makes, undoing, clearing, making
  <2> QED BY <1>1, <1>3, <1>11, <2>1, <2>2, <2>3, <2>5
<1>12. CASE pc[a] = "undo_row"
  <2>1. /\ bridge' = bridge /\ networks' = {n \in networks : n.id # net[a]}
        /\ bridge[s] # net[a]
    BY <1>0, <1>12, BridgesStay DEF Calmly, Sure
  <2> HIDE DEF undoes, clears, makes, undoing, clearing, making
  <2> QED BY <1>1, <1>3, <1>12, <2>1
<1> QED BY <1>6, <1>7, <1>8, <1>9, <1>10, <1>11, <1>12

LEMMA SureBeside ==
    ASSUME TypeInv, FreshInv, SInv, NEW a \in Actor, Step(a),
           NEW s \in Slug, SlugAt(a) = s, s \notin spoiled', Accounted(s),
           NEW b \in At(s), b # a
    PROVE  Sure(b)'
<1>0. /\ a \in At(s) /\ pc[a] # "idle" /\ SlugAt(a) = s /\ Calmly(a)
      /\ Sure(a) /\ Sure(b) /\ b \in Actor /\ Same(b) /\ SlugAt(b) = s /\ SlugAt(b)' = s
      /\ (pc[a] \in DeployPc <=> pc[b] \in DeployPc) /\ pc[b] # "idle"
      /\ bridge \in [Slug -> 0..next] /\ next \in Nat /\ net[a] \in Nat
  BY CalmFacts, ShownTyped DEF TypeInv, DataInv, LocalInv
<1>n. PICK n \in Nat : n = net[b] /\ n = net'[b]
  BY <1>0 DEF TypeInv, LocalInv, Same
<1>1. n # 0 => Has(n, s) /\ n < next
  BY <1>0, <1>n DEF Has, SInv, OneSlugEach, Busy
<1>2. ASSUME pc[b] \in {"insert_net", "create", "undo_net"}, n # 0, Attached(n)' PROVE FALSE
  <2>1. ~Attached(n)
    BY <1>0, <1>2, <1>n DEF Sure, Attached
  <2>2. pc[a] = "create" /\ bridge[s] = n /\ job[a].private
    BY <1>0, <1>2, <2>1, JoinsOwn
  <2>3. net[a] # 0
    BY <2>2 DEF TypeInv, LocalInv, Held
  <2>4. bridge[s] = net[a]
    BY <1>0, <2>2, <2>3 DEF Sure, Making
  <2> QED BY <1>0, <1>2, <1>n, <2>2, <2>3, <2>4 DEF SInv, OwnNets, Making
<1>3. CASE bridge'[s] = bridge[s]
  <2>1. pc[b] = "row" /\ job[b].op = "reap" => s \notin routed'
    <3>1. pc[b] = "row" => pc[a] # "put"
      BY <1>0 DEF DeployPc
    <3>2. pc[a] # "put" => routed' \subseteq routed
      BY Act DEF Acts, Routes
    <3> QED BY <1>0, <3>1, <3>2 DEF Sure
  <2> QED BY <1>0, <1>2, <1>3, <1>n, <2>1 DEF Sure, Same, Attached
<1>4. CASE bridge'[s] # bridge[s] /\ pc[a] = "new_net"
  <2>1. bridge[s] = 0 /\ bridge'[s] = next
    BY <1>0, <1>4, Act DEF Acts, Bridges
  <2>2. pc[b] \in DeployPc
    BY <1>0, <1>4 DEF DeployPc
  <2>3. pc[b] \in Making \ {"undo_row"} => n = 0
    BY <1>0, <1>n, <2>1 DEF Sure
  <2>4. pc[b] = "undo_row" => bridge'[s] # n
    BY <1>0, <1>1, <2>1, ShownTyped
  <2> QED BY <1>0, <1>2, <1>n, <2>2, <2>3, <2>4 DEF Sure, Same, Attached, DeployPc
<1>5. CASE bridge'[s] # bridge[s] /\ pc[a] \in {"drop_net", "undo_net"}
  <2>1. bridge'[s] = 0 /\ bridge[s] = net[a] /\ net[a] # 0
    BY <1>0, <1>5, Act DEF Acts, Bridges, WithoutNet
  <2>2. pc[b] \in Making => n # net[a]
    <3>1. pc[b] \in Making => pc[b] \in DeployPc
      BY DEF Making, DeployPc
    <3>2. pc[b] \in Making => pc[a] = "undo_net"
      BY <1>0, <1>5, <3>1 DEF DeployPc
    <3> QED BY <1>0, <1>n, <2>1, <3>2 DEF SInv, OwnNets, Making
  <2>3. pc[b] \in Making \ {"undo_row"} /\ n # 0 => bridge'[s] = n
    BY <1>0, <1>n, <2>1, <2>2 DEF Sure
  <2>4. pc[b] = "row" /\ job[b].op = "reap" => s \notin routed'
    BY <1>0, <1>5, Act DEF Sure, Acts, Routes
  <2> QED BY <1>0, <1>2, <1>n, <2>1, <2>3, <2>4 DEF Sure, Same, Attached
<1> QED BY <1>0, <1>3, <1>4, <1>5, Act DEF Acts, Bridges

LEMMA SureStep ==
    ASSUME TypeInv, TypeInv', FreshInv, SInv, NEW a \in Actor, Step(a),
           NEW s \in Slug, SlugAt(a) = s, s \notin spoiled', Accounted(s), a \in At(s)'
    PROVE  Sure(a)'
<1>0. /\ a \in At(s) /\ pc[a] # "idle" /\ SlugAt(a) = s /\ Calmly(a) /\ Registered(s) /\ Sure(a)
      /\ \A b \in At(s) : b # a => (pc[a] \in DeployPc <=> pc[b] \in DeployPc)
      /\ bridge \in [Slug -> 0..next] /\ next \in Nat
  BY CalmFacts, ShownTyped DEF TypeInv, DataInv
<1>1. CASE Turned(a)
  BY <1>1 DEF Turned, Sure, Making
<1>2. CASE ~Turned(a)
  <2>1. /\ SlugAt(a)' = s /\ job'[a] = job[a] /\ pc'[a] # "idle"
        /\ Leads(job[a].op, pc[a], pc'[a])
    BY <1>0, <1>2, AtIs, Stays, Walk DEF Walks, Ended
  <2>n. PICK n \in Nat : n = net'[a]
    BY ShownTyped DEF TypeInv, LocalInv
  <2>2. CASE pc'[a] = "drop_net"
    <3>1. pc[a] = "read_net"
      BY <2>1, <2>2 DEF Leads, Gone
    <3>2. bridge' = bridge
      BY <3>1, BridgesStay
    <3>3. \A b \in At(s) : pc[b] \notin {"undo_row", "insert_net"}
      BY <1>0, <3>1 DEF DeployPc
    <3>4. PICK m \in NetworksOf(s) : n = m.id
      BY <1>0, <2>2, <2>n, <3>1 DEF Calmly
    <3>5. bridge[s] # 0 => [id |-> bridge[s], slug |-> s] \in NetworksOf(s)
      BY <1>0, <3>3 DEF Registered, NetworksOf
    <3>6. bridge[s] # 0 => m = [id |-> bridge[s], slug |-> s]
      BY <1>0, <3>3, <3>5 DEF Registered
    <3> QED BY <2>1, <2>2, <2>n, <3>2, <3>4, <3>6 DEF Sure, Making
  <2>3. CASE pc'[a] = "insert_net"
    <3>1. pc[a] = "new_net"
      BY <2>1, <2>3 DEF Leads, Gone
    <3>2. n = next /\ bridge'[s] = next /\ docker' = docker
      BY <1>0, <2>3, <2>n, <3>1, Hold, ContainersStay DEF Holds
    <3>3. \A e \in Env : docker[e].net # next \/ next = 0
      <4> SUFFICES ASSUME NEW e \in Env, docker[e].net = next, next # 0 PROVE FALSE
        OBVIOUS
      <4>1. Has(next, SlugOf[e]) /\ SlugOf[e] \in Slug
        BY SlugAssumption DEF Has
      <4>2. next < next
        BY <1>0, <4>1 DEF SInv, OneSlugEach
      <4> QED BY <1>0, <4>2
    <3>4. next # 0
      BY ShownTyped
    <3> QED BY <2>1, <2>3, <2>n, <3>2, <3>3, <3>4 DEF Sure, Making, Attached
  <2>4. CASE pc'[a] = "create" /\ n # 0
    <3>1. pc[a] = "insert_net"
      BY <2>1, <2>4, <2>n, Hold DEF Leads, Gone, Holds
    <3>2. n = net[a] /\ docker' = docker /\ bridge' = bridge
      BY <1>2, <2>1, <2>n, <3>1, Hold, ContainersStay, BridgesStay DEF Holds
    <3> QED BY <1>0, <2>1, <2>4, <2>n, <3>1, <3>2 DEF Sure, Making, Attached
  <2>5. CASE pc'[a] = "undo_net"
    <3>1. pc[a] = "create"
      BY <2>1, <2>5 DEF Leads, Gone
    <3>2. n = net[a] /\ n # 0 /\ docker' = docker /\ bridge' = bridge
      BY <1>0, <1>2, <2>1, <2>5, <2>n, <3>1, Hold, BridgesStay DEF Holds, Calmly
    <3> QED BY <1>0, <2>1, <2>5, <2>n, <3>1, <3>2 DEF Sure, Making, Attached
  <2>6. CASE pc'[a] = "undo_row"
    <3>1. pc[a] = "undo_net"
      BY <2>1, <2>6 DEF Leads, Gone
    <3>2. n = net[a] /\ n # 0 /\ bridge[s] = n
      BY <1>0, <1>2, <2>1, <2>n, <3>1, Hold DEF Holds, Sure, Making
    <3>3. ~Attached(net[a])
      BY <1>0, <3>1, <3>2 DEF Sure
    <3>4. bridge'[s] = 0
      BY <1>0, <3>1, <3>2, <3>3 DEF Calmly, WithoutNet
    <3> QED BY <2>1, <2>6, <2>n, <3>2, <3>4 DEF Sure, Making
  <2>7. CASE pc'[a] \in {"store", "get", "put"} /\ n # 0
    <3>1. pc[a] \in {"create", "store", "get"}
      BY <2>1, <2>7 DEF Leads, Gone
    <3>2. n = net[a] /\ bridge' = bridge
      BY <1>2, <2>1, <2>n, <3>1, Hold, BridgesStay DEF Holds
    <3> QED BY <1>0, <2>1, <2>7, <2>n, <3>1, <3>2 DEF Sure, Making
  <2>8. CASE pc'[a] = "net_row"
    <3>1. pc[a] = "drop_net"
      BY <2>1, <2>8 DEF Leads, Gone
    <3>2. bridge'[s] = 0
      BY <1>0, <2>8, <3>1 DEF Calmly, Sure, WithoutNet
    <3> QED BY <2>1, <2>8, <3>2 DEF Sure, Making
  <2>9. CASE pc'[a] = "row"
    <3>1. job[a].op = "reap" => pc[a] = "route"
      BY <1>0, <2>1, <2>9, CalmFacts DEF Leads, Gone, Within, Labels
    <3>2. job[a].op = "reap" => s \notin routed'
      BY <1>0, <3>1 DEF Calmly
    <3> QED BY <2>1, <2>9, <3>2 DEF Sure, Making
  <2>10. CASE \/ pc'[a] \notin Making \cup {"drop_net", "net_row", "row"}
              \/ pc'[a] \in {"create", "store", "get", "put"} /\ n = 0
    BY <2>10, <2>n DEF Sure, Making
  <2> QED
    BY <2>2, <2>3, <2>4, <2>5, <2>6, <2>7, <2>8, <2>9, <2>10 DEF Making
<1> QED BY <1>1, <1>2

LEMMA NeededStep ==
    ASSUME TypeInv, TypeInv', FreshInv, SInv, NEW a \in Actor, Step(a),
           NEW s \in Slug, SlugAt(a) = s, s \notin spoiled', Accounted(s)
    PROVE  Needed(s)'
<1>0. /\ a \in At(s) /\ pc[a] # "idle" /\ SlugAt(a) = s /\ s \in scope[a] /\ s \notin spoiled
      /\ Calmly(a) /\ Within(a) /\ Contained(s) /\ Registered(s) /\ Needed(s) /\ Sure(a)
      /\ reaped \subseteq reaped'
      /\ \A b \in At(s) : b # a => /\ b \in At(s)' /\ Same(b) /\ (Remover(b)' <=> Remover(b))
                                   /\ (pc[a] \in DeployPc <=> pc[b] \in DeployPc)
      /\ job[a].op = "deploy" => Deploying(a)
      /\ bridge \in [Slug -> 0..next] /\ next \in Nat
  BY CalmFacts, ShownTyped DEF TypeInv, DataInv
<1> SUFFICES ASSUME \A w \in rows' : SlugOf[w.name] # s
             PROVE  /\ s \in routed' => \E b \in At(s)' : Remover(b)' /\ pc'[b] = "route"
                    /\ bridge'[s] # 0 /\ s \notin reaped' =>
                        \E b \in At(s)' :
                          \/ Remover(b)'
                          \/ /\ pc'[b] \in {"insert_net", "create", "undo_net", "store"}
                             /\ net'[b] = bridge'[s]
  BY DEF Needed
<1>1. \A label : label # "idle" /\ label # "fetch" /\ pc'[a] = label =>
          a \in At(s)' /\ job'[a] = job[a]
  BY <1>0, Stays, AtIs DEF Turned
<1>2. CASE \E w \in rows : SlugOf[w.name] = s
  <2>0. PICK w \in rows : SlugOf[w.name] = s
    BY <1>2
  <2>1. ~Filed(a)
    <3> SUFFICES ASSUME Filed(a) PROVE FALSE
      OBVIOUS
    <3>1. PICK v : New(a, v)
      BY DEF Filed, New
    <3>2. v \in rows' /\ pc[a] = "store"
      BY <3>1, NewIs
    <3>3. job[a].op = "deploy" /\ SlugOf[job[a].name] = s
      BY <1>0, <3>2, JobAt DEF DeployPc
    <3>4. v.name = job[a].name
      BY <1>0, <3>1, <3>3, NewIs DEF Within
    <3> QED BY <3>2, <3>3, <3>4
  <2>2. pc[a] = "row"
    <3>1. rows' # rows
      BY <2>0
    <3> QED BY <2>1, <3>1, Act DEF Acts, Writes
  <2>3. CASE job[a].op = "reap"
    <3>1. s \in reaped'
      BY <1>0, <2>2, <2>3 DEF Calmly
    <3>2. s \notin routed'
      BY <1>0, <2>2, <2>3, Act DEF Sure, Acts, Routes
    <3> QED BY <3>1, <3>2
  <2>4. CASE job[a].op # "reap"
    <3>1. pc'[a] = "route"
      BY <1>0, <2>2, <2>4 DEF Calmly
    <3>2. a \in At(s)' /\ job'[a] = job[a]
      BY <3>1, <1>1
    <3>3. job[a].op \in {"delete", "clear", "drop"}
      BY <1>0, <2>2, <2>4, InHand, Ops DEF Within, Labels, DeployPc
    <3> QED BY <3>1, <3>2, <3>3 DEF Remover
  <2> QED BY <2>3, <2>4
<1>3. CASE \A w \in rows : SlugOf[w.name] # s
  <2>0. /\ s \in routed => \E b \in At(s) : Remover(b) /\ pc[b] = "route"
        /\ bridge[s] # 0 /\ s \notin reaped =>
              \E b \in At(s) :
                  \/ Remover(b)
                  \/ pc[b] \in {"insert_net", "create", "undo_net", "store"} /\ net[b] = bridge[s]
    BY <1>0, <1>3 DEF Needed
  <2>1. pc[a] # "put"
    <3> SUFFICES ASSUME pc[a] = "put" PROVE FALSE
      OBVIOUS
    <3>1. job[a].op = "deploy" /\ SlugOf[job[a].name] = s
      BY <1>0, JobAt DEF DeployPc
    <3>2. PICK w \in rows : w \in RowsOf(job[a].name)
      BY <1>0, <3>1 DEF Deploying
    <3> QED BY <1>3, <3>1, <3>2 DEF RowsOf
  <2>2. ASSUME s \in routed' PROVE \E b \in At(s)' : Remover(b)' /\ pc'[b] = "route"
    <3>1. s \in routed /\ pc[a] # "route"
      BY <1>0, <2>1, <2>2, Act DEF Acts, Routes, Calmly
    <3> QED BY <1>0, <2>0, <3>1 DEF Same
  <2>3. ASSUME bridge'[s] # 0, s \notin reaped'
        PROVE  \E b \in At(s)' :
                  \/ Remover(b)'
                  \/ /\ pc'[b] \in {"insert_net", "create", "undo_net", "store"}
                     /\ net'[b] = bridge'[s]
    <3>1. CASE bridge'[s] # bridge[s]
      <4>1. pc[a] = "new_net" /\ bridge'[s] = next
        BY <1>0, <2>3, <3>1, Act DEF Acts, Bridges, WithoutNet
      <4>2. pc'[a] = "insert_net"
        BY <1>0, <3>1, <4>1 DEF Calmly
      <4>3. net'[a] = next
        BY <4>2, Hold DEF Holds
      <4> QED BY <1>1, <4>1, <4>2, <4>3
    <3>2. CASE bridge'[s] = bridge[s]
      <4>0. PICK b \in At(s) :
                \/ Remover(b)
                \/ pc[b] \in {"insert_net", "create", "undo_net", "store"} /\ net[b] = bridge[s]
        BY <1>0, <2>0, <2>3, <3>2
      <4>1. CASE b # a
        BY <1>0, <3>2, <4>0, <4>1 DEF Same
      <4>2. CASE b = a /\ pc[a] = "route" /\ Remover(a)
        <5>1. job[a].op \in {"delete", "clear", "drop"}
          BY <4>2 DEF Remover
        <5>2. job[a].op # "drop"
          BY <1>0, <2>3, <4>2 DEF Calmly
        <5>3. pc'[a] = "read_net"
          BY <1>0, <4>2, <5>1, <5>2 DEF Calmly
        <5> QED BY <1>1, <5>1, <5>2, <5>3 DEF Remover
      <4>3. CASE b = a /\ pc[a] = "read_net" /\ Remover(a)
        <5>1. job[a].op \in {"delete", "clear"}
          BY <4>3 DEF Remover
        <5>2. \A c \in At(s) : pc[c] \notin {"undo_row", "insert_net"}
          BY <1>0, <4>3 DEF DeployPc
        <5>3. [id |-> bridge[s], slug |-> s] \in NetworksOf(s)
          BY <1>0, <2>3, <3>2, <5>2 DEF Registered, NetworksOf
        <5>4. \A m, n \in NetworksOf(s) : m = n
          BY <1>0, <5>2 DEF Registered
        <5>5. pc'[a] = "drop_net"
          BY <1>0, <4>3, <5>3, <5>4 DEF Calmly
        <5> QED BY <1>1, <5>1, <5>5 DEF Remover
      <4>4. CASE b = a /\ pc[a] = "drop_net"
        <5>1. bridge[s] = net[a]
          BY <1>0, <2>3, <3>2, <4>4 DEF Sure
        <5>2. Attached(net[a])
          BY <1>0, <2>3, <3>2, <4>4, <5>1 DEF Calmly, WithoutNet
        <5>3. PICK e \in Env : docker[e].id # 0 /\ docker[e].net = bridge[s]
          BY <5>1, <5>2 DEF Attached
        <5>4. Has(bridge[s], s) /\ Has(bridge[s], SlugOf[e]) /\ SlugOf[e] \in Slug
          BY <5>3, SlugAssumption DEF Has
        <5>5. SlugOf[e] = s
          BY <1>0, <2>3, <3>2, <5>4 DEF SInv, OneSlugEach
        <5>6. \A c \in At(s) : pc[c] # "store"
          BY <1>0, <4>4 DEF DeployPc
        <5>7. PICK w \in RowsOf(e) : w.id = docker[e].id
          BY <1>0, <5>3, <5>5, <5>6 DEF Contained
        <5> QED BY <1>3, <5>5, <5>7 DEF RowsOf
      <4>5. CASE b = a /\ pc[a] = "net_row"
        BY <1>0, <2>3, <3>2, <4>5 DEF Sure
      <4>6. CASE b = a /\ pc[a] \in {"insert_net", "create"} /\ net[a] = bridge[s]
        <5>1. pc'[a] \in {"create", "store", "undo_net"}
          BY <1>0, <2>3, <3>2, <4>6 DEF Calmly
        <5>2. net'[a] = net[a]
          BY <4>6, <5>1, Hold DEF Holds, Turned
        <5> QED BY <1>1, <3>2, <4>6, <5>1, <5>2
      <4>7. CASE b = a /\ pc[a] = "undo_net"
        <5>1. bridge[s] = net[a] /\ ~Attached(net[a])
          BY <1>0, <4>7 DEF Sure, Making
        <5>2. bridge'[s] = 0
          BY <1>0, <4>7, <5>1 DEF Calmly, WithoutNet
        <5> QED BY <2>3, <5>2
      <4>8. CASE b = a /\ pc[a] = "store"
        <5>1. job[a].op = "deploy" /\ SlugOf[job[a].name] = s
          BY <1>0, <4>8, JobAt DEF DeployPc
        <5>2. CASE Filed(a)
          <6>1. PICK v : New(a, v)
            BY <5>2 DEF Filed, New
          <6>2. v \in rows' /\ v.name = job[a].name
            BY <1>0, <5>1, <6>1, NewIs DEF Within
          <6> QED BY <5>1, <6>2
        <5>3. CASE row[a] # NoRow
          <6>1. row[a] \in RowsOf(job[a].name)
            BY <1>0, <4>8, <5>1, <5>3 DEF Deploying
          <6> QED BY <1>3, <5>1, <6>1 DEF RowsOf
        <5> QED BY <1>0, <4>8, <5>2, <5>3 DEF Calmly
      <4> QED
        BY <4>0, <4>1, <4>2, <4>3, <4>4, <4>5, <4>6, <4>7, <4>8 DEF Remover
    <3> QED BY <3>1, <3>2
  <2> QED BY <2>2, <2>3
<1> QED BY <1>2, <1>3

LEMMA StepAccounts ==
    ASSUME TypeInv, TypeInv', FreshInv, SInv, NEW a \in Actor, Step(a),
           NEW s \in Slug, Accounted(s)
    PROVE  Accounted(s)'
<1> SUFFICES ASSUME s \notin spoiled' PROVE Accounted(s)'
  BY DEF Accounted
<1>1. CASE SlugAt(a) # s
  BY <1>1, ElsewhereAccounted
<1>2. CASE SlugAt(a) = s
  <2>1. Contained(s)' /\ Registered(s)' /\ Needed(s)'
    BY <1>2, ContainedStep, RegisteredStep, NeededStep
  <2>2. ASSUME NEW b \in At(s)' PROVE Sure(b)'
    <3>1. b \in At(s)
      BY <1>2, CalmFacts
    <3> QED BY <1>2, <3>1, SureStep, SureBeside
  <2> QED BY <2>1, <2>2 DEF Accounted
<1> QED BY <1>1, <1>2

LEMMA StartAccounts ==
    ASSUME TypeInv, SInv, NEW a \in Actor, Starts(a), NEW s \in Slug, Accounted(s)
    PROVE  Accounted(s)'
<1> SUFFICES ASSUME s \notin spoiled' PROVE Accounted(s)'
  BY DEF Accounted
<1>0. /\ UNCHANGED <<rows, networks, docker, bridge, routed, reaped>>
      /\ spoiled \subseteq spoiled' /\ pc[a] = "idle"
      /\ pc'[a] \in {"new_net", "create", "stop", "fetch", "look"} /\ net'[a] = 0
      /\ \A b \in Actor \ {a} : Still(b)
  BY DEF Starts, Greets, Deploys, Removes
<1>1. \A b \in At(s) : /\ b \in At(s)' /\ Still(b) /\ SlugAt(b)' = SlugAt(b)
                       /\ (Remover(b)' <=> Remover(b))
  BY <1>0, AtIs DEF Still, SlugAt, NameAt, Remover
<1>2. \A b \in At(s)' : b \in At(s) \/ b = a
  <2> TAKE b \in At(s)'
  <2>1. CASE b # a
    <3>1. pc[b] # "idle" /\ SlugAt(b) = s /\ b \in Actor
      BY <1>0, <2>1, AtIs DEF Still, SlugAt, NameAt
    <3> QED BY <3>1, AtIs
  <2> QED BY <2>1
<1>3. Contained(s) /\ Registered(s) /\ Needed(s) /\ \A b \in At(s) : Sure(b)
  BY <1>0 DEF Accounted
<1>4. Contained(s)'
  <2>1. \A e \in Env : RowsOf(e)' = RowsOf(e)
    BY <1>0 DEF RowsOf
  <2> QED BY <1>0, <1>1, <1>3, <2>1 DEF Contained, Still
<1>5. Registered(s)'
  <2>1. NetworksOf(s)' = NetworksOf(s)
    BY <1>0 DEF NetworksOf
  <2>2. ASSUME NEW n \in NetworksOf(s)
        PROVE  \/ n.id = bridge[s]
               \/ \E b \in At(s)' : pc'[b] = "undo_row" /\ net'[b] = n.id
               \/ bridge[s] = 0 /\ \E b \in At(s)' : pc'[b] = "net_row" /\ net'[b] = n.id
    BY <1>1, <1>3 DEF Registered, Still
  <2>3. ASSUME NEW m \in NetworksOf(s), NEW n \in NetworksOf(s)
        PROVE  m = n \/ \E b \in At(s)' : pc'[b] = "undo_row" /\ net'[b] \in {m.id, n.id}
    BY <1>1, <1>3 DEF Registered, Still
  <2>4. bridge[s] # 0 =>
            \/ [id |-> bridge[s], slug |-> s] \in networks
            \/ \E b \in At(s)' : pc'[b] = "insert_net" /\ net'[b] = bridge[s]
    BY <1>1, <1>3 DEF Registered, Still
  <2> QED BY <1>0, <2>1, <2>2, <2>3, <2>4 DEF Registered
<1>6. Needed(s)'
  BY <1>0, <1>1, <1>3 DEF Needed, Still
<1>7. ASSUME NEW b \in At(s)' PROVE Sure(b)'
  <2>1. CASE b \in At(s)
    BY <1>0, <1>1, <1>3, <2>1 DEF Sure, Still, Attached
  <2>2. CASE b = a
    BY <1>0, <2>2 DEF Sure, Making
  <2> QED BY <1>2, <2>1, <2>2
<1> QED BY <1>4, <1>5, <1>6, <1>7 DEF Accounted

LEMMA LateAccounts ==
    ASSUME TypeInv, SInv, NEW j \in late, LateCreate(j), NEW s \in Slug, Accounted(s)
    PROVE  Accounted(s)'
<1> SUFFICES ASSUME s \notin spoiled' PROVE Accounted(s)'
  BY DEF Accounted
<1>0. /\ UNCHANGED <<rows, networks, bridge, routed, reaped, spoiled,
                     pc, job, row, net, made, todo, scope, crossed>>
      /\ next' = next + 1
      /\ Creates(j, next) \/ Leaves(j, next) \/ docker' = docker
  BY DEF LateCreate, database, local, history
<1>1. /\ j \in Deployment /\ j.name \in Env /\ SlugOf[j.name] \in Slug /\ SlugOf[j.name] # s
      /\ docker \in [Env -> [id : 0..next, net : 0..next]]
  BY <1>0, SlugAssumption DEF SInv, LateSpoiled, TypeInv, DataInv, Deployment
<1>2. /\ \A b : SlugAt(b)' = SlugAt(b) /\ (Remover(b)' <=> Remover(b))
      /\ At(s)' = At(s)
      /\ \A e \in Env : RowsOf(e)' = RowsOf(e)
  BY <1>0 DEF SlugAt, NameAt, Remover, At, Busy, RowsOf
<1>3. Contained(s) /\ Registered(s) /\ Needed(s) /\ \A b \in At(s) : Sure(b)
  BY <1>0 DEF Accounted
<1>4. Contained(s)'
  <2>1. \A e \in Env : SlugOf[e] = s => docker'[e] = docker[e]
    BY <1>0, <1>1, MadeIs DEF Kept, Created
  <2> QED BY <1>0, <1>2, <1>3, <2>1 DEF Contained
<1>5. Registered(s)'
  BY <1>0, <1>2, <1>3 DEF Registered, NetworksOf
<1>6. Needed(s)'
  BY <1>0, <1>2, <1>3 DEF Needed
<1>7. ASSUME NEW b \in At(s)' PROVE Sure(b)'
  <2>1. b \in At(s) /\ Sure(b) /\ SlugAt(b) = s /\ b \in Busy
    BY <1>2, <1>3 DEF At
  <2>n. PICK n \in Nat : n = net[b] /\ n = net'[b]
    BY <1>0, <2>1, ShownTyped DEF Busy, TypeInv, LocalInv
  <2>2. ASSUME n # 0, Attached(n)' PROVE Attached(n)
    <3>1. PICK e \in Env : docker'[e].id # 0 /\ docker'[e].net = n
      BY <2>2 DEF Attached
    <3>2. CASE Kept(e)
      BY <3>1, <3>2 DEF Kept, Attached
    <3>3. CASE Created(e, j)
      <4>1. bridge[SlugOf[j.name]] = n
        BY <2>2, <3>1, <3>3 DEF Created
      <4>2. Has(n, SlugOf[j.name]) /\ Has(n, s)
        BY <2>1, <2>n, <4>1 DEF Has
      <4> QED BY <1>1, <2>2, <4>2 DEF SInv, OneSlugEach
    <3>4. docker' = docker \/ Kept(e) \/ Created(e, j)
      BY <1>0, <1>1, MadeIs
    <3> QED BY <3>2, <3>3, <3>4 DEF Kept
  <2> QED BY <1>0, <1>2, <2>1, <2>n, <2>2 DEF Sure, Attached
<1> QED BY <1>4, <1>5, <1>6, <1>7 DEF Accounted

\* a restart spoils what was at work
LEMMA RestartAccounts ==
    ASSUME TypeInv, SInv, Restart, NEW s \in Slug, Accounted(s)
    PROVE  Accounted(s)'
<1> SUFFICES ASSUME s \notin spoiled' PROVE Accounted(s)'
  BY DEF Accounted
<1>0. /\ UNCHANGED <<rows, networks, docker, bridge, routed, reaped>>
      /\ s \notin spoiled /\ \A b \in Actor : s \notin scope[b] /\ pc'[b] = "idle"
      /\ NetworksOf(s)' = NetworksOf(s)
      /\ \A e \in Env : RowsOf(e)' = RowsOf(e)
  BY DEF Restart, database, labhost, RowsOf, NetworksOf
<1>1. At(s) = {} /\ At(s)' = {}
  BY <1>0, AtIs DEF SInv, Within
<1>2. Contained(s) /\ Registered(s) /\ Needed(s)
  BY <1>0 DEF Accounted
<1>3. Contained(s)' /\ Needed(s)'
  BY <1>0, <1>1, <1>2 DEF Contained, Needed
<1>4. Registered(s)'
  BY <1>0, <1>1, <1>2 DEF Registered
<1> QED BY <1>1, <1>3, <1>4 DEF Accounted

LEMMA StutterAccounts ==
    ASSUME UNCHANGED vars, NEW s \in Slug, Accounted(s)
    PROVE  Accounted(s)'
<1>0. /\ UNCHANGED <<rows, networks, docker, bridge, routed, reaped, spoiled, pc, job, row, net>>
      /\ At(s)' = At(s) /\ NetworksOf(s)' = NetworksOf(s)
      /\ \A e \in Env : RowsOf(e)' = RowsOf(e)
      /\ \A b : (Remover(b)' <=> Remover(b)) /\ (Sure(b)' <=> Sure(b))
  BY DEF vars, database, labhost, local, history, At, Busy, SlugAt, NameAt, NetworksOf, RowsOf,
         Remover, Sure, Attached
<1>1. Contained(s) => Contained(s)'
  BY <1>0 DEF Contained
<1>2. Registered(s) => Registered(s)'
  BY <1>0 DEF Registered
<1>3. Needed(s) => Needed(s)'
  BY <1>0 DEF Needed
<1> QED BY <1>0, <1>1, <1>2, <1>3 DEF Accounted

LEMMA AccountsKept ==
    ASSUME TypeInv, FreshInv, SInv, [Next]_vars, NEW s \in Slug, Accounted(s)
    PROVE  Accounted(s)'
<1>1. ASSUME NEW a \in Actor, Step(a) PROVE Accounted(s)'
  <2>1. TypeInv'
    BY NextTyped
  <2> QED BY <1>1, <2>1, StepAccounts
<1>2. CASE Begins
  BY <1>2, BeginsStart, StartAccounts DEF SInv
<1>3. ASSUME NEW j \in late, LateCreate(j) PROVE Accounted(s)'
  BY <1>3, LateAccounts
<1> QED BY <1>1, <1>2, <1>3, RestartAccounts, StutterAccounts DEF Next, Begins

LEMMA InitAccounts ==
    ASSUME Init, NEW s \in Slug
    PROVE  Accounted(s)
<1>0. /\ rows = {} /\ At(s) = {} /\ NetworksOf(s) = {} /\ bridge[s] = 0 /\ routed = {}
      /\ \A e \in Env : docker[e].id = 0 /\ RowsOf(e) = {}
  BY DEF Init, At, Busy, NetworksOf, RowsOf, NoContainer
<1>1. Contained(s) /\ Registered(s) /\ Needed(s)
  BY <1>0 DEF Contained, Registered, Needed
<1> QED BY <1>0, <1>1 DEF Accounted

\* where nobody is at work, nobody has anything in hand
LEMMA CalmAccounts ==
    ASSUME TypeInv, SInv, NEW s \in Slug, Accounted(s), Calm(s)
    PROVE  /\ \A e \in Env : SlugOf[e] = s =>
               /\ docker[e].id # 0 => \E w \in RowsOf(e) : w.id = docker[e].id
               /\ Cardinality(RowsOf(e)) <= 1
           /\ NetworksOf(s) = IF bridge[s] = 0 THEN {}
                              ELSE {[id |-> bridge[s], slug |-> s]}
           /\ s \in routed \/ (bridge[s] # 0 /\ s \notin reaped) =>
                  \E w \in rows : SlugOf[w.name] = s
<1>1. /\ At(s) = {} /\ Contained(s) /\ Registered(s) /\ Needed(s)
      /\ networks \subseteq [id : 0..next, slug : Slug]
      /\ \A n \in networks : n.id # 0
  <2>1. ASSUME NEW b \in At(s) PROVE FALSE
    <3>1. b \in Actor /\ s \in scope[b]
      BY AtIs DEF SInv, Within
    <3> QED BY <3>1 DEF Calm, InUse
  <2> QED BY <2>1 DEF Calm, Accounted, TypeInv, DataInv, SInv, OwnNets
<1>2. ASSUME NEW e \in Env, SlugOf[e] = s
      PROVE  /\ docker[e].id # 0 => \E w \in RowsOf(e) : w.id = docker[e].id
             /\ Cardinality(RowsOf(e)) <= 1
  <2>1. /\ docker[e].id # 0 => \E w \in RowsOf(e) : w.id = docker[e].id
        /\ \A v, w \in RowsOf(e) : v = w
    BY <1>1, <1>2 DEF Contained
  <2>2. Cardinality(RowsOf(e)) <= 1
    <3>1. CASE RowsOf(e) = {}
      BY <3>1, FS_EmptySet
    <3>2. ASSUME NEW w \in RowsOf(e) PROVE Cardinality(RowsOf(e)) <= 1
      <4>1. RowsOf(e) = {w}
        BY <2>1
      <4>2. Cardinality({w}) = 1
        BY FS_Singleton
      <4> QED BY <4>1, <4>2
    <3> QED BY <3>1, <3>2
  <2> QED BY <2>1, <2>2
<1>3. NetworksOf(s) = IF bridge[s] = 0 THEN {} ELSE {[id |-> bridge[s], slug |-> s]}
  <2>1. \A n \in NetworksOf(s) : n.id = bridge[s] /\ n.id # 0 /\ n = [id |-> n.id, slug |-> s]
    BY <1>1 DEF Registered, NetworksOf
  <2>2. bridge[s] # 0 => [id |-> bridge[s], slug |-> s] \in NetworksOf(s)
    BY <1>1 DEF Registered, NetworksOf
  <2> QED BY <2>1, <2>2
<1>4. s \in routed \/ (bridge[s] # 0 /\ s \notin reaped) => \E w \in rows : SlugOf[w.name] = s
  BY <1>1 DEF Needed
<1> QED BY <1>2, <1>3, <1>4

\* However deployments, replacements, refusals, compensations and removals
\* interleave, also with the reconciler's, a slug on which no call failed and no
\* two requests clashed, and on which nobody is at work, has what its rows
\* account for and nothing else: no container without a row, no name with two
\* rows, no network without its row nor row without its network, no route and no
\* network (the reconciler's removals aside) without an environment.
THEOREM NothingStrays == Spec => []NothingStray
<1> DEFINE AInv == \A s \in Slug : Accounted(s)
<1>1. Init => AInv
  BY InitAccounts
<1>2. TypeInv /\ FreshInv /\ SInv /\ AInv /\ [Next]_vars => AInv'
  BY AccountsKept
<1>3. TypeInv /\ SInv /\ AInv => NothingStray
  BY CalmAccounts DEF NothingStray
<1> HIDE DEF AInv
<1>4. Spec => []AInv
  BY <1>1, <1>2, AlwaysSound, PTL DEF Spec
<1> QED BY <1>3, <1>4, AlwaysSound, PTL
=============================================================================
