--------------------------- MODULE ProjectsProofs ---------------------------
(***************************************************************************)
(* Proofs about Projects, for any labs, lifetimes, requests and bounds:    *)
(* the type invariant, that removals leave nothing behind, and that        *)
(* answers hold.                                                           *)
(***************************************************************************)
EXTENDS Projects, TLAPS

-----------------------------------------------------------------------------
(* The inductive invariant.                                                *)

DeployPc == {"source", "start", "routes", "store"}
RemovePc == {"down", "rmtree", "row", "unroute"}
StatePc  == {"call", "write", "ends"}

\* What an actor does, where it is, and the row it has read.
Placed(a) ==
    /\ pc[a] = "idle" <=> job[a] = NoJob
    /\ pc[a] = "idle" => row[a] = NoRow
    /\ pc[a] \in DeployPc <=> job[a].op = "deploy"
    /\ pc[a] \in RemovePc <=> job[a].op \in {"delete", "reap"}
    /\ pc[a] \in StatePc <=> job[a].op \in {"up", "down"}
    /\ pc[a] = "ps" <=> job[a].op = "look"
    /\ row[a] # NoRow => row[a].lab = job[a].lab
    /\ a \in gone => job[a].lab \in spoiled

\* A row's key is its own for ever.
Fresh ==
    /\ \A w \in rows : w.pk < next
    /\ \A v, w \in rows : v.pk = w.pk => v = w
    /\ \A a \in Actor : row[a].pk < next
    /\ \A a \in Actor, w \in rows : row[a].pk = w.pk => w.lab = row[a].lab

\* Actors that clash have spoiled their labs.
Met(a, b) ==
    a \in Busy /\ b \in Busy /\ a # b /\ Clashes(job[a].op, job[b].op)
        => job[a].lab \in spoiled /\ job[b].lab \in spoiled

\* A deployment that met nobody finds the row, the directory and the route as
\* it has read or left them.
Deploying(a) ==
    LET l == job[a].lab IN
    job[a].op = "deploy" /\ l \notin spoiled =>
        /\ row[a] = NoRow => RowsOf(l) = {}
        /\ row[a] # NoRow => Find(row[a].pk) # {}
        /\ pc[a] # "source" => dir = "ready"
        /\ l \in routed => \/ row[a] # NoRow /\ row[a].exposed
                           \/ pc[a] = "store" /\ job[a].exposed
        /\ pc[a] = "store" /\ job[a].exposed => l \in routed

\* Any other actor has read the lab's row as it is, if it is still there; what a
\* removal has removed stays so until it is through.
Reading(a) ==
    LET l == job[a].lab IN
    a \in Busy /\ job[a].op # "deploy" /\ l \notin spoiled =>
        /\ \A w \in RowsOf(l) : w.pk = row[a].pk /\ (w.exposed <=> row[a].exposed)
        /\ job[a].op = "delete" /\ pc[a] = "unroute" => row[a].exposed /\ RowsOf(l) = {}
        /\ job[a].op = "reap" /\ pc[a] = "row" /\ row[a].exposed => l \notin routed
        /\ Lab = {l} => /\ pc[a] = "rmtree" => up = "none"
                        /\ pc[a] \in {"row", "unroute"} => dir = "none" /\ up = "none"

\* Two such actors have read the same.
Alike(a, b) ==
    /\ a \in Busy /\ b \in Busy /\ job[a].op # "deploy" /\ job[b].op # "deploy"
    /\ job[a].lab = job[b].lab /\ job[a].lab \notin spoiled
    => (row[a].exposed <=> row[b].exposed)

Deploys(l) == \E a \in Actor : job[a].op = "deploy" /\ job[a].lab = l
Unroutes(l) == \E a \in Actor : job[a].op = "delete" /\ pc[a] = "unroute" /\ job[a].lab = l

\* Between deployments a route has an exposed row, or a removal that is about to
\* take it away, and a directory has a row.
Tidy(l) ==
    l \notin spoiled /\ ~Deploys(l) =>
        /\ l \in routed => (\E w \in RowsOf(l) : w.exposed) \/ Unroutes(l)
        /\ Lab = {l} /\ RowsOf(l) = {} => dir = "none"

\* No containers without a directory.
Empty(l) == Lab = {l} /\ l \notin spoiled /\ dir = "none" => up = "none"

\* What an answer says holds, and whoever may change it has not begun.
Answered(l) ==
    /\ answer[l] = "deployed" =>
        /\ \E w \in RowsOf(l) : (Lab = {l} => dir = "ready") /\ (w.exposed => l \in routed)
        /\ \A a \in Busy : job[a].lab = l => job[a].op = "look"
    /\ answer[l] = "removed" =>
        /\ RowsOf(l) = {} /\ l \notin routed
        /\ \A a \in Busy : job[a].lab = l => job[a].op \in {"delete", "reap", "down", "look"}

Actors ==
    /\ \A a \in Actor : Placed(a)
    /\ \A a, b \in Actor : Met(a, b) /\ Alike(a, b)

Labs ==
    /\ \A a \in Actor : Deploying(a) /\ Reading(a)
    /\ \A l \in Lab : Tidy(l) /\ Empty(l) /\ Answered(l)

IInv == TypeOK /\ Fresh /\ Actors /\ Labs

-----------------------------------------------------------------------------
(* Lemmas about rows and actors.                                           *)

\* Keys given out are never taken back, so that a row stays a row.
LEMMA Grow ==
    ASSUME TypeOK, next' \in {next, next + 1}
    PROVE  RowType \subseteq RowType' /\ 1..next \subseteq 1..next' /\ next' \in Nat \ {0}
<1>1. next \in Nat \ {0} /\ next' \in Nat \ {0} /\ next <= next'
  BY DEF TypeOK
<1>2. 1..next \subseteq 1..next'
  BY <1>1
<1> QED BY <1>1, <1>2 DEF RowType

\* A row's columns, which the absence of a row has not.
LEMMA RowIs ==
    ASSUME NEW w \in RowType
    PROVE  /\ w.pk \in 1..next /\ w.pk # 0 /\ w # NoRow /\ w.lab \in Lab
           /\ w.exposed \in BOOLEAN /\ w.expired \in BOOLEAN /\ w.life \in Life
           /\ w.state \in {"RUNNING", "STOPPED"}
  BY DEF RowType, NoRow

\* What an actor at work has been asked.
LEMMA JobIs ==
    ASSUME TypeOK, Actors, NEW a \in Actor, a \in Busy
    PROVE  /\ job[a].lab \in Lab
           /\ job[a].op \in {"deploy", "delete", "up", "down", "look", "reap"}
           /\ IF job[a].op = "deploy" THEN job[a] \in Deployment
                                       ELSE job[a] \in Other /\ row[a] \in RowType
<1>1. job[a] \in Deployment \cup Other
  BY DEF TypeOK, Actors, Placed, Busy
<1>2. job[a].op # "deploy" => row[a] \in RowType
  BY DEF TypeOK
<1> QED BY <1>1, <1>2 DEF Deployment, Other

\* No job and no row are told apart from all others.
LEMMA NoJobIs ==
    /\ NoJob.op = "none" /\ NoJob \notin Deployment /\ NoJob \notin Other
    /\ NoRow.pk = 0
  BY DEF NoJob, NoRow, Deployment, Other

\* A deployment under way that met nobody is alone.
LEMMA DeployAlone ==
    ASSUME Actors, NEW a \in Actor, NEW b \in Actor, a # b, a \in Busy, b \in Busy,
           job[a].op = "deploy" \/ job[b].op = "deploy"
    PROVE  job[a].lab \in spoiled /\ job[b].lab \in spoiled
  BY DEF Actors, Met, Clashes

\* What a removal that met nobody clashing may rely on: nobody deploys.
LEMMA NoDeploy ==
    ASSUME Actors, NEW a \in Actor, a \in Busy, job[a].op # "deploy", job[a].lab \notin spoiled
    PROVE  \A b \in Actor : job[b].op # "deploy"
<1> SUFFICES ASSUME NEW b \in Actor, job[b].op = "deploy" PROVE FALSE
  OBVIOUS
<1>1. pc[b] \in DeployPc
  BY DEF Actors, Placed
<1>2. b \in Busy /\ b # a
  BY <1>1 DEF Busy, DeployPc
<1> QED BY <1>2, DeployAlone

-----------------------------------------------------------------------------
(* Steps of an actor at work.                                              *)

Kin(x, y) == \E k \in {DeployPc, RemovePc, StatePc, {"ps"}} : x \in k /\ y \in k

\* The actor ends or goes on with what it does; the others stay where they are.
Walk(a) ==
    /\ a \in Busy
    /\ \A b \in Actor \ {a} : pc'[b] = pc[b] /\ job'[b] = job[b] /\ row'[b] = row[b]
    /\ \/ pc'[a] = "idle" /\ job'[a] = NoJob /\ row'[a] = NoRow /\ a \notin gone'
       \/ Kin(pc[a], pc'[a]) /\ job'[a] = job[a] /\ row'[a] = row[a]
    /\ \A b \in gone' : b \in gone \/ (b = a /\ job[a].lab \in spoiled')
    /\ spoiled \subseteq spoiled'

\* The actors' part of the type invariant.
ActorsTyped ==
    /\ pc \in [Actor -> Label]
    /\ job \in [Actor -> Deployment \cup Other \cup {NoJob}]
    /\ row \in [Actor -> RowType \cup {NoRow}]
    /\ gone \subseteq Busy
    /\ \A a \in Busy : job[a].op # "deploy" => row[a] # NoRow

\* An actor that ends is well typed and has walked.
LEMMA LeaveWalks ==
    ASSUME TypeOK, NEW a \in Actor, a \in Busy, Leave(a), spoiled \subseteq spoiled',
           next' \in {next, next + 1}
    PROVE  ActorsTyped' /\ Walk(a) /\ pc'[a] = "idle"
<1>1. RowType \subseteq RowType'
  BY Grow
<1>2. /\ \A b \in Actor \ {a} : pc'[b] = pc[b] /\ job'[b] = job[b] /\ row'[b] = row[b]
      /\ pc'[a] = "idle" /\ job'[a] = NoJob /\ row'[a] = NoRow /\ gone' = gone \ {a}
  BY DEF TypeOK, Leave, Goto
<1>3. pc' \in [Actor -> Label] /\ job' \in [Actor -> Deployment \cup Other \cup {NoJob}]
  BY DEF TypeOK, Leave, Goto, Label
<1>4. row' \in [Actor -> RowType' \cup {NoRow}]
  BY <1>1 DEF TypeOK, Leave
<1>5. Busy' = Busy \ {a}
  BY <1>2 DEF Busy
<1>6. gone' \subseteq Busy'
  BY <1>2, <1>5 DEF TypeOK
<1>7. \A b \in Busy' : job'[b].op # "deploy" => row'[b] # NoRow
  BY <1>2, <1>5 DEF TypeOK, Busy
<1>8. ActorsTyped'
  BY <1>3, <1>4, <1>6, <1>7 DEF ActorsTyped
<1>9. Walk(a)
  BY <1>2 DEF Walk
<1> QED BY <1>2, <1>8, <1>9

\* So is one that goes on with what it does.
LEMMA GotoWalks ==
    ASSUME TypeOK, NEW a \in Actor, a \in Busy, NEW label \in Label, Kin(pc[a], label),
           Goto(a, label), UNCHANGED <<job, row>>, gone' \subseteq gone \cup {a},
           gone' = gone \/ job[a].lab \in spoiled',
           spoiled \subseteq spoiled', next' \in {next, next + 1}
    PROVE  ActorsTyped' /\ Walk(a) /\ pc'[a] = label /\ job' = job /\ row' = row
<1>1. RowType \subseteq RowType'
  BY Grow
<1>2. /\ \A b \in Actor \ {a} : pc'[b] = pc[b]
      /\ pc'[a] = label /\ label # "idle"
  BY DEF TypeOK, Goto, Kin, DeployPc, RemovePc, StatePc
<1>3. pc' \in [Actor -> Label] /\ job' \in [Actor -> Deployment \cup Other \cup {NoJob}]
  BY DEF TypeOK, Goto
<1>4. row' \in [Actor -> RowType' \cup {NoRow}]
  BY <1>1 DEF TypeOK
<1>5. Busy' = Busy
  BY <1>2 DEF Busy
<1>6. gone' \subseteq Busy'
  BY <1>5 DEF TypeOK
<1>7. \A b \in Busy' : job'[b].op # "deploy" => row'[b] # NoRow
  BY <1>5 DEF TypeOK
<1>8. ActorsTyped'
  BY <1>3, <1>4, <1>6, <1>7 DEF ActorsTyped
<1>9. Walk(a)
  BY <1>2 DEF Walk
<1> QED BY <1>2, <1>8, <1>9

\* What an actor does, whom it has met and what it has read outlast its steps.
LEMMA WalkActors ==
    ASSUME TypeOK, Actors, NEW a \in Actor, Walk(a)
    PROVE  Actors'
<1>1. \A b \in Actor : \/ pc'[b] = "idle" /\ job'[b] = NoJob /\ row'[b] = NoRow /\ b = a
                       \/ pc'[b] = pc[b] /\ job'[b] = job[b] /\ row'[b] = row[b] /\ b # a
                       \/ Kin(pc[b], pc'[b]) /\ job'[b] = job[b] /\ row'[b] = row[b] /\ b = a
  BY DEF Walk
<1>2. ASSUME NEW b \in Actor PROVE Placed(b)'
  <2>1. Placed(b)
    BY DEF Actors
  <2>2. b \in gone' => b \in gone \/ job[b].lab \in spoiled'
    BY DEF Walk
  <2>3. CASE pc'[b] = "idle" /\ job'[b] = NoJob /\ row'[b] = NoRow /\ b = a
    <3>1. a \notin gone'
      BY <2>3 DEF Walk, Kin, DeployPc, RemovePc, StatePc
    <3> QED BY <2>3, <3>1, NoJobIs DEF Placed, DeployPc, RemovePc, StatePc
  <2>4. CASE pc'[b] = pc[b] /\ job'[b] = job[b] /\ row'[b] = row[b] /\ b # a
    BY <2>1, <2>2, <2>4 DEF Placed, Walk
  <2>5. CASE Kin(pc[b], pc'[b]) /\ job'[b] = job[b] /\ row'[b] = row[b] /\ b = a
    <3>1. /\ pc[b] \in DeployPc <=> pc'[b] \in DeployPc
          /\ pc[b] \in RemovePc <=> pc'[b] \in RemovePc
          /\ pc[b] \in StatePc <=> pc'[b] \in StatePc
          /\ pc[b] = "ps" <=> pc'[b] = "ps"
          /\ pc[b] # "idle" /\ pc'[b] # "idle"
      BY <2>5 DEF Kin, DeployPc, RemovePc, StatePc
    <3>2. b \in gone' => job'[b].lab \in spoiled'
      BY <2>1, <2>2, <2>5 DEF Placed, Walk
    <3> QED BY <2>1, <2>5, <3>1, <3>2 DEF Placed
  <2> QED BY <1>1, <2>3, <2>4, <2>5
<1>3. \A b \in Actor : b \in Busy' => b \in Busy /\ job'[b] = job[b] /\ row'[b] = row[b]
  BY <1>1 DEF Walk, Busy, Kin, DeployPc, RemovePc, StatePc
<1>4. spoiled \subseteq spoiled'
  BY DEF Walk
<1>5. ASSUME NEW b \in Actor, NEW c \in Actor PROVE Met(b, c)' /\ Alike(b, c)'
  <2>1. Met(b, c) /\ Alike(b, c)
    BY DEF Actors
  <2>2. Met(b, c)'
    BY <1>3, <1>4, <2>1 DEF Met, Clashes
  <2>3. Alike(b, c)'
    BY <1>3, <1>4, <2>1 DEF Alike
  <2> QED BY <2>2, <2>3
<1> QED BY <1>2, <1>5 DEF Actors

-----------------------------------------------------------------------------
(* What a step of an actor does to the labs.                               *)

\* The rows of a lab are the same but for columns the invariant does not read.
SameRows(l) ==
    /\ \A w \in rows' : w.lab = l =>
         \E v \in RowsOf(l) : v.pk = w.pk /\ (v.exposed <=> w.exposed)
    /\ \A v \in RowsOf(l) :
         \E w \in rows' : w.lab = l /\ v.pk = w.pk /\ (v.exposed <=> w.exposed)

\* The step changes nothing of another lab.
Framed(a) ==
    \A l \in Lab \ {job[a].lab} :
        SameRows(l) /\ (l \in routed' <=> l \in routed) /\ answer'[l] = answer[l]

\* A step that leaves the rows leaves those of every lab.
LEMMA RowsKept == ASSUME rows' = rows, NEW l PROVE SameRows(l)
  BY DEF SameRows, RowsOf

\* What holds of the actors of a lab, and of the lab.
Good(l) ==
    /\ \A a \in Actor : job[a].lab = l => Deploying(a) /\ Reading(a)
    /\ Tidy(l) /\ Empty(l) /\ Answered(l)

\* What holds of every lab and its actors holds of all.
LEMMA AllGood ==
    ASSUME TypeOK', Actors', \A l \in Lab : Good(l)'
    PROVE  Labs'
<1>1. ASSUME NEW a \in Actor PROVE Deploying(a)' /\ Reading(a)'
  <2>1. CASE pc'[a] # "idle"
    <3>1. job'[a] \in Deployment \cup Other
      BY <2>1 DEF TypeOK, Actors, Placed
    <3>2. job'[a].lab \in Lab
      BY <3>1 DEF Deployment, Other
    <3> QED BY <3>2 DEF Good
  <2>2. CASE pc'[a] = "idle"
    <3>1. job'[a].op # "deploy"
      BY <2>2 DEF Actors, Placed, DeployPc
    <3> QED BY <2>2, <3>1 DEF Deploying, Reading, Busy
  <2> QED BY <2>1, <2>2
<1> QED BY <1>1 DEF Labs, Good

\* The other labs are as they were.
LEMMA OthersGood ==
    ASSUME TypeOK, Actors, Labs, NEW a \in Actor, Walk(a), Framed(a),
           NEW l \in Lab, l # job[a].lab
    PROVE  Good(l)'
<1>1. a \in Busy /\ spoiled \subseteq spoiled' /\ job[a].lab \in Lab
  BY JobIs DEF Walk
<1>2. \A b \in Actor \ {a} : pc'[b] = pc[b] /\ job'[b] = job[b] /\ row'[b] = row[b]
  BY DEF Walk
<1>3. job'[a] = job[a] \/ (pc'[a] = "idle" /\ job'[a] = NoJob)
  BY DEF Walk
<1>4. Lab # {l}
  BY <1>1
<1>5. SameRows(l) /\ (l \in routed' <=> l \in routed) /\ answer'[l] = answer[l]
  BY DEF Framed
<1>6. \A b \in Actor : job'[b].lab = l /\ b \in Busy' => b # a /\ b \in Busy
  BY <1>2, <1>3 DEF Busy
<1>7. ASSUME NEW b \in Actor, job'[b].lab = l PROVE Deploying(b)' /\ Reading(b)'
  <2>1. CASE b = a
    <3>1. pc'[b] = "idle" /\ job'[b] = NoJob
      BY <1>3, <1>7, <2>1
    <3> QED BY <3>1, NoJobIs DEF Deploying, Reading, Busy
  <2>2. CASE b # a
    <3>1. job'[b] = job[b] /\ pc'[b] = pc[b] /\ row'[b] = row[b]
      BY <1>2, <2>2
    <3>2. ASSUME job[b].op = "deploy" PROVE l \in spoiled'
      <4>1. b \in Busy
        BY <3>2 DEF Actors, Placed, Busy, DeployPc
      <4> QED BY <1>1, <1>7, <2>2, <3>1, <3>2, <4>1, DeployAlone
    <3>3. Deploying(b)'
      BY <1>7, <3>1, <3>2 DEF Deploying
    <3>4. Reading(b)
      BY DEF Labs
    <3>5. Reading(b)'
      <4> SUFFICES ASSUME b \in Busy', job'[b].op # "deploy", l \notin spoiled'
                   PROVE  Reading(b)'
        BY <1>7 DEF Reading
      <4>1. b \in Busy /\ job[b].lab = l /\ l \notin spoiled /\ job[b].op # "deploy"
        BY <1>1, <1>6, <1>7, <3>1
      <4>2. /\ \A w \in RowsOf(l) : w.pk = row[b].pk /\ (w.exposed <=> row[b].exposed)
            /\ job[b].op = "delete" /\ pc[b] = "unroute" => row[b].exposed /\ RowsOf(l) = {}
            /\ job[b].op = "reap" /\ pc[b] = "row" /\ row[b].exposed => l \notin routed
        BY <3>4, <4>1 DEF Reading
      <4>3. \A w \in RowsOf(l)' : w.pk = row[b].pk /\ (w.exposed <=> row[b].exposed)
        BY <1>5, <4>2 DEF SameRows, RowsOf
      <4>4. RowsOf(l) = {} => RowsOf(l)' = {}
        BY <1>5 DEF SameRows, RowsOf
      <4> QED BY <1>4, <1>5, <1>7, <3>1, <4>2, <4>3, <4>4 DEF Reading
    <3> QED BY <3>3, <3>5
  <2> QED BY <2>1, <2>2
<1>8. Tidy(l)'
  <2> SUFFICES ASSUME l \notin spoiled', ~Deploys(l)', l \in routed'
               PROVE  (\E w \in RowsOf(l)' : w.exposed) \/ Unroutes(l)'
    BY <1>4 DEF Tidy
  <2>1. ~Deploys(l)
    BY <1>2, <1>3 DEF Deploys
  <2>2. (\E w \in RowsOf(l) : w.exposed) \/ Unroutes(l)
    BY <1>1, <1>5, <2>1 DEF Labs, Tidy
  <2>3. Unroutes(l) => Unroutes(l)'
    BY <1>2, <1>3 DEF Unroutes
  <2>4. ASSUME NEW v \in RowsOf(l), v.exposed PROVE \E w \in RowsOf(l)' : w.exposed
    BY <1>5, <2>4 DEF SameRows, RowsOf
  <2> QED BY <2>2, <2>3, <2>4
<1>9. Empty(l)'
  BY <1>4 DEF Empty
<1>10. Answered(l)'
  <2>1. Answered(l)
    BY DEF Labs
  <2>2. \A b \in Busy' : job'[b].lab = l => b \in Busy /\ job'[b] = job[b]
    BY <1>2, <1>6 DEF Busy
  <2>3. ASSUME answer[l] = "deployed"
        PROVE  \E w \in RowsOf(l)' : w.exposed => l \in routed'
    <3>1. PICK v \in RowsOf(l) : v.exposed => l \in routed
      BY <2>1, <2>3 DEF Answered
    <3> QED BY <1>5, <3>1 DEF SameRows, RowsOf
  <2>4. RowsOf(l) = {} => RowsOf(l)' = {}
    BY <1>5 DEF SameRows, RowsOf
  <2> QED BY <1>4, <1>5, <2>1, <2>2, <2>3, <2>4 DEF Answered
<1> QED BY <1>7, <1>8, <1>9, <1>10 DEF Good

\* The step of an actor whose lab is spoiled: whoever could make an answer untrue
\* has been noted when it began.
LEMMA SpoiledHolds ==
    ASSUME TypeOK, Actors, Labs, TypeOK', NEW a \in Actor, Walk(a), Framed(a),
           NEW l, l = job[a].lab, l \in spoiled',
           answer'[l] \in {answer[l], "unknown"},
           job[a].op = "look" => UNCHANGED <<rows, dir, routed>>,
           job[a].op # "deploy" =>
             /\ l \in routed' => l \in routed
             /\ RowsOf(l) = {} => RowsOf(l)' = {}
    PROVE  Labs'
<1>1. a \in Busy /\ l \in Lab
  BY JobIs DEF Walk
<1>2. Answered(l)
  BY <1>1 DEF Labs
<1>3. \A b \in Busy' : job'[b].lab = l => b \in Busy /\ job'[b] = job[b]
  BY DEF Walk, Busy
<1>4. answer'[l] = "deployed" => answer[l] = "deployed" /\ job[a].op = "look"
  BY <1>1, <1>2 DEF Answered
<1>5. answer'[l] = "removed" => answer[l] = "removed" /\ job[a].op # "deploy"
  BY <1>1, <1>2 DEF Answered
<1>6. Answered(l)'
  <2>1. ASSUME answer'[l] = "deployed"
        PROVE  \E w \in RowsOf(l)' : (Lab = {l} => dir' = "ready") /\ (w.exposed => l \in routed')
    BY <1>2, <1>4, <2>1 DEF Answered, RowsOf
  <2>2. ASSUME answer'[l] = "removed" PROVE RowsOf(l)' = {} /\ l \notin routed'
    BY <1>2, <1>5, <2>2 DEF Answered
  <2> QED BY <1>2, <1>3, <1>4, <1>5, <2>1, <2>2 DEF Answered
<1>7. Good(l)'
  <2>1. Tidy(l)' /\ Empty(l)'
    BY DEF Tidy, Empty
  <2>2. ASSUME NEW b \in Actor, job'[b].lab = l PROVE Deploying(b)' /\ Reading(b)'
    BY <2>2 DEF Deploying, Reading
  <2> QED BY <1>6, <2>1, <2>2 DEF Good
<1>8. \A k \in Lab : Good(k)'
  BY <1>7, OthersGood
<1>9. Actors'
  BY WalkActors
<1> QED BY <1>8, <1>9, AllGood

\* A deployment that goes on, alone.
LEMMA DeployHolds ==
    ASSUME TypeOK, Actors, Labs, TypeOK', NEW a \in Actor, Walk(a), Framed(a),
           NEW l, l = job[a].lab, job[a].op = "deploy", job'[a] = job[a], l \notin spoiled',
           answer'[l] = answer[l], dir' = "ready", Deploying(a)'
    PROVE  Labs'
<1>1. a \in Busy /\ l \in Lab /\ l \notin spoiled
  BY JobIs DEF Walk
<1>2. \A b \in Actor \ {a} : b \notin Busy /\ job[b].lab = l => pc[b] = "idle"
  BY DEF Busy
<1>3. \A b \in Busy : b = a
  BY <1>1, DeployAlone DEF Busy
<1>4. \A b \in Actor \ {a} : job'[b] = NoJob /\ b \notin Busy'
  BY <1>3 DEF Walk, Busy, Actors, Placed
<1>5. ASSUME NEW b \in Actor, job'[b].lab = l PROVE Deploying(b)' /\ Reading(b)'
  <2>1. CASE b = a
    BY <2>1 DEF Reading
  <2>2. CASE b # a
    BY <1>4, <2>2, NoJobIs DEF Deploying, Reading
  <2> QED BY <2>1, <2>2
<1>6. Tidy(l)'
  BY DEF Tidy, Deploys
<1>7. Empty(l)'
  BY DEF Empty
<1>8. Answered(l)'
  BY <1>1 DEF Labs, Answered
<1>9. \A k \in Lab : Good(k)'
  BY <1>5, <1>6, <1>7, <1>8, OthersGood DEF Good
<1>10. Actors'
  BY WalkActors
<1> QED BY <1>9, <1>10, AllGood

\* Another actor's step, where nobody deploys: what is left to show of its lab.
LEMMA OtherHolds ==
    ASSUME TypeOK, Actors, Labs, TypeOK', NEW a \in Actor, Walk(a), Framed(a),
           NEW l, l = job[a].lab, job[a].op # "deploy", l \notin spoiled',
           \A b \in Actor : job[b].lab = l /\ b \in Busy' => Reading(b)',
           Tidy(l)', Empty(l)', Answered(l)'
    PROVE  Labs'
<1>1. a \in Busy /\ l \in Lab /\ l \notin spoiled
  BY JobIs DEF Walk
<1>2. \A b \in Actor : job[b].op # "deploy"
  BY <1>1, NoDeploy
<1>3. \A b \in Actor : job'[b].op # "deploy" /\ (b \in Busy' => job'[b] = job[b])
  BY <1>2, NoJobIs DEF Walk, Busy
<1>4. ASSUME NEW b \in Actor, job'[b].lab = l PROVE Deploying(b)' /\ Reading(b)'
  BY <1>3, <1>4 DEF Deploying, Reading
<1>5. \A k \in Lab : Good(k)'
  BY <1>4, OthersGood DEF Good
<1>6. Actors'
  BY WalkActors
<1> QED BY <1>5, <1>6, AllGood

\* A step that leaves rows, directory and routes of its lab as they are, and the
\* containers but for a stop, or a start where there is what compose needs.
LEMMA StillHolds ==
    ASSUME TypeOK, Actors, Labs, TypeOK', NEW a \in Actor, Walk(a), Framed(a),
           NEW l, l = job[a].lab, job[a].op \notin {"deploy", "delete", "reap"}, l \notin spoiled',
           SameRows(l), answer'[l] = answer[l], UNCHANGED <<dir, routed>>,
           up' \in {up, "none"} \/ (job[a].op = "up" /\ dir = "ready")
    PROVE  Labs'
<1>1. a \in Busy /\ l \in Lab /\ l \notin spoiled
  BY JobIs DEF Walk
<1>2. \A b \in Actor : b \in Busy' => b \in Busy /\ job'[b] = job[b] /\ row'[b] = row[b]
  BY DEF Walk, Busy
<1>3. \A b \in Actor \ {a} : pc'[b] = pc[b] /\ job'[b] = job[b]
  BY DEF Walk
<1>4. a \in Busy' => pc'[a] \notin RemovePc
  BY <1>2, WalkActors DEF Actors, Placed, Busy
<1>5. RowsOf(l) = {} => RowsOf(l)' = {}
  BY DEF SameRows, RowsOf
<1>6. ASSUME NEW b \in Actor, job[b].lab = l, b \in Busy' PROVE Reading(b)'
  <2>1. b \in Busy /\ job'[b] = job[b] /\ row'[b] = row[b]
    BY <1>2, <1>6
  <2>2. CASE job[b].op = "deploy"
    BY <2>1, <2>2 DEF Reading
  <2>3. CASE job[b].op # "deploy"
    <3>1. /\ \A w \in RowsOf(l) : w.pk = row[b].pk /\ (w.exposed <=> row[b].exposed)
          /\ job[b].op = "delete" /\ pc[b] = "unroute" => row[b].exposed /\ RowsOf(l) = {}
          /\ job[b].op = "reap" /\ pc[b] = "row" /\ row[b].exposed => l \notin routed
          /\ Lab = {l} => /\ pc[b] = "rmtree" => up = "none"
                          /\ pc[b] \in {"row", "unroute"} => dir = "none" /\ up = "none"
      BY <1>1, <1>6, <2>1, <2>3 DEF Labs, Reading
    <3>2. \A w \in RowsOf(l)' : w.pk = row[b].pk /\ (w.exposed <=> row[b].exposed)
      BY <3>1 DEF SameRows, RowsOf
    <3>3. pc'[b] \in RemovePc => b # a /\ pc'[b] = pc[b]
      BY <1>3, <1>4, <1>6
    <3>4. pc'[b] \in RemovePc => up' \in {up, "none"}
      <4> SUFFICES ASSUME pc'[b] \in RemovePc, job[a].op = "up" PROVE FALSE
        OBVIOUS
      <4>1. job[b].op \in {"delete", "reap"}
        BY <3>3 DEF Actors, Placed
      <4>2. Clashes(job[a].op, job[b].op)
        BY <4>1 DEF Clashes
      <4> QED BY <1>1, <2>1, <3>3, <4>2 DEF Actors, Met
    <3>5. job[b].op \in {"delete", "reap"} => pc'[b] = pc[b]
      BY <1>3 
    <3> QED BY <1>5, <1>6, <2>1, <3>1, <3>2, <3>3, <3>4, <3>5 DEF Reading, RemovePc
  <2> QED BY <2>2, <2>3
<1>7. Tidy(l)'
  <2> SUFFICES ASSUME l \notin spoiled', ~Deploys(l)'
               PROVE  /\ l \in routed' => (\E w \in RowsOf(l)' : w.exposed) \/ Unroutes(l)'
                      /\ Lab = {l} /\ RowsOf(l)' = {} => dir' = "none"
    BY DEF Tidy
  <2>1. ~Deploys(l)
    BY <1>1, NoDeploy DEF Deploys
  <2>2. /\ l \in routed => (\E w \in RowsOf(l) : w.exposed) \/ Unroutes(l)
        /\ Lab = {l} /\ RowsOf(l) = {} => dir = "none"
    BY <1>1, <2>1 DEF Labs, Tidy
  <2>3. Unroutes(l) => Unroutes(l)'
    BY <1>3 DEF Unroutes
  <2>4. (\E w \in RowsOf(l) : w.exposed) => \E w \in RowsOf(l)' : w.exposed
    BY DEF SameRows, RowsOf
  <2>5. RowsOf(l)' = {} => RowsOf(l) = {}
    BY DEF SameRows, RowsOf
  <2> QED BY <2>2, <2>3, <2>4, <2>5
<1>8. Empty(l)'
  BY <1>1 DEF Empty, Labs
<1>9. Answered(l)'
  <2>1. Answered(l)
    BY <1>1 DEF Labs
  <2>2. \A b \in Busy' : job'[b].lab = l => b \in Busy /\ job'[b] = job[b]
    BY <1>2 DEF Busy
  <2>3. ASSUME answer[l] = "deployed"
        PROVE  \E w \in RowsOf(l)' : (Lab = {l} => dir' = "ready") /\ (w.exposed => l \in routed')
    <3>1. PICK v \in RowsOf(l) : (Lab = {l} => dir = "ready") /\ (v.exposed => l \in routed)
      BY <2>1, <2>3 DEF Answered
    <3> QED BY <3>1 DEF SameRows, RowsOf
  <2> QED BY <1>5, <2>1, <2>2, <2>3 DEF Answered
<1> QED BY <1>6, <1>7, <1>8, <1>9, OtherHolds

-----------------------------------------------------------------------------
(* The actions of an actor at work are such steps.                         *)

\* An actor after its call, whether anybody waits for it or not.
LEMMA AfterWalks ==
    ASSUME TypeOK, NEW a \in Actor, a \in Busy, NEW label \in Label, Kin(pc[a], label),
           After(a, label), spoiled' = spoiled, next' = next
    PROVE  /\ ActorsTyped' /\ Walk(a)
           /\ a \in gone => pc'[a] = "idle"
           /\ a \notin gone => pc'[a] = label /\ job' = job /\ row' = row
<1>1. CASE a \in gone
  BY <1>1, LeaveWalks DEF After
<1>2. CASE a \notin gone
  BY <1>2, GotoWalks DEF After
<1> QED BY <1>1, <1>2

\* Which places belong to the same work.
LEMMA Labels ==
    /\ \A x \in {"source", "start", "routes", "store", "down", "rmtree", "row", "unroute",
                 "call", "write", "ps", "ends"} : x \in Label /\ x # "idle" /\ Kin(x, x)
    /\ Kin("source", "start") /\ Kin("start", "routes") /\ Kin("routes", "store")
    /\ Kin("down", "rmtree") /\ Kin("down", "row") /\ Kin("down", "unroute")
    /\ Kin("rmtree", "row") /\ Kin("rmtree", "unroute") /\ Kin("row", "unroute")
    /\ Kin("unroute", "row") /\ Kin("call", "write") /\ Kin("call", "ends")
  BY DEF Label, Kin, DeployPc, RemovePc, StatePc

\* A call that is refused.
LEMMA RefusedWalks ==
    ASSUME TypeOK, NEW a \in Actor, Refused(a)
    PROVE  ActorsTyped' /\ Walk(a)
<1>1. a \in Busy
  BY DEF Refused, Busy
<1> QED BY <1>1, LeaveWalks DEF Refused, Spoil

\* A caller that gives up: the actor stays where it is.
LEMMA GiveUpWalks ==
    ASSUME TypeOK, NEW a \in Actor, GiveUp(a)
    PROVE  ActorsTyped' /\ Walk(a)
<1>1. a \in Busy /\ pc[a] \in Label /\ Kin(pc[a], pc[a])
  BY Labels DEF GiveUp, Busy
<1>2. Goto(a, pc[a])
  BY DEF GiveUp, Goto, TypeOK
<1> QED BY <1>1, <1>2, GotoWalks DEF GiveUp, Spoil

\* A deployment.
LEMMA DeployWalks ==
    ASSUME TypeOK, NEW a \in Actor,
           Source(a) \/ Start(a) \/ StartFails(a) \/ Routes(a) \/ RoutesFail(a) \/ Store(a) \/ StoreRaises(a)
    PROVE  ActorsTyped' /\ Walk(a)
<1>1. a \in Busy
  BY DEF Busy, Source, Start, StartFails, Routes, RoutesFail, Store, StoreRaises
<1>2. CASE Source(a)
  <2>1. CASE After(a, "start") /\ UNCHANGED spoiled
    BY <1>1, <1>2, <2>1, AfterWalks, Labels DEF Source
  <2>2. CASE Spoil(a) /\ Leave(a)
    BY <1>1, <1>2, <2>2, LeaveWalks DEF Source, Spoil
  <2> QED BY <1>2, <2>1, <2>2 DEF Source
<1>3. CASE Start(a)
  <2>1. CASE After(a, "routes") /\ UNCHANGED spoiled
    BY <1>1, <1>3, <2>1, AfterWalks, Labels DEF Start
  <2>2. CASE Spoil(a) /\ Leave(a)
    BY <1>1, <1>3, <2>2, LeaveWalks DEF Start, Spoil
  <2> QED BY <1>3, <2>1, <2>2 DEF Start
<1>4. CASE StartFails(a)
  BY <1>1, <1>4, LeaveWalks DEF StartFails, history
<1>5. CASE Routes(a)
  BY <1>1, <1>5, GotoWalks, Labels DEF Routes, history
<1>6. CASE RoutesFail(a)
  BY <1>1, <1>6, LeaveWalks DEF RoutesFail, Spoil
<1>7. CASE Store(a)
  <2>1. spoiled \subseteq spoiled' /\ next' \in {next, next + 1} /\ Leave(a)
    BY <1>7 DEF Store, Spoil
  <2> QED BY <1>1, <2>1, LeaveWalks
<1>8. CASE StoreRaises(a)
  BY <1>1, <1>8, LeaveWalks DEF StoreRaises, history
<1> QED BY <1>2, <1>3, <1>4, <1>5, <1>6, <1>7, <1>8

\* A removal.
LEMMA RemoveWalks ==
    ASSUME TypeOK, NEW a \in Actor,
           Down(a) \/ Rmtree(a) \/ DeleteRow(a) \/ Unroute(a) \/ (a = Reconciler /\ ReapRefused)
    PROVE  ActorsTyped' /\ Walk(a)
<1>1. a \in Busy
  BY DEF Busy, Down, Rmtree, DeleteRow, Unroute, ReapRefused
<1>2. Removed(a) \in {"row", "unroute"}
  BY DEF Removed
<1>3. CASE Down(a)
  <2>1. CASE After(a, Removed(a))
    BY <1>1, <1>2, <1>3, <2>1, AfterWalks, Labels DEF Down, history
  <2>2. CASE After(a, "rmtree")
    BY <1>1, <1>3, <2>2, AfterWalks, Labels DEF Down, history
  <2> QED BY <1>3, <2>1, <2>2 DEF Down
<1>4. CASE Rmtree(a)
  BY <1>1, <1>2, <1>4, AfterWalks, Labels DEF Rmtree, history
<1>5. CASE DeleteRow(a)
  <2>1. CASE Goto(a, "unroute") /\ UNCHANGED <<job, row, gone>>
    BY <1>1, <1>5, <2>1, GotoWalks, Labels DEF DeleteRow
  <2>2. CASE Leave(a)
    BY <1>1, <1>5, <2>2, LeaveWalks DEF DeleteRow
  <2> QED BY <1>5, <2>1, <2>2 DEF DeleteRow
<1>6. CASE Unroute(a)
  <2>0. spoiled \subseteq spoiled'
    BY <1>6 DEF Unroute, Spoil
  <2>1. CASE Goto(a, "row") /\ UNCHANGED <<job, row, gone>>
    BY <1>1, <1>6, <2>0, <2>1, GotoWalks, Labels DEF Unroute
  <2>2. CASE Leave(a)
    BY <1>1, <1>6, <2>0, <2>2, LeaveWalks DEF Unroute
  <2> QED BY <1>6, <2>1, <2>2 DEF Unroute
<1>7. CASE a = Reconciler /\ ReapRefused
  BY <1>1, <1>2, <1>7, GotoWalks, Labels DEF ReapRefused, Spoil
<1> QED BY <1>3, <1>4, <1>5, <1>6, <1>7

\* A start or a stop, and the end of a pass.
LEMMA StateWalks ==
    ASSUME TypeOK, NEW a \in Actor, Call(a) \/ Write(a) \/ (a = Reconciler /\ PassEnds)
    PROVE  ActorsTyped' /\ Walk(a)
<1>1. a \in Busy
  BY DEF Busy, Call, Write, PassEnds
<1>2. CASE Call(a)
  <2>1. CASE After(a, IF a = Reconciler THEN "ends" ELSE "write")
    <3> DEFINE label == IF a = Reconciler THEN "ends" ELSE "write"
    <3>1. label \in Label /\ Kin("call", label)
      BY Labels
    <3> HIDE DEF label
    <3> QED BY <1>1, <1>2, <2>1, <3>1, AfterWalks DEF Call, history, label
  <2>2. CASE Leave(a)
    BY <1>1, <1>2, <2>2, LeaveWalks DEF Call, history
  <2> QED BY <1>2, <2>1, <2>2 DEF Call
<1>3. CASE Write(a)
  BY <1>1, <1>3, LeaveWalks DEF Write, history
<1>4. CASE a = Reconciler /\ PassEnds
  BY <1>1, <1>4, LeaveWalks DEF PassEnds, history
<1> QED BY <1>2, <1>3, <1>4

-----------------------------------------------------------------------------
(* An actor begins, or the reconciler decides what to do about what it saw. *)

\* What is begun where, with which row read.
Fitting(a, j, w, label) ==
    /\ \/ pc[a] = "idle"
       \/ pc[a] = "ps" /\ w = row[a] /\ j.lab = job[a].lab /\ j.op # "deploy"
    /\ \/ j \in Deployment /\ label = "source"
       \/ j \in Other /\ j.op \in {"delete", "reap"} /\ label = "down"
       \/ j \in Other /\ j.op \in {"up", "down"} /\ label = "call"
       \/ j \in Other /\ j.op = "look" /\ label = "ps"
    /\ pc[a] = "idle" => \/ w \in RowsOf(j.lab)
                         \/ j.op = "deploy" /\ w = NoRow /\ RowsOf(j.lab) = {}

Enter(a, j, w, label) ==
    /\ Fitting(a, j, w, label)
    /\ job' = [job EXCEPT ![a] = j]
    /\ row' = [row EXCEPT ![a] = w]
    /\ Goto(a, label)
    /\ spoiled' = spoiled \cup Clash(a, j.op, j.lab)
    /\ \A k \in Lab : /\ answer'[k] \in {answer[k], "unknown"}
                      /\ k = j.lab => answer'[k] = "unknown" \/ j.op = "look"
    /\ UNCHANGED <<rows, labhost, gone, next>>

\* Clashing actors spoil each other's labs.
LEMMA ClashSpoils ==
    ASSUME NEW a \in Actor, NEW op, NEW l, NEW b \in Busy \ {a}, Clashes(op, job[b].op)
    PROVE  l \in Clash(a, op, l) /\ job[b].lab \in Clash(a, op, l)
  BY DEF Clash

\* The actor's job and row, and the others'.
LEMMA EnterIs ==
    ASSUME TypeOK, Actors, NEW a \in Actor, NEW j, NEW w, NEW label, Enter(a, j, w, label)
    PROVE  /\ \A b \in Actor \ {a} : pc'[b] = pc[b] /\ job'[b] = job[b] /\ row'[b] = row[b]
           /\ pc'[a] = label /\ job'[a] = j /\ row'[a] = w
           /\ label \in Label /\ label \in {"source", "down", "call", "ps"}
           /\ j.lab \in Lab /\ j # NoJob /\ w \in RowType \cup {NoRow}
           /\ w # NoRow => w.lab = j.lab
           /\ j.op # "deploy" => w # NoRow
           /\ pc[a] \in {"idle", "ps"} /\ job[a].op \in {"none", "look"}
           /\ spoiled \subseteq spoiled'
           /\ Busy' = Busy \cup {a}
<1>1. /\ \A b \in Actor \ {a} : pc'[b] = pc[b] /\ job'[b] = job[b] /\ row'[b] = row[b]
      /\ pc'[a] = label /\ job'[a] = j /\ row'[a] = w
  BY DEF Enter, TypeOK, Goto
<1>2. label \in Label /\ label \in {"source", "down", "call", "ps"} /\ label # "idle"
  BY DEF Enter, Fitting, Label
<1>3. j.lab \in Lab /\ j # NoJob
  BY NoJobIs DEF Enter, Fitting, Deployment, Other
<1>4. pc[a] \in {"idle", "ps"} /\ job[a].op \in {"none", "look"}
  BY NoJobIs DEF Enter, Fitting, Actors, Placed
<1>5. CASE pc[a] = "idle"
  <2>1. w \in RowsOf(j.lab) \/ (j.op = "deploy" /\ w = NoRow)
    BY <1>5 DEF Enter, Fitting
  <2>2. w \in RowsOf(j.lab) => w \in RowType /\ w.lab = j.lab
    BY DEF TypeOK, RowsOf
  <2>3. w \in RowsOf(j.lab) => w # NoRow
    BY <2>2, RowIs
  <2> QED BY <1>1, <1>2, <1>3, <1>4, <2>1, <2>2, <2>3 DEF Enter, Busy
<1>6. CASE pc[a] = "ps"
  <2>1. w = row[a] /\ j.lab = job[a].lab /\ a \in Busy /\ job[a].op = "look"
    BY <1>6 DEF Enter, Fitting, Busy, Actors, Placed
  <2>2. w \in RowType /\ w # NoRow
    BY <2>1 DEF TypeOK
  <2>3. w.lab = j.lab
    BY <2>1, <2>2 DEF Actors, Placed
  <2> QED BY <1>1, <1>2, <1>3, <1>4, <2>2, <2>3 DEF Enter, Busy
<1> QED BY <1>4, <1>5, <1>6

\* An actor that begins is well typed.
LEMMA EnterTyped ==
    ASSUME TypeOK, Actors, NEW a \in Actor, NEW j, NEW w, NEW label, Enter(a, j, w, label)
    PROVE  ActorsTyped'
<1>1. pc' \in [Actor -> Label]
  BY EnterIs DEF Enter, TypeOK, Goto
<1>2. j \in Deployment \cup Other
  BY DEF Enter, Fitting
<1>3. job' \in [Actor -> Deployment \cup Other \cup {NoJob}]
  BY <1>2 DEF Enter, TypeOK
<1>4. RowType' = RowType
  BY DEF Enter, RowType
<1>5. row' \in [Actor -> RowType' \cup {NoRow}]
  BY <1>4, EnterIs DEF Enter, TypeOK
<1>6. gone' \subseteq Busy'
  <2>1. Busy' = Busy \cup {a}
    BY EnterIs
  <2> QED BY <2>1 DEF Enter, TypeOK
<1>7. \A b \in Busy' : job'[b].op # "deploy" => row'[b] # NoRow
  BY EnterIs DEF TypeOK, Busy
<1> QED BY <1>1, <1>3, <1>5, <1>6, <1>7 DEF ActorsTyped

\* An actor that begins spoils what it clashes with, and reads what others have read.
LEMMA EnterActors ==
    ASSUME TypeOK, Actors, Labs, NEW a \in Actor, NEW j, NEW w, NEW label, Enter(a, j, w, label)
    PROVE  Actors'
<1>1. /\ \A b \in Actor \ {a} : pc'[b] = pc[b] /\ job'[b] = job[b] /\ row'[b] = row[b]
      /\ pc'[a] = label /\ job'[a] = j /\ row'[a] = w
      /\ spoiled \subseteq spoiled' /\ Busy' = Busy \cup {a}
  BY EnterIs
<1>0. gone' = gone
  BY DEF Enter
<1>2. ASSUME NEW b \in Actor PROVE Placed(b)'
  <2>1. Placed(b)
    BY DEF Actors
  <2>2. CASE b # a
    BY <1>0, <1>1, <2>1, <2>2 DEF Placed
  <2>3. CASE b = a
    <3>1. a \in gone => j.lab \in spoiled'
      <4> SUFFICES ASSUME a \in gone PROVE j.lab \in spoiled'
        OBVIOUS
      <4>1. pc[a] # "idle"
        BY DEF TypeOK, Busy
      <4> QED BY <1>1, <2>1, <2>3, <4>1 DEF Placed, Enter, Fitting
    <3>2. j # NoJob /\ (w # NoRow => w.lab = j.lab)
      BY EnterIs
    <3>3. /\ label # "idle"
          /\ label \in DeployPc <=> j.op = "deploy"
          /\ label \in RemovePc <=> j.op \in {"delete", "reap"}
          /\ label \in StatePc <=> j.op \in {"up", "down"}
          /\ label = "ps" <=> j.op = "look"
      BY DEF Enter, Fitting, Deployment, DeployPc, RemovePc, StatePc
    <3> QED BY <1>0, <1>1, <2>3, <3>1, <3>2, <3>3 DEF Placed
  <2> QED BY <2>2, <2>3
<1>3. ASSUME NEW b \in Actor \ {a}, b \in Busy, Clashes(j.op, job[b].op)
      PROVE  j.lab \in spoiled' /\ job[b].lab \in spoiled'
  BY <1>3, ClashSpoils DEF Enter
<1>4. ASSUME NEW b \in Actor, NEW c \in Actor PROVE Met(b, c)'
  <2>1. CASE b # a /\ c # a
    BY <1>1, <2>1 DEF Met, Busy, Clashes, Actors
  <2>2. CASE b = a /\ c # a
    BY <1>1, <1>3, <2>2 DEF Met, Busy, Clashes
  <2>3. CASE b # a /\ c = a
    BY <1>1, <1>3, <2>3 DEF Met, Busy, Clashes
  <2>4. CASE b = c
    BY <2>4 DEF Met
  <2> QED BY <2>1, <2>2, <2>3, <2>4
<1>5. ASSUME NEW b \in Actor \ {a}, b \in Busy, job[b].op # "deploy", j.op # "deploy",
             job[b].lab = j.lab, j.lab \notin spoiled
      PROVE  w.exposed <=> row[b].exposed
  <2>1. CASE pc[a] = "idle"
    <3>1. w \in RowsOf(j.lab)
      BY <1>5, <2>1 DEF Enter, Fitting
    <3> QED BY <1>5, <3>1 DEF Labs, Reading
  <2>2. CASE pc[a] = "ps"
    <3>1. job[a].op = "look" /\ a \in Busy /\ w = row[a] /\ job[a].lab = j.lab
      BY <2>2 DEF Actors, Placed, Busy, Enter, Fitting
    <3> QED BY <1>5, <3>1 DEF Actors, Alike
  <2> QED BY <2>1, <2>2 DEF Enter, Fitting
<1>6. ASSUME NEW b \in Actor, NEW c \in Actor PROVE Alike(b, c)'
  <2>1. CASE b # a /\ c # a
    BY <1>1, <2>1 DEF Alike, Busy, Actors
  <2>2. CASE b = a /\ c # a
    BY <1>1, <1>5, <2>2 DEF Alike, Busy
  <2>3. CASE b # a /\ c = a
    BY <1>1, <1>5, <2>3 DEF Alike, Busy
  <2>4. CASE b = c
    BY <2>4 DEF Alike
  <2> QED BY <2>1, <2>2, <2>3, <2>4
<1> QED BY <1>2, <1>4, <1>6 DEF Actors

\* A beginning takes nothing from what holds of the labs.
LEMMA EnterLabs ==
    ASSUME TypeOK, Actors, Labs, TypeOK', NEW a \in Actor, NEW j, NEW w, NEW label,
           Enter(a, j, w, label)
    PROVE  Labs'
<1>1. /\ \A b \in Actor \ {a} : pc'[b] = pc[b] /\ job'[b] = job[b] /\ row'[b] = row[b]
      /\ pc'[a] = label /\ job'[a] = j /\ row'[a] = w
      /\ spoiled \subseteq spoiled' /\ Busy' = Busy \cup {a}
      /\ label \in {"source", "down", "call", "ps"}
      /\ pc[a] \in {"idle", "ps"} /\ job[a].op \in {"none", "look"}
  BY EnterIs
<1>0. rows' = rows /\ dir' = dir /\ up' = up /\ routed' = routed
  BY DEF Enter, labhost
<1>2. ASSUME NEW b \in Actor \ {a} PROVE Deploying(b)' /\ Reading(b)'
  <2>1. Deploying(b) /\ Reading(b)
    BY DEF Labs
  <2>2. job'[b] = job[b] /\ pc'[b] = pc[b] /\ row'[b] = row[b] /\ (b \in Busy' <=> b \in Busy)
    BY <1>1
  <2>3. Deploying(b)'
    BY <1>0, <1>1, <2>1, <2>2 DEF Deploying, RowsOf, Find
  <2>4. Reading(b)'
    BY <1>0, <1>1, <2>1, <2>2 DEF Reading, RowsOf
  <2> QED BY <2>3, <2>4
<1>3. ASSUME j.op = "deploy", j.lab \notin spoiled' PROVE Deploying(a)'
  <2>1. Busy \subseteq {a}
    BY <1>1, <1>3, ClashSpoils DEF Enter, Clashes, Busy
  <2>2. pc[a] = "idle" /\ label = "source" /\ j.lab \in Lab
    BY <1>3, EnterIs DEF Enter, Fitting, Other
  <2>3. Busy = {}
    BY <2>1, <2>2 DEF Busy
  <2>4. ~Deploys(j.lab) /\ ~Unroutes(j.lab)
    BY <2>3 DEF Deploys, Unroutes, Actors, Placed, Busy, DeployPc
  <2>5. j.lab \in routed => \E v \in RowsOf(j.lab) : v.exposed
    BY <1>1, <1>3, <2>2, <2>4 DEF Labs, Tidy
  <2>6. w \in RowsOf(j.lab) \/ (w = NoRow /\ RowsOf(j.lab) = {})
    BY <2>2 DEF Enter, Fitting
  <2>7. w \in RowsOf(j.lab) => /\ w # NoRow /\ w \in Find(w.pk)
                               /\ \A v \in RowsOf(j.lab) : v = w
    BY RowIs DEF TypeOK, RowsOf, Find
  <2>8. RowsOf(j.lab)' = RowsOf(j.lab) /\ Find(w.pk)' = Find(w.pk)
    BY <1>0 DEF RowsOf, Find
  <2>9. /\ w = NoRow => RowsOf(j.lab) = {}
        /\ w # NoRow => Find(w.pk) # {}
        /\ j.lab \in routed => w # NoRow /\ w.exposed
    BY <2>5, <2>6, <2>7
  <2> QED BY <1>0, <1>1, <2>2, <2>9 DEF Deploying, RowsOf, Find
<1>4. ASSUME j.op # "deploy", j.lab \notin spoiled' PROVE Reading(a)'
  <2>1. \A v \in RowsOf(j.lab) : v.pk = w.pk /\ (v.exposed <=> w.exposed)
    <3>1. CASE pc[a] = "idle"
      <4>1. w \in RowsOf(j.lab)
        BY <1>4, <3>1 DEF Enter, Fitting
      <4>2. \A v \in RowsOf(j.lab) : v = w
        BY <4>1 DEF TypeOK, RowsOf
      <4> QED BY <4>2
    <3>2. CASE pc[a] = "ps"
      <4>1. w = row[a] /\ j.lab = job[a].lab /\ a \in Busy /\ job[a].op = "look"
        BY <3>2 DEF Enter, Fitting, Busy, Actors, Placed
      <4> QED BY <1>1, <1>4, <4>1 DEF Labs, Reading
    <3> QED BY <1>1, <3>1, <3>2
  <2>2. RowsOf(j.lab)' = RowsOf(j.lab)
    BY <1>0 DEF RowsOf
  <2>3. pc'[a] \notin {"unroute", "row", "rmtree"}
    BY <1>1
  <2> QED BY <1>0, <1>1, <2>1, <2>2, <2>3 DEF Reading, RowsOf
<1>5. Deploying(a)' /\ Reading(a)'
  BY <1>1, <1>3, <1>4 DEF Deploying, Reading
<1>6. ASSUME NEW l \in Lab PROVE Tidy(l)' /\ Empty(l)' /\ Answered(l)'
  <2>1. Tidy(l) /\ Empty(l) /\ Answered(l)
    BY DEF Labs
  <2>2. Deploys(l) => Deploys(l)'
    BY <1>1 DEF Deploys
  <2>3. Unroutes(l) => Unroutes(l)'
    BY <1>1 DEF Unroutes
  <2>4. Tidy(l)'
    BY <1>0, <1>1, <2>1, <2>2, <2>3 DEF Tidy, RowsOf
  <2>5. Empty(l)'
    BY <1>0, <1>1, <2>1 DEF Empty
  <2>6. answer'[l] \in {answer[l], "unknown"} /\ (l = j.lab => answer'[l] = "unknown" \/ j.op = "look")
    BY DEF Enter
  <2>7. answer'[l] # "unknown" => \A b \in Busy' : job'[b].lab = l =>
            (b \in Busy /\ job'[b] = job[b]) \/ job'[b].op = "look"
    BY <1>1, <2>6 DEF Busy
  <2>8. Answered(l)'
    BY <1>0, <1>1, <2>1, <2>6, <2>7 DEF Answered, RowsOf
  <2> QED BY <2>4, <2>5, <2>8
<1>7. \A l \in Lab : Good(l)'
  BY <1>2, <1>5, <1>6 DEF Good
<1>8. Actors'
  BY EnterActors
<1> QED BY <1>7, <1>8, AllGood

\* A beginning spoils the clashing labs and forgets the answer of its own.
LEMMA MeetSays ==
    ASSUME TypeOK, NEW a, NEW op, NEW l, Meet(a, op, l)
    PROVE  /\ spoiled' = spoiled \cup Clash(a, op, l)
           /\ \A k \in Lab : /\ answer'[k] \in {answer[k], "unknown"}
                             /\ k = l => answer'[k] = "unknown"
<1>1. spoiled' = spoiled \cup Clash(a, op, l)
  BY DEF Meet
<1>2. \A k \in Lab : answer'[k] = IF k \in {l} \cup Clash(a, op, l) THEN "unknown" ELSE answer[k]
  BY DEF Meet
<1> QED BY <1>1, <1>2

\* A request and a visit of the reconciler begin so.
LEMMA BeginEnters ==
    ASSUME TypeOK, NEW r \in Request, BeginDeploy(r) \/ BeginDelete(r) \/ BeginState(r)
    PROVE  \E j, w, label : Enter(r, j, w, label)
<1>1. UNCHANGED <<rows, labhost, gone, next>>
  BY DEF BeginDeploy, BeginDelete, BeginState
<1>2. ASSUME NEW j, NEW w, NEW label, Begin(r, j, w, label), Fitting(r, j, w, label)
      PROVE  Enter(r, j, w, label)
  <2>1. Meet(r, j.op, j.lab) /\ Goto(r, label)
    BY <1>2 DEF Begin
  <2>2. /\ job' = [job EXCEPT ![r] = j]
        /\ row' = [row EXCEPT ![r] = w]
    BY <1>2 DEF Begin
  <2> QED BY <1>1, <1>2, <2>1, <2>2, MeetSays DEF Enter
<1>3. CASE BeginDeploy(r)
  <2>1. PICK j \in Deployment :
          \/ RowsOf(j.lab) = {} /\ Begin(r, j, NoRow, "source")
          \/ \E w \in RowsOf(j.lab) : Begin(r, j, w, "source")
    BY <1>3 DEF BeginDeploy
  <2>2. j.op = "deploy"
    BY DEF Deployment
  <2>3. CASE RowsOf(j.lab) = {} /\ Begin(r, j, NoRow, "source")
    <3>1. Fitting(r, j, NoRow, "source")
      BY <2>2, <2>3 DEF Fitting, Begin
    <3> QED BY <1>2, <2>3, <3>1
  <2>4. ASSUME NEW w \in RowsOf(j.lab), Begin(r, j, w, "source")
        PROVE  Enter(r, j, w, "source")
    <3>1. Fitting(r, j, w, "source")
      BY <2>4 DEF Fitting, Begin
    <3> QED BY <1>2, <2>4, <3>1
  <2> QED BY <2>1, <2>3, <2>4
<1>4. ASSUME NEW w \in rows, NEW op \in {"delete", "up", "down"},
             NEW label, label = IF op = "delete" THEN "down" ELSE "call",
             Begin(r, [op |-> op, lab |-> w.lab], w, label)
      PROVE  \E j : Enter(r, j, w, label)
  <2>1. PICK j : j = [op |-> op, lab |-> w.lab]
    OBVIOUS
  <2>2. w.lab \in Lab
    BY RowIs DEF TypeOK
  <2>3. j \in Other /\ j.op = op /\ j.lab = w.lab
    BY <2>1, <2>2 DEF Other
  <2>4. w \in RowsOf(j.lab) /\ Begin(r, j, w, label)
    BY <1>4, <2>1, <2>3 DEF RowsOf
  <2>5. Fitting(r, j, w, label)
    BY <1>4, <2>3, <2>4 DEF Fitting, Begin
  <2> QED BY <1>2, <2>4, <2>5
<1>5. CASE BeginDelete(r)
  <2>1. PICK w \in rows : Begin(r, [op |-> "delete", lab |-> w.lab], w, "down")
    BY <1>5 DEF BeginDelete
  <2> QED BY <1>4, <2>1
<1>6. CASE BeginState(r)
  <2>1. PICK w \in rows, op \in {"up", "down"} : Begin(r, [op |-> op, lab |-> w.lab], w, "call")
    BY <1>6 DEF BeginState
  <2> QED BY <1>4, <2>1
<1> QED BY <1>3, <1>5, <1>6

\* A visit begins with a look at a row of the lab.
LEMMA VisitEnters ==
    ASSUME TypeOK, NEW l \in Lab, Visit(l)
    PROVE  \E j, w, label : Enter(Reconciler, j, w, label)
<1>1. PICK w \in RowsOf(l) :
          /\ row' = [row EXCEPT ![Reconciler] = w]
          /\ job' = [job EXCEPT ![Reconciler] = [op |-> "look", lab |-> w.lab]]
          /\ spoiled' = spoiled \cup Clash(Reconciler, "look", w.lab)
  BY DEF Visit
<1>2. PICK j : j = [op |-> "look", lab |-> w.lab]
  OBVIOUS
<1>3. w.lab = l
  BY DEF RowsOf
<1>4. j \in Other /\ j.op = "look" /\ j.lab = l
  BY <1>2, <1>3 DEF Other
<1>5. Fitting(Reconciler, j, w, "ps")
  BY <1>4 DEF Fitting, Visit
<1>6. job' = [job EXCEPT ![Reconciler] = j] /\ spoiled' = spoiled \cup Clash(Reconciler, j.op, j.lab)
  BY <1>1, <1>2, <1>3, <1>4
<1>7. \A k \in Lab : answer'[k] = answer[k]
  BY DEF Visit
<1>8. Goto(Reconciler, "ps") /\ UNCHANGED <<rows, labhost, gone, next>>
  BY DEF Visit
<1>9. Enter(Reconciler, j, w, "ps")
  BY <1>1, <1>4, <1>5, <1>6, <1>7, <1>8 DEF Enter
<1> QED BY <1>9

\* The reconciler leaves a project alone, or does something about it.
LEMMA PsEnters ==
    ASSUME TypeOK, Actors, Ps
    PROVE  \/ Leave(Reconciler) /\ UNCHANGED <<rows, labhost, next, spoiled, answer>>
           \/ \E j, w, label : Enter(Reconciler, j, w, label)
<1> DEFINE a == Reconciler
           w == row[Reconciler]
<1>1. /\ \/ \E op \in {"reap", "up", "down"}, label \in {"down", "call"} :
              /\ Becomes(op, label) /\ UNCHANGED <<row, gone>>
              /\ label = IF op = "reap" THEN "down" ELSE "call"
         \/ Leave(a) /\ UNCHANGED <<spoiled, answer>>
      /\ pc[a] = "ps" /\ UNCHANGED <<rows, labhost, next>>
  BY DEF Ps
<1>2. SUFFICES ASSUME NEW op \in {"reap", "up", "down"}, NEW label \in {"down", "call"},
                      label = IF op = "reap" THEN "down" ELSE "call",
                      Becomes(op, label), UNCHANGED <<row, gone>>
               PROVE  \E j : Enter(a, j, w, label)
  BY <1>1
<1>3. a \in Actor /\ a \in Busy /\ job[a].op = "look"
  BY <1>1 DEF Actor, Busy, Actors, Placed
<1>4. job[a] \in Other /\ w \in RowType /\ job[a].lab \in Lab
  BY <1>3, JobIs
<1>5. w # NoRow /\ w.lab = job[a].lab
  BY <1>3, <1>4, RowIs DEF Actors, Placed
<1>6. PICK j : j = [op |-> op, lab |-> job[a].lab]
  OBVIOUS
<1>7. j \in Other /\ j.op = op /\ j.lab = job[a].lab
  BY <1>4, <1>6 DEF Other
<1>8. [job[a] EXCEPT !.op = op] = j
  BY <1>4, <1>6 DEF Other
<1>9. job' = [job EXCEPT ![a] = j]
  BY <1>2, <1>3, <1>8 DEF Becomes, TypeOK
<1>10. row' = [row EXCEPT ![a] = w]
  BY <1>2, <1>3 DEF TypeOK
<1>11. Goto(a, label) /\ Meet(a, j.op, j.lab)
  BY <1>2, <1>5, <1>7 DEF Becomes
<1>12. Fitting(a, j, w, label)
  BY <1>1, <1>2, <1>7 DEF Fitting
<1>13. UNCHANGED <<rows, labhost, gone, next>>
  BY <1>1, <1>2
<1>14. Enter(a, j, w, label)
  BY <1>9, <1>10, <1>11, <1>12, <1>13, MeetSays DEF Enter
<1> QED BY <1>14

-----------------------------------------------------------------------------
(* What the steps do to the labs, action by action.                        *)

\* A fault spoils one lab and forgets its answer.
LEMMA SpoilSays ==
    ASSUME TypeOK, NEW a \in Actor, job[a].lab \in Lab, Spoil(a)
    PROVE  /\ job[a].lab \in spoiled' /\ spoiled \subseteq spoiled'
           /\ \A k \in Lab : answer'[k] = IF k = job[a].lab THEN "unknown" ELSE answer[k]
  BY DEF TypeOK, Spoil

\* An answer is noted for one lab, unless that is spoiled.
LEMMA AnswerSays ==
    ASSUME TypeOK, NEW a \in Actor, job[a].lab \in Lab, NEW what, Answer(a, what)
    PROVE  \A k \in Lab :
               answer'[k] = IF k = job[a].lab /\ k \notin spoiled THEN what ELSE answer[k]
  BY DEF TypeOK, Answer

\* A step for a spoiled lab that leaves the rows.
LEMMA FaultHolds ==
    ASSUME TypeOK, Actors, Labs, TypeOK', NEW a \in Actor, Walk(a), rows' = rows,
           Spoil(a) \/ (job[a].lab \in spoiled' /\ answer' = answer),
           \/ routed' \in {routed, routed \ {job[a].lab}}
           \/ job[a].op = "deploy" /\ routed' = routed \cup {job[a].lab},
           job[a].op # "look"
    PROVE  Labs'
<1>1. PICK l : l = job[a].lab
  OBVIOUS
<1>2. l \in Lab
  BY <1>1, JobIs DEF Walk
<1>3. l \in spoiled' /\ \A k \in Lab : answer'[k] = answer[k] \/ (k = l /\ answer'[k] = "unknown")
  BY <1>1, <1>2, SpoilSays
<1>4. \A k \in Lab \ {l} : SameRows(k) /\ (k \in routed' <=> k \in routed)
  BY <1>1, RowsKept
<1>5. Framed(a)
  BY <1>1, <1>3, <1>4 DEF Framed
<1>6. job[a].op # "deploy" => (l \in routed' => l \in routed)
  OBVIOUS
<1>7. RowsOf(l)' = RowsOf(l)
  BY DEF RowsOf
<1> QED BY <1>1, <1>2, <1>3, <1>5, <1>6, <1>7, SpoiledHolds

\* A call that is refused.
LEMMA RefusedHolds ==
    ASSUME TypeOK, Actors, Labs, TypeOK', NEW a \in Actor, Refused(a)
    PROVE  Labs'
<1>1. Walk(a)
  BY RefusedWalks
<1>2. job[a].op # "look"
  BY DEF Refused, Actors, Placed
<1> QED BY <1>1, <1>2, FaultHolds DEF Refused, labhost

\* A caller that gives up.
LEMMA GiveUpHolds ==
    ASSUME TypeOK, Actors, Labs, TypeOK', NEW a \in Actor, GiveUp(a)
    PROVE  Labs'
<1>1. Walk(a)
  BY GiveUpWalks
<1>2. job[a].op # "look"
  BY DEF GiveUp, Actors, Placed
<1> QED BY <1>1, <1>2, FaultHolds DEF GiveUp, labhost

\* An actor nobody waits for has a spoiled lab.
LEMMA GoneSpoiled ==
    ASSUME Actors, NEW a \in Actor, job[a].lab \notin spoiled
    PROVE  a \notin gone
  BY DEF Actors, Placed

\* A deployment but for its last step.
LEMMA DeployingHolds ==
    ASSUME TypeOK, Actors, Labs, TypeOK', NEW a \in Actor,
           Source(a) \/ Start(a) \/ StartFails(a) \/ Routes(a) \/ RoutesFail(a) \/ StoreRaises(a)
    PROVE  Labs'
<1>1. Walk(a)
  BY DeployWalks
<1>2. job[a].op = "deploy" /\ a \in Busy
  BY DEF Source, Start, StartFails, Routes, RoutesFail, StoreRaises, Actors, Placed, DeployPc, Busy
<1>3. rows' = rows
  BY DEF Source, Start, StartFails, Routes, RoutesFail, StoreRaises
<1>4. PICK l : l = job[a].lab
  OBVIOUS
<1>5. l \in Lab
  BY <1>2, <1>4, JobIs
<1>6. Spoil(a) \/ (spoiled' = spoiled /\ answer' = answer)
  BY DEF Source, Start, StartFails, Routes, RoutesFail, StoreRaises, history
<1>7. routed' \in {routed, routed \ {l}, routed \cup {l}}
  BY <1>4 DEF Source, Start, StartFails, Routes, RoutesFail, StoreRaises, labhost
<1>8. CASE Spoil(a) \/ l \in spoiled
  BY <1>1, <1>2, <1>3, <1>4, <1>6, <1>7, <1>8, FaultHolds
<1>9. CASE ~Spoil(a) /\ l \notin spoiled
  <2>1. spoiled' = spoiled /\ answer' = answer /\ a \notin gone
    BY <1>4, <1>6, <1>9, GoneSpoiled
  <2>2. Deploying(a)
    BY DEF Labs
  <2>3. Framed(a)
    BY <1>3, <1>4, <1>7, <2>1, RowsKept DEF Framed
  <2>5. ASSUME pc[a] \in {"source", "start", "routes"}, pc'[a] \in {"start", "routes", "store"},
               job' = job, row' = row, dir' = "ready",
               routed' = IF pc[a] = "routes" /\ job[a].exposed THEN routed \cup {l} ELSE routed,
               pc'[a] = "store" <=> pc[a] = "routes"
        PROVE  Labs'
    <3>1. /\ row[a] = NoRow => RowsOf(l) = {}
          /\ row[a] # NoRow => Find(row[a].pk) # {}
          /\ l \in routed => row[a] # NoRow /\ row[a].exposed
      BY <1>2, <1>4, <1>9, <2>2, <2>5 DEF Deploying
    <3>2. l \in routed' => \/ row'[a] # NoRow /\ row'[a].exposed
                           \/ pc'[a] = "store" /\ job'[a].exposed
      BY <2>5, <3>1
    <3>3. pc'[a] = "store" /\ job'[a].exposed => l \in routed'
      BY <2>5
    <3>4. Deploying(a)'
      BY <1>3, <1>4, <2>5, <3>1, <3>2, <3>3 DEF Deploying, RowsOf, Find
    <3> QED BY <1>1, <1>2, <1>4, <1>9, <2>1, <2>3, <2>5, <3>4, DeployHolds
  <2>6. CASE Source(a)
    <3>1. dir' = "ready" /\ After(a, "start") /\ pc[a] = "source" /\ routed' = routed
      BY <1>9, <2>6 DEF Source
    <3>2. pc'[a] = "start" /\ job' = job /\ row' = row
      BY <1>2, <2>1, <2>6, <3>1, AfterWalks, Labels DEF Source
    <3> QED BY <2>5, <3>1, <3>2
  <2>7. CASE Start(a)
    <3>1. dir' = "ready" /\ After(a, "routes") /\ pc[a] = "start" /\ routed' = routed
      BY <1>9, <2>7 DEF Start
    <3>2. pc'[a] = "routes" /\ job' = job /\ row' = row
      BY <1>2, <2>1, <2>7, <3>1, AfterWalks, Labels DEF Start
    <3> QED BY <2>5, <3>1, <3>2
  <2>8. CASE StartFails(a)
    BY <1>2, <1>4, <1>9, <2>2, <2>8 DEF StartFails, Deploying
  <2>9. CASE Routes(a)
    <3>1. dir' = dir /\ pc[a] = "routes" /\ routed' = IF job[a].exposed THEN routed \cup {l} ELSE routed
      BY <1>4, <2>9 DEF Routes
    <3>2. dir = "ready"
      BY <1>2, <1>4, <1>9, <2>2, <3>1 DEF Deploying
    <3>3. pc'[a] = "store" /\ job' = job /\ row' = row
      BY <2>9 DEF Routes, Goto, TypeOK
    <3> QED BY <2>5, <3>1, <3>2, <3>3
  <2>10. CASE RoutesFail(a)
    BY <1>9, <2>10 DEF RoutesFail
  <2>11. CASE StoreRaises(a)
    BY <1>2, <1>4, <1>9, <2>2, <2>11 DEF StoreRaises, Deploying
  <2> QED BY <2>6, <2>7, <2>8, <2>9, <2>10, <2>11
<1> QED BY <1>8, <1>9

\* What a deployment stores: its lab's row is the one it stored.
LEMMA StoredRow ==
    ASSUME TypeOK, Fresh, Actors, NEW a \in Actor, Store(a), NEW l, l = job[a].lab
    PROVE  /\ \E n \in rows' : /\ n.lab = l /\ (n.exposed <=> job[a].exposed)
                               /\ n.pk = IF row[a] = NoRow THEN next ELSE row[a].pk
                               /\ \A w \in rows' : w.lab = l => w = n
                               /\ \A w \in rows' : w # n => w \in rows /\ w.pk # n.pk
                               /\ n \in RowType'
           /\ \A w \in rows : w.lab # l => w \in rows'
<1>1. a \in Busy /\ job[a].op = "deploy"
  BY DEF Store, Busy, Actors, Placed, DeployPc
<1>2. job[a] \in Deployment /\ l \in Lab
  BY <1>1, JobIs
<1>3. PICK pk : pk = IF row[a] = NoRow THEN next ELSE row[a].pk
  OBVIOUS
<1>4. PICK new : new = [pk |-> pk, lab |-> l, state |-> "RUNNING", life |-> job[a].life,
                        exposed |-> job[a].exposed, expired |-> FALSE]
  OBVIOUS
<1>5. job[a].life \in Life /\ job[a].exposed \in BOOLEAN
  BY <1>2 DEF Deployment
<1>6. \A w \in rows : w.pk \in 1..next /\ w.pk < next /\ w.expired \in BOOLEAN
  BY RowIs DEF TypeOK, Fresh
<1>7. CASE row[a] = NoRow
  <2>1. RowsOf(l) = {} /\ rows' = rows \cup {new} /\ next' = next + 1
    BY <1>3, <1>4, <1>7 DEF Store
  <2>2. next \in Nat /\ pk = next /\ pk \in 1..next'
    BY <1>3, <1>7, <2>1 DEF TypeOK
  <2>3. new \in RowType' /\ new.lab = l /\ new.exposed = job[a].exposed /\ new.pk = next
    BY <1>2, <1>4, <1>5, <2>2 DEF RowType
  <2>4. \A w \in rows : w.lab # l /\ w.pk # next
    BY <1>6, <2>1, <2>2 DEF RowsOf
  <2> QED BY <1>7, <2>1, <2>3, <2>4
<1>8. CASE row[a] # NoRow
  <2>1. /\ Find(pk) # {} /\ next' = next
        /\ rows' = (rows \ Find(pk)) \cup {[new EXCEPT !.expired = w.expired] : w \in Find(pk)}
    BY <1>3, <1>4, <1>8 DEF Store
  <2>2. PICK w \in rows : w.pk = pk
    BY <2>1 DEF Find
  <2>3. Find(pk) = {w}
    BY <2>2 DEF Find, Fresh
  <2>4. w.lab = l
    BY <1>3, <1>8, <2>2 DEF Fresh, Actors, Placed
  <2>5. PICK n : n = [pk |-> pk, lab |-> l, state |-> "RUNNING", life |-> job[a].life,
                      exposed |-> job[a].exposed, expired |-> w.expired]
    OBVIOUS
  <2>6. [new EXCEPT !.expired = w.expired] = n
    BY <1>4, <2>5
  <2>7. rows' = (rows \ {w}) \cup {n}
    BY <2>1, <2>3, <2>6
  <2>8. n \in RowType' /\ n.lab = l /\ n.exposed = job[a].exposed /\ n.pk = row[a].pk
    BY <1>2, <1>3, <1>5, <1>6, <1>8, <2>1, <2>2, <2>5 DEF RowType
  <2>9. \A v \in rows : v # w => v.lab # l /\ v.pk # pk
    BY <2>2, <2>4 DEF TypeOK, Fresh
  <2> QED BY <1>3, <1>8, <2>4, <2>7, <2>8, <2>9
<1> QED BY <1>7, <1>8

\* A deployment ends: unspoiled, with a row that says of routes what was set.
LEMMA StoreHolds ==
    ASSUME TypeOK, Fresh, Actors, Labs, TypeOK', NEW a \in Actor, Store(a)
    PROVE  Labs'
<1>1. Walk(a)
  BY DeployWalks
<1>2. job[a].op = "deploy" /\ a \in Busy /\ pc[a] = "store"
  BY DEF Store, Actors, Placed, DeployPc, Busy
<1>3. PICK l : l = job[a].lab
  OBVIOUS
<1>4. l \in Lab
  BY <1>2, <1>3, JobIs
<1>5. PICK n \in rows' : /\ n.lab = l /\ (n.exposed <=> job[a].exposed)
                         /\ \A w \in rows' : w.lab = l => w = n
                         /\ \A w \in rows' : w # n => w \in rows
  BY <1>3, StoredRow
<1>6. \A w \in rows : w.lab # l => w \in rows'
  BY <1>3, StoredRow
<1>7. \A k \in Lab \ {l} : SameRows(k)
  BY <1>5, <1>6 DEF SameRows, RowsOf
<1>8. UNCHANGED <<dir, up, routed>>
  BY DEF Store, labhost
<1>9. CASE row[a] # NoRow /\ row[a].exposed /\ ~job[a].exposed
  <2>1. Spoil(a)
    BY <1>9 DEF Store
  <2>2. l \in spoiled' /\ \A k \in Lab : answer'[k] = IF k = l THEN "unknown" ELSE answer[k]
    BY <1>3, <1>4, <2>1, SpoilSays
  <2>3. Framed(a)
    BY <1>3, <1>7, <1>8, <2>2 DEF Framed
  <2> QED BY <1>1, <1>2, <1>3, <1>4, <2>2, <2>3, SpoiledHolds
<1>10. CASE ~(row[a] # NoRow /\ row[a].exposed /\ ~job[a].exposed)
  <2>1. Answer(a, "deployed") /\ spoiled' = spoiled
    BY <1>10 DEF Store
  <2>2. \A k \in Lab : answer'[k] = IF k = l /\ k \notin spoiled THEN "deployed" ELSE answer[k]
    BY <1>3, <1>4, <2>1, AnswerSays
  <2>3. Framed(a)
    BY <1>3, <1>7, <1>8, <2>2 DEF Framed
  <2>4. CASE l \in spoiled
    BY <1>1, <1>2, <1>3, <1>4, <2>1, <2>2, <2>3, <2>4, SpoiledHolds
  <2>5. CASE l \notin spoiled
    <3>1. Deploying(a)
      BY DEF Labs
    <3>2. /\ dir = "ready"
          /\ l \in routed => (row[a] # NoRow /\ row[a].exposed) \/ job[a].exposed
          /\ job[a].exposed => l \in routed
      BY <1>2, <1>3, <2>5, <3>1 DEF Deploying
    <3>3. l \in routed <=> n.exposed
      BY <1>5, <1>10, <3>2
    <3>4. \A b \in Busy : b = a
      BY <1>2, <1>3, <2>5, DeployAlone DEF Busy
    <3>5. pc'[a] = "idle"
      BY DEF Store, Leave, Goto, TypeOK
    <3>6. Busy' = {}
      BY <1>1, <3>4, <3>5 DEF Walk, Busy
    <3>7. \A b \in Actor : job'[b].op # "deploy"
      BY <1>1, <3>6, WalkActors DEF Actors, Placed, Busy, DeployPc
    <3>8. n \in RowsOf(l)'
      BY <1>5 DEF RowsOf
    <3>9. Tidy(l)'
      BY <1>8, <3>3, <3>8 DEF Tidy
    <3>10. Empty(l)'
      BY <1>8, <3>2 DEF Empty
    <3>11. Answered(l)'
      BY <1>4, <1>8, <2>2, <2>5, <3>2, <3>3, <3>6, <3>8 DEF Answered
    <3>12. \A b \in Actor : Deploying(b)' /\ Reading(b)'
      BY <3>6, <3>7 DEF Deploying, Reading
    <3>13. \A k \in Lab : Good(k)'
      BY <1>1, <1>3, <2>3, <3>9, <3>10, <3>11, <3>12, OthersGood DEF Good
    <3>14. Actors'
      BY <1>1, WalkActors
    <3> QED BY <3>13, <3>14, AllGood
  <2> QED BY <2>4, <2>5
<1> QED BY <1>9, <1>10

\* Before and after a step of a removal that met nobody clashing.
LEMMA RemovalIs ==
    ASSUME TypeOK, Actors, Labs, NEW a \in Actor, Walk(a), NEW l, l = job[a].lab,
           job[a].op \in {"delete", "reap"}, l \notin spoiled
    PROVE  /\ a \in Busy /\ l \in Lab /\ a \notin gone /\ answer[l] # "deployed"
           /\ \A b \in Busy : job[b].lab = l => job[b].op \in {"delete", "reap", "down", "look"}
           /\ \A b \in Actor : b \in Busy' => b \in Busy /\ job'[b] = job[b] /\ row'[b] = row[b]
           /\ \A b \in Actor \ {a} : pc'[b] = pc[b]
           /\ ~Deploys(l)
           /\ \A w \in RowsOf(l) : w.pk = row[a].pk /\ (w.exposed <=> row[a].exposed)
           /\ Tidy(l) /\ Empty(l) /\ Answered(l)
<1>1. a \in Busy /\ l \in Lab /\ a \notin gone
  BY JobIs, GoneSpoiled DEF Walk
<1>2. \A b \in Actor : job[b].op # "deploy"
  BY <1>1, NoDeploy
<1>3. Tidy(l) /\ Empty(l) /\ Answered(l) /\ Reading(a)
  BY <1>1 DEF Labs
<1>4. ASSUME NEW b \in Busy, job[b].lab = l PROVE job[b].op \in {"delete", "reap", "down", "look"}
  <2>1. job[b].op \in {"deploy", "delete", "up", "down", "look", "reap"} /\ b \in Actor
    BY JobIs DEF Busy
  <2>2. job[b].op = "up" => Clashes(job[a].op, job[b].op)
    BY DEF Clashes
  <2>3. job[b].op # "up"
    BY <1>1, <2>1, <2>2 DEF Actors, Met
  <2> QED BY <1>2, <2>1, <2>3
<1>5. ~Deploys(l)
  BY <1>2 DEF Deploys
<1>6. /\ \A b \in Actor : b \in Busy' => b \in Busy /\ job'[b] = job[b] /\ row'[b] = row[b]
      /\ \A b \in Actor \ {a} : pc'[b] = pc[b]
  BY DEF Walk, Busy
<1>7. answer[l] # "deployed"
  BY <1>1, <1>3 DEF Answered
<1>8. \A w \in RowsOf(l) : w.pk = row[a].pk /\ (w.exposed <=> row[a].exposed)
  BY <1>1, <1>3 DEF Reading
<1> QED BY <1>1, <1>3, <1>4, <1>5, <1>6, <1>7, <1>8

\* What a removal step is to show: that the rows and the route of its lab only go,
\* as do its directory and containers, and where its actor is then.
LEMMA RemovalHolds ==
    ASSUME TypeOK, Actors, Labs, TypeOK', NEW a \in Actor, Walk(a), Framed(a),
           NEW l, l = job[a].lab, job[a].op \in {"delete", "reap"}, l \notin spoiled,
           spoiled' = spoiled,
           RowsOf(l)' \subseteq RowsOf(l), l \in routed' => l \in routed,
           dir' \in {dir, "none"}, up' \in {up, "none"},
           Lab = {l} /\ dir' = "none" => up' = "none",
           Lab = {l} /\ RowsOf(l)' = {} => dir' = "none",
           l \in routed' => (\E w \in RowsOf(l)' : w.exposed) \/ Unroutes(l)',
           a \in Busy' =>
             /\ job[a].op = "delete" /\ pc'[a] = "unroute" => row[a].exposed /\ RowsOf(l)' = {}
             /\ job[a].op = "reap" /\ pc'[a] = "row" /\ row[a].exposed => l \notin routed'
             /\ Lab = {l} => /\ pc'[a] = "rmtree" => up' = "none"
                             /\ pc'[a] \in {"row", "unroute"} => dir' = "none" /\ up' = "none",
           answer'[l] = answer[l] \/ (answer'[l] = "removed" /\ RowsOf(l)' = {} /\ l \notin routed')
    PROVE  Labs'
<1>1. /\ a \in Busy /\ l \in Lab /\ answer[l] # "deployed"
      /\ \A b \in Busy : job[b].lab = l => job[b].op \in {"delete", "reap", "down", "look"}
      /\ \A b \in Actor : b \in Busy' => b \in Busy /\ job'[b] = job[b] /\ row'[b] = row[b]
      /\ \A b \in Actor \ {a} : pc'[b] = pc[b]
      /\ \A w \in RowsOf(l) : w.pk = row[a].pk /\ (w.exposed <=> row[a].exposed)
      /\ Answered(l)
  BY RemovalIs
<1>2. ASSUME NEW b \in Actor, job[b].lab = l, b \in Busy' PROVE Reading(b)'
  <2>1. b \in Busy /\ job'[b] = job[b] /\ row'[b] = row[b]
    BY <1>1, <1>2
  <2>2. Reading(b) /\ job[b].op # "deploy"
    BY <1>1, <1>2, <2>1 DEF Labs
  <2>3. \A w \in RowsOf(l)' : w.pk = row[b].pk /\ (w.exposed <=> row[b].exposed)
    BY <1>2, <2>1, <2>2 DEF Reading
  <2>4. CASE b = a
    BY <1>2, <2>1, <2>3, <2>4 DEF Reading
  <2>5. CASE b # a
    BY <1>1, <1>2, <2>1, <2>2, <2>3, <2>5 DEF Reading
  <2> QED BY <2>4, <2>5
<1>3. Tidy(l)'
  BY DEF Tidy
<1>4. Empty(l)'
  BY DEF Empty
<1>5. Answered(l)'
  <2>1. \A b \in Busy' : job'[b].lab = l => job'[b].op \in {"delete", "reap", "down", "look"}
    BY <1>1 DEF Busy
  <2>2. answer'[l] # "deployed"
    BY <1>1
  <2>3. answer'[l] = "removed" => RowsOf(l)' = {} /\ l \notin routed'
    BY <1>1 DEF Answered
  <2> QED BY <2>1, <2>2, <2>3 DEF Answered
<1> QED BY <1>2, <1>3, <1>4, <1>5, OtherHolds

\* A removal takes the containers down.
LEMMA DownHolds ==
    ASSUME TypeOK, Actors, Labs, TypeOK', NEW a \in Actor, Down(a)
    PROVE  Labs'
<1>1. Walk(a)
  BY RemoveWalks
<1>2. job[a].op \in {"delete", "reap"} /\ a \in Busy
  BY DEF Down, Busy, Actors, Placed, RemovePc
<1>3. PICK l : l = job[a].lab
  OBVIOUS
<1>4. l \in Lab
  BY <1>2, <1>3, JobIs
<1>5. rows' = rows /\ dir' = dir /\ routed' = routed /\ spoiled' = spoiled /\ answer' = answer
  BY DEF Down, history
<1>6. CASE l \in spoiled
  BY <1>1, <1>2, <1>3, <1>5, <1>6, FaultHolds
<1>7. CASE l \notin spoiled
  <2>1. Framed(a)
    BY <1>5, RowsKept DEF Framed
  <2>2. ~Deploys(l) /\ Tidy(l) /\ Empty(l) /\ a \notin gone
    BY <1>1, <1>2, <1>3, <1>7, RemovalIs
  <2>3. RowsOf(l)' = RowsOf(l)
    BY <1>5 DEF RowsOf
  <2>4. l \in routed' => (\E w \in RowsOf(l)' : w.exposed) \/ Unroutes(l)'
    <3>1. \A b \in Actor : job[b].op = "delete" /\ pc[b] = "unroute" =>
                               b # a /\ pc'[b] = pc[b] /\ job'[b] = job[b]
      BY <1>1 DEF Walk, Down
    <3>2. Unroutes(l) => Unroutes(l)'
      BY <3>1 DEF Unroutes
    <3> QED BY <1>5, <1>7, <2>2, <2>3, <3>2 DEF Tidy
  <2>5. Lab = {l} /\ RowsOf(l)' = {} => dir' = "none"
    BY <1>5, <1>7, <2>2, <2>3 DEF Tidy
  <2>6. CASE dir = "none" /\ up' = up /\ After(a, Removed(a))
    <3>1. pc'[a] = Removed(a) /\ Removed(a) \in {"row", "unroute"}
      <4>1. Removed(a) \in {"row", "unroute"}
        BY DEF Removed
      <4>2. Removed(a) \in Label /\ Kin(pc[a], Removed(a)) /\ next' = next
        BY <4>1, Labels DEF Down
      <4> QED BY <1>2, <1>5, <2>2, <2>6, <4>1, <4>2, AfterWalks
    <3>2. /\ job[a].op = "delete" => pc'[a] = "row"
          /\ job[a].op = "reap" /\ row[a].exposed => pc'[a] = "unroute"
      BY <3>1 DEF Removed
    <3>3. Lab = {l} => dir' = "none" /\ up' = "none"
      BY <1>5, <1>7, <2>2, <2>6 DEF Empty
    <3>4. up' = up /\ pc'[a] \in {"row", "unroute"}
      BY <2>6, <3>1
    <3> QED BY <1>1, <1>2, <1>3, <1>5, <1>7, <2>1, <2>3, <2>4, <2>5, <3>2, <3>3, <3>4, RemovalHolds
  <2>7. CASE dir # "none" /\ up' = "none" /\ After(a, "rmtree")
    <3>1. pc'[a] = "rmtree"
      <4>1. Kin(pc[a], "rmtree") /\ next' = next /\ "rmtree" \in Label
        BY Labels DEF Down
      <4> QED BY <1>2, <1>5, <2>2, <2>7, <4>1, AfterWalks
    <3> QED BY <1>1, <1>2, <1>3, <1>5, <1>7, <2>1, <2>3, <2>4, <2>5, <2>7, <3>1, RemovalHolds
  <2> QED BY <2>6, <2>7 DEF Down
<1> QED BY <1>6, <1>7

\* A removal takes the directory, whose containers are down by then.
LEMMA RmtreeHolds ==
    ASSUME TypeOK, Actors, Labs, TypeOK', NEW a \in Actor, Rmtree(a)
    PROVE  Labs'
<1>1. Walk(a)
  BY RemoveWalks
<1>2. job[a].op \in {"delete", "reap"} /\ a \in Busy
  BY DEF Rmtree, Busy, Actors, Placed, RemovePc
<1>3. PICK l : l = job[a].lab
  OBVIOUS
<1>4. l \in Lab
  BY <1>2, <1>3, JobIs
<1>5. /\ rows' = rows /\ dir' = "none" /\ up' = up /\ routed' = routed
      /\ spoiled' = spoiled /\ answer' = answer
  BY DEF Rmtree, history
<1>6. CASE l \in spoiled
  BY <1>1, <1>2, <1>3, <1>5, <1>6, FaultHolds
<1>7. CASE l \notin spoiled
  <2>1. Framed(a)
    BY <1>5, RowsKept DEF Framed
  <2>2. ~Deploys(l) /\ Tidy(l) /\ a \notin gone
    BY <1>1, <1>2, <1>3, <1>7, RemovalIs
  <2>3. RowsOf(l)' = RowsOf(l)
    BY <1>5 DEF RowsOf
  <2>4. l \in routed' => (\E w \in RowsOf(l)' : w.exposed) \/ Unroutes(l)'
    <3>1. \A b \in Actor : job[b].op = "delete" /\ pc[b] = "unroute" =>
                               b # a /\ pc'[b] = pc[b] /\ job'[b] = job[b]
      BY <1>1 DEF Walk, Rmtree
    <3>2. Unroutes(l) => Unroutes(l)'
      BY <3>1 DEF Unroutes
    <3> QED BY <1>5, <1>7, <2>2, <2>3, <3>2 DEF Tidy
  <2>5. Lab = {l} => up = "none"
    BY <1>2, <1>3, <1>7 DEF Labs, Reading, Rmtree
  <2>6. pc'[a] = Removed(a) /\ Removed(a) \in {"row", "unroute"}
    <3>1. Removed(a) \in {"row", "unroute"}
      BY DEF Removed
    <3>2. Removed(a) \in Label /\ Kin(pc[a], Removed(a)) /\ next' = next /\ After(a, Removed(a))
      BY <3>1, Labels DEF Rmtree
    <3> QED BY <1>2, <1>5, <2>2, <3>1, <3>2, AfterWalks
  <2>7. /\ job[a].op = "delete" => pc'[a] = "row"
        /\ job[a].op = "reap" /\ row[a].exposed => pc'[a] = "unroute"
    BY <2>6 DEF Removed
  <2> QED BY <1>1, <1>2, <1>3, <1>5, <1>7, <2>1, <2>3, <2>4, <2>5, <2>7, RemovalHolds
<1> QED BY <1>6, <1>7

\* A key belongs to one lab, so that deleting a row deletes none of another lab.
LEMMA DeletedRow ==
    ASSUME TypeOK, Fresh, Actors, NEW a \in Actor, a \in Busy, job[a].op # "deploy",
           NEW l, l = job[a].lab, rows' = rows \ Find(row[a].pk)
    PROVE  (\A k \in Lab \ {l} : SameRows(k)) /\ RowsOf(l)' \subseteq RowsOf(l)
<1>1. row[a] # NoRow /\ row[a].lab = l
  BY DEF TypeOK, Actors, Placed
<1>2. \A w \in rows : w.pk = row[a].pk => w.lab = l
  BY <1>1 DEF Fresh
<1>3. \A w \in rows : w.lab # l => w \in rows'
  BY <1>2 DEF Find
<1> QED BY <1>3 DEF SameRows, RowsOf

\* A removal deletes the row; whoever read an exposed one takes the route.
LEMMA DeleteRowHolds ==
    ASSUME TypeOK, Fresh, Actors, Labs, TypeOK', NEW a \in Actor, DeleteRow(a)
    PROVE  Labs'
<1>1. Walk(a)
  BY RemoveWalks
<1>2. job[a].op \in {"delete", "reap"} /\ a \in Busy /\ pc[a] = "row"
  BY DEF DeleteRow, Busy, Actors, Placed, RemovePc
<1>3. PICK l : l = job[a].lab
  OBVIOUS
<1>4. l \in Lab
  BY <1>2, <1>3, JobIs
<1>5. /\ rows' = rows \ Find(row[a].pk)
      /\ dir' = dir /\ up' = up /\ routed' = routed /\ spoiled' = spoiled
  BY DEF DeleteRow, labhost
<1>6. (\A k \in Lab \ {l} : SameRows(k)) /\ RowsOf(l)' \subseteq RowsOf(l)
  BY <1>2, <1>3, <1>5, DeletedRow
<1>7. \A k \in Lab : answer'[k] = answer[k] \/ (k = l /\ k \notin spoiled /\ answer'[k] = "removed")
  <2>1. answer' = answer \/ Answer(a, "removed")
    BY DEF DeleteRow
  <2> QED BY <1>3, <1>4, <2>1, AnswerSays
<1>8. Framed(a)
  BY <1>3, <1>5, <1>6, <1>7 DEF Framed
<1>9. CASE l \in spoiled
  BY <1>1, <1>2, <1>3, <1>4, <1>5, <1>6, <1>7, <1>8, <1>9, SpoiledHolds
<1>10. CASE l \notin spoiled
  <2>1. /\ ~Deploys(l) /\ Tidy(l) /\ Empty(l)
        /\ \A w \in RowsOf(l) : w.pk = row[a].pk /\ (w.exposed <=> row[a].exposed)
        /\ \A b \in Busy : job[b].lab = l => job[b].op \in {"delete", "reap", "down", "look"}
    BY <1>1, <1>2, <1>3, <1>10, RemovalIs
  <2>2. RowsOf(l)' = {}
    <3>1. RowsOf(l) \subseteq Find(row[a].pk)
      BY <2>1 DEF RowsOf, Find
    <3> QED BY <1>5, <3>1 DEF RowsOf
  <2>3. /\ job[a].op = "reap" /\ row[a].exposed => l \notin routed
        /\ Lab = {l} => dir = "none" /\ up = "none"
    BY <1>2, <1>3, <1>10 DEF Labs, Reading
  <2>4. ASSUME NEW b \in Actor, job[b].op = "delete", pc[b] = "unroute", job[b].lab = l
        PROVE  b # a /\ b \in Busy /\ pc'[b] = pc[b] /\ job'[b] = job[b] /\ row[a].exposed
    <3>1. b # a /\ b \in Busy
      BY <1>2, <2>4 DEF Busy
    <3>2. row[b].exposed
      BY <1>10, <2>4, <3>1 DEF Labs, Reading
    <3>3. row[a].exposed
      BY <1>2, <1>3, <1>10, <2>4, <3>1, <3>2 DEF Actors, Alike
    <3> QED BY <1>1, <3>1, <3>3 DEF Walk
  <2>5. l \in routed => row[a].exposed
    <3>1. ASSUME Unroutes(l) PROVE row[a].exposed
      BY <2>4, <3>1 DEF Unroutes
    <3> QED BY <1>10, <2>1, <3>1 DEF Tidy
  <2>6. CASE job[a].op = "delete" /\ row[a].exposed
    <3>1. pc'[a] = "unroute" /\ job' = job /\ answer' = answer
      BY <2>6 DEF DeleteRow, Goto, TypeOK
    <3>2. Unroutes(l)'
      BY <1>3, <2>6, <3>1 DEF Unroutes
    <3> QED BY <1>1, <1>2, <1>3, <1>5, <1>8, <1>10, <2>2, <2>3, <2>6, <3>1, <3>2, RemovalHolds
  <2>7. CASE ~(job[a].op = "delete" /\ row[a].exposed)
    <3>1. pc'[a] = "idle"
      BY <2>7 DEF DeleteRow, Leave, Goto, TypeOK
    <3>2. l \notin routed
      BY <1>2, <2>3, <2>5, <2>7
    <3>3. a \notin Busy'
      BY <3>1 DEF Busy
    <3> QED BY <1>1, <1>2, <1>3, <1>4, <1>5, <1>7, <1>8, <1>10, <2>2, <2>3, <3>2, <3>3, RemovalHolds
  <2> QED BY <2>6, <2>7
<1> QED BY <1>9, <1>10

\* A removal takes the route.
LEMMA UnrouteHolds ==
    ASSUME TypeOK, Actors, Labs, TypeOK', NEW a \in Actor, Unroute(a)
    PROVE  Labs'
<1>1. Walk(a)
  BY RemoveWalks
<1>2. job[a].op \in {"delete", "reap"} /\ a \in Busy /\ pc[a] = "unroute"
  BY DEF Unroute, Busy, Actors, Placed, RemovePc
<1>3. PICK l : l = job[a].lab
  OBVIOUS
<1>4. l \in Lab
  BY <1>2, <1>3, JobIs
<1>5. rows' = rows /\ dir' = dir /\ up' = up
  BY DEF Unroute
<1>6. CASE Spoil(a)
  <2>1. routed' \in {routed, routed \ {job[a].lab}}
    BY DEF Unroute
  <2> QED BY <1>1, <1>2, <1>5, <1>6, <2>1, FaultHolds
<1>7. CASE ~Spoil(a)
  <2>1. /\ routed' = routed \ {l} /\ spoiled' = spoiled
        /\ IF job[a].op = "reap" THEN Goto(a, "row") /\ UNCHANGED <<job, row, gone, answer>>
                                 ELSE Leave(a) /\ Answer(a, "removed")
    BY <1>3, <1>7 DEF Unroute
  <2>2. \A k \in Lab : answer'[k] = answer[k]
                       \/ (k = l /\ k \notin spoiled /\ answer'[k] = "removed" /\ job[a].op = "delete")
    BY <1>2, <1>3, <1>4, <2>1, AnswerSays
  <2>3. Framed(a)
    BY <1>3, <1>5, <2>1, <2>2, RowsKept DEF Framed
  <2>4. RowsOf(l)' = RowsOf(l)
    BY <1>5 DEF RowsOf
  <2>5. CASE l \in spoiled
    BY <1>1, <1>2, <1>3, <1>4, <1>5, <2>1, <2>2, <2>3, <2>4, <2>5, SpoiledHolds
  <2>6. CASE l \notin spoiled
    <3>1. Reading(a) /\ Tidy(l) /\ Empty(l) /\ ~Deploys(l)
      BY <1>1, <1>2, <1>3, <2>6, RemovalIs DEF Labs
    <3>2. /\ job[a].op = "delete" => RowsOf(l) = {}
          /\ Lab = {l} => dir = "none" /\ up = "none"
      BY <1>2, <1>3, <2>6, <3>1 DEF Reading
    <3>3. job[a].op = "reap" => pc'[a] = "row"
      BY <2>1 DEF Goto, TypeOK
    <3>4. job[a].op = "delete" => a \notin Busy'
      BY <2>1 DEF Leave, Goto, TypeOK, Busy
    <3> QED BY <1>1, <1>2, <1>3, <1>4, <1>5, <2>1, <2>2, <2>3, <2>4, <2>6, <3>2, <3>3, <3>4, RemovalHolds
  <2> QED BY <2>5, <2>6
<1> QED BY <1>6, <1>7

\* A removal of the reconciler's that compose refuses, which goes on.
LEMMA ReapRefusedHolds ==
    ASSUME TypeOK, Actors, Labs, TypeOK', ReapRefused
    PROVE  Labs'
<1>1. Reconciler \in Actor /\ Walk(Reconciler)
  BY RemoveWalks DEF Actor
<1>2. job[Reconciler].op # "look"
  BY <1>1 DEF ReapRefused, Actors, Placed
<1> QED BY <1>1, <1>2, FaultHolds DEF ReapRefused, labhost

\* Starts and stops, the answer of the lab host for no reason to act, the end of a pass.
LEMMA StateHolds ==
    ASSUME TypeOK, Fresh, Actors, Labs, TypeOK', NEW a \in Actor,
           \/ Call(a) \/ Write(a) \/ (a = Reconciler /\ PassEnds)
           \/ /\ a = Reconciler /\ pc[a] = "ps" /\ Leave(a)
              /\ UNCHANGED <<rows, labhost, next, spoiled, answer>>
    PROVE  Labs'
<1>1. a \in Busy /\ job[a].op \notin {"deploy", "delete", "reap"}
  BY DEF Call, Write, PassEnds, Busy, Actors, Placed, StatePc
<1>2. Walk(a)
  <2>1. CASE pc[a] = "ps" /\ Leave(a) /\ UNCHANGED <<next, spoiled>>
    BY <1>1, <2>1, LeaveWalks
  <2>2. CASE Call(a) \/ Write(a) \/ (a = Reconciler /\ PassEnds)
    BY <2>2, StateWalks
  <2> QED BY <2>1, <2>2
<1>3. PICK l : l = job[a].lab
  OBVIOUS
<1>4. l \in Lab
  BY <1>1, <1>3, JobIs
<1>5. dir' = dir /\ routed' = routed /\ spoiled' = spoiled /\ answer' = answer
  BY DEF Call, Write, PassEnds, labhost, history
<1>6. up' \in {up, "none"} \/ (job[a].op = "up" /\ dir = "ready")
  BY DEF Call, Write, PassEnds, labhost
<1>7. \A k : SameRows(k)
  <2>1. CASE rows' = rows
    BY <2>1, RowsKept
  <2>2. CASE Write(a)
    <3>1. PICK state : state = IF job[a].op = "up" THEN "RUNNING" ELSE "STOPPED"
      OBVIOUS
    <3>2. rows' = {Restated(a, state, w) : w \in rows}
      BY <2>2, <3>1 DEF Write
    <3>3. ASSUME NEW w \in rows, NEW v, v = Restated(a, state, w)
          PROVE  v.pk = w.pk /\ v.lab = w.lab /\ v.exposed = w.exposed
      BY <3>3 DEF TypeOK, RowType, Restated
    <3>4. \A v \in rows' : \E w \in rows : v.pk = w.pk /\ v.lab = w.lab /\ v.exposed = w.exposed
      BY <3>2, <3>3
    <3>5. \A w \in rows : \E v \in rows' : v.pk = w.pk /\ v.lab = w.lab /\ v.exposed = w.exposed
      BY <3>2, <3>3
    <3>6. ASSUME NEW k PROVE SameRows(k)
      <4>1. ASSUME NEW v \in rows', v.lab = k
            PROVE  \E w \in RowsOf(k) : w.pk = v.pk /\ (w.exposed <=> v.exposed)
        <5>1. PICK w \in rows : v.pk = w.pk /\ v.lab = w.lab /\ v.exposed = w.exposed
          BY <3>4
        <5> QED BY <4>1, <5>1 DEF RowsOf
      <4>2. ASSUME NEW w \in RowsOf(k)
            PROVE  \E v \in rows' : v.lab = k /\ w.pk = v.pk /\ (w.exposed <=> v.exposed)
        <5>1. w \in rows /\ w.lab = k
          BY DEF RowsOf
        <5>2. PICK v \in rows' : v.pk = w.pk /\ v.lab = w.lab /\ v.exposed = w.exposed
          BY <3>5, <5>1
        <5> QED BY <5>1, <5>2
      <4> QED BY <4>1, <4>2 DEF SameRows
    <3> QED BY <3>6
  <2> QED BY <2>1, <2>2 DEF Call, PassEnds
<1>8. Framed(a)
  BY <1>5, <1>7 DEF Framed
<1>9. CASE l \in spoiled
  <2>1. job[a].op = "look" => rows' = rows
    BY DEF Call, Write, PassEnds, Actors, Placed
  <2>2. RowsOf(l) = {} => RowsOf(l)' = {}
    BY <1>7 DEF SameRows, RowsOf
  <2> QED BY <1>2, <1>3, <1>4, <1>5, <1>8, <1>9, <2>1, <2>2, SpoiledHolds
<1>10. CASE l \notin spoiled
  BY <1>1, <1>2, <1>3, <1>5, <1>6, <1>7, <1>8, <1>10, StillHolds
<1> QED BY <1>9, <1>10

\* The containers end, and time elapses.
LEMMA ByItselfHolds ==
    ASSUME TypeOK, Fresh, Actors, Labs, TypeOK', End \/ Elapse
    PROVE  Actors' /\ Labs'
<1>1. UNCHANGED <<dir, routed, pc, job, row, gone, next, spoiled, answer>>
  BY DEF End, Elapse, labhost, history
<1>2. up' = up \/ up # "none"
  BY DEF End, Elapse, labhost
<1>3. \A k : SameRows(k)
  <2>1. CASE End
    BY <2>1, RowsKept DEF End
  <2>2. CASE Elapse
    <3>1. PICK w \in rows : rows' = (rows \ {w}) \cup {[w EXCEPT !.expired = TRUE]}
      BY <2>2 DEF Elapse
    <3>2. PICK n : n = [w EXCEPT !.expired = TRUE]
      OBVIOUS
    <3>3. n.pk = w.pk /\ n.lab = w.lab /\ n.exposed = w.exposed
      BY <3>2 DEF TypeOK, RowType
    <3> QED BY <3>1, <3>2, <3>3 DEF SameRows, RowsOf
  <2> QED BY <2>1, <2>2
<1>4. Actors'
  <2>1. \A a \in Actor : Placed(a)'
    BY <1>1 DEF Actors, Placed
  <2>2. \A a, b \in Actor : Met(a, b)' /\ Alike(a, b)'
    BY <1>1 DEF Actors, Met, Alike, Busy
  <2> QED BY <2>1, <2>2 DEF Actors
<1>5. ASSUME NEW l \in Lab PROVE Good(l)'
  <2>1. SameRows(l)
    BY <1>3
  <2>2. /\ RowsOf(l) = {} <=> RowsOf(l)' = {}
        /\ (\E w \in RowsOf(l) : w.exposed) => \E w \in RowsOf(l)' : w.exposed
    BY <2>1 DEF SameRows, RowsOf
  <2>3. ASSUME NEW a \in Actor, job'[a].lab = l PROVE Deploying(a)' /\ Reading(a)'
    <3>1. Deploying(a) /\ Reading(a) /\ job'[a] = job[a] /\ row'[a] = row[a] /\ pc'[a] = pc[a]
      BY <1>1 DEF Labs
    <3>2. ASSUME NEW pk, Find(pk) # {} PROVE Find(pk)' # {}
      <4>1. PICK w \in rows : w.pk = pk
        BY <3>2 DEF Find
      <4>2. PICK v \in rows' : v.pk = pk
        BY <1>3, <4>1 DEF SameRows, RowsOf
      <4> QED BY <4>2 DEF Find
    <3>3. Deploying(a)'
      BY <1>1, <2>2, <2>3, <3>1, <3>2 DEF Deploying
    <3>4. (\A w \in RowsOf(l) : w.pk = row[a].pk /\ (w.exposed <=> row[a].exposed)) =>
          (\A w \in RowsOf(l)' : w.pk = row[a].pk /\ (w.exposed <=> row[a].exposed))
      BY <2>1 DEF SameRows, RowsOf
    <3>5. Reading(a)'
      BY <1>1, <1>2, <2>2, <2>3, <3>1, <3>4 DEF Reading, Busy
    <3> QED BY <3>3, <3>5
  <2>4. Tidy(l)'
    BY <1>1, <2>2 DEF Labs, Tidy, Deploys, Unroutes
  <2>5. Empty(l)'
    BY <1>1, <1>2 DEF Labs, Empty
  <2>6. Answered(l)'
    <3>1. Answered(l)
      BY DEF Labs
    <3>2. ASSUME answer[l] = "deployed"
          PROVE  \E w \in RowsOf(l)' : (Lab = {l} => dir' = "ready") /\ (w.exposed => l \in routed')
      <4>1. PICK v \in RowsOf(l) : (Lab = {l} => dir = "ready") /\ (v.exposed => l \in routed)
        BY <3>1, <3>2 DEF Answered
      <4> QED BY <1>1, <2>1, <4>1 DEF SameRows, RowsOf
    <3> QED BY <1>1, <2>2, <3>1, <3>2 DEF Answered, Busy
  <2> QED BY <2>3, <2>4, <2>5, <2>6 DEF Good
<1> QED BY <1>4, <1>5, AllGood

-----------------------------------------------------------------------------
(* Keys.                                                                   *)

\* A step that adds no row and leaves the keys and labs of those there are.
LEMMA FreshKept ==
    ASSUME TypeOK, Fresh, next' = next,
           \A v \in rows' : \E w \in rows : v.pk = w.pk /\ v.lab = w.lab,
           \A v, w \in rows' : v.pk = w.pk => v = w,
           \A a \in Actor : row'[a] \in {row[a], NoRow} \/ row'[a] \in rows
    PROVE  Fresh'
<1>1. \A w \in rows : w.pk \in 1..next
  BY RowIs DEF TypeOK
<1>2. next \in Nat \ {0} /\ NoRow.pk = 0
  BY NoJobIs DEF TypeOK
<1>3. \A w \in rows' : w.pk < next /\ w.pk # 0
  BY <1>1, <1>2 DEF Fresh
<1>4. \A a \in Actor : row'[a].pk < next
  BY <1>1, <1>2 DEF Fresh
<1>5. \A a \in Actor, w \in rows' : row'[a].pk = w.pk => w.lab = row'[a].lab
  BY <1>2, <1>3 DEF Fresh
<1> QED BY <1>3, <1>4, <1>5 DEF Fresh

\* What an actor remembers of a row when it walks.
LEMMA WalkRows ==
    ASSUME NEW a \in Actor, Walk(a)
    PROVE  \A b \in Actor : row'[b] \in {row[b], NoRow}
  BY DEF Walk

\* A start or stop changes the state of a row, no key and no lab.
LEMMA WrittenRows ==
    ASSUME TypeOK, Fresh, NEW a \in Actor, Write(a)
    PROVE  /\ rows' \subseteq RowType
           /\ \A v \in rows' : \E w \in rows : v.pk = w.pk /\ v.lab = w.lab
           /\ \A v, w \in rows' : v.pk = w.pk \/ v.lab = w.lab => v = w
<1>1. PICK state \in {"RUNNING", "STOPPED"} : rows' = {Restated(a, state, w) : w \in rows}
  BY DEF Write
<1>2. ASSUME NEW w \in rows, NEW v, v = Restated(a, state, w)
      PROVE  v \in RowType /\ v.pk = w.pk /\ v.lab = w.lab
  BY <1>2 DEF TypeOK, RowType, Restated
<1>3. \A w \in rows : \A v : v = Restated(a, state, w) =>
          v \in RowType /\ v.pk = w.pk /\ v.lab = w.lab
  BY <1>2
<1>4. rows' \subseteq RowType
  BY <1>1, <1>3
<1>5. \A v \in rows' : \E w \in rows : v.pk = w.pk /\ v.lab = w.lab
  BY <1>1, <1>3
<1>6. ASSUME NEW v \in rows', NEW u \in rows', v.pk = u.pk \/ v.lab = u.lab PROVE v = u
  <2>1. PICK w \in rows : v = Restated(a, state, w)
    BY <1>1
  <2>2. PICK x \in rows : u = Restated(a, state, x)
    BY <1>1
  <2>3. v.pk = w.pk /\ v.lab = w.lab /\ u.pk = x.pk /\ u.lab = x.lab
    BY <1>3, <2>1, <2>2
  <2>4. w = x
    BY <1>6, <2>3 DEF TypeOK, Fresh
  <2> QED BY <2>1, <2>2, <2>4
<1> QED BY <1>4, <1>5, <1>6

\* Time changes one row, no key and no lab.
LEMMA ElapsedRows ==
    ASSUME TypeOK, Fresh, Elapse
    PROVE  /\ rows' \subseteq RowType /\ due' \subseteq 1..next
           /\ \A v \in rows' : \E w \in rows : v.pk = w.pk /\ v.lab = w.lab
           /\ \A v, w \in rows' : v.pk = w.pk \/ v.lab = w.lab => v = w
<1>1. PICK w \in rows : /\ rows' = (rows \ {w}) \cup {[w EXCEPT !.expired = TRUE]}
                        /\ due' = due \cup {w.pk}
  BY DEF Elapse
<1>2. PICK n : n = [w EXCEPT !.expired = TRUE]
  OBVIOUS
<1>3. n \in RowType /\ n.pk = w.pk /\ n.lab = w.lab /\ w.pk \in 1..next
  BY <1>2, RowIs DEF TypeOK, RowType
<1>4. \A v \in rows \ {w} : v.pk # w.pk /\ v.lab # w.lab
  BY DEF TypeOK, Fresh
<1>5. rows' = (rows \ {w}) \cup {n}
  BY <1>1, <1>2
<1>6. rows' \subseteq RowType
  BY <1>3, <1>5 DEF TypeOK
<1>7. due' \subseteq 1..next
  BY <1>1, <1>3 DEF TypeOK
<1>8. \A v \in rows' : \E x \in rows : v.pk = x.pk /\ v.lab = x.lab
  BY <1>3, <1>5
<1>9. \A v, x \in rows' : v.pk = x.pk \/ v.lab = x.lab => v = x
  BY <1>3, <1>4, <1>5 DEF TypeOK, Fresh
<1> QED BY <1>6, <1>7, <1>8, <1>9

\* A step after which an actor walks or enters, but for what it stores.
LEMMA FreshStep ==
    ASSUME TypeOK, Fresh, Actors, Next
    PROVE  Fresh'
<1>1. ASSUME NEW a \in Actor, NEW j, NEW w, NEW label, Enter(a, j, w, label) PROVE Fresh'
  <2>1. rows' = rows /\ next' = next /\ Fitting(a, j, w, label)
    BY <1>1 DEF Enter
  <2>2. /\ \A b \in Actor \ {a} : row'[b] = row[b]
        /\ row'[a] = w
    BY <1>1, EnterIs
  <2>3. w \in rows \cup {row[a], NoRow}
    BY <2>1 DEF Fitting, RowsOf
  <2>4. \A b \in Actor : row'[b] \in {row[b], NoRow} \/ row'[b] \in rows
    BY <2>2, <2>3
  <2>5. \A v \in rows' : \E u \in rows : v.pk = u.pk /\ v.lab = u.lab
    BY <2>1
  <2>6. \A v, u \in rows' : v.pk = u.pk => v = u
    BY <2>1 DEF Fresh
  <2> QED BY <2>1, <2>4, <2>5, <2>6, FreshKept
<1>2. ASSUME NEW a \in Actor, Walk(a), next' = next, rows' \subseteq rows PROVE Fresh'
  <2>1. \A b \in Actor : row'[b] \in {row[b], NoRow} \/ row'[b] \in rows
    BY <1>2, WalkRows
  <2>2. \A v, u \in rows' : v.pk = u.pk => v = u
    BY <1>2 DEF Fresh
  <2> QED BY <1>2, <2>1, <2>2, FreshKept
<1>3. ASSUME NEW a \in Actor, Store(a) PROVE Fresh'
  <2>1. PICK l : l = job[a].lab
    OBVIOUS
  <2>2. PICK n \in rows' : /\ n.lab = l /\ n \in RowType'
                           /\ n.pk = IF row[a] = NoRow THEN next ELSE row[a].pk
                           /\ \A w \in rows' : w # n => w \in rows /\ w.pk # n.pk
    BY <1>3, <2>1, StoredRow
  <2>3. next' = IF row[a] = NoRow THEN next + 1 ELSE next
    BY <1>3 DEF Store
  <2>4. next \in Nat \ {0}
    BY DEF TypeOK
  <2>5. \A w \in rows : w.pk \in 1..next /\ w.pk < next
    BY RowIs DEF TypeOK, Fresh
  <2>6. \A b \in Actor : row[b] # NoRow => row[b].pk \in 1..next /\ row[b].pk < next
    BY RowIs DEF TypeOK, Fresh
  <2>7. Walk(a)
    BY <1>3, DeployWalks
  <2>8. \A b \in Actor : row'[b] \in {row[b], NoRow}
    BY <2>7, WalkRows
  <2>9. \A w \in rows' : w.pk < next' /\ w.pk # 0
    BY <2>2, <2>3, <2>4, <2>5, <2>6
  <2>10. \A v, w \in rows' : v.pk = w.pk => v = w
    BY <2>2 DEF Fresh
  <2>11. \A b \in Actor : row'[b].pk < next'
    BY <2>3, <2>4, <2>6, <2>8, NoJobIs
  <2>12. ASSUME NEW b \in Actor, NEW w \in rows', row'[b].pk = w.pk PROVE w.lab = row'[b].lab
    <3>1. row'[b] = row[b] /\ row[b] # NoRow
      BY <2>8, <2>9, <2>12, NoJobIs
    <3>2. CASE w # n
      BY <2>2, <2>12, <3>1, <3>2 DEF Fresh
    <3>3. CASE w = n
      <4>1. row[a] # NoRow /\ row[b].pk = row[a].pk /\ w.lab = l
        BY <2>2, <2>4, <2>6, <2>12, <3>1, <3>3
      <4>2. \E v \in rows : v.pk = row[a].pk
        BY <1>3, <4>1 DEF Store, Find
      <4>3. row[a].lab = l
        BY <2>1, <4>1 DEF Actors, Placed
      <4> QED BY <3>1, <4>1, <4>2, <4>3 DEF Fresh
    <3> QED BY <3>2, <3>3
  <2> QED BY <2>9, <2>10, <2>11, <2>12 DEF Fresh
<1>4. CASE End
  <2>1. rows' = rows /\ row' = row /\ next' = next
    BY <1>4 DEF End
  <2> QED BY <2>1 DEF Fresh
<1>5. CASE Elapse
  <2>1. row' = row /\ next' = next
    BY <1>5 DEF Elapse
  <2> QED BY <1>5, <2>1, ElapsedRows, FreshKept
<1>6. ASSUME NEW a \in Actor, Refused(a) \/ GiveUp(a) PROVE Fresh'
  <2>1. Walk(a) /\ next' = next /\ rows' = rows
    BY <1>6, RefusedWalks, GiveUpWalks DEF Refused, GiveUp
  <2> QED BY <1>2, <2>1
<1>7. ASSUME NEW a \in Actor,
             \/ Source(a) \/ Start(a) \/ StartFails(a) \/ Routes(a) \/ RoutesFail(a) \/ StoreRaises(a)
      PROVE  Fresh'
  <2>1. Walk(a) /\ next' = next /\ rows' = rows
    BY <1>7, DeployWalks DEF Source, Start, StartFails, Routes, RoutesFail, StoreRaises
  <2> QED BY <1>2, <2>1
<1>8. ASSUME NEW a \in Actor,
             Down(a) \/ Rmtree(a) \/ DeleteRow(a) \/ Unroute(a) \/ (a = Reconciler /\ ReapRefused)
      PROVE  Fresh'
  <2>1. Walk(a) /\ next' = next /\ rows' \subseteq rows
    BY <1>8, RemoveWalks DEF Down, Rmtree, DeleteRow, Unroute, ReapRefused
  <2> QED BY <1>2, <2>1
<1>9. ASSUME NEW a \in Actor, Call(a) \/ (a = Reconciler /\ PassEnds) PROVE Fresh'
  <2>1. Walk(a) /\ next' = next /\ rows' = rows
    BY <1>9, StateWalks DEF Call, PassEnds
  <2> QED BY <1>2, <2>1
<1>10. ASSUME NEW a \in Actor, Write(a) PROVE Fresh'
  <2>1. Walk(a) /\ next' = next
    BY <1>10, StateWalks DEF Write
  <2>2. \A b \in Actor : row'[b] \in {row[b], NoRow} \/ row'[b] \in rows
    BY <2>1, WalkRows
  <2> QED BY <1>10, <2>1, <2>2, WrittenRows, FreshKept
<1>11. ASSUME Leave(Reconciler), pc[Reconciler] = "ps", UNCHANGED <<rows, labhost, next, spoiled, answer>>
       PROVE  Fresh'
  <2>1. Reconciler \in Actor /\ Reconciler \in Busy
    BY <1>11 DEF Actor, Busy
  <2>2. Walk(Reconciler)
    BY <1>11, <2>1, LeaveWalks
  <2> QED BY <1>2, <1>11, <2>1, <2>2
<1>12. ASSUME NEW r \in Request, BeginDeploy(r) \/ BeginDelete(r) \/ BeginState(r) PROVE Fresh'
  BY <1>1, <1>12, BeginEnters DEF Actor
<1>13. ASSUME NEW l \in Lab, Visit(l) PROVE Fresh'
  BY <1>1, <1>13, VisitEnters DEF Actor
<1>14. CASE Ps
  <2>1. pc[Reconciler] = "ps" /\ Reconciler \in Actor
    BY <1>14 DEF Ps, Actor
  <2> QED BY <1>1, <1>11, <1>14, <2>1, PsEnters
<1>15. Reconciler \in Actor /\ Request \subseteq Actor
  BY DEF Actor
<1>16. CASE Pass
  BY <1>8, <1>9, <1>13, <1>14, <1>15, <1>16 DEF Pass
<1>17. ASSUME NEW r \in Request, Serve(r) PROVE Fresh'
  BY <1>3, <1>7, <1>8, <1>9, <1>10, <1>15, <1>17 DEF Serve
<1> QED BY <1>4, <1>5, <1>6, <1>12, <1>16, <1>17 DEF Next

-----------------------------------------------------------------------------
(* Types.                                                                  *)

\* The rest of the type invariant.
WorldTyped ==
    /\ rows \subseteq RowType
    /\ \A v, w \in rows : v.lab = w.lab => v = w
    /\ dir \in {"none", "bare", "ready"}
    /\ up \in {"none", "running", "ended"}
    /\ routed \subseteq Lab
    /\ next \in Nat \ {0} /\ jobs \in 0..MaxJobs /\ faults \in 0..MaxFaults
    /\ due \subseteq 1..next
    /\ spoiled \subseteq Lab
    /\ answer \in [Lab -> {"unknown", "deployed", "removed"}]

\* The two parts make up the type invariant.
LEMMA Typed == ASSUME ActorsTyped', WorldTyped' PROVE TypeOK'
  BY DEF TypeOK, ActorsTyped, WorldTyped

\* Faults are bounded.
LEMMA FaultTyped == ASSUME TypeOK, Fault PROVE faults' \in 0..MaxFaults
  BY BoundAssumption DEF TypeOK, Fault

\* The history after a fault, an answer, or neither.
LEMMA SpoilTyped ==
    ASSUME TypeOK, NEW a \in Actor, job[a].lab \in Lab,
           \/ Spoil(a)
           \/ \E what \in {"deployed", "removed"} : Answer(a, what) /\ spoiled' = spoiled
           \/ spoiled' = spoiled /\ answer' = answer
    PROVE  spoiled' \subseteq Lab /\ answer' \in [Lab -> {"unknown", "deployed", "removed"}]
<1>1. CASE Spoil(a)
  BY <1>1 DEF Spoil, TypeOK
<1>2. ASSUME NEW what \in {"deployed", "removed"}, Answer(a, what), spoiled' = spoiled
      PROVE  spoiled' \subseteq Lab /\ answer' \in [Lab -> {"unknown", "deployed", "removed"}]
  BY <1>2 DEF Answer, TypeOK
<1>3. CASE spoiled' = spoiled /\ answer' = answer
  BY <1>3 DEF TypeOK
<1> QED BY <1>1, <1>2, <1>3

\* Clashes are about labs.
LEMMA ClashTyped ==
    ASSUME TypeOK, Actors, NEW a, NEW op, NEW l \in Lab
    PROVE  Clash(a, op, l) \subseteq Lab
<1>1. \A b \in Busy : job[b].lab \in Lab
  BY JobIs DEF Busy
<1> QED BY <1>1 DEF Clash

\* A step that leaves the rows, or some of them, and the time they have had.
LEMMA WorldKept ==
    ASSUME TypeOK, NEW a \in Actor, job[a].lab \in Lab, rows' \subseteq rows,
           dir' \in {"none", "bare", "ready"}, up' \in {"none", "running", "ended"},
           routed' \subseteq routed \cup {job[a].lab}, next' = next, jobs' = jobs,
           faults' = faults \/ Fault, due' = due,
           \/ Spoil(a)
           \/ \E what \in {"deployed", "removed"} : Answer(a, what) /\ spoiled' = spoiled
           \/ spoiled' = spoiled /\ answer' = answer
    PROVE  WorldTyped'
<1>1. RowType' = RowType
  BY DEF RowType
<1>2. rows' \subseteq RowType' /\ \A v, w \in rows' : v.lab = w.lab => v = w
  BY <1>1 DEF TypeOK
<1>3. faults' \in 0..MaxFaults
  BY FaultTyped DEF TypeOK
<1>4. spoiled' \subseteq Lab /\ answer' \in [Lab -> {"unknown", "deployed", "removed"}]
  BY SpoilTyped
<1>5. /\ routed' \subseteq Lab /\ next' \in Nat \ {0} /\ jobs' \in 0..MaxJobs
      /\ due' \subseteq 1..next'
  BY DEF TypeOK
<1> QED BY <1>2, <1>3, <1>4, <1>5 DEF WorldTyped

\* What a request's beginning leaves is well typed.
LEMMA BeginTyped ==
    ASSUME TypeOK, Actors, NEW r \in Request, BeginDeploy(r) \/ BeginDelete(r) \/ BeginState(r)
    PROVE  WorldTyped'
<1>1. UNCHANGED <<rows, dir, up, routed, next, faults, due>>
  BY DEF BeginDeploy, BeginDelete, BeginState, labhost
<1>2. \E j, w, label : j.lab \in Lab /\ Begin(r, j, w, label)
  <2>1. CASE BeginDeploy(r)
    BY <2>1 DEF BeginDeploy, Deployment
  <2>2. ASSUME NEW w \in rows, NEW op, NEW label, Begin(r, [op |-> op, lab |-> w.lab], w, label)
        PROVE  \E j : j.lab \in Lab /\ Begin(r, j, w, label)
    <3>1. w.lab \in Lab /\ [op |-> op, lab |-> w.lab].lab = w.lab
      BY RowIs DEF TypeOK
    <3> QED BY <2>2, <3>1
  <2>3. CASE BeginDelete(r)
    BY <2>2, <2>3 DEF BeginDelete
  <2>4. CASE BeginState(r)
    BY <2>2, <2>4 DEF BeginState
  <2> QED BY <2>1, <2>3, <2>4
<1>3. PICK j, w, label : j.lab \in Lab /\ Begin(r, j, w, label)
  BY <1>2
<1>4. Meet(r, j.op, j.lab) /\ jobs < MaxJobs /\ jobs' = jobs + 1
  BY <1>3 DEF Begin
<1>5. spoiled' \subseteq Lab
  BY <1>3, <1>4, ClashTyped DEF Meet, TypeOK
<1>6. answer' \in [Lab -> {"unknown", "deployed", "removed"}]
  BY <1>4 DEF Meet, TypeOK
<1>7. jobs' \in 0..MaxJobs
  BY <1>4, BoundAssumption DEF TypeOK
<1>8. RowType' = RowType
  BY <1>1 DEF RowType
<1> QED BY <1>1, <1>5, <1>6, <1>7, <1>8 DEF TypeOK, WorldTyped

\* What a deployment stores is well typed.
LEMMA StoreTyped ==
    ASSUME TypeOK, Fresh, Actors, NEW a \in Actor, Store(a)
    PROVE  WorldTyped'
<1>1. a \in Busy
  BY DEF Store, Busy
<1>2. PICK l : l = job[a].lab
  OBVIOUS
<1>3. PICK n \in rows' : /\ n.lab = l /\ n \in RowType'
                         /\ \A w \in rows' : w.lab = l => w = n
                         /\ \A w \in rows' : w # n => w \in rows
  BY <1>2, StoredRow
<1>4. next' \in {next, next + 1} /\ due' \subseteq due
  BY DEF Store
<1>5. RowType \subseteq RowType' /\ 1..next \subseteq 1..next' /\ next' \in Nat \ {0}
  BY <1>4, Grow
<1>6. rows' \subseteq RowType'
  BY <1>3, <1>5 DEF TypeOK
<1>7. \A v, w \in rows' : v.lab = w.lab => v = w
  BY <1>3 DEF TypeOK
<1>8. Spoil(a) \/ (Answer(a, "deployed") /\ spoiled' = spoiled)
  BY DEF Store
<1>9. spoiled' \subseteq Lab /\ answer' \in [Lab -> {"unknown", "deployed", "removed"}]
  BY <1>1, <1>8, JobIs, SpoilTyped
<1>10. UNCHANGED <<dir, up, routed, jobs, faults>>
  BY DEF Store, labhost
<1>11. due' \subseteq 1..next'
  BY <1>4, <1>5 DEF TypeOK
<1> QED BY <1>5, <1>6, <1>7, <1>9, <1>10, <1>11 DEF TypeOK, WorldTyped

\* What any other step of an actor at work leaves is well typed.
LEMMA WalkTyped ==
    ASSUME TypeOK, Fresh, Actors, NEW a \in Actor,
           \/ Refused(a) \/ GiveUp(a)
           \/ Source(a) \/ Start(a) \/ StartFails(a) \/ Routes(a) \/ RoutesFail(a) \/ StoreRaises(a)
           \/ Down(a) \/ Rmtree(a) \/ DeleteRow(a) \/ Unroute(a) \/ (a = Reconciler /\ ReapRefused)
           \/ Call(a) \/ Write(a) \/ (a = Reconciler /\ PassEnds)
    PROVE  WorldTyped'
<1>0. dir \in {"none", "bare", "ready"} /\ up \in {"none", "running", "ended"}
  BY DEF TypeOK
<1>1. a \in Busy
  BY DEF Busy, Refused, GiveUp, Source, Start, StartFails, Routes, RoutesFail, StoreRaises, Down,
         Rmtree, DeleteRow, Unroute, ReapRefused, Call, Write, PassEnds
<1>2. job[a].lab \in Lab
  BY <1>1, JobIs
<1>3. CASE Refused(a) \/ GiveUp(a)
  <2>1. Spoil(a) /\ Fault /\ UNCHANGED <<rows, dir, up, routed, next, jobs, due>>
    BY <1>3 DEF Refused, GiveUp, labhost
  <2> QED BY <1>0, <1>2, <2>1, WorldKept
<1>4. CASE Source(a) \/ Start(a) \/ StartFails(a) \/ Routes(a) \/ RoutesFail(a) \/ StoreRaises(a)
  <2>1. /\ dir' \in {dir, "ready", "bare"} /\ up' \in {up, "running"}
        /\ routed' \subseteq routed \cup {job[a].lab}
        /\ UNCHANGED <<rows, next, jobs, due>>
        /\ faults' = faults \/ Fault
        /\ Spoil(a) \/ (spoiled' = spoiled /\ answer' = answer)
    BY <1>4 DEF Source, Start, StartFails, Routes, RoutesFail, StoreRaises, labhost, history
  <2>2. dir' \in {"none", "bare", "ready"} /\ up' \in {"none", "running", "ended"}
    BY <1>0, <2>1
  <2> QED BY <1>2, <2>1, <2>2, WorldKept
<1>5. CASE Down(a) \/ Rmtree(a) \/ DeleteRow(a) \/ Unroute(a) \/ (a = Reconciler /\ ReapRefused)
  <2>1. /\ dir' \in {dir, "none"} /\ up' \in {up, "none"}
        /\ routed' \subseteq routed
        /\ rows' \subseteq rows /\ UNCHANGED <<next, jobs, due>>
        /\ faults' = faults \/ Fault
        /\ \/ Spoil(a)
           \/ Answer(a, "removed") /\ spoiled' = spoiled
           \/ spoiled' = spoiled /\ answer' = answer
    BY <1>5 DEF Down, Rmtree, DeleteRow, Unroute, ReapRefused, labhost, history
  <2>2. dir' \in {"none", "bare", "ready"} /\ up' \in {"none", "running", "ended"}
    BY <1>0, <2>1
  <2> QED BY <1>2, <2>1, <2>2, WorldKept
<1>6. CASE Call(a) \/ (a = Reconciler /\ PassEnds)
  <2>1. /\ up' \in {up, "running", "none"}
        /\ faults' = faults \/ Fault
        /\ UNCHANGED <<rows, dir, routed, next, jobs, due, spoiled, answer>>
    BY <1>6 DEF Call, PassEnds, labhost, history
  <2>2. up' \in {"none", "running", "ended"}
    BY <1>0, <2>1
  <2> QED BY <1>0, <1>2, <2>1, <2>2, WorldKept
<1>7. CASE Write(a)
  <2>1. UNCHANGED <<dir, up, routed, next, jobs, faults, due, spoiled, answer>>
    BY <1>7 DEF Write, labhost, history
  <2>2. RowType' = RowType
    BY <2>1 DEF RowType
  <2> QED BY <1>7, <2>1, <2>2, WrittenRows DEF TypeOK, WorldTyped
<1> QED BY <1>3, <1>4, <1>5, <1>6, <1>7

\* What a visit and its decision leave is well typed.
LEMMA VisitTyped ==
    ASSUME TypeOK, Actors, (\E l \in Lab : Visit(l)) \/ Ps
    PROVE  WorldTyped'
<1>1. UNCHANGED <<rows, dir, up, routed, next, jobs, due>>
  BY DEF Visit, Ps, labhost
<1>2. faults' = faults \/ Fault
  BY DEF Visit, Ps
<1>3. spoiled' \subseteq Lab /\ answer' \in [Lab -> {"unknown", "deployed", "removed"}]
  <2>1. ASSUME NEW l \in Lab, Visit(l)
        PROVE  spoiled' \subseteq Lab /\ answer' \in [Lab -> {"unknown", "deployed", "removed"}]
    <3>1. PICK w \in RowsOf(l) : spoiled' = spoiled \cup Clash(Reconciler, "look", w.lab)
      BY <2>1 DEF Visit
    <3>2. w.lab \in Lab
      BY DEF RowsOf
    <3>3. answer' = answer
      BY <2>1 DEF Visit
    <3> QED BY <3>1, <3>2, <3>3, ClashTyped DEF TypeOK
  <2>2. ASSUME Ps
        PROVE  spoiled' \subseteq Lab /\ answer' \in [Lab -> {"unknown", "deployed", "removed"}]
    <3>1. Reconciler \in Actor /\ Reconciler \in Busy /\ job[Reconciler].op = "look"
      BY <2>2 DEF Ps, Actor, Busy, Actors, Placed
    <3>2. row[Reconciler].lab \in Lab
      BY <3>1, JobIs, RowIs
    <3>3. \/ UNCHANGED <<spoiled, answer>>
          \/ \E op \in {"reap", "up", "down"} : Meet(Reconciler, op, row[Reconciler].lab)
      BY <2>2 DEF Ps, Becomes
    <3>4. ASSUME NEW op, Meet(Reconciler, op, row[Reconciler].lab)
          PROVE  spoiled' \subseteq Lab /\ answer' \in [Lab -> {"unknown", "deployed", "removed"}]
      BY <3>2, <3>4, ClashTyped DEF Meet, TypeOK
    <3> QED BY <3>3, <3>4 DEF TypeOK
  <2> QED BY <2>1, <2>2
<1>4. RowType' = RowType
  BY <1>1 DEF RowType
<1>5. faults' \in 0..MaxFaults
  BY <1>2, FaultTyped DEF TypeOK
<1> QED BY <1>1, <1>3, <1>4, <1>5 DEF TypeOK, WorldTyped

\* What happens by itself leaves all well typed.
LEMMA ByItselfTyped ==
    ASSUME TypeOK, Fresh, End \/ Elapse
    PROVE  TypeOK'
<1>1. UNCHANGED <<dir, routed, pc, job, row, gone, next, jobs, spoiled, answer>>
  BY DEF End, Elapse, labhost, history
<1>2. RowType' = RowType
  BY <1>1 DEF RowType
<1>3. up' \in {"none", "running", "ended"}
  BY DEF End, Elapse, labhost, TypeOK
<1>4. faults' \in 0..MaxFaults
  BY BoundAssumption DEF End, Elapse, TypeOK
<1>5. rows' \subseteq RowType /\ due' \subseteq 1..next /\ \A v, w \in rows' : v.lab = w.lab => v = w
  <2>1. CASE End
    BY <2>1 DEF End, history, TypeOK
  <2>2. CASE Elapse
    BY <2>2, ElapsedRows
  <2> QED BY <2>1, <2>2
<1>6. Busy' = Busy
  BY <1>1 DEF Busy
<1>7. ActorsTyped'
  BY <1>1, <1>2, <1>6 DEF ActorsTyped, TypeOK
<1>8. WorldTyped'
  BY <1>1, <1>2, <1>3, <1>4, <1>5 DEF WorldTyped, TypeOK
<1> QED BY <1>7, <1>8, Typed

-----------------------------------------------------------------------------
(* The invariant holds.                                                    *)

\* At first there is nothing and nobody is at work.
LEMMA InitHolds == ASSUME Init PROVE IInv
<1>1. TypeOK
  BY BoundAssumption DEF Init, TypeOK, Busy, Label, NoJob, NoRow
<1>2. Fresh
  BY NoJobIs DEF Init, Fresh
<1>3. Actors
  <2>1. \A a \in Actor : Placed(a)
    BY NoJobIs DEF Init, Placed, DeployPc, RemovePc, StatePc
  <2>2. \A a, b \in Actor : Met(a, b) /\ Alike(a, b)
    BY DEF Init, Met, Alike, Busy
  <2> QED BY <2>1, <2>2 DEF Actors
<1>4. Labs
  <2>1. \A a \in Actor : Deploying(a) /\ Reading(a)
    BY NoJobIs DEF Init, Deploying, Reading, Busy
  <2>2. \A l \in Lab : Tidy(l) /\ Empty(l) /\ Answered(l)
    BY DEF Init, Tidy, Empty, Answered
  <2> QED BY <2>1, <2>2 DEF Labs
<1> QED BY <1>1, <1>2, <1>3, <1>4 DEF IInv

\* Every step keeps the invariant.
LEMMA NextHolds == ASSUME IInv, Next PROVE IInv'
<1> USE DEF IInv
<1>1. Fresh'
  BY FreshStep
<1>2. Reconciler \in Actor /\ Request \subseteq Actor
  BY DEF Actor
<1> SUFFICES TypeOK' /\ Actors' /\ Labs'
  BY <1>1
<1>3. ASSUME NEW a \in Actor, NEW j, NEW w, NEW label, Enter(a, j, w, label), WorldTyped'
      PROVE  TypeOK' /\ Actors' /\ Labs'
  <2>1. TypeOK'
    BY <1>3, EnterTyped, Typed
  <2>2. Actors'
    BY <1>3, EnterActors
  <2> QED BY <1>3, <2>1, <2>2, EnterLabs
<1>4. CASE End \/ Elapse
  BY <1>4, ByItselfTyped, ByItselfHolds
<1>5. ASSUME NEW a \in Actor, Refused(a) \/ GiveUp(a)
      PROVE  TypeOK' /\ Actors' /\ Labs'
  <2>1. ActorsTyped' /\ Walk(a) /\ WorldTyped'
    BY <1>5, RefusedWalks, GiveUpWalks, WalkTyped
  <2> QED BY <1>5, <2>1, Typed, WalkActors, RefusedHolds, GiveUpHolds
<1>6. ASSUME NEW a \in Actor,
             \/ Source(a) \/ Start(a) \/ StartFails(a) \/ Routes(a) \/ RoutesFail(a) \/ StoreRaises(a)
      PROVE  TypeOK' /\ Actors' /\ Labs'
  <2>1. ActorsTyped' /\ Walk(a) /\ WorldTyped'
    BY <1>6, DeployWalks, WalkTyped
  <2> QED BY <1>6, <2>1, Typed, WalkActors, DeployingHolds
<1>7. ASSUME NEW a \in Actor, Store(a)
      PROVE  TypeOK' /\ Actors' /\ Labs'
  <2>1. ActorsTyped' /\ Walk(a) /\ WorldTyped'
    BY <1>7, DeployWalks, StoreTyped
  <2> QED BY <1>7, <2>1, Typed, WalkActors, StoreHolds
<1>8. ASSUME NEW a \in Actor,
             Down(a) \/ Rmtree(a) \/ DeleteRow(a) \/ Unroute(a) \/ (a = Reconciler /\ ReapRefused)
      PROVE  TypeOK' /\ Actors' /\ Labs'
  <2>1. ActorsTyped' /\ Walk(a) /\ WorldTyped'
    BY <1>8, RemoveWalks, WalkTyped
  <2> QED BY <1>8, <2>1, Typed, WalkActors, DownHolds, RmtreeHolds, DeleteRowHolds, UnrouteHolds,
             ReapRefusedHolds
<1>9. ASSUME NEW a \in Actor, Call(a) \/ Write(a) \/ (a = Reconciler /\ PassEnds)
      PROVE  TypeOK' /\ Actors' /\ Labs'
  <2>1. ActorsTyped' /\ Walk(a) /\ WorldTyped'
    BY <1>9, StateWalks, WalkTyped
  <2> QED BY <1>9, <2>1, Typed, WalkActors, StateHolds
<1>10. ASSUME NEW r \in Request, BeginDeploy(r) \/ BeginDelete(r) \/ BeginState(r)
       PROVE  TypeOK' /\ Actors' /\ Labs'
  BY <1>2, <1>3, <1>10, BeginEnters, BeginTyped
<1>11. ASSUME NEW l \in Lab, Visit(l)
       PROVE  TypeOK' /\ Actors' /\ Labs'
  BY <1>2, <1>3, <1>11, VisitEnters, VisitTyped
<1>12. CASE Ps
  <2>1. WorldTyped'
    BY <1>12, VisitTyped
  <2>2. pc[Reconciler] = "ps" /\ Reconciler \in Busy
    BY <1>2, <1>12 DEF Ps, Busy
  <2>3. ASSUME Leave(Reconciler), UNCHANGED <<rows, labhost, next, spoiled, answer>>
        PROVE  TypeOK' /\ Actors' /\ Labs'
    <3>1. ActorsTyped' /\ Walk(Reconciler)
      BY <1>2, <2>2, <2>3, LeaveWalks
    <3> QED BY <1>2, <2>1, <2>2, <2>3, <3>1, Typed, WalkActors, StateHolds
  <2> QED BY <1>2, <1>3, <1>12, <2>1, <2>3, PsEnters
<1>13. CASE Pass
  BY <1>2, <1>8, <1>9, <1>11, <1>12, <1>13 DEF Pass
<1>14. ASSUME NEW r \in Request, Serve(r)
       PROVE  TypeOK' /\ Actors' /\ Labs'
  BY <1>2, <1>6, <1>7, <1>8, <1>9, <1>14 DEF Serve
<1> QED BY <1>4, <1>5, <1>10, <1>13, <1>14 DEF Next

\* So does a step of others.
LEMMA StutterHolds == ASSUME IInv, UNCHANGED vars PROVE IInv'
<1> USE DEF vars, labhost, history, Busy
<1>1. TypeOK' /\ Fresh'
  BY DEF IInv, TypeOK, Fresh, RowType
<1>2. Actors'
  BY DEF IInv, Actors, Placed, Met, Alike
<1>3. Labs'
  BY DEF IInv, Labs, Deploying, Reading, Tidy, Empty, Answered, Deploys, Unroutes, RowsOf, Find
<1> QED BY <1>1, <1>2, <1>3 DEF IInv

\* The inductive invariant holds: every actor is where its job has brought it, those
\* that met no clashing actor have found what they rely on, and every lab whose
\* actors met nobody is as its rows and their requests say.
THEOREM InvHolds == Spec => []IInv
<1>1. IInv /\ [Next]_vars => IInv'
  BY NextHolds, StutterHolds
<1> QED BY <1>1, InitHolds, PTL DEF Spec

\* The type invariant, with one row for the project's name in a lab and a row read
\* by everybody at work but a deployment (db/models/lab.py's unique constraint).
THEOREM TypeCorrect == Spec => []TypeOK
<1>1. IInv => TypeOK
  BY DEF IInv
<1> QED BY <1>1, InvHolds, PTL

\* Removals by users and by the reconciler, alone or together, leave nothing of a
\* project behind: no route, and where one lab uses the name no directory and no
\* containers (controller.py:2192, service.py:279, docker_interface.py:665).
THEOREM NothingStrayHolds == Spec => []NothingStray
<1>1. ASSUME IInv PROVE NothingStray
  <2> SUFFICES ASSUME NEW l \in Lab, l \notin spoiled, RowsOf(l) = {},
                      \A a \in Busy : job[a].lab # l
               PROVE  l \notin routed /\ (Lab = {l} => dir = "none" /\ up = "none")
    BY DEF NothingStray
  <2>1. Tidy(l) /\ Empty(l)
    BY <1>1 DEF IInv, Labs
  <2>2. \A a \in Actor : pc[a] # "idle" => job[a].lab # l
    BY DEF Busy
  <2>3. ~Deploys(l)
    BY <1>1, <2>2 DEF IInv, Actors, Placed, Deploys, DeployPc
  <2>4. ~Unroutes(l)
    BY <2>2 DEF Unroutes
  <2> QED BY <2>1, <2>3, <2>4 DEF Tidy, Empty
<1> QED BY <1>1, InvHolds, PTL

\* An answer that met no other request holds until somebody begins something that
\* may change it: a deployed project has its row, its directory and its route, a
\* removed one neither row nor route (controller.py:1814, 2207).
THEOREM AnswersHoldHolds == Spec => []AnswersHold
<1>1. IInv => AnswersHold
  BY DEF IInv, Labs, Answered, AnswersHold
<1> QED BY <1>1, InvHolds, PTL
=============================================================================
