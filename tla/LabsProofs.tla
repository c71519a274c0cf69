----------------------------- MODULE LabsProofs -----------------------------
(***************************************************************************)
(* Proofs about Labs, for any names, requests and bounds: the type         *)
(* invariant, that a lab that was answered for keeps its networks until    *)
(* its deletion begins, that rows of containers go last, and that nothing  *)
(* is left on the lab host that the database does not know of.             *)
(***************************************************************************)
EXTENDS Labs, TLAPS

-----------------------------------------------------------------------------
(* The inductive invariant.                                                *)

CreatePc == {"internal", "internal_row", "external", "external_row", "update", "undo", "undo_lab"}
DeletePc == {"list_boxes", "box", "list_nets", "net", "prune", "boxes_rows", "nets_rows", "lab_row"}
DeployPc == {"make", "store"}

\* A creation works on a lab of its own, which nobody was answered for. Its
\* networks are there unless a deletion has begun.
Creating(r) ==
    /\ job[r].op = "create" /\ lab[r] \in 1..(next - 1) /\ lab[r] \notin ready
    /\ made[r] \subseteq Bridge
    /\ \A n \in made[r] : n.lab = lab[r]
    /\ pc[r] = "internal" => made[r] = {}
    /\ pc[r] \in {"internal_row", "external", "external_row", "update"} =>
        /\ \E n \in made[r] : n.role = "internal"
        /\ lab[r] \notin doomed => made[r] \subseteq bridges
    /\ pc[r] \in {"external_row", "update"} => \E n \in made[r] : n.role = "external"

\* A deletion comes to the rows when the containers that were answered for are
\* gone, unless one of its calls was refused or a deployment crosses it.
Deleting(r) ==
    /\ job[r].op = "delete" /\ lab[r] \in doomed
    /\ pc[r] = "net" => todo[r] \subseteq Bridge /\ \A n \in todo[r] : n.lab = lab[r]
    /\ pc[r] # "list_boxes" =>
        \A c \in kept : c.lab = lab[r] =>
            c \notin boxes \/ (pc[r] = "box" /\ c \in todo[r]) \/ lab[r] \in spoiled

\* A deployment is into a lab that was answered for.
Deploying(r) ==
    /\ job[r].op = "deploy" /\ lab[r] \in ready
    /\ pc[r] = "make" => made[r] \subseteq Bridge
    /\ pc[r] = "store" => made[r] \subseteq Box /\ \A c \in made[r] : c.lab = lab[r] /\ c.id < next

Req(r) ==
    /\ pc[r] = "insert" => job[r].op = "create" /\ lab[r] = 0
    /\ pc[r] \in CreatePc => Creating(r)
    /\ pc[r] \in DeletePc => Deleting(r)
    /\ pc[r] \in DeployPc => Deploying(r)

\* Creations work on different labs, and a deployment that crosses a deletion
\* has spoiled the lab.
Pair(r, s) ==
    /\ pc[r] \in CreatePc /\ pc[s] \in CreatePc /\ r # s => lab[r] # lab[s]
    /\ pc[r] \in DeletePc /\ pc[s] \in DeployPc /\ lab[r] = lab[s] => lab[r] \in spoiled

\* What was answered for has an id of its own, and only such labs have networks
\* to deploy into.
Answered ==
    /\ ready \subseteq 1..(next - 1)
    /\ \A c \in kept : c.lab \in ready /\ c.id < next
    /\ \A w \in labs : w.nets # {} => w.id \in ready

IInv ==
    /\ TypeOK /\ Answered /\ LabsComplete /\ RowsGoLast
    /\ \A r \in Request : Req(r)
    /\ \A r, s \in Request : Pair(r, s)

\* The ids in use grow.
LEMMA Grow ==
    ASSUME TypeOK, next' \in {next, next + 1}
    PROVE  /\ Bridge \subseteq Bridge' /\ Box \subseteq Box' /\ 1..next \subseteq 1..next'
           /\ 1..(next - 1) \subseteq 1..(next' - 1) /\ next' \in Nat \ {0}
<1>1. next \in Nat \ {0} /\ next' \in Nat \ {0} /\ next <= next'
  BY DEF TypeOK
<1>2. \A m, n \in Nat : m <= n => 1..m \subseteq 1..n
  OBVIOUS
<1>3. \A m, n \in Nat \ {0} : m <= n => m - 1 \in Nat /\ n - 1 \in Nat /\ m - 1 <= n - 1
  OBVIOUS
<1>4. 1..next \subseteq 1..next' /\ 1..(next - 1) \subseteq 1..(next' - 1)
  BY <1>1, <1>2, <1>3
<1>5. Bridge \subseteq Bridge'
  BY <1>4 DEF Bridge
<1>6. Box \subseteq Box'
  BY <1>4 DEF Box
<1> QED BY <1>1, <1>4, <1>5, <1>6

\* There are no labs and no requests at the start.
LEMMA InitHolds == Init => IInv
<1> SUFFICES ASSUME Init PROVE IInv
  OBVIOUS
<1>1. TypeOK
  BY BoundAssumption DEF Init, TypeOK
<1>2. Answered /\ LabsComplete /\ RowsGoLast
  BY DEF Init, Answered, LabsComplete, RowsGoLast
<1>3. \A r \in Request : Req(r)
  BY DEF Init, Req, CreatePc, DeletePc, DeployPc
<1>4. \A r, s \in Request : Pair(r, s)
  BY DEF Init, Pair, CreatePc, DeployPc
<1> QED BY <1>1, <1>2, <1>3, <1>4 DEF IInv

\* A call that raises ends its request and changes nothing.
LEMMA RaiseHolds == ASSUME IInv, NEW r \in Request, Raise(r) PROVE IInv'
<1>0. /\ TypeOK /\ next' \in {next, next + 1}
      /\ \A s \in Request : Req(s)
      /\ \A s, t \in Request : Pair(s, t)
  BY DEF Raise, IInv
<1>00. /\ Bridge \subseteq Bridge' /\ Box \subseteq Box' /\ 1..next \subseteq 1..next'
      /\ 1..(next - 1) \subseteq 1..(next' - 1) /\ next' \in Nat \ {0}
  BY <1>0, Grow
<1>1. TypeOK'
  BY <1>0, <1>00, BoundAssumption DEF Raise, database, labhost, history, Leave, Goto, Fault,
      TypeOK
<1>2. Answered'
  BY <1>0, <1>00 DEF Raise, database, history, IInv, Answered
<1>3. LabsComplete'
  BY <1>0, <1>00 DEF Raise, database, labhost, history, IInv, LabsComplete
<1>4. RowsGoLast'
  BY <1>0, <1>00 DEF Raise, database, labhost, history, IInv, RowsGoLast
<1>5. \A s \in Request : Req(s)'
  BY <1>0, <1>00 DEF Raise, labhost, history, Leave, Goto, TypeOK, Req, Creating, Deleting,
      Deploying, CreatePc, DeletePc, DeployPc
<1>6. \A s, t \in Request : Pair(s, t)'
  BY <1>0, <1>00 DEF Raise, history, Leave, Goto, TypeOK, Pair, CreatePc, DeletePc, DeployPc
<1> QED BY <1>1, <1>2, <1>3, <1>4, <1>5, <1>6 DEF IInv

\* create_lab begins without a lab.
LEMMA BeginCreateHolds == ASSUME IInv, NEW r \in Request, BeginCreate(r) PROVE IInv'
<1>0. /\ TypeOK /\ next' \in {next, next + 1}
      /\ \A s \in Request : Req(s)
      /\ \A s, t \in Request : Pair(s, t)
  BY DEF BeginCreate, database, labhost, history, Begin, Goto, Job, IInv
<1>00. /\ Bridge \subseteq Bridge' /\ Box \subseteq Box' /\ 1..next \subseteq 1..next'
      /\ 1..(next - 1) \subseteq 1..(next' - 1) /\ next' \in Nat \ {0}
  BY <1>0, Grow
<1>1. TypeOK'
  BY <1>0, <1>00, BoundAssumption DEF BeginCreate, database, labhost, history, Begin, Goto,
      Job, TypeOK
<1>2. Answered'
  BY <1>0, <1>00 DEF BeginCreate, database, history, IInv, Answered
<1>3. LabsComplete'
  BY <1>0, <1>00 DEF BeginCreate, database, labhost, history, IInv, LabsComplete
<1>4. RowsGoLast'
  BY <1>0, <1>00 DEF BeginCreate, database, labhost, history, IInv, RowsGoLast
<1>5. \A s \in Request : Req(s)'
  BY <1>0, <1>00 DEF BeginCreate, labhost, history, Begin, Goto, TypeOK, Req, Creating,
      Deleting, Deploying, CreatePc, DeletePc, DeployPc
<1>6. \A s, t \in Request : Pair(s, t)'
  BY <1>0, <1>00 DEF BeginCreate, history, Begin, Goto, Pair, CreatePc, DeletePc, DeployPc
<1> QED BY <1>1, <1>2, <1>3, <1>4, <1>5, <1>6 DEF IInv

\* The name is taken or the host is gone: nothing has changed.
LEMMA InsertRefusedHolds == ASSUME IInv, NEW r \in Request, InsertRefused(r) PROVE IInv'
<1>0. /\ TypeOK /\ next' \in {next, next + 1}
      /\ \A s \in Request : Req(s)
      /\ \A s, t \in Request : Pair(s, t)
  BY DEF InsertRefused, IInv
<1>00. /\ Bridge \subseteq Bridge' /\ Box \subseteq Box' /\ 1..next \subseteq 1..next'
      /\ 1..(next - 1) \subseteq 1..(next' - 1) /\ next' \in Nat \ {0}
  BY <1>0, Grow
<1>1. TypeOK'
  BY <1>0, <1>00, BoundAssumption DEF InsertRefused, database, labhost, history, Leave, Goto,
      TypeOK
<1>2. Answered'
  BY <1>0, <1>00 DEF InsertRefused, database, history, IInv, Answered
<1>3. LabsComplete'
  BY <1>0, <1>00 DEF InsertRefused, database, labhost, history, IInv, LabsComplete
<1>4. RowsGoLast'
  BY <1>0, <1>00 DEF InsertRefused, database, labhost, history, IInv, RowsGoLast
<1>5. \A s \in Request : Req(s)'
  BY <1>0, <1>00 DEF InsertRefused, labhost, history, Leave, Goto, TypeOK, Req, Creating,
      Deleting, Deploying, CreatePc, DeletePc, DeployPc
<1>6. \A s, t \in Request : Pair(s, t)'
  BY <1>0, <1>00 DEF InsertRefused, history, Leave, Goto, Pair, CreatePc, DeletePc, DeployPc
<1> QED BY <1>1, <1>2, <1>3, <1>4, <1>5, <1>6 DEF IInv

\* The new lab has an id that no other has had.
LEMMA InsertLabHolds == ASSUME IInv, NEW r \in Request, InsertLab(r) PROVE IInv'
<1>0. /\ TypeOK /\ next' \in {next, next + 1}
      /\ \A s \in Request : Req(s)
      /\ \A s, t \in Request : Pair(s, t)
  BY DEF InsertLab, IInv
<1>00. /\ Bridge \subseteq Bridge' /\ Box \subseteq Box' /\ 1..next \subseteq 1..next'
      /\ 1..(next - 1) \subseteq 1..(next' - 1) /\ next' \in Nat \ {0}
  BY <1>0, Grow
<1>1. TypeOK'
  <2>1. /\ labs' = labs \cup {[id |-> next, name |-> job[r].name, nets |-> {}]}
        /\ next' = next + 1 /\ job[r].name \in Name
        /\ pc' = [pc EXCEPT ![r] = "internal"] /\ lab' = [lab EXCEPT ![r] = next]
        /\ UNCHANGED <<host, netRows, boxRows, bridges, boxes, job, made, todo, jobs, faults,
                       spoiled, ready, kept, doomed>>
    BY <1>0 DEF InsertLab, labhost, history, Goto, Job, TypeOK
  <2>2. labs' \subseteq [id : 1..next', name : Name, nets : SUBSET (1..next')]
    <3>1. labs \subseteq [id : 1..next', name : Name, nets : SUBSET (1..next')]
      BY <1>0, <1>00 DEF TypeOK
    <3>2. [id |-> next, name |-> job[r].name, nets |-> {}]
            \in [id : 1..next', name : Name, nets : SUBSET (1..next')]
      BY <1>0, <1>00, <2>1 DEF TypeOK
    <3> QED BY <2>1, <3>1, <3>2
  <2>3. lab' \in [Request -> 0..next']
    BY <1>0, <1>00, <2>1 DEF TypeOK
  <2>4. /\ netRows' \subseteq Bridge' /\ bridges' \subseteq Bridge'
        /\ boxRows' \subseteq Box' /\ boxes' \subseteq Box' /\ kept' \subseteq Box'
        /\ made' \in [Request -> SUBSET (Bridge' \cup Box')]
        /\ todo' \in [Request -> SUBSET (Bridge' \cup Box')]
    BY <1>0, <1>00, <2>1 DEF TypeOK
  <2>5. spoiled' \cup ready' \cup doomed' \subseteq 1..next'
    BY <1>0, <1>00, <2>1 DEF TypeOK
  <2>6. \A s \in Request :
          /\ pc'[s] # "idle" => job'[s] \in Job
          /\ pc'[s] \in {"idle", "insert"} => made'[s] = {}
          /\ pc'[s] \notin {"box", "net"} => todo'[s] = {}
    BY <1>0, <2>1 DEF TypeOK, InsertLab
  <2>7. pc' \in [Request -> {"idle", "insert", "internal", "internal_row", "external",
                             "external_row", "update", "undo", "undo_lab", "list_boxes",
                             "box", "list_nets", "net", "prune", "boxes_rows", "nets_rows",
                             "lab_row", "make", "store"}]
    BY <1>0, <2>1 DEF TypeOK
  <2> QED BY <1>0, <1>00, <2>1, <2>2, <2>3, <2>4, <2>5, <2>6, <2>7 DEF TypeOK
<1>2. Answered'
  <2>1. /\ labs' = labs \cup {[id |-> next, name |-> job[r].name, nets |-> {}]}
        /\ UNCHANGED <<ready, kept>> /\ Answered /\ next \in Nat /\ next' = next + 1
    BY <1>0 DEF InsertLab, history, IInv, TypeOK
  <2>2. \A c \in kept : c.lab \in ready /\ c.id < next'
    BY <1>0, <2>1 DEF Answered, TypeOK, Box
  <2>3. \A w \in labs' : w.nets # {} => w.id \in ready
    BY <2>1 DEF Answered
  <2> QED BY <1>00, <2>1, <2>2, <2>3 DEF Answered
<1>3. LabsComplete'
  BY <1>0, <1>00 DEF InsertLab, labhost, history, IInv, LabsComplete
<1>4. RowsGoLast'
  BY <1>0, <1>00 DEF InsertLab, labhost, history, IInv, RowsGoLast
<1>5. \A s \in Request : Req(s)'
  <2> SUFFICES ASSUME NEW s \in Request PROVE Req(s)'
    OBVIOUS
  <2>1. /\ pc' = [pc EXCEPT ![r] = "internal"] /\ lab' = [lab EXCEPT ![r] = next]
        /\ next' = next + 1 /\ pc[r] = "insert"
        /\ UNCHANGED <<bridges, boxes, job, made, todo, spoiled, ready, kept, doomed>>
    BY DEF InsertLab, labhost, history, Goto
  <2>2. CASE s = r
    <3>1. made[r] = {} /\ job[r].op = "create" /\ pc'[r] = "internal" /\ lab'[r] = next
      BY <1>0, <2>1 DEF TypeOK, Req
    <3>2. next \notin ready /\ next \in 1..(next' - 1)
      BY <1>0, <2>1 DEF IInv, Answered, TypeOK
    <3> QED BY <2>1, <2>2, <3>1, <3>2 DEF Req, Creating, DeletePc, DeployPc
  <2>3. CASE s # r
    <3>1. pc'[s] = pc[s] /\ lab'[s] = lab[s]
      BY <1>0, <2>1, <2>3 DEF TypeOK
    <3>2. pc[s] \in DeployPc => Deploying(s)'
      <4>1. pc[s] = "store" => \A c \in made[s] : c.id < next'
        BY <1>0, <2>1 DEF Req, Deploying, DeployPc, TypeOK, Box
      <4> QED BY <1>0, <1>00, <2>1, <3>1, <4>1 DEF Req, Deploying
    <3>3. pc[s] \in CreatePc => Creating(s)'
      BY <1>0, <1>00, <2>1, <3>1 DEF Req, Creating
    <3>4. pc[s] \in DeletePc => Deleting(s)'
      BY <1>0, <1>00, <2>1, <3>1 DEF Req, Deleting
    <3> QED BY <1>0, <2>1, <3>1, <3>2, <3>3, <3>4 DEF Req
  <2> QED BY <2>2, <2>3
<1>6. \A s, t \in Request : Pair(s, t)'
  BY <1>0, <1>00 DEF InsertLab, history, Goto, Req, Pair, Creating, DeletePc, DeployPc
<1> QED BY <1>1, <1>2, <1>3, <1>4, <1>5, <1>6 DEF IInv

\* Both networks are there when create_lab answers: LabsComplete's first half.
LEMMA UpdateLabHolds == ASSUME IInv, NEW r \in Request, UpdateLab(r) PROVE IInv'
<1>0. /\ TypeOK /\ next' \in {next, next + 1}
      /\ \A s \in Request : Req(s)
      /\ \A s, t \in Request : Pair(s, t)
  BY DEF UpdateLab, IInv
<1>00. /\ Bridge \subseteq Bridge' /\ Box \subseteq Box' /\ 1..next \subseteq 1..next'
      /\ 1..(next - 1) \subseteq 1..(next' - 1) /\ next' \in Nat \ {0}
  BY <1>0, Grow
<1>01. pc[r] = "update" /\ Creating(r) /\ made[r] \subseteq Bridge
  BY <1>0 DEF UpdateLab, Req, Creating, CreatePc
<1>02. labs' \subseteq [id : 1..next, name : Name, nets : SUBSET (1..next)]
  <2>1. {n.id : n \in made[r]} \subseteq 1..next
    BY <1>01 DEF Bridge
  <2> QED BY <1>0, <2>1 DEF UpdateLab, TypeOK
<1>1. TypeOK'
  <2>1. /\ UNCHANGED <<host, netRows, boxRows, bridges, boxes, next, jobs, faults, spoiled, kept, doomed>>
        /\ ready' \subseteq ready \cup {lab[r]} /\ lab[r] \in 1..(next - 1)
    BY <1>01 DEF UpdateLab, labhost, Creating
  <2>2. ready' \subseteq 1..next
    BY <1>0, <2>1 DEF TypeOK
  <2>3. /\ pc' \in [Request -> {"idle", "insert", "internal", "internal_row", "external",
                                "external_row", "update", "undo", "undo_lab", "list_boxes",
                                "box", "list_nets", "net", "prune", "boxes_rows", "nets_rows",
                                "lab_row", "make", "store"}]
        /\ job' \in [Request -> Job \cup {NoJob}] /\ lab' \in [Request -> 0..next]
        /\ made' \in [Request -> SUBSET (Bridge \cup Box)]
        /\ todo' \in [Request -> SUBSET (Bridge \cup Box)]
    BY <1>0, <1>01 DEF UpdateLab, local, Leave, Goto, Recover, TypeOK
  <2>4. \A s \in Request :
          /\ pc'[s] # "idle" => job'[s] \in Job
          /\ pc'[s] \in {"idle", "insert"} => made'[s] = {}
          /\ pc'[s] \notin {"box", "net"} => todo'[s] = {}
    BY <1>0, <1>01 DEF UpdateLab, local, Leave, Goto, Recover, TypeOK
  <2> QED BY <1>0, <1>02, <2>1, <2>2, <2>3, <2>4 DEF TypeOK, Bridge, Box
<1>2. Answered'
  BY <1>0, <1>00 DEF UpdateLab, IInv, TypeOK, Answered, Req, Creating, CreatePc
<1>3. LabsComplete'
  <2> SUFFICES ASSUME NEW l \in ready' \ doomed'
               PROVE  \E w \in labs' : /\ w.id = l
                        /\ \A role \in Role : \E n \in netRows' \cap bridges' :
                              n.lab = l /\ n.role = role /\ n.id \in w.nets
    BY DEF LabsComplete
  <2>0. UNCHANGED <<netRows, bridges, doomed>>
    BY DEF UpdateLab, labhost
  <2>1. CASE labs' = labs /\ ready' = ready
    BY <2>0, <2>1 DEF IInv, LabsComplete
  <2>2. CASE /\ IsLab(lab[r]) /\ made[r] \subseteq netRows
             /\ labs' = {IF w.id = lab[r] THEN [w EXCEPT !.nets = {n.id : n \in made[r]}]
                         ELSE w : w \in labs}
             /\ ready' = ready \cup {lab[r]}
    <3>1. CASE l = lab[r]
      <4>1. PICK w \in labs : w.id = l
        BY <2>2, <3>1 DEF IsLab
      <4> DEFINE v == [w EXCEPT !.nets = {n.id : n \in made[r]}]
      <4>2. v \in labs'
        BY <2>2, <3>1, <4>1
      <4>3. v.id = l /\ v.nets = {n.id : n \in made[r]}
        BY <1>0, <4>1 DEF TypeOK
      <4>4. /\ \A role \in Role : \E n \in made[r] : n.role = role
            /\ \A n \in made[r] : n.lab = l /\ n \in netRows' \cap bridges'
        BY <1>01, <2>0, <2>2, <3>1 DEF Creating, Role
      <4> HIDE DEF v
      <4> QED BY <4>2, <4>3, <4>4
    <3>2. CASE l # lab[r]
      <4>1. l \in ready \ doomed
        BY <2>0, <2>2, <3>2
      <4>2. PICK w \in labs : /\ w.id = l
                              /\ \A role \in Role : \E n \in netRows \cap bridges :
                                    n.lab = l /\ n.role = role /\ n.id \in w.nets
        BY <4>1 DEF IInv, LabsComplete
      <4>3. w \in labs'
        BY <2>2, <3>2, <4>2
      <4> QED BY <2>0, <4>2, <4>3
    <3> QED BY <3>1, <3>2
  <2> QED BY <2>1, <2>2 DEF UpdateLab
<1>4. RowsGoLast'
  BY <1>0, <1>00 DEF UpdateLab, labhost, IInv, RowsGoLast
<1>5. \A s \in Request : Req(s)'
  BY <1>0, <1>00 DEF UpdateLab, labhost, local, Leave, Goto, Recover, TypeOK, Req, Pair,
      Creating, Deleting, Deploying, CreatePc, DeletePc, DeployPc
<1>6. \A s, t \in Request : Pair(s, t)'
  BY <1>0, <1>00 DEF UpdateLab, local, Leave, Goto, Recover, TypeOK, Pair, CreatePc, DeletePc,
      DeployPc
<1> QED BY <1>1, <1>2, <1>3, <1>4, <1>5, <1>6 DEF IInv

\* The compensation removes networks of its own lab, which nobody was answered for.
LEMMA UndoNetHolds == ASSUME IInv, NEW r \in Request, UndoNet(r) PROVE IInv'
<1>0. /\ TypeOK /\ next' \in {next, next + 1}
      /\ \A s \in Request : Req(s)
      /\ \A s, t \in Request : Pair(s, t)
  BY DEF UndoNet, IInv
<1>00. /\ Bridge \subseteq Bridge' /\ Box \subseteq Box' /\ 1..next \subseteq 1..next'
      /\ 1..(next - 1) \subseteq 1..(next' - 1) /\ next' \in Nat \ {0}
  BY <1>0, Grow
<1>1. TypeOK'
  BY <1>0, <1>00, BoundAssumption DEF UndoNet, database, Goto, Fault, TypeOK, Req, Creating,
      CreatePc
<1>2. Answered'
  BY <1>0, <1>00 DEF UndoNet, database, IInv, Answered
<1>3. LabsComplete'
  BY <1>0, <1>00 DEF UndoNet, database, IInv, LabsComplete, Req, Creating, CreatePc
<1>4. RowsGoLast'
  BY <1>0, <1>00 DEF UndoNet, database, Goto, Fault, InUse, IInv, TypeOK, RowsGoLast,
      Answered, Req, Creating, Deleting, CreatePc, DeletePc
<1>5. \A s \in Request : Req(s)'
  BY <1>0, <1>00 DEF UndoNet, Goto, Req, Pair, Creating, Deleting, Deploying, CreatePc,
      DeletePc, DeployPc
<1>6. \A s, t \in Request : Pair(s, t)'
  BY <1>0, <1>00 DEF UndoNet, Goto, Pair, CreatePc, DeletePc, DeployPc
<1> QED BY <1>1, <1>2, <1>3, <1>4, <1>5, <1>6 DEF IInv

\* ... and the row of that lab.
LEMMA UndoLabHolds == ASSUME IInv, NEW r \in Request, UndoLab(r) PROVE IInv'
<1>0. /\ TypeOK /\ next' \in {next, next + 1}
      /\ \A s \in Request : Req(s)
      /\ \A s, t \in Request : Pair(s, t)
  BY DEF UndoLab, IInv
<1>00. /\ Bridge \subseteq Bridge' /\ Box \subseteq Box' /\ 1..next \subseteq 1..next'
      /\ 1..(next - 1) \subseteq 1..(next' - 1) /\ next' \in Nat \ {0}
  BY <1>0, Grow
<1>1. TypeOK'
  BY <1>0, <1>00, BoundAssumption DEF UndoLab, labhost, history, Leave, Goto, DropLab, TypeOK
<1>2. Answered'
  BY <1>0, <1>00 DEF UndoLab, history, DropLab, IInv, Answered
<1>3. LabsComplete'
  BY <1>0, <1>00 DEF UndoLab, labhost, history, DropLab, RowsOf, IInv, LabsComplete, Req,
      Creating, CreatePc
<1>4. RowsGoLast'
  BY <1>0, <1>00 DEF UndoLab, labhost, history, DropLab, RowsOf, IInv, RowsGoLast, Answered,
      Req, Creating, CreatePc
<1>5. \A s \in Request : Req(s)'
  BY <1>0, <1>00 DEF UndoLab, labhost, history, Leave, Goto, TypeOK, Req, Creating, Deleting,
      Deploying, CreatePc, DeletePc, DeployPc
<1>6. \A s, t \in Request : Pair(s, t)'
  BY <1>0, <1>00 DEF UndoLab, history, Leave, Goto, Req, Pair, Creating, CreatePc, DeletePc,
      DeployPc
<1> QED BY <1>1, <1>2, <1>3, <1>4, <1>5, <1>6 DEF IInv

\* delete_lab dooms the lab before it removes anything of it.
LEMMA BeginDeleteHolds == ASSUME IInv, NEW r \in Request, BeginDelete(r) PROVE IInv'
<1>0. /\ TypeOK /\ next' \in {next, next + 1}
      /\ \A s \in Request : Req(s)
      /\ \A s, t \in Request : Pair(s, t)
  BY DEF BeginDelete, IInv
<1>00. /\ Bridge \subseteq Bridge' /\ Box \subseteq Box' /\ 1..next \subseteq 1..next'
      /\ 1..(next - 1) \subseteq 1..(next' - 1) /\ next' \in Nat \ {0}
  BY <1>0, Grow
<1>1. TypeOK'
  BY <1>0, <1>00, BoundAssumption DEF BeginDelete, database, labhost, Begin, Goto, Clash, Job,
      TypeOK
<1>2. Answered'
  BY <1>0, <1>00 DEF BeginDelete, database, IInv, Answered
<1>3. LabsComplete'
  BY <1>0, <1>00 DEF BeginDelete, database, labhost, IInv, LabsComplete
<1>4. RowsGoLast'
  BY <1>0, <1>00 DEF BeginDelete, database, labhost, Clash, IInv, RowsGoLast
<1>5. \A s \in Request : Req(s)'
  BY <1>0, <1>00 DEF BeginDelete, labhost, Begin, Goto, Clash, TypeOK, Req, Creating,
      Deleting, Deploying, CreatePc, DeployPc
<1>6. \A s, t \in Request : Pair(s, t)'
  BY <1>0, <1>00 DEF BeginDelete, Begin, Goto, Clash, Working, TypeOK, Req, Pair, Deploying,
      CreatePc, DeployPc
<1> QED BY <1>1, <1>2, <1>3, <1>4, <1>5, <1>6 DEF IInv

\* Every container that was answered for and is there is on the list.
LEMMA ListBoxesHolds == ASSUME IInv, NEW r \in Request, ListBoxes(r) PROVE IInv'
<1>0. /\ TypeOK /\ next' \in {next, next + 1}
      /\ \A s \in Request : Req(s)
      /\ \A s, t \in Request : Pair(s, t)
  BY DEF ListBoxes, IInv
<1>00. /\ Bridge \subseteq Bridge' /\ Box \subseteq Box' /\ 1..next \subseteq 1..next'
      /\ 1..(next - 1) \subseteq 1..(next' - 1) /\ next' \in Nat \ {0}
  BY <1>0, Grow
<1>1. TypeOK'
  BY <1>0, <1>00, BoundAssumption DEF ListBoxes, database, labhost, history, Loop, Goto,
      RowsOf, TypeOK
<1>2. Answered'
  BY <1>0, <1>00 DEF ListBoxes, database, history, IInv, Answered
<1>3. LabsComplete'
  BY <1>0, <1>00 DEF ListBoxes, database, labhost, history, IInv, LabsComplete
<1>4. RowsGoLast'
  BY <1>0, <1>00 DEF ListBoxes, database, labhost, history, IInv, RowsGoLast
<1>5. \A s \in Request : Req(s)'
  <2> SUFFICES ASSUME NEW s \in Request PROVE Req(s)'
    OBVIOUS
  <2>1. /\ pc[r] = "list_boxes" /\ todo' = [todo EXCEPT ![r] = RowsOf(boxRows, lab[r])]
        /\ pc' = [pc EXCEPT ![r] = IF RowsOf(boxRows, lab[r]) = {} THEN "list_nets" ELSE "box"]
        /\ UNCHANGED <<boxRows, bridges, boxes, job, lab, made, next, spoiled, ready, kept, doomed>>
    BY DEF ListBoxes, database, labhost, history, Loop, Goto
  <2>2. CASE s = r
    <3>1. \A c \in kept : c.lab = lab[r] =>
             c \notin boxes \/ c \in RowsOf(boxRows, lab[r]) \/ lab[r] \in spoiled
      BY DEF IInv, RowsGoLast, RowsOf
    <3>2. /\ todo'[r] = RowsOf(boxRows, lab[r])
          /\ pc'[r] = IF RowsOf(boxRows, lab[r]) = {} THEN "list_nets" ELSE "box"
      BY <1>0, <2>1 DEF TypeOK
    <3> QED BY <1>0, <2>1, <2>2, <3>1, <3>2 DEF Req, Deleting, CreatePc, DeletePc, DeployPc
  <2>3. CASE s # r
    <3>1. pc'[s] = pc[s] /\ todo'[s] = todo[s]
      BY <1>0, <2>1, <2>3 DEF TypeOK
    <3> QED BY <1>0, <2>1, <3>1 DEF Req, Creating, Deleting, Deploying, Bridge, Box
  <2> QED BY <2>2, <2>3
<1>6. \A s, t \in Request : Pair(s, t)'
  BY <1>0, <1>00 DEF ListBoxes, history, Loop, Goto, Pair, CreatePc, DeletePc, DeployPc
<1> QED BY <1>1, <1>2, <1>3, <1>4, <1>5, <1>6 DEF IInv

\* A container is removed, or its removal refused, which spoils the lab.
LEMMA RemoveBoxHolds == ASSUME IInv, NEW r \in Request, RemoveBox(r) PROVE IInv'
<1>0. /\ TypeOK /\ next' \in {next, next + 1}
      /\ \A s \in Request : Req(s)
      /\ \A s, t \in Request : Pair(s, t)
  BY DEF RemoveBox, IInv
<1>00. /\ Bridge \subseteq Bridge' /\ Box \subseteq Box' /\ 1..next \subseteq 1..next'
      /\ 1..(next - 1) \subseteq 1..(next' - 1) /\ next' \in Nat \ {0}
  BY <1>0, Grow
<1>1. TypeOK'
  <2>1. PICK x \in todo[r] : Loop(r, todo[r] \ {x}, "box", "list_nets")
    BY DEF RemoveBox
  <2>2. /\ boxes' \subseteq boxes /\ faults' \in 0..MaxFaults /\ spoiled' \subseteq spoiled \cup {lab[r]}
        /\ UNCHANGED <<database, bridges, job, lab, made, next, jobs, ready, kept, doomed>>
    BY <1>0, BoundAssumption DEF RemoveBox, Fault, TypeOK
  <2>3. lab[r] \in doomed /\ pc[r] = "box"
    BY <1>0 DEF RemoveBox, Req, Deleting, DeletePc
  <2>4. todo' \in [Request -> SUBSET (Bridge \cup Box)]
    BY <1>0, <2>1 DEF Loop, TypeOK
  <2>5. \A s \in Request : pc'[s] \notin {"box", "net"} => todo'[s] = {}
    BY <1>0, <2>1, <2>3 DEF Loop, Goto, TypeOK
  <2>6. \A s \in Request : /\ pc'[s] # "idle" => job'[s] \in Job
                           /\ pc'[s] \in {"idle", "insert"} => made'[s] = {}
    BY <1>0, <2>1, <2>2, <2>3 DEF Loop, Goto, TypeOK
  <2>7. pc' \in [Request -> {"idle", "insert", "internal", "internal_row", "external",
                             "external_row", "update", "undo", "undo_lab", "list_boxes",
                             "box", "list_nets", "net", "prune", "boxes_rows", "nets_rows",
                             "lab_row", "make", "store"}]
    BY <1>0, <2>1 DEF Loop, Goto, TypeOK
  <2> QED BY <1>0, <2>2, <2>3, <2>4, <2>5, <2>6, <2>7 DEF database, TypeOK, Bridge, Box
<1>2. Answered'
  BY <1>0, <1>00 DEF RemoveBox, database, IInv, Answered
<1>3. LabsComplete'
  BY <1>0, <1>00 DEF RemoveBox, database, IInv, LabsComplete
<1>4. RowsGoLast'
  BY <1>0, <1>00 DEF RemoveBox, database, IInv, RowsGoLast
<1>5. \A s \in Request : Req(s)'
  BY <1>0, <1>00 DEF RemoveBox, Loop, Goto, Req, Creating, Deleting, Deploying, CreatePc,
      DeletePc, DeployPc
<1>6. \A s, t \in Request : Pair(s, t)'
  BY <1>0, <1>00 DEF RemoveBox, Loop, Goto, Pair, CreatePc, DeletePc, DeployPc
<1> QED BY <1>1, <1>2, <1>3, <1>4, <1>5, <1>6 DEF IInv

\* The networks listed are of the lab.
LEMMA ListNetsHolds == ASSUME IInv, NEW r \in Request, ListNets(r) PROVE IInv'
<1>0. /\ TypeOK /\ next' \in {next, next + 1}
      /\ \A s \in Request : Req(s)
      /\ \A s, t \in Request : Pair(s, t)
  BY DEF ListNets, IInv
<1>00. /\ Bridge \subseteq Bridge' /\ Box \subseteq Box' /\ 1..next \subseteq 1..next'
      /\ 1..(next - 1) \subseteq 1..(next' - 1) /\ next' \in Nat \ {0}
  BY <1>0, Grow
<1>1. TypeOK'
  BY <1>0, <1>00, BoundAssumption DEF ListNets, database, labhost, history, Loop, Goto,
      RowsOf, TypeOK
<1>2. Answered'
  BY <1>0, <1>00 DEF ListNets, database, history, IInv, Answered
<1>3. LabsComplete'
  BY <1>0, <1>00 DEF ListNets, database, labhost, history, IInv, LabsComplete
<1>4. RowsGoLast'
  BY <1>0, <1>00 DEF ListNets, database, labhost, history, IInv, RowsGoLast
<1>5. \A s \in Request : Req(s)'
  BY <1>0, <1>00 DEF ListNets, labhost, history, Loop, Goto, RowsOf, TypeOK, Req, Creating,
      Deleting, Deploying, CreatePc, DeletePc, DeployPc
<1>6. \A s, t \in Request : Pair(s, t)'
  BY <1>0, <1>00 DEF ListNets, history, Loop, Goto, Pair, CreatePc, DeletePc, DeployPc
<1> QED BY <1>1, <1>2, <1>3, <1>4, <1>5, <1>6 DEF IInv

\* A network of a doomed lab is removed.
LEMMA RemoveNetHolds == ASSUME IInv, NEW r \in Request, RemoveNet(r) PROVE IInv'
<1>0. /\ TypeOK /\ next' \in {next, next + 1}
      /\ \A s \in Request : Req(s)
      /\ \A s, t \in Request : Pair(s, t)
  BY DEF RemoveNet, IInv
<1>00. /\ Bridge \subseteq Bridge' /\ Box \subseteq Box' /\ 1..next \subseteq 1..next'
      /\ 1..(next - 1) \subseteq 1..(next' - 1) /\ next' \in Nat \ {0}
  BY <1>0, Grow
<1>1. TypeOK'
  <2>1. PICK x \in todo[r] : Loop(r, todo[r] \ {x}, "net", "prune")
    BY DEF RemoveNet
  <2>2. /\ bridges' \subseteq bridges /\ faults' \in 0..MaxFaults /\ spoiled' \subseteq spoiled \cup {lab[r]}
        /\ UNCHANGED <<database, boxes, job, lab, made, next, jobs, ready, kept, doomed>>
    BY <1>0, BoundAssumption DEF RemoveNet, Fault, TypeOK
  <2>3. lab[r] \in doomed /\ pc[r] = "net"
    BY <1>0 DEF RemoveNet, Req, Deleting, DeletePc
  <2>4. todo' \in [Request -> SUBSET (Bridge \cup Box)]
    BY <1>0, <2>1 DEF Loop, TypeOK
  <2>5. \A s \in Request : pc'[s] \notin {"box", "net"} => todo'[s] = {}
    BY <1>0, <2>1, <2>3 DEF Loop, Goto, TypeOK
  <2>6. \A s \in Request : /\ pc'[s] # "idle" => job'[s] \in Job
                           /\ pc'[s] \in {"idle", "insert"} => made'[s] = {}
    BY <1>0, <2>1, <2>2, <2>3 DEF Loop, Goto, TypeOK
  <2>7. pc' \in [Request -> {"idle", "insert", "internal", "internal_row", "external",
                             "external_row", "update", "undo", "undo_lab", "list_boxes",
                             "box", "list_nets", "net", "prune", "boxes_rows", "nets_rows",
                             "lab_row", "make", "store"}]
    BY <1>0, <2>1 DEF Loop, Goto, TypeOK
  <2> QED BY <1>0, <2>2, <2>3, <2>4, <2>5, <2>6, <2>7 DEF database, TypeOK, Bridge, Box
<1>2. Answered'
  BY <1>0, <1>00 DEF RemoveNet, database, IInv, Answered
<1>3. LabsComplete'
  BY <1>0, <1>00 DEF RemoveNet, database, IInv, LabsComplete, Req, Deleting, DeletePc
<1>4. RowsGoLast'
  BY <1>0, <1>00 DEF RemoveNet, database, IInv, RowsGoLast
<1>5. \A s \in Request : Req(s)'
  BY <1>0, <1>00 DEF RemoveNet, Loop, Goto, Req, Creating, Deleting, Deploying, CreatePc,
      DeletePc, DeployPc
<1>6. \A s, t \in Request : Pair(s, t)'
  BY <1>0, <1>00 DEF RemoveNet, Loop, Goto, Pair, CreatePc, DeletePc, DeployPc
<1> QED BY <1>1, <1>2, <1>3, <1>4, <1>5, <1>6 DEF IInv

\* The call of a deletion that raises has been carried out.
LEMMA RaiseLateHolds == ASSUME IInv, NEW r \in Request, RaiseLate(r) PROVE IInv'
<1>0. /\ TypeOK /\ next' \in {next, next + 1}
      /\ \A s \in Request : Req(s)
      /\ \A s, t \in Request : Pair(s, t)
  BY DEF RaiseLate, IInv
<1>00. /\ Bridge \subseteq Bridge' /\ Box \subseteq Box' /\ 1..next \subseteq 1..next'
      /\ 1..(next - 1) \subseteq 1..(next' - 1) /\ next' \in Nat \ {0}
  BY <1>0, Grow
<1>1. TypeOK'
  BY <1>0, <1>00, BoundAssumption DEF RaiseLate, database, history, Leave, Goto, Fault, TypeOK
<1>2. Answered'
  BY <1>0, <1>00 DEF RaiseLate, database, history, IInv, Answered
<1>3. LabsComplete'
  BY <1>0, <1>00 DEF RaiseLate, database, history, IInv, LabsComplete, Req, Deleting, DeletePc
<1>4. RowsGoLast'
  BY <1>0, <1>00 DEF RaiseLate, database, history, IInv, RowsGoLast
<1>5. \A s \in Request : Req(s)'
  BY <1>0, <1>00 DEF RaiseLate, history, Leave, Goto, TypeOK, Req, Creating, Deleting,
      Deploying, CreatePc, DeletePc, DeployPc
<1>6. \A s, t \in Request : Pair(s, t)'
  BY <1>0, <1>00 DEF RaiseLate, history, Leave, Goto, TypeOK, Pair, CreatePc, DeletePc, DeployPc
<1> QED BY <1>1, <1>2, <1>3, <1>4, <1>5, <1>6 DEF IInv

\* Pruning volumes changes nothing that is kept here.
LEMMA PruneHolds == ASSUME IInv, NEW r \in Request, Prune(r) PROVE IInv'
<1>0. /\ TypeOK /\ next' \in {next, next + 1}
      /\ \A s \in Request : Req(s)
      /\ \A s, t \in Request : Pair(s, t)
  BY DEF Prune, IInv
<1>00. /\ Bridge \subseteq Bridge' /\ Box \subseteq Box' /\ 1..next \subseteq 1..next'
      /\ 1..(next - 1) \subseteq 1..(next' - 1) /\ next' \in Nat \ {0}
  BY <1>0, Grow
<1>1. TypeOK'
  BY <1>0, <1>00, BoundAssumption DEF Prune, database, labhost, history, local, Goto, TypeOK
<1>2. Answered'
  BY <1>0, <1>00 DEF Prune, database, history, IInv, Answered
<1>3. LabsComplete'
  BY <1>0, <1>00 DEF Prune, database, labhost, history, IInv, LabsComplete
<1>4. RowsGoLast'
  BY <1>0, <1>00 DEF Prune, database, labhost, history, IInv, RowsGoLast
<1>5. \A s \in Request : Req(s)'
  BY <1>0, <1>00 DEF Prune, labhost, history, local, Goto, Req, Creating, Deleting, Deploying,
      CreatePc, DeletePc, DeployPc
<1>6. \A s, t \in Request : Pair(s, t)'
  BY <1>0, <1>00 DEF Prune, history, local, Goto, Pair, CreatePc, DeletePc, DeployPc
<1> QED BY <1>1, <1>2, <1>3, <1>4, <1>5, <1>6 DEF IInv

\* The containers' rows go: those answered for are gone, or the lab is spoiled.
LEMMA DropBoxRowsHolds == ASSUME IInv, NEW r \in Request, DropBoxRows(r) PROVE IInv'
<1>0. /\ TypeOK /\ next' \in {next, next + 1}
      /\ \A s \in Request : Req(s)
      /\ \A s, t \in Request : Pair(s, t)
  BY DEF DropBoxRows, IInv
<1>00. /\ Bridge \subseteq Bridge' /\ Box \subseteq Box' /\ 1..next \subseteq 1..next'
      /\ 1..(next - 1) \subseteq 1..(next' - 1) /\ next' \in Nat \ {0}
  BY <1>0, Grow
<1>1. TypeOK'
  BY <1>0, <1>00, BoundAssumption DEF DropBoxRows, labhost, history, local, Goto, TypeOK
<1>2. Answered'
  BY <1>0, <1>00 DEF DropBoxRows, history, IInv, Answered
<1>3. LabsComplete'
  BY <1>0, <1>00 DEF DropBoxRows, labhost, history, IInv, LabsComplete
<1>4. RowsGoLast'
  BY <1>0, <1>00 DEF DropBoxRows, labhost, history, RowsOf, IInv, RowsGoLast, Req, Deleting,
      DeletePc
<1>5. \A s \in Request : Req(s)'
  BY <1>0, <1>00 DEF DropBoxRows, labhost, history, local, Goto, Req, Creating, Deleting,
      Deploying, CreatePc, DeletePc, DeployPc
<1>6. \A s, t \in Request : Pair(s, t)'
  BY <1>0, <1>00 DEF DropBoxRows, history, local, Goto, Pair, CreatePc, DeletePc, DeployPc
<1> QED BY <1>1, <1>2, <1>3, <1>4, <1>5, <1>6 DEF IInv

\* The networks' rows go.
LEMMA DropNetRowsHolds == ASSUME IInv, NEW r \in Request, DropNetRows(r) PROVE IInv'
<1>0. /\ TypeOK /\ next' \in {next, next + 1}
      /\ \A s \in Request : Req(s)
      /\ \A s, t \in Request : Pair(s, t)
  BY DEF DropNetRows, IInv
<1>00. /\ Bridge \subseteq Bridge' /\ Box \subseteq Box' /\ 1..next \subseteq 1..next'
      /\ 1..(next - 1) \subseteq 1..(next' - 1) /\ next' \in Nat \ {0}
  BY <1>0, Grow
<1>1. TypeOK'
  BY <1>0, <1>00, BoundAssumption DEF DropNetRows, labhost, history, local, Goto, TypeOK
<1>2. Answered'
  BY <1>0, <1>00 DEF DropNetRows, history, IInv, TypeOK, Answered
<1>3. LabsComplete'
  BY <1>0, <1>00 DEF DropNetRows, labhost, history, RowsOf, IInv, LabsComplete, Req, Deleting,
      DeletePc
<1>4. RowsGoLast'
  BY <1>0, <1>00 DEF DropNetRows, labhost, history, IInv, RowsGoLast
<1>5. \A s \in Request : Req(s)'
  BY <1>0, <1>00 DEF DropNetRows, labhost, history, local, Goto, Req, Creating, Deleting,
      Deploying, CreatePc, DeletePc, DeployPc
<1>6. \A s, t \in Request : Pair(s, t)'
  BY <1>0, <1>00 DEF DropNetRows, history, local, Goto, Pair, CreatePc, DeletePc, DeployPc
<1> QED BY <1>1, <1>2, <1>3, <1>4, <1>5, <1>6 DEF IInv

\* The lab's row goes, and those of its containers with it.
LEMMA DropLabRowHolds == ASSUME IInv, NEW r \in Request, DropLabRow(r) PROVE IInv'
<1>0. /\ TypeOK /\ next' \in {next, next + 1}
      /\ \A s \in Request : Req(s)
      /\ \A s, t \in Request : Pair(s, t)
  BY DEF DropLabRow, IInv
<1>00. /\ Bridge \subseteq Bridge' /\ Box \subseteq Box' /\ 1..next \subseteq 1..next'
      /\ 1..(next - 1) \subseteq 1..(next' - 1) /\ next' \in Nat \ {0}
  BY <1>0, Grow
<1>1. TypeOK'
  BY <1>0, <1>00, BoundAssumption DEF DropLabRow, labhost, history, Leave, Goto, DropLab, TypeOK
<1>2. Answered'
  BY <1>0, <1>00 DEF DropLabRow, history, DropLab, IInv, Answered
<1>3. LabsComplete'
  BY <1>0, <1>00 DEF DropLabRow, labhost, history, DropLab, RowsOf, IInv, LabsComplete, Req,
      Deleting, DeletePc
<1>4. RowsGoLast'
  BY <1>0, <1>00 DEF DropLabRow, labhost, history, DropLab, RowsOf, IInv, RowsGoLast, Req,
      Deleting, DeletePc
<1>5. \A s \in Request : Req(s)'
  BY <1>0, <1>00 DEF DropLabRow, labhost, history, Leave, Goto, TypeOK, Req, Creating,
      Deleting, Deploying, CreatePc, DeletePc, DeployPc
<1>6. \A s, t \in Request : Pair(s, t)'
  BY <1>0, <1>00 DEF DropLabRow, history, Leave, Goto, TypeOK, Pair, CreatePc, DeletePc, DeployPc
<1> QED BY <1>1, <1>2, <1>3, <1>4, <1>5, <1>6 DEF IInv

\* A deployment finds a lab with networks, which was answered for.
LEMMA BeginDeployHolds == ASSUME IInv, NEW r \in Request, BeginDeploy(r) PROVE IInv'
<1>0. /\ TypeOK /\ next' \in {next, next + 1}
      /\ \A s \in Request : Req(s)
      /\ \A s, t \in Request : Pair(s, t)
  BY DEF BeginDeploy, IInv
<1>00. /\ Bridge \subseteq Bridge' /\ Box \subseteq Box' /\ 1..next \subseteq 1..next'
      /\ 1..(next - 1) \subseteq 1..(next' - 1) /\ next' \in Nat \ {0}
  BY <1>0, Grow
<1>1. TypeOK'
  BY <1>0, <1>00, BoundAssumption DEF BeginDeploy, database, labhost, Begin, Goto, Clash, Job,
      TypeOK
<1>2. Answered'
  BY <1>0, <1>00 DEF BeginDeploy, database, IInv, Answered
<1>3. LabsComplete'
  BY <1>0, <1>00 DEF BeginDeploy, database, labhost, IInv, LabsComplete
<1>4. RowsGoLast'
  BY <1>0, <1>00 DEF BeginDeploy, database, labhost, Clash, IInv, RowsGoLast
<1>5. \A s \in Request : Req(s)'
  BY <1>0, <1>00 DEF BeginDeploy, labhost, Begin, Goto, Clash, IInv, TypeOK, Answered, Req,
      Creating, Deleting, Deploying, CreatePc, DeletePc
<1>6. \A s, t \in Request : Pair(s, t)'
  BY <1>0, <1>00 DEF BeginDeploy, Begin, Goto, Clash, Working, TypeOK, Req, Pair, Deleting,
      CreatePc, DeletePc
<1> QED BY <1>1, <1>2, <1>3, <1>4, <1>5, <1>6 DEF IInv

\* A container is made with a new id.
LEMMA MakeHolds == ASSUME IInv, NEW r \in Request, Make(r) PROVE IInv'
<1>0. /\ TypeOK /\ next' \in {next, next + 1}
      /\ \A s \in Request : Req(s)
      /\ \A s, t \in Request : Pair(s, t)
  BY DEF Make, IInv
<1>00. /\ Bridge \subseteq Bridge' /\ Box \subseteq Box' /\ 1..next \subseteq 1..next'
      /\ 1..(next - 1) \subseteq 1..(next' - 1) /\ next' \in Nat \ {0}
  BY <1>0, Grow
<1>01. /\ labs \subseteq [id : 1..next', name : Name, nets : SUBSET (1..next')]
       /\ netRows \subseteq Bridge' /\ bridges \subseteq Bridge'
       /\ boxRows \subseteq Box' /\ boxes \subseteq Box' /\ kept \subseteq Box'
       /\ made \in [Request -> SUBSET (Bridge' \cup Box')]
       /\ todo \in [Request -> SUBSET (Bridge' \cup Box')]
       /\ lab \in [Request -> 0..next'] /\ spoiled \cup ready \cup doomed \subseteq 1..next'
  BY <1>0, <1>00 DEF TypeOK
<1>02. PICK n \in made[r] :
         IF n \in bridges
         THEN /\ boxes' = boxes \cup {[id |-> next, lab |-> lab[r], net |-> n.id]}
              /\ made' = [made EXCEPT ![r] = {[id |-> next, lab |-> lab[r], net |-> n.id]}]
              /\ next' = next + 1 /\ pc' = [pc EXCEPT ![r] = "store"]
              /\ UNCHANGED <<job, lab, todo>>
         ELSE Leave(r) /\ UNCHANGED <<boxes, next>>
  BY DEF Make, Goto
<1>03. /\ UNCHANGED <<host, labs, netRows, boxRows, bridges, jobs, faults, spoiled, ready, kept, doomed>>
       /\ pc[r] = "make" /\ Deploying(r) /\ next \in Nat \ {0} /\ Answered
  BY <1>0 DEF Make, database, history, Req, DeployPc, IInv, TypeOK
<1>1. TypeOK'
  <2>1. CASE n \in bridges
    <3> DEFINE box == [id |-> next, lab |-> lab[r], net |-> n.id]
    <3>1. box \in Box'
      <4>1. next \in 1..next' /\ lab[r] \in 1..next' /\ n.id \in 1..next'
        BY <1>0, <1>00, <1>01, <1>02, <1>03, <2>1 DEF Deploying, Bridge
      <4> QED BY <4>1 DEF Box
    <3> HIDE DEF box
    <3>2. /\ boxes' = boxes \cup {box} /\ made' = [made EXCEPT ![r] = {box}]
          /\ pc' = [pc EXCEPT ![r] = "store"] /\ UNCHANGED <<job, lab, todo>>
      BY <1>02, <2>1 DEF box
    <3>3. /\ pc' \in [Request -> {"idle", "insert", "internal", "internal_row", "external",
                             "external_row", "update", "undo", "undo_lab", "list_boxes",
                             "box", "list_nets", "net", "prune", "boxes_rows", "nets_rows",
                             "lab_row", "make", "store"}]
          /\ made' \in [Request -> SUBSET (Bridge' \cup Box')]
      BY <1>0, <1>01, <3>1, <3>2 DEF TypeOK
    <3>4. \A s \in Request :
            /\ pc'[s] # "idle" => job'[s] \in Job
            /\ pc'[s] \in {"idle", "insert"} => made'[s] = {}
            /\ pc'[s] \notin {"box", "net"} => todo'[s] = {}
      BY <1>0, <1>03, <3>2 DEF TypeOK
    <3> QED BY <1>0, <1>00, <1>01, <1>03, <3>1, <3>2, <3>3, <3>4 DEF TypeOK
  <2>2. CASE n \notin bridges
    BY <1>0, <1>02, <1>03, <2>2 DEF Leave, Goto, TypeOK, Bridge, Box
  <2> QED BY <2>1, <2>2
<1>2. Answered'
  <2>1. \A c \in kept : c.lab \in ready /\ c.id < next'
    BY <1>0, <1>03 DEF Answered, TypeOK, Box
  <2> QED BY <1>00, <1>03, <2>1 DEF Answered
<1>3. LabsComplete'
  BY <1>0, <1>00 DEF Make, database, history, IInv, LabsComplete
<1>4. RowsGoLast'
  BY <1>0, <1>00 DEF Make, database, history, IInv, TypeOK, RowsGoLast, Answered
<1>5. \A s \in Request : Req(s)'
  <2> SUFFICES ASSUME NEW s \in Request PROVE Req(s)'
    OBVIOUS
  <2>1. CASE n \notin bridges
    BY <1>0, <1>02, <1>03, <2>1 DEF Leave, Goto, TypeOK, Req, Creating, Deleting, Deploying,
          CreatePc, DeletePc, DeployPc, Bridge, Box
  <2>2. CASE n \in bridges /\ s = r
    <3> DEFINE box == [id |-> next, lab |-> lab[r], net |-> n.id]
    <3>1. box \in Box' /\ box.lab = lab[r] /\ box.id < next'
      <4>1. next \in 1..next' /\ lab[r] \in 1..next' /\ n.id \in 1..next' /\ next < next'
        BY <1>0, <1>00, <1>01, <1>02, <1>03, <2>2 DEF Deploying, Bridge
      <4> QED BY <4>1 DEF Box
    <3> HIDE DEF box
    <3>2. made'[r] = {box} /\ pc'[r] = "store" /\ job'[r] = job[r] /\ lab'[r] = lab[r]
      BY <1>0, <1>02, <2>2 DEF box, TypeOK
    <3> QED BY <1>03, <2>2, <3>1, <3>2 DEF Req, Deploying, CreatePc, DeletePc
  <2>3. CASE n \in bridges /\ s # r
    <3>1. /\ pc'[s] = pc[s] /\ lab'[s] = lab[s] /\ job'[s] = job[s] /\ made'[s] = made[s]
          /\ todo'[s] = todo[s]
      BY <1>0, <1>02, <2>3 DEF TypeOK
    <3>2. pc[s] \in DeployPc => Deploying(s)'
      <4>1. next' = next + 1
        BY <1>02, <2>3
      <4>2. pc[s] = "store" => \A c \in made[s] : c.id < next'
        BY <1>0, <1>03, <4>1 DEF Req, Deploying, DeployPc, Box
      <4> QED BY <1>0, <1>00, <1>03, <3>1, <4>2 DEF Req, Deploying
    <3>3. pc[s] \in CreatePc => Creating(s)'
      BY <1>0, <1>00, <1>03, <3>1 DEF Req, Creating
    <3>4. pc[s] \in DeletePc => Deleting(s)'
      <4>1. \A c \in kept : c \in boxes' => c \in boxes
        BY <1>02, <1>03, <2>3 DEF Answered
      <4> QED BY <1>0, <1>00, <1>03, <3>1, <4>1 DEF Req, Deleting
    <3>5. pc[s] = "insert" => job'[s].op = "create" /\ lab'[s] = 0
      BY <1>0, <3>1 DEF Req
    <3> QED BY <3>1, <3>2, <3>3, <3>4, <3>5 DEF Req
  <2> QED BY <2>1, <2>2, <2>3
<1>6. \A s, t \in Request : Pair(s, t)'
  BY <1>0, <1>00 DEF Make, history, Leave, Goto, TypeOK, Pair, CreatePc, DeletePc, DeployPc
<1> QED BY <1>1, <1>2, <1>3, <1>4, <1>5, <1>6 DEF IInv

\* ... though its deployment has given up.
LEMMA MakeLateHolds == ASSUME IInv, NEW r \in Request, MakeLate(r) PROVE IInv'
<1>0. /\ TypeOK /\ next' \in {next, next + 1}
      /\ \A s \in Request : Req(s)
      /\ \A s, t \in Request : Pair(s, t)
  BY DEF MakeLate, IInv
<1>00. /\ Bridge \subseteq Bridge' /\ Box \subseteq Box' /\ 1..next \subseteq 1..next'
      /\ 1..(next - 1) \subseteq 1..(next' - 1) /\ next' \in Nat \ {0}
  BY <1>0, Grow
<1>01. /\ labs \subseteq [id : 1..next', name : Name, nets : SUBSET (1..next')]
       /\ netRows \subseteq Bridge' /\ bridges \subseteq Bridge'
       /\ boxRows \subseteq Box' /\ boxes \subseteq Box' /\ kept \subseteq Box'
       /\ made \in [Request -> SUBSET (Bridge' \cup Box')]
       /\ todo \in [Request -> SUBSET (Bridge' \cup Box')]
       /\ lab \in [Request -> 0..next'] /\ spoiled \cup ready \cup doomed \subseteq 1..next'
  BY <1>0, <1>00 DEF TypeOK
<1>02. PICK n \in made[r] \cap bridges :
         boxes' = boxes \cup {[id |-> next, lab |-> lab[r], net |-> n.id]}
  BY DEF MakeLate
<1>03. /\ UNCHANGED <<host, labs, netRows, boxRows, bridges, jobs, ready, kept, doomed>>
       /\ spoiled' = spoiled \cup {lab[r]} /\ next' = next + 1 /\ faults' \in 0..MaxFaults /\ Leave(r)
       /\ pc[r] = "make" /\ Deploying(r) /\ next \in Nat \ {0} /\ Answered
  BY <1>0, BoundAssumption DEF MakeLate, Fault, database, Req, DeployPc, IInv, TypeOK
<1>1. TypeOK'
  <2> DEFINE box == [id |-> next, lab |-> lab[r], net |-> n.id]
  <2>1. box \in Box'
    <3>1. next \in 1..next' /\ lab[r] \in 1..next' /\ n.id \in 1..next'
      BY <1>0, <1>00, <1>01, <1>02, <1>03 DEF Deploying, Bridge
    <3> QED BY <3>1 DEF Box
  <2>2. boxes' \subseteq Box'
    BY <1>01, <1>02, <2>1
  <2>3. /\ pc' \in [Request -> {"idle", "insert", "internal", "internal_row", "external",
                             "external_row", "update", "undo", "undo_lab", "list_boxes",
                             "box", "list_nets", "net", "prune", "boxes_rows", "nets_rows",
                             "lab_row", "make", "store"}]
        /\ made' \in [Request -> SUBSET (Bridge' \cup Box')]
        /\ todo' \in [Request -> SUBSET (Bridge' \cup Box')]
        /\ lab' \in [Request -> 0..next'] /\ job' \in [Request -> Job \cup {NoJob}]
    BY <1>0, <1>01, <1>03 DEF Leave, Goto, TypeOK
  <2>4. \A s \in Request :
          /\ pc'[s] # "idle" => job'[s] \in Job
          /\ pc'[s] \in {"idle", "insert"} => made'[s] = {}
          /\ pc'[s] \notin {"box", "net"} => todo'[s] = {}
    BY <1>0, <1>03 DEF Leave, Goto, TypeOK
  <2>5. spoiled' \cup ready' \cup doomed' \subseteq 1..next'
    BY <1>01, <1>03 DEF Deploying
  <2> QED BY <1>0, <1>00, <1>01, <1>03, <2>2, <2>3, <2>4, <2>5 DEF TypeOK
<1>2. Answered'
  <2>1. \A c \in kept : c.lab \in ready /\ c.id < next'
    BY <1>0, <1>03 DEF Answered, TypeOK, Box
  <2> QED BY <1>00, <1>03, <2>1 DEF Answered
<1>3. LabsComplete'
  BY <1>0, <1>00 DEF MakeLate, database, IInv, LabsComplete
<1>4. RowsGoLast'
  BY <1>0, <1>00 DEF MakeLate, database, IInv, RowsGoLast
<1>5. \A s \in Request : Req(s)'
  <2> SUFFICES ASSUME NEW s \in Request PROVE Req(s)'
    OBVIOUS
  <2>1. CASE s = r
    BY <1>0, <1>03, <2>1 DEF Leave, Goto, TypeOK, Req, CreatePc, DeletePc, DeployPc
  <2>2. CASE s # r
    <3>1. /\ pc'[s] = pc[s] /\ lab'[s] = lab[s] /\ job'[s] = job[s] /\ made'[s] = made[s]
          /\ todo'[s] = todo[s]
      BY <1>0, <1>03, <2>2 DEF Leave, Goto
    <3>2. pc[s] \in DeployPc => Deploying(s)'
      <4>1. pc[s] = "store" => \A c \in made[s] : c.id < next'
        BY <1>0, <1>03 DEF Req, Deploying, DeployPc, Box
      <4> QED BY <1>0, <1>00, <1>03, <3>1, <4>1 DEF Req, Deploying
    <3>3. pc[s] \in CreatePc => Creating(s)'
      BY <1>0, <1>00, <1>03, <3>1 DEF Req, Creating
    <3>4. pc[s] \in DeletePc => Deleting(s)'
      <4>1. \A c \in kept : c \in boxes' => c \in boxes
        BY <1>02, <1>03 DEF Answered
      <4> QED BY <1>0, <1>00, <1>03, <3>1, <4>1 DEF Req, Deleting
    <3>5. pc[s] = "insert" => job'[s].op = "create" /\ lab'[s] = 0
      BY <1>0, <3>1 DEF Req
    <3> QED BY <3>1, <3>2, <3>3, <3>4, <3>5 DEF Req
  <2> QED BY <2>1, <2>2
<1>6. \A s, t \in Request : Pair(s, t)'
  BY <1>0, <1>00 DEF MakeLate, Leave, Goto, TypeOK, Pair, CreatePc, DeletePc, DeployPc
<1> QED BY <1>1, <1>2, <1>3, <1>4, <1>5, <1>6 DEF IInv

\* The row is written, and the deployment answered.
LEMMA StoreHolds == ASSUME IInv, NEW r \in Request, Store(r) PROVE IInv'
<1>0. /\ TypeOK /\ next' \in {next, next + 1}
      /\ \A s \in Request : Req(s)
      /\ \A s, t \in Request : Pair(s, t)
  BY DEF Store, IInv
<1>00. /\ Bridge \subseteq Bridge' /\ Box \subseteq Box' /\ 1..next \subseteq 1..next'
      /\ 1..(next - 1) \subseteq 1..(next' - 1) /\ next' \in Nat \ {0}
  BY <1>0, Grow
<1>1. TypeOK'
  <2>1. /\ UNCHANGED <<host, labs, netRows, bridges, boxes, next, jobs, faults, spoiled, ready, doomed>>
        /\ pc[r] = "store" /\ Deploying(r) /\ Leave(r)
    BY <1>0 DEF Store, labhost, Req, DeployPc
  <2>2. boxRows' \subseteq Box /\ kept' \subseteq Box
    BY <1>0, <2>1 DEF Store, TypeOK, Deploying
  <2>3. /\ pc' \in [Request -> {"idle", "insert", "internal", "internal_row", "external",
                             "external_row", "update", "undo", "undo_lab", "list_boxes",
                             "box", "list_nets", "net", "prune", "boxes_rows", "nets_rows",
                             "lab_row", "make", "store"}]
        /\ made' \in [Request -> SUBSET (Bridge \cup Box)]
        /\ todo' \in [Request -> SUBSET (Bridge \cup Box)]
        /\ lab' \in [Request -> 0..next] /\ job' \in [Request -> Job \cup {NoJob}]
    BY <1>0, <2>1 DEF Leave, Goto, TypeOK
  <2>4. \A s \in Request :
          /\ pc'[s] # "idle" => job'[s] \in Job
          /\ pc'[s] \in {"idle", "insert"} => made'[s] = {}
          /\ pc'[s] \notin {"box", "net"} => todo'[s] = {}
    BY <1>0, <2>1 DEF Leave, Goto, TypeOK
  <2> QED BY <1>0, <2>1, <2>2, <2>3, <2>4 DEF TypeOK, Bridge, Box
<1>2. Answered'
  BY <1>0, <1>00 DEF Store, IInv, Answered, Req, Deploying, DeployPc
<1>3. LabsComplete'
  BY <1>0, <1>00 DEF Store, labhost, IInv, LabsComplete
<1>4. RowsGoLast'
  BY <1>0, <1>00 DEF Store, labhost, IInv, RowsGoLast
<1>5. \A s \in Request : Req(s)'
  BY <1>0, <1>00 DEF Store, labhost, Leave, Goto, TypeOK, Req, Pair, Creating, Deleting,
      Deploying, CreatePc, DeletePc, DeployPc
<1>6. \A s, t \in Request : Pair(s, t)'
  BY <1>0, <1>00 DEF Store, Leave, Goto, TypeOK, Pair, CreatePc, DeletePc, DeployPc
<1> QED BY <1>1, <1>2, <1>3, <1>4, <1>5, <1>6 DEF IInv

\* delete_host dooms every lab of the host.
LEMMA DeleteHostHolds == ASSUME IInv, DeleteHost PROVE IInv'
<1>0. /\ TypeOK /\ next' \in {next, next + 1}
      /\ \A s \in Request : Req(s)
      /\ \A s, t \in Request : Pair(s, t)
  BY DEF DeleteHost, IInv
<1>00. /\ Bridge \subseteq Bridge' /\ Box \subseteq Box' /\ 1..next \subseteq 1..next'
      /\ 1..(next - 1) \subseteq 1..(next' - 1) /\ next' \in Nat \ {0}
  BY <1>0, Grow
<1>1. TypeOK'
  <2>1. /\ UNCHANGED <<bridges, boxes, pc, job, lab, made, todo, next, jobs, faults, ready, kept>>
        /\ host' = FALSE /\ labs' = {} /\ netRows' = {} /\ boxRows' = {}
        /\ spoiled' \subseteq spoiled \cup 1..(next - 1) /\ doomed' = doomed \cup 1..(next - 1)
    BY DEF DeleteHost, labhost, local
  <2>2. 1..(next - 1) \subseteq 1..next
    BY <1>0 DEF TypeOK
  <2>3. spoiled' \cup ready' \cup doomed' \subseteq 1..next'
    BY <1>0, <2>1, <2>2 DEF TypeOK
  <2> QED BY <1>0, <2>1, <2>3 DEF TypeOK, Bridge, Box
<1>2. Answered'
  BY <1>0, <1>00 DEF DeleteHost, IInv, Answered
<1>3. LabsComplete'
  BY <1>0, <1>00 DEF DeleteHost, IInv, LabsComplete, Answered
<1>4. RowsGoLast'
  <2> SUFFICES ASSUME NEW c \in kept PROVE c.lab \in doomed' /\ c.lab \in spoiled'
    BY DEF DeleteHost, RowsGoLast
  <2>1. c.lab \in ready /\ c.lab \in 1..(next - 1)
    BY DEF IInv, Answered
  <2>2. ~Working("create", c.lab)
    BY <1>0, <2>1 DEF Working, Req, Creating, Deleting, Deploying, CreatePc, DeletePc,
        DeployPc, TypeOK
  <2> QED BY <2>1, <2>2 DEF DeleteHost
<1>5. \A s \in Request : Req(s)'
  BY <1>0, <1>00 DEF DeleteHost, local, Working, IInv, TypeOK, Answered, Req, Creating,
      Deleting, Deploying, CreatePc, DeletePc, DeployPc
<1>6. \A s, t \in Request : Pair(s, t)'
  BY <1>0, <1>00 DEF DeleteHost, local, Pair
<1> QED BY <1>1, <1>2, <1>3, <1>4, <1>5, <1>6 DEF IInv

\* A network is made with a new id.
LEMMA PostNetHolds ==
    ASSUME IInv, NEW r \in Request, NEW role \in Role, PostNet(r, role) PROVE IInv'
<1>0. /\ TypeOK /\ next' \in {next, next + 1}
      /\ \A s \in Request : Req(s)
      /\ \A s, t \in Request : Pair(s, t)
  BY DEF PostNet, IInv
<1>00. /\ Bridge \subseteq Bridge' /\ Box \subseteq Box' /\ 1..next \subseteq 1..next'
      /\ 1..(next - 1) \subseteq 1..(next' - 1) /\ next' \in Nat \ {0}
  BY <1>0, Grow
<1>1. TypeOK'
  BY <1>0, <1>00, BoundAssumption DEF PostNet, database, history, Goto, Role, TypeOK, Bridge,
      Req, Creating, CreatePc
<1>2. Answered'
  <2>1. \A c \in kept : c.lab \in ready /\ c.id < next'
    BY <1>0 DEF IInv, Answered, TypeOK, Box
  <2> QED BY <1>00, <2>1 DEF PostNet, database, history, IInv, Answered
<1>3. LabsComplete'
  BY <1>0, <1>00 DEF PostNet, database, history, IInv, LabsComplete
<1>4. RowsGoLast'
  BY <1>0, <1>00 DEF PostNet, database, history, IInv, RowsGoLast
<1>5. \A s \in Request : Req(s)'
  <2> SUFFICES ASSUME NEW s \in Request PROVE Req(s)'
    OBVIOUS
  <2>1. /\ UNCHANGED <<boxes, job, lab, todo, spoiled, ready, kept, doomed>>
        /\ bridges \subseteq bridges'
    BY DEF PostNet, history
  <2>2. CASE s = r
    <3> DEFINE net == [id |-> next, lab |-> lab[r], role |-> role]
    <3>1. pc[r] = role /\ Creating(r)
      BY <1>0 DEF PostNet, Req, CreatePc, Role
    <3>2. net \in Bridge' /\ net.lab = lab[r] /\ net.role = role
      BY <1>0, <1>00, <3>1 DEF Creating, TypeOK, Bridge
    <3> HIDE DEF net
    <3>3. /\ made'[r] = made[r] \cup {net} /\ bridges' = bridges \cup {net}
          /\ pc'[r] = IF role = "internal" THEN "internal_row" ELSE "external_row"
      BY <1>0 DEF PostNet, Goto, net, TypeOK
    <3>4. Creating(r)'
      <4>1. made'[r] \subseteq Bridge' /\ \A n \in made'[r] : n.lab = lab'[r]
        BY <1>00, <2>1, <3>1, <3>2, <3>3 DEF Creating
      <4>2. \E n \in made'[r] : n.role = "internal"
        BY <3>1, <3>2, <3>3 DEF Creating, Role
      <4>3. pc'[r] = "external_row" => \E n \in made'[r] : n.role = "external"
        BY <3>2, <3>3 DEF Role
      <4>4. lab'[r] \notin doomed' => made'[r] \subseteq bridges'
        BY <2>1, <3>1, <3>3 DEF Creating, Role
      <4>5. pc'[r] \in {"internal_row", "external_row"}
        BY <3>3
      <4> QED BY <1>00, <2>1, <3>1, <4>1, <4>2, <4>3, <4>4, <4>5 DEF Creating
    <3> QED BY <2>2, <3>3, <3>4 DEF Req, DeletePc, DeployPc
  <2>3. CASE s # r
    <3>1. pc'[s] = pc[s] /\ made'[s] = made[s]
      BY <1>0, <2>3 DEF PostNet, Goto
    <3>2. pc[s] \in DeployPc => Deploying(s)'
      <4>1. pc[s] = "store" => \A c \in made[s] : c.id < next'
        BY <1>0 DEF Req, Deploying, DeployPc, Box, TypeOK
      <4> QED BY <1>0, <1>00, <2>1, <3>1, <4>1 DEF Req, Deploying
    <3>3. pc[s] \in CreatePc => Creating(s)'
      BY <1>0, <1>00, <2>1, <3>1 DEF Req, Creating
    <3>4. pc[s] \in DeletePc => Deleting(s)'
      BY <1>0, <1>00, <2>1, <3>1 DEF Req, Deleting
    <3>5. pc[s] = "insert" => job'[s].op = "create" /\ lab'[s] = 0
      BY <1>0, <2>1, <3>1 DEF Req
    <3> QED BY <3>1, <3>2, <3>3, <3>4, <3>5 DEF Req
  <2> QED BY <2>2, <2>3
<1>6. \A s, t \in Request : Pair(s, t)'
  BY <1>0, <1>00 DEF PostNet, history, Goto, Role, Pair, CreatePc, DeletePc, DeployPc
<1> QED BY <1>1, <1>2, <1>3, <1>4, <1>5, <1>6 DEF IInv

\* A network that is not made, or not answered, starts the compensation.
LEMMA PostNetFailsHolds ==
    ASSUME IInv, NEW r \in Request, NEW role \in Role, PostNetFails(r, role) PROVE IInv'
<1>0. /\ TypeOK /\ next' \in {next, next + 1}
      /\ \A s \in Request : Req(s)
      /\ \A s, t \in Request : Pair(s, t)
  BY DEF PostNetFails, IInv
<1>00. /\ Bridge \subseteq Bridge' /\ Box \subseteq Box' /\ 1..next \subseteq 1..next'
      /\ 1..(next - 1) \subseteq 1..(next' - 1) /\ next' \in Nat \ {0}
  BY <1>0, Grow
<1>1. TypeOK'
  BY <1>0, <1>00, BoundAssumption DEF PostNetFails, database, local, Goto, Recover, Fault,
      Role, TypeOK, Bridge, Req, Creating, CreatePc
<1>2. Answered'
  <2>1. \A c \in kept : c.lab \in ready /\ c.id < next'
    BY <1>0 DEF IInv, Answered, TypeOK, Box
  <2> QED BY <1>00, <2>1 DEF PostNetFails, database, history, IInv, Answered
<1>3. LabsComplete'
  BY <1>0, <1>00 DEF PostNetFails, database, IInv, LabsComplete
<1>4. RowsGoLast'
  BY <1>0, <1>00 DEF PostNetFails, database, IInv, RowsGoLast
<1>5. \A s \in Request : Req(s)'
  <2> SUFFICES ASSUME NEW s \in Request PROVE Req(s)'
    OBVIOUS
  <2>1. /\ UNCHANGED <<boxes, job, lab, made, todo, ready, kept, doomed>>
        /\ bridges \subseteq bridges' /\ spoiled \subseteq spoiled'
    BY DEF PostNetFails, local
  <2>2. CASE s = r
    <3>1. pc[r] = role /\ Creating(r)
      BY <1>0 DEF PostNetFails, Req, CreatePc, Role
    <3>2. pc'[r] \in {"undo", "undo_lab"}
      BY <1>0 DEF PostNetFails, Recover, Goto, TypeOK
    <3> QED BY <1>00, <2>1, <2>2, <3>1, <3>2 DEF Creating, Req, DeletePc, DeployPc
  <2>3. CASE s # r
    <3>1. pc'[s] = pc[s]
      BY <1>0, <2>3 DEF PostNetFails, Recover, Goto
    <3>2. pc[s] \in DeployPc => Deploying(s)'
      <4>1. pc[s] = "store" => \A c \in made[s] : c.id < next'
        BY <1>0 DEF Req, Deploying, DeployPc, Box, TypeOK
      <4> QED BY <1>0, <1>00, <2>1, <3>1, <4>1 DEF Req, Deploying
    <3>3. pc[s] \in CreatePc => Creating(s)'
      BY <1>0, <1>00, <2>1, <3>1 DEF Req, Creating
    <3>4. pc[s] \in DeletePc => Deleting(s)'
      BY <1>0, <1>00, <2>1, <3>1 DEF Req, Deleting
    <3>5. pc[s] = "insert" => job'[s].op = "create" /\ lab'[s] = 0
      BY <1>0, <2>1, <3>1 DEF Req
    <3> QED BY <3>1, <3>2, <3>3, <3>4, <3>5 DEF Req
  <2> QED BY <2>2, <2>3
<1>6. \A s, t \in Request : Pair(s, t)'
  BY <1>0, <1>00 DEF PostNetFails, local, Goto, Recover, Role, Pair, CreatePc, DeletePc, DeployPc
<1> QED BY <1>1, <1>2, <1>3, <1>4, <1>5, <1>6 DEF IInv

\* The network's row is written, unless its lab is gone.
LEMMA InsertNetHolds ==
    ASSUME IInv, NEW r \in Request, NEW role \in Role, InsertNet(r, role) PROVE IInv'
<1>0. /\ TypeOK /\ next' \in {next, next + 1}
      /\ \A s \in Request : Req(s)
      /\ \A s, t \in Request : Pair(s, t)
  BY DEF InsertNet, IInv
<1>00. /\ Bridge \subseteq Bridge' /\ Box \subseteq Box' /\ 1..next \subseteq 1..next'
      /\ 1..(next - 1) \subseteq 1..(next' - 1) /\ next' \in Nat \ {0}
  BY <1>0, Grow
<1>1. TypeOK'
  BY <1>0, <1>00, BoundAssumption DEF InsertNet, labhost, history, local, Goto, Recover,
      TypeOK, Req, Creating, CreatePc
<1>2. Answered'
  BY <1>0, <1>00 DEF InsertNet, history, IInv, Answered
<1>3. LabsComplete'
  BY <1>0, <1>00 DEF InsertNet, labhost, history, IInv, LabsComplete
<1>4. RowsGoLast'
  BY <1>0, <1>00 DEF InsertNet, labhost, history, IInv, RowsGoLast
<1>5. \A s \in Request : Req(s)'
  BY <1>0, <1>00 DEF InsertNet, labhost, history, local, Goto, Recover, TypeOK, Req, Creating,
      Deleting, Deploying, CreatePc, DeletePc, DeployPc
<1>6. \A s, t \in Request : Pair(s, t)'
  BY <1>0, <1>00 DEF InsertNet, history, local, Goto, Recover, TypeOK, Pair, CreatePc,
      DeletePc, DeployPc
<1> QED BY <1>1, <1>2, <1>3, <1>4, <1>5, <1>6 DEF IInv


-----------------------------------------------------------------------------
(* What it takes to prove NothingStray: a second invariant, about ids and  *)
(* about what of a lab is where.                                           *)

\* networks that a row, the lab host or a creation knows of
Nets == netRows \cup bridges \cup UNION {made[r] : r \in {q \in Request : pc[q] \in CreatePc}}

Older ==
    /\ \A n \in Nets : n.id < next /\ n.lab < next
    /\ \A c \in boxes : c.id < next /\ c.lab < next /\ c.net < next
    /\ \A w \in labs : w.id < next

\* A network has one id, and its containers are of its lab; a lab's row points
\* at rows of its own networks.
Apart == \A m, n \in Nets : m.id = n.id => m = n
Homes == \A c \in boxes : \A n \in Nets : n.id = c.net => n.lab = c.lab
Pointed == \A w \in labs : \A k \in w.nets : \E n \in netRows : n.id = k /\ n.lab = w.id

\* While a lab is created, there are only the networks its creation holds.
Alone(r) ==
    /\ \A c \in boxes : c.lab # lab[r]
    /\ lab[r] \notin spoiled => \A n \in bridges : n.lab = lab[r] => n \in made[r]
    /\ pc[r] = "undo_lab" => made[r] = {}

\* A deletion that nothing spoiled has what is left on its list.
Emptying(r) ==
    /\ made[r] = {} /\ lab[r] < next
    /\ pc[r] # "list_boxes" /\ lab[r] \notin spoiled =>
        \A c \in boxes : c.lab = lab[r] => pc[r] = "box" /\ c \in todo[r]
    /\ pc[r] \notin {"list_boxes", "box", "list_nets"} /\ lab[r] \notin spoiled =>
        \A n \in bridges : n.lab = lab[r] => pc[r] = "net" /\ n \in todo[r]

\* A deployment's lab is there, or something has gone wrong.
Housed(r) ==
    /\ IsLab(lab[r]) \/ lab[r] \in spoiled
    /\ pc[r] = "make" => \A n \in made[r] : n.lab = lab[r]

Place(r) ==
    /\ pc[r] \in CreatePc => Alone(r)
    /\ pc[r] \in DeletePc => Emptying(r)
    /\ pc[r] \in DeployPc => Housed(r)

\* A deletion that crosses a creation has spoiled the lab.
Cross(r, s) == pc[r] \in DeletePc /\ pc[s] \in CreatePc /\ lab[r] = lab[s] => lab[r] \in spoiled

SInv ==
    /\ Older /\ Apart /\ Homes /\ Pointed /\ NothingStray
    /\ \A r \in Request : Place(r)
    /\ \A r, s \in Request : Cross(r, s)

\* A network is not a container.
LEMMA Disjoint == Bridge \cap Box = {}
<1> SUFFICES ASSUME NEW x, x \in Bridge, x \in Box PROVE FALSE
  OBVIOUS
<1>1. "role" \in DOMAIN x
  BY DEF Bridge
<1>2. DOMAIN x = {"id", "lab", "net"}
  BY DEF Box
<1> QED BY <1>1, <1>2

\* Networks in view are networks, with ids among those given.
LEMMA NetsTyped == IInv => Nets \subseteq Bridge /\ Bridge \subseteq [id : Nat, lab : Nat, role : Role]
BY DEF IInv, TypeOK, Nets, Req, Creating, Bridge

\* Who holds something is creating its lab or has just made its container.
LEMMA Holder ==
    ASSUME IInv, SInv, NEW r \in Request, NEW x, Held(r, x)
    PROVE  \/ pc[r] \in CreatePc /\ x \in Bridge
           \/ pc[r] = "store" /\ x \in Box
<1>1. TypeOK /\ Req(r) /\ Place(r) /\ x \in made[r]
  BY DEF IInv, SInv, Held
<1>2. pc[r] \in CreatePc \cup {"make", "store"}
  BY <1>1 DEF TypeOK, Place, Emptying, CreatePc, DeletePc
<1>3. CASE pc[r] = "make"
  <2>1. x \in Bridge /\ x \in Box
    BY <1>1, <1>3 DEF Req, DeployPc, Deploying, Held, TypeOK
  <2> QED BY <2>1, Disjoint
<1>4. CASE pc[r] = "store"
  BY <1>1, <1>4 DEF Req, DeployPc, Deploying
<1>5. CASE pc[r] \in CreatePc
  BY <1>1, <1>5 DEF Req, Creating
<1> QED BY <1>2, <1>3, <1>4, <1>5

\* What has no row is held by someone.
LEMMA Holding ==
    ASSUME IInv, SInv, NEW x \in bridges \cup boxes,
           x.lab \notin spoiled, x \notin netRows \cup boxRows
    PROVE  \E q \in Request : /\ Held(q, x)
                               /\ \/ pc[q] \in CreatePc /\ x \in Bridge
                                  \/ pc[q] = "store" /\ x \in Box
BY Holder DEF SInv, NothingStray


\* A call that raises loses nothing: what was made before is held or has a row.
LEMMA RaiseStays ==
    ASSUME IInv, SInv, NEW r \in Request, Raise(r)
    PROVE  SInv'
<1>0. /\ TypeOK /\ next \in Nat \ {0} /\ next' \in {next, next + 1}
      /\ \A s \in Request : Req(s) /\ Place(s)
      /\ \A s, t \in Request : Pair(s, t) /\ Cross(s, t)
      /\ Older /\ Apart /\ Homes /\ Pointed /\ NothingStray /\ Answered
  BY DEF Raise, Leave, Goto, Fault, database, labhost, history, local, IInv, SInv, TypeOK
<1>1. Nets' \subseteq Nets
  BY <1>0 DEF Raise, database, labhost, history, local, Leave, Goto, Fault, Nets, TypeOK,
      CreatePc, DeletePc, DeployPc
<1>2. Older'
  BY <1>0, <1>1 DEF Raise, database, labhost, history, local, Leave, Goto, Fault, Older,
      TypeOK
<1>3. Apart'
  BY <1>0, <1>1 DEF Apart
<1>4. Homes'
  BY <1>0, <1>1 DEF Raise, database, labhost, history, local, Leave, Goto, Fault, Homes
<1>5. Pointed'
  BY <1>0 DEF Raise, database, labhost, history, local, Leave, Goto, Fault, Pointed, TypeOK
<1>6. \A s \in Request : Place(s)'
  BY <1>0 DEF Raise, database, labhost, history, local, Leave, Goto, Fault, TypeOK, Req,
      Pair, Cross, Creating, Deleting, Deploying, Place, Alone, Emptying, Housed, IsLab,
      CreatePc, DeletePc, DeployPc
<1>7. \A s, t \in Request : Cross(s, t)'
  BY <1>0 DEF Raise, database, labhost, history, local, Leave, Goto, Fault, TypeOK, Cross,
      CreatePc, DeletePc, DeployPc
<1>8. NothingStray'
  <2> SUFFICES ASSUME NEW x \in bridges' \cup boxes',
                      x.lab \notin spoiled', x \notin netRows' \cup boxRows'
               PROVE  \E q \in Request : Held(q, x)'
    BY DEF NothingStray
  <2>1. x \in bridges \cup boxes /\ x.lab \notin spoiled /\ x \notin netRows \cup boxRows
    BY DEF Raise, database, labhost, history
  <2>2. PICK q \in Request : /\ Held(q, x)
                             /\ \/ pc[q] \in CreatePc /\ x \in Bridge
                                \/ pc[q] = "store" /\ x \in Box
    BY <2>1, Holding
  <2>3. q # r
    BY <2>2 DEF Raise, CreatePc
  <2> QED BY <1>0, <2>2, <2>3 DEF Raise, Leave, Goto, Held, TypeOK, database, labhost, history
<1> QED BY <1>2, <1>3, <1>4, <1>5, <1>6, <1>7, <1>8 DEF SInv

\* create_lab begins.
LEMMA BeginCreateStays ==
    ASSUME IInv, SInv, NEW r \in Request, BeginCreate(r)
    PROVE  SInv'
<1>0. /\ TypeOK /\ next \in Nat \ {0} /\ next' \in {next, next + 1}
      /\ \A s \in Request : Req(s) /\ Place(s)
      /\ \A s, t \in Request : Pair(s, t) /\ Cross(s, t)
      /\ Older /\ Apart /\ Homes /\ Pointed /\ NothingStray /\ Answered
  BY DEF BeginCreate, Begin, Goto, Job, database, labhost, history, local, IInv, SInv,
      TypeOK
<1>1. Nets' \subseteq Nets
  BY <1>0 DEF BeginCreate, database, labhost, history, local, Begin, Goto, Job, Nets,
      TypeOK, CreatePc, DeletePc, DeployPc
<1>2. Older'
  BY <1>0, <1>1 DEF BeginCreate, database, labhost, history, local, Begin, Goto, Job, Older,
      TypeOK
<1>3. Apart'
  BY <1>0, <1>1 DEF Apart
<1>4. Homes'
  BY <1>0, <1>1 DEF BeginCreate, database, labhost, history, local, Begin, Goto, Job, Homes
<1>5. Pointed'
  BY <1>0 DEF BeginCreate, database, labhost, history, local, Begin, Goto, Job, Pointed,
      TypeOK
<1>6. \A s \in Request : Place(s)'
  BY <1>0 DEF BeginCreate, database, labhost, history, local, Begin, Goto, Job, TypeOK, Req,
      Pair, Cross, Creating, Deleting, Deploying, Place, Alone, Emptying, Housed, IsLab,
      CreatePc, DeletePc, DeployPc
<1>7. \A s, t \in Request : Cross(s, t)'
  BY <1>0 DEF BeginCreate, database, labhost, history, local, Begin, Goto, Job, TypeOK,
      Cross, CreatePc, DeletePc, DeployPc
<1>8. NothingStray'
  BY <1>0 DEF BeginCreate, database, labhost, history, local, Begin, Goto, Job, TypeOK,
      Held, NothingStray, Req, Creating, Deleting, Deploying, Place, Alone, Emptying,
      Housed, CreatePc, DeletePc, DeployPc
<1> QED BY <1>2, <1>3, <1>4, <1>5, <1>6, <1>7, <1>8 DEF SInv

\* Nothing was made yet.
LEMMA InsertRefusedStays ==
    ASSUME IInv, SInv, NEW r \in Request, InsertRefused(r)
    PROVE  SInv'
<1>0. /\ TypeOK /\ next \in Nat \ {0} /\ next' \in {next, next + 1}
      /\ \A s \in Request : Req(s) /\ Place(s)
      /\ \A s, t \in Request : Pair(s, t) /\ Cross(s, t)
      /\ Older /\ Apart /\ Homes /\ Pointed /\ NothingStray /\ Answered
  BY DEF InsertRefused, Leave, Goto, database, labhost, history, local, IInv, SInv, TypeOK
<1>1. Nets' \subseteq Nets
  BY <1>0 DEF InsertRefused, database, labhost, history, local, Leave, Goto, Nets, TypeOK,
      CreatePc, DeletePc, DeployPc
<1>2. Older'
  BY <1>0, <1>1 DEF InsertRefused, database, labhost, history, local, Leave, Goto, Older,
      TypeOK
<1>3. Apart'
  BY <1>0, <1>1 DEF Apart
<1>4. Homes'
  BY <1>0, <1>1 DEF InsertRefused, database, labhost, history, local, Leave, Goto, Homes
<1>5. Pointed'
  BY <1>0 DEF InsertRefused, database, labhost, history, local, Leave, Goto, Pointed, TypeOK
<1>6. \A s \in Request : Place(s)'
  BY <1>0 DEF InsertRefused, database, labhost, history, local, Leave, Goto, TypeOK, Req,
      Pair, Cross, Creating, Deleting, Deploying, Place, Alone, Emptying, Housed, IsLab,
      CreatePc, DeletePc, DeployPc
<1>7. \A s, t \in Request : Cross(s, t)'
  BY <1>0 DEF InsertRefused, database, labhost, history, local, Leave, Goto, TypeOK, Cross,
      CreatePc, DeletePc, DeployPc
<1>8. NothingStray'
  BY <1>0 DEF InsertRefused, database, labhost, history, local, Leave, Goto, TypeOK, Held,
      NothingStray, Req, Creating, Deleting, Deploying, Place, Alone, Emptying, Housed,
      CreatePc, DeletePc, DeployPc
<1> QED BY <1>2, <1>3, <1>4, <1>5, <1>6, <1>7, <1>8 DEF SInv

\* The new lab has an id that nothing names yet.
LEMMA InsertLabStays ==
    ASSUME IInv, SInv, NEW r \in Request, InsertLab(r)
    PROVE  SInv'
<1>0. /\ TypeOK /\ next \in Nat \ {0} /\ next' \in {next, next + 1}
      /\ \A s \in Request : Req(s) /\ Place(s)
      /\ \A s, t \in Request : Pair(s, t) /\ Cross(s, t)
      /\ Older /\ Apart /\ Homes /\ Pointed /\ NothingStray /\ Answered
  BY DEF InsertLab, Goto, database, labhost, history, local, IInv, SInv, TypeOK
<1>1. Nets' \subseteq Nets
  BY <1>0 DEF InsertLab, database, labhost, history, local, Goto, Nets, TypeOK, CreatePc,
      DeletePc, DeployPc
<1>2. Older'
  <2>1. \A n \in Nets' : n.id < next' /\ n.lab < next'
    BY <1>0, <1>1, NetsTyped DEF Older
  <2>2. \A c \in boxes' : c.id < next' /\ c.lab < next' /\ c.net < next'
    BY <1>0 DEF InsertLab, labhost, Older, TypeOK, Box
  <2>3. \A w \in labs' : w.id < next'
    BY <1>0 DEF InsertLab, Older, TypeOK
  <2> QED BY <2>1, <2>2, <2>3 DEF Older
<1>3. Apart'
  BY <1>0, <1>1 DEF Apart
<1>4. Homes'
  BY <1>0, <1>1 DEF InsertLab, database, labhost, history, local, Goto, Homes
<1>5. Pointed'
  BY <1>0 DEF InsertLab, database, labhost, history, local, Goto, Pointed, TypeOK
<1>6. \A s \in Request : Place(s)'
  <2> SUFFICES ASSUME NEW s \in Request PROVE Place(s)'
    OBVIOUS
  <2>1. CASE s = r
    <3>1. pc'[r] = "internal" /\ lab'[r] = next
      BY <1>0 DEF InsertLab, Goto, TypeOK
    <3>2. \A x \in bridges \cup boxes : x.lab # next
      BY <1>0, NetsTyped DEF Older, Nets, TypeOK, Box
    <3> QED BY <2>1, <3>1, <3>2 DEF InsertLab, labhost, Place, Alone, DeletePc, DeployPc
  <2>2. CASE s # r
    <3>1. /\ pc'[s] = pc[s] /\ lab'[s] = lab[s]
          /\ UNCHANGED <<bridges, boxes, job, made, todo, spoiled>>
          /\ next' = next + 1
          /\ \A l : IsLab(l) => \E w \in labs' : w.id = l
      BY <1>0, <2>2 DEF InsertLab, Goto, labhost, history, TypeOK, IsLab
    <3>2. lab[s] < next => lab[s] < next'
      BY <1>0, <3>1 DEF TypeOK
    <3> QED BY <1>0, <3>1, <3>2 DEF Place, Alone, Emptying, Housed, IsLab
  <2> QED BY <2>1, <2>2
<1>7. \A s, t \in Request : Cross(s, t)'
  <2> SUFFICES ASSUME NEW s \in Request, NEW t \in Request PROVE Cross(s, t)'
    OBVIOUS
  <2>1. /\ pc' = [pc EXCEPT ![r] = "internal"] /\ lab' = [lab EXCEPT ![r] = next]
        /\ spoiled' = spoiled
    BY DEF InsertLab, Goto, history
  <2>2. pc[s] \in DeletePc => lab[s] # next
    BY <1>0 DEF Place, Emptying, TypeOK
  <2> QED BY <1>0, <2>1, <2>2 DEF Cross, TypeOK, CreatePc, DeletePc
<1>8. NothingStray'
  BY <1>0 DEF InsertLab, database, labhost, history, local, Goto, TypeOK, Held,
      NothingStray, Req, Creating, Deleting, Deploying, Place, Alone, Emptying, Housed,
      CreatePc, DeletePc, DeployPc
<1> QED BY <1>2, <1>3, <1>4, <1>5, <1>6, <1>7, <1>8 DEF SInv

\* A creation that answers has written the rows of all it made.
LEMMA UpdateLabStays ==
    ASSUME IInv, SInv, NEW r \in Request, UpdateLab(r)
    PROVE  SInv'
<1>0. /\ TypeOK /\ next \in Nat \ {0} /\ next' \in {next, next + 1}
      /\ \A s \in Request : Req(s) /\ Place(s)
      /\ \A s, t \in Request : Pair(s, t) /\ Cross(s, t)
      /\ Older /\ Apart /\ Homes /\ Pointed /\ NothingStray /\ Answered
  BY DEF UpdateLab, Leave, Goto, Recover, IsLab, database, labhost, history, local, IInv,
      SInv, TypeOK
<1>1. Nets' \subseteq Nets
  BY <1>0 DEF UpdateLab, database, labhost, history, local, Leave, Goto, Recover, IsLab,
      Nets, TypeOK, CreatePc, DeletePc, DeployPc
<1>2. Older'
  BY <1>0, <1>1 DEF UpdateLab, database, labhost, history, local, Leave, Goto, Recover,
      IsLab, Older, TypeOK
<1>3. Apart'
  BY <1>0, <1>1 DEF Apart
<1>4. Homes'
  BY <1>0, <1>1 DEF UpdateLab, database, labhost, history, local, Leave, Goto, Recover,
      IsLab, Homes
<1>5. Pointed'
  <2>0. pc[r] = "update" /\ Creating(r)
    BY <1>0 DEF UpdateLab, Req, CreatePc
  <2>1. CASE labs' = labs
    BY <1>0, <2>1 DEF UpdateLab, Pointed
  <2>2. CASE /\ made[r] \subseteq netRows
             /\ labs' = {IF w.id = lab[r] THEN [w EXCEPT !.nets = {n.id : n \in made[r]}]
                         ELSE w : w \in labs}
    <3> SUFFICES ASSUME NEW w \in labs', NEW k \in w.nets
                 PROVE  \E n \in netRows : n.id = k /\ n.lab = w.id
      BY DEF UpdateLab, Pointed
    <3>1. PICK v \in labs : w = IF v.id = lab[r] THEN [v EXCEPT !.nets = {n.id : n \in made[r]}]
                                                ELSE v
      BY <2>2
    <3>2. CASE v.id = lab[r]
      <4>1. w.id = lab[r] /\ w.nets = {n.id : n \in made[r]}
        BY <1>0, <3>1, <3>2 DEF TypeOK
      <4> QED BY <2>0, <2>2, <4>1 DEF Creating
    <3>3. CASE v.id # lab[r]
      BY <1>0, <3>1, <3>3 DEF Pointed
    <3> QED BY <3>2, <3>3
  <2> QED BY <2>1, <2>2 DEF UpdateLab
<1>6. \A s \in Request : Place(s)'
  BY <1>0 DEF UpdateLab, database, labhost, history, local, Leave, Goto, Recover, IsLab,
      TypeOK, Req, Pair, Cross, Creating, Deleting, Deploying, Place, Alone, Emptying,
      Housed, IsLab, CreatePc, DeletePc, DeployPc
<1>7. \A s, t \in Request : Cross(s, t)'
  BY <1>0 DEF UpdateLab, database, labhost, history, local, Leave, Goto, Recover, IsLab,
      TypeOK, Cross, CreatePc, DeletePc, DeployPc
<1>8. NothingStray'
  BY <1>0 DEF UpdateLab, database, labhost, history, local, Leave, Goto, Recover, IsLab,
      TypeOK, Held, NothingStray, Req, Creating, Deleting, Deploying, Place, Alone,
      Emptying, Housed, CreatePc, DeletePc, DeployPc
<1> QED BY <1>2, <1>3, <1>4, <1>5, <1>6, <1>7, <1>8 DEF SInv

\* The compensation removes each network: no container is in it.
LEMMA UndoNetStays ==
    ASSUME IInv, SInv, NEW r \in Request, UndoNet(r)
    PROVE  SInv'
<1>0. /\ TypeOK /\ next \in Nat \ {0} /\ next' \in {next, next + 1}
      /\ \A s \in Request : Req(s) /\ Place(s)
      /\ \A s, t \in Request : Pair(s, t) /\ Cross(s, t)
      /\ Older /\ Apart /\ Homes /\ Pointed /\ NothingStray /\ Answered
  BY DEF UndoNet, Goto, Fault, InUse, database, labhost, history, local, IInv, SInv, TypeOK
<1>1. Nets' \subseteq Nets
  BY <1>0 DEF UndoNet, database, labhost, history, local, Goto, Fault, InUse, Nets, TypeOK,
      CreatePc, DeletePc, DeployPc
<1>2. Older'
  BY <1>0, <1>1 DEF UndoNet, database, labhost, history, local, Goto, Fault, InUse, Older,
      TypeOK
<1>3. Apart'
  BY <1>0, <1>1 DEF Apart
<1>4. Homes'
  BY <1>0, <1>1 DEF UndoNet, database, labhost, history, local, Goto, Fault, InUse, Homes
<1>5. Pointed'
  BY <1>0 DEF UndoNet, database, labhost, history, local, Goto, Fault, InUse, Pointed,
      TypeOK
<1>6. \A s \in Request : Place(s)'
  <2>1. pc[r] = "undo" /\ Creating(r) /\ Alone(r) /\ made[r] \subseteq Nets
    BY <1>0 DEF UndoNet, Req, Place, CreatePc, Nets
  <2>2. PICK n \in made[r] :
          /\ \/ bridges' = (IF InUse(n) THEN bridges ELSE bridges \ {n}) /\ UNCHANGED <<faults, spoiled>>
             \/ Fault /\ bridges' = bridges /\ spoiled' = spoiled \cup {n.lab}
          /\ made' = [made EXCEPT ![r] = @ \ {n}]
          /\ Goto(r, IF made[r] = {n} THEN "undo_lab" ELSE "undo")
    BY DEF UndoNet
  <2>3. n.lab = lab[r] /\ n \in Nets
    BY <2>1 DEF Creating
  <2>4. ~InUse(n)
    BY <1>0, <2>1, <2>3 DEF InUse, Homes, Alone
  <2>5. /\ UNCHANGED <<labs, netRows, boxRows, boxes, job, lab, todo, next>>
        /\ spoiled \subseteq spoiled' /\ bridges' \subseteq bridges
        /\ n.lab \in spoiled' \/ n \notin bridges'
    BY <2>2, <2>4 DEF UndoNet, database
  <2> SUFFICES ASSUME NEW s \in Request PROVE Place(s)'
    OBVIOUS
  <2>6. CASE s = r
    <3>1. (pc'[r] = "undo_lab" /\ made[r] = {n}) \/ pc'[r] = "undo"
      BY <1>0, <2>2 DEF Goto, TypeOK
    <3>2. made'[r] = made[r] \ {n}
      BY <1>0, <2>2 DEF TypeOK
    <3> QED BY <2>1, <2>3, <2>5, <2>6, <3>1, <3>2
            DEF Place, Alone, CreatePc, DeletePc, DeployPc
  <2>7. CASE s # r
    <3>1. pc'[s] = pc[s] /\ made'[s] = made[s]
      BY <1>0, <2>2, <2>7 DEF Goto, TypeOK
    <3> QED BY <1>0, <2>5, <3>1 DEF Place, Alone, Emptying, Housed, IsLab
  <2> QED BY <2>6, <2>7
<1>7. \A s, t \in Request : Cross(s, t)'
  BY <1>0 DEF UndoNet, database, labhost, history, local, Goto, Fault, InUse, TypeOK, Cross,
      CreatePc, DeletePc, DeployPc
<1>8. NothingStray'
  <2>1. pc[r] = "undo" /\ Creating(r) /\ Alone(r) /\ made[r] \subseteq Nets
    BY <1>0 DEF UndoNet, Req, Place, CreatePc, Nets
  <2>2. PICK n \in made[r] :
          /\ \/ bridges' = (IF InUse(n) THEN bridges ELSE bridges \ {n}) /\ UNCHANGED <<faults, spoiled>>
             \/ Fault /\ bridges' = bridges /\ spoiled' = spoiled \cup {n.lab}
          /\ made' = [made EXCEPT ![r] = @ \ {n}]
          /\ Goto(r, IF made[r] = {n} THEN "undo_lab" ELSE "undo")
    BY DEF UndoNet
  <2>3. n.lab = lab[r] /\ n \in Nets
    BY <2>1 DEF Creating
  <2>4. ~InUse(n)
    BY <1>0, <2>1, <2>3 DEF InUse, Homes, Alone
  <2>5. /\ UNCHANGED <<labs, netRows, boxRows, boxes, job, lab, todo, next>>
        /\ spoiled \subseteq spoiled' /\ bridges' \subseteq bridges
        /\ n.lab \in spoiled' \/ n \notin bridges'
    BY <2>2, <2>4 DEF UndoNet, database
  <2> SUFFICES ASSUME NEW x \in bridges' \cup boxes',
                      x.lab \notin spoiled', x \notin netRows' \cup boxRows'
               PROVE  \E q \in Request : Held(q, x)'
    BY DEF NothingStray
  <2>6. x \in bridges \cup boxes /\ x.lab \notin spoiled /\ x \notin netRows \cup boxRows
    BY <2>5
  <2>7. PICK q \in Request : /\ Held(q, x)
                             /\ \/ pc[q] \in CreatePc /\ x \in Bridge
                                \/ pc[q] = "store" /\ x \in Box
    BY <2>6, Holding
  <2>8. n \in Bridge
    BY <2>3, NetsTyped
  <2>9. x # n \/ q # r
    <3> SUFFICES ASSUME x = n PROVE FALSE
      OBVIOUS
    <3>1. x \in boxes /\ boxes \subseteq Box
      BY <1>0, <2>3, <2>5 DEF TypeOK
    <3> QED BY <2>8, <3>1, Disjoint
  <2> QED BY <1>0, <2>2, <2>5, <2>7, <2>9 DEF Held, TypeOK
<1> QED BY <1>2, <1>3, <1>4, <1>5, <1>6, <1>7, <1>8 DEF SInv

\* ... and has none left when the row of the lab goes.
LEMMA UndoLabStays ==
    ASSUME IInv, SInv, NEW r \in Request, UndoLab(r)
    PROVE  SInv'
<1>0. /\ TypeOK /\ next \in Nat \ {0} /\ next' \in {next, next + 1}
      /\ \A s \in Request : Req(s) /\ Place(s)
      /\ \A s, t \in Request : Pair(s, t) /\ Cross(s, t)
      /\ Older /\ Apart /\ Homes /\ Pointed /\ NothingStray /\ Answered
  BY DEF UndoLab, Leave, Goto, DropLab, RowsOf, database, labhost, history, local, IInv,
      SInv, TypeOK
<1>1. Nets' \subseteq Nets
  BY <1>0 DEF UndoLab, database, labhost, history, local, Leave, Goto, DropLab, RowsOf,
      Nets, TypeOK, CreatePc, DeletePc, DeployPc
<1>2. Older'
  BY <1>0, <1>1 DEF UndoLab, database, labhost, history, local, Leave, Goto, DropLab,
      RowsOf, Older, TypeOK
<1>3. Apart'
  BY <1>0, <1>1 DEF Apart
<1>4. Homes'
  BY <1>0, <1>1 DEF UndoLab, database, labhost, history, local, Leave, Goto, DropLab,
      RowsOf, Homes
<1>5. Pointed'
  BY <1>0 DEF UndoLab, database, labhost, history, local, Leave, Goto, DropLab, RowsOf,
      Pointed, TypeOK
<1>6. \A s \in Request : Place(s)'
  BY <1>0 DEF UndoLab, database, labhost, history, local, Leave, Goto, DropLab, RowsOf,
      TypeOK, Req, Pair, Cross, Creating, Deleting, Deploying, Place, Alone, Emptying,
      Housed, IsLab, CreatePc, DeletePc, DeployPc
<1>7. \A s, t \in Request : Cross(s, t)'
  BY <1>0 DEF UndoLab, database, labhost, history, local, Leave, Goto, DropLab, RowsOf,
      TypeOK, Cross, CreatePc, DeletePc, DeployPc
<1>8. NothingStray'
  BY <1>0 DEF UndoLab, database, labhost, history, local, Leave, Goto, DropLab, RowsOf,
      TypeOK, Held, NothingStray, Req, Creating, Deleting, Deploying, Place, Alone,
      Emptying, Housed, CreatePc, DeletePc, DeployPc
<1> QED BY <1>2, <1>3, <1>4, <1>5, <1>6, <1>7, <1>8 DEF SInv

\* delete_lab begins.
LEMMA BeginDeleteStays ==
    ASSUME IInv, SInv, NEW r \in Request, BeginDelete(r)
    PROVE  SInv'
<1>0. /\ TypeOK /\ next \in Nat \ {0} /\ next' \in {next, next + 1}
      /\ \A s \in Request : Req(s) /\ Place(s)
      /\ \A s, t \in Request : Pair(s, t) /\ Cross(s, t)
      /\ Older /\ Apart /\ Homes /\ Pointed /\ NothingStray /\ Answered
  BY DEF BeginDelete, Begin, Goto, Job, Clash, Working, database, labhost, history, local,
      IInv, SInv, TypeOK
<1>1. Nets' \subseteq Nets
  BY <1>0 DEF BeginDelete, database, labhost, history, local, Begin, Goto, Job, Clash,
      Working, Nets, TypeOK, CreatePc, DeletePc, DeployPc
<1>2. Older'
  BY <1>0, <1>1 DEF BeginDelete, database, labhost, history, local, Begin, Goto, Job, Clash,
      Working, Older, TypeOK
<1>3. Apart'
  BY <1>0, <1>1 DEF Apart
<1>4. Homes'
  BY <1>0, <1>1 DEF BeginDelete, database, labhost, history, local, Begin, Goto, Job, Clash,
      Working, Homes
<1>5. Pointed'
  BY <1>0 DEF BeginDelete, database, labhost, history, local, Begin, Goto, Job, Clash,
      Working, Pointed, TypeOK
<1>6. \A s \in Request : Place(s)'
  <2>1. PICK w \in labs :
          /\ Begin(r, "delete", w.name, w.id, "list_boxes")
          /\ Clash("delete", w.id)
    BY DEF BeginDelete
  <2>2. /\ UNCHANGED <<labs, netRows, boxRows, bridges, boxes, made, todo, next>>
        /\ pc[r] = "idle" /\ pc' = [pc EXCEPT ![r] = "list_boxes"]
        /\ lab' = [lab EXCEPT ![r] = w.id] /\ w.id < next /\ spoiled \subseteq spoiled'
    BY <1>0, <2>1 DEF BeginDelete, database, labhost, Begin, Goto, Clash, Older
  <2> SUFFICES ASSUME NEW s \in Request PROVE Place(s)'
    OBVIOUS
  <2>3. CASE s = r
    BY <1>0, <2>2, <2>3 DEF TypeOK, Place, Emptying, CreatePc, DeletePc, DeployPc
  <2>4. CASE s # r
    <3>1. pc'[s] = pc[s] /\ lab'[s] = lab[s]
      BY <1>0, <2>2, <2>4 DEF TypeOK
    <3> QED BY <1>0, <2>2, <3>1 DEF Place, Alone, Emptying, Housed, IsLab
  <2> QED BY <2>3, <2>4
<1>7. \A s, t \in Request : Cross(s, t)'
  <2>1. PICK w \in labs :
          /\ Begin(r, "delete", w.name, w.id, "list_boxes")
          /\ Clash("delete", w.id)
    BY DEF BeginDelete
  <2>2. /\ UNCHANGED <<labs, netRows, boxRows, bridges, boxes, made, todo, next>>
        /\ pc[r] = "idle" /\ pc' = [pc EXCEPT ![r] = "list_boxes"]
        /\ lab' = [lab EXCEPT ![r] = w.id] /\ w.id < next /\ spoiled \subseteq spoiled'
    BY <1>0, <2>1 DEF BeginDelete, database, labhost, Begin, Goto, Clash, Older
  <2> SUFFICES ASSUME NEW s \in Request, NEW t \in Request PROVE Cross(s, t)'
    OBVIOUS
  <2>3. pc[t] \in CreatePc /\ lab[t] = w.id => w.id \in spoiled'
    <3> SUFFICES ASSUME pc[t] \in CreatePc, lab[t] = w.id PROVE w.id \in spoiled'
      OBVIOUS
    <3>1. Working("create", w.id)
      BY <1>0 DEF Working, Req, Creating, CreatePc
    <3> QED BY <2>1, <3>1 DEF Clash
  <2> QED BY <1>0, <2>2, <2>3 DEF TypeOK, Cross, CreatePc, DeletePc
<1>8. NothingStray'
  BY <1>0 DEF BeginDelete, database, labhost, history, local, Begin, Goto, Job, Clash,
      Working, TypeOK, Held, NothingStray, Req, Creating, Deleting, Deploying, Place, Alone,
      Emptying, Housed, CreatePc, DeletePc, DeployPc
<1> QED BY <1>2, <1>3, <1>4, <1>5, <1>6, <1>7, <1>8 DEF SInv

\* All containers are listed, unless a deployment holds one.
LEMMA ListBoxesStays ==
    ASSUME IInv, SInv, NEW r \in Request, ListBoxes(r)
    PROVE  SInv'
<1>0. /\ TypeOK /\ next \in Nat \ {0} /\ next' \in {next, next + 1}
      /\ \A s \in Request : Req(s) /\ Place(s)
      /\ \A s, t \in Request : Pair(s, t) /\ Cross(s, t)
      /\ Older /\ Apart /\ Homes /\ Pointed /\ NothingStray /\ Answered
  BY DEF ListBoxes, Loop, Goto, RowsOf, database, labhost, history, local, IInv, SInv,
      TypeOK
<1>1. Nets' \subseteq Nets
  BY <1>0 DEF ListBoxes, database, labhost, history, local, Loop, Goto, RowsOf, Nets,
      TypeOK, CreatePc, DeletePc, DeployPc
<1>2. Older'
  BY <1>0, <1>1 DEF ListBoxes, database, labhost, history, local, Loop, Goto, RowsOf, Older,
      TypeOK
<1>3. Apart'
  BY <1>0, <1>1 DEF Apart
<1>4. Homes'
  BY <1>0, <1>1 DEF ListBoxes, database, labhost, history, local, Loop, Goto, RowsOf, Homes
<1>5. Pointed'
  BY <1>0 DEF ListBoxes, database, labhost, history, local, Loop, Goto, RowsOf, Pointed,
      TypeOK
<1>6. \A s \in Request : Place(s)'
  <2> SUFFICES ASSUME NEW s \in Request PROVE Place(s)'
    OBVIOUS
  <2>1. /\ pc[r] = "list_boxes" /\ todo' = [todo EXCEPT ![r] = RowsOf(boxRows, lab[r])]
        /\ pc' = [pc EXCEPT ![r] = IF RowsOf(boxRows, lab[r]) = {} THEN "list_nets" ELSE "box"]
        /\ UNCHANGED <<labs, boxRows, bridges, boxes, job, lab, made, next, spoiled>>
    BY DEF ListBoxes, database, labhost, history, Loop, Goto
  <2>2. CASE s = r
    <3>1. ASSUME NEW c \in boxes, c.lab = lab[r], lab[r] \notin spoiled
          PROVE  c \in RowsOf(boxRows, lab[r])
      <4>1. c \in Box
        BY <1>0 DEF TypeOK
      <4>2. c \notin netRows
        BY <1>0, <4>1, Disjoint DEF TypeOK
      <4> SUFFICES ASSUME c \notin boxRows PROVE FALSE
        BY <3>1 DEF RowsOf
      <4>3. PICK q \in Request : Held(q, c) /\ pc[q] = "store"
        BY <3>1, <4>1, <4>2, Disjoint, Holding
      <4>4. lab[q] = lab[r]
        BY <1>0, <3>1, <4>3 DEF Held, Req, Deploying, DeployPc
      <4> QED BY <1>0, <2>1, <3>1, <4>3, <4>4 DEF Pair, DeployPc, DeletePc
    <3>2. /\ todo'[r] = RowsOf(boxRows, lab[r])
          /\ pc'[r] = IF RowsOf(boxRows, lab[r]) = {} THEN "list_nets" ELSE "box"
      BY <1>0, <2>1 DEF TypeOK
    <3> QED BY <1>0, <2>1, <2>2, <3>1, <3>2 DEF Place, Emptying, CreatePc, DeletePc, DeployPc
  <2>3. CASE s # r
    <3>1. pc'[s] = pc[s] /\ todo'[s] = todo[s]
      BY <1>0, <2>1, <2>3 DEF TypeOK
    <3> QED BY <1>0, <2>1, <3>1 DEF Place, Alone, Emptying, Housed, IsLab
  <2> QED BY <2>2, <2>3
<1>7. \A s, t \in Request : Cross(s, t)'
  BY <1>0 DEF ListBoxes, database, labhost, history, local, Loop, Goto, RowsOf, TypeOK,
      Cross, CreatePc, DeletePc, DeployPc
<1>8. NothingStray'
  BY <1>0 DEF ListBoxes, database, labhost, history, local, Loop, Goto, RowsOf, TypeOK,
      Held, NothingStray, Req, Creating, Deleting, Deploying, Place, Alone, Emptying,
      Housed, CreatePc, DeletePc, DeployPc
<1> QED BY <1>2, <1>3, <1>4, <1>5, <1>6, <1>7, <1>8 DEF SInv

\* What is not on the list any more is gone, or its removal was refused.
LEMMA RemoveBoxStays ==
    ASSUME IInv, SInv, NEW r \in Request, RemoveBox(r)
    PROVE  SInv'
<1>0. /\ TypeOK /\ next \in Nat \ {0} /\ next' \in {next, next + 1}
      /\ \A s \in Request : Req(s) /\ Place(s)
      /\ \A s, t \in Request : Pair(s, t) /\ Cross(s, t)
      /\ Older /\ Apart /\ Homes /\ Pointed /\ NothingStray /\ Answered
  BY DEF RemoveBox, Loop, Goto, Fault, database, labhost, history, local, IInv, SInv,
      TypeOK
<1>1. Nets' \subseteq Nets
  BY <1>0 DEF RemoveBox, database, labhost, history, local, Loop, Goto, Fault, Nets, TypeOK,
      CreatePc, DeletePc, DeployPc
<1>2. Older'
  BY <1>0, <1>1 DEF RemoveBox, database, labhost, history, local, Loop, Goto, Fault, Older,
      TypeOK
<1>3. Apart'
  BY <1>0, <1>1 DEF Apart
<1>4. Homes'
  BY <1>0, <1>1 DEF RemoveBox, database, labhost, history, local, Loop, Goto, Fault, Homes
<1>5. Pointed'
  BY <1>0 DEF RemoveBox, database, labhost, history, local, Loop, Goto, Fault, Pointed,
      TypeOK
<1>6. \A s \in Request : Place(s)'
  BY <1>0 DEF RemoveBox, database, labhost, history, local, Loop, Goto, Fault, TypeOK, Req,
      Pair, Cross, Creating, Deleting, Deploying, Place, Alone, Emptying, Housed, IsLab,
      CreatePc, DeletePc, DeployPc
<1>7. \A s, t \in Request : Cross(s, t)'
  BY <1>0 DEF RemoveBox, database, labhost, history, local, Loop, Goto, Fault, TypeOK,
      Cross, CreatePc, DeletePc, DeployPc
<1>8. NothingStray'
  <2>0. /\ bridges' = bridges /\ boxes' \subseteq boxes /\ spoiled \subseteq spoiled'
        /\ UNCHANGED <<netRows, boxRows, made, job>>
    BY DEF RemoveBox, database
  <2> SUFFICES ASSUME NEW x \in bridges' \cup boxes',
                      x.lab \notin spoiled', x \notin netRows' \cup boxRows'
               PROVE  \E q \in Request : Held(q, x)'
    BY DEF NothingStray
  <2>1. PICK q \in Request : Held(q, x)
    BY <1>0, <2>0 DEF NothingStray
  <2>2. x \in boxes => x \in boxes'
    BY <1>0, <2>0, Disjoint DEF TypeOK
  <2> QED BY <2>0, <2>1, <2>2 DEF Held
<1> QED BY <1>2, <1>3, <1>4, <1>5, <1>6, <1>7, <1>8 DEF SInv

\* All networks are listed, unless a creation holds one.
LEMMA ListNetsStays ==
    ASSUME IInv, SInv, NEW r \in Request, ListNets(r)
    PROVE  SInv'
<1>0. /\ TypeOK /\ next \in Nat \ {0} /\ next' \in {next, next + 1}
      /\ \A s \in Request : Req(s) /\ Place(s)
      /\ \A s, t \in Request : Pair(s, t) /\ Cross(s, t)
      /\ Older /\ Apart /\ Homes /\ Pointed /\ NothingStray /\ Answered
  BY DEF ListNets, Loop, Goto, RowsOf, database, labhost, history, local, IInv, SInv,
      TypeOK
<1>1. Nets' \subseteq Nets
  BY <1>0 DEF ListNets, database, labhost, history, local, Loop, Goto, RowsOf, Nets, TypeOK,
      CreatePc, DeletePc, DeployPc
<1>2. Older'
  BY <1>0, <1>1 DEF ListNets, database, labhost, history, local, Loop, Goto, RowsOf, Older,
      TypeOK
<1>3. Apart'
  BY <1>0, <1>1 DEF Apart
<1>4. Homes'
  BY <1>0, <1>1 DEF ListNets, database, labhost, history, local, Loop, Goto, RowsOf, Homes
<1>5. Pointed'
  BY <1>0 DEF ListNets, database, labhost, history, local, Loop, Goto, RowsOf, Pointed,
      TypeOK
<1>6. \A s \in Request : Place(s)'
  <2> SUFFICES ASSUME NEW s \in Request PROVE Place(s)'
    OBVIOUS
  <2>1. /\ pc[r] = "list_nets" /\ todo' = [todo EXCEPT ![r] = RowsOf(netRows, lab[r])]
        /\ pc' = [pc EXCEPT ![r] = IF RowsOf(netRows, lab[r]) = {} THEN "prune" ELSE "net"]
        /\ UNCHANGED <<labs, netRows, bridges, boxes, job, lab, made, next, spoiled>>
    BY DEF ListNets, database, labhost, history, Loop, Goto
  <2>2. CASE s = r
    <3>1. ASSUME NEW n \in bridges, n.lab = lab[r], lab[r] \notin spoiled
          PROVE  n \in RowsOf(netRows, lab[r])
      <4>1. n \in Bridge
        BY <1>0 DEF TypeOK
      <4>2. n \notin boxRows
        BY <1>0, <4>1, Disjoint DEF TypeOK
      <4> SUFFICES ASSUME n \notin netRows PROVE FALSE
        BY <3>1 DEF RowsOf
      <4>3. PICK q \in Request : Held(q, n) /\ pc[q] \in CreatePc
        BY <3>1, <4>1, <4>2, Disjoint, Holding
      <4>4. lab[q] = lab[r]
        BY <1>0, <3>1, <4>3 DEF Held, Req, Creating
      <4> QED BY <1>0, <2>1, <3>1, <4>3, <4>4 DEF Cross, DeletePc
    <3>2. /\ todo'[r] = RowsOf(netRows, lab[r])
          /\ pc'[r] = IF RowsOf(netRows, lab[r]) = {} THEN "prune" ELSE "net"
      BY <1>0, <2>1 DEF TypeOK
    <3> QED BY <1>0, <2>1, <2>2, <3>1, <3>2 DEF Place, Emptying, CreatePc, DeletePc, DeployPc
  <2>3. CASE s # r
    <3>1. pc'[s] = pc[s] /\ todo'[s] = todo[s]
      BY <1>0, <2>1, <2>3 DEF TypeOK
    <3> QED BY <1>0, <2>1, <3>1 DEF Place, Alone, Emptying, Housed, IsLab
  <2> QED BY <2>2, <2>3
<1>7. \A s, t \in Request : Cross(s, t)'
  BY <1>0 DEF ListNets, database, labhost, history, local, Loop, Goto, RowsOf, TypeOK,
      Cross, CreatePc, DeletePc, DeployPc
<1>8. NothingStray'
  BY <1>0 DEF ListNets, database, labhost, history, local, Loop, Goto, RowsOf, TypeOK, Held,
      NothingStray, Req, Creating, Deleting, Deploying, Place, Alone, Emptying, Housed,
      CreatePc, DeletePc, DeployPc
<1> QED BY <1>2, <1>3, <1>4, <1>5, <1>6, <1>7, <1>8 DEF SInv

\* No container is in the network by now.
LEMMA RemoveNetStays ==
    ASSUME IInv, SInv, NEW r \in Request, RemoveNet(r)
    PROVE  SInv'
<1>0. /\ TypeOK /\ next \in Nat \ {0} /\ next' \in {next, next + 1}
      /\ \A s \in Request : Req(s) /\ Place(s)
      /\ \A s, t \in Request : Pair(s, t) /\ Cross(s, t)
      /\ Older /\ Apart /\ Homes /\ Pointed /\ NothingStray /\ Answered
  BY DEF RemoveNet, Loop, Goto, Fault, InUse, database, labhost, history, local, IInv,
      SInv, TypeOK
<1>1. Nets' \subseteq Nets
  BY <1>0 DEF RemoveNet, database, labhost, history, local, Loop, Goto, Fault, InUse, Nets,
      TypeOK, CreatePc, DeletePc, DeployPc
<1>2. Older'
  BY <1>0, <1>1 DEF RemoveNet, database, labhost, history, local, Loop, Goto, Fault, InUse,
      Older, TypeOK
<1>3. Apart'
  BY <1>0, <1>1 DEF Apart
<1>4. Homes'
  BY <1>0, <1>1 DEF RemoveNet, database, labhost, history, local, Loop, Goto, Fault, InUse,
      Homes
<1>5. Pointed'
  BY <1>0 DEF RemoveNet, database, labhost, history, local, Loop, Goto, Fault, InUse,
      Pointed, TypeOK
<1>6. \A s \in Request : Place(s)'
  <2>1. PICK n \in todo[r] :
          /\ \/ bridges' = (IF InUse(n) THEN bridges ELSE bridges \ {n}) /\ UNCHANGED <<faults, spoiled>>
             \/ Fault /\ bridges' = bridges /\ spoiled' = spoiled \cup {lab[r]}
          /\ Loop(r, todo[r] \ {n}, "net", "prune")
    BY DEF RemoveNet
  <2>2. /\ pc[r] = "net" /\ UNCHANGED <<labs, boxes, job, lab, made, next>>
        /\ spoiled \subseteq spoiled' /\ bridges' \subseteq bridges
    BY <2>1 DEF RemoveNet, database
  <2>3. /\ todo'[r] = todo[r] \ {n}
        /\ pc'[r] = "net" \/ (pc'[r] = "prune" /\ todo[r] = {n})
        /\ \A s \in Request : s # r => pc'[s] = pc[s] /\ todo'[s] = todo[s]
    BY <1>0, <2>1 DEF Loop, Goto, TypeOK
  <2> SUFFICES ASSUME NEW s \in Request PROVE Place(s)'
    OBVIOUS
  <2>4. CASE s = r
    <3>1. n \notin bridges' \/ lab[r] \in spoiled'
      <4> SUFFICES ASSUME InUse(n), n \in bridges, lab[r] \notin spoiled PROVE FALSE
        BY <2>1
      <4>1. PICK c \in boxes : c.net = n.id
        BY DEF InUse
      <4>2. c.lab = n.lab /\ n.lab = lab[r]
        BY <1>0, <2>2, <4>1 DEF Homes, Nets, Req, Deleting, DeletePc
      <4> QED BY <1>0, <2>2, <4>2 DEF Place, Emptying, DeletePc
    <3> QED BY <1>0, <2>2, <2>3, <2>4, <3>1 DEF Place, Emptying, CreatePc, DeletePc, DeployPc
  <2>5. CASE s # r
    BY <1>0, <2>2, <2>3, <2>5 DEF Place, Alone, Emptying, Housed, IsLab
  <2> QED BY <2>4, <2>5
<1>7. \A s, t \in Request : Cross(s, t)'
  BY <1>0 DEF RemoveNet, database, labhost, history, local, Loop, Goto, Fault, InUse,
      TypeOK, Cross, CreatePc, DeletePc, DeployPc
<1>8. NothingStray'
  BY <1>0 DEF RemoveNet, database, labhost, history, local, Loop, Goto, Fault, InUse,
      TypeOK, Held, NothingStray, Req, Creating, Deleting, Deploying, Place, Alone,
      Emptying, Housed, CreatePc, DeletePc, DeployPc
<1> QED BY <1>2, <1>3, <1>4, <1>5, <1>6, <1>7, <1>8 DEF SInv

\* The deletion ends with less to remove.
LEMMA RaiseLateStays ==
    ASSUME IInv, SInv, NEW r \in Request, RaiseLate(r)
    PROVE  SInv'
<1>0. /\ TypeOK /\ next \in Nat \ {0} /\ next' \in {next, next + 1}
      /\ \A s \in Request : Req(s) /\ Place(s)
      /\ \A s, t \in Request : Pair(s, t) /\ Cross(s, t)
      /\ Older /\ Apart /\ Homes /\ Pointed /\ NothingStray /\ Answered
  BY DEF RaiseLate, Leave, Goto, Fault, InUse, database, labhost, history, local, IInv,
      SInv, TypeOK
<1>1. Nets' \subseteq Nets
  BY <1>0 DEF RaiseLate, database, labhost, history, local, Leave, Goto, Fault, InUse, Nets,
      TypeOK, CreatePc, DeletePc, DeployPc
<1>2. Older'
  BY <1>0, <1>1 DEF RaiseLate, database, labhost, history, local, Leave, Goto, Fault, InUse,
      Older, TypeOK
<1>3. Apart'
  BY <1>0, <1>1 DEF Apart
<1>4. Homes'
  BY <1>0, <1>1 DEF RaiseLate, database, labhost, history, local, Leave, Goto, Fault, InUse,
      Homes
<1>5. Pointed'
  BY <1>0 DEF RaiseLate, database, labhost, history, local, Leave, Goto, Fault, InUse,
      Pointed, TypeOK
<1>6. \A s \in Request : Place(s)'
  BY <1>0 DEF RaiseLate, database, labhost, history, local, Leave, Goto, Fault, InUse,
      TypeOK, Req, Pair, Cross, Creating, Deleting, Deploying, Place, Alone, Emptying,
      Housed, IsLab, CreatePc, DeletePc, DeployPc
<1>7. \A s, t \in Request : Cross(s, t)'
  BY <1>0 DEF RaiseLate, database, labhost, history, local, Leave, Goto, Fault, InUse,
      TypeOK, Cross, CreatePc, DeletePc, DeployPc
<1>8. NothingStray'
  <2> SUFFICES ASSUME NEW x \in bridges' \cup boxes',
                      x.lab \notin spoiled', x \notin netRows' \cup boxRows'
               PROVE  \E q \in Request : Held(q, x)'
    BY DEF NothingStray
  <2>0. /\ bridges' \subseteq bridges /\ boxes' \subseteq boxes
        /\ UNCHANGED <<netRows, boxRows, spoiled>>
    BY DEF RaiseLate, database, history
  <2>1. x \in bridges \cup boxes /\ x.lab \notin spoiled /\ x \notin netRows \cup boxRows
    BY <2>0
  <2>2. PICK q \in Request : /\ Held(q, x)
                             /\ \/ pc[q] \in CreatePc /\ x \in Bridge
                                \/ pc[q] = "store" /\ x \in Box
    BY <2>1, Holding
  <2>3. q # r
    BY <2>2 DEF RaiseLate, CreatePc
  <2>4. made'[q] = made[q] /\ job'[q] = job[q]
    BY <1>0, <2>3 DEF RaiseLate, Leave, TypeOK
  <2>5. x \in boxes => x \in boxes'
    <3>1. x \in boxes => x \in Box /\ x \notin Bridge
      BY <1>0, Disjoint DEF TypeOK
    <3> QED BY <2>0, <3>1, <1>0, Disjoint DEF TypeOK
  <2> QED BY <2>2, <2>4, <2>5 DEF Held
<1> QED BY <1>2, <1>3, <1>4, <1>5, <1>6, <1>7, <1>8 DEF SInv

\* Pruning volumes changes nothing that is kept here.
LEMMA PruneStays ==
    ASSUME IInv, SInv, NEW r \in Request, Prune(r)
    PROVE  SInv'
<1>0. /\ TypeOK /\ next \in Nat \ {0} /\ next' \in {next, next + 1}
      /\ \A s \in Request : Req(s) /\ Place(s)
      /\ \A s, t \in Request : Pair(s, t) /\ Cross(s, t)
      /\ Older /\ Apart /\ Homes /\ Pointed /\ NothingStray /\ Answered
  BY DEF Prune, Goto, database, labhost, history, local, IInv, SInv, TypeOK
<1>1. Nets' \subseteq Nets
  BY <1>0 DEF Prune, database, labhost, history, local, Goto, Nets, TypeOK, CreatePc,
      DeletePc, DeployPc
<1>2. Older'
  BY <1>0, <1>1 DEF Prune, database, labhost, history, local, Goto, Older, TypeOK
<1>3. Apart'
  BY <1>0, <1>1 DEF Apart
<1>4. Homes'
  BY <1>0, <1>1 DEF Prune, database, labhost, history, local, Goto, Homes
<1>5. Pointed'
  BY <1>0 DEF Prune, database, labhost, history, local, Goto, Pointed, TypeOK
<1>6. \A s \in Request : Place(s)'
  BY <1>0 DEF Prune, database, labhost, history, local, Goto, TypeOK, Req, Pair, Cross,
      Creating, Deleting, Deploying, Place, Alone, Emptying, Housed, IsLab, CreatePc,
      DeletePc, DeployPc
<1>7. \A s, t \in Request : Cross(s, t)'
  BY <1>0 DEF Prune, database, labhost, history, local, Goto, TypeOK, Cross, CreatePc,
      DeletePc, DeployPc
<1>8. NothingStray'
  BY <1>0 DEF Prune, database, labhost, history, local, Goto, TypeOK, Held, NothingStray,
      Req, Creating, Deleting, Deploying, Place, Alone, Emptying, Housed, CreatePc,
      DeletePc, DeployPc
<1> QED BY <1>2, <1>3, <1>4, <1>5, <1>6, <1>7, <1>8 DEF SInv

\* Rows of containers that are gone.
LEMMA DropBoxRowsStays ==
    ASSUME IInv, SInv, NEW r \in Request, DropBoxRows(r)
    PROVE  SInv'
<1>0. /\ TypeOK /\ next \in Nat \ {0} /\ next' \in {next, next + 1}
      /\ \A s \in Request : Req(s) /\ Place(s)
      /\ \A s, t \in Request : Pair(s, t) /\ Cross(s, t)
      /\ Older /\ Apart /\ Homes /\ Pointed /\ NothingStray /\ Answered
  BY DEF DropBoxRows, Goto, RowsOf, database, labhost, history, local, IInv, SInv, TypeOK
<1>1. Nets' \subseteq Nets
  BY <1>0 DEF DropBoxRows, database, labhost, history, local, Goto, RowsOf, Nets, TypeOK,
      CreatePc, DeletePc, DeployPc
<1>2. Older'
  BY <1>0, <1>1 DEF DropBoxRows, database, labhost, history, local, Goto, RowsOf, Older,
      TypeOK
<1>3. Apart'
  BY <1>0, <1>1 DEF Apart
<1>4. Homes'
  BY <1>0, <1>1 DEF DropBoxRows, database, labhost, history, local, Goto, RowsOf, Homes
<1>5. Pointed'
  BY <1>0 DEF DropBoxRows, database, labhost, history, local, Goto, RowsOf, Pointed, TypeOK
<1>6. \A s \in Request : Place(s)'
  BY <1>0 DEF DropBoxRows, database, labhost, history, local, Goto, RowsOf, TypeOK, Req,
      Pair, Cross, Creating, Deleting, Deploying, Place, Alone, Emptying, Housed, IsLab,
      CreatePc, DeletePc, DeployPc
<1>7. \A s, t \in Request : Cross(s, t)'
  BY <1>0 DEF DropBoxRows, database, labhost, history, local, Goto, RowsOf, TypeOK, Cross,
      CreatePc, DeletePc, DeployPc
<1>8. NothingStray'
  BY <1>0 DEF DropBoxRows, database, labhost, history, local, Goto, RowsOf, TypeOK, Held,
      NothingStray, Req, Creating, Deleting, Deploying, Place, Alone, Emptying, Housed,
      CreatePc, DeletePc, DeployPc
<1> QED BY <1>2, <1>3, <1>4, <1>5, <1>6, <1>7, <1>8 DEF SInv

\* Rows of networks that are gone.
LEMMA DropNetRowsStays ==
    ASSUME IInv, SInv, NEW r \in Request, DropNetRows(r)
    PROVE  SInv'
<1>0. /\ TypeOK /\ next \in Nat \ {0} /\ next' \in {next, next + 1}
      /\ \A s \in Request : Req(s) /\ Place(s)
      /\ \A s, t \in Request : Pair(s, t) /\ Cross(s, t)
      /\ Older /\ Apart /\ Homes /\ Pointed /\ NothingStray /\ Answered
  BY DEF DropNetRows, Goto, RowsOf, database, labhost, history, local, IInv, SInv, TypeOK
<1>1. Nets' \subseteq Nets
  BY <1>0 DEF DropNetRows, database, labhost, history, local, Goto, RowsOf, Nets, TypeOK,
      CreatePc, DeletePc, DeployPc
<1>2. Older'
  BY <1>0, <1>1 DEF DropNetRows, database, labhost, history, local, Goto, RowsOf, Older,
      TypeOK
<1>3. Apart'
  BY <1>0, <1>1 DEF Apart
<1>4. Homes'
  BY <1>0, <1>1 DEF DropNetRows, database, labhost, history, local, Goto, RowsOf, Homes
<1>5. Pointed'
  BY <1>0 DEF DropNetRows, database, labhost, history, local, Goto, RowsOf, Pointed, TypeOK
<1>6. \A s \in Request : Place(s)'
  BY <1>0 DEF DropNetRows, database, labhost, history, local, Goto, RowsOf, TypeOK, Req,
      Pair, Cross, Creating, Deleting, Deploying, Place, Alone, Emptying, Housed, IsLab,
      CreatePc, DeletePc, DeployPc
<1>7. \A s, t \in Request : Cross(s, t)'
  BY <1>0 DEF DropNetRows, database, labhost, history, local, Goto, RowsOf, TypeOK, Cross,
      CreatePc, DeletePc, DeployPc
<1>8. NothingStray'
  BY <1>0 DEF DropNetRows, database, labhost, history, local, Goto, RowsOf, TypeOK, Held,
      NothingStray, Req, Creating, Deleting, Deploying, Place, Alone, Emptying, Housed,
      CreatePc, DeletePc, DeployPc
<1> QED BY <1>2, <1>3, <1>4, <1>5, <1>6, <1>7, <1>8 DEF SInv

\* The row of a lab of which nothing is left.
LEMMA DropLabRowStays ==
    ASSUME IInv, SInv, NEW r \in Request, DropLabRow(r)
    PROVE  SInv'
<1>0. /\ TypeOK /\ next \in Nat \ {0} /\ next' \in {next, next + 1}
      /\ \A s \in Request : Req(s) /\ Place(s)
      /\ \A s, t \in Request : Pair(s, t) /\ Cross(s, t)
      /\ Older /\ Apart /\ Homes /\ Pointed /\ NothingStray /\ Answered
  BY DEF DropLabRow, Leave, Goto, DropLab, RowsOf, database, labhost, history, local, IInv,
      SInv, TypeOK
<1>1. Nets' \subseteq Nets
  BY <1>0 DEF DropLabRow, database, labhost, history, local, Leave, Goto, DropLab, RowsOf,
      Nets, TypeOK, CreatePc, DeletePc, DeployPc
<1>2. Older'
  BY <1>0, <1>1 DEF DropLabRow, database, labhost, history, local, Leave, Goto, DropLab,
      RowsOf, Older, TypeOK
<1>3. Apart'
  BY <1>0, <1>1 DEF Apart
<1>4. Homes'
  BY <1>0, <1>1 DEF DropLabRow, database, labhost, history, local, Leave, Goto, DropLab,
      RowsOf, Homes
<1>5. Pointed'
  BY <1>0 DEF DropLabRow, database, labhost, history, local, Leave, Goto, DropLab, RowsOf,
      Pointed, TypeOK
<1>6. \A s \in Request : Place(s)'
  BY <1>0 DEF DropLabRow, database, labhost, history, local, Leave, Goto, DropLab, RowsOf,
      TypeOK, Req, Pair, Cross, Creating, Deleting, Deploying, Place, Alone, Emptying,
      Housed, IsLab, CreatePc, DeletePc, DeployPc
<1>7. \A s, t \in Request : Cross(s, t)'
  BY <1>0 DEF DropLabRow, database, labhost, history, local, Leave, Goto, DropLab, RowsOf,
      TypeOK, Cross, CreatePc, DeletePc, DeployPc
<1>8. NothingStray'
  BY <1>0 DEF DropLabRow, database, labhost, history, local, Leave, Goto, DropLab, RowsOf,
      TypeOK, Held, NothingStray, Req, Creating, Deleting, Deploying, Place, Alone,
      Emptying, Housed, CreatePc, DeletePc, DeployPc
<1> QED BY <1>2, <1>3, <1>4, <1>5, <1>6, <1>7, <1>8 DEF SInv

\* The network chosen is of the lab.
LEMMA BeginDeployStays ==
    ASSUME IInv, SInv, NEW r \in Request, BeginDeploy(r)
    PROVE  SInv'
<1>0. /\ TypeOK /\ next \in Nat \ {0} /\ next' \in {next, next + 1}
      /\ \A s \in Request : Req(s) /\ Place(s)
      /\ \A s, t \in Request : Pair(s, t) /\ Cross(s, t)
      /\ Older /\ Apart /\ Homes /\ Pointed /\ NothingStray /\ Answered
  BY DEF BeginDeploy, Begin, Goto, Job, Clash, Working, IsLab, database, labhost, history,
      local, IInv, SInv, TypeOK
<1>1. Nets' \subseteq Nets
  BY <1>0 DEF BeginDeploy, database, labhost, history, local, Begin, Goto, Job, Clash,
      Working, IsLab, Nets, TypeOK, CreatePc, DeletePc, DeployPc
<1>2. Older'
  BY <1>0, <1>1 DEF BeginDeploy, database, labhost, history, local, Begin, Goto, Job, Clash,
      Working, IsLab, Older, TypeOK
<1>3. Apart'
  BY <1>0, <1>1 DEF Apart
<1>4. Homes'
  BY <1>0, <1>1 DEF BeginDeploy, database, labhost, history, local, Begin, Goto, Job, Clash,
      Working, IsLab, Homes
<1>5. Pointed'
  BY <1>0 DEF BeginDeploy, database, labhost, history, local, Begin, Goto, Job, Clash,
      Working, IsLab, Pointed, TypeOK
<1>6. \A s \in Request : Place(s)'
  <2>1. PICK w \in labs, n \in netRows :
          /\ n.id \in w.nets
          /\ Begin(r, "deploy", w.name, w.id, "make")
          /\ made' = [made EXCEPT ![r] = {n}]
          /\ Clash("deploy", w.id)
    BY DEF BeginDeploy
  <2>2. /\ UNCHANGED <<labs, netRows, boxRows, bridges, boxes, todo, next>>
        /\ pc[r] = "idle" /\ pc' = [pc EXCEPT ![r] = "make"]
        /\ lab' = [lab EXCEPT ![r] = w.id] /\ spoiled \subseteq spoiled'
    BY <1>0, <2>1 DEF BeginDeploy, database, labhost, Begin, Goto, Clash
  <2> SUFFICES ASSUME NEW s \in Request PROVE Place(s)'
    OBVIOUS
  <2>3. CASE s = r
    <3>1. n.lab = w.id
      <4>1. PICK m \in netRows : m.id = n.id /\ m.lab = w.id
        BY <1>0, <2>1 DEF Pointed
      <4> QED BY <1>0, <4>1 DEF Apart, Nets
    <3>2. pc'[r] = "make" /\ lab'[r] = w.id /\ made'[r] = {n} /\ w \in labs'
      BY <1>0, <2>1, <2>2 DEF TypeOK
    <3> QED BY <2>3, <3>1, <3>2 DEF Place, Housed, IsLab, CreatePc, DeletePc
  <2>4. CASE s # r
    <3>1. pc'[s] = pc[s] /\ lab'[s] = lab[s] /\ made'[s] = made[s]
      BY <1>0, <2>1, <2>2, <2>4 DEF TypeOK
    <3> QED BY <1>0, <2>2, <3>1 DEF Place, Alone, Emptying, Housed, IsLab
  <2> QED BY <2>3, <2>4
<1>7. \A s, t \in Request : Cross(s, t)'
  BY <1>0 DEF BeginDeploy, database, labhost, history, local, Begin, Goto, Job, Clash,
      Working, IsLab, TypeOK, Cross, CreatePc, DeletePc, DeployPc
<1>8. NothingStray'
  BY <1>0 DEF BeginDeploy, database, labhost, history, local, Begin, Goto, Job, Clash,
      Working, IsLab, TypeOK, Held, NothingStray, Req, Creating, Deleting, Deploying, Place,
      Alone, Emptying, Housed, CreatePc, DeletePc, DeployPc
<1> QED BY <1>2, <1>3, <1>4, <1>5, <1>6, <1>7, <1>8 DEF SInv

\* The request holds the container it has made.
LEMMA MakeStays ==
    ASSUME IInv, SInv, NEW r \in Request, Make(r)
    PROVE  SInv'
<1>0. /\ TypeOK /\ next \in Nat \ {0} /\ next' \in {next, next + 1}
      /\ \A s \in Request : Req(s) /\ Place(s)
      /\ \A s, t \in Request : Pair(s, t) /\ Cross(s, t)
      /\ Older /\ Apart /\ Homes /\ Pointed /\ NothingStray /\ Answered
  BY DEF Make, Leave, Goto, database, labhost, history, local, IInv, SInv, TypeOK
<1>1. Nets' \subseteq Nets
  BY <1>0 DEF Make, database, labhost, history, local, Leave, Goto, Nets, TypeOK, CreatePc,
      DeletePc, DeployPc
<1>2. Older'
  <2>00. pc[r] = "make" /\ Deploying(r) /\ Housed(r)
    BY <1>0 DEF Make, Req, Place, DeployPc
  <2>0. /\ pc[r] = "make" /\ Deploying(r) /\ Housed(r) /\ lab[r] \in Nat /\ lab[r] < next
        /\ lab[r] \in ready
    <3>1. lab[r] \in ready
      BY <2>00 DEF Deploying
    <3>2. lab[r] \in 1..(next - 1)
      BY <1>0, <3>1 DEF Answered
    <3> QED BY <1>0, <2>00, <3>1, <3>2
  <2>1. PICK n \in made[r] :
          \/ boxes' = boxes
          \/ n \in bridges /\ boxes' = boxes \cup {[id |-> next, lab |-> lab[r], net |-> n.id]}
             /\ next' = next + 1
    BY DEF Make
  <2>2. n \in Bridge /\ n.lab = lab[r]
    BY <2>0 DEF Deploying, Housed
  <2>3. \A m \in Nets' : m.id < next' /\ m.lab < next'
    BY <1>0, <1>1, NetsTyped DEF Older
  <2>4. \A c \in boxes : c.id < next' /\ c.lab < next' /\ c.net < next'
    BY <1>0 DEF Older, TypeOK, Box
  <2>5. n \in bridges => n.id < next /\ n.id \in Nat
    BY <1>0, <2>2, NetsTyped DEF Older, Nets
  <2>6. \A c \in boxes' : c.id < next' /\ c.lab < next' /\ c.net < next'
    <3> SUFFICES ASSUME NEW c \in boxes', c \notin boxes
                 PROVE  c.id < next' /\ c.lab < next' /\ c.net < next'
      BY <2>4
    <3>1. c = [id |-> next, lab |-> lab[r], net |-> n.id] /\ n \in bridges /\ next' = next + 1
      BY <2>1
    <3> QED BY <1>0, <2>0, <2>5, <3>1
  <2>7. \A w \in labs' : w.id < next'
    BY <1>0 DEF Make, database, Older, TypeOK
  <2> QED BY <2>3, <2>6, <2>7 DEF Older
<1>3. Apart'
  BY <1>0, <1>1 DEF Apart
<1>4. Homes'
  <2>00. pc[r] = "make" /\ Deploying(r) /\ Housed(r)
    BY <1>0 DEF Make, Req, Place, DeployPc
  <2>0. /\ pc[r] = "make" /\ Deploying(r) /\ Housed(r) /\ lab[r] \in Nat /\ lab[r] < next
        /\ lab[r] \in ready
    <3>1. lab[r] \in ready
      BY <2>00 DEF Deploying
    <3>2. lab[r] \in 1..(next - 1)
      BY <1>0, <3>1 DEF Answered
    <3> QED BY <1>0, <2>00, <3>1, <3>2
  <2>1. PICK n \in made[r] :
          \/ boxes' = boxes
          \/ n \in bridges /\ boxes' = boxes \cup {[id |-> next, lab |-> lab[r], net |-> n.id]}
             /\ next' = next + 1
    BY DEF Make
  <2>2. n \in Bridge /\ n.lab = lab[r]
    BY <2>0 DEF Deploying, Housed
  <2>3. ASSUME n \in bridges, NEW m \in Nets, m.id = n.id PROVE m.lab = lab[r]
    BY <1>0, <2>2, <2>3 DEF Apart, Nets
  <2> QED BY <1>0, <1>1, <2>1, <2>3 DEF Homes
<1>5. Pointed'
  BY <1>0 DEF Make, database, labhost, history, local, Leave, Goto, Pointed, TypeOK
<1>6. \A s \in Request : Place(s)'
  BY <1>0 DEF Make, database, labhost, history, local, Leave, Goto, TypeOK, Req, Pair,
      Cross, Creating, Deleting, Deploying, Place, Alone, Emptying, Housed, IsLab, CreatePc,
      DeletePc, DeployPc
<1>7. \A s, t \in Request : Cross(s, t)'
  BY <1>0 DEF Make, database, labhost, history, local, Leave, Goto, TypeOK, Cross, CreatePc,
      DeletePc, DeployPc
<1>8. NothingStray'
  <2>0. pc[r] = "make" /\ UNCHANGED <<bridges, netRows, boxRows, spoiled>>
    BY DEF Make, database, history
  <2>1. PICK n \in made[r] :
          \/ boxes' = boxes
          \/ /\ boxes' = boxes \cup {[id |-> next, lab |-> lab[r], net |-> n.id]}
             /\ made' = [made EXCEPT ![r] = {[id |-> next, lab |-> lab[r], net |-> n.id]}]
    BY DEF Make
  <2>2. \A q \in Request : q # r => made'[q] = made[q] /\ job'[q] = job[q]
    BY <1>0 DEF Make, Leave, TypeOK
  <2> SUFFICES ASSUME NEW x \in bridges' \cup boxes',
                      x.lab \notin spoiled', x \notin netRows' \cup boxRows'
               PROVE  \E q \in Request : Held(q, x)'
    BY DEF NothingStray
  <2>3. CASE x \in bridges \cup boxes
    <3>1. PICK q \in Request : /\ Held(q, x)
                             /\ \/ pc[q] \in CreatePc /\ x \in Bridge
                                \/ pc[q] = "store" /\ x \in Box
      BY <2>0, <2>3, Holding
    <3>2. q # r
      BY <2>0, <3>1 DEF CreatePc
    <3>3. boxes \subseteq boxes'
      BY <2>1
    <3> QED BY <2>2, <3>1, <3>2, <3>3 DEF Held
  <2>4. CASE x \notin bridges \cup boxes
    <3>1. /\ x = [id |-> next, lab |-> lab[r], net |-> n.id]
          /\ made' = [made EXCEPT ![r] = {x}]
      BY <2>0, <2>1, <2>4
    <3>2. x \in made'[r]
      BY <1>0, <3>1 DEF TypeOK
    <3> QED BY <2>0, <2>4, <3>2 DEF Held
  <2> QED BY <2>3, <2>4
<1> QED BY <1>2, <1>3, <1>4, <1>5, <1>6, <1>7, <1>8 DEF SInv

\* A container nobody is told of spoils the lab.
LEMMA MakeLateStays ==
    ASSUME IInv, SInv, NEW r \in Request, MakeLate(r)
    PROVE  SInv'
<1>0. /\ TypeOK /\ next \in Nat \ {0} /\ next' \in {next, next + 1}
      /\ \A s \in Request : Req(s) /\ Place(s)
      /\ \A s, t \in Request : Pair(s, t) /\ Cross(s, t)
      /\ Older /\ Apart /\ Homes /\ Pointed /\ NothingStray /\ Answered
  BY DEF MakeLate, Leave, Goto, Fault, database, labhost, history, local, IInv, SInv,
      TypeOK
<1>1. Nets' \subseteq Nets
  BY <1>0 DEF MakeLate, database, labhost, history, local, Leave, Goto, Fault, Nets, TypeOK,
      CreatePc, DeletePc, DeployPc
<1>2. Older'
  <2>00. pc[r] = "make" /\ Deploying(r) /\ Housed(r)
    BY <1>0 DEF MakeLate, Req, Place, DeployPc
  <2>0. /\ pc[r] = "make" /\ Deploying(r) /\ Housed(r) /\ lab[r] \in Nat /\ lab[r] < next
        /\ lab[r] \in ready
    <3>1. lab[r] \in ready
      BY <2>00 DEF Deploying
    <3>2. lab[r] \in 1..(next - 1)
      BY <1>0, <3>1 DEF Answered
    <3> QED BY <1>0, <2>00, <3>1, <3>2
  <2>1. PICK n \in made[r] :
          \/ boxes' = boxes
          \/ n \in bridges /\ boxes' = boxes \cup {[id |-> next, lab |-> lab[r], net |-> n.id]}
             /\ next' = next + 1
    BY DEF MakeLate
  <2>2. n \in Bridge /\ n.lab = lab[r]
    BY <2>0 DEF Deploying, Housed
  <2>3. \A m \in Nets' : m.id < next' /\ m.lab < next'
    BY <1>0, <1>1, NetsTyped DEF Older
  <2>4. \A c \in boxes : c.id < next' /\ c.lab < next' /\ c.net < next'
    BY <1>0 DEF Older, TypeOK, Box
  <2>5. n \in bridges => n.id < next /\ n.id \in Nat
    BY <1>0, <2>2, NetsTyped DEF Older, Nets
  <2>6. \A c \in boxes' : c.id < next' /\ c.lab < next' /\ c.net < next'
    <3> SUFFICES ASSUME NEW c \in boxes', c \notin boxes
                 PROVE  c.id < next' /\ c.lab < next' /\ c.net < next'
      BY <2>4
    <3>1. c = [id |-> next, lab |-> lab[r], net |-> n.id] /\ n \in bridges /\ next' = next + 1
      BY <2>1
    <3> QED BY <1>0, <2>0, <2>5, <3>1
  <2>7. \A w \in labs' : w.id < next'
    BY <1>0 DEF MakeLate, database, Older, TypeOK
  <2> QED BY <2>3, <2>6, <2>7 DEF Older
<1>3. Apart'
  BY <1>0, <1>1 DEF Apart
<1>4. Homes'
  <2>00. pc[r] = "make" /\ Deploying(r) /\ Housed(r)
    BY <1>0 DEF MakeLate, Req, Place, DeployPc
  <2>0. /\ pc[r] = "make" /\ Deploying(r) /\ Housed(r) /\ lab[r] \in Nat /\ lab[r] < next
        /\ lab[r] \in ready
    <3>1. lab[r] \in ready
      BY <2>00 DEF Deploying
    <3>2. lab[r] \in 1..(next - 1)
      BY <1>0, <3>1 DEF Answered
    <3> QED BY <1>0, <2>00, <3>1, <3>2
  <2>1. PICK n \in made[r] :
          \/ boxes' = boxes
          \/ n \in bridges /\ boxes' = boxes \cup {[id |-> next, lab |-> lab[r], net |-> n.id]}
             /\ next' = next + 1
    BY DEF MakeLate
  <2>2. n \in Bridge /\ n.lab = lab[r]
    BY <2>0 DEF Deploying, Housed
  <2>3. ASSUME n \in bridges, NEW m \in Nets, m.id = n.id PROVE m.lab = lab[r]
    BY <1>0, <2>2, <2>3 DEF Apart, Nets
  <2> QED BY <1>0, <1>1, <2>1, <2>3 DEF Homes
<1>5. Pointed'
  BY <1>0 DEF MakeLate, database, labhost, history, local, Leave, Goto, Fault, Pointed,
      TypeOK
<1>6. \A s \in Request : Place(s)'
  BY <1>0 DEF MakeLate, database, labhost, history, local, Leave, Goto, Fault, TypeOK, Req,
      Pair, Cross, Creating, Deleting, Deploying, Place, Alone, Emptying, Housed, IsLab,
      CreatePc, DeletePc, DeployPc
<1>7. \A s, t \in Request : Cross(s, t)'
  BY <1>0 DEF MakeLate, database, labhost, history, local, Leave, Goto, Fault, TypeOK,
      Cross, CreatePc, DeletePc, DeployPc
<1>8. NothingStray'
  BY <1>0 DEF MakeLate, database, labhost, history, local, Leave, Goto, Fault, TypeOK, Held,
      NothingStray, Req, Creating, Deleting, Deploying, Place, Alone, Emptying, Housed,
      CreatePc, DeletePc, DeployPc
<1> QED BY <1>2, <1>3, <1>4, <1>5, <1>6, <1>7, <1>8 DEF SInv

\* The container gets its row, or the lab was deleted meanwhile.
LEMMA StoreStays ==
    ASSUME IInv, SInv, NEW r \in Request, Store(r)
    PROVE  SInv'
<1>0. /\ TypeOK /\ next \in Nat \ {0} /\ next' \in {next, next + 1}
      /\ \A s \in Request : Req(s) /\ Place(s)
      /\ \A s, t \in Request : Pair(s, t) /\ Cross(s, t)
      /\ Older /\ Apart /\ Homes /\ Pointed /\ NothingStray /\ Answered
  BY DEF Store, Leave, Goto, IsLab, database, labhost, history, local, IInv, SInv, TypeOK
<1>1. Nets' \subseteq Nets
  BY <1>0 DEF Store, database, labhost, history, local, Leave, Goto, IsLab, Nets, TypeOK,
      CreatePc, DeletePc, DeployPc
<1>2. Older'
  BY <1>0, <1>1 DEF Store, database, labhost, history, local, Leave, Goto, IsLab, Older,
      TypeOK
<1>3. Apart'
  BY <1>0, <1>1 DEF Apart
<1>4. Homes'
  BY <1>0, <1>1 DEF Store, database, labhost, history, local, Leave, Goto, IsLab, Homes
<1>5. Pointed'
  BY <1>0 DEF Store, database, labhost, history, local, Leave, Goto, IsLab, Pointed, TypeOK
<1>6. \A s \in Request : Place(s)'
  BY <1>0 DEF Store, database, labhost, history, local, Leave, Goto, IsLab, TypeOK, Req,
      Pair, Cross, Creating, Deleting, Deploying, Place, Alone, Emptying, Housed, IsLab,
      CreatePc, DeletePc, DeployPc
<1>7. \A s, t \in Request : Cross(s, t)'
  BY <1>0 DEF Store, database, labhost, history, local, Leave, Goto, IsLab, TypeOK, Cross,
      CreatePc, DeletePc, DeployPc
<1>8. NothingStray'
  BY <1>0 DEF Store, database, labhost, history, local, Leave, Goto, IsLab, TypeOK, Held,
      NothingStray, Req, Creating, Deleting, Deploying, Place, Alone, Emptying, Housed,
      CreatePc, DeletePc, DeployPc
<1> QED BY <1>2, <1>3, <1>4, <1>5, <1>6, <1>7, <1>8 DEF SInv

\* What the host held is forgotten, but for networks creations hold.
LEMMA DeleteHostStays ==
    ASSUME IInv, SInv, DeleteHost
    PROVE  SInv'
<1>0. /\ TypeOK /\ next \in Nat \ {0} /\ next' \in {next, next + 1}
      /\ \A s \in Request : Req(s) /\ Place(s)
      /\ \A s, t \in Request : Pair(s, t) /\ Cross(s, t)
      /\ Older /\ Apart /\ Homes /\ Pointed /\ NothingStray /\ Answered
  BY DEF DeleteHost, Working, database, labhost, history, local, IInv, SInv, TypeOK
<1>1. Nets' \subseteq Nets
  BY <1>0 DEF DeleteHost, database, labhost, history, local, Working, Nets, TypeOK,
      CreatePc, DeletePc, DeployPc
<1>2. Older'
  BY <1>0, <1>1 DEF DeleteHost, database, labhost, history, local, Working, Older, TypeOK
<1>3. Apart'
  BY <1>0, <1>1 DEF Apart
<1>4. Homes'
  BY <1>0, <1>1 DEF DeleteHost, database, labhost, history, local, Working, Homes
<1>5. Pointed'
  BY <1>0 DEF DeleteHost, database, labhost, history, local, Working, Pointed, TypeOK
<1>6. \A s \in Request : Place(s)'
  <2>1. /\ UNCHANGED <<bridges, boxes, pc, job, lab, made, todo, next, ready>>
        /\ spoiled' = spoiled \cup {l \in 1..(next - 1) : ~Working("create", l)}
    BY DEF DeleteHost, labhost, local
  <2> SUFFICES ASSUME NEW s \in Request PROVE Place(s)'
    OBVIOUS
  <2>2. pc[s] \in DeployPc => lab[s] \in spoiled'
    <3> SUFFICES ASSUME pc[s] \in DeployPc PROVE lab[s] \in spoiled'
      OBVIOUS
    <3>1. lab[s] \in ready /\ lab[s] \in 1..(next - 1)
      BY <1>0 DEF Req, Deploying, Answered
    <3>2. ~Working("create", lab[s])
      BY <1>0, <3>1 DEF Working, Req, Creating, Deleting, Deploying, CreatePc, DeletePc,
          DeployPc, TypeOK
    <3> QED BY <2>1, <3>1, <3>2
  <2> QED BY <1>0, <2>1, <2>2 DEF Place, Alone, Emptying, Housed
<1>7. \A s, t \in Request : Cross(s, t)'
  BY <1>0 DEF DeleteHost, database, labhost, history, local, Working, TypeOK, Cross,
      CreatePc, DeletePc, DeployPc
<1>8. NothingStray'
  <2>1. /\ UNCHANGED <<bridges, boxes, pc, job, lab, made, todo, next>>
        /\ spoiled' = spoiled \cup {l \in 1..(next - 1) : ~Working("create", l)}
    BY DEF DeleteHost, labhost, local
  <2> SUFFICES ASSUME NEW x \in bridges \cup boxes, x.lab \notin spoiled'
               PROVE  \E q \in Request : Held(q, x)
    BY <2>1 DEF NothingStray, Held
  <2>2. x.lab \in 1..(next - 1)
    BY <1>0 DEF Older, Nets, TypeOK, Bridge, Box
  <2>3. PICK q \in Request : pc[q] # "idle" /\ job[q].op = "create" /\ lab[q] = x.lab
    BY <2>1, <2>2 DEF Working
  <2>4. pc[q] \in CreatePc
    BY <1>0, <2>2, <2>3 DEF Req, Deleting, Deploying, CreatePc, DeletePc, DeployPc, TypeOK
  <2> QED BY <1>0, <2>1, <2>3, <2>4 DEF Place, Alone, Held
<1> QED BY <1>2, <1>3, <1>4, <1>5, <1>6, <1>7, <1>8 DEF SInv

\* The new network has a new id, and its creation holds it.
LEMMA PostNetStays ==
    ASSUME IInv, SInv, NEW r \in Request, NEW role \in Role, PostNet(r, role)
    PROVE  SInv'
<1>0. /\ TypeOK /\ next \in Nat \ {0} /\ next' \in {next, next + 1}
      /\ \A s \in Request : Req(s) /\ Place(s)
      /\ \A s, t \in Request : Pair(s, t) /\ Cross(s, t)
      /\ Older /\ Apart /\ Homes /\ Pointed /\ NothingStray /\ Answered
  BY DEF PostNet, Goto, Role, database, labhost, history, local, IInv, SInv, TypeOK
<1>1. /\ Nets' \subseteq Nets \cup {[id |-> next, lab |-> lab[r], role |-> role]}
      /\ (Nets' \subseteq Nets \/ next' = next + 1)
  BY <1>0 DEF PostNet, database, labhost, history, local, Goto, Role, Nets, TypeOK,
      CreatePc, DeletePc, DeployPc
<1>2. Older'
  <2>1. \A m \in Nets' : m.id < next' /\ m.lab < next'
    <3> SUFFICES ASSUME NEW m \in Nets' PROVE m.id < next' /\ m.lab < next'
      OBVIOUS
    <3>1. CASE m \in Nets
      BY <1>0, <3>1, NetsTyped DEF Older
    <3>2. CASE m \notin Nets
      <4>1. m = [id |-> next, lab |-> lab[r], role |-> role] /\ next' = next + 1
        BY <1>1, <3>2
      <4>2. lab[r] \in 1..(next - 1)
        BY <1>0 DEF PostNet, Req, Creating, CreatePc, Role
      <4> QED BY <1>0, <4>1, <4>2
    <3> QED BY <3>1, <3>2
  <2>2. \A c \in boxes' : c.id < next' /\ c.lab < next' /\ c.net < next'
    BY <1>0 DEF PostNet, Older, TypeOK, Box
  <2>3. \A w \in labs' : w.id < next'
    BY <1>0 DEF PostNet, database, Older, TypeOK
  <2> QED BY <2>1, <2>2, <2>3 DEF Older
<1>3. Apart'
  <2>1. \A m \in Nets : m.id # next
    BY <1>0, NetsTyped DEF Older
  <2> QED BY <1>0, <1>1, <2>1 DEF Apart
<1>4. Homes'
  <2>1. \A c \in boxes : c.net # next
    BY <1>0 DEF Older, TypeOK, Box
  <2>2. boxes' = boxes
    BY DEF PostNet
  <2> QED BY <1>0, <1>1, <2>1, <2>2 DEF Homes
<1>5. Pointed'
  BY <1>0 DEF PostNet, database, labhost, history, local, Goto, Role, Pointed, TypeOK
<1>6. \A s \in Request : Place(s)'
  BY <1>0 DEF PostNet, database, labhost, history, local, Goto, Role, TypeOK, Req, Pair,
      Cross, Creating, Deleting, Deploying, Place, Alone, Emptying, Housed, IsLab, CreatePc,
      DeletePc, DeployPc
<1>7. \A s, t \in Request : Cross(s, t)'
  BY <1>0 DEF PostNet, database, labhost, history, local, Goto, Role, TypeOK, Cross,
      CreatePc, DeletePc, DeployPc
<1>8. NothingStray'
  BY <1>0 DEF PostNet, database, labhost, history, local, Goto, Role, TypeOK, Held,
      NothingStray, Req, Creating, Deleting, Deploying, Place, Alone, Emptying, Housed,
      CreatePc, DeletePc, DeployPc
<1> QED BY <1>2, <1>3, <1>4, <1>5, <1>6, <1>7, <1>8 DEF SInv

\* A network nobody is told of spoils the lab.
LEMMA PostNetFailsStays ==
    ASSUME IInv, SInv, NEW r \in Request, NEW role \in Role, PostNetFails(r, role)
    PROVE  SInv'
<1>0. /\ TypeOK /\ next \in Nat \ {0} /\ next' \in {next, next + 1}
      /\ \A s \in Request : Req(s) /\ Place(s)
      /\ \A s, t \in Request : Pair(s, t) /\ Cross(s, t)
      /\ Older /\ Apart /\ Homes /\ Pointed /\ NothingStray /\ Answered
  BY DEF PostNetFails, Goto, Recover, Role, Fault, database, labhost, history, local, IInv,
      SInv, TypeOK
<1>1. /\ Nets' \subseteq Nets \cup {[id |-> next, lab |-> lab[r], role |-> role]}
      /\ (Nets' \subseteq Nets \/ next' = next + 1)
  BY <1>0 DEF PostNetFails, database, labhost, history, local, Goto, Recover, Role, Fault,
      Nets, TypeOK, CreatePc, DeletePc, DeployPc
<1>2. Older'
  <2>1. \A m \in Nets' : m.id < next' /\ m.lab < next'
    <3> SUFFICES ASSUME NEW m \in Nets' PROVE m.id < next' /\ m.lab < next'
      OBVIOUS
    <3>1. CASE m \in Nets
      BY <1>0, <3>1, NetsTyped DEF Older
    <3>2. CASE m \notin Nets
      <4>1. m = [id |-> next, lab |-> lab[r], role |-> role] /\ next' = next + 1
        BY <1>1, <3>2
      <4>2. lab[r] \in 1..(next - 1)
        BY <1>0 DEF PostNetFails, Req, Creating, CreatePc, Role
      <4> QED BY <1>0, <4>1, <4>2
    <3> QED BY <3>1, <3>2
  <2>2. \A c \in boxes' : c.id < next' /\ c.lab < next' /\ c.net < next'
    BY <1>0 DEF PostNetFails, Older, TypeOK, Box
  <2>3. \A w \in labs' : w.id < next'
    BY <1>0 DEF PostNetFails, database, Older, TypeOK
  <2> QED BY <2>1, <2>2, <2>3 DEF Older
<1>3. Apart'
  <2>1. \A m \in Nets : m.id # next
    BY <1>0, NetsTyped DEF Older
  <2> QED BY <1>0, <1>1, <2>1 DEF Apart
<1>4. Homes'
  <2>1. \A c \in boxes : c.net # next
    BY <1>0 DEF Older, TypeOK, Box
  <2>2. boxes' = boxes
    BY DEF PostNetFails
  <2> QED BY <1>0, <1>1, <2>1, <2>2 DEF Homes
<1>5. Pointed'
  BY <1>0 DEF PostNetFails, database, labhost, history, local, Goto, Recover, Role, Fault,
      Pointed, TypeOK
<1>6. \A s \in Request : Place(s)'
  BY <1>0 DEF PostNetFails, database, labhost, history, local, Goto, Recover, Role, Fault,
      TypeOK, Req, Pair, Cross, Creating, Deleting, Deploying, Place, Alone, Emptying,
      Housed, IsLab, CreatePc, DeletePc, DeployPc
<1>7. \A s, t \in Request : Cross(s, t)'
  BY <1>0 DEF PostNetFails, database, labhost, history, local, Goto, Recover, Role, Fault,
      TypeOK, Cross, CreatePc, DeletePc, DeployPc
<1>8. NothingStray'
  BY <1>0 DEF PostNetFails, database, labhost, history, local, Goto, Recover, Role, Fault,
      TypeOK, Held, NothingStray, Req, Creating, Deleting, Deploying, Place, Alone,
      Emptying, Housed, CreatePc, DeletePc, DeployPc
<1> QED BY <1>2, <1>3, <1>4, <1>5, <1>6, <1>7, <1>8 DEF SInv

\* A network gets its row.
LEMMA InsertNetStays ==
    ASSUME IInv, SInv, NEW r \in Request, NEW role \in Role, InsertNet(r, role)
    PROVE  SInv'
<1>0. /\ TypeOK /\ next \in Nat \ {0} /\ next' \in {next, next + 1}
      /\ \A s \in Request : Req(s) /\ Place(s)
      /\ \A s, t \in Request : Pair(s, t) /\ Cross(s, t)
      /\ Older /\ Apart /\ Homes /\ Pointed /\ NothingStray /\ Answered
  BY DEF InsertNet, Goto, Recover, Role, IsLab, database, labhost, history, local, IInv,
      SInv, TypeOK
<1>1. Nets' \subseteq Nets
  BY <1>0 DEF InsertNet, database, labhost, history, local, Goto, Recover, Role, IsLab,
      Nets, TypeOK, CreatePc, DeletePc, DeployPc
<1>2. Older'
  BY <1>0, <1>1 DEF InsertNet, database, labhost, history, local, Goto, Recover, Role,
      IsLab, Older, TypeOK
<1>3. Apart'
  BY <1>0, <1>1 DEF Apart
<1>4. Homes'
  BY <1>0, <1>1 DEF InsertNet, database, labhost, history, local, Goto, Recover, Role,
      IsLab, Homes
<1>5. Pointed'
  BY <1>0 DEF InsertNet, database, labhost, history, local, Goto, Recover, Role, IsLab,
      Pointed, TypeOK
<1>6. \A s \in Request : Place(s)'
  BY <1>0 DEF InsertNet, database, labhost, history, local, Goto, Recover, Role, IsLab,
      TypeOK, Req, Pair, Cross, Creating, Deleting, Deploying, Place, Alone, Emptying,
      Housed, IsLab, CreatePc, DeletePc, DeployPc
<1>7. \A s, t \in Request : Cross(s, t)'
  BY <1>0 DEF InsertNet, database, labhost, history, local, Goto, Recover, Role, IsLab,
      TypeOK, Cross, CreatePc, DeletePc, DeployPc
<1>8. NothingStray'
  BY <1>0 DEF InsertNet, database, labhost, history, local, Goto, Recover, Role, IsLab,
      TypeOK, Held, NothingStray, Req, Creating, Deleting, Deploying, Place, Alone,
      Emptying, Housed, CreatePc, DeletePc, DeployPc
<1> QED BY <1>2, <1>3, <1>4, <1>5, <1>6, <1>7, <1>8 DEF SInv

-----------------------------------------------------------------------------
(* The theorems.                                                           *)

\* Every step preserves the invariant.
LEMMA StepHolds == IInv /\ [Next]_vars => IInv'
<1> SUFFICES ASSUME IInv, [Next]_vars PROVE IInv'
  OBVIOUS
<1>1. CASE UNCHANGED vars
  <2>1. /\ UNCHANGED <<host, labs, netRows, boxRows, bridges, boxes, pc, job, lab, made, todo>>
        /\ UNCHANGED <<next, jobs, faults, spoiled, ready, kept, doomed>>
    BY <1>1 DEF vars, database, labhost, local, history
  <2>2. TypeOK' /\ Answered' /\ LabsComplete' /\ RowsGoLast'
    BY <2>1 DEF IInv, TypeOK, Answered, LabsComplete, RowsGoLast, Bridge, Box
  <2>3. (\A r \in Request : Req(r)') /\ \A r, s \in Request : Pair(r, s)'
    BY <2>1 DEF IInv, Req, Creating, Deleting, Deploying, Pair, Bridge, Box
  <2> QED BY <2>2, <2>3 DEF IInv
<1>2. CASE DeleteHost
  BY <1>2, DeleteHostHolds
<1>3. CASE \E r \in Request : \/ Raise(r) \/ BeginCreate(r) \/ InsertRefused(r)
                              \/ InsertLab(r) \/ UpdateLab(r) \/ UndoNet(r) \/ UndoLab(r)
  BY <1>3, RaiseHolds, BeginCreateHolds, InsertRefusedHolds, InsertLabHolds,
     UpdateLabHolds, UndoNetHolds, UndoLabHolds
<1>4. CASE \E r \in Request, role \in Role :
              PostNet(r, role) \/ PostNetFails(r, role) \/ InsertNet(r, role)
  BY <1>4, PostNetHolds, PostNetFailsHolds, InsertNetHolds
<1>5. CASE \E r \in Request : \/ BeginDelete(r) \/ ListBoxes(r) \/ RemoveBox(r) \/ ListNets(r)
                              \/ RemoveNet(r) \/ RaiseLate(r) \/ Prune(r)
                              \/ DropBoxRows(r) \/ DropNetRows(r) \/ DropLabRow(r)
  BY <1>5, BeginDeleteHolds, ListBoxesHolds, RemoveBoxHolds, ListNetsHolds, RemoveNetHolds,
     RaiseLateHolds, PruneHolds, DropBoxRowsHolds, DropNetRowsHolds, DropLabRowHolds
<1>6. CASE \E r \in Request : BeginDeploy(r) \/ Make(r) \/ MakeLate(r) \/ Store(r)
  BY <1>6, BeginDeployHolds, MakeHolds, MakeLateHolds, StoreHolds
<1> QED BY <1>1, <1>2, <1>3, <1>4, <1>5, <1>6 DEF Next

\* The invariant holds in every state.
LEMMA Always == Spec => []IInv
BY InitHolds, StepHolds, PTL DEF Spec

(* The variables keep their types: ids stay below the next one, a request  *)
(* between steps of delete_lab (controller.py:898) alone has a list.       *)
THEOREM TypeCorrect == Spec => []TypeOK
<1>1. IInv => TypeOK
  BY DEF IInv
<1> QED BY <1>1, Always, PTL

(* A lab answered for with 201 keeps its networks, rows and bridges, until *)
(* its deletion begins, whatever create_lab takes back for other requests  *)
(* (controller.py:739) and however many deletions run.                     *)
THEOREM LabsStayComplete == Spec => []LabsComplete
<1>1. IInv => LabsComplete
  BY DEF IInv
<1> QED BY <1>1, Always, PTL

(* The rows of the containers that were answered for go after the          *)
(* containers (controller.py:1007), for any number of requests and faults. *)
THEOREM RowsStay == Spec => []RowsGoLast
<1>1. IInv => RowsGoLast
  BY DEF IInv
<1> QED BY <1>1, Always, PTL
\* Nothing is there at the start.
LEMMA InitStays == Init => SInv
<1> SUFFICES ASSUME Init PROVE SInv
  OBVIOUS
<1>1. Older /\ Apart /\ Homes /\ Pointed /\ NothingStray
  BY DEF Init, Older, Apart, Homes, Pointed, NothingStray, Nets, CreatePc
<1>2. (\A r \in Request : Place(r)) /\ \A r, s \in Request : Cross(r, s)
  BY DEF Init, Place, Cross, CreatePc, DeletePc, DeployPc
<1> QED BY <1>1, <1>2 DEF SInv

\* Every step preserves the second invariant.
LEMMA StepStays == IInv /\ SInv /\ [Next]_vars => SInv'
<1> SUFFICES ASSUME IInv, SInv, [Next]_vars PROVE SInv'
  OBVIOUS
<1>1. CASE UNCHANGED vars
  <2>1. /\ UNCHANGED <<host, labs, netRows, boxRows, bridges, boxes, pc, job, lab, made, todo>>
        /\ UNCHANGED <<next, jobs, faults, spoiled, ready, kept, doomed>>
    BY <1>1 DEF vars, database, labhost, local, history
  <2>2. Nets' = Nets
    BY <2>1 DEF Nets
  <2>3. Older' /\ Apart' /\ Homes' /\ Pointed' /\ NothingStray'
    BY <2>1, <2>2 DEF SInv, Older, Apart, Homes, Pointed, NothingStray, Held
  <2>4. (\A r \in Request : Place(r)') /\ \A r, s \in Request : Cross(r, s)'
    BY <2>1 DEF SInv, Place, Alone, Emptying, Housed, IsLab, Cross
  <2> QED BY <2>3, <2>4 DEF SInv
<1>2. CASE DeleteHost
  BY <1>2, DeleteHostStays
<1>3. CASE \E r \in Request : \/ Raise(r) \/ BeginCreate(r) \/ InsertRefused(r)
                              \/ InsertLab(r) \/ UpdateLab(r) \/ UndoNet(r) \/ UndoLab(r)
  BY <1>3, RaiseStays, BeginCreateStays, InsertRefusedStays, InsertLabStays,
     UpdateLabStays, UndoNetStays, UndoLabStays
<1>4. CASE \E r \in Request, role \in Role :
              PostNet(r, role) \/ PostNetFails(r, role) \/ InsertNet(r, role)
  BY <1>4, PostNetStays, PostNetFailsStays, InsertNetStays
<1>5. CASE \E r \in Request : \/ BeginDelete(r) \/ ListBoxes(r) \/ RemoveBox(r) \/ ListNets(r)
                              \/ RemoveNet(r) \/ RaiseLate(r) \/ Prune(r)
                              \/ DropBoxRows(r) \/ DropNetRows(r) \/ DropLabRow(r)
  BY <1>5, BeginDeleteStays, ListBoxesStays, RemoveBoxStays, ListNetsStays, RemoveNetStays,
     RaiseLateStays, PruneStays, DropBoxRowsStays, DropNetRowsStays, DropLabRowStays
<1>6. CASE \E r \in Request : BeginDeploy(r) \/ Make(r) \/ MakeLate(r) \/ Store(r)
  BY <1>6, BeginDeployStays, MakeStays, MakeLateStays, StoreStays
<1> QED BY <1>1, <1>2, <1>3, <1>4, <1>5, <1>6 DEF Next

(* What is on the lab host has a row, or is in the hands of the request    *)
(* that has just made it, unless the lab's requests crossed, a creation    *)
(* was lost or a removal refused: neither delete_lab (controller.py:898)   *)
(* nor the compensation of create_lab (:742) leaves anything behind.       *)
THEOREM NothingStrays == Spec => []NothingStray
<1>1. SInv => NothingStray
  BY DEF SInv
<1>2. Spec => []SInv
  BY Always, InitStays, StepStays, PTL DEF Spec
<1> QED BY <1>1, <1>2, PTL
=============================================================================
