-------------------------------- MODULE Labs --------------------------------
(***************************************************************************)
(* The life of a lab (control_plane/controller.py): create_lab makes a row *)
(* and two networks, delete_lab removes what the rows name and then the    *)
(* rows, delete_host deletes the host's row and with it every other, and   *)
(* deployments put containers into a lab meanwhile. Rows cascade: those of *)
(* networks and containers go with their lab, and cannot be inserted once  *)
(* it is gone.                                                             *)
(*                                                                         *)
(* One host. A step is the code between two awaits with the call awaited   *)
(* answered in the same step. A call raises (no connection, a timeout; the *)
(* lab host may have acted all the same) or is refused by an error code:   *)
(* delete_lab gives up on the first and makes a note of the second.        *)
(* Environments has the deployment and the removal of a container in       *)
(* detail; here each is one call. Projects are removed like containers.    *)
(***************************************************************************)
EXTENDS Naturals, FiniteSets

CONSTANTS
    Name,      \* names of labs
    Request,   \* requests under way at once
    MaxJobs,   \* bound on requests
    MaxFaults  \* bound on calls that raise or are refused

ASSUME BoundAssumption == MaxJobs \in Nat /\ MaxFaults \in Nat

VARIABLES
    \* database
    host,       \* the host's row is there
    labs,       \* rows of labs, with their default networks
    netRows, boxRows,  \* rows of networks and containers
    \* lab host
    bridges,    \* networks
    boxes,      \* containers, each in a network
    \* per request
    pc, job,
    lab,        \* id of the lab it works on, 0 if none
    made,       \* network or container it has created and not yet recorded,
                \* or the networks to take back
    todo,       \* what is still to remove
    \* bounds
    next, jobs, faults,
    \* history
    spoiled,    \* labs with requests that do not go well together, lost
                \* creations, refused removals, or a forgotten host
    ready,      \* labs whose creation was answered with 201
    kept,       \* containers whose deployment was
    doomed      \* labs a deletion was begun for

database == <<host, labs, netRows, boxRows>>
labhost  == <<bridges, boxes>>
local    == <<job, lab, made, todo>>
history  == <<spoiled, ready, kept, doomed>>
vars == <<database, labhost, pc, local, next, jobs, faults, history>>

Role  == {"internal", "external"}
Job   == [op : {"create", "delete", "deploy"}, name : Name]
NoJob == [op |-> "none"]

Bridge == [id : 1..next, lab : 1..next, role : Role]
Box    == [id : 1..next, lab : 1..next, net : 1..next]

TypeOK ==
    /\ host \in BOOLEAN
    /\ labs \subseteq [id : 1..next, name : Name, nets : SUBSET (1..next)]
    /\ netRows \subseteq Bridge /\ bridges \subseteq Bridge
    /\ boxRows \subseteq Box /\ boxes \subseteq Box
    /\ pc \in [Request -> {"idle", "insert", "internal", "internal_row", "external",
                           "external_row", "update", "undo", "undo_lab", "list_boxes",
                           "box", "list_nets", "net", "prune", "boxes_rows", "nets_rows",
                           "lab_row", "make", "store"}]
    /\ job \in [Request -> Job \cup {NoJob}]
    /\ lab \in [Request -> 0..next]
    /\ made \in [Request -> SUBSET (Bridge \cup Box)]
    /\ todo \in [Request -> SUBSET (Bridge \cup Box)]
    /\ next \in Nat \ {0}
    /\ jobs \in 0..MaxJobs /\ faults \in 0..MaxFaults
    /\ spoiled \cup ready \cup doomed \subseteq 1..next
    /\ kept \subseteq Box
    /\ \A r \in Request :
        /\ pc[r] # "idle" => job[r] \in Job
        /\ pc[r] \in {"idle", "insert"} => made[r] = {}
        /\ pc[r] \notin {"box", "net"} => todo[r] = {}

Init ==
    /\ host = TRUE
    /\ labs = {} /\ netRows = {} /\ boxRows = {}
    /\ bridges = {} /\ boxes = {}
    /\ pc = [r \in Request |-> "idle"]
    /\ job = [r \in Request |-> NoJob]
    /\ lab = [r \in Request |-> 0]
    /\ made = [r \in Request |-> {}]
    /\ todo = [r \in Request |-> {}]
    /\ next = 1 /\ jobs = 0 /\ faults = 0
    /\ spoiled = {} /\ ready = {} /\ kept = {} /\ doomed = {}

-----------------------------------------------------------------------------
(* Requests, and what the database and Docker do for them.                 *)

Goto(r, label) == pc' = [pc EXCEPT ![r] = label]

Begin(r, op, n, l, label) ==
    /\ pc[r] = "idle" /\ jobs < MaxJobs
    /\ jobs' = jobs + 1
    /\ job' = [job EXCEPT ![r] = [op |-> op, name |-> n]]
    /\ lab' = [lab EXCEPT ![r] = l]
    /\ Goto(r, label)

Leave(r) ==
    /\ Goto(r, "idle")
    /\ job' = [job EXCEPT ![r] = NoJob]
    /\ lab' = [lab EXCEPT ![r] = 0]
    /\ made' = [made EXCEPT ![r] = {}]
    /\ todo' = [todo EXCEPT ![r] = {}]

Working(op, l) == \E r \in Request : pc[r] # "idle" /\ job[r].op = op /\ lab[r] = l

\* a deletion goes well with another, not with a creation or a deployment
Clash(op, l) ==
    spoiled' = IF \/ op = "delete" /\ (Working("create", l) \/ Working("deploy", l))
                  \/ op # "delete" /\ Working("delete", l)
               THEN spoiled \cup {l} ELSE spoiled

IsLab(l)    == \E w \in labs : w.id = l
RowsOf(T, l) == {w \in T : w.lab = l}
InUse(n)    == \E c \in boxes : c.net = n.id

\* a lab's row takes those of its networks and containers with it
DropLab(l) ==
    /\ labs'    = {w \in labs : w.id # l}
    /\ netRows' = netRows \ RowsOf(netRows, l)
    /\ boxRows' = boxRows \ RowsOf(boxRows, l)

Fault == /\ faults < MaxFaults
         /\ faults' = faults + 1

\* an exception outside a handler of the request's own ends it
Raise(r) ==
    /\ pc[r] \in {"insert", "box", "net", "prune", "make"}
    /\ Fault /\ Leave(r)
    /\ UNCHANGED <<database, labhost, next, jobs, history>>

-----------------------------------------------------------------------------
(* create_lab.                                                             *)

BeginCreate(r) ==
    /\ host
    /\ \E n \in Name : /\ ~\E w \in labs : w.name = n
                       /\ Begin(r, "create", n, 0, "insert")
    /\ UNCHANGED <<database, labhost, made, todo, next, faults, history>>

\* the name is taken by now, or the host's row is gone
InsertRefused(r) ==
    /\ pc[r] = "insert"
    /\ ~host \/ \E w \in labs : w.name = job[r].name
    /\ Leave(r)
    /\ UNCHANGED <<database, labhost, next, jobs, faults, history>>

InsertLab(r) ==
    /\ pc[r] = "insert"
    /\ host /\ ~\E w \in labs : w.name = job[r].name
    /\ labs' = labs \cup {[id |-> next, name |-> job[r].name, nets |-> {}]}
    /\ lab' = [lab EXCEPT ![r] = next]
    /\ next' = next + 1
    /\ Goto(r, "internal")
    /\ UNCHANGED <<host, netRows, boxRows, labhost, job, made, todo, jobs, faults, history>>

PostNet(r, role) ==
    /\ pc[r] = role
    /\ LET net == [id |-> next, lab |-> lab[r], role |-> role]
       IN  /\ bridges' = bridges \cup {net}
           /\ made' = [made EXCEPT ![r] = @ \cup {net}]
    /\ next' = next + 1
    /\ Goto(r, IF role = "internal" THEN "internal_row" ELSE "external_row")
    /\ UNCHANGED <<database, boxes, job, lab, todo, jobs, faults, history>>

\* mutation: the networks stay
Recover_LabOnly(r) == Goto(r, "undo_lab")

Recover(r) == Goto(r, IF made[r] = {} THEN "undo_lab" ELSE "undo")

\* the call fails, or times out and is carried out all the same
PostNetFails(r, role) ==
    /\ pc[r] = role
    /\ Fault
    /\ \/ UNCHANGED <<bridges, next, spoiled>>
       \/ /\ bridges' = bridges \cup {[id |-> next, lab |-> lab[r], role |-> role]}
          /\ next' = next + 1
          /\ spoiled' = spoiled \cup {lab[r]}
    /\ Recover(r)
    /\ UNCHANGED <<database, boxes, local, jobs, ready, kept, doomed>>

\* refused if the lab has been deleted
InsertNet(r, role) ==
    /\ pc[r] = IF role = "internal" THEN "internal_row" ELSE "external_row"
    /\ IF IsLab(lab[r])
       THEN /\ netRows' = netRows \cup {n \in made[r] : n.role = role}
            /\ Goto(r, IF role = "internal" THEN "external" ELSE "update")
       ELSE netRows' = netRows /\ Recover(r)
    /\ UNCHANGED <<host, labs, boxRows, labhost, local, next, jobs, faults, history>>

\* the lab's row points at those of its networks
UpdateLab(r) ==
    /\ pc[r] = "update"
    /\ IF IsLab(lab[r]) /\ made[r] \subseteq netRows
       THEN /\ labs' = {IF w.id = lab[r] THEN [w EXCEPT !.nets = {n.id : n \in made[r]}]
                        ELSE w : w \in labs}
            /\ ready' = ready \cup {lab[r]}
            /\ Leave(r)
       ELSE Recover(r) /\ UNCHANGED <<labs, ready, local>>
    /\ UNCHANGED <<host, netRows, boxRows, labhost, next, jobs, faults, spoiled, kept, doomed>>

\* the networks it has created; what the calls answer is ignored
UndoNet(r) ==
    /\ pc[r] = "undo"
    /\ \E n \in made[r] :
        /\ \/ bridges' = (IF InUse(n) THEN bridges ELSE bridges \ {n}) /\ UNCHANGED <<faults, spoiled>>
           \/ Fault /\ bridges' = bridges /\ spoiled' = spoiled \cup {n.lab}
        /\ made' = [made EXCEPT ![r] = @ \ {n}]
        /\ Goto(r, IF made[r] = {n} THEN "undo_lab" ELSE "undo")
    /\ UNCHANGED <<database, boxes, job, lab, todo, next, jobs, ready, kept, doomed>>

UndoLab(r) ==
    /\ pc[r] = "undo_lab"
    /\ DropLab(lab[r])
    /\ Leave(r)
    /\ UNCHANGED <<host, labhost, next, jobs, faults, history>>

-----------------------------------------------------------------------------
(* delete_lab.                                                             *)

BeginDelete(r) ==
    /\ \E w \in labs :
        /\ Begin(r, "delete", w.name, w.id, "list_boxes")
        /\ Clash("delete", w.id)
        /\ doomed' = doomed \cup {w.id}
    /\ UNCHANGED <<database, labhost, made, todo, next, faults, ready, kept>>

\* the next thing to remove, or what comes after the last
Loop(r, rest, label, after) ==
    /\ todo' = [todo EXCEPT ![r] = rest]
    /\ Goto(r, IF rest = {} THEN after ELSE label)

\* mutation: the rows go first
ListBoxes_DropsRows(r) ==
    /\ pc[r] = "list_boxes"
    /\ Loop(r, RowsOf(boxRows, lab[r]), "box", "list_nets")
    /\ boxRows' = boxRows \ RowsOf(boxRows, lab[r])
    /\ UNCHANGED <<host, labs, netRows, labhost, job, lab, made, next, jobs, faults, history>>

ListBoxes(r) ==
    /\ pc[r] = "list_boxes"
    /\ Loop(r, RowsOf(boxRows, lab[r]), "box", "list_nets")
    /\ UNCHANGED <<database, labhost, job, lab, made, next, jobs, faults, history>>

\* removed or gone already; or refused, which is noted and forgotten
RemoveBox(r) ==
    /\ pc[r] = "box"
    /\ \E c \in todo[r] :
        /\ \/ boxes' = boxes \ {c} /\ UNCHANGED <<faults, spoiled>>
           \/ Fault /\ boxes' = boxes /\ spoiled' = spoiled \cup {lab[r]}
        /\ Loop(r, todo[r] \ {c}, "box", "list_nets")
    /\ UNCHANGED <<database, bridges, job, lab, made, next, jobs, ready, kept, doomed>>

ListNets(r) ==
    /\ pc[r] = "list_nets"
    /\ Loop(r, RowsOf(netRows, lab[r]), "net", "prune")
    /\ UNCHANGED <<database, labhost, job, lab, made, next, jobs, faults, history>>

\* Docker refuses to remove a network in use
RemoveNet(r) ==
    /\ pc[r] = "net"
    /\ \E n \in todo[r] :
        /\ \/ bridges' = (IF InUse(n) THEN bridges ELSE bridges \ {n}) /\ UNCHANGED <<faults, spoiled>>
           \/ Fault /\ bridges' = bridges /\ spoiled' = spoiled \cup {lab[r]}
        /\ Loop(r, todo[r] \ {n}, "net", "prune")
    /\ UNCHANGED <<database, boxes, job, lab, made, next, jobs, ready, kept, doomed>>

\* the call that raises has been carried out
RaiseLate(r) ==
    /\ pc[r] \in {"box", "net"}
    /\ Fault
    /\ \E x \in todo[r] :
        /\ boxes'   = boxes \ {x}
        /\ bridges' = IF pc[r] = "net" /\ ~InUse(x) THEN bridges \ {x} ELSE bridges
    /\ Leave(r)
    /\ UNCHANGED <<database, next, jobs, history>>

\* volumes of stopped containers go; they are not modelled
Prune(r) ==
    /\ pc[r] = "prune"
    /\ Goto(r, "boxes_rows")
    /\ UNCHANGED <<database, labhost, local, next, jobs, faults, history>>

DropBoxRows(r) ==
    /\ pc[r] = "boxes_rows"
    /\ boxRows' = boxRows \ RowsOf(boxRows, lab[r])
    /\ Goto(r, "nets_rows")
    /\ UNCHANGED <<host, labs, netRows, labhost, local, next, jobs, faults, history>>

\* a lab's pointers to its networks become null
DropNetRows(r) ==
    /\ pc[r] = "nets_rows"
    /\ netRows' = netRows \ RowsOf(netRows, lab[r])
    /\ labs' = {IF w.id = lab[r] THEN [w EXCEPT !.nets = {}] ELSE w : w \in labs}
    /\ Goto(r, "lab_row")
    /\ UNCHANGED <<host, boxRows, labhost, local, next, jobs, faults, history>>

\* mutation: by name
DropLabRow_ByName(r) ==
    /\ pc[r] = "lab_row"
    /\ LET doomedLabs == {w.id : w \in {v \in labs : v.name = job[r].name}}
       IN  /\ labs' = {w \in labs : w.id \notin doomedLabs}
           /\ netRows' = {n \in netRows : n.lab \notin doomedLabs}
           /\ boxRows' = {c \in boxRows : c.lab \notin doomedLabs}
    /\ Leave(r)
    /\ UNCHANGED <<host, labhost, next, jobs, faults, history>>

DropLabRow(r) ==
    /\ pc[r] = "lab_row"
    /\ DropLab(lab[r])
    /\ Leave(r)
    /\ UNCHANGED <<host, labhost, next, jobs, faults, history>>

-----------------------------------------------------------------------------
(* A deployment into a lab's default network; delete_host.                 *)

\* refused unless the lab has the default network
BeginDeploy(r) ==
    /\ \E w \in labs : \E n \in netRows :
        /\ n.id \in w.nets
        /\ Begin(r, "deploy", w.name, w.id, "make")
        /\ made' = [made EXCEPT ![r] = {n}]
        /\ Clash("deploy", w.id)
    /\ UNCHANGED <<database, labhost, todo, next, faults, ready, kept, doomed>>

\* Docker refuses a network that is gone
Make(r) ==
    /\ pc[r] = "make"
    /\ \E n \in made[r] :
        IF n \in bridges
        THEN LET box == [id |-> next, lab |-> lab[r], net |-> n.id]
             IN  /\ boxes' = boxes \cup {box}
                 /\ made' = [made EXCEPT ![r] = {box}]
                 /\ next' = next + 1
                 /\ Goto(r, "store")
                 /\ UNCHANGED <<job, lab, todo>>
        ELSE Leave(r) /\ UNCHANGED <<boxes, next>>
    /\ UNCHANGED <<database, bridges, jobs, faults, history>>

MakeLate(r) ==
    /\ pc[r] = "make"
    /\ Fault
    /\ \E n \in made[r] \cap bridges :
        boxes' = boxes \cup {[id |-> next, lab |-> lab[r], net |-> n.id]}
    /\ next' = next + 1
    /\ spoiled' = spoiled \cup {lab[r]}
    /\ Leave(r)
    /\ UNCHANGED <<database, bridges, jobs, ready, kept, doomed>>

\* refused, with an exception, if the lab has been deleted
Store(r) ==
    /\ pc[r] = "store"
    /\ IF IsLab(lab[r])
       THEN boxRows' = boxRows \cup made[r] /\ kept' = kept \cup made[r]
       ELSE UNCHANGED <<boxRows, kept>>
    /\ Leave(r)
    /\ UNCHANGED <<host, labs, netRows, labhost, next, jobs, faults, spoiled, ready, doomed>>

\* history: what is on the host is forgotten, but a creation under way takes
\* its networks back
DeleteHost ==
    /\ host /\ host' = FALSE
    /\ labs' = {} /\ netRows' = {} /\ boxRows' = {}
    /\ spoiled' = spoiled \cup {l \in 1..(next - 1) : ~Working("create", l)}
    /\ doomed' = doomed \cup 1..(next - 1)
    /\ UNCHANGED <<labhost, pc, local, next, jobs, faults, ready, kept>>

Next ==
    \/ DeleteHost
    \/ \E r \in Request :
        \/ Raise(r) \/ BeginCreate(r) \/ InsertRefused(r) \/ InsertLab(r) \/ UpdateLab(r)
        \/ UndoNet(r) \/ UndoLab(r)
        \/ \E role \in Role : PostNet(r, role) \/ PostNetFails(r, role) \/ InsertNet(r, role)
        \/ BeginDelete(r) \/ ListBoxes(r) \/ RemoveBox(r) \/ ListNets(r) \/ RemoveNet(r)
        \/ RaiseLate(r) \/ Prune(r) \/ DropBoxRows(r) \/ DropNetRows(r) \/ DropLabRow(r)
        \/ BeginDeploy(r) \/ Make(r) \/ MakeLate(r) \/ Store(r)

Spec == Init /\ [][Next]_vars

-----------------------------------------------------------------------------
(* Properties.                                                             *)

\* request r has made it and not yet recorded it
Held(r, x) == x \in made[r] /\ (job[r].op = "deploy" => x \in boxes)

(* What is on the lab host has a row, or a request that has just made it   *)
(* has it in hand, unless the lab's requests crossed, a creation was lost  *)
(* or a removal refused: whatever raises, and however often a deletion is  *)
(* begun again, delete_lab (controller.py:898) and the compensation of     *)
(* create_lab (:742) leave nothing behind.                                 *)
NothingStray ==
    \A x \in bridges \cup boxes :
        \/ x.lab \in spoiled
        \/ x \in netRows \cup boxRows
        \/ \E r \in Request : Held(r, x)

(* A lab that was answered for has both its networks, as rows and on the   *)
(* lab host, until its deletion begins: no compensation of another request *)
(* and no cascade takes them (controller.py:739).                          *)
LabsComplete ==
    \A l \in ready \ doomed :
        \E w \in labs : /\ w.id = l
                        /\ \A role \in Role : \E n \in netRows \cap bridges :
                              n.lab = l /\ n.role = role /\ n.id \in w.nets

(* A container that was answered for keeps its row until the deletion of   *)
(* its lab begins, and then as long as it runs unless the removal was      *)
(* refused or crossed: rows go last (controller.py:1007).                  *)
RowsGoLast ==
    \A c \in kept : \/ c \in boxRows
                    \/ c.lab \in doomed /\ (c.lab \in spoiled \/ c \notin boxes)
=============================================================================
