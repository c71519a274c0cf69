-------------------------- MODULE ReconcilerProofs --------------------------
(***************************************************************************)
(* Proofs about Reconciler for any environments, any requests and any      *)
(* bounds. Each safety property has its inductive strengthening: TypeInv   *)
(* for TypeOK, LossInv for LossJustified, CleanInv for CleanUnlessFault;   *)
(* OnePass is inductive as it stands.                                      *)
(***************************************************************************)
EXTENDS Reconciler, TLAPS

\* the row being reconciled is known at every await of a row
CurKnown == \A t \in Thread :
    pc[t] \in StatePc \cup RemovalPc \cup DropPc => cur[t] \in Container

\* a request under way has a container
ReqKnown == \A r \in Request : req[r].pc # "idle" => req[r].name \in Container

TypeInv == TypeOK /\ CurKnown /\ ReqKnown

-----------------------------------------------------------------------------
(* The lab host's answers.                                                 *)

LEMMA StateCallType ==
    ASSUME NEW op \in Op, NEW rt \in Runtime
    PROVE  \A o \in StateCall(op, rt) : o.code \in Code /\ o.rt \in Runtime
  BY DEF StateCall, Op, Runtime, Answer, Code, Absent, Stop, Start, Pause,
         Unpause, Running, Paused, RuntimeStatus, ExitCode

LEMMA DeleteCallType ==
    ASSUME NEW force \in BOOLEAN, NEW rt \in Runtime
    PROVE  \A o \in DeleteCall(force, rt) : o.code \in Code /\ o.rt \in Runtime
  BY DEF DeleteCall, Runtime, Answer, Code, Absent

\* no call brings back a container that is gone
LEMMA AbsentStays ==
    /\ \A op \in Op : StateCall(op, Absent) = {Answer("missing", Absent)}
    /\ \A force \in BOOLEAN :
         DeleteCall(force, Absent) = {Answer("missing", Absent)}
  BY DEF StateCall, DeleteCall

\* a delete that is not refused leaves no container, and no forced one is refused
LEMMA DeleteRemoves ==
    ASSUME NEW force \in BOOLEAN, NEW rt \in Runtime,
           NEW o \in DeleteCall(force, rt), force \/ o.code # "refused"
    PROVE  o.rt = Absent
  BY DEF DeleteCall, Answer

LEMMA DecideType ==
    ASSUME NEW life, NEW expired, NEW desired, NEW rt
    PROVE  Decide(life, expired, desired, rt)
             \in {"next", "start", "stop", "pause", "rm_stop", "drop_row"}
  BY DEF Decide

LEMMA CallTypes ==
    ASSUME NEW c \in Container, NEW outcomes, TypeOK,
           \A o \in outcomes : o.rt \in Runtime
    PROVE  /\ \A code : Answered(c, outcomes, code) =>
                docker' \in [Container -> Runtime] /\ faults' \in 0..MaxFaults
           /\ Raised(c, outcomes) =>
                docker' \in [Container -> Runtime] /\ faults' \in 0..MaxFaults
<1>1. docker \in [Container -> Runtime] /\ faults \in 0..MaxFaults
  BY DEF TypeOK
<1>2. \A o \in outcomes : [docker EXCEPT ![c] = o.rt] \in [Container -> Runtime]
  BY <1>1
<1>3. Fault => faults' \in 0..MaxFaults
  BY <1>1, BoundsAssumption DEF Fault
<1> QED
  BY <1>1, <1>2, <1>3 DEF Answered, Raised

\* the thread's part of the type invariant, and the three ways a step ends
ThreadType ==
    /\ lock \in Thread \cup {"free"}
    /\ pc \in [Thread -> Pc]
    /\ view \in [Thread -> Snapshot]
    /\ seen \in [Thread -> [Container -> ContainerStatus]]
    /\ todo \in [Thread -> SUBSET Container]
    /\ cur \in [Thread -> Container \cup {None}]
    /\ CurKnown

LEMMA GotoType ==
    ASSUME NEW t \in Thread, NEW label \in RemovalPc \cup DropPc, ThreadType,
           cur[t] \in Container, Goto(t, label)
    PROVE  ThreadType'
<1>1. pc' \in [Thread -> Pc]
  BY DEF ThreadType, Goto, Pc, InPass
<1>2. CurKnown'
  BY DEF ThreadType, Goto, CurKnown
<1> QED
  BY <1>1, <1>2 DEF ThreadType, Goto

LEMMA DoneType ==
    ASSUME NEW t \in Thread, ThreadType, Done(t)
    PROVE  ThreadType'
<1>1. pc' \in [Thread -> Pc] /\ cur' \in [Thread -> Container \cup {None}]
  BY DEF ThreadType, Done, Pc, InPass
<1>2. CurKnown'
  BY DEF ThreadType, Done, CurKnown, StatePc, RemovalPc, DropPc
<1> QED
  BY <1>1, <1>2 DEF ThreadType, Done

LEMMA ReleaseType ==
    ASSUME NEW t \in Thread, ThreadType, Release(t)
    PROVE  ThreadType'
<1>1. NoView \in Snapshot
      /\ [c \in Container |-> "STARTED"] \in [Container -> ContainerStatus]
  BY DEF NoView, Snapshot, ContainerStatus
<1>2. pc' \in [Thread -> Pc] /\ cur' \in [Thread -> Container \cup {None}]
  BY DEF ThreadType, Release, Pc
<1>3. CurKnown'
  BY DEF ThreadType, Release, CurKnown, StatePc, RemovalPc, DropPc
<1> QED
  BY <1>1, <1>2, <1>3 DEF ThreadType, Release

LEMMA InitTypeInv == Init => TypeInv
<1> SUFFICES ASSUME Init PROVE TypeInv
  OBVIOUS
<1>1. Running \in Runtime /\ "STARTED" \in ContainerStatus
  BY DEF Running, Runtime, RuntimeStatus, ExitCode, ContainerStatus
<1>2. NoView \in Snapshot /\ IdleRequest \in RequestState
  BY DEF NoView, Snapshot, IdleRequest, RequestState, Op, ContainerStatus, RuntimeStatus
<1>3. TypeOK
  BY <1>1, <1>2, BoundsAssumption DEF Init, TypeOK, Pc, Thread
<1>4. CurKnown /\ ReqKnown
  BY DEF Init, CurKnown, ReqKnown, StatePc, RemovalPc, DropPc, IdleRequest
<1> QED
  BY <1>3, <1>4 DEF TypeInv

LEMMA NextTypeInv == TypeInv /\ [Next]_vars => TypeInv'
<1> SUFFICES ASSUME TypeInv, [Next]_vars PROVE TypeInv'
  OBVIOUS
<1> USE DEF TypeInv, database, labhost, thread, spent
<1>0. /\ NoView \in Snapshot
      /\ [c \in Container |-> "STARTED"] \in [Container -> ContainerStatus]
      /\ IdleRequest \in RequestState /\ IdleRequest.pc = "idle"
  BY DEF NoView, Snapshot, IdleRequest, RequestState, Op, ContainerStatus, RuntimeStatus
<1>1. CASE Publish
  <2>1. [c \in Container |-> docker[c].status] \in Snapshot
    BY DEF TypeOK, Snapshot, Runtime, Absent
  <2> QED
    BY <1>1, <2>1 DEF Publish, TypeOK, CurKnown, ReqKnown
<1>2. CASE Deliver
  BY <1>2 DEF Deliver, TypeOK, CurKnown, ReqKnown, Pc, Thread, StatePc, RemovalPc, DropPc
<1>3. CASE Tick
  BY <1>3 DEF Tick, TypeOK, CurKnown, ReqKnown, Pc, Thread, StatePc, RemovalPc, DropPc
<1>4. ASSUME NEW t \in Thread, Pass(t) PROVE TypeInv'
  <2>0. ThreadType /\ (\A c \in Container : docker[c] \in Runtime)
    BY DEF TypeOK, ThreadType
  <2>f. Fault => faults' \in 0..MaxFaults
    BY BoundsAssumption DEF Fault, TypeOK
  <2>1. CASE Acquire(t)
    <3>1. ThreadType'
      BY <2>1, <2>0 DEF Acquire, ThreadType, CurKnown, Pc, InPass, StatePc, RemovalPc, DropPc
    <3> QED
      BY <2>1, <3>1 DEF Acquire, TypeOK, ReqKnown, ThreadType
  <2>2. CASE Skip(t)
    <3>1. ThreadType'
      BY <2>2, <2>0, <1>0 DEF Skip, ThreadType, CurKnown, Pc, StatePc, RemovalPc, DropPc
    <3> QED
      BY <2>2, <3>1 DEF Skip, TypeOK, ReqKnown, ThreadType
  <2>3. CASE List(t)
    <3>1. pc' \in [Thread -> Pc] /\ CurKnown'
      BY <2>3, <2>0 DEF List, ThreadType, CurKnown, Pc, InPass, StatePc, RemovalPc, DropPc
    <3>2. seen' \in [Thread -> [Container -> ContainerStatus]]
      BY <2>3, <2>0 DEF List, ThreadType, TypeOK
    <3>3. todo' \in [Thread -> SUBSET Container] /\ faults' \in 0..MaxFaults
      BY <2>3, <2>0, <2>f DEF List, ThreadType, TypeOK
    <3> QED
      BY <2>3, <3>1, <3>2, <3>3 DEF List, TypeOK, ReqKnown, ThreadType
  <2>4. CASE Finish(t)
    <3>1. ThreadType'
      BY <2>4, <2>0, ReleaseType DEF Finish
    <3> QED
      BY <2>4, <3>1 DEF Finish, TypeOK, ReqKnown, ThreadType
  <2>5. ASSUME NEW c \in Container, ExamineBeat(t, c) \/ ExamineFetch(t, c)
        PROVE  TypeInv'
    <3>1. PICK rt : Begin(t, c, rt)
      BY <2>5 DEF ExamineBeat, ExamineFetch
    <3>2. faults' \in 0..MaxFaults
      BY <2>5, <2>f DEF ExamineBeat, ExamineFetch, TypeOK
    <3>3. pc' \in [Thread -> Pc]
      BY <3>1, <2>0, DecideType
         DEF Begin, ThreadType, Pc, InPass, StatePc, RemovalPc, DropPc
    <3>4. cur' \in [Thread -> Container \cup {None}] /\ CurKnown'
      BY <3>1, <2>0
         DEF Begin, ThreadType, CurKnown, StatePc, RemovalPc, DropPc
    <3>5. todo' \in [Thread -> SUBSET Container]
      BY <3>1, <2>0 DEF Begin, ThreadType
    <3> QED
      BY <3>1, <3>2, <3>3, <3>4, <3>5 DEF Begin, TypeOK, ReqKnown
  <2>6. CASE ExamineRaises(t)
    <3>1. ThreadType'
      BY <2>6, <2>0, ReleaseType DEF ExamineRaises
    <3> QED
      BY <2>6, <2>f, <3>1 DEF ExamineRaises, TypeOK, ReqKnown, ThreadType
  <2>7. CASE Correct(t)
    <3>1. cur[t] \in Container /\ pc[t] \in Op
      BY <2>7 DEF Correct, CurKnown, StatePc, RemovalPc, Op
    <3>2. docker' \in [Container -> Runtime] /\ faults' \in 0..MaxFaults
      BY <2>7, <2>0, <3>1, StateCallType, CallTypes DEF Correct
    <3>3. ThreadType'
      BY <2>7, <2>0, <3>1, DoneType, ReleaseType DEF Correct, RemovalPc
    <3> QED
      BY <2>7, <3>2, <3>3 DEF Correct, TypeOK, ReqKnown, ThreadType
  <2>8. CASE RemoveStop(t)
    <3>1. cur[t] \in Container /\ "stop" \in Op
      BY <2>8 DEF RemoveStop, CurKnown, StatePc, RemovalPc, Op
    <3>2. docker' \in [Container -> Runtime] /\ faults' \in 0..MaxFaults
      BY <2>8, <2>0, <3>1, StateCallType, CallTypes DEF RemoveStop
    <3>3. ThreadType'
      BY <2>8, <2>0, <3>1, GotoType, ReleaseType DEF RemoveStop, RemovalPc
    <3> QED
      BY <2>8, <3>2, <3>3 DEF RemoveStop, TypeOK, ReqKnown, ThreadType
  <2>9. CASE RemoveDelete(t)
    <3>1. cur[t] \in Container
      BY <2>9 DEF RemoveDelete, CurKnown, StatePc, RemovalPc, Op
    <3>2. docker' \in [Container -> Runtime] /\ faults' \in 0..MaxFaults
      BY <2>9, <2>0, <3>1, DeleteCallType, CallTypes DEF RemoveDelete
    <3>3. ThreadType'
      BY <2>9, <2>0, <3>1, GotoType, ReleaseType DEF RemoveDelete, RemovalPc
    <3> QED
      BY <2>9, <3>2, <3>3 DEF RemoveDelete, TypeOK, ReqKnown, ThreadType
  <2>10. CASE RemoveForce(t)
    <3>1. cur[t] \in Container
      BY <2>10 DEF RemoveForce, CurKnown, StatePc, RemovalPc, Op
    <3>2. docker' \in [Container -> Runtime] /\ faults' \in 0..MaxFaults
      BY <2>10, <2>0, <3>1, DeleteCallType, CallTypes DEF RemoveForce
    <3>3. ThreadType'
      BY <2>10, <2>0, <3>1, GotoType, ReleaseType DEF RemoveForce, RemovalPc
    <3> QED
      BY <2>10, <3>2, <3>3 DEF RemoveForce, TypeOK, ReqKnown, ThreadType
  <2>11. CASE RemoveRoute(t)
    <3>1. cur[t] \in Container
      BY <2>11 DEF RemoveRoute, CurKnown, RemovalPc, DropPc
    <3>2. routed' \subseteq Container /\ faults' \in 0..MaxFaults
      BY <2>11, <2>f DEF RemoveRoute, Unroute, RouteRaises, TypeOK
    <3>3. ThreadType'
      BY <2>11, <2>0, <3>1, GotoType, ReleaseType DEF RemoveRoute, RouteRaises, RemovalPc
    <3> QED
      BY <2>11, <3>2, <3>3 DEF RemoveRoute, TypeOK, ReqKnown, ThreadType
  <2>12. CASE RemoveRow(t)
    <3>1. cur[t] \in Container
      BY <2>12 DEF RemoveRow, CurKnown, RemovalPc, DropPc
    <3>2. ThreadType'
      BY <2>12, <2>0, <3>1, DoneType DEF RemoveRow, RemovalPc
    <3> QED
      BY <2>12, <3>2 DEF RemoveRow, TypeOK, ReqKnown, ThreadType
  <2>13. CASE DropRow(t)
    <3>1. cur[t] \in Container
      BY <2>13 DEF DropRow, CurKnown, RemovalPc, DropPc
    <3>2. ThreadType'
      BY <2>13, <2>0, <3>1, GotoType DEF DropRow, DropPc
    <3> QED
      BY <2>13, <3>2 DEF DropRow, TypeOK, ReqKnown, ThreadType
  <2>14. CASE DropRoute(t)
    <3>1. cur[t] \in Container
      BY <2>14 DEF DropRoute, CurKnown, RemovalPc, DropPc
    <3>2. routed' \subseteq Container /\ faults' \in 0..MaxFaults
      BY <2>14, <2>f DEF DropRoute, Unroute, RouteRaises, TypeOK
    <3>3. ThreadType'
      BY <2>14, <2>0, <3>1, DoneType, ReleaseType DEF DropRoute, RouteRaises, DropPc
    <3> QED
      BY <2>14, <3>2, <3>3 DEF DropRoute, TypeOK, ReqKnown, ThreadType
  <2> QED
    BY <1>4, <2>1, <2>2, <2>3, <2>4, <2>5, <2>6, <2>7, <2>8, <2>9, <2>10,
       <2>11, <2>12, <2>13, <2>14 DEF Pass
<1>5. ASSUME NEW r \in Request, NEW c \in Container, NEW op \in Op, RequestRead(r, c, op)
      PROVE  TypeInv'
  <2>1. status[c] \in ContainerStatus
    BY DEF TypeOK
  <2>2. [IdleRequest EXCEPT !.pc = "call", !.name = c, !.op = op, !.read = status[c]]
          \in RequestState
    BY <2>1 DEF IdleRequest, RequestState, RuntimeStatus
  <2>3. req' \in [Request -> RequestState] /\ ReqKnown'
    BY <1>5, <2>2 DEF RequestRead, TypeOK, ReqKnown, IdleRequest
  <2>4. calls' \in 0..MaxCalls
    BY <1>5, BoundsAssumption DEF RequestRead, TypeOK
  <2> QED
    BY <1>5, <2>3, <2>4 DEF RequestRead, TypeOK, CurKnown
<1>6. ASSUME NEW r \in Request, Answering(r) PROVE TypeInv'
  <2>0. req \in [Request -> RequestState] /\ req[r] \in RequestState
    BY DEF TypeOK
  <2>1. req[r].op \in Op /\ req[r].reply \in RuntimeStatus
    BY <2>0 DEF RequestState
  <2>e. RequestEnds(r) => req' \in [Request -> RequestState] /\ ReqKnown'
    BY <1>0, <2>0 DEF RequestEnds, ReqKnown
  <2>2. CASE RequestCall(r)
    <3>1. req[r].name \in Container
      BY <2>2 DEF RequestCall, ReqKnown
    <3>2. docker[req[r].name] \in Runtime
      BY <3>1 DEF TypeOK
    <3>3. docker' \in [Container -> Runtime] /\ faults' \in 0..MaxFaults
      BY <2>1, <2>2, <3>1, <3>2, StateCallType, CallTypes DEF RequestCall
    <3>4. [req[r] EXCEPT !.pc = "reload"] \in RequestState
      BY <2>0 DEF RequestState
    <3>5. ASSUME req' = [req EXCEPT ![r].pc = "reload"]
          PROVE  req' \in [Request -> RequestState] /\ ReqKnown'
      BY <2>0, <3>1, <3>4, <3>5 DEF ReqKnown, RequestState
    <3>6. req' \in [Request -> RequestState] /\ ReqKnown'
      BY <2>2, <2>e, <3>5 DEF RequestCall
    <3> QED
      BY <2>2, <3>3, <3>6 DEF RequestCall, TypeOK, CurKnown
  <2>3. CASE RequestReload(r)
    <3>1. req[r].name \in Container
      BY <2>3 DEF RequestReload, ReqKnown
    <3>2. docker[req[r].name] # Absent => docker[req[r].name].status \in RuntimeStatus
      BY <3>1 DEF TypeOK, Runtime
    <3>3. ASSUME NEW s \in RuntimeStatus,
                 req' = [req EXCEPT ![r].pc = "write", ![r].reply = s]
          PROVE  req' \in [Request -> RequestState] /\ ReqKnown'
      <4>1. [req[r] EXCEPT !.pc = "write", !.reply = s] \in RequestState
        BY <2>0 DEF RequestState
      <4> QED
        BY <2>0, <3>1, <3>3, <4>1 DEF ReqKnown, RequestState
    <3>4. req' \in [Request -> RequestState] /\ ReqKnown'
      BY <2>3, <2>e, <3>2, <3>3 DEF RequestReload
    <3> QED
      BY <2>3, <3>4 DEF RequestReload, TypeOK, CurKnown
  <2>4. CASE RequestWrite(r)
    <3>1. to_container_status(req[r].reply) \in ContainerStatus
      BY DEF to_container_status, ContainerStatus
    <3>2. status' \in [Container -> ContainerStatus]
      BY <2>4, <3>1 DEF RequestWrite, TypeOK
    <3> QED
      BY <2>4, <2>e, <3>2 DEF RequestWrite, TypeOK, CurKnown
  <2> QED
    BY <1>6, <2>2, <2>3, <2>4 DEF Answering
<1>7. ASSUME NEW c \in Container, NEW e \in ExitCode, Exit(c, e) PROVE TypeInv'
  <2>1. [status |-> "exited", exit |-> e] \in Runtime
    BY DEF Runtime, RuntimeStatus
  <2> QED
    BY <1>7, <2>1, BoundsAssumption DEF Exit, TypeOK, CurKnown, ReqKnown
<1>8. ASSUME NEW c \in Container, Elapse(c) PROVE TypeInv'
  BY <1>8 DEF Elapse, TypeOK, CurKnown, ReqKnown
<1>9. CASE UNCHANGED vars
  BY <1>9 DEF vars, TypeOK, CurKnown, ReqKnown
<1> QED
  BY <1>1, <1>2, <1>3, <1>4, <1>5, <1>6, <1>7, <1>8, <1>9 DEF Next

\* Every variable keeps its type in every instance, and the row a thread works
\* on is known at each of its awaits.
THEOREM TypeCorrect == Spec => []TypeInv
  BY InitTypeInv, NextTypeInv, PTL DEF Spec

\* Every variable keeps its type: in particular no answer read back after an
\* operation is ever that of a container that has gone.
THEOREM TypesKept == Spec => []TypeOK
<1>1. TypeInv => TypeOK
  BY DEF TypeInv
<1> QED
  BY <1>1, TypeCorrect, PTL

-----------------------------------------------------------------------------
(* Passes exclude each other.                                              *)

LEMMA NextOnePass == TypeInv /\ OnePass /\ [Next]_vars => OnePass'
<1> SUFFICES ASSUME TypeInv, OnePass, [Next]_vars PROVE OnePass'
  OBVIOUS
<1> USE DEF TypeInv, thread
<1>1. ASSUME UNCHANGED <<pc, lock>> PROVE OnePass'
  BY <1>1 DEF OnePass
<1>2. Publish \/ Deliver \/ Tick => OnePass'
  BY <1>1 DEF Publish, Deliver, Tick, OnePass, TypeOK, InPass, StatePc, RemovalPc, DropPc
<1>3. ASSUME NEW t \in Thread, Pass(t) PROVE OnePass'
  <2>1. pc \in [Thread -> Pc] /\ \A u \in Thread : u # "free"
    BY DEF TypeOK, Thread
  <2>2. ASSUME pc[t] \in InPass, NEW label \in InPass,
               pc' = [pc EXCEPT ![t] = label], UNCHANGED lock
        PROVE  OnePass'
    BY <2>1, <2>2 DEF OnePass
  <2>3. ASSUME pc[t] \in InPass, Release(t) PROVE OnePass'
    BY <2>1, <2>3
       DEF OnePass, Release, InPass, StatePc, RemovalPc, DropPc, Thread
  <2>4. ASSUME pc[t] \in InPass, Done(t) PROVE OnePass'
    BY <2>2, <2>4 DEF Done, InPass
  <2>5. ASSUME pc[t] \in InPass, NEW label \in InPass, Goto(t, label) PROVE OnePass'
    BY <2>2, <2>5 DEF Goto
  <2>6. CASE Acquire(t)
    BY <2>1, <2>6 DEF Acquire, OnePass, InPass
  <2>7. CASE Skip(t)
    BY <2>1, <2>7 DEF Skip, OnePass, InPass, StatePc, RemovalPc, DropPc
  <2>8. CASE List(t) \/ Finish(t) \/ ExamineRaises(t)
    BY <2>2, <2>3, <2>8 DEF List, Finish, ExamineRaises, InPass
  <2>9. ASSUME NEW c \in Container, ExamineBeat(t, c) \/ ExamineFetch(t, c)
        PROVE  OnePass'
    <3>1. PICK rt : Begin(t, c, rt)
      BY <2>9 DEF ExamineBeat, ExamineFetch
    <3> QED
      BY <2>2, <3>1, DecideType
         DEF Begin, InPass, StatePc, RemovalPc, DropPc
  <2>10. CASE Correct(t)
    BY <2>3, <2>4, <2>10 DEF Correct, InPass
  <2>11. CASE RemoveStop(t) \/ RemoveDelete(t) \/ RemoveForce(t)
    BY <2>3, <2>5, <2>11
       DEF RemoveStop, RemoveDelete, RemoveForce, InPass, RemovalPc
  <2>12. CASE RemoveRoute(t) \/ RemoveRow(t)
    BY <2>3, <2>4, <2>5, <2>12
       DEF RemoveRoute, RouteRaises, RemoveRow, InPass, RemovalPc
  <2>13. CASE DropRow(t) \/ DropRoute(t)
    BY <2>3, <2>4, <2>5, <2>13
       DEF DropRow, DropRoute, RouteRaises, InPass, DropPc
  <2> QED
    BY <1>3, <2>6, <2>7, <2>8, <2>9, <2>10, <2>11, <2>12, <2>13 DEF Pass
<1>4. ASSUME NEW r \in Request, NEW c \in Container, NEW op \in Op, RequestRead(r, c, op)
      PROVE  OnePass'
  BY <1>1, <1>4 DEF RequestRead
<1>5. ASSUME NEW r \in Request, Answering(r) PROVE OnePass'
  BY <1>1, <1>5 DEF Answering, RequestCall, RequestReload, RequestWrite
<1>6. ASSUME NEW c \in Container, NEW e \in ExitCode, Exit(c, e) \/ Elapse(c) PROVE OnePass'
  BY <1>1, <1>6 DEF Exit, Elapse
<1>7. CASE UNCHANGED vars
  BY <1>1, <1>7 DEF vars
<1>8. ASSUME NEW c \in Container, Elapse(c) PROVE OnePass'
  BY <1>1, <1>8 DEF Elapse
<1> QED
  BY <1>2, <1>3, <1>4, <1>5, <1>6, <1>7, <1>8 DEF Next

\* For any number of environments, requests and faults, the two threads never
\* reconcile at the same time, and a thread that left its pass, even by an
\* exception, does not keep the lock.
THEOREM PassesExclude == Spec => []OnePass
<1>1. Init => OnePass
  BY DEF Init, OnePass, InPass, StatePc, RemovalPc, DropPc, Thread
<1> QED
  BY <1>1, TypeCorrect, NextOnePass, PTL DEF Spec

-----------------------------------------------------------------------------
(* What a removal may rely on at each of its awaits.                       *)

Disposable(c) ==
    \/ lifetime[c] = "SINGLE_USE"
    \/ lifetime[c] = "EPHEMERAL" /\ c \in elapsed

\* the decision of Decide holds until the row is deleted
Justified == \A t \in Thread :
    pc[t] \in RemovalPc \cup DropPc => Disposable(cur[t])

\* Decide enters a removal only for a row that may go
LEMMA DecideJustified ==
    ASSUME NEW life, NEW expired \in BOOLEAN, NEW desired, NEW rt,
           Decide(life, expired, desired, rt) \in RemovalPc \cup DropPc
    PROVE  life = "SINGLE_USE" \/ (life = "EPHEMERAL" /\ expired)
  BY DEF Decide, RemovalPc, DropPc

LossInv == Justified /\ LossJustified

LEMMA NextLossInv == TypeInv /\ LossInv /\ [Next]_vars => LossInv'
<1> SUFFICES ASSUME TypeInv, LossInv, [Next]_vars PROVE LossInv'
  OBVIOUS
<1> USE DEF TypeInv, LossInv, thread, database
<1>0. /\ pc \in [Thread -> Pc] /\ cur \in [Thread -> Container \cup {None}]
      /\ rows \subseteq Container
  BY DEF TypeOK
<1>1. ASSUME UNCHANGED <<pc, cur, rows, lifetime, elapsed>> PROVE LossInv'
  BY <1>1 DEF Justified, LossJustified, Disposable
<1>3. CASE Publish
  BY <1>1, <1>3 DEF Publish
<1>4. CASE Deliver \/ Tick
  BY <1>0, <1>4
     DEF Deliver, Tick, Justified, LossJustified, Disposable, Thread,
         RemovalPc, DropPc
<1>5. ASSUME NEW t \in Thread, Pass(t) PROVE LossInv'
  <2>1. ASSUME Release(t) \/ Done(t), UNCHANGED <<rows, lifetime, elapsed>>
        PROVE  LossInv'
    BY <1>0, <2>1
       DEF Release, Done, Justified, LossJustified, Disposable, RemovalPc, DropPc
  <2>2. ASSUME NEW label, Goto(t, label), pc[t] \in RemovalPc \cup DropPc,
               UNCHANGED <<rows, lifetime, elapsed>>
        PROVE  LossInv'
    BY <1>0, <2>2 DEF Goto, Justified, LossJustified, Disposable
  <2>3. CASE Acquire(t) \/ Skip(t) \/ List(t)
    BY <1>0, <2>3
       DEF Acquire, Skip, List, Justified, LossJustified, Disposable,
           RemovalPc, DropPc
  <2>4. CASE Finish(t) \/ ExamineRaises(t)
    BY <2>1, <2>4 DEF Finish, ExamineRaises
  <2>5. ASSUME NEW c \in Container, ExamineBeat(t, c) \/ ExamineFetch(t, c)
        PROVE  LossInv'
    <3>1. PICK rt : Begin(t, c, rt)
      BY <2>5 DEF ExamineBeat, ExamineFetch
    <3> DEFINE label == Decide(lifetime[c], c \in elapsed, seen[t][c], rt)
    <3>2. label \in RemovalPc \cup DropPc => Disposable(c) /\ label # "next"
      <4>1. "next" \notin RemovalPc \cup DropPc /\ (c \in elapsed) \in BOOLEAN
        BY DEF RemovalPc, DropPc
      <4> QED
        BY <4>1, DecideJustified DEF Disposable
    <3>3. /\ pc' = [pc EXCEPT ![t] = label]
          /\ cur' = [cur EXCEPT ![t] = IF label = "next" THEN None ELSE c]
          /\ UNCHANGED <<rows, lifetime, elapsed>>
      BY <3>1 DEF Begin
    <3> HIDE DEF label
    <3> QED
      BY <1>0, <3>2, <3>3 DEF Justified, LossJustified, Disposable
  <2>6. CASE Correct(t)
    BY <2>1, <2>6 DEF Correct
  <2>7. CASE RemoveStop(t) \/ RemoveDelete(t) \/ RemoveForce(t)
    BY <2>1, <2>2, <2>7 DEF RemoveStop, RemoveDelete, RemoveForce, RemovalPc
  <2>8. CASE RemoveRoute(t) \/ DropRoute(t)
    BY <2>1, <2>2, <2>8 DEF RemoveRoute, DropRoute, RouteRaises, RemovalPc
  <2>9. CASE RemoveRow(t) \/ DropRow(t)
    <3>1. pc[t] \in RemovalPc \cup DropPc
      BY <2>9 DEF RemoveRow, DropRow, RemovalPc, DropPc
    <3>2. Disposable(cur[t]) /\ UNCHANGED <<lifetime, elapsed>>
      BY <2>9, <3>1 DEF RemoveRow, DropRow, Justified
    <3>3. LossJustified'
      BY <2>9, <3>2 DEF RemoveRow, DropRow, LossJustified, Disposable
    <3>4. Justified'
      BY <1>0, <2>9, <3>1, <3>2
         DEF RemoveRow, DropRow, Done, Goto, Justified, Disposable, RemovalPc, DropPc
    <3> QED
      BY <3>3, <3>4
  <2> QED
    BY <1>5, <2>3, <2>4, <2>5, <2>6, <2>7, <2>8, <2>9 DEF Pass
<1>6. ASSUME NEW r \in Request, NEW c \in Container, NEW op \in Op, RequestRead(r, c, op)
      PROVE  LossInv'
  BY <1>1, <1>6 DEF RequestRead
<1>7. ASSUME NEW r \in Request, Answering(r) PROVE LossInv'
  BY <1>1, <1>7 DEF Answering, RequestCall, RequestReload, RequestWrite
<1>8. ASSUME NEW c \in Container, NEW e \in ExitCode, Exit(c, e) PROVE LossInv'
  BY <1>1, <1>8 DEF Exit
<1>9. ASSUME NEW c \in Container, Elapse(c) PROVE LossInv'
  BY <1>9 DEF Elapse, Justified, LossJustified, Disposable
<1>10. CASE UNCHANGED vars
  BY <1>1, <1>10 DEF vars
<1> QED
  BY <1>3, <1>4, <1>5, <1>6, <1>7, <1>8, <1>9, <1>10 DEF Next

\* In every instance the reconciler deletes the row of no environment but a
\* single-use one or an ephemeral one whose time has run out.
THEOREM OnlyDisposableRowsLost == Spec => []LossJustified
<1>1. Init => LossInv
  BY DEF Init, LossInv, Justified, LossJustified, RemovalPc, DropPc, Thread
<1>2. LossInv => LossJustified
  BY DEF LossInv
<1> QED
  BY <1>1, <1>2, TypeCorrect, NextLossInv, PTL DEF Spec

-----------------------------------------------------------------------------
(* What a removal leaves behind.                                           *)

\* what a removal knows at its last awaits, and a row's absence ever after
CleanInv == faults = 0 =>
    /\ \A t \in Thread :
         pc[t] \in {"rm_route", "rm_row"} \cup DropPc => docker[cur[t]] = Absent
    /\ \A t \in Thread : pc[t] = "rm_row" => cur[t] \notin routed
    /\ \A c \in Container \ rows :
         /\ docker[c] = Absent
         /\ c \in routed => \E t \in Thread : cur[t] = c /\ pc[t] = "drop_route"

\* what an answered or a lost call does to the containers
LEMMA CallsKeepAbsent ==
    ASSUME TypeInv, NEW c \in Container, NEW outcomes,
           docker[c] = Absent => \A o \in outcomes : o.rt = Absent
    PROVE  /\ \A code : Answered(c, outcomes, code) =>
                /\ \A d \in Container : docker[d] = Absent => docker'[d] = Absent
                /\ faults' >= faults
           /\ Raised(c, outcomes) =>
                /\ \A d \in Container : docker[d] = Absent => docker'[d] = Absent
                /\ faults' > faults
<1>1. docker \in [Container -> Runtime] /\ faults \in Nat
  BY BoundsAssumption DEF TypeInv, TypeOK
<1>2. Fault => faults' > faults
  BY <1>1 DEF Fault
<1>3. ASSUME NEW o \in outcomes, docker' = [docker EXCEPT ![c] = o.rt]
      PROVE  \A d \in Container : docker[d] = Absent => docker'[d] = Absent
  BY <1>1, <1>3
<1>4. UNCHANGED docker =>
        \A d \in Container : docker[d] = Absent => docker'[d] = Absent
  OBVIOUS
<1>5. UNCHANGED faults \/ Fault => faults' >= faults
  BY <1>1 DEF Fault
<1>6. ASSUME NEW code, Answered(c, outcomes, code)
      PROVE  /\ \A d \in Container : docker[d] = Absent => docker'[d] = Absent
             /\ faults' >= faults
  <2>1. UNCHANGED faults \/ Fault
    BY <1>6 DEF Answered
  <2>2. CASE \E o \in outcomes : docker' = [docker EXCEPT ![c] = o.rt]
    BY <2>2, <1>3, <1>5, <2>1
  <2>3. CASE UNCHANGED docker
    BY <2>3, <1>4, <1>5, <2>1
  <2> QED
    BY <1>6, <2>2, <2>3 DEF Answered
<1>7. ASSUME Raised(c, outcomes)
      PROVE  /\ \A d \in Container : docker[d] = Absent => docker'[d] = Absent
             /\ faults' > faults
  BY <1>7, <1>2, <1>3, <1>4 DEF Raised
<1> QED
  BY <1>6, <1>7

LEMMA OutcomesKeepAbsent ==
    ASSUME NEW rt, rt = Absent
    PROVE  /\ \A op \in Op : \A o \in StateCall(op, rt) : o.rt = Absent
           /\ \A force \in BOOLEAN : \A o \in DeleteCall(force, rt) : o.rt = Absent
  BY AbsentStays DEF Answer

\* no step brings a container or a route back, and none forgets a fault
LEMMA NothingComesBack ==
    ASSUME TypeInv, [Next]_vars
    PROVE  /\ \A c \in Container : docker[c] = Absent => docker'[c] = Absent
           /\ routed' \subseteq routed
           /\ faults' >= faults
<1> USE DEF database, labhost, thread, spent
<1> DEFINE Kept == /\ \A c \in Container : docker[c] = Absent => docker'[c] = Absent
                   /\ faults' >= faults
<1>1. docker \in [Container -> Runtime] /\ faults \in Nat
  BY BoundsAssumption DEF TypeInv, TypeOK
<1>2. /\ UNCHANGED faults \/ Fault => faults' >= faults
      /\ UNCHANGED docker /\ (UNCHANGED faults \/ Fault) => Kept
  BY <1>1 DEF Fault
<1>10. ASSUME NEW c \in Container, NEW op \in Op,
              \/ \E code : Answered(c, StateCall(op, docker[c]), code)
              \/ Raised(c, StateCall(op, docker[c]))
       PROVE  Kept
  <2> DEFINE outcomes == StateCall(op, docker[c])
  <2>1. docker[c] = Absent => \A o \in outcomes : o.rt = Absent
    BY OutcomesKeepAbsent
  <2>2. (\E code : Answered(c, outcomes, code)) \/ Raised(c, outcomes)
    BY <1>10
  <2> HIDE DEF outcomes
  <2>3. faults' > faults => faults' >= faults
    BY <1>1, <2>2 DEF Raised, Answered, Fault
  <2> QED
    BY <2>1, <2>2, <2>3, CallsKeepAbsent
<1>11. ASSUME NEW c \in Container, NEW force \in BOOLEAN,
              \/ \E code : Answered(c, DeleteCall(force, docker[c]), code)
              \/ Raised(c, DeleteCall(force, docker[c]))
       PROVE  Kept
  <2> DEFINE outcomes == DeleteCall(force, docker[c])
  <2>1. docker[c] = Absent => \A o \in outcomes : o.rt = Absent
    BY OutcomesKeepAbsent
  <2>2. (\E code : Answered(c, outcomes, code)) \/ Raised(c, outcomes)
    BY <1>11
  <2> HIDE DEF outcomes
  <2>3. faults' > faults => faults' >= faults
    BY <1>1, <2>2 DEF Raised, Answered, Fault
  <2> QED
    BY <2>1, <2>2, <2>3, CallsKeepAbsent
<1> HIDE DEF Kept
<1>3. ASSUME NEW t \in Thread, Pass(t) PROVE Kept /\ routed' \subseteq routed
  <2>0. pc[t] \in StatePc \cup RemovalPc => cur[t] \in Container
    BY DEF TypeInv, CurKnown
  <2>1. CASE Acquire(t) \/ Skip(t) \/ List(t) \/ Finish(t) \/ ExamineRaises(t)
    BY <2>1, <1>2 DEF Acquire, Skip, List, Finish, ExamineRaises
  <2>2. ASSUME NEW c \in Container, ExamineBeat(t, c) \/ ExamineFetch(t, c)
        PROVE  Kept /\ routed' \subseteq routed
    BY <2>2, <1>2 DEF ExamineBeat, ExamineFetch, Begin
  <2>3. ASSUME pc[t] \in StatePc \cup {"rm_stop"}, NEW op \in Op,
               \/ \E code : Answered(cur[t], StateCall(op, docker[cur[t]]), code)
               \/ Raised(cur[t], StateCall(op, docker[cur[t]]))
        PROVE  Kept
    <3>1. cur[t] \in Container
      BY <2>3, <2>0 DEF RemovalPc
    <3> QED
      BY <2>3, <3>1, <1>10
  <2>4. ASSUME pc[t] \in {"rm_delete", "rm_force"}, NEW force \in BOOLEAN,
               \/ \E code : Answered(cur[t], DeleteCall(force, docker[cur[t]]), code)
               \/ Raised(cur[t], DeleteCall(force, docker[cur[t]]))
        PROVE  Kept
    <3>1. cur[t] \in Container
      BY <2>4, <2>0 DEF RemovalPc
    <3> QED
      BY <2>4, <3>1, <1>11
  <2>5. CASE Correct(t)
    <3>1. pc[t] \in Op
      BY <2>5 DEF Correct, StatePc, Op
    <3>2. Kept
      BY <2>3, <2>5, <3>1 DEF Correct
    <3> QED
      BY <2>5, <3>2 DEF Correct
  <2>6. CASE RemoveStop(t)
    <3>1. Kept
      BY <2>3, <2>6 DEF RemoveStop, Op
    <3> QED
      BY <2>6, <3>1 DEF RemoveStop
  <2>7. CASE RemoveDelete(t)
    <3>1. Kept
      BY <2>4, <2>7 DEF RemoveDelete
    <3> QED
      BY <2>7, <3>1 DEF RemoveDelete
  <2>8. CASE RemoveForce(t)
    <3>1. Kept
      BY <2>4, <2>8 DEF RemoveForce
    <3> QED
      BY <2>8, <3>1 DEF RemoveForce
  <2>9. CASE RemoveRoute(t) \/ DropRoute(t)
    BY <2>9, <1>2 DEF RemoveRoute, DropRoute, Unroute, RouteRaises
  <2>10. CASE RemoveRow(t) \/ DropRow(t)
    BY <2>10, <1>2 DEF RemoveRow, DropRow
  <2> QED
    BY <1>3, <2>1, <2>2, <2>5, <2>6, <2>7, <2>8, <2>9, <2>10 DEF Pass
<1>4. ASSUME NEW r \in Request, Answering(r) PROVE Kept /\ routed' \subseteq routed
  <2>1. CASE RequestCall(r)
    <3>1. req[r].name \in Container /\ req[r].op \in Op
      BY <2>1 DEF RequestCall, TypeInv, ReqKnown, TypeOK, RequestState
    <3>2. Kept
      BY <2>1, <3>1, <1>10 DEF RequestCall
    <3> QED
      BY <2>1, <3>2 DEF RequestCall
  <2> QED
    BY <1>4, <1>2, <2>1 DEF Answering, RequestReload, RequestWrite
<1>5. ASSUME NEW c \in Container, NEW e \in ExitCode, Exit(c, e)
      PROVE  Kept /\ routed' \subseteq routed
  BY <1>5, <1>1, <1>2 DEF Exit, Kept, Absent
<1>6. Publish \/ Deliver \/ Tick \/ UNCHANGED vars => Kept /\ routed' \subseteq routed
  BY <1>2 DEF Publish, Deliver, Tick, vars
<1>7. ASSUME NEW r \in Request, NEW c \in Container, NEW op \in Op,
             RequestRead(r, c, op) \/ Elapse(c)
      PROVE  Kept /\ routed' \subseteq routed
  BY <1>7, <1>2 DEF RequestRead, Elapse
<1>8. ASSUME NEW c \in Container, Elapse(c) PROVE Kept /\ routed' \subseteq routed
  BY <1>8, <1>2 DEF Elapse
<1>9. Kept /\ routed' \subseteq routed
  BY <1>3, <1>4, <1>5, <1>6, <1>7, <1>8 DEF Next
<1> QED
  BY <1>9 DEF Kept

LEMMA NextCleanInv == TypeInv /\ CleanInv /\ [Next]_vars => CleanInv'
<1> SUFFICES ASSUME TypeInv, CleanInv, [Next]_vars, faults' = 0 PROVE CleanInv'
  BY DEF CleanInv
<1> USE DEF database, labhost, thread, spent
<1>0. /\ pc \in [Thread -> Pc] /\ cur \in [Thread -> Container \cup {None}]
      /\ docker \in [Container -> Runtime]
      /\ \A t \in Thread : pc[t] \in RemovalPc \cup DropPc => cur[t] \in Container
  BY DEF TypeInv, TypeOK, CurKnown
<1>1. faults = 0 /\ ~Fault
  <2>1. faults \in Nat /\ faults' >= faults
    BY NothingComesBack, BoundsAssumption DEF TypeInv, TypeOK
  <2> QED
    BY <2>1 DEF Fault
<1>2. /\ \A c \in Container : docker[c] = Absent => docker'[c] = Absent
      /\ routed' \subseteq routed
  BY NothingComesBack
<1> DEFINE Last == {"rm_route", "rm_row"} \cup DropPc
<1>3. /\ \A t \in Thread : pc[t] \in Last => cur[t] \in Container /\ docker[cur[t]] = Absent
      /\ \A t \in Thread : pc[t] = "rm_row" => cur[t] \notin routed
      /\ \A c \in Container \ rows :
           /\ docker[c] = Absent
           /\ c \in routed => \E t \in Thread : cur[t] = c /\ pc[t] = "drop_route"
  BY <1>0, <1>1 DEF CleanInv, RemovalPc
\* a step that takes no thread to the end of a removal
<1>4. ASSUME UNCHANGED <<rows, pc, cur>> PROVE CleanInv'
  BY <1>2, <1>3, <1>4 DEF CleanInv
<1>5. ASSUME NEW t \in Thread, Pass(t) PROVE CleanInv'
  <2>1. ASSUME UNCHANGED rows, pc[t] # "drop_route",
               \A u \in Thread \ {t} : pc'[u] = pc[u] /\ cur'[u] = cur[u],
               pc'[t] \notin Last
        PROVE  CleanInv'
    BY <1>2, <1>3, <2>1 DEF CleanInv
  <2>2. ASSUME Release(t) \/ Done(t)
        PROVE  /\ \A u \in Thread \ {t} : pc'[u] = pc[u] /\ cur'[u] = cur[u]
               /\ pc'[t] \notin Last
    BY <1>0, <2>2 DEF Release, Done, DropPc
  <2>3. ASSUME NEW label, Goto(t, label)
        PROVE  /\ \A u \in Thread \ {t} : pc'[u] = pc[u] /\ cur'[u] = cur[u]
               /\ pc'[t] = label /\ cur'[t] = cur[t]
    BY <1>0, <2>3 DEF Goto
  <2>4. CASE Acquire(t) \/ Skip(t) \/ List(t)
    <3>1. /\ \A u \in Thread \ {t} : pc'[u] = pc[u] /\ cur'[u] = cur[u]
          /\ pc'[t] \notin Last /\ UNCHANGED rows /\ pc[t] # "drop_route"
      BY <1>0, <2>4 DEF Acquire, Skip, List, DropPc
    <3> QED
      BY <2>1, <3>1
  <2>5. CASE Finish(t)
    BY <2>1, <2>2, <2>5 DEF Finish
  <2>6. ASSUME NEW c \in Container, ExamineBeat(t, c) \/ ExamineFetch(t, c)
        PROVE  CleanInv'
    <3>1. PICK rt : /\ Begin(t, c, rt)
                    /\ rt.status = "absent" => rt = docker[c] /\ docker[c] = Absent
      BY <1>0, <1>1, <2>6
         DEF ExamineBeat, ExamineFetch, FromBeat, Runtime, RuntimeStatus
    <3> DEFINE label == Decide(lifetime[c], c \in elapsed, seen[t][c], rt)
    <3>2. label \in Last => label = "drop_route" \/ rt.status = "absent"
      BY DEF Decide, DropPc
    <3>3. label # "drop_route" /\ label \notin {"rm_route", "rm_row"}
      BY DecideType
    <3>4. /\ pc' = [pc EXCEPT ![t] = label]
          /\ cur' = [cur EXCEPT ![t] = IF label = "next" THEN None ELSE c]
          /\ UNCHANGED rows /\ pc[t] = "next"
      BY <3>1 DEF Begin
    <3>5. label \in Last => label = "drop_row" /\ docker[c] = Absent
      BY <3>1, <3>2, <3>3 DEF DropPc
    <3> HIDE DEF label
    <3> QED
      BY <1>0, <1>2, <1>3, <3>3, <3>4, <3>5 DEF CleanInv
  <2>7. CASE ExamineRaises(t)
    BY <1>1, <2>7 DEF ExamineRaises
  <2>8. CASE Correct(t)
    BY <2>1, <2>2, <2>8, <1>1 DEF Correct, Raised, StatePc
  <2>9. CASE RemoveStop(t)
    BY <2>1, <2>3, <2>9, <1>1 DEF RemoveStop, Raised, DropPc
  <2>10. ASSUME NEW force \in BOOLEAN, NEW code, force \/ code # "refused",
                pc[t] \in RemovalPc, UNCHANGED rows, Goto(t, "rm_route"),
                Answered(cur[t], DeleteCall(force, docker[cur[t]]), code)
         PROVE  CleanInv'
    <3>1. PICK o \in DeleteCall(force, docker[cur[t]]) :
            o.code = code /\ docker' = [docker EXCEPT ![cur[t]] = o.rt]
      BY <2>10, <1>1 DEF Answered
    <3>2. cur[t] \in Container
      BY <1>0, <2>10
    <3>3. force \/ o.code # "refused"
      BY <2>10, <3>1
    <3>4. o.rt = Absent
      BY <1>0, <3>2, <3>3, DeleteRemoves
    <3>5. docker'[cur[t]] = Absent
      BY <1>0, <3>1, <3>2, <3>4
    <3>6. pc[t] # "drop_route"
      BY <2>10 DEF RemovalPc
    <3> QED
      BY <1>2, <1>3, <2>3, <2>10, <3>5, <3>6 DEF CleanInv, DropPc
  <2>11. CASE RemoveDelete(t)
    <3>1. CASE Goto(t, "rm_force")
      BY <2>1, <2>3, <2>11, <3>1 DEF RemoveDelete, DropPc
    <3>2. ASSUME NEW code \in {"ok", "missing"}, Goto(t, "rm_route"),
                 Answered(cur[t], DeleteCall(FALSE, docker[cur[t]]), code)
          PROVE  CleanInv'
      BY <2>10, <2>11, <3>2 DEF RemoveDelete, RemovalPc
    <3> QED
      BY <2>11, <3>1, <3>2, <1>1 DEF RemoveDelete, Raised
  <2>12. CASE RemoveForce(t)
    <3>1. PICK code : Answered(cur[t], DeleteCall(TRUE, docker[cur[t]]), code)
                      /\ Goto(t, "rm_route")
      BY <2>12, <1>1 DEF RemoveForce, Raised
    <3> QED
      BY <2>10, <2>12, <3>1 DEF RemoveForce, RemovalPc
  <2>13. CASE RemoveRoute(t)
    <3>1. routed' = routed \ {cur[t]} /\ Goto(t, "rm_row") /\ UNCHANGED rows
          /\ pc[t] = "rm_route"
      BY <2>13, <1>1 DEF RemoveRoute, Unroute, RouteRaises
    <3> QED
      BY <1>2, <1>3, <2>3, <3>1 DEF CleanInv, DropPc
  <2>14. CASE RemoveRow(t)
    <3>1. /\ pc[t] = "rm_row" /\ rows' = rows \ {cur[t]}
          /\ \A u \in Thread \ {t} : pc'[u] = pc[u] /\ cur'[u] = cur[u]
          /\ pc'[t] \notin Last
      BY <2>2, <2>14 DEF RemoveRow
    <3> QED
      BY <1>2, <1>3, <3>1 DEF CleanInv
  <2>15. CASE DropRow(t)
    <3>1. /\ pc[t] \in Last /\ pc[t] # "drop_route" /\ rows' = rows \ {cur[t]}
          /\ \A u \in Thread \ {t} : pc'[u] = pc[u] /\ cur'[u] = cur[u]
          /\ pc'[t] = "drop_route" /\ cur'[t] = cur[t]
      BY <2>3, <2>15 DEF DropRow, DropPc
    <3> QED
      BY <1>2, <1>3, <3>1 DEF CleanInv
  <2>16. CASE DropRoute(t)
    <3>1. /\ routed' = routed \ {cur[t]} /\ UNCHANGED rows
          /\ \A u \in Thread \ {t} : pc'[u] = pc[u] /\ cur'[u] = cur[u]
          /\ pc'[t] \notin Last
      BY <2>2, <2>16, <1>1 DEF DropRoute, Unroute, RouteRaises
    <3> QED
      BY <1>2, <1>3, <3>1 DEF CleanInv
  <2> QED
    BY <1>5, <2>4, <2>5, <2>6, <2>7, <2>8, <2>9, <2>11, <2>12, <2>13, <2>14,
       <2>15, <2>16 DEF Pass
<1>6. CASE Deliver \/ Tick
  <2>1. UNCHANGED <<rows, cur>> /\ \A t \in Thread :
          pc'[t] # pc[t] => pc'[t] = "submitted" /\ pc[t] = "idle"
    BY <1>0, <1>6 DEF Deliver, Tick
  <2> QED
    BY <1>2, <1>3, <2>1 DEF CleanInv, DropPc
<1>7. CASE Publish \/ UNCHANGED vars
  BY <1>4, <1>7 DEF Publish, vars
<1>8. ASSUME NEW r \in Request, NEW c \in Container, NEW op \in Op, RequestRead(r, c, op)
      PROVE  CleanInv'
  BY <1>4, <1>8 DEF RequestRead
<1>9. ASSUME NEW r \in Request, Answering(r) PROVE CleanInv'
  BY <1>4, <1>9 DEF Answering, RequestCall, RequestReload, RequestWrite
<1>10. ASSUME NEW c \in Container, NEW e \in ExitCode, Exit(c, e) PROVE CleanInv'
  BY <1>4, <1>10 DEF Exit
<1>11. ASSUME NEW c \in Container, Elapse(c) PROVE CleanInv'
  BY <1>4, <1>11 DEF Elapse
<1> QED
  BY <1>5, <1>6, <1>7, <1>8, <1>9, <1>10, <1>11 DEF Next

\* In every instance, as long as no call to the lab host fails, a row that is
\* gone leaves no container behind, and no route once its pass is through.
THEOREM RemovalIsClean == Spec => []CleanUnlessFault
<1>1. Init => CleanInv
  BY DEF Init, CleanInv, DropPc, Thread
<1>2. TypeInv /\ CleanInv => CleanUnlessFault
  BY BoundsAssumption DEF TypeInv, TypeOK, CleanInv, CleanUnlessFault
<1> QED
  BY <1>1, <1>2, TypeCorrect, NextCleanInv, PTL DEF Spec
=============================================================================
