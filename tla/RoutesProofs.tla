---------------------------- MODULE RoutesProofs ----------------------------
(***************************************************************************)
(* Proofs about IngressRoutes for any threads, hostnames and routes, and   *)
(* about Exposure for any environments, projects, services, ports and      *)
(* compose files. Overlaps says what the history variable overlap means;   *)
(* LoneInv and SerialInv follow a request from step to step. RouteInv ties *)
(* the hostnames, ports and rows of Exposure together.                     *)
(***************************************************************************)
EXTENDS Routes, FiniteSetTheorems, WellFoundedInduction, TLAPS

NoneKnown == [h \in Hostname |-> Unknown]

\* either the one request under way has been alone, or all have not
Overlaps ==
    /\ overlap \in {{}, Busy}
    /\ overlap # {} => known = NoneKnown
    /\ overlap = {} => \A t, u \in Busy : t = u

TypeInv == TypeOK /\ Overlaps

LEMMA ChangedType ==
    ASSUME NEW j \in Job, NEW tab \in Table
    PROVE  Changed(j, tab) \in Table
  BY DEF Changed, Job, Table

LEMMA FileTypes ==
    /\ NoRoutes \in Table
    /\ Missing \in File /\ Blank \in File /\ Torn \in File
    /\ \A tab \in Table : Whole(tab) \in File /\ Whole(tab).table = tab
    /\ \A f \in File : f.table \in Table /\ (f.kind # "whole" => f.table = NoRoutes)
    /\ \A f \in File, tab \in Table : Written(f, tab) \subseteq File
    /\ \A tab \in Table : Written(Blank, tab) = {Whole(tab)}
<1>1. NoRoutes \in Table
  BY DEF NoRoutes, Table
<1>2. \A tab \in Table : Whole(tab) \in File /\ Whole(tab).table = tab
  BY DEF File, Whole
<1>3. Missing \in File /\ Blank \in File /\ Torn \in File
  BY DEF File
<1>4. \A f \in File : f.table \in Table /\ (f.kind # "whole" => f.table = NoRoutes)
  BY <1>1 DEF File, Whole, Missing, Blank, Torn
<1>5. \A f \in File, tab \in Table : Written(f, tab) \subseteq File
  BY <1>2, <1>3 DEF Written
<1>6. \A tab \in Table : Written(Blank, tab) = {Whole(tab)}
  BY DEF Written, Blank
<1> QED
  BY <1>1, <1>2, <1>3, <1>4, <1>5, <1>6

LEMMA InitTypeInv == Init => TypeInv
  BY FileTypes, LimitsAssumption
     DEF Init, TypeInv, TypeOK, Overlaps, Busy, Pc, NoRoutes

\* a step of a thread, but its last, leaves it busy and the history as it was
LEMMA BusyKept ==
    ASSUME TypeInv, NEW t \in Thread, pc[t] # "idle",
           NEW label \in Pc \ {"idle"}, Goto(t, label),
           UNCHANGED <<job, calls, crashes, history>>
    PROVE  /\ pc' \in [Thread -> Pc] /\ Busy' = Busy /\ pc'[t] = label
           /\ \A u \in Thread \ {t} : pc'[u] = pc[u]
           /\ calls' \in 0..MaxCalls /\ crashes' \in 0..MaxCrashes
           /\ job' \in [Thread -> Job \cup {NoJob}]
           /\ \A u \in Busy' : job'[u] \in Job
           /\ overlap' \subseteq Busy'
           /\ known' \in [Hostname -> Upstream \cup {NoRoute, Unknown}]
           /\ Overlaps'
<1>1. pc' \in [Thread -> Pc] /\ pc'[t] = label /\ \A u \in Thread \ {t} : pc'[u] = pc[u]
  BY DEF Goto, TypeInv, TypeOK
<1>2. Busy' = Busy
  BY <1>1 DEF Busy
<1>3. Overlaps'
  BY <1>2 DEF Overlaps, TypeInv, history
<1> QED
  BY <1>1, <1>2, <1>3 DEF TypeInv, TypeOK, history

LEMMA NextTypeInv == TypeInv /\ [Next]_vars => TypeInv'
<1> SUFFICES ASSUME TypeInv, [Next]_vars PROVE TypeInv'
  OBVIOUS
<1> USE DEF files
<1>1. ASSUME NEW t \in Thread, Step(t) PROVE TypeInv'
  <2>1. /\ pc \in [Thread -> Pc] /\ job[t] \in Job \cup {NoJob}
        /\ routes_json \in File /\ routes_yml \in File
        /\ proxy \in {"up", "gone"}
        /\ routes \in [Thread -> Table]
    BY DEF TypeInv, TypeOK
  <2>2. t \in Busy => job[t] \in Job
    BY DEF TypeInv, TypeOK
  <2>3. CASE CheckJson(t) \/ CheckYml(t) \/ RemoveProxy(t) \/ RunProxy(t)
    <3>1. PICK label \in Pc \ {"idle"} : Goto(t, label)
      BY <2>3 DEF CheckJson, CheckYml, RemoveProxy, RunProxy, Ready, Pc
    <3>2. /\ UNCHANGED <<files, job, routes, calls, crashes, history>>
          /\ pc[t] # "idle" /\ proxy' \in {"up", "gone"}
      BY <2>1, <2>3 DEF CheckJson, CheckYml, RemoveProxy, RunProxy
    <3> QED
      BY <2>1, <3>1, <3>2, BusyKept DEF TypeInv, TypeOK
  <2>4. CASE CreateJson(t) \/ FillJson(t) \/ OpenJson(t) \/ WriteJson(t)
    <3>1. PICK label \in Pc \ {"idle"} : Goto(t, label)
      BY <2>4 DEF CreateJson, FillJson, OpenJson, WriteJson, Pc
    <3>2. /\ UNCHANGED <<routes_yml, proxy, job, routes, calls, crashes, history>>
          /\ pc[t] # "idle"
      BY <2>4 DEF CreateJson, FillJson, OpenJson, WriteJson
    <3>3. routes_json' \in File
      BY <2>1, <2>4, FileTypes DEF CreateJson, FillJson, OpenJson, WriteJson
    <3> QED
      BY <2>1, <3>1, <3>2, <3>3, BusyKept DEF TypeInv, TypeOK
  <2>5. CASE CreateYml(t) \/ OpenYml(t) \/ WriteYml(t)
    <3>1. PICK label \in Pc \ {"idle"} : Goto(t, label)
      BY <2>5 DEF CreateYml, OpenYml, WriteYml, Ready, Pc
    <3>2. /\ UNCHANGED <<routes_json, proxy, job, routes, calls, crashes, history>>
          /\ pc[t] # "idle"
      BY <2>5 DEF CreateYml, OpenYml, WriteYml
    <3>3. routes_yml' \in File
      BY <2>1, <2>5, FileTypes DEF CreateYml, OpenYml, WriteYml
    <3> QED
      BY <2>1, <3>1, <3>2, <3>3, BusyKept DEF TypeInv, TypeOK
  <2>6. CASE Load(t)
    <3>1. PICK label \in Pc \ {"idle"} : Goto(t, label)
      BY <2>6 DEF Load, Pc
    <3>2. /\ UNCHANGED <<files, proxy, job, calls, crashes, history>>
          /\ pc[t] # "idle"
      BY <2>6 DEF Load
    <3>3. routes' \in [Thread -> Table]
      BY <2>1, <2>2, <2>6, <3>2, FileTypes, ChangedType DEF Load, Busy
    <3> QED
      BY <2>1, <3>1, <3>2, <3>3, BusyKept DEF TypeInv, TypeOK
  <2>7. CASE Respond(t)
    <3>1. pc' \in [Thread -> Pc] /\ Busy' = Busy \ {t}
      BY <2>1, <2>7 DEF Respond, Goto, Busy, Pc
    <3>2. job' \in [Thread -> Job \cup {NoJob}] /\ \A u \in Busy' : job'[u] \in Job
      BY <2>7, <3>1 DEF Respond, TypeInv, TypeOK
    <3>3. routes' \in [Thread -> Table]
      BY <2>1, <2>7, FileTypes DEF Respond
    <3>4. known' \in [Hostname -> Upstream \cup {NoRoute, Unknown}]
      <4>1. routes[t] \in [Hostname -> Upstream \cup {NoRoute}]
        BY <2>1 DEF Table
      <4> QED
        BY <2>2, <2>7, <4>1 DEF Respond, TypeInv, TypeOK, Job, Busy
    <3>5. overlap' \subseteq Busy' /\ Overlaps'
      BY <2>7, <3>1 DEF Respond, TypeInv, TypeOK, Overlaps, Busy
    <3> QED
      BY <2>7, <3>1, <3>2, <3>3, <3>4, <3>5 DEF Respond, TypeInv, TypeOK
  <2> QED
    BY <1>1, <2>3, <2>4, <2>5, <2>6, <2>7 DEF Step
<1>2. ASSUME NEW t \in Thread, NEW j \in Job, Begin(t, j) PROVE TypeInv'
  <2>1. pc' \in [Thread -> Pc] /\ Busy' = Busy \cup {t}
    BY <1>2 DEF Begin, Goto, TypeInv, TypeOK, Busy, Pc
  <2>2. job' \in [Thread -> Job \cup {NoJob}] /\ \A u \in Busy' : job'[u] \in Job
    BY <1>2, <2>1 DEF Begin, TypeInv, TypeOK
  <2>3. calls' \in 0..MaxCalls
    BY <1>2, LimitsAssumption DEF Begin, TypeInv, TypeOK
  <2>4. known' \in [Hostname -> Upstream \cup {NoRoute, Unknown}]
    BY <1>2 DEF Begin, TypeInv, TypeOK
  <2>5. overlap' \subseteq Busy' /\ Overlaps'
    BY <1>2, <2>1 DEF Begin, TypeInv, TypeOK, Overlaps, NoneKnown
  <2> QED
    BY <1>2, <2>1, <2>2, <2>3, <2>4, <2>5 DEF Begin, TypeInv, TypeOK
<1>3. CASE Crash
  <2>1. pc' \in [Thread -> Pc] /\ Busy' = {}
    BY <1>3 DEF Crash, Busy, Pc
  <2>2. known' \in [Hostname -> Upstream \cup {NoRoute, Unknown}]
    BY <1>3 DEF Crash, TypeInv, TypeOK
  <2>3. crashes' \in 0..MaxCrashes
    BY <1>3, LimitsAssumption DEF Crash, TypeInv, TypeOK
  <2> QED
    BY <1>3, <2>1, <2>2, <2>3, FileTypes DEF Crash, TypeInv, TypeOK, Overlaps
<1>4. CASE UNCHANGED vars
  BY <1>4 DEF vars, history, TypeInv, TypeOK, Overlaps, Busy
<1> QED
  BY <1>1, <1>2, <1>3, <1>4 DEF Next

\* In every instance the files, the tables of the requests and the history keep
\* their types; a file that is not whole is read as the empty table.
THEOREM RoutesTyped == Spec => []TypeOK
<1>1. TypeInv => TypeOK
  BY DEF TypeInv
<1> QED
  BY <1>1, InitTypeInv, NextTypeInv, PTL DEF Spec

-----------------------------------------------------------------------------
(* The way of an undisturbed request through both files.                   *)

Holds(tab) == \A h \in Hostname : known[h] # Unknown => tab[h] = known[h]

\* but for the hostname the request is about
HoldsBut(t, tab) ==
    \A h \in Hostname :
        known[h] # Unknown /\ (job[t].op = "ensure" \/ h # job[t].host)
            => tab[h] = known[h]

Before == {"check_json", "create_json", "fill_json", "check_yml", "create_yml",
           "remove_proxy", "load"}

At(t) ==
    /\ pc[t] \in Before => Holds(routes_json.table) /\ Holds(routes_yml.table)
    /\ pc[t] = "create_json" => routes_json.kind = "missing"
    /\ pc[t] \in {"fill_json", "write_json"} => routes_json = Blank
    /\ pc[t] = "create_yml" => routes_yml.kind = "missing"
    /\ pc[t] \in {"open_json", "write_json"} => Holds(routes_yml.table)
    /\ pc[t] \notin Before => HoldsBut(t, routes[t])
    /\ pc[t] \in {"open_yml", "write_yml", "run_proxy", "answer"} =>
         routes_json.table = routes[t]
    /\ pc[t] = "write_yml" => routes_yml = Blank
    /\ pc[t] \in {"run_proxy", "answer"} => routes_yml = Whole(routes[t])

LoneInv ==
    /\ Busy = {} => Holds(routes_json.table) /\ Holds(routes_yml.table)
    /\ \A t \in Busy : overlap = {} => At(t)

LEMMA NextLoneInv == TypeInv /\ LoneInv /\ [Next]_vars => LoneInv'
<1> SUFFICES ASSUME TypeInv, LoneInv, [Next]_vars PROVE LoneInv'
  OBVIOUS
<1> USE DEF files, history
<1>0. /\ pc \in [Thread -> Pc] /\ routes \in [Thread -> Table]
      /\ routes_json \in File /\ routes_yml \in File
      /\ overlap \subseteq Busy /\ Busy \subseteq Thread
  BY DEF TypeInv, TypeOK, Busy
<1>1. ASSUME UNCHANGED <<files, history, routes>>, UNCHANGED <<job, pc>>
      PROVE  LoneInv'
  BY <1>1 DEF LoneInv, Holds, HoldsBut, At, Busy
<1>2. ASSUME known' = NoneKnown, overlap' # {} \/ Busy' = {} PROVE LoneInv'
  BY <1>2 DEF LoneInv, Holds, NoneKnown
<1>3. ASSUME NEW t \in Thread, Step(t) PROVE LoneInv'
  <2>0. pc[t] # "idle" /\ t \in Busy
    BY <1>3
       DEF Step, CheckJson, CreateJson, FillJson, CheckYml, CreateYml, RemoveProxy,
           Load, OpenJson, WriteJson, OpenYml, WriteYml, RunProxy, Respond, Busy
  \* every step but the last: it is enough to follow the thread itself
  <2>1. ASSUME NEW label \in Pc \ {"idle"}, Goto(t, label),
               UNCHANGED <<job, calls, crashes, history>>,
               overlap = {} => At(t)'
        PROVE  LoneInv'
    <3>1. Busy' = Busy
      BY <2>0, <2>1, BusyKept
    <3>2. overlap = {} => Busy = {t}
      BY <2>0 DEF TypeInv, Overlaps
    <3> QED
      BY <2>0, <2>1, <3>1, <3>2 DEF LoneInv
  <2>2. overlap = {} => At(t)
    BY <2>0 DEF LoneInv
  <2>3. CASE CheckJson(t)
    <3>1. PICK label \in {"create_json", "check_yml"} :
            /\ Goto(t, label) /\ pc'[t] = label
            /\ label = "create_json" => routes_json.kind = "missing"
      BY <1>0, <2>3 DEF CheckJson, Goto
    <3>2. overlap = {} => At(t)'
      BY <2>2, <2>3, <3>1 DEF CheckJson, At, Before, Holds, HoldsBut
    <3> QED
      BY <2>1, <2>3, <3>1, <3>2 DEF CheckJson, Pc
  <2>4. CASE CreateJson(t)
    <3>1. pc'[t] = "fill_json" /\ Blank.table = NoRoutes
      BY <1>0, <2>4 DEF CreateJson, Goto, Blank
    <3>2. ASSUME overlap = {} PROVE At(t)'
      <4>1. routes_json.table = NoRoutes
        BY <1>0, <2>2, <2>4, <3>2, FileTypes DEF At, CreateJson
      <4> QED
        BY <2>2, <2>4, <3>1, <3>2, <4>1 DEF CreateJson, At, Before, Holds
    <3> QED
      BY <2>1, <2>4, <3>2 DEF CreateJson, Pc
  <2>5. CASE FillJson(t)
    <3>1. pc'[t] = "check_yml" /\ Blank.table = NoRoutes
      BY <1>0, <2>5 DEF FillJson, Goto, Blank
    <3>2. ASSUME overlap = {} PROVE At(t)'
      <4>1. routes_json = Blank /\ routes_json'.table = NoRoutes
        BY <2>2, <2>5, <3>2, FileTypes DEF At, FillJson
      <4> QED
        BY <2>2, <2>5, <3>1, <3>2, <4>1 DEF FillJson, At, Before, Holds
    <3> QED
      BY <2>1, <2>5, <3>2 DEF FillJson, Pc
  <2>6. CASE CheckYml(t)
    <3>1. PICK label \in {"create_yml", "remove_proxy", "load"} :
            /\ Goto(t, label) /\ pc'[t] = label
            /\ label = "create_yml" => routes_yml.kind = "missing"
      BY <1>0, <2>6 DEF CheckYml, Goto, Ready
    <3>2. overlap = {} => At(t)'
      BY <2>2, <2>6, <3>1 DEF CheckYml, At, Before, Holds
    <3> QED
      BY <2>1, <2>6, <3>1, <3>2 DEF CheckYml, Pc
  <2>7. CASE CreateYml(t)
    <3>1. PICK label \in {"remove_proxy", "load"} : Goto(t, label) /\ pc'[t] = label
      BY <1>0, <2>7 DEF CreateYml, Goto, Ready
    <3>2. ASSUME overlap = {} PROVE At(t)'
      <4>1. routes_yml.table = NoRoutes /\ Blank.table = NoRoutes
        BY <1>0, <2>2, <2>7, <3>2, FileTypes DEF At, CreateYml, Blank
      <4> QED
        BY <2>2, <2>7, <3>1, <3>2, <4>1 DEF CreateYml, At, Before, Holds
    <3> QED
      BY <2>1, <2>7, <3>1, <3>2 DEF CreateYml, Pc
  <2>8. CASE RemoveProxy(t)
    <3>1. pc'[t] = "load"
      BY <1>0, <2>8 DEF RemoveProxy, Goto
    <3>2. overlap = {} => At(t)'
      BY <2>2, <2>8, <3>1 DEF RemoveProxy, At, Before, Holds
    <3> QED
      BY <2>1, <2>8, <3>2 DEF RemoveProxy, Pc
  <2>9. CASE Load(t)
    <3> DEFINE label == IF job[t].op = "ensure" THEN "open_yml" ELSE "open_json"
    <3>1. /\ Goto(t, label) /\ pc'[t] = label
          /\ routes'[t] = Changed(job[t], routes_json.table)
      BY <1>0, <2>9 DEF Load, Goto
    <3>2. ASSUME overlap = {} PROVE At(t)'
      <4>1. Holds(routes_json.table) /\ Holds(routes_yml.table)
        BY <2>2, <2>9, <3>2 DEF Load, At, Before
      <4>2. job[t] \in Job /\ routes_json.table \in Table
        BY <1>0, <2>0, FileTypes DEF TypeInv, TypeOK
      <4>3. job[t].op = "ensure" => routes'[t] = routes_json.table
        BY <3>1 DEF Changed
      <4>4. \A h \in Hostname : job[t].op = "ensure" \/ h # job[t].host =>
                routes'[t][h] = routes_json.table[h]
        BY <3>1, <4>2 DEF Changed, Job, Table
      <4>5. HoldsBut(t, routes[t])'
        BY <2>9, <4>1, <4>4 DEF Load, HoldsBut, Holds
      <4> QED
        BY <2>9, <3>1, <4>1, <4>3, <4>5 DEF Load, At, Before, Holds
    <3> QED
      BY <2>1, <2>9, <3>1, <3>2 DEF Load, Pc
  <2>10. CASE OpenJson(t)
    <3>1. pc'[t] = "write_json"
      BY <1>0, <2>10 DEF OpenJson, Goto
    <3>2. overlap = {} => At(t)'
      BY <2>2, <2>10, <3>1 DEF OpenJson, At, Before, Holds, HoldsBut
    <3> QED
      BY <2>1, <2>10, <3>2 DEF OpenJson, Pc
  <2>11. CASE WriteJson(t)
    <3>1. pc'[t] = "open_yml"
      BY <1>0, <2>11 DEF WriteJson, Goto
    <3>2. ASSUME overlap = {} PROVE At(t)'
      <4>1. routes_json'.table = routes[t]
        BY <1>0, <2>2, <2>11, <3>2, FileTypes DEF At, WriteJson
      <4> QED
        BY <2>2, <2>11, <3>1, <3>2, <4>1 DEF WriteJson, At, Before, HoldsBut
    <3> QED
      BY <2>1, <2>11, <3>2 DEF WriteJson, Pc
  <2>12. CASE OpenYml(t)
    <3>1. pc'[t] = "write_yml"
      BY <1>0, <2>12 DEF OpenYml, Goto
    <3>2. overlap = {} => At(t)'
      BY <2>2, <2>12, <3>1 DEF OpenYml, At, Before, HoldsBut
    <3> QED
      BY <2>1, <2>12, <3>2 DEF OpenYml, Pc
  <2>13. CASE WriteYml(t)
    <3>1. PICK label \in {"run_proxy", "answer"} : Goto(t, label) /\ pc'[t] = label
      BY <1>0, <2>13 DEF WriteYml, Goto
    <3>2. ASSUME overlap = {} PROVE At(t)'
      <4>1. routes_yml' = Whole(routes[t])
        BY <1>0, <2>2, <2>13, <3>2, FileTypes DEF At, WriteYml
      <4> QED
        BY <2>2, <2>13, <3>1, <3>2, <4>1 DEF WriteYml, At, Before, HoldsBut
    <3> QED
      BY <2>1, <2>13, <3>1, <3>2 DEF WriteYml, Pc
  <2>14. CASE RunProxy(t)
    <3>1. pc'[t] = "answer"
      BY <1>0, <2>14 DEF RunProxy, Goto
    <3>2. overlap = {} => At(t)'
      BY <2>2, <2>14, <3>1 DEF RunProxy, At, Before, HoldsBut
    <3> QED
      BY <2>1, <2>14, <3>2 DEF RunProxy, Pc
  <2>15. CASE Respond(t)
    <3>1. Busy' = Busy \ {t} /\ UNCHANGED files
      BY <1>0, <2>15 DEF Respond, Goto, Busy
    <3>2. CASE overlap # {}
      <4>1. overlap = Busy /\ known = NoneKnown /\ known' = known
        BY <2>0, <2>15, <3>2 DEF TypeInv, Overlaps, Respond
      <4> QED
        BY <2>15, <3>1, <4>1, <1>2 DEF Respond
    <3>3. CASE overlap = {}
      <4>1. Busy' = {}
        BY <2>0, <3>1, <3>3 DEF TypeInv, Overlaps
      <4>2. /\ routes_json.table = routes[t] /\ routes_yml.table = routes[t]
            /\ HoldsBut(t, routes[t])
        BY <1>0, <2>2, <2>15, <3>3, FileTypes DEF At, Respond, Before
      <4>3. known' = IF job[t].op = "ensure" THEN known
                     ELSE [known EXCEPT ![job[t].host] = routes[t][job[t].host]]
        BY <2>15, <3>3 DEF Respond
      <4>4. known \in [Hostname -> Upstream \cup {NoRoute, Unknown}]
        BY DEF TypeInv, TypeOK
      <4>5. \A h \in Hostname : known'[h] # Unknown => routes[t][h] = known'[h]
        BY <4>2, <4>3, <4>4 DEF HoldsBut
      <4> QED
        BY <3>1, <4>1, <4>2, <4>5 DEF LoneInv, Holds
    <3> QED
      BY <3>2, <3>3
  <2> QED
    BY <1>3, <2>3, <2>4, <2>5, <2>6, <2>7, <2>8, <2>9, <2>10, <2>11, <2>12,
       <2>13, <2>14, <2>15 DEF Step
<1>4. ASSUME NEW t \in Thread, NEW j \in Job, Begin(t, j) PROVE LoneInv'
  <2>1. pc'[t] = "check_json" /\ Busy' = Busy \cup {t}
    BY <1>0, <1>4 DEF Begin, Goto, Busy
  <2>2. CASE Busy = {}
    BY <1>4, <2>1, <2>2 DEF Begin, LoneInv, At, Before, Holds
  <2>3. CASE Busy # {}
    BY <1>2, <1>4, <2>3 DEF Begin, NoneKnown
  <2> QED
    BY <2>2, <2>3
<1>5. CASE Crash
  <2>1. Busy' = {}
    BY <1>5 DEF Crash, Busy
  <2>2. CASE Busy = {}
    BY <1>5, <2>1, <2>2 DEF Crash, LoneInv, Holds
  <2>3. CASE Busy # {}
    BY <1>2, <1>5, <2>1, <2>3 DEF Crash, NoneKnown
  <2> QED
    BY <2>2, <2>3
<1>6. CASE UNCHANGED vars
  BY <1>1, <1>6 DEF vars
<1> QED
  BY <1>3, <1>4, <1>5, <1>6 DEF Next

LEMMA InitLoneInv == Init => LoneInv
  BY DEF Init, LoneInv, Holds, Busy, Missing, NoRoutes

\* In every instance a request that was alone repairs whatever overlapping
\* requests and restarts have left in the two files.
THEOREM RepairsAlways == Spec => []LoneRequestRepairs
<1>1. TypeInv /\ LoneInv => LoneRequestRepairs
  <2> SUFFICES ASSUME TypeInv, LoneInv, NEW t \in Thread \ overlap, pc[t] = "answer"
               PROVE  routes_json.table = routes[t] /\ routes_yml = Whole(routes[t])
    BY DEF LoneRequestRepairs
  <2>1. t \in Busy /\ overlap = {}
    BY DEF Busy, TypeInv, Overlaps
  <2> QED
    BY <2>1 DEF LoneInv, At
<1> QED
  BY <1>1, InitTypeInv, NextTypeInv, InitLoneInv, NextLoneInv, PTL DEF Spec

\* In every instance what an undisturbed request answered stays in both files
\* until two requests overlap or a restart interrupts one.
THEOREM AnswersStand == Spec => []AnswersHold
<1>1. LoneInv => AnswersHold
  BY DEF LoneInv, AnswersHold, Holds
<1> QED
  BY <1>1, InitTypeInv, NextTypeInv, InitLoneInv, NextLoneInv, PTL DEF Spec

-----------------------------------------------------------------------------
(* Requests carried out one at a time.                                     *)

OneAtATime == (\A t, u \in Thread : t = u) /\ MaxCrashes = 0

SerialInv == \A t \in Thread :
    /\ pc[t] = "create_json" => routes_json.kind = "missing"
    /\ pc[t] \in {"fill_json", "write_json"} => routes_json = Blank
    /\ pc[t] = "open_json" =>
         job[t].op # "ensure" /\ routes[t] = Changed(job[t], routes_json.table)

LEMMA StoredIs ==
    ASSUME OneAtATime, NEW t \in Thread
    PROVE  stored = IF pc[t] = "write_json" THEN routes[t] ELSE routes_json.table
  BY DEF OneAtATime, stored

LEMMA SerialStep ==
    ASSUME OneAtATime, TypeInv, SerialInv, [Next]_vars
    PROVE  SerialInv' /\ [Serial!Next]_stored
<1> USE DEF files
<1>0. /\ pc \in [Thread -> Pc] /\ routes \in [Thread -> Table]
      /\ routes_json \in File
  BY DEF TypeInv, TypeOK
<1>1. ASSUME NEW t \in Thread, Step(t) PROVE SerialInv' /\ [Serial!Next]_stored
  <2>1. /\ stored = IF pc[t] = "write_json" THEN routes[t] ELSE routes_json.table
        /\ stored' = IF pc'[t] = "write_json" THEN routes'[t] ELSE routes_json'.table
    <3>1. \A u \in Thread : u = t
      BY DEF OneAtATime
    <3> QED
      BY <3>1 DEF stored
  <2>2. Thread = {t} /\ job[t] \in Job \cup {NoJob} /\ (pc[t] # "idle" => job[t] \in Job)
    BY DEF OneAtATime, TypeInv, TypeOK, Busy
  <2>3. ASSUME UNCHANGED <<routes_json, routes>>, pc[t] # "write_json",
               pc'[t] \notin {"create_json", "fill_json", "write_json", "open_json"}
        PROVE  SerialInv' /\ stored' = stored
    BY <2>1, <2>2, <2>3 DEF SerialInv
  <2>4. CASE CheckJson(t)
    <3>1. pc'[t] = "create_json" => routes_json.kind = "missing"
      BY <1>0, <2>4 DEF CheckJson, Goto
    <3>2. pc'[t] \in {"create_json", "check_yml"}
      BY <1>0, <2>4 DEF CheckJson, Goto
    <3> QED
      BY <2>1, <2>2, <2>4, <3>1, <3>2 DEF CheckJson, SerialInv
  <2>5. CASE CreateJson(t)
    <3>1. routes_json.table = Blank.table
      BY <1>0, <2>5, FileTypes DEF CreateJson, SerialInv, Blank
    <3>2. pc'[t] = "fill_json"
      BY <1>0, <2>5 DEF CreateJson, Goto
    <3> QED
      BY <2>1, <2>2, <2>5, <3>1, <3>2 DEF CreateJson, SerialInv
  <2>6. CASE FillJson(t)
    <3>1. routes_json = Blank /\ Blank.table = NoRoutes /\ routes_json'.table = NoRoutes
      BY <2>6, FileTypes DEF FillJson, SerialInv, Blank
    <3>2. pc'[t] = "check_yml"
      BY <1>0, <2>6 DEF FillJson, Goto
    <3> QED
      BY <2>1, <2>2, <2>6, <3>1, <3>2 DEF FillJson, SerialInv
  <2>7. CASE CheckYml(t) \/ CreateYml(t) \/ RemoveProxy(t)
    <3>1. pc'[t] \in {"create_yml", "remove_proxy", "load"}
      BY <1>0, <2>7 DEF CheckYml, CreateYml, RemoveProxy, Ready, Goto
    <3> QED
      BY <2>3, <2>7, <3>1 DEF CheckYml, CreateYml, RemoveProxy
  <2>8. CASE Load(t)
    <3>1. /\ pc'[t] = IF job[t].op = "ensure" THEN "open_yml" ELSE "open_json"
          /\ routes'[t] = Changed(job[t], routes_json.table)
      BY <1>0, <2>8 DEF Load, Goto
    <3> QED
      BY <2>1, <2>2, <2>8, <3>1 DEF Load, SerialInv
  <2>9. CASE OpenJson(t)
    <3>1. pc'[t] = "write_json" /\ stored' = routes[t] /\ stored = routes_json.table
      BY <1>0, <2>1, <2>9 DEF OpenJson, Goto
    <3>2. job[t].op # "ensure" /\ stored' = Changed(job[t], stored)
      BY <2>9, <3>1 DEF OpenJson, SerialInv
    <3>3. job[t].op \in {"upsert", "remove"} /\ job[t].host \in Hostname
          /\ job[t].up \in Upstream
      BY <2>2, <2>9, <3>2 DEF OpenJson, Job
    <3>4. Serial!Next
      BY <3>2, <3>3 DEF Changed, Serial!Next, Serial!Put, Serial!Drop
    <3>5. SerialInv'
      BY <2>2, <2>9, <3>1 DEF OpenJson, SerialInv
    <3> QED
      BY <3>4, <3>5
  <2>10. CASE WriteJson(t)
    <3>1. routes_json'.table = routes[t]
      BY <1>0, <2>10, FileTypes DEF WriteJson, SerialInv
    <3>2. pc'[t] = "open_yml"
      BY <1>0, <2>10 DEF WriteJson, Goto
    <3> QED
      BY <2>1, <2>2, <2>10, <3>1, <3>2 DEF WriteJson, SerialInv
  <2>11. CASE OpenYml(t) \/ WriteYml(t) \/ RunProxy(t)
    <3>1. pc'[t] \in {"write_yml", "run_proxy", "answer"}
      BY <1>0, <2>11 DEF OpenYml, WriteYml, RunProxy, Goto
    <3> QED
      BY <2>3, <2>11, <3>1 DEF OpenYml, WriteYml, RunProxy
  <2>12. CASE Respond(t)
    <3>1. pc'[t] = "idle" /\ UNCHANGED routes_json /\ pc[t] = "answer"
      BY <1>0, <2>12 DEF Respond, Goto
    <3> QED
      BY <2>1, <2>2, <3>1 DEF SerialInv
  <2> QED
    BY <1>1, <2>4, <2>5, <2>6, <2>7, <2>8, <2>9, <2>10, <2>11, <2>12 DEF Step
<1>2. ASSUME NEW t \in Thread, NEW j \in Job, Begin(t, j)
      PROVE  SerialInv' /\ [Serial!Next]_stored
  <2>1. pc'[t] = "check_json" /\ pc[t] = "idle" /\ UNCHANGED <<routes_json, routes>>
        /\ \A u \in Thread : u = t
    BY <1>0, <1>2 DEF Begin, Goto, OneAtATime
  <2> QED
    BY <2>1 DEF SerialInv, stored
<1>3. ~Crash
  BY DEF Crash, OneAtATime, TypeInv, TypeOK
<1>4. CASE UNCHANGED vars
  BY <1>4 DEF vars, SerialInv, stored
<1> QED
  BY <1>1, <1>2, <1>3, <1>4 DEF Next

\* In every instance whose requests are carried out one at a time and whose
\* lab host is not restarted, the files implement the table of routes.
THEOREM SerialImplements ==
    ASSUME OneAtATime
    PROVE  Spec => ImplementsRouteTable
<1>1. Init => SerialInv /\ Serial!Init
  BY DEF Init, SerialInv, stored, Serial!Init, Serial!NoRoutes, NoRoutes, Missing
<1>2. TypeInv /\ SerialInv /\ [Next]_vars => SerialInv' /\ [Serial!Next]_stored
  BY SerialStep
<1> QED
  BY <1>1, <1>2, InitTypeInv, NextTypeInv, PTL
     DEF Spec, ImplementsRouteTable, Serial!Spec

-----------------------------------------------------------------------------
(* Exposure: least elements.                                               *)

\* A set of subsets of a finite set has a smallest member.
LEMMA Smallest ==
    ASSUME NEW S, IsFiniteSet(S), NEW D \in SUBSET SUBSET S, D # {}
    PROVE  \E s \in D : \A t \in D : t \subseteq s => t = s
<1>1. IsWellFoundedOn(StrictSubsetOrdering(S), SUBSET S)
  BY FS_StrictSubsetOrderingWellFounded, FS_FiniteSubsetsOfFinite
<1>2. PICK s \in D : \A t \in D : <<t, s>> \notin StrictSubsetOrdering(S)
  BY <1>1, WFMin
<1> QED BY <1>2 DEF StrictSubsetOrdering

\* A set of natural numbers has a least one.
LEMMA Least ==
    ASSUME NEW M \in SUBSET Nat, M # {}
    PROVE  \E k \in M : \A j \in M : k <= j
<1>1. PICK m \in M : TRUE
  OBVIOUS
<1>2. PICK S : S = 0..m
  OBVIOUS
<1> DEFINE D == {0..k : k \in {k \in M : k <= m}}
<1>3. D \in SUBSET SUBSET S /\ D # {}
  BY <1>2
<1>4. IsFiniteSet(S)
  BY <1>2, FS_Interval
<1> HIDE DEF D
<1>5. PICK s \in D : \A t \in D : t \subseteq s => t = s
  BY <1>3, <1>4, Smallest
<1>6. PICK k \in M : s = 0..k /\ k <= m
  BY DEF D
<1>7. ASSUME NEW j \in M, j < k PROVE FALSE
  <2>1. 0..j \in D
    BY <1>6, <1>7 DEF D
  <2>2. 0..j \subseteq 0..k /\ k \in 0..k /\ k \notin 0..j
    BY <1>7
  <2> QED BY <1>5, <1>6, <2>1, <2>2
<1> QED BY <1>7


-----------------------------------------------------------------------------
(* Exposure: the invariant.                                                 *)

\* What Exposure assumes of its constants.
Assumed == X!NameAssumption /\ X!FileAssumption /\ X!LimitsAssumption

\* The hostname of a resource under a domain.
Key(r, d) == <<SlugOf[r], d>>

\* An answered hostname leads to the container, whether it runs or not, and to the
\* port that the compose file would give it.
Leads(r) ==
    answered[r] # None =>
        LET port == table[Key(r, answered[r])]
        IN  /\ box[r] # None => box[r] = port
            /\ \A p \in Project, s \in Service :
                   r = <<p, s>> /\ file[p] # None /\ s \in DOMAIN file[p] => file[p][s] = port

\* A resource of a hostname has the port its route leads to. A service runs, and its
\* project exposes it.
Home(r, h) ==
    /\ SlugOf[r] = h[1] /\ box[r] = table[h]
    /\ r \in Env \/ r \in up
    /\ \A p \in Project, s \in Service :
           r = <<p, s>> /\ projects[p] # None => s \in projects[p]

\* A route that is not left behind is of the host's domain and leads home.
Homely(h) ==
    h \notin left /\ table[h] # 0 => h[2] = domain /\ \E r \in X!Resource : Home(r, h)

\* Environments, running or not, have ports of their own.
EnvsApart == \A d, e \in Env : d # e /\ box[d] = box[e] => box[d] \in {0, None}

\* The invariant: what has a hostname of its own is led to, every route leads home.
RouteInv ==
    /\ X!TypeOK /\ EnvsApart
    /\ \A r \in X!Own : Leads(r)
    /\ \A h \in Slug \X Domain : Homely(h)

\* A hostname of one's own.
LEMMA OwnIs ==
    /\ X!Own \in SUBSET X!Resource
    /\ \A r \in X!Own, q \in X!Resource : SlugOf[q] = SlugOf[r] => q = r
BY DEF X!Own

\* Hostnames are keys of the table.
LEMMA KeyIs ==
    ASSUME Assumed, NEW r \in X!Resource, NEW d \in Domain
    PROVE  Key(r, d) \in Slug \X Domain
BY DEF Assumed, X!NameAssumption, Key

\* Which hostnames a set of resources has.
LEMMA HostsAre ==
    ASSUME NEW R \in SUBSET X!Resource
    PROVE  /\ \A h \in Slug \X Domain :
                  h \in X!Hosts(R) <=> h[2] = domain /\ \E r \in R : SlugOf[r] = h[1]
           /\ \A r \in X!Own, d \in Domain : Key(r, d) \in X!Hosts(R) <=> r \in R /\ d = domain
<1>1. \A h \in Slug \X Domain :
        h \in X!Hosts(R) <=> h[2] = domain /\ \E r \in R : SlugOf[r] = h[1]
  <2>1. \A h \in Slug \X Domain : h = <<h[1], h[2]>>
    OBVIOUS
  <2> QED BY <2>1 DEF X!Hosts, X!HostOf
<1>2. \A r \in X!Own, d \in Domain : Key(r, d) \in X!Hosts(R) <=> r \in R /\ d = domain
  BY OwnIs DEF Key, X!Hosts, X!HostOf
<1> QED BY <1>1, <1>2

\* What a table has once routes of R are set to ports, or to 0.
Sets(new, R, port) ==
    /\ new \in [Slug \X Domain -> 0..MaxPort]
    /\ \A h \in Slug \X Domain :
           IF h \in X!Hosts(R) THEN \E r \in R : X!HostOf(r) = h /\ new[h] = port[r]
           ELSE new[h] = table[h]
    /\ \A r \in X!Own, d \in Domain :
           new[Key(r, d)] = IF r \in R /\ d = domain THEN port[r] ELSE table[Key(r, d)]

Clears(new, R) ==
    /\ new \in [Slug \X Domain -> 0..MaxPort]
    /\ \A h \in Slug \X Domain : new[h] = IF h \in X!Hosts(R) THEN 0 ELSE table[h]
    /\ \A r \in X!Own, d \in Domain :
           new[Key(r, d)] = IF r \in R /\ d = domain THEN 0 ELSE table[Key(r, d)]

LEMMA PutIs ==
    ASSUME Assumed, X!TypeOK, NEW R \in SUBSET X!Resource, NEW port,
           \A q \in R : port[q] \in 0..MaxPort
    PROVE  Sets(X!Put(R, port), R, port)
<1>1. DOMAIN table = Slug \X Domain /\ \A h \in Slug \X Domain : table[h] \in 0..MaxPort
  BY DEF X!TypeOK
<1>2. ASSUME NEW h \in X!Hosts(R)
      PROVE  (CHOOSE q \in R : X!HostOf(q) = h) \in R /\ X!HostOf(CHOOSE q \in R : X!HostOf(q) = h) = h
  BY DEF X!Hosts
<1>3. X!Put(R, port) \in [Slug \X Domain -> 0..MaxPort]
  BY <1>1, <1>2 DEF X!Put
<1>4. ASSUME NEW h \in Slug \X Domain
      PROVE  IF h \in X!Hosts(R) THEN \E r \in R : X!HostOf(r) = h /\ X!Put(R, port)[h] = port[r]
             ELSE X!Put(R, port)[h] = table[h]
  BY <1>1, <1>2 DEF X!Put
<1>5. ASSUME NEW r \in X!Own, NEW d \in Domain
      PROVE  X!Put(R, port)[Key(r, d)] = IF r \in R /\ d = domain THEN port[r] ELSE table[Key(r, d)]
  <2>1. Key(r, d) \in Slug \X Domain /\ (Key(r, d) \in X!Hosts(R) <=> r \in R /\ d = domain)
    BY KeyIs, HostsAre, OwnIs
  <2>2. \A q \in R : X!HostOf(q) = Key(r, d) => q = r
    BY OwnIs DEF X!HostOf, Key
  <2> QED BY <1>4, <2>1, <2>2
<1> QED BY <1>3, <1>4, <1>5 DEF Sets

LEMMA DroppedIs ==
    ASSUME Assumed, X!TypeOK, NEW R \in SUBSET X!Resource
    PROVE  Clears(X!Dropped(R), R)
<1>1. DOMAIN table = Slug \X Domain /\ \A h \in Slug \X Domain : table[h] \in 0..MaxPort
  BY DEF X!TypeOK
<1>2. 0 \in 0..MaxPort
  BY DEF Assumed, X!FileAssumption
<1>3. X!Dropped(R) \in [Slug \X Domain -> 0..MaxPort]
      /\ \A h \in Slug \X Domain : X!Dropped(R)[h] = IF h \in X!Hosts(R) THEN 0 ELSE table[h]
  BY <1>1, <1>2 DEF X!Dropped
<1>4. \A r \in X!Own, d \in Domain :
          X!Dropped(R)[Key(r, d)] = IF r \in R /\ d = domain THEN 0 ELSE table[Key(r, d)]
  BY <1>3, KeyIs, HostsAre, OwnIs
<1> QED BY <1>3, <1>4 DEF Clears

\* What is deployed or removed changes nothing of others, nor the routes of those
\* with a hostname of their own.
Only(R) ==
    /\ domain' = domain
    /\ \A r \in X!Resource \ R :
        box'[r] = box[r] /\ answered'[r] = answered[r] /\ (r \in up' <=> r \in up)
    /\ \A r \in X!Own \ R, d \in Domain : table'[Key(r, d)] = table[Key(r, d)]
    /\ \A p \in Project, s \in Service : <<p, s>> \notin R => file'[p] = file[p] /\ projects'[p] = projects[p]

\* Who is not touched keeps its route.
LEMMA Untouched ==
    ASSUME X!TypeOK, NEW R, Only(R), NEW r \in X!Own \ R, Leads(r)
    PROVE  Leads(r)'
<1>1. answered[r] \in Domain \cup {None}
  BY OwnIs DEF X!TypeOK
<1>2. /\ box'[r] = box[r] /\ answered'[r] = answered[r]
      /\ \A d \in Domain : table'[Key(r, d)] = table[Key(r, d)]
      /\ \A p \in Project, s \in Service : r = <<p, s>> => file'[p] = file[p]
  BY OwnIs DEF Only
<1> QED BY <1>1, <1>2 DEF Leads, Key

\* A route that stays leads home, if those it may lead to stay.
LEMMA StaysHomely ==
    ASSUME RouteInv, domain' = domain, NEW h \in Slug \X Domain,
           h \notin left' => h \notin left, table'[h] = table[h],
           \A r \in X!Resource : h \notin left' /\ h[2] = domain /\ table[h] # 0 /\ Home(r, h) => Home(r, h)'
    PROVE  Homely(h)'
<1>1. X!Resource' = X!Resource
  BY DEF X!Resource
<1>2. Homely(h)
  BY DEF RouteInv
<1>3. ASSUME h \notin left', table[h] # 0 PROVE h[2] = domain /\ \E r \in X!Resource : Home(r, h)'
  BY <1>2, <1>3 DEF Homely
<1> QED BY <1>1, <1>3 DEF Homely

\* A route that is none of R's leads home as before.
LEMMA OthersHomely ==
    ASSUME RouteInv, NEW R \in SUBSET X!Resource, Only(R), NEW h \in Slug \X Domain,
           h \notin left' => h \notin X!Hosts(R) /\ h \notin left, table'[h] = table[h]
    PROVE  Homely(h)'
<1>1. domain' = domain
  BY DEF Only
<1>2. ASSUME NEW r \in X!Resource, h \notin left', h[2] = domain, Home(r, h) PROVE Home(r, h)'
  <2>1. r \notin R
    BY <1>2, HostsAre DEF Home
  <2>2. box'[r] = box[r] /\ (r \in up' <=> r \in up)
        /\ \A p \in Project, s \in Service : r = <<p, s>> => projects'[p] = projects[p]
    BY <2>1 DEF Only
  <2> QED BY <1>2, <2>2 DEF Home
<1> QED BY <1>1, <1>2, StaysHomely

\* A step that touches only R.
LEMMA StepKeeps ==
    ASSUME RouteInv, NEW R, Only(R), X!TypeOK', EnvsApart',
           \A r \in R \cap X!Own : Leads(r)',
           \A h \in Slug \X Domain : Homely(h)'
    PROVE  RouteInv'
<1>1. ASSUME NEW r \in X!Own PROVE Leads(r)'
  <2>1. CASE r \in R
    BY <2>1
  <2>2. CASE r \notin R
    BY <2>2, Untouched DEF RouteInv
  <2> QED BY <2>1, <2>2
<1>2. X!Own' = X!Own
  BY DEF X!Own, X!Resource
<1> QED BY <1>1, <1>2 DEF RouteInv

-----------------------------------------------------------------------------
(* Exposure: environments.                                                  *)

\* Environments are no services; names and bounds.
LEMMA Basics ==
    ASSUME Assumed
    PROVE  /\ MaxPort \in Nat \ {0} /\ MaxJobs \in Nat /\ MaxFaults \in Nat
           /\ None \notin 0..MaxPort /\ None \notin Domain /\ 0 # None /\ 0 \in 0..MaxPort
           /\ Env \subseteq X!Resource /\ Project \X Service \subseteq X!Resource
           /\ \A e \in Env, p \in Project, s \in Service : e # <<p, s>>
BY DEF Assumed, X!NameAssumption, X!FileAssumption, X!LimitsAssumption, X!Resource

\* A port that is found is free.
LEMMA PlaceIsFree ==
    ASSUME Assumed, NEW want \in 0..MaxPort, NEW used, X!Free(want, used) # {}
    PROVE  /\ X!Place(want, used) \in want..MaxPort /\ X!Place(want, used) \notin used
           /\ X!Place(want, used) \in 0..MaxPort /\ (want # 0 => X!Place(want, used) # 0)
<1>1. want \in Nat /\ MaxPort \in Nat
  BY Basics
<1> DEFINE F == X!Free(want, used)
<1>2. F \in SUBSET Nat /\ F # {} /\ \A q \in F : q \in want..MaxPort /\ q \notin used
  BY <1>1 DEF X!Free
<1> HIDE DEF F
<1>3. PICK q \in F : \A o \in F : q <= o
  BY <1>2, Least
<1>4. X!Place(want, used) \in F
  BY <1>3 DEF X!Place, F
<1>5. PICK p : p = X!Place(want, used)
  OBVIOUS
<1>6. p \in want..MaxPort /\ p \notin used
  BY <1>2, <1>4, <1>5
<1>7. p \in 0..MaxPort /\ (want # 0 => p # 0)
  BY <1>1, <1>6
<1> QED BY <1>5, <1>6, <1>7

\* Jobs and faults are counted within their bounds.
LEMMA Counted ==
    ASSUME Assumed, X!TypeOK, X!Begin, X!Fault \/ UNCHANGED faults
    PROVE  jobs' \in 0..MaxJobs /\ faults' \in 0..MaxFaults
BY Basics DEF X!TypeOK, X!Begin, X!Fault

LEMMA DeployEnvKeeps ==
    ASSUME Assumed, RouteInv, NEW e \in Env, X!DeployEnv(e)
    PROVE  RouteInv'
<1> USE DEF RouteInv
<1> DEFINE old == {e} \cap envs
           used == X!UsedBy(X!Resource \ old)
<1>1. PICK want \in 0..MaxPort, external \in BOOLEAN :
        /\ X!Free(want, used) # {}
        /\ box' = [box EXCEPT ![e] = X!Place(want, used)]
        /\ \/ /\ table' = IF external /\ want # 0 /\ domain # None
                          THEN X!Put({e}, box') ELSE X!Dropped(old)
              /\ X!Answer({e}, IF external /\ want # 0 /\ domain # None THEN domain ELSE None)
              /\ left' = left \ X!Hosts(old \cup {r \in {e} : external /\ want # 0 /\ domain # None})
              /\ UNCHANGED faults
           \/ /\ external /\ X!Fault
              /\ table' = X!Dropped(old)
              /\ X!Answer({e}, None)
              /\ left' = left \ X!Hosts(old)
  BY DEF X!DeployEnv
<1>2. /\ X!Begin /\ (old = {e} \/ box[e] = None) /\ X!Runs(up \cup {e})
      /\ envs' = envs \cup {e} /\ UNCHANGED <<projects, domain, file>>
  BY DEF X!DeployEnv
<1> DEFINE port == X!Place(want, used)
           exposes == external /\ want # 0 /\ domain # None
<1>3. port \in 0..MaxPort /\ port \notin used /\ (want # 0 => port # 0)
  BY <1>1, PlaceIsFree
<1> HIDE DEF port
<1>4. PICK shown \in BOOLEAN :
        /\ shown => exposes
        /\ table' = IF shown THEN X!Put({e}, box') ELSE X!Dropped(old)
        /\ X!Answer({e}, IF shown THEN domain ELSE None)
        /\ left' = left \ X!Hosts(IF shown THEN {e} ELSE old)
        /\ X!Fault \/ UNCHANGED faults
  <2>1. {r \in {e} : exposes} = IF exposes THEN {e} ELSE {}
    OBVIOUS
  <2>2. old \cup {e} = {e} /\ old \cup {} = old
    OBVIOUS
  <2> HIDE DEF old
  <2>3. CASE exposes
    BY <1>1, <2>1, <2>2, <2>3
  <2>4. CASE ~exposes
    BY <1>1, <2>1, <2>2, <2>4
  <2> QED BY <2>3, <2>4
<1>5. /\ e \in X!Resource /\ {e} \in SUBSET X!Resource /\ old \in SUBSET X!Resource
      /\ box \in [X!Resource -> 0..MaxPort \cup {None}]
      /\ domain \in Domain \cup {None}
  BY Basics DEF X!TypeOK
<1>6. box' = [box EXCEPT ![e] = port] /\ box'[e] = port
  BY <1>1, <1>5 DEF port
<1>7. /\ table' \in [Slug \X Domain -> 0..MaxPort]
      /\ \A h \in Slug \X Domain :
            table'[h] = IF h = X!HostOf(e) /\ (shown \/ e \in envs)
                        THEN IF shown THEN port ELSE 0
                        ELSE table[h]
      /\ \A r \in X!Own, d \in Domain :
            table'[Key(r, d)] = IF r = e /\ d = domain /\ (shown \/ e \in envs)
                               THEN IF shown THEN port ELSE 0
                               ELSE table[Key(r, d)]
  <2>1. CASE shown
    <3>1. PICK b, R : b = box' /\ R = {e}
      OBVIOUS
    <3>2. R \in SUBSET X!Resource /\ (\A q \in R : b[q] \in 0..MaxPort) /\ \A r : r \in R <=> r = e
      BY <1>3, <1>5, <1>6, <3>1
    <3>3. table' = X!Put(R, b) /\ b[e] = port
      BY <1>4, <1>6, <2>1, <3>1
    <3> HIDE DEF old
    <3>4. Sets(X!Put(R, b), R, b)
      BY <3>2, PutIs
    <3>5. \A h : h \in X!Hosts(R) <=> h = X!HostOf(e)
      BY <3>2 DEF X!Hosts
    <3> QED BY <2>1, <3>2, <3>3, <3>4, <3>5 DEF Sets
  <2>2. CASE ~shown
    <3>1. table' = X!Dropped(old) /\ \A r : r \in old <=> r = e /\ e \in envs
      BY <1>4, <2>2
    <3> HIDE DEF old
    <3>2. Clears(X!Dropped(old), old)
      BY <1>5, DroppedIs
    <3>3. \A h : h \in X!Hosts(old) <=> h = X!HostOf(e) /\ e \in envs
      BY <3>1 DEF X!Hosts
    <3> QED BY <2>2, <3>1, <3>2, <3>3 DEF Clears
  <2> QED BY <2>1, <2>2
<1>8. \A h : h \in left' <=> h \in left /\ ~(h = X!HostOf(e) /\ (shown \/ e \in envs))
  <2>1. \A r : r \in (IF shown THEN {e} ELSE old) <=> r = e /\ (shown \/ e \in envs)
    OBVIOUS
  <2> HIDE DEF old
  <2>2. \A h : h \in X!Hosts(IF shown THEN {e} ELSE old) <=> h = X!HostOf(e) /\ (shown \/ e \in envs)
    BY <2>1 DEF X!Hosts
  <2> QED BY <1>4, <2>2
<1>9. /\ answered' \in [X!Resource -> Domain \cup {None}]
      /\ answered'[e] = (IF shown THEN domain ELSE None)
      /\ \A r \in X!Resource \ {e} : answered'[r] = answered[r]
  BY <1>4, <1>5 DEF X!Answer, X!TypeOK
<1>10. up' = up \cup {e} /\ \A q, r \in up \cup {e} : q # r /\ box'[q] = box'[r] => box'[q] = 0
  BY <1>2 DEF X!Runs
<1>11. X!TypeOK'
  <2>1. box' \in [X!Resource -> 0..MaxPort \cup {None}]
    BY <1>3, <1>5, <1>6
  <2>2. up' \subseteq {r \in X!Resource : box'[r] # None}
    BY <1>3, <1>5, <1>6, <1>10, Basics DEF X!TypeOK
  <2>3. left' \subseteq Slug \X (Domain \cup {None}) /\ envs' \subseteq Env
    BY <1>2, <1>4 DEF X!TypeOK
  <2>4. jobs' \in 0..MaxJobs /\ faults' \in 0..MaxFaults
    BY <1>2, <1>4, Counted
  <2> QED BY <1>2, <1>7, <1>9, <1>10, <2>1, <2>2, <2>3, <2>4 DEF X!TypeOK, X!Resource, X!Compose
<1>13. EnvsApart'
  <2>1. \A d \in Env : d # e => box'[d] = box[d]
    BY <1>5, <1>6, Basics
  <2>2. \A d \in Env \ {e} : box[d] = port => port \in {0, None}
    BY <1>3, Basics DEF X!UsedBy
  <2> QED BY <1>6, <2>1, <2>2 DEF EnvsApart
<1>14. Only({e})
  BY <1>2, <1>5, <1>6, <1>7, <1>9, <1>10, OwnIs DEF Only
<1>15. e \in X!Own => Leads(e)'
  <2>1. \A p \in Project, s \in Service : e # <<p, s>>
    BY Basics
  <2> QED BY <1>3, <1>4, <1>5, <1>6, <1>7, <1>9, <2>1 DEF Leads, Key
<1>16. ASSUME NEW h \in Slug \X Domain PROVE Homely(h)'
  <2>1. CASE h = X!HostOf(e) /\ shown
    <3>1. table'[h] = box'[e] /\ SlugOf[e] = h[1] /\ h[2] = domain'
      BY <1>2, <1>6, <1>7, <2>1 DEF X!HostOf
    <3>2. Home(e, h)'
      BY <3>1, Basics DEF Home
    <3>3. e \in X!Resource'
      BY <1>5 DEF X!Resource
    <3> QED BY <3>1, <3>2, <3>3 DEF Homely
  <2>2. CASE h = X!HostOf(e) /\ ~shown /\ e \in envs
    BY <1>7, <2>2 DEF Homely
  <2>3. CASE h = X!HostOf(e) /\ ~shown /\ e \notin envs
    <3>1. table'[h] = table[h] /\ (h \notin left' => h \notin left)
      BY <1>7, <1>8, <2>3
    <3>2. box[e] = None
      <4>1. old # {e}
        BY <2>3
      <4> QED BY <1>2, <4>1
    <3>3. table[h] \in 0..MaxPort
      BY DEF X!TypeOK
    <3>4. ASSUME NEW r \in X!Resource, Home(r, h) PROVE Home(r, h)'
      <4>1. r # e
        BY <3>2, <3>3, <3>4, Basics DEF Home
      <4>2. box'[r] = box[r] /\ (r \in up' <=> r \in up)
        BY <1>14, <4>1 DEF Only
      <4> QED BY <1>2, <3>1, <3>4, <4>2 DEF Home
    <3> QED BY <1>2, <3>1, <3>4, StaysHomely
  <2>4. CASE h # X!HostOf(e)
    <3>1. PICK R : R = {e}
      OBVIOUS
    <3>2. R \in SUBSET X!Resource /\ Only(R) /\ h \notin X!Hosts(R)
      BY <1>5, <1>14, <2>4, <3>1 DEF X!Hosts
    <3> QED BY <1>7, <1>8, <2>4, <3>2, OthersHomely
  <2> QED BY <2>1, <2>2, <2>3, <2>4
<1> QED BY <1>11, <1>13, <1>14, <1>15, <1>16, StepKeeps

\* An environment's container or row goes: its route is deleted or left behind.
LEMMA EnvGoes ==
    ASSUME Assumed, RouteInv, NEW e \in Env, X!Begin, X!Fault \/ UNCHANGED faults,
           \/ box' = [box EXCEPT ![e] = None] /\ up' = up \ {e}
           \/ UNCHANGED <<box, up>>,
           \/ table' = X!Dropped({e}) /\ left' = left \ X!Hosts({e})
           \/ table' = table /\ left' = left \cup X!Hosts({e}),
           X!Answer({e}, None), envs' \in {envs, envs \ {e}}, UNCHANGED <<projects, domain, file>>
    PROVE  RouteInv'
<1> USE DEF RouteInv
<1>1. /\ e \in X!Resource /\ box \in [X!Resource -> 0..MaxPort \cup {None}]
      /\ domain \in Domain \cup {None} /\ up \subseteq {r \in X!Resource : box[r] # None}
  BY Basics DEF X!TypeOK
<1>2. PICK R : R = {e} /\ R \in SUBSET X!Resource
  BY <1>1
<1>3. /\ table' \in [Slug \X Domain -> 0..MaxPort]
      /\ \A h \in Slug \X Domain :
            /\ h \notin X!Hosts(R) => table'[h] = table[h] /\ (h \in left' <=> h \in left)
            /\ h \in X!Hosts(R) => table'[h] = 0 \/ h \in left'
      /\ \A r \in X!Own, d \in Domain : r # e => table'[Key(r, d)] = table[Key(r, d)]
      /\ left' \subseteq Slug \X (Domain \cup {None})
  <2>2. Clears(X!Dropped(R), R)
    BY <1>2, DroppedIs
  <2>3. X!Hosts(R) \subseteq Slug \X (Domain \cup {None})
    BY <1>1, <1>2 DEF X!Hosts, X!HostOf, Assumed, X!NameAssumption
  <2>4. table \in [Slug \X Domain -> 0..MaxPort] /\ left \subseteq Slug \X (Domain \cup {None})
    BY DEF X!TypeOK
  <2>5. CASE table' = X!Dropped(R) /\ left' = left \ X!Hosts(R)
    BY <1>2, <2>2, <2>4, <2>5 DEF Clears
  <2>6. CASE table' = table /\ left' = left \cup X!Hosts(R)
    BY <2>3, <2>4, <2>6
  <2> QED BY <1>2, <2>5, <2>6
<1>4. /\ box' \in [X!Resource -> 0..MaxPort \cup {None}] /\ box'[e] \in {box[e], None}
      /\ \A r \in X!Resource \ {e} : box'[r] = box[r] /\ (r \in up' <=> r \in up)
      /\ up' \subseteq up /\ (e \in up' => box' = box)
  BY <1>1
<1>5. /\ answered' \in [X!Resource -> Domain \cup {None}] /\ answered'[e] = None
      /\ \A r \in X!Resource \ {e} : answered'[r] = answered[r]
  BY <1>1 DEF X!Answer, X!TypeOK
<1>6. X!TypeOK'
  <2>1. up' \subseteq {r \in X!Resource : box'[r] # None}
    BY <1>1, <1>4
  <2>2. \A q, r \in up' : q # r /\ box'[q] = box'[r] => box'[q] = 0
    BY <1>1, <1>4 DEF X!TypeOK
  <2>3. jobs' \in 0..MaxJobs /\ faults' \in 0..MaxFaults
    BY Counted
  <2>4. envs' \subseteq Env
    BY DEF X!TypeOK
  <2> QED BY <1>3, <1>4, <1>5, <2>1, <2>2, <2>3, <2>4 DEF X!TypeOK, X!Resource, X!Compose
<1>8. EnvsApart'
  <2>1. \A d \in Env : d # e => box'[d] = box[d]
    BY <1>4, Basics
  <2> QED BY <1>4, <2>1 DEF EnvsApart
<1>9. Only(R)
  BY <1>2, <1>3, <1>4, <1>5 DEF Only
<1>10. \A r \in R : Leads(r)'
  BY <1>2, <1>5 DEF Leads
<1>11. ASSUME NEW h \in Slug \X Domain PROVE Homely(h)'
  <2>1. CASE h \in X!Hosts(R)
    BY <1>3, <2>1 DEF Homely
  <2>2. CASE h \notin X!Hosts(R)
    BY <1>2, <1>3, <1>9, <2>2, OthersHomely
  <2> QED BY <2>1, <2>2
<1> QED BY <1>6, <1>8, <1>9, <1>10, <1>11, StepKeeps

LEMMA ReplaceFailsKeeps ==
    ASSUME Assumed, RouteInv, NEW e \in Env, X!ReplaceFails(e)
    PROVE  RouteInv'
BY EnvGoes DEF X!ReplaceFails, X!rows

LEMMA RemoveEnvKeeps ==
    ASSUME Assumed, RouteInv, NEW e \in Env, X!RemoveEnv(e)
    PROVE  RouteInv'
BY EnvGoes DEF X!RemoveEnv

\* An environment is stopped or started: its route stays.
LEMMA SwitchKeeps ==
    ASSUME Assumed, RouteInv, NEW e \in Env, X!StopEnv(e) \/ X!StartEnv(e)
    PROVE  RouteInv'
<1> USE DEF RouteInv
<1>1. /\ e \in X!Resource /\ X!Begin /\ up \subseteq {r \in X!Resource : box[r] # None}
      /\ UNCHANGED <<envs, projects, domain, box, file, table, faults, answered, left>>
      /\ up' = up \ {e} \/ (X!Runs(up \cup {e}) /\ box[e] # None)
  BY Basics DEF X!StopEnv, X!StartEnv, X!rows, X!TypeOK
<1>2. /\ \A r \in X!Resource \ {e} : r \in up' <=> r \in up
      /\ \A q, r \in up' : q # r /\ box[q] = box[r] => box[q] = 0
      /\ up' \subseteq {r \in X!Resource : box[r] # None}
  BY <1>1 DEF X!Runs, X!TypeOK
<1>3. X!TypeOK'
  <2>1. jobs' \in 0..MaxJobs /\ faults' \in 0..MaxFaults
    BY <1>1, Counted
  <2> QED BY <1>1, <1>2, <2>1 DEF X!TypeOK, X!Resource, X!Compose
<1>4. EnvsApart'
  BY <1>1 DEF EnvsApart
<1>5. Only({e})
  BY <1>1, <1>2 DEF Only
<1>6. e \in X!Own => Leads(e)'
  BY <1>1 DEF RouteInv, Leads, Key
<1>7. ASSUME NEW h \in Slug \X Domain PROVE Homely(h)'
  <2>1. ASSUME NEW r \in X!Resource, Home(r, h) PROVE Home(r, h)'
    BY <1>1, <1>2, <2>1 DEF Home
  <2> QED BY <1>1, <2>1, StaysHomely
<1> QED BY <1>3, <1>4, <1>5, <1>6, <1>7, StepKeeps

-----------------------------------------------------------------------------
(* Exposure: projects.                                                      *)

\* A step of projects only leaves environments apart.
LEMMA ProjectsKeep ==
    ASSUME Assumed, RouteInv, NEW R \in SUBSET (Project \X Service), Only(R), X!TypeOK',
           \A r \in R \cap X!Own : Leads(r)',
           \A h \in Slug \X Domain : Homely(h)'
    PROVE  RouteInv'
<1>1. \A e \in Env : e \in X!Resource /\ e \notin R
  BY Basics
<1>2. \A e \in Env : box'[e] = box[e]
  BY <1>1 DEF Only
<1>3. EnvsApart'
  BY <1>2 DEF RouteInv, EnvsApart
<1> QED BY <1>3, StepKeeps

\* The services of a project.
LEMMA AllIs ==
    ASSUME Assumed, NEW p \in Project
    PROVE  /\ X!All(p) \in SUBSET (Project \X Service) /\ X!All(p) \in SUBSET X!Resource
           /\ \A r : r \in X!All(p) <=> \E s \in Service : r = <<p, s>>
           /\ \A q \in Project, s \in Service : <<q, s>> \in X!All(p) <=> q = p
BY Basics DEF X!All

\* What a compose file makes of the ports published.
LEMMA BoxesAre ==
    ASSUME Assumed, X!TypeOK, NEW p \in Project, NEW g \in X!Compose
    PROVE  /\ X!Services(p, g) \in SUBSET X!All(p)
           /\ X!Boxes(p, g) \in [X!Resource -> 0..MaxPort \cup {None}]
           /\ \A r \in X!Resource \ X!Services(p, g) : X!Boxes(p, g)[r] = box[r]
           /\ \A s \in Service : s \in DOMAIN g =>
                  <<p, s>> \in X!Services(p, g) /\ X!Boxes(p, g)[<<p, s>>] = g[s]
           /\ \A r \in X!Services(p, g) : X!Boxes(p, g)[r] \in 0..MaxPort
<1>1. PICK D \in SUBSET Service : g \in [D -> 0..MaxPort]
  BY DEF X!Compose
<1>2. \A r : r \in X!Services(p, g) <=> \E s \in D : r = <<p, s>>
  BY <1>1 DEF X!Services
<1>3. X!Services(p, g) \in SUBSET X!All(p) /\ X!Services(p, g) \in SUBSET X!Resource
  BY <1>2, AllIs
<1>4. \A r \in X!Resource :
        X!Boxes(p, g)[r] = IF r \in X!Services(p, g) THEN g[r[2]] ELSE box[r]
  BY DEF X!Boxes
<1>5. \A s \in D : <<p, s>> \in X!Services(p, g) /\ X!Boxes(p, g)[<<p, s>>] = g[s] /\ g[s] \in 0..MaxPort
  BY <1>1, <1>2, <1>3, <1>4
<1>6. \A r \in X!Services(p, g) : X!Boxes(p, g)[r] \in 0..MaxPort
  BY <1>2, <1>5
<1>7. box \in [X!Resource -> 0..MaxPort \cup {None}]
  BY DEF X!TypeOK
<1>8. X!Boxes(p, g) \in [X!Resource -> 0..MaxPort \cup {None}]
  BY <1>4, <1>6, <1>7 DEF X!Boxes
<1> QED BY <1>1, <1>3, <1>4, <1>5, <1>6, <1>8

\* Compose files in use, and what ports are moved to.
LEMMA SettledIs ==
    ASSUME Assumed, NEW p \in Project, NEW f \in ComposeFile
    PROVE  f \in X!Compose /\ X!Empty \in X!Compose /\ X!Settled(p, f) \in SUBSET X!Compose
<1>1. f \in X!Compose
  BY DEF Assumed, X!FileAssumption
<1>2. X!Empty \in X!Compose
  <2>1. X!Empty \in [{} -> 0..MaxPort]
    BY DEF X!Empty
  <2> QED BY <2>1 DEF X!Compose
<1>3. X!Moved(p, f) \in SUBSET X!Compose
  BY <1>1 DEF X!Moved, X!Compose
<1> QED BY <1>1, <1>2, <1>3 DEF X!Settled

\* A step of a project is one of its services alone.
LEMMA ProjectTouches ==
    ASSUME Assumed, X!TypeOK, NEW p \in Project, UNCHANGED domain,
           \A r \in X!Resource \ X!All(p) :
               box'[r] = box[r] /\ answered'[r] = answered[r] /\ (r \in up' <=> r \in up),
           \A r \in X!Own \ X!All(p), d \in Domain : table'[Key(r, d)] = table[Key(r, d)],
           \A q \in Project \ {p} : file'[q] = file[q] /\ projects'[q] = projects[q]
    PROVE  Only(X!All(p))
<1>1. \A q \in Project, s \in Service : <<q, s>> \notin X!All(p) => q # p
  BY AllIs
<1> QED BY <1>1 DEF Only

\* Hostnames of services, whatever the domain.
LEMMA HostsTyped ==
    ASSUME Assumed, X!TypeOK, NEW R \in SUBSET X!Resource
    PROVE  X!Hosts(R) \subseteq Slug \X (Domain \cup {None})
BY DEF X!Hosts, X!HostOf, Assumed, X!NameAssumption, X!TypeOK

\* The services that are brought up run, and no two have a port.
LEMMA RunsTyped ==
    ASSUME Assumed, X!TypeOK, NEW p \in Project, NEW g \in X!Compose, box' = X!Boxes(p, g),
           NEW S \in SUBSET X!Services(p, g), NEW U \in SUBSET up, X!Runs(U \cup S)
    PROVE  /\ box' \in [X!Resource -> 0..MaxPort \cup {None}]
           /\ up' \subseteq {r \in X!Resource : box'[r] # None}
           /\ \A q, r \in up' : q # r /\ box'[q] = box'[r] => box'[q] = 0
           /\ \A r \in X!Resource \ X!All(p) : box'[r] = box[r]
<1>1. /\ X!Services(p, g) \in SUBSET X!All(p)
      /\ X!Boxes(p, g) \in [X!Resource -> 0..MaxPort \cup {None}]
      /\ \A r \in X!Resource \ X!Services(p, g) : X!Boxes(p, g)[r] = box[r]
      /\ \A r \in X!Services(p, g) : X!Boxes(p, g)[r] \in 0..MaxPort
  BY BoxesAre
<1>2. X!All(p) \in SUBSET X!Resource /\ None \notin 0..MaxPort
  BY AllIs, Basics
<1>3. up \subseteq {r \in X!Resource : box[r] # None}
  BY DEF X!TypeOK
<1>4. up' = U \cup S /\ \A q, r \in U \cup S : q # r /\ box'[q] = box'[r] => box'[q] = 0
  BY DEF X!Runs
<1>5. ASSUME NEW r \in U \cup S PROVE r \in X!Resource /\ box'[r] # None
  <2>1. CASE r \in X!Services(p, g)
    BY <1>1, <1>2, <2>1
  <2>2. CASE r \notin X!Services(p, g)
    BY <1>1, <1>3, <1>5, <2>2
  <2> QED BY <2>1, <2>2
<1> QED BY <1>1, <1>2, <1>4, <1>5

\* Answers withdrawn.
LEMMA Withdrawn ==
    ASSUME X!TypeOK, NEW R, X!Answer(R, None)
    PROVE  /\ answered' \in [X!Resource -> Domain \cup {None}]
           /\ \A r \in X!Resource : answered'[r] = IF r \in R THEN None ELSE answered[r]
BY DEF X!Answer, X!TypeOK

\* A project's hostnames are left behind: nothing is asked of their routes.
LEMMA BehindIsHomely ==
    ASSUME Assumed, RouteInv, NEW R \in SUBSET X!Resource, Only(R), X!Hosts(R) \subseteq left',
           \A h \in Slug \X Domain : h \notin X!Hosts(R) =>
               table'[h] = table[h] /\ (h \in left' <=> h \in left),
           NEW h \in Slug \X Domain
    PROVE  Homely(h)'
<1>1. CASE h \in X!Hosts(R)
  BY <1>1 DEF Homely
<1>2. CASE h \notin X!Hosts(R)
  BY <1>2, OthersHomely
<1> QED BY <1>1, <1>2

LEMMA DeployProjectKeeps ==
    ASSUME Assumed, RouteInv, NEW p \in Project, X!DeployProject(p)
    PROVE  RouteInv'
<1> USE DEF RouteInv
<1>1. PICK f \in ComposeFile, exposed \in SUBSET Service, external \in BOOLEAN :
      \E g \in X!Settled(p, f) :
        LET asked  == {p} \X exposed
            led == {r \in asked : external}
        IN  /\ X!Started(p, g)
            /\ ~X!Missing(asked) /\ (external => ~X!Unroutable(asked))
            /\ table' = X!Put(led, box')
            /\ projects' = [projects EXCEPT ![p] = exposed]
            /\ answered' = [r \in X!Resource |-> IF r \in led THEN domain
                                             ELSE IF r \in X!All(p) THEN None ELSE answered[r]]
            /\ left' = (left \cup X!Hosts(X!All(p))) \ X!Hosts(led \cap up')
  BY DEF X!DeployProject
<1>2. X!Begin /\ UNCHANGED <<envs, domain, faults>>
  BY DEF X!DeployProject
<1>3. PICK led, shown, b, g :
        /\ g \in X!Compose /\ led \in SUBSET ({p} \X exposed) /\ shown = led \cap up' /\ b = box' /\ X!Started(p, g)
        /\ \A r \in led : box'[r] \notin {0, None} /\ domain # None
        /\ \A q, r \in led : SlugOf[q] = SlugOf[r] => q = r
        /\ table' = X!Put(led, b)
        /\ projects' = [projects EXCEPT ![p] = exposed]
        /\ answered' = [r \in X!Resource |-> IF r \in led THEN domain
                                         ELSE IF r \in X!All(p) THEN None ELSE answered[r]]
        /\ left' = (left \cup X!Hosts(X!All(p))) \ X!Hosts(shown)
  <2>1. X!Settled(p, f) \in SUBSET X!Compose
    BY SettledIs
  <2>2. PICK g \in X!Settled(p, f) :
          /\ X!Started(p, g)
          /\ ~X!Missing({p} \X exposed) /\ (external => ~X!Unroutable({p} \X exposed))
          /\ table' = X!Put({r \in {p} \X exposed : external}, box')
          /\ projects' = [projects EXCEPT ![p] = exposed]
          /\ answered' = [r \in X!Resource |-> IF r \in {q \in {p} \X exposed : external} THEN domain
                                           ELSE IF r \in X!All(p) THEN None ELSE answered[r]]
          /\ left' = (left \cup X!Hosts(X!All(p))) \ X!Hosts({r \in {p} \X exposed : external} \cap up')
    BY <1>1
  <2>3. PICK led : led = {r \in {p} \X exposed : external}
    OBVIOUS
  <2>4. \A r \in led : box'[r] \notin {0, None} /\ domain # None
    BY <2>2, <2>3 DEF X!Missing, X!Unroutable
  <2>9. \A q, r \in led : SlugOf[q] = SlugOf[r] => q = r
    BY <2>2, <2>3, <2>4 DEF X!Missing
  <2>5. PICK shown : shown = led \cap up'
    OBVIOUS
  <2>6. /\ table' = X!Put(led, box')
        /\ answered' = [r \in X!Resource |-> IF r \in led THEN domain
                                         ELSE IF r \in X!All(p) THEN None ELSE answered[r]]
        /\ left' = (left \cup X!Hosts(X!All(p))) \ X!Hosts(shown)
    BY <2>2, <2>3, <2>5
  <2>7. led \in SUBSET ({p} \X exposed)
    BY <2>3
  <2>8. PICK b : b = box'
    OBVIOUS
  <2> QED BY <2>1, <2>2, <2>4, <2>5, <2>6, <2>7, <2>8, <2>9
<1>4. /\ led \in SUBSET X!All(p) /\ led \in SUBSET X!Resource
      /\ X!All(p) \in SUBSET X!Resource /\ X!All(p) \in SUBSET (Project \X Service)
      /\ shown \in SUBSET X!Resource
      /\ \A s \in Service : <<p, s>> \in led => s \in exposed
  BY <1>3, AllIs DEF X!All
<1>5. /\ b = X!Boxes(p, g) /\ X!Runs(up \cup X!Services(p, g)) /\ file' = [file EXCEPT ![p] = g]
  BY <1>3 DEF X!Started
<1>6. /\ box' \in [X!Resource -> 0..MaxPort \cup {None}]
      /\ up' \subseteq {r \in X!Resource : box'[r] # None}
      /\ \A q, r \in up' : q # r /\ box'[q] = box'[r] => box'[q] = 0
      /\ \A r \in X!Resource \ X!All(p) : box'[r] = box[r]
  BY <1>3, <1>5, RunsTyped
<1>7. /\ X!Services(p, g) \in SUBSET X!All(p)
      /\ \A s \in Service : s \in DOMAIN g => b[<<p, s>>] = g[s]
  BY <1>3, <1>5, BoxesAre
<1>8. Sets(table', led, b)
  <2>1. \A r \in led : b[r] \in 0..MaxPort
    BY <1>3, <1>4, <1>6
  <2>2. Sets(X!Put(led, b), led, b)
    BY <1>4, <2>1, PutIs
  <2> QED BY <1>3, <2>2
<1>9. /\ \A h : h \in X!Hosts(shown) => h \in X!Hosts(led)
      /\ \A h : h \in X!Hosts(led) => h \in X!Hosts(X!All(p))
  <2>1. shown \subseteq led /\ led \subseteq X!All(p)
    BY <1>3, <1>4
  <2> QED BY <2>1 DEF X!Hosts
<1>10. X!TypeOK'
  <2>1. left' \subseteq Slug \X (Domain \cup {None})
    BY <1>3, <1>4, HostsTyped DEF X!TypeOK
  <2>2. jobs' \in 0..MaxJobs /\ faults' \in 0..MaxFaults
    BY <1>2, Counted
  <2>3. file' \in [Project -> {None} \cup X!Compose] /\ projects' \in [Project -> {None} \cup SUBSET Service]
    BY <1>3, <1>5 DEF X!TypeOK
  <2>4. answered' \in [X!Resource -> Domain \cup {None}]
    BY <1>3 DEF X!TypeOK
  <2> QED BY <1>2, <1>6, <1>8, <2>1, <2>2, <2>3, <2>4 DEF X!TypeOK, Sets, X!Resource, X!Compose
<1>12. Only(X!All(p))
  <2>1. ASSUME NEW r \in X!Resource \ X!All(p)
        PROVE  answered'[r] = answered[r] /\ (r \in up' <=> r \in up)
    BY <1>3, <1>4, <1>5, <1>7 DEF X!Runs
  <2>2. \A q \in Project \ {p} : file'[q] = file[q] /\ projects'[q] = projects[q]
    BY <1>3, <1>5 DEF X!TypeOK
  <2>3. \A r \in X!Own \ X!All(p), d \in Domain : table'[Key(r, d)] = table[Key(r, d)]
    BY <1>4, <1>8 DEF Sets
  <2> QED BY <1>2, <1>6, <2>1, <2>2, <2>3, ProjectTouches
<1>13. ASSUME NEW r \in X!All(p) \cap X!Own PROVE Leads(r)'
  <2>1. PICK s \in Service : r = <<p, s>>
    BY AllIs
  <2>2. r \in X!Resource /\ file'[p] = g
    BY <1>4, <1>5 DEF X!TypeOK
  <2>3. CASE r \in led
    <3>1. answered'[r] = domain /\ domain \in Domain /\ table'[Key(r, domain)] = b[r] /\ b = box'
      BY <1>3, <1>8, <2>2, <2>3 DEF Sets, X!TypeOK
    <3>2. \A q \in Project, t \in Service : r = <<q, t>> => q = p /\ t = s
      BY <2>1
    <3>3. s \in DOMAIN g => g[s] = b[r]
      BY <1>7, <2>1
    <3> QED BY <2>2, <3>1, <3>2, <3>3 DEF Leads, Key
  <2>4. CASE r \notin led
    BY <1>3, <1>13, <2>2, <2>4 DEF Leads
  <2> QED BY <2>3, <2>4
<1>14. ASSUME NEW h \in Slug \X Domain PROVE Homely(h)'
  <2>1. CASE h \in X!Hosts(shown)
    <3>1. h[2] = domain /\ \E r \in shown : SlugOf[r] = h[1]
      BY <1>4, <2>1, HostsAre
    <3>2. PICK r \in shown : SlugOf[r] = h[1]
      BY <3>1
    <3>3. PICK q \in led : X!HostOf(q) = h /\ table'[h] = b[q]
      BY <1>8, <1>9, <2>1 DEF Sets
    <3>4. q = r
      BY <1>3, <3>2, <3>3 DEF X!HostOf
    <3>5. PICK s \in exposed : r = <<p, s>>
      BY <1>3, <3>2
    <3>6. projects'[p] = exposed
      BY <1>3 DEF X!TypeOK
    <3>7. Home(r, h)'
      BY <1>3, <3>2, <3>3, <3>4, <3>5, <3>6 DEF Home
    <3>8. r \in X!Resource'
      BY <1>4, <3>2 DEF X!Resource
    <3> QED BY <1>2, <3>1, <3>7, <3>8 DEF Homely
  <2>2. CASE h \in X!Hosts(X!All(p)) /\ h \notin X!Hosts(shown)
    BY <1>3, <2>2 DEF Homely
  <2>3. CASE h \notin X!Hosts(X!All(p))
    <3>1. table'[h] = table[h] /\ (h \notin left' => h \notin left)
      BY <1>3, <1>8, <1>9, <2>3 DEF Sets
    <3> QED BY <1>4, <1>12, <2>3, <3>1, OthersHomely
  <2> QED BY <1>9, <2>1, <2>2, <2>3
<1> QED BY <1>4, <1>10, <1>12, <1>13, <1>14, ProjectsKeep

LEMMA DeployProjectRefusedKeeps ==
    ASSUME Assumed, RouteInv, NEW p \in Project, X!DeployProjectRefused(p)
    PROVE  RouteInv'
<1> USE DEF RouteInv
<1>1. /\ X!Begin /\ X!Answer(X!All(p), None) /\ left' = left \cup X!Hosts(X!All(p))
      /\ UNCHANGED <<envs, projects, domain>>
  BY DEF X!DeployProjectRefused, X!rows
<1>2. PICK f \in ComposeFile, exposed \in SUBSET Service, external \in BOOLEAN :
      \E g \in X!Settled(p, f) :
        LET asked == {p} \X exposed
        IN  /\ X!Started(p, g)
            /\ \E set \in SUBSET {r \in asked : external /\ box'[r] \notin {0, None}} :
               \E kept \in SUBSET set :
                /\ X!Missing(asked) => set = {}
                /\ IF kept = {} /\ (X!Missing(asked) \/ (external /\ X!Unroutable(asked)))
                   THEN UNCHANGED faults ELSE X!Fault
                /\ table' = [h \in DOMAIN table |->
                                IF h \in X!Hosts(set \ kept) THEN 0 ELSE X!Put(kept, box')[h]]
  BY DEF X!DeployProjectRefused
<1>3. PICK g \in X!Settled(p, f) : X!Started(p, g) /\
        \E set \in SUBSET {r \in {p} \X exposed : external /\ box'[r] \notin {0, None}} :
        \E kept \in SUBSET set :
           /\ X!Fault \/ UNCHANGED faults
           /\ table' = [h \in DOMAIN table |->
                           IF h \in X!Hosts(set \ kept) THEN 0 ELSE X!Put(kept, box')[h]]
  BY <1>2
<1>4. PICK set \in SUBSET {r \in {p} \X exposed : external /\ box'[r] \notin {0, None}} :
        \E kept \in SUBSET set :
           /\ X!Fault \/ UNCHANGED faults
           /\ table' = [h \in DOMAIN table |->
                           IF h \in X!Hosts(set \ kept) THEN 0 ELSE X!Put(kept, box')[h]]
  BY <1>3
<1>5. PICK kept \in SUBSET set :
           /\ X!Fault \/ UNCHANGED faults
           /\ table' = [h \in DOMAIN table |->
                           IF h \in X!Hosts(set \ kept) THEN 0 ELSE X!Put(kept, box')[h]]
  BY <1>4
<1>6. PICK b, gone : b = box' /\ gone = set \ kept
  OBVIOUS
<1>7. /\ gone \in SUBSET X!All(p) /\ kept \in SUBSET X!All(p)
      /\ gone \in SUBSET X!Resource /\ kept \in SUBSET X!Resource
      /\ X!All(p) \in SUBSET X!Resource /\ X!All(p) \in SUBSET (Project \X Service)
      /\ \A r \in kept : b[r] # None
  BY <1>4, <1>5, <1>6, AllIs DEF X!All
<1>8. /\ g \in X!Compose /\ b = X!Boxes(p, g) /\ X!Runs(up \cup X!Services(p, g))
      /\ file' = [file EXCEPT ![p] = g]
  BY <1>3, <1>6, SettledIs DEF X!Started
<1>9. /\ box' \in [X!Resource -> 0..MaxPort \cup {None}]
      /\ up' \subseteq {r \in X!Resource : box'[r] # None}
      /\ \A q, r \in up' : q # r /\ box'[q] = box'[r] => box'[q] = 0
      /\ \A r \in X!Resource \ X!All(p) : box'[r] = box[r]
  BY <1>6, <1>8, RunsTyped
<1>10. X!Services(p, g) \in SUBSET X!All(p)
  BY <1>8, BoxesAre
<1>11. /\ table' \in [Slug \X Domain -> 0..MaxPort]
       /\ \A h \in Slug \X Domain : h \notin X!Hosts(X!All(p)) => table'[h] = table[h]
       /\ \A r \in X!Own \ X!All(p), d \in Domain : table'[Key(r, d)] = table[Key(r, d)]
  <2>1. \A r \in kept : b[r] \in 0..MaxPort
    BY <1>6, <1>7, <1>9
  <2>2. Sets(X!Put(kept, b), kept, b)
    BY <1>7, <2>1, PutIs
  <2>3. table' = [h \in Slug \X Domain |-> IF h \in X!Hosts(gone) THEN 0 ELSE X!Put(kept, b)[h]]
    BY <1>5, <1>6 DEF X!TypeOK
  <2>4. 0 \in 0..MaxPort
    BY Basics
  <2>5. \A h : h \in X!Hosts(gone) \/ h \in X!Hosts(kept) => h \in X!Hosts(X!All(p))
    BY <1>7 DEF X!Hosts
  <2>6. \A h \in Slug \X Domain : h \notin X!Hosts(X!All(p)) => table'[h] = table[h]
    BY <2>2, <2>3, <2>5 DEF Sets
  <2>7. \A r \in X!Own, d \in Domain : Key(r, d) \in Slug \X Domain
            /\ (Key(r, d) \in X!Hosts(X!All(p)) => r \in X!All(p))
    BY <1>7, KeyIs, HostsAre, OwnIs
  <2> QED BY <2>2, <2>3, <2>4, <2>6, <2>7 DEF Sets
<1>13. /\ answered' \in [X!Resource -> Domain \cup {None}]
       /\ \A r \in X!Resource : answered'[r] = IF r \in X!All(p) THEN None ELSE answered[r]
  BY <1>1, Withdrawn
<1>14. X!TypeOK'
  <2>1. left' \subseteq Slug \X (Domain \cup {None})
    BY <1>1, <1>7, HostsTyped DEF X!TypeOK
  <2>2. jobs' \in 0..MaxJobs /\ faults' \in 0..MaxFaults
    BY <1>1, <1>5, Counted
  <2>3. file' \in [Project -> {None} \cup X!Compose]
    BY <1>8 DEF X!TypeOK
  <2> QED BY <1>1, <1>9, <1>11, <1>13, <2>1, <2>2, <2>3 DEF X!TypeOK, X!Resource, X!Compose
<1>16. Only(X!All(p))
  <2>1. ASSUME NEW r \in X!Resource \ X!All(p)
        PROVE  box'[r] = box[r] /\ answered'[r] = answered[r] /\ (r \in up' <=> r \in up)
    BY <1>8, <1>9, <1>10, <1>13 DEF X!Runs
  <2>2. \A q \in Project \ {p} : file'[q] = file[q] /\ projects'[q] = projects[q]
    BY <1>1, <1>8 DEF X!TypeOK
  <2> QED BY <1>1, <1>11, <2>1, <2>2, ProjectTouches
<1>17. ASSUME NEW r \in X!All(p) \cap X!Own PROVE Leads(r)'
  BY <1>7, <1>13 DEF Leads
<1>18. ASSUME NEW h \in Slug \X Domain PROVE Homely(h)'
  BY <1>1, <1>7, <1>11, <1>16, BehindIsHomely
<1> QED BY <1>7, <1>14, <1>16, <1>17, <1>18, ProjectsKeep

LEMMA StartFailsKeeps ==
    ASSUME Assumed, RouteInv, NEW p \in Project, X!StartFails(p)
    PROVE  RouteInv'
<1> USE DEF RouteInv
<1>1. /\ X!Begin /\ X!Answer(X!All(p), None) /\ left' = left \cup X!Hosts(X!All(p))
      /\ UNCHANGED <<envs, projects, domain, table>>
  BY DEF X!StartFails, X!rows
<1>2. PICK f \in ComposeFile :
        /\ IF X!Settled(p, f) = {} THEN UNCHANGED faults ELSE X!Fault
        /\ \/ file' \in {[file EXCEPT ![p] = g] : g \in {f, X!Empty}} /\ UNCHANGED <<box, up>>
           \/ \E g \in {f} \cup X!Settled(p, f) :
                /\ file' = [file EXCEPT ![p] = g]
                /\ box' = X!Boxes(p, g)
                /\ \E S \in SUBSET X!Services(p, g) : X!Runs((up \ X!Services(p, g)) \cup S)
  BY DEF X!StartFails
<1>3. X!All(p) \in SUBSET X!Resource /\ X!All(p) \in SUBSET (Project \X Service)
  BY AllIs
<1>4. f \in X!Compose /\ X!Empty \in X!Compose /\ X!Settled(p, f) \in SUBSET X!Compose
  BY SettledIs
<1>5. /\ \E g \in X!Compose : file' = [file EXCEPT ![p] = g]
      /\ box' \in [X!Resource -> 0..MaxPort \cup {None}]
      /\ up' \subseteq {r \in X!Resource : box'[r] # None}
      /\ \A q, r \in up' : q # r /\ box'[q] = box'[r] => box'[q] = 0
      /\ \A r \in X!Resource \ X!All(p) : box'[r] = box[r] /\ (r \in up' <=> r \in up)
  <2>1. CASE file' \in {[file EXCEPT ![p] = g] : g \in {f, X!Empty}} /\ UNCHANGED <<box, up>>
    BY <1>4, <2>1 DEF X!TypeOK
  <2>2. ASSUME NEW g \in {f} \cup X!Settled(p, f), file' = [file EXCEPT ![p] = g],
               box' = X!Boxes(p, g), NEW S \in SUBSET X!Services(p, g),
               X!Runs((up \ X!Services(p, g)) \cup S)
        PROVE  /\ \E o \in X!Compose : file' = [file EXCEPT ![p] = o]
               /\ box' \in [X!Resource -> 0..MaxPort \cup {None}]
               /\ up' \subseteq {r \in X!Resource : box'[r] # None}
               /\ \A q, r \in up' : q # r /\ box'[q] = box'[r] => box'[q] = 0
               /\ \A r \in X!Resource \ X!All(p) : box'[r] = box[r] /\ (r \in up' <=> r \in up)
    <3>1. g \in X!Compose
      BY <1>4
    <3>2. PICK U \in SUBSET up : U = up \ X!Services(p, g)
      OBVIOUS
    <3>3. X!Runs(U \cup S)
      BY <2>2, <3>2
    <3>4. /\ box' \in [X!Resource -> 0..MaxPort \cup {None}]
          /\ up' \subseteq {r \in X!Resource : box'[r] # None}
          /\ \A q, r \in up' : q # r /\ box'[q] = box'[r] => box'[q] = 0
          /\ \A r \in X!Resource \ X!All(p) : box'[r] = box[r]
      BY <2>2, <3>1, <3>3, RunsTyped
    <3>5. X!Services(p, g) \in SUBSET X!All(p)
      BY <3>1, BoxesAre
    <3>6. up' = U \cup S
      BY <3>3 DEF X!Runs
    <3> QED BY <2>2, <3>1, <3>2, <3>4, <3>5, <3>6
  <2> QED BY <1>2, <2>1, <2>2
<1>7. /\ answered' \in [X!Resource -> Domain \cup {None}]
      /\ \A r \in X!Resource : answered'[r] = IF r \in X!All(p) THEN None ELSE answered[r]
  BY <1>1, Withdrawn
<1>8. X!TypeOK'
  <2>1. left' \subseteq Slug \X (Domain \cup {None})
    BY <1>1, <1>3, HostsTyped DEF X!TypeOK
  <2>2. jobs' \in 0..MaxJobs /\ faults' \in 0..MaxFaults
    BY <1>1, <1>2, Counted
  <2>3. file' \in [Project -> {None} \cup X!Compose]
    BY <1>5 DEF X!TypeOK
  <2> QED BY <1>1, <1>5, <1>7, <2>1, <2>2, <2>3 DEF X!TypeOK, X!Resource, X!Compose
<1>10. Only(X!All(p))
  <2>1. \A q \in Project \ {p} : file'[q] = file[q] /\ projects'[q] = projects[q]
    BY <1>1, <1>5 DEF X!TypeOK
  <2>2. ASSUME NEW r \in X!Resource \ X!All(p)
        PROVE  box'[r] = box[r] /\ answered'[r] = answered[r] /\ (r \in up' <=> r \in up)
    BY <1>5, <1>7
  <2> QED BY <1>1, <2>1, <2>2, ProjectTouches
<1>11. ASSUME NEW r \in X!All(p) \cap X!Own PROVE Leads(r)'
  BY <1>3, <1>7 DEF Leads
<1>12. ASSUME NEW h \in Slug \X Domain PROVE Homely(h)'
  BY <1>1, <1>3, <1>10, BehindIsHomely
<1> QED BY <1>3, <1>8, <1>10, <1>11, <1>12, ProjectsKeep

LEMMA ProjectUpKeeps ==
    ASSUME Assumed, RouteInv, NEW p \in Project, X!ProjectUp(p)
    PROVE  RouteInv'
<1> USE DEF RouteInv
<1>1. PICK g, moved : g = file[p] /\ moved = {r \in X!Services(p, g) : box[r] # box'[r]}
  OBVIOUS
<1>2. /\ X!Begin /\ g \notin {None, X!Empty} /\ box' = X!Boxes(p, g)
      /\ UNCHANGED <<envs, projects, domain, file, table, answered>>
      /\ left' = left \cup X!Hosts(moved)
  BY <1>1 DEF X!ProjectUp, X!rows
<1>3. PICK S \in SUBSET X!Services(p, g) : X!Runs((up \ moved) \cup S) /\ (X!Fault \/ UNCHANGED faults)
  BY <1>1 DEF X!ProjectUp
<1>4. g \in X!Compose
  BY <1>1, <1>2 DEF X!TypeOK
<1>5. /\ X!Services(p, g) \in SUBSET X!All(p)
      /\ \A r \in X!Resource \ X!Services(p, g) : box'[r] = box[r]
      /\ \A s \in Service : s \in DOMAIN g => box'[<<p, s>>] = g[s]
  BY <1>2, <1>4, BoxesAre
<1>6. PICK U \in SUBSET up : U = up \ moved
  OBVIOUS
<1>7. X!Runs(U \cup S)
  BY <1>3, <1>6
<1>8. /\ box' \in [X!Resource -> 0..MaxPort \cup {None}]
      /\ up' \subseteq {r \in X!Resource : box'[r] # None}
      /\ \A q, r \in up' : q # r /\ box'[q] = box'[r] => box'[q] = 0
      /\ \A r \in X!Resource \ X!All(p) : box'[r] = box[r]
  BY <1>2, <1>4, <1>7, RunsTyped
<1>9. /\ X!All(p) \in SUBSET X!Resource /\ X!All(p) \in SUBSET (Project \X Service)
      /\ moved \in SUBSET X!All(p) /\ moved \in SUBSET X!Resource
  BY <1>1, <1>5, AllIs
<1>10. up' = (up \ moved) \cup S
  BY <1>3 DEF X!Runs
<1>12. X!TypeOK'
  <2>1. left' \subseteq Slug \X (Domain \cup {None})
    BY <1>2, <1>9, HostsTyped DEF X!TypeOK
  <2>2. jobs' \in 0..MaxJobs /\ faults' \in 0..MaxFaults
    BY <1>2, <1>3, Counted
  <2> QED BY <1>2, <1>8, <2>1, <2>2 DEF X!TypeOK, X!Resource, X!Compose
<1>14. Only(X!All(p))
  <2>1. ASSUME NEW r \in X!Resource \ X!All(p)
        PROVE  box'[r] = box[r] /\ answered'[r] = answered[r] /\ (r \in up' <=> r \in up)
    BY <1>2, <1>5, <1>8, <1>9, <1>10
  <2>2. \A q \in Project \ {p} : file'[q] = file[q] /\ projects'[q] = projects[q]
    BY <1>2
  <2> QED BY <1>2, <2>1, <2>2, ProjectTouches
<1>15. ASSUME NEW r \in X!All(p) \cap X!Own PROVE Leads(r)'
  <2>1. PICK s \in Service : r = <<p, s>>
    BY AllIs
  <2>2. r \in X!Resource /\ Leads(r)
    BY <1>9
  <2> SUFFICES ASSUME answered[r] # None
               PROVE  box'[r] # None => box'[r] = table[Key(r, answered[r])]
    BY <1>2, <2>2 DEF Leads, Key
  <2>3. /\ box[r] # None => box[r] = table[Key(r, answered[r])]
        /\ s \in DOMAIN g => g[s] = table[Key(r, answered[r])]
    BY <1>1, <1>2, <2>1, <2>2 DEF Leads
  <2>4. CASE r \in X!Services(p, g)
    <3>1. s \in DOMAIN g
      BY <2>1, <2>4 DEF X!Services
    <3> QED BY <1>5, <2>1, <2>3, <3>1
  <2>5. CASE r \notin X!Services(p, g)
    BY <1>5, <2>2, <2>3, <2>5
  <2> QED BY <2>4, <2>5
<1>16. ASSUME NEW h \in Slug \X Domain PROVE Homely(h)'
  <2>1. ASSUME NEW r \in X!Resource, h \notin left', h[2] = domain, Home(r, h) PROVE Home(r, h)'
    <3>1. h \notin X!Hosts(moved)
      BY <1>2, <2>1
    <3>2. r \notin moved
      BY <1>9, <2>1, <3>1, HostsAre DEF Home
    <3>3. box'[r] = box[r] /\ (r \in up => r \in up')
      BY <1>1, <1>5, <1>10, <3>2
    <3> QED BY <1>2, <2>1, <3>3 DEF Home
  <2> QED BY <1>2, <2>1, StaysHomely
<1> QED BY <1>9, <1>12, <1>14, <1>15, <1>16, ProjectsKeep

\* The services in a project's compose file.
LEMMA ListedIs ==
    ASSUME Assumed, X!TypeOK, NEW p \in Project
    PROVE  X!Listed(p) \in SUBSET X!All(p)
<1>1. CASE file[p] = None
  BY <1>1 DEF X!Listed
<1>2. CASE file[p] # None
  <2>1. PICK g \in X!Compose : g = file[p]
    BY <1>2 DEF X!TypeOK
  <2>2. X!Services(p, g) \in SUBSET X!All(p)
    BY BoxesAre
  <2> QED BY <1>2, <2>1, <2>2 DEF X!Listed
<1> QED BY <1>1, <1>2

\* Containers that go.
LEMMA EndedIs ==
    ASSUME Assumed, X!TypeOK, NEW R, X!Ended(R)
    PROVE  /\ box' \in [X!Resource -> 0..MaxPort \cup {None}]
           /\ \A r \in X!Resource : box'[r] = IF r \in R THEN None ELSE box[r]
           /\ up' = up \ R
           /\ up' \subseteq {r \in X!Resource : box'[r] # None}
           /\ \A q, r \in up' : q # r /\ box'[q] = box'[r] => box'[q] = 0
<1>1. /\ box \in [X!Resource -> 0..MaxPort \cup {None}]
      /\ up \subseteq {r \in X!Resource : box[r] # None}
      /\ \A q, r \in up : q # r /\ box[q] = box[r] => box[q] = 0
  BY DEF X!TypeOK
<1>2. /\ box' \in [X!Resource -> 0..MaxPort \cup {None}]
      /\ \A r \in X!Resource : box'[r] = IF r \in R THEN None ELSE box[r]
      /\ up' = up \ R
  BY <1>1 DEF X!Ended
<1>3. \A r \in up' : r \in up /\ r \in X!Resource /\ box'[r] = box[r]
  BY <1>1, <1>2
<1> QED BY <1>1, <1>2, <1>3

LEMMA ProjectDownKeeps ==
    ASSUME Assumed, RouteInv, NEW p \in Project, X!ProjectDown(p)
    PROVE  RouteInv'
<1> USE DEF RouteInv
<1>1. PICK R : R = X!Listed(p)
  OBVIOUS
<1>2. /\ X!Begin /\ X!Ended(R) /\ left' = left \cup X!Hosts(R)
      /\ UNCHANGED <<envs, projects, domain, file, table, faults, answered>>
  BY <1>1 DEF X!ProjectDown, X!rows
<1>3. /\ R \in SUBSET X!All(p) /\ R \in SUBSET X!Resource
      /\ X!All(p) \in SUBSET X!Resource /\ X!All(p) \in SUBSET (Project \X Service)
  BY <1>1, AllIs, ListedIs
<1>4. /\ box' \in [X!Resource -> 0..MaxPort \cup {None}]
      /\ \A r \in X!Resource : box'[r] = IF r \in R THEN None ELSE box[r]
      /\ up' = up \ R
      /\ up' \subseteq {r \in X!Resource : box'[r] # None}
      /\ \A q, r \in up' : q # r /\ box'[q] = box'[r] => box'[q] = 0
  BY <1>2, EndedIs
<1>6. X!TypeOK'
  <2>1. left' \subseteq Slug \X (Domain \cup {None})
    BY <1>2, <1>3, HostsTyped DEF X!TypeOK
  <2>2. jobs' \in 0..MaxJobs /\ faults' \in 0..MaxFaults
    BY <1>2, Counted
  <2> QED BY <1>2, <1>4, <2>1, <2>2 DEF X!TypeOK, X!Resource, X!Compose
<1>8. Only(X!All(p))
  <2>1. ASSUME NEW r \in X!Resource \ X!All(p)
        PROVE  box'[r] = box[r] /\ answered'[r] = answered[r] /\ (r \in up' <=> r \in up)
    BY <1>2, <1>3, <1>4
  <2>2. \A q \in Project \ {p} : file'[q] = file[q] /\ projects'[q] = projects[q]
    BY <1>2
  <2> QED BY <1>2, <2>1, <2>2, ProjectTouches
<1>9. ASSUME NEW r \in X!All(p) \cap X!Own PROVE Leads(r)'
  <2>1. r \in X!Resource /\ Leads(r)
    BY <1>3
  <2> QED BY <1>2, <1>4, <2>1 DEF Leads, Key
<1>10. ASSUME NEW h \in Slug \X Domain PROVE Homely(h)'
  <2>1. ASSUME NEW r \in X!Resource, h \notin left', h[2] = domain, Home(r, h) PROVE Home(r, h)'
    <3>1. r \notin R
      BY <1>2, <1>3, <2>1, HostsAre DEF Home
    <3>2. box'[r] = box[r] /\ (r \in up => r \in up')
      BY <1>4, <3>1
    <3> QED BY <1>2, <2>1, <3>2 DEF Home
  <2> QED BY <1>2, <2>1, StaysHomely
<1> QED BY <1>3, <1>6, <1>8, <1>9, <1>10, ProjectsKeep

LEMMA RemoveProjectKeeps ==
    ASSUME Assumed, RouteInv, NEW p \in Project, X!RemoveProject(p)
    PROVE  RouteInv'
<1> USE DEF RouteInv
<1>1. /\ X!Begin /\ X!Answer(X!All(p), None) /\ projects[p] # None
      /\ projects' = [projects EXCEPT ![p] = None] /\ UNCHANGED <<envs, domain>>
  BY DEF X!RemoveProject
<1>2. PICK kept \in SUBSET ({p} \X projects[p]), removed \in BOOLEAN :
        /\ X!Fault \/ UNCHANGED faults
        /\ IF removed THEN X!Ended(X!Listed(p)) /\ file' = [file EXCEPT ![p] = None]
           ELSE UNCHANGED <<box, up, file>>
        /\ table' = X!Dropped(({p} \X projects[p]) \ kept)
        /\ left' = (left \ X!Hosts(({p} \X projects[p]) \ kept)) \cup X!Hosts(kept)
  BY DEF X!RemoveProject
<1>3. PICK gone : gone = ({p} \X projects[p]) \ kept
  OBVIOUS
<1>4. /\ kept \in SUBSET X!All(p) /\ kept \in SUBSET X!Resource
      /\ gone \in SUBSET X!All(p) /\ gone \in SUBSET X!Resource
      /\ X!All(p) \in SUBSET X!Resource /\ X!All(p) \in SUBSET (Project \X Service)
      /\ \A s \in Service : s \in projects[p] => <<p, s>> \in kept \cup gone
      /\ X!Listed(p) \in SUBSET X!All(p)
  <2>1. projects[p] \in SUBSET Service
    BY <1>1 DEF X!TypeOK
  <2> QED BY <1>2, <1>3, <2>1, AllIs, ListedIs DEF X!All
<1>5. /\ box' \in [X!Resource -> 0..MaxPort \cup {None}]
      /\ up' \subseteq {r \in X!Resource : box'[r] # None}
      /\ \A q, r \in up' : q # r /\ box'[q] = box'[r] => box'[q] = 0
      /\ \A r \in X!Resource \ X!All(p) : box'[r] = box[r] /\ (r \in up' <=> r \in up)
      /\ file' \in [Project -> {None} \cup X!Compose]
      /\ \A q \in Project \ {p} : file'[q] = file[q]
  <2>1. CASE removed
    <3>1. PICK R : R = X!Listed(p)
      OBVIOUS
    <3>2. X!Ended(R) /\ file' = [file EXCEPT ![p] = None]
      BY <1>2, <2>1, <3>1
    <3>3. /\ box' \in [X!Resource -> 0..MaxPort \cup {None}]
          /\ \A r \in X!Resource : box'[r] = IF r \in R THEN None ELSE box[r]
          /\ up' = up \ R
          /\ up' \subseteq {r \in X!Resource : box'[r] # None}
          /\ \A q, r \in up' : q # r /\ box'[q] = box'[r] => box'[q] = 0
      BY <3>2, EndedIs
    <3>4. file \in [Project -> {None} \cup X!Compose]
      BY DEF X!TypeOK
    <3> QED BY <1>4, <3>1, <3>2, <3>3, <3>4
  <2>2. CASE ~removed
    BY <1>2, <2>2 DEF X!TypeOK
  <2> QED BY <2>1, <2>2
<1>6. Clears(table', gone)
  BY <1>2, <1>3, <1>4, DroppedIs
<1>7. left' = (left \ X!Hosts(gone)) \cup X!Hosts(kept)
  BY <1>2, <1>3
<1>8. /\ answered' \in [X!Resource -> Domain \cup {None}]
      /\ \A r \in X!Resource : answered'[r] = IF r \in X!All(p) THEN None ELSE answered[r]
  BY <1>1, Withdrawn
<1>9. X!TypeOK'
  <2>1. left' \subseteq Slug \X (Domain \cup {None})
    BY <1>2, <1>4, HostsTyped DEF X!TypeOK
  <2>2. jobs' \in 0..MaxJobs /\ faults' \in 0..MaxFaults
    BY <1>1, <1>2, Counted
  <2>3. projects' \in [Project -> {None} \cup SUBSET Service]
    BY <1>1 DEF X!TypeOK
  <2> QED BY <1>1, <1>5, <1>6, <1>8, <2>1, <2>2, <2>3 DEF X!TypeOK, Clears, X!Resource, X!Compose
<1>11. Only(X!All(p))
  <2>1. ASSUME NEW r \in X!Resource \ X!All(p)
        PROVE  box'[r] = box[r] /\ answered'[r] = answered[r] /\ (r \in up' <=> r \in up)
    BY <1>5, <1>8
  <2>2. \A q \in Project \ {p} : file'[q] = file[q] /\ projects'[q] = projects[q]
    BY <1>1, <1>5 DEF X!TypeOK
  <2>3. \A r \in X!Own \ X!All(p), d \in Domain : table'[Key(r, d)] = table[Key(r, d)]
    BY <1>4, <1>6 DEF Clears
  <2> QED BY <1>1, <2>1, <2>2, <2>3, ProjectTouches
<1>12. ASSUME NEW r \in X!All(p) \cap X!Own PROVE Leads(r)'
  BY <1>4, <1>8 DEF Leads
<1>13. ASSUME NEW h \in Slug \X Domain PROVE Homely(h)'
  <2>1. CASE h \in X!Hosts(gone) \/ h \in X!Hosts(kept)
    BY <1>6, <1>7, <2>1 DEF Homely, Clears
  <2>2. CASE h \notin X!Hosts(gone) /\ h \notin X!Hosts(kept)
    <3>1. table'[h] = table[h] /\ (h \notin left' => h \notin left)
      BY <1>6, <1>7, <2>2 DEF Clears
    <3>2. ASSUME NEW r \in X!Resource, h[2] = domain, Home(r, h) PROVE Home(r, h)'
      <4>1. r \notin kept /\ r \notin gone
        BY <1>4, <2>2, <3>2, HostsAre DEF Home
      <4>2. r \notin X!All(p)
        <5>1. ASSUME NEW s \in Service, r = <<p, s>> PROVE FALSE
          BY <1>1, <1>4, <3>2, <4>1, <5>1 DEF Home
        <5> QED BY <5>1, AllIs
      <4>3. /\ box'[r] = box[r] /\ (r \in up' <=> r \in up)
            /\ \A q \in Project, s \in Service : r = <<q, s>> => projects'[q] = projects[q]
        BY <1>11, <4>2 DEF Only
      <4> QED BY <3>1, <3>2, <4>3 DEF Home
    <3> QED BY <1>1, <3>1, <3>2, StaysHomely
  <2> QED BY <2>1, <2>2
<1> QED BY <1>4, <1>9, <1>11, <1>12, <1>13, ProjectsKeep

-----------------------------------------------------------------------------
(* Exposure: labs and the host.                                             *)

\* A lab's containers, rows and routes go; one route may be left behind, and what
\* is not removed stays as it was.
LEMMA DeleteLabKeeps ==
    ASSUME Assumed, RouteInv, NEW l \in Lab, X!DeleteLab(l)
    PROVE  RouteInv'
<1> USE DEF RouteInv
<1>1. PICK E, P : /\ E = {e \in envs : LabOf[e] = l}
                  /\ P = {p \in Project : LabOf[p] = l /\ projects[p] # None}
  OBVIOUS
<1>2. PICK R : R = E \cup UNION {X!All(p) : p \in P}
  OBVIOUS
<1>3. /\ X!Begin /\ X!Answer(R, None) /\ UNCHANGED domain
      /\ \E Q \in SUBSET {p \in P : file[p] # X!Empty}, D \in SUBSET E :
            /\ X!Ended(D \cup UNION {X!Listed(p) : p \in Q})
            /\ file' = [p \in Project |-> IF p \in Q THEN None ELSE file[p]]
            /\ \/ /\ X!Fault \/ UNCHANGED faults
                  /\ table' = X!Dropped(X!Exposed(Q, D))
                  /\ left' = left \ X!Hosts(X!Exposed(Q, D))
                  /\ envs' = envs \ E
                  /\ projects' = [p \in Project |-> IF p \in P THEN None ELSE projects[p]]
               \/ \E r \in X!Exposed(Q, D) :
                  /\ X!Fault
                  /\ table' = X!Dropped(X!Exposed(Q, D) \ {r})
                  /\ left' = (left \ X!Hosts(X!Exposed(Q, D))) \cup {X!HostOf(r)}
                  /\ UNCHANGED <<envs, projects>>
  BY <1>1, <1>2 DEF X!DeleteLab
<1>4. PICK Q \in SUBSET {p \in P : file[p] # X!Empty}, D \in SUBSET E :
            /\ X!Ended(D \cup UNION {X!Listed(p) : p \in Q})
            /\ file' = [p \in Project |-> IF p \in Q THEN None ELSE file[p]]
            /\ \/ /\ X!Fault \/ UNCHANGED faults
                  /\ table' = X!Dropped(X!Exposed(Q, D))
                  /\ left' = left \ X!Hosts(X!Exposed(Q, D))
                  /\ envs' = envs \ E
                  /\ projects' = [p \in Project |-> IF p \in P THEN None ELSE projects[p]]
               \/ \E r \in X!Exposed(Q, D) :
                  /\ X!Fault
                  /\ table' = X!Dropped(X!Exposed(Q, D) \ {r})
                  /\ left' = (left \ X!Hosts(X!Exposed(Q, D))) \cup {X!HostOf(r)}
                  /\ UNCHANGED <<envs, projects>>
  BY <1>3
<1>5. PICK ended, shown, one, gone :
        /\ ended = D \cup UNION {X!Listed(p) : p \in Q} /\ shown = X!Exposed(Q, D)
        /\ one \in SUBSET shown /\ gone = shown \ one
        /\ X!Ended(ended) /\ (X!Fault \/ UNCHANGED faults)
        /\ table' = X!Dropped(gone)
        /\ left' = (left \ X!Hosts(shown)) \cup X!Hosts(one)
        /\ \/ envs' = envs \ E /\ projects' = [p \in Project |-> IF p \in P THEN None ELSE projects[p]]
           \/ UNCHANGED <<envs, projects>>
  <2>1. PICK ended, shown : ended = D \cup UNION {X!Listed(p) : p \in Q} /\ shown = X!Exposed(Q, D)
    OBVIOUS
  <2>2. CASE /\ X!Fault \/ UNCHANGED faults
             /\ table' = X!Dropped(X!Exposed(Q, D))
             /\ left' = left \ X!Hosts(X!Exposed(Q, D))
             /\ envs' = envs \ E
             /\ projects' = [p \in Project |-> IF p \in P THEN None ELSE projects[p]]
    <3>1. PICK one : one = {} /\ shown \ one = shown
      OBVIOUS
    <3>2. X!Hosts(one) = {}
      BY <3>1 DEF X!Hosts
    <3> QED BY <1>4, <2>1, <2>2, <3>1, <3>2
  <2>3. ASSUME NEW r \in X!Exposed(Q, D),
               /\ X!Fault
               /\ table' = X!Dropped(X!Exposed(Q, D) \ {r})
               /\ left' = (left \ X!Hosts(X!Exposed(Q, D))) \cup {X!HostOf(r)}
               /\ UNCHANGED <<envs, projects>>
        PROVE  \E one : /\ one \in SUBSET shown
                        /\ X!Fault /\ table' = X!Dropped(shown \ one)
                        /\ left' = (left \ X!Hosts(shown)) \cup X!Hosts(one)
                        /\ UNCHANGED <<envs, projects>>
    <3>1. PICK one : one = {r}
      OBVIOUS
    <3>2. X!Hosts(one) = {X!HostOf(r)}
      BY <3>1 DEF X!Hosts
    <3>3. one \in SUBSET shown
      BY <2>1, <2>3, <3>1
    <3>4. /\ table' = X!Dropped(shown \ one)
          /\ left' = (left \ X!Hosts(shown)) \cup X!Hosts(one)
      BY <2>1, <2>3, <3>1, <3>2
    <3> QED BY <2>3, <3>3, <3>4
  <2> QED BY <1>4, <2>1, <2>2, <2>3
<1>6. /\ E \in SUBSET Env /\ P \in SUBSET Project /\ Q \in SUBSET P /\ D \in SUBSET E
      /\ \A p \in P : projects[p] # None /\ projects[p] \in SUBSET Service
      /\ E \in SUBSET X!Resource
  BY <1>1, <1>4, Basics DEF X!TypeOK
<1>7. /\ R \in SUBSET X!Resource
      /\ \A p \in Project, s \in Service : <<p, s>> \in R <=> p \in P
      /\ \A e \in Env : e \in R <=> e \in E
      /\ \A r \in R : r \in E \/ \E p \in P, s \in Service : r = <<p, s>>
  <2>1. \A p \in P : /\ X!All(p) \in SUBSET X!Resource
                     /\ \A r : r \in X!All(p) <=> \E s \in Service : r = <<p, s>>
    BY <1>6, AllIs
  <2>2. \A e \in Env, p \in Project, s \in Service : e # <<p, s>>
    BY Basics
  <2> QED BY <1>2, <1>6, <2>1, <2>2
<1>8. \A r : r \in ended => r \in D \/ \E p \in Q, s \in Service : r = <<p, s>>
  <2>1. \A p \in Q : X!Listed(p) \in SUBSET X!All(p) /\ \A r : r \in X!All(p) <=> \E s \in Service : r = <<p, s>>
    BY <1>6, AllIs, ListedIs
  <2> QED BY <1>5, <2>1
<1>9. \A r : r \in shown <=> r \in D \/ \E p \in Q : \E s \in projects[p] : r = <<p, s>>
  BY <1>5 DEF X!Exposed
<1>10. /\ ended \subseteq R /\ shown \subseteq R /\ one \subseteq R /\ gone \subseteq R
       /\ shown \in SUBSET X!Resource /\ one \in SUBSET X!Resource /\ gone \in SUBSET X!Resource
  <2>1. \A r \in ended : r \in R
    BY <1>6, <1>7, <1>8
  <2>2. \A r \in shown : r \in R
    BY <1>6, <1>7, <1>9
  <2> QED BY <1>5, <1>7, <2>1, <2>2
<1>11. /\ box' \in [X!Resource -> 0..MaxPort \cup {None}]
       /\ \A r \in X!Resource : box'[r] = IF r \in ended THEN None ELSE box[r]
       /\ up' = up \ ended
       /\ up' \subseteq {r \in X!Resource : box'[r] # None}
       /\ \A q, r \in up' : q # r /\ box'[q] = box'[r] => box'[q] = 0
  BY <1>5, EndedIs
<1>12. Clears(table', gone)
  BY <1>5, <1>10, DroppedIs
<1>14. /\ answered' \in [X!Resource -> Domain \cup {None}]
       /\ \A r \in X!Resource : answered'[r] = IF r \in R THEN None ELSE answered[r]
  BY <1>3, Withdrawn
<1>15. X!TypeOK'
  <2>1. left' \subseteq Slug \X (Domain \cup {None})
    BY <1>5, <1>10, HostsTyped DEF X!TypeOK
  <2>2. jobs' \in 0..MaxJobs /\ faults' \in 0..MaxFaults
    BY <1>3, <1>5, Counted
  <2>3. projects' \in [Project -> {None} \cup SUBSET Service] /\ envs' \subseteq Env
    BY <1>5 DEF X!TypeOK
  <2>4. file' \in [Project -> {None} \cup X!Compose]
    BY <1>4 DEF X!TypeOK
  <2> QED BY <1>3, <1>11, <1>12, <1>14, <2>1, <2>2, <2>3, <2>4 DEF X!TypeOK, Clears, X!Resource, X!Compose
<1>17. EnvsApart'
  <2>1. \A e \in Env : box'[e] \in {box[e], None}
    BY <1>11, Basics
  <2> QED BY <2>1 DEF EnvsApart
<1>18. Only(R)
  <2>1. ASSUME NEW r \in X!Resource \ R
        PROVE  box'[r] = box[r] /\ answered'[r] = answered[r] /\ (r \in up' <=> r \in up)
    BY <1>10, <1>11, <1>14
  <2>3. \A r \in X!Own \ R, d \in Domain : table'[Key(r, d)] = table[Key(r, d)]
    BY <1>10, <1>12 DEF Clears
  <2>2. ASSUME NEW p \in Project, NEW s \in Service, <<p, s>> \notin R
        PROVE  file'[p] = file[p] /\ projects'[p] = projects[p]
    <3>1. p \notin P
      BY <1>7, <2>2
    <3> QED BY <1>4, <1>5, <1>6, <3>1
  <2> QED BY <1>3, <2>1, <2>2, <2>3 DEF Only
<1>19. ASSUME NEW r \in R \cap X!Own PROVE Leads(r)'
  BY <1>7, <1>14 DEF Leads
<1>20. ASSUME NEW h \in Slug \X Domain PROVE Homely(h)'
  <2>1. \A k : k \in X!Hosts(shown) => k \in X!Hosts(one) \/ k \in X!Hosts(gone)
    BY <1>5 DEF X!Hosts
  <2>2. CASE h \in X!Hosts(gone) \/ h \in X!Hosts(one)
    BY <1>5, <1>12, <2>2 DEF Homely, Clears
  <2>3. CASE h \notin X!Hosts(gone) /\ h \notin X!Hosts(one)
    <3>1. table'[h] = table[h] /\ (h \notin left' => h \notin left) /\ h \notin X!Hosts(shown)
      BY <1>5, <1>12, <2>1, <2>3 DEF Clears
    <3>2. ASSUME NEW r \in X!Resource, h[2] = domain, Home(r, h) PROVE Home(r, h)'
      <4>1. r \notin shown
        BY <1>10, <3>1, <3>2, HostsAre DEF Home
      <4>2. \A p \in Project, s \in Service : r = <<p, s>> /\ projects[p] # None => s \in projects[p]
        BY <3>2 DEF Home
      <4>3. r \notin ended
        BY <1>6, <1>8, <1>9, <4>1, <4>2
      <4>4. \A p \in Project : projects'[p] \in {projects[p], None}
        BY <1>5
      <4>5. box'[r] = box[r] /\ (r \in up => r \in up')
        BY <1>11, <4>3
      <4> QED BY <3>1, <3>2, <4>2, <4>4, <4>5 DEF Home
    <3> QED BY <1>3, <3>1, <3>2, StaysHomely
  <2> QED BY <2>2, <2>3
<1> QED BY <1>7, <1>15, <1>17, <1>18, <1>19, <1>20, StepKeeps

\* Routes of the domain before are left behind.
LEMMA RegisterHostKeeps ==
    ASSUME Assumed, RouteInv, X!RegisterHost
    PROVE  RouteInv'
<1> USE DEF RouteInv
<1>1. /\ X!Begin /\ domain' \in (Domain \cup {None}) \ {domain}
      /\ left' = left \cup {h \in DOMAIN table : h[2] = domain}
      /\ UNCHANGED <<envs, projects, box, up, file, table, faults, answered>>
  BY DEF X!RegisterHost, X!labhost
<1>2. DOMAIN table = Slug \X Domain
  BY DEF X!TypeOK
<1>3. X!TypeOK'
  <2>1. jobs' \in 0..MaxJobs /\ faults' \in 0..MaxFaults
    BY <1>1, Counted
  <2>2. left' \subseteq Slug \X (Domain \cup {None})
    BY <1>1, <1>2 DEF X!TypeOK
  <2> QED BY <1>1, <2>1, <2>2 DEF X!TypeOK, X!Resource, X!Compose
<1>4. EnvsApart'
  BY <1>1 DEF EnvsApart
<1>5. ASSUME NEW r \in X!Own PROVE Leads(r)'
  BY <1>1 DEF Leads, Key
<1>6. ASSUME NEW h \in Slug \X Domain PROVE Homely(h)'
  <2>1. Homely(h)
    OBVIOUS
  <2>2. h \notin left' /\ table[h] # 0 => FALSE
    BY <1>1, <1>2, <2>1 DEF Homely
  <2> QED BY <1>1, <2>2 DEF Homely
<1>7. X!Own' = X!Own
  BY DEF X!Own, X!Resource
<1> QED BY <1>3, <1>4, <1>5, <1>6, <1>7

-----------------------------------------------------------------------------
(* Exposure: what the invariant gives.                                      *)

LEMMA RouteInvInit ==
    ASSUME Assumed, X!Init
    PROVE  RouteInv
<1> USE Basics
<1>1. X!TypeOK
  BY DEF X!Init, X!TypeOK, X!Compose
<1>2. EnvsApart
  BY DEF X!Init, EnvsApart
<1>3. \A r \in X!Own : Leads(r)
  BY OwnIs DEF X!Init, Leads
<1>4. \A h \in Slug \X Domain : Homely(h)
  BY DEF X!Init, Homely
<1> QED BY <1>1, <1>2, <1>3, <1>4 DEF RouteInv

LEMMA RouteInvNext ==
    ASSUME Assumed, RouteInv, [X!Next]_(X!vars)
    PROVE  RouteInv'
<1>1. ASSUME NEW e \in Env,
             \/ X!DeployEnv(e) \/ X!ReplaceFails(e) \/ X!RemoveEnv(e)
             \/ X!StopEnv(e) \/ X!StartEnv(e)
      PROVE  RouteInv'
  BY <1>1, DeployEnvKeeps, ReplaceFailsKeeps, RemoveEnvKeeps, SwitchKeeps
<1>2. ASSUME NEW p \in Project,
             \/ X!DeployProject(p) \/ X!DeployProjectRefused(p) \/ X!StartFails(p)
             \/ X!ProjectUp(p) \/ X!ProjectDown(p) \/ X!RemoveProject(p)
      PROVE  RouteInv'
  BY <1>2, DeployProjectKeeps, DeployProjectRefusedKeeps, StartFailsKeeps, ProjectUpKeeps,
     ProjectDownKeeps, RemoveProjectKeeps
<1>3. ASSUME NEW l \in Lab, X!DeleteLab(l) PROVE RouteInv'
  BY <1>3, DeleteLabKeeps
<1>4. CASE X!RegisterHost
  BY <1>4, RegisterHostKeeps
<1>5. CASE UNCHANGED X!vars
  BY <1>5 DEF X!vars, X!rows, X!labhost, RouteInv, X!TypeOK, EnvsApart, Leads, Homely, Home, Key,
              X!Own, X!Resource, X!Compose
<1> QED BY <1>1, <1>2, <1>3, <1>4, <1>5 DEF X!Next

\* Routes, hostnames answered, ports and rows belong together in every state.
THEOREM RoutesTied ==
    ASSUME Assumed
    PROVE  X!Spec => []RouteInv
<1>1. X!Init => RouteInv
  BY RouteInvInit
<1>2. RouteInv /\ [X!Next]_(X!vars) => RouteInv'
  BY RouteInvNext
<1> QED BY <1>1, <1>2, PTL DEF X!Spec

\* Exposure!TypeOK: types, that what runs has a container, and that Docker gives a
\* port to one container at a time (docker_interface.py:690).
THEOREM ExposureTyped ==
    ASSUME Assumed
    PROVE  X!Spec => []X!TypeOK
BY RoutesTied, PTL DEF RouteInv

\* Reachable: an answered hostname that no other resource has leads to its container
\* whenever that runs (controller.py:1806), however many deployments, removals,
\* failures and changes of the host's domain there are, whoever shares one of the others.
THEOREM HostnamesReach ==
    ASSUME Assumed
    PROVE  X!Spec => []Reachable
<1>1. ASSUME RouteInv PROVE Reachable
  <2>1. \A r \in up : box[r] # None
    BY <1>1 DEF RouteInv, X!TypeOK
  <2> QED BY <1>1, <2>1 DEF RouteInv, Reachable, X!Reachable, Leads, Key
<1> QED BY <1>1, RoutesTied, PTL

\* RoutesLeadHome: a route that the code has not left behind leads to the port of a
\* container of its hostname, and to nobody else's, also where several have the
\* hostname (controller.py:1806, docker_interface.py:547).
THEOREM RoutesGoHome ==
    ASSUME Assumed
    PROVE  X!Spec => []RoutesLeadHome
<1>1. ASSUME RouteInv PROVE RoutesLeadHome
  <2>1. /\ table \in [Slug \X Domain -> 0..MaxPort]
        /\ up \subseteq {r \in X!Resource : box[r] # None}
        /\ \A q, r \in up : q # r /\ box[q] = box[r] => box[q] = 0
    BY <1>1 DEF RouteInv, X!TypeOK
  <2>2. ASSUME NEW h \in DOMAIN table \ left, table[h] # 0
        PROVE  \E q \in X!Resource :
                  SlugOf[q] = h[1] /\ box[q] = table[h] /\ (q \in Env \/ q \in up)
    BY <1>1, <2>1, <2>2 DEF RouteInv, Homely, Home
  <2>3. X!RoutesHaveBoxes
    BY <2>2 DEF X!RoutesHaveBoxes
  <2>4. X!LeadsHome
    <3> SUFFICES ASSUME NEW h \in DOMAIN table \ left, NEW r \in up,
                        table[h] # 0, box[r] = table[h], SlugOf[r] # h[1]
                 PROVE  r \notin Env /\ \A q \in up : SlugOf[q] = h[1] => box[q] # table[h]
      BY DEF X!LeadsHome
    <3>1. PICK o \in X!Resource : SlugOf[o] = h[1] /\ box[o] = table[h] /\ (o \in Env \/ o \in up)
      BY <2>2
    <3>2. o \in Env
      BY <2>1, <3>1
    <3>3. table[h] \notin {0, None}
      BY <2>1, Basics
    <3>4. r \notin Env
      BY <1>1, <3>1, <3>2, <3>3 DEF RouteInv, EnvsApart
    <3>5. ASSUME NEW q \in up, SlugOf[q] = h[1] PROVE box[q] # table[h]
      BY <2>1, <3>5
    <3> QED BY <3>4, <3>5
  <2> QED BY <2>3, <2>4 DEF RoutesLeadHome
<1> QED BY <1>1, RoutesTied, PTL
=============================================================================
