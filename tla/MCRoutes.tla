------------------------------ MODULE MCRoutes ------------------------------
(* An instance of the routes' two ends for TLC. A behaviour has the lab      *)
(* host's files and requests for them (IngressRoutes: "serial", one at a     *)
(* time on a lab host that stays up, or "overlapping"), or what the control  *)
(* plane makes of hostnames, ports and rows with routes that are one table   *)
(* (Exposure: two "environments" and a project, a project's "services" and   *)
(* an environment, or an environment and a service with one hostname, which  *)
(* is "shared"); the variables of the other stay as they begin.              *)
EXTENDS Routes, TLC

CONSTANTS t1, t2, h1, h2, u1, u2, lab, e1, e2, e3, p1, s1, s2, s3, d1

TwoThreads   == {t1, t2}
TwoUpstreams == {u1, u2}
TwoHostnames == {h1, h2}

VARIABLE mode

fileVars == vars
nameVars == <<envs, projects, domain, box, up, file, table, jobs, faults, answered, left>>

\* every environment and every service has a hostname of its own, but for e3 and s3
AllNames == {e1, e2, e3} \cup {p1} \X {s1, s2, s3}
AllSlugs == [r \in AllNames |-> IF r = <<p1, s3>> THEN e3 ELSE r]
InLab(S) == [r \in S |-> lab]
Named(S) == [r \in S |-> AllSlugs[r]]

TwoEnvNames == {e1, e2, <<p1, s1>>}
TwoEnvFiles == {s1 :> 1, s1 :> 0}

TwoEnvs == INSTANCE Exposure WITH
    Lab <- {lab}, Env <- {e1, e2}, Project <- {p1}, Service <- {s1}, LabOf <- InLab({e1, e2, p1}),
    Slug <- TwoEnvNames, SlugOf <- Named(TwoEnvNames), Domain <- {d1},
    MaxPort <- 2, File <- TwoEnvFiles, MaxJobs <- 5, MaxFaults <- 1

\* one service or two, moved or not
ServiceNames == {e1, <<p1, s1>>, <<p1, s2>>}
ServiceFiles == {s1 :> 1, s1 :> 2, s1 :> 2 @@ s2 :> 1}

OneProject == INSTANCE Exposure WITH
    Lab <- {lab}, Env <- {e1}, Project <- {p1}, Service <- {s1, s2}, LabOf <- InLab({e1, p1}),
    Slug <- ServiceNames, SlugOf <- Named(ServiceNames), Domain <- {d1},
    MaxPort <- 3, File <- ServiceFiles, MaxJobs <- 4, MaxFaults <- 1

\* an environment has the hostname of a service
SharedNames == {e1, e3, <<p1, s3>>}
SharedFiles == {s3 :> 1, s3 :> 0}

Shared == INSTANCE Exposure WITH
    Lab <- {lab}, Env <- {e1, e3}, Project <- {p1}, Service <- {s3}, LabOf <- InLab({e1, e3, p1}),
    Slug <- {e1, e3}, SlugOf <- Named(SharedNames), Domain <- {d1},
    MaxPort <- 2, File <- SharedFiles, MaxJobs <- 4, MaxFaults <- 1

OneLab       == {lab}
AllEnvs      == {e1, e2, e3}
OneOfAll     == {p1}
AllServices  == {s1, s2, s3}
AllInLab     == InLab({e1, e2, e3, p1})
OneDomain    == {d1}
AllFiles     == TwoEnvFiles \cup ServiceFiles \cup SharedFiles

ASSUME X!NameAssumption /\ X!FileAssumption /\ X!LimitsAssumption
ASSUME TwoEnvs!NameAssumption /\ TwoEnvs!FileAssumption /\ TwoEnvs!LimitsAssumption
ASSUME OneProject!NameAssumption /\ OneProject!FileAssumption /\ OneProject!LimitsAssumption
ASSUME Shared!NameAssumption /\ Shared!FileAssumption /\ Shared!LimitsAssumption

\* a domain is chosen where one matters
MCInit ==
    /\ Init
    /\ \/ mode \in {"serial", "overlapping"} /\ OneProject!Init /\ domain = None
       \/ mode = "environments" /\ TwoEnvs!Init
       \/ mode = "services" /\ OneProject!Init
       \/ mode = "shared" /\ Shared!Init

Files ==
    /\ \/ mode = "serial" /\ (Step(t1) \/ \E j \in Job : Begin(t1, j))
       \/ mode = "overlapping" /\ Next /\ calls' <= 3
          /\ \A t \in Thread : pc'[t] # "idle" => job'[t].up = u1
    /\ UNCHANGED nameVars

Names ==
    /\ \/ mode = "environments" /\ TwoEnvs!Next
       \/ mode = "services" /\ OneProject!Next
       \/ mode = "shared" /\ Shared!Next
    /\ UNCHANGED fileVars

MCNext == (Files \/ Names) /\ UNCHANGED mode

MCSpec == MCInit /\ [][MCNext]_<<mode, fileVars, nameVars>>

\* IngressRoutes!ImplementsRouteTable where it is promised: requests carried out
\* one at a time, by a lab host that is not restarted, implement the table.
SerialImplementsRouteTable ==
    /\ mode = "serial" => Serial!Init
    /\ [][mode = "serial" => [Serial!Next]_stored]_<<mode, fileVars>>
=============================================================================
