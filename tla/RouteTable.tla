----------------------------- MODULE RouteTable -----------------------------
(***************************************************************************)
(* What the ingress endpoints of a lab host promise: one table of routes,  *)
(* which PUT /ingress/routes/{hostname} and DELETE change one entry of at  *)
(* a time.                                                                 *)
(***************************************************************************)
CONSTANTS Hostname, Upstream, NoRoute

VARIABLE table

Table    == [Hostname -> Upstream \cup {NoRoute}]
NoRoutes == [h \in Hostname |-> NoRoute]

Init == table = NoRoutes

Put(h, u) == table' = [table EXCEPT ![h] = u]
Drop(h)   == table' = [table EXCEPT ![h] = NoRoute]

Next == \E h \in Hostname : Drop(h) \/ \E u \in Upstream : Put(h, u)

Spec == Init /\ [][Next]_table
=============================================================================
