---------------------------- MODULE MCReconciler ----------------------------
(* Instances of Reconciler for TLC. *)
EXTENDS Reconciler, TLC

CONSTANTS c1, c2, r1

OneContainer  == {c1}
TwoContainers == {c1, c2}
NoRequest     == {}
OneRequest    == {r1}

\* two environments without state requests, or requests for one beside a
\* second environment that is left alone
RequestsForOne ==
    calls > 0 =>
        /\ lifetime[c2] = "SESSION" /\ c2 \in rows \ elapsed
        /\ docker[c2] = Running
        /\ \A r \in Request : req[r].name # c2
=============================================================================
