--------------------------- MODULE MCEnvironments ---------------------------
(* An instance of Environments for TLC. *)
EXTENDS Environments, TLC

CONSTANTS web, Web, r1, r2

\* _safe_slug lowers the case: two names may share a slug
TwoNames == {web, Web}
OneSlug  == {"web"}
Slugs    == [e \in Env |-> "web"]
TwoRequests == {r1, r2}

\* so far there has been one name, or of the others nothing is left
OneName ==
    /\ \A e \in Env \ {web} : docker[e] = NoContainer /\ known[e] = Unknown
    /\ \A w \in rows : w.name = web
    /\ \A a \in Busy : job[a].op = "deploy" => job[a].name = web

\* three requests for two names; and for one name a fourth request, or a fault
\* beside three, or two beside two
Sizes ==
    \/ faults = 0 /\ (jobs <= 3 \/ OneName)
    \/ OneName /\ jobs + faults <= 4

\* one user's request is like another's
Symmetry == Permutations(TwoRequests)
=============================================================================
