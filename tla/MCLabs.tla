------------------------------- MODULE MCLabs -------------------------------
(* An instance of Labs for TLC. *)
EXTENDS Labs, TLC

CONSTANTS a, r1, r2, r3

OneName  == {a}
ThreeRequests == {r1, r2, r3}

\* five requests of which three are under way and a fault, or four requests of
\* which two are under way and two faults
Sizes ==
    \/ faults <= 1
    \/ jobs <= 4 /\ Cardinality({r \in Request : pc[r] # "idle"}) <= 2

\* one request is like another
Symmetry == Permutations(Request)
=============================================================================
