----------------------------- MODULE MCProjects -----------------------------
(* An instance of Projects for TLC. *)
EXTENDS Projects, TLC

CONSTANTS l1, r1, r2

OneLab  == {l1}
TwoRequests == {r1, r2}
AllLives   == {"persistent", "ephemeral", "single_use", "session"}

\* one request is like another
Symmetry == Permutations(TwoRequests)
=============================================================================
