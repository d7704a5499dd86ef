----------------------------- MODULE MCRefStore -----------------------------
(* Two runs on two branches, the encoded name of one of which extends the  *)
(* other's, and the two configurations change-aware-ci.yml derives: a push   *)
(* trusts the default branch, a pull request its own scope too.              *)
EXTENDS RefStore, TLC

CONSTANTS r1, r2
MCRuns      == {r1, r2}
MCRefs      == {"main", "main2"}
MCExtending == [ref \in MCRefs |-> IF ref = "main" THEN {"main2"} ELSE {}]
MCConfigs   == {{"main"}, {"main", "main2"}}
Symmetry    == Permutations(MCRuns)
=============================================================================
