---------------------------- MODULE MCMergeLoop ----------------------------
(* A required check run and a status that is not; a repository with branch    *)
(* protection and an App, and one with neither; a fix or a push by another.   *)
EXTENDS MergeLoop

CONSTANTS build, lint, copilot, local, known, unknown, none
Both == {build, lint}
MCRepositories == {
    [checks |-> Both, required |-> {build}, native |-> TRUE, app |-> FALSE, roster |-> <<none>>],
    [checks |-> {lint}, required |-> {}, native |-> FALSE, app |-> FALSE, roster |-> <<none>>],
    [checks |-> {build}, required |-> {build}, native |-> TRUE, app |-> TRUE, roster |-> <<copilot>>],
    [checks |-> {}, required |-> {}, native |-> FALSE, app |-> TRUE, roster |-> <<copilot, unknown>>],
    [checks |-> {}, required |-> {}, native |-> TRUE, app |-> TRUE, roster |-> <<known, local, none>>]}
=============================================================================
