---------------------------- MODULE MCSelection ----------------------------
(* A workspace with the shape of this repository: a root module that depends *)
(* on the planner, an application that depends on it too, and a tests module *)
(* nested in the application that depends on the application alone.          *)
EXTENDS Selection

MCDirs     == {".", "planner", "app", "app/tests", "x"}
MCRoot     == "."
MCPaths    == {"ci.yml", "conf", "main", "binding", "planner/conf", "planner/doc",
               "app/conf", "app/tests/conf", "app/tests/src", "x/conf"}
MCContents == {"x", "y"}
MCAbsent   == "absent"

MCConfigOf == [d \in MCDirs |-> CASE d = "."         -> "conf"
                                  [] d = "planner"   -> "planner/conf"
                                  [] d = "app"       -> "app/conf"
                                  [] d = "app/tests" -> "app/tests/conf"
                                  [] d = "x"         -> "x/conf"]

MCBelow == [d \in MCDirs |-> CASE d = "."         -> MCPaths
                               [] d = "planner"   -> {"planner/conf", "planner/doc"}
                               [] d = "app"       -> {"app/conf", "app/tests/conf", "app/tests/src"}
                               [] d = "app/tests" -> {"app/tests/conf", "app/tests/src"}
                               [] d = "x"         -> {"x/conf"}]

MCDirLength == [d \in MCDirs |-> CASE d = "."         -> 1
                                   [] d = "planner"   -> 7
                                   [] d = "app"       -> 3
                                   [] d = "app/tests" -> 9
                                   [] d = "x"         -> 1]
MCLongNames == [MCDirLength EXCEPT !["x"] = 2]

\* The application stops depending on the planner when its config becomes y.
MCDepsIn == [d \in MCDirs |-> [c \in MCContents |->
                CASE d = "."         -> {"planner"}
                  [] d = "planner"   -> {}
                  [] d = "app"       -> IF c = "x" THEN {"planner"} ELSE {}
                  [] d = "app/tests" -> {"app"}
                  [] d = "x"         -> {}]]

\* The planner leaves its documentation out until its config becomes y; the
\* application uploads the files of its nested tests module with its own.
MCContextIn == [d \in MCDirs |-> [c \in MCContents |->
                CASE d = "."       -> {"conf", "main", "binding"}
                  [] d = "planner" -> IF c = "x" THEN {"planner/conf"} ELSE MCBelow[d]
                  [] OTHER         -> MCBelow[d]]]

MCChecksOf == [d \in MCDirs |-> CASE d = "."         -> {"generated"}
                                  [] d = "planner"   -> {"selftest"}
                                  [] d = "app/tests" -> {"all", "slow"}
                                  [] OTHER           -> {}]

MCInstalled   == {"sdk"}
MCGlobalPaths == {"ci.yml"}
MCSplits      == {"app/tests"}

\* Everything committed, the only start of the runs that show a violation;
\* the same repository without a root module; and one whose tests directory is
\* not a module yet.
Everything == [p \in MCPaths |-> "x"]
MCFullTree  == {Everything}
MCBaseTrees == {Everything,
                [Everything EXCEPT !["conf"] = MCAbsent, !["main"] = MCAbsent,
                                   !["binding"] = MCAbsent],
                [Everything EXCEPT !["app/tests/conf"] = MCAbsent]}
============================================================================
