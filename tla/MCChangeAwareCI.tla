-------------------------- MODULE MCChangeAwareCI --------------------------
(* An application that depends on a library, and the library on a base, with *)
(* nothing at the root; or, for the run about an empty plan, without the base *)
(* and with documentation that no module uploads.                            *)
EXTENDS ChangeAwareCI

MCDirs    == {".", "base", "lib", "app"}
EmptyDirs == {".", "lib", "app"}
MCRoot    == "."
MCPaths   == {"conf", "base/conf", "lib/conf", "app/conf"}
DocPaths  == {"conf", "lib/conf", "lib/doc", "app/conf"}
MCContents == {"x", "y"}
MCAbsent   == "absent"

\* A commit to the library is as good as one to the base, to all it tells apart.
MCEdited  == {"base/conf", "app/conf"}

MCConfigOf == [d \in Dirs |-> CASE d = "."    -> "conf"
                                [] d = "base" -> "base/conf"
                                [] d = "lib"  -> "lib/conf"
                                [] d = "app"  -> "app/conf"]

MCBelow == [d \in Dirs |-> CASE d = "."    -> Paths
                             [] d = "base" -> {"base/conf"}
                             [] d = "lib"  -> Paths \cap {"lib/conf", "lib/doc"}
                             [] d = "app"  -> {"app/conf"}]

MCDirLength == [d \in Dirs |-> IF d = "." THEN 1 ELSE 3]

MCDepsIn == [d \in Dirs |-> [c \in MCContents |->
                CASE d = "app" -> {"lib"} [] d = "lib" -> Dirs \cap {"base"} [] OTHER -> {}]]

\* Every module uploads its config alone: the library leaves its documentation
\* out.  The root has nothing but its config, which stands for its binding too.
MCContextIn == [d \in Dirs |-> [c \in MCContents |-> {MCConfigOf[d]}]]

MCChecksOf == [d \in Dirs |-> IF d = "app" THEN {"all"} ELSE {}]

Flat == [p \in Paths |-> IF p = "conf" THEN MCAbsent ELSE "x"]

\* What is unreadable while planning: nothing; the diff; what the library depends
\* on, in the middle, and the checks of the application; all of the application.
NoFault  == [deps |-> {}, srcs |-> {}, load |-> {}, diff |-> FALSE, head |-> FALSE]
Faults   == {NoFault, [NoFault EXCEPT !.diff = TRUE],
             [NoFault EXCEPT !.deps = {"lib"}, !.load = {"app"}],
             [NoFault EXCEPT !.deps = {"app"}, !.srcs = {"app"}]}
NoFaults == {NoFault}
============================================================================
