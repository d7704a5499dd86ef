------------------------------ MODULE Planner ------------------------------
(***************************************************************************)
(* The rules of daggerverse/workspace-ci: how a change becomes the legs of *)
(* a CI plan.  They are the pure part of the module (package planner, and  *)
(* the parts of workspace.go that feed it), stated over plain data:        *)
(*                                                                         *)
(*   - a tree is the content of every path, Absent where it has none;      *)
(*   - a directory is a module of a tree when its config file is there,    *)
(*     and what it depends on and which paths it uploads are read from     *)
(*     that config file's content;                                         *)
(*   - a digest is the value it digests: the code feeds every field        *)
(*     length-prefixed, so that two inputs agree only when their fields    *)
(*     do, and two SHA-256 sums are taken to be equal only then.           *)
(*                                                                         *)
(* "" and nil are the empty set here: an owner and a hash are sets of at   *)
(* most one element.                                                       *)
(***************************************************************************)
EXTENDS Naturals

CONSTANTS
    Dirs,           \* the directories that may hold a module
    Root,           \* planner.RootModule, the directory "."
    Paths,          \* the paths git may track
    Contents,       \* what a path may hold
    Absent,         \* the content of a path that is not in a tree
    ConfigOf,       \* [Dirs -> Paths]: the config file that makes a directory a module
    Below,          \* [Dirs -> SUBSET Paths]: the paths under a directory, on a segment boundary
    DirLength,      \* [Dirs -> Nat]: the length of a directory's name
    DepsIn,         \* [Dirs -> [Contents -> SUBSET Dirs]]: the local dependencies a config names
    ContextIn,      \* [Dirs -> [Contents -> SUBSET Paths]]: the paths a config uploads
    ChecksOf,       \* [Dirs -> set of checks]: the checks a module declares
    Installed,      \* the modules dagger.toml installs from outside the repository
    GlobalPaths,    \* the paths that have one of globalPaths as a prefix
    CoreBinding     \* the root module's generated core binding

ASSUME LayoutAssumption ==
    /\ Root \in Dirs
    /\ Absent \notin Contents
    /\ ConfigOf \in [Dirs -> Paths]
    /\ Below \in [Dirs -> SUBSET Paths]
    /\ Below[Root] = Paths
    /\ DirLength \in [Dirs -> Nat \ {0}]
    /\ DirLength[Root] = 1
    /\ DepsIn \in [Dirs -> [Contents -> SUBSET Dirs]]
    /\ ContextIn \in [Dirs -> [Contents -> SUBSET Paths]]
    /\ GlobalPaths \subseteq Paths
    /\ CoreBinding \in Paths

\* What is under a directory is under those it is in, whose names are shorter;
\* "." alone may be as short as a name in it.
ASSUME NestingAssumption ==
    \A d, e \in Dirs :
        /\ ConfigOf[d] \in Below[d]
        /\ ConfigOf[d] \in Below[e] => Below[d] \subseteq Below[e]
        /\ Below[d] \cap Below[e] # {} => Below[d] \subseteq Below[e] \/ Below[e] \subseteq Below[d]
        /\ d # e /\ Below[d] \subseteq Below[e] => e = Root \/ DirLength[d] > DirLength[e]

\* A module uploads its own config file, reaches only paths below itself, and
\* takes no file of a directory in it without the config that is there.
ASSUME ContextAssumption ==
    \A d \in Dirs, c \in Contents :
        /\ ConfigOf[d] \in ContextIn[d][c]
        /\ ContextIn[d][c] \subseteq Below[d]
        /\ \A e \in Dirs : Below[e] \subseteq Below[d] /\ ContextIn[d][c] \cap Below[e] # {}
                              => ConfigOf[e] \in ContextIn[d][c]

Trees == [Paths -> Contents \cup {Absent}]

----------------------------------------------------------------------------
(* What is read off a checkout. *)

\* discoverModules: every directory whose config file is in the tree.
ModuleDirs(t) == {d \in Dirs : t[ConfigOf[d]] # Absent}

\* closureOf: the directories reachable from dir.  A directory outside the
\* graph contributes itself alone.
Closed(S, adj) == \A d \in S \cap DOMAIN adj : adj[d] \subseteq S
ClosureOf(dir, adj) ==
    LET supersets == {S \in SUBSET Dirs : dir \in S /\ Closed(S, adj)}
    IN  {d \in Dirs : \A S \in supersets : d \in S}

BuildClosures(adj) == [d \in DOMAIN adj |-> ClosureOf(d, adj)]

\* Dependencies: what the config names.  The engine resolves them recursively,
\* and fails on a module that reaches a directory without a config.
ConfigDeps(t) == [d \in ModuleDirs(t) |-> DepsIn[d][t[ConfigOf[d]]]]
Resolves(t, d) == ClosureOf(d, ConfigDeps(t)) \subseteq ModuleDirs(t)

\* contextFiles: the files of the tree that the config uploads.
ContextFiles(t, d) == {p \in ContextIn[d][t[ConfigOf[d]]] : t[p] # Absent}

\* The readings of dependencyGraph: a module's list of dependencies, and each of
\* those for its kind.
GraphReadings(t) == UNION {{d} \X ({d} \cup ConfigDeps(t)[d]) : d \in ModuleDirs(t)}

\* dependencyGraph: a module whose list cannot be read is left out; a dependency
\* whose kind cannot be is dropped from the list, and the module stays in.
DependencyGraph(t, unread) ==
    [d \in {m \in ModuleDirs(t) : Resolves(t, m) /\ <<m, m>> \notin unread} |->
        {e \in ConfigDeps(t)[d] : <<d, e>> \notin unread}]

\* resolveSources: a module whose context cannot be read has no entry.
SourceContexts(t, unreadable) ==
    [d \in ModuleDirs(t) \ unreadable |-> ContextFiles(t, d)]

\* What a module is compiled from, for the properties: the files it uploads that
\* are in no module nested in it.  A nested module never compiles into its parent.
Reads(t, d) ==
    {p \in ContextFiles(t, d) :
        \A e \in ModuleDirs(t) : p \in Below[e] => Below[d] \subseteq Below[e]}

\* gitdiff.Changes: a path is deleted when the head tree does not hold it.
ChangesBetween(from, head) ==
    {[path |-> p, deleted |-> head[p] = Absent] : p \in {q \in Paths : from[q] # head[q]}}

----------------------------------------------------------------------------
(* attribute.go: which modules a change reaches. *)

\* OwningModule: the longest directory wins, and the strict comparison leaves
\* "." in place against a directory with a name of one character.
Outranks(d, e) ==
    \/ DirLength[d] > DirLength[e]
    \/ DirLength[d] = DirLength[e] /\ d = Root
OwningModule(p, dirs) ==
    LET candidates == {d \in dirs : p \in Below[d]}
    IN  {d \in candidates : \A e \in candidates \ {d} : Outranks(d, e)}

\* Slips: a deleted path is looked up like any other; an unread context is
\* taken to be empty.
IsInputAtHead(c, d, srcs) == d \in DOMAIN srcs => c.path \in srcs[d]
IsInputIfRead(c, d, srcs) == d \in DOMAIN srcs /\ (c.path \in srcs[d] \/ c.deleted)

\* isInput: a path of the context, a deleted path, or any path of a module whose
\* context could not be read.
IsInput(c, d, srcs) == d \in DOMAIN srcs => c.path \in srcs[d] \/ c.deleted

\* A change that forces everything to run.
IsGlobal(c, dirs, srcs) ==
    \/ c.path \in GlobalPaths
    \/ OwningModule(c.path, dirs) = {}
    \/ Root \in OwningModule(c.path, dirs) /\ IsInput(c, Root, srcs)

Attribute(changes, dirs, srcs) ==
    [global  |-> changes = {} \/ \E c \in changes : IsGlobal(c, dirs, srcs),
     changed |-> {d \in dirs : \E c \in changes :
                     d \in OwningModule(c.path, dirs) /\ IsInput(c, d, srcs)}]

\* Slip: a full plan takes the directories that may hold a module for those
\* that do.
SelectEveryDirectory(dirs, closures, attribution) ==
    IF attribution.global THEN Dirs
    ELSE {d \in dirs : d = Root \/ d \notin DOMAIN closures
                          \/ closures[d] \cap attribution.changed # {}}

\* SelectModules: everything, or the root, the unresolved, and what reaches a
\* changed module.
SelectModules(dirs, closures, attribution) ==
    IF attribution.global
    THEN dirs
    ELSE {d \in dirs : \/ d = Root
                       \/ d \notin DOMAIN closures
                       \/ closures[d] \cap attribution.changed # {}}

----------------------------------------------------------------------------
(* plan.go, workspace.go: the legs of a plan. *)

CheckEntry(d, c)   == [kind |-> "check", module |-> d, checks |-> {c}, hash |-> {}]
ModuleEntry(d)     == [kind |-> "module", module |-> d, checks |-> ChecksOf[d], hash |-> {}]
InstalledEntry(n)  == [kind |-> "installed", module |-> n, checks |-> {}, hash |-> {}]

\* Slip: a module that does not load contributes nothing.
ModuleLegsIfLoaded(dirs, unloadable) ==
    UNION {{CheckEntry(d, c) : c \in ChecksOf[d]} : d \in dirs \ unloadable}

\* legs: one leg per check, or the coarse leg of a module that does not load.
ModuleLegs(dirs, unloadable) ==
    UNION {IF d \in unloadable THEN {ModuleEntry(d)}
           ELSE {CheckEntry(d, c) : c \in ChecksOf[d]} : d \in dirs}

\* plan: the run-everything path loads no module but those named as splits.
PlannedLegs(affected, full, splits, unloadable) ==
    IF full
    THEN {ModuleEntry(d) : d \in affected \ splits}
             \cup ModuleLegs(affected \cap splits, unloadable)
    ELSE ModuleLegs(affected, unloadable)

InstalledLegs == {InstalledEntry(n) : n \in Installed}

----------------------------------------------------------------------------
(* hash.go: the input hash a pass may be recorded under. *)

\* NonGlobalRootPaths.  A root whose source subpath cannot be read is taken to
\* be rooted at ".", which names another binding.
NonGlobalRootPaths(rootSourceRead) ==
    {ConfigOf[Root]} \cup (IF rootSourceRead THEN {CoreBinding} ELSE {})

RootClosure(closures) == IF Root \in DOMAIN closures THEN closures[Root] ELSE {}

\* The paths the global hash digests.
GlobalInputs(closures, srcs, blobs, nonGlobal) ==
    {p \in GlobalPaths : blobs[p] # Absent}
        \cup UNION {srcs[d] \ nonGlobal : d \in RootClosure(closures)}

\* NewHasher: the contexts of the root's closure are all read and have blobs.
GlobalHashable(closures, srcs, blobs, nonGlobal) ==
    /\ RootClosure(closures) \subseteq DOMAIN srcs
    /\ \A p \in GlobalInputs(closures, srcs, blobs, nonGlobal) : blobs[p] # Absent

BlobsOf(S, blobs) == [p \in S |-> blobs[p]]

\* globalHash.
GlobalHash(closures, srcs, blobs, nonGlobal) ==
    BlobsOf(GlobalInputs(closures, srcs, blobs, nonGlobal), blobs)

\* moduleHash: defined when the context is read and every path has a blob.
ModuleHashable(d, srcs, blobs) ==
    d \in DOMAIN srcs /\ \A p \in srcs[d] : blobs[p] # Absent

\* Slip: the digest of a leg covers its own module and not its dependencies.
CheckHashOfModule(leg, closure, global, srcs, blobs) ==
    [leg     |-> <<leg.kind, leg.module, leg.checks>>,
     global  |-> global,
     modules |-> [d \in closure \cap {leg.module} |-> BlobsOf(srcs[d], blobs)]]

\* Check: the leg's name, the global inputs and every module of its closure.
CheckHash(leg, closure, global, srcs, blobs) ==
    [leg     |-> <<leg.kind, leg.module, leg.checks>>,
     global  |-> global,
     modules |-> [d \in closure |-> BlobsOf(srcs[d], blobs)]]

\* hash: root and installed legs, and legs with an input that cannot be read,
\* keep the empty hash.
Memoizable(leg, closures, srcs, blobs) ==
    /\ leg.kind # "installed"
    /\ leg.module # Root
    /\ leg.module \in DOMAIN closures
    /\ \A d \in closures[leg.module] : ModuleHashable(d, srcs, blobs)

HashLegs(legs, closures, srcs, blobs, nonGlobal) ==
    IF \/ \A p \in Paths : blobs[p] = Absent
       \/ ~GlobalHashable(closures, srcs, blobs, nonGlobal)
    THEN legs
    ELSE {IF Memoizable(leg, closures, srcs, blobs)
          THEN [leg EXCEPT !.hash = {CheckHash(leg, closures[leg.module],
                                        GlobalHash(closures, srcs, blobs, nonGlobal), srcs, blobs)}]
          ELSE leg : leg \in legs}

\* Slip: the hashes cover the global inputs, so every pass is trusted.
MemoAlwaysTrusted(changes, dirs, srcs, nonGlobal) == TRUE

\* MemoTrusted: Attribute again, less the changes to paths that are not global.
MemoTrusted(changes, dirs, srcs, nonGlobal) ==
    LET rest == {c \in changes : c.path \notin nonGlobal}
    IN  rest = {} \/ ~Attribute(rest, dirs, srcs).global

\* MemoFilter: the legs a recorded pass retires.
MemoSkipped(legs, known) == {leg \in legs : leg.hash \cap known # {}}
============================================================================
