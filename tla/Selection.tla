----------------------------- MODULE Selection -----------------------------
(***************************************************************************)
(* One plan of daggerverse/workspace-ci, main.go plan(): the repository at *)
(* head is loaded, the change since base attributed to modules, the        *)
(* affected modules' checks enumerated, the legs hashed, and the legs a    *)
(* recorded pass proves are dropped.  One action per step of plan(); each  *)
(* reads the engine, git or the store again, and each reading may fail on  *)
(* its own.                                                                *)
(*                                                                         *)
(* Before the plan, a change is made one path at a time: what a pull       *)
(* request's commits add up to.                                            *)
(***************************************************************************)
EXTENDS Planner, FiniteSets

CONSTANTS
    BaseTrees,      \* the trees a change may start from
    Splits,         \* splitModules: the modules enumerated on a full plan
    MaxEdits,       \* bound: the paths one change touches
    MaxFaults       \* bound: the readings that fail during one plan

ASSUME SelectionAssumption ==
    /\ IsFiniteSet(Dirs) /\ BaseTrees \subseteq Trees
    /\ MaxEdits \in Nat /\ MaxFaults \in Nat

VARIABLES
    base,           \* the tree at the merge base
    head,           \* the tree that is checked out
    edits,          \* how many edits were made
    pc,             \* the step of plan() that runs next
    faults,         \* how many readings failed
    rootRead,       \* whether the root module's source subpath was read
    closures,       \* workspace.closures
    changes,        \* workspace.changes
    blobs,          \* workspace.blobs
    srcs,           \* workspace.srcs
    affected, full, \* what affected() returned
    legs,           \* the plan so far
    skipped,        \* planReport.Memoized
    store           \* whose passes the store held when it was read

repository == <<base, head, edits>>
workspace  == <<rootRead, closures, changes, blobs, srcs>>
vars == <<repository, pc, faults, workspace, affected, full, legs, skipped, store>>

dirs == ModuleDirs(head)
nonGlobal == NonGlobalRootPaths(rootRead)
NoBlobs == [p \in Paths |-> Absent]

Init ==
    /\ base \in BaseTrees
    /\ head = base
    /\ edits = 0
    /\ pc = "edit"
    /\ faults = 0
    /\ rootRead = FALSE
    /\ closures = << >> /\ changes = {} /\ blobs = NoBlobs /\ srcs = << >>
    /\ affected = {} /\ full = FALSE
    /\ legs = {} /\ skipped = {} /\ store = "unread"

\* A commit writes or deletes one path.
Edit(p, c) ==
    /\ pc = "edit" /\ edits < MaxEdits
    /\ c # head[p]
    /\ head' = [head EXCEPT ![p] = c]
    /\ edits' = edits + 1
    /\ UNCHANGED <<base, pc, faults, workspace, affected, full, legs, skipped, store>>

\* The readings in S that fail at this step.
Failing(S) == {U \in SUBSET S : faults + Cardinality(U) <= MaxFaults}
Fail(U) == faults' = faults + Cardinality(U)

\* load: discovery finds the modules; their dependencies and the root module's
\* source subpath are read, and may fail to be.  A workspace with no module is an error, never an empty plan.
Load ==
    /\ pc = "edit"
    /\ IF dirs = {}
       THEN pc' = "error" /\ UNCHANGED <<faults, rootRead, closures>>
       ELSE /\ pc' = "affected"
            /\ \E U \in Failing(GraphReadings(head)) :
                   /\ closures' = BuildClosures(DependencyGraph(head, U))
                   /\ Fail(U)
            /\ rootRead' \in {FALSE, (Root \in dirs)}
    /\ UNCHANGED <<repository, changes, blobs, srcs, affected, full, legs, skipped, store>>

\* affected: the diff and HEAD are read, and the contexts of the modules that
\* own a changed path.  Without a usable diff there are no changes.
Affected ==
    /\ pc = "affected"
    /\ changes' \in {ChangesBetween(base, head), {}}
    /\ blobs' \in {head, NoBlobs}
    /\ LET owners == UNION {OwningModule(c.path, dirs) : c \in changes'}
       IN  \E U \in Failing(owners) :
               /\ srcs' = [d \in owners \ U |-> ContextFiles(head, d)]
               /\ Fail(U)
    /\ LET attribution == Attribute(changes', dirs, srcs')
       IN  /\ affected' = SelectModules(dirs, closures, attribution)
           /\ full' = attribution.global
    /\ pc' = "legs"
    /\ UNCHANGED <<repository, rootRead, closures, legs, skipped, store>>

\* resolveNames, legs and installedLegs: a module that does not load
\* contributes its coarse leg.  A name, or the workspace's own config, that
\* cannot be read is an error.
EnumerateLegs ==
    /\ pc = "legs"
    /\ \/ /\ pc' = "error"
          /\ UNCHANGED <<legs, faults>>
       \/ /\ \E U \in Failing(affected) :
                 /\ legs' = PlannedLegs(affected, full, Splits, U) \cup InstalledLegs
                 /\ Fail(U)
          /\ pc' = "hash"
    /\ UNCHANGED <<repository, workspace, affected, full, skipped, store>>

\* hashingNeeds and resolveSources: the contexts not read yet, those that
\* failed included, are read, and every leg is stamped with its hash.
Hash ==
    /\ pc = "hash"
    /\ LET needed == UNION {closures[d] : d \in (affected \cup {Root}) \cap DOMAIN closures}
           unread == (needed \cap dirs) \ DOMAIN srcs
       IN  \E U \in Failing(unread) :
               /\ srcs' = [d \in DOMAIN srcs \cup (unread \ U) |-> ContextFiles(head, d)]
               /\ Fail(U)
    /\ legs' = HashLegs(legs, closures, srcs', blobs, nonGlobal)
    /\ pc' = "memoize"
    /\ UNCHANGED <<repository, rootRead, closures, changes, blobs, affected, full, skipped, store>>

\* What a run on a base tree, with every reading good, recorded: the hash of
\* each of its per-check and coarse legs.
Recorded == [t \in BaseTrees |->
    LET ds == ModuleDirs(t)
        all == ModuleLegs(ds, {}) \cup ModuleLegs(ds, ds)
        ng == NonGlobalRootPaths(Root \in ds)
    IN  UNION {leg.hash : leg \in HashLegs(all, BuildClosures(DependencyGraph(t, {})),
                                           SourceContexts(t, {}), t, ng)}]

\* memoize: recorded passes are honoured unless a change reaches what governs
\* recording.  The store cannot be read, holds what a run on the base recorded,
\* or what an earlier run of this same plan recorded.
Memoize ==
    /\ pc = "memoize"
    /\ store' \in {"unreadable", "base", "head"}
    /\ LET known == CASE store' = "base" -> Recorded[base]
                       [] store' = "head" -> UNION {leg.hash : leg \in legs}
                       [] OTHER -> {}
       IN  skipped' = IF MemoTrusted(changes, dirs, srcs, nonGlobal)
                      THEN MemoSkipped(legs, known) ELSE {}
    /\ legs' = legs \ skipped'
    /\ pc' = "done"
    /\ UNCHANGED <<repository, faults, workspace, affected, full>>

Next ==
    \/ \E p \in Paths, c \in Contents \cup {Absent} : Edit(p, c)
    \/ Load
    \/ Affected
    \/ EnumerateLegs
    \/ Hash
    \/ Memoize

Spec == Init /\ [][Next]_vars

----------------------------------------------------------------------------
(* Properties. *)

selected == pc = "legs"
done     == pc = "done"

\* What a module's checks compute from: of every module it reaches, what that
\* module is compiled from.
Reaches(t, d) == ClosureOf(d, DependencyGraph(t, {}))
TrueInputs(t, d) ==
    [e \in Reaches(t, d) \cap ModuleDirs(t) |-> BlobsOf(Reads(t, e), t)]
InputsChanged(d) ==
    d \notin ModuleDirs(base) \/ TrueInputs(base, d) # TrueInputs(head, d)

\* The dependencies of every module d reaches, other than its own, were read, and
\* the kind of every one of them, its own included.
DependenciesRead(d) ==
    /\ \A e \in Reaches(head, d) \ {d} : e \in DOMAIN closures
    /\ \A e \in Reaches(head, d) \cap DOMAIN closures : ConfigDeps(head)[e] \subseteq closures[e]

\* A module that d reaches is in a directory whose name is no longer than ".",
\* which the root module outranks.
Outranked(d) ==
    Root \in dirs /\ \E e \in Reaches(head, d) \ {Root} : DirLength[e] <= DirLength[Root]

\* The change made a module out of a directory that a module d reaches compiled
\* files from: what is owned by the new module is no longer owned by the old.
CarvedOut(d) ==
    d \in ModuleDirs(base) /\
    \E e \in Reaches(head, d) \cap ModuleDirs(base), n \in dirs \ ModuleDirs(base) :
        Reads(base, e) \cap Below[n] # {}

\* The state of a plan is made of directories, trees, changes and legs.
TypeOK ==
    /\ base \in Trees /\ head \in Trees /\ blobs \in Trees
    /\ edits \in 0 .. MaxEdits /\ faults \in 0 .. MaxFaults
    /\ pc \in {"edit", "affected", "legs", "hash", "memoize", "done", "error"}
    /\ rootRead \in BOOLEAN /\ full \in BOOLEAN
    /\ DOMAIN closures \subseteq dirs /\ \A d \in DOMAIN closures : closures[d] \subseteq Dirs
    /\ DOMAIN srcs \subseteq dirs /\ \A d \in DOMAIN srcs : srcs[d] \subseteq Paths
    /\ changes \subseteq [path : Paths, deleted : BOOLEAN]
    /\ affected \subseteq dirs
    /\ skipped \cap legs = {}

\* The guiding rule of package planner: a module whose inputs differ between
\* base and head is selected, whatever could not be read of the contexts, the
\* diff or HEAD.  It is stated but for a module behind which dependencies could
\* not be read, a nested module was made of files, or a name does not outrank
\* the root's.
NeverSkipsAffected ==
    selected => \A d \in dirs \ affected :
        InputsChanged(d) => ~DependenciesRead(d) \/ CarvedOut(d) \/ Outranked(d)

\* A reading that fails adds work and never removes any: with every source
\* context and the diff read, the selection is no larger (Attribute: "when we
\* cannot resolve a source context we decline to narrow").
FaultsOnlyAddWork ==
    selected => SelectModules(dirs, closures, Attribute(ChangesBetween(base, head), dirs,
                                                      SourceContexts(head, {}))) \subseteq affected

\* legs: "coarser, never fewer".  Every check of an affected module is on a leg
\* that runs or on one that a recorded pass retired, and so are the modules the
\* workspace installs, whether or not a module could be loaded.
EveryCheckHasALeg ==
    done => /\ \A d \in affected, c \in UNION {ChecksOf[e] : e \in affected} :
                  c \in ChecksOf[d] => \E leg \in legs \cup skipped :
                      leg.kind # "installed" /\ leg.module = d /\ c \in leg.checks
            /\ InstalledLegs \subseteq legs

\* A pass recorded on the base retires a leg only where the inputs of its
\* module are the same, whatever could not be read while planning.
SkipsOnlyUnchangedInputs ==
    store = "base" => \A leg \in skipped : ~InputsChanged(leg.module)

\* "a global input changed: recorded passes are ignored wholesale", those an
\* earlier run of the same change recorded included.  A global input is a path
\* that governs CI or one the root module compiles, less its config and its
\* generated binding.
GlobalChangeHonoursNoPass ==
    skipped # {} => ~\E c \in changes :
        /\ c.path \notin {ConfigOf[Root], CoreBinding}
        /\ \/ c.path \in GlobalPaths
           \/ Root \in dirs /\ c.path \in Reads(head, Root)

\* The guiding rule with nothing excepted: "never skip a check a change could
\* plausibly affect" (planner/attribute.go, package comment).
NeverSkipsAffectedAtAll ==
    selected => \A d \in dirs \ affected : ~InputsChanged(d)

\* README, "The trust argument": no recorded pass is honoured once a global
\* input changed, and the global inputs are the contexts of the root module's
\* whole dependency closure.
MachineryChangeHonoursNoPass ==
    skipped # {} => ~\E c \in changes :
        /\ c.path \notin {ConfigOf[Root], CoreBinding}
        /\ Root \in dirs /\ \E d \in Reaches(head, Root) \cap dirs : c.path \in Reads(head, d)
============================================================================
