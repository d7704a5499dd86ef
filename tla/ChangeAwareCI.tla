--------------------------- MODULE ChangeAwareCI ---------------------------
(***************************************************************************)
(* The planner and the workflow together, on the default branch and one    *)
(* pull request: commits change trees, each run plans its tree against its *)
(* base, its legs check the tree and save their hashes in the Actions      *)
(* cache, and the plans of later runs skip what they find there.           *)
(*                                                                         *)
(* The control of a run is Workflow's; this module adds what it runs on.   *)
(* A scope is a ref the cache keeps entries under: a run writes its own, a *)
(* push reads the default branch's and a pull request both.                *)
(***************************************************************************)
EXTENDS Planner, FiniteSets

CONSTANTS
    FirstTree,      \* the tree of the default branch when it all begins
    FaultScenarios, \* what may be unreadable while planning
    NoEvent,        \* nothing waits
    EditedPaths,    \* bound: the paths that commits change
    MaxCommits,     \* bound: the commits of a behaviour
    MaxAttempts     \* the attempts of a run

Asks == [tree : Trees, base : Trees, from : Trees, to : Trees]

ASSUME ChangeAwareAssumption ==
    /\ FirstTree \in Trees /\ EditedPaths \subseteq Paths
    /\ MaxCommits \in Nat /\ MaxAttempts \in Nat \ {0}
    /\ NoEvent \notin Asks

VARIABLES
    main,           \* the tree of the default branch
    fork, pr,       \* the trees the pull request forked from and is at
    commits,        \* how many commits were made
    tip, queued, run, \* Workflow's
    skipped,        \* [Scopes -> the legs the latest plan's memoization dropped]
    unread,         \* history: [Scopes -> the modules whose dependencies that plan could not read]
    store,          \* [Scopes -> the hashes saved in the cache]
    passes          \* history: what was checked, on which inputs, in which scope

trees == <<main, fork, pr, commits>>
memo  == <<skipped, unread, store, passes>>
vars  == <<trees, tip, queued, run, memo>>

Scopes == {"main", "pr"}
ReadScopes(s) == IF s = "main" THEN {"main"} ELSE Scopes

\* Every leg and hash there may be: a digest is of a leg, of what is global, and
\* of the files of some modules.
Files   == UNION {[S -> Contents \cup {Absent}] : S \in SUBSET Paths}
Kinds   == {"check", "module", "installed"}
Checks  == UNION {ChecksOf[d] : d \in Dirs}
Digests == [leg : Kinds \X (Dirs \cup Installed) \X SUBSET Checks, global : Files,
            modules : UNION {[C -> Files] : C \in SUBSET Dirs}]
AllLegs == [kind : Kinds, module : Dirs \cup Installed, checks : SUBSET Checks, hash : SUBSET Digests]

W == INSTANCE Workflow WITH CancelInProgress <- {"pr"}, Events <- Asks, Legs <- AllLegs

----------------------------------------------------------------------------
(* What a check computes from. *)

\* The files of every module a module reaches; the root module's checks and
\* those of an installed module read the whole workspace.
InputsOf(t, d) ==
    IF d \in Dirs \ {Root}
    THEN BlobsOf(UNION {Reads(t, e) : e \in ClosureOf(d, ConfigDeps(t)) \cap ModuleDirs(t)}, t)
    ELSE t

PassesOf(s, t, leg) ==
    {[scope |-> s, module |-> leg.module, check |-> c, inputs |-> InputsOf(t, leg.module)] :
        c \in leg.checks}

\* At first the default branch is good, and what proved it has expired.
Init ==
    /\ W!Init
    /\ main = FirstTree /\ fork = FirstTree /\ pr = FirstTree
    /\ commits = 0
    /\ skipped = [s \in Scopes |-> {}] /\ unread = [s \in Scopes |-> {}]
    /\ store = [s \in Scopes |-> {}]
    /\ passes = UNION {PassesOf("main", FirstTree, ModuleEntry(d)) : d \in ModuleDirs(FirstTree)}

----------------------------------------------------------------------------
(* Commits. *)

\* GitHub's merge of a pull request, where no path was changed on both sides.
Changed(from, to) == {p \in Paths : from[p] # to[p]}
Mergeable == Changed(fork, main) \cap Changed(fork, pr) = {}
Merge(theirs, forked, ours) == [p \in Paths |-> IF ours[p] # forked[p] THEN ours[p] ELSE theirs[p]]

\* What a run is for: the tree that is checked out, the tree it is based on, and
\* the two sides of the diff.  A pull request's is three-dot.
PushEvent(from, to) == [tree |-> to, base |-> from, from |-> from, to |-> to]
PrEvent(m, f, h) == [tree |-> Merge(m, f, h), base |-> m, from |-> f, to |-> h]

PushMain(p, c) ==
    /\ commits < MaxCommits /\ c # main[p]
    /\ main' = [main EXCEPT ![p] = c]
    /\ W!Commit("main", PushEvent(main, main'))
    /\ commits' = commits + 1
    /\ UNCHANGED <<fork, pr, memo>>

\* Without a merge there is no run: a pull request that conflicts has none.
PushPr(p, c) ==
    /\ commits < MaxCommits /\ c # pr[p]
    /\ Mergeable /\ p \notin Changed(fork, main)
    /\ pr' = [pr EXCEPT ![p] = c]
    /\ W!Commit("pr", PrEvent(main, fork, pr'))
    /\ commits' = commits + 1
    /\ UNCHANGED <<main, fork, memo>>

\* The pull request is merged on a green gate for its head, and another starts
\* from there.  The gate need not be for the default branch as it is now.
MergePr ==
    /\ run["pr"].gate = "green" /\ run["pr"].event.to = pr /\ pr # fork
    /\ Mergeable
    /\ main' = Merge(main, fork, pr)
    /\ fork' = main' /\ pr' = main'
    /\ W!Commit("main", PushEvent(main, main'))
    /\ UNCHANGED <<commits, memo>>

----------------------------------------------------------------------------
(* The run of a scope. *)

StartRun(s) == W!StartRun(s) /\ UNCHANGED <<trees, memo>>

\* plan() with the readings of scenario f failing, and what it drops on the
\* strength of known.
PlanOf(event, f, known) ==
    LET t        == event.tree
        dirs     == ModuleDirs(t)
        changes  == IF f.diff THEN {} ELSE ChangesBetween(event.from, event.to)
        closures == BuildClosures(DependencyGraph(t, {<<d, d>> : d \in f.deps}))
        srcs     == SourceContexts(t, f.srcs)
        blobs    == IF f.head THEN [p \in Paths |-> Absent] ELSE t
        ng       == NonGlobalRootPaths(Root \in dirs)
        att      == Attribute(changes, dirs, srcs)
        affected == SelectModules(dirs, closures, att)
        legs     == PlannedLegs(affected, att.global, {}, f.load) \cup InstalledLegs
        hashed   == HashLegs(legs, closures, srcs, blobs, ng)
        dropped  == IF MemoTrusted(changes, dirs, srcs, ng) THEN MemoSkipped(hashed, known) ELSE {}
    IN  [legs |-> hashed \ dropped, skipped |-> dropped]

\* What the store holds for a run.
Known(s) == UNION {store[x] : x \in ReadScopes(s)}

\* Slip: the plan reports a leg as skipped and runs it all the same.
ListJobAndSkipped(s) ==
    /\ run[s].pc = "list"
    /\ \E f \in FaultScenarios :
        LET p == PlanOf(run[s].event, f, Known(s))
        IN  /\ W!ListJob(s, p.legs \cup p.skipped)
            /\ skipped' = [skipped EXCEPT ![s] = p.skipped]
            /\ unread' = [unread EXCEPT ![s] = f.deps]
    /\ UNCHANGED <<trees, store, passes>>

\* Of the entries that would retire a leg, the listing misses those that expired,
\* were evicted or never saved, and all of them when it cannot be read.
ListJob(s) ==
    /\ run[s].pc = "list"
    /\ \E f \in FaultScenarios :
        LET p == PlanOf(run[s].event, f, Known(s))
        IN  \E missed \in SUBSET p.skipped :
                /\ W!ListJob(s, p.legs \cup missed)
                /\ skipped' = [skipped EXCEPT ![s] = p.skipped \ missed]
                /\ unread' = [unread EXCEPT ![s] = f.deps]
    /\ UNCHANGED <<trees, store, passes>>

\* A name, or the workspace's config, cannot be read.
ListJobFails(s) ==
    /\ W!ListJobFails(s)
    /\ skipped' = [skipped EXCEPT ![s] = {}] /\ unread' = [unread EXCEPT ![s] = {}]
    /\ UNCHANGED <<trees, store, passes>>

\* Slips: a pull request's entries are saved where the default branch reads
\* them; a leg that fails saves its hash.
LegPassesForAll(s, leg) ==
    /\ W!LegPasses(s, leg)
    /\ passes' = passes \cup PassesOf(s, run[s].event.tree, leg)
    /\ store' = [x \in Scopes |-> store[x] \cup leg.hash]
    /\ UNCHANGED <<trees, skipped, unread>>
LegFailsAndSaves(s, leg) ==
    /\ W!LegFails(s, leg)
    /\ store' = [store EXCEPT ![s] = @ \cup leg.hash]
    /\ UNCHANGED <<trees, skipped, unread, passes>>

\* A leg that passes saves its hash, if it has one, under the run's own ref.  A
\* save that fails, which does not fail the leg, leaves an entry no plan reads.
LegPasses(s, leg) ==
    /\ W!LegPasses(s, leg)
    /\ passes' = passes \cup PassesOf(s, run[s].event.tree, leg)
    /\ store' = [store EXCEPT ![s] = @ \cup leg.hash]
    /\ UNCHANGED <<trees, skipped, unread>>

LegFails(s, leg) == W!LegFails(s, leg) /\ UNCHANGED <<trees, memo>>

Gate(s) == W!Gate(s) /\ UNCHANGED <<trees, memo>>

Rerun(s) == W!Rerun(s) /\ UNCHANGED <<trees, memo>>

Next ==
    \/ \E p \in EditedPaths, c \in Contents : PushMain(p, c) \/ PushPr(p, c)
    \/ MergePr
    \/ \E s \in Scopes :
         \/ StartRun(s) \/ ListJob(s) \/ ListJobFails(s)
         \/ \E leg \in run[s].legs : LegPasses(s, leg) \/ LegFails(s, leg)
         \/ Gate(s) \/ Rerun(s)

Spec == Init /\ [][Next]_vars

----------------------------------------------------------------------------
(* Properties. *)

\* Trees are trees, runs and passes are of the workspace's modules, and what a
\* plan dropped is not also run.
TypeOK ==
    /\ {main, fork, pr} \subseteq Trees
    /\ commits \in 0 .. MaxCommits
    /\ \A p \in passes : p.scope \in Scopes /\ p.module \in Dirs /\ p.check \in ChecksOf[p.module]
    /\ \A s \in Scopes : run[s].pc \in {"run", "ended"} =>
        /\ {run[s].event.tree, run[s].event.base} \subseteq Trees
        /\ \A leg \in run[s].legs \cup skipped[s] :
               leg.kind = "installed" \/ leg.module \in ModuleDirs(run[s].event.tree)
        /\ skipped[s] \cap run[s].legs = {}

\* What has to have passed for a module of a tree to be good: each of its checks,
\* on just the inputs it has there.
Proven(t, d) ==
    \A c \in ChecksOf[d] : \E p \in passes : p.module = d /\ p.check = c /\ p.inputs = InputsOf(t, d)

\* What d reaches in a tree is known to a plan that cannot read the dependencies of
\* missing: all it depends on is read.  If its own are not, it is selected and has
\* no hash.
ReadThrough(t, d, missing) == missing \cap (ClosureOf(d, ConfigDeps(t)) \ {d}) = {}

\* The gate is the one status a merge needs.  A green one means that every check
\* of the tree the run was for has passed on just the inputs it has there, in
\* this run or an earlier one, provided that was so of the tree it is based on:
\* what the plan left out, what the store retired, what failed and was run
\* again add up to nothing that was never checked.  A module that depends on one
\* this plan could not read is excepted (workspace.go:241-245), but earlier plans
\* may have read as little as they liked.
GreenMeansProven ==
    \A s \in Scopes : run[s].gate = "green" =>
        \A d \in ModuleDirs(run[s].event.tree) :
            /\ ReadThrough(run[s].event.tree, d, unread[s])
            /\ d \in ModuleDirs(run[s].event.base) => Proven(run[s].event.base, d)
            => Proven(run[s].event.tree, d)

\* README, "The trust argument": a run on the default branch skips only what the
\* default branch proved, and a pull request what it or the default branch did:
\* every check of a skipped leg passed on the same inputs in a scope that the
\* run was told to trust, however many runs, reruns and cancelled runs ago, and
\* whatever those could not read.
SkippedIsProvenInTrustedScope ==
    \A s \in Scopes : run[s].pc \in {"run", "ended"} =>
        \A leg \in skipped[s] : ReadThrough(run[s].event.tree, leg.module, unread[s]) =>
            \A c \in leg.checks : \E p \in passes :
                /\ p.scope \in ReadScopes(s)
                /\ p.module = leg.module /\ p.check = c
                /\ p.inputs = InputsOf(run[s].event.tree, leg.module)

\* The gate: "an all-skipped run is treated as success -- it means every planned
\* leg was already proven" (change-aware-ci.yml:504).
AllSkippedIsNotRed ==
    \A s \in Scopes : run[s].pc = "ended" /\ run[s].legs = {} /\ skipped[s] # {} => run[s].gate # "red"
============================================================================
