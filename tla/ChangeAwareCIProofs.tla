------------------------ MODULE ChangeAwareCIProofs ------------------------
(***************************************************************************)
(* For every workspace, any sequence of commits, merges, runs, reruns and  *)
(* cancelled runs of the default branch and a pull request, and whatever   *)
(* cannot be read, skipping loses no check, but for two exceptions; and    *)
(* a run of the composition is one of Workflow's.                          *)
(*                                                                         *)
(* A hash that is planned is the digest of some of what its module reaches *)
(* in the tree of the run, and of all of it when all of that was read      *)
(* (LegHashed).  One that is saved is of a tree on which the leg passed    *)
(* (Saved), and a digest of all that a module reaches is equal only to     *)
(* digests of the same inputs: so what is skipped was proved, however      *)
(* little was read for what was saved.  What the selection leaves out has  *)
(* the inputs it had on the base (Accounted), and what ran has passed when *)
(* the gate is green (Running).                                            *)
(***************************************************************************)
EXTENDS ChangeAwareCI, PlannerProofs

\* The two exceptions to what the selection promises: a directory with a name as
\* short as ".", and a later module made of files that a module it is in uploads
\* (other than the root, when nothing depends on that).
LongNames == \A d \in Dirs \ {Root} : DirLength[d] > DirLength[Root]
RootNeeded == \E d \in Dirs, c \in Contents : Root \in DepsIn[d][c]
NewModulesApart ==
    \A n \in Dirs : \A e \in Dirs \ {n} :
        /\ FirstTree[ConfigOf[n]] = Absent
        /\ Below[n] \subseteq Below[e]
        /\ e = Root => RootNeeded
        => \A c \in Contents : ContextIn[e][c] \cap Below[n] = {}

\* What a run is for: trees in which everything there was at first still is, and
\* a diff that tells all that the base and the tree differ in.
Asked(event) ==
    /\ event \in Asks
    /\ \A p \in Paths : FirstTree[p] # Absent => event.base[p] # Absent
    /\ \A p \in Paths : event.base[p] # event.tree[p] =>
                            event.from[p] # event.to[p] /\ event.tree[p] = event.to[p]

----------------------------------------------------------------------------
(* Digests. *)

\* The digest of a leg on a tree, over some of its modules.
Digest(leg, t, C, g) == CheckHash(leg, C, g, SourceContexts(t, {}), t)
HasDigest(h, leg, t, C) ==
    /\ leg.module \in C \ {Root} /\ C \subseteq ModuleDirs(t)
    /\ \E g : h = Digest(leg, t, C, g)

\* All that the module of a leg reaches.
Whole(leg, t) == ClosureOf(leg.module, ConfigDeps(t))

\* Trees in which what one reaches from d compiles the same have the same inputs
\* of d.
LEMMA SameInputs ==
    ASSUME NEW t \in Trees, NEW u \in Trees, NEW d \in Dirs \ {Root}, NEW C, C = ClosureOf(d, ConfigDeps(t)),
           \A e \in C : /\ e \in ModuleDirs(t) /\ e \in ModuleDirs(u)
                        /\ ConfigDeps(t)[e] = ConfigDeps(u)[e]
                        /\ Reads(t, e) = Reads(u, e) /\ \A p \in Reads(t, e) : t[p] = u[p]
    PROVE  d \in ModuleDirs(t) /\ d \in ModuleDirs(u) /\ InputsOf(t, d) = InputsOf(u, d)
<1>1. d \in ModuleDirs(t) /\ d \in ModuleDirs(u) /\ ClosureOf(d, ConfigDeps(u)) = C
    BY SameReach
<1>2. C \cap ModuleDirs(t) = C /\ C \cap ModuleDirs(u) = C
    OBVIOUS
<1> DEFINE R == UNION {Reads(t, e) : e \in C}
<1>3. R = UNION {Reads(u, e) : e \in C} /\ \A p \in R : t[p] = u[p]
    OBVIOUS
<1>4. InputsOf(t, d) = BlobsOf(R, t) /\ InputsOf(u, d) = BlobsOf(R, u)
    BY <1>1, <1>2, <1>3 DEF InputsOf
<1> HIDE DEF R
<1>5. BlobsOf(R, t) = BlobsOf(R, u)
    BY <1>3 DEF BlobsOf
<1> QED
    BY <1>1, <1>4, <1>5

\* A digest of all that a module reaches is equal only to digests of the same
\* checks, on the same inputs.
LEMMA SameDigest ==
    ASSUME NEW t \in Trees, NEW u \in Trees, NEW leg, NEW other, NEW h, NEW K,
           HasDigest(h, leg, t, Whole(leg, t)), HasDigest(h, other, u, K)
    PROVE  /\ leg.module = other.module /\ leg.checks = other.checks
           /\ InputsOf(t, leg.module) = InputsOf(u, leg.module)
<1> DEFINE d == leg.module
           C == ClosureOf(d, ConfigDeps(t))
           one == SourceContexts(t, {})
           two == SourceContexts(u, {})
<1>1. PICK g, g2 : Digest(leg, t, C, g) = Digest(other, u, K, g2)
    BY DEF HasDigest, Whole
<1>2. /\ leg.module = other.module /\ leg.checks = other.checks /\ C = K
      /\ \A e \in C : one[e] = two[e] /\ \A p \in one[e] : t[p] = u[p]
    BY <1>1, SameHash DEF Digest
<1>3. C \subseteq ModuleDirs(t) /\ C \subseteq ModuleDirs(u) /\ d \in Dirs \ {Root}
    BY <1>2 DEF HasDigest, Whole, ModuleDirs
<1>4. ASSUME NEW e \in C
      PROVE  /\ e \in ModuleDirs(t) /\ e \in ModuleDirs(u)
             /\ ConfigDeps(t)[e] = ConfigDeps(u)[e]
             /\ Reads(t, e) = Reads(u, e) /\ \A p \in Reads(t, e) : t[p] = u[p]
  <2>1. one[e] = ContextFiles(t, e) /\ two[e] = ContextFiles(u, e)
      BY <1>3 DEF SourceContexts
  <2>2. ContextFiles(t, e) = ContextFiles(u, e) /\ \A p \in ContextFiles(t, e) : t[p] = u[p]
      BY <1>2, <2>1
  <2>3. ConfigDeps(t)[e] = ConfigDeps(u)[e] /\ Reads(t, e) \subseteq Reads(u, e)
      BY <1>3, <2>2, SameReads
  <2>4. Reads(u, e) \subseteq Reads(t, e)
      BY <1>3, <2>2, SameReads
  <2>5. Reads(t, e) \subseteq ContextFiles(t, e)
      BY <1>3, ReadsTyped
  <2> QED
      BY <1>3, <2>2, <2>3, <2>4, <2>5
<1> HIDE DEF one, two
<1>5. InputsOf(t, d) = InputsOf(u, d)
    BY <1>3, <1>4, SameInputs
<1> QED
    BY <1>2, <1>5

\* A closure that was built has modules that its own reaches, and all of them
\* when what was unread is none of those.
LEMMA ReadClosures ==
    ASSUME NEW U, NEW t \in Trees
    PROVE  LET closures == BuildClosures(DependencyGraph(t, {<<x, x>> : x \in U})) IN
           \A d \in DOMAIN closures :
               /\ d \in closures[d] /\ closures[d] \subseteq ModuleDirs(t)
               /\ ReadThrough(t, d, U) => closures[d] = ClosureOf(d, ConfigDeps(t))
<1> DEFINE pairs == {<<x, x>> : x \in U}
           graph == DependencyGraph(t, pairs)
           closures == BuildClosures(graph)
<1>1. \A x, y : <<x, y>> \in pairs <=> x = y /\ x \in U
    OBVIOUS
<1> HIDE DEF pairs
<1>2. /\ DOMAIN closures = DOMAIN graph
      /\ \A d \in DOMAIN closures : /\ d \in closures[d] /\ closures[d] \subseteq ModuleDirs(t)
                                    /\ closures[d] = ClosureOf(d, graph)
    BY ClosuresTyped
<1>3. /\ \A d : d \in DOMAIN graph <=> d \in ModuleDirs(t) /\ Resolves(t, d) /\ <<d, d>> \notin pairs
      /\ \A d \in DOMAIN graph : graph[d] \subseteq Dirs
    BY GraphRead
<1>4. \A d \in DOMAIN graph : graph[d] = {e \in ConfigDeps(t)[d] : <<d, e>> \notin pairs}
    BY DEF DependencyGraph
<1> HIDE DEF graph
<1>5. /\ ModuleDirs(t) \subseteq Dirs /\ DOMAIN ConfigDeps(t) = ModuleDirs(t)
      /\ \A x \in ModuleDirs(t) : ConfigDeps(t)[x] \subseteq Dirs
    BY GraphTyped
<1>6. ASSUME NEW d \in DOMAIN graph, ReadThrough(t, d, U)
      PROVE  ClosureOf(d, graph) = ClosureOf(d, ConfigDeps(t))
  <2> DEFINE C == ClosureOf(d, ConfigDeps(t))
  <2>1. d \in ModuleDirs(t) /\ d \in Dirs /\ Resolves(t, d) /\ d \notin U
      BY <1>1, <1>3, <1>5, <1>6
  <2>2. C \subseteq ModuleDirs(t) /\ C \cap U = {}
      BY <1>6, <2>1 DEF Resolves, ReadThrough
  <2>3. \A e \in C : Resolves(t, e)
    <3>1. \A e \in C : ClosureOf(e, ConfigDeps(t)) \subseteq C
        BY <1>5, <2>1, ClosureInside
    <3> QED
        BY <2>2, <3>1 DEF Resolves
  <2> HIDE DEF C
  <2>4. ASSUME NEW e \in C
        PROVE  /\ e \in DOMAIN ConfigDeps(t) <=> e \in DOMAIN graph
               /\ e \in DOMAIN ConfigDeps(t) => ConfigDeps(t)[e] = graph[e]
    <3>1. e \in ModuleDirs(t) /\ e \notin U /\ Resolves(t, e)
        BY <2>2, <2>3
    <3>2. \A x : <<e, x>> \notin pairs
        BY <1>1, <3>1
    <3>3. e \in DOMAIN graph /\ e \in DOMAIN ConfigDeps(t)
        BY <1>3, <1>5, <3>1, <3>2
    <3>4. graph[e] = ConfigDeps(t)[e]
        BY <1>4, <3>2, <3>3
    <3> QED
        BY <3>3, <3>4
  <2>5. \A e \in ClosureOf(d, ConfigDeps(t)) : /\ e \in DOMAIN ConfigDeps(t) <=> e \in DOMAIN graph
                                               /\ e \in DOMAIN ConfigDeps(t) => ConfigDeps(t)[e] = graph[e]
      BY <2>4 DEF C
  <2>6. d \in Dirs /\ \A x \in DOMAIN ConfigDeps(t) : ConfigDeps(t)[x] \subseteq Dirs
      BY <1>5, <2>1
  <2>7. \A x \in DOMAIN graph : graph[x] \subseteq Dirs
      BY <1>3
  <2> QED
      BY <2>5, <2>6, <2>7, SameClosure
<1> QED
    BY <1>2, <1>6 DEF graph, pairs


----------------------------------------------------------------------------
(* A plan. *)

\* A leg is of a module of the tree and of its checks, or of an installed module;
\* its hash, if it has one, is its digest, over all that its module reaches when
\* that was read.
LegTyped(leg, t) ==
    /\ IsLeg(leg) /\ leg.kind \in Kinds /\ leg.module \in Dirs \cup Installed
    /\ leg.checks \subseteq Checks /\ leg.hash \subseteq Digests
    /\ \/ leg.kind = "installed" /\ leg.checks = {}
       \/ leg.module \in ModuleDirs(t) /\ leg.checks \subseteq ChecksOf[leg.module]
LegHashed(leg, t, missing) ==
    \/ leg.hash = {}
    \/ \E h, C : /\ leg.hash = {h} /\ HasDigest(h, leg, t, C)
                 /\ ReadThrough(t, leg.module, missing) => C = Whole(leg, t)

LEMMA LegIn == ASSUME NEW leg, NEW t, LegTyped(leg, t) PROVE leg \in AllLegs
BY DEF LegTyped, IsLeg, AllLegs

LEMMA GlobalPathsAre ==
    ASSUME NEW graph, NEW known, \A e \in RootClosure(graph) : known[e] \subseteq Paths, NEW t, NEW ng
    PROVE  GlobalInputs(graph, known, t, ng) \subseteq Paths
<1>1. SUFFICES ASSUME NEW p \in GlobalInputs(graph, known, t, ng) PROVE p \in Paths
    OBVIOUS
<1>2. (\E e \in RootClosure(graph) : p \in known[e]) \/ p \in GlobalPaths
    BY DEF GlobalInputs
<1> QED
    BY <1>2, LayoutAssumption

\* The digest of a leg, over modules whose files were read.
LEMMA DigestTyped ==
    ASSUME NEW leg, leg.kind \in Kinds, leg.module \in Dirs \cup Installed, leg.checks \subseteq Checks,
           NEW t \in Trees, NEW known, NEW C \in SUBSET Dirs, \A e \in C : known[e] \subseteq Paths,
           NEW S \in SUBSET Paths
    PROVE  CheckHash(leg, C, BlobsOf(S, t), known, t) \in Digests
<1>1. ASSUME NEW R \in SUBSET Paths PROVE BlobsOf(R, t) \in Files
  <2>1. BlobsOf(R, t) \in [R -> Contents \cup {Absent}]
      BY DEF BlobsOf, Trees
  <2> QED
      BY <2>1 DEF Files
<1>2. [e \in C |-> BlobsOf(known[e], t)] \in [C -> Files]
    BY <1>1
<1>3. [e \in C |-> BlobsOf(known[e], t)] \in UNION {[K -> Files] : K \in SUBSET Dirs}
    BY <1>2
<1>4. <<leg.kind, leg.module, leg.checks>> \in Kinds \X (Dirs \cup Installed) \X SUBSET Checks
    OBVIOUS
<1> QED
    BY <1>1, <1>3, <1>4 DEF CheckHash, Digests

\* A check of the tree whose dependencies were read is on a leg, or has the inputs
\* that it had on the base.
SameAsBase(d, event) ==
    d \in ModuleDirs(event.base) /\ InputsOf(event.base, d) = InputsOf(event.tree, d)
Accounted(event, all, missing) ==
    \A d \in ModuleDirs(event.tree) : ReadThrough(event.tree, d, missing) =>
        \A c \in ChecksOf[d] : LegFor(d, c, all) \/ SameAsBase(d, event)

\* What is left out by a diff that tells all has the inputs it had on the base.
LEMMA LeftOutSame ==
    ASSUME LongNames, NewModulesApart, NEW event, Asked(event), NEW cs, TellsAll(cs, event.base, event.tree),
           NEW known, ReadFrom(known, event.tree),
           NEW d \in ModuleDirs(event.tree) \ {Root},
           ClosureOf(d, ConfigDeps(event.tree)) \subseteq ModuleDirs(event.tree),
           ClosureOf(d, ConfigDeps(event.tree)) \cap Attribute(cs, ModuleDirs(event.tree), known).changed = {}
    PROVE  SameAsBase(d, event)
<1> DEFINE t == event.tree
           b == event.base
           C == ClosureOf(d, ConfigDeps(t))
<1>1. t \in Trees /\ b \in Trees /\ d \in Dirs \ {Root}
    BY DEF Asked, Asks, ModuleDirs
<1>2. C \subseteq Dirs /\ (Root \in C => RootNeeded)
  <2> DEFINE S == C \ {Root}
  <2>1. \A x \in DOMAIN ConfigDeps(t) :
            /\ ConfigDeps(t)[x] \subseteq Dirs /\ x \in Dirs /\ t[ConfigOf[x]] \in Contents
            /\ ConfigDeps(t)[x] = DepsIn[x][t[ConfigOf[x]]]
      BY <1>1, GraphTyped
  <2>2. /\ d \in C /\ C \subseteq Dirs /\ Closed(C, ConfigDeps(t))
        /\ \A T \in SUBSET Dirs : d \in T /\ Closed(T, ConfigDeps(t)) => C \subseteq T
      BY <1>1, <2>1, ClosureIs
  <2> HIDE DEF t, C
  <2>3. ASSUME ~RootNeeded PROVE Closed(S, ConfigDeps(t))
    <3>1. ASSUME NEW x \in S \cap DOMAIN ConfigDeps(t) PROVE Root \notin ConfigDeps(t)[x]
        BY <2>1, <2>3, <3>1 DEF RootNeeded
    <3>2. \A x \in S \cap DOMAIN ConfigDeps(t) : ConfigDeps(t)[x] \subseteq C
        BY <2>2 DEF Closed
    <3> QED
        BY <3>1, <3>2 DEF Closed
  <2>4. d \in S /\ S \in SUBSET Dirs
      BY <1>1, <2>2
  <2> QED
      BY <2>2, <2>3, <2>4
<1>3. ASSUME NEW e \in C
      PROVE  /\ e \in ModuleDirs(b) /\ ConfigDeps(b)[e] = ConfigDeps(t)[e]
             /\ Reads(b, e) = Reads(t, e) /\ \A p \in Reads(t, e) : b[p] = t[p]
  <2>1. e \in ModuleDirs(t) /\ e \notin Attribute(cs, ModuleDirs(t), known).changed /\ e \in Dirs
      BY DEF ModuleDirs
  <2>2. OutranksRoot(e, t)
      BY <2>1 DEF OutranksRoot, LongNames
  <2>3. Uncarved(e, b, t)
    <3>1. SUFFICES ASSUME e \in ModuleDirs(b), NEW n \in ModuleDirs(t) \ ModuleDirs(b), Below[n] \subseteq Below[e],
                          NEW p \in Reads(b, e), p \in Below[n]
                   PROVE  FALSE
        BY DEF Uncarved
    <3>2. n \in Dirs /\ e # n /\ b[ConfigOf[n]] = Absent
        BY <3>1 DEF ModuleDirs
    <3>3. FirstTree[ConfigOf[n]] = Absent
        BY <3>2, LayoutAssumption DEF Asked
    <3>4. b[ConfigOf[e]] \in Contents /\ p \in ContextIn[e][b[ConfigOf[e]]]
        BY <1>1, <3>1, GraphTyped DEF Reads, ContextFiles
    <3> QED
        BY <1>2, <2>1, <3>1, <3>2, <3>3, <3>4 DEF NewModulesApart
  <2> HIDE DEF t, b, C
  <2>4. TellsAll(cs, b, t) /\ ReadFrom(known, t)
      BY DEF t, b
  <2> QED
      BY <1>1, <2>1, <2>2, <2>3, <2>4, Unattributed
<1> HIDE DEF t, b
<1>4. C \subseteq ModuleDirs(t)
    BY DEF t
<1>5. d \in ModuleDirs(b) /\ InputsOf(t, d) = InputsOf(b, d)
    BY <1>1, <1>3, <1>4, SameInputs
<1> QED
    BY <1>5 DEF SameAsBase, t, b

LEMMA PlanIs ==
    ASSUME NEW event, Asked(event), NEW f \in FaultScenarios, NEW known
    PROVE  LET p   == PlanOf(event, f, known)
               all == p.legs \cup p.skipped
           IN  /\ \A leg \in all : LegTyped(leg, event.tree)
               /\ p.legs \cap p.skipped = {}
               /\ \A leg \in p.skipped : leg.hash \cap known # {}
               /\ \A leg \in all : LegHashed(leg, event.tree, f.deps)
               /\ LongNames /\ NewModulesApart => Accounted(event, all, f.deps)
<1> DEFINE t        == event.tree
           modules  == ModuleDirs(t)
           changes  == IF f.diff THEN {} ELSE ChangesBetween(event.from, event.to)
           closures == BuildClosures(DependencyGraph(t, {<<d, d>> : d \in f.deps}))
           srcs     == SourceContexts(t, f.srcs)
           blobs    == IF f.head THEN [p \in Paths |-> Absent] ELSE t
           ng       == NonGlobalRootPaths(Root \in modules)
           att      == Attribute(changes, modules, srcs)
           affected == SelectModules(modules, closures, att)
           planned  == PlannedLegs(affected, att.global, {}, f.load)
           legs     == planned \cup InstalledLegs
           hashed   == HashLegs(legs, closures, srcs, blobs, ng)
           dropped  == IF MemoTrusted(changes, modules, srcs, ng) THEN MemoSkipped(hashed, known) ELSE {}
           p        == PlanOf(event, f, known)
<1>1. p.legs = hashed \ dropped /\ p.skipped = dropped
    BY DEF PlanOf
<1>2. \A leg \in dropped : leg \in hashed /\ leg.hash \cap known # {}
    BY DEF MemoSkipped
<1>3. t \in Trees
    BY DEF Asked, Asks
<1>4. ReadFrom(srcs, t) /\ \A d \in DOMAIN srcs : d \in modules
    BY DEF ReadFrom, SourceContexts
<1>5. (\E q \in Paths : blobs[q] # Absent) => blobs = t
    OBVIOUS
<1>6. affected \subseteq modules
    BY SelectionAre
<1>7. \A d \in DOMAIN closures :
          /\ d \in closures[d] /\ closures[d] \subseteq modules
          /\ ReadThrough(t, d, f.deps) => closures[d] = ClosureOf(d, ConfigDeps(t))
    BY <1>3, ReadClosures
<1>8. /\ \A leg \in planned : LegOf(leg, affected)
      /\ \A d \in affected : \A c \in ChecksOf[d] : LegFor(d, c, planned)
    BY PlannedAre
<1>9. affected = modules \/ (/\ TellsAll(changes, event.base, t)
                             /\ \A d \in modules \ affected : /\ d # Root /\ d \in DOMAIN closures
                                                              /\ closures[d] \cap att.changed = {})
  <2>1. att.global => affected = modules
      BY SelectedIs
  <2>2. ASSUME ~att.global
        PROVE  \A d \in modules \ affected : d # Root /\ d \in DOMAIN closures /\ closures[d] \cap att.changed = {}
    <3> HIDE DEF modules, closures, att, affected
    <3>1. affected = {d \in modules : d = Root \/ d \notin DOMAIN closures \/ closures[d] \cap att.changed # {}}
        BY <2>2, NarrowIs DEF affected
    <3> QED
        BY <3>1
  <2>3. ~att.global => changes # {}
      BY Zenon, AttributeIs
  <2>4. ASSUME changes # {} PROVE TellsAll(changes, event.base, t)
    <3>1. changes = ChangesBetween(event.from, event.to)
        BY <2>4
    <3>2. event.from \in Trees /\ event.to \in Trees
        BY DEF Asked, Asks
    <3>3. \A q \in Paths : event.from[q] # event.to[q] =>
              \E c \in changes : c.path = q /\ (c.deleted <=> event.to[q] = Absent)
        BY <3>1, <3>2, ChangesTyped
    <3> HIDE DEF changes
    <3> QED
        BY <3>3 DEF TellsAll, Asked
  <2> QED
      BY Zenon, <2>1, <2>2, <2>3, <2>4
<1> HIDE DEF modules, changes, closures, srcs, blobs, ng, att, affected, planned, dropped, p
<1>10. \A leg \in legs : leg.hash = {} /\ LegTyped(leg, t)
  <2>1. ASSUME NEW leg \in planned PROVE leg.hash = {} /\ LegTyped(leg, t)
    <3>1. LegOf(leg, affected) /\ leg.module \in modules /\ leg.module \in Dirs
        BY <1>6, <1>8 DEF LegOf, modules, ModuleDirs
    <3>2. leg.checks \subseteq Checks
        BY <3>1 DEF LegOf, Checks
    <3> QED
        BY <3>1, <3>2 DEF LegOf, LegTyped, Kinds, modules
  <2>2. ASSUME NEW leg \in InstalledLegs PROVE leg.hash = {} /\ LegTyped(leg, t)
      BY InstalledAre DEF LegTyped, Kinds
  <2> QED
      BY <2>1, <2>2
<1> HIDE DEF legs, hashed, t
<1>11. /\ \A new \in hashed :
              \E leg \in legs :
                     /\ IsLeg(new) /\ SameLeg(new, leg)
                     /\ \/ new.hash = {}
                        \/ /\ blobs = t /\ leg.kind # "installed" /\ leg.module # Root
                           /\ StampedFrom(new.hash, leg, closures, srcs, t, ng)
       /\ \A leg \in legs : \E new \in hashed : SameLeg(new, leg)
  <2>1. Unstamped(legs)
      BY <1>10 DEF Unstamped, LegTyped
  <2>2. /\ \A new \in HashLegs(legs, closures, srcs, blobs, ng) :
               /\ IsLeg(new)
               /\ \E leg \in legs :
                      /\ SameLeg(new, leg)
                      /\ \/ new.hash = {}
                         \/ /\ \E q \in Paths : blobs[q] # Absent
                            /\ leg.kind # "installed" /\ leg.module # Root
                            /\ StampedFrom(new.hash, leg, closures, srcs, blobs, ng)
        /\ \A leg \in legs : \E new \in HashLegs(legs, closures, srcs, blobs, ng) : SameLeg(new, leg)
      BY <2>1, HashLegsAre
  <2>3. /\ \A new \in hashed :
               \E leg \in legs :
                      /\ IsLeg(new) /\ SameLeg(new, leg)
                      /\ \/ new.hash = {}
                         \/ /\ \E q \in Paths : blobs[q] # Absent
                            /\ leg.kind # "installed" /\ leg.module # Root
                            /\ StampedFrom(new.hash, leg, closures, srcs, blobs, ng)
        /\ \A leg \in legs : \E new \in hashed : SameLeg(new, leg)
      BY <2>2 DEF hashed
  <2> QED
      BY <1>5, <2>3
\* A hash is a digest, over what the closure of its module has.
<1>12. ASSUME NEW new \in hashed, new.hash # {}
       PROVE  LegHashed(new, t, f.deps) /\ new.hash \subseteq Digests
  <2>1. PICK leg \in legs : /\ SameLeg(new, leg) /\ leg.kind # "installed" /\ leg.module # Root
                            /\ StampedFrom(new.hash, leg, closures, srcs, t, ng)
      BY <1>11, <1>12
  <2> DEFINE d == leg.module
             C == closures[d]
             G == GlobalInputs(closures, srcs, t, ng)
             h == CheckHash(leg, C, BlobsOf(G, t), srcs, t)
  <2>2. /\ d \in C \ {Root} /\ C \subseteq modules
        /\ ReadThrough(t, d, f.deps) => C = ClosureOf(d, ConfigDeps(t))
      BY <1>7, <2>1 DEF StampedFrom
  <2>3. new.hash = {h} /\ \A e \in C : e \in DOMAIN srcs
      BY <2>1 DEF StampedFrom, ModuleHashable, GlobalHash
  <2>4. \A e \in C : srcs[e] = SourceContexts(t, {})[e]
      BY <1>4, <2>2, <2>3 DEF ReadFrom, SourceContexts, modules
  <2>5. \A e \in DOMAIN srcs : srcs[e] \subseteq Paths
    <3>1. \A e \in modules : ContextFiles(t, e) \subseteq Paths
        BY <1>3, ReadsTyped DEF modules
    <3> QED
        BY <1>4, <3>1 DEF ReadFrom
  <2>6. G \subseteq Paths
    <3>1. \A e \in RootClosure(closures) : srcs[e] \subseteq Paths
        BY <2>1, <2>5 DEF StampedFrom, GlobalHashable
    <3> QED
        BY <3>1, GlobalPathsAre
  <2>7. C \in SUBSET Dirs
      BY <2>2 DEF modules, ModuleDirs
  <2> HIDE DEF G, C
  <2>8. h \in Digests
      BY <1>3, <1>10, <2>3, <2>5, <2>6, <2>7, DigestTyped DEF LegTyped
  <2>9. h = Digest(new, t, C, BlobsOf(G, t))
    <3>1. new.module = d /\ new.kind = leg.kind /\ new.checks = leg.checks
        BY <2>1 DEF SameLeg
    <3>2. [e \in C |-> BlobsOf(srcs[e], t)] = [e \in C |-> BlobsOf(SourceContexts(t, {})[e], t)]
        BY <2>4
    <3> QED
        BY <3>1, <3>2 DEF Digest, CheckHash
  <2>10. HasDigest(h, new, t, C) /\ (ReadThrough(t, new.module, f.deps) => C = Whole(new, t))
    <3>1. new.module = d
        BY <2>1 DEF SameLeg
    <3> HIDE DEF h
    <3> QED
        BY <2>2, <2>9, <3>1 DEF HasDigest, Whole, modules
  <2> HIDE DEF h
  <2> QED
      BY <2>3, <2>8, <2>10 DEF LegHashed
<1>13. \A leg \in hashed : LegTyped(leg, t)
  <2>1. ASSUME NEW new \in hashed PROVE LegTyped(new, t)
    <3>1. PICK leg \in legs : IsLeg(new) /\ SameLeg(new, leg)
        BY <1>11
    <3>2. new.hash \subseteq Digests
        BY <1>12
    <3> QED
        BY <1>10, <3>1, <3>2 DEF LegTyped, SameLeg
  <2> QED
      BY <2>1

<1>14. ASSUME LongNames, NewModulesApart, NEW d \in modules, ReadThrough(t, d, f.deps), NEW c \in ChecksOf[d]
       PROVE  LegFor(d, c, hashed) \/ SameAsBase(d, event)
  <2>1. CASE d \in affected
    <3>1. PICK leg \in legs : leg.kind # "installed" /\ leg.module = d /\ c \in leg.checks
        BY <1>8, <2>1 DEF LegFor, legs
    <3>2. PICK new \in hashed : SameLeg(new, leg)
        BY <1>11
    <3> QED
        BY <3>1, <3>2 DEF SameLeg, LegFor
  <2>2. CASE d \notin affected
    <3>1. TellsAll(changes, event.base, t) /\ d # Root /\ d \in DOMAIN closures /\ closures[d] \cap att.changed = {}
        BY <1>9, <1>14, <2>2
    <3>2. closures[d] = ClosureOf(d, ConfigDeps(t)) /\ closures[d] \subseteq modules
        BY <1>7, <1>14, <3>1
    <3>3. /\ TellsAll(changes, event.base, event.tree) /\ ReadFrom(srcs, event.tree)
          /\ d \in ModuleDirs(event.tree) \ {Root}
          /\ ClosureOf(d, ConfigDeps(event.tree)) \subseteq ModuleDirs(event.tree)
        BY <1>4, <1>14, <3>1, <3>2 DEF t, modules
    <3>4. ClosureOf(d, ConfigDeps(event.tree)) \cap Attribute(changes, ModuleDirs(event.tree), srcs).changed = {}
        BY <3>1, <3>2 DEF t, att, modules
    <3>5. SameAsBase(d, event)
        BY <1>14, <3>3, <3>4, LeftOutSame
    <3> QED
        BY <3>5
  <2> QED
      BY <2>1, <2>2
<1>15. p.legs \cup p.skipped = hashed /\ p.legs \cap p.skipped = {} /\ p.skipped = dropped
    BY <1>1, <1>2
<1>16. \A leg \in hashed : LegHashed(leg, t, f.deps)
    BY <1>12 DEF LegHashed
<1>17. LongNames /\ NewModulesApart => Accounted(event, hashed, f.deps)
    BY <1>14 DEF Accounted, modules, t
<1> QED
  <2>1. \A leg \in p.skipped : leg.hash \cap known # {}
      BY <1>2, <1>15
  <2>2. \A leg \in p.legs \cup p.skipped : LegTyped(leg, event.tree)
      BY <1>13, <1>15 DEF t
  <2>3. \A leg \in p.legs \cup p.skipped : LegHashed(leg, event.tree, f.deps)
      BY <1>15, <1>16 DEF t
  <2>4. LongNames /\ NewModulesApart => Accounted(event, p.legs \cup p.skipped, f.deps)
      BY <1>15, <1>17
  <2> QED
      BY <1>15, <2>1, <2>2, <2>3, <2>4 DEF p


----------------------------------------------------------------------------
(* The invariant. *)

Holds(t) == t \in Trees /\ \A p \in Paths : FirstTree[p] # Absent => t[p] # Absent

RunFields == {"pc", "event", "list", "legs", "done", "failed", "gate", "attempt"}
IsRun(r) == DOMAIN r = RunFields /\ r = [field \in RunFields |-> r[field]]

\* A run of s is for what was asked.  What is done of it has passed, and it is
\* green when all is done.
Running(s, r, ps) ==
    /\ IsRun(r) /\ r.pc \in {"idle", "list", "run", "ended"}
    /\ r.pc # "idle" => Asked(r.event)
    /\ r.gate = "green" => r.pc = "ended" /\ r.list = "success" /\ r.legs \subseteq r.done
    /\ \A leg \in r.done : PassesOf(s, r.event.tree, leg) \subseteq ps

\* Its plan is of its tree and leaves no check out; what it skips was proved; but
\* for what depends on a module whose dependencies it could not read.
Listed(r) == r.pc \in {"run", "ended"}
PlanTyped(r, skips) ==
    Listed(r) => /\ \A leg \in r.legs \cup skips : LegTyped(leg, r.event.tree)
                 /\ skips \cap r.legs = {}
Hashes(r, skips, missing) ==
    Listed(r) => \A leg \in r.legs \cup skips : LegHashed(leg, r.event.tree, missing)
Retired(s, r, skips, missing, ps) ==
    Listed(r) =>
        \A leg \in skips : ReadThrough(r.event.tree, leg.module, missing) => \A c \in leg.checks : \E p \in ps :
            /\ p.scope \in ReadScopes(s)
            /\ p.module = leg.module /\ p.check = c
            /\ p.inputs = InputsOf(r.event.tree, leg.module)
Complete(r, skips, missing) ==
    Listed(r) /\ r.list = "success" => Accounted(r.event, r.legs \cup skips, missing)

Good(s, r, skips, missing, ps) ==
    /\ Running(s, r, ps) /\ PlanTyped(r, skips)
    /\ Hashes(r, skips, missing) /\ Retired(s, r, skips, missing, ps)
    /\ LongNames /\ NewModulesApart => Complete(r, skips, missing)

\* What is saved for s is the digest of a leg that passed in s.
SavedBy(s, h, ps) == \E t \in Trees : \E leg, C : HasDigest(h, leg, t, C) /\ PassesOf(s, t, leg) \subseteq ps
Saved(s, saved, ps) == \A h \in saved : SavedBy(s, h, ps)

Timeline == Holds(main) /\ Holds(fork) /\ Holds(pr) /\ commits \in 0 .. MaxCommits
Shapes ==
    /\ run = [s \in Scopes |-> run[s]] /\ queued = [s \in Scopes |-> queued[s]]
    /\ skipped = [s \in Scopes |-> skipped[s]] /\ unread = [s \in Scopes |-> unread[s]]
    /\ store = [s \in Scopes |-> store[s]]
Passed(ps) == \A p \in ps : p.scope \in Scopes /\ p.module \in Dirs /\ p.check \in ChecksOf[p.module]
Waits == \A s \in Scopes : queued[s] = NoEvent \/ Asked(queued[s])
Runs  == \A s \in Scopes : Good(s, run[s], skipped[s], unread[s], passes)
Store == \A s \in Scopes : Saved(s, store[s], passes)

Inv == Timeline /\ Shapes /\ Passed(passes) /\ Waits /\ Runs /\ Store

----------------------------------------------------------------------------
(* The ways a run moves on. *)

\* What has passed stays so.
LEMMA StaysGood ==
    ASSUME NEW s, NEW r, NEW skips, NEW missing, NEW ps, NEW more, ps \subseteq more,
           Good(s, r, skips, missing, ps)
    PROVE  Good(s, r, skips, missing, more)
<1>1. Running(s, r, more)
    BY DEF Good, Running
<1>2. Retired(s, r, skips, missing, ps) => Retired(s, r, skips, missing, more)
    BY DEF Retired
<1> QED
    BY <1>1, <1>2 DEF Good

LEMMA StaysSaved ==
    ASSUME NEW s, NEW saved, NEW ps, NEW more, ps \subseteq more, Saved(s, saved, ps)
    PROVE  Saved(s, saved, more)
<1>1. ASSUME NEW h, SavedBy(s, h, ps) PROVE SavedBy(s, h, more)
  <2>1. PICK t \in Trees : \E leg, C : HasDigest(h, leg, t, C) /\ PassesOf(s, t, leg) \subseteq ps
      BY <1>1 DEF SavedBy
  <2>2. PICK leg, C : HasDigest(h, leg, t, C) /\ PassesOf(s, t, leg) \subseteq ps
      BY <2>1
  <2>3. PassesOf(s, t, leg) \subseteq more
      BY <2>2
  <2> QED
      BY <2>2, <2>3 DEF SavedBy
<1> QED
    BY <1>1 DEF Saved

\* A run that has no plan yet.
LEMMA FreshGood ==
    ASSUME NEW s, NEW r, NEW skips, NEW missing, NEW ps, Running(s, r, ps), r.pc \in {"idle", "list"}
    PROVE  Good(s, r, skips, missing, ps)
BY DEF Good, PlanTyped, Hashes, Retired, Complete, Listed

\* A run that keeps its plan.
LEMMA KeptGood ==
    ASSUME NEW s, NEW r, NEW skips, NEW missing, NEW ps, Good(s, r, skips, missing, ps), Listed(r),
           NEW new, NEW more, ps \subseteq more, Running(s, new, more),
           new.event = r.event, new.legs = r.legs, new.list = r.list
    PROVE  Good(s, new, skips, missing, more)
<1>1. /\ PlanTyped(new, skips) /\ Hashes(new, skips, missing)
      /\ Complete(r, skips, missing) => Complete(new, skips, missing)
    BY DEF Good, PlanTyped, Hashes, Complete
<1>2. Retired(s, new, skips, missing, more)
    BY DEF Good, Retired
<1> QED
    BY <1>1, <1>2 DEF Good

\* What a plan skips on the strength of what is saved was proved.
LEMMA SkipsProved ==
    ASSUME NEW s, NEW x, x \in ReadScopes(s), NEW saved, NEW ps, Saved(x, saved, ps),
           NEW t \in Trees, NEW leg, NEW missing, LegHashed(leg, t, missing),
           ReadThrough(t, leg.module, missing), leg.hash \cap saved # {},
           NEW c \in leg.checks
    PROVE  \E p \in ps : /\ p.scope \in ReadScopes(s)
                         /\ p.module = leg.module /\ p.check = c
                         /\ p.inputs = InputsOf(t, leg.module)
<1>1. PICK h : h \in saved /\ HasDigest(h, leg, t, Whole(leg, t))
    BY DEF LegHashed
<1>2. PICK u, other, K : u \in Trees /\ HasDigest(h, other, u, K) /\ PassesOf(x, u, other) \subseteq ps
    BY <1>1 DEF Saved, SavedBy
<1>3. /\ leg.module = other.module /\ leg.checks = other.checks
      /\ InputsOf(t, leg.module) = InputsOf(u, leg.module)
    BY <1>1, <1>2, SameDigest
<1> DEFINE pass == [scope |-> x, module |-> other.module, check |-> c, inputs |-> InputsOf(u, other.module)]
<1>4. pass \in PassesOf(x, u, other)
    BY <1>3 DEF PassesOf
<1>5. /\ pass.scope = x /\ pass.module = leg.module /\ pass.check = c
      /\ pass.inputs = InputsOf(t, leg.module)
    BY <1>3
<1> HIDE DEF pass
<1> QED
    BY <1>2, <1>4, <1>5


\* The list job plans for what was asked, and knows what the scopes it trusts saved.
LEMMA ListGood ==
    ASSUME NEW s \in Scopes, Store, NEW event, Asked(event), NEW f \in FaultScenarios,
           NEW missed, missed \subseteq PlanOf(event, f, Known(s)).skipped,
           NEW r, Running(s, r, passes), r.pc = "run", r.event = event,
           NEW skips,
           r.legs \cup skips = PlanOf(event, f, Known(s)).legs \cup PlanOf(event, f, Known(s)).skipped,
           skips \subseteq PlanOf(event, f, Known(s)).skipped, skips \cap r.legs = {}
    PROVE  Good(s, r, skips, f.deps, passes)
<1> DEFINE p == PlanOf(event, f, Known(s))
           all == p.legs \cup p.skipped
<1>1. /\ \A leg \in all : LegTyped(leg, event.tree)
      /\ \A leg \in p.skipped : leg.hash \cap Known(s) # {}
      /\ \A leg \in all : LegHashed(leg, event.tree, f.deps)
      /\ LongNames /\ NewModulesApart => Accounted(event, all, f.deps)
    BY PlanIs
<1>2. event.tree \in Trees
    BY DEF Asked, Asks
<1> HIDE DEF p
<1>3. PlanTyped(r, skips) /\ Hashes(r, skips, f.deps)
    BY <1>1 DEF PlanTyped, Hashes, p
<1>4. LongNames /\ NewModulesApart => Complete(r, skips, f.deps)
    BY <1>1 DEF Complete, p
<1>5. ASSUME NEW leg \in skips, ReadThrough(event.tree, leg.module, f.deps), NEW c \in leg.checks
      PROVE  \E q \in passes : /\ q.scope \in ReadScopes(s)
                               /\ q.module = leg.module /\ q.check = c
                               /\ q.inputs = InputsOf(r.event.tree, leg.module)
  <2>1. leg \in p.skipped /\ leg \in all
      BY DEF p
  <2>2. LegHashed(leg, event.tree, f.deps) /\ leg.hash \cap Known(s) # {}
      BY <1>1, <1>5, <2>1
  <2>3. PICK x \in ReadScopes(s) : leg.hash \cap store[x] # {}
      BY <2>2 DEF Known
  <2>4. Saved(x, store[x], passes)
      BY <1>5, <2>3 DEF Store, ReadScopes, Scopes
  <2>5. \E q \in passes : /\ q.scope \in ReadScopes(s)
                          /\ q.module = leg.module /\ q.check = c
                          /\ q.inputs = InputsOf(event.tree, leg.module)
      BY <1>2, <1>5, <2>2, <2>3, <2>4, SkipsProved
  <2> QED
      BY <2>5
<1>6. Retired(s, r, skips, f.deps, passes)
    BY <1>5 DEF Retired
<1> QED
    BY <1>3, <1>4, <1>6 DEF Good

\* A leg that is saved when it passes.
LEMMA PassSaved ==
    ASSUME NEW s, NEW saved, NEW ps, Saved(s, saved, ps), NEW t \in Trees,
           NEW leg, NEW missing, LegHashed(leg, t, missing)
    PROVE  Saved(s, saved \cup leg.hash, ps \cup PassesOf(s, t, leg))
<1> DEFINE more == ps \cup PassesOf(s, t, leg)
<1>1. ps \subseteq more /\ PassesOf(s, t, leg) \subseteq more
    OBVIOUS
<1> HIDE DEF more
<1>2. Saved(s, saved, more)
    BY <1>1, StaysSaved
<1>3. ASSUME NEW h \in leg.hash PROVE SavedBy(s, h, more)
  <2>1. \E C : HasDigest(h, leg, t, C)
      BY DEF LegHashed
  <2> QED
      BY <1>1, <2>1 DEF SavedBy
<1> QED
    BY <1>2, <1>3 DEF Saved, more

\* The passes of a leg of a tree are of checks that its module has.
LEMMA PassTyped ==
    ASSUME NEW s \in Scopes, NEW t, NEW leg, LegTyped(leg, t)
    PROVE  Passed(PassesOf(s, t, leg))
<1>1. CASE leg.checks = {}
    BY <1>1 DEF Passed, PassesOf
<1>2. CASE leg.module \in ModuleDirs(t) /\ leg.checks \subseteq ChecksOf[leg.module]
    BY <1>2 DEF Passed, PassesOf, ModuleDirs
<1> QED
    BY <1>1, <1>2 DEF LegTyped

----------------------------------------------------------------------------
(* Commits. *)

LEMMA Merged ==
    ASSUME NEW m, NEW f, NEW h, Holds(m), Holds(f), Holds(h)
    PROVE  Holds(Merge(m, f, h)) /\ Asked(PrEvent(m, f, h))
<1> DEFINE t == Merge(m, f, h)
<1>1. \A p \in Paths : t[p] = IF h[p] # f[p] THEN h[p] ELSE m[p]
    BY DEF Merge
<1>2. t = [p \in Paths |-> t[p]]
    BY DEF Merge
<1>3. \A p \in Paths : m[p] \in Contents \cup {Absent} /\ h[p] \in Contents \cup {Absent}
    BY DEF Holds, Trees
<1> HIDE DEF t
<1>4. t \in Trees
    BY <1>1, <1>2, <1>3 DEF Trees
<1>5. Holds(t)
    BY <1>1, <1>4 DEF Holds
<1>6. Asked([tree |-> t, base |-> m, from |-> f, to |-> h])
  <2>1. [tree |-> t, base |-> m, from |-> f, to |-> h] \in [tree : Trees, base : Trees, from : Trees, to : Trees]
      BY <1>4 DEF Holds
  <2>2. \A p \in Paths : m[p] # t[p] => f[p] # h[p] /\ t[p] = h[p]
      BY <1>1
  <2> QED
      BY <2>1, <2>2 DEF Holds, Asked, Asks
<1> QED
    BY <1>5, <1>6 DEF PrEvent, t

LEMMA Pushed ==
    ASSUME NEW t, NEW u, Holds(t), Holds(u) PROVE Asked(PushEvent(t, u))
<1>1. [tree |-> u, base |-> t, from |-> t, to |-> u] \in [tree : Trees, base : Trees, from : Trees, to : Trees]
    BY DEF Holds
<1> QED
    BY <1>1 DEF Asked, Asks, PushEvent, Holds

LEMMA Edited ==
    ASSUME NEW t, Holds(t), NEW p \in Paths, NEW c \in Contents PROVE Holds([t EXCEPT ![p] = c])
BY LayoutAssumption DEF Holds, Trees

\* A commit asks for a run, and may cancel the one in progress.
LEMMA CommitKeeps ==
    ASSUME Inv, Timeline', NEW s \in Scopes, NEW event, Asked(event), W!Commit(s, event), UNCHANGED memo
    PROVE  Inv'
<1>1. /\ queued' = [queued EXCEPT ![s] = event]
      /\ run' = run \/ run' = [run EXCEPT !["pr"] = W!IdleRun]
      /\ skipped' = skipped /\ unread' = unread /\ store' = store /\ passes' = passes
    BY DEF W!Commit, memo
<1>2. Shapes'
    BY <1>1 DEF Inv, Shapes
<1>3. Waits'
    BY <1>1 DEF Inv, Shapes, Waits
<1>4. ASSUME NEW x \in Scopes PROVE Good(x, run'[x], skipped[x], unread[x], passes)
  <2>1. run'[x] = run[x] \/ run'[x] = W!IdleRun
      BY <1>1 DEF Inv, Shapes
  <2>2. Running(x, W!IdleRun, passes)
      BY DEF Running, IsRun, RunFields, W!IdleRun, W!NewRun
  <2>3. W!IdleRun.pc = "idle"
      BY DEF W!IdleRun, W!NewRun
  <2>4. Good(x, W!IdleRun, skipped[x], unread[x], passes)
      BY <2>2, <2>3, FreshGood
  <2> QED
      BY <2>1, <2>4 DEF Inv, Runs
<1>5. Runs' /\ Store' /\ Passed(passes)'
    BY <1>1, <1>4 DEF Inv, Runs, Store
<1> QED
    BY <1>2, <1>3, <1>5 DEF Inv


----------------------------------------------------------------------------
(* The steps. *)

LEMMA InitInv == Init => Inv
<1> SUFFICES ASSUME Init PROVE Inv
    OBVIOUS
<1>1. /\ run = [s \in Scopes |-> W!IdleRun] /\ queued = [s \in Scopes |-> NoEvent]
      /\ skipped = [s \in Scopes |-> {}] /\ unread = [s \in Scopes |-> {}] /\ store = [s \in Scopes |-> {}]
    BY DEF Init, W!Init
<1>2. Timeline
  <2>1. 0 \in 0 .. MaxCommits
      BY ChangeAwareAssumption
  <2> QED
      BY <2>1, ChangeAwareAssumption DEF Init, Timeline, Holds
<1>3. Shapes /\ Waits
    BY <1>1 DEF Shapes, Waits
<1>4. Passed(passes)
  <2>1. ASSUME NEW d \in ModuleDirs(FirstTree) PROVE Passed(PassesOf("main", FirstTree, ModuleEntry(d)))
    <3>1. LegTyped(ModuleEntry(d), FirstTree)
      <4>1. d \in Dirs /\ ChecksOf[d] \subseteq Checks
          BY DEF ModuleDirs, Checks
      <4> QED
          BY <4>1 DEF LegTyped, ModuleEntry, IsLeg, Kinds
    <3> QED
        BY <3>1, PassTyped DEF Scopes
  <2> QED
      BY <2>1 DEF Init, Passed
<1>5. Runs
  <2>1. ASSUME NEW s \in Scopes PROVE Running(s, W!IdleRun, passes) /\ W!IdleRun.pc = "idle"
      BY DEF Running, IsRun, RunFields, W!IdleRun, W!NewRun
  <2>2. ASSUME NEW s \in Scopes PROVE Good(s, run[s], skipped[s], unread[s], passes)
      BY <1>1, <2>1, FreshGood
  <2> QED
      BY <2>2 DEF Runs
<1>6. Store
    BY <1>1 DEF Store, Saved
<1> QED
    BY <1>2, <1>3, <1>4, <1>5, <1>6 DEF Inv

\* A run of a scope moves on, and none else.
LEMMA RunKeeps ==
    ASSUME Inv, NEW s \in Scopes, NEW r, NEW skips, NEW missing, NEW saved,
           run' = [run EXCEPT ![s] = r], skipped' = [skipped EXCEPT ![s] = skips],
           unread' = [unread EXCEPT ![s] = missing],
           store' = [store EXCEPT ![s] = saved], passes \subseteq passes', Passed(passes'),
           queued' = queued \/ queued' = [queued EXCEPT ![s] = NoEvent], UNCHANGED trees,
           Good(s, r, skips, missing, passes'), Saved(s, saved, passes')
    PROVE  Inv'
<1>1. Shapes'
    BY DEF Inv, Shapes
<1>2. Waits'
    BY DEF Inv, Shapes, Waits
<1>3. Timeline'
    BY DEF Inv, Timeline, trees
<1>4. ASSUME NEW x \in Scopes PROVE Good(x, run'[x], skipped'[x], unread'[x], passes')
  <2>1. CASE x = s
      BY <2>1 DEF Inv, Shapes
  <2>2. CASE x # s
    <3>1. run'[x] = run[x] /\ skipped'[x] = skipped[x] /\ unread'[x] = unread[x]
        BY <2>2 DEF Inv, Shapes
    <3> QED
        BY <3>1, StaysGood DEF Inv, Runs
  <2> QED
      BY <2>1, <2>2
<1>5. ASSUME NEW x \in Scopes PROVE Saved(x, store'[x], passes')
  <2>1. CASE x = s
      BY <1>5, <2>1 DEF Inv, Shapes
  <2>2. CASE x # s
    <3>1. store'[x] = store[x]
        BY <2>2 DEF Inv, Shapes
    <3>2. Saved(x, store[x], passes)
        BY <1>5 DEF Inv, Store
    <3> QED
        BY <3>1, <3>2, StaysSaved
  <2> QED
      BY <2>1, <2>2
<1> QED
    BY <1>1, <1>2, <1>3, <1>4, <1>5 DEF Inv, Runs, Store


\* The run goes on as r, and neither skips nor saves anything.
LEMMA GoesOn ==
    ASSUME Inv, NEW s \in Scopes, NEW r, run' = [run EXCEPT ![s] = r], UNCHANGED <<trees, memo>>,
           queued' = queued \/ queued' = [queued EXCEPT ![s] = NoEvent],
           Good(s, r, skipped[s], unread[s], passes)
    PROVE  Inv'
<1>1. /\ skipped' = [skipped EXCEPT ![s] = skipped[s]] /\ unread' = [unread EXCEPT ![s] = unread[s]]
      /\ store' = [store EXCEPT ![s] = store[s]]
      /\ passes' = passes /\ trees' = trees
  <2>1. skipped' = skipped /\ unread' = unread /\ store' = store /\ passes' = passes /\ trees' = trees
      BY DEF memo
  <2> QED
      BY <2>1 DEF Inv, Shapes
<1>2. Passed(passes) /\ Saved(s, store[s], passes)
    BY DEF Inv, Store
<1> QED
    BY <1>1, <1>2, RunKeeps

LEMMA StartRunKeeps == ASSUME Inv, NEW s \in Scopes, StartRun(s) PROVE Inv'
<1> DEFINE r == W!NewRun("list", queued[s], 1)
<1>1. /\ queued[s] # NoEvent /\ run' = [run EXCEPT ![s] = r]
      /\ queued' = [queued EXCEPT ![s] = NoEvent] /\ UNCHANGED <<trees, memo>>
    BY DEF StartRun, W!StartRun
<1>2. Running(s, r, passes) /\ r.pc = "list"
    BY <1>1 DEF Inv, Waits, Running, IsRun, RunFields, W!NewRun
<1> HIDE DEF r
<1>3. Good(s, r, skipped[s], unread[s], passes)
    BY <1>2, FreshGood
<1> QED
    BY <1>1, <1>3, GoesOn

\* The list job ends with some legs, or none and an error.
ListEnds(r, new, legs) ==
    /\ IsRun(new) /\ new.pc = "run" /\ new.legs = legs
    /\ new.list = IF legs = {} THEN "failure" ELSE "success"
    /\ new.event = r.event /\ new.done = r.done /\ new.gate = r.gate
LEMMA ListEnding ==
    ASSUME Inv, NEW s \in Scopes, NEW legs, W!ListJob(s, legs)
    PROVE  /\ queued' = queued /\ Asked(run[s].event)
           /\ \E r : run' = [run EXCEPT ![s] = r] /\ ListEnds(run[s], r, legs) /\ Running(s, r, passes)
<1> DEFINE r == [run[s] EXCEPT !.pc = "run", !.legs = legs,
                               !.list = IF legs = {} THEN "failure" ELSE "success"]
<1>1. run[s].pc = "list" /\ run' = [run EXCEPT ![s] = r] /\ queued' = queued
    BY DEF W!ListJob, W!Becomes
<1>2. Running(s, run[s], passes)
    BY DEF Inv, Runs, Good
<1>3. ListEnds(run[s], r, legs)
  <2> DEFINE was == run[s]
             list == IF legs = {} THEN "failure" ELSE "success"
             new == [was EXCEPT !.pc = "run", !.legs = legs, !.list = list]
  <2>1. IsRun(was)
      BY <1>2 DEF Running
  <2> HIDE DEF was, list
  <2>2. /\ IsRun(new) /\ new.pc = "run" /\ new.legs = legs /\ new.list = list
        /\ new.event = was.event /\ new.done = was.done /\ new.gate = was.gate
      BY <2>1 DEF IsRun, RunFields
  <2> HIDE DEF new
  <2>3. ListEnds(was, new, legs)
      BY <2>2 DEF ListEnds, list
  <2> QED
      BY <2>3 DEF was, new, list
<1> HIDE DEF r
<1>4. Running(s, r, passes)
    BY <1>1, <1>2, <1>3 DEF Running, ListEnds
<1> QED
    BY <1>1, <1>2, <1>3, <1>4 DEF Running

LEMMA ListJobKeeps == ASSUME Inv, NEW s \in Scopes, ListJob(s) PROVE Inv'
<1> DEFINE event == run[s].event
<1>1. PICK f \in FaultScenarios : \E missed \in SUBSET PlanOf(event, f, Known(s)).skipped :
          /\ W!ListJob(s, PlanOf(event, f, Known(s)).legs \cup missed)
          /\ skipped' = [skipped EXCEPT ![s] = PlanOf(event, f, Known(s)).skipped \ missed]
          /\ unread' = [unread EXCEPT ![s] = f.deps]
    BY DEF ListJob
<1> DEFINE p == PlanOf(event, f, Known(s))
<1>2. PICK missed \in SUBSET p.skipped :
          /\ W!ListJob(s, p.legs \cup missed) /\ skipped' = [skipped EXCEPT ![s] = p.skipped \ missed]
          /\ unread' = [unread EXCEPT ![s] = f.deps]
    BY <1>1
<1> HIDE DEF event, p
<1>3. Asked(event) /\ queued' = queued
    BY <1>2, ListEnding DEF event
<1>4. PICK r : /\ run' = [run EXCEPT ![s] = r] /\ ListEnds(run[s], r, p.legs \cup missed)
               /\ Running(s, r, passes)
    BY <1>2, ListEnding
<1>5. r.pc = "run" /\ r.event = event /\ r.legs = p.legs \cup missed
    BY <1>4 DEF ListEnds, event
<1> DEFINE skips == p.skipped \ missed
<1>6. p.legs \cap p.skipped = {}
    BY <1>3, PlanIs DEF p
<1>7. r.legs \cup skips = p.legs \cup p.skipped /\ skips \cap r.legs = {} /\ skips \subseteq p.skipped
    BY <1>2, <1>5, <1>6
<1> HIDE DEF skips
<1>8. Good(s, r, skips, f.deps, passes)
  <2>1. Store
      BY DEF Inv
  <2> QED
      BY <1>2, <1>3, <1>4, <1>5, <1>7, <2>1, ListGood DEF p
<1>9. /\ store' = [store EXCEPT ![s] = store[s]] /\ passes' = passes /\ trees' = trees
      /\ skipped' = [skipped EXCEPT ![s] = skips] /\ unread' = [unread EXCEPT ![s] = f.deps]
  <2>1. store' = store /\ passes' = passes /\ trees' = trees
      BY DEF ListJob
  <2> QED
      BY <1>2, <2>1 DEF Inv, Shapes, skips
<1>10. Passed(passes) /\ Saved(s, store[s], passes)
    BY DEF Inv, Store
<1> QED
    BY <1>3, <1>4, <1>8, <1>9, <1>10, RunKeeps

LEMMA ListJobFailsKeeps == ASSUME Inv, NEW s \in Scopes, ListJobFails(s) PROVE Inv'
<1>1. /\ W!ListJob(s, {})
      /\ skipped' = [skipped EXCEPT ![s] = {}] /\ unread' = [unread EXCEPT ![s] = {}]
    BY DEF ListJobFails, W!ListJobFails
<1>2. PICK r : run' = [run EXCEPT ![s] = r] /\ ListEnds(run[s], r, {}) /\ Running(s, r, passes)
    BY <1>1, ListEnding
<1>3. Good(s, r, {}, {}, passes)
    BY <1>2 DEF ListEnds, Good, PlanTyped, Hashes, Retired, Complete
<1>4. store' = [store EXCEPT ![s] = store[s]] /\ passes' = passes /\ trees' = trees
  <2>1. store' = store /\ passes' = passes /\ trees' = trees
      BY DEF ListJobFails
  <2> QED
      BY <2>1 DEF Inv, Shapes
<1>5. Passed(passes) /\ Saved(s, store[s], passes)
    BY DEF Inv, Store
<1>6. queued' = queued
    BY <1>1, ListEnding
<1> QED
    BY <1>1, <1>2, <1>3, <1>4, <1>5, <1>6, RunKeeps


\* A run that keeps its plan: what is done of it has passed, and a green gate is
\* over all of it.
Keeps(r, new, done) ==
    /\ IsRun(new) /\ Listed(new) /\ new.done = done
    /\ new.event = r.event /\ new.legs = r.legs /\ new.list = r.list
    /\ new.gate = "green" => new.pc = "ended" /\ new.list = "success" /\ new.legs \subseteq done
LEMMA Kept ==
    ASSUME Inv, NEW s \in Scopes, NEW new, NEW done, Keeps(run[s], new, done), Listed(run[s]),
           NEW more, passes \subseteq more,
           \A leg \in done \ run[s].done : PassesOf(s, run[s].event.tree, leg) \subseteq more
    PROVE  Good(s, new, skipped[s], unread[s], more)
<1>1. Good(s, run[s], skipped[s], unread[s], passes) /\ Running(s, run[s], passes)
    BY DEF Inv, Runs, Good
<1>2. \A leg \in run[s].done : PassesOf(s, run[s].event.tree, leg) \subseteq more
    BY <1>1 DEF Running
<1>3. Asked(run[s].event)
    BY <1>1 DEF Running, Listed
<1>4. Running(s, new, more)
    BY <1>2, <1>3 DEF Running, Keeps, Listed
<1>5. new.event = run[s].event /\ new.legs = run[s].legs /\ new.list = run[s].list
    BY DEF Keeps
<1> QED
    BY <1>1, <1>4, <1>5, KeptGood

LEMMA LegPassesKeeps == ASSUME Inv, NEW s \in Scopes, NEW leg \in run[s].legs, LegPasses(s, leg) PROVE Inv'
<1> DEFINE r == [run[s] EXCEPT !.done = @ \cup {leg}]
           t == run[s].event.tree
           more == passes \cup PassesOf(s, t, leg)
<1>1. /\ run[s].pc = "run" /\ run' = [run EXCEPT ![s] = r] /\ queued' = queued /\ trees' = trees
      /\ skipped' = [skipped EXCEPT ![s] = skipped[s]] /\ unread' = [unread EXCEPT ![s] = unread[s]]
      /\ passes' = more
      /\ store' = [store EXCEPT ![s] = store[s] \cup leg.hash]
  <2>1. /\ run[s].pc = "run" /\ run' = [run EXCEPT ![s] = r] /\ queued' = queued
        /\ trees' = trees /\ skipped' = skipped /\ unread' = unread /\ passes' = more
        /\ store' = [store EXCEPT ![s] = @ \cup leg.hash]
      BY DEF LegPasses, W!LegPasses, W!Becomes
  <2> QED
      BY <2>1 DEF Inv, Shapes
<1>2. Listed(run[s]) /\ Good(s, run[s], skipped[s], unread[s], passes) /\ Running(s, run[s], passes)
    BY <1>1 DEF Listed, Inv, Runs, Good
<1>3. t \in Trees /\ LegTyped(leg, t) /\ LegHashed(leg, t, unread[s])
    BY <1>1, <1>2 DEF Good, Running, Asked, Asks, PlanTyped, Hashes, Listed
<1>4. Keeps(run[s], r, run[s].done \cup {leg})
    BY <1>1, <1>2 DEF Keeps, Running, IsRun, RunFields, Listed
<1> HIDE DEF r, t
<1>5. Good(s, r, skipped[s], unread[s], more)
    BY <1>2, <1>4, Kept DEF t
<1>6. Saved(s, store[s] \cup leg.hash, more)
    BY <1>3, PassSaved DEF Inv, Store
<1>7. Passed(more)
    BY <1>3, PassTyped DEF Inv, Passed
<1> QED
    BY <1>1, <1>5, <1>6, <1>7, RunKeeps

LEMMA LegFailsKeeps == ASSUME Inv, NEW s \in Scopes, NEW leg \in run[s].legs, LegFails(s, leg) PROVE Inv'
<1> DEFINE r == [run[s] EXCEPT !.failed = @ \cup {leg}]
<1>1. /\ run[s].pc = "run" /\ run' = [run EXCEPT ![s] = r] /\ queued' = queued /\ UNCHANGED <<trees, memo>>
    BY DEF LegFails, W!LegFails, W!Becomes
<1>2. Listed(run[s]) /\ Running(s, run[s], passes)
    BY <1>1 DEF Listed, Inv, Runs, Good
<1>3. Keeps(run[s], r, run[s].done)
    BY <1>1, <1>2 DEF Keeps, Running, IsRun, RunFields, Listed
<1> HIDE DEF r
<1>4. Good(s, r, skipped[s], unread[s], passes)
    BY <1>2, <1>3, Kept
<1> QED
    BY <1>1, <1>4, GoesOn

LEMMA GateKeeps == ASSUME Inv, NEW s \in Scopes, Gate(s) PROVE Inv'
<1> DEFINE gate == IF run[s].list = "success" /\ run[s].failed = {} THEN "green" ELSE "red"
           r == [run[s] EXCEPT !.pc = "ended", !.gate = gate]
<1>1. /\ run[s].pc = "run" /\ W!Waiting(s) = {}
      /\ run' = [run EXCEPT ![s] = r] /\ queued' = queued /\ UNCHANGED <<trees, memo>>
    BY DEF Gate, W!Gate, W!Becomes
<1>2. Listed(run[s]) /\ Running(s, run[s], passes)
    BY <1>1 DEF Listed, Inv, Runs, Good
<1>3. gate = "green" => run[s].list = "success" /\ run[s].legs \subseteq run[s].done
    BY <1>1 DEF W!Waiting
<1> HIDE DEF gate
<1>4. Keeps(run[s], r, run[s].done)
    BY <1>2, <1>3 DEF Keeps, Running, IsRun, RunFields, Listed
<1> HIDE DEF r
<1>5. Good(s, r, skipped[s], unread[s], passes)
    BY <1>2, <1>4, Kept
<1> QED
    BY <1>1, <1>5, GoesOn

LEMMA RerunKeeps == ASSUME Inv, NEW s \in Scopes, Rerun(s) PROVE Inv'
<1>1. run[s].pc = "ended" /\ queued' = queued /\ UNCHANGED <<trees, memo>>
    BY DEF Rerun, W!Rerun, W!Becomes
<1>2. Listed(run[s]) /\ Running(s, run[s], passes)
    BY <1>1 DEF Listed, Inv, Runs, Good
<1>3. CASE run' = [run EXCEPT ![s] = [run[s] EXCEPT !.pc = "list", !.gate = "none", !.attempt = @ + 1,
                                                    !.list = "none"]]
  <2> DEFINE r == [run[s] EXCEPT !.pc = "list", !.gate = "none", !.attempt = @ + 1, !.list = "none"]
  <2>1. /\ IsRun(r) /\ r.pc = "list" /\ r.gate = "none" /\ r.event = run[s].event /\ r.done = run[s].done
      BY <1>2 DEF Running, IsRun, RunFields
  <2> HIDE DEF r
  <2>2. Running(s, r, passes)
      BY <1>1, <1>2, <2>1 DEF Running
  <2>3. Good(s, r, skipped[s], unread[s], passes)
      BY <2>1, <2>2, FreshGood
  <2> QED
      BY <1>1, <1>3, <2>3, GoesOn DEF r
<1>4. ASSUME NEW again,
             run' = [run EXCEPT ![s] = [run[s] EXCEPT !.pc = "run", !.gate = "none", !.attempt = @ + 1,
                                                      !.failed = @ \ again]]
      PROVE  Inv'
  <2> DEFINE r == [run[s] EXCEPT !.pc = "run", !.gate = "none", !.attempt = @ + 1, !.failed = @ \ again]
  <2>1. Keeps(run[s], r, run[s].done)
      BY <1>2 DEF Keeps, Running, IsRun, RunFields, Listed
  <2> HIDE DEF r
  <2>2. Good(s, r, skipped[s], unread[s], passes)
      BY <1>2, <2>1, Kept
  <2> QED
      BY <1>1, <1>4, <2>2, GoesOn DEF r
<1> QED
    BY <1>3, <1>4 DEF Rerun, W!Rerun, W!Becomes


LEMMA PushMainKeeps == ASSUME Inv, NEW p \in Paths, NEW c \in Contents, PushMain(p, c) PROVE Inv'
<1>1. /\ main' = [main EXCEPT ![p] = c] /\ fork' = fork /\ pr' = pr
      /\ commits < MaxCommits /\ commits' = commits + 1
      /\ W!Commit("main", PushEvent(main, main')) /\ UNCHANGED memo
    BY DEF PushMain
<1>2. Timeline'
  <2>1. Holds([main EXCEPT ![p] = c])
      BY Edited DEF Inv, Timeline
  <2>2. Holds(main')
      BY <1>1, <2>1
  <2>3. commits' \in 0 .. MaxCommits
      BY <1>1, ChangeAwareAssumption DEF Inv, Timeline
  <2> QED
      BY <1>1, <2>2, <2>3 DEF Inv, Timeline
<1>3. Asked(PushEvent(main, main'))
    BY <1>2, Pushed DEF Inv, Timeline
<1>4. "main" \in Scopes
    BY DEF Scopes
<1> QED
    BY <1>1, <1>2, <1>3, <1>4, CommitKeeps

LEMMA PushPrKeeps == ASSUME Inv, NEW p \in Paths, NEW c \in Contents, PushPr(p, c) PROVE Inv'
<1>1. /\ pr' = [pr EXCEPT ![p] = c] /\ fork' = fork /\ main' = main
      /\ commits < MaxCommits /\ commits' = commits + 1
      /\ W!Commit("pr", PrEvent(main, fork, pr')) /\ UNCHANGED memo
    BY DEF PushPr
<1>2. Timeline'
  <2>1. Holds([pr EXCEPT ![p] = c])
      BY Edited DEF Inv, Timeline
  <2>2. Holds(pr')
      BY <1>1, <2>1
  <2>3. commits' \in 0 .. MaxCommits
      BY <1>1, ChangeAwareAssumption DEF Inv, Timeline
  <2> QED
      BY <1>1, <2>2, <2>3 DEF Inv, Timeline
<1>3. Asked(PrEvent(main, fork, pr'))
    BY <1>1, <1>2, Merged DEF Inv, Timeline
<1>4. "pr" \in Scopes
    BY DEF Scopes
<1> QED
    BY <1>1, <1>2, <1>3, <1>4, CommitKeeps

LEMMA MergePrKeeps == ASSUME Inv, MergePr PROVE Inv'
<1>1. /\ main' = Merge(main, fork, pr) /\ fork' = main' /\ pr' = main' /\ commits' = commits
      /\ W!Commit("main", PushEvent(main, main')) /\ UNCHANGED memo
    BY DEF MergePr
<1>2. Timeline'
    BY <1>1, Merged DEF Inv, Timeline
<1>3. Asked(PushEvent(main, main'))
    BY <1>2, Pushed DEF Inv, Timeline
<1>4. "main" \in Scopes
    BY DEF Scopes
<1> QED
    BY <1>1, <1>2, <1>3, <1>4, CommitKeeps

LEMMA Stutters == ASSUME Inv, UNCHANGED vars PROVE Inv'
<1>1. /\ main' = main /\ fork' = fork /\ pr' = pr /\ commits' = commits /\ queued' = queued
      /\ run' = run /\ skipped' = skipped /\ unread' = unread /\ store' = store /\ passes' = passes
    BY DEF vars, trees, memo
<1>2. Timeline' /\ Shapes' /\ Passed(passes)' /\ Waits'
    BY <1>1 DEF Inv, Timeline, Shapes, Waits
<1>3. Runs' /\ Store'
    BY <1>1 DEF Inv, Runs, Store
<1> QED
    BY <1>2, <1>3 DEF Inv

LEMMA NextInv == Inv /\ [Next]_vars => Inv'
<1> SUFFICES ASSUME Inv, [Next]_vars PROVE Inv'
    OBVIOUS
<1>1. CASE \E p \in EditedPaths, c \in Contents : PushMain(p, c)
    BY <1>1, PushMainKeeps, ChangeAwareAssumption
<1>2. CASE \E p \in EditedPaths, c \in Contents : PushPr(p, c)
    BY <1>2, PushPrKeeps, ChangeAwareAssumption
<1>3. CASE MergePr
    BY <1>3, MergePrKeeps
<1>4. ASSUME NEW s \in Scopes, StartRun(s) PROVE Inv'
    BY <1>4, StartRunKeeps
<1>5. ASSUME NEW s \in Scopes, ListJob(s) PROVE Inv'
    BY <1>5, ListJobKeeps
<1>6. ASSUME NEW s \in Scopes, ListJobFails(s) PROVE Inv'
    BY <1>6, ListJobFailsKeeps
<1>7. ASSUME NEW s \in Scopes, NEW leg \in run[s].legs, LegPasses(s, leg) PROVE Inv'
    BY <1>7, LegPassesKeeps
<1>8. ASSUME NEW s \in Scopes, NEW leg \in run[s].legs, LegFails(s, leg) PROVE Inv'
    BY <1>8, LegFailsKeeps
<1>9. ASSUME NEW s \in Scopes, Gate(s) PROVE Inv'
    BY <1>9, GateKeeps
<1>10. ASSUME NEW s \in Scopes, Rerun(s) PROVE Inv'
    BY <1>10, RerunKeeps
<1>11. CASE UNCHANGED vars
    BY <1>11, Stutters
<1> QED
    BY <1>1, <1>2, <1>3, <1>4, <1>5, <1>6, <1>7, <1>8, <1>9, <1>10, <1>11 DEF Next

LEMMA Invariance == Spec => []Inv
BY InitInv, NextInv, PTL DEF Spec

----------------------------------------------------------------------------
(* Theorems. *)

LEMMA InvType == Inv => TypeOK
<1> SUFFICES ASSUME Inv PROVE TypeOK
    OBVIOUS
<1>1. {main, fork, pr} \subseteq Trees /\ commits \in 0 .. MaxCommits
    BY DEF Inv, Timeline, Holds
<1>2. ASSUME NEW s \in Scopes, run[s].pc \in {"run", "ended"}
      PROVE  /\ {run[s].event.tree, run[s].event.base} \subseteq Trees
             /\ \A leg \in run[s].legs \cup skipped[s] :
                    leg.kind = "installed" \/ leg.module \in ModuleDirs(run[s].event.tree)
             /\ skipped[s] \cap run[s].legs = {}
  <2>1. Running(s, run[s], passes) /\ PlanTyped(run[s], skipped[s]) /\ Listed(run[s])
      BY <1>2 DEF Inv, Runs, Good, Listed
  <2>2. Asked(run[s].event)
      BY <2>1 DEF Running, Listed
  <2> QED
      BY <2>1, <2>2 DEF PlanTyped, LegTyped, Asked, Asks
<1> QED
    BY <1>1, <1>2 DEF TypeOK, Inv, Passed

LEMMA InvSkips == Inv => SkippedIsProvenInTrustedScope
BY DEF Inv, Runs, Good, Retired, Listed, SkippedIsProvenInTrustedScope

\* A check of a green run was run, or skipped, or left out of the plan.
LEMMA InvGreen == ASSUME LongNames, NewModulesApart PROVE Inv => GreenMeansProven
<1> SUFFICES ASSUME Inv, NEW s \in Scopes, run[s].gate = "green",
                    NEW d \in ModuleDirs(run[s].event.tree), ReadThrough(run[s].event.tree, d, unread[s]),
                    d \in ModuleDirs(run[s].event.base) => Proven(run[s].event.base, d),
                    NEW c \in ChecksOf[d]
             PROVE  \E p \in passes : p.module = d /\ p.check = c /\ p.inputs = InputsOf(run[s].event.tree, d)
    BY DEF GreenMeansProven, Proven
<1> DEFINE r == run[s]
           t == r.event.tree
<1>1. /\ Running(s, r, passes) /\ Retired(s, r, skipped[s], unread[s], passes)
      /\ Complete(r, skipped[s], unread[s])
    BY DEF Inv, Runs, Good
<1>2. Listed(r) /\ r.list = "success" /\ r.legs \subseteq r.done
    BY <1>1 DEF Running, Listed
<1>3. Accounted(r.event, r.legs \cup skipped[s], unread[s])
    BY <1>1, <1>2 DEF Complete
<1>4. CASE LegFor(d, c, r.legs \cup skipped[s])
  <2>1. PICK leg \in r.legs \cup skipped[s] : leg.module = d /\ c \in leg.checks
      BY <1>4 DEF LegFor
  <2>2. CASE leg \in r.legs
    <3> DEFINE pass == [scope |-> s, module |-> leg.module, check |-> c, inputs |-> InputsOf(t, leg.module)]
    <3>1. PassesOf(s, t, leg) \subseteq passes
        BY <1>1, <1>2, <2>2 DEF Running
    <3>2. pass \in PassesOf(s, t, leg)
        BY <2>1 DEF PassesOf
    <3>3. pass.module = d /\ pass.check = c /\ pass.inputs = InputsOf(t, d)
        BY <2>1
    <3> HIDE DEF pass
    <3> QED
        BY <3>1, <3>2, <3>3
  <2>3. CASE leg \in skipped[s]
      BY <1>1, <1>2, <2>1, <2>3 DEF Retired
  <2> QED
      BY <2>2, <2>3
<1>5. CASE SameAsBase(d, r.event)
    BY <1>5 DEF SameAsBase, Proven
<1> QED
    BY <1>3, <1>4, <1>5 DEF Accounted

\* Trees stay trees, passes are of checks that modules have, and what a plan
\* dropped it does not also run.
THEOREM TypeCorrect == Spec => []TypeOK
<1>1. Inv => TypeOK
    BY InvType
<1> QED
    BY <1>1, Invariance, PTL

\* A run skips a check only when it passed on the same inputs in a scope the run
\* trusts: of all that was ever saved, whatever could be read then, a plan retires
\* nothing else, but for a module that depends on one the plan itself could not
\* read.
THEOREM SkippedProven == Spec => []SkippedIsProvenInTrustedScope
<1>1. Inv => SkippedIsProvenInTrustedScope
    BY InvSkips
<1> QED
    BY <1>1, Invariance, PTL

\* A green gate is over a tree of which every check has passed on the inputs it
\* has there, when that was so of its base.
THEOREM GreenProven ==
    ASSUME LongNames, NewModulesApart
    PROVE  Spec => []GreenMeansProven
<1>1. Inv => GreenMeansProven
    BY InvGreen
<1> QED
    BY <1>1, Invariance, PTL


----------------------------------------------------------------------------
(* The workflow. *)

\* A step of the composition is one of the workflow, or leaves it alone.
LEMMA StepRefines == ASSUME Inv, [Next]_vars PROVE [W!Next]_(W!vars)
<1>1. ASSUME NEW p \in EditedPaths, NEW c \in Contents, PushMain(p, c) PROVE W!Next
  <2>1. W!Commit("main", PushEvent(main, main')) /\ main' = [main EXCEPT ![p] = c] /\ p \in Paths
      BY <1>1, ChangeAwareAssumption DEF PushMain
  <2>2. Holds([main EXCEPT ![p] = c])
      BY <2>1, Edited DEF Inv, Timeline
  <2>3. PushEvent(main, main') \in Asks
      BY <2>1, <2>2, Pushed DEF Inv, Timeline, Asked
  <2> QED
      BY <2>1, <2>3 DEF W!Next, Scopes
<1>2. ASSUME NEW p \in EditedPaths, NEW c \in Contents, PushPr(p, c) PROVE W!Next
  <2>1. W!Commit("pr", PrEvent(main, fork, pr')) /\ pr' = [pr EXCEPT ![p] = c] /\ p \in Paths
      BY <1>2, ChangeAwareAssumption DEF PushPr
  <2>2. Holds([pr EXCEPT ![p] = c])
      BY <2>1, Edited DEF Inv, Timeline
  <2>3. PrEvent(main, fork, pr') \in Asks
      BY <2>1, <2>2, Merged DEF Inv, Timeline, Asked
  <2> QED
      BY <2>1, <2>3 DEF W!Next, Scopes
<1>3. ASSUME MergePr PROVE W!Next
  <2>1. W!Commit("main", PushEvent(main, main')) /\ main' = Merge(main, fork, pr)
      BY <1>3 DEF MergePr
  <2>2. Holds(Merge(main, fork, pr))
      BY Merged DEF Inv, Timeline
  <2>3. PushEvent(main, main') \in Asks
      BY <2>1, <2>2, Pushed DEF Inv, Timeline, Asked
  <2> QED
      BY <2>1, <2>3 DEF W!Next, Scopes
<1>4. ASSUME NEW s \in Scopes, StartRun(s) PROVE W!Next
    BY <1>4 DEF StartRun, W!Next, W!RunStep
<1>5. ASSUME NEW s \in Scopes, ListJob(s) PROVE W!Next
  <2>1. PICK f \in FaultScenarios : \E missed \in SUBSET PlanOf(run[s].event, f, Known(s)).skipped :
            W!ListJob(s, PlanOf(run[s].event, f, Known(s)).legs \cup missed)
      BY <1>5 DEF ListJob
  <2> DEFINE p == PlanOf(run[s].event, f, Known(s))
  <2>2. PICK missed \in SUBSET p.skipped : W!ListJob(s, p.legs \cup missed)
      BY <2>1
  <2>3. \A leg \in p.legs \cup p.skipped : LegTyped(leg, run[s].event.tree)
    <3>1. Asked(run[s].event)
        BY <2>2, ListEnding
    <3> QED
        BY <3>1, PlanIs
  <2> HIDE DEF p
  <2>4. p.legs \cup missed \in SUBSET AllLegs
      BY <2>2, <2>3, LegIn
  <2> QED
      BY <2>2, <2>4 DEF W!Next, W!RunStep
<1>6. ASSUME NEW s \in Scopes, ListJobFails(s) PROVE W!Next
  <2>1. W!ListJob(s, {}) /\ {} \in SUBSET AllLegs
      BY <1>6 DEF ListJobFails, W!ListJobFails
  <2> QED
      BY <2>1 DEF W!Next, W!RunStep
<1>7. ASSUME NEW s \in Scopes, NEW leg \in run[s].legs, LegPasses(s, leg) \/ LegFails(s, leg) PROVE W!Next
  <2>1. W!LegPasses(s, leg) \/ W!LegFails(s, leg)
      BY <1>7 DEF LegPasses, LegFails
  <2>2. leg \in AllLegs
    <3>1. Listed(run[s])
        BY <2>1 DEF W!LegPasses, W!LegFails, Listed
    <3> QED
        BY <3>1, LegIn DEF Inv, Runs, Good, PlanTyped
  <2> QED
      BY <2>1, <2>2 DEF W!Next, W!RunStep
<1>8. ASSUME NEW s \in Scopes, Gate(s) \/ Rerun(s) PROVE W!Next
    BY <1>8 DEF Gate, Rerun, W!Next, W!RunStep
<1>9. CASE UNCHANGED vars
    BY <1>9 DEF vars, W!vars
<1> QED
    BY <1>1, <1>2, <1>3, <1>4, <1>5, <1>6, <1>7, <1>8, <1>9 DEF Next

\* However the planner plans, the composition runs as the workflow allows.
THEOREM RunsAsWorkflow == Spec => W!Init /\ [][W!Next]_(W!vars)
<1>1. Init => W!Init
    BY DEF Init
<1>2. Inv /\ [Next]_vars => [W!Next]_(W!vars)
    BY StepRefines
<1> QED
    BY <1>1, <1>2, Invariance, PTL DEF Spec


(* So what holds of every workflow holds of the composition. *)

WP == INSTANCE WorkflowProofs WITH CancelInProgress <- {"pr"}, Events <- Asks, Legs <- AllLegs

\* What WorkflowAssumption asks of the constants.
LEMMA Instantiates == {"pr"} \subseteq Scopes /\ NoEvent \notin Asks /\ MaxAttempts \in Nat \ {0}
BY ChangeAwareAssumption DEF Scopes

LEMMA InitCarries == W!Init => WP!Inv
<1>1. W!Init => WP!Init
    BY DEF W!Init, WP!Init, W!IdleRun, WP!IdleRun, W!NewRun, WP!NewRun
<1> QED
    BY <1>1, Instantiates, WP!InitInv

LEMMA StepCarries ==
    WP!Inv /\ [W!Next]_(W!vars) => WP!Inv' /\ [\A s \in Scopes : W!KeepsPasses(s)]_(W!vars)
<1>1. W!Next => WP!Next
    BY DEF W!Next, WP!Next, W!RunStep, WP!RunStep, W!Commit, WP!Commit, W!StartRun, WP!StartRun,
           W!ListJob, WP!ListJob, W!LegPasses, WP!LegPasses, W!LegFails, WP!LegFails, W!Gate, WP!Gate,
           W!Rerun, WP!Rerun, W!Waiting, WP!Waiting, W!IdleRun, WP!IdleRun, W!NewRun, WP!NewRun,
           W!Becomes, WP!Becomes
<1>2. [W!Next]_(W!vars) => [WP!Next]_(WP!vars)
    BY <1>1 DEF W!vars, WP!vars
<1>3. WP!Inv /\ [WP!Next]_(WP!vars) => WP!Inv'
    BY Instantiates, WP!StepInv
<1>4. WP!Inv /\ [WP!Next]_(WP!vars) => [\A s \in Scopes : WP!KeepsPasses(s)]_(WP!vars)
    BY Instantiates, WP!StepKeeps
<1>5. [\A s \in Scopes : WP!KeepsPasses(s)]_(WP!vars) => [\A s \in Scopes : W!KeepsPasses(s)]_(W!vars)
    BY DEF W!vars, WP!vars, W!KeepsPasses, WP!KeepsPasses
<1> QED
    BY <1>2, <1>3, <1>4, <1>5

\* A green gate of the composition is over a plan of at least one leg, and each
\* leg of the plan passed.
THEOREM GreenRunsThePlan == Spec => []W!GreenIsComplete
<1>1. WP!Inv => W!GreenIsComplete
    BY DEF WP!Inv, WP!RunInv, W!GreenIsComplete
<1> QED
    BY <1>1, InitCarries, StepCarries, RunsAsWorkflow, PTL

\* The newest commit of the default branch and that of the pull request wait, or
\* the latest run is theirs.
THEOREM TipsAreKept == Spec => []W!TipIsNeverLost
<1>1. WP!Inv => W!TipIsNeverLost
    BY DEF WP!Inv, WP!TipIsNeverLost, W!TipIsNeverLost
<1> QED
    BY <1>1, InitCarries, StepCarries, RunsAsWorkflow, PTL

\* An attempt of a run of the composition keeps its plan and what passed of it.
THEOREM AttemptsKeepPlans == Spec => W!AttemptsKeepPasses
BY InitCarries, StepCarries, RunsAsWorkflow, PTL DEF W!AttemptsKeepPasses
============================================================================
