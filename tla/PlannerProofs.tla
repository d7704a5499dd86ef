--------------------------- MODULE PlannerProofs ---------------------------
(***************************************************************************)
(* What the rules of the planner compute, for any layout of a workspace:   *)
(* closures, owners of paths, and that equal digests have equal inputs.    *)
(***************************************************************************)
EXTENDS Planner, TLAPS

(* Closures. *)

\* A closure is the least closed set its root is in.
LEMMA ClosureIs ==
    ASSUME NEW d \in Dirs, NEW adj, \A x \in DOMAIN adj : adj[x] \subseteq Dirs
    PROVE  /\ d \in ClosureOf(d, adj) /\ ClosureOf(d, adj) \subseteq Dirs
           /\ Closed(ClosureOf(d, adj), adj)
           /\ \A S \in SUBSET Dirs : d \in S /\ Closed(S, adj) => ClosureOf(d, adj) \subseteq S
<1>1. /\ d \in ClosureOf(d, adj) /\ ClosureOf(d, adj) \subseteq Dirs
      /\ \A S \in SUBSET Dirs : d \in S /\ Closed(S, adj) => ClosureOf(d, adj) \subseteq S
    BY DEF ClosureOf
<1>2. ASSUME NEW x \in ClosureOf(d, adj) \cap DOMAIN adj, NEW y \in adj[x] PROVE y \in ClosureOf(d, adj)
  <2>1. y \in Dirs
      OBVIOUS
  <2>2. ASSUME NEW S \in SUBSET Dirs, d \in S, Closed(S, adj) PROVE y \in S
    <3>1. x \in S
        BY <1>1, <2>2
    <3> QED
        BY <2>2, <3>1 DEF Closed
  <2> QED
      BY <2>1, <2>2 DEF ClosureOf
<1> QED
    BY <1>1, <1>2 DEF Closed

\* What is reached from what is reached is reached.
LEMMA ClosureInside ==
    ASSUME NEW d \in Dirs, NEW adj, \A x \in DOMAIN adj : adj[x] \subseteq Dirs, NEW e \in ClosureOf(d, adj)
    PROVE  ClosureOf(e, adj) \subseteq ClosureOf(d, adj)
<1>1. e \in Dirs /\ ClosureOf(d, adj) \in SUBSET Dirs /\ Closed(ClosureOf(d, adj), adj)
    BY ClosureIs
<1> QED
    BY <1>1, ClosureIs

\* Graphs that agree on a closure have it in common.
LEMMA SameClosure ==
    ASSUME NEW d \in Dirs, NEW one, \A x \in DOMAIN one : one[x] \subseteq Dirs,
           NEW other, \A x \in DOMAIN other : other[x] \subseteq Dirs,
           \A e \in ClosureOf(d, one) : /\ e \in DOMAIN one <=> e \in DOMAIN other
                                        /\ e \in DOMAIN one => one[e] = other[e]
    PROVE  ClosureOf(d, other) = ClosureOf(d, one)
<1>1. ClosureOf(d, other) \subseteq ClosureOf(d, one)
  <2>1. d \in ClosureOf(d, one) /\ ClosureOf(d, one) \in SUBSET Dirs /\ Closed(ClosureOf(d, one), one)
      BY ClosureIs
  <2>2. Closed(ClosureOf(d, one), other)
      BY <2>1 DEF Closed
  <2> QED
      BY <2>1, <2>2, ClosureIs
<1>2. ClosureOf(d, one) \subseteq ClosureOf(d, other)
  <2>1. d \in ClosureOf(d, other) /\ ClosureOf(d, other) \in SUBSET Dirs /\ Closed(ClosureOf(d, other), other)
      BY ClosureIs
  <2>2. Closed(ClosureOf(d, other), one)
      BY <1>1, <2>1 DEF Closed
  <2> QED
      BY <2>1, <2>2, ClosureIs
<1> QED
    BY <1>1, <1>2

\* closureOf as it is written: a directory, and what the recursion returns for
\* each of its dependencies.  The code reads its memo instead of recursing, and
\* an entry it finds is final, for no directory depends on itself.
Nexts(d, adj) == IF d \in DOMAIN adj THEN adj[d] ELSE {}
Recurses(res, adj) == \A d \in Dirs : res[d] = {d} \cup UNION {res[e] : e \in Nexts(d, adj)}
Acyclic(adj) ==
    \A S \in SUBSET Dirs : S # {} => \E d \in S : Nexts(d, adj) \cap S = {}

\* What the recursion of closureOf returns on a graph without cycles is what the
\* planner means by a closure: the least set with the directory and, of every
\* directory in it, all that it depends on.
THEOREM RecursionClosed ==
    ASSUME NEW adj, \A x \in DOMAIN adj : adj[x] \subseteq Dirs, Acyclic(adj),
           NEW res \in [Dirs -> SUBSET Dirs], Recurses(res, adj)
    PROVE  \A d \in Dirs : res[d] = ClosureOf(d, adj)
<1>1. \A d \in Dirs : Nexts(d, adj) \subseteq Dirs /\ d \in res[d]
    BY DEF Nexts, Recurses
<1>2. ASSUME NEW d \in Dirs, NEW x \in res[d], x # d
      PROVE  \E e \in Nexts(d, adj) : x \in res[e]
    BY <1>2 DEF Recurses
<1>3. ASSUME NEW d \in Dirs, NEW e \in Nexts(d, adj) PROVE res[e] \subseteq res[d]
    BY DEF Recurses
<1>4. ASSUME NEW d \in Dirs, NEW x \in res[d] PROVE res[x] \subseteq res[d]
  <2> DEFINE Bad == {b \in Dirs : \E y \in res[b] : ~(res[y] \subseteq res[b])}
  <2>1. ASSUME NEW b \in Bad PROVE Nexts(b, adj) \cap Bad # {}
    <3>1. b \in Dirs
        OBVIOUS
    <3>2. PICK y \in res[b] : ~(res[y] \subseteq res[b])
        OBVIOUS
    <3>3. PICK e \in Nexts(b, adj) : y \in res[e]
        BY <1>2, <3>1, <3>2
    <3>4. e \in Dirs /\ ~(res[y] \subseteq res[e])
        BY <1>1, <1>3, <3>1, <3>2
    <3> QED
        BY <3>3, <3>4
  <2>2. Bad \in SUBSET Dirs
      OBVIOUS
  <2>3. Bad = {}
    <3> HIDE DEF Bad
    <3> QED
        BY <2>1, <2>2 DEF Acyclic
  <2> QED
      BY <2>3
<1>5. ASSUME NEW d \in Dirs PROVE ClosureOf(d, adj) \subseteq res[d]
  <2>1. Closed(res[d], adj)
    <3>1. ASSUME NEW x \in res[d] \cap DOMAIN adj, NEW y \in adj[x] PROVE y \in res[d]
      <4>1. x \in Dirs /\ y \in Dirs /\ y \in Nexts(x, adj)
          BY DEF Nexts
      <4> QED
          BY <1>1, <1>3, <1>4, <4>1
    <3> QED
        BY <3>1 DEF Closed
  <2> QED
      BY <1>1, <2>1, ClosureIs
<1>6. \A d \in Dirs : res[d] \subseteq ClosureOf(d, adj)
  <2> DEFINE Bad == {b \in Dirs : ~(res[b] \subseteq ClosureOf(b, adj))}
  <2>1. ASSUME NEW b \in Bad PROVE Nexts(b, adj) \cap Bad # {}
    <3>1. PICK x \in res[b] : x \notin ClosureOf(b, adj)
        OBVIOUS
    <3>2. b \in Dirs /\ b \in ClosureOf(b, adj) /\ Closed(ClosureOf(b, adj), adj)
        BY ClosureIs
    <3>3. PICK e \in Nexts(b, adj) : x \in res[e]
        BY <1>2, <3>1, <3>2
    <3>4. e \in ClosureOf(b, adj)
        BY <3>2 DEF Closed, Nexts
    <3>5. e \in Dirs /\ ClosureOf(e, adj) \subseteq ClosureOf(b, adj)
        BY <1>1, <3>2, <3>4, ClosureInside
    <3> QED
        BY <3>1, <3>3, <3>5
  <2>2. Bad \in SUBSET Dirs
      OBVIOUS
  <2>3. Bad = {}
    <3> HIDE DEF Bad
    <3> QED
        BY <2>1, <2>2 DEF Acyclic
  <2> QED
      BY <2>3
<1> QED
    BY <1>5, <1>6

----------------------------------------------------------------------------
(* The graph of a tree. *)

LEMMA GraphTyped ==
    ASSUME NEW t \in Trees
    PROVE  /\ ModuleDirs(t) \subseteq Dirs
           /\ \A d \in ModuleDirs(t) : t[ConfigOf[d]] \in Contents /\ ConfigOf[d] \in Paths
           /\ DOMAIN ConfigDeps(t) = ModuleDirs(t)
           /\ \A d \in ModuleDirs(t) : ConfigDeps(t)[d] \subseteq Dirs /\ ConfigDeps(t)[d] = DepsIn[d][t[ConfigOf[d]]]
<1>1. ModuleDirs(t) \subseteq Dirs
    BY DEF ModuleDirs
<1>2. ASSUME NEW d \in ModuleDirs(t) PROVE t[ConfigOf[d]] \in Contents /\ ConfigOf[d] \in Paths
    BY LayoutAssumption DEF ModuleDirs, Trees
<1>3. \A d \in ModuleDirs(t) : DepsIn[d][t[ConfigOf[d]]] \subseteq Dirs
    BY <1>1, <1>2, LayoutAssumption
<1>4. DOMAIN ConfigDeps(t) = ModuleDirs(t) /\ \A d \in ModuleDirs(t) : ConfigDeps(t)[d] = DepsIn[d][t[ConfigOf[d]]]
    BY DEF ConfigDeps
<1> QED
    BY <1>1, <1>2, <1>3, <1>4

\* The graph is what the configs say, less what was not read.
LEMMA GraphRead ==
    ASSUME NEW t \in Trees, NEW unread
    PROVE  /\ \A d : d \in DOMAIN DependencyGraph(t, unread) <=>
                         d \in ModuleDirs(t) /\ Resolves(t, d) /\ <<d, d>> \notin unread
           /\ \A d \in DOMAIN DependencyGraph(t, unread) :
                  /\ DependencyGraph(t, unread)[d] \subseteq Dirs
                  /\ DependencyGraph(t, unread)[d] \subseteq ConfigDeps(t)[d]
                  /\ unread = {} => DependencyGraph(t, unread)[d] = ConfigDeps(t)[d]
<1>1. DOMAIN DependencyGraph(t, unread) = {d \in ModuleDirs(t) : Resolves(t, d) /\ <<d, d>> \notin unread}
    BY DEF DependencyGraph
<1>2. ASSUME NEW d \in DOMAIN DependencyGraph(t, unread)
      PROVE  /\ DependencyGraph(t, unread)[d] = {e \in ConfigDeps(t)[d] : <<d, e>> \notin unread}
             /\ ConfigDeps(t)[d] \subseteq Dirs
    BY <1>1, <1>2, GraphTyped DEF DependencyGraph
<1> QED
    BY <1>1, <1>2

\* A module that resolves reaches modules alone, and all they name is read.
LEMMA ResolvedReaches ==
    ASSUME NEW t \in Trees, NEW d \in ModuleDirs(t), Resolves(t, d)
    PROVE  /\ ClosureOf(d, DependencyGraph(t, {})) = ClosureOf(d, ConfigDeps(t))
           /\ ClosureOf(d, ConfigDeps(t)) \subseteq DOMAIN DependencyGraph(t, {})
<1>1. d \in Dirs /\ DOMAIN ConfigDeps(t) = ModuleDirs(t) /\ \A x \in DOMAIN ConfigDeps(t) : ConfigDeps(t)[x] \subseteq Dirs
    BY GraphTyped
<1>2. ASSUME NEW e \in ClosureOf(d, ConfigDeps(t)) PROVE e \in ModuleDirs(t) /\ Resolves(t, e)
    BY <1>1, ClosureInside DEF Resolves
<1> DEFINE graph == DependencyGraph(t, {})
<1>3. /\ \A e : e \in DOMAIN graph <=> e \in ModuleDirs(t) /\ Resolves(t, e) /\ <<e, e>> \notin {}
      /\ \A e \in DOMAIN graph : graph[e] = ConfigDeps(t)[e] /\ graph[e] \subseteq Dirs
    BY GraphRead
<1> HIDE DEF graph
<1>4. ClosureOf(d, ConfigDeps(t)) \subseteq DOMAIN graph
    BY <1>2, <1>3
<1>5. ClosureOf(d, graph) = ClosureOf(d, ConfigDeps(t))
  <2>1. ClosureOf(d, ConfigDeps(t)) \subseteq DOMAIN ConfigDeps(t)
      BY <1>1, <1>2
  <2> QED
      BY <1>1, <1>3, <1>4, <2>1, SameClosure
<1> QED
    BY <1>4, <1>5 DEF graph

\* What the graph of a tree reaches, for every module of it, resolved or not.
LEMMA ClosuresTyped ==
    ASSUME NEW t \in Trees, NEW unread
    PROVE  LET graph == DependencyGraph(t, unread)  closures == BuildClosures(graph) IN
           /\ DOMAIN closures = DOMAIN graph /\ DOMAIN closures \subseteq ModuleDirs(t)
           /\ \A d \in DOMAIN closures :
                  /\ Resolves(t, d) /\ closures[d] = ClosureOf(d, graph)
                  /\ d \in closures[d] /\ closures[d] \subseteq Dirs
                  /\ closures[d] \subseteq ClosureOf(d, ConfigDeps(t)) /\ closures[d] \subseteq ModuleDirs(t)
<1> DEFINE graph == DependencyGraph(t, unread)
           closures == BuildClosures(graph)
<1>1. /\ \A d \in DOMAIN graph : d \in ModuleDirs(t) /\ Resolves(t, d)
      /\ \A d \in DOMAIN graph : graph[d] \subseteq Dirs /\ graph[d] \subseteq ConfigDeps(t)[d]
  <2>1. \A d : d \in DOMAIN graph <=> d \in ModuleDirs(t) /\ Resolves(t, d) /\ <<d, d>> \notin unread
      BY GraphRead
  <2>2. \A d \in DOMAIN graph : graph[d] \subseteq Dirs /\ graph[d] \subseteq ConfigDeps(t)[d]
      BY GraphRead
  <2> QED
      BY <2>1, <2>2
<1>2. /\ ModuleDirs(t) \subseteq Dirs
      /\ DOMAIN ConfigDeps(t) = ModuleDirs(t) /\ \A x \in DOMAIN ConfigDeps(t) : ConfigDeps(t)[x] \subseteq Dirs
    BY GraphTyped
<1>3. DOMAIN closures = DOMAIN graph /\ \A d \in DOMAIN graph : closures[d] = ClosureOf(d, graph)
    BY DEF BuildClosures
<1> HIDE DEF graph
<1>4. ASSUME NEW d \in DOMAIN graph
      PROVE  /\ d \in ClosureOf(d, graph) /\ ClosureOf(d, graph) \subseteq Dirs
             /\ ClosureOf(d, graph) \subseteq ClosureOf(d, ConfigDeps(t))
  <2>1. d \in Dirs
      BY <1>1, <1>4, <1>2
  <2>2. d \in ClosureOf(d, graph) /\ ClosureOf(d, graph) \subseteq Dirs
      BY <1>1, <2>1, ClosureIs
  <2>3. /\ d \in ClosureOf(d, ConfigDeps(t)) /\ ClosureOf(d, ConfigDeps(t)) \in SUBSET Dirs
        /\ Closed(ClosureOf(d, ConfigDeps(t)), ConfigDeps(t))
      BY <1>2, <2>1, ClosureIs
  <2>4. Closed(ClosureOf(d, ConfigDeps(t)), graph)
      BY <1>1, <1>2, <2>3 DEF Closed
  <2>5. ClosureOf(d, graph) \subseteq ClosureOf(d, ConfigDeps(t))
      BY <1>1, <2>1, <2>3, <2>4, ClosureIs
  <2> QED
      BY <2>2, <2>5
<1>5. \A d \in DOMAIN graph : Resolves(t, d) /\ ClosureOf(d, ConfigDeps(t)) \subseteq ModuleDirs(t)
    BY <1>1 DEF Resolves
<1> QED
    BY <1>1, <1>3, <1>4, <1>5 DEF graph

----------------------------------------------------------------------------
(* Owners and inputs. *)

\* The innermost module that holds a path owns it, but for a name as short as ".".
LEMMA OwnerOf ==
    ASSUME NEW S \in SUBSET Dirs, NEW p, NEW e \in S, p \in Below[e],
           \A m \in S : p \in Below[m] => Below[e] \subseteq Below[m],
           e = Root \/ Root \notin S \/ DirLength[e] > DirLength[Root]
    PROVE  e \in OwningModule(p, S)
<1>1. ASSUME NEW m \in S, m # e, p \in Below[m] PROVE Outranks(e, m)
  <2>1. e \in Dirs /\ m \in Dirs /\ Below[e] \subseteq Below[m]
      BY <1>1
  <2>2. m = Root \/ DirLength[e] > DirLength[m]
      BY <1>1, <2>1, NestingAssumption
  <2> QED
      BY <1>1, <2>2 DEF Outranks
<1> QED
    BY <1>1 DEF OwningModule

\* Nothing but the root holds everything.
LEMMA RootAlone ==
    ASSUME NEW d \in Dirs, Below[Root] \subseteq Below[d] PROVE d = Root
<1>1. ASSUME d # Root PROVE FALSE
  <2>1. Root \in Dirs /\ DirLength[Root] = 1 /\ DirLength[d] \in Nat \ {0}
      BY LayoutAssumption
  <2>2. DirLength[Root] > DirLength[d]
      BY <1>1, <2>1, NestingAssumption
  <2> QED
      BY <2>1, <2>2
<1> QED
    BY <1>1

LEMMA ReadsTyped ==
    ASSUME NEW t \in Trees, NEW e \in ModuleDirs(t)
    PROVE  /\ ContextFiles(t, e) \subseteq Below[e] /\ Below[e] \subseteq Paths /\ Reads(t, e) \subseteq ContextFiles(t, e)
           /\ \A p \in ContextFiles(t, e) : t[p] \in Contents /\ t[p] # Absent
           /\ ConfigOf[e] \in Reads(t, e)
<1>1. e \in Dirs /\ t[ConfigOf[e]] \in Contents /\ ConfigOf[e] \in Paths
    BY GraphTyped
<1>2. /\ ContextIn[e][t[ConfigOf[e]]] \subseteq Below[e] /\ ConfigOf[e] \in ContextIn[e][t[ConfigOf[e]]]
      /\ Below[e] \subseteq Paths
    BY <1>1, ContextAssumption, LayoutAssumption
<1>3. \A p \in ContextFiles(t, e) : p \in ContextIn[e][t[ConfigOf[e]]] /\ t[p] # Absent
    BY DEF ContextFiles
<1>4. \A p \in Paths : t[p] # Absent => t[p] \in Contents
    BY DEF Trees
<1>5. ConfigOf[e] \in ContextFiles(t, e)
    BY <1>1, <1>2, LayoutAssumption DEF ContextFiles
<1>6. ConfigOf[e] \in Reads(t, e)
  <2>1. \A m \in ModuleDirs(t) : ConfigOf[e] \in Below[m] => Below[e] \subseteq Below[m]
      BY <1>1, NestingAssumption DEF ModuleDirs
  <2> QED
      BY <1>5, <2>1 DEF Reads
<1> QED
    BY <1>2, <1>3, <1>4, <1>6 DEF Reads

\* What a module compiles is known from what it uploads, whichever modules are
\* nested in it.
LEMMA SameReads ==
    ASSUME NEW t \in Trees, NEW u \in Trees, NEW e \in ModuleDirs(t) \cap ModuleDirs(u),
           ContextFiles(t, e) = ContextFiles(u, e), \A p \in ContextFiles(t, e) : t[p] = u[p]
    PROVE  ConfigDeps(t)[e] = ConfigDeps(u)[e] /\ Reads(t, e) \subseteq Reads(u, e)
<1>1. e \in Dirs /\ t[ConfigOf[e]] = u[ConfigOf[e]] /\ u[ConfigOf[e]] \in Contents
  <2>1. ConfigOf[e] \in ContextFiles(t, e)
      BY ReadsTyped
  <2> QED
      BY <2>1, GraphTyped
<1>2. ConfigDeps(t)[e] = ConfigDeps(u)[e]
    BY <1>1, GraphTyped
<1>3. ASSUME NEW p \in Reads(t, e), NEW m \in ModuleDirs(u), p \in Below[m] PROVE Below[e] \subseteq Below[m]
  <2>1. p \in ContextFiles(u, e) /\ p \in Below[e] /\ m \in Dirs
      BY <1>3, ReadsTyped DEF ModuleDirs
  <2>2. CASE m \in ModuleDirs(t)
      BY <1>3, <2>2 DEF Reads
  <2>3. CASE m \notin ModuleDirs(t)
    <3>1. t[ConfigOf[m]] = Absent /\ u[ConfigOf[m]] # Absent
        BY <2>1, <2>3 DEF ModuleDirs
    <3>2. ConfigOf[m] \notin ContextFiles(u, e)
        BY <3>1, ReadsTyped
    <3>3. ConfigOf[m] \notin ContextIn[e][u[ConfigOf[e]]]
        BY <3>1, <3>2 DEF ContextFiles
    <3>4. p \in ContextIn[e][u[ConfigOf[e]]]
        BY <2>1 DEF ContextFiles
    <3>5. ~(Below[m] \subseteq Below[e])
        BY <1>1, <1>3, <2>1, <3>3, <3>4, ContextAssumption
    <3> QED
        BY <1>1, <1>3, <2>1, <3>5, NestingAssumption
  <2> QED
      BY <2>2, <2>3
<1>4. Reads(t, e) \subseteq Reads(u, e)
  <2>1. \A p \in Reads(t, e) : p \in ContextFiles(u, e)
      BY ReadsTyped
  <2> QED
      BY <1>3, <2>1 DEF Reads
<1> QED
    BY <1>2, <1>4

\* Trees whose configs agree on what a module reaches reach the same from it.
LEMMA SameReach ==
    ASSUME NEW t \in Trees, NEW u \in Trees, NEW d \in Dirs,
           \A e \in ClosureOf(d, ConfigDeps(t)) :
               /\ e \in ModuleDirs(t) /\ e \in ModuleDirs(u)
               /\ ConfigDeps(t)[e] = ConfigDeps(u)[e]
    PROVE  /\ ClosureOf(d, ConfigDeps(u)) = ClosureOf(d, ConfigDeps(t))
           /\ d \in ModuleDirs(t) /\ Resolves(t, d) /\ d \in ModuleDirs(u) /\ Resolves(u, d)
           /\ ClosureOf(d, DependencyGraph(t, {})) = ClosureOf(d, ConfigDeps(t))
           /\ ClosureOf(d, DependencyGraph(u, {})) = ClosureOf(d, ConfigDeps(t))
<1>1. /\ DOMAIN ConfigDeps(t) = ModuleDirs(t) /\ \A x \in DOMAIN ConfigDeps(t) : ConfigDeps(t)[x] \subseteq Dirs
      /\ DOMAIN ConfigDeps(u) = ModuleDirs(u) /\ \A x \in DOMAIN ConfigDeps(u) : ConfigDeps(u)[x] \subseteq Dirs
    BY GraphTyped
<1>2. ClosureOf(d, ConfigDeps(u)) = ClosureOf(d, ConfigDeps(t))
    BY <1>1, SameClosure
<1>3. d \in ClosureOf(d, ConfigDeps(t))
    BY <1>1, ClosureIs
<1>4. d \in ModuleDirs(t) /\ Resolves(t, d) /\ d \in ModuleDirs(u) /\ Resolves(u, d)
    BY <1>2, <1>3 DEF Resolves
<1> QED
    BY <1>2, <1>4, ResolvedReaches

LEMMA OwnersAre ==
    ASSUME NEW S, NEW p PROVE OwningModule(p, S) \subseteq S /\ \A d \in OwningModule(p, S) : p \in Below[d]
BY DEF OwningModule

LEMMA SelectionAre ==
    ASSUME NEW S, NEW graph, NEW attribution PROVE SelectModules(S, graph, attribution) \subseteq S
BY DEF SelectModules

LEMMA ChangesTyped ==
    ASSUME NEW t \in Trees, NEW u \in Trees
    PROVE  /\ ChangesBetween(t, u) \subseteq [path : Paths, deleted : BOOLEAN]
           /\ \A p \in Paths : t[p] # u[p] =>
                  \E c \in ChangesBetween(t, u) : c.path = p /\ (c.deleted <=> u[p] = Absent)
           /\ \A c \in ChangesBetween(t, u) : /\ c.path \in Paths /\ t[c.path] # u[c.path]
                                              /\ c.deleted <=> u[c.path] = Absent
<1> DEFINE change(p) == [path |-> p, deleted |-> u[p] = Absent]
<1>1. \A c : c \in ChangesBetween(t, u) <=> \E p \in Paths : t[p] # u[p] /\ c = change(p)
    BY Zenon DEF ChangesBetween
<1>2. ASSUME NEW p \in Paths
      PROVE  /\ change(p).path = p /\ (change(p).deleted <=> u[p] = Absent)
             /\ change(p) \in [path : Paths, deleted : BOOLEAN]
  <2>1. ASSUME NEW b \in BOOLEAN
        PROVE  LET c == [path |-> p, deleted |-> b]
               IN  c.path = p /\ c.deleted = b /\ c \in [path : Paths, deleted : BOOLEAN]
      OBVIOUS
  <2>2. (u[p] = Absent) \in BOOLEAN
      BY Zenon
  <2> QED
      BY Zenon, <2>1, <2>2
<1> HIDE DEF change
<1> QED
    BY <1>1, <1>2

LEMMA AttributeIs ==
    ASSUME NEW cs, NEW S, NEW known
    PROVE  /\ Attribute(cs, S, known).global <=> cs = {} \/ \E c \in cs : IsGlobal(c, S, known)
           /\ Attribute(cs, S, known).changed =
                  {d \in S : \E c \in cs : d \in OwningModule(c.path, S) /\ IsInput(c, d, known)}
BY Zenon DEF Attribute

LEMMA SelectedIs ==
    ASSUME NEW S, NEW graph, NEW attribution
    PROVE  /\ attribution.global => SelectModules(S, graph, attribution) = S
           /\ ~attribution.global => SelectModules(S, graph, attribution) =
                  {d \in S : d = Root \/ d \notin DOMAIN graph \/ graph[d] \cap attribution.changed # {}}
BY Zenon DEF SelectModules

LEMMA NarrowIs ==
    ASSUME NEW S, NEW graph, NEW attribution, ~attribution.global
    PROVE  SelectModules(S, graph, attribution) =
               {d \in S : d = Root \/ d \notin DOMAIN graph \/ graph[d] \cap attribution.changed # {}}
BY Zenon DEF SelectModules

\* A change tells every path that differs; contexts are as in the tree; no new
\* module is made of files that e compiled; e outranks the root.
TellsAll(cs, t, u) ==
    \A p \in Paths : t[p] # u[p] => \E c \in cs : c.path = p /\ (c.deleted <=> u[p] = Absent)
ReadFrom(known, u) == \A x \in DOMAIN known : known[x] = ContextFiles(u, x)
Uncarved(e, t, u) ==
    e \in ModuleDirs(t) =>
        \A n \in ModuleDirs(u) \ ModuleDirs(t) : Below[n] \subseteq Below[e] => Reads(t, e) \cap Below[n] = {}
OutranksRoot(e, u) == e = Root \/ Root \notin ModuleDirs(u) \/ DirLength[e] > DirLength[Root]

\* A module to which no change is attributed compiles the same: what it compiled
\* is still there and still its own.  Excepted are a name as short as "." and a
\* module made of files this one compiled.
LEMMA Unattributed ==
    ASSUME NEW t \in Trees, NEW u \in Trees, NEW cs, TellsAll(cs, t, u), NEW known, ReadFrom(known, u),
           NEW e \in ModuleDirs(u), e \notin Attribute(cs, ModuleDirs(u), known).changed,
           OutranksRoot(e, u), Uncarved(e, t, u)
    PROVE  /\ e \in ModuleDirs(t) /\ ConfigDeps(t)[e] = ConfigDeps(u)[e]
           /\ Reads(t, e) = Reads(u, e) /\ \A p \in Reads(u, e) : t[p] = u[p]
<1> DEFINE modules == ModuleDirs(u)
<1>1. modules \in SUBSET Dirs /\ e \in Dirs /\ Below[e] \subseteq Paths
    BY LayoutAssumption DEF ModuleDirs
<1>2. e \in modules /\ \A c \in cs : e \in OwningModule(c.path, modules) => ~IsInput(c, e, known)
    BY AttributeIs
<1> HIDE DEF modules
\* No path that it owns and compiles changed, and none of its own was deleted.
<1>3. ASSUME NEW p \in Below[e],
             \A m \in modules : p \in Below[m] => Below[e] \subseteq Below[m],
             p \in ContextFiles(u, e) \/ u[p] = Absent
      PROVE  t[p] = u[p]
  <2>1. SUFFICES ASSUME t[p] # u[p] PROVE FALSE
      OBVIOUS
  <2>2. e \in OwningModule(p, modules)
      BY <1>1, <1>2, <1>3, OwnerOf DEF modules, OutranksRoot
  <2>3. PICK c \in cs : c.path = p /\ (c.deleted <=> u[p] = Absent)
      BY <1>1, <2>1 DEF TellsAll
  <2>4. IsInput(c, e, known)
      BY <1>3, <2>3 DEF IsInput, ReadFrom
  <2> QED
      BY <1>2, <2>2, <2>3, <2>4
\* So what it compiles now is what was there, its configuration included.
<1>4. \A p \in Reads(u, e) : t[p] = u[p]
  <2>1. ASSUME NEW p \in Reads(u, e) PROVE t[p] = u[p]
    <3>1. p \in ContextFiles(u, e) /\ p \in Below[e]
        BY ReadsTyped
    <3>2. \A m \in modules : p \in Below[m] => Below[e] \subseteq Below[m]
        BY DEF Reads, modules
    <3> QED
        BY <1>3, <3>1, <3>2
  <2> QED
      BY <2>1
<1>5. t[ConfigOf[e]] = u[ConfigOf[e]] /\ e \in ModuleDirs(t)
  <2>1. t[ConfigOf[e]] = u[ConfigOf[e]]
      BY <1>4, ReadsTyped
  <2> QED
      BY <1>1, <2>1 DEF ModuleDirs
<1>6. ConfigDeps(t)[e] = ConfigDeps(u)[e]
    BY <1>5, GraphTyped
\* What it compiled is still compiled: no path of it changed owner.
<1>7. ASSUME NEW p \in Reads(t, e) PROVE p \in Reads(u, e)
  <2>1. p \in ContextFiles(t, e) /\ p \in Below[e] /\ t[p] # Absent
      BY <1>5, ReadsTyped
  <2>2. \A m \in modules : p \in Below[m] => m \in ModuleDirs(t) \/ Below[e] \subseteq Below[m]
    <3>1. SUFFICES ASSUME NEW m \in modules, p \in Below[m], m \notin ModuleDirs(t) PROVE Below[e] \subseteq Below[m]
        OBVIOUS
    <3>2. ~(Below[m] \subseteq Below[e])
        BY <1>5, <1>7, <3>1 DEF modules, Uncarved
    <3> QED
        BY <1>1, <2>1, <3>1, <3>2, NestingAssumption
  <2>3. \A m \in modules : p \in Below[m] => Below[e] \subseteq Below[m]
      BY <1>7, <2>2 DEF Reads
  <2>4. p \in ContextIn[e][u[ConfigOf[e]]] /\ p \in Paths
      BY <1>1, <1>5, <2>1 DEF ContextFiles
  <2>5. u[p] # Absent
      BY <1>3, <2>1, <2>3
  <2>6. p \in ContextFiles(u, e)
      BY <2>4, <2>5 DEF ContextFiles
  <2> QED
      BY <2>3, <2>6 DEF Reads, modules
\* What it compiles now was compiled: no module was taken away.
<1>8. ASSUME NEW p \in Reads(u, e) PROVE p \in Reads(t, e)
  <2>1. p \in ContextFiles(u, e) /\ p \in Below[e] /\ u[p] # Absent /\ t[p] = u[p]
      BY <1>4, <1>8, ReadsTyped
  <2>2. \A m \in modules : p \in Below[m] => Below[e] \subseteq Below[m]
      BY <1>8 DEF Reads, modules
  <2>3. p \in ContextFiles(t, e)
      BY <1>5, <2>1 DEF ContextFiles
  <2>4. ASSUME NEW m \in ModuleDirs(t), p \in Below[m] PROVE Below[e] \subseteq Below[m]
    <3>1. SUFFICES ASSUME m \notin modules, ~(Below[e] \subseteq Below[m]) PROVE FALSE
        BY <2>2, <2>4
    <3>2. m \in Dirs /\ t[ConfigOf[m]] # Absent /\ u[ConfigOf[m]] = Absent
        BY <3>1 DEF ModuleDirs, modules
    <3>3. Below[m] \subseteq Below[e] /\ ConfigOf[m] \in Below[m]
        BY <1>1, <2>1, <2>4, <3>1, <3>2, NestingAssumption
    <3>4. \A k \in modules : ConfigOf[m] \in Below[k] => Below[m] \subseteq Below[k]
        BY <1>1, <3>2, NestingAssumption
    <3>5. \A k \in modules : ConfigOf[m] \in Below[k] => Below[e] \subseteq Below[k]
        BY <2>2, <2>4, <3>4
    <3>6. ConfigOf[m] \in Below[e]
        BY <3>3
    <3> QED
        BY <1>3, <3>2, <3>5, <3>6
  <2> QED
      BY <2>3, <2>4 DEF Reads
<1> QED
    BY <1>4, <1>5, <1>6, <1>7, <1>8

----------------------------------------------------------------------------
(* Legs and their hashes. *)

\* A leg is a record, of which only the hash is stamped later.
IsLeg(leg) ==
    leg = [kind |-> leg.kind, module |-> leg.module, checks |-> leg.checks, hash |-> leg.hash]

\* A leg that runs a check of a module.
LegFor(d, c, all) == \E leg \in all : leg.kind # "installed" /\ leg.module = d /\ c \in leg.checks

\* A leg of a module of S, before it is hashed.
LegOf(leg, S) ==
    /\ IsLeg(leg) /\ leg.hash = {} /\ leg.kind \in {"check", "module"}
    /\ leg.module \in S /\ leg.checks \subseteq ChecksOf[leg.module]

\* The legs of a selection, whichever modules load: of its modules, and one for
\* each of their checks.
LEMMA LegsOf ==
    ASSUME NEW S, NEW U
    PROVE  /\ \A leg \in ModuleLegs(S, U) : LegOf(leg, S)
           /\ \A d \in S : \A c \in ChecksOf[d] : LegFor(d, c, ModuleLegs(S, U))
<1>1. ASSUME NEW d \in S, NEW c \in ChecksOf[d]
      PROVE  LET leg == CheckEntry(d, c) IN
             LegOf(leg, S) /\ leg.kind # "installed" /\ leg.module = d /\ c \in leg.checks
    BY DEF CheckEntry, IsLeg, LegOf
<1>2. ASSUME NEW d \in S
      PROVE  LET leg == ModuleEntry(d) IN
             LegOf(leg, S) /\ leg.kind # "installed" /\ leg.module = d /\ leg.checks = ChecksOf[d]
    BY DEF ModuleEntry, IsLeg, LegOf
<1> DEFINE of(d) == IF d \in U THEN {ModuleEntry(d)} ELSE {CheckEntry(d, c) : c \in ChecksOf[d]}
<1>3. ASSUME NEW d \in S, NEW leg \in of(d) PROVE LegOf(leg, S)
    BY <1>1, <1>2, <1>3
<1>4. ASSUME NEW d \in S, NEW c \in ChecksOf[d]
      PROVE  \E leg \in of(d) : leg.kind # "installed" /\ leg.module = d /\ c \in leg.checks
  <2>1. CASE d \in U
      BY <1>2, <2>1
  <2>2. CASE d \notin U
    <3>1. CheckEntry(d, c) \in of(d)
        BY <2>2
    <3> QED
        BY <1>1, <3>1
  <2> QED
      BY <2>1, <2>2
<1>5. ModuleLegs(S, U) = UNION {of(d) : d \in S}
    BY DEF ModuleLegs
<1> HIDE DEF of
<1> QED
    BY <1>3, <1>4, <1>5 DEF LegFor

LEMMA PlannedAre ==
    ASSUME NEW S, NEW all, NEW splits, NEW U
    PROVE  /\ \A leg \in PlannedLegs(S, all, splits, U) : LegOf(leg, S)
           /\ \A d \in S : \A c \in ChecksOf[d] : LegFor(d, c, PlannedLegs(S, all, splits, U))
<1>1. CASE ~all
  <2>1. PlannedLegs(S, all, splits, U) = ModuleLegs(S, U)
      BY <1>1 DEF PlannedLegs
  <2> QED
      BY <2>1, LegsOf
<1>2. CASE all
  <2> DEFINE coarse == {ModuleEntry(d) : d \in S \ splits}
             fine == ModuleLegs(S \cap splits, U)
  <2>1. PlannedLegs(S, all, splits, U) = coarse \cup fine
      BY <1>2 DEF PlannedLegs
  <2>2. ASSUME NEW d \in S
        PROVE  LET leg == ModuleEntry(d) IN
               LegOf(leg, S) /\ leg.kind # "installed" /\ leg.module = d /\ leg.checks = ChecksOf[d]
      BY DEF ModuleEntry, IsLeg, LegOf
  <2>3. /\ \A leg \in fine : LegOf(leg, S \cap splits)
        /\ \A d \in S \cap splits : \A c \in ChecksOf[d] : LegFor(d, c, fine)
      BY LegsOf
  <2>4. \A leg \in coarse : LegOf(leg, S)
      BY <2>2
  <2>5. \A d \in S \ splits : ModuleEntry(d) \in coarse
      OBVIOUS
  <2> HIDE DEF coarse, fine
  <2>6. ASSUME NEW d \in S, NEW c \in ChecksOf[d] PROVE LegFor(d, c, coarse \cup fine)
    <3>1. CASE d \in splits
        BY <2>3, <3>1 DEF LegFor
    <3>2. CASE d \notin splits
        BY <2>2, <2>5, <3>2 DEF LegFor
    <3> QED
        BY <3>1, <3>2
  <2>7. \A leg \in fine : LegOf(leg, S)
      BY <2>3 DEF LegOf
  <2> QED
      BY <2>1, <2>4, <2>6, <2>7
<1> QED
    BY <1>1, <1>2

LEMMA InstalledAre ==
    \A leg \in InstalledLegs :
        /\ IsLeg(leg) /\ leg.hash = {} /\ leg.kind = "installed"
        /\ leg.module \in Installed /\ leg.checks = {}
BY DEF InstalledLegs, InstalledEntry, IsLeg

\* A hash is stamped on a leg and changes nothing else of it.
LEMMA Stamped ==
    ASSUME NEW leg, IsLeg(leg), NEW h
    PROVE  LET new == [leg EXCEPT !.hash = h] IN
           /\ IsLeg(new) /\ new.kind = leg.kind /\ new.module = leg.module /\ new.checks = leg.checks
           /\ new.hash = h
BY DEF IsLeg


\* What a hash that was stamped is: of a leg, over contexts that were read.
StampedFrom(h, leg, graph, known, t, ng) ==
    /\ GlobalHashable(graph, known, t, ng)
    /\ leg.module \in DOMAIN graph
    /\ \A d \in graph[leg.module] : ModuleHashable(d, known, t)
    /\ h = {CheckHash(leg, graph[leg.module], GlobalHash(graph, known, t, ng), known, t)}

\* Hashing takes legs to legs, one for one, and stamps some of them.
SameLeg(new, leg) == new.kind = leg.kind /\ new.module = leg.module /\ new.checks = leg.checks
Unstamped(all) == \A leg \in all : IsLeg(leg) /\ leg.hash = {}
LEMMA HashLegsAre ==
    ASSUME NEW all, Unstamped(all),
           NEW graph, NEW known, NEW t, NEW ng
    PROVE  /\ \A new \in HashLegs(all, graph, known, t, ng) :
                  /\ IsLeg(new)
                  /\ \E leg \in all :
                         /\ SameLeg(new, leg)
                         /\ \/ new.hash = {}
                            \/ /\ \E p \in Paths : t[p] # Absent
                               /\ leg.kind # "installed" /\ leg.module # Root
                               /\ StampedFrom(new.hash, leg, graph, known, t, ng)
           /\ \A leg \in all : \E new \in HashLegs(all, graph, known, t, ng) : SameLeg(new, leg)
<1> DEFINE stamp(leg) == {CheckHash(leg, graph[leg.module], GlobalHash(graph, known, t, ng), known, t)}
           after(leg) == IF Memoizable(leg, graph, known, t) THEN [leg EXCEPT !.hash = stamp(leg)] ELSE leg
           hashed == HashLegs(all, graph, known, t, ng)
<1>1. CASE hashed = all
    BY <1>1 DEF SameLeg, Unstamped
<1>2. CASE hashed # all
  <2>1. hashed = {after(leg) : leg \in all} /\ GlobalHashable(graph, known, t, ng) /\ \E p \in Paths : t[p] # Absent
      BY <1>2 DEF HashLegs
  <2>2. ASSUME NEW leg \in all
        PROVE  /\ IsLeg(after(leg)) /\ SameLeg(after(leg), leg)
               /\ \/ after(leg).hash = {}
                  \/ Memoizable(leg, graph, known, t) /\ after(leg).hash = stamp(leg)
    <3> HIDE DEF stamp
    <3>1. CASE Memoizable(leg, graph, known, t)
        BY <3>1, Stamped DEF SameLeg, Unstamped
    <3>2. CASE ~Memoizable(leg, graph, known, t)
        BY <3>2 DEF SameLeg, Unstamped
    <3> QED
        BY <3>1, <3>2
  <2>3. ASSUME NEW leg \in all, Memoizable(leg, graph, known, t), NEW h, h = stamp(leg)
        PROVE  leg.kind # "installed" /\ leg.module # Root /\ StampedFrom(h, leg, graph, known, t, ng)
      BY <2>1, <2>3 DEF Memoizable, StampedFrom
  <2> HIDE DEF after, stamp, hashed
  <2>4. ASSUME NEW new \in hashed
        PROVE  \E leg \in all : new = after(leg)
      BY <2>1
  <2>5. \A leg \in all : after(leg) \in hashed
      BY <2>1
  <2>6. \A new \in hashed : IsLeg(new)
      BY <2>2, <2>4
  <2>7. ASSUME NEW new \in hashed
        PROVE  \E leg \in all :
                   /\ SameLeg(new, leg)
                   /\ \/ new.hash = {}
                      \/ /\ \E p \in Paths : t[p] # Absent
                         /\ leg.kind # "installed" /\ leg.module # Root
                         /\ StampedFrom(new.hash, leg, graph, known, t, ng)
    <3>1. PICK leg \in all : new = after(leg)
        BY <2>4
    <3> QED
        BY <2>1, <2>2, <2>3, <3>1
  <2>8. \A leg \in all : \E new \in hashed : SameLeg(new, leg)
      BY <2>2, <2>5
  <2> QED
      BY <2>6, <2>7, <2>8 DEF hashed
<1> QED
    BY <1>1, <1>2

\* Equal digests have equal closures and equal contexts.
LEMMA SameHash ==
    ASSUME NEW leg, NEW K, NEW g, NEW known, NEW t,
           NEW leg2, NEW K2, NEW g2, NEW known2, NEW t2,
           CheckHash(leg, K, g, known, t) = CheckHash(leg2, K2, g2, known2, t2)
    PROVE  /\ leg.module = leg2.module /\ leg.checks = leg2.checks /\ K = K2 /\ g = g2
           /\ \A d \in K : known[d] = known2[d] /\ \A p \in known[d] : t[p] = t2[p]
<1>1. /\ <<leg.kind, leg.module, leg.checks>> = <<leg2.kind, leg2.module, leg2.checks>> /\ g = g2
      /\ [d \in K |-> BlobsOf(known[d], t)] = [d \in K2 |-> BlobsOf(known2[d], t2)]
    BY DEF CheckHash
<1>2. K = K2 /\ \A d \in K : BlobsOf(known[d], t) = BlobsOf(known2[d], t2)
    BY <1>1
<1>3. ASSUME NEW d \in K PROVE known[d] = known2[d] /\ \A p \in known[d] : t[p] = t2[p]
  <2>1. [p \in known[d] |-> t[p]] = [p \in known2[d] |-> t2[p]]
      BY <1>2 DEF BlobsOf
  <2> QED
      BY <2>1
<1> QED
    BY <1>1, <1>2, <1>3
=============================================================================
