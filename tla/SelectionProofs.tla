--------------------------- MODULE SelectionProofs ---------------------------
(***************************************************************************)
(* For every workspace, change, and choice of the readings that fail, a    *)
(* plan never skips what a change affects, whatever it narrows by: the     *)
(* selection, the enumeration of legs and the passes of the store.         *)
(*                                                                         *)
(* The invariant says what each step of plan() knows: what it read is      *)
(* true as far as it goes (Readings), the selection is what the rules make *)
(* of it (Narrowed), the legs are of the selection (Enumerated), and each  *)
(* hash is of inputs that were read (Hashed).  That the rules applied to   *)
(* such readings err on the side of running is then a matter of the trees. *)
(***************************************************************************)
EXTENDS Selection, PlannerProofs, FiniteSetTheorems

\* Before the plan there is nothing of it.
Unplanned ==
    /\ pc \in {"edit", "affected"} => srcs = << >> /\ affected = {} /\ changes = {} /\ blobs = NoBlobs
    /\ pc = "edit" => closures = << >> /\ faults = 0
    /\ pc \in {"edit", "affected", "legs"} => legs = {}
    /\ pc # "done" => skipped = {} /\ store = "unread"

\* What a plan knows of the repository is true, as far as it goes.
Readings ==
    /\ pc \notin {"edit", "error"} =>
           \E U \in SUBSET (Dirs \X Dirs) : closures = BuildClosures(DependencyGraph(head, U))
    /\ changes \in {ChangesBetween(base, head), {}}
    /\ blobs \in {head, NoBlobs}
    /\ \A d \in DOMAIN srcs : srcs[d] = ContextFiles(head, d)

\* What was selected, and why.
Narrowed ==
    selected => affected = SelectModules(dirs, closures, Attribute(changes, dirs, srcs))

\* What was selected is on a leg or on one that a pass retired.
Enumerated ==
    pc \in {"hash", "memoize", "done"} =>
        /\ \A leg \in legs \cup skipped : IsLeg(leg)
        /\ \A d \in affected : \A c \in ChecksOf[d] : LegFor(d, c, legs \cup skipped)
        /\ InstalledLegs \subseteq legs

\* A hash is of the inputs it names, all of which were read.
HashOf(leg) ==
    /\ leg.kind # "installed" /\ leg.module \in DOMAIN closures
    /\ \A d \in closures[leg.module] : ModuleHashable(d, srcs, blobs)
    /\ blobs = head
    /\ leg.hash = {CheckHash(leg, closures[leg.module], GlobalHash(closures, srcs, blobs, nonGlobal), srcs, blobs)}
Hashed ==
    /\ pc = "hash" => \A leg \in legs : leg.hash = {}
    /\ pc \in {"memoize", "done"} => \A leg \in legs \cup skipped : leg.hash = {} \/ HashOf(leg)

----------------------------------------------------------------------------
(* Types and readings. *)

\* The readings of a step are among finitely many, of which few enough fail.
LEMMA FaultsBounded ==
    ASSUME faults \in 0 .. MaxFaults, NEW S, IsFiniteSet(S), NEW U \in Failing(S)
    PROVE  U \subseteq S /\ faults + Cardinality(U) \in 0 .. MaxFaults
<1>1. U \in SUBSET S /\ faults + Cardinality(U) <= MaxFaults
    BY DEF Failing
<1>2. Cardinality(U) \in Nat
    BY <1>1, FS_Subset, FS_CardinalityType
<1> QED
    BY <1>1, <1>2, SelectionAssumption

LEMMA ReadingsFinite ==
    ASSUME NEW t \in Trees
    PROVE  GraphReadings(t) \subseteq Dirs \X Dirs /\ IsFiniteSet(GraphReadings(t))
<1>1. ASSUME NEW d \in ModuleDirs(t) PROVE {d} \X ({d} \cup ConfigDeps(t)[d]) \subseteq Dirs \X Dirs
  <2>1. d \in Dirs /\ ConfigDeps(t)[d] \subseteq Dirs
      BY GraphTyped
  <2> QED
      BY <2>1
<1>2. GraphReadings(t) \subseteq Dirs \X Dirs
    BY <1>1 DEF GraphReadings
<1>3. IsFiniteSet(Dirs \X Dirs)
    BY SelectionAssumption, FS_Product
<1> QED
    BY <1>2, <1>3, FS_Subset

Typed == TypeOK /\ Unplanned /\ Readings

LEMMA InitTyped == Init => Typed
<1> SUFFICES ASSUME Init PROVE Typed
    OBVIOUS
<1> USE DEF Init
<1>1. base \in Trees /\ head \in Trees /\ NoBlobs \in Trees
    BY SelectionAssumption DEF NoBlobs, Trees
<1>2. DOMAIN closures = {} /\ DOMAIN srcs = {}
    OBVIOUS
<1>3. edits \in 0 .. MaxEdits /\ faults \in 0 .. MaxFaults
    BY SelectionAssumption
<1>4. rootRead \in BOOLEAN /\ full \in BOOLEAN
    BY Zenon
<1>5. TypeOK
    BY <1>1, <1>2, <1>3, <1>4 DEF TypeOK
<1> QED
    BY <1>2, <1>5 DEF Typed, Unplanned, Readings


\* Owners of a path, and what is selected, are modules; a plan starts with none.
LEMMA EditTyped ==
    ASSUME Typed, NEW p \in Paths, NEW c \in Contents \cup {Absent}, Edit(p, c) PROVE Typed'
<1> USE DEF Edit, repository, workspace, Typed, TypeOK
<1>1. /\ DOMAIN closures = {} /\ closures' = closures /\ DOMAIN srcs = {} /\ srcs' = srcs
      /\ affected' = {} /\ changes' = {}
    BY DEF Unplanned
<1>2. head' \in Trees
    BY DEF Trees
<1>3. edits' \in 0 .. MaxEdits /\ pc' = pc /\ faults' = faults
    BY SelectionAssumption
<1>4. rootRead' = rootRead /\ full' = full /\ legs' = legs /\ skipped' = skipped /\ base' = base /\ blobs' = blobs
    OBVIOUS
<1>5. TypeOK'
    BY <1>1, <1>2, <1>3, <1>4
<1>6. Unplanned'
    BY DEF Unplanned
<1>7. blobs' = NoBlobs' /\ changes' = {} /\ pc' = "edit"
    BY DEF Unplanned, NoBlobs
<1>8. Readings'
    BY <1>1, <1>7 DEF Readings
<1> QED
    BY <1>5, <1>6, <1>8 DEF Typed

LEMMA LoadTyped ==
    ASSUME Typed, Load PROVE Typed'
<1> USE DEF Load, repository, Typed, TypeOK
<1>1. /\ base' = base /\ head' = head /\ edits' = edits /\ changes' = changes /\ blobs' = blobs /\ srcs' = srcs
      /\ affected' = affected /\ full' = full /\ legs' = legs /\ skipped' = skipped /\ store' = store /\ dirs' = dirs
    BY DEF dirs
<1>2. pc = "edit" /\ DOMAIN closures = {} /\ DOMAIN srcs = {} /\ affected = {} /\ changes = {} /\ blobs = NoBlobs
    BY DEF Unplanned
<1>3. NoBlobs' = NoBlobs /\ blobs \in Trees /\ head \in Trees
    BY DEF NoBlobs
<1>4. CASE dirs = {}
  <2>1. pc' = "error" /\ faults' = faults /\ rootRead' = rootRead /\ closures' = closures
      BY <1>4
  <2>2. TypeOK'
      BY <1>1, <1>2, <2>1
  <2>3. Unplanned' /\ Readings'
      BY <1>1, <1>2, <1>3, <2>1 DEF Unplanned, Readings
  <2> QED
      BY <2>2, <2>3 DEF Typed
<1>5. CASE dirs # {}
  <2>1. PICK U \in Failing(GraphReadings(head)) :
            closures' = BuildClosures(DependencyGraph(head, U)) /\ faults' = faults + Cardinality(U)
      BY <1>5 DEF Fail
  <2>2. pc' = "affected" /\ rootRead' \in BOOLEAN
    <3>1. pc' = "affected" /\ rootRead' \in {FALSE, (Root \in dirs)}
        BY Zenon, <1>5
    <3>2. ASSUME NEW P \in BOOLEAN, rootRead' \in {FALSE, P} PROVE rootRead' \in BOOLEAN
        BY <3>2
    <3>3. (Root \in dirs) \in BOOLEAN
        OBVIOUS
    <3> QED
        BY Zenon, <3>1, <3>2, <3>3
  <2>3. U \subseteq Dirs \X Dirs /\ faults' \in 0 .. MaxFaults
      BY <2>1, ReadingsFinite, FaultsBounded
  <2>4. DOMAIN closures' \subseteq dirs /\ \A d \in DOMAIN closures' : closures'[d] \subseteq Dirs
      BY <1>3, <2>1, ClosuresTyped DEF dirs
  <2>5. TypeOK'
      BY <1>1, <1>2, <2>2, <2>3, <2>4
  <2>6. Unplanned' /\ Readings'
      BY <1>1, <1>2, <1>3, <2>1, <2>2, <2>3 DEF Unplanned, Readings
  <2> QED
      BY <2>5, <2>6 DEF Typed
<1> QED
    BY <1>4, <1>5

LEMMA AffectedTyped ==
    ASSUME Typed, Affected PROVE Typed' /\ Narrowed'
<1> USE DEF Affected, repository, Typed, TypeOK
<1>1. /\ base' = base /\ head' = head /\ edits' = edits /\ rootRead' = rootRead /\ closures' = closures
      /\ legs' = legs /\ skipped' = skipped /\ store' = store /\ dirs' = dirs /\ NoBlobs' = NoBlobs
    BY DEF dirs, NoBlobs
<1>2. /\ pc = "affected" /\ pc' = "legs" /\ DOMAIN srcs = {} /\ head \in Trees /\ base \in Trees
      /\ blobs' \in {head, NoBlobs} /\ NoBlobs \in Trees
    BY DEF Unplanned
<1> DEFINE owners == UNION {OwningModule(c.path, dirs) : c \in changes'}
           attribution == Attribute(changes', dirs, srcs')
<1>3. PICK U \in Failing(owners) :
          /\ srcs' = [d \in owners \ U |-> ContextFiles(head, d)] /\ faults' = faults + Cardinality(U)
    BY DEF Fail
<1>4. affected' = SelectModules(dirs, closures, attribution) /\ full' = attribution.global
    OBVIOUS
<1>5. changes' \in {ChangesBetween(base, head), {}}
    OBVIOUS
<1>6. owners \subseteq dirs /\ dirs \subseteq Dirs
  <2>1. dirs \subseteq Dirs
      BY DEF dirs, ModuleDirs
  <2>2. \A c \in changes' : OwningModule(c.path, dirs) \subseteq dirs
      BY OwnersAre
  <2> QED
      BY <2>1, <2>2
<1>7. IsFiniteSet(owners)
    BY <1>6, SelectionAssumption, FS_Subset
<1>8. faults' \in 0 .. MaxFaults
    BY <1>3, <1>7, FaultsBounded
<1>9. DOMAIN srcs' \subseteq dirs /\ \A d \in DOMAIN srcs' : srcs'[d] = ContextFiles(head, d)
    BY <1>3, <1>6
<1>10. changes' \subseteq [path : Paths, deleted : BOOLEAN]
    BY <1>2, <1>5, ChangesTyped
<1>11. full' \in BOOLEAN
    BY Zenon, <1>4 DEF Attribute
<1>12. affected' \subseteq dirs
    BY <1>4, SelectionAre
<1> HIDE DEF owners, attribution
<1>13. TypeOK'
  <2>1. \A d \in DOMAIN srcs' : srcs'[d] \subseteq Paths
    <3>1. \A d \in dirs : ContextFiles(head, d) \subseteq Paths
        BY <1>2, ReadsTyped DEF dirs
    <3> QED
        BY <1>9, <3>1
  <2> QED
      BY <1>1, <1>2, <1>8, <1>9, <1>10, <1>11, <1>12, <2>1
<1>14. Unplanned'
    BY <1>1, <1>2 DEF Unplanned
<1>15. Readings'
    BY <1>1, <1>2, <1>5, <1>9 DEF Readings
<1>16. Narrowed'
    BY <1>1, <1>4 DEF Narrowed, attribution
<1> QED
    BY <1>13, <1>14, <1>15, <1>16 DEF Typed


LEMMA EnumerateTyped ==
    ASSUME Typed, EnumerateLegs PROVE Typed'
<1> USE DEF EnumerateLegs, repository, workspace, Typed, TypeOK
<1>1. /\ base' = base /\ head' = head /\ edits' = edits /\ rootRead' = rootRead /\ closures' = closures
      /\ changes' = changes /\ blobs' = blobs /\ srcs' = srcs /\ affected' = affected /\ full' = full
      /\ skipped' = skipped /\ store' = store /\ dirs' = dirs /\ NoBlobs' = NoBlobs
    BY DEF dirs, NoBlobs
<1>2. pc = "legs" /\ skipped = {} /\ store = "unread" /\ pc' \in {"hash", "error"}
    BY DEF Unplanned
<1>3. faults' \in 0 .. MaxFaults
  <2>1. affected \subseteq Dirs
      BY DEF dirs, ModuleDirs
  <2>2. IsFiniteSet(affected)
      BY <2>1, SelectionAssumption, FS_Subset
  <2> QED
      BY <2>2, FaultsBounded DEF Fail
<1>4. TypeOK'
    BY <1>1, <1>2, <1>3
<1>5. Unplanned'
    BY <1>1, <1>2 DEF Unplanned
<1>6. Readings'
    BY <1>1, <1>2 DEF Readings
<1> QED
    BY <1>4, <1>5, <1>6 DEF Typed

LEMMA HashTyped ==
    ASSUME Typed, Hash PROVE Typed' /\ \A d \in DOMAIN srcs : d \in DOMAIN srcs' /\ srcs'[d] = srcs[d]
<1> USE DEF Hash, repository, Typed, TypeOK
<1>1. /\ base' = base /\ head' = head /\ edits' = edits /\ rootRead' = rootRead /\ closures' = closures
      /\ changes' = changes /\ blobs' = blobs /\ affected' = affected /\ full' = full
      /\ skipped' = skipped /\ store' = store /\ dirs' = dirs /\ NoBlobs' = NoBlobs
    BY DEF dirs, NoBlobs
<1>2. pc = "hash" /\ skipped = {} /\ store = "unread" /\ pc' = "memoize" /\ head \in Trees
    BY DEF Unplanned
<1> DEFINE needed == UNION {closures[d] : d \in (affected \cup {Root}) \cap DOMAIN closures}
           unread == (needed \cap dirs) \ DOMAIN srcs
<1>3. PICK U \in Failing(unread) :
          /\ srcs' = [d \in DOMAIN srcs \cup (unread \ U) |-> ContextFiles(head, d)]
          /\ faults' = faults + Cardinality(U)
    BY DEF Fail
<1>4. unread \subseteq dirs /\ dirs \subseteq Dirs
    BY DEF dirs, ModuleDirs
<1>5. IsFiniteSet(unread)
    BY <1>4, SelectionAssumption, FS_Subset
<1>6. faults' \in 0 .. MaxFaults
    BY <1>3, <1>5, FaultsBounded
<1> HIDE DEF needed, unread
<1>7. DOMAIN srcs' \subseteq dirs /\ \A d \in DOMAIN srcs' : srcs'[d] = ContextFiles(head, d)
    BY <1>3, <1>4
<1>8. \A d \in dirs : ContextFiles(head, d) \subseteq Paths
    BY <1>2, ReadsTyped DEF dirs
<1>9. skipped' \cap legs' = {} /\ \A d \in DOMAIN srcs' : srcs'[d] \subseteq Paths
    BY <1>1, <1>2, <1>7, <1>8
<1>10. TypeOK'
    BY <1>1, <1>2, <1>6, <1>7, <1>9
<1>11. Unplanned'
    BY <1>1, <1>2 DEF Unplanned
<1>12. Readings'
    BY <1>1, <1>2, <1>7 DEF Readings
<1>13. \A d \in DOMAIN srcs : d \in DOMAIN srcs' /\ srcs'[d] = srcs[d]
    BY <1>3 DEF Readings
<1> QED
    BY <1>10, <1>11, <1>12, <1>13 DEF Typed

LEMMA MemoizeTyped ==
    ASSUME Typed, Memoize PROVE Typed'
<1> USE DEF Memoize, repository, workspace, Typed, TypeOK
<1>1. /\ base' = base /\ head' = head /\ edits' = edits /\ rootRead' = rootRead /\ closures' = closures
      /\ changes' = changes /\ blobs' = blobs /\ srcs' = srcs /\ affected' = affected /\ full' = full
      /\ faults' = faults /\ dirs' = dirs /\ NoBlobs' = NoBlobs
    BY DEF dirs, NoBlobs
<1>2. pc = "memoize" /\ pc' = "done" /\ legs' = legs \ skipped'
    OBVIOUS
<1>3. TypeOK'
    BY <1>1, <1>2
<1>4. Unplanned' /\ Readings'
    BY <1>1, <1>2 DEF Unplanned, Readings
<1> QED
    BY <1>3, <1>4 DEF Typed

LEMMA StutterTyped ==
    ASSUME Typed, UNCHANGED vars PROVE Typed'
BY DEF Typed, TypeOK, Unplanned, Readings, vars, repository, workspace, dirs, NoBlobs

LEMMA StepTyped == Typed /\ [Next]_vars => Typed'
BY EditTyped, LoadTyped, AffectedTyped, EnumerateTyped, HashTyped, MemoizeTyped, StutterTyped DEF Next

\* The state of a plan is made of directories, trees, changes and legs, and no
\* more readings fail than the bound allows.
THEOREM TypeCorrect == Spec => []TypeOK
<1>1. Spec => []Typed
    BY InitTyped, StepTyped, PTL DEF Spec
<1> QED
    BY <1>1, PTL DEF Typed


----------------------------------------------------------------------------
(* Legs. *)

LEMMA EnumerateLegged ==
    ASSUME Typed, EnumerateLegs PROVE Enumerated' /\ Hashed'
<1>1. CASE pc' = "error"
    BY <1>1 DEF Enumerated, Hashed
<1>2. CASE pc' # "error"
  <2>1. /\ pc' = "hash" /\ skipped' = {} /\ affected' = affected
      BY <1>2 DEF EnumerateLegs, Typed, Unplanned
  <2>2. PICK U : legs' = PlannedLegs(affected, full, Splits, U) \cup InstalledLegs
      BY <1>2 DEF EnumerateLegs
  <2>3. \A leg \in legs' : IsLeg(leg) /\ leg.hash = {}
      BY <2>2, PlannedAre, InstalledAre DEF LegOf
  <2>4. \A d \in affected : \A c \in ChecksOf[d] : LegFor(d, c, legs')
    <3>1. \A d \in affected : \A c \in ChecksOf[d] : LegFor(d, c, PlannedLegs(affected, full, Splits, U))
        BY PlannedAre
    <3> QED
        BY <2>2, <3>1 DEF LegFor
  <2>5. InstalledLegs \subseteq legs' /\ legs' \cup skipped' = legs'
      BY <2>1, <2>2
  <2>6. Enumerated'
      BY <2>1, <2>3, <2>4, <2>5 DEF Enumerated, IsLeg, LegFor, InstalledLegs, InstalledEntry
  <2>7. Hashed'
      BY <2>1, <2>3 DEF Hashed
  <2> QED
      BY <2>6, <2>7
<1> QED
    BY <1>1, <1>2

LEMMA HashLegged ==
    ASSUME Typed, Typed', Enumerated, Hashed, Hash PROVE Enumerated' /\ Hashed'
<1> DEFINE known == srcs'
           global == GlobalHash(closures, known, blobs, nonGlobal)
<1>1. /\ pc = "hash" /\ pc' = "memoize" /\ skipped = {} /\ skipped' = {} /\ affected' = affected
      /\ closures' = closures /\ blobs' = blobs /\ nonGlobal' = nonGlobal /\ head' = head
      /\ legs' = HashLegs(legs, closures, known, blobs, nonGlobal)
    BY DEF Hash, Typed, Unplanned, repository, nonGlobal
<1>2. /\ Unstamped(legs)
      /\ \A d \in affected : \A c \in ChecksOf[d] : LegFor(d, c, legs)
      /\ InstalledLegs \subseteq legs
      /\ legs' \cup skipped' = legs'
  <2>1. legs \cup skipped = legs
      BY <1>1
  <2> QED
      BY <1>1, <2>1 DEF Enumerated, Hashed, Unstamped
<1> HIDE DEF known
<1>3. /\ \A new \in legs' :
             /\ IsLeg(new)
             /\ \E leg \in legs :
                    /\ SameLeg(new, leg)
                    /\ \/ new.hash = {}
                       \/ /\ \E p \in Paths : blobs[p] # Absent
                          /\ leg.kind # "installed" /\ leg.module # Root
                          /\ StampedFrom(new.hash, leg, closures, known, blobs, nonGlobal)
      /\ \A leg \in legs : \E new \in legs' : SameLeg(new, leg)
    BY <1>1, <1>2, HashLegsAre
<1>4. (\E p \in Paths : blobs[p] # Absent) => blobs = head
    BY DEF Typed, Readings, NoBlobs
<1>5. ASSUME NEW new \in legs', new.hash # {}
      PROVE  /\ new.kind # "installed" /\ new.module \in DOMAIN closures
             /\ \A d \in closures[new.module] : ModuleHashable(d, known, blobs)
             /\ blobs = head
             /\ new.hash = {CheckHash(new, closures[new.module], global, known, blobs)}
  <2>1. PICK leg \in legs : /\ SameLeg(new, leg) /\ blobs = head /\ leg.kind # "installed"
                            /\ StampedFrom(new.hash, leg, closures, known, blobs, nonGlobal)
      BY <1>3, <1>4, <1>5
  <2>2. CheckHash(new, closures[new.module], global, known, blobs)
            = CheckHash(leg, closures[leg.module], global, known, blobs)
      BY <2>1 DEF SameLeg, CheckHash
  <2> QED
      BY <2>1, <2>2 DEF SameLeg, StampedFrom
<1>6. ASSUME NEW leg \in InstalledLegs PROVE leg \in legs'
  <2>1. PICK new \in legs' : SameLeg(new, leg)
      BY <1>2, <1>3
  <2>2. new.hash = {} /\ IsLeg(new)
      BY <1>3, <1>5, <2>1, InstalledAre DEF SameLeg
  <2>3. IsLeg(leg) /\ leg.hash = {}
      BY InstalledAre
  <2>4. new = leg
      BY <2>1, <2>2, <2>3 DEF IsLeg, SameLeg
  <2> QED
      BY <2>1, <2>4
<1>7. ASSUME NEW d \in affected, NEW c \in ChecksOf[d] PROVE LegFor(d, c, legs')
  <2>1. PICK leg \in legs : leg.kind # "installed" /\ leg.module = d /\ c \in leg.checks
      BY <1>2 DEF LegFor
  <2> QED
      BY <1>3, <2>1 DEF LegFor, SameLeg
<1>8. Hashed'
    BY <1>1, <1>2, <1>5 DEF Hashed, HashOf, known
<1>9. Enumerated'
    BY <1>1, <1>2, <1>3, <1>6, <1>7 DEF Enumerated, IsLeg, LegFor, InstalledLegs, InstalledEntry
<1> QED
    BY <1>8, <1>9

LEMMA MemoizeLegged ==
    ASSUME Typed, Enumerated, Hashed, Memoize PROVE Enumerated' /\ Hashed'
<1>1. /\ pc = "memoize" /\ pc' = "done" /\ skipped = {} /\ affected' = affected /\ legs' = legs \ skipped'
      /\ closures' = closures /\ blobs' = blobs /\ nonGlobal' = nonGlobal /\ head' = head /\ srcs' = srcs
    BY DEF Memoize, Typed, Unplanned, repository, workspace, nonGlobal
<1>2. \A leg \in skipped' : leg \in legs /\ leg.hash # {}
    BY DEF Memoize, MemoSkipped
<1>3. legs' \cup skipped' = legs /\ legs \cup skipped = legs
    BY <1>1, <1>2
<1>4. \A leg \in legs' \cup skipped' : leg.hash = {} \/ HashOf(leg)
    BY <1>1, <1>3 DEF Hashed
<1>5. InstalledLegs \subseteq legs'
    BY <1>1, <1>2, InstalledAre DEF Enumerated
<1>6. Hashed'
    BY <1>1, <1>4 DEF Hashed, HashOf
<1>7. Enumerated'
    BY <1>1, <1>3, <1>5 DEF Enumerated, IsLeg, LegFor, InstalledLegs, InstalledEntry
<1> QED
    BY <1>6, <1>7

Inv == Typed /\ Narrowed /\ Enumerated /\ Hashed

LEMMA InitInv == Init => Inv
<1>1. Init => pc = "edit"
    BY DEF Init
<1> QED
    BY <1>1, InitTyped DEF Inv, Narrowed, selected, Enumerated, Hashed

LEMMA StepInv == Inv /\ [Next]_vars => Inv'
<1> SUFFICES ASSUME Inv, [Next]_vars PROVE Inv'
    OBVIOUS
<1>1. Typed' /\ Typed
    BY StepTyped DEF Inv
<1>2. ASSUME NEW p \in Paths, NEW c \in Contents \cup {Absent}, Edit(p, c) PROVE Inv'
  <2>1. pc' = "edit"
      BY <1>2 DEF Edit
  <2> QED
      BY <1>1, <2>1 DEF Inv, Narrowed, selected, Enumerated, Hashed
<1>3. CASE Load
  <2>1. pc' \in {"affected", "error"}
      BY <1>3 DEF Load
  <2> QED
      BY <1>1, <2>1 DEF Inv, Narrowed, selected, Enumerated, Hashed
<1>4. CASE Affected
  <2>1. pc' = "legs" /\ Narrowed'
      BY <1>1, <1>4, AffectedTyped DEF Affected
  <2> QED
      BY <1>1, <2>1 DEF Inv, Enumerated, Hashed
<1>5. CASE EnumerateLegs
  <2>1. pc' \in {"hash", "error"} /\ Enumerated' /\ Hashed'
      BY <1>1, <1>5, EnumerateLegged DEF EnumerateLegs
  <2> QED
      BY <1>1, <2>1 DEF Inv, Narrowed, selected
<1>6. CASE Hash
  <2>1. pc' = "memoize" /\ Enumerated' /\ Hashed'
      BY <1>1, <1>6, HashLegged DEF Hash, Inv
  <2> QED
      BY <1>1, <2>1 DEF Inv, Narrowed, selected
<1>7. CASE Memoize
  <2>1. pc' = "done" /\ Enumerated' /\ Hashed'
      BY <1>1, <1>7, MemoizeLegged DEF Memoize, Inv
  <2> QED
      BY <1>1, <2>1 DEF Inv, Narrowed, selected
<1>8. CASE UNCHANGED vars
  <2>1. Narrowed'
      BY <1>8 DEF Inv, Narrowed, selected, vars, repository, workspace, dirs
  <2>2. Enumerated'
      BY <1>8 DEF Inv, Enumerated, vars, repository, workspace, IsLeg, LegFor, InstalledLegs, InstalledEntry
  <2>3. Hashed'
      BY <1>8 DEF Inv, Hashed, vars, repository, workspace, HashOf, nonGlobal
  <2> QED
      BY <1>1, <2>1, <2>2, <2>3 DEF Inv
<1> QED
    BY <1>2, <1>3, <1>4, <1>5, <1>6, <1>7, <1>8 DEF Next

LEMMA Invariance == Spec => []Inv
BY InitInv, StepInv, PTL DEF Spec

\* legs, "coarser, never fewer": every check of an affected module is on a leg
\* that runs or on one that a recorded pass retired, and what the workspace
\* installs runs, whichever modules load.
THEOREM LegsCover == Spec => []EveryCheckHasALeg
<1>1. Inv => EveryCheckHasALeg
    BY DEF Inv, Enumerated, EveryCheckHasALeg, done, LegFor
<1> QED
    BY <1>1, Invariance, PTL


----------------------------------------------------------------------------
(* The selection. *)

\* A context that was not read attributes no less than one that was.
LEMMA UnreadAttributes ==
    ASSUME Typed, NEW cs
    PROVE  LET read == Attribute(cs, dirs, SourceContexts(head, {}))
               known == Attribute(cs, dirs, srcs)
           IN  (read.global => known.global) /\ read.changed \subseteq known.changed
<1> DEFINE all == SourceContexts(head, {})
<1>1. \A d \in DOMAIN srcs : d \in DOMAIN all /\ srcs[d] = all[d]
    BY DEF Typed, TypeOK, Readings, SourceContexts, dirs
<1>2. ASSUME NEW c, NEW d, IsInput(c, d, all) PROVE IsInput(c, d, srcs)
    BY <1>1, <1>2 DEF IsInput
<1>3. ASSUME NEW c, IsGlobal(c, dirs, all) PROVE IsGlobal(c, dirs, srcs)
    BY <1>2, <1>3 DEF IsGlobal
<1> HIDE DEF all
<1>4. (\E c \in cs : IsGlobal(c, dirs, all)) => \E c \in cs : IsGlobal(c, dirs, srcs)
    BY <1>3
<1>5. ASSUME NEW d \in dirs, \E c \in cs : d \in OwningModule(c.path, dirs) /\ IsInput(c, d, all)
      PROVE  \E c \in cs : d \in OwningModule(c.path, dirs) /\ IsInput(c, d, srcs)
    BY <1>2, <1>5
<1>6. Attribute(cs, dirs, all).global => Attribute(cs, dirs, srcs).global
    BY Zenon, <1>4, AttributeIs
<1>7. Attribute(cs, dirs, all).changed \subseteq Attribute(cs, dirs, srcs).changed
    BY <1>5, AttributeIs
<1> QED
    BY <1>6, <1>7 DEF all

LEMMA FaultsSelectMore == ASSUME Inv, selected PROVE FaultsOnlyAddWork
<1> DEFINE true == ChangesBetween(base, head)
           read == Attribute(true, dirs, SourceContexts(head, {}))
           known == Attribute(changes, dirs, srcs)
<1>1. affected = SelectModules(dirs, closures, known) /\ changes \in {true, {}}
    BY DEF Inv, Narrowed, Typed, Readings
<1>2. CASE changes = {}
  <2>1. known.global
      BY Zenon, <1>2, AttributeIs
  <2>2. affected = dirs
      BY Zenon, <1>1, <2>1, SelectedIs
  <2> QED
      BY <2>2, SelectionAre DEF FaultsOnlyAddWork
<1>3. CASE changes = true
  <2>1. (read.global => known.global) /\ read.changed \subseteq known.changed
      BY <1>3, UnreadAttributes DEF Inv
  <2> HIDE DEF read, known
  <2>2. CASE known.global
    <3>1. affected = dirs
        BY Zenon, <1>1, <2>2, SelectedIs
    <3> QED
        BY <3>1, SelectionAre DEF FaultsOnlyAddWork
  <2>3. CASE ~known.global
    <3>1. ~read.global
        BY Zenon, <2>1, <2>3
    <3>2. SelectModules(dirs, closures, read) =
              {d \in dirs : d = Root \/ d \notin DOMAIN closures \/ closures[d] \cap read.changed # {}}
        BY <3>1, SelectedIs
    <3>3. affected = {d \in dirs : d = Root \/ d \notin DOMAIN closures \/ closures[d] \cap known.changed # {}}
        BY <1>1, <2>3, SelectedIs
    <3>4. SelectModules(dirs, closures, read) \subseteq affected
        BY <2>1, <3>2, <3>3
    <3> QED
        BY <3>4 DEF FaultsOnlyAddWork, read
  <2> QED
      BY Zenon, <2>2, <2>3
<1> QED
    BY <1>1, <1>2, <1>3


\* "when we cannot resolve a source context we decline to narrow": a reading that
\* fails, of a context or of the diff, selects no less than a plan that read all.
THEOREM FaultsAdd == Spec => []FaultsOnlyAddWork
<1>1. Inv => FaultsOnlyAddWork
    BY FaultsSelectMore DEF FaultsOnlyAddWork
<1> QED
    BY <1>1, Invariance, PTL

\* Two trees in which the modules that one reaches from d compile the same have
\* the same inputs of d.
LEMMA SameInputs ==
    ASSUME NEW t \in Trees, NEW u \in Trees, NEW d \in Dirs, NEW C, C = ClosureOf(d, ConfigDeps(t)),
           \A e \in C : /\ e \in ModuleDirs(t) /\ e \in ModuleDirs(u)
                        /\ ConfigDeps(t)[e] = ConfigDeps(u)[e]
                        /\ Reads(t, e) = Reads(u, e) /\ \A p \in Reads(t, e) : t[p] = u[p]
    PROVE  d \in ModuleDirs(t) /\ d \in ModuleDirs(u) /\ TrueInputs(t, d) = TrueInputs(u, d)
<1>1. d \in ModuleDirs(t) /\ d \in ModuleDirs(u) /\ Reaches(t, d) = C /\ Reaches(u, d) = C
    BY SameReach DEF Reaches
<1>2. C \cap ModuleDirs(t) = C /\ C \cap ModuleDirs(u) = C
    OBVIOUS
<1>3. \A e \in C : BlobsOf(Reads(t, e), t) = BlobsOf(Reads(u, e), u)
    BY DEF BlobsOf
<1>4. TrueInputs(t, d) = [e \in C |-> BlobsOf(Reads(t, e), t)]
    BY <1>1, <1>2 DEF TrueInputs
<1>5. TrueInputs(u, d) = [e \in C |-> BlobsOf(Reads(u, e), u)]
    BY <1>1, <1>2 DEF TrueInputs
<1> QED
    BY <1>1, <1>3, <1>4, <1>5

\* What a module that is left out reaches is in the closure it was left out by.
LEMMA ReachKnown ==
    ASSUME Typed, pc = "legs", NEW d \in dirs, d \in DOMAIN closures, DependenciesRead(d)
    PROVE  /\ Reaches(head, d) = ClosureOf(d, ConfigDeps(head))
           /\ Reaches(head, d) \subseteq dirs /\ Reaches(head, d) \subseteq closures[d]
<1>1. head \in Trees /\ dirs = ModuleDirs(head) /\ dirs \subseteq Dirs
    BY DEF Typed, TypeOK, dirs, ModuleDirs
<1>2. PICK U : closures = BuildClosures(DependencyGraph(head, U))
    BY DEF Typed, Readings
<1> DEFINE graph == DependencyGraph(head, U)
           whole == DependencyGraph(head, {})
           C == Reaches(head, d)
           S == closures[d] \cap C
<1>3. /\ DOMAIN closures = DOMAIN graph /\ Resolves(head, d)
      /\ \A x \in DOMAIN closures : closures[x] = ClosureOf(x, graph) /\ x \in Dirs
      /\ d \in closures[d] /\ closures[d] \subseteq Dirs
    BY <1>1, <1>2, ClosuresTyped
<1>4. /\ C = ClosureOf(d, ConfigDeps(head)) /\ C \subseteq dirs
    BY <1>1, <1>3, ResolvedReaches DEF Reaches, Resolves
<1>5. /\ \A x \in DOMAIN graph : graph[x] \subseteq Dirs
      /\ \A x \in DOMAIN whole : whole[x] \subseteq Dirs /\ whole[x] \subseteq ConfigDeps(head)[x]
    BY <1>1, GraphRead
<1>6. /\ d \in C /\ Closed(C, whole)
      /\ \A T \in SUBSET Dirs : d \in T /\ Closed(T, whole) => C \subseteq T
    BY <1>1, <1>5, ClosureIs DEF Reaches
<1>7. ASSUME NEW x \in S PROVE ConfigDeps(head)[x] \subseteq closures[d]
  <2>1. x \in DOMAIN closures /\ ConfigDeps(head)[x] \subseteq closures[x]
      BY <1>3, <1>7 DEF DependenciesRead
  <2>2. closures[x] \subseteq closures[d]
    <3>1. x \in ClosureOf(d, graph)
        BY <1>3, <1>7
    <3> HIDE DEF graph
    <3>2. ClosureOf(x, graph) \subseteq ClosureOf(d, graph)
        BY <1>1, <1>5, <3>1, ClosureInside
    <3> QED
        BY <1>3, <2>1, <3>2
  <2> QED
      BY <2>1, <2>2
<1> HIDE DEF graph, whole, C
<1>8. Closed(S, whole)
    BY <1>5, <1>6, <1>7 DEF Closed
<1>9. C \subseteq S
    BY <1>3, <1>6, <1>8
<1> QED
    BY <1>4, <1>9 DEF C

\* A module whose dependencies were read, that no new module was carved out of,
\* and that outranks the root, is left out only when nothing it is compiled from
\* changed: nothing is attributed to a module that it reaches.
LEMMA LeftOutUnchanged ==
    ASSUME Inv, selected, NEW d \in dirs \ affected, DependenciesRead(d), ~CarvedOut(d), ~Outranked(d)
    PROVE  ~InputsChanged(d)
<1> DEFINE C == Reaches(head, d)
           known == Attribute(changes, dirs, srcs)
<1>1. /\ affected = SelectModules(dirs, closures, known) /\ changes \in {ChangesBetween(base, head), {}}
      /\ Typed /\ pc = "legs" /\ base \in Trees /\ head \in Trees /\ dirs = ModuleDirs(head) /\ dirs \subseteq Dirs
      /\ \A x \in DOMAIN srcs : srcs[x] = ContextFiles(head, x)
    BY DEF Inv, Narrowed, selected, Typed, TypeOK, Readings, dirs, ModuleDirs
<1>2. ~known.global
  <2>1. affected = SelectModules(dirs, closures, known)
      BY <1>1
  <2> HIDE DEF known
  <2>2. known.global => SelectModules(dirs, closures, known) = dirs
      BY Zenon, SelectedIs
  <2>3. d \in dirs /\ d \notin affected
      OBVIOUS
  <2> QED
      BY Zenon, <2>1, <2>2, <2>3
<1>3. d \in DOMAIN closures /\ closures[d] \cap known.changed = {}
  <2>1. affected = {x \in dirs : x = Root \/ x \notin DOMAIN closures \/ closures[x] \cap known.changed # {}}
      BY <1>1, <1>2, SelectedIs
  <2> HIDE DEF known
  <2>2. d \in dirs /\ d \notin affected
      OBVIOUS
  <2>3. ~(d = Root \/ d \notin DOMAIN closures \/ closures[d] \cap known.changed # {})
      BY Zenon, <2>1, <2>2
  <2> QED
      BY Zenon, <2>3
<1>4. TellsAll(changes, base, head)
  <2>1. changes # {}
      BY Zenon, <1>2, AttributeIs
  <2>2. changes = ChangesBetween(base, head)
      BY <1>1, <2>1
  <2> QED
      BY <1>1, <2>2, ChangesTyped DEF TellsAll
<1>5. C = ClosureOf(d, ConfigDeps(head)) /\ C \subseteq dirs /\ C \subseteq closures[d]
    BY <1>1, <1>3, ReachKnown
<1>6. \A e \in C : e \notin known.changed
    BY <1>3, <1>5
<1>7. d \in C
  <2>1. DOMAIN ConfigDeps(head) = ModuleDirs(head) /\ \A x \in DOMAIN ConfigDeps(head) : ConfigDeps(head)[x] \subseteq Dirs
      BY <1>1, GraphTyped
  <2> QED
      BY <1>1, <1>5, <2>1, ClosureIs
<1>8. ASSUME NEW e \in C, e # Root, Root \in dirs PROVE DirLength[e] > DirLength[Root]
  <2>1. ~(DirLength[e] <= DirLength[Root]) /\ e \in Dirs
      BY <1>1, <1>5, <1>8 DEF Outranked
  <2>2. DirLength[e] \in Nat /\ DirLength[Root] \in Nat
      BY <2>1, LayoutAssumption
  <2> QED
      BY <2>1, <2>2
<1> HIDE DEF C
\* The exception is of a d that was a module, which d itself shows it was.
<1>9. ASSUME NEW e \in C, d \in ModuleDirs(base) \/ e = d PROVE Uncarved(e, base, head)
    BY <1>1, <1>9 DEF CarvedOut, C, Uncarved
<1>10. ASSUME NEW e \in C, d \in ModuleDirs(base) \/ e = d
       PROVE  /\ e \in ModuleDirs(base) /\ ConfigDeps(base)[e] = ConfigDeps(head)[e]
              /\ Reads(base, e) = Reads(head, e) /\ \A p \in Reads(head, e) : base[p] = head[p]
  <2>1. e \in ModuleDirs(head) /\ e \notin Attribute(changes, ModuleDirs(head), srcs).changed
      BY <1>1, <1>5, <1>6
  <2>2. OutranksRoot(e, head)
      BY <1>1, <1>8 DEF OutranksRoot
  <2>3. base \in Trees /\ head \in Trees /\ ReadFrom(srcs, head)
      BY <1>1 DEF ReadFrom
  <2> HIDE DEF known
  <2> QED
      BY <1>4, <1>9, <1>10, <2>1, <2>2, <2>3, Unattributed
<1>11. TrueInputs(head, d) = TrueInputs(base, d) /\ d \in ModuleDirs(base)
    BY <1>1, <1>5, <1>7, <1>10, SameInputs
<1> QED
    BY <1>11 DEF InputsChanged

\* The guiding rule: a module whose inputs differ is selected, whatever could not
\* be read, but for the three cases the property names.
THEOREM NeverSkips == Spec => []NeverSkipsAffected
<1>1. Inv => NeverSkipsAffected
    BY LeftOutUnchanged DEF NeverSkipsAffected
<1> QED
    BY <1>1, Invariance, PTL


----------------------------------------------------------------------------
(* The passes of the store. *)

\* Why a leg was retired: its hash was recorded, and recorded passes are trusted.
Retired ==
    /\ base \in BaseTrees
    /\ store = "base" => \A leg \in skipped : leg.hash \cap Recorded[base] # {}
    /\ skipped # {} => MemoTrusted(changes, dirs, srcs, nonGlobal)

LEMMA InvRetired == Spec => [](Inv /\ Retired)
<1>1. Init => Inv /\ Retired
    BY InitInv DEF Init, Retired
<1>2. ASSUME Inv, Inv', Retired, [Next]_vars PROVE Retired'
  <2>1. base' = base /\ base \in BaseTrees
      BY <1>2 DEF Retired, Next, vars, repository, Edit, Load, Affected, EnumerateLegs, Hash, Memoize
  <2>2. CASE pc' # "done"
    <3>1. skipped' = {}
        BY <1>2, <2>2 DEF Inv, Typed, Unplanned
    <3> QED
        BY <2>1, <3>1 DEF Retired
  <2>3. CASE UNCHANGED vars
      BY <1>2, <2>3 DEF Retired, vars, repository, workspace, dirs, nonGlobal
  <2>4. CASE Memoize
    <3>1. changes' = changes /\ dirs' = dirs /\ srcs' = srcs /\ nonGlobal' = nonGlobal
        BY <2>4 DEF Memoize, repository, workspace, dirs, nonGlobal
    <3>2. skipped' # {} => MemoTrusted(changes, dirs, srcs, nonGlobal)
        BY <2>4 DEF Memoize
    <3>3. store' = "base" => \A leg \in skipped' : leg.hash \cap Recorded[base] # {}
        BY <2>4 DEF Memoize, MemoSkipped
    <3> QED
        BY <2>1, <3>1, <3>2, <3>3 DEF Retired, MemoTrusted
  <2>5. CASE pc' = "done"
    <3>1. ~(\E p \in Paths, c \in Contents \cup {Absent} : Edit(p, c)) /\ ~Load /\ ~Affected /\ ~EnumerateLegs /\ ~Hash
        BY <2>5 DEF Edit, Load, Affected, EnumerateLegs, Hash
    <3> QED
        BY <1>2, <2>3, <2>4, <3>1 DEF Next
  <2> QED
      BY <2>2, <2>5
<1> QED
    BY <1>1, <1>2, StepInv, PTL DEF Spec

LEMMA TrustedHonours == ASSUME Inv, Retired PROVE GlobalChangeHonoursNoPass
<1> SUFFICES ASSUME Inv, Retired, skipped # {}, NEW c \in changes,
                    c.path \notin {ConfigOf[Root], CoreBinding},
                    c.path \in GlobalPaths \/ (Root \in dirs /\ c.path \in Reads(head, Root))
             PROVE  FALSE
    BY DEF GlobalChangeHonoursNoPass
<1> DEFINE rest == {x \in changes : x.path \notin nonGlobal}
<1>1. c \in rest
    BY DEF nonGlobal, NonGlobalRootPaths
<1>2. ~\E x \in rest : IsGlobal(x, dirs, srcs)
  <2>1. rest = {} \/ ~Attribute(rest, dirs, srcs).global
      BY Zenon DEF Retired, MemoTrusted
  <2>2. ~Attribute(rest, dirs, srcs).global
      BY Zenon, <1>1, <2>1
  <2> HIDE DEF rest
  <2> QED
      BY Zenon, <2>2, AttributeIs
<1>3. Root \in dirs /\ c.path \in Reads(head, Root)
    BY <1>1, <1>2 DEF IsGlobal
<1>4. head \in Trees /\ dirs = ModuleDirs(head) /\ dirs \in SUBSET Dirs
    BY DEF Inv, Typed, TypeOK, dirs, ModuleDirs
<1>5. c.path \in ContextFiles(head, Root) /\ c.path \in Below[Root]
    BY <1>3, <1>4, ReadsTyped
<1>6. Root \in OwningModule(c.path, dirs)
  <2>1. \A m \in dirs : c.path \in Below[m] => Below[Root] \subseteq Below[m]
      BY <1>3, <1>4 DEF Reads
  <2> QED
      BY <1>3, <1>4, <1>5, <2>1, OwnerOf
<1>7. IsInput(c, Root, srcs)
    BY <1>5 DEF IsInput, Inv, Typed, Readings
<1> QED
    BY <1>1, <1>2, <1>6, <1>7 DEF IsGlobal

\* "a global input changed: recorded passes are ignored wholesale".
THEOREM GlobalHonoursNone == Spec => []GlobalChangeHonoursNoPass
<1>1. Inv /\ Retired => GlobalChangeHonoursNoPass
    BY TrustedHonours
<1> QED
    BY <1>1, InvRetired, PTL

LEMMA RetiredUnchanged == ASSUME Inv, Retired PROVE SkipsOnlyUnchangedInputs
<1> SUFFICES ASSUME store = "base", NEW leg \in skipped PROVE ~InputsChanged(leg.module)
    BY DEF SkipsOnlyUnchangedInputs
<1> DEFINE graph == BuildClosures(DependencyGraph(base, {}))
           known == SourceContexts(base, {})
           all == ModuleLegs(ModuleDirs(base), {}) \cup ModuleLegs(ModuleDirs(base), ModuleDirs(base))
           ng == NonGlobalRootPaths(Root \in ModuleDirs(base))
           d == leg.module
           K == closures[d]
<1>1. base \in Trees /\ head \in Trees /\ base \in BaseTrees
    BY DEF Inv, Typed, TypeOK, Retired
<1>2. pc = "done" /\ leg.hash \cap Recorded[base] # {} /\ leg \in legs \cup skipped
    BY DEF Inv, Typed, Unplanned, Retired
<1>3. /\ \A e \in K : ModuleHashable(e, srcs, blobs)
      /\ blobs = head
      /\ \E g : leg.hash = {CheckHash(leg, K, g, srcs, head)}
  <2>1. HashOf(leg)
      BY <1>2 DEF Inv, Hashed
  <2> QED
      BY <2>1 DEF HashOf
<1>4. PICK new \in HashLegs(all, graph, known, base, ng) : leg.hash \cap new.hash # {}
    BY <1>1, <1>2 DEF Recorded
<1>5. Unstamped(all)
    BY LegsOf DEF LegOf, Unstamped
<1> HIDE DEF all, graph, known, ng
<1>6. PICK other \in all : StampedFrom(new.hash, other, graph, known, base, ng)
  <2>1. new.hash # {}
      BY <1>4
  <2> QED
      BY <1>4, <1>5, <2>1, HashLegsAre
<1>7. /\ other.module = d /\ graph[d] = K
      /\ \A e \in K : known[e] = srcs[e] /\ \A p \in known[e] : base[p] = head[p]
  <2>1. PICK g : leg.hash = {CheckHash(leg, K, g, srcs, head)}
      BY <1>3
  <2>2. CheckHash(other, graph[other.module], GlobalHash(graph, known, base, ng), known, base)
            = CheckHash(leg, K, g, srcs, head)
      BY <1>4, <1>6, <2>1 DEF StampedFrom
  <2> QED
      BY <2>2, SameHash
<1>8. d \in ModuleDirs(base) /\ Resolves(base, d) /\ K = ClosureOf(d, DependencyGraph(base, {}))
    BY <1>1, <1>6, <1>7, ClosuresTyped DEF graph, StampedFrom
<1>9. K = ClosureOf(d, ConfigDeps(base)) /\ K \subseteq ModuleDirs(base) /\ d \in Dirs
    BY <1>1, <1>8, ResolvedReaches DEF Resolves, ModuleDirs
<1>10. ASSUME NEW e \in K
       PROVE  /\ e \in ModuleDirs(base) /\ e \in ModuleDirs(head)
              /\ ConfigDeps(base)[e] = ConfigDeps(head)[e]
              /\ Reads(base, e) = Reads(head, e) /\ \A p \in Reads(base, e) : base[p] = head[p]
  <2>1. e \in ModuleDirs(base) /\ e \in ModuleDirs(head) /\ srcs[e] = ContextFiles(head, e)
      BY <1>3, <1>9 DEF ModuleHashable, Inv, Typed, TypeOK, Readings, dirs
  <2>2. known[e] = ContextFiles(base, e)
      BY <2>1 DEF known, SourceContexts
  <2>3. ContextFiles(base, e) = ContextFiles(head, e) /\ \A p \in ContextFiles(base, e) : base[p] = head[p]
      BY <1>7, <2>1, <2>2
  <2>4. ConfigDeps(base)[e] = ConfigDeps(head)[e] /\ Reads(base, e) \subseteq Reads(head, e)
      BY <1>1, <2>1, <2>3, SameReads
  <2>5. Reads(head, e) \subseteq Reads(base, e)
      BY <1>1, <2>1, <2>3, SameReads
  <2>6. Reads(base, e) \subseteq ContextFiles(base, e)
      BY <1>1, <2>1, ReadsTyped
  <2> QED
      BY <2>1, <2>3, <2>4, <2>5, <2>6
<1>11. d \in ModuleDirs(base) /\ TrueInputs(base, d) = TrueInputs(head, d)
    BY <1>1, <1>9, <1>10, SameInputs
<1> QED
    BY <1>11 DEF InputsChanged

\* A pass recorded on the base retires a leg only where the inputs of its module
\* are the same, whatever could not be read while planning.
THEOREM SkipsUnchanged == Spec => []SkipsOnlyUnchangedInputs
<1>1. Inv /\ Retired => SkipsOnlyUnchangedInputs
    BY RetiredUnchanged
<1> QED
    BY <1>1, InvRetired, PTL
============================================================================
