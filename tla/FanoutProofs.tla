---------------------------- MODULE FanoutProofs ----------------------------
(***************************************************************************)
(* That the bounded fail-fast scheduler keeps its promises for any number  *)
(* of units, any bound and any interleaving of failures and cancellation.  *)
(*                                                                         *)
(* What a cancelled context means is the heart of the argument: either the *)
(* first error is recorded or the caller cancelled (Causes), and no unit   *)
(* passes its second look any more (Committed).  Which item a worker of    *)
(* RunSlices reads is at the end, under Slices.                            *)
(***************************************************************************)
EXTENDS RunSlices, FiniteSetTheorems, WellFoundedInduction, TLAPS

Slots == Cardinality(Holders) <= Bound

Causes ==
    /\ first # {} => ctxDone
    /\ ctxDone => first # {} \/ callerDone
    /\ callerDone => ctxDone
    /\ \A u \in Units : At(u, "yielding") => ctxDone
    /\ FirstFailureIsACause

Committed == ctxDone => \A u \in Units : At(u, "cleared") => u \in committed

\* A unit that gave up did so because of a cause, and every other one that is
\* over left its result.
Accounted ==
    \A u \in Units : pc[u] \in {"releasing", "done"} =>
        u \in results \/ first # {} \/ callerDone

Waited == caller = "returned" => \A u \in Units : At(u, "done")

Inv == TypeOK /\ Slots /\ Causes /\ Committed /\ Accounted /\ Waited

----------------------------------------------------------------------------
(* Slots. *)

LEMMA BoundIsPositive == Bound \in Nat /\ Bound >= 1
BY FanoutAssumption DEF Bound

LEMMA HoldersFinite == IsFiniteSet(Holders) /\ Cardinality(Holders) \in Nat
<1>1. Holders \in SUBSET Units
    BY DEF Holders
<1> QED
    BY <1>1, FanoutAssumption, FS_Subset, FS_CardinalityType

\* A step that lets no unit in keeps within the bound.
LEMMA NoNewHolder == ASSUME Slots, Holders' \subseteq Holders PROVE Slots'
<1>1. Cardinality(Holders') <= Cardinality(Holders) /\ Cardinality(Holders') \in Nat
    BY HoldersFinite, FS_Subset, FS_CardinalityType
<1>2. Bound' = Bound
    BY DEF Bound
<1> QED
    BY <1>1, <1>2, HoldersFinite, BoundIsPositive DEF Slots

LEMMA TakeSlotSlots == ASSUME TypeOK, Slots, NEW u \in Units, TakeSlot(u) PROVE Slots'
<1>1. Holders' = Holders \cup {u} /\ u \notin Holders
    BY DEF TypeOK, TakeSlot, At, Goto, Holders
<1>2. Cardinality(Holders') = Cardinality(Holders) + 1
    BY <1>1, HoldersFinite, FS_AddElement
<1>3. Cardinality(Holders) < Bound
    BY DEF TakeSlot
<1>4. Bound' = Bound
    BY DEF Bound
<1> QED
    BY <1>2, <1>3, <1>4, HoldersFinite, BoundIsPositive DEF Slots

LEMMA StepSlots == ASSUME TypeOK, Slots, Next PROVE Slots'
<1>1. ASSUME NEW u \in Units, UnitStep(u), ~TakeSlot(u) PROVE Holders' \subseteq Holders
    BY <1>1 DEF UnitStep, SeeDone, SecondLook, CallRun, Succeed, Break, Yield, Record, Release,
               TypeOK, At, Goto, Holders
<1>2. ASSUME Return \/ CallerCancels PROVE Holders' \subseteq Holders
    BY <1>2 DEF Return, CallerCancels, Holders
<1> QED
    BY <1>1, <1>2, TakeSlotSlots, NoNewHolder DEF Next, UnitStep

----------------------------------------------------------------------------
(* Types. *)

LEMMA CancelTyped == ASSUME TypeOK, Cancel PROVE ctxDone' \in BOOLEAN /\ committed' \subseteq Units
BY DEF TypeOK, Cancel

LEMMA RecordTyped == ASSUME TypeOK, NEW u \in Units, Record(u) PROVE TypeOK'
<1>1. CASE first = {}
  <2>1. first' = {Error(u)} /\ Cancel
      BY <1>1 DEF Record
  <2>2. Error(u) \in [unit : Units, own : BOOLEAN]
      BY DEF Error, At
  <2>3. Cardinality(first') = 1
      BY <2>1, FS_Singleton
  <2>4. pc' \in [Units -> Lines]
      BY DEF Record, Goto, TypeOK, Lines
  <2>5. UNCHANGED <<callerDone, results, caller, started, together>>
      BY DEF Record
  <2> QED
      BY <2>1, <2>2, <2>3, <2>4, <2>5, CancelTyped DEF TypeOK
<1>2. CASE first # {}
    BY <1>2 DEF Record, Goto, TypeOK, Lines
<1> QED
    BY <1>1, <1>2

LEMMA StepTyped == ASSUME TypeOK, Next PROVE TypeOK'
<1>1. ASSUME NEW u \in Units, UnitStep(u), ~Record(u) PROVE TypeOK'
    BY <1>1 DEF UnitStep, TakeSlot, SeeDone, SecondLook, CallRun, Succeed, Break, Yield, Release,
               TypeOK, At, Goto, Lines
<1>2. ASSUME Return PROVE TypeOK'
    BY <1>2 DEF Return, TypeOK
<1>3. ASSUME CallerCancels PROVE TypeOK'
    BY <1>3, CancelTyped DEF CallerCancels, TypeOK
<1> QED
    BY <1>1, <1>2, <1>3, RecordTyped DEF Next

----------------------------------------------------------------------------
(* The invariant. *)

LEMMA InitInv == Init => Inv
<1> SUFFICES ASSUME Init PROVE Inv
    OBVIOUS
<1>1. Holders = {}
    BY DEF Init, Holders
<1>2. Slots
    BY <1>1, FS_EmptySet, BoundIsPositive DEF Slots
<1>3. TypeOK
  <2>1. Cardinality(first) <= 1
      BY FS_EmptySet DEF Init
  <2> QED
      BY <2>1 DEF Init, TypeOK, Lines
<1> QED
    BY <1>2, <1>3 DEF Init, Inv, Causes, Committed, Accounted, Waited, At, FirstFailureIsACause

\* The steps of a unit that neither cancel nor record anything.
LEMMA QuietInv ==
    ASSUME Inv, NEW u \in Units,
           \/ TakeSlot(u) \/ SeeDone(u) \/ SecondLook(u) \/ CallRun(u)
           \/ Succeed(u) \/ Break(u) \/ Yield(u) \/ Release(u)
    PROVE  Causes' /\ Committed' /\ Accounted' /\ Waited'
<1>1. pc \in [Units -> Lines]
    BY DEF Inv, TypeOK
<1>2. UNCHANGED <<ctxDone, callerDone, first, caller, committed>>
    BY DEF TakeSlot, SeeDone, SecondLook, CallRun, Succeed, Break, Yield, Release
<1>3. \A x \in Units \ {u} : pc'[x] = pc[x]
    BY <1>1 DEF TakeSlot, SeeDone, SecondLook, CallRun, Succeed, Break, Yield, Release, Goto
<1>4. pc[u] # "done"
    BY DEF TakeSlot, SeeDone, SecondLook, CallRun, Succeed, Break, Yield, Release, At
<1>5. Waited'
    BY <1>2, <1>4 DEF Inv, Waited, At
<1>6. pc'[u] = "yielding" => ctxDone
    BY <1>1 DEF TakeSlot, SeeDone, SecondLook, CallRun, Succeed, Break, Yield, Release, At, Goto
<1>7. Causes'
    BY <1>2, <1>3, <1>6 DEF Inv, Causes, At, FirstFailureIsACause
<1>8. pc'[u] = "cleared" => ~ctxDone
    BY <1>1 DEF TakeSlot, SeeDone, SecondLook, CallRun, Succeed, Break, Yield, Release, At, Goto
<1>9. Committed'
    BY <1>2, <1>3, <1>8 DEF Inv, Committed, At
<1>10. results \subseteq results'
    BY DEF TakeSlot, SeeDone, SecondLook, CallRun, Succeed, Break, Yield, Release
<1>11. pc'[u] \in {"releasing", "done"} => pc[u] = "releasing" \/ ctxDone \/ u \in results'
    BY <1>1 DEF TakeSlot, SeeDone, SecondLook, CallRun, Succeed, Break, Yield, Release, At, Goto
<1>12. Accounted'
    BY <1>2, <1>3, <1>10, <1>11 DEF Inv, Accounted, Causes
<1> QED
    BY <1>5, <1>7, <1>9, <1>12

\* Whoever cancels, the units past their second look are committed.
LEMMA CancelCommitted ==
    ASSUME Inv, Cancel, \A u \in Units : pc'[u] = "cleared" => pc[u] = "cleared"
    PROVE  Committed'
BY DEF Inv, Committed, Cancel, At

LEMMA RecordInv ==
    ASSUME Inv, NEW u \in Units, Record(u)
    PROVE  Causes' /\ Committed' /\ Accounted' /\ Waited'
<1>1. pc \in [Units -> Lines] /\ UNCHANGED <<callerDone, results, caller>>
    BY DEF Inv, TypeOK, Record
<1>2. pc'[u] = "releasing" /\ \A x \in Units \ {u} : pc'[x] = pc[x]
    BY <1>1 DEF Record, Goto
<1>3. pc[u] \in {"failing", "yielding"}
    BY DEF Record
<1>4. Waited'
    BY <1>1, <1>3 DEF Inv, Waited, At
<1>5. first' # {} /\ ctxDone'
    BY DEF Record, Cancel, Inv, Causes
<1>6. FirstFailureIsACause'
  <2>1. CASE first = {}
    <3>1. first' = {Error(u)}
        BY <2>1 DEF Record
    <3>2. Error(u).own \/ callerDone
        BY <1>3, <2>1 DEF Error, At, Inv, Causes
    <3> QED
        BY <1>1, <3>1, <3>2 DEF FirstFailureIsACause
  <2>2. CASE first # {}
      BY <1>1, <2>2 DEF Record, Inv, Causes, FirstFailureIsACause
  <2> QED
      BY <2>1, <2>2
<1>7. Causes'
    BY <1>5, <1>6 DEF Causes
<1>8. Committed'
  <2>1. CASE first = {}
      BY <1>2, <2>1, CancelCommitted DEF Record
  <2>2. CASE first # {}
      BY <1>2, <2>2 DEF Record, Inv, Committed, At
  <2> QED
      BY <2>1, <2>2
<1>9. Accounted'
    BY <1>5 DEF Accounted
<1> QED
    BY <1>4, <1>7, <1>8, <1>9

LEMMA CallerInv ==
    ASSUME Inv, Return \/ CallerCancels
    PROVE  Causes' /\ Committed' /\ Accounted' /\ Waited'
<1>1. CASE Return
    BY <1>1 DEF Return, Inv, Causes, Committed, Accounted, Waited, At, FirstFailureIsACause
<1>2. CASE CallerCancels
  <2>1. Committed'
      BY <1>2, CancelCommitted DEF CallerCancels
  <2>2. ctxDone' /\ callerDone' /\ UNCHANGED <<pc, first, results, caller>>
      BY <1>2 DEF CallerCancels, Cancel
  <2>3. Causes' /\ Accounted' /\ Waited'
      BY <2>2 DEF Inv, Causes, Accounted, Waited, At, FirstFailureIsACause
  <2> QED
      BY <2>1, <2>3
<1> QED
    BY <1>1, <1>2

LEMMA StepInv == Inv /\ [Next]_vars => Inv'
<1> SUFFICES ASSUME Inv, [Next]_vars PROVE Inv'
    OBVIOUS
<1>1. CASE UNCHANGED vars
    BY <1>1 DEF vars, Inv, TypeOK, Slots, Holders, Bound, Causes, Committed, Accounted, Waited, At,
               FirstFailureIsACause
<1>2. CASE Next
  <2>1. TypeOK' /\ Slots'
      BY <1>2, StepTyped, StepSlots DEF Inv
  <2>2. Causes' /\ Committed' /\ Accounted' /\ Waited'
      BY <1>2, QuietInv, RecordInv, CallerInv DEF Next, UnitStep
  <2> QED
      BY <2>1, <2>2 DEF Inv
<1> QED
    BY <1>1, <1>2

LEMMA AlwaysInv == Spec => []Inv
BY InitInv, StepInv, PTL DEF Spec

----------------------------------------------------------------------------

\* Goroutines stay on the lines of Run, and one error at most is ever recorded.
THEOREM TypeCorrect == Spec => []TypeOK
<1>1. Inv => TypeOK
    BY DEF Inv
<1> QED
    BY <1>1, AlwaysInv, PTL

\* No more units than the bound are ever in flight, for any bound asked for:
\* one in flight holds a slot, and slots are never more than the bound.
THEOREM BoundHolds == Spec => []BoundIsACeiling
<1>1. ASSUME Inv PROVE BoundIsACeiling
  <2>1. InFlight \in SUBSET Holders
      BY DEF InFlight, Holders
  <2>2. Cardinality(InFlight) <= Cardinality(Holders) /\ Cardinality(InFlight) \in Nat
      BY <2>1, HoldersFinite, FS_Subset, FS_CardinalityType
  <2> QED
      BY <1>1, <2>2, HoldersFinite, BoundIsPositive DEF Inv, Slots, BoundIsACeiling
<1> QED
    BY <1>1, AlwaysInv, PTL

\* After a failure or a cancellation only committed units start.
THEOREM FailureStopsTheRest == Spec => NothingStartsAfterFailure
<1>1. Inv /\ [Next]_vars => [ctxDone => started' \ started \subseteq committed]_vars
  <2> SUFFICES ASSUME Inv, Next, ctxDone PROVE started' \ started \subseteq committed
      OBVIOUS
  <2>1. ASSUME NEW u \in Units, CallRun(u) PROVE started' \ started \subseteq committed
      BY <2>1 DEF CallRun, Inv, Committed
  <2>2. ASSUME NEW u \in Units, UnitStep(u), ~CallRun(u) PROVE started' = started
      BY <2>2 DEF UnitStep, TakeSlot, SeeDone, SecondLook, Succeed, Break, Yield, Record, Release
  <2>3. ASSUME Return \/ CallerCancels PROVE started' = started
      BY <2>3 DEF Return, CallerCancels
  <2> QED
      BY <2>1, <2>2, <2>3 DEF Next
<1> QED
    BY <1>1, AlwaysInv, PTL DEF Spec, NothingStartsAfterFailure

\* The error reported is a unit's own unless the caller cancelled.
THEOREM CauseIsReported == Spec => []FirstFailureIsACause
<1>1. Inv => FirstFailureIsACause
    BY DEF Inv, Causes
<1> QED
    BY <1>1, AlwaysInv, PTL

\* When Run returns, nothing of it is left running.
THEOREM ReturnIsFinal == Spec => []NothingRunsAfterReturn
<1>1. Inv => NothingRunsAfterReturn
    BY DEF Inv, Waited, NothingRunsAfterReturn, InFlight, At
<1> QED
    BY <1>1, AlwaysInv, PTL

\* No error, and no cancellation by the caller, means every result is there.
THEOREM NilMeansWhole == Spec => []NilIsWhole
<1>1. Inv => NilIsWhole
    BY DEF Inv, TypeOK, Waited, Accounted, NilIsWhole, At
<1> QED
    BY <1>1, AlwaysInv, PTL

----------------------------------------------------------------------------
(* Slices. *)

\* Every set of naturals that is not empty has a least element: what there is of
\* induction here.
LEMMA Least ==
    ASSUME NEW T \in SUBSET Nat, T # {}
    PROVE  \E n \in T : \A m \in T : n <= m
<1> DEFINE R == OpToRel(<, Nat)
<1>1. IsWellFoundedOn(R, Nat)
    BY NatLessThanWellFounded
<1>2. \A x, y \in Nat : x < y => <<x, y>> \in R
    BY DEF OpToRel
<1> HIDE DEF R
<1>3. \E n \in T : \A m \in T : <<m, n>> \notin R
    BY <1>1, WFMin
<1>4. PICK n \in T : \A m \in T : <<m, n>> \notin R
    BY <1>3
<1>5. ASSUME NEW m \in T PROVE n <= m
  <2>1. m \in Nat /\ n \in Nat /\ <<m, n>> \notin R
      BY <1>4
  <2>2. ~(m < n)
      BY <1>2, <2>1
  <2> QED
      BY <2>1, <2>2
<1> QED
    BY <1>5

LEMMA Division ==
    ASSUME NEW a \in Nat, NEW n \in Nat \ {0}
    PROVE  a \div n \in Nat /\ (a % n) \in 0 .. n - 1 /\ a = ((a \div n) * n) + (a % n)
OBVIOUS

LEMMA ProductNext == ASSUME NEW a \in Int, NEW n \in Int PROVE (a + 1) * n = (a * n) + n
OBVIOUS

\* Of sizes q, and one more for the first r slices, the slice i starts here.
Offset(q, r, i) == ((i - 1) * q) + (IF i - 1 < r THEN i - 1 ELSE r)

LEMMA OffsetNext ==
    ASSUME NEW q \in Nat, NEW r \in Nat, NEW i \in Nat \ {0}
    PROVE  /\ Offset(q, r, i) \in Nat /\ Offset(q, r, 1) = 0
           /\ Offset(q, r, i + 1) = Offset(q, r, i) + (q + (IF i <= r THEN 1 ELSE 0))
<1>1. (i + 1) - 1 = (i - 1) + 1 /\ i - 1 \in Nat
    OBVIOUS
<1>2. ((i - 1) + 1) * q = ((i - 1) * q) + q
    BY <1>1
<1>3. (i - 1) * q \in Nat /\ (1 - 1) * q = 0
    BY <1>1
<1> DEFINE p == (i - 1) * q
<1>4. ((i + 1) - 1) * q = p + q
    BY <1>1, <1>2
<1>5. /\ Offset(q, r, i) = p + (IF i - 1 < r THEN i - 1 ELSE r)
      /\ Offset(q, r, i + 1) = (p + q) + (IF (i + 1) - 1 < r THEN (i + 1) - 1 ELSE r)
    BY <1>4 DEF Offset
<1>6. Offset(q, r, 1) = 0
    BY <1>3 DEF Offset
<1> HIDE DEF p
<1>7. p \in Nat
    BY <1>3 DEF p
<1> QED
    BY <1>5, <1>6, <1>7

FollowOn(f, q, r, n) ==
    \A i \in 1 .. n : f[i] = IF i = 1 THEN 0 ELSE f[i - 1] + (q + (IF i - 1 <= r THEN 1 ELSE 0))

\* Starts that follow one another by these sizes are there.
LEMMA Starts ==
    ASSUME NEW q \in Nat, NEW r \in Nat, NEW n \in Nat, NEW f, FollowOn(f, q, r, n)
    PROVE  \A i \in 1 .. n : f[i] = Offset(q, r, i)
<1> DEFINE T == {i \in 1 .. n : f[i] # Offset(q, r, i)}
<1>1. SUFFICES ASSUME T # {} PROVE FALSE
    OBVIOUS
<1>2. PICK i \in T : \A m \in T : i <= m
  <2>1. T \in SUBSET Nat
      OBVIOUS
  <2> HIDE DEF T
  <2> QED
      BY <1>1, <2>1, Least
<1>3. i \in 1 .. n /\ f[i] # Offset(q, r, i)
    OBVIOUS
<1>4. i # 1
  <2>1. Offset(q, r, 1) = 0
      BY OffsetNext
  <2>2. i = 1 => f[i] = 0
      BY <1>3 DEF FollowOn
  <2> QED
      BY <1>3, <2>1, <2>2
<1>5. i - 1 \in 1 .. n /\ i - 1 \in Nat \ {0} /\ i - 1 \notin T
    BY <1>2, <1>3, <1>4
<1>6. f[i - 1] = Offset(q, r, i - 1)
    BY <1>5
<1>7. f[i] = f[i - 1] + (q + (IF i - 1 <= r THEN 1 ELSE 0))
    BY <1>3, <1>4 DEF FollowOn
<1>8. Offset(q, r, (i - 1) + 1) = Offset(q, r, i - 1) + (q + (IF i - 1 <= r THEN 1 ELSE 0))
    BY <1>5, OffsetNext
<1>9. (i - 1) + 1 = i
    BY <1>3
<1> QED
    BY <1>3, <1>6, <1>7, <1>8, <1>9

LEMMA SizesAre ==
    ASSUME NEW count \in Nat \ {0}, NEW workers \in Int
    PROVE  LET n == Slices(count, workers)
               q == count \div n
               r == count % n
           IN  /\ n \in 1 .. count /\ n <= (IF workers < 1 THEN 1 ELSE workers)
               /\ q \in Nat \ {0} /\ r \in 0 .. n - 1 /\ count = (q * n) + r
               /\ \A i : Size(count, workers, i) = q + (IF i <= r THEN 1 ELSE 0)
<1> DEFINE n == Slices(count, workers)
           q == count \div n
           r == count % n
<1>1. n \in 1 .. count /\ n <= (IF workers < 1 THEN 1 ELSE workers)
    BY DEF Slices
<1>2. \A i : Size(count, workers, i) = q + (IF i <= r THEN 1 ELSE 0)
    BY DEF Size
<1> HIDE DEF n
<1>3. q \in Nat /\ r \in 0 .. n - 1 /\ count = (q * n) + r
    BY <1>1, Division
<1>4. q # 0
  <2>1. SUFFICES ASSUME q = 0 PROVE FALSE
      OBVIOUS
  <2>2. 0 * n = 0
      BY <1>1
  <2> HIDE DEF q, r
  <2> QED
      BY <1>1, <1>3, <2>1, <2>2
<1> QED
    BY <1>1, <1>2, <1>3, <1>4 DEF n

\* Partition cuts [0, count) into slices that follow one another.
LEMMA PartitionIs ==
    ASSUME NEW count \in Nat, NEW workers \in Int
    PROVE  /\ Covers(Partition(count, workers), count)
           /\ Len(Partition(count, workers)) <= (IF workers < 1 THEN 1 ELSE workers)
<1> DEFINE slices == Partition(count, workers)
           n == Slices(count, workers)
           q == count \div n
           r == count % n
           start == CHOOSE f : f = [i \in 1 .. n |-> IF i = 1 THEN 0 ELSE f[i - 1] + Size(count, workers, i - 1)]
<1>1. CASE count = 0
  <2>1. slices = <<>>
      BY <1>1 DEF Partition
  <2>2. DOMAIN slices = {} /\ Len(slices) = 0
      BY <2>1
  <2> QED
      BY <1>1, <2>1, <2>2 DEF Covers
<1>2. CASE count # 0
  <2>1. slices = [i \in 1 .. n |-> [start |-> start[i], end |-> start[i] + Size(count, workers, i)]]
      BY <1>2 DEF Partition
  <2>2. /\ n \in 1 .. count /\ n <= (IF workers < 1 THEN 1 ELSE workers)
        /\ q \in Nat \ {0} /\ r \in 0 .. n - 1 /\ count = (q * n) + r
        /\ \A i : Size(count, workers, i) = q + (IF i <= r THEN 1 ELSE 0)
      BY <1>2, SizesAre
  <2> HIDE DEF n, q, r, slices
  <2>3. q \in Nat /\ r \in Nat /\ n \in Nat \ {0}
      BY <2>2
  <2>4. start = [i \in 1 .. n |-> IF i = 1 THEN 0 ELSE start[i - 1] + Size(count, workers, i - 1)]
    <3> DEFINE g == [i \in 1 .. n |-> Offset(q, r, i)]
    <3>1. ASSUME NEW i \in 1 .. n, i # 1 PROVE g[i] = g[i - 1] + Size(count, workers, i - 1)
      <4>1. i - 1 \in 1 .. n /\ i - 1 \in Nat \ {0} /\ (i - 1) + 1 = i
          BY <2>2, <3>1
      <4>2. Offset(q, r, (i - 1) + 1) = Offset(q, r, i - 1) + (q + (IF i - 1 <= r THEN 1 ELSE 0))
          BY <2>3, <4>1, OffsetNext
      <4>3. g[i] = Offset(q, r, i) /\ g[i - 1] = Offset(q, r, i - 1)
          BY <4>1
      <4>4. Size(count, workers, i - 1) = q + (IF i - 1 <= r THEN 1 ELSE 0)
          BY <2>2
      <4> HIDE DEF g
      <4> QED
          BY <4>1, <4>2, <4>3, <4>4
    <3>2. 1 \in 1 .. n => g[1] = 0
        BY <2>2, OffsetNext
    <3>3. \A i \in 1 .. n : g[i] = IF i = 1 THEN 0 ELSE g[i - 1] + Size(count, workers, i - 1)
        BY <3>1, <3>2
    <3>4. g = [i \in 1 .. n |-> IF i = 1 THEN 0 ELSE g[i - 1] + Size(count, workers, i - 1)]
        BY <3>3
    <3> HIDE DEF g
    <3> QED
        BY Zenon, <3>4
  <2> HIDE DEF start
  <2>5. \A i \in 1 .. n : start[i] = Offset(q, r, i)
    <3>1. FollowOn(start, q, r, n)
        BY <2>2, <2>4 DEF FollowOn
    <3> QED
        BY <2>3, <3>1, Starts
  <2>6. ASSUME NEW i \in 1 .. n PROVE start[i] \in Nat /\ Size(count, workers, i) \in Nat \ {0}
    <3>1. i \in Nat \ {0} /\ start[i] = Offset(q, r, i)
        BY <2>3, <2>5
    <3>2. Offset(q, r, i) \in Nat
        BY <2>3, <3>1, OffsetNext
    <3>3. Size(count, workers, i) = q + (IF i <= r THEN 1 ELSE 0)
        BY <2>2
    <3> QED
        BY <2>2, <3>1, <3>2, <3>3
  <2>7. start[n] + Size(count, workers, n) = count
    <3>1. Offset(q, r, n) = ((n - 1) * q) + r /\ Size(count, workers, n) = q
        BY <2>2 DEF Offset
    <3>2. ((n - 1) * q) + q = q * n
      <4>1. n - 1 \in Int /\ q \in Int /\ (n - 1) + 1 = n
          BY <2>2
      <4>2. ((n - 1) + 1) * q = ((n - 1) * q) + q
          BY <4>1, ProductNext
      <4>3. n * q = q * n
          BY <4>1
      <4> QED
          BY <4>1, <4>2, <4>3
    <3>3. (n - 1) * q \in Nat /\ q * n \in Nat
      <4>1. n - 1 \in Nat /\ q \in Nat /\ n \in Nat
          BY <2>2
      <4> QED
          BY <4>1
    <3>4. start[n] = Offset(q, r, n)
        BY <2>2, <2>5
    <3> QED
        BY <2>2, <3>1, <3>2, <3>3, <3>4
  <2>8. DOMAIN slices = 1 .. n /\ Len(slices) = n /\ slices # <<>>
    <3>1. DOMAIN slices = 1 .. n
        BY <2>1
    <3>2. Len(slices) = n
        BY <2>1, <2>3
    <3>3. 1 \in DOMAIN slices
        BY <2>3, <3>1
    <3> QED
        BY <3>1, <3>2, <3>3
  <2>9. \A i \in 1 .. n : /\ slices[i].start = start[i]
                          /\ slices[i].end = start[i] + Size(count, workers, i)
      BY <2>1
  <2>10. ASSUME NEW i \in DOMAIN slices
        PROVE  /\ slices[i].start = IF i = 1 THEN 0 ELSE slices[i - 1].end
               /\ slices[i].start < slices[i].end
    <3>1. i \in 1 .. n
        BY <2>8
    <3>2. slices[i].start < slices[i].end
        BY <2>6, <2>9, <3>1
    <3>3. i # 1 => i - 1 \in 1 .. n
        BY <2>2, <3>1
    <3>4. start[i] = IF i = 1 THEN 0 ELSE start[i - 1] + Size(count, workers, i - 1)
        BY <2>4, <3>1
    <3> QED
        BY <2>9, <3>1, <3>2, <3>3, <3>4
  <2>11. slices[Len(slices)].end = count
      BY <2>2, <2>7, <2>8, <2>9
  <2>12. Covers(slices, count)
      BY <2>8, <2>10, <2>11 DEF Covers
  <2> QED
      BY <2>2, <2>8, <2>12 DEF slices
<1> QED
    BY <1>1, <1>2

\* When every unit has answered, the answers are of all the items, at any count
\* and any bound.
THEOREM SlicesCover == Spec => []AnswerCoversTheItems
<1>1. AnswerCoversTheItems
  <2>1. \A count \in 0 .. MaxItems, workers \in -1 .. MaxItems + 1 : count \in Nat /\ workers \in Int
      BY RunSlicesAssumption
  <2> QED
      BY <2>1, PartitionIs DEF AnswerCoversTheItems
<1> QED
    BY <1>1, PTL

=============================================================================
