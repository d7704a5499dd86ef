--------------------------- MODULE RefStoreProofs ---------------------------
(***************************************************************************)
(* That the memoization store keeps its promises for any number of runs,   *)
(* refs, hashes and instants, and any TTL.                                 *)
(*                                                                         *)
(* Listing and creating are two requests, so the argument is about what a  *)
(* call knows when it posts (Called): whatever entries of its hash are     *)
(* there were created since it took its stamp.                             *)
(***************************************************************************)
EXTENDS RefStore, TLAPS

Same(e, x) == e.ref = x.ref /\ e.hash = x.hash

\* What is true of a call x when the checks ps have passed and the entries es
\* are there at the time t.
Called(x, ps, es, t) ==
    /\ x.pc = "passed" => \E p \in ps : Same(p, x) /\ p.at <= t
    /\ x.pc \in {"listing", "posting"} =>
           /\ x.hash # NoHash /\ x.ref \in x.memoRefs /\ x.at <= t
           /\ \E p \in ps : Same(p, x) /\ p.at <= x.at
    /\ x.pc = "posting" => \A e \in es : Same(e, x) => x.at <= e.created
    /\ x.outcome # "none" => x.pc = "done"
    /\ x.outcome = "RECORDED" => \E e \in es : Same(e, x) /\ e.at = x.at /\ e.created <= x.end
    /\ x.outcome = "ALREADY_RECORDED" => \E e \in es : Same(e, x)
    /\ x.outcome = "REFUSED" => x.ref \notin x.memoRefs
    /\ x.outcome = "SKIPPED" => x.hash = NoHash

Stamped == \A e \in refs : e.at <= e.created /\ e.created <= now

\* A scope that was read gave up what it held when the plan began.
Read(p, es) ==
    /\ p.pc = "idle" => p.known = {}
    /\ p.pc = "done" => p.unread = {}
    /\ p.unread \subseteq p.memoRefs
    /\ \A e \in es :
           /\ p.pc # "idle" /\ e.ref \in p.memoRefs \ (p.unread \cup p.failed)
           /\ e.created < p.at /\ e.at >= p.at - TTL
           => e.hash \in p.known

Inv ==
    /\ TypeOK
    /\ \A r \in Runs : Called(rec[r], passes, refs, now)
    /\ Stamped /\ EntriesAreEarned /\ NeverRefreshed
    /\ plan.at <= now /\ Read(plan, refs) /\ HonouredIsTrustedAndFresh

----------------------------------------------------------------------------
(* Calls. *)

LEMMA InitInv == Init => Inv
<1> SUFFICES ASSUME Init PROVE Inv
    OBVIOUS
<1>1. 0 \in Time
    BY StoreAssumption DEF Time
<1>2. rec \in [Runs -> Record] /\ plan \in Plan
    BY DEF Init
<1>3. TypeOK
    BY <1>1, <1>2 DEF Init, TypeOK
<1>4. \A r \in Runs : rec[r].pc = "idle" /\ rec[r].outcome = "none"
    BY DEF Init
<1>5. \A r \in Runs : Called(rec[r], passes, refs, now)
    BY <1>4 DEF Called
<1> QED
    BY <1>3, <1>5 DEF Init, Inv, Stamped, EntriesAreEarned, NeverRefreshed, Read,
                      HonouredIsTrustedAndFresh

\* What is true of a call stays true as checks pass, time goes by and entries
\* are created.
LEMMA CalledMono ==
    ASSUME NEW x \in Record, NEW ps \in SUBSET Pass, NEW qs \in SUBSET Pass, ps \subseteq qs,
           NEW es \in SUBSET Entry, NEW fs \in SUBSET Entry, es \subseteq fs,
           NEW t \in Time, NEW u \in Time, t <= u,
           \A e \in fs \ es : t <= e.created,
           Called(x, ps, es, t)
    PROVE  Called(x, qs, fs, u)
<1>1. x.at \in Time /\ x.end \in Time /\ \A p \in qs : p.at \in Time
    BY DEF Record, Pass
<1>2. \A e \in fs : e.created \in Time
    BY DEF Entry
<1> QED
    BY <1>1, <1>2 DEF Called, Time

\* Nothing but the entry of the call is added, and the call goes on as x.
LEMMA GoesOn ==
    ASSUME Inv, NEW r \in Runs, NEW x \in Record, NEW fs \in SUBSET Entry,
           Same(x, rec[r]), x.memoRefs = rec[r].memoRefs,
           rec' = [rec EXCEPT ![r] = x], UNCHANGED <<now, plan>>,
           passes \subseteq passes', passes' \subseteq Pass,
           refs' = refs \cup fs, \A e \in fs : e.created = now,
           Called(x, passes', refs', now)
    PROVE  /\ TypeOK'
           /\ \A s \in Runs : Called(rec[s], passes, refs, now)'
<1>1. TypeOK'
    BY DEF Inv, TypeOK
<1>2. ASSUME NEW s \in Runs PROVE Called(rec[s], passes, refs, now)'
  <2>1. CASE s = r
    <3>1. rec'[s] = x
        BY <2>1 DEF Inv, TypeOK
    <3> QED
        BY <3>1
  <2>2. CASE s # r
    <3>1. rec'[s] = rec[s] /\ rec[s] \in Record /\ now \in Time /\ refs' \in SUBSET Entry
        BY <2>2 DEF Inv, TypeOK
    <3>2. \A e \in refs' \ refs : now <= e.created
        BY <3>1 DEF Time
    <3>3. Called(rec[s], passes, refs, now) /\ passes \in SUBSET Pass /\ refs \in SUBSET Entry
        BY DEF Inv, TypeOK
    <3>4. refs \subseteq refs' /\ now <= now
        BY <3>1 DEF Time
    <3>5. Called(rec[s], passes', refs', now)
        BY <3>1, <3>2, <3>3, <3>4, CalledMono
    <3> QED
        BY <3>1, <3>5
  <2> QED
      BY <2>1, <2>2
<1> QED
    BY <1>1, <1>2

\* A call that creates nothing.
LEMMA CallStep ==
    ASSUME Inv, NEW r \in Runs, NEW x \in Record,
           Same(x, rec[r]), x.memoRefs = rec[r].memoRefs,
           rec' = [rec EXCEPT ![r] = x], UNCHANGED <<now, plan, refs>>,
           passes \subseteq passes', passes' \subseteq Pass,
           Called(x, passes', refs, now)
    PROVE  Inv'
<1>1. TypeOK' /\ \A s \in Runs : Called(rec[s], passes, refs, now)'
  <2>1. refs' = refs \cup {} /\ {} \in SUBSET Entry
      OBVIOUS
  <2>2. Called(x, passes', refs', now)
      OBVIOUS
  <2>3. \A e \in {} : e.created = now
      OBVIOUS
  <2> QED
      BY <2>1, <2>2, <2>3, GoesOn
<1>2. \A s \in Runs : rec'[s].ref = rec[s].ref /\ rec'[s].memoRefs = rec[s].memoRefs
    BY DEF Inv, TypeOK, Same
<1> QED
    BY <1>1, <1>2 DEF Inv, Stamped, EntriesAreEarned, NeverRefreshed, HonouredIsTrustedAndFresh

\* Ends a call without an entry being created.
LEMMA ReturnStep ==
    ASSUME Inv, NEW r \in Runs, NEW outcome \in Outcomes, Return(r, outcome),
           UNCHANGED <<now, plan, refs, passes>>,
           outcome # "RECORDED",
           outcome = "ALREADY_RECORDED" => \E e \in refs : Same(e, rec[r]),
           outcome = "REFUSED" => rec[r].ref \notin rec[r].memoRefs,
           outcome = "SKIPPED" => rec[r].hash = NoHash
    PROVE  Inv'
<1> DEFINE x == [rec[r] EXCEPT !.pc = "done", !.outcome = outcome, !.end = now]
<1>1. rec[r] \in Record /\ now \in Time
    BY DEF Inv, TypeOK
<1>2. x \in Record /\ Same(x, rec[r]) /\ x.memoRefs = rec[r].memoRefs
    BY <1>1 DEF Record, Same
<1>3. Called(x, passes, refs, now)
    BY <1>1 DEF Called, Record, Same
<1>4. rec' = [rec EXCEPT ![r] = x]
    BY DEF Return
<1>5. passes' \subseteq Pass
    BY DEF Inv, TypeOK
<1> QED
    BY <1>2, <1>3, <1>4, <1>5, CallStep

LEMMA PassCheckInv == ASSUME Inv, NEW r \in Runs, PassCheck(r) PROVE Inv'
<1> DEFINE x == [rec[r] EXCEPT !.pc = "passed"]
           p == [ref |-> rec[r].ref, hash |-> rec[r].hash, at |-> now]
<1>1. rec[r] \in Record /\ now \in Time /\ now <= now
    BY DEF Inv, TypeOK, Time
<1>2. x \in Record /\ Same(x, rec[r]) /\ x.memoRefs = rec[r].memoRefs /\ p \in Pass
    BY <1>1 DEF Record, Same, Pass
<1>3. passes' = passes \cup {p} /\ rec' = [rec EXCEPT ![r] = x] /\ UNCHANGED <<now, refs, plan>>
    BY DEF PassCheck
<1>4. Called(x, passes', refs, now)
  <2>1. rec[r].outcome = "none"
      BY DEF PassCheck, Inv, Called
  <2>2. Same(p, x) /\ p.at = now /\ x.pc = "passed" /\ x.outcome = "none"
      BY <1>1, <2>1 DEF Record, Same
  <2> QED
      BY <1>1, <1>3, <2>2 DEF Called
<1>5. passes \subseteq passes' /\ passes' \subseteq Pass
    BY <1>2, <1>3 DEF Inv, TypeOK
<1> QED
    BY <1>2, <1>3, <1>4, <1>5, CallStep

LEMMA CallInv == ASSUME Inv, NEW r \in Runs, Call(r) PROVE Inv'
<1>1. UNCHANGED <<now, refs, passes, plan>> /\ rec[r].pc = "passed"
    BY DEF Call
<1>2. CASE rec[r].hash = NoHash /\ Return(r, "SKIPPED")
    BY <1>1, <1>2, ReturnStep DEF Outcomes
<1>3. CASE rec[r].ref \notin rec[r].memoRefs /\ Return(r, "REFUSED")
    BY <1>1, <1>3, ReturnStep DEF Outcomes
<1>4. CASE /\ rec[r].hash # NoHash /\ rec[r].ref \in rec[r].memoRefs
           /\ rec' = [rec EXCEPT ![r] = [rec[r] EXCEPT !.pc = "listing", !.at = now]]
  <2> DEFINE x == [rec[r] EXCEPT !.pc = "listing", !.at = now]
  <2>1. rec[r] \in Record /\ now \in Time /\ now <= now
      BY DEF Inv, TypeOK, Time
  <2>2. x \in Record /\ Same(x, rec[r]) /\ x.memoRefs = rec[r].memoRefs
      BY <2>1 DEF Record, Same
  <2>3. PICK p \in passes : Same(p, rec[r]) /\ p.at <= now
      BY <1>1 DEF Inv, Called
  <2>4. rec[r].outcome = "none"
      BY <1>1 DEF Inv, Called
  <2>5. /\ x.pc = "listing" /\ x.at = now /\ x.outcome = "none"
        /\ x.hash = rec[r].hash /\ x.ref = rec[r].ref
      BY <2>1, <2>4 DEF Record
  <2>6. Called(x, passes, refs, now)
      BY <1>4, <2>1, <2>2, <2>3, <2>5 DEF Called, Same
  <2>7. passes' \subseteq Pass /\ passes' = passes
      BY <1>1 DEF Inv, TypeOK
  <2> QED
      BY <1>1, <1>4, <2>2, <2>6, <2>7, CallStep
<1> QED
    BY <1>2, <1>3, <1>4 DEF Call

LEMMA ListInv == ASSUME Inv, NEW r \in Runs, List(r) PROVE Inv'
<1> DEFINE existing == EntriesOf(rec[r].ref, rec[r].hash)
<1>1. UNCHANGED <<now, refs, passes, plan>> /\ rec[r].pc = "listing"
    BY DEF List
<1>2. CASE existing # {} /\ Return(r, "ALREADY_RECORDED")
  <2>1. \E e \in refs : Same(e, rec[r])
      BY <1>2 DEF EntriesOf, Same
  <2> QED
      BY <1>1, <1>2, <2>1, ReturnStep DEF Outcomes
<1>3. CASE Return(r, "FAILED")
    BY <1>1, <1>3, ReturnStep DEF Outcomes
<1>4. CASE existing = {} /\ rec' = [rec EXCEPT ![r] = [rec[r] EXCEPT !.pc = "posting"]]
  <2> DEFINE x == [rec[r] EXCEPT !.pc = "posting"]
  <2>1. rec[r] \in Record
      BY DEF Inv, TypeOK
  <2>2. x \in Record /\ Same(x, rec[r]) /\ x.memoRefs = rec[r].memoRefs
      BY <2>1 DEF Record, Same
  <2>3. \A e \in refs : ~Same(e, rec[r])
      BY <1>4 DEF EntriesOf, Same
  <2>4. Called(rec[r], passes, refs, now)
      BY DEF Inv
  <2>5. /\ x.pc = "posting" /\ x.at = rec[r].at /\ x.outcome = rec[r].outcome
        /\ x.hash = rec[r].hash /\ x.ref = rec[r].ref /\ rec[r].outcome = "none"
      BY <1>1, <2>1, <2>4 DEF Record, Called
  <2>6. Called(x, passes, refs, now)
      BY <1>1, <2>2, <2>3, <2>4, <2>5 DEF Called, Same
  <2>7. passes' \subseteq Pass /\ passes' = passes
      BY <1>1 DEF Inv, TypeOK
  <2> QED
      BY <1>1, <1>4, <2>2, <2>6, <2>7, CallStep
<1> QED
    BY <1>2, <1>3, <1>4 DEF List

----------------------------------------------------------------------------
(* Creating an entry. *)

\* An entry that a posting call creates, whatever the call then answers.
LEMMA CreateInv ==
    ASSUME Inv, NEW r \in Runs, rec[r].pc = "posting", refs' = refs \cup {Created(r)},
           NEW outcome \in {"RECORDED", "FAILED"}, Return(r, outcome),
           UNCHANGED <<now, passes, plan>>
    PROVE  Inv'
<1> DEFINE x == [rec[r] EXCEPT !.pc = "done", !.outcome = outcome, !.end = now]
           e == Created(r)
<1>1. rec[r] \in Record /\ now \in Time /\ Called(rec[r], passes, refs, now)
    BY DEF Inv, TypeOK
<1>2. /\ rec[r].hash \in Hashes /\ rec[r].ref \in rec[r].memoRefs /\ rec[r].at <= now
      /\ \E p \in passes : Same(p, rec[r]) /\ p.at <= rec[r].at
      /\ \A f \in refs : Same(f, rec[r]) => rec[r].at <= f.created
    BY <1>1 DEF Called, Record
<1>3. /\ e.ref = rec[r].ref /\ e.hash = rec[r].hash /\ e.at = rec[r].at /\ e.created = now
      /\ e \in Entry
    BY <1>1, <1>2 DEF Created, Entry, Record
<1>4. x \in Record /\ Same(x, rec[r]) /\ x.memoRefs = rec[r].memoRefs
    BY <1>1 DEF Record, Same, Outcomes
<1>5. x.pc = "done" /\ x.outcome = outcome /\ x.end = now /\ x.at = rec[r].at
    BY <1>1 DEF Record
<1>6. Called(x, passes', refs', now)
  <2>1. Same(e, x) /\ e.at = x.at /\ e.created <= x.end
      BY <1>1, <1>3, <1>4, <1>5 DEF Same, Time
  <2> QED
      BY <1>5, <2>1 DEF Called
<1> HIDE DEF e
<1>7. TypeOK' /\ \A s \in Runs : Called(rec[s], passes, refs, now)'
  <2>1. rec' = [rec EXCEPT ![r] = x] /\ passes' \subseteq Pass /\ passes \subseteq passes'
      BY DEF Return, Inv, TypeOK
  <2>2. {e} \in SUBSET Entry /\ refs' = refs \cup {e} /\ \A f \in {e} : f.created = now
      BY <1>3 DEF e
  <2> QED
      BY <1>4, <1>6, <2>1, <2>2, GoesOn
<1>8. \A s \in Runs : rec'[s].ref = rec[s].ref /\ rec'[s].memoRefs = rec[s].memoRefs
    BY <1>1 DEF Return, Inv, TypeOK, Record
<1>9. refs' = refs \cup {e} /\ \A f \in refs : f \in Entry
    BY DEF e, Inv, TypeOK
<1>10. Stamped'
    BY <1>1, <1>2, <1>3, <1>9 DEF Inv, Stamped, Time
<1>11. EntriesAreEarned'
    BY <1>2, <1>3, <1>8, <1>9 DEF Inv, EntriesAreEarned, Same
<1>12. NeverRefreshed'
  <2>1. \A f \in refs : Same(f, rec[r]) => f.at <= e.created /\ e.at <= f.created
      BY <1>1, <1>2, <1>3, <1>9 DEF Inv, Stamped, Entry, Time
  <2>2. e.at <= e.created
      BY <1>2, <1>3
  <2> QED
      BY <1>3, <1>9, <2>1, <2>2 DEF Inv, NeverRefreshed, Same
<1>13. Read(plan, refs)' /\ plan'.at <= now'
  <2>1. ~(e.created < plan.at)
      BY <1>1, <1>3 DEF Inv, TypeOK, Plan, Time
  <2> QED
      BY <1>9, <2>1 DEF Inv, Read
<1>14. HonouredIsTrustedAndFresh'
    BY <1>9 DEF Inv, HonouredIsTrustedAndFresh
<1> QED
    BY <1>7, <1>10, <1>11, <1>12, <1>13, <1>14 DEF Inv

LEMMA PostInv == ASSUME Inv, NEW r \in Runs, Post(r) PROVE Inv'
<1>1. CASE Named(r) = {}
    BY <1>1, CreateInv DEF Post
<1>2. CASE Named(r) # {}
  <2>1. \E e \in refs : Same(e, rec[r])
      BY <1>2 DEF Named, EntriesOf, Same
  <2> QED
      BY <1>2, <2>1, ReturnStep DEF Post, Outcomes
<1> QED
    BY <1>1, <1>2

LEMMA PostFailsInv == ASSUME Inv, NEW r \in Runs, PostFails(r) PROVE Inv'
<1>1. CASE refs' = refs \cup {Created(r)}
    BY <1>1, CreateInv DEF PostFails
<1>2. CASE refs' = refs
    BY <1>2, ReturnStep DEF PostFails, Outcomes
<1> QED
    BY <1>1, <1>2 DEF PostFails

----------------------------------------------------------------------------
(* Time and the plan. *)

LEMMA TickInv == ASSUME Inv, Tick PROVE Inv'
<1>1. now' \in Time /\ now \in Time /\ now <= now'
    BY StoreAssumption DEF Tick, Inv, TypeOK, Time
<1>2. UNCHANGED <<refs, passes, rec, plan>>
    BY DEF Tick
<1>3. \A r \in Runs : Called(rec[r], passes, refs, now)'
  <2>1. TAKE r \in Runs
  <2>2. /\ rec[r] \in Record /\ passes \in SUBSET Pass /\ refs \in SUBSET Entry
        /\ Called(rec[r], passes, refs, now)
      BY DEF Inv, TypeOK
  <2>3. Called(rec[r], passes, refs, now')
      BY <1>1, <2>2, CalledMono
  <2> QED
      BY <1>2, <2>3
<1>4. Stamped' /\ plan'.at <= now'
    BY <1>1, <1>2 DEF Inv, TypeOK, Stamped, Entry, Plan, Time
<1> QED
    BY <1>1, <1>2, <1>3, <1>4 DEF Inv, TypeOK, EntriesAreEarned, NeverRefreshed, Read,
                                  HonouredIsTrustedAndFresh

\* The plan goes on as p.
LEMMA PlanStep ==
    ASSUME Inv, NEW p \in Plan, plan' = p, UNCHANGED <<now, refs, passes, rec>>,
           p.at <= now, Read(p, refs),
           \A h \in p.known : \E e \in refs : /\ e.hash = h /\ e.ref \in p.memoRefs
                                              /\ e.at >= p.at - TTL
    PROVE  Inv'
BY DEF Inv, TypeOK, Stamped, EntriesAreEarned, NeverRefreshed, HonouredIsTrustedAndFresh

LEMMA StartPlanInv == ASSUME Inv, StartPlan PROVE Inv'
<1> DEFINE p == [plan EXCEPT !.pc = "reading", !.unread = plan.memoRefs, !.at = now]
<1>1. plan \in Plan /\ now \in Time /\ now <= now
    BY DEF Inv, TypeOK, Time
<1>2. /\ p \in Plan /\ p.at = now /\ p.known = {} /\ p.unread = p.memoRefs
      /\ p.pc = "reading"
    BY <1>1 DEF Plan, StartPlan, Inv, Read
<1>3. plan' = p /\ UNCHANGED <<now, refs, passes, rec>>
    BY DEF StartPlan
<1>4. Read(p, refs)
    BY <1>2 DEF Read
<1> QED
    BY <1>1, <1>2, <1>3, <1>4, PlanStep

LEMMA ReadScopeInv == ASSUME Inv, NEW ref \in Refs, ReadScope(ref) PROVE Inv'
<1> DEFINE p == [plan EXCEPT !.unread = plan.unread \ {ref}, !.known = plan.known \cup Honoured(ref)]
<1>1. plan \in Plan /\ refs \subseteq Entry
    BY DEF Inv, TypeOK
<1>2. Honoured(ref) \subseteq Hashes
    BY <1>1 DEF Honoured, Entry
<1>3. /\ p \in Plan /\ p.at = plan.at /\ p.memoRefs = plan.memoRefs /\ p.failed = plan.failed
      /\ p.unread = plan.unread \ {ref} /\ p.known = plan.known \cup Honoured(ref)
      /\ p.pc = "reading"
    BY <1>1, <1>2 DEF Plan, ReadScope
<1>4. plan' = p /\ UNCHANGED <<now, refs, passes, rec>> /\ ref \in plan.memoRefs
    BY DEF ReadScope, Inv, Read
<1> HIDE DEF p
<1>5. Read(p, refs)
  <2>1. \A e \in refs : e.ref = ref /\ e.at >= plan.at - TTL => e.hash \in Honoured(ref)
      BY DEF Honoured
  <2>2. plan.pc = "reading" /\ Read(plan, refs)
      BY DEF ReadScope, Inv
  <2> QED
      BY <1>3, <2>1, <2>2 DEF Read
<1>6. \A h \in p.known : \E e \in refs : e.hash = h /\ e.ref \in p.memoRefs /\ e.at >= p.at - TTL
  <2>1. \A h \in Honoured(ref) : \E e \in refs : e.hash = h /\ e.ref = ref /\ e.at >= plan.at - TTL
      BY DEF Honoured
  <2> QED
      BY <1>3, <1>4, <2>1 DEF Inv, HonouredIsTrustedAndFresh
<1>7. p.at <= now
    BY <1>3 DEF Inv
<1> QED
    BY <1>3, <1>4, <1>5, <1>6, <1>7, PlanStep

LEMMA ReadFailsInv == ASSUME Inv, NEW ref \in Refs, ReadFails(ref) PROVE Inv'
<1> DEFINE p == [plan EXCEPT !.unread = plan.unread \ {ref}, !.failed = plan.failed \cup {ref}]
<1>1. plan \in Plan
    BY DEF Inv, TypeOK
<1>2. /\ p \in Plan /\ p.at = plan.at /\ p.memoRefs = plan.memoRefs /\ p.known = plan.known
      /\ p.unread = plan.unread \ {ref} /\ p.failed = plan.failed \cup {ref}
      /\ p.pc = "reading"
    BY <1>1 DEF Plan, ReadFails
<1>3. plan' = p /\ UNCHANGED <<now, refs, passes, rec>> /\ plan.pc = "reading"
    BY DEF ReadFails
<1> HIDE DEF p
<1>4. Read(p, refs)
    BY <1>2, <1>3 DEF Inv, Read
<1>5. \A h \in p.known : \E e \in refs : e.hash = h /\ e.ref \in p.memoRefs /\ e.at >= p.at - TTL
    BY <1>2 DEF Inv, HonouredIsTrustedAndFresh
<1>6. p.at <= now
    BY <1>2 DEF Inv
<1> QED
    BY <1>2, <1>3, <1>4, <1>5, <1>6, PlanStep

LEMMA FinishPlanInv == ASSUME Inv, FinishPlan PROVE Inv'
<1> DEFINE p == [plan EXCEPT !.pc = "done"]
<1>1. plan \in Plan
    BY DEF Inv, TypeOK
<1>2. /\ p \in Plan /\ p.at = plan.at /\ p.memoRefs = plan.memoRefs /\ p.known = plan.known
      /\ p.unread = plan.unread /\ p.failed = plan.failed /\ p.pc = "done"
    BY <1>1 DEF Plan
<1>3. /\ plan' = p /\ UNCHANGED <<now, refs, passes, rec>>
      /\ plan.pc = "reading" /\ plan.unread = {}
    BY DEF FinishPlan
<1> HIDE DEF p
<1>4. Read(p, refs)
    BY <1>2, <1>3 DEF Inv, Read
<1>5. \A h \in p.known : \E e \in refs : e.hash = h /\ e.ref \in p.memoRefs /\ e.at >= p.at - TTL
    BY <1>2 DEF Inv, HonouredIsTrustedAndFresh
<1>6. p.at <= now
    BY <1>2 DEF Inv
<1> QED
    BY <1>2, <1>3, <1>4, <1>5, <1>6, PlanStep

----------------------------------------------------------------------------

LEMMA StepInv == Inv /\ [Next]_vars => Inv'
<1> SUFFICES ASSUME Inv, [Next]_vars PROVE Inv'
    OBVIOUS
<1>1. CASE UNCHANGED vars
    BY <1>1 DEF vars, Inv, TypeOK, Stamped, EntriesAreEarned, NeverRefreshed,
               HonouredIsTrustedAndFresh
<1>2. CASE \E r \in Runs : Recording(r)
    BY <1>2, PassCheckInv, CallInv, ListInv, PostInv, PostFailsInv DEF Recording
<1>3. CASE Reading
    BY <1>3, StartPlanInv, ReadScopeInv, ReadFailsInv, FinishPlanInv DEF Reading
<1> QED
    BY <1>1, <1>2, <1>3, TickInv DEF Next

LEMMA AlwaysInv == Spec => []Inv
BY InitInv, StepInv, PTL DEF Spec

\* Entries, calls and the plan hold refs, hashes and instants: no entry is ever
\* named after the empty hash.
THEOREM TypeCorrect == Spec => []TypeOK
<1>1. Inv => TypeOK
    BY DEF Inv
<1> QED
    BY <1>1, AlwaysInv, PTL

\* Every entry was earned in its scope by a run allowed to write there.
THEOREM EntriesEarned == Spec => []EntriesAreEarned
<1>1. Inv => EntriesAreEarned
    BY DEF Inv
<1> QED
    BY <1>1, AlwaysInv, PTL

\* A plan honours nothing but fresh entries of the scopes it trusts.
THEOREM HonouredFresh == Spec => []HonouredIsTrustedAndFresh
<1>1. Inv => HonouredIsTrustedAndFresh
    BY DEF Inv
<1> QED
    BY <1>1, AlwaysInv, PTL

\* No TTL is extended by recording the same hash again.
THEOREM TTLNeverExtended == Spec => []NeverRefreshed
<1>1. Inv => NeverRefreshed
    BY DEF Inv
<1> QED
    BY <1>1, AlwaysInv, PTL

\* What a call answers is so.
THEOREM OutcomeTrue == Spec => []OutcomeIsTrue
<1>1. Inv => OutcomeIsTrue
    BY DEF Inv, Called, Same, OutcomeIsTrue, EntriesOf
<1> QED
    BY <1>1, AlwaysInv, PTL

\* A pass reported RECORDED is honoured by every later plan that reads its
\* scope within the TTL.
THEOREM RecordedReadBack == Spec => []RecordedIsReadBack
<1>1. ASSUME Inv PROVE RecordedIsReadBack
  <2> SUFFICES ASSUME NEW r \in Runs, rec[r].outcome = "RECORDED", ReadsBack(r), plan.at > rec[r].end
               PROVE  rec[r].hash \in plan.known
      BY DEF RecordedIsReadBack
  <2>1. PICK e \in refs : Same(e, rec[r]) /\ e.at = rec[r].at /\ e.created <= rec[r].end
      BY <1>1 DEF Inv, Called
  <2>2. rec[r] \in Record /\ plan \in Plan /\ e \in Entry
      BY <1>1 DEF Inv, TypeOK
  <2>3. e.created < plan.at
      BY <2>1, <2>2 DEF Record, Plan, Entry, Time
  <2>4. e.at >= plan.at - TTL
      BY <2>1 DEF ReadsBack
  <2>5. plan.pc = "done" /\ plan.unread = {}
      BY <1>1 DEF ReadsBack, Inv, Read
  <2>6. e.ref \in plan.memoRefs \ (plan.unread \cup plan.failed)
      BY <2>1, <2>5 DEF ReadsBack, Same
  <2>7. e.hash \in plan.known
      BY <1>1, <2>3, <2>4, <2>5, <2>6 DEF Inv, Read
  <2> QED
      BY <2>1, <2>7 DEF Same
<1> QED
    BY <1>1, AlwaysInv, PTL
=============================================================================
