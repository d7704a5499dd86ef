--------------------------- MODULE WorkflowProofs ---------------------------
(***************************************************************************)
(* That the control of a run is right for any number of scopes, commits,   *)
(* legs and attempts.  Inv says what an attempt may find when it begins:   *)
(* the legs that passed and those that failed are apart and of the plan,   *)
(* and a list job that succeeded planned some.                             *)
(***************************************************************************)
EXTENDS Workflow, TLAPS

RunInv(r) ==
    /\ r.done \cap r.failed = {}
    /\ r.done \cup r.failed \subseteq r.legs
    /\ r.list = "success" => r.legs # {}
    /\ r.list = "failure" => r.legs = {}
    /\ r.pc \in {"idle", "list"} => r.legs = {}
    /\ r.pc # "ended" => r.gate = "none"
    /\ r.gate = "green" => r.list = "success" /\ r.failed = {} /\ r.done = r.legs

\* Of the commits of a scope the one that waits is the newest.
Inv ==
    /\ TypeOK
    /\ \A s \in Scopes : RunInv(run[s])
    /\ \A s \in Scopes : queued[s] # NoEvent => queued[s] = tip[s]
    /\ TipIsNeverLost

LEMMA InitInv == Init => Inv
BY WorkflowAssumption DEF Init, Inv, TypeOK, RunInv, Run, IdleRun, NewRun, TipIsNeverLost

\* A run that goes on for the same commit.
LEMMA BecomesInv ==
    ASSUME Inv, NEW s \in Scopes, NEW r \in Run, RunInv(r), r.event = run[s].event, Becomes(s, r)
    PROVE  Inv'
<1>1. run' = [run EXCEPT ![s] = r] /\ tip' = tip /\ queued' = queued
    BY DEF Becomes
<1>2. \A x \in Scopes : RunInv(run'[x])
    BY <1>1 DEF Inv, TypeOK
<1>3. \A x \in Scopes : run'[x].event = run[x].event
    BY <1>1 DEF Inv, TypeOK
<1> QED
    BY <1>1, <1>2, <1>3 DEF Inv, TypeOK, TipIsNeverLost

LEMMA CommitInv == ASSUME Inv, NEW s \in Scopes, NEW e \in Events, Commit(s, e) PROVE Inv'
<1>1. IdleRun \in Run /\ RunInv(IdleRun)
    BY WorkflowAssumption DEF IdleRun, NewRun, Run, RunInv
<1>2. run' \in [Scopes -> Run] /\ \A x \in Scopes : RunInv(run'[x])
    BY <1>1 DEF Commit, Inv, TypeOK
<1>3. \A x \in Scopes \ {s} : run'[x] = run[x] /\ tip'[x] = tip[x] /\ queued'[x] = queued[x]
    BY DEF Commit, Inv, TypeOK
<1>4. tip'[s] = e /\ queued'[s] = e
    BY DEF Commit, Inv, TypeOK
<1>5. TypeOK'
    BY <1>2 DEF Commit, Inv, TypeOK
<1> QED
    BY <1>2, <1>3, <1>4, <1>5 DEF Inv, TipIsNeverLost

LEMMA StartRunInv == ASSUME Inv, NEW s \in Scopes, StartRun(s) PROVE Inv'
<1> DEFINE r == NewRun("list", queued[s], 1)
<1>1. r \in Run /\ RunInv(r) /\ r.event = tip[s]
  <2>1. queued[s] \in Events /\ queued[s] = tip[s]
      BY DEF StartRun, Inv, TypeOK
  <2> QED
      BY <2>1, WorkflowAssumption DEF NewRun, Run, RunInv
<1> HIDE DEF r
<1>2. run' = [run EXCEPT ![s] = r] /\ queued' = [queued EXCEPT ![s] = NoEvent] /\ tip' = tip
    BY DEF StartRun, r
<1>3. \A x \in Scopes \ {s} : run'[x] = run[x] /\ queued'[x] = queued[x]
    BY <1>2 DEF Inv, TypeOK
<1>4. run'[s] = r /\ queued'[s] = NoEvent
    BY <1>2 DEF Inv, TypeOK
<1>5. TypeOK'
    BY <1>1, <1>2 DEF Inv, TypeOK
<1> QED
    BY <1>1, <1>2, <1>3, <1>4, <1>5 DEF Inv, TipIsNeverLost

LEMMA RunTyped == ASSUME Inv, NEW s \in Scopes PROVE run[s] \in Run /\ RunInv(run[s])
BY DEF Inv, TypeOK

LEMMA ListJobInv ==
    ASSUME Inv, NEW s \in Scopes, NEW legs \in SUBSET Legs, ListJob(s, legs) PROVE Inv'
<1> DEFINE r == [run[s] EXCEPT !.pc = "run", !.legs = legs,
                              !.list = IF legs = {} THEN "failure" ELSE "success"]
<1>1. r \in Run /\ RunInv(r) /\ r.event = run[s].event
    BY RunTyped DEF ListJob, Run, RunInv
<1>2. Becomes(s, r)
    BY DEF ListJob
<1> QED
    BY <1>1, <1>2, BecomesInv

LEMMA LegInv ==
    ASSUME Inv, NEW s \in Scopes, NEW leg \in Legs, LegPasses(s, leg) \/ LegFails(s, leg) PROVE Inv'
<1>1. CASE LegPasses(s, leg)
  <2> DEFINE r == [run[s] EXCEPT !.done = @ \cup {leg}]
  <2>1. r \in Run /\ RunInv(r) /\ r.event = run[s].event
      BY <1>1, RunTyped DEF LegPasses, Waiting, Run, RunInv
  <2>2. Becomes(s, r)
      BY <1>1 DEF LegPasses
  <2> QED
      BY <2>1, <2>2, BecomesInv
<1>2. CASE LegFails(s, leg)
  <2> DEFINE r == [run[s] EXCEPT !.failed = @ \cup {leg}]
  <2>1. r \in Run /\ RunInv(r) /\ r.event = run[s].event
      BY <1>2, RunTyped DEF LegFails, Waiting, Run, RunInv
  <2>2. Becomes(s, r)
      BY <1>2 DEF LegFails
  <2> QED
      BY <2>1, <2>2, BecomesInv
<1> QED
    BY <1>1, <1>2

LEMMA GateInv == ASSUME Inv, NEW s \in Scopes, Gate(s) PROVE Inv'
<1> DEFINE verdict == IF run[s].list = "success" /\ run[s].failed = {} THEN "green" ELSE "red"
           r == [run[s] EXCEPT !.pc = "ended", !.gate = verdict]
<1>1. run[s].legs \subseteq run[s].done \cup run[s].failed
    BY DEF Gate, Waiting
<1>2. r \in Run /\ RunInv(r) /\ r.event = run[s].event
    BY <1>1, RunTyped DEF Run, RunInv
<1>3. Becomes(s, r)
    BY DEF Gate
<1> QED
    BY <1>2, <1>3, BecomesInv

LEMMA RerunInv == ASSUME Inv, NEW s \in Scopes, Rerun(s) PROVE Inv'
<1> DEFINE next == run[s].attempt + 1
<1>1. next \in 0 .. MaxAttempts
  <2>1. run[s].attempt \in 0 .. MaxAttempts
      BY RunTyped DEF Run
  <2>2. run[s].attempt < MaxAttempts
      BY DEF Rerun
  <2> QED
      BY <2>1, <2>2, WorkflowAssumption
<1>2. CASE /\ run[s].list = "failure"
           /\ Becomes(s, [run[s] EXCEPT !.pc = "list", !.gate = "none", !.attempt = @ + 1,
                                        !.list = "none"])
  <2> DEFINE r == [run[s] EXCEPT !.pc = "list", !.gate = "none", !.attempt = next, !.list = "none"]
  <2>1. r \in Run /\ RunInv(r) /\ r.event = run[s].event
      BY <1>1, <1>2, RunTyped DEF Run, RunInv
  <2>2. Becomes(s, r)
      BY <1>2
  <2> QED
      BY <2>1, <2>2, BecomesInv
<1>3. ASSUME NEW again \in {{}} \cup {{leg} : leg \in run[s].failed},
             Becomes(s, [run[s] EXCEPT !.pc = "run", !.gate = "none", !.attempt = @ + 1,
                                      !.failed = @ \ again])
      PROVE  Inv'
  <2> DEFINE r == [run[s] EXCEPT !.pc = "run", !.gate = "none", !.attempt = next,
                                !.failed = run[s].failed \ again]
  <2>1. r \in Run /\ RunInv(r) /\ r.event = run[s].event
      BY <1>1, RunTyped DEF Run, RunInv
  <2>2. Becomes(s, r)
      BY <1>3
  <2> QED
      BY <2>1, <2>2, BecomesInv
<1> QED
    BY <1>2, <1>3 DEF Rerun

LEMMA StepInv == Inv /\ [Next]_vars => Inv'
<1> SUFFICES ASSUME Inv, [Next]_vars PROVE Inv'
    OBVIOUS
<1>1. CASE UNCHANGED vars
    BY <1>1 DEF vars, Inv, TypeOK, TipIsNeverLost
<1>2. CASE Next
    BY <1>2, CommitInv, StartRunInv, ListJobInv, LegInv, GateInv, RerunInv DEF Next, RunStep
<1> QED
    BY <1>1, <1>2

\* Every reachable run is typed: in particular no run has more attempts than
\* ci-auto-rerun.yml allows.
THEOREM TypeCorrect == Spec => []TypeOK
<1>1. Inv => TypeOK
    BY DEF Inv
<1> QED
    BY <1>1, InitInv, StepInv, PTL DEF Spec

\* A green gate is over a plan of some legs that all passed.
THEOREM GreenIsAlwaysComplete == Spec => []GreenIsComplete
<1>1. Inv => GreenIsComplete
    BY DEF Inv, RunInv, GreenIsComplete
<1> QED
    BY <1>1, InitInv, StepInv, PTL DEF Spec

\* The newest commit of a scope waits, or the latest run is its own.
THEOREM TipIsSafe == Spec => []TipIsNeverLost
<1>1. Inv => TipIsNeverLost
    BY DEF Inv
<1> QED
    BY <1>1, InitInv, StepInv, PTL DEF Spec

LEMMA StepKeeps == Inv /\ [Next]_vars => [\A s \in Scopes : KeepsPasses(s)]_vars
<1> SUFFICES ASSUME Inv, Next, NEW x \in Scopes PROVE KeepsPasses(x)
    OBVIOUS
<1>1. run[x] \in Run
    BY RunTyped
<1>2. PICK s \in Scopes : (\E e \in Events : Commit(s, e)) \/ RunStep(s) \/ Rerun(s)
    BY DEF Next
<1>3. CASE s # x
  <2>1. run'[x] = run[x]
      BY <1>2, <1>3 DEF Commit, RunStep, StartRun, ListJob, LegPasses, LegFails, Gate, Rerun,
                       Becomes, Inv, TypeOK
  <2> QED
      BY <1>1, <2>1 DEF KeepsPasses, Run
<1>4. CASE s = x
  <2>1. CASE \E e \in Events : Commit(x, e)
      BY <2>1, <1>1 DEF Commit, IdleRun, NewRun, KeepsPasses, Run, Inv, TypeOK
  <2>2. CASE StartRun(x)
      BY <2>2, <1>1 DEF StartRun, NewRun, KeepsPasses, Run, Inv, TypeOK
  <2>3. CASE RunStep(x) /\ ~StartRun(x)
    <3>1. ASSUME NEW legs \in SUBSET Legs, ListJob(x, legs) PROVE run'[x].attempt = run[x].attempt
        BY <3>1, <1>1 DEF ListJob, Becomes, Run, Inv, TypeOK
    <3>2. ASSUME NEW leg \in Legs, LegPasses(x, leg) PROVE run'[x].attempt = run[x].attempt
        BY <3>2, <1>1 DEF LegPasses, Becomes, Run, Inv, TypeOK
    <3>3. ASSUME NEW leg \in Legs, LegFails(x, leg) PROVE run'[x].attempt = run[x].attempt
        BY <3>3, <1>1 DEF LegFails, Becomes, Run, Inv, TypeOK
    <3>4. ASSUME Gate(x) PROVE run'[x].attempt = run[x].attempt
        BY <3>4, <1>1 DEF Gate, Becomes, Run, Inv, TypeOK
    <3>5. run'[x].attempt = run[x].attempt
        BY <2>3, <3>1, <3>2, <3>3, <3>4 DEF RunStep
    <3> QED
        BY <3>5, <1>1 DEF KeepsPasses, Run
  <2>4. CASE Rerun(x)
    <3> DEFINE Kept == /\ run'[x].event = run[x].event
                       /\ run[x].list = "success" =>
                              run'[x].legs = run[x].legs /\ run'[x].done = run[x].done
    <3>1. ASSUME run[x].list = "failure",
                 Becomes(x, [run[x] EXCEPT !.pc = "list", !.gate = "none", !.attempt = @ + 1,
                                          !.list = "none"])
          PROVE  Kept
        BY <3>1, <1>1 DEF Becomes, Run, Inv, TypeOK
    <3>2. ASSUME NEW again \in {{}} \cup {{leg} : leg \in run[x].failed},
                 Becomes(x, [run[x] EXCEPT !.pc = "run", !.gate = "none", !.attempt = @ + 1,
                                          !.failed = @ \ again])
          PROVE  Kept
        BY <3>2, <1>1 DEF Becomes, Run, Inv, TypeOK
    <3>3. Kept
        BY <2>4, <3>1, <3>2 DEF Rerun
    <3> QED
        BY <3>3 DEF KeepsPasses
  <2> QED
      BY <1>2, <1>4, <2>1, <2>2, <2>3, <2>4
<1> QED
    BY <1>3, <1>4

\* Another attempt keeps the plan and what passed of it.
THEOREM AttemptsAreSafe == Spec => AttemptsKeepPasses
BY InitInv, StepInv, StepKeeps, PTL DEF Spec, AttemptsKeepPasses
=============================================================================
