------------------------------ MODULE Workflow ------------------------------
(***************************************************************************)
(* The control of change-aware-ci.yml as ci.yml calls it and               *)
(* ci-auto-rerun.yml repeats it, with the plan left open.  Every commit of *)
(* a scope asks for a run; a run is a list job, one run job per leg the    *)
(* list job planned, and the gate, the one status a merge requires.  A run *)
(* that failed gets another attempt, one failed job at a time.             *)
(*                                                                         *)
(* A scope is a concurrency group: one run in progress and one waiting.    *)
(***************************************************************************)
EXTENDS Naturals

CONSTANTS
    Scopes,             \* the refs runs are for
    CancelInProgress,   \* those whose run a newer commit cancels: pull requests
    Events,             \* what a commit asks a run for
    NoEvent,            \* nothing waits
    Legs,               \* the legs a list job may plan
    MaxAttempts         \* the attempts of a run, 3 in ci-auto-rerun.yml

ASSUME WorkflowAssumption ==
    /\ CancelInProgress \subseteq Scopes
    /\ NoEvent \notin Events
    /\ MaxAttempts \in Nat \ {0}

VARIABLES
    tip,                \* [Scopes -> what the newest commit asks for]
    queued,             \* [Scopes -> what waits to run, or NoEvent]
    run                 \* [Scopes -> the latest run]

vars == <<tip, queued, run>>

\* A run of which no job has ended; one that has not started, or was cancelled.
NewRun(pc, event, attempt) ==
    [pc |-> pc, event |-> event, list |-> "none", legs |-> {}, done |-> {}, failed |-> {},
     gate |-> "none", attempt |-> attempt]
IdleRun == NewRun("idle", NoEvent, 0)

Init ==
    /\ tip = [s \in Scopes |-> NoEvent]
    /\ queued = [s \in Scopes |-> NoEvent]
    /\ run = [s \in Scopes |-> IdleRun]

\* Slip: a run that waits keeps its place, and the newer one is dropped.
CommitBehindWaiting(s, e) ==
    /\ tip' = [tip EXCEPT ![s] = e]
    /\ queued' = [queued EXCEPT ![s] = IF @ = NoEvent THEN e ELSE @]
    /\ run' = IF s \in CancelInProgress THEN [run EXCEPT ![s] = IdleRun] ELSE run

\* A commit.  Its run takes the place of the one that waits, and on a pull
\* request cancels the one in progress.
Commit(s, e) ==
    /\ tip' = [tip EXCEPT ![s] = e]
    /\ queued' = [queued EXCEPT ![s] = e]
    /\ run' = IF s \in CancelInProgress THEN [run EXCEPT ![s] = IdleRun] ELSE run

\* The run of a scope goes on; no commit is made and none stops waiting.
Becomes(s, r) == run' = [run EXCEPT ![s] = r] /\ UNCHANGED <<tip, queued>>

\* The waiting run starts once the one before it has ended.
StartRun(s) ==
    /\ queued[s] # NoEvent
    /\ run[s].pc \in {"idle", "ended"}
    /\ run' = [run EXCEPT ![s] = NewRun("list", queued[s], 1)]
    /\ queued' = [queued EXCEPT ![s] = NoEvent]
    /\ UNCHANGED tip

\* The list job plans some legs.  None at all is an error.
ListJob(s, legs) ==
    /\ run[s].pc = "list"
    /\ Becomes(s, [run[s] EXCEPT !.pc = "run", !.legs = legs,
                                 !.list = IF legs = {} THEN "failure" ELSE "success"])

\* Or it fails, and the run jobs are skipped.
ListJobFails(s) == ListJob(s, {})

\* The run jobs, one per leg: none makes another fail or stop.
Waiting(s) == run[s].legs \ (run[s].done \cup run[s].failed)

LegPasses(s, leg) ==
    /\ run[s].pc = "run" /\ leg \in Waiting(s)
    /\ Becomes(s, [run[s] EXCEPT !.done = @ \cup {leg}])

\* A check fails, or the budget of its step ends.
LegFails(s, leg) ==
    /\ run[s].pc = "run" /\ leg \in Waiting(s)
    /\ Becomes(s, [run[s] EXCEPT !.failed = @ \cup {leg}])

\* Slips: a list job that did not succeed, and with it every run job skipped, is
\* taken for a run with nothing left to prove; without always() the gate is
\* skipped, and its status never set, when a job it needs fails.
GateOfRunJobs(s) ==
    /\ run[s].pc = "run" /\ Waiting(s) = {}
    /\ Becomes(s, [run[s] EXCEPT !.pc = "ended",
                                 !.gate = IF run[s].failed = {} THEN "green" ELSE "red"])
GateAfterSuccess(s) ==
    /\ run[s].pc = "run" /\ Waiting(s) = {}
    /\ run[s].list = "success" /\ run[s].failed = {}
    /\ Becomes(s, [run[s] EXCEPT !.pc = "ended", !.gate = "green"])

\* The gate always runs, and passes when list did and no leg failed.
Gate(s) ==
    /\ run[s].pc = "run" /\ Waiting(s) = {}
    /\ Becomes(s, [run[s] EXCEPT !.pc = "ended",
                                 !.gate = IF run[s].list = "success" /\ run[s].failed = {}
                                          THEN "green" ELSE "red"])

\* Slips: every attempt has another; a job that runs again takes every job of
\* the run with it.
RerunWithoutEnd(s) ==
    /\ run[s].pc = "ended" /\ run[s].gate = "red"
    /\ Becomes(s, [run[s] EXCEPT !.pc = "run", !.gate = "none", !.attempt = @ + 1, !.failed = {}])
RerunEverything(s) ==
    /\ run[s].pc = "ended" /\ run[s].gate = "red" /\ run[s].attempt < MaxAttempts
    /\ Becomes(s, [run[s] EXCEPT !.pc = "run", !.gate = "none", !.attempt = @ + 1,
                                 !.failed = {}, !.done = {}])

\* ci-auto-rerun: one failed job of the latest attempt runs again and the gate
\* after it, with what the list job planned; the other failed jobs stay failed.
\* The failed job may be the gate itself, and a failed list job plans again.
Rerun(s) ==
    /\ run[s].pc = "ended" /\ run[s].gate = "red" /\ run[s].attempt < MaxAttempts
    /\ \/ /\ run[s].list = "failure"
          /\ Becomes(s, [run[s] EXCEPT !.pc = "list", !.gate = "none", !.attempt = @ + 1,
                                       !.list = "none"])
       \/ \E again \in {{}} \cup {{leg} : leg \in run[s].failed} :
             Becomes(s, [run[s] EXCEPT !.pc = "run", !.gate = "none", !.attempt = @ + 1,
                                    !.failed = @ \ again])

RunStep(s) ==
    \/ StartRun(s)
    \/ \E legs \in SUBSET Legs : ListJob(s, legs)
    \/ \E leg \in Legs : LegPasses(s, leg) \/ LegFails(s, leg)
    \/ Gate(s)

Next == \E s \in Scopes : (\E e \in Events : Commit(s, e)) \/ RunStep(s) \/ Rerun(s)

\* Every job has a budget, after which it fails, and a run that waits starts
\* when it can: no run stays where it is.  Nothing makes anyone commit or rerun.
Spec == Init /\ [][Next]_vars /\ \A s \in Scopes : WF_vars(RunStep(s))

----------------------------------------------------------------------------
(* Properties. *)

\* The run of a scope and what waits behind it are of commits of that scope.
Run == [pc : {"idle", "list", "run", "ended"}, event : Events \cup {NoEvent},
        list : {"none", "success", "failure"}, legs : SUBSET Legs, done : SUBSET Legs,
        failed : SUBSET Legs, gate : {"none", "green", "red"}, attempt : 0 .. MaxAttempts]
TypeOK ==
    /\ tip \in [Scopes -> Events \cup {NoEvent}]
    /\ queued \in [Scopes -> Events \cup {NoEvent}]
    /\ run \in [Scopes -> Run]

\* The gate passes "iff list succeeded and no executed leg failed": whatever was
\* cancelled, failed and run again, a green gate is over a plan of at least one
\* leg, each of which passed, and none of which also failed.
GreenIsComplete ==
    \A s \in Scopes : run[s].gate = "green" =>
        /\ run[s].list = "success" /\ run[s].legs # {}
        /\ run[s].done = run[s].legs /\ run[s].failed = {}

\* Runs that wait replace one another, and runs in progress are cancelled, but
\* never the newest commit's: it waits, or the latest run is its own.
TipIsNeverLost ==
    \A s \in Scopes : tip[s] \in {queued[s], run[s].event}

\* An attempt carries over what passed: no leg that passed for a commit runs
\* again for it, nor does its plan change under it.
KeepsPasses(s) ==
    run'[s].attempt > run[s].attempt /\ run[s].attempt > 0 =>
        /\ run'[s].event = run[s].event
        /\ run[s].list = "success" => run'[s].legs = run[s].legs /\ run'[s].done = run[s].done
AttemptsKeepPasses == [][\A s \in Scopes : KeepsPasses(s)]_vars

\* A commit that waits gets a run, its own or that of a later commit that took
\* its place, and a run that starts ends with a gate unless it is cancelled: a
\* required status never stays unset.  It holds with commits that never stop.
EveryCommitIsAnswered ==
    \A s \in Scopes :
        /\ queued[s] # NoEvent ~> run[s].pc = "list"
        /\ run[s].pc \in {"list", "run"} ~> run[s].pc \in {"idle", "ended"}
=============================================================================
