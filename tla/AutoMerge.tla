----------------------------- MODULE AutoMerge -----------------------------
(***************************************************************************)
(* .github/workflows/auto-merge.yaml.  The label starts a run, which arms  *)
(* native auto merge or, where there is none, waits for the checks itself  *)
(* and merges the commit that was labelled.  A merge an App token made     *)
(* starts another run, which closes the issue.  Any step of a run may      *)
(* fail, and a request may be carried out whose answer is lost.            *)
(***************************************************************************)
EXTENDS PullRequest

VARIABLES
    run,            \* the run of the label: state, head when labelled, an answer was lost
    saw,            \* the checks the gated path found passing
    closing         \* the run of the merge: "none", "queued", "done", "dead"

merging == <<run, saw, closing>>

InitAutoMerge ==
    /\ run = [state |-> "none", sha |-> 0, lost |-> FALSE] /\ saw = {} /\ closing = "none"

Labelled == run.state # "none"

\* The cycle labels: the event carries the head of that moment.
StartRun == run' = [run EXCEPT !.state = "queued", !.sha = pushed] /\ UNCHANGED <<saw, closing>>

Goto(state) == run' = [run EXCEPT !.state = state]
Dies == Goto("failure") /\ UNCHANGED <<outcome, saw, closing>>

\* A merge the App made emits an event that starts a run; one by GITHUB_TOKEN none.
Merges == Merge /\ closing' = IF repo.app THEN "queued" ELSE "none"

\* Read whether native auto merge is allowed.
ReadSetting ==
    /\ run.state = "queued"
    /\ \/ Goto(IF repo.native THEN "arm" ELSE "gate") /\ UNCHANGED <<outcome, saw, closing>>
       \/ Dies

\* gh pr merge --auto: at once when nothing blocks it, else when nothing does any more.
Answered == \/ Goto("success")
            \/ run' = [run EXCEPT !.state = "failure", !.lost = TRUE]
Arm ==
    /\ run.state = "arm"
    /\ \/ Merges /\ Answered /\ UNCHANGED saw
       \/ /\ pr = "open" /\ ~MayMerge /\ armed' = TRUE /\ Answered
          /\ UNCHANGED <<pr, merged, issue, saw, closing>>
       \/ Dies
ArmedMerges == armed /\ Merges /\ UNCHANGED <<run, saw>>

\* Merge once checks pass: the head must be the one labelled, then its checks are read.
GateHead ==
    /\ run.state = "gate"
    /\ \/ head = run.sha /\ Goto("checks") /\ UNCHANGED <<outcome, saw, closing>>
       \/ Dies
GateChecks ==
    /\ run.state = "checks"
    /\ LET in(buckets) == {n \in Names : checks[head][n] \in buckets} IN
       \/ /\ in({"fail", "pending"}) = {}
          /\ saw' = in({"pass"}) /\ Goto("merge") /\ UNCHANGED <<outcome, closing>>
       \/ /\ in({"fail"}) = {} /\ (in({"pending"}) # {} \/ in({"pass"}) = {})
          /\ Goto("gate") /\ UNCHANGED <<outcome, saw, closing>>
       \/ Dies

\* Slip: the merge takes whatever the head is by now.
MatchesAny == TRUE

\* --match-head-commit
MatchesHead == pushed = run.sha
GateMerge ==
    /\ run.state = "merge"
    /\ \/ MatchesHead /\ Merges /\ Answered /\ UNCHANGED saw
       \/ Dies

\* close-linked-issues: its failures do not fail the run, the machinery may.
CloseLinkedIssues ==
    /\ closing = "queued"
    /\ \/ closing' \in {"done", "dead"} /\ UNCHANGED issue
       \/ issue' = "closed" /\ closing' = "done"
    /\ UNCHANGED <<pr, merged, armed, run, saw>>

AutoMergeStep ==
    /\ ReadSetting \/ Arm \/ ArmedMerges \/ GateHead \/ GateChecks \/ GateMerge \/ CloseLinkedIssues
    /\ UNCHANGED <<branch, judged, cycle>>

RunStates == {"none", "queued", "arm", "gate", "checks", "merge", "success", "failure"}
MergingOK ==
    /\ run \in [state : RunStates, sha : 0 .. pushed, lost : BOOLEAN] /\ saw \subseteq Names
    /\ closing \in {"none", "queued", "done", "dead"}
----------------------------------------------------------------------------
\* "The label decides when the merge is attempted, not whether the rule applies":
\* nothing merges that was not labelled; and where no branch protection stands
\* behind it, what merges is the very commit the label was put on, with every
\* check the run had waited for passed on that commit, not on another.
MergedIsGated ==
    pr = "merged" =>
        /\ Labelled /\ repo.required \subseteq passed[merged]
        /\ ~repo.native => merged = run.sha /\ saw \subseteq passed[merged]
=============================================================================
