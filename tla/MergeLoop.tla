----------------------------- MODULE MergeLoop -----------------------------
(***************************************************************************)
(* One cycle of skills/next-issue from the pull request on: wait for the   *)
(* checks, walk the roster of reviewers, address what they left, label,    *)
(* and finish.  The agent runs one script at a time and acts on its exit   *)
(* code alone; GitHub, the reviewers, the merge workflow and other people  *)
(* move meanwhile.                                                         *)
(***************************************************************************)
EXTENDS AwaitChecks, AwaitReview, FinishIssue

VARIABLES
    calls,          \* calls of the current script that ended with a 2 in a row
    missed          \* a call ended with a 5 before

vars == <<github, cycle, waiting, reviewing, merging, at, calls, missed>>

Init ==
    /\ InitPullRequest /\ InitAwaitChecks /\ InitAwaitReview /\ InitAutoMerge /\ InitFinishIssue
    /\ calls = 0 /\ missed = FALSE

Step(line) == pc' = line /\ code' = 0 /\ UNCHANGED <<polls, sha>>
Then(line) == Step(line) /\ calls' = 0

\* Slip: a wait that came to nothing is not counted.
AgainForever(line, otherwise) == Step(line) /\ UNCHANGED calls

\* Exit 2: the same command again, so many times.
Again(line, otherwise) ==
    IF calls + 1 < MaxCalls THEN Step(line) /\ calls' = calls + 1 ELSE Then(otherwise)

\* A fix is a commit of the cycle's own, and its checks are waited for anew.
PushFix ==
    /\ pushed < MaxCommits
    /\ pushed' = pushed + 1 /\ sha' = pushed + 1 /\ pc' = "checks" /\ code' = 0 /\ calls' = 0
    /\ UNCHANGED <<repo, head, judged, outcome, polls>>
----------------------------------------------------------------------------
(* The exit tables of steps 6, 7 and 10. *)

\* A commit that was superseded is never judged again, and is forgotten; so is
\* what has passed and is being run again.
ForgetChecks ==
    /\ checks' = [c \in Commits |-> IF c < head THEN [n \in Names |-> "none"] ELSE checks[c]]
    /\ passed' = [c \in Commits |-> {n \in passed[c] : c >= head /\ checks[c][n] = "pass"}]

ChecksDone ==
    /\ pc = "checked"
    /\ required' = {} /\ seen' = FALSE /\ UNCHANGED report
    /\ \/ /\ code \in {0, 3} /\ Then(IF vouched = "none" THEN "review" ELSE "label")
          /\ ForgetChecks /\ missed' = FALSE /\ UNCHANGED <<branch, outcome>>
       \/ code = 1 /\ PushFix /\ UNCHANGED missed
       \/ code \in {1, 4} /\ Then("blocked") /\ UNCHANGED <<github, missed>>
       \/ code = 2 /\ Again("checks", "blocked") /\ UNCHANGED <<github, missed>>
       \/ /\ code = 5 /\ missed /\ Then("blocked") /\ UNCHANGED <<github, missed>>
       \/ /\ code = 5 /\ ~missed /\ missed' = TRUE
          /\ sha' \in {sha, pushed} /\ pc' = "checks" /\ code' = 0 /\ calls' = 0
          /\ UNCHANGED <<github, polls>>
    /\ UNCHANGED <<reviewing, merging, at>>

\* What the reviewers of a rung did is not read for another, nor after the
\* review, and is forgotten with the rung.
Forget == asked' = {} /\ asks' = 0 /\ reviews' = <<>> /\ runs' = <<>> /\ now' = 0

\* The roster advances past a rung that is silent, unavailable or errored.
ReviewDone ==
    /\ pc = "reviewed"
    /\ \/ code = 0 /\ Then("address") /\ Forget /\ roster' = <<>>
       \/ code \in {1, 4, 5} /\ Then("blocked") /\ Forget /\ roster' = <<>>
       \/ code = 2 /\ calls + 1 < MaxCalls /\ Again("review", "review") /\ UNCHANGED <<reviewers, roster>>
       \/ /\ code \in {3, 6} \/ (code = 2 /\ calls + 1 >= MaxCalls)
          /\ Then("review") /\ Forget /\ roster' = Tail(roster)
    /\ UNCHANGED <<github, waiting, review, verdict, vouched, merging, at, missed>>

\* A roster that ends without "none" blocks the pull request; "none" is the
\* operator's word that it merges unreviewed.
RosterEnds ==
    /\ pc = "review"
    /\ \/ roster = <<>> /\ Then("blocked") /\ UNCHANGED vouched
       \/ roster # <<>> /\ Rung = None /\ Then("label") /\ vouched' = "waived"
    /\ Forget /\ roster' = <<>>
    /\ UNCHANGED <<github, waiting, review, verdict, merging, at, missed>>

Address ==
    /\ pc = "address"
    /\ (Then("label") /\ UNCHANGED github) \/ PushFix
    /\ UNCHANGED <<waiting, reviewing, merging, at, missed>>

\* Where the workflow waits for another label, or is not installed, no run starts.
Label ==
    /\ pc = "label"
    /\ StartRun \/ UNCHANGED merging
    /\ Then("finish") /\ ForgetChecks
    /\ UNCHANGED <<branch, outcome, waiting, reviewing, at, missed>>

FinishDone ==
    /\ pc = "finished"
    /\ \/ code = 0 /\ Then("done")
       \/ code = 2 /\ Again("finish", "blocked")
       \/ code \in {1, 3, 4, 5} /\ Then("blocked")
    /\ UNCHANGED <<github, waiting, reviewing, merging, at, missed>>

Ended == pc \in {"done", "blocked"}
Agent ==
    \/ ChecksDone \/ ReviewDone \/ RosterEnds \/ Address \/ Label \/ FinishDone
    \/ AwaitChecksStep /\ UNCHANGED <<reviewing, merging, at, calls, missed>>
    \/ AwaitReviewStep /\ UNCHANGED <<waiting, merging, at, calls, missed>>
    \/ FinishIssueStep /\ UNCHANGED <<waiting, reviewing, calls, missed>>

\* What moves while nobody looks at it may as well move when somebody is about
\* to look: at the checks of a commit, at the head, at the pull request.
Judging == {sha : x \in {pc} \cap {"runs", "statuses"}}
           \cup {head : x \in {run.state} \cap {"checks"}}
           \cup {pushed : x \in {run.state} \cap {"arm", "merge"}}
           \cup {pushed : x \in {armed} \cap {TRUE}}
Heading == pc \in {"head", "state"} \/ run.state \in {"gate", "checks", "merge"} \/ armed
Opening == pc = "state" \/ run.state \in {"arm", "merge"} \/ armed
World ==
    \/ /\ \/ \E c \in Judging : CheckMoves(c)
          \/ Heading /\ (HeadMoves \/ SomeonePushes)
          \/ Opening /\ SomeoneCloses
       /\ UNCHANGED <<waiting, reviewing, merging, at, calls, missed>>
    \/ Reviewer /\ UNCHANGED <<waiting, merging, at, calls, missed>>
    \/ AutoMergeStep /\ UNCHANGED <<waiting, reviewing, at, calls, missed>>

Next == Agent \/ World

\* The agent goes on while it can; nobody else has to.
Spec == Init /\ [][Next]_vars /\ WF_vars(Agent)
----------------------------------------------------------------------------
(* Properties. *)

Lines == {"checks", "head", "runs", "statuses", "checked", "review", "latest", "settle", "ask",
          "reviewed", "address", "label", "finish", "state", "attempts", "issue", "close",
          "confirm", "finished", "done", "blocked"}
CycleOK == pc \in Lines /\ code \in 0 .. 6 /\ polls \in 0 .. PollCount /\ sha \in 1 .. pushed
LoopOK == at \in 0 .. pushed /\ calls \in 0 .. MaxCalls - 1 /\ missed \in BOOLEAN
TypeOK == GitHubOK /\ CycleOK /\ WaitingOK /\ ReviewingOK /\ MergingOK /\ LoopOK

\* "The label is the assertion": what is labelled was reviewed by a reviewer who
\* did the review, neither refused nor failed, or its operator waived the review.
LabelledIsReviewed == Labelled => vouched \in {"real", "waived"}

\* The exit code is all the agent reads.  0 and the end of the cycle: merged, and
\* the issue closed.  1: closed, unmerged.  5, "auto merge was never armed and the
\* pull request will not merge": so it is, but when the answer to the merge
\* request was lost, or the run that a merge started died.
FinishTellsTheTruth ==
    pc \in {"finished", "done"} =>
        /\ code = 0 => pr = "merged" /\ issue = "closed"
        /\ code = 1 => pr = "closed" /\ issue = "open"
        /\ code = 5 => (pr # "merged" /\ ~armed) \/ run.lost \/ closing = "dead"

\* The waits are bounded and so are their repetitions: whatever GitHub does or
\* fails to do, and for however long, the cycle ends with a report.
CycleEnds == <>Ended
=============================================================================
