---------------------------- MODULE FinishIssue ----------------------------
(***************************************************************************)
(* scripts/finish-issue.sh: one bounded call that waits for the merge, a   *)
(* dead run of the merge workflow on the head ending the wait, and closes  *)
(* the issue and reads it again.  Removing the worktree and the branch,    *)
(* which only warns, is left out.                                          *)
(***************************************************************************)
EXTENDS AutoMerge

VARIABLES
    at              \* the head read in this poll

InitFinishIssue == at = 0

\* classify_runs: the newest attempt on this head is dead.  The run of the
\* merge is newer than the run of the label.
DeadRun(c) ==
    IF closing # "none" /\ merged = c
    THEN closing = "dead"
    ELSE run.sha = c /\ run.state = "failure"

LeaveFinish(n) == Exit(n, "finished") /\ at' = 0
NextFinishPoll ==
    IF polls + 1 < PollCount
    THEN polls' = polls + 1 /\ pc' = "state" /\ at' = 0 /\ UNCHANGED <<code, sha>>
    ELSE LeaveFinish(2)

StartFinish ==
    /\ pc = "finish"
    /\ \/ pc' = "state" /\ UNCHANGED <<code, polls, sha, at>>
       \/ LeaveFinish(4)
    /\ UNCHANGED <<github, merging>>

ReadState ==
    /\ pc = "state"
    /\ \/ pr = "merged" /\ pc' = "issue" /\ UNCHANGED <<code, polls, sha, at>>
       \/ pr = "closed" /\ LeaveFinish(1)
       \/ pr = "open" /\ at' = head /\ pc' = "attempts" /\ UNCHANGED <<code, polls, sha>>
       \/ NextFinishPoll
    /\ UNCHANGED <<github, merging>>

ReadAttempts ==
    /\ pc = "attempts"
    /\ IF DeadRun(at) THEN LeaveFinish(5) \/ NextFinishPoll ELSE NextFinishPoll
    /\ UNCHANGED <<github, merging>>

ReadIssue ==
    /\ pc = "issue"
    /\ \/ pc' = (IF issue = "open" THEN "close" ELSE "confirm") /\ UNCHANGED <<code, polls, sha, at>>
       \/ LeaveFinish(3)
    /\ UNCHANGED <<github, merging>>

\* The PATCH may be refused, lose its answer, or be answered and do nothing.
CloseIssue ==
    /\ pc = "close"
    /\ issue' \in {issue, "closed"}
    /\ \/ pc' = "confirm" /\ UNCHANGED <<code, polls, sha, at>>
       \/ LeaveFinish(3)
    /\ UNCHANGED <<branch, judged, pr, merged, armed, merging>>

\* Slip: an answered PATCH is taken for a closed issue.
ConfirmByPatch == pc = "confirm" /\ LeaveFinish(0) /\ UNCHANGED <<github, merging>>

ConfirmIssue ==
    /\ pc = "confirm"
    /\ LeaveFinish(3) \/ (issue = "closed" /\ LeaveFinish(0))
    /\ UNCHANGED <<github, merging>>

FinishIssueStep ==
    StartFinish \/ ReadState \/ ReadAttempts \/ ReadIssue \/ CloseIssue \/ ConfirmIssue
=============================================================================
