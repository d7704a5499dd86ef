---------------------------- MODULE AwaitChecks ----------------------------
(***************************************************************************)
(* scripts/await-checks.sh: one bounded call that judges the checks of one *)
(* commit, the one the cycle pushed.  The required checks, the head of the *)
(* pull request, its check runs and its statuses are read one after        *)
(* another, and each of the reads may fail.                                *)
(***************************************************************************)
EXTENDS PullRequest

VARIABLES
    required,       \* the required checks, as read at the start of the call
    report,         \* the check runs read in this poll
    seen            \* some poll found a check outstanding

unread == [n \in CheckRuns |-> "none"]
waiting == <<required, report, seen>>

InitAwaitChecks == required = {} /\ report = unread /\ seen = FALSE

\* Slip: only what has registered is outstanding.
ClassifyRegistered(buckets, needed) ==
    IF \E n \in Names : buckets[n] = "fail" THEN 1
    ELSE IF \E n \in Names : buckets[n] = "pending" THEN 2
    ELSE IF \A n \in Names : buckets[n] = "none" THEN 3
    ELSE 0

\* classify: a failure first, then what is outstanding, a required check that
\* has not registered included; no check at all is for the bound to judge.
Classify(buckets, needed) ==
    IF \E n \in Names : buckets[n] = "fail" THEN 1
    ELSE IF \E n \in Names : buckets[n] = "pending" \/ (buckets[n] = "none" /\ n \in needed) THEN 2
    ELSE IF \A n \in Names : buckets[n] = "none" THEN 3
    ELSE 0

\* Half of the required list that cannot be read is empty; a pull request that cannot is exit 4.
StartChecks ==
    /\ pc = "checks"
    /\ \/ /\ required' \in SUBSET repo.required
          /\ seen' = FALSE /\ pc' = "head" /\ UNCHANGED <<code, polls, sha>>
       \/ Exit(4, "checked") /\ UNCHANGED <<required, seen>>
    /\ UNCHANGED <<github, report>>

\* The end of a poll, which found the head to be the commit or not.
NextPoll(atHead, outstanding) ==
    /\ seen' = outstanding /\ report' = unread
    /\ IF polls + 1 < PollCount
       THEN polls' = polls + 1 /\ pc' = "head" /\ UNCHANGED <<code, sha>>
       ELSE Exit(IF ~atHead THEN 5 ELSE IF ~outstanding THEN 3 ELSE 2, "checked")

ReadHead ==
    /\ pc = "head"
    /\ \/ head = sha /\ pc' = "runs" /\ UNCHANGED <<code, polls, sha, report, seen>>
       \/ NextPoll(FALSE, seen)
    /\ UNCHANGED <<github, required>>

ReadRuns ==
    /\ pc = "runs"
    /\ \/ /\ report' = [n \in CheckRuns |-> checks[sha][n]]
          /\ pc' = "statuses" /\ UNCHANGED <<code, polls, sha, seen>>
       \/ NextPoll(TRUE, seen)
    /\ UNCHANGED <<github, required>>

ReadStatuses ==
    /\ pc = "statuses"
    /\ LET buckets == [n \in Names |-> IF n \in CheckRuns THEN report[n] ELSE checks[sha][n]]
           verdict == Classify(buckets, required) IN
       \/ verdict \in {0, 1} /\ Exit(verdict, "checked") /\ report' = unread /\ UNCHANGED seen
       \/ verdict \in {2, 3} /\ NextPoll(TRUE, seen \/ verdict = 2)
       \/ NextPoll(TRUE, seen)
    /\ UNCHANGED <<github, required>>

AwaitChecksStep == StartChecks \/ ReadHead \/ ReadRuns \/ ReadStatuses

WaitingOK == required \subseteq Names /\ seen \in BOOLEAN /\ report \in [CheckRuns -> Buckets]
----------------------------------------------------------------------------
\* "A stale green looks exactly like a real one": an exit 0 is about the commit
\* that was pushed, which the pull request's head had become, and on it every
\* required check, the ones that register late included, has passed; whatever was
\* pushed, run again or registered between the reads.
GreenIsOfThisCommit ==
    pc = "checked" /\ code = 0 => /\ required \subseteq passed[sha] /\ passed[sha] # {}
                                  /\ sha <= head
=============================================================================
