-------------------------- MODULE MergeLoopProofs --------------------------
(***************************************************************************)
(* That a cycle of the backlog loop keeps its word for any repository, any *)
(* roster, any number of commits, checks, polls and calls, whatever        *)
(* GitHub, the reviewers and other people do between two of its reads.     *)
(*                                                                         *)
(* The invariant has a part for each of those who move: what a call of     *)
(* await-checks has read of the commit it judges (Judged), whose reviews   *)
(* stand on the timeline and how they lie to the check runs (Reviewing,    *)
(* Timeline, Errors), what was asserted by the label (Vouched), and how    *)
(* the run of the label, the merge and finish-issue constrain one another  *)
(* (Gated, Finishing).                                                     *)
(***************************************************************************)
EXTENDS MergeLoop, TLAPS

Judged ==
    /\ \A c \in Commits, n \in Names : checks[c][n] = "pass" => n \in passed[c]
    /\ pc \in {"runs", "statuses"} => sha <= head
    /\ pc = "statuses" => \A n \in CheckRuns : report[n] = "pass" => n \in passed[sha]
    /\ GreenIsOfThisCommit

\* The requests, the runs and the reviews are those of the rung that is asked.
Reviewing ==
    /\ \A rung \in asked : roster # <<>> /\ rung = Rung
    /\ asks > 0 => roster # <<>> /\ Rung = Copilot
    /\ pc \in {"latest", "settle", "ask", "reviewed"} => roster # <<>> /\ Rung # None
    /\ pc = "settle" => review.by = Rung /\ \E k \in DOMAIN reviews : review = reviews[k]

\* One run after another; what a run does last follows what it did before at once.
Timeline ==
    /\ \A i \in DOMAIN runs :
        /\ runs[i].start \in 1 .. now /\ runs[i].end \in 0 .. now
        /\ runs[i].end # 0 => runs[i].start < runs[i].end /\ (runs[i].told \/ runs[i].end = now)
    /\ \A i, j \in DOMAIN runs : i < j =>
        runs[i].end # 0 /\ runs[i].told /\ runs[i].end < runs[j].start

\* An error stands next to the end of the run that failed, or away from all.
ErrorOf(i, t) ==
    /\ runs[i].told /\ ~runs[i].ok /\ runs[i].start < t
    /\ IF runs[i].end = 0 THEN t = now ELSE runs[i].end = t + 1 \/ t = runs[i].end + 1
    /\ \A j \in DOMAIN runs : i < j => t < runs[j].start
Away(t) == \A i \in DOMAIN runs : t < runs[i].start \/ (runs[i].end # 0 /\ t > runs[i].end + Slack)
Errors ==
    \A k \in DOMAIN reviews : LET r == reviews[k] IN
        /\ r.at <= now /\ r.kind # "none"
        /\ r.kind = "error" => r.by = Copilot /\ (Away(r.at) \/ \E i \in DOMAIN runs : ErrorOf(i, r.at))

Finishes == {"finish", "state", "attempts", "issue", "close", "confirm", "finished", "done"}
Vouched ==
    /\ vouched \in {"none", "real", "waived"}
    /\ pc = "reviewed" /\ code = 0 => vouched = "real"
    /\ pc = "address" => vouched = "real"
    /\ pc \in {"label"} \cup Finishes => vouched \in {"real", "waived"}
    /\ LabelledIsReviewed

\* Only a run of the label merges, and it merges what it has judged.
Gated ==
    /\ Labelled => pc \in Finishes \cup {"blocked"} /\ run.sha \in Commits
    /\ armed \/ pr = "merged" => run.state = "success" \/ run.lost
    /\ run.lost => run.state = "failure"
    /\ run.state = "arm" \/ armed => repo.native
    /\ run.state \in {"checks", "merge"} => run.sha <= head
    /\ run.state = "merge" /\ pushed = run.sha => saw \subseteq passed[run.sha]
    /\ pr = "merged" => merged \in Commits
    /\ MergedIsGated

\* What ends stays so: the merge, the close, the issue, the run.
Finishing ==
    /\ closing # "none" \/ issue = "closed" => pr = "merged"
    /\ pc \in {"issue", "close", "confirm"} => pr = "merged"
    /\ pc = "done" => code = 0
    /\ pc \in {"finished", "done"} =>
        /\ code = 0 => pr = "merged" /\ issue = "closed"
        /\ code = 1 => pr = "closed"
        /\ code = 5 => run.state = "failure" \/ closing = "dead"

Inv ==
    /\ TypeOK /\ Judged /\ Reviewing /\ Timeline /\ Gated /\ Finishing
    /\ NearErrors \/ (Errors /\ Vouched)


LEMMA Constants ==
    /\ MaxCommits \in Nat \ {0} /\ PollCount \in Nat \ {0} /\ MaxCalls \in Nat \ {0}
    /\ Slack \in Nat \ {0} /\ MaxEvents \in Nat
    /\ Commits = 1 .. MaxCommits /\ Names = CheckRuns \cup Statuses
    /\ \A r \in Repositories :
        r.required \subseteq r.checks /\ r.checks \subseteq Names /\ r.roster \in Seq(Rungs)
BY PullRequestAssumption, AwaitReviewAssumption DEF Commits, Names

LEMMA InitInv == Init => Inv
<1> SUFFICES ASSUME Init PROVE Inv
    OBVIOUS
<1>1. /\ repo \in Repositories /\ pushed = 1 /\ head = 1
      /\ checks = [c \in Commits |-> [n \in Names |-> "none"]] /\ passed = [c \in Commits |-> {}]
      /\ pr = "open" /\ merged = 0 /\ issue = "open"
      /\ pc = "checks" /\ code = 0 /\ polls = 0 /\ sha = 1
    BY DEF Init, InitPullRequest
<1>2. /\ required = {} /\ report = unread
      /\ roster = repo.roster /\ asked = {} /\ asks = 0 /\ reviews = <<>> /\ runs = <<>> /\ now = 0
      /\ review = unsent /\ verdict = "none" /\ vouched = "none"
    BY DEF Init, InitAwaitChecks, InitAwaitReview
<1>3. /\ run = [state |-> "none", sha |-> 0, lost |-> FALSE]
      /\ saw = {} /\ closing = "none" /\ at = 0 /\ calls = 0
    BY DEF Init, InitAutoMerge, InitFinishIssue
<1>4. armed = FALSE /\ seen = FALSE /\ missed = FALSE
    BY DEF Init, InitPullRequest, InitAwaitChecks
<1>5. TypeOK
  <2>1. armed \in BOOLEAN /\ seen \in BOOLEAN /\ missed \in BOOLEAN
      BY <1>4
  <2>2. GitHubOK
      BY <1>1, <2>1, Constants DEF GitHubOK, Buckets
  <2>3. WaitingOK
      BY <1>2, <2>1 DEF WaitingOK, unread, Buckets
  <2>4. ReviewingOK
    <3>1. unsent \in Reviews
        BY DEF unsent, Reviews, Rungs
    <3>2. roster \in Seq(Rungs)
        BY <1>1, <1>2, Constants
    <3>3. reviews \in Seq(Reviews) /\ Len(reviews) = 0 /\ runs \in Seq(CopilotRuns) /\ Len(runs) = 0
        BY <1>2
    <3>4. review \in Reviews /\ asked \subseteq Rungs \ {None} /\ now \in 0 .. MaxEvents
        BY <1>2, <3>1, Constants
    <3> QED
        BY <1>2, <3>2, <3>3, <3>4 DEF ReviewingOK
  <2>5. MergingOK
      BY <1>1, <1>3 DEF MergingOK, RunStates
  <2>6. CycleOK
      BY <1>1, Constants DEF CycleOK, Lines
  <2>7. LoopOK
      BY <1>1, <1>3, <2>1, Constants DEF LoopOK
  <2> QED
      BY <2>2, <2>3, <2>4, <2>5, <2>6, <2>7 DEF TypeOK
<1>6. Judged
    BY <1>1 DEF Judged, GreenIsOfThisCommit
<1>7. Reviewing /\ Timeline /\ Errors
  <2>1. DOMAIN runs = {} /\ DOMAIN reviews = {}
      BY <1>2
  <2>2. Reviewing
      BY <1>1, <1>2 DEF Reviewing
  <2>3. Timeline
      BY <2>1 DEF Timeline
  <2>4. Errors
      BY <2>1 DEF Errors
  <2> QED
      BY <2>2, <2>3, <2>4
<1>8. Vouched
    BY <1>1, <1>2, <1>3 DEF Vouched, LabelledIsReviewed, Labelled, Finishes
<1>9. Gated /\ Finishing
  <2>1. ~armed /\ ~run.lost /\ run.state = "none"
      BY <1>3, <1>4
  <2> QED
      BY <1>1, <1>3, <2>1 DEF Gated, Finishing, MergedIsGated, Labelled, Finishes
<1> QED
    BY <1>5, <1>6, <1>7, <1>8, <1>9 DEF Inv

----------------------------------------------------------------------------
(* Types. *)

LEMMA ChecksTyped ==
    ASSUME TypeOK, AwaitChecksStep, UNCHANGED <<reviewing, merging, at, calls, missed>> PROVE TypeOK'
<1>1. UNCHANGED github
    BY DEF AwaitChecksStep, StartChecks, ReadHead, ReadRuns, ReadStatuses
<1>2. GitHubOK' /\ ReviewingOK' /\ MergingOK' /\ LoopOK'
  <2>1. GitHubOK'
      BY <1>1 DEF TypeOK, GitHubOK, github, branch, judged, outcome
  <2>2. ReviewingOK'
      BY DEF TypeOK, ReviewingOK, reviewing, reviewers
  <2>3. MergingOK'
      BY <1>1 DEF TypeOK, MergingOK, merging, github, branch
  <2>4. LoopOK'
      BY <1>1 DEF TypeOK, LoopOK, github, branch
  <2> QED
      BY <2>1, <2>2, <2>3, <2>4
<1>3. CycleOK' /\ WaitingOK'
  <2> USE Constants DEF TypeOK, CycleOK, WaitingOK, Lines, Exit
  <2>1. pushed' = pushed
      BY <1>1 DEF github, branch
  <2>2. unread \in [CheckRuns -> Buckets]
      BY DEF unread, Buckets
  <2>3. CASE StartChecks
    <3>1. CycleOK'
        BY <2>1, <2>3 DEF StartChecks
    <3>2. repo.required \subseteq Names
        BY DEF GitHubOK
    <3>3. required' \subseteq Names /\ seen' \in BOOLEAN
        BY <2>3, <3>2 DEF StartChecks
    <3>4. report' = report
        BY <2>3 DEF StartChecks
    <3> QED
        BY <3>1, <3>3, <3>4
  <2>4. ASSUME NEW atHead \in BOOLEAN, NEW outstanding \in BOOLEAN, NextPoll(atHead, outstanding), UNCHANGED required
        PROVE  CycleOK' /\ WaitingOK'
      BY <2>1, <2>2, <2>4 DEF NextPoll
  <2>5. CASE ReadHead
      BY <2>1, <2>4, <2>5 DEF ReadHead
  <2>6. CASE ReadRuns
    <3>1. [n \in CheckRuns |-> checks[sha][n]] \in [CheckRuns -> Buckets]
      <4>1. sha \in Commits
          BY DEF GitHubOK
      <4>2. checks \in [Commits -> [Names -> Buckets]]
          BY DEF GitHubOK
      <4> QED
          BY <4>1, <4>2
    <3>2. CASE NextPoll(TRUE, seen) /\ UNCHANGED required
        BY <2>4, <3>2
    <3>3. CASE /\ report' = [n \in CheckRuns |-> checks[sha][n]]
               /\ pc' = "statuses" /\ UNCHANGED <<code, polls, sha, seen>> /\ UNCHANGED required
      <4>1. CycleOK'
          BY <2>1, <3>3
      <4>2. WaitingOK'
          BY <3>1, <3>3
      <4> QED
          BY <4>1, <4>2
    <3> QED
        BY <2>6, <3>2, <3>3 DEF ReadRuns
  <2>7. CASE ReadStatuses
    <3>1. PICK judgement \in {0, 1, 2, 3} :
              /\ \/ judgement \in {0, 1} /\ Exit(judgement, "checked") /\ report' = unread /\ UNCHANGED seen
                 \/ judgement \in {2, 3} /\ NextPoll(TRUE, seen \/ judgement = 2)
                 \/ NextPoll(TRUE, seen)
              /\ UNCHANGED required
        BY <2>7 DEF ReadStatuses, Classify
    <3>2. CASE Exit(judgement, "checked") /\ report' = unread /\ UNCHANGED <<seen, required>>
      <4>1. CycleOK'
          BY <2>1, <3>2
      <4>2. WaitingOK'
          BY <2>2, <3>2
      <4> QED
          BY <4>1, <4>2
    <3>3. (seen \/ judgement = 2) \in BOOLEAN
        OBVIOUS
    <3> QED
        BY <2>4, <3>1, <3>2, <3>3
  <2> QED
      BY <2>3, <2>5, <2>6, <2>7 DEF AwaitChecksStep
<1> QED
    BY <1>2, <1>3 DEF TypeOK

LEMMA ReviewTyped ==
    ASSUME TypeOK, Reviewing, AwaitReviewStep, UNCHANGED <<waiting, merging, at, calls, missed>> PROVE TypeOK'
<1>1. UNCHANGED github
    BY DEF AwaitReviewStep, StartReview, ReadReview, Settle, Ask
<1>2. GitHubOK' /\ WaitingOK' /\ MergingOK' /\ LoopOK'
  <2>1. GitHubOK'
      BY <1>1 DEF TypeOK, GitHubOK, github, branch, judged, outcome
  <2>2. WaitingOK'
      BY DEF TypeOK, WaitingOK, waiting
  <2>3. MergingOK'
      BY <1>1 DEF TypeOK, MergingOK, merging, github, branch
  <2>4. LoopOK'
      BY <1>1 DEF TypeOK, LoopOK, github, branch
  <2> QED
      BY <2>1, <2>2, <2>3, <2>4
<1>3. CycleOK'
  <2>1. pushed' = pushed
      BY <1>1 DEF github, branch
  <2>2. ASSUME NEW v, KeepWaiting(v) PROVE CycleOK'
      BY <2>1, <2>2, Constants DEF TypeOK, CycleOK, KeepWaiting, Leave, Exit, Lines
  <2>3. ASSUME NEW n \in 0 .. 6, Leave(n) PROVE CycleOK'
      BY <2>1, <2>3, Constants DEF TypeOK, CycleOK, Leave, Exit, Lines
  <2>4. CASE StartReview
      BY <2>1, <2>3, <2>4 DEF TypeOK, CycleOK, StartReview, Lines
  <2>5. CASE ReadReview
      BY <2>1, <2>2, <2>5 DEF TypeOK, CycleOK, ReadReview, Lines
  <2>6. CASE Settle
      BY <2>1, <2>2, <2>3, <2>6 DEF TypeOK, CycleOK, Settle, Undecided, ExitCode, Lines
  <2>7. CASE Ask
      BY <2>1, <2>2, <2>3, <2>7 DEF TypeOK, CycleOK, Ask, Lines
  <2> QED
      BY <2>4, <2>5, <2>6, <2>7 DEF AwaitReviewStep
<1>4. ReviewingOK'
  <2>1. UNCHANGED <<roster, reviews, runs, now>>
      BY DEF AwaitReviewStep, StartReview, ReadReview, Settle, Ask, reviewers
  <2>2. unsent \in Reviews
      BY DEF unsent, Reviews, Rungs
  <2>3. ASSUME roster # <<>> PROVE Rung \in Rungs
      BY <2>3 DEF TypeOK, ReviewingOK, Rung
  <2>4. ASSUME NEW v \in {"none", "pending", "retry"}, KeepWaiting(v)
        PROVE  review' \in Reviews /\ verdict' \in {"none", "pending", "retry"}
      BY <2>2, <2>4 DEF KeepWaiting, Leave
  <2>5. CASE StartReview
      BY <2>1, <2>2, <2>3, <2>5 DEF StartReview, TypeOK, ReviewingOK, Leave
  <2>6. CASE ReadReview
      BY <2>1, <2>4, <2>6 DEF ReadReview, TypeOK, ReviewingOK, reviewers
  <2>7. CASE Settle
    <3>1. review.kind \in {"none", "real", "refusal", "error"}
        BY DEF TypeOK, ReviewingOK, Reviews
    <3>2. review' \in Reviews /\ verdict' \in {"none", "pending", "retry"}
        BY <2>2, <2>4, <2>7 DEF Settle, Undecided, Leave
    <3>3. vouched' \in {"none", "waived", "real", "refusal", "error"}
        BY <2>7, <3>1 DEF Settle, Undecided, TypeOK, ReviewingOK
    <3> QED
        BY <2>1, <2>7, <3>2, <3>3 DEF Settle, TypeOK, ReviewingOK, reviewers
  <2>8. CASE Ask
    <3>1. roster # <<>> /\ Rung \in Rungs \ {None}
        BY <2>3, <2>8 DEF Ask, Reviewing
    <3>2. asked' \subseteq Rungs \ {None} /\ asks' \in Nat /\ asks <= asks'
        BY <2>8, <3>1 DEF Ask, Place, TypeOK, ReviewingOK
    <3>3. review' \in Reviews /\ verdict' \in {"none", "pending", "retry"}
        BY <2>2, <2>4, <2>8 DEF Ask, Leave, TypeOK, ReviewingOK
    <3>4. vouched' = vouched
        BY <2>8 DEF Ask
    <3>5. Len(runs) \in Nat
        BY DEF TypeOK, ReviewingOK
    <3> QED
        BY <2>1, <3>2, <3>3, <3>4, <3>5 DEF TypeOK, ReviewingOK
  <2> QED
      BY <2>5, <2>6, <2>7, <2>8 DEF AwaitReviewStep
<1> QED
    BY <1>2, <1>3, <1>4 DEF TypeOK

LEMMA FinishTyped ==
    ASSUME TypeOK, FinishIssueStep, UNCHANGED <<waiting, reviewing, calls, missed>> PROVE TypeOK'
<1>1. UNCHANGED <<branch, judged, pr, merged, armed, merging>>
    BY DEF FinishIssueStep, StartFinish, ReadState, ReadAttempts, ReadIssue, CloseIssue, ConfirmIssue,
           github, outcome
<1>2. issue' \in {issue, "closed"}
    BY DEF FinishIssueStep, StartFinish, ReadState, ReadAttempts, ReadIssue, CloseIssue, ConfirmIssue,
           github, outcome
<1>3. GitHubOK'
    BY <1>1, <1>2 DEF TypeOK, GitHubOK, branch, judged
<1>4. WaitingOK' /\ ReviewingOK'
  <2>1. WaitingOK'
      BY DEF TypeOK, WaitingOK, waiting
  <2>2. ReviewingOK'
      BY DEF TypeOK, ReviewingOK, reviewing, reviewers
  <2> QED
      BY <2>1, <2>2
<1>5. MergingOK'
    BY <1>1 DEF TypeOK, MergingOK, branch, merging
<1>6. CycleOK' /\ at' \in 0 .. pushed
  <2> USE Constants DEF TypeOK, CycleOK, LoopOK, Lines, Exit, LeaveFinish
  <2>1. pushed' = pushed /\ head \in 1 .. pushed /\ pushed \in Nat
      BY <1>1 DEF branch, GitHubOK, Commits
  <2>2. CASE NextFinishPoll
      BY <2>1, <2>2 DEF NextFinishPoll
  <2>3. CASE StartFinish
      BY <2>1, <2>3 DEF StartFinish
  <2>4. CASE ReadState
      BY <2>1, <2>2, <2>4 DEF ReadState
  <2>5. CASE ReadAttempts
      BY <2>1, <2>2, <2>5 DEF ReadAttempts
  <2>6. CASE ReadIssue
      BY <2>1, <2>6 DEF ReadIssue
  <2>7. CASE CloseIssue
      BY <2>1, <2>7 DEF CloseIssue
  <2>8. CASE ConfirmIssue
      BY <2>1, <2>8 DEF ConfirmIssue
  <2> QED
      BY <2>3, <2>4, <2>5, <2>6, <2>7, <2>8 DEF FinishIssueStep
<1>7. LoopOK'
    BY <1>1, <1>6 DEF TypeOK, LoopOK, branch
<1> QED
    BY <1>3, <1>4, <1>5, <1>6, <1>7 DEF TypeOK


\* The branch only grows, and with it the commits there are to name.
LEMMA StandStill ==
    ASSUME TypeOK, pushed' \in Commits, pushed <= pushed'
    PROVE  /\ 0 .. pushed \subseteq 0 .. pushed' /\ 1 .. pushed \subseteq 1 .. pushed' /\ pushed \in Nat \ {0}
           /\ UNCHANGED merging => MergingOK'
           /\ UNCHANGED waiting => WaitingOK'
           /\ UNCHANGED reviewing => ReviewingOK'
<1>1. 0 .. pushed \subseteq 0 .. pushed' /\ 1 .. pushed \subseteq 1 .. pushed' /\ pushed \in Nat \ {0}
  <2>1. pushed \in Commits
      BY DEF TypeOK, GitHubOK
  <2> QED
      BY <2>1, Constants
<1>2. UNCHANGED merging => MergingOK'
    BY <1>1 DEF TypeOK, MergingOK, merging
<1>3. UNCHANGED waiting => WaitingOK'
    BY DEF TypeOK, WaitingOK, waiting
<1>4. UNCHANGED reviewing => ReviewingOK'
    BY DEF TypeOK, ReviewingOK, reviewing, reviewers
<1> QED
    BY <1>1, <1>2, <1>3, <1>4

LEMMA PushFixTyped ==
    ASSUME TypeOK, PushFix
    PROVE  /\ GitHubOK' /\ CycleOK' /\ pushed' \in Commits /\ pushed <= pushed' /\ calls' \in 0 .. MaxCalls - 1
<1>1. pushed' \in Commits /\ pushed <= pushed' /\ pushed \in Nat \ {0} /\ pushed' = pushed + 1
  <2>1. pushed \in Commits
      BY DEF TypeOK, GitHubOK
  <2> QED
      BY <2>1, Constants DEF PushFix
<1>2. head' \in 1 .. pushed' /\ merged' \in 0 .. pushed'
  <2>1. head \in 1 .. pushed /\ merged \in 0 .. pushed
      BY DEF TypeOK, GitHubOK
  <2> QED
      BY <1>1, <2>1, StandStill DEF PushFix, outcome
<1>3. GitHubOK'
    BY <1>1, <1>2 DEF TypeOK, GitHubOK, PushFix, judged, outcome
<1>4. CycleOK'
    BY <1>1 DEF TypeOK, CycleOK, PushFix, Lines
<1>5. calls' \in 0 .. MaxCalls - 1
    BY Constants DEF PushFix
<1> QED
    BY <1>1, <1>3, <1>4, <1>5

LEMMA ForgetChecksTyped ==
    ASSUME TypeOK, ForgetChecks
    PROVE  checks' \in [Commits -> [Names -> Buckets]] /\ passed' \in [Commits -> SUBSET Names]
<1>1. checks \in [Commits -> [Names -> Buckets]] /\ passed \in [Commits -> SUBSET Names]
    BY DEF TypeOK, GitHubOK
<1>2. [n \in Names |-> "none"] \in [Names -> Buckets]
    BY DEF Buckets
<1> QED
    BY <1>1, <1>2 DEF ForgetChecks

\* The agent goes on to a line, and nobody has pushed.
LEMMA StepTyped ==
    ASSUME TypeOK, NEW line \in Lines, Step(line), pushed' = pushed PROVE CycleOK'
BY DEF TypeOK, CycleOK, Step

LEMMA AgainTyped ==
    ASSUME TypeOK, NEW line \in Lines, NEW otherwise \in Lines, pushed' = pushed,
           Again(line, otherwise) \/ Then(line)
    PROVE  CycleOK' /\ calls' \in 0 .. MaxCalls - 1
<1>1. CycleOK'
    BY StepTyped DEF Again, Then
<1>2. calls' \in 0 .. MaxCalls - 1
  <2>1. calls \in 0 .. MaxCalls - 1
      BY DEF TypeOK, LoopOK
  <2> QED
      BY <2>1, Constants DEF Again, Then
<1> QED
    BY <1>1, <1>2

LEMMA ChecksDoneTyped == ASSUME TypeOK, ChecksDone PROVE TypeOK'
<1>1. GitHubOK' /\ CycleOK' /\ pushed' \in Commits /\ pushed <= pushed' /\ calls' \in 0 .. MaxCalls - 1
  <2>1. pushed \in Commits /\ pushed \in Nat
      BY Constants DEF TypeOK, GitHubOK
  <2>2. ASSUME UNCHANGED github PROVE GitHubOK' /\ pushed' = pushed
      BY <2>2 DEF TypeOK, GitHubOK, github, branch, judged, outcome
  <2>3. ASSUME NEW line \in {"review", "label"}, Then(line), ForgetChecks, UNCHANGED <<branch, outcome>>
        PROVE  GitHubOK' /\ CycleOK' /\ pushed' = pushed /\ calls' \in 0 .. MaxCalls - 1
    <3>1. GitHubOK' /\ pushed' = pushed
        BY <2>3, ForgetChecksTyped DEF TypeOK, GitHubOK, branch, outcome
    <3> QED
        BY <2>3, <3>1, AgainTyped DEF Lines
  <2>4. ASSUME Then("blocked") \/ Again("checks", "blocked"), UNCHANGED github
        PROVE  GitHubOK' /\ CycleOK' /\ pushed' = pushed /\ calls' \in 0 .. MaxCalls - 1
      BY <2>2, <2>4, AgainTyped DEF Lines
  <2>5. ASSUME sha' \in {sha, pushed}, pc' = "checks", code' = 0, calls' = 0, UNCHANGED <<github, polls>>
        PROVE  GitHubOK' /\ CycleOK' /\ pushed' = pushed /\ calls' \in 0 .. MaxCalls - 1
    <3>1. pushed \in 1 .. pushed
        BY <2>1, Constants
    <3>2. CycleOK'
        BY <2>2, <2>5, <3>1 DEF TypeOK, CycleOK, Lines
    <3> QED
        BY <2>2, <2>5, <3>2, Constants
  <2> QED
      BY <2>1, <2>3, <2>4, <2>5, PushFixTyped DEF ChecksDone
<1>2. WaitingOK'
    BY DEF ChecksDone, TypeOK, WaitingOK
<1>3. UNCHANGED <<reviewing, merging, at>> /\ missed' \in BOOLEAN
    BY DEF ChecksDone, TypeOK, LoopOK
<1>4. LoopOK'
    BY <1>1, <1>3, StandStill DEF TypeOK, LoopOK
<1> QED
    BY <1>1, <1>2, <1>3, <1>4, StandStill DEF TypeOK

LEMMA ReviewDoneTyped == ASSUME TypeOK, Reviewing, ReviewDone \/ RosterEnds PROVE TypeOK'
<1>1. UNCHANGED <<github, waiting, review, verdict, merging, at, missed>>
    BY DEF ReviewDone, RosterEnds
<1>2. GitHubOK' /\ pushed' = pushed /\ pushed' \in Commits /\ pushed <= pushed'
  <2>1. GitHubOK' /\ pushed' = pushed /\ pushed' \in Commits
      BY <1>1 DEF TypeOK, GitHubOK, github, branch, judged, outcome
  <2> QED
      BY <2>1, Constants
<1>3. CycleOK' /\ calls' \in 0 .. MaxCalls - 1
    BY <1>2, AgainTyped DEF ReviewDone, RosterEnds, Lines
<1>4. ReviewingOK'
  <2>1. roster' \in Seq(Rungs)
    <3>1. pc = "reviewed" => roster # <<>>
        BY DEF Reviewing
    <3>2. roster # <<>> => Tail(roster) \in Seq(Rungs)
        BY DEF TypeOK, ReviewingOK
    <3>3. roster' = roster \/ roster' = <<>> \/ (pc = "reviewed" /\ roster' = Tail(roster))
        BY DEF ReviewDone, RosterEnds
    <3>4. roster \in Seq(Rungs) /\ <<>> \in Seq(Rungs)
        BY DEF TypeOK, ReviewingOK
    <3> QED
        BY <3>1, <3>2, <3>3, <3>4
  <2>2. vouched' \in {vouched, "waived"}
      BY DEF ReviewDone, RosterEnds
  <2>3. Forget \/ UNCHANGED reviewers
      BY DEF ReviewDone, RosterEnds
  <2>4. CASE Forget
    <3>1. /\ asked' \subseteq Rungs \ {None} /\ asks' \in Nat /\ now' \in 0 .. MaxEvents
          /\ reviews' \in Seq(Reviews) /\ Len(reviews') <= now' /\ Len(runs') <= asks'
        BY <2>4, Constants DEF Forget
    <3>2. runs' \in Seq(CopilotRuns)
        BY <2>4 DEF Forget
    <3> QED
        BY <1>1, <2>1, <2>2, <3>1, <3>2 DEF TypeOK, ReviewingOK
  <2>5. CASE UNCHANGED reviewers
      BY <1>1, <2>1, <2>2, <2>5 DEF TypeOK, ReviewingOK, reviewers
  <2> QED
      BY <2>3, <2>4, <2>5
<1>5. LoopOK'
    BY <1>1, <1>2, <1>3 DEF TypeOK, LoopOK
<1> QED
    BY <1>1, <1>2, <1>3, <1>4, <1>5, StandStill DEF TypeOK

LEMMA AddressTyped == ASSUME TypeOK, Address \/ Label \/ FinishDone PROVE TypeOK'
<1>1. GitHubOK' /\ CycleOK' /\ pushed' \in Commits /\ pushed <= pushed' /\ calls' \in 0 .. MaxCalls - 1
  <2>1. pushed \in Commits /\ pushed \in Nat
      BY Constants DEF TypeOK, GitHubOK
  <2>2. ASSUME UNCHANGED github PROVE GitHubOK' /\ pushed' = pushed
      BY <2>2 DEF TypeOK, GitHubOK, github, branch, judged, outcome
  <2>3. CASE Address
      BY <2>1, <2>2, <2>3, AgainTyped, PushFixTyped DEF Address, Lines
  <2>4. CASE Label
    <3>1. GitHubOK' /\ pushed' = pushed
        BY <2>4, ForgetChecksTyped DEF Label, TypeOK, GitHubOK, branch, outcome
    <3> QED
        BY <2>1, <2>4, <3>1, AgainTyped DEF Label, Lines
  <2>5. CASE FinishDone
    <3>1. UNCHANGED github
        BY <2>5 DEF FinishDone
    <3>2. GitHubOK' /\ pushed' = pushed
        BY <2>2, <3>1
    <3>3. \/ \E line \in {"done", "blocked"} : Then(line)
          \/ Again("finish", "blocked")
        BY <2>5 DEF FinishDone
    <3>4. CycleOK' /\ calls' \in 0 .. MaxCalls - 1
        BY <3>2, <3>3, AgainTyped DEF Lines
    <3> QED
        BY <2>1, <3>2, <3>4
  <2> QED
      BY <2>3, <2>4, <2>5
<1>2. UNCHANGED <<waiting, reviewing, at, missed>>
    BY DEF Address, Label, FinishDone
<1>3. MergingOK'
  <2>1. CASE UNCHANGED merging
      BY <1>1, <2>1, StandStill
  <2>2. CASE StartRun
    <3>1. run \in [state : RunStates, sha : 0 .. pushed, lost : BOOLEAN]
        BY DEF TypeOK, MergingOK
    <3>2. 0 .. pushed \subseteq 0 .. pushed' /\ pushed \in 0 .. pushed
        BY <1>1, StandStill
    <3>3. run' \in [state : RunStates, sha : 0 .. pushed, lost : BOOLEAN]
        BY <2>2, <3>1, <3>2 DEF StartRun, RunStates
    <3>4. run' \in [state : RunStates, sha : 0 .. pushed', lost : BOOLEAN]
        BY <3>2, <3>3
    <3> QED
        BY <2>2, <3>4 DEF StartRun, TypeOK, MergingOK
  <2> QED
      BY <2>1, <2>2 DEF Address, Label, FinishDone
<1>4. LoopOK'
    BY <1>1, <1>2, StandStill DEF TypeOK, LoopOK
<1> QED
    BY <1>1, <1>2, <1>3, <1>4, StandStill DEF TypeOK


\* GitHub and other people.
LEMMA WorldTyped ==
    ASSUME TypeOK, (\E c \in Judging : CheckMoves(c)) \/ HeadMoves \/ SomeonePushes \/ SomeoneCloses,
           UNCHANGED <<waiting, reviewing, merging, at, calls, missed>>
    PROVE  TypeOK'
<1>1. pushed \in Commits /\ pushed \in Nat /\ UNCHANGED cycle
    BY Constants DEF TypeOK, GitHubOK, CheckMoves, HeadMoves, SomeonePushes, SomeoneCloses
<1>2. GitHubOK' /\ pushed' \in Commits /\ pushed <= pushed'
  <2>1. ASSUME NEW c \in Judging, CheckMoves(c) PROVE GitHubOK' /\ pushed' = pushed
    <3>1. c \in Commits
      <4>1. sha \in Commits /\ head \in Commits
          BY Constants DEF TypeOK, GitHubOK, CycleOK
      <4> QED
          BY <1>1, <4>1 DEF Judging
    <3>2. PICK n \in repo.checks, move \in Moves :
              /\ checks' = [checks EXCEPT ![c][n] = move[2]]
              /\ passed' = IF move[2] = "pass" THEN [passed EXCEPT ![c] = @ \cup {n}] ELSE passed
        BY <2>1 DEF CheckMoves
    <3>3. n \in Names /\ move[2] \in Buckets
        BY Constants DEF TypeOK, GitHubOK, Moves, Buckets
    <3>4. checks' \in [Commits -> [Names -> Buckets]]
        BY <3>1, <3>2, <3>3 DEF TypeOK, GitHubOK
    <3>5. passed' \in [Commits -> SUBSET Names]
        BY <3>1, <3>2, <3>3 DEF TypeOK, GitHubOK
    <3> QED
        BY <2>1, <3>4, <3>5 DEF CheckMoves, TypeOK, GitHubOK, branch, outcome
  <2>2. CASE HeadMoves
    <3>1. pushed \in 1 .. pushed
        BY <1>1, Constants
    <3> QED
        BY <1>1, <2>2, <3>1 DEF HeadMoves, TypeOK, GitHubOK, judged, outcome
  <2>3. CASE SomeonePushes
    <3>1. pushed' = pushed + 1 /\ pushed + 1 \in Commits /\ pushed <= pushed'
        BY <1>1, <2>3, Constants DEF SomeonePushes
    <3>2. head' \in 1 .. pushed' /\ merged' \in 0 .. pushed'
        BY <2>3, <3>1, StandStill DEF SomeonePushes, TypeOK, GitHubOK, outcome
    <3> QED
        BY <2>3, <3>1, <3>2 DEF SomeonePushes, TypeOK, GitHubOK, judged, outcome
  <2>4. ASSUME SomeoneCloses PROVE GitHubOK'
      BY <2>4 DEF SomeoneCloses, TypeOK, GitHubOK, branch, judged
  <2>5. \/ UNCHANGED branch
        \/ HeadMoves \/ SomeonePushes
      BY DEF CheckMoves, SomeoneCloses
  <2>6. pushed' \in Commits /\ pushed <= pushed'
      BY <1>1, <2>5, Constants DEF branch, HeadMoves, SomeonePushes
  <2>7. GitHubOK'
      BY <2>1, <2>2, <2>3, <2>4
  <2> QED
      BY <2>6, <2>7
<1>3. CycleOK' /\ LoopOK'
    BY <1>1, <1>2, StandStill DEF TypeOK, CycleOK, LoopOK, cycle
<1> QED
    BY <1>2, <1>3, StandStill DEF TypeOK

\* The reviewers.
LEMMA PostTyped ==
    ASSUME TypeOK, Tick, NEW by \in Rungs, NEW kind \in {"real", "refusal", "error"}, Post(by, kind)
    PROVE  /\ reviews' \in Seq(Reviews) /\ Len(reviews') <= now' /\ asked' \subseteq Rungs \ {None}
           /\ Len(reviews') = Len(reviews) + 1 /\ reviews'[Len(reviews) + 1] = [by |-> by, at |-> now + 1, kind |-> kind]
           /\ \A k \in DOMAIN reviews : k \in DOMAIN reviews' /\ reviews'[k] = reviews[k]
           /\ \A k \in DOMAIN reviews' : k \in DOMAIN reviews \/ k = Len(reviews) + 1
<1>1. reviews \in Seq(Reviews) /\ now \in Nat /\ now' = now + 1 /\ Len(reviews) <= now
    BY Constants DEF TypeOK, ReviewingOK, Tick
<1>2. [by |-> by, at |-> now + 1, kind |-> kind] \in Reviews
    BY <1>1 DEF Reviews
<1> QED
    BY <1>1, <1>2 DEF Post, TypeOK, ReviewingOK

LEMMA RunMovesTyped ==
    ASSUME TypeOK, NEW i \in DOMAIN runs, NEW x \in CopilotRuns
    PROVE  [runs EXCEPT ![i] = x] \in Seq(CopilotRuns) /\ Len([runs EXCEPT ![i] = x]) = Len(runs)
<1>1. runs \in Seq(CopilotRuns)
    BY DEF TypeOK, ReviewingOK
<1> QED
    BY <1>1

LEMMA ReviewerTyped ==
    ASSUME TypeOK, Reviewer, UNCHANGED <<waiting, merging, at, calls, missed>> PROVE TypeOK'
<1>1. UNCHANGED <<github, cycle, roster, review, verdict, vouched>> /\ Tick
    BY DEF Reviewer, RunStarts, RunEnds, RunPosts, ErrsWithoutRun, OtherPosts
<1>2. GitHubOK' /\ pushed' = pushed /\ pushed' \in Commits /\ pushed <= pushed'
  <2>1. GitHubOK' /\ pushed' = pushed /\ pushed' \in Commits
      BY <1>1 DEF TypeOK, GitHubOK, github, branch, judged, outcome
  <2> QED
      BY <2>1, Constants
<1>3. CycleOK' /\ LoopOK'
    BY <1>1, <1>2 DEF TypeOK, CycleOK, LoopOK, cycle
<1>4. now' \in 0 .. MaxEvents /\ now' = now + 1 /\ now \in Nat
    BY <1>1, Constants DEF Tick, TypeOK, ReviewingOK
<1>5. runs \in Seq(CopilotRuns) /\ Len(runs) \in Nat /\ asks \in Nat /\ Len(runs) <= asks
    BY DEF TypeOK, ReviewingOK
<1>6. asks' = asks
    BY DEF Reviewer, RunStarts, RunEnds, RunPosts, ErrsWithoutRun, OtherPosts
<1>7. runs' \in Seq(CopilotRuns) /\ Len(runs') <= asks'
  <2>1. CASE RunStarts
    <3>1. PICK ok \in BOOLEAN :
              runs' = Append(runs, [start |-> now + 1, end |-> 0, ok |-> ok, told |-> FALSE])
        BY <2>1 DEF RunStarts
    <3>2. [start |-> now + 1, end |-> 0, ok |-> ok, told |-> FALSE] \in CopilotRuns
        BY <1>4 DEF CopilotRuns
    <3>3. Len(runs) < asks
        BY <2>1 DEF RunStarts
    <3> HIDE DEF CopilotRuns
    <3> QED
        BY <1>5, <1>6, <3>1, <3>2, <3>3
  <2>2. CASE RunEnds
    <3>1. PICK i \in DOMAIN runs : runs' = [runs EXCEPT ![i] = [runs[i] EXCEPT !.end = now + 1]]
        BY <2>2 DEF RunEnds
    <3>2. [runs[i] EXCEPT !.end = now + 1] \in CopilotRuns
      <4>1. runs[i] \in CopilotRuns /\ now + 1 \in Nat
          BY <1>4, <1>5
      <4> QED
          BY <4>1 DEF CopilotRuns
    <3> QED
        BY <1>5, <1>6, <3>1, <3>2, RunMovesTyped
  <2>3. CASE RunPosts
    <3>1. PICK i \in DOMAIN runs : runs' = [runs EXCEPT ![i] = [runs[i] EXCEPT !.told = TRUE]]
        BY <2>3 DEF RunPosts
    <3>2. [runs[i] EXCEPT !.told = TRUE] \in CopilotRuns
      <4>1. runs[i] \in CopilotRuns
          BY <1>5
      <4> QED
          BY <4>1 DEF CopilotRuns
    <3> QED
        BY <1>5, <1>6, <3>1, <3>2, RunMovesTyped
  <2>4. CASE ErrsWithoutRun \/ OtherPosts
      BY <1>5, <1>6, <2>4 DEF ErrsWithoutRun, OtherPosts
  <2> QED
      BY <2>1, <2>2, <2>3, <2>4 DEF Reviewer
<1>8. reviews' \in Seq(Reviews) /\ Len(reviews') <= now' /\ asked' \subseteq Rungs \ {None}
  <2>1. CASE UNCHANGED <<reviews, asked>>
    <3>1. Len(reviews) \in Nat /\ Len(reviews) <= now
        BY DEF TypeOK, ReviewingOK
    <3> QED
        BY <1>4, <2>1, <3>1 DEF TypeOK, ReviewingOK
  <2>2. ASSUME NEW by \in asked \cup {Copilot}, NEW kind \in {"real", "refusal", "error"}, Post(by, kind)
        PROVE  reviews' \in Seq(Reviews) /\ Len(reviews') <= now' /\ asked' \subseteq Rungs \ {None}
    <3>1. by \in Rungs
        BY <2>2 DEF Rungs, TypeOK, ReviewingOK
    <3> QED
        BY <1>1, <2>2, <3>1, PostTyped
  <2> QED
      BY <2>1, <2>2 DEF Reviewer, RunStarts, RunEnds, RunPosts, ErrsWithoutRun, OtherPosts
<1>9. ReviewingOK'
    BY <1>1, <1>4, <1>5, <1>6, <1>7, <1>8 DEF TypeOK, ReviewingOK
<1> QED
    BY <1>2, <1>3, <1>9, StandStill DEF TypeOK

\* The merge workflow.
LEMMA AutoMergeTyped ==
    ASSUME TypeOK, AutoMergeStep, UNCHANGED <<waiting, reviewing, at, calls, missed>> PROVE TypeOK'
<1>1. /\ UNCHANGED <<branch, judged, cycle>> /\ pushed' = pushed /\ pushed' \in Commits /\ pushed <= pushed'
      /\ pushed \in 0 .. pushed
  <2>1. UNCHANGED <<branch, judged, cycle>> /\ pushed' = pushed /\ pushed \in Commits
      BY DEF AutoMergeStep, TypeOK, GitHubOK, branch
  <2> QED
      BY <2>1, Constants
<1>2. CycleOK' /\ LoopOK'
    BY <1>1 DEF TypeOK, CycleOK, LoopOK, cycle
<1>3. pr' \in {pr, "merged"} /\ merged' \in {merged, pushed} /\ issue' \in {issue, "closed"}
    BY DEF AutoMergeStep, ReadSetting, Arm, ArmedMerges, GateHead, GateChecks, GateMerge, CloseLinkedIssues,
           Merges, Merge, Dies, outcome
<1>4. armed' \in BOOLEAN
    BY DEF AutoMergeStep, ReadSetting, Arm, ArmedMerges, GateHead, GateChecks, GateMerge, CloseLinkedIssues,
           Merges, Merge, Dies, outcome, TypeOK, GitHubOK
<1>5. closing' \in {closing, "none", "queued", "done", "dead"} /\ saw' \subseteq Names
    BY DEF AutoMergeStep, ReadSetting, Arm, ArmedMerges, GateHead, GateChecks, GateMerge, CloseLinkedIssues,
           Merges, Dies, TypeOK, MergingOK
<1>6. \/ run' = run \/ \E state \in RunStates : Goto(state)
      \/ run' = [run EXCEPT !.state = "failure", !.lost = TRUE]
    BY DEF AutoMergeStep, ReadSetting, Arm, ArmedMerges, GateHead, GateChecks, GateMerge, CloseLinkedIssues,
           Answered, Dies, RunStates
<1>7. run' \in [state : RunStates, sha : 0 .. pushed, lost : BOOLEAN]
  <2>1. run \in [state : RunStates, sha : 0 .. pushed, lost : BOOLEAN] /\ "failure" \in RunStates
      BY DEF TypeOK, MergingOK, RunStates
  <2> QED
      BY <1>6, <2>1 DEF Goto
<1>8. GitHubOK'
    BY <1>1, <1>3, <1>4 DEF TypeOK, GitHubOK, branch, judged
<1>9. MergingOK'
    BY <1>1, <1>5, <1>7 DEF TypeOK, MergingOK
<1> QED
    BY <1>1, <1>2, <1>8, <1>9, StandStill DEF TypeOK

LEMMA TypeStep == ASSUME Inv, [Next]_vars PROVE TypeOK'
<1>1. TypeOK /\ Reviewing
    BY DEF Inv
<1>2. CASE Agent
    BY <1>1, <1>2, ChecksTyped, ReviewTyped, FinishTyped, ChecksDoneTyped, ReviewDoneTyped, AddressTyped DEF Agent
<1>3. CASE World
    BY <1>1, <1>3, WorldTyped, ReviewerTyped, AutoMergeTyped DEF World
<1>4. CASE UNCHANGED vars
  <2>1. /\ UNCHANGED <<github, cycle, waiting, reviewing, merging, at, calls, missed>>
        /\ pushed' = pushed /\ pushed' \in Commits /\ pushed <= pushed'
    <3>1. UNCHANGED <<github, cycle, waiting, reviewing, merging, at, calls, missed>>
        BY <1>4 DEF vars
    <3>2. pushed' = pushed /\ pushed' \in Commits
        BY <1>1, <3>1 DEF TypeOK, GitHubOK, github, branch
    <3> QED
        BY <3>1, <3>2, Constants
  <2>2. GitHubOK'
      BY <1>1, <2>1 DEF TypeOK, GitHubOK, github, branch, judged, outcome
  <2>3. CycleOK' /\ LoopOK'
      BY <1>1, <2>1 DEF TypeOK, CycleOK, LoopOK, cycle
  <2> QED
      BY <1>1, <2>1, <2>2, <2>3, StandStill DEF TypeOK
<1> QED
    BY <1>2, <1>3, <1>4 DEF Next


----------------------------------------------------------------------------
(* What await-checks has read of the commit. *)

\* A check that passes has passed; others may pass, and the head move on.
LEMMA JudgedStays ==
    ASSUME TypeOK, Judged, UNCHANGED <<pc, code, sha, report, required>>,
           head \in Int, head' \in Int, head <= head',
           \A c \in Commits : passed[c] \subseteq passed'[c],
           \A c \in Commits, n \in Names : checks'[c][n] = "pass" => n \in passed'[c]
    PROVE  Judged'
<1>1. sha \in Commits /\ sha \in Int
    BY Constants DEF TypeOK, GitHubOK, CycleOK
<1>2. passed[sha] \subseteq passed'[sha]
    BY <1>1
<1>3. pc' \in {"runs", "statuses"} => sha' <= head'
    BY <1>1 DEF Judged
<1>4. pc' = "statuses" => \A n \in CheckRuns : report'[n] = "pass" => n \in passed'[sha']
    BY <1>2 DEF Judged
<1>5. GreenIsOfThisCommit'
  <2>1. pc = "checked" /\ code = 0 => required \subseteq passed[sha] /\ passed[sha] # {} /\ sha <= head
      BY DEF Judged, GreenIsOfThisCommit
  <2>2. pc = "checked" /\ code = 0 => sha <= head'
      BY <1>1, <2>1
  <2> QED
      BY <1>2, <2>1, <2>2 DEF GreenIsOfThisCommit
<1> QED
    BY <1>3, <1>4, <1>5 DEF Judged

\* Elsewhere nothing is being judged.
LEMMA JudgedElsewhere ==
    ASSUME TypeOK, Judged, pc' \notin {"runs", "statuses", "checked"}, UNCHANGED judged \/ ForgetChecks
    PROVE  Judged'
<1>1. \A c \in Commits, n \in Names : checks[c][n] = "pass" => n \in passed[c]
    BY DEF Judged
<1>2. CASE UNCHANGED judged
    BY <1>1, <1>2 DEF Judged, GreenIsOfThisCommit, judged
<1>3. CASE ForgetChecks
  <2>1. ASSUME NEW c \in Commits, NEW n \in Names, checks'[c][n] = "pass" PROVE n \in passed'[c]
    <3>1. c \in Int /\ head \in Int
      <4>1. head \in 1 .. pushed
          BY DEF TypeOK, GitHubOK
      <4> QED
          BY <4>1, Constants
    <3>2. checks'[c] = IF c < head THEN [m \in Names |-> "none"] ELSE checks[c]
        BY <1>3 DEF ForgetChecks
    <3>3. ~(c < head) /\ checks[c][n] = "pass"
        BY <2>1, <3>2
    <3>4. c >= head /\ n \in passed[c]
        BY <1>1, <3>1, <3>3
    <3> QED
        BY <1>3, <3>3, <3>4 DEF ForgetChecks
  <2> QED
      BY <2>1 DEF Judged, GreenIsOfThisCommit
<1> QED
    BY <1>2, <1>3

\* The head is the commit before its checks are read; no check is taken for
\* passed that was not, and a required one must be.
LEMMA JudgedReads == ASSUME TypeOK, Judged, AwaitChecksStep PROVE Judged'
<1>1. UNCHANGED <<pushed, head, checks, passed>>
    BY DEF AwaitChecksStep, StartChecks, ReadHead, ReadRuns, ReadStatuses, github, branch, judged
<1>2. /\ sha \in Commits /\ sha \in Int /\ head \in Int
      /\ checks[sha] \in [Names -> Buckets] /\ required \subseteq Names
  <2>1. sha \in Commits /\ sha \in Int /\ head \in Int
      BY Constants DEF TypeOK, GitHubOK, CycleOK
  <2> QED
      BY <2>1 DEF TypeOK, GitHubOK, WaitingOK
<1>3. ASSUME NEW atHead, NEW outstanding, NextPoll(atHead, outstanding) PROVE Judged'
  <2>1. UNCHANGED sha /\ (pc' = "head" \/ (pc' = "checked" /\ code' # 0))
      BY <1>3 DEF NextPoll, Exit
  <2> QED
      BY <1>1, <2>1 DEF Judged, GreenIsOfThisCommit
<1>4. CASE StartChecks
  <2>1. pc' = "head" \/ (pc' = "checked" /\ code' # 0)
      BY <1>4 DEF StartChecks, Exit
  <2> QED
      BY <1>1, <2>1 DEF Judged, GreenIsOfThisCommit
<1>5. CASE ReadHead
  <2>1. CASE head = sha /\ pc' = "runs" /\ UNCHANGED sha
    <3>1. sha' <= head'
        BY <1>1, <1>2, <2>1
    <3> QED
        BY <1>1, <2>1, <3>1 DEF Judged, GreenIsOfThisCommit
  <2> QED
      BY <1>3, <1>5, <2>1 DEF ReadHead
<1>6. CASE ReadRuns
  <2>1. CASE report' = [n \in CheckRuns |-> checks[sha][n]] /\ pc = "runs" /\ pc' = "statuses" /\ UNCHANGED sha
    <3>1. \A n \in CheckRuns : report'[n] = "pass" => n \in passed[sha]
        BY <1>2, <2>1, Constants DEF Judged
    <3> QED
        BY <1>1, <2>1, <3>1 DEF Judged, GreenIsOfThisCommit
  <2> QED
      BY <1>3, <1>6, <2>1 DEF ReadRuns
<1>7. CASE ReadStatuses
  <2> DEFINE buckets == [n \in Names |-> IF n \in CheckRuns THEN report[n] ELSE checks[sha][n]]
  <2>1. PICK judgement : judgement = Classify(buckets, required)
      OBVIOUS
  <2>2. CASE judgement \in {0, 1} /\ Exit(judgement, "checked") /\ UNCHANGED required
    <3>1. \A n \in Names : buckets[n] \in Buckets /\ (buckets[n] = "pass" => n \in passed[sha])
      <4>1. \A n \in CheckRuns : report[n] \in Buckets /\ (report[n] = "pass" => n \in passed[sha])
          BY <1>7 DEF ReadStatuses, TypeOK, WaitingOK, Judged
      <4>2. \A n \in Names : checks[sha][n] \in Buckets /\ (checks[sha][n] = "pass" => n \in passed[sha])
          BY <1>2 DEF Judged
      <4> QED
          BY <4>1, <4>2
    <3>2. ASSUME judgement = 0 PROVE required \subseteq passed[sha] /\ passed[sha] # {}
      <4> HIDE DEF buckets
      <4>1. /\ \A n \in Names : buckets[n] # "fail" /\ buckets[n] # "pending"
            /\ \A n \in required : buckets[n] # "none"
            /\ \E n \in Names : buckets[n] # "none"
          BY <1>2, <2>1, <3>2 DEF Classify
      <4> QED
          BY <1>2, <3>1, <4>1 DEF Buckets
    <3>3. sha <= head
        BY <1>7 DEF ReadStatuses, Judged
    <3>4. pc' = "checked" /\ code' = judgement /\ UNCHANGED sha
        BY <2>2 DEF Exit
    <3> QED
        BY <1>1, <2>2, <3>2, <3>3, <3>4 DEF Judged, GreenIsOfThisCommit
  <2> QED
      BY <1>3, <1>7, <2>1, <2>2 DEF ReadStatuses
<1> QED
    BY <1>4, <1>5, <1>6, <1>7 DEF AwaitChecksStep

LEMMA JudgedStep == ASSUME Inv, [Next]_vars PROVE Judged'
<1>1. TypeOK /\ Judged /\ head \in Int /\ pushed \in Int /\ head <= pushed
  <2>1. TypeOK /\ Judged
      BY DEF Inv
  <2>2. head \in 1 .. pushed /\ pushed \in Commits
      BY <2>1 DEF TypeOK, GitHubOK
  <2> QED
      BY <2>1, <2>2, Constants
<1>2. CASE UNCHANGED <<pc, code, sha, report, required>> /\ UNCHANGED judged /\ head' \in {head, pushed}
  <2>1. \A c \in Commits : passed[c] \subseteq passed'[c]
      BY <1>2 DEF judged
  <2>2. \A c \in Commits, n \in Names : checks'[c][n] = "pass" => n \in passed'[c]
      BY <1>1, <1>2 DEF Judged, judged
  <2>3. head' \in Int /\ head <= head'
      BY <1>1, <1>2
  <2> QED
      BY <1>1, <1>2, <2>1, <2>2, <2>3, JudgedStays
<1>3. CASE Agent
  <2>1. CASE AwaitChecksStep
      BY <1>1, <2>1, JudgedReads
  <2>2. CASE ~AwaitChecksStep
    <3>1. UNCHANGED judged \/ ForgetChecks
        BY <1>3, <2>2 DEF Agent, ChecksDone, ReviewDone, RosterEnds, Address, Label, FinishDone, PushFix,
              AwaitReviewStep, StartReview, ReadReview, Settle, Ask,
              FinishIssueStep, StartFinish, ReadState, ReadAttempts, ReadIssue, CloseIssue, ConfirmIssue, github
    <3>2. pc' \notin {"runs", "statuses", "checked"}
      <4>1. CASE ChecksDone \/ ReviewDone \/ RosterEnds \/ Address \/ Label \/ FinishDone
          BY <4>1 DEF ChecksDone, ReviewDone, RosterEnds, Address, Label, FinishDone, PushFix, Then, Again, Step
      <4>2. CASE AwaitReviewStep
          BY <4>2 DEF AwaitReviewStep, StartReview, ReadReview, Settle, Undecided, Ask, KeepWaiting, Leave, Exit
      <4>3. CASE FinishIssueStep
          BY <4>3 DEF FinishIssueStep, StartFinish, ReadState, ReadAttempts, ReadIssue, CloseIssue, ConfirmIssue,
                NextFinishPoll, LeaveFinish, Exit
      <4> QED
          BY <1>3, <2>2, <4>1, <4>2, <4>3 DEF Agent
    <3> QED
        BY <1>1, <3>1, <3>2, JudgedElsewhere
  <2> QED
      BY <2>1, <2>2
<1>4. CASE World
  <2>1. ASSUME NEW c \in Judging, CheckMoves(c), UNCHANGED waiting PROVE Judged'
    <3>1. PICK n \in repo.checks, move \in Moves :
              /\ checks' = [checks EXCEPT ![c][n] = move[2]]
              /\ passed' = IF move[2] = "pass" THEN [passed EXCEPT ![c] = @ \cup {n}] ELSE passed
        BY <2>1 DEF CheckMoves
    <3>2. /\ UNCHANGED <<pc, code, sha, report, required, head>>
          /\ checks \in [Commits -> [Names -> Buckets]] /\ passed \in [Commits -> SUBSET Names]
        BY <1>1, <2>1 DEF CheckMoves, branch, cycle, waiting, TypeOK, GitHubOK
    <3>3. \A d \in Commits : passed[d] \subseteq passed'[d]
        BY <3>1, <3>2
    <3>4. \A d \in Commits, m \in Names : checks[d][m] = "pass" => m \in passed[d]
        BY <1>1 DEF Judged
    <3>5. ASSUME NEW d \in Commits, NEW m \in Names, checks'[d][m] = "pass" PROVE m \in passed'[d]
      <4>1. CASE d = c /\ m = n
          BY <3>1, <3>2, <3>5, <4>1
      <4>2. CASE ~(d = c /\ m = n)
        <5>1. checks'[d][m] = checks[d][m]
            BY <3>1, <3>2, <4>2
        <5> QED
            BY <3>3, <3>4, <3>5, <5>1
      <4> QED
          BY <4>1, <4>2
    <3>6. head' \in Int /\ head <= head'
        BY <1>1, <3>2
    <3> QED
        BY <1>1, <3>2, <3>3, <3>5, <3>6, JudgedStays
  <2>2. CASE HeadMoves \/ SomeonePushes \/ SomeoneCloses
      BY <1>2, <1>4, <2>2 DEF World, HeadMoves, SomeonePushes, SomeoneCloses, branch, cycle, waiting,
            Reviewer, github, AutoMergeStep
  <2>3. CASE Reviewer /\ UNCHANGED waiting
      BY <1>2, <2>3 DEF Reviewer, github, branch, cycle, waiting
  <2>4. CASE AutoMergeStep /\ UNCHANGED waiting
      BY <1>2, <2>4 DEF AutoMergeStep, branch, cycle, waiting
  <2> QED
      BY <1>4, <2>1, <2>2, <2>3, <2>4 DEF World
<1>5. CASE UNCHANGED vars
    BY <1>2, <1>5 DEF vars, github, branch, cycle, waiting
<1> QED
    BY <1>3, <1>4, <1>5 DEF Next


----------------------------------------------------------------------------
(* The reviewers' timeline. *)

\* Who moves a review or a run: the reviewers, or the agent that forgets a rung.
LEMMA WhoReviews ==
    ASSUME [Next]_vars
    PROVE  \/ UNCHANGED <<reviews, runs, now>>
           \/ Reviewer
           \/ Forget
BY DEF Next, vars, Agent, World, AwaitReviewStep, StartReview, ReadReview, Settle, Ask,
       ChecksDone, ReviewDone, RosterEnds, Address, Label, FinishDone, reviewing, reviewers

LEMMA Posts ==
    ASSUME TypeOK, Reviewer
    PROVE  /\ Tick /\ now \in Nat /\ now' = now + 1
           /\ asked' \subseteq asked /\ UNCHANGED <<pc, code, roster, asks, review, vouched>>
           /\ \A k \in DOMAIN reviews : k \in DOMAIN reviews' /\ reviews'[k] = reviews[k]
<1>1. Tick /\ now \in Nat /\ now' = now + 1
  <2>1. Tick
      BY DEF Reviewer, RunStarts, RunEnds, RunPosts, ErrsWithoutRun, OtherPosts
  <2> QED
      BY <2>1, Constants DEF Tick, TypeOK, ReviewingOK
<1>2. /\ UNCHANGED <<pc, code, roster, asks, review, vouched>>
      /\ UNCHANGED <<reviews, asked>> \/ \E by \in Rungs, kind \in {"real", "refusal", "error"} : Post(by, kind)
  <2>1. asked \cup {Copilot} \subseteq Rungs
      BY DEF TypeOK, ReviewingOK, Rungs
  <2> QED
      BY <2>1 DEF Reviewer, RunStarts, RunEnds, RunPosts, ErrsWithoutRun, OtherPosts, cycle
<1>3. asked' \subseteq asked
    BY <1>2 DEF Post
<1> QED
    BY <1>1, <1>2, <1>3, PostTyped

LEMMA ReviewingStep == ASSUME Inv, [Next]_vars PROVE Reviewing'
<1>1. TypeOK /\ Reviewing
    BY DEF Inv
<1>2. CASE Reviewer
  <2>1. /\ asked' \subseteq asked /\ UNCHANGED <<pc, roster, asks, review>>
        /\ \A k \in DOMAIN reviews : k \in DOMAIN reviews' /\ reviews'[k] = reviews[k]
      BY <1>1, <1>2, Posts
  <2> QED
      BY <1>1, <2>1 DEF Reviewing, Rung
<1>3. CASE AwaitReviewStep
  <2>1. roster' = roster /\ reviews' = reviews /\ (pc # "review" => roster # <<>> /\ Rung # None)
      BY <1>1, <1>3 DEF AwaitReviewStep, StartReview, ReadReview, Settle, Ask, Reviewing, reviewers
  <2>2. roster # <<>> /\ Rung # None
      BY <1>3, <2>1 DEF AwaitReviewStep, StartReview, ReadReview, Settle, Ask
  <2>3. \A rung \in asked' : rung = Rung
      BY <1>1, <1>3 DEF AwaitReviewStep, StartReview, ReadReview, Settle, Ask, Place, Reviewing, reviewers
  <2>4. asks' > 0 => Rung = Copilot
    <3>1. asks \in Nat
        BY <1>1 DEF TypeOK, ReviewingOK
    <3>2. asks' = asks \/ (Rung = Copilot /\ asks' = asks + 1)
        BY <1>3 DEF AwaitReviewStep, StartReview, ReadReview, Settle, Ask, Place, reviewers
    <3> QED
        BY <1>1, <3>1, <3>2 DEF Reviewing
  <2>5. pc' = "settle" => review'.by = Rung /\ \E k \in DOMAIN reviews : review' = reviews[k]
      BY <1>3 DEF AwaitReviewStep, StartReview, ReadReview, Settle, Undecided, Ask, KeepWaiting, Leave, Exit
  <2> QED
      BY <2>1, <2>2, <2>3, <2>4, <2>5 DEF Reviewing, Rung
<1>4. CASE UNCHANGED <<roster, asked, asks, review, reviews>> /\ pc' \in {pc} \cup (Lines \ {"latest", "settle", "ask", "reviewed"})
    BY <1>1, <1>4 DEF Reviewing, Rung
<1>5. CASE ReviewDone \/ RosterEnds
  <2>1. pc' \in {"address", "blocked", "review", "label"}
      BY <1>5 DEF ReviewDone, RosterEnds, Then, Again, Step
  <2>2. CASE Forget
    <3>1. asked' = {} /\ asks' = 0
        BY <2>2 DEF Forget
    <3> QED
        BY <2>1, <3>1 DEF Reviewing
  <2>3. CASE UNCHANGED <<reviewers, roster>>
      BY <1>1, <2>1, <2>3 DEF Reviewing, Rung, reviewers
  <2> QED
      BY <1>5, <2>2, <2>3 DEF ReviewDone, RosterEnds
<1>6. CASE Agent /\ ~AwaitReviewStep /\ ~ReviewDone /\ ~RosterEnds
  <2>1. UNCHANGED <<roster, asked, asks, review, reviews>>
      BY <1>6 DEF Agent, ChecksDone, Address, Label, FinishDone, reviewing, reviewers
  <2>2. pc' \in Lines \ {"latest", "settle", "ask", "reviewed"}
    <3>1. CASE ChecksDone \/ Address \/ Label \/ FinishDone
        BY <3>1 DEF ChecksDone, Address, Label, FinishDone, PushFix, Then, Again, Step, Lines
    <3>2. CASE AwaitChecksStep
        BY <3>2 DEF AwaitChecksStep, StartChecks, ReadHead, ReadRuns, ReadStatuses, NextPoll, Exit, Lines
    <3>3. CASE FinishIssueStep
        BY <3>3 DEF FinishIssueStep, StartFinish, ReadState, ReadAttempts, ReadIssue, CloseIssue, ConfirmIssue,
              NextFinishPoll, LeaveFinish, Exit, Lines
    <3> QED
        BY <1>6, <3>1, <3>2, <3>3 DEF Agent
  <2> QED
      BY <1>4, <2>1, <2>2
<1>7. CASE World /\ ~Reviewer
  <2>1. UNCHANGED <<roster, asked, asks, review, reviews, pc>>
      BY <1>7 DEF World, reviewing, reviewers, CheckMoves, HeadMoves, SomeonePushes, SomeoneCloses, AutoMergeStep, cycle
  <2> QED
      BY <1>4, <2>1
<1>8. CASE UNCHANGED vars
    BY <1>4, <1>8 DEF vars, reviewing, reviewers, cycle
<1> QED
    BY <1>2, <1>3, <1>5, <1>6, <1>7, <1>8 DEF Next


\* Copilot's runs and reviews are its own: nobody else is asked meanwhile.
LEMMA NobodyElse ==
    ASSUME TypeOK, Reviewing, OtherPosts PROVE runs = <<>> /\ runs' = <<>>
<1>1. PICK by \in asked \ {Copilot} : TRUE
    BY DEF OtherPosts
<1>2. ~(asks > 0)
    BY <1>1 DEF Reviewing
<1>3. asks \in Nat /\ Len(runs) \in Nat /\ Len(runs) <= asks /\ runs \in Seq(CopilotRuns)
    BY DEF TypeOK, ReviewingOK
<1>4. Len(runs) = 0
    BY <1>2, <1>3
<1> QED
    BY <1>3, <1>4 DEF OtherPosts

LEMMA RunsTyped ==
    ASSUME TypeOK
    PROVE  /\ runs \in Seq(CopilotRuns) /\ now \in Nat /\ Len(runs) \in Nat /\ DOMAIN runs = 1 .. Len(runs)
           /\ \A i \in DOMAIN runs : i \in Nat /\ runs[i] \in CopilotRuns
                  /\ runs[i].start \in Nat /\ runs[i].end \in Nat
<1>1. runs \in Seq(CopilotRuns) /\ now \in Nat
    BY Constants DEF TypeOK, ReviewingOK
<1>2. \A i \in DOMAIN runs : i \in Nat /\ runs[i] \in CopilotRuns
    BY <1>1
<1>3. \A i \in DOMAIN runs : runs[i].start \in Nat /\ runs[i].end \in Nat
    BY <1>2 DEF CopilotRuns
<1> QED
    BY <1>1, <1>2, <1>3

LEMMA TimelineMoves ==
    ASSUME TypeOK, Reviewing, Timeline, Reviewer PROVE Timeline'
<1>1. now \in Nat /\ now' = now + 1
    BY Posts
<1>2. CASE RunStarts
  <2>1. PICK ok \in BOOLEAN :
            runs' = Append(runs, [start |-> now + 1, end |-> 0, ok |-> ok, told |-> FALSE])
      BY <1>2 DEF RunStarts
  <2>2. \A i \in DOMAIN runs : runs[i].end # 0 /\ runs[i].told
    <3>1. \A i \in DOMAIN runs : runs[i].end # 0 /\ ~Half(runs[i])
        BY <1>2 DEF RunStarts
    <3>2. \A i \in DOMAIN runs : runs[i].told \in BOOLEAN
        BY RunsTyped DEF CopilotRuns
    <3> QED
        BY <3>1, <3>2 DEF Half
  <2>3. /\ DOMAIN runs' = 1 .. Len(runs) + 1
        /\ \A i \in DOMAIN runs : runs'[i] = runs[i]
        /\ runs'[Len(runs) + 1] = [start |-> now + 1, end |-> 0, ok |-> ok, told |-> FALSE]
      BY <2>1, RunsTyped
  <2>4. ASSUME NEW i \in DOMAIN runs'
        PROVE  /\ runs'[i].start \in 1 .. now' /\ runs'[i].end \in 0 .. now'
               /\ runs'[i].end # 0 => runs'[i].start < runs'[i].end /\ (runs'[i].told \/ runs'[i].end = now')
    <3>1. CASE i \in DOMAIN runs
      <4>1. runs[i].start \in 1 .. now /\ runs[i].end \in 0 .. now /\ runs[i].start < runs[i].end
          BY <2>2, <3>1 DEF Timeline
      <4>2. runs[i].start \in 1 .. now' /\ runs[i].end \in 0 .. now'
          BY <1>1, <4>1
      <4> QED
          BY <2>2, <2>3, <3>1, <4>1, <4>2
    <3>2. CASE i = Len(runs) + 1
      <4>1. runs'[i].start = now + 1 /\ runs'[i].end = 0
          BY <2>3, <3>2
      <4> QED
          BY <1>1, <4>1
    <3> QED
        BY <2>3, <2>4, <3>1, <3>2, RunsTyped
  <2>5. ASSUME NEW i \in DOMAIN runs', NEW j \in DOMAIN runs', i < j
        PROVE  runs'[i].end # 0 /\ runs'[i].told /\ runs'[i].end < runs'[j].start
    <3>1. i \in DOMAIN runs /\ (j \in DOMAIN runs \/ j = Len(runs) + 1)
        BY <2>3, <2>5, RunsTyped
    <3>2. runs[i].end \in 0 .. now
        BY <3>1 DEF Timeline
    <3>3. CASE j = Len(runs) + 1
        BY <1>1, <2>2, <2>3, <3>1, <3>2, <3>3
    <3>4. CASE j \in DOMAIN runs
        BY <2>2, <2>3, <2>5, <3>1, <3>4 DEF Timeline
    <3> QED
        BY <3>1, <3>3, <3>4
  <2> QED
      BY <2>4, <2>5 DEF Timeline
<1>3. ASSUME NEW i \in DOMAIN runs, NEW x \in CopilotRuns, runs' = [runs EXCEPT ![i] = x],
             runs[i].end = 0 \/ ~runs[i].told, x.start = runs[i].start,
             x.end \in {runs[i].end, now + 1}, x.end = now + 1 \/ x.told
      PROVE  Timeline'
  <2>1. DOMAIN runs' = DOMAIN runs /\ runs'[i] = x /\ \A j \in DOMAIN runs : j # i => runs'[j] = runs[j]
      BY <1>3, RunsTyped
  <2>2. \A j \in DOMAIN runs : j # i => j < i
    <3>1. \A j \in DOMAIN runs : ~(i < j)
        BY <1>3 DEF Timeline
    <3> QED
        BY <3>1, RunsTyped
  <2>3. /\ x.start \in 1 .. now' /\ x.end \in 0 .. now'
        /\ x.end # 0 => x.start < x.end /\ (x.told \/ x.end = now')
    <3>1. /\ runs[i].start \in 1 .. now /\ runs[i].end \in 0 .. now
          /\ runs[i].end # 0 => runs[i].start < runs[i].end
        BY DEF Timeline
    <3>2. x.start \in 1 .. now' /\ x.end \in 0 .. now' /\ (x.end # 0 => x.start < x.end)
        BY <1>1, <1>3, <3>1
    <3> QED
        BY <1>1, <1>3, <3>2
  <2>4. ASSUME NEW j \in DOMAIN runs, j # i
        PROVE  /\ runs[j].start \in 1 .. now' /\ runs[j].end \in 0 .. now'
               /\ runs[j].start < runs[j].end /\ runs[j].told /\ runs[j].end # 0 /\ runs[j].end < x.start
    <3>1. runs[j].end # 0 /\ runs[j].told /\ runs[j].end < runs[i].start
        BY <2>2, <2>4 DEF Timeline
    <3>2. runs[j].start \in 1 .. now /\ runs[j].end \in 0 .. now /\ runs[j].start < runs[j].end
        BY <3>1 DEF Timeline
    <3>3. runs[j].start \in 1 .. now' /\ runs[j].end \in 0 .. now'
        BY <1>1, <3>2
    <3> QED
        BY <1>3, <3>1, <3>2, <3>3
  <2>5. ASSUME NEW j \in DOMAIN runs, NEW k \in DOMAIN runs, j < k
        PROVE  runs'[j].end # 0 /\ runs'[j].told /\ runs'[j].end < runs'[k].start
    <3>1. j # i
        BY <2>2, <2>5, RunsTyped
    <3>2. CASE k = i
        BY <2>1, <2>4, <3>1, <3>2
    <3>3. CASE k # i
        BY <2>1, <2>5, <3>1, <3>3 DEF Timeline
    <3> QED
        BY <3>2, <3>3
  <2> QED
      BY <2>1, <2>3, <2>4, <2>5 DEF Timeline
<1>4. CASE RunEnds
  <2>1. PICK i \in DOMAIN runs : runs[i].end = 0 /\ runs' = [runs EXCEPT ![i] = [runs[i] EXCEPT !.end = now + 1]]
      BY <1>4 DEF RunEnds
  <2>2. PICK x : x = [runs[i] EXCEPT !.end = now + 1]
      OBVIOUS
  <2>3. x \in CopilotRuns /\ x.start = runs[i].start /\ x.end = now + 1
    <3>1. runs[i] \in CopilotRuns /\ now + 1 \in Nat
        BY <1>1, RunsTyped
    <3> QED
        BY <2>2, <3>1 DEF CopilotRuns
  <2> QED
      BY <1>3, <2>1, <2>2, <2>3
<1>5. CASE RunPosts
  <2>1. PICK i \in DOMAIN runs : ~runs[i].told /\ runs' = [runs EXCEPT ![i] = [runs[i] EXCEPT !.told = TRUE]]
      BY <1>5 DEF RunPosts
  <2>2. PICK x : x = [runs[i] EXCEPT !.told = TRUE]
      OBVIOUS
  <2>3. x \in CopilotRuns /\ x.start = runs[i].start /\ x.end = runs[i].end /\ x.told
    <3>1. runs[i] \in CopilotRuns
        BY RunsTyped
    <3> QED
        BY <2>2, <3>1 DEF CopilotRuns
  <2> QED
      BY <1>3, <2>1, <2>2, <2>3
<1>6. CASE ErrsWithoutRun
  <2>1. runs' = runs /\ \A i \in DOMAIN runs : runs[i].end # 0 /\ ~Half(runs[i])
      BY <1>6 DEF ErrsWithoutRun
  <2>2. \A i \in DOMAIN runs : runs[i].told
    <3>1. \A i \in DOMAIN runs : runs[i].told \in BOOLEAN
        BY RunsTyped DEF CopilotRuns
    <3> QED
        BY <2>1, <3>1 DEF Half
  <2>3. ASSUME NEW i \in DOMAIN runs
        PROVE  runs[i].start \in 1 .. now' /\ runs[i].end \in 0 .. now' /\ runs[i].start < runs[i].end
    <3>1. runs[i].start \in 1 .. now /\ runs[i].end \in 0 .. now /\ runs[i].start < runs[i].end
        BY <2>1 DEF Timeline
    <3> QED
        BY <1>1, <3>1
  <2>4. \A i, j \in DOMAIN runs : i < j =>
            runs[i].end # 0 /\ runs[i].told /\ runs[i].end < runs[j].start
      BY DEF Timeline
  <2> QED
      BY <2>1, <2>2, <2>3, <2>4 DEF Timeline
<1>7. CASE OtherPosts
  <2>1. DOMAIN runs' = {}
      BY <1>7, NobodyElse
  <2> QED
      BY <2>1 DEF Timeline
<1> QED
    BY <1>2, <1>4, <1>5, <1>6, <1>7 DEF Reviewer


\* The run that is not done is the last one.
LEMMA OpenIsLast ==
    ASSUME TypeOK, Timeline, NEW m \in DOMAIN runs, runs[m].end = 0 \/ ~runs[m].told
    PROVE  \A i \in DOMAIN runs : i # m => i < m /\ runs[i].end # 0 /\ runs[i].told
<1>1. \A i \in DOMAIN runs : ~(m < i)
    BY DEF Timeline
<1>2. \A i \in DOMAIN runs : i # m => i < m
    BY <1>1, RunsTyped
<1> QED
    BY <1>2 DEF Timeline

\* What the reviewers do to the runs, and when.
LEMMA RunsMove ==
    ASSUME TypeOK, Reviewing, Timeline, Reviewer
    PROVE  \/ \E ok \in BOOLEAN :
                  /\ DOMAIN runs' = 1 .. Len(runs) + 1 /\ \A i \in DOMAIN runs : runs'[i] = runs[i]
                  /\ runs'[Len(runs) + 1] = [start |-> now + 1, end |-> 0, ok |-> ok, told |-> FALSE]
                  /\ \A i \in DOMAIN runs : runs[i].end # 0
           \/ \E m \in DOMAIN runs :
                  /\ DOMAIN runs' = DOMAIN runs /\ \A i \in DOMAIN runs : i # m => runs'[i] = runs[i]
                  /\ runs'[m].start = runs[m].start /\ runs'[m].ok = runs[m].ok
                  /\ runs[m].told => runs'[m].told
                  /\ \/ runs[m].end = 0 /\ runs'[m].end = now + 1
                     \/ ~runs[m].told /\ runs'[m].end = runs[m].end
           \/ runs' = runs /\ \A i \in DOMAIN runs : runs[i].end # 0
<1>1. CASE RunStarts
  <2>1. PICK ok \in BOOLEAN :
            runs' = Append(runs, [start |-> now + 1, end |-> 0, ok |-> ok, told |-> FALSE])
      BY <1>1 DEF RunStarts
  <2>2. /\ DOMAIN runs' = 1 .. Len(runs) + 1 /\ \A i \in DOMAIN runs : runs'[i] = runs[i]
        /\ runs'[Len(runs) + 1] = [start |-> now + 1, end |-> 0, ok |-> ok, told |-> FALSE]
      BY <2>1, RunsTyped
  <2>3. \A i \in DOMAIN runs : runs[i].end # 0
      BY <1>1 DEF RunStarts
  <2> QED
      BY <2>2, <2>3
<1>2. CASE RunEnds
  <2>1. PICK m \in DOMAIN runs : runs[m].end = 0 /\ runs' = [runs EXCEPT ![m] = [runs[m] EXCEPT !.end = now + 1]]
      BY <1>2 DEF RunEnds
  <2>2. runs[m] \in CopilotRuns /\ runs'[m] = [runs[m] EXCEPT !.end = now + 1]
      BY <2>1, RunsTyped
  <2>3. /\ runs'[m].start = runs[m].start /\ runs'[m].ok = runs[m].ok /\ runs'[m].told = runs[m].told
        /\ runs'[m].end = now + 1
      BY <2>2 DEF CopilotRuns
  <2>4. DOMAIN runs' = DOMAIN runs /\ \A i \in DOMAIN runs : i # m => runs'[i] = runs[i]
      BY <2>1, RunsTyped
  <2> QED
      BY <2>1, <2>3, <2>4
<1>3. CASE RunPosts
  <2>1. PICK m \in DOMAIN runs : ~runs[m].told /\ runs' = [runs EXCEPT ![m] = [runs[m] EXCEPT !.told = TRUE]]
      BY <1>3 DEF RunPosts
  <2>2. runs[m] \in CopilotRuns /\ runs'[m] = [runs[m] EXCEPT !.told = TRUE]
      BY <2>1, RunsTyped
  <2>3. /\ runs'[m].start = runs[m].start /\ runs'[m].ok = runs[m].ok /\ runs'[m].told
        /\ runs'[m].end = runs[m].end
      BY <2>2 DEF CopilotRuns
  <2>4. DOMAIN runs' = DOMAIN runs /\ \A i \in DOMAIN runs : i # m => runs'[i] = runs[i]
      BY <2>1, RunsTyped
  <2> QED
      BY <2>1, <2>3, <2>4
<1>4. CASE ErrsWithoutRun
    BY <1>4 DEF ErrsWithoutRun
<1>5. CASE OtherPosts
  <2>1. runs' = runs /\ DOMAIN runs = {}
      BY <1>5, NobodyElse
  <2> QED
      BY <2>1
<1> QED
    BY <1>1, <1>2, <1>3, <1>4, <1>5 DEF Reviewer

LEMMA AwayStays ==
    ASSUME TypeOK, Reviewing, Timeline, Reviewer, NEW t \in Nat, t <= now, Away(t) PROVE Away(t)'
<1>1. now \in Nat /\ Slack' = Slack
    BY Posts
<1> SUFFICES ASSUME NEW i \in DOMAIN runs'
             PROVE  t < runs'[i].start \/ (runs'[i].end # 0 /\ t > runs'[i].end + Slack)
    BY DEF Away
<1>2. \A j \in DOMAIN runs : t < runs[j].start \/ (runs[j].end # 0 /\ t > runs[j].end + Slack)
    BY DEF Away
<1>3. CASE i \in DOMAIN runs /\ runs'[i] = runs[i]
    BY <1>2, <1>3
<1>4. CASE runs'[i].start = now + 1
    BY <1>1, <1>4
<1>5. CASE /\ i \in DOMAIN runs /\ runs'[i].start = runs[i].start
           /\ runs[i].end = 0 \/ runs'[i].end = runs[i].end
    BY <1>2, <1>5
<1>6. (i \in DOMAIN runs /\ runs'[i] = runs[i]) \/ runs'[i].start = now + 1
      \/ (i \in DOMAIN runs /\ runs'[i].start = runs[i].start /\ (runs[i].end = 0 \/ runs'[i].end = runs[i].end))
  <2>1. ASSUME NEW ok \in BOOLEAN, DOMAIN runs' = 1 .. Len(runs) + 1, \A j \in DOMAIN runs : runs'[j] = runs[j],
               runs'[Len(runs) + 1] = [start |-> now + 1, end |-> 0, ok |-> ok, told |-> FALSE]
        PROVE  (i \in DOMAIN runs /\ runs'[i] = runs[i]) \/ runs'[i].start = now + 1
      BY <2>1, RunsTyped
  <2> QED
      BY <2>1, RunsMove
<1> QED
    BY <1>3, <1>4, <1>5, <1>6

LEMMA ErrorStays ==
    ASSUME TypeOK, Reviewing, Timeline, Reviewer, NEW t \in Nat, t <= now,
           NEW i \in DOMAIN runs, ErrorOf(i, t)
    PROVE  i \in DOMAIN runs' /\ ErrorOf(i, t)'
<1>1. now \in Nat /\ now' = now + 1
    BY Posts
<1>2. /\ runs[i].told /\ ~runs[i].ok /\ runs[i].start < t
      /\ runs[i].end = 0 => t = now
      /\ runs[i].end # 0 => runs[i].end = t + 1 \/ t = runs[i].end + 1
      /\ \A j \in DOMAIN runs : i < j => t < runs[j].start
    BY DEF ErrorOf
<1>3. CASE \E ok \in BOOLEAN :
               /\ DOMAIN runs' = 1 .. Len(runs) + 1 /\ \A j \in DOMAIN runs : runs'[j] = runs[j]
               /\ runs'[Len(runs) + 1] = [start |-> now + 1, end |-> 0, ok |-> ok, told |-> FALSE]
               /\ \A j \in DOMAIN runs : runs[j].end # 0
  <2>1. /\ DOMAIN runs' = 1 .. Len(runs) + 1 /\ \A j \in DOMAIN runs : runs'[j] = runs[j]
        /\ runs'[Len(runs) + 1].start = now + 1 /\ runs[i].end # 0
      BY <1>3
  <2>2. i \in DOMAIN runs' /\ runs'[i] = runs[i]
      BY <2>1, RunsTyped
  <2>3. ASSUME NEW j \in DOMAIN runs', i < j PROVE t < runs'[j].start
    <3>1. j \in DOMAIN runs \/ j = Len(runs) + 1
        BY <2>1, <2>3, RunsTyped
    <3>2. CASE j \in DOMAIN runs
        BY <1>2, <2>1, <2>3, <3>2
    <3>3. CASE j = Len(runs) + 1
        BY <1>1, <2>1, <3>3
    <3> QED
        BY <3>1, <3>2, <3>3
  <2> QED
      BY <1>2, <2>1, <2>2, <2>3 DEF ErrorOf
<1>4. ASSUME NEW m \in DOMAIN runs, DOMAIN runs' = DOMAIN runs, \A j \in DOMAIN runs : j # m => runs'[j] = runs[j],
             runs'[m].start = runs[m].start, runs'[m].ok = runs[m].ok, runs[m].told => runs'[m].told,
             \/ runs[m].end = 0 /\ runs'[m].end = now + 1
             \/ ~runs[m].told /\ runs'[m].end = runs[m].end
      PROVE  i \in DOMAIN runs' /\ ErrorOf(i, t)'
  <2>1. \A j \in DOMAIN runs : runs'[j].start = runs[j].start
      BY <1>4
  <2>2. \A j \in DOMAIN runs' : i < j => t < runs'[j].start
      BY <1>2, <1>4, <2>1
  <2>3. CASE i = m
    <3>1. runs[i].end = 0 /\ runs'[i].end = now + 1 /\ t = now
        BY <1>2, <1>4, <2>3
    <3>2. runs'[i].end # 0 /\ runs'[i].end = t + 1
        BY <1>1, <3>1
    <3>3. runs'[i].told /\ ~runs'[i].ok /\ runs'[i].start < t
        BY <1>2, <1>4, <2>1, <2>3
    <3> QED
        BY <1>4, <2>2, <3>2, <3>3 DEF ErrorOf
  <2>4. CASE i # m
    <3>1. runs'[i] = runs[i] /\ runs[i].end # 0
        BY <1>4, <2>4, OpenIsLast
    <3> QED
        BY <1>2, <1>4, <2>2, <3>1 DEF ErrorOf
  <2> QED
      BY <2>3, <2>4
<1>5. CASE runs' = runs /\ \A j \in DOMAIN runs : runs[j].end # 0
    BY <1>2, <1>5 DEF ErrorOf
<1> QED
    BY <1>3, <1>4, <1>5, RunsMove

\* An error that is posted: a run's own, or one away from every run.
LEMMA ErrorPosted ==
    ASSUME TypeOK, Reviewing, Timeline, Reviewer, ~NearErrors
    PROVE  \/ UNCHANGED reviews
           \/ \E by \in Rungs, kind \in {"real", "refusal", "error"} :
                  /\ Post(by, kind)
                  /\ kind = "error" =>
                         by = Copilot /\ (Away(now)' \/ \E i \in DOMAIN runs' : ErrorOf(i, now)')
<1>1. now \in Nat /\ now' = now + 1 /\ Copilot \in Rungs
    BY Posts DEF Rungs
<1>2. CASE RunPosts
  <2>1. PICK m \in DOMAIN runs :
            /\ ~runs[m].told /\ runs' = [runs EXCEPT ![m] = [runs[m] EXCEPT !.told = TRUE]]
            /\ \E kind \in {"refusal", IF runs[m].ok THEN "real" ELSE "error"} : Post(Copilot, kind)
      BY <1>2 DEF RunPosts
  <2>2. ASSUME ~runs[m].ok PROVE m \in DOMAIN runs' /\ ErrorOf(m, now)'
    <3>1. runs[m] \in CopilotRuns /\ runs'[m] = [runs[m] EXCEPT !.told = TRUE] /\ DOMAIN runs' = DOMAIN runs
        BY <2>1, RunsTyped
    <3>2. /\ runs'[m].start = runs[m].start /\ runs'[m].ok = runs[m].ok /\ runs'[m].told
          /\ runs'[m].end = runs[m].end
        BY <3>1 DEF CopilotRuns
    <3>3. runs[m].start \in 1 .. now /\ (runs[m].end # 0 => runs[m].end = now)
        BY <2>1 DEF Timeline
    <3>4. runs'[m].start < now' /\ (runs'[m].end # 0 => now' = runs'[m].end + 1)
        BY <1>1, <3>2, <3>3
    <3>5. \A j \in DOMAIN runs' : ~(m < j)
        BY <2>1, <3>1 DEF Timeline
    <3> QED
        BY <1>1, <2>2, <3>1, <3>2, <3>4, <3>5 DEF ErrorOf
  <2>3. PICK kind \in {"refusal", IF runs[m].ok THEN "real" ELSE "error"} : Post(Copilot, kind)
      BY <2>1
  <2>4. kind \in {"real", "refusal", "error"} /\ (kind = "error" => ~runs[m].ok)
      BY <2>3
  <2> QED
      BY <1>1, <2>2, <2>3, <2>4
<1>3. CASE ErrsWithoutRun
  <2>1. runs' = runs /\ \A i \in DOMAIN runs : runs[i].end # 0 /\ now + 1 > runs[i].end + Slack
      BY <1>3 DEF ErrsWithoutRun
  <2>2. Away(now)'
      BY <1>1, <2>1 DEF Away
  <2> QED
      BY <1>1, <1>3, <2>2 DEF ErrsWithoutRun
<1>4. CASE OtherPosts
    BY <1>4 DEF OtherPosts, TypeOK, ReviewingOK
<1>5. CASE RunStarts \/ RunEnds
    BY <1>5 DEF RunStarts, RunEnds
<1> QED
    BY <1>2, <1>3, <1>4, <1>5 DEF Reviewer


LEMMA TimelineStep == ASSUME Inv, [Next]_vars PROVE Timeline' /\ (~NearErrors => Errors')
<1>1. TypeOK /\ Reviewing /\ Timeline /\ (~NearErrors => Errors)
    BY DEF Inv
<1>2. CASE UNCHANGED <<reviews, runs, now>>
  <2>1. Timeline'
      BY <1>1, <1>2 DEF Timeline
  <2>2. Errors => Errors'
      BY <1>2 DEF Errors, Away, ErrorOf
  <2> QED
      BY <1>1, <2>1, <2>2
<1>3. CASE Forget
  <2>1. DOMAIN runs' = {} /\ DOMAIN reviews' = {}
      BY <1>3 DEF Forget
  <2> QED
      BY <2>1 DEF Timeline, Errors
<1>4. CASE Reviewer
  <2>1. Timeline'
      BY <1>1, <1>4, TimelineMoves
  <2>2. ASSUME ~NearErrors PROVE Errors'
    <3>1. now \in Nat /\ now' = now + 1 /\ reviews \in Seq(Reviews)
        BY <1>1, <1>4, Posts DEF TypeOK, ReviewingOK
    <3>2. ASSUME NEW k \in DOMAIN reviews
          PROVE  \E t \in Nat :
                     /\ t = reviews[k].at /\ t <= now' /\ reviews[k].kind # "none"
                     /\ reviews[k].kind = "error" =>
                            reviews[k].by = Copilot /\ (Away(t)' \/ \E i \in DOMAIN runs' : ErrorOf(i, t)')
      <4>1. reviews[k].at \in Nat
        <5>1. reviews[k] \in Reviews
            BY <3>1
        <5> QED
            BY <5>1 DEF Reviews
      <4>2. PICK t \in Nat : t = reviews[k].at
          BY <4>1
      <4>3. /\ t <= now /\ reviews[k].kind # "none"
            /\ reviews[k].kind = "error" =>
                   reviews[k].by = Copilot /\ (Away(t) \/ \E i \in DOMAIN runs : ErrorOf(i, t))
          BY <1>1, <2>2, <4>2 DEF Errors
      <4>4. t <= now'
          BY <3>1, <4>3
      <4>5. Away(t) => Away(t)'
          BY <1>1, <1>4, <4>3, AwayStays
      <4>6. (\E i \in DOMAIN runs : ErrorOf(i, t)) => \E i \in DOMAIN runs' : ErrorOf(i, t)'
          BY <1>1, <1>4, <4>3, ErrorStays
      <4> QED
          BY <4>2, <4>3, <4>4, <4>5, <4>6
    <3>3. ASSUME NEW by \in Rungs, NEW kind \in {"real", "refusal", "error"}, Post(by, kind),
                 kind = "error" => by = Copilot /\ (Away(now)' \/ \E i \in DOMAIN runs' : ErrorOf(i, now)'),
                 NEW k, k = Len(reviews) + 1
          PROVE  \E t \in Nat :
                     /\ t = reviews'[k].at /\ t <= now' /\ reviews'[k].kind # "none"
                     /\ reviews'[k].kind = "error" =>
                            reviews'[k].by = Copilot /\ (Away(t)' \/ \E i \in DOMAIN runs' : ErrorOf(i, t)')
      <4>1. reviews'[k] = [by |-> by, at |-> now + 1, kind |-> kind]
          BY <1>1, <1>4, <3>3, Posts, PostTyped
      <4>2. PICK t \in Nat : t = now'
          BY <3>1
      <4>3. reviews'[k].at = t /\ reviews'[k].by = by /\ reviews'[k].kind = kind /\ t <= now'
          BY <3>1, <4>1, <4>2
      <4>4. kind = "error" => by = Copilot /\ (Away(t)' \/ \E i \in DOMAIN runs' : ErrorOf(i, t)')
          BY <3>3, <4>2 DEF Away, ErrorOf
      <4> QED
          BY <4>3, <4>4
    <3>4. ASSUME NEW k \in DOMAIN reviews'
          PROVE  \E t \in Nat :
                     /\ t = reviews'[k].at /\ t <= now' /\ reviews'[k].kind # "none"
                     /\ reviews'[k].kind = "error" =>
                            reviews'[k].by = Copilot /\ (Away(t)' \/ \E i \in DOMAIN runs' : ErrorOf(i, t)')
      <4>1. CASE k \in DOMAIN reviews
        <5>1. reviews'[k] = reviews[k]
            BY <1>1, <1>4, <4>1, Posts
        <5> QED
            BY <3>2, <4>1, <5>1
      <4>2. CASE k \notin DOMAIN reviews
        <5>1. PICK by \in Rungs, kind \in {"real", "refusal", "error"} :
                  /\ Post(by, kind)
                  /\ kind = "error" => by = Copilot /\ (Away(now)' \/ \E i \in DOMAIN runs' : ErrorOf(i, now)')
            BY <1>1, <1>4, <2>2, <4>2, <3>4, ErrorPosted
        <5>2. k = Len(reviews) + 1
            BY <1>1, <1>4, <3>4, <4>2, <5>1, Posts, PostTyped
        <5> QED
            BY <3>3, <5>1, <5>2
      <4> QED
          BY <4>1, <4>2
    <3>5. ASSUME NEW k \in DOMAIN reviews'
          PROVE  /\ reviews'[k].at <= now' /\ reviews'[k].kind # "none"
                 /\ reviews'[k].kind = "error" =>
                        reviews'[k].by = Copilot
                        /\ (Away(reviews[k].at)' \/ \E i \in DOMAIN runs' : ErrorOf(i, reviews[k].at)')
      <4>1. PICK t \in Nat :
                /\ t = reviews'[k].at /\ t <= now' /\ reviews'[k].kind # "none"
                /\ reviews'[k].kind = "error" =>
                       reviews'[k].by = Copilot /\ (Away(t)' \/ \E i \in DOMAIN runs' : ErrorOf(i, t)')
          BY <3>4
      <4> QED
          BY <4>1 DEF Away, ErrorOf
    <3> QED
        BY <3>5 DEF Errors
  <2> QED
      BY <2>1, <2>2
<1> QED
    BY <1>2, <1>3, <1>4, WhoReviews



----------------------------------------------------------------------------
(* What was vouched for. *)

\* The producer of a posted error is the run that failed, or none.
LEMMA NoProducer ==
    ASSUME TypeOK, Timeline, NEW r, r.at \in Nat, \A i \in DOMAIN runs : runs[i].end # 0,
           Away(r.at) \/ \E i \in DOMAIN runs : ErrorOf(i, r.at)
    PROVE  \A i \in Producers(r) : ~runs[i].ok
<1> DEFINE gap(i) == IF runs[i].end < r.at THEN r.at - runs[i].end ELSE runs[i].end - r.at
           near == {i \in DOMAIN runs : runs[i].start <= r.at /\ gap(i) <= Slack}
<1>1. Producers(r) = {i \in near : \A j \in near : gap(i) <= gap(j)}
    BY DEF Producers
<1>2. \A i \in DOMAIN runs : i \in Nat /\ runs[i].start \in Nat /\ runs[i].end \in Nat
    BY RunsTyped
<1>3. Slack \in Nat \ {0}
    BY Constants
<1>4. CASE Away(r.at)
  <2>1. ASSUME NEW i \in DOMAIN runs, runs[i].start <= r.at PROVE gap(i) > Slack
    <3>1. r.at > runs[i].end + Slack
        BY <1>2, <1>4, <2>1 DEF Away
    <3> QED
        BY <1>2, <1>3, <3>1
  <2>2. near = {}
    <3>1. \A i \in DOMAIN runs : gap(i) \in Int
        BY <1>2
    <3> QED
        BY <1>3, <2>1, <3>1
  <2> QED
      BY <1>1, <2>2
<1>5. ASSUME NEW e \in DOMAIN runs, ErrorOf(e, r.at) PROVE \A i \in Producers(r) : ~runs[i].ok
  <2>1. /\ ~runs[e].ok /\ runs[e].start < r.at
        /\ runs[e].end = r.at + 1 \/ r.at = runs[e].end + 1
        /\ \A j \in DOMAIN runs : e < j => r.at < runs[j].start
      BY <1>5 DEF ErrorOf
  <2>2. gap(e) = 1
      BY <1>2, <2>1
  <2>3. e \in near
      BY <1>2, <1>3, <2>1, <2>2
  <2>4. ASSUME NEW i \in near, i # e PROVE gap(i) > gap(e)
    <3>1. ~(e < i)
        BY <1>2, <2>1
    <3>2. i < e
        BY <1>2, <2>4, <3>1
    <3>3. runs[i].end < runs[e].start
        BY <3>2 DEF Timeline
    <3> QED
        BY <1>2, <2>1, <2>2, <3>3
  <2>5. ASSUME NEW i \in Producers(r) PROVE i = e
    <3>1. i \in near /\ gap(i) <= gap(e)
        BY <1>1, <2>3
    <3>2. gap(i) \in Int /\ gap(e) \in Int
        BY <1>2, <3>1
    <3> HIDE DEF gap, near
    <3> QED
        BY <2>4, <3>1, <3>2
  <2> QED
      BY <2>1, <2>5
<1> QED
    BY <1>4, <1>5

\* A review the script calls done was one.
LEMMA SettleIsReal ==
    ASSUME TypeOK, Reviewing, Timeline, Errors, pc = "settle", ClassifyReview(review) = "completed"
    PROVE  review.kind = "real"
<1>1. PICK k \in DOMAIN reviews : review = reviews[k]
    BY DEF Reviewing
<1>2. review \in Reviews
    BY DEF TypeOK, ReviewingOK
<1>3. review.by = Rung /\ review.at \in Nat /\ review.kind \in {"none", "real", "refusal", "error"}
    BY <1>2 DEF Reviewing, Reviews
<1>4. review.kind # "refusal"
    BY DEF ClassifyReview
<1>5. /\ review.kind # "none"
      /\ review.kind = "error" =>
             review.by = Copilot /\ (Away(review.at) \/ \E i \in DOMAIN runs : ErrorOf(i, review.at))
    BY <1>1 DEF Errors
<1>6. ASSUME review.kind = "error" PROVE FALSE
  <2>1. Rung = Copilot
      BY <1>3, <1>5, <1>6
  <2>2. CopilotVerdict(review) = "completed"
      BY <1>4, <2>1 DEF ClassifyReview
  <2>3. /\ \A i \in DOMAIN runs : runs[i].end # 0
        /\ \E i \in Producers(review) : runs[i].ok
      BY <2>2 DEF CopilotVerdict
  <2> QED
      BY <1>3, <1>5, <1>6, <2>3, NoProducer
<1> QED
    BY <1>3, <1>4, <1>5, <1>6



\* What the run of the label is, which the workflow cannot undo.
LEMMA RunMoves ==
    ASSUME TypeOK, AutoMergeStep
    PROVE  /\ UNCHANGED <<branch, judged, cycle>>
           /\ run'.sha = run.sha /\ (run.lost => run'.lost)
           /\ Labelled' = Labelled
           /\ run.state \in {"none", "success", "failure"} => UNCHANGED run
<1>1. run.state \in RunStates /\ run \in [state : RunStates, sha : 0 .. pushed, lost : BOOLEAN]
    BY DEF TypeOK, MergingOK
<1>2. UNCHANGED <<branch, judged, cycle>>
    BY DEF AutoMergeStep
<1>3. CASE UNCHANGED run
    BY <1>2, <1>3 DEF Labelled
<1>4. ASSUME NEW s \in RunStates \ {"none"}, Goto(s), run.state \in {"queued", "arm", "gate", "checks", "merge"}
      PROVE  run'.sha = run.sha /\ run'.lost = run.lost /\ run'.state = s /\ Labelled' = Labelled
    BY <1>1, <1>4 DEF Goto, Labelled
<1>5. ASSUME Answered, run.state \in {"arm", "merge"}
      PROVE  /\ run'.sha = run.sha /\ (run.lost => run'.lost) /\ Labelled' = Labelled
  <2>1. CASE Goto("success")
      BY <1>4, <1>5, <2>1 DEF RunStates
  <2>2. CASE run' = [run EXCEPT !.state = "failure", !.lost = TRUE]
    <3>1. run'.sha = run.sha /\ run'.lost /\ run'.state = "failure"
        BY <1>1, <2>2
    <3> QED
        BY <1>5, <3>1 DEF Labelled
  <2> QED
      BY <1>5, <2>1, <2>2 DEF Answered
<1>6. CASE ReadSetting \/ GateHead \/ GateChecks
  <2>1. /\ run.state \in {"queued", "arm", "gate", "checks", "merge"}
        /\ \E s \in RunStates \ {"none"} : Goto(s)
      BY <1>6 DEF ReadSetting, GateHead, GateChecks, Dies, RunStates
  <2> QED
      BY <1>2, <1>4, <2>1
<1>7. CASE Arm \/ GateMerge
  <2>1. run.state \in {"arm", "merge"} /\ (Answered \/ Goto("failure"))
      BY <1>7 DEF Arm, GateMerge, Dies
  <2>2. "failure" \in RunStates \ {"none"}
      BY DEF RunStates
  <2> QED
      BY <1>2, <1>4, <1>5, <2>1, <2>2
<1>8. CASE ArmedMerges \/ CloseLinkedIssues
    BY <1>3, <1>8 DEF ArmedMerges, CloseLinkedIssues
<1> QED
    BY <1>6, <1>7, <1>8 DEF AutoMergeStep

LEMMA VouchedStep == ASSUME Inv, [Next]_vars, ~NearErrors PROVE Vouched'
<1>1. TypeOK /\ Reviewing /\ Timeline /\ Errors /\ Vouched
    BY DEF Inv
<1>2. /\ vouched \in {"none", "real", "waived"}
      /\ pc = "reviewed" /\ code = 0 => vouched = "real"
      /\ pc = "address" => vouched = "real"
      /\ pc \in {"label"} \cup Finishes => vouched \in {"real", "waived"}
      /\ Labelled => vouched \in {"real", "waived"}
    BY <1>1 DEF Vouched, LabelledIsReviewed
<1>3. CASE World \/ UNCHANGED vars
  <2>1. UNCHANGED <<pc, code, vouched>>
      BY <1>3 DEF World, vars, CheckMoves, HeadMoves, SomeonePushes, SomeoneCloses, Reviewer, AutoMergeStep, cycle,
            reviewing
  <2>2. Labelled' = Labelled
    <3>1. CASE AutoMergeStep
        BY <1>1, <3>1, RunMoves
    <3>2. CASE UNCHANGED merging
        BY <3>2 DEF merging, Labelled
    <3> QED
        BY <1>3, <3>1, <3>2 DEF World, vars
  <2> QED
      BY <1>2, <2>1, <2>2 DEF Vouched, LabelledIsReviewed, Finishes
<1>4. CASE ~Label /\ Agent
  <2> DEFINE Word == pc' \in {"label"} \cup Finishes => vouched' \in {"real", "waived"}
  <2>1. Labelled' = Labelled
      BY <1>4 DEF Agent, ChecksDone, ReviewDone, RosterEnds, Address, FinishDone, merging, Labelled,
            FinishIssueStep, StartFinish, ReadState, ReadAttempts, ReadIssue, CloseIssue, ConfirmIssue
  <2>2. SUFFICES /\ vouched' = vouched \/ vouched' \in {"real", "waived"}
                 /\ pc' = "reviewed" /\ code' = 0 => vouched' = "real"
                 /\ pc' = "address" => vouched' = "real"
                 /\ Word
      BY <1>2, <2>1, <2>2 DEF Vouched, LabelledIsReviewed
  <2>3. CASE AwaitChecksStep /\ UNCHANGED reviewing
      BY <2>3 DEF AwaitChecksStep, StartChecks, ReadHead, ReadRuns, ReadStatuses, NextPoll, Exit, Finishes, reviewing
  <2>4. CASE FinishIssueStep /\ UNCHANGED reviewing
    <3>1. pc \in Finishes /\ pc' \in Finishes
        BY <2>4 DEF FinishIssueStep, StartFinish, ReadState, ReadAttempts, ReadIssue, CloseIssue, ConfirmIssue,
              LeaveFinish, NextFinishPoll, Exit, Finishes
    <3> QED
        BY <1>2, <2>4, <3>1 DEF Finishes, reviewing
  <2>5. CASE AwaitReviewStep
    <3>1. pc' \notin {"address", "label"} \cup Finishes
        BY <2>5 DEF AwaitReviewStep, StartReview, ReadReview, Settle, Undecided, Ask, KeepWaiting, Leave, Exit, Finishes
    <3>2. CASE UNCHANGED vouched /\ (pc' # "reviewed" \/ code' # 0)
        BY <3>1, <3>2
    <3>3. CASE StartReview \/ ReadReview \/ Ask
      <4>1. UNCHANGED vouched /\ (pc' # "reviewed" \/ code' # 0)
          BY <3>3 DEF StartReview, ReadReview, Ask, KeepWaiting, Leave, Exit
      <4> QED
          BY <3>2, <4>1
    <3>4. CASE Settle
      <4>1. CASE \E v \in {"pending", "retry"} : Undecided(v)
        <5>1. UNCHANGED vouched /\ (pc' # "reviewed" \/ code' # 0)
            BY <4>1 DEF Undecided, KeepWaiting, Leave, Exit
        <5> QED
            BY <3>2, <5>1
      <4>2. CASE /\ ClassifyReview(review) \in DOMAIN ExitCode /\ Leave(ExitCode[ClassifyReview(review)])
                 /\ vouched' = IF ClassifyReview(review) = "completed" THEN review.kind ELSE vouched
        <5>1. CASE ClassifyReview(review) = "completed"
          <6>1. vouched' = "real"
              BY <1>1, <3>4, <4>2, <5>1, SettleIsReal DEF Settle
          <6> QED
              BY <3>1, <6>1
        <5>2. CASE ClassifyReview(review) # "completed"
          <6>1. ClassifyReview(review) \in {"refused", "unknown", "errored"}
              BY <4>2, <5>2 DEF ExitCode
          <6>2. ExitCode[ClassifyReview(review)] \in {1, 5, 6}
              BY <6>1 DEF ExitCode
          <6>3. UNCHANGED vouched /\ code' # 0
              BY <4>2, <5>2, <6>2 DEF Leave, Exit
          <6> QED
              BY <3>2, <6>3
        <5> QED
            BY <5>1, <5>2
      <4> QED
          BY <3>4, <4>1, <4>2 DEF Settle
    <3> QED
        BY <2>5, <3>3, <3>4 DEF AwaitReviewStep
  <2>6. CASE ChecksDone
    <3>1. UNCHANGED vouched /\ (pc' = "label" => vouched # "none")
        BY <2>6 DEF ChecksDone, Then, Again, Step, PushFix, reviewing
    <3>2. pc' \notin {"reviewed", "address"} \cup Finishes
        BY <2>6 DEF ChecksDone, Then, Again, Step, PushFix, Finishes
    <3> QED
        BY <1>2, <3>1, <3>2
  <2>7. CASE ReviewDone
    <3>1. UNCHANGED vouched /\ (pc' = "address" => pc = "reviewed" /\ code = 0)
        BY <2>7 DEF ReviewDone, Then, Again, Step
    <3>2. pc' \notin {"reviewed", "label"} \cup Finishes
        BY <2>7 DEF ReviewDone, Then, Again, Step, Finishes
    <3> QED
        BY <1>2, <3>1, <3>2
  <2>8. CASE RosterEnds
      BY <2>8 DEF RosterEnds, Then, Step, Finishes
  <2>9. CASE Address
    <3>1. pc = "address" /\ UNCHANGED vouched /\ pc' \in {"label", "checks"}
        BY <2>9 DEF Address, Then, Step, PushFix, reviewing
    <3> QED
        BY <1>2, <3>1 DEF Finishes
  <2>10. CASE FinishDone
    <3>1. pc = "finished" /\ UNCHANGED vouched /\ pc' \in {"done", "finish", "blocked"}
        BY <2>10 DEF FinishDone, Then, Again, Step, reviewing
    <3> QED
        BY <1>2, <3>1 DEF Finishes
  <2> QED
      BY <1>4, <2>3, <2>4, <2>5, <2>6, <2>7, <2>8, <2>9, <2>10 DEF Agent
<1>5. CASE Label
  <2>1. pc = "label" /\ UNCHANGED vouched /\ pc' = "finish"
      BY <1>5 DEF Label, Then, Step, reviewing
  <2> QED
      BY <1>2, <2>1 DEF Vouched, LabelledIsReviewed
<1> QED
    BY <1>3, <1>4, <1>5 DEF Next



----------------------------------------------------------------------------
(* The label, the merge, the end of the cycle. *)

\* While the run of the label has not answered, nothing is armed or merged.
LEMMA NotYet ==
    ASSUME Gated, run.state \notin {"success", "failure"}
    PROVE  ~armed /\ pr # "merged" /\ ~run.lost
BY DEF Gated

\* What the merge takes has every required check.
LEMMA MergeTakes ==
    ASSUME TypeOK, Judged, Merge
    PROVE  /\ pr' = "merged" /\ ~armed' /\ merged' = pushed /\ pushed \in Commits
           /\ repo.required \subseteq passed[pushed] /\ pr = "open"
<1>1. /\ pr' = "merged" /\ armed' = FALSE /\ merged' = pushed /\ pr = "open"
      /\ \A n \in repo.required : checks[pushed][n] = "pass"
    BY DEF Merge, MayMerge
<1>2. pushed \in Commits /\ repo \in Repositories
    BY DEF TypeOK, GitHubOK
<1>3. repo.required \subseteq Names
    BY <1>2, Constants
<1>4. \A n \in repo.required : n \in passed[pushed]
    BY <1>1, <1>2, <1>3 DEF Judged
<1> QED
    BY <1>1, <1>2, <1>4

\* The agent before the label, and after it.
LEMMA AgentMoves ==
    ASSUME Agent
    PROVE  \/ Label
           \/ pc \notin Finishes \cup {"blocked"} /\ UNCHANGED <<repo, pr, merged, armed, issue, run, saw, closing>>
           \/ /\ pc \in Finishes /\ pc' \in Finishes \cup {"blocked"} /\ UNCHANGED <<branch, judged, pr, merged, armed, merging>>
              /\ FinishIssueStep \/ (FinishDone /\ UNCHANGED issue)
<1>1. CASE ChecksDone \/ ReviewDone \/ RosterEnds \/ Address
    BY <1>1 DEF ChecksDone, PushFix, ReviewDone, RosterEnds, Address, Finishes, github, branch, outcome, merging
<1>2. CASE AwaitChecksStep /\ UNCHANGED merging
    BY <1>2 DEF AwaitChecksStep, StartChecks, ReadHead, ReadRuns, ReadStatuses, Finishes, github, branch, outcome, merging
<1>3. CASE AwaitReviewStep /\ UNCHANGED merging
    BY <1>3 DEF AwaitReviewStep, StartReview, ReadReview, Settle, Ask, Finishes, github, branch, outcome, merging
<1>4. CASE FinishIssueStep
    BY <1>4 DEF FinishIssueStep, StartFinish, ReadState, ReadAttempts, ReadIssue, CloseIssue, ConfirmIssue,
          LeaveFinish, NextFinishPoll, Exit, Finishes, github, branch, judged, outcome, merging
<1>5. CASE FinishDone
    BY <1>5 DEF FinishDone, Then, Again, Step, Finishes, github, branch, judged, outcome, merging
<1> QED
    BY <1>1, <1>2, <1>3, <1>4, <1>5 DEF Agent

LEMMA GatedWorkflow == ASSUME TypeOK, Judged, Gated, AutoMergeStep PROVE Gated'
<1>1. /\ UNCHANGED <<repo, pushed, head, checks, passed, pc>>
      /\ run'.sha = run.sha /\ Labelled' = Labelled
    BY RunMoves DEF branch, judged, cycle
<1>2. run \in [state : RunStates, sha : 0 .. pushed, lost : BOOLEAN] /\ run.lost \in BOOLEAN /\ armed \in BOOLEAN
    BY DEF TypeOK, MergingOK, GitHubOK
<1>3. /\ Labelled => pc \in Finishes \cup {"blocked"}
      /\ armed \/ pr = "merged" => run.state = "success" \/ run.lost
      /\ run.lost => run.state = "failure"
      /\ run.state = "arm" \/ armed => repo.native
      /\ run.state \in {"checks", "merge"} => run.sha <= head
      /\ run.state = "merge" /\ pushed = run.sha => saw \subseteq passed[run.sha]
      /\ pr = "merged" => merged \in Commits
    BY DEF Gated
<1>4. pr = "merged" =>
          /\ Labelled /\ repo.required \subseteq passed[merged]
          /\ ~repo.native => merged = run.sha /\ saw \subseteq passed[merged]
    BY DEF Gated, MergedIsGated
<1>5. Labelled' => pc' \in Finishes' \cup {"blocked"}
    BY <1>1, <1>3 DEF Finishes
\* A step of the run that neither merges nor arms.
<1>6. ASSUME NEW s \in RunStates \ {"none"}, Goto(s), UNCHANGED <<pr, merged, armed>>,
             run.state \notin {"none", "success", "failure"},
             s = "arm" => repo.native, s \in {"checks", "merge"} => run.sha <= head,
             s = "merge" /\ pushed = run.sha => saw' \subseteq passed[run.sha]
      PROVE  Gated'
  <2>1. run'.state = s /\ run'.lost = run.lost
      BY <1>2, <1>6 DEF Goto
  <2>2. ~armed /\ pr # "merged" /\ ~run.lost
      BY <1>6, NotYet
  <2> QED
      BY <1>1, <1>3, <1>5, <1>6, <2>1, <2>2 DEF Gated, MergedIsGated
<1>7. ASSUME Dies, run.state \notin {"none", "success", "failure"} PROVE Gated'
    BY <1>6, <1>7 DEF Dies, outcome, RunStates
<1>8. ASSUME Answered PROVE \/ run'.state = "success" /\ run'.lost = run.lost
                            \/ run'.state = "failure" /\ run'.lost
    BY <1>2, <1>8 DEF Answered, Goto
<1>9. CASE ReadSetting
    BY <1>6, <1>7, <1>9 DEF ReadSetting, outcome, RunStates
<1>10. CASE GateHead
  <2>1. CASE head = run.sha /\ Goto("checks") /\ UNCHANGED <<outcome, saw, closing>>
    <3>1. head \in Nat
        BY Constants DEF TypeOK, GitHubOK
    <3> QED
        BY <1>6, <1>10, <2>1, <3>1 DEF GateHead, outcome, RunStates
  <2> QED
      BY <1>7, <1>10, <2>1 DEF GateHead
<1>11. CASE GateChecks
  <2>1. run.state = "checks"
      BY <1>11 DEF GateChecks
  <2>2. ASSUME saw' = {n \in Names : checks[head][n] \in {"pass"}}, Goto("merge"), UNCHANGED <<outcome, closing>>
        PROVE  Gated'
    <3>1. head \in 1 .. pushed /\ head \in Commits /\ run.sha \in Int
      <4>1. pushed \in Commits /\ head \in 1 .. pushed /\ run.sha \in 0 .. pushed
          BY <1>2 DEF TypeOK, GitHubOK
      <4> QED
          BY <4>1, Constants
    <3>2. pushed = run.sha => head = run.sha
        BY <1>3, <2>1, <3>1
    <3>3. saw' \subseteq passed[head]
        BY <2>2, <3>1 DEF Judged
    <3> QED
        BY <1>3, <1>6, <2>1, <2>2, <3>2, <3>3 DEF outcome, RunStates
  <2>3. CASE Goto("gate") /\ UNCHANGED <<outcome, saw, closing>>
      BY <1>6, <2>1, <2>3 DEF outcome, RunStates
  <2> QED
      BY <1>7, <1>11, <2>1, <2>2, <2>3 DEF GateChecks
<1>12. CASE Arm
  <2>1. run.state = "arm" /\ repo.native /\ ~run.lost /\ ~armed /\ pr # "merged"
      BY <1>3, <1>12, NotYet DEF Arm
  <2>2. CASE Merges /\ Answered /\ UNCHANGED saw
    <3>1. /\ pr' = "merged" /\ ~armed' /\ merged' = pushed /\ pushed \in Commits
          /\ repo.required \subseteq passed[pushed]
        BY <2>2, MergeTakes DEF Merges
    <3>2. \/ run'.state = "success" /\ ~run'.lost
          \/ run'.state = "failure" /\ run'.lost
        BY <1>8, <2>1, <2>2
    <3>3. MergedIsGated'
      <4>1. Labelled'
          BY <3>2 DEF Labelled
      <4> QED
          BY <1>1, <2>1, <3>1, <4>1 DEF MergedIsGated
    <3> QED
        BY <1>1, <1>5, <2>1, <3>1, <3>2, <3>3 DEF Gated, Commits
  <2>3. CASE armed' = TRUE /\ Answered /\ UNCHANGED <<pr, merged, issue, saw, closing>>
    <3>1. \/ run'.state = "success" /\ ~run'.lost
          \/ run'.state = "failure" /\ run'.lost
        BY <1>8, <2>1, <2>3
    <3> QED
        BY <1>1, <1>5, <2>1, <2>3, <3>1 DEF Gated, MergedIsGated
  <2> QED
      BY <1>7, <1>12, <2>1, <2>2, <2>3 DEF Arm
<1>13. CASE GateMerge
  <2>1. run.state = "merge" /\ ~run.lost /\ ~armed /\ pr # "merged"
      BY <1>13, NotYet DEF GateMerge
  <2>2. CASE MatchesHead /\ Merges /\ Answered /\ UNCHANGED saw
    <3>1. /\ pr' = "merged" /\ ~armed' /\ merged' = pushed /\ pushed \in Commits
          /\ repo.required \subseteq passed[pushed]
        BY <2>2, MergeTakes DEF Merges
    <3>2. \/ run'.state = "success" /\ ~run'.lost
          \/ run'.state = "failure" /\ run'.lost
        BY <1>8, <2>1, <2>2
    <3>3. pushed = run.sha /\ saw' \subseteq passed[pushed]
        BY <1>3, <2>1, <2>2 DEF MatchesHead
    <3>4. MergedIsGated'
      <4>1. Labelled'
          BY <3>2 DEF Labelled
      <4> QED
          BY <1>1, <3>1, <3>3, <4>1 DEF MergedIsGated
    <3> QED
        BY <1>1, <1>5, <3>1, <3>2, <3>4 DEF Gated, Commits
  <2> QED
      BY <1>7, <1>13, <2>1, <2>2 DEF GateMerge
<1>14. CASE ArmedMerges
  <2>1. /\ pr' = "merged" /\ ~armed' /\ merged' = pushed /\ pushed \in Commits
        /\ repo.required \subseteq passed[pushed]
      BY <1>14, MergeTakes DEF ArmedMerges, Merges
  <2>2. repo.native /\ UNCHANGED <<run, saw>> /\ (run.state = "success" \/ run.lost)
      BY <1>3, <1>14 DEF ArmedMerges
  <2>3. MergedIsGated'
    <3>1. Labelled'
        BY <1>3, <2>2 DEF Labelled
    <3> QED
        BY <1>1, <2>1, <2>2, <3>1 DEF MergedIsGated
  <2> QED
      BY <1>1, <1>3, <1>5, <2>1, <2>2, <2>3 DEF Gated, Commits
<1>15. CASE CloseLinkedIssues
  <2>1. UNCHANGED <<pr, merged, armed, run, saw>>
      BY <1>15 DEF CloseLinkedIssues
  <2> QED
      BY <1>1, <1>3, <1>4, <1>5, <2>1 DEF Gated, MergedIsGated
<1> QED
    BY <1>9, <1>10, <1>11, <1>12, <1>13, <1>14, <1>15 DEF AutoMergeStep


LEMMA GatedStep == ASSUME Inv, [Next]_vars PROVE Gated'
<1>1. TypeOK /\ Judged /\ Gated
    BY DEF Inv
<1>2. /\ Labelled => pc \in Finishes \cup {"blocked"}
      /\ run.state \in {"checks", "merge"} => run.sha <= head
    BY <1>1 DEF Gated
<1>3. CASE UNCHANGED <<repo, pushed, head, pr, merged, armed, passed, run, saw>> /\ (Labelled => pc' \in Finishes \cup {"blocked"})
    BY <1>1, <1>3 DEF Gated, MergedIsGated, Labelled, Finishes
<1>4. CASE Label
  <2>1. pc = "label" /\ pc' = "finish" /\ UNCHANGED <<pr, merged, armed>>
      BY <1>4 DEF Label, Then, Step, outcome
  <2>2. ~Labelled
      BY <1>2, <2>1 DEF Finishes
  <2>3. ~armed /\ pr # "merged" /\ ~run.lost
      BY <1>1, <2>2, NotYet DEF Labelled
  <2>4. run'.state \in {"none", "queued"} /\ run'.lost = run.lost
      BY <1>1, <1>4, <2>2 DEF Label, StartRun, merging, Labelled, TypeOK, MergingOK
  <2>5. ~armed' /\ pr' # "merged" /\ ~run'.lost
      BY <2>1, <2>3, <2>4
  <2>6. Labelled' => run'.sha \in Commits
    <3>1. CASE StartRun
        BY <1>1, <3>1 DEF StartRun, TypeOK, GitHubOK, MergingOK
    <3>2. CASE UNCHANGED merging
        BY <2>2, <3>2 DEF merging, Labelled
    <3> QED
        BY <1>4, <3>1, <3>2 DEF Label
  <2>7. Labelled' => pc' \in Finishes' \cup {"blocked"} /\ run'.sha \in Commits'
      BY <2>1, <2>6 DEF Finishes, Commits
  <2> QED
      BY <2>4, <2>5, <2>7 DEF Gated, MergedIsGated
<1>5. CASE pc \notin Finishes \cup {"blocked"} /\ UNCHANGED <<repo, pr, merged, armed, run, saw>>
  <2>1. run.state = "none"
      BY <1>2, <1>5 DEF Labelled
  <2>2. ~armed /\ pr # "merged" /\ ~run.lost
      BY <1>1, <2>1, NotYet
  <2> QED
      BY <1>5, <2>1, <2>2 DEF Gated, MergedIsGated, Labelled
<1>6. CASE pc' \in Finishes \cup {"blocked"} /\ UNCHANGED <<branch, judged, pr, merged, armed, merging>>
    BY <1>3, <1>6 DEF branch, judged, merging
<1>7. CASE UNCHANGED <<pc, pr, merged, armed, merging, repo, run, saw>> /\ (UNCHANGED branch \/ HeadMoves \/ pr = "open")
           /\ (UNCHANGED passed \/ (UNCHANGED branch /\ \A c \in Commits : passed[c] \subseteq passed'[c]))
           /\ (UNCHANGED branch \/ HeadMoves \/ SomeonePushes)
  <2>1. /\ pushed \in Commits /\ head \in 1 .. pushed /\ run.sha \in 0 .. pushed /\ pushed \in Nat
        /\ pr = "merged" => merged \in Commits
      BY <1>1, Constants DEF TypeOK, GitHubOK, MergingOK, Gated
  <2>2. CASE UNCHANGED branch
    <3>1. run.sha \in Commits => passed[run.sha] \subseteq passed'[run.sha]
        BY <1>7
    <3>2. merged \in Commits => passed[merged] \subseteq passed'[merged]
        BY <1>7
    <3>3. pushed = run.sha => run.sha \in Commits
        BY <2>1
    <3> QED
        BY <1>1, <1>7, <2>1, <2>2, <3>1, <3>2, <3>3 DEF Gated, MergedIsGated, Labelled, branch, Finishes
  <2>3. CASE ~UNCHANGED branch
    <3>1. UNCHANGED passed /\ (HeadMoves \/ SomeonePushes)
        BY <1>7, <2>3
    <3>2. \/ head' = pushed /\ pushed' = pushed
          \/ head' = head /\ pushed' = pushed + 1
        BY <3>1 DEF HeadMoves, SomeonePushes
    <3>3. /\ run.state \in {"checks", "merge"} => run.sha <= head'
          /\ pushed' = run.sha => pushed = run.sha
        BY <1>2, <2>1, <3>2
    <3> QED
        BY <1>1, <1>7, <3>1, <3>3 DEF Gated, MergedIsGated, Labelled, Finishes
  <2> QED
      BY <2>2, <2>3
<1>8. CASE UNCHANGED <<branch, judged, pc, merged, merging>> /\ pr' = "closed" /\ ~armed'
    BY <1>1, <1>8 DEF branch, judged, merging, Gated, MergedIsGated, Labelled, Finishes
<1>9. CASE World
  <2>1. ASSUME NEW c, CheckMoves(c), UNCHANGED merging PROVE Gated'
    <3>1. UNCHANGED <<pc, pr, merged, armed, merging, branch, repo, run, saw>> /\ pr = "open"
        BY <2>1 DEF CheckMoves, outcome, cycle, branch, merging
    <3>2. passed \in [Commits -> SUBSET Names]
        BY <1>1 DEF TypeOK, GitHubOK
    <3>3. \A d \in Commits : passed[d] \subseteq passed'[d]
      <4>1. passed' = passed \/ \E n : passed' = [passed EXCEPT ![c] = passed[c] \cup {n}]
          BY <2>1 DEF CheckMoves
      <4> QED
          BY <3>2, <4>1
    <3> QED
        BY <1>7, <3>1, <3>3
  <2>2. CASE (HeadMoves \/ SomeonePushes) /\ UNCHANGED merging
    <3>1. UNCHANGED <<pc, pr, merged, armed, merging, repo, run, saw, passed>> /\ (HeadMoves \/ pr = "open")
        BY <2>2 DEF HeadMoves, SomeonePushes, judged, outcome, cycle, merging
    <3> QED
        BY <1>7, <2>2, <3>1
  <2>3. CASE SomeoneCloses /\ UNCHANGED merging
    <3>1. UNCHANGED <<branch, judged, pc, merged, merging>> /\ pr' = "closed" /\ ~armed'
        BY <2>3 DEF SomeoneCloses, cycle
    <3> QED
        BY <1>8, <3>1
  <2>4. CASE Reviewer /\ UNCHANGED merging
    <3>1. UNCHANGED <<repo, pushed, head, pr, merged, armed, passed, run, saw, pc>>
        BY <2>4 DEF Reviewer, github, branch, judged, outcome, cycle, merging
    <3> QED
        BY <1>2, <1>3, <3>1
  <2>5. CASE AutoMergeStep
      BY <1>1, <2>5, GatedWorkflow
  <2> QED
      BY <1>9, <2>1, <2>2, <2>3, <2>4, <2>5 DEF World
<1>10. CASE Agent
    BY <1>4, <1>5, <1>6, <1>10, AgentMoves
<1>11. CASE UNCHANGED vars
  <2>1. UNCHANGED <<repo, pushed, head, pr, merged, armed, passed, run, saw, pc>>
      BY <1>11 DEF vars, github, branch, judged, outcome, cycle, merging
  <2> QED
      BY <1>2, <1>3, <2>1
<1> QED
    BY <1>9, <1>10, <1>11 DEF Next

LEMMA FinishingStep == ASSUME Inv, [Next]_vars PROVE Finishing'
<1>1. TypeOK /\ Judged /\ Gated /\ Finishing
    BY DEF Inv
<1>2. /\ closing # "none" \/ issue = "closed" => pr = "merged"
      /\ pc \in {"issue", "close", "confirm"} => pr = "merged"
      /\ pc = "done" => code = 0
      /\ pc \in {"finished", "done"} =>
             /\ code = 0 => pr = "merged" /\ issue = "closed"
             /\ code = 1 => pr = "closed"
             /\ code = 5 => run.state = "failure" \/ closing = "dead"
    BY <1>1 DEF Finishing
<1>3. CASE /\ pr \in {"merged", "closed"} => pr' = pr
           /\ issue = "closed" => issue' = "closed"
           /\ run.state = "failure" => run'.state = "failure"
           /\ closing = "dead" => closing' = "dead"
           /\ closing' # "none" \/ issue' = "closed" => pr' = "merged"
           /\ UNCHANGED <<pc, code>>
    BY <1>2, <1>3 DEF Finishing
<1>4. CASE /\ UNCHANGED <<pr, issue, closing>>
           /\ pc' \notin {"issue", "close", "confirm", "finished", "done"}
    BY <1>2, <1>4 DEF Finishing
<1>5. CASE Label
  <2>1. UNCHANGED <<pr, issue, closing>> /\ pc' = "finish"
      BY <1>5 DEF Label, StartRun, Then, Step, outcome, merging
  <2> QED
      BY <1>4, <2>1
<1>6. CASE Agent /\ pc \notin Finishes /\ ~Label
  <2>1. UNCHANGED <<pr, issue, closing>>
      BY <1>6, AgentMoves
  <2>2. pc' \notin {"issue", "close", "confirm", "finished", "done"}
    <3>1. CASE ChecksDone \/ ReviewDone \/ RosterEnds \/ Address
        BY <3>1 DEF ChecksDone, ReviewDone, RosterEnds, Address, PushFix, Then, Again, Step
    <3>2. CASE AwaitChecksStep
        BY <3>2 DEF AwaitChecksStep, StartChecks, ReadHead, ReadRuns, ReadStatuses, NextPoll, Exit
    <3>3. CASE AwaitReviewStep
        BY <3>3 DEF AwaitReviewStep, StartReview, ReadReview, Settle, Undecided, Ask, KeepWaiting, Leave, Exit
    <3>4. CASE FinishIssueStep \/ FinishDone
        BY <1>6, <3>4 DEF FinishIssueStep, StartFinish, ReadState, ReadAttempts, ReadIssue, CloseIssue, ConfirmIssue,
              FinishDone, Finishes
    <3> QED
        BY <1>6, <3>1, <3>2, <3>3, <3>4 DEF Agent
  <2> QED
      BY <1>4, <2>1, <2>2
<1>7. CASE FinishDone
  <2>1. UNCHANGED <<pr, issue, closing, run>>
      BY <1>7 DEF FinishDone, github, outcome, merging
  <2>2. pc = "finished" /\ ((pc' = "done" /\ code = 0 /\ code' = 0) \/ pc' \in {"finish", "blocked"})
      BY <1>7 DEF FinishDone, Then, Again, Step
  <2> QED
      BY <1>2, <2>1, <2>2 DEF Finishing
<1>8. CASE FinishIssueStep
  <2>1. UNCHANGED <<pr, closing, run>> /\ (issue' = issue \/ (issue' = "closed" /\ pr = "merged"))
      BY <1>2, <1>8 DEF FinishIssueStep, StartFinish, ReadState, ReadAttempts, ReadIssue, CloseIssue, ConfirmIssue,
            github, outcome, merging
  <2>2. closing' # "none" \/ issue' = "closed" => pr' = "merged"
      BY <1>2, <2>1
  <2>3. CASE pc' \notin {"finished", "done"} /\ (pc' \in {"issue", "close", "confirm"} => pr = "merged")
      BY <2>1, <2>2, <2>3 DEF Finishing
  <2>4. ASSUME NEW n \in 0 .. 5, LeaveFinish(n), n = 0 => pr = "merged" /\ issue = "closed", n = 1 => pr = "closed",
               n = 5 => run.state = "failure" \/ closing = "dead"
        PROVE  Finishing'
    <3>1. pc' = "finished" /\ code' = n
        BY <2>4 DEF LeaveFinish, Exit
    <3> QED
        BY <2>1, <2>2, <2>4, <3>1 DEF Finishing
  <2>5. CASE NextFinishPoll
    <3>1. pc' = "state" \/ LeaveFinish(2)
        BY <2>5 DEF NextFinishPoll
    <3> QED
        BY <2>3, <2>4, <3>1
  <2>6. CASE StartFinish
      BY <2>3, <2>4, <2>6 DEF StartFinish
  <2>7. CASE ReadState
      BY <2>3, <2>4, <2>5, <2>7 DEF ReadState
  <2>8. CASE ReadAttempts
    <3>1. DeadRun(at) => run.state = "failure" \/ closing = "dead"
        BY DEF DeadRun
    <3> QED
        BY <2>4, <2>5, <2>8, <3>1 DEF ReadAttempts
  <2>9. CASE ReadIssue
    <3>1. pr = "merged"
        BY <1>2, <2>9 DEF ReadIssue
    <3> QED
        BY <2>3, <2>4, <2>9, <3>1 DEF ReadIssue
  <2>10. CASE CloseIssue
    <3>1. pr = "merged"
        BY <1>2, <2>10 DEF CloseIssue
    <3> QED
        BY <2>3, <2>4, <2>10, <3>1 DEF CloseIssue
  <2>11. CASE ConfirmIssue
    <3>1. pr = "merged"
        BY <1>2, <2>11 DEF ConfirmIssue
    <3> QED
        BY <2>4, <2>11, <3>1 DEF ConfirmIssue
  <2> QED
      BY <1>8, <2>6, <2>7, <2>8, <2>9, <2>10, <2>11 DEF FinishIssueStep
<1>9. CASE AutoMergeStep
  <2>1. UNCHANGED <<pc, code>> /\ (run.state = "failure" => UNCHANGED run)
      BY <1>1, <1>9, RunMoves DEF cycle
  <2>2. CASE Merges
    <3>1. pr = "open" /\ pr' = "merged" /\ issue' = issue
        BY <2>2 DEF Merges, Merge, MayMerge
    <3>2. closing = "none"
        BY <1>2, <3>1
    <3> QED
        BY <1>3, <2>1, <3>1, <3>2
  <2>3. CASE CloseLinkedIssues
    <3>1. closing = "queued" /\ pr' = pr /\ (issue' = issue \/ issue' = "closed")
        BY <2>3 DEF CloseLinkedIssues
    <3>2. pr' = "merged"
        BY <1>2, <3>1
    <3> QED
        BY <1>2, <1>3, <2>1, <3>1, <3>2
  <2>4. CASE UNCHANGED <<pr, issue, closing>>
      BY <1>2, <1>3, <2>1, <2>4
  <2> QED
      BY <1>9, <2>2, <2>3, <2>4 DEF AutoMergeStep, ReadSetting, Arm, ArmedMerges, GateHead, GateChecks, GateMerge,
            Dies, outcome
<1>10. CASE World /\ ~AutoMergeStep
  <2>1. UNCHANGED <<pc, code, issue, merging>>
      BY <1>10 DEF World, CheckMoves, HeadMoves, SomeonePushes, SomeoneCloses, Reviewer, cycle, outcome, github
  <2>2. pr' = pr \/ (pr = "open" /\ pr' = "closed")
      BY <1>10 DEF World, CheckMoves, HeadMoves, SomeonePushes, SomeoneCloses, Reviewer, outcome, github
  <2> QED
      BY <1>2, <1>3, <2>1, <2>2 DEF merging
<1>11. CASE UNCHANGED vars
  <2>1. UNCHANGED <<pc, code, pr, issue, closing, run>>
      BY <1>11 DEF vars, github, outcome, cycle, merging
  <2> QED
      BY <1>2, <1>3, <2>1
<1>12. CASE Agent
    BY <1>5, <1>6, <1>7, <1>8, <1>12, AgentMoves
<1> QED
    BY <1>9, <1>10, <1>11, <1>12 DEF Next

----------------------------------------------------------------------------
(* The theorems. *)

LEMMA StepInv == ASSUME Inv, [Next]_vars PROVE Inv'
<1>1. TypeOK' /\ Judged' /\ Reviewing' /\ Timeline' /\ Gated' /\ Finishing'
    BY TypeStep, JudgedStep, ReviewingStep, TimelineStep, GatedStep, FinishingStep
<1>2. ~NearErrors => Errors' /\ Vouched'
    BY TimelineStep, VouchedStep
<1> QED
    BY <1>1, <1>2 DEF Inv

LEMMA AlwaysInv == Spec => []Inv
<1>1. Init => Inv
    BY InitInv
<1>2. Inv /\ [Next]_vars => Inv'
    BY StepInv
<1> QED
    BY <1>1, <1>2, PTL DEF Spec

\* Every counter, cursor and record of a cycle stays within its range.
THEOREM TypeCorrect == Spec => []TypeOK
<1>1. Inv => TypeOK
    BY DEF Inv
<1> QED
    BY <1>1, AlwaysInv, PTL

\* await-checks answers 0 only for the commit it was asked about, when that
\* commit had become the head, something had passed on it, and every required
\* check had; whatever moved between two of its reads.
THEOREM GreenIsReal == Spec => []GreenIsOfThisCommit
<1>1. Inv => GreenIsOfThisCommit
    BY DEF Inv, Judged
<1> QED
    BY <1>1, AlwaysInv, PTL

\* Where no error without a run comes within the slack of a run, what the cycle
\* labels was reviewed by a reviewer who did review, or the operator waived it.
THEOREM LabelReviewed == ASSUME ~NearErrors PROVE Spec => []LabelledIsReviewed
<1>1. Inv => LabelledIsReviewed
    BY DEF Inv, Vouched
<1> QED
    BY <1>1, AlwaysInv, PTL

\* What merges was labelled and has passed every required check, and without
\* native auto merge it is the labelled commit, on which all the run saw passed.
THEOREM MergeGated == Spec => []MergedIsGated
<1>1. Inv => MergedIsGated
    BY DEF Inv, Gated
<1> QED
    BY <1>1, AlwaysInv, PTL

\* The exit code of finish-issue is true of the pull request and the issue.
THEOREM FinishTrue == Spec => []FinishTellsTheTruth
<1>1. ASSUME Inv PROVE FinishTellsTheTruth
  <2>1. /\ closing # "none" \/ issue = "closed" => pr = "merged"
        /\ pc \in {"finished", "done"} =>
               /\ code = 0 => pr = "merged" /\ issue = "closed"
               /\ code = 1 => pr = "closed"
               /\ code = 5 => run.state = "failure" \/ closing = "dead"
      BY <1>1 DEF Inv, Finishing
  <2>2. run.state = "failure" /\ ~run.lost => pr # "merged" /\ ~armed
      BY <1>1 DEF Inv, Gated
  <2>3. issue \in {"open", "closed"}
      BY <1>1 DEF Inv, TypeOK, GitHubOK
  <2> QED
      BY <2>1, <2>2, <2>3 DEF FinishTellsTheTruth
<1> QED
    BY <1>1, AlwaysInv, PTL
=============================================================================
