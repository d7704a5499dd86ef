---------------------------- MODULE AwaitReview ----------------------------
(***************************************************************************)
(* scripts/await-review.sh: one bounded call that asks the first rung of   *)
(* the roster for a review, waits for it and says what landed.  A refusal  *)
(* is known by its wording, and whether Copilot reviewed at all by the     *)
(* check run that is nearest to the review in time.                        *)
(*                                                                         *)
(* The reviewers are external.  Time is counted in their events: a run and *)
(* the review it posts end one event apart, in either order, and Copilot   *)
(* may also post an error that no run stands behind.                       *)
(***************************************************************************)
EXTENDS PullRequest

CONSTANTS
    Copilot, Local, None,   \* rungs: the bot with check runs, the App's own reviewer, "none"
    KnownBots,              \* rungs whose wording of a refusal is configured
    UnknownBots,            \* rungs whose wording is not
    Slack,                  \* COPILOT_SLACK_SECONDS, in events
    NearErrors,             \* may an error no run stands behind come within Slack of a run
    MaxEvents               \* bound: events of the reviewers

Rungs == {Copilot, Local, None} \cup KnownBots \cup UnknownBots

ASSUME AwaitReviewAssumption ==
    /\ \A r \in Repositories : r.roster \in Seq(Rungs)
    /\ NearErrors \in BOOLEAN /\ Slack \in Nat \ {0} /\ MaxEvents \in Nat

VARIABLES
    roster,         \* the rungs that are left
    asked,          \* the rungs with a request outstanding on the timeline
    asks,           \* requests placed with Copilot
    reviews,        \* the reviews on the timeline: by whom, when, of what kind
    runs,           \* Copilot's check runs on the commit: start, end (0 before), success, review posted
    now,            \* events so far
    review,         \* the review this poll read
    verdict,        \* VERDICT: what the last classification left undecided
    vouched         \* history: what the review of the exit 0 was, "none" before

unsent == [by |-> None, at |-> 0, kind |-> "none"]
reviewers == <<asked, asks, reviews, runs, now>>
reviewing == <<roster, reviewers, review, verdict, vouched>>

InitAwaitReview ==
    /\ roster = repo.roster
    /\ asked = {} /\ asks = 0 /\ reviews = <<>> /\ runs = <<>> /\ now = 0
    /\ review = unsent /\ verdict = "none" /\ vouched = "none"

Rung == Head(roster)
----------------------------------------------------------------------------
(* The reviewers. *)

Half(run) == (run.end = 0) = run.told
Tick == now < MaxEvents /\ now' = now + 1
Post(by, kind) ==
    /\ reviews' = Append(reviews, [by |-> by, at |-> now + 1, kind |-> kind])
    /\ asked' = asked \ {by}

RunStarts ==
    /\ Tick /\ Len(runs) < asks
    /\ \A i \in DOMAIN runs : runs[i].end # 0 /\ ~Half(runs[i])
    /\ \E ok \in BOOLEAN :
        runs' = Append(runs, [start |-> now + 1, end |-> 0, ok |-> ok, told |-> FALSE])
    /\ UNCHANGED <<asked, asks, reviews>>
RunEnds ==
    /\ Tick
    /\ \E i \in DOMAIN runs : runs[i].end = 0 /\ runs' = [runs EXCEPT ![i].end = now + 1]
    /\ UNCHANGED <<asked, asks, reviews>>
RunPosts ==
    /\ Tick
    /\ \E i \in DOMAIN runs :
        /\ ~runs[i].told /\ runs' = [runs EXCEPT ![i].told = TRUE]
        /\ \E kind \in {"refusal", IF runs[i].ok THEN "real" ELSE "error"} : Post(Copilot, kind)
    /\ UNCHANGED asks
ErrsWithoutRun ==
    /\ Tick /\ Copilot \in asked
    /\ \A i \in DOMAIN runs :
        /\ runs[i].end # 0 /\ ~Half(runs[i])
        /\ NearErrors \/ now + 1 > runs[i].end + Slack
    /\ Post(Copilot, "error")
    /\ UNCHANGED <<asks, runs>>
OtherPosts ==
    /\ Tick
    /\ \E by \in asked \ {Copilot}, kind \in {"real", "refusal"} : Post(by, kind)
    /\ UNCHANGED <<asks, runs>>

Reviewer ==
    /\ RunStarts \/ RunEnds \/ RunPosts \/ ErrsWithoutRun \/ OtherPosts
    /\ UNCHANGED <<github, cycle, roster, review, verdict, vouched>>
----------------------------------------------------------------------------
(* The script. *)

\* Slip: a run that started after the review may have produced it.
ProducersEver(r) ==
    LET gap(i) == IF runs[i].end < r.at THEN r.at - runs[i].end ELSE runs[i].end - r.at
        near == {i \in DOMAIN runs : gap(i) <= Slack} IN
    {i \in near : \A j \in near : gap(i) <= gap(j)}

\* copilot_verdict: the run that started no later than the review and ended nearest it.
Producers(r) ==
    LET gap(i) == IF runs[i].end < r.at THEN r.at - runs[i].end ELSE runs[i].end - r.at
        near == {i \in DOMAIN runs : runs[i].start <= r.at /\ gap(i) <= Slack} IN
    {i \in near : \A j \in near : gap(i) <= gap(j)}

CopilotVerdict(r) ==
    LET by == Producers(r)
        newer(i) == \A j \in by : runs[i].start > runs[j].start
        late(i) == runs[i].start > r.at IN
    IF runs = <<>> THEN "unknown"
    ELSE IF \E i \in DOMAIN runs : runs[i].end = 0 THEN "pending"
    ELSE IF \E i \in by : runs[i].ok THEN "completed"
    ELSE IF \E i \in DOMAIN runs : runs[i].ok /\ (IF by = {} THEN late(i) ELSE newer(i)) THEN "pending"
    ELSE IF Len(runs) < 2 THEN "retry" ELSE "errored"

\* classify: the wording decides before the check run does.
ClassifyReview(r) ==
    IF Rung \in UnknownBots THEN "unknown"
    ELSE IF r.kind = "refusal" THEN "refused"
    ELSE IF Rung = Copilot THEN CopilotVerdict(r)
    ELSE "completed"
ExitCode == [completed |-> 0, refused |-> 1, unknown |-> 5, errored |-> 6]

Leave(n) == Exit(n, "reviewed") /\ review' = unsent /\ verdict' = "none"

\* Slip: the loop counts from 0 to its bound.
KeepWaitingTooLong(v) ==
    IF polls <= PollCount
    THEN polls' = polls + 1 /\ pc' = "latest" /\ review' = unsent /\ verdict' = v /\ UNCHANGED <<code, sha>>
    ELSE Leave(2)

\* The next poll, or exit 2.
KeepWaiting(v) ==
    IF polls < PollCount
    THEN polls' = polls + 1 /\ pc' = "latest" /\ review' = unsent /\ verdict' = v /\ UNCHANGED <<code, sha>>
    ELSE Leave(2)

\* Who cannot be asked at all is told at once: the local reviewer that has no
\* credentials, or bad ones, and a bot whose login is not a bot's.
StartReview ==
    /\ pc = "review" /\ roster # <<>> /\ Rung # None
    /\ \/ /\ pc' = "latest" /\ UNCHANGED <<code, polls, sha, review, verdict>>
          /\ asked' = IF Rung = Local THEN asked \cup {Local} ELSE asked
       \/ /\ Rung # Copilot /\ \E n \in IF Rung = Local THEN {3, 4} ELSE {3} : Leave(n)
          /\ UNCHANGED asked
    /\ UNCHANGED <<github, roster, asks, reviews, runs, now, vouched>>

\* latest_review; a timeline that cannot be read has none.
ReadReview ==
    /\ pc = "latest"
    /\ LET mine == {i \in DOMAIN reviews : reviews[i].by = Rung} IN
       \/ /\ \E latest \in mine : (\A i \in mine : i <= latest) /\ review' = reviews[latest]
          /\ pc' = "settle" /\ UNCHANGED <<code, polls, sha, verdict>>
       \/ /\ polls = 0
          /\ pc' = "ask" /\ UNCHANGED <<code, polls, sha, review, verdict>>
       \/ polls # 0 /\ KeepWaiting(verdict)
    /\ UNCHANGED <<github, roster, reviewers, vouched>>

\* settle: with_checks, which for Copilot may fail, and then classify.
Undecided(v) ==
    /\ UNCHANGED vouched
    /\ IF v = "retry" \/ polls = 0
       THEN pc' = "ask" /\ review' = unsent /\ verdict' = v /\ UNCHANGED <<code, polls, sha>>
       ELSE KeepWaiting(v)
Settle ==
    /\ pc = "settle"
    /\ LET word == ClassifyReview(review) IN
       \/ /\ word \in DOMAIN ExitCode
          /\ Leave(ExitCode[word])
          /\ vouched' = IF word = "completed" THEN review.kind ELSE vouched
       \/ word \in {"pending", "retry"} /\ Undecided(word)
       \/ Rung = Copilot /\ Undecided("pending")
    /\ UNCHANGED <<github, roster, reviewers>>

\* The request block, and retry_review: nothing for who posts by itself, is
\* running, or is asked already; else one request, read back.
MustAsk == Rung # Local /\ verdict # "pending" /\ Rung \notin asked
Place ==
    /\ asked' = asked \cup {Rung}
    /\ asks' = IF Rung = Copilot /\ Rung \notin asked THEN asks + 1 ELSE asks
Ask ==
    /\ pc = "ask"
    /\ \/ ~MustAsk /\ KeepWaiting(verdict) /\ UNCHANGED <<asked, asks>>
       \/ Rung # Local /\ verdict # "pending" /\ Place /\ KeepWaiting(verdict)
       \/ /\ Rung # Local /\ verdict # "pending"
          /\ Place \/ UNCHANGED <<asked, asks>>
          /\ Leave(IF verdict = "retry" THEN 6 ELSE 3)
    /\ UNCHANGED <<github, roster, reviews, runs, now, vouched>>

AwaitReviewStep == StartReview \/ ReadReview \/ Settle \/ Ask

Reviews == [by : Rungs, at : Nat, kind : {"none", "real", "refusal", "error"}]
CopilotRuns == [start : Nat, end : Nat, ok : BOOLEAN, told : BOOLEAN]
ReviewingOK ==
    /\ roster \in Seq(Rungs) /\ asked \subseteq Rungs \ {None} /\ asks \in Nat
    /\ now \in 0 .. MaxEvents
    /\ reviews \in Seq(Reviews) /\ Len(reviews) <= now
    /\ runs \in Seq(CopilotRuns) /\ Len(runs) <= asks
    /\ review \in Reviews /\ verdict \in {"none", "pending", "retry"}
    /\ vouched \in {"none", "waived", "real", "refusal", "error"}
=============================================================================
