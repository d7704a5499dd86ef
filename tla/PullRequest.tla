---------------------------- MODULE PullRequest ----------------------------
(***************************************************************************)
(* What a cycle of the backlog loop shares with GitHub: one pull request,  *)
(* the checks of its commits, the issue it closes, and where the cycle     *)
(* (skills/next-issue) and the script it is blocked on have got to.        *)
(*                                                                         *)
(* GitHub is external: it moves when it likes, and the only thing taken on *)
(* its word is that it merges no pull request whose required checks have   *)
(* not passed on its head.  A commit is its number in the order of pushes. *)
(***************************************************************************)
EXTENDS Integers, Sequences, FiniteSets

CONSTANTS
    MaxCommits,     \* bound: commits pushed to the branch
    CheckRuns,      \* names of checks that report as check runs
    Statuses,       \* names of checks that report as commit statuses
    Repositories,   \* what is set up where: the checks that report, those that are required,
                    \* native auto merge, an App token, the roster of reviewers
    PollCount,      \* bound: polls of one call of a script
    MaxCalls        \* bound: calls of one script before the cycle gives up on it

Names == CheckRuns \cup Statuses
Commits == 1 .. MaxCommits

ASSUME PullRequestAssumption ==
    /\ MaxCommits \in Nat \ {0} /\ PollCount \in Nat \ {0} /\ MaxCalls \in Nat \ {0}
    /\ CheckRuns \cap Statuses = {}
    /\ \A r \in Repositories :
        /\ r.required \subseteq r.checks /\ r.checks \subseteq Names
        /\ r.native \in BOOLEAN /\ r.app \in BOOLEAN

VARIABLES
    repo,           \* the repository the cycle runs in
    pushed,         \* the last commit pushed: the head of the branch
    head,           \* the head the API answers with, shortly behind
    checks,         \* [Commits -> [Names -> bucket]], "none" before a check registers
    passed,         \* history: [Commits -> the checks that have passed on it]
    pr,             \* "open", "merged", "closed"
    merged,         \* the commit that was merged, 0 before
    armed,          \* native auto merge is armed
    issue,          \* "open", "closed"
    pc,             \* where the cycle is, or the script it waits for
    code,           \* the exit code of the last script
    polls,          \* polls of the current call so far
    sha             \* the commit in the cycle's worktree

branch == <<repo, pushed, head>>
judged == <<checks, passed>>
outcome == <<pr, merged, armed, issue>>
github == <<branch, judged, outcome>>
cycle == <<pc, code, polls, sha>>

InitPullRequest ==
    /\ repo \in Repositories
    /\ pushed = 1 /\ head = 1
    /\ checks = [c \in Commits |-> [n \in Names |-> "none"]]
    /\ passed = [c \in Commits |-> {}]
    /\ pr = "open" /\ merged = 0 /\ armed = FALSE /\ issue = "open"
    /\ pc = "checks" /\ code = 0 /\ polls = 0 /\ sha = 1

Exit(n, line) == code' = n /\ pc' = line /\ polls' = 0 /\ UNCHANGED sha

\* A check registers, settles, is run again.
Moves == {<<"none", "pending">>, <<"pending", "pass">>, <<"pending", "fail">>,
          <<"pass", "pending">>, <<"fail", "pending">>}
CheckMoves(c) ==
    /\ pr = "open"
    /\ \E n \in repo.checks, move \in Moves :
        /\ checks[c][n] = move[1]
        /\ checks' = [checks EXCEPT ![c][n] = move[2]]
        /\ passed' = IF move[2] = "pass" THEN [passed EXCEPT ![c] = @ \cup {n}] ELSE passed
    /\ UNCHANGED <<branch, outcome, cycle>>

HeadMoves == head # pushed /\ head' = pushed /\ UNCHANGED <<repo, pushed, judged, outcome, cycle>>

\* Someone else pushes to the branch, or closes the pull request.
SomeonePushes ==
    /\ pr = "open" /\ pushed < MaxCommits /\ pushed' = pushed + 1
    /\ UNCHANGED <<repo, head, judged, outcome, cycle>>
SomeoneCloses ==
    /\ pr = "open" /\ pr' = "closed" /\ armed' = FALSE
    /\ UNCHANGED <<branch, judged, merged, issue, cycle>>

\* Branch protection, and a merge it lets through.
MayMerge == pr = "open" /\ \A n \in repo.required : checks[pushed][n] = "pass"
Merge == MayMerge /\ pr' = "merged" /\ merged' = pushed /\ armed' = FALSE /\ UNCHANGED issue

Buckets == {"none", "pending", "pass", "fail"}
GitHubOK ==
    /\ repo \in Repositories
    /\ pushed \in Commits /\ head \in 1 .. pushed
    /\ checks \in [Commits -> [Names -> Buckets]]
    /\ passed \in [Commits -> SUBSET Names]
    /\ pr \in {"open", "merged", "closed"} /\ merged \in 0 .. pushed
    /\ armed \in BOOLEAN /\ issue \in {"open", "closed"}
=============================================================================
