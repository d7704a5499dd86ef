------------------------------- MODULE Fanout -------------------------------
(***************************************************************************)
(* fanout.Run, the bounded fail-fast scheduler that daggerverse/tesseract  *)
(* and daggerverse/pdf each carry a copy of, and the answer that RunSlices *)
(* makes of it.                                                            *)
(*                                                                         *)
(* Each unit is a goroutine.  It waits for a slot or for the context to be *)
(* done, looks at the context again, runs, and gives the slot back; the    *)
(* first one to fail records its error and cancels the context.  The       *)
(* caller waits for all of them.  The context may also be cancelled by the *)
(* one who called.                                                         *)
(***************************************************************************)
EXTENDS Integers, FiniteSets

CONSTANTS
    Units,          \* the units of work
    Workers,        \* the bound that was asked for
    Togethers       \* bound: how many units may have to be running before any returns

\* Run: a bound below one is one.
Bound == IF Workers < 1 THEN 1 ELSE Workers

ASSUME FanoutAssumption ==
    /\ IsFiniteSet(Units)
    /\ Workers \in Int
    /\ Togethers \subseteq Nat

VARIABLES
    pc,             \* [Units -> the line a goroutine is at]
    ctxDone,        \* the context the units see is cancelled
    callerDone,     \* the context Run was given is cancelled
    first,          \* the error recorded, if any: the unit, and whether it is its own
    results,        \* the units whose element of RunSlices' out is written
    caller,         \* whether Run has returned
    started,        \* history: the units whose run was called
    committed,      \* history: the units about to call run when the context was cancelled
    together        \* how many units must have started before one returns

vars == <<pc, ctxDone, callerDone, first, results, caller, started, committed, together>>

Lines == {"select", "slot", "cleared", "running", "failing", "yielding", "releasing", "done"}

Init ==
    /\ pc = [u \in Units |-> "select"]
    /\ ctxDone = FALSE /\ callerDone = FALSE
    /\ first = {} /\ results = {} /\ caller = "waiting"
    /\ started = {} /\ committed = {}
    /\ together \in Togethers

At(u, line) == pc[u] = line
Goto(u, line) == pc' = [pc EXCEPT ![u] = line]

\* The units that hold a slot.
Holders == {u \in Units : pc[u] \notin {"select", "done"}}

\* Slips: a channel with room for one more, and for one less.
TakeSlotOfMore(u) ==
    /\ At(u, "select") /\ Cardinality(Holders) <= Bound
    /\ Goto(u, "slot")
    /\ UNCHANGED <<ctxDone, callerDone, first, results, caller, started, committed, together>>
TakeSlotOfFewer(u) ==
    /\ At(u, "select") /\ Cardinality(Holders) + 1 < Bound
    /\ Goto(u, "slot")
    /\ UNCHANGED <<ctxDone, callerDone, first, results, caller, started, committed, together>>

\* The select: a slot is free, whatever the context, or the context is done.
TakeSlot(u) ==
    /\ At(u, "select") /\ Cardinality(Holders) < Bound
    /\ Goto(u, "slot")
    /\ UNCHANGED <<ctxDone, callerDone, first, results, caller, started, committed, together>>
SeeDone(u) ==
    /\ At(u, "select") /\ ctxDone
    /\ Goto(u, "done")
    /\ UNCHANGED <<ctxDone, callerDone, first, results, caller, started, committed, together>>

\* Slip: taking a slot is enough.
NoSecondLook(u) ==
    /\ At(u, "slot")
    /\ Goto(u, "cleared")
    /\ UNCHANGED <<ctxDone, callerDone, first, results, caller, started, committed, together>>

\* The context is looked at again once a slot is held.
SecondLook(u) ==
    /\ At(u, "slot")
    /\ Goto(u, IF ctxDone THEN "releasing" ELSE "cleared")
    /\ UNCHANGED <<ctxDone, callerDone, first, results, caller, started, committed, together>>

\* run is called; nothing keeps the context from being cancelled before that.
CallRun(u) ==
    /\ At(u, "cleared")
    /\ Goto(u, "running")
    /\ started' = started \cup {u}
    /\ UNCHANGED <<ctxDone, callerDone, first, results, caller, committed, together>>

\* run returns: a result, an error of its own, or the context's once it is done.
\* A unit may have to meet others before it can return of its own accord.
Met == Cardinality(started) >= together
Succeed(u) ==
    /\ At(u, "running") /\ Met
    /\ Goto(u, "releasing")
    /\ results' = results \cup {u}
    /\ UNCHANGED <<ctxDone, callerDone, first, caller, started, committed, together>>
Break(u) ==
    /\ At(u, "running") /\ Met
    /\ Goto(u, "failing")
    /\ UNCHANGED <<ctxDone, callerDone, first, results, caller, started, committed, together>>
Yield(u) ==
    /\ At(u, "running") /\ ctxDone
    /\ Goto(u, "yielding")
    /\ UNCHANGED <<ctxDone, callerDone, first, results, caller, started, committed, together>>

Error(u) == [unit |-> u, own |-> At(u, "failing")]
Cancel ==
    /\ ctxDone' = TRUE
    /\ committed' = IF ctxDone THEN committed ELSE {u \in Units : At(u, "cleared")}

\* Slips: every error is kept; the last one is; the error shadows first.
RecordEvery(u) ==
    /\ pc[u] \in {"failing", "yielding"}
    /\ first' = first \cup {Error(u)} /\ Cancel
    /\ Goto(u, "releasing")
    /\ UNCHANGED <<callerDone, results, caller, started, together>>
RecordLast(u) ==
    /\ pc[u] \in {"failing", "yielding"}
    /\ first' = {Error(u)} /\ Cancel
    /\ Goto(u, "releasing")
    /\ UNCHANGED <<callerDone, results, caller, started, together>>
RecordNothing(u) ==
    /\ pc[u] \in {"failing", "yielding"}
    /\ Cancel
    /\ Goto(u, "releasing")
    /\ UNCHANGED <<first, callerDone, results, caller, started, together>>

\* Under the lock: the first error is recorded and the context cancelled.
Record(u) ==
    /\ pc[u] \in {"failing", "yielding"}
    /\ IF first = {}
       THEN first' = {Error(u)} /\ Cancel
       ELSE UNCHANGED <<first, ctxDone, committed>>
    /\ Goto(u, "releasing")
    /\ UNCHANGED <<callerDone, results, caller, started, together>>

\* The deferred release, after which the goroutine ends.
Release(u) ==
    /\ At(u, "releasing")
    /\ Goto(u, "done")
    /\ UNCHANGED <<ctxDone, callerDone, first, results, caller, started, committed, together>>

\* Slip: the first error is returned as soon as there is one.
ReturnAtOnce ==
    /\ caller = "waiting" /\ (first # {} \/ \A u \in Units : At(u, "done"))
    /\ caller' = "returned"
    /\ UNCHANGED <<pc, ctxDone, callerDone, first, results, started, committed, together>>

\* wg.Wait: Run returns first, and RunSlices out unless first is an error.
Return ==
    /\ caller = "waiting" /\ \A u \in Units : At(u, "done")
    /\ caller' = "returned"
    /\ UNCHANGED <<pc, ctxDone, callerDone, first, results, started, committed, together>>

\* The one who called cancels the context it gave.
CallerCancels ==
    /\ caller = "waiting" /\ ~callerDone
    /\ callerDone' = TRUE /\ Cancel
    /\ UNCHANGED <<pc, first, results, caller, started, together>>

UnitStep(u) ==
    \/ TakeSlot(u) \/ SeeDone(u) \/ SecondLook(u) \/ CallRun(u)
    \/ Succeed(u) \/ Break(u) \/ Yield(u)
    \/ Record(u) \/ Release(u)

Next == (\E u \in Units : UnitStep(u)) \/ Return \/ CallerCancels

\* Goroutines that can run do, and a unit that has met those it waits for
\* returns: the one thing Run asks of run.  Nobody has to cancel.
Fairness == (\A u \in Units : WF_vars(UnitStep(u))) /\ WF_vars(Return)

Spec == Init /\ [][Next]_vars /\ Fairness

----------------------------------------------------------------------------
(* Properties. *)

\* Goroutines are at a line of Run, and at most one error is recorded.
TypeOK ==
    /\ pc \in [Units -> Lines]
    /\ ctxDone \in BOOLEAN /\ callerDone \in BOOLEAN
    /\ first \subseteq [unit : Units, own : BOOLEAN] /\ Cardinality(first) <= 1
    /\ results \subseteq Units /\ started \subseteq Units /\ committed \subseteq Units
    /\ caller \in {"waiting", "returned"}
    /\ together \in Togethers

\* "at most workers of them at a time", whatever fails or is cancelled.
InFlight == {u \in Units : pc[u] \in {"running", "failing", "yielding"}}
BoundIsACeiling == Cardinality(InFlight) <= Bound

\* checkFailureStopsTheRest: once a unit has failed, or the caller cancelled, the
\* only units that start are those that had looked at the context for the second
\* time already, and were at most a pool: a slot that a failing unit gives back
\* lets no other unit in.
NothingStartsAfterFailure ==
    [][ctxDone => started' \ started \subseteq committed]_vars

\* checkMiddleFailureIsReported: the error is "the failing unit's own", never
\* what another unit made of the cancellation, unless the caller cancelled.
FirstFailureIsACause == \A e \in first : e.own \/ callerDone

\* "Run does not return until every call it started has returned": nothing
\* writes to the caller's slice behind its back.
NothingRunsAfterReturn == caller = "returned" => InFlight = {} /\ \A u \in Units : ~At(u, "cleared")

\* A fan-out that reports no error did all of its work, if nobody cancelled it.
NilIsWhole == caller = "returned" /\ first = {} /\ ~callerDone => results = Units

\* Run returns, in the end, whichever units fail and whoever cancels; with units
\* that wait for a full pool it does because the bound is a floor as well.
ReturnsAtLast == <>(caller = "returned")

\* RunSlices: "no result is returned at all when one unit fails -- a partial
\* fan-out is not a partial answer, it is an answer with a hole in it"
\* (partition.go:88), and no error means out is returned.
NoAnswerHasAHole == caller = "returned" /\ first = {} => results = Units
=============================================================================
