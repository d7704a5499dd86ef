------------------------------ MODULE RefStore ------------------------------
(***************************************************************************)
(* The git-ref memoization store of daggerverse/workspace-ci, written by   *)
(* recordPass (memo.go) through refstore.Record and read by storedPasses   *)
(* through refstore.Hashes.                                                *)
(*                                                                         *)
(* An entry is a ref named after the scope it was recorded in, the input   *)
(* hash that passed and the second it was recorded.  Record lists the      *)
(* entries of its hash and then creates one: two requests, between which   *)
(* another run may create its own.  Nothing ever deletes an entry.         *)
(*                                                                         *)
(* Each run passes one leg and records it, with the memoRefs its workflow  *)
(* gave it; one plan reads the scopes it was given, one after another.     *)
(***************************************************************************)
EXTENDS Integers, FiniteSets

CONSTANTS
    Runs,           \* the runs that record a pass
    Refs,           \* the git refs a run may be on
    Hashes,         \* the input hashes
    NoHash,         \* the empty hash of a leg that may never be memoized
    Extending,      \* [Refs -> SUBSET Refs]: the refs whose encoded name extends a ref's
    Configs,        \* the memoRefs a workflow may be configured with
    TTL,            \* memoTTL
    MaxListing,     \* maxPages * pageSize: the longest listing that is read
    MaxTime         \* bound: the last instant of a behaviour

ASSUME StoreAssumption ==
    /\ NoHash \notin Hashes
    /\ Extending \in [Refs -> SUBSET Refs]
    /\ Configs \subseteq SUBSET Refs
    /\ TTL \in Nat /\ MaxListing \in Nat /\ MaxTime \in Nat

VARIABLES
    now,            \* the clock, in seconds
    refs,           \* the entries; created is when, which nothing reads
    passes,         \* history: every check that passed
    rec,            \* [Runs -> the recordPass call of the run]
    plan            \* the plan's read of the store

vars == <<now, refs, passes, rec, plan>>

Outcomes == {"RECORDED", "ALREADY_RECORDED", "REFUSED", "SKIPPED", "FAILED"}

Time   == 0 .. MaxTime
Entry  == [ref : Refs, hash : Hashes, at : Time, created : Time]
Pass   == [ref : Refs, hash : Hashes \cup {NoHash}, at : Time]
Record == [pc : {"idle", "passed", "listing", "posting", "done"}, outcome : Outcomes \cup {"none"},
           ref : Refs, hash : Hashes \cup {NoHash}, memoRefs : SUBSET Refs, at : Time, end : Time]
Plan   == [pc : {"idle", "reading", "done"}, memoRefs : SUBSET Refs, unread : SUBSET Refs,
           failed : SUBSET Refs, known : SUBSET Hashes, at : Time]

Init ==
    /\ now = 0
    /\ refs = {}
    /\ passes = {}
    /\ rec \in [Runs -> {r \in Record : r.pc = "idle" /\ r.outcome = "none" /\ r.at = 0 /\ r.end = 0
                                        /\ r.memoRefs \in Configs}]
    /\ plan \in {p \in Plan : p.pc = "idle" /\ p.memoRefs \in Configs /\ p.unread = {}
                              /\ p.failed = {} /\ p.known = {} /\ p.at = 0}

Tick ==
    /\ now < MaxTime
    /\ now' = now + 1
    /\ UNCHANGED <<refs, passes, rec, plan>>

----------------------------------------------------------------------------
(* Recording a pass. *)

\* A check passes: only a green leg calls record-pass.
PassCheck(r) ==
    /\ rec[r].pc = "idle"
    /\ rec' = [rec EXCEPT ![r] = [rec[r] EXCEPT !.pc = "passed"]]
    /\ passes' = passes \cup {[ref |-> rec[r].ref, hash |-> rec[r].hash, at |-> now]}
    /\ UNCHANGED <<now, refs, plan>>

Return(r, outcome) == rec' = [rec EXCEPT ![r] = [rec[r] EXCEPT !.pc = "done", !.outcome = outcome, !.end = now]]

\* Slips: the empty hash is recorded like any other; any ref is recorded from.
CallWithEmptyHash(r) ==
    /\ rec[r].pc = "passed"
    /\ rec[r].ref \in rec[r].memoRefs
    /\ rec' = [rec EXCEPT ![r] = [rec[r] EXCEPT !.pc = "listing", !.at = now]]
    /\ UNCHANGED <<now, refs, passes, plan>>
CallFromAnyRef(r) ==
    /\ rec[r].pc = "passed"
    /\ rec[r].hash # NoHash
    /\ rec' = [rec EXCEPT ![r] = [rec[r] EXCEPT !.pc = "listing", !.at = now]]
    /\ UNCHANGED <<now, refs, passes, plan>>

\* recordPass: an empty hash is skipped, a ref outside memoRefs refused; the
\* stamp of the entry is read before the store is.
Call(r) ==
    /\ rec[r].pc = "passed"
    /\ \/ rec[r].hash = NoHash /\ Return(r, "SKIPPED")
       \/ rec[r].hash # NoHash /\ rec[r].ref \notin rec[r].memoRefs /\ Return(r, "REFUSED")
       \/ /\ rec[r].hash # NoHash /\ rec[r].ref \in rec[r].memoRefs
          /\ rec' = [rec EXCEPT ![r] = [rec[r] EXCEPT !.pc = "listing", !.at = now]]
    /\ UNCHANGED <<now, refs, passes, plan>>

\* matching: a listing is by plain prefix, so it holds the entries of every ref
\* whose encoded name extends the one asked for.
Listing(ref) == {e \in refs : e.ref = ref \/ e.ref \in Extending[ref]}

\* The entries of a hash in a scope, of whatever age.
EntriesOf(ref, hash) == {e \in refs : e.ref = ref /\ e.hash = hash}

\* Slip: the entry is created whether or not there is one.
ListNothing(r) ==
    /\ rec[r].pc = "listing"
    /\ rec' = [rec EXCEPT ![r] = [rec[r] EXCEPT !.pc = "posting"]]
    /\ UNCHANGED <<now, refs, passes, plan>>

\* Record, the listing: an entry of this hash in this scope is left as it is.
\* The request fails, or the listing is longer than is read.
List(r) ==
    /\ rec[r].pc = "listing"
    /\ LET existing == EntriesOf(rec[r].ref, rec[r].hash)
       IN  \/ existing # {} /\ Cardinality(existing) <= MaxListing /\ Return(r, "ALREADY_RECORDED")
           \/ existing = {} /\ rec' = [rec EXCEPT ![r] = [rec[r] EXCEPT !.pc = "posting"]]
           \/ Return(r, "FAILED")
    /\ UNCHANGED <<now, refs, passes, plan>>

\* Record, the POST: the entry is created, or a run that recorded the same hash
\* in the same second created it.
Named(r) == {e \in EntriesOf(rec[r].ref, rec[r].hash) : e.at = rec[r].at}
Created(r) == [ref |-> rec[r].ref, hash |-> rec[r].hash, at |-> rec[r].at, created |-> now]
Post(r) ==
    /\ rec[r].pc = "posting"
    /\ IF Named(r) = {}
       THEN refs' = refs \cup {Created(r)} /\ Return(r, "RECORDED")
       ELSE refs' = refs /\ Return(r, "ALREADY_RECORDED")
    /\ UNCHANGED <<now, passes, plan>>

\* Slip: an error of the POST is taken for the answer of a concurrent run.
PostFailsAsConflict(r) ==
    /\ rec[r].pc = "posting"
    /\ Return(r, "ALREADY_RECORDED")
    /\ UNCHANGED <<now, refs, passes, plan>>

\* The POST fails: the request never arrived, or its answer never did.
PostFails(r) ==
    /\ rec[r].pc = "posting"
    /\ refs' \in {refs, IF Named(r) = {} THEN refs \cup {Created(r)} ELSE refs}
    /\ Return(r, "FAILED")
    /\ UNCHANGED <<now, passes, plan>>

----------------------------------------------------------------------------
(* Reading the store. *)

\* storedPasses: the cutoff is computed once, before any scope is read.
StartPlan ==
    /\ plan.pc = "idle"
    /\ plan' = [plan EXCEPT !.pc = "reading", !.unread = plan.memoRefs, !.at = now]
    /\ UNCHANGED <<now, refs, passes, rec>>

\* Slips: the listing is not filtered again; the cutoff itself is too old.
HonouredOfListing(ref) == {e.hash : e \in {f \in Listing(ref) : f.at >= plan.at - TTL}}
HonouredAfterCutoff(ref) ==
    {e.hash : e \in {f \in refs : f.ref = ref /\ f.at > plan.at - TTL}}

\* Hashes: the hashes of this scope recorded since the cutoff.  A listing that
\* runs past the last page is an error.
Honoured(ref) == {e.hash : e \in {f \in refs : f.ref = ref /\ f.at >= plan.at - TTL}}
ReadScope(ref) ==
    /\ plan.pc = "reading" /\ ref \in plan.unread
    /\ Cardinality(Listing(ref)) <= MaxListing
    /\ plan' = [plan EXCEPT !.unread = @ \ {ref}, !.known = @ \cup Honoured(ref)]
    /\ UNCHANGED <<now, refs, passes, rec>>

\* A scope that cannot be read, or is too long to read, contributes nothing.
ReadFails(ref) ==
    /\ plan.pc = "reading" /\ ref \in plan.unread
    /\ plan' = [plan EXCEPT !.unread = @ \ {ref}, !.failed = @ \cup {ref}]
    /\ UNCHANGED <<now, refs, passes, rec>>

FinishPlan ==
    /\ plan.pc = "reading" /\ plan.unread = {}
    /\ plan' = [plan EXCEPT !.pc = "done"]
    /\ UNCHANGED <<now, refs, passes, rec>>

Recording(r) == PassCheck(r) \/ Call(r) \/ List(r) \/ Post(r) \/ PostFails(r)
Reading == StartPlan \/ (\E ref \in Refs : ReadScope(ref) \/ ReadFails(ref)) \/ FinishPlan

Next == Tick \/ (\E r \in Runs : Recording(r)) \/ Reading

Spec == Init /\ [][Next]_vars

----------------------------------------------------------------------------
(* Properties. *)

\* Entries, calls and the plan hold refs, hashes and instants.
TypeOK ==
    /\ now \in Time
    /\ refs \subseteq Entry
    /\ passes \subseteq Pass
    /\ rec \in [Runs -> Record]
    /\ plan \in Plan

\* An entry names a check that passed in the scope the entry is in, by a run
\* allowed to write that scope, no later than the stamp it carries: a pass is
\* never recorded twice into another scope, nor before it is earned.
EntriesAreEarned ==
    \A e \in refs :
        /\ \E p \in passes : p.ref = e.ref /\ p.hash = e.hash /\ p.at <= e.at
        /\ \E r \in Runs : rec[r].ref = e.ref /\ e.ref \in rec[r].memoRefs

\* Every hash a plan honours comes from a scope it was told to trust and was
\* recorded within the TTL of the moment the plan began, whatever is recorded
\* while it reads scope after scope.
HonouredIsTrustedAndFresh ==
    \A h \in plan.known : \E e \in refs :
        /\ e.hash = h
        /\ e.ref \in plan.memoRefs
        /\ e.at >= plan.at - TTL

\* refstore.Record: "refreshing its timestamp would extend a TTL".  Of two
\* entries of one hash in one scope, neither is stamped later than the moment
\* the other was created: listing and creating are two requests, and all that
\* two runs can gain by racing is the time their requests overlap.
NeverRefreshed ==
    \A e, f \in refs : e.ref = f.ref /\ e.hash = f.hash => f.at <= e.created

\* recordPass tells the truth: RECORDED and ALREADY_RECORDED mean an entry for
\* the hash is there, SKIPPED that there was no hash, and REFUSED that the
\* scope was not the run's to write.
OutcomeIsTrue ==
    \A r \in Runs :
        /\ rec[r].outcome \in {"RECORDED", "ALREADY_RECORDED"} =>
               EntriesOf(rec[r].ref, rec[r].hash) # {}
        /\ rec[r].outcome = "REFUSED" => rec[r].ref \notin rec[r].memoRefs
        /\ rec[r].outcome = "SKIPPED" => rec[r].hash = NoHash

\* A plan that begins after a call returned, within the TTL of the call, and
\* reads its scope.
ReadsBack(r) ==
    /\ plan.pc = "done" /\ plan.at >= rec[r].end /\ plan.at - TTL <= rec[r].at
    /\ rec[r].ref \in plan.memoRefs \ plan.failed
    /\ rec[r].pc = "done"

\* A pass reported RECORDED is one the next plan can skip, until its TTL ends.
RecordedIsReadBack ==
    \A r \in Runs : rec[r].outcome = "RECORDED" /\ ReadsBack(r) /\ plan.at > rec[r].end
                        => rec[r].hash \in plan.known

\* RecordPass: "records that the leg whose inputs hashed to hash passed, so a
\* later run that computes the same hash can skip it" (main.go:355), whichever
\* of the two words for an entry that names the hash it answers.
PassIsReusable ==
    \A r \in Runs : rec[r].outcome \in {"RECORDED", "ALREADY_RECORDED"} /\ ReadsBack(r)
                        /\ plan.at > rec[r].end
                        => rec[r].hash \in plan.known
=============================================================================
