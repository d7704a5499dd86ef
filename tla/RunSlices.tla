----------------------------- MODULE RunSlices -----------------------------
(***************************************************************************)
(* fanout.RunSlices: Partition cuts the items into as many units as the    *)
(* bound allows, and Run is given those.  A slice is [start, end), as in   *)
(* the code.                                                               *)
(***************************************************************************)
EXTENDS Fanout, Sequences

CONSTANTS
    MaxItems        \* bound: the counts and bounds the slices are checked at

ASSUME RunSlicesAssumption == MaxItems \in Nat

\* A bound below one is one, and one beyond the items is their count.
Slices(count, workers) == IF workers < 1 THEN 1 ELSE IF workers > count THEN count ELSE workers

\* Slip: what the division leaves over goes to nobody.
SizeEven(count, workers, i) == count \div Slices(count, workers)

\* The bigger slices come first.
Size(count, workers, i) ==
    LET n == Slices(count, workers) IN
    count \div n + (IF i <= count % n THEN 1 ELSE 0)

Partition(count, workers) ==
    LET start[i \in 1 .. Slices(count, workers)] ==
            IF i = 1 THEN 0 ELSE start[i - 1] + Size(count, workers, i - 1) IN
    IF count <= 0 THEN <<>>
    ELSE [i \in 1 .. Slices(count, workers) |-> [start |-> start[i], end |-> start[i] + Size(count, workers, i)]]
----------------------------------------------------------------------------
\* "items[slices[i].Start:slices[i].End]": when every unit has returned its
\* result, every item is in one of them and they are in the order of the items,
\* at any count and any bound, those of zero, of fewer items than the bound and of
\* a remainder included; no unit was given nothing to do, and there are no more
\* of them than the bound.
Covers(slices, count) ==
    /\ \A i \in DOMAIN slices :
        /\ slices[i].start = IF i = 1 THEN 0 ELSE slices[i - 1].end
        /\ slices[i].start < slices[i].end
    /\ count = IF slices = <<>> THEN 0 ELSE slices[Len(slices)].end
AnswerCoversTheItems ==
    caller = "returned" /\ results = Units =>
        \A count \in 0 .. MaxItems, workers \in -1 .. MaxItems + 1 :
            /\ Covers(Partition(count, workers), count)
            /\ Len(Partition(count, workers)) <= IF workers < 1 THEN 1 ELSE workers
=============================================================================
