---------------------------- MODULE MCWorkflow ----------------------------
(* The default branch and a pull request, two commits that ask for runs    *)
(* again and again, and plans of up to two legs.                           *)
EXTENDS Workflow

CONSTANTS e1, e2, l1, l2
MCEvents == {e1, e2}
MCLegs   == {l1, l2}
===========================================================================
