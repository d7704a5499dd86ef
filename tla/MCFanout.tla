------------------------------ MODULE MCFanout ------------------------------
(* Four units in a pool of two, which return on their own or only once both  *)
(* slots were taken.                                                         *)
EXTENDS RunSlices

CONSTANTS u1, u2, u3, u4
MCUnits     == {u1, u2, u3, u4}
MCTogethers == {1, 2}
=============================================================================
