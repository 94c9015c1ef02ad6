----------------------------- MODULE MCWaitGroup -----------------------------
(* Small instances of WaitGroup for TLC: two callers, as model values.     *)
EXTENDS WaitGroup

CONSTANTS c1, c2
=============================================================================
