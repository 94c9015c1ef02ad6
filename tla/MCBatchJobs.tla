---------------------------- MODULE MCBatchJobs ----------------------------
(* A span of four blocks with a block beyond it; four mints of two         *)
(* contracts in a span whose ranges overlap; four rows, two to a page.     *)
EXTENDS BatchJobs

MCBlockOf == [m \in Mints |-> CASE m = 1 -> 1 [] m \in {2, 3} -> 2 [] m = 4 -> 4]
MCPreContract == [m \in Mints |-> IF m <= 2 THEN "punks" ELSE "kitties"]
=============================================================================
