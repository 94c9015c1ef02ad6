----------------------------- MODULE BatchJobs -----------------------------
(***************************************************************************)
(* The programs that an operator runs by hand, one at a time: the lazy     *)
(* mint indexer, the import of the contracts older than the standards and  *)
(* the commands that scan a collection.                                    *)
(***************************************************************************)
EXTENDS LazyMint, PreContracts, Scans

VARIABLE job        \* the program the operator runs

vars == <<job, lazyVars, preVars, scanVars>>

Jobs == {"lazyMint", "preContracts", "scan"}

TypeOK == job \in Jobs /\ LazyTypeOK /\ PreTypeOK /\ ScanTypeOK

Init == job \in Jobs /\ LazyInit /\ PreInit /\ ScanInit

Lazy(A) == job = "lazyMint" /\ A /\ UNCHANGED <<job, preVars, scanVars>>
Import(A) == job = "preContracts" /\ A /\ UNCHANGED <<job, lazyVars, scanVars>>
Scan(A) == job = "scan" /\ A /\ UNCHANGED <<job, lazyVars, preVars>>

Next == Lazy(LazyNext) \/ Import(PreNext) \/ Scan(ScanNext)

(* A command that runs goes on, and one that has ended early is run again. *)
Fairness ==
    /\ WF_vars(Lazy(LazyStep \/ LazyAgain))
    /\ WF_vars(Import(PreStep))
    /\ WF_vars(Scan(ScanStep))

Spec == Init /\ [][Next]_vars /\ Fairness

-----------------------------------------------------------------------------
(* Every job that was started comes to an end: the ranges and the pages do *)
(* not go round in circles.  The lazy mint indexer may run out of runs.    *)
JobsEnd ==
    /\ lazyStage = "latest" ~> (lazyStage = "done" \/ runs = MaxRuns)
    /\ preStage = "range" ~> preStage = "done"
    /\ scanStage = "fetch" ~> scanStage \in {"done", "died"}
=============================================================================
