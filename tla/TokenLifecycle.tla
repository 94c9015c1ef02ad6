--------------------------- MODULE TokenLifecycle ---------------------------
(***************************************************************************)
(* What the pipeline promises of a token: it becomes known, its URI is     *)
(* found, its metadata is read; no stage is left out and none is undone.   *)
(***************************************************************************)
CONSTANT Tokens

VARIABLE stage

LifecycleInit == stage = [t \in Tokens |-> "unknown"]

Step(t, from, to) ==
    /\ stage[t] = from
    /\ stage' = [stage EXCEPT ![t] = to]

Index(t) == Step(t, "unknown", "indexed")
Locate(t) == Step(t, "indexed", "located")
Read(t) == Step(t, "located", "read")

LifecycleNext == \E t \in Tokens : Index(t) \/ Locate(t) \/ Read(t)

LifecycleSpec == LifecycleInit /\ [][LifecycleNext]_stage
=============================================================================
