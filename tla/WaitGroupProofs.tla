--------------------------- MODULE WaitGroupProofs ---------------------------
(* Proofs about WaitGroup: its type invariant, the limit as long as calls  *)
(* do not overlap, and what wait() promises to any number of callers.      *)
EXTENDS WaitGroup, FiniteSetTheorems, TLAPS

(* Every variable keeps its type, for any callers and any limit.           *)
THEOREM TypeCorrect == Spec => []TypeOK
<1>1. Init => TypeOK
  <2> SUFFICES ASSUME Init PROVE TypeOK
    OBVIOUS
  <2>1. overlapped \in BOOLEAN
    BY ZenonT(30) DEF Init
  <2> QED BY <2>1 DEF Init, TypeOK, TaskIds
<1>2. TypeOK /\ [Next]_vars => TypeOK'
  <2> SUFFICES ASSUME TypeOK, [Next]_vars PROVE TypeOK'
    OBVIOUS
  <2> USE DEF TypeOK, TaskIds
  <2>1. ASSUME NEW c \in Callers, Begin(c), overlapped' \in BOOLEAN PROVE TypeOK'
    <3>1. 1..started \subseteq 1..(started + 1) /\ started + 1 \in 1..(started + 1)
      OBVIOUS
    <3> QED BY <2>1, <3>1 DEF Begin
  <2>2. ASSUME NEW c \in Callers, Suspend(c, "race") \/ Suspend(c, "wait"),
               overlapped' \in BOOLEAN
        PROVE  TypeOK'
    BY <2>2 DEF Suspend
  <2>3. ASSUME NEW c \in Callers, WaitDone(c) PROVE TypeOK'
    BY <2>3 DEF WaitDone
  <2>4. ASSUME NEW t \in tasks, Settle(t) PROVE TypeOK'
    BY <2>4 DEF Settle
  <2>5. CASE UNCHANGED vars
    BY <2>5 DEF vars
  <2>6. ASSUME NEW c \in Callers, Calls(c) PROVE overlapped' \in BOOLEAN
    BY <2>6, Zenon DEF Calls
  <2>7. ASSUME NEW c \in Callers, GoStart(c) PROVE TypeOK'
    BY <2>1, <2>6, <2>7 DEF GoStart
  <2>8. ASSUME NEW c \in Callers, GoWait(c) PROVE TypeOK'
    BY <2>2, <2>6, <2>8 DEF GoWait
  <2>9. ASSUME NEW c \in Callers, Resume(c) \/ Wait(c) PROVE TypeOK'
    <3>1. overlapped' \in BOOLEAN
      BY <2>9 DEF Resume, Wait
    <3> QED BY <2>1, <2>2, <2>9, <3>1 DEF Resume, Wait
  <2> QED BY <2>3, <2>4, <2>5, <2>7, <2>8, <2>9 DEF Next
<1> QED BY <1>1, <1>2, PTL DEF Spec

-----------------------------------------------------------------------------
(* The limit.  As long as calls of go() do not overlap, one caller at most *)
(* is suspended in it, and tasks only settle meanwhile: when one of those  *)
(* it saw is gone, there is room for its own.                              *)

LimitInv ==
    /\ IsFiniteSet(tasks)
    /\ ~overlapped =>
         /\ Cardinality(tasks) <= Limit
         /\ \A c \in Callers : at[c] = "race" =>
               /\ IsFiniteSet(snap[c]) /\ Cardinality(snap[c]) = Limit
               /\ tasks \subseteq snap[c]
               /\ \A d \in Callers : at[d] = "race" => d = c

(* A group never runs more tasks than its limit, for any callers and any   *)
(* limit, unless a go() was called while another waited.                   *)
THEOREM LimitKept == Spec => []Throttled
<1>1. Init => LimitInv
  <2> SUFFICES ASSUME Init PROVE LimitInv
    OBVIOUS
  <2>1. IsFiniteSet({}) /\ Cardinality({}) = 0
    BY FS_EmptySet
  <2> QED BY <2>1, ConstantsAssumption DEF Init, LimitInv
<1>2. TypeOK /\ LimitInv /\ [Next]_vars => LimitInv'
  <2> SUFFICES ASSUME TypeOK, LimitInv, [Next]_vars PROVE LimitInv'
    OBVIOUS
  <2>n. Limit \in Nat /\ Cardinality(tasks) \in Nat
    BY ConstantsAssumption, FS_CardinalityType DEF LimitInv
  <2>1. ASSUME NEW c \in Callers, Begin(c),
               ~overlapped' => Cardinality(tasks) < Limit,
               ~overlapped' => \A d \in Callers \ {c} : at[d] # "race"
        PROVE  LimitInv'
    <3>1. IsFiniteSet(tasks') /\ Cardinality(tasks') <= Cardinality(tasks) + 1
      <4>1. tasks' = tasks \cup {started + 1}
        BY <2>1 DEF Begin
      <4>2. IsFiniteSet(tasks)
        BY DEF LimitInv
      <4> DEFINE more == tasks \cup {started + 1}
      <4>3. /\ IsFiniteSet(more)
            /\ \/ Cardinality(more) = Cardinality(tasks)
               \/ Cardinality(more) = Cardinality(tasks) + 1
        BY <4>2, FS_AddElement
      <4>4. Cardinality(more) <= Cardinality(tasks) + 1
        BY <4>3, <2>n
      <4> QED BY <4>1, <4>3, <4>4
    <3>2. ~overlapped' => \A d \in Callers : at'[d] # "race"
      BY <2>1 DEF Begin, TypeOK
    <3>3. Cardinality(tasks') \in Nat
      BY <3>1, FS_CardinalityType
    <3>4. ~overlapped' => Cardinality(tasks') <= Limit
      BY <2>1, <2>n, <3>1, <3>3
    <3> QED BY <3>1, <3>2, <3>4 DEF LimitInv
  <2>2. ASSUME NEW c \in Callers, GoStart(c) PROVE LimitInv'
    <3>1. ~overlapped' => ~overlapped /\ \A d \in Callers \ {c} : at[d] # "race"
      BY <2>2 DEF GoStart, Calls
    <3>2. ~overlapped' => Cardinality(tasks) < Limit
      BY <2>2, <2>n, <3>1 DEF GoStart, Full, LimitInv
    <3> QED BY <2>1, <2>2, <3>1, <3>2 DEF GoStart
  <2>3. ASSUME NEW c \in Callers, Resume(c) PROVE LimitInv'
    <3>1. CASE overlapped
      BY <2>1, <2>3, <3>1 DEF Resume
    <3>2. CASE ~overlapped
      <4>1. /\ tasks \subseteq snap[c] /\ tasks # snap[c]
            /\ IsFiniteSet(snap[c]) /\ Cardinality(snap[c]) = Limit
        BY <2>3, <3>2 DEF Resume, LimitInv
      <4>2. Cardinality(tasks) <= Limit /\ Cardinality(tasks) # Limit
        BY <4>1, FS_Subset
      <4>3. Cardinality(tasks) < Limit
        BY <4>2, <2>n
      <4>4. \A d \in Callers \ {c} : at[d] # "race"
        BY <2>3, <3>2 DEF Resume, LimitInv
      <4> QED BY <2>1, <2>3, <4>3, <4>4 DEF Resume
    <3> QED BY <3>1, <3>2
  <2>4. ASSUME NEW c \in Callers, GoWait(c) PROVE LimitInv'
    <3>1. ~overlapped' => ~overlapped /\ \A d \in Callers \ {c} : at[d] # "race"
      BY <2>4 DEF GoWait, Calls
    <3>2. /\ tasks' = tasks /\ Cardinality(tasks) = Limit
          /\ \A d \in Callers \ {c} : at'[d] = at[d] /\ snap'[d] = snap[d]
          /\ snap'[c] = tasks
      BY <2>4 DEF GoWait, Suspend, Full, TypeOK
    <3> QED BY <2>n, <3>1, <3>2 DEF LimitInv
  <2>5. ASSUME NEW c \in Callers, Wait(c) PROVE LimitInv'
    BY <2>5 DEF Wait, Suspend, LimitInv, TypeOK
  <2>6. ASSUME NEW c \in Callers, WaitDone(c) PROVE LimitInv'
    BY <2>6 DEF WaitDone, LimitInv, TypeOK
  <2>7. ASSUME NEW t \in tasks, Settle(t) PROVE LimitInv'
    <3>1. IsFiniteSet(tasks') /\ Cardinality(tasks') <= Cardinality(tasks)
      BY <2>7, <2>n, FS_Subset, FS_CardinalityType DEF Settle, LimitInv
    <3>2. Cardinality(tasks') \in Nat
      BY <3>1, FS_CardinalityType
    <3> QED BY <2>7, <2>n, <3>1, <3>2 DEF Settle, LimitInv
  <2>8. CASE UNCHANGED vars
    BY <2>8 DEF vars, LimitInv
  <2> QED BY <2>2, <2>3, <2>4, <2>5, <2>6, <2>7, <2>8 DEF Next
<1>3. LimitInv => Throttled
  BY DEF LimitInv, Throttled
<1> QED BY <1>1, <1>2, <1>3, TypeCorrect, PTL DEF Spec

-----------------------------------------------------------------------------
(* wait().  What the caller has started and is still running is among the  *)
(* promises it awaits; later tasks have higher numbers.                    *)

WaitInv == \A c \in Callers : at[c] = "wait" => mine[c] \cap tasks \subseteq snap[c]

(* wait() returns only after everything its caller started has settled,    *)
(* however many callers share the group.                                   *)
THEOREM WaitIsComplete == Spec => WaitCoversOwnTasks
<1>1. Init => WaitInv
  BY DEF Init, WaitInv
<1>2. TypeOK /\ WaitInv /\ [Next]_vars => WaitInv'
  <2> SUFFICES ASSUME TypeOK, WaitInv, [Next]_vars PROVE WaitInv'
    OBVIOUS
  <2> USE DEF WaitInv, TypeOK, TaskIds
  <2>1. ASSUME NEW c \in Callers, Begin(c) PROVE WaitInv'
    <3> SUFFICES ASSUME NEW d \in Callers, at'[d] = "wait"
                 PROVE  mine'[d] \cap tasks' \subseteq snap'[d]
      OBVIOUS
    <3>1. d # c /\ at[d] = "wait" /\ mine'[d] = mine[d] /\ snap'[d] = snap[d]
      BY <2>1 DEF Begin
    <3>2. started + 1 \notin mine[d]
      BY <3>1
    <3> QED BY <2>1, <3>1, <3>2 DEF Begin
  <2>2. ASSUME NEW c \in Callers, GoWait(c) \/ Wait(c) PROVE WaitInv'
    BY <2>2 DEF GoWait, Wait, Suspend
  <2>3. ASSUME NEW c \in Callers, WaitDone(c) PROVE WaitInv'
    BY <2>3 DEF WaitDone
  <2>4. ASSUME NEW t \in tasks, Settle(t) PROVE WaitInv'
    BY <2>4 DEF Settle
  <2>5. CASE UNCHANGED vars
    BY <2>5 DEF vars
  <2> QED BY <2>1, <2>2, <2>3, <2>4, <2>5 DEF Next, GoStart, Resume
<1>3. TypeOK /\ WaitInv /\ [Next]_vars =>
        [\A c \in Callers : at[c] = "wait" /\ at'[c] = "idle" => mine[c] \cap tasks = {}]_vars
  <2> SUFFICES ASSUME TypeOK, WaitInv, Next, NEW c \in Callers,
                      at[c] = "wait", at'[c] = "idle"
               PROVE  mine[c] \cap tasks = {}
    OBVIOUS
  <2>1. WaitDone(c)
    BY DEF Next, GoStart, GoWait, Resume, Wait, WaitDone, Begin, Suspend, Settle, TypeOK
  <2> QED BY <2>1 DEF WaitDone, WaitInv
<1> QED BY <1>1, <1>2, <1>3, TypeCorrect, PTL DEF Spec, WaitCoversOwnTasks
=============================================================================
