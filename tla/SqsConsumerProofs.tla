-------------------------- MODULE SqsConsumerProofs --------------------------
(* Proofs about SqsConsumer: its types, the chain of polls and its end by  *)
(* stop(), and that nothing is deleted before it was handled, for any      *)
(* messages, batch sizes and numbers of workers.                           *)
EXTENDS SqsConsumer, FiniteSetTheorems, TLAPS

-----------------------------------------------------------------------------
(* TYPES.                                                                  *)

(* A slot takes up part of what it is given, or nothing.                   *)
LEMMA PutKeepsTypes ==
  ASSUME TypeOK, NEW s \in Slots, NEW step \in {"free", "receive", "handle", "delete"},
         NEW b \in SUBSET Messages, NEW rest \in SUBSET b, Cardinality(b) <= BatchSize,
         Put(s, step, b, rest)
  PROVE  /\ task' \in [Slots -> {"free", "receive", "handle", "delete"}]
         /\ batch' \in [Slots -> SUBSET Messages] /\ pending' \in [Slots -> SUBSET Messages]
         /\ \A r \in Slots : /\ pending'[r] \subseteq batch'[r]
                             /\ Cardinality(batch'[r]) <= BatchSize
<1>1. /\ task' = [task EXCEPT ![s] = step]
      /\ batch' = [batch EXCEPT ![s] = b]
      /\ pending' = [pending EXCEPT ![s] = rest]
  BY DEF Put
<1>2. ASSUME NEW r \in Slots
      PROVE  pending'[r] \subseteq batch'[r] /\ Cardinality(batch'[r]) <= BatchSize
  BY <1>1 DEF TypeOK
<1> QED BY <1>1, <1>2 DEF TypeOK

LEMMA FreeKeepsTypes ==
  ASSUME TypeOK, NEW s \in Slots, Free(s)
  PROVE  /\ task' \in [Slots -> {"free", "receive", "handle", "delete"}]
         /\ batch' \in [Slots -> SUBSET Messages] /\ pending' \in [Slots -> SUBSET Messages]
         /\ \A r \in Slots : /\ pending'[r] \subseteq batch'[r]
                             /\ Cardinality(batch'[r]) <= BatchSize
<1>1. Cardinality({}) <= BatchSize
  BY SqsAssumption, FS_EmptySet
<1> QED BY <1>1, PutKeepsTypes DEF Free

(* Every variable of the consumer keeps its type: a task never has more    *)
(* messages than a batch may have, and waits only for handlers of its own. *)
THEOREM TypeCorrect == Spec => []TypeOK
<1>1. Init => TypeOK
  <2>1. Cardinality({}) <= BatchSize
    BY SqsAssumption, FS_EmptySet
  <2> QED BY <2>1, SqsAssumption DEF Init, TypeOK
<1>2. TypeOK /\ [Next]_vars => TypeOK'
  <2> SUFFICES ASSUME TypeOK, [Next]_vars PROVE TypeOK'
    OBVIOUS
  <2> USE SqsAssumption
  <2>F. Fault => faults' \in 0..MaxFaults
    BY DEF Fault, TypeOK
  <2>1. CASE Poll
    BY <2>1 DEF Poll, TypeOK, slotVars, sqsVars
  <2>2. CASE StopPolling
    BY <2>2 DEF StopPolling, TypeOK, slotVars, sqsVars
  <2>3. ASSUME NEW s \in Slots, StartTask(s) PROVE TypeOK'
    <3>1. Cardinality({}) <= BatchSize
      BY FS_EmptySet
    <3>2. Put(s, "receive", {}, {})
      BY <2>3 DEF StartTask
    <3> QED BY <2>3, <3>1, <3>2, PutKeepsTypes DEF StartTask, SetTimer, TypeOK, sqsVars
  <2>4. ASSUME NEW s \in Slots, ReceiveBatch(s) PROVE TypeOK'
    <3> PICK b \in SUBSET visible :
          /\ Cardinality(b) <= BatchSize
          /\ IF b = {} THEN Free(s) ELSE Put(s, "handle", b, b)
          /\ visible' = visible \ b
          /\ held' = held \cup b
      BY <2>4 DEF ReceiveBatch
    <3>1. b \in SUBSET Messages
      BY DEF TypeOK
    <3>2. UNCHANGED <<running, timers, waiting, stray, handled, afterStop, faults>> /\ late' \in Nat
      BY <2>4 DEF ReceiveBatch, TypeOK
    <3>3. CASE b = {}
      BY <3>1, <3>2, <3>3, FreeKeepsTypes DEF TypeOK
    <3>4. CASE b # {}
      BY <3>1, <3>2, <3>4, PutKeepsTypes DEF TypeOK
    <3> QED BY <3>3, <3>4
  <2>5. ASSUME NEW s \in Slots, NEW m \in Messages, HandleMessage(s, m) PROVE TypeOK'
    <3> DEFINE rest == pending[s] \ {m}
               step == IF AllHandled(rest) THEN "delete" ELSE "handle"
    <3>1. /\ batch[s] \in SUBSET Messages /\ rest \in SUBSET batch[s]
          /\ Cardinality(batch[s]) <= BatchSize
          /\ step \in {"free", "receive", "handle", "delete"}
      BY DEF TypeOK
    <3>2. /\ Put(s, step, batch[s], rest) /\ handled' = handled \cup {m}
          /\ UNCHANGED <<running, timers, waiting, visible, held, stray, afterStop, late, faults>>
      BY <2>5 DEF HandleMessage, sqsVars
    <3> HIDE DEF rest, step
    <3> QED BY <3>1, <3>2, PutKeepsTypes DEF TypeOK
  <2>6. ASSUME NEW s \in Slots, ParseFails(s) PROVE TypeOK'
    <3>1. stray' \subseteq Messages
      BY <2>6 DEF ParseFails, TypeOK
    <3> QED BY <2>6, <3>1, FreeKeepsTypes DEF ParseFails, TypeOK, sqsVars
  <2>7. ASSUME NEW s \in Slots, DeleteBatch(s) PROVE TypeOK'
    BY <2>7, FreeKeepsTypes DEF DeleteBatch, TypeOK
  <2>8. ASSUME NEW s \in Slots, ReceiveFails(s) \/ DeleteFails(s) PROVE TypeOK'
    BY <2>8, <2>F, FreeKeepsTypes DEF ReceiveFails, DeleteFails, TypeOK, sqsVars
  <2>9. ASSUME NEW m \in Messages, StrayReturns(m) PROVE TypeOK'
    BY <2>9 DEF StrayReturns, TypeOK, slotVars, sqsVars
  <2>10. ASSUME NEW m \in Messages, VisibleAgain(m) PROVE TypeOK'
    BY <2>10, <2>F DEF VisibleAgain, TypeOK, slotVars
  <2>11. CASE UNCHANGED vars
    BY <2>11 DEF vars, TypeOK, slotVars, sqsVars
  <2> QED BY <2>1, <2>2, <2>3, <2>4, <2>5, <2>6, <2>7, <2>8, <2>9, <2>10, <2>11 DEF Next, Slot
<1> QED BY <1>1, <1>2, PTL DEF Spec

-----------------------------------------------------------------------------
(* POLLING.  Every call that waits in wg.go was made by a timer, and every *)
(* timer was set by a task that has left wg.go.  stop() clears the timer,  *)
(* if there is one; the call that waits in its place is the last one.  A   *)
(* batch that comes in uses up a request under way, and only that last     *)
(* call makes another.                                                     *)

Receiving == {s \in Slots : task[s] = "receive"}

PollInv ==
    /\ timers \in Nat /\ waiting \in Nat /\ afterStop \in Nat /\ late \in Nat
    /\ timers + waiting <= 1
    /\ running => afterStop = 0 /\ late = 0
    /\ ~running => /\ afterStop + waiting <= 1
                   /\ late + Cardinality(Receiving) + waiting <= Workers + 1

(* Requests under way: at most one in each slot, one more when a task      *)
(* starts, one fewer when a task has its answer.                           *)
LEMMA ReceivingCounts ==
  ASSUME TypeOK
  PROVE  /\ Cardinality(Receiving) \in 0..Workers
         /\ \A s \in Slots : StartTask(s) =>
              Cardinality(Receiving') <= Cardinality(Receiving) + 1
         /\ \A s \in Slots : ReceiveBatch(s) =>
              Cardinality(Receiving') = Cardinality(Receiving) - 1
<1> USE SqsAssumption
<1>1. IsFiniteSet(Slots) /\ Cardinality(Slots) = Workers
  BY FS_Interval DEF Slots
<1>2. Receiving \subseteq Slots
  BY DEF Receiving
<1>3. IsFiniteSet(Receiving) /\ Cardinality(Receiving) \in Nat /\ Cardinality(Receiving) <= Workers
  BY <1>1, <1>2, FS_Subset, FS_CardinalityType
<1>4. ASSUME NEW s \in Slots, StartTask(s)
      PROVE  Cardinality(Receiving') <= Cardinality(Receiving) + 1
  <2>1. task' = [task EXCEPT ![s] = "receive"]
    BY <1>4 DEF StartTask, Put
  <2>2. s \notin Receiving /\ Receiving' = Receiving \cup {s}
    BY <1>4, <2>1 DEF Receiving, StartTask, TypeOK
  <2>3. Cardinality(Receiving \cup {s}) = Cardinality(Receiving) + 1
    BY <1>3, <2>2, FS_AddElement
  <2> QED BY <1>3, <2>2, <2>3
<1>5. ASSUME NEW s \in Slots, ReceiveBatch(s)
      PROVE  Cardinality(Receiving') = Cardinality(Receiving) - 1
  <2>1. PICK step \in {"free", "handle"} : task' = [task EXCEPT ![s] = step]
    BY <1>5 DEF ReceiveBatch, Free, Put
  <2>2. s \in Receiving /\ Receiving' = Receiving \ {s}
    BY <1>5, <2>1 DEF Receiving, ReceiveBatch, TypeOK
  <2> QED BY <1>3, <2>2, FS_RemoveElement
<1> QED BY <1>3, <1>4, <1>5

(* What all other actions keep: no request begins but in StartTask.        *)
LEMMA OtherSteps ==
  ASSUME TypeOK, [Next]_vars, ~Poll, ~StopPolling,
         \A s \in Slots : ~StartTask(s) /\ ~ReceiveBatch(s)
  PROVE  /\ UNCHANGED <<running, timers, waiting, afterStop, late>>
         /\ Cardinality(Receiving') <= Cardinality(Receiving)
<1> USE SqsAssumption
<1> DEFINE Kept == UNCHANGED <<running, timers, waiting, afterStop, late>>
<1>1. Kept /\ Receiving' \subseteq Receiving
  <2>1. CASE UNCHANGED vars
    BY <2>1 DEF vars, slotVars, Receiving
  <2>2. ASSUME NEW s \in Slots, ParseFails(s) \/ ReceiveFails(s) \/ DeleteFails(s) \/ DeleteBatch(s)
        PROVE  Kept /\ Receiving' \subseteq Receiving
    <3>1. task' = [task EXCEPT ![s] = "free"] /\ UNCHANGED <<running, timers, waiting, afterStop, late>>
      BY <2>2 DEF ParseFails, ReceiveFails, DeleteFails, DeleteBatch, Free, Put
    <3> QED BY <3>1 DEF Receiving, TypeOK
  <2>3. ASSUME NEW s \in Slots, NEW m \in Messages, HandleMessage(s, m)
        PROVE  Kept /\ Receiving' \subseteq Receiving
    <3>1. PICK step \in {"handle", "delete"} : task' = [task EXCEPT ![s] = step]
      BY <2>3 DEF HandleMessage, Put
    <3>2. UNCHANGED <<running, timers, waiting, afterStop, late>>
      BY <2>3 DEF HandleMessage
    <3> QED BY <3>1, <3>2 DEF Receiving, TypeOK
  <2>4. ASSUME NEW m \in Messages, StrayReturns(m) \/ VisibleAgain(m)
        PROVE  Kept /\ Receiving' \subseteq Receiving
    BY <2>4 DEF StrayReturns, VisibleAgain, slotVars, Receiving
  <2> QED BY <2>1, <2>2, <2>3, <2>4 DEF Next, Slot
<1>2. IsFiniteSet(Receiving)
  <2>1. IsFiniteSet(Slots) /\ Receiving \subseteq Slots
    BY FS_Interval DEF Slots, Receiving
  <2> QED BY <2>1, FS_Subset
<1> QED BY <1>1, <1>2, FS_Subset

LEMMA PollInvHolds == Spec => []PollInv
<1> USE SqsAssumption
<1>1. Init => PollInv
  BY DEF Init, PollInv
<1>2. TypeOK /\ TypeOK' /\ PollInv /\ [Next]_vars => PollInv'
  <2> SUFFICES ASSUME TypeOK, TypeOK', PollInv, [Next]_vars PROVE PollInv'
    OBVIOUS
  <2> USE DEF PollInv
  <2>C. Cardinality(Receiving) \in 0..Workers /\ Cardinality(Receiving') \in 0..Workers
    <3>1. Cardinality(Receiving) \in 0..Workers
      BY ReceivingCounts
    <3>2. IsFiniteSet(Slots) /\ Cardinality(Slots) = Workers /\ Receiving' \subseteq Slots
      BY FS_Interval DEF Slots, Receiving
    <3>3. Cardinality(Receiving') \in Nat /\ Cardinality(Receiving') <= Workers
      BY <3>2, FS_Subset, FS_CardinalityType
    <3> QED BY <3>1, <3>3
  <2>1. CASE Poll
    <3>1. Receiving' = Receiving
      BY <2>1 DEF Poll, slotVars, Receiving
    <3> QED BY <2>1, <2>C, <3>1 DEF Poll, PollsOn
  <2>2. CASE StopPolling
    <3>1. Receiving' = Receiving
      BY <2>2 DEF StopPolling, slotVars, Receiving
    <3> QED BY <2>2, <2>C, <3>1 DEF StopPolling
  <2>3. ASSUME NEW s \in Slots, StartTask(s) PROVE PollInv'
    <3>1. Cardinality(Receiving') <= Cardinality(Receiving) + 1
      BY <2>3, ReceivingCounts
    <3> QED BY <2>3, <2>C, <3>1 DEF StartTask, SetTimer
  <2>4. ASSUME NEW s \in Slots, ReceiveBatch(s) PROVE PollInv'
    <3>1. Cardinality(Receiving') = Cardinality(Receiving) - 1
      BY <2>4, ReceivingCounts
    <3>2. late' = late \/ (~running /\ late' = late + 1)
      BY <2>4 DEF ReceiveBatch
    <3> QED BY <2>4, <2>C, <3>1, <3>2 DEF ReceiveBatch
  <2>5. CASE /\ ~Poll /\ ~StopPolling
             /\ \A s \in Slots : ~StartTask(s) /\ ~ReceiveBatch(s)
    BY <2>5, <2>C, OtherSteps
  <2> QED BY <2>1, <2>2, <2>3, <2>4, <2>5
<1> QED BY <1>1, <1>2, TypeCorrect, PTL DEF Spec

(* One caller at a time is in wg.go, for any number of workers.            *)
THEOREM OnePollChain == Spec => []OneChain
<1>1. PollInv => OneChain
  BY DEF PollInv, OneChain
<1> QED BY <1>1, PollInvHolds, PTL

(* After stop() one more batch at most is asked for, and no more batches   *)
(* come in than there are workers and that one.                            *)
THEOREM StopIsFinal == Spec => []StopStops
<1>1. TypeOK /\ PollInv => StopStops
  <2> SUFFICES ASSUME TypeOK, PollInv PROVE StopStops
    OBVIOUS
  <2>1. Cardinality(Receiving) \in 0..Workers
    BY ReceivingCounts
  <2> QED BY <2>1, SqsAssumption DEF PollInv, StopStops, TypeOK
<1> QED BY <1>1, TypeCorrect, PollInvHolds, PTL

-----------------------------------------------------------------------------
(* DELETION.  What a task has received and no longer waits for was         *)
(* handled, whoever else has the same message: so is a batch that is about *)
(* to be deleted, and so is what SQS has neither visible nor held.  No     *)
(* handler sees a body that is no JSON.                                    *)

DeleteInv ==
    /\ task \in [Slots -> {"free", "receive", "handle", "delete"}]
    /\ batch \in [Slots -> SUBSET Messages] /\ pending \in [Slots -> SUBSET Messages]
    /\ \A s \in Slots :
         /\ batch[s] \ pending[s] \subseteq handled
         /\ task[s] = "delete" => pending[s] = {}
    /\ visible \subseteq Messages
    /\ Messages \ (visible \cup held) \subseteq handled
    /\ handled \cap Malformed = {} /\ stray \cap Malformed = {}

(* A batch leaves SQS only when all its handlers have returned, well or    *)
(* with an exception, whatever timeouts, failures and redeliveries come in *)
(* between; one with a body that is no JSON never leaves it.               *)
THEOREM HandledBeforeDeleted == Spec => []DeletedIsHandled
<1>1. Init => DeleteInv
  BY DEF Init, DeleteInv
<1>2. DeleteInv /\ [Next]_vars => DeleteInv'
  <2> SUFFICES ASSUME DeleteInv, [Next]_vars PROVE DeleteInv'
    OBVIOUS
  <2> USE DEF DeleteInv
  <2>1. ASSUME NEW s \in Slots, Free(s), handled \subseteq handled', visible' \subseteq Messages,
               Messages \ (visible' \cup held') \subseteq handled',
               handled' \cap Malformed = {}, stray' \cap Malformed = {}
        PROVE  DeleteInv'
    BY <2>1 DEF Free, Put
  <2>2. ASSUME UNCHANGED slotVars, handled \subseteq handled', visible' \subseteq Messages,
               Messages \ (visible' \cup held') \subseteq handled',
               handled' \cap Malformed = {}, stray' \cap Malformed = {}
        PROVE  DeleteInv'
    BY <2>2 DEF slotVars
  <2>3. ASSUME NEW s \in Slots, StartTask(s) PROVE DeleteInv'
    BY <2>3 DEF StartTask, Put, sqsVars
  <2>4. ASSUME NEW s \in Slots, ReceiveBatch(s) PROVE DeleteInv'
    <3> PICK b \in SUBSET visible :
          /\ IF b = {} THEN Free(s) ELSE Put(s, "handle", b, b)
          /\ visible' = visible \ b
          /\ held' = held \cup b
      BY <2>4 DEF ReceiveBatch
    <3>1. UNCHANGED <<handled, stray>> /\ visible' \subseteq Messages /\ Messages \ (visible' \cup held') \subseteq handled'
      BY <2>4 DEF ReceiveBatch
    <3>2. CASE b = {}
      BY <2>1, <3>1, <3>2
    <3>3. CASE b # {}
      BY <3>1, <3>3 DEF Put
    <3> QED BY <3>2, <3>3
  <2>5. ASSUME NEW s \in Slots, NEW m \in Messages, HandleMessage(s, m) PROVE DeleteInv'
    BY <2>5 DEF HandleMessage, AllHandled, Put, sqsVars
  <2>6. ASSUME NEW s \in Slots, ParseFails(s) PROVE DeleteInv'
    BY <2>1, <2>6 DEF ParseFails, sqsVars
  <2>7. ASSUME NEW s \in Slots, DeleteBatch(s) PROVE DeleteInv'
    <3>1. batch[s] \subseteq handled
      BY <2>7 DEF DeleteBatch
    <3>2. UNCHANGED <<handled, stray>> /\ Free(s)
      BY <2>7 DEF DeleteBatch
    <3>3. visible' \subseteq Messages /\ Messages \ (visible' \cup held') \subseteq handled'
      BY <2>7, <3>1, <3>2 DEF DeleteBatch
    <3> QED BY <2>1, <3>2, <3>3
  <2>8. ASSUME NEW s \in Slots, ReceiveFails(s) \/ DeleteFails(s) PROVE DeleteInv'
    BY <2>1, <2>8 DEF ReceiveFails, DeleteFails, sqsVars
  <2>9. ASSUME NEW m \in Messages, StrayReturns(m) PROVE DeleteInv'
    BY <2>2, <2>9 DEF StrayReturns, sqsVars
  <2>10. ASSUME NEW m \in Messages, VisibleAgain(m) PROVE DeleteInv'
    BY <2>2, <2>10 DEF VisibleAgain
  <2>11. CASE Poll \/ StopPolling \/ UNCHANGED vars
    BY <2>2, <2>11 DEF Poll, StopPolling, vars, sqsVars
  <2> QED BY <2>3, <2>4, <2>5, <2>6, <2>7, <2>8, <2>9, <2>10, <2>11 DEF Next, Slot
<1>3. DeleteInv => DeletedIsHandled
  BY DEF DeleteInv, DeletedIsHandled, Deleted
<1> QED BY <1>1, <1>2, <1>3, PTL DEF Spec
=============================================================================
