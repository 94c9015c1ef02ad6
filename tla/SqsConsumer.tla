----------------------------- MODULE SqsConsumer -----------------------------
(***************************************************************************)
(* src/shared/microservices/sqs: the transport under SQS.  poll starts a   *)
(* task in a wait group; the task sets the timer of the next poll, then    *)
(* receives a batch, lets the handlers run on all its messages together,   *)
(* and deletes the batch.  A message that was received and not deleted     *)
(* becomes visible again after the visibility timeout.                     *)
(***************************************************************************)
EXTENDS Naturals, FiniteSets

CONSTANTS
    Messages,
    Malformed,      \* those whose body is no JSON
    Workers,        \* workersCount, the limit of the wait group
    BatchSize,      \* batchSize
    MaxFaults       \* bound: failed calls, and early timeouts

ASSUME SqsAssumption ==
    /\ IsFiniteSet(Messages) /\ Malformed \subseteq Messages
    /\ Workers \in Nat \ {0} /\ BatchSize \in 1..10
    /\ MaxFaults \in Nat

Slots == 1..Workers

VARIABLES
    running,        \* isRunning
    timers,         \* how many timers of poll are set
    waiting,        \* how many calls of wg.go wait for a free slot
    task,           \* what the task in a slot is at
    batch,          \* the messages it received
    pending,        \* those of them whose handler has not returned
    visible,        \* messages SQS gives out
    held,           \* messages received, within the visibility timeout
    stray,          \* handlers that run on after their batch was given up
    handled,        \* observation: messages whose handler has returned
    afterStop,      \* observation: tasks started after stop()
    late,           \* observation: batches received after stop()
    faults

slotVars == <<task, batch, pending>>
sqsVars == <<visible, held>>
vars == <<running, timers, waiting, slotVars, sqsVars, stray, handled, afterStop, late, faults>>

Deleted == Messages \ (visible \cup held)

TypeOK ==
    /\ running \in BOOLEAN
    /\ timers \in Nat /\ waiting \in Nat /\ afterStop \in Nat /\ late \in Nat
    /\ task \in [Slots -> {"free", "receive", "handle", "delete"}]
    /\ batch \in [Slots -> SUBSET Messages] /\ pending \in [Slots -> SUBSET Messages]
    /\ \A s \in Slots : /\ pending[s] \subseteq batch[s]
                        /\ Cardinality(batch[s]) <= BatchSize
    /\ visible \subseteq Messages /\ held \subseteq Messages
    /\ stray \subseteq Messages /\ handled \subseteq Messages
    /\ faults \in 0..MaxFaults

(* start(): the first poll calls wg.go.                                    *)
Init ==
    /\ running = TRUE
    /\ timers = 0 /\ waiting = 1
    /\ task = [s \in Slots |-> "free"]
    /\ batch = [s \in Slots |-> {}] /\ pending = [s \in Slots |-> {}]
    /\ visible = Messages /\ held = {}
    /\ stray = {} /\ handled = {} /\ afterStop = 0 /\ late = 0
    /\ faults = 0

Fault == faults < MaxFaults /\ faults' = faults + 1

Put(s, step, b, p) ==
    /\ task' = [task EXCEPT ![s] = step]
    /\ batch' = [batch EXCEPT ![s] = b]
    /\ pending' = [pending EXCEPT ![s] = p]

Free(s) == Put(s, "free", {}, {})

-----------------------------------------------------------------------------
(* POLLING                                                                 *)

(* Mutation target: isRunning is not looked at.                            *)
PollsAlways == TRUE

PollsOn == running

(* The timer fires: poll.  After stop() the chain of timers ends.          *)
Poll ==
    /\ timers > 0
    /\ timers' = timers - 1
    /\ waiting' = IF PollsOn THEN waiting + 1 ELSE waiting
    /\ UNCHANGED <<running, slotVars, sqsVars, stray, handled, afterStop, late, faults>>

(* Mutation targets: a second timer for a new task, and the timer set only *)
(* once messages have come.                                                *)
TwoTimers == timers' = timers + 2

NoTimer == UNCHANGED timers

SetTimer == timers' = timers + 1

(* wg.go lets the task run: first it sets the timer of the next poll.      *)
StartTask(s) ==
    /\ waiting > 0 /\ task[s] = "free"
    /\ waiting' = waiting - 1
    /\ SetTimer
    /\ Put(s, "receive", {}, {})
    /\ afterStop' = IF running THEN afterStop ELSE afterStop + 1
    /\ UNCHANGED <<running, sqsVars, stray, handled, late, faults>>

(* stop(): every timer in the map is cleared; a call of wg.go that waits,  *)
(* and the tasks, are left alone.                                          *)
StopPolling ==
    /\ running
    /\ running' = FALSE
    /\ timers' = 0
    /\ UNCHANGED <<waiting, slotVars, sqsVars, stray, handled, afterStop, late, faults>>

-----------------------------------------------------------------------------
(* A TASK                                                                  *)

(* receiveMessage: up to BatchSize visible messages, none after a while.   *)
ReceiveBatch(s) ==
    /\ task[s] = "receive"
    /\ \E b \in SUBSET visible :
         /\ Cardinality(b) <= BatchSize
         /\ b = {} => visible = {}
         /\ IF b = {} THEN Free(s) ELSE Put(s, "handle", b, b)
         /\ visible' = visible \ b
         /\ held' = held \cup b
         /\ late' = IF running \/ b = {} THEN late ELSE late + 1
    /\ UNCHANGED <<running, timers, waiting, stray, handled, afterStop, faults>>

ReceiveFails(s) ==
    /\ task[s] = "receive"
    /\ Fault
    /\ Free(s)
    /\ UNCHANGED <<running, timers, waiting, sqsVars, stray, handled, afterStop, late>>

(* Mutation target: Promise.race in place of Promise.all.                  *)
FirstHandled(rest) == TRUE

AllHandled(rest) == rest = {}

(* A handler of the batch returns, having done its work or thrown: Nest    *)
(* makes a value of its exception.  With the last one the batch is done.   *)
HandleMessage(s, m) ==
    LET rest == pending[s] \ {m} IN
    /\ task[s] = "handle" /\ m \in pending[s] \ Malformed
    /\ handled' = handled \cup {m}
    /\ Put(s, IF AllHandled(rest) THEN "delete" ELSE "handle", batch[s], rest)
    /\ UNCHANGED <<running, timers, waiting, sqsVars, stray, afterStop, late, faults>>

(* JSON.parse throws: Promise.all rejects, nothing of the batch is         *)
(* deleted, its other handlers run on unobserved.                          *)
ParseFails(s) ==
    /\ task[s] = "handle" /\ batch[s] \cap Malformed # {}
    /\ stray' = stray \cup (pending[s] \ Malformed)
    /\ Free(s)
    /\ UNCHANGED <<running, timers, waiting, sqsVars, handled, afterStop, late, faults>>

StrayReturns(m) ==
    /\ m \in stray
    /\ stray' = stray \ {m}
    /\ handled' = handled \cup {m}
    /\ UNCHANGED <<running, timers, waiting, slotVars, sqsVars, afterStop, late, faults>>

(* deleteMessageBatch.  Of a message that has become visible again since,  *)
(* the receipt handle may be too old.                                      *)
Elsewhere(s, m) == m \in visible \/ \E r \in Slots \ {s} : m \in batch[r]

DeleteBatch(s) ==
    /\ task[s] = "delete"
    /\ \E old \in SUBSET {m \in batch[s] : Elsewhere(s, m)} :
         /\ visible' = visible \ (batch[s] \ old)
         /\ held' = held \ (batch[s] \ old)
    /\ Free(s)
    /\ UNCHANGED <<running, timers, waiting, stray, handled, afterStop, late, faults>>

DeleteFails(s) ==
    /\ task[s] = "delete"
    /\ Fault
    /\ Free(s)
    /\ UNCHANGED <<running, timers, waiting, sqsVars, stray, handled, afterStop, late>>

(* The visibility timeout: in time, when no task works on the message any  *)
(* more, or while one still does.                                          *)
VisibleAgain(m) ==
    /\ m \in held
    /\ IF \E s \in Slots : m \in batch[s] THEN Fault ELSE UNCHANGED faults
    /\ visible' = visible \cup {m}
    /\ held' = held \ {m}
    /\ UNCHANGED <<running, timers, waiting, slotVars, stray, handled, afterStop, late>>

Slot(s) ==
    \/ StartTask(s)
    \/ ReceiveBatch(s)
    \/ \E m \in Messages : HandleMessage(s, m)
    \/ ParseFails(s)
    \/ DeleteBatch(s)

(* SQS gives m out.                                                        *)
Delivers(m) == \E s \in Slots : ReceiveBatch(s) /\ m \in held' \ held

Next ==
    \/ Poll
    \/ StopPolling
    \/ \E s \in Slots : Slot(s) \/ ReceiveFails(s) \/ DeleteFails(s)
    \/ \E m \in Messages : StrayReturns(m) \/ VisibleAgain(m)

(* Timers fire, tasks and handlers go on, timeouts end, and SQS does not   *)
(* pass over a message for ever.                                           *)
Spec ==
    /\ Init /\ [][Next]_vars
    /\ WF_vars(Poll)
    /\ \A s \in Slots : WF_vars(Slot(s))
    /\ \A m \in Messages : WF_vars(VisibleAgain(m)) /\ WF_vars(StrayReturns(m)) /\ SF_vars(Delivers(m))

-----------------------------------------------------------------------------
(* PROPERTIES                                                              *)

(* There is one chain of polls, so that one caller at a time is in wg.go.  *)
OneChain == timers + waiting <= 1

(* A message is deleted only after its handler has returned, well or with  *)
(* an exception, whatever batches it was in and whoever gave up on it; one *)
(* whose body is no JSON never is.                                         *)
DeletedIsHandled == Deleted \subseteq handled \ Malformed

(* After stop() at most one more task starts, and the requests under way   *)
(* on the workers and that task's own bring in a batch each at most.       *)
StopStops == afterStop <= 1 /\ late <= Workers + 1

(* Every message is deleted in the end, or keeps coming in batches that    *)
(* fail for a body that is no JSON, or the consumer is stopped.            *)
Spoilt(m) == \E s \in Slots : m \in batch[s] /\ batch[s] \cap Malformed # {}

EventuallyDeleted ==
    \A m \in Messages : <>(m \in Deleted \/ ~running) \/ []<>Spoilt(m)
=============================================================================
