--------------------------- MODULE TokenProcessor ---------------------------
(***************************************************************************)
(* src/app-indexer: the consumer of INDEX_BLOCK_RANGE.  One range at a     *)
(* time (prefetch 1) is turned into tasks that store its contracts and     *)
(* tokens and announce the new ones; the message is acknowledged after the *)
(* last task.  A task is what the action given to wg.go has still to do;   *)
(* how many run at once is WaitGroup's concern, here they interleave.      *)
(***************************************************************************)
EXTENDS Stores

CONSTANTS
    Ranges, NoRange,
    EventsOf        \* the tokens that the stored events of a range mention

ASSUME RangesAssumption ==
    /\ EventsOf \in [Ranges -> SUBSET Tokens]
    /\ NoRange \notin Ranges

VARIABLES
    blocksQueue,    \* INDEX_BLOCK_RANGE messages that wait
    range,          \* the range being processed
    unacked,        \* its message, as long as the broker still knows it
    stuck,          \* its handler has thrown, nothing will acknowledge it
    tasks,          \* unfinished actions: [of: contract or token, at: step]
    known,          \* this.contracts, in memory only
    announced,      \* observation: READ_TOKEN messages emitted per token
    finished        \* observation: ranges acknowledged

indexerVars == <<blocksQueue, range, unacked, stuck, tasks, known, announced, finished>>

Task(x, step) == [of |-> x, at |-> step]
ContractsOf(r) == {ContractOf[t] : t \in EventsOf[r]}

IndexerTypeOK ==
    /\ blocksQueue \subseteq Ranges
    /\ range \in Ranges \cup {NoRange}
    /\ unacked \subseteq Ranges
    /\ stuck \in BOOLEAN
    /\ tasks \subseteq [of : Tokens \cup Contracts, at : {"store", "emit"}]
    /\ known \subseteq Contracts
    /\ announced \in [Tokens -> Nat]
    /\ finished \subseteq Ranges

IndexerInit ==
    /\ blocksQueue = Ranges
    /\ range = NoRange /\ unacked = {} /\ stuck = FALSE /\ tasks = {} /\ known = {}
    /\ announced = [t \in Tokens |-> 0]
    /\ finished = {}

(* eventHandler, processBlockRange and the loop of process: a contract is  *)
(* put into the map before it is stored, a token once per range.           *)
ReceiveRange(r) ==
    /\ range = NoRange /\ r \in blocksQueue
    /\ blocksQueue' = blocksQueue \ {r}
    /\ range' = r /\ unacked' = {r}
    /\ known' = known \cup ContractsOf(r)
    /\ tasks' = {Task(x, "store") : x \in EventsOf[r] \cup (ContractsOf(r) \ known)}
    /\ UNCHANGED <<stuck, announced, finished, storeVars>>

(* getByBlockRange rejects, and so does the handler: Nest swallows its     *)
(* exception, the message is neither acknowledged nor rejected, and with   *)
(* prefetch 1 the broker gives the indexer no other.                       *)
RangeFails(r) ==
    /\ range = NoRange /\ r \in blocksQueue
    /\ Fault({})
    /\ blocksQueue' = blocksQueue \ {r}
    /\ range' = r /\ unacked' = {r} /\ stuck' = TRUE
    /\ UNCHANGED <<tasks, known, announced, finished, collections, queues, served>>

StoreContract(c) ==
    /\ Task(c, "store") \in tasks
    /\ InsertIfNone(c)
    /\ tasks' = (tasks \ {Task(c, "store")}) \cup {Task(c, "emit")}
    /\ UNCHANGED <<blocksQueue, range, unacked, stuck, known, announced, finished>>
    /\ UNCHANGED <<tokens, metadata, queues, served, lost, faults>>

EmitReadContract(c) ==
    /\ Task(c, "emit") \in tasks
    /\ contractsQueue' = contractsQueue \cup {<<c, Checksum>>}
    /\ tasks' = tasks \ {Task(c, "emit")}
    /\ UNCHANGED <<blocksQueue, range, unacked, stuck, known, announced, finished>>
    /\ UNCHANGED <<collections, metadataQueue, served, lost, faults>>

(* Mutation target: READ_TOKEN whether or not the token was inserted.      *)
AlwaysEmit(t) == TRUE

(* Mutation target: the token is announced if it was there before.         *)
EmitIfFound(t) == Stored(t)

(* emitEvent = saveResult.upsertedCount === 1                              *)
EmitEvent(t) == ~Stored(t)

StoreToken(t) ==
    /\ Task(t, "store") \in tasks
    /\ Upsert(t)
    /\ tasks' = (tasks \ {Task(t, "store")})
                  \cup (IF EmitEvent(t) THEN {Task(t, "emit")} ELSE {})
    /\ UNCHANGED <<blocksQueue, range, unacked, stuck, known, announced, finished>>
    /\ UNCHANGED <<contracts, metadata, queues, served, lost, faults>>

EmitReadToken(t) ==
    /\ Task(t, "emit") \in tasks
    /\ contractsQueue' = contractsQueue \cup {Ref(t)}
    /\ tasks' = tasks \ {Task(t, "emit")}
    /\ announced' = [announced EXCEPT ![t] = @ + 1]
    /\ UNCHANGED <<blocksQueue, range, unacked, stuck, known, finished>>
    /\ UNCHANGED <<collections, metadataQueue, served, lost, faults>>

(* MongoDB or the broker refuses: the error is logged, the action returns. *)
TaskFails(x) ==
    /\ x \in tasks
    /\ Fault({x.of})
    /\ tasks' = tasks \ {x}
    /\ UNCHANGED <<blocksQueue, range, unacked, stuck, known, announced, finished>>
    /\ UNCHANGED <<collections, queues, served>>

(* Mutation target: the range acknowledged without wg.wait().              *)
FinishAtOnce ==
    /\ range # NoRange /\ ~stuck
    /\ range' = NoRange /\ unacked' = {}
    /\ finished' = finished \cup {range}
    /\ UNCHANGED <<blocksQueue, stuck, tasks, known, announced, storeVars>>

(* await wg.wait(), then channel.ack.                                      *)
FinishRange ==
    /\ range # NoRange /\ ~stuck /\ tasks = {}
    /\ range' = NoRange /\ unacked' = {}
    /\ finished' = finished \cup {range}
    /\ UNCHANGED <<blocksQueue, stuck, tasks, known, announced, storeVars>>

(* The process dies: RabbitMQ delivers the unacknowledged range again.     *)
(* What was stored is not new then: its announcement is lost.  When it is  *)
(* restarted because it is stuck, that is no further fault.                *)
IndexerCrash ==
    /\ range # NoRange
    /\ IF stuck THEN NoFault
       ELSE Fault(IF unacked = {} THEN {x.of : x \in tasks}
                  ELSE {t \in Tokens : Task(t, "emit") \in tasks})
    /\ blocksQueue' = blocksQueue \cup unacked
    /\ range' = NoRange /\ unacked' = {} /\ stuck' = FALSE /\ tasks' = {} /\ known' = {}
    /\ UNCHANGED <<announced, finished, collections, queues, served>>

IndexerStep ==
    \/ \E r \in Ranges : ReceiveRange(r)
    \/ \E c \in Contracts : StoreContract(c) \/ EmitReadContract(c)
    \/ \E t \in Tokens : StoreToken(t) \/ EmitReadToken(t)
    \/ FinishRange

IndexerNext ==
    \/ IndexerStep
    \/ \E x \in tasks : TaskFails(x)
    \/ \E r \in Ranges : RangeFails(r)
    \/ IndexerCrash
=============================================================================
