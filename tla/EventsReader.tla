---------------------------- MODULE EventsReader ----------------------------
(***************************************************************************)
(* The data path of src/app-events-reader: one process that walks the      *)
(* chain range by range, stores the transfer events of a range in the      *)
(* `events` collection, records the range in `blocks_queue`, announces it  *)
(* to the indexer with INDEX_BLOCK_RANGE and re-reads earlier ranges when  *)
(* the parent hash of the first block does not match the hash recorded for *)
(* the range before it.                                                    *)
(*                                                                         *)
(* Every await of the code is a step of its own, so a crash of the process *)
(* or a reorganisation of the chain may fall between any two of them.  The *)
(* HTTP requests start and stop a task atomically here; their own awaits   *)
(* are the subject of ReaderTasks.                                         *)
(***************************************************************************)
EXTENDS Naturals, Sequences, FiniteSets

CONSTANTS
    MaxBlock,           \* bound: the highest block the chain reaches
    InitialHead,        \* the head of the chain when the reader is first run
    ProcessingLimit,    \* service.processingLimit
    TransferBlocks,     \* the blocks that hold NFT transfer logs
    Tasks,              \* the bodies of POST /reader-start; to = 0: live mode
    MaxRequests,        \* bound: start and stop requests
    MaxCrashes,         \* bound: crashes of the process
    MaxReorgs,          \* bound: reorganisations of the chain
    ReorgAnytime,       \* FALSE: only while the reader waits for new blocks
    InterruptRecovery   \* FALSE: no crash and no stop while InRecovery

Blocks == 0..MaxBlock

TaskType == [from : Blocks, to : Nat, type : {"NEW_ONLY", "REINDEX"}]

(* The documents of `events_reader_state_log` and the messages to the      *)
(* indexer.                                                                *)
TaskDoc == [from : Blocks, to : Nat, type : {"NEW_ONLY", "REINDEX"}, inProgress : BOOLEAN]

Message == [from : Blocks, to : Blocks, reread : BOOLEAN]

ASSUME ConstantsAssumption ==
    /\ MaxBlock \in Nat /\ InitialHead \in Blocks
    /\ ProcessingLimit \in Nat
    /\ TransferBlocks \subseteq Blocks
    /\ Tasks \subseteq TaskType
    \* the requests name blocks that exist
    /\ \A t \in Tasks : /\ t.from <= InitialHead /\ t.to <= InitialHead
                        /\ t.to = 0 \/ t.from <= t.to
    /\ MaxRequests \in Nat /\ MaxCrashes \in Nat /\ MaxReorgs \in Nat
    /\ ReorgAnytime \in BOOLEAN /\ InterruptRecovery \in BOOLEAN

VARIABLES
    head,       \* number of the latest block of the chain
    fork,       \* fork[b]: the fork block b of the canonical chain belongs to
    events,     \* collection `events`: the versioned blocks whose logs it holds
    queue,      \* collection `blocks_queue`, in insertion order
    task,       \* the current document of `events_reader_state_log`
    sent,       \* the INDEX_BLOCK_RANGE messages emitted so far
    pc,         \* the await at which runLoop is suspended; "down": no process
    aborted,    \* the signal of the task's AbortController
    from, to, blockTo,              \* locals of the processing loops
    rFrom, rTo, reorg, reread,      \* parameters of the current read
    logs, awaiting, parent, toHash, latest,     \* locals of read
    requests, crashes, reorgs       \* how much of each bound is used

chainVars == <<head, fork, reorgs>>
storeVars == <<events, queue, sent>>
loopVars  == <<from, to, blockTo>>
callVars  == <<rFrom, rTo, reorg, reread>>
readVars  == <<logs, awaiting, parent, toHash, latest>>
taskVars  == <<task, aborted, requests>>
vars == <<chainVars, storeVars, loopVars, callVars, readVars, taskVars, pc, crashes>>

-----------------------------------------------------------------------------
(* The chain.  A hash identifies a block and, through its parents, the     *)
(* whole chain below it; every reorganisation makes a fresh fork, so the   *)
(* pair of number and fork has the same power.                             *)

NoHash == <<>>

Hash(b) == <<b, fork[b]>>

ParentHash(b) == IF b = 0 THEN NoHash ELSE Hash(b - 1)

(* What getEthNodeTransferEvents returns for a range: logs of the blocks   *)
(* that exist.                                                             *)
LogsShort(f, t) == {Hash(b) : b \in {x \in TransferBlocks : f <= x /\ x < t /\ x <= head}}

LogsOf(f, t) == {Hash(b) : b \in {x \in TransferBlocks : f <= x /\ x <= t /\ x <= head}}

-----------------------------------------------------------------------------
(* blocks_queue.  A cursor 0 stands for `null`.                            *)

Doc == [from : Blocks, to : Blocks, toHash : {NoHash} \cup (Nat \X Nat), isDeleted : BOOLEAN]

Live(i) == i \in DOMAIN queue /\ ~queue[i].isDeleted

Below(bound) == {i \in DOMAIN queue : ~queue[i].isDeleted /\ queue[i].to < bound}

(* getLatest: a live document with the greatest `to` below the bound; the  *)
(* sort leaves the order of equal documents open.                          *)
LatestAny(bound) == IF DOMAIN queue = {} THEN {0} ELSE DOMAIN queue

Latest(bound) ==
    IF Below(bound) = {} THEN {0}
    ELSE {i \in Below(bound) : \A j \in Below(bound) : queue[j].to <= queue[i].to}

SameRange(f, t) == {i \in DOMAIN queue : queue[i].from = f /\ queue[i].to = t}

(* softDelete: updateOne marks the oldest document of the range, live or   *)
(* not.                                                                    *)
SoftDeleted(f, t) ==
    [i \in DOMAIN queue |->
        IF i \in SameRange(f, t) /\ \A j \in SameRange(f, t) : i <= j
        THEN [queue[i] EXCEPT !.isDeleted = TRUE]
        ELSE queue[i]]

-----------------------------------------------------------------------------
IsLive == task.to = 0
Rewriting == task.to # 0 /\ task.type = "REINDEX"

NoTask == [from |-> 0, to |-> 0, type |-> "NEW_ONLY", inProgress |-> FALSE]

Init ==
    /\ head = InitialHead /\ fork = [b \in Blocks |-> 0]
    /\ events = {} /\ queue = <<>> /\ sent = {}
    /\ task = NoTask /\ aborted = FALSE
    /\ pc = "idle"
    /\ from = 0 /\ to = 0 /\ blockTo = 0
    /\ rFrom = 0 /\ rTo = 0 /\ reorg = FALSE /\ reread = FALSE
    /\ logs = {} /\ awaiting = {} /\ parent = NoHash /\ toHash = NoHash /\ latest = 0
    /\ requests = 0 /\ crashes = 0 /\ reorgs = 0

(* The process ends, by a crash, or because runLoop's promise is rejected  *)
(* (uncaughtException -> process.exit(1)); its memory is gone.             *)
Exit ==
    /\ pc' = "down"
    /\ from' = 0 /\ to' = 0 /\ blockTo' = 0
    /\ rFrom' = 0 /\ rTo' = 0 /\ reorg' = FALSE /\ reread' = FALSE
    /\ logs' = {} /\ awaiting' = {} /\ parent' = NoHash /\ toHash' = NoHash /\ latest' = 0

-----------------------------------------------------------------------------
(* runLoop and the two processing loops of EventsReaderModule.             *)

(* runLoop picks the task in progress.  A REINDEX range starts at          *)
(* blockFrom at once, the others first look for the latest range.          *)
PickTask ==
    /\ pc = "idle" /\ task.inProgress
    /\ from' = task.from /\ to' = 0 /\ blockTo' = task.to
    /\ pc' = IF IsLive THEN "head" ELSE IF Rewriting THEN "loop" ELSE "latest"
    /\ UNCHANGED <<chainVars, storeVars, callVars, readVars, taskVars, crashes>>

(* liveProcessing: the first getLatestBlock.                               *)
GetHead ==
    /\ pc = "head"
    /\ blockTo' = head
    /\ pc' = "latest"
    /\ UNCHANGED <<chainVars, storeVars, from, to, callVars, readVars, taskVars, crashes>>

ResumeSkip(i) == IF i = 0 THEN task.from ELSE queue[i].to + 2

(* Where the loop resumes: after the latest range, or at blockFrom.        *)
Resume(i) == IF i = 0 THEN task.from ELSE queue[i].to + 1

(* blockRepo.getLatest(blockTo) sets the cursor.                           *)
GetLatest ==
    /\ pc = "latest"
    /\ \E i \in Latest(blockTo) :
          /\ from' = Resume(i)
          /\ pc' = IF i = 0 THEN "loop" ELSE "clean"
    /\ UNCHANGED <<chainVars, storeVars, to, blockTo, callVars, readVars, taskVars, crashes>>

CleanHigher ==
    /\ pc = "clean"
    /\ events' = {e \in events : e[1] <= from}
    /\ pc' = "loop"
    /\ UNCHANGED <<chainVars, queue, sent, loopVars, callVars, readVars, taskVars, crashes>>

(* deleteWhereBlockNumberGreaterThan(latestBlockFromDb.to).                *)
Clean ==
    /\ pc = "clean"
    /\ events' = {e \in events : e[1] < from}
    /\ pc' = "loop"
    /\ UNCHANGED <<chainVars, queue, sent, loopVars, callVars, readVars, taskVars, crashes>>

RangeEndUncapped(f, bound) == f + ProcessingLimit

RangeEndLate(f, bound) ==
    IF f + ProcessingLimit > bound + 1 THEN bound ELSE f + ProcessingLimit

(* The call read({from, to}, ...) at the end of an iteration.              *)
RangeEnd(f, bound) == IF f + ProcessingLimit > bound THEN bound ELSE f + ProcessingLimit

CallRead(f, t, handling, again) ==
    /\ rFrom' = f /\ rTo' = t /\ reorg' = handling /\ reread' = again
    /\ pc' = "fetch"

(* The top of the loop: the task is aborted, finished, or goes on.         *)
LoopAborted ==
    /\ pc = "loop" /\ aborted
    /\ pc' = "idle"
    /\ UNCHANGED <<chainVars, storeVars, loopVars, callVars, readVars, taskVars, crashes>>

RangeStep ==
    /\ pc = "loop" /\ ~aborted /\ ~IsLive /\ to # blockTo
    /\ to' = RangeEnd(from, blockTo)
    /\ CallRead(from, RangeEnd(from, blockTo), FALSE, Rewriting)
    /\ UNCHANGED <<chainVars, storeVars, from, blockTo, readVars, taskVars, crashes>>

(* blockRangeProcessing ends with stopReaderTask.                          *)
RangeFinish ==
    /\ pc = "loop" /\ ~aborted /\ ~IsLive /\ to = blockTo
    /\ aborted' = TRUE /\ task' = [task EXCEPT !.inProgress = FALSE]
    /\ pc' = "idle"
    /\ UNCHANGED <<chainVars, storeVars, loopVars, callVars, readVars, requests, crashes>>

LiveStep ==
    /\ pc = "loop" /\ ~aborted /\ IsLive
    /\ pc' = "poll"
    /\ UNCHANGED <<chainVars, storeVars, loopVars, callVars, readVars, taskVars, crashes>>

(* getLatestBlock inside the live loop, then a read ...                    *)
PollNew ==
    /\ pc = "poll" /\ to # head
    /\ blockTo' = head /\ to' = RangeEnd(from, head)
    /\ CallRead(from, RangeEnd(from, head), TRUE, FALSE)
    /\ UNCHANGED <<chainVars, storeVars, from, readVars, taskVars, crashes>>

(* ... or the wait for new blocks, rejected at once by an aborted signal.  *)
PollWait ==
    /\ pc = "poll" /\ to = head
    /\ IF aborted
       THEN Exit
       ELSE /\ blockTo' = head /\ pc' = "wait"
            /\ UNCHANGED <<from, to, callVars, readVars>>
    /\ UNCHANGED <<chainVars, storeVars, taskVars, crashes>>

WakeUp ==
    /\ pc = "wait"
    /\ pc' = "loop"
    /\ UNCHANGED <<chainVars, storeVars, loopVars, callVars, readVars, taskVars, crashes>>

-----------------------------------------------------------------------------
(* EventsReaderService.read and reread.                                    *)

FetchEvents ==
    /\ pc = "fetch"
    /\ logs' = LogsOf(rFrom, rTo)
    /\ pc' = "store"
    /\ UNCHANGED <<chainVars, storeVars, loopVars, callVars, awaiting, parent, toHash, latest,
                   taskVars, crashes>>

(* What comes after the events are stored.                                 *)
AfterStore ==
    /\ pc' = IF reorg THEN "blocks" ELSE "record"
    /\ awaiting' = IF reorg THEN {"from", "to"} ELSE {}
    /\ parent' = NoHash /\ toHash' = NoHash
    /\ UNCHANGED <<loopVars, callVars, logs, latest>>

(* bulkUpsert when the range is re-read; otherwise bulkSave, whose ordered *)
(* insertOne operations stop at the first _id that exists and reject.      *)
StoreEvents ==
    /\ pc = "store"
    /\ IF reread \/ logs \cap events = {}
       THEN events' = events \cup logs /\ AfterStore
       ELSE /\ events' = events \cup {l \in logs : \A d \in logs \cap events : l[1] < d[1]}
            /\ Exit
    /\ UNCHANGED <<chainVars, queue, sent, taskVars, crashes>>

(* The two getBlock calls of Promise.all, in any order; one call serves    *)
(* both ends of a range of one block.                                      *)
GetFromBlock ==
    /\ pc = "blocks" /\ "from" \in awaiting
    /\ parent' = ParentHash(rFrom)
    /\ IF rFrom = rTo
       THEN awaiting' = {} /\ toHash' = Hash(rFrom)
       ELSE awaiting' = awaiting \ {"from"} /\ UNCHANGED toHash
    /\ UNCHANGED <<chainVars, storeVars, loopVars, callVars, logs, latest, taskVars, crashes, pc>>

GetToBlock ==
    /\ pc = "blocks" /\ "to" \in awaiting /\ rFrom # rTo
    /\ toHash' = Hash(rTo)
    /\ awaiting' = awaiting \ {"to"}
    /\ UNCHANGED <<chainVars, storeVars, loopVars, callVars, logs, parent, latest, taskVars,
                   crashes, pc>>

(* blockQueue.getLatest(blockNumberFrom), the third call of Promise.all    *)
(* (nothing else writes blocks_queue meanwhile), and blockQueue.save.      *)
RecordRange ==
    /\ pc = "record" \/ (pc = "blocks" /\ awaiting = {})
    /\ latest' \in IF reorg THEN Latest(rFrom) ELSE {0}
    /\ queue' = Append(queue, [from |-> rFrom, to |-> rTo, toHash |-> toHash,
                               isDeleted |-> FALSE])
    /\ pc' = "emit"
    /\ UNCHANGED <<chainVars, events, sent, loopVars, callVars, logs, awaiting, parent, toHash,
                   taskVars, crashes>>

NoReorgCheck == FALSE

(* The chain below this range is not the one that was recorded.            *)
ReorgDetected == reorg /\ latest # 0 /\ parent # queue[latest].toHash

EmitUnlessReorg ==
    /\ pc = "emit"
    /\ IF ReorgDetected
       THEN /\ rFrom' = queue[latest].from /\ rTo' = queue[latest].to
            /\ pc' = "delete"
            /\ UNCHANGED <<from, reorg, reread, sent>>
       ELSE /\ sent' = sent \cup {[from |-> rFrom, to |-> rTo, reread |-> reread]}
            /\ from' = to + 1
            /\ pc' = "loop"
            /\ rFrom' = 0 /\ rTo' = 0 /\ reorg' = FALSE /\ reread' = FALSE
    /\ logs' = {} /\ parent' = NoHash /\ toHash' = NoHash /\ latest' = 0
    /\ UNCHANGED <<chainVars, events, queue, to, blockTo, awaiting, taskVars, crashes>>

(* emit, then reread of the range before, or the end of the iteration.     *)
EmitRange ==
    /\ pc = "emit"
    /\ sent' = sent \cup {[from |-> rFrom, to |-> rTo, reread |-> reread]}
    /\ IF ReorgDetected
       THEN /\ rFrom' = queue[latest].from /\ rTo' = queue[latest].to
            /\ pc' = "delete"
            /\ UNCHANGED <<from, reorg, reread>>
       ELSE /\ from' = to + 1
            /\ pc' = "loop"
            /\ rFrom' = 0 /\ rTo' = 0 /\ reorg' = FALSE /\ reread' = FALSE
    /\ logs' = {} /\ parent' = NoHash /\ toHash' = NoHash /\ latest' = 0
    /\ UNCHANGED <<chainVars, events, queue, to, blockTo, awaiting, taskVars, crashes>>

DeleteNothing ==
    /\ pc = "delete"
    /\ pc' = "softDelete"
    /\ UNCHANGED <<chainVars, storeVars, loopVars, callVars, readVars, taskVars, crashes>>

(* events.deleteByBlockRange.                                              *)
DeleteRange ==
    /\ pc = "delete"
    /\ events' = {e \in events : ~(rFrom <= e[1] /\ e[1] <= rTo)}
    /\ pc' = "softDelete"
    /\ UNCHANGED <<chainVars, queue, sent, loopVars, callVars, readVars, taskVars, crashes>>

(* blockQueue.softDelete, then read(range, true, true).                    *)
SoftDelete ==
    /\ pc = "softDelete"
    /\ queue' = SoftDeleted(rFrom, rTo)
    /\ CallRead(rFrom, rTo, TRUE, TRUE)
    /\ UNCHANGED <<chainVars, events, sent, loopVars, readVars, taskVars, crashes>>

-----------------------------------------------------------------------------
(* Where the data is incomplete by design.                                 *)

InLoop == pc \in {"loop", "poll", "wait", "fetch", "store", "blocks", "record", "emit",
                  "delete", "softDelete"}

Startup == pc \in {"head", "latest", "clean"}

(* A range deleted by reread and not yet stored and recorded again.        *)
Rereading == pc = "softDelete" \/ (pc \in {"fetch", "store", "blocks"} /\ reread /\ reorg)

(* The first block the loop has still to store.                            *)
Cursor == IF pc \in {"blocks", "record", "emit", "delete", "softDelete"} \/ (reread /\ reorg)
          THEN to + 1 ELSE from

(* The loop has still to store events of blocks that blocks_queue already  *)
(* lists: they were cut off by Clean or by DeleteRange.                    *)
InRecovery ==
    \/ Rereading
    \/ /\ InLoop /\ ~Rewriting
       /\ \E i \in DOMAIN queue : ~queue[i].isDeleted /\ queue[i].to >= Cursor

-----------------------------------------------------------------------------
(* The operator's requests.                                                *)

(* startReaderTask, once the loop has left the task before (a start that   *)
(* comes while the loop still winds a stopped task down: see ReaderTasks). *)
StartTask(t) ==
    /\ pc = "idle" /\ ~task.inProgress /\ requests < MaxRequests
    /\ task' = [from |-> t.from, to |-> t.to, type |-> t.type, inProgress |-> TRUE]
    /\ aborted' = FALSE
    /\ requests' = requests + 1
    /\ UNCHANGED <<chainVars, storeVars, loopVars, callVars, readVars, pc, crashes>>

(* stopReaderTask aborts first: a live loop that waits for blocks rejects  *)
(* and the process exits before the state log is updated.                  *)
StopTask ==
    /\ pc # "down" /\ task.inProgress /\ requests < MaxRequests
    /\ InterruptRecovery \/ ~(InRecovery \/ Startup)
    /\ requests' = requests + 1
    /\ aborted' = TRUE
    /\ IF pc = "wait"
       THEN Exit /\ UNCHANGED task
       ELSE /\ task' = [task EXCEPT !.inProgress = FALSE]
            /\ UNCHANGED <<loopVars, callVars, readVars, pc>>
    /\ UNCHANGED <<chainVars, storeVars, crashes>>

(* A crash, or a call to the node or to MongoDB that fails for good.       *)
Crash ==
    /\ pc # "down" /\ crashes < MaxCrashes
    /\ InterruptRecovery \/ ~InRecovery
    /\ crashes' = crashes + 1
    /\ Exit
    /\ UNCHANGED <<chainVars, storeVars, taskVars>>

(* The supervisor starts the process again: a new AbortController, and     *)
(* runLoop finds the task in the state log.                                *)
Restart ==
    /\ pc = "down"
    /\ pc' = "idle" /\ aborted' = FALSE
    /\ UNCHANGED <<chainVars, storeVars, loopVars, callVars, readVars, task, requests, crashes>>

-----------------------------------------------------------------------------
(* The chain (external).                                                   *)

Mine ==
    /\ head < MaxBlock
    /\ head' = head + 1
    /\ fork' = [fork EXCEPT ![head + 1] = reorgs]
    /\ UNCHANGED <<storeVars, loopVars, callVars, readVars, taskVars, pc, crashes, reorgs>>

(* Blocks b..head are replaced; the chain never gets shorter and grows on. *)
Reorg(b) ==
    /\ reorgs < MaxReorgs /\ 0 < b /\ b <= head /\ head < MaxBlock
    /\ ReorgAnytime \/ pc = "wait"
    /\ reorgs' = reorgs + 1
    /\ fork' = [x \in Blocks |-> IF b <= x /\ x <= head THEN reorgs + 1 ELSE fork[x]]
    /\ UNCHANGED <<head, storeVars, loopVars, callVars, readVars, taskVars, pc, crashes>>

-----------------------------------------------------------------------------
ReaderStep ==
    \/ PickTask \/ GetHead \/ GetLatest \/ Clean
    \/ LoopAborted \/ RangeStep \/ RangeFinish \/ LiveStep \/ PollNew \/ PollWait \/ WakeUp
    \/ FetchEvents \/ StoreEvents \/ GetFromBlock \/ GetToBlock \/ RecordRange \/ EmitRange
    \/ DeleteRange \/ SoftDelete

Next ==
    \/ ReaderStep
    \/ \E t \in Tasks : StartTask(t)
    \/ StopTask
    \/ Crash \/ Restart
    \/ Mine
    \/ \E b \in Blocks : Reorg(b)

Spec == Init /\ [][Next]_vars

(* The event loop runs the reader's continuations, the supervisor restarts *)
(* the process, the chain grows to its bound and the operator starts tasks *)
(* it may start.  Nothing makes a crash, a stop or a reorganisation happen.*)
Fairness ==
    /\ WF_vars(ReaderStep)
    /\ WF_vars(Restart)
    /\ WF_vars(Mine)
    /\ WF_vars(\E t \in Tasks : StartTask(t))

FairSpec == Spec /\ Fairness

-----------------------------------------------------------------------------
(* Properties.                                                             *)

PCs == {"idle", "head", "latest", "clean", "loop", "poll", "wait", "fetch", "store", "blocks",
        "record", "emit", "delete", "softDelete", "down"}

Hashes == {NoHash} \cup (Nat \X Nat)

(* The type of every variable; what the reader records and announces are   *)
(* blocks of the chain.                                                    *)
TypeOK ==
    /\ head \in Blocks /\ fork \in [Blocks -> Nat]
    /\ events \subseteq Blocks \X Nat
    /\ queue \in Seq(Doc)
    /\ sent \subseteq Message
    /\ task \in TaskDoc
    /\ aborted \in BOOLEAN /\ pc \in PCs
    /\ from \in Nat /\ to \in Nat /\ blockTo \in Nat
    /\ rFrom \in Nat /\ rTo \in Nat /\ reorg \in BOOLEAN /\ reread \in BOOLEAN
    /\ logs \subseteq Blocks \X Nat /\ awaiting \subseteq {"from", "to"}
    /\ parent \in Hashes /\ toHash \in Hashes
    /\ latest \in Nat /\ (latest # 0 => latest \in DOMAIN queue)
    /\ requests \in Nat /\ crashes \in Nat /\ reorgs \in Nat

(* blocks_queue never lists a block nobody has mined, nor an empty range:  *)
(* the loop computes a range with the head it has read some awaits before  *)
(* the range is saved, and restarts and re-reads take ranges from the      *)
(* collection again.  (That no request asks for more than the chain has is *)
(* an assumption of this module.)                                          *)
RangesMined == \A i \in DOMAIN queue : queue[i].from <= queue[i].to /\ queue[i].to <= head

(* The blocks whose events may be missing although blocks_queue lists      *)
(* them: the range being re-read, and what Clean has cut off above the     *)
(* cursor and the loop is about to store again.                            *)
Lost(b) ==
    \/ Rereading /\ rFrom <= b /\ b <= rTo
    \/ /\ InLoop /\ ~Rewriting
       /\ b >= Cursor
       /\ \A e \in events : e[1] < Cursor

(* blocks_queue lists "the block range, which we have already checked for  *)
(* events" and `events` has no hole there: every transfer block of a live  *)
(* range has events, through crashes between the two writes, restarts that *)
(* cut `events` back, stopped tasks, REINDEX tasks and reorganisations.    *)
RecordedRangesComplete ==
    \A i \in DOMAIN queue : ~queue[i].isDeleted =>
        \A b \in TransferBlocks :
            queue[i].from <= b /\ b <= queue[i].to =>
                (\E e \in events : e[1] = b) \/ Lost(b)

Covered(b) == \E i \in DOMAIN queue : ~queue[i].isDeleted /\ queue[i].from <= b /\ b <= queue[i].to

(* The loop leaves no block behind: whatever lies below its cursor belongs *)
(* to a live range (all tasks start at block 0), so that no restart can    *)
(* resume above a block nobody has read.                                   *)
NoBlockSkipped ==
    InLoop /\ ~Rewriting =>
        \A b \in Blocks : b < Cursor =>
            \/ Covered(b)
            \/ Rereading /\ rFrom <= b /\ b <= rTo
            \/ pc \in {"blocks", "record"} /\ rFrom <= b /\ b <= rTo

(* The recorded hash vouches for the events: when a live range's toHash is *)
(* still the hash of that block, `events` holds exactly the canonical logs *)
(* of each of its blocks, none of an abandoned fork, also when the reader  *)
(* was stopped or restarted between the writes or in a chain of re-reads.  *)
HashVouchesForEvents ==
    \A i \in DOMAIN queue :
        ~queue[i].isDeleted /\ queue[i].toHash = Hash(queue[i].to) =>
            \A b \in queue[i].from..queue[i].to :
                {e \in events : e[1] = b} = LogsOf(b, b) \/ Lost(b)

(* Once the chain is final, `events` becomes and stays exactly the logs of *)
(* the canonical chain: every reorganisation is found and repaired.        *)
EventuallyCanonical == <>[](events = LogsOf(0, MaxBlock))

(* `events` "contains all the events that we found in the blockchain": when *)
(* the live loop has reached the head and waits, no block below it is      *)
(* without its events.                                                     *)
CaughtUpComplete ==
    pc = "wait" => \A b \in TransferBlocks : b <= to => \E e \in events : e[1] = b

(* Every live range of blocks_queue has been announced.                    *)
Announced == \A i \in DOMAIN queue :
                queue[i].isDeleted
                  \/ \E m \in sent : m.from = queue[i].from /\ m.to = queue[i].to

(* Every range the reader has recorded is announced to the indexer in the  *)
(* end.                                                                    *)
EventuallyAnnounced == <>[]Announced

(* Every event of the chain is in `events` in the end.                     *)
EventuallyAllSaved == <>[](\A b \in TransferBlocks : \E e \in events : e[1] = b)
=============================================================================
