------------------------------ MODULE LazyMint ------------------------------
(***************************************************************************)
(* src/app-lazy-mint-indexer: a command that reads a span of blocks again, *)
(* range by range, for the events that are not in the collection yet, and  *)
(* hands the new ones to the token processor.  The collection lazyMint-    *)
(* BlocksQueue says where to resume.  Meanwhile the events reader of       *)
(* another process may store events.  The event of a block is the block.   *)
(***************************************************************************)
EXTENDS Naturals, FiniteSets, FiniteSetsExt

CONSTANTS
    Chain,          \* the blocks with an event, those outside the span too
    From, To,       \* --block-number-from, --block-number-to
    Limits,         \* the values of --limit
    MaxRuns         \* bound: how often the command is run

ASSUME LazyMintAssumption ==
    /\ From \in Nat /\ To \in Nat /\ From <= To
    /\ Chain \subseteq Nat
    /\ Limits \subseteq Nat \ {0}
    /\ MaxRuns \in Nat

VARIABLES
    limit,
    lazyStage,      \* what runLoop and read are at
    block,          \* i, the first block of the range
    events,         \* collection events
    recorded,       \* collection lazyMintBlocksQueue: pairs from, to
    found,          \* eventsDifference
    processed,      \* events given to the token processor
    byReader,       \* observation: events the events reader has stored
    cut,            \* observation: events saved, not processed and not deleted
    runs

lazyVars == <<limit, lazyStage, block, events, recorded, found, processed, byReader, cut, runs>>
outcomes == <<processed, byReader, cut>>

LazyTypeOK ==
    /\ limit \in Limits \cup {0}
    /\ lazyStage \in {"off", "latest", "delete", "fetch", "save", "record", "process", "done"}
    /\ block \in Nat
    /\ UNION {events, found, processed, byReader, cut} \subseteq Chain
    /\ recorded \subseteq Nat \X Nat
    /\ runs \in 0..MaxRuns

LazyInit ==
    /\ limit = 0 /\ lazyStage = "off" /\ block = From
    /\ events = {} /\ recorded = {} /\ found = {}
    /\ processed = {} /\ byReader = {} /\ cut = {}
    /\ runs = 0

(* curTo.                                                                  *)
RangeTo == IF block + limit - 1 > To THEN To ELSE block + limit - 1

LazyStart(l) ==
    /\ limit = 0 /\ runs < MaxRuns
    /\ limit' = l /\ lazyStage' = "latest" /\ runs' = runs + 1
    /\ UNCHANGED <<block, events, recorded, found, outcomes>>

(* getLatest(to)                                                           *)
RecordedBelow == {r \in recorded : r[2] < To}

GetLatest ==
    /\ lazyStage = "latest"
    /\ IF RecordedBelow = {}
       THEN block' = From /\ lazyStage' = "fetch"
       ELSE block' = Max({r[2] : r \in RecordedBelow}) + 1 /\ lazyStage' = "delete"
    /\ UNCHANGED <<limit, events, recorded, found, outcomes, runs>>

(* Mutation targets: blockTo computed without the - 1 of actualLimit, and  *)
(* the deletion left out.                                                  *)
WideWindow == block..(block + limit)

NoWindow == {}

(* deleteByBlockRange(blockFrom, blockTo): blockTo is not cut off at To.   *)
Window == block..(block + limit - 1)

DeleteWindow ==
    /\ lazyStage = "delete"
    /\ events' = events \ Window
    /\ lazyStage' = "fetch"
    /\ UNCHANGED <<limit, block, recorded, found, outcomes, runs>>

(* read: the logs of the range, less what getByBlockRange finds.           *)
FetchNew ==
    /\ lazyStage = "fetch"
    /\ found' = (Chain \cap (block..RangeTo)) \ events
    /\ lazyStage' = IF found' = {} THEN "record" ELSE "save"
    /\ UNCHANGED <<limit, block, events, recorded, outcomes, runs>>

(* bulkSave, then getWhereIdIn.                                            *)
SaveNew ==
    /\ lazyStage = "save"
    /\ found \cap events = {}
    /\ events' = events \cup found
    /\ lazyStage' = "record"
    /\ UNCHANGED <<limit, block, recorded, found, outcomes, runs>>

RecordRange ==
    /\ lazyStage = "record"
    /\ recorded' = recorded \cup {<<block, RangeTo>>}
    /\ lazyStage' = "process"
    /\ UNCHANGED <<limit, block, events, found, outcomes, runs>>

(* tokenProcessorProvider.process, and the next turn of the loop.          *)
ProcessNew ==
    /\ lazyStage = "process"
    /\ processed' = processed \cup found
    /\ found' = {}
    /\ block' = block + limit
    /\ lazyStage' = IF block + limit <= To THEN "fetch" ELSE "done"
    /\ UNCHANGED <<limit, events, recorded, byReader, cut, runs>>

(* Observation: where the next run resumes; it deletes what lies above.    *)
Spared(saved) ==
    {b \in saved : RecordedBelow = {} \/ b <= Max({r[2] : r \in RecordedBelow})}

(* The process ends: what it had saved but not yet processed is lost once  *)
(* a later run takes it for known.                                         *)
Ends(saved) ==
    /\ lazyStage' = "off"
    /\ cut' = cut \cup Spared(saved)
    /\ found' = {} /\ block' = From
    /\ UNCHANGED <<limit, recorded, processed, byReader, runs>>

(* The events reader was faster: insertOne meets a duplicate, what comes   *)
(* before it is saved, and the rejected command ends.                      *)
SaveMeetsDuplicate ==
    /\ lazyStage = "save"
    /\ found \cap events # {}
    /\ LET before == {b \in found : \A d \in found \cap events : b < d} IN
         /\ events' = events \cup before
         /\ Ends(before)

LazyCrash ==
    /\ lazyStage \notin {"off", "done"} /\ runs < MaxRuns
    /\ Ends(IF lazyStage \in {"record", "process"} THEN found ELSE {})
    /\ UNCHANGED events

(* The command is run again, with the same arguments.                      *)
LazyAgain ==
    /\ \/ lazyStage = "done"
       \/ lazyStage = "off" /\ limit # 0
    /\ runs < MaxRuns
    /\ lazyStage' = "latest" /\ block' = From /\ runs' = runs + 1
    /\ UNCHANGED <<limit, events, recorded, found, outcomes>>

(* External: the events reader stores the event of a block, once.          *)
ReaderStores(b) ==
    /\ limit # 0
    /\ b \notin events \cup byReader
    /\ events' = events \cup {b} /\ byReader' = byReader \cup {b}
    /\ UNCHANGED <<limit, lazyStage, block, recorded, found, processed, cut, runs>>

LazyStep ==
    \/ GetLatest \/ DeleteWindow \/ FetchNew
    \/ SaveNew \/ SaveMeetsDuplicate
    \/ RecordRange \/ ProcessNew

LazyNext ==
    \/ \E l \in Limits : LazyStart(l)
    \/ LazyStep
    \/ LazyCrash \/ LazyAgain
    \/ \E b \in Chain : ReaderStores(b)

-----------------------------------------------------------------------------
(* A command that has ended has left every event of the span stored and    *)
(* processed, unless the events reader found it or a run ended between     *)
(* saving and processing, and left it below where the next one resumed.    *)
LazySpanComplete ==
    lazyStage = "done" =>
       /\ Chain \cap (From..To) \subseteq events
       /\ Chain \cap (From..To) \subseteq processed \cup byReader \cup cut

(* When the limit divides the span, the deletion on resuming takes nothing *)
(* away from beyond the span that only the events reader has stored.       *)
BeyondSpanKept ==
    limit # 0 /\ (To + 1 - From) % limit = 0 => byReader \ (From..To) \subseteq events
=============================================================================
