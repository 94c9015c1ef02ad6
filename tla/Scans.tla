------------------------------- MODULE Scans -------------------------------
(***************************************************************************)
(* The commands that walk over a whole collection page by page: those of   *)
(* src/tokens-reader, over tokens, and src/app-opensearch-indexer, over    *)
(* metadata and contracts.  A page holds the rows that follow the last row *)
(* of the page before, in the order of a key that no two rows share:       *)
(* (createdAt, _id), (block, _id) or _id.  A row is its place in that      *)
(* order; other processes insert rows anywhere during the scan.            *)
(***************************************************************************)
EXTENDS Naturals, FiniteSets

CONSTANTS
    Keys,           \* the rows there may be
    Programs,       \* the commands that are run, see Commands
    PageSize,       \* batchLimit, countOnPage
    MissingOnly,    \* --missing-metadata
    HasUri,         \* rows of tokens with a token URI
    HasMetadata,    \* rows of tokens with metadata
    HasContract,    \* rows of tokens whose contract is stored
    Outside,        \* rows at or above the block where the count ends
    Mappable,       \* rows a document can be made of
    Attempts,       \* how often bulkWithRetry tries
    MaxScanFaults   \* bound: failed calls

Commands == {"fillMetadataQueue", "fillContractQueue", "countTokenURIs",
             "indexMetadata", "indexContracts"}

ASSUME ScansAssumption ==
    /\ Keys \subseteq Nat \ {0} /\ IsFiniteSet(Keys)
    /\ Programs \subseteq Commands
    /\ PageSize \in Nat \ {0} /\ MissingOnly \in BOOLEAN
    /\ Attempts \in Nat \ {0} /\ MaxScanFaults \in Nat

VARIABLES
    program,
    scanStage,      \* what the command is at
    rows,           \* the collection
    cursor,         \* the last row of the last page, 0 before the first
    batch,          \* rows of the page still to be worked on
    messaged,       \* rows a message was sent for
    stale,          \* rows with a document of an earlier run in the index
    index,          \* rows with a document of this run
    attempt,        \* of the bulk request for the page
    indexedItems,   \* indexedItemsCount
    reported,       \* failedMetadataIds
    seen,           \* observation: how often a row was in a page
    initial,        \* observation: the rows there were at the start
    failures,       \* observation: rows with a logged error
    scanFaults

pageVars == <<cursor, batch, attempt, messaged>>
indexVars == <<stale, index, indexedItems, reported>>
scanVars == <<program, scanStage, rows, pageVars, indexVars, seen,
              initial, failures, scanFaults>>

Indexers == {"indexMetadata", "indexContracts"}

ScanTypeOK ==
    /\ program \in Commands \cup {"none"}
    /\ scanStage \in {"off", "clean", "fetch", "rows", "bulk", "done", "died"}
    /\ UNION {rows, batch, messaged, stale, index, reported, initial, failures} \subseteq Keys
    /\ cursor \in Keys \cup {0}
    /\ attempt \in 0..Attempts - 1 /\ indexedItems \in Nat
    /\ seen \in [Keys -> Nat]
    /\ scanFaults \in 0..MaxScanFaults

ScanInit ==
    /\ program = "none" /\ scanStage = "off"
    /\ rows = {} /\ cursor = 0 /\ batch = {} /\ messaged = {} /\ attempt = 0
    /\ stale = {} /\ index = {} /\ indexedItems = 0 /\ reported = {}
    /\ seen = [k \in Keys |-> 0]
    /\ initial = {} /\ failures = {} /\ scanFaults = 0

ScanFault == scanFaults < MaxScanFaults /\ scanFaults' = scanFaults + 1

(* The indexers find the index as the run before has left it.              *)
ScanStart(p, present, old) ==
    /\ scanStage = "off"
    /\ old = {} \/ p \in Indexers
    /\ program' = p /\ stale' = old
    /\ rows' = present /\ initial' = present
    /\ scanStage' = IF p \in Indexers THEN "clean" ELSE "fetch"
    /\ UNCHANGED <<pageVars, index, indexedItems, reported, seen, failures, scanFaults>>

(* cleanIndex.  When removeIndex fails the metadata indexer goes on, with  *)
(* the old documents in the index, and the contracts indexer throws; when  *)
(* initIndex fails both throw.  What one of them throws ends the process,  *)
(* and so the other one, which Promise.all runs beside it.                 *)
CleanIndex ==
    /\ scanStage = "clean"
    /\ \/ stale' = {} /\ scanStage' = "fetch" /\ UNCHANGED scanFaults
       \/ ScanFault /\ program = "indexMetadata" /\ scanStage' = "fetch" /\ UNCHANGED stale
       \/ ScanFault /\ stale' \in {{}, stale} /\ scanStage' = "died"
    /\ UNCHANGED <<program, rows, pageVars, index, indexedItems, reported, seen,
                   initial, failures>>

Selected(k) == program = "countTokenURIs" => k \notin Outside

(* Mutation target: the filter of a key that rows may share.               *)
AfterWithTies(k) == k >= cursor

After(k) == k > cursor

Remaining == {k \in rows : After(k) /\ Selected(k)}

(* Mutation target: a page in no order.                                    *)
IsAnyPage(p) == p = Remaining \/ Cardinality(p) = PageSize

(* getCreatedAfter2, listForBlockRange, getMetadataList, getContractsList: *)
(* sorted, the first PageSize.                                             *)
IsPage(p) ==
    /\ \/ Cardinality(p) = PageSize
       \/ p = Remaining /\ Cardinality(p) < PageSize
    /\ \A k \in p, l \in Remaining \ p : k < l

(* --missing-metadata true leaves the rows with metadata out, after the    *)
(* cursor was set to the end of the page.                                  *)
Filtered(k) ==
    /\ MissingOnly /\ k \in HasMetadata
    /\ program \in {"fillMetadataQueue", "countTokenURIs"}

FetchPage(p, last) ==
    /\ scanStage = "fetch"
    /\ p \subseteq Remaining /\ IsPage(p)
    /\ last \in p /\ \A k \in p : k <= last
    /\ cursor' = last
    /\ batch' = {k \in p : ~Filtered(k)}
    /\ attempt' = 0
    /\ seen' = [k \in Keys |-> IF k \in p THEN seen[k] + 1 ELSE seen[k]]
    /\ scanStage' = IF program \in Indexers THEN "bulk" ELSE "rows"
    /\ UNCHANGED <<program, rows, messaged, indexVars, initial, failures, scanFaults>>

NoMoreRows ==
    /\ scanStage = "fetch" /\ Remaining = {}
    /\ scanStage' = "done"
    /\ UNCHANGED <<program, rows, pageVars, indexVars, seen, initial, failures, scanFaults>>

(* fillMetadataQueue and fillContractQueue send a message for a row that   *)
(* needs one; countTokenURIs only counts.                                  *)
Needs(k) ==
    CASE program = "fillMetadataQueue" -> k \in HasUri
      [] program = "fillContractQueue" -> k \notin HasUri
      [] OTHER -> FALSE

ContractMissing(k) == program = "fillContractQueue" /\ Needs(k) /\ k \notin HasContract

NextRow(k) == scanStage = "rows" /\ k \in batch /\ \A l \in batch : k <= l

HandleRow(k) ==
    /\ NextRow(k) /\ ~ContractMissing(k)
    /\ batch' = batch \ {k}
    /\ messaged' = IF Needs(k) THEN messaged \cup {k} ELSE messaged
    /\ UNCHANGED <<program, scanStage, rows, cursor, attempt, indexVars, seen, initial, failures, scanFaults>>

(* The broker refuses: the error is logged.                                *)
EmitFails(k) ==
    /\ NextRow(k) /\ Needs(k) /\ ~ContractMissing(k)
    /\ ScanFault
    /\ batch' = batch \ {k}
    /\ failures' = failures \cup {k}
    /\ UNCHANGED <<program, scanStage, rows, cursor, attempt, messaged, indexVars, seen, initial>>

(* fillContractQueue throws, and nothing catches it.                       *)
NoContract(k) ==
    /\ NextRow(k) /\ ContractMissing(k)
    /\ scanStage' = "died"
    /\ UNCHANGED <<program, rows, pageVars, indexVars, seen, initial, failures, scanFaults>>

RowsDone ==
    /\ scanStage = "rows" /\ batch = {}
    /\ scanStage' = "fetch"
    /\ UNCHANGED <<program, rows, pageVars, indexVars, seen, initial, failures, scanFaults>>

(* mapToSearchIndex fails for metadata that is no JSON object.             *)
Indexable(k) == program = "indexMetadata" => k \in Mappable

Documents == {k \in batch : Indexable(k)}

NothingToIndex ==
    /\ scanStage = "bulk" /\ Documents = {}
    /\ scanStage' = "fetch"
    /\ UNCHANGED <<program, rows, pageVars, indexVars, seen, initial, failures, scanFaults>>

(* Every document was created: result.errors is false.                     *)
BulkSucceeds ==
    /\ scanStage = "bulk" /\ Documents # {}
    /\ Documents \cap (stale \cup index) = {}
    /\ index' = index \cup Documents
    /\ indexedItems' = IF program = "indexMetadata"
                       THEN indexedItems + Cardinality(Documents) ELSE indexedItems
    /\ scanStage' = "fetch"
    /\ UNCHANGED <<program, rows, pageVars, stale, reported, seen, initial, failures, scanFaults>>

(* Mutation target: an attempt that failed for good is not reported.       *)
ReportNothing == UNCHANGED reported

ReportPage == reported' = reported \cup batch

GivesUp == attempt + 1 >= Attempts

(* After an error: the metadata indexer tries the whole page again until   *)
(* it gives it up, the contracts indexer only logs it.                     *)
AfterBulkError ==
    IF program = "indexMetadata"
    THEN IF GivesUp
         THEN scanStage' = "fetch" /\ ReportPage /\ UNCHANGED <<attempt, failures>>
         ELSE attempt' = attempt + 1 /\ UNCHANGED <<scanStage, reported, failures>>
    ELSE scanStage' = "fetch" /\ failures' = failures \cup batch /\ UNCHANGED <<attempt, reported>>

(* Some documents could not be created, or none could.                     *)
BulkPartlyFails ==
    /\ scanStage = "bulk" /\ Documents # {}
    /\ ScanFault
    /\ \E created \in SUBSET (Documents \ stale) : index' = index \cup created
    /\ AfterBulkError
    /\ UNCHANGED <<program, rows, cursor, batch, messaged, stale, indexedItems, seen, initial>>

(* `create` meets documents of an earlier attempt or run, which stay as    *)
(* they are: an error each.                                                *)
BulkMeetsDocuments ==
    /\ scanStage = "bulk" /\ Documents \cap (stale \cup index) # {}
    /\ index' = index \cup (Documents \ stale)
    /\ AfterBulkError
    /\ UNCHANGED <<program, rows, cursor, batch, messaged, stale, indexedItems, seen, initial,
                   scanFaults>>

(* External: the pipeline inserts a row.                                   *)
InsertRow(k) ==
    /\ scanStage \notin {"off", "done", "died"} /\ k \notin rows
    /\ rows' = rows \cup {k}
    /\ UNCHANGED <<program, scanStage, pageVars, indexVars, seen, initial, failures, scanFaults>>

(* Where a call that rejects ends the process, of the command itself or of *)
(* the indexer beside it.                                                  *)
MayThrow ==
    \/ scanStage = "fetch"
    \/ scanStage = "bulk" /\ program \in Indexers
    \/ scanStage = "rows" /\ program = "fillContractQueue"

(* Nothing catches it.                                                     *)
ScanDies ==
    /\ MayThrow
    /\ ScanFault
    /\ scanStage' = "died"
    /\ UNCHANGED <<program, rows, pageVars, indexVars, seen, initial, failures>>

ScanStep ==
    \/ CleanIndex
    \/ \E p \in SUBSET Keys, last \in Keys : FetchPage(p, last)
    \/ NoMoreRows
    \/ \E k \in Keys : HandleRow(k) \/ NoContract(k)
    \/ RowsDone
    \/ NothingToIndex \/ BulkSucceeds \/ BulkMeetsDocuments

ScanNext ==
    \/ \E p \in Programs, present, old \in SUBSET Keys : ScanStart(p, present, old)
    \/ ScanStep
    \/ BulkPartlyFails
    \/ ScanDies
    \/ \E k \in Keys : InsertRow(k) \/ EmitFails(k)

-----------------------------------------------------------------------------
(* A scan puts no row into two pages.  When it has ended, every row that   *)
(* was there at the start has been in one, whatever was inserted before    *)
(* and behind the cursor meanwhile, and has got the message it needs,      *)
(* unless an error was logged for it.                                      *)
ScanExact ==
    /\ \A k \in Keys : seen[k] <= 1
    /\ scanStage = "done" =>
          \A k \in initial :
             /\ Selected(k) => seen[k] = 1
             /\ Needs(k) /\ ~Filtered(k) => k \in messaged \cup failures

(* A row that this run has made no document of was reported, also when the *)
(* index was not emptied: an old document does not stand for it.           *)
IndexedOrReported ==
    scanStage = "done" /\ program \in Indexers =>
       /\ {k \in initial : Indexable(k)} \subseteq index \cup reported \cup failures
       /\ indexedItems <= Cardinality(index)
=============================================================================
