---------------------------- MODULE PreContracts ----------------------------
(***************************************************************************)
(* src/app-pre-contracts: imports the mints of the contracts older than    *)
(* the token standards.  It walks over a span of blocks, stores the mints, *)
(* their contracts and their tokens, and sends READ_METADATA for each      *)
(* token that is new.  Nothing says how far it came: a restart begins at   *)
(* the first block.  A mint is its position in the logs, and its token.    *)
(***************************************************************************)
EXTENDS Naturals, FiniteSets

CONSTANTS
    Mints,
    BlockOf,            \* the block of a mint
    PreContract,        \* its contract
    PreFrom, PreTo,     \* blockNumberFrom, blockNumberTo
    PreLimit,           \* limit
    MaxPreFaults        \* bound: failed calls and crashes

ASSUME PreContractsAssumption ==
    /\ Mints \subseteq Nat
    /\ BlockOf \in [Mints -> Nat]
    /\ \A m, n \in Mints : m < n => BlockOf[m] <= BlockOf[n]
    /\ DOMAIN PreContract = Mints
    /\ PreFrom \in Nat /\ PreTo \in Nat /\ PreFrom <= PreTo
    /\ PreLimit \in Nat \ {0} /\ MaxPreFaults \in Nat

VARIABLES
    preStage,           \* what bootstrap is at
    rangeFrom, rangeTo, \* from, to
    pending,            \* the events of the range still to be worked on
    visited,            \* contracts: the map, in memory only
    preEvents,          \* mints in the collection events
    preContracts,       \* the contracts in their collection
    preTokens,          \* mints whose token is stored
    sent,               \* READ_METADATA messages per token
    failed,             \* observation: mints a logged error has left behind
    preFaults

importVars == <<preStage, rangeFrom, rangeTo, pending, visited>>
importedVars == <<preEvents, preContracts, preTokens, sent>>
preVars == <<importVars, importedVars, failed, preFaults>>

PreTypeOK ==
    /\ preStage \in {"off", "range", "events", "contract", "token", "emit", "done"}
    /\ rangeFrom \in Nat /\ rangeTo \in Nat
    /\ UNION {pending, preEvents, preTokens, failed} \subseteq Mints
    /\ visited \subseteq {PreContract[m] : m \in Mints}
    /\ preContracts \subseteq {PreContract[m] : m \in Mints}
    /\ sent \in [Mints -> Nat]
    /\ preFaults \in 0..MaxPreFaults

PreInit ==
    /\ preStage = "off" /\ rangeFrom = PreFrom /\ rangeTo = PreFrom
    /\ pending = {} /\ visited = {}
    /\ preEvents = {} /\ preContracts = {} /\ preTokens = {}
    /\ sent = [m \in Mints |-> 0]
    /\ failed = {} /\ preFaults = 0

PreFault == preFaults < MaxPreFaults /\ preFaults' = preFaults + 1

(* The event the loop is at.                                               *)
Current(m) == m \in pending /\ \A n \in pending : m <= n

PreStart ==
    /\ preStage = "off"
    /\ preStage' = "range"
    /\ UNCHANGED <<rangeFrom, rangeTo, pending, visited, importedVars, failed, preFaults>>

(* Mutation target: the next range from one block further on.              *)
InRangeAfter(m, from, to) == from < BlockOf[m] /\ BlockOf[m] < to

InRange(m, from, to) == from <= BlockOf[m] /\ BlockOf[m] <= to

(* to = to + limit, cut off, and getEthNodeTransferEvents: the mints from  *)
(* `from`, the block the range before has ended with, to `to`.             *)
NextRange ==
    /\ preStage = "range"
    /\ rangeTo' = IF rangeTo + PreLimit > PreTo THEN PreTo ELSE rangeTo + PreLimit
    /\ pending' = {m \in Mints : InRange(m, rangeFrom, rangeTo')}
    /\ preStage' = "events"
    /\ UNCHANGED <<rangeFrom, visited, importedVars, failed, preFaults>>

(* bulkSaveOrUpdate; an error is logged.                                   *)
SaveEvents ==
    /\ preStage = "events"
    /\ preStage' = "contract"
    /\ \/ preEvents' = preEvents \cup pending /\ UNCHANGED <<failed, preFaults>>
       \/ PreFault /\ failed' = failed \cup pending /\ UNCHANGED preEvents
    /\ UNCHANGED <<rangeFrom, rangeTo, pending, visited, preContracts, preTokens, sent>>

(* A contract is in the map before getContractName and insertOrUpdate,     *)
(* whose errors are logged.                                                *)
SaveContract(m) ==
    /\ preStage = "contract" /\ Current(m)
    /\ visited' = visited \cup {PreContract[m]}
    /\ preStage' = "token"
    /\ \/ /\ IF PreContract[m] \in visited
             THEN UNCHANGED preContracts
             ELSE preContracts' = preContracts \cup {PreContract[m]}
          /\ UNCHANGED <<failed, preFaults>>
       \/ /\ PreContract[m] \notin visited
          /\ PreFault
          /\ failed' = failed \cup {n \in Mints : PreContract[n] = PreContract[m]}
          /\ UNCHANGED preContracts
    /\ UNCHANGED <<rangeFrom, rangeTo, pending, preEvents, preTokens, sent>>

(* Mutation target: the message is sent for a token that was there before. *)
EmitAlways(m) == TRUE

(* upsertedCount === 1; modifiedCount is never 1 with $setOnInsert alone.  *)
Emits(m) == m \notin preTokens

(* getTokens and upsert; without its URI a token is skipped.               *)
SaveToken(m) ==
    /\ preStage = "token" /\ Current(m)
    /\ \/ /\ preTokens' = preTokens \cup {m}
          /\ IF Emits(m) THEN preStage' = "emit" /\ UNCHANGED pending
                         ELSE preStage' = "contract" /\ pending' = pending \ {m}
          /\ UNCHANGED <<failed, preFaults>>
       \/ /\ PreFault
          /\ failed' = failed \cup {m}
          /\ preStage' = "contract" /\ pending' = pending \ {m}
          /\ UNCHANGED preTokens
    /\ UNCHANGED <<rangeFrom, rangeTo, visited, preEvents, preContracts, sent>>

EmitMint(m) ==
    /\ preStage = "emit" /\ Current(m)
    /\ \/ sent' = [sent EXCEPT ![m] = @ + 1] /\ UNCHANGED <<failed, preFaults>>
       \/ PreFault /\ failed' = failed \cup {m} /\ UNCHANGED sent
    /\ preStage' = "contract" /\ pending' = pending \ {m}
    /\ UNCHANGED <<rangeFrom, rangeTo, visited, preEvents, preContracts, preTokens>>

(* Mutation target: the break left out, the loop ends above the last block *)
(* only, where the cut never lets it come.                                 *)
LoopEndsBeyond == rangeTo > PreTo

LoopEnds == rangeTo >= PreTo

RangeDone ==
    /\ preStage = "contract" /\ pending = {}
    /\ IF LoopEnds
       THEN preStage' = "done" /\ UNCHANGED rangeFrom
       ELSE preStage' = "range" /\ rangeFrom' = rangeTo
    /\ UNCHANGED <<rangeTo, pending, visited, importedVars, failed, preFaults>>

(* The logs cannot be fetched, or the process dies, and is started again.  *)
(* A stored token is not announced any more.                               *)
PreCrash ==
    /\ preStage \notin {"off", "done"}
    /\ PreFault
    /\ failed' = failed \cup (IF preStage = "emit" THEN {m \in pending : Current(m)} ELSE {})
    /\ preStage' = "off" /\ rangeFrom' = PreFrom /\ rangeTo' = PreFrom
    /\ pending' = {} /\ visited' = {}
    /\ UNCHANGED importedVars

PreStep ==
    \/ PreStart \/ NextRange \/ SaveEvents
    \/ \E m \in Mints : SaveContract(m) \/ SaveToken(m) \/ EmitMint(m)
    \/ RangeDone

PreNext == PreStep \/ PreCrash

-----------------------------------------------------------------------------
(* The ranges share the block between them and a restart reads all of them *)
(* again, and yet READ_METADATA is sent once for a token.                  *)
SentOnce == \A m \in Mints : sent[m] <= 1

(* At the end every mint of the span has its event, its contract and its   *)
(* token stored and was announced, or an error was logged for it.          *)
ImportComplete ==
    preStage = "done" =>
       \A m \in Mints :
          BlockOf[m] \in PreFrom..PreTo /\ m \notin failed =>
             /\ m \in preEvents \cap preTokens
             /\ PreContract[m] \in preContracts
             /\ sent[m] = 1
=============================================================================
