------------------------------ MODULE Pipeline ------------------------------
(***************************************************************************)
(* The processes between the events in MongoDB and the metadata of every   *)
(* token, composed: the indexer, the contract reader, the metadata reader, *)
(* and what sends messages again.  They share the collections and queues   *)
(* of Stores, and each step belongs to one of them.                        *)
(***************************************************************************)
EXTENDS TokenProcessor, ContractReader, MetadataReader, Producers

vars == <<storeVars, indexerVars, crTasks, mrVars, producerVars>>

TypeOK ==
    /\ StoresTypeOK
    /\ IndexerTypeOK
    /\ CRTypeOK
    /\ MRTypeOK
    /\ ProducersTypeOK

Init ==
    /\ StoresInit
    /\ IndexerInit
    /\ CRInit
    /\ MRInit
    /\ ProducersInit

InFlight(t) ==
    \/ Task(t, "emit") \in tasks
    \/ Ref(t) \in contractsQueue \cup metadataQueue
    \/ \E x \in crTasks \cup mrTasks : x.of = Ref(t)

(* RabbitMQ restarts: queues declared with durable: false are gone, and    *)
(* so are the deliveries that wait for an acknowledgement.  An indexer     *)
(* that was stuck on one connects again and receives.                      *)
BrokerRestart ==
    LET gone == blocksQueue \cup (IF stuck THEN unacked ELSE {})
        waiting == UNION {EventsOf[r] \cup ContractsOf(r) : r \in gone} IN
    /\ gone \cup contractsQueue \cup metadataQueue # {}
    /\ Fault({ref[1] : ref \in contractsQueue \cup metadataQueue} \cup waiting)
    /\ blocksQueue' = {} /\ contractsQueue' = {} /\ metadataQueue' = {}
    /\ unacked' = {} /\ stuck' = FALSE
    /\ range' = IF stuck THEN NoRange ELSE range
    /\ UNCHANGED <<collections, served, tasks, known, announced, finished>>

Indexer == IndexerNext /\ UNCHANGED <<crTasks, mrVars, producerVars>>
ReadContracts == CRNext /\ UNCHANGED <<indexerVars, mrVars, producerVars>>
ReadMetadata == MRNext /\ UNCHANGED <<indexerVars, crTasks, producerVars>>
Produce == ProducersNext /\ UNCHANGED <<indexerVars, crTasks, mrVars>>
Environment ==
    \/ BrokerRestart /\ UNCHANGED <<crTasks, mrVars, producerVars>>
    \/ \E t \in Tokens : Republish(t)
                         /\ UNCHANGED <<indexerVars, crTasks, mrVars, producerVars>>

Next == Indexer \/ ReadContracts \/ ReadMetadata \/ Produce \/ Environment

(* Every process works on, at one thing or another.                        *)
Fairness ==
    /\ WF_vars(IndexerStep /\ UNCHANGED <<crTasks, mrVars, producerVars>>)
    /\ WF_vars(CRWork /\ UNCHANGED <<indexerVars, mrVars, producerVars>>)
    /\ WF_vars(MRWork /\ UNCHANGED <<indexerVars, crTasks, producerVars>>)

Spec == Init /\ [][Next]_vars

FairSpec == Spec /\ Fairness

-----------------------------------------------------------------------------
(* PROPERTIES                                                              *)

(* A token is announced at most once, however often the range is delivered *)
(* and however the ranges that mention it follow each other: only the      *)
(* upsert that inserted it leads to READ_TOKEN.                            *)
NotAnnouncedTwice == \A t \in Tokens : announced[t] <= 1

(* An acknowledged range is not delivered again, so its tokens are stored, *)
(* unless a failed upsert was logged and forgotten.                        *)
DoneRangesStored ==
    \A r \in finished : \A t \in EventsOf[r] : Stored(t) \/ t \in lost

Readable(t) == UriOf[t] # "" /\ HasReader(UriOf[t])

(* No process drops a token on its own: a stored token whose metadata was  *)
(* never looked for is still on its way, or a fault has taken it away.     *)
NothingStranded ==
    \A t \in Tokens :
       Stored(t) /\ Readable(t) /\ t \notin lost =>
          InFlight(t) \/ tokens[t].status # "undefined"

(* Metadata marked as available is stored, unless the data was dropped:    *)
(* saving it failed, or it came from a fallback gateway.                   *)
AvailableIsStored ==
    \A t \in Tokens :
       Stored(t) /\ t \notin dropped =>
          (tokens[t].status = "available" => metadata[Ref(t)] # NoMetadata)

(* The refinement: the stage of a token as the collections show it.        *)
StageOf(t) ==
    CASE ~Stored(t) -> "unknown"
      [] Stored(t) /\ metadata[Ref(t)] # NoMetadata -> "read"
      [] Stored(t) /\ metadata[Ref(t)] = NoMetadata ->
            IF tokens[t].tokenUri = "" THEN "indexed" ELSE "located"

Lifecycle == INSTANCE TokenLifecycle WITH stage <- [t \in Tokens |-> StageOf(t)]

(* Whatever is sent, sent again or lost, the collections take every token  *)
(* through the stages of TokenLifecycle, one after the other.              *)
ImplementsLifecycle == Lifecycle!LifecycleSpec

(* Every token of an event ends up stored and its metadata looked for,     *)
(* once the faults have come to an end, or a fault has taken it away, or   *)
(* it is not stored yet and the indexer is stuck, which only a restart of  *)
(* the indexer or of the broker ends.                                      *)
EventuallySettled ==
    \A t \in UNION {EventsOf[r] : r \in Ranges} :
       <>[](\/ t \in lost
            \/ stuck /\ ~Stored(t)
            \/ Stored(t) /\ (Readable(t) => tokens[t].status # "undefined"))

(* 'Force refresh token by chain name, contract address and token id': the *)
(* metadata of a refreshed token is what its URI served at the refresh.    *)
RefreshTakesEffect ==
    \A t \in Tokens :
       (/\ refreshed[t] # NoMetadata
        /\ ~InFlight(t) /\ refreshing = NoRefresh
        /\ t \notin lost \cup dropped
        /\ Stored(t) /\ tokens[t].status = "available") =>
           metadata[Ref(t)] >= refreshed[t]
=============================================================================
