------------------------------- MODULE Stores -------------------------------
(***************************************************************************)
(* The MongoDB collections and the queues through which the indexer, the   *)
(* contract reader, the metadata reader and the tools that feed them work  *)
(* together, and the repository operations they use.  Queues are not       *)
(* durable; copies of one message that wait in the same queue are merged   *)
(* (a copy that is handled later is covered by sending it later).          *)
(***************************************************************************)
EXTENDS Naturals, FiniteSets

CONSTANTS
    Contracts, Tokens,
    ContractOf,     \* the contract a token belongs to
    UriOf,          \* what the contract answers for the token's URI, "" or a kind
    Forms,          \* ways to write an address; messages carry one
    Checksum,       \* the form the stored ids use
    Overwrites,     \* the metadata repository: TRUE for S3, FALSE for MongoDB
    MaxVersion,     \* bound: what a URI serves changes this often
    MaxFaults,      \* bound: crashes and failed calls
    NoToken, NoMetadata

Status == {"undefined", "available", "unavailable", "receivable"}
UriValues == {"", "ipfs", "gateway", "https", "data", "other"}
Row == [tokenUri : UriValues, status : Status]
Refs == Tokens \X Forms
ContractRefs == Contracts \X Forms
Ref(t) == <<t, Checksum>>

ASSUME StoresAssumption ==
    /\ ContractOf \in [Tokens -> Contracts]
    /\ UriOf \in [Tokens -> UriValues]
    /\ Tokens \cap Contracts = {}
    /\ Checksum \in Forms
    /\ Overwrites \in BOOLEAN
    /\ MaxVersion \in Nat /\ MaxFaults \in Nat
    /\ NoMetadata \notin Nat /\ NoToken \notin Row

VARIABLES
    contracts,      \* collection contracts: "absent", "unnamed" or "named"
    tokens,         \* collection tokens: a row or NoToken
    metadata,       \* metadata repository: the version stored under an id
    contractsQueue, \* READ_CONTRACT and READ_TOKEN messages
    metadataQueue,  \* READ_METADATA messages
    served,         \* the version of the metadata a token's URI serves
    lost,           \* observation: what a fault has taken out of the pipeline
    faults          \* how many faults have happened

collections == <<contracts, tokens, metadata>>
queues == <<contractsQueue, metadataQueue>>
storeVars == <<collections, queues, served, lost, faults>>

StoresTypeOK ==
    /\ contracts \in [Contracts -> {"absent", "unnamed", "named"}]
    /\ tokens \in [Tokens -> Row \cup {NoToken}]
    /\ metadata \in [Refs -> (0..MaxVersion) \cup {NoMetadata}]
    /\ contractsQueue \subseteq Refs \cup ContractRefs
    /\ metadataQueue \subseteq Refs
    /\ served \in [Tokens -> 0..MaxVersion]
    /\ lost \subseteq Tokens \cup Contracts
    /\ faults \in 0..MaxFaults

StoresInit ==
    /\ contracts = [c \in Contracts |-> "absent"]
    /\ tokens = [t \in Tokens |-> NoToken]
    /\ metadata = [r \in Refs |-> NoMetadata]
    /\ contractsQueue = {} /\ metadataQueue = {}
    /\ served = [t \in Tokens |-> 0]
    /\ lost = {} /\ faults = 0

Stored(t) == tokens[t] # NoToken

(* insertIfNone: $setOnInsert leaves an existing contract as it is.        *)
InsertIfNone(c) ==
    contracts' = [contracts EXCEPT ![c] = IF @ = "absent" THEN "unnamed" ELSE @]

(* update(id, {name, collectionImage}): an id of another form matches      *)
(* nothing, and nothing is inserted.                                       *)
UpdateName(ref) ==
    contracts' = IF ref[2] = Checksum /\ contracts[ref[1]] # "absent"
                 THEN [contracts EXCEPT ![ref[1]] = "named"]
                 ELSE contracts

(* upsert: $setOnInsert; upsertedCount is 1 iff the token was absent.      *)
Upsert(t) ==
    tokens' = [tokens EXCEPT ![t] =
                 IF @ = NoToken THEN [tokenUri |-> "", status |-> "undefined"] ELSE @]

(* updateOne on a token: only a row with that id is changed.               *)
UpdateToken(ref, row) ==
    tokens' = IF ref[2] = Checksum /\ Stored(ref[1])
              THEN [tokens EXCEPT ![ref[1]] = row] ELSE tokens

UpdateUri(ref, uri) == UpdateToken(ref, [tokens[ref[1]] EXCEPT !.tokenUri = uri])

UpdateUnavailability(ref, s) == UpdateToken(ref, [tokens[ref[1]] EXCEPT !.status = s])

(* save: insertOne fails on an existing _id, putObject replaces the object *)
Save(ref, version) ==
    metadata' = IF metadata[ref] = NoMetadata \/ Overwrites
                THEN [metadata EXCEPT ![ref] = version] ELSE metadata

(* A fault takes what is in the set xs out of the pipeline.                *)
Fault(xs) ==
    /\ faults < MaxFaults
    /\ faults' = faults + 1
    /\ lost' = lost \cup xs

NoFault == UNCHANGED <<lost, faults>>

(* External: the owner of a token changes what its URI serves; bound: only *)
(* once metadata is stored, before it is as if it had always been so.      *)
Republish(t) ==
    /\ served[t] < MaxVersion /\ metadata[Ref(t)] # NoMetadata
    /\ served' = [served EXCEPT ![t] = @ + 1]
    /\ UNCHANGED <<collections, queues, lost, faults>>
=============================================================================
