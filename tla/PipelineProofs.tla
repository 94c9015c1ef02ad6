--------------------------- MODULE PipelineProofs ---------------------------
(* Proofs about Pipeline, for any tokens, contracts, ranges and bounds:    *)
(* that the collections take every token through TokenLifecycle, that none *)
(* is left on the way, and what the indexer and the metadata reader        *)
(* promise about announcements, acknowledged ranges and available metadata.*)
EXTENDS Pipeline, TLAPS

-----------------------------------------------------------------------------
(* TYPES, one lemma per component.                                         *)

LEMMA IndexerKeepsTypes ==
  ASSUME TypeOK, Indexer
  PROVE  TypeOK'
<1> USE StoresAssumption, RangesAssumption
<1> USE DEF TypeOK, StoresTypeOK, IndexerTypeOK, CRTypeOK, MRTypeOK, ProducersTypeOK,
            Task, ContractsOf, Refs, ContractRefs, Ref
<1>0. UNCHANGED <<crTasks, mrVars, producerVars>> /\ IndexerNext
  BY DEF Indexer
<1>1. ASSUME NEW r \in Ranges, ReceiveRange(r) PROVE TypeOK'
  BY <1>0, <1>1 DEF ReceiveRange, storeVars, collections, queues, mrVars, producerVars
<1>2. ASSUME NEW c \in Contracts, StoreContract(c) PROVE TypeOK'
  BY <1>0, <1>2 DEF StoreContract, InsertIfNone, queues, mrVars, producerVars
<1>3. ASSUME NEW c \in Contracts, EmitReadContract(c) PROVE TypeOK'
  BY <1>0, <1>3 DEF EmitReadContract, collections, mrVars, producerVars
<1>4. ASSUME NEW t \in Tokens, StoreToken(t) PROVE TypeOK'
  <2>1. [tokenUri |-> "", status |-> "undefined"] \in Row
    BY DEF Row, UriValues, Status
  <2>2. tokens' \in [Tokens -> Row \cup {NoToken}]
    BY <1>4, <2>1 DEF StoreToken, Upsert
  <2>3. tasks' \subseteq [of : Tokens \cup Contracts, at : {"store", "emit"}]
    <3>1. Task(t, "emit") \in [of : Tokens \cup Contracts, at : {"store", "emit"}]
      OBVIOUS
    <3>2. tasks' \subseteq tasks \cup {Task(t, "emit")}
      BY <1>4 DEF StoreToken
    <3> QED BY <3>1, <3>2
  <2>4. UNCHANGED <<blocksQueue, range, unacked, stuck, known, announced, finished, contracts,
                    metadata, contractsQueue, metadataQueue, served, lost, faults>>
    BY <1>4 DEF StoreToken, queues
  <2> QED BY <1>0, <2>2, <2>3, <2>4 DEF mrVars, producerVars
<1>5. ASSUME NEW t \in Tokens, EmitReadToken(t) PROVE TypeOK'
  BY <1>0, <1>5 DEF EmitReadToken, collections, mrVars, producerVars
<1>6. CASE FinishRange
  BY <1>0, <1>6 DEF FinishRange, storeVars, collections, queues, mrVars, producerVars
<1>7. ASSUME NEW x \in tasks, TaskFails(x) PROVE TypeOK'
  BY <1>0, <1>7 DEF TaskFails, Fault, collections, queues, mrVars, producerVars
<1>8. CASE IndexerCrash
  <2>1. lost' \subseteq Tokens \cup Contracts /\ faults' \in 0..MaxFaults
    <3>1. CASE stuck
      BY <1>8, <3>1 DEF IndexerCrash, NoFault
    <3>2. CASE ~stuck
      <4> DEFINE xs == IF unacked = {} THEN {x.of : x \in tasks}
                       ELSE {t \in Tokens : Task(t, "emit") \in tasks}
      <4>1. xs \subseteq Tokens \cup Contracts
        OBVIOUS
      <4>2. Fault(xs)
        BY <1>8, <3>2 DEF IndexerCrash
      <4> QED BY <4>1, <4>2 DEF Fault
    <3> QED BY <3>1, <3>2
  <2> QED BY <1>0, <1>8, <2>1 DEF IndexerCrash, collections, queues, mrVars, producerVars
<1>9. ASSUME NEW r \in Ranges, RangeFails(r) PROVE TypeOK'
  BY <1>0, <1>9 DEF RangeFails, Fault, collections, queues, mrVars, producerVars
<1> QED BY <1>0, <1>1, <1>2, <1>3, <1>4, <1>5, <1>6, <1>7, <1>8, <1>9
        DEF IndexerNext, IndexerStep

LEMMA ContractReaderKeepsTypes ==
  ASSUME TypeOK, ReadContracts
  PROVE  TypeOK'
<1> USE StoresAssumption
<1> USE DEF TypeOK, StoresTypeOK, IndexerTypeOK, CRTypeOK, MRTypeOK, ProducersTypeOK,
            CRTask, Refs, ContractRefs
<1>0. UNCHANGED <<indexerVars, mrVars, producerVars>> /\ CRNext
  BY DEF ReadContracts
<1>1. ASSUME NEW ref \in Refs \cup ContractRefs, CRDeliver(ref) PROVE TypeOK'
  BY <1>0, <1>1 DEF CRDeliver, collections, indexerVars, mrVars, producerVars
<1>2. ASSUME NEW ref, ReadName(ref) PROVE TypeOK'
  BY <1>0, <1>2 DEF ReadName, Advance, UpdateName, queues, indexerVars, mrVars, producerVars
<1>3. ASSUME NEW ref, ReadUri(ref) PROVE TypeOK'
  <2>1. ref \in Refs /\ ref[1] \in Tokens
    BY <1>3 DEF ReadUri
  <2>2. tokens' \in [Tokens -> Row \cup {NoToken}]
    <3>1. CASE tokens' = tokens
      BY <3>1
    <3>2. CASE Stored(ref[1]) /\
               tokens' = [tokens EXCEPT ![ref[1]] =
                            [tokens[ref[1]] EXCEPT !.tokenUri = UriOf[ref[1]]]]
      <4>1. tokens[ref[1]] \in Row /\ UriOf[ref[1]] \in UriValues
        BY <3>2, <2>1 DEF Stored
      <4>2. [tokens[ref[1]] EXCEPT !.tokenUri = UriOf[ref[1]]] \in Row
        BY <4>1 DEF Row
      <4> QED BY <3>2, <4>2, <2>1
    <3> QED BY <1>3, <3>1, <3>2 DEF ReadUri, UpdateUri, UpdateToken
  <2>3. crTasks' \subseteq [of : Refs \cup ContractRefs, at : {"read", "emit"}]
    <3>1. CRTask(ref, "emit") \in [of : Refs \cup ContractRefs, at : {"read", "emit"}]
      BY <2>1
    <3>2. crTasks' \subseteq crTasks \cup {CRTask(ref, "emit")}
      BY <1>3 DEF ReadUri, Advance
    <3> QED BY <3>1, <3>2
  <2>4. UNCHANGED <<contracts, metadata, contractsQueue, metadataQueue, served, lost, faults>>
    BY <1>3 DEF ReadUri, queues
  <2> QED BY <1>0, <2>2, <2>3, <2>4 DEF indexerVars, mrVars, producerVars
<1>4. ASSUME NEW ref, EmitReadMetadata(ref) PROVE TypeOK'
  BY <1>0, <1>4 DEF EmitReadMetadata, Advance, collections, indexerVars, mrVars, producerVars
<1>5. ASSUME NEW task \in crTasks, CRTaskFails(task) PROVE TypeOK'
  BY <1>0, <1>5 DEF CRTaskFails, NextStepAfterError, Fault, collections, queues, indexerVars, mrVars, producerVars
<1>6. CASE ContractReaderCrash
  BY <1>0, <1>6 DEF ContractReaderCrash, Fault, collections, queues, indexerVars, mrVars, producerVars
<1> QED BY <1>0, <1>1, <1>2, <1>3, <1>4, <1>5, <1>6 DEF CRNext, CRWork, CRStep

LEMMA MetadataReaderKeepsTypes ==
  ASSUME TypeOK, ReadMetadata
  PROVE  TypeOK'
<1> USE StoresAssumption
<1> USE DEF TypeOK, StoresTypeOK, IndexerTypeOK, CRTypeOK, MRTypeOK, ProducersTypeOK,
            MRTask, Refs, ContractRefs
<1>0. UNCHANGED <<indexerVars, crTasks, producerVars>> /\ MRNext
  BY DEF ReadMetadata
<1>1. ASSUME NEW ref \in Refs, MRDeliver(ref) PROVE TypeOK'
  BY <1>0, <1>1 DEF MRDeliver, collections, indexerVars, producerVars, Status
<1>2. ASSUME NEW ref \in Refs, Fetch(ref) PROVE TypeOK'
  <2> PICK task \in mrTasks, o \in Outcomes(UriOf[ref[1]]) :
        /\ task.of = ref /\ task.at = "fetch"
        /\ mrTasks' = (mrTasks \ {task}) \cup AfterFetch(ref, o)
        /\ dropped' = IF o.status = "available" /\ ~o.data
                      THEN dropped \cup {ref[1]} ELSE dropped
        /\ UNCHANGED storeVars
    BY <1>2 DEF Fetch
  <2>1. o.status \in Status
    BY DEF Outcomes, StatusAfter, Status
  <2>2. AfterFetch(ref, o) \subseteq [of : Refs, at : {"fetch", "save", "status"},
                          data : (0..MaxVersion) \cup {NoMetadata}, status : Status]
    BY <2>1 DEF AfterFetch
  <2> QED BY <1>0, <2>2 DEF storeVars, collections, queues, indexerVars, producerVars
<1>3. ASSUME NEW task, SaveMetadata(task) PROVE TypeOK'
  BY <1>0, <1>3 DEF SaveMetadata, Save, queues, indexerVars, producerVars
<1>4. ASSUME NEW task, SaveFails(task) PROVE TypeOK'
  BY <1>0, <1>4 DEF SaveFails, Fault, collections, queues, indexerVars, producerVars
<1>5. ASSUME NEW task, SetStatus(task) PROVE TypeOK'
  <2>1. task.of \in Refs /\ task.of[1] \in Tokens /\ task.status \in Status
    BY <1>5 DEF SetStatus
  <2>2. tokens' \in [Tokens -> Row \cup {NoToken}]
    BY <1>5, <2>1 DEF SetStatus, UpdateUnavailability, UpdateToken, Stored, Row
  <2> QED BY <1>0, <1>5, <2>2 DEF SetStatus, queues, indexerVars, producerVars
<1>6. ASSUME NEW task, SetStatusFails(task) PROVE TypeOK'
  BY <1>0, <1>6 DEF SetStatusFails, Fault, collections, queues, indexerVars, producerVars
<1>7. CASE MetadataReaderCrash
  BY <1>0, <1>7 DEF MetadataReaderCrash, Fault, collections, queues, indexerVars, producerVars
<1> QED BY <1>0, <1>1, <1>2, <1>3, <1>4, <1>5, <1>6, <1>7 DEF MRNext, MRWork, MRStep

LEMMA ResendKeepsType ==
  ASSUME resends \in 0..MaxResends, Resend
  PROVE  resends' \in 0..MaxResends
BY ProducersAssumption DEF Resend

LEMMA FoundKeepsType ==
  ASSUME lost \subseteq Tokens \cup Contracts, NEW refs, Found(refs)
  PROVE  lost' \subseteq Tokens \cup Contracts
BY DEF Found

LEMMA ProducersKeepTypes ==
  ASSUME TypeOK, Produce
  PROVE  TypeOK'
<1> USE StoresAssumption, ProducersAssumption
<1> USE DEF TypeOK, StoresTypeOK, IndexerTypeOK, CRTypeOK, MRTypeOK, ProducersTypeOK,
            Refs, ContractRefs, Ref
<1>0. UNCHANGED <<indexerVars, crTasks, mrVars>> /\ ProducersNext
  BY DEF Produce
<1>1. ASSUME NEW c \in Contracts, NEW form \in Forms, RefreshContract(c, form) PROVE TypeOK'
  BY <1>0, <1>1 DEF RefreshContract, Resend, Found, collections, indexerVars, mrVars
<1>T. ASSUME NEW ts \in SUBSET Tokens, NEW more \in SUBSET ContractRefs, SendTokens(ts, more)
      PROVE  /\ contractsQueue' \subseteq Refs \cup ContractRefs
             /\ lost' \subseteq Tokens \cup Contracts
             /\ refreshed' \in [Tokens -> (0..MaxVersion) \cup {NoMetadata}]
  BY <1>T DEF SendTokens, Found, Sent
<1>2. CASE RefreshTokens
  <2>1. TokensOf(refreshing[1]) \in SUBSET Tokens /\ {refreshing} \in SUBSET ContractRefs
    BY <1>2 DEF RefreshTokens, TokensOf
  <2> QED BY <1>0, <1>2, <1>T, <2>1 DEF RefreshTokens, collections, indexerVars, mrVars
<1>3. CASE RefreshFails
  <2>1. PICK ts \in SUBSET TokensOf(refreshing[1]) : SendTokens(ts, {})
    BY <1>3 DEF RefreshFails
  <2>2. ts \in SUBSET Tokens /\ {} \in SUBSET ContractRefs
    BY DEF TokensOf
  <2>3. faults' \in 0..MaxFaults
    BY <1>3 DEF RefreshFails
  <2> QED BY <1>0, <1>3, <1>T, <2>1, <2>2, <2>3
          DEF RefreshFails, collections, indexerVars, mrVars
<1>4. ASSUME NEW t \in Tokens, NEW form \in Forms, RefreshToken(t, form) PROVE TypeOK'
  <2>1. resends' \in 0..MaxResends /\ lost' \subseteq Tokens \cup Contracts
    <3>1. resends' \in 0..MaxResends
      BY <1>4, ResendKeepsType DEF RefreshToken
    <3>2. lost' \subseteq Tokens \cup Contracts
      BY <1>4, FoundKeepsType DEF RefreshToken
    <3> QED BY <3>1, <3>2
  <2>2. contractsQueue' \subseteq Refs \cup ContractRefs
    <3>1. <<t, form>> \in Refs
      OBVIOUS
    <3>2. contractsQueue' = contractsQueue \cup {<<t, form>>}
      BY <1>4 DEF RefreshToken
    <3> QED BY <3>1, <3>2
  <2>3. refreshed' \in [Tokens -> (0..MaxVersion) \cup {NoMetadata}]
    BY <1>4 DEF RefreshToken, Sent
  <2>4. UNCHANGED <<contracts, tokens, metadata, metadataQueue, served, faults, refreshing>>
    BY <1>4 DEF RefreshToken, collections
  <2> QED BY <1>0, <2>1, <2>2, <2>3, <2>4 DEF indexerVars, mrVars
<1>5. ASSUME NEW t \in Tokens, FillContractQueue(t) PROVE TypeOK'
  BY <1>0, <1>5 DEF FillContractQueue, Resend, Found, collections, indexerVars, mrVars
<1>6. ASSUME NEW t \in Tokens, FillMetadataQueue(t) PROVE TypeOK'
  <2>1. resends' \in 0..MaxResends /\ lost' \subseteq Tokens \cup Contracts
    <3>1. resends' \in 0..MaxResends
      BY <1>6, ResendKeepsType DEF FillMetadataQueue
    <3>2. lost' \subseteq Tokens \cup Contracts
      BY <1>6, FoundKeepsType DEF FillMetadataQueue
    <3> QED BY <3>1, <3>2
  <2>2. metadataQueue' \subseteq Refs
    <3>1. Ref(t) \in Refs
      OBVIOUS
    <3>2. metadataQueue' = metadataQueue \cup {Ref(t)}
      BY <1>6 DEF FillMetadataQueue
    <3> QED BY <3>1, <3>2
  <2>3. UNCHANGED <<contracts, tokens, metadata, contractsQueue, served, faults,
                    refreshing, refreshed>>
    BY <1>6 DEF FillMetadataQueue, collections
  <2> QED BY <1>0, <2>1, <2>2, <2>3 DEF indexerVars, mrVars
<1> QED BY <1>0, <1>1, <1>2, <1>3, <1>4, <1>5, <1>6 DEF ProducersNext

LEMMA EnvironmentKeepsTypes ==
  ASSUME TypeOK, Environment
  PROVE  TypeOK'
<1> USE StoresAssumption, RangesAssumption
<1> USE DEF TypeOK, StoresTypeOK, IndexerTypeOK, CRTypeOK, MRTypeOK, ProducersTypeOK,
            Refs, ContractRefs, Ref, ContractsOf
<1>1. CASE BrokerRestart /\ UNCHANGED <<crTasks, mrVars, producerVars>>
  <2>1. PICK xs : xs \subseteq Tokens \cup Contracts /\ Fault(xs)
    BY <1>1 DEF BrokerRestart
  <2>2. lost' \subseteq Tokens \cup Contracts /\ faults' \in 0..MaxFaults
    BY <2>1 DEF Fault
  <2> QED BY <1>1, <2>2 DEF BrokerRestart, collections, mrVars, producerVars
<1>2. ASSUME NEW t \in Tokens, Republish(t),
             UNCHANGED <<indexerVars, crTasks, mrVars, producerVars>>
      PROVE  TypeOK'
  BY <1>2 DEF Republish, collections, queues, indexerVars, mrVars, producerVars
<1> QED BY <1>1, <1>2 DEF Environment

LEMMA TypesAreKept ==
  ASSUME TypeOK, [Next]_vars
  PROVE  TypeOK'
<1>1. ASSUME UNCHANGED vars PROVE TypeOK'
  BY <1>1 DEF vars, storeVars, collections, queues, indexerVars, mrVars, producerVars,
    TypeOK, StoresTypeOK, IndexerTypeOK, CRTypeOK, MRTypeOK, ProducersTypeOK
<1> QED
  BY <1>1, IndexerKeepsTypes, ContractReaderKeepsTypes, MetadataReaderKeepsTypes,
     ProducersKeepTypes, EnvironmentKeepsTypes DEF Next

(* Every variable of the pipeline keeps its type.                          *)
THEOREM TypeCorrect == Spec => []TypeOK
<1>1. Init => TypeOK
  <2> SUFFICES ASSUME Init PROVE TypeOK
    OBVIOUS
  <2>1. StoresTypeOK /\ CRTypeOK /\ MRTypeOK /\ ProducersTypeOK
    BY StoresAssumption, ProducersAssumption
    DEF Init, StoresInit, CRInit, MRInit, ProducersInit,
        StoresTypeOK, CRTypeOK, MRTypeOK, ProducersTypeOK
  <2>2. IndexerTypeOK
    BY RangesAssumption DEF Init, IndexerInit, IndexerTypeOK
  <2> QED BY <2>1, <2>2 DEF TypeOK
<1>2. TypeOK /\ [Next]_vars => TypeOK'
  BY TypesAreKept
<1> QED BY <1>1, <1>2, PTL DEF Spec

-----------------------------------------------------------------------------
(* WHAT A STEP DOES TO THE TOKENS                                          *)

Located(t) == Stored(t) /\ tokens[t].tokenUri # ""

LEMMA TaskIsPair ==
  ASSUME NEW x, NEW y, NEW a, NEW b, Task(x, a) = Task(y, b)
  PROVE  x = y /\ a = b
BY DEF Task

(* A stored token stays stored, with its URI.                              *)
LEMMA RowsAreKept ==
  ASSUME TypeOK, [Next]_vars, NEW t \in Tokens
  PROVE  (Stored(t) => Stored(t)') /\ (Located(t) => Located(t)')
<1> USE StoresAssumption
<1>T. tokens \in [Tokens -> Row \cup {NoToken}] /\ tokens' \in [Tokens -> Row \cup {NoToken}]
  <2>1. TypeOK'
    BY TypesAreKept
  <2> QED BY <2>1 DEF TypeOK, StoresTypeOK
<1>0. CASE UNCHANGED tokens
  BY <1>0 DEF Stored, Located
<1>1. ASSUME NEW s \in Tokens, StoreToken(s) PROVE Stored(t) => tokens'[t] = tokens[t]
  BY <1>1, <1>T DEF StoreToken, Upsert, Stored
<1>2. ASSUME NEW ref, ReadUri(ref) PROVE (Stored(t) => Stored(t)') /\ (Located(t) => Located(t)')
  <2>1. ref \in Refs /\ ref[1] \in Tokens
    BY <1>2 DEF ReadUri, Refs
  <2>2. CASE UriOf[ref[1]] # "" /\ Stored(ref[1]) /\
             tokens' = [tokens EXCEPT ![ref[1]] =
                          [tokens[ref[1]] EXCEPT !.tokenUri = UriOf[ref[1]]]]
    <3>1. tokens[ref[1]] \in Row /\ UriOf[ref[1]] \in UriValues
      BY <2>1, <2>2, <1>T DEF Stored
    <3>2. tokens'[ref[1]] \in Row /\ tokens'[ref[1]].tokenUri = UriOf[ref[1]]
      BY <2>1, <2>2, <3>1, <1>T DEF Row
    <3> QED BY <2>1, <2>2, <3>2, <1>T DEF Stored, Located
  <2> QED BY <1>0, <1>2, <2>2 DEF ReadUri, UpdateUri, UpdateToken
<1>3. ASSUME NEW task, SetStatus(task), task.of \in Refs, task.status \in Status
      PROVE (Stored(t) => Stored(t)') /\ (Located(t) => Located(t)')
  <2> DEFINE u == task.of[1]
  <2>1. u \in Tokens
    BY <1>3 DEF Refs
  <2>2. CASE Stored(u) /\ tokens' = [tokens EXCEPT ![u] =
                                      [tokens[u] EXCEPT !.status = task.status]]
    <3>1. tokens[u] \in Row
      BY <2>1, <2>2, <1>T DEF Stored
    <3>2. tokens'[u] \in Row /\ tokens'[u].tokenUri = tokens[u].tokenUri
      BY <2>1, <2>2, <3>1, <1>3, <1>T DEF Row
    <3> QED BY <2>1, <2>2, <3>2, <1>T DEF Stored, Located
  <2> QED BY <1>0, <1>3, <2>2 DEF SetStatus, UpdateUnavailability, UpdateToken
<1>4. CASE Indexer
  <2>1. CASE \E s \in Tokens : StoreToken(s)
    BY <2>1, <1>1 DEF Located, Stored
  <2>2. CASE ~\E s \in Tokens : StoreToken(s)
    BY <1>4, <2>2, <1>0 DEF Indexer, IndexerNext, IndexerStep, ReceiveRange, StoreContract,
      EmitReadContract, EmitReadToken, FinishRange, TaskFails, RangeFails, IndexerCrash, storeVars,
      collections
  <2> QED BY <2>1, <2>2
<1>5. CASE ReadContracts
  BY <1>5, <1>0, <1>2 DEF ReadContracts, CRNext, CRWork, CRStep, CRDeliver, ReadName,
    EmitReadMetadata, CRTaskFails, ContractReaderCrash, collections
<1>6. CASE ReadMetadata
  <2>1. \A task \in mrTasks : task.of \in Refs /\ task.status \in Status
    BY DEF TypeOK, MRTypeOK
  <2>2. CASE \E task \in mrTasks : SetStatus(task)
    BY <2>1, <2>2, <1>3
  <2>3. CASE ~\E task \in mrTasks : SetStatus(task)
    BY <1>6, <2>3, <1>0 DEF ReadMetadata, MRNext, MRWork, MRStep, MRDeliver, Fetch,
      SaveMetadata, SaveFails, SetStatusFails, MetadataReaderCrash, storeVars, collections
  <2> QED BY <2>2, <2>3
<1>7. CASE Produce \/ Environment
  BY <1>7, <1>0 DEF Produce, ProducersNext, RefreshContract, RefreshTokens, RefreshFails,
    RefreshToken, FillContractQueue, FillMetadataQueue, Environment, BrokerRestart, Republish,
    collections
<1> QED BY <1>0, <1>4, <1>5, <1>6, <1>7 DEF Next, vars, storeVars, collections

-----------------------------------------------------------------------------
(* ANNOUNCEMENTS                                                           *)

(* A READ_TOKEN that is still to be sent is the first one of a token which *)
(* the upsert has stored; from then on no upsert of it will insert.        *)
AnnounceInv ==
    \A t \in Tokens :
       /\ announced[t] \in {0, 1}
       /\ announced[t] = 1 => Stored(t)
       /\ Task(t, "emit") \in tasks => announced[t] = 0 /\ Stored(t)

LEMMA AnnounceInvInductive ==
  ASSUME TypeOK, AnnounceInv, [Next]_vars
  PROVE  AnnounceInv'
<1> SUFFICES ASSUME NEW t \in Tokens
             PROVE  /\ announced'[t] \in {0, 1}
                    /\ announced'[t] = 1 => Stored(t)'
                    /\ Task(t, "emit") \in tasks' => announced'[t] = 0 /\ Stored(t)'
  BY DEF AnnounceInv
<1>I. /\ announced[t] \in {0, 1}
      /\ announced[t] = 1 => Stored(t)
      /\ Task(t, "emit") \in tasks => announced[t] = 0 /\ Stored(t)
  BY DEF AnnounceInv
<1>S. Stored(t) => Stored(t)'
  BY RowsAreKept
<1>T. announced \in [Tokens -> Nat]
  BY DEF TypeOK, IndexerTypeOK
<1>0. ASSUME UNCHANGED announced, Task(t, "emit") \in tasks' => Task(t, "emit") \in tasks
      PROVE  /\ announced'[t] \in {0, 1}
             /\ announced'[t] = 1 => Stored(t)'
             /\ Task(t, "emit") \in tasks' => announced'[t] = 0 /\ Stored(t)'
  BY <1>0, <1>I, <1>S
<1>1. ASSUME NEW r \in Ranges, ReceiveRange(r)
      PROVE  UNCHANGED announced /\ Task(t, "emit") \notin tasks'
  BY <1>1, TaskIsPair DEF ReceiveRange
<1>2. ASSUME NEW c \in Contracts, StoreContract(c)
      PROVE  UNCHANGED announced /\ (Task(t, "emit") \in tasks' => Task(t, "emit") \in tasks)
  <2>1. t # c
    BY StoresAssumption
  <2>2. Task(t, "emit") # Task(c, "emit")
    BY <2>1, TaskIsPair
  <2> QED BY <1>2, <2>2 DEF StoreContract
<1>3. ASSUME NEW s \in Tokens, StoreToken(s)
      PROVE  /\ announced'[t] \in {0, 1}
             /\ announced'[t] = 1 => Stored(t)'
             /\ Task(t, "emit") \in tasks' => announced'[t] = 0 /\ Stored(t)'
  <2>1. CASE s = t /\ ~Stored(t)
    <3>1. announced' = announced /\ announced[t] = 0
      BY <1>3, <2>1, <1>I DEF StoreToken
    <3>2. Stored(t)'
      <4>1. tokens \in [Tokens -> Row \cup {NoToken}]
        BY DEF TypeOK, StoresTypeOK
      <4>2. tokens'[t] = [tokenUri |-> "", status |-> "undefined"]
        BY <1>3, <2>1, <4>1 DEF StoreToken, Upsert, Stored
      <4>3. [tokenUri |-> "", status |-> "undefined"] \in Row
        BY DEF Row, UriValues, Status
      <4> QED BY <4>2, <4>3, StoresAssumption DEF Stored
    <3> QED BY <3>1, <3>2
  <2>2. CASE s = t /\ Stored(t)
    BY <1>3, <2>2, <1>0 DEF StoreToken, EmitEvent
  <2>3. CASE s # t
    <3>1. Task(t, "emit") # Task(s, "emit")
      BY <2>3, TaskIsPair
    <3> QED BY <1>3, <3>1, <1>0 DEF StoreToken
  <2> QED BY <2>1, <2>2, <2>3
<1>4. ASSUME NEW s \in Tokens, EmitReadToken(s)
      PROVE  /\ announced'[t] \in {0, 1}
             /\ announced'[t] = 1 => Stored(t)'
             /\ Task(t, "emit") \in tasks' => announced'[t] = 0 /\ Stored(t)'
  <2>1. CASE s = t
    BY <1>4, <2>1, <1>I, <1>S, <1>T DEF EmitReadToken
  <2>2. CASE s # t
    BY <1>4, <2>2, <1>I, <1>S, <1>T DEF EmitReadToken
  <2> QED BY <2>1, <2>2
<1>5. CASE Indexer /\ ~(\E s \in Tokens : StoreToken(s) \/ EmitReadToken(s))
                   /\ ~(\E c \in Contracts : StoreContract(c))
                   /\ ~(\E r \in Ranges : ReceiveRange(r))
  <2>1. UNCHANGED announced /\ tasks' \subseteq tasks
    BY <1>5 DEF Indexer, IndexerNext, IndexerStep, EmitReadContract, FinishRange, TaskFails,
      RangeFails, IndexerCrash
  <2> QED BY <2>1, <1>0
<1>6. CASE ~Indexer
  <2>1. UNCHANGED <<announced, tasks>>
    BY <1>6 DEF Next, ReadContracts, ReadMetadata, Produce, Environment, BrokerRestart,
      Republish, vars, indexerVars
  <2> QED BY <2>1, <1>0
<1> QED BY <1>0, <1>1, <1>2, <1>3, <1>4, <1>5, <1>6

(* A token is announced at most once, for any tokens, ranges, crashes and  *)
(* redeliveries.                                                           *)
THEOREM AnnouncedOnce == Spec => []NotAnnouncedTwice
<1>1. Init => AnnounceInv
  BY DEF Init, IndexerInit, AnnounceInv
<1>2. TypeOK /\ AnnounceInv /\ [Next]_vars => AnnounceInv'
  BY AnnounceInvInductive
<1>3. AnnounceInv => NotAnnouncedTwice
  <2> SUFFICES ASSUME AnnounceInv, NEW t \in Tokens PROVE announced[t] <= 1
    BY DEF NotAnnouncedTwice
  <2>1. announced[t] \in {0, 1}
    BY DEF AnnounceInv
  <2> QED BY <2>1
<1> QED BY <1>1, <1>2, <1>3, TypeCorrect, PTL DEF Spec

-----------------------------------------------------------------------------
(* ACKNOWLEDGED RANGES                                                     *)

Accounted(t) == Stored(t) \/ t \in lost

(* What the range that is processed mentions has still its task, until it  *)
(* is accounted for; FinishRange waits for the last task.  The range of an *)
(* indexer that is stuck has none, and is never finished.                  *)
RangeInv ==
    /\ DoneRangesStored
    /\ range # NoRange /\ ~stuck =>
          \A t \in EventsOf[range] : Accounted(t) \/ Task(t, "store") \in tasks

LEMMA AccountedStays ==
  ASSUME TypeOK, [Next]_vars, NEW t \in Tokens, Accounted(t)
  PROVE  Accounted(t)'
<1>1. Stored(t) => Stored(t)'
  BY RowsAreKept
<1> SUFFICES ASSUME ~Stored(t), t \in lost PROVE t \in lost'
  BY <1>1 DEF Accounted
<1>0. t \notin Contracts
  BY StoresAssumption
<1>2. CASE Indexer
  BY <1>2 DEF Indexer, IndexerNext, IndexerStep, ReceiveRange, StoreContract, EmitReadContract,
    StoreToken, EmitReadToken, FinishRange, TaskFails, RangeFails, IndexerCrash, Fault, NoFault,
    storeVars
<1>3. CASE ReadContracts
  BY <1>3 DEF ReadContracts, CRNext, CRWork, CRStep, CRDeliver, ReadName, ReadUri,
    EmitReadMetadata, CRTaskFails, ContractReaderCrash, Fault
<1>4. CASE ReadMetadata
  BY <1>4 DEF ReadMetadata, MRNext, MRWork, MRStep, MRDeliver, Fetch, SaveMetadata, SaveFails,
    SetStatus, SetStatusFails, MetadataReaderCrash, Fault, storeVars
<1>5. CASE Produce
  <2>1. ASSUME NEW refs, Found(refs), \A ref \in refs : ref[1] # t
        PROVE  t \in lost'
    BY <2>1 DEF Found
  <2>2. ASSUME NEW c \in Contracts, NEW form \in Forms, RefreshContract(c, form)
        PROVE  t \in lost'
    BY <2>2, <2>1, <1>0 DEF RefreshContract
  <2>3. ASSUME RefreshTokens PROVE t \in lost'
    <3> DEFINE ts == TokensOf(refreshing[1])
    <3>1. Found({Ref(u) : u \in ts} \cup {refreshing})
      BY <2>3 DEF RefreshTokens, SendTokens
    <3>2. \A ref \in {Ref(u) : u \in ts} : ref[1] # t
      BY DEF Ref, TokensOf
    <3>3. refreshing[1] # t
      BY <2>3, <1>0 DEF RefreshTokens, TypeOK, ProducersTypeOK, ContractRefs
    <3> QED BY <3>1, <3>2, <3>3, <2>1
  <2>4. ASSUME RefreshFails PROVE t \in lost'
    <3>1. PICK ts \in SUBSET TokensOf(refreshing[1]) : Found({Ref(u) : u \in ts} \cup {})
      BY <2>4 DEF RefreshFails, SendTokens
    <3>2. \A ref \in {Ref(u) : u \in ts} \cup {} : ref[1] # t
      BY DEF Ref, TokensOf
    <3> QED BY <3>1, <3>2, <2>1
  <2>5. ASSUME NEW u \in Tokens, NEW form \in Forms, RefreshToken(u, form) PROVE t \in lost'
    <3>1. u # t /\ Found({<<u, form>>})
      BY <2>5 DEF RefreshToken
    <3>2. \A ref \in {<<u, form>>} : ref[1] # t
      BY <3>1
    <3> QED BY <3>1, <3>2, <2>1
  <2>6. ASSUME NEW u \in Tokens, FillContractQueue(u) PROVE t \in lost'
    BY <2>6, <2>1 DEF FillContractQueue, Ref
  <2>7. ASSUME NEW u \in Tokens, FillMetadataQueue(u) PROVE t \in lost'
    <3>1. u # t /\ Found({Ref(u)})
      BY <2>7 DEF FillMetadataQueue
    <3>2. \A ref \in {Ref(u)} : ref[1] # t
      BY <3>1 DEF Ref
    <3> QED BY <3>1, <3>2, <2>1
  <2> QED BY <1>5, <2>2, <2>3, <2>4, <2>5, <2>6, <2>7 DEF Produce, ProducersNext
<1>6. CASE Environment
  BY <1>6 DEF Environment, BrokerRestart, Republish, Fault
<1> QED BY <1>2, <1>3, <1>4, <1>5, <1>6 DEF Next, vars, storeVars

LEMMA RangeInvInductive ==
  ASSUME TypeOK, RangeInv, [Next]_vars
  PROVE  RangeInv'
<1>E. ASSUME NEW r \in Ranges PROVE EventsOf[r] \subseteq Tokens
  BY RangesAssumption
<1>T. finished \subseteq Ranges /\ range \in Ranges \cup {NoRange}
  BY DEF TypeOK, IndexerTypeOK
<1>D. \A r \in finished : \A t \in EventsOf[r] : Accounted(t)
  BY DEF RangeInv, DoneRangesStored, Accounted
<1>0. ASSUME UNCHANGED <<range, stuck, finished>>,
             \A t \in Tokens : Task(t, "store") \in tasks => Accounted(t)' \/ Task(t, "store") \in tasks'
      PROVE  RangeInv'
  <2>1. DoneRangesStored'
    <3> SUFFICES ASSUME NEW r \in finished, NEW t \in EventsOf[r] PROVE Accounted(t)'
      BY <1>0 DEF DoneRangesStored, Accounted
    <3> QED BY <1>D, <1>T, <1>E, AccountedStays
  <2>2. ASSUME range # NoRange, ~stuck, NEW t \in EventsOf[range]
        PROVE  Accounted(t)' \/ Task(t, "store") \in tasks'
    <3>1. t \in Tokens
      BY <2>2, <1>T, <1>E
    <3> QED BY <2>2, <3>1, <1>0, AccountedStays DEF RangeInv
  <2> QED BY <1>0, <2>1, <2>2 DEF RangeInv
<1>1. ASSUME range' = NoRange, finished' \subseteq finished \cup {range},
             finished' # finished => range # NoRange /\ ~stuck /\ tasks = {}
      PROVE  RangeInv'
  <2> SUFFICES ASSUME NEW r \in finished', NEW t \in EventsOf[r] PROVE Accounted(t)'
    BY <1>1 DEF RangeInv, DoneRangesStored, Accounted
  <2>1. r \in Ranges /\ Accounted(t)
    BY <1>1, <1>D, <1>T DEF RangeInv
  <2> QED BY <2>1, <1>E, AccountedStays
<1>2. ASSUME NEW r \in Ranges, ReceiveRange(r) PROVE RangeInv'
  <2>1. \A t \in EventsOf[r] : Task(t, "store") \in tasks'
    BY <1>2 DEF ReceiveRange
  <2>2. DoneRangesStored'
    <3> SUFFICES ASSUME NEW q \in finished, NEW t \in EventsOf[q] PROVE Accounted(t)'
      BY <1>2 DEF DoneRangesStored, Accounted, ReceiveRange
    <3> QED BY <1>D, <1>T, <1>E, AccountedStays
  <2> QED BY <1>2, <2>1, <2>2 DEF ReceiveRange, RangeInv
<1>3. ASSUME NEW c \in Contracts, StoreContract(c) \/ EmitReadContract(c) PROVE RangeInv'
  <2>1. \A t \in Tokens : t # c
    BY StoresAssumption
  <2>2. \A t \in Tokens : Task(t, "store") \in tasks => Task(t, "store") \in tasks'
    BY <1>3, <2>1, TaskIsPair DEF StoreContract, EmitReadContract
  <2>3. UNCHANGED <<range, stuck, finished>>
    BY <1>3 DEF StoreContract, EmitReadContract
  <2> QED BY <2>2, <2>3, <1>0
<1>4. ASSUME NEW s \in Tokens, StoreToken(s) PROVE RangeInv'
  <2>1. Stored(s)'
    <3>1. tokens \in [Tokens -> Row \cup {NoToken}]
      BY DEF TypeOK, StoresTypeOK
    <3>2. [tokenUri |-> "", status |-> "undefined"] \in Row
      BY DEF Row, UriValues, Status
    <3> QED BY <1>4, <3>1, <3>2, StoresAssumption DEF StoreToken, Upsert, Stored
  <2>2. \A t \in Tokens : t # s /\ Task(t, "store") \in tasks => Task(t, "store") \in tasks'
    BY <1>4, TaskIsPair DEF StoreToken
  <2>3. UNCHANGED <<range, stuck, finished>>
    BY <1>4 DEF StoreToken
  <2> QED BY <2>1, <2>2, <2>3, <1>0 DEF Accounted
<1>5. ASSUME NEW s \in Tokens, EmitReadToken(s) PROVE RangeInv'
  <2>1. \A t \in Tokens : Task(t, "store") \in tasks => Task(t, "store") \in tasks'
    BY <1>5, TaskIsPair DEF EmitReadToken
  <2> QED BY <1>5, <2>1, <1>0 DEF EmitReadToken
<1>6. ASSUME NEW x \in tasks, TaskFails(x) PROVE RangeInv'
  <2>1. \A t \in Tokens : Task(t, "store") \in tasks => t \in lost' \/ Task(t, "store") \in tasks'
    BY <1>6 DEF TaskFails, Fault, Task
  <2> QED BY <1>6, <2>1, <1>0 DEF TaskFails, Accounted
<1>7. CASE FinishRange \/ IndexerCrash
  BY <1>7, <1>1 DEF FinishRange, IndexerCrash
<1>8. ASSUME NEW r \in Ranges, RangeFails(r) PROVE RangeInv'
  <2>1. UNCHANGED finished /\ stuck'
    BY <1>8 DEF RangeFails
  <2>2. ASSUME NEW q \in finished, NEW t \in EventsOf[q] PROVE Accounted(t)'
    BY <2>2, <1>D, <1>T, <1>E, AccountedStays
  <2> QED BY <2>1, <2>2 DEF RangeInv, DoneRangesStored, Accounted
<1>9. CASE ~Indexer /\ ~BrokerRestart
  <2>1. UNCHANGED <<range, stuck, finished, tasks>>
    BY <1>9 DEF Next, ReadContracts, ReadMetadata, Produce, Environment,
      Republish, vars, indexerVars
  <2> QED BY <2>1, <1>0
<1>10. CASE BrokerRestart
  <2>1. CASE stuck
    BY <1>10, <2>1, <1>1 DEF BrokerRestart
  <2>2. CASE ~stuck
    <3>1. UNCHANGED <<range, stuck, finished, tasks>>
      BY <1>10, <2>2 DEF BrokerRestart, TypeOK, IndexerTypeOK
    <3> QED BY <3>1, <1>0
  <2> QED BY <2>1, <2>2
<1> QED BY <1>2, <1>3, <1>4, <1>5, <1>6, <1>7, <1>8, <1>9, <1>10
        DEF Indexer, IndexerNext, IndexerStep

(* The tokens of an acknowledged range are stored, or a fault that was     *)
(* logged has lost them.                                                   *)
THEOREM AcknowledgedIsStored == Spec => []DoneRangesStored
<1>1. Init => RangeInv
  BY DEF Init, IndexerInit, RangeInv, DoneRangesStored
<1>2. TypeOK /\ RangeInv /\ [Next]_vars => RangeInv'
  BY RangeInvInductive
<1>3. RangeInv => DoneRangesStored
  BY DEF RangeInv
<1> QED BY <1>1, <1>2, <1>3, TypeCorrect, PTL DEF Spec

-----------------------------------------------------------------------------
(* AVAILABLE METADATA                                                      *)

(* A task about to save has data; one about to mark a token as available   *)
(* has seen the data stored, or dropped.                                   *)
SaveInv ==
    /\ AvailableIsStored
    /\ \A task \in mrTasks : task.at = "save" => task.data # NoMetadata
    /\ \A task \in mrTasks, t \in Tokens :
          (task.at = "status" /\ task.status = "available" /\ task.of = Ref(t)) =>
             metadata[Ref(t)] # NoMetadata \/ t \in dropped

LEMMA RefIsInjective ==
  ASSUME NEW t, NEW u, Ref(t) = Ref(u)
  PROVE  t = u
BY DEF Ref

(* Stored metadata stays, and so does the record of what was dropped.      *)
LEMMA MetadataIsKept ==
  ASSUME TypeOK, SaveInv, [Next]_vars, NEW t \in Tokens
  PROVE  /\ metadata[Ref(t)] # NoMetadata => metadata'[Ref(t)] # NoMetadata
         /\ t \in dropped => t \in dropped'
<1>1. CASE \E task \in mrTasks : SaveMetadata(task)
  <2> PICK task \in mrTasks : SaveMetadata(task)
    BY <1>1
  <2>1. task.data # NoMetadata
    BY DEF SaveMetadata, SaveInv
  <2>2. metadata \in [Refs -> (0..MaxVersion) \cup {NoMetadata}]
    BY DEF TypeOK, StoresTypeOK
  <2> QED BY <2>1, <2>2 DEF SaveMetadata, Save
<1>2. CASE ~\E task \in mrTasks : SaveMetadata(task)
  <2>1. CASE Indexer
    BY <2>1 DEF Indexer, IndexerNext, IndexerStep, ReceiveRange, StoreContract,
      EmitReadContract, StoreToken, EmitReadToken, FinishRange, TaskFails, RangeFails, IndexerCrash,
      storeVars, collections, mrVars
  <2>2. CASE ReadContracts
    BY <2>2 DEF ReadContracts, CRNext, CRWork, CRStep, CRDeliver, ReadName, ReadUri,
      EmitReadMetadata, CRTaskFails, ContractReaderCrash, collections, mrVars
  <2>3. CASE ReadMetadata
    BY <2>3, <1>2 DEF ReadMetadata, MRNext, MRWork, MRStep, MRDeliver, Fetch, SaveFails,
      SetStatus, SetStatusFails, MetadataReaderCrash, storeVars, collections
  <2>4. CASE Produce
    BY <2>4 DEF Produce, ProducersNext, RefreshContract, RefreshTokens, RefreshFails,
      RefreshToken, FillContractQueue, FillMetadataQueue, collections, mrVars
  <2>5. CASE Environment
    BY <2>5 DEF Environment, BrokerRestart, Republish, collections, mrVars
  <2>6. CASE UNCHANGED vars
    BY <2>6 DEF vars, storeVars, collections, mrVars
  <2> QED BY <2>1, <2>2, <2>3, <2>4, <2>5, <2>6 DEF Next
<1> QED BY <1>1, <1>2

(* Only the metadata reader gives a token the status available.            *)
LEMMA StatusIsKept ==
  ASSUME TypeOK, [Next]_vars, NEW t \in Tokens, Stored(t)', tokens'[t].status = "available"
  PROVE  \/ Stored(t) /\ tokens[t].status = "available"
         \/ \E task \in mrTasks : /\ task.at = "status" /\ task.status = "available"
                                  /\ task.of = Ref(t)
<1>T. tokens \in [Tokens -> Row \cup {NoToken}]
  BY DEF TypeOK, StoresTypeOK
<1>0. CASE UNCHANGED tokens
  BY <1>0 DEF Stored
<1>1. ASSUME NEW s \in Tokens, StoreToken(s)
      PROVE  Stored(t) /\ tokens[t].status = "available"
  BY <1>1, <1>T DEF StoreToken, Upsert, Stored
<1>2. ASSUME NEW ref, ReadUri(ref)
      PROVE  Stored(t) /\ tokens[t].status = "available"
  <2>1. ref[1] \in Tokens
    BY <1>2 DEF ReadUri, Refs
  <2>2. CASE Stored(ref[1]) /\
             tokens' = [tokens EXCEPT ![ref[1]] =
                          [tokens[ref[1]] EXCEPT !.tokenUri = UriOf[ref[1]]]]
    <3>1. tokens[ref[1]] \in Row
      BY <2>1, <2>2, <1>T DEF Stored
    <3>2. tokens'[ref[1]].status = tokens[ref[1]].status
      BY <2>1, <2>2, <3>1, <1>T DEF Row
    <3> QED BY <2>1, <2>2, <3>2, <1>T DEF Stored
  <2> QED BY <1>0, <1>2, <2>2 DEF ReadUri, UpdateUri, UpdateToken, Stored
<1>3. ASSUME NEW task \in mrTasks, SetStatus(task)
      PROVE  \/ Stored(t) /\ tokens[t].status = "available"
             \/ /\ task.at = "status" /\ task.status = "available"
                /\ task.of = Ref(t)
  <2> DEFINE u == task.of[1]
  <2>0. task.of \in Refs
    BY DEF TypeOK, MRTypeOK
  <2>1. u \in Tokens /\ task.of = <<u, task.of[2]>>
    BY <2>0 DEF Refs
  <2>2. CASE task.of[2] = Checksum /\ Stored(u) /\
             tokens' = [tokens EXCEPT ![u] = [tokens[u] EXCEPT !.status = task.status]]
    <3>1. tokens[u] \in Row
      BY <2>1, <2>2, <1>T DEF Stored
    <3>2. tokens'[u].status = task.status
      BY <2>1, <2>2, <3>1, <1>T DEF Row
    <3>3. CASE u = t
      BY <3>3, <3>2, <2>1, <2>2, <1>3 DEF SetStatus, Ref
    <3>4. CASE u # t
      BY <3>4, <2>1, <2>2, <1>T DEF Stored
    <3> QED BY <3>3, <3>4
  <2> QED BY <1>0, <1>3, <2>2 DEF SetStatus, UpdateUnavailability, UpdateToken, Stored
<1>4. CASE Indexer
  <2>1. CASE \E s \in Tokens : StoreToken(s)
    BY <2>1, <1>1
  <2>2. CASE ~\E s \in Tokens : StoreToken(s)
    BY <1>4, <2>2, <1>0 DEF Indexer, IndexerNext, IndexerStep, ReceiveRange, StoreContract,
      EmitReadContract, EmitReadToken, FinishRange, TaskFails, RangeFails, IndexerCrash, storeVars,
      collections
  <2> QED BY <2>1, <2>2
<1>5. CASE ReadContracts
  BY <1>5, <1>0, <1>2 DEF ReadContracts, CRNext, CRWork, CRStep, CRDeliver, ReadName,
    EmitReadMetadata, CRTaskFails, ContractReaderCrash, collections
<1>6. CASE ReadMetadata
  <2>1. CASE \E task \in mrTasks : SetStatus(task)
    BY <2>1, <1>3
  <2>2. CASE ~\E task \in mrTasks : SetStatus(task)
    BY <1>6, <2>2, <1>0 DEF ReadMetadata, MRNext, MRWork, MRStep, MRDeliver, Fetch,
      SaveMetadata, SaveFails, SetStatusFails, MetadataReaderCrash, storeVars, collections
  <2> QED BY <2>1, <2>2
<1>7. CASE Produce \/ Environment
  BY <1>7, <1>0 DEF Produce, ProducersNext, RefreshContract, RefreshTokens, RefreshFails,
    RefreshToken, FillContractQueue, FillMetadataQueue, Environment, BrokerRestart, Republish,
    collections
<1> QED BY <1>0, <1>4, <1>5, <1>6, <1>7 DEF Next, vars, storeVars, collections

(* What a task of the metadata reader brings along, as a step adds it.     *)
LEMMA NewTasksAreSound ==
  ASSUME TypeOK, SaveInv, [Next]_vars, NEW task \in mrTasks', task \notin mrTasks
  PROVE  /\ task.at = "save" => task.data # NoMetadata
         /\ \A t \in Tokens :
               (task.at = "status" /\ task.status = "available" /\ task.of = Ref(t)) =>
                  metadata'[Ref(t)] # NoMetadata \/ t \in dropped'
<1>0. CASE mrTasks' \subseteq mrTasks
  BY <1>0
<1>1. ASSUME NEW ref \in Refs, MRDeliver(ref)
      PROVE  task.at = "fetch"
  BY <1>1 DEF MRDeliver, MRTask
<1>2. ASSUME NEW ref \in Refs, Fetch(ref)
      PROVE  /\ task.at = "save" => task.data # NoMetadata
             /\ \A t \in Tokens :
                   (task.at = "status" /\ task.status = "available" /\ task.of = Ref(t)) =>
                      t \in dropped'
  <2> PICK o \in Outcomes(UriOf[ref[1]]) :
        /\ task \in AfterFetch(ref, o)
        /\ dropped' = IF o.status = "available" /\ ~o.data
                      THEN dropped \cup {ref[1]} ELSE dropped
    BY <1>2 DEF Fetch
  <2>1. ref[1] \in Tokens
    BY DEF Refs
  <2>2. CASE o.data
    <3>1. task = MRTask(ref, "save", served[ref[1]], o.status)
      BY <2>2 DEF AfterFetch
    <3>2. served[ref[1]] # NoMetadata
      BY <2>1, StoresAssumption DEF TypeOK, StoresTypeOK
    <3> QED BY <3>1, <3>2 DEF MRTask
  <2>3. CASE ~o.data
    <3>1. task = MRTask(ref, "status", NoMetadata, o.status)
      BY <2>3 DEF AfterFetch
    <3> QED BY <2>3, <3>1 DEF MRTask, Ref
  <2> QED BY <2>2, <2>3
<1>3. ASSUME NEW x \in mrTasks, SaveMetadata(x)
      PROVE  /\ task.at = "status"
             /\ \A t \in Tokens : task.of = Ref(t) => metadata'[Ref(t)] # NoMetadata
  <2>1. task = MRTask(x.of, "status", NoMetadata, x.status)
    BY <1>3 DEF SaveMetadata
  <2>2. x.data # NoMetadata /\ x.of \in Refs
    BY <1>3 DEF SaveMetadata, SaveInv, TypeOK, MRTypeOK
  <2>3. metadata'[x.of] # NoMetadata
    BY <1>3, <2>2 DEF SaveMetadata, Save, TypeOK, StoresTypeOK
  <2> QED BY <2>1, <2>3 DEF MRTask
<1>4. ASSUME NEW x \in mrTasks, SaveFails(x)
      PROVE  task.at = "status" /\ \A t \in Tokens : task.of = Ref(t) => t \in dropped'
  <2>1. task = MRTask(x.of, "status", NoMetadata, x.status) /\ dropped' = dropped \cup {x.of[1]}
    BY <1>4 DEF SaveFails
  <2> QED BY <2>1 DEF MRTask, Ref
<1>5. CASE ReadMetadata
  <2>1. CASE \E ref \in Refs : MRDeliver(ref) \/ Fetch(ref)
    BY <2>1, <1>1, <1>2
  <2>2. CASE \E x \in mrTasks : SaveMetadata(x) \/ SaveFails(x)
    BY <2>2, <1>3, <1>4
  <2>3. CASE /\ ~\E ref \in Refs : MRDeliver(ref) \/ Fetch(ref)
             /\ ~\E x \in mrTasks : SaveMetadata(x) \/ SaveFails(x)
    BY <1>5, <2>3, <1>0 DEF ReadMetadata, MRNext, MRWork, MRStep, SetStatus, SetStatusFails,
      MetadataReaderCrash
  <2> QED BY <2>1, <2>2, <2>3
<1>6. CASE ~ReadMetadata
  BY <1>6, <1>0 DEF Next, Indexer, ReadContracts, Produce, Environment, vars, mrVars
<1> QED BY <1>5, <1>6

LEMMA SaveInvInductive ==
  ASSUME TypeOK, SaveInv, [Next]_vars
  PROVE  SaveInv'
<1>1. AvailableIsStored'
  <2> SUFFICES ASSUME NEW t \in Tokens, Stored(t)', t \notin dropped',
                      tokens'[t].status = "available"
               PROVE  metadata'[Ref(t)] # NoMetadata
    BY DEF AvailableIsStored
  <2>1. t \notin dropped
    BY MetadataIsKept
  <2>2. metadata[Ref(t)] # NoMetadata
    BY <2>1, StatusIsKept DEF SaveInv, AvailableIsStored
  <2> QED BY <2>2, MetadataIsKept
<1>2. ASSUME NEW task \in mrTasks', task.at = "save" PROVE task.data # NoMetadata
  BY <1>2, NewTasksAreSound DEF SaveInv
<1>3. ASSUME NEW task \in mrTasks', NEW t \in Tokens,
             task.at = "status", task.status = "available", task.of = Ref(t)
      PROVE  metadata'[Ref(t)] # NoMetadata \/ t \in dropped'
  <2>1. CASE task \in mrTasks
    BY <1>3, <2>1, MetadataIsKept DEF SaveInv
  <2>2. CASE task \notin mrTasks
    BY <1>3, <2>2, NewTasksAreSound
  <2> QED BY <2>1, <2>2
<1> QED BY <1>1, <1>2, <1>3 DEF SaveInv

(* A token is marked as available only when its metadata is stored, unless *)
(* saving it failed or it came from a fallback gateway.                    *)
THEOREM AvailableHasMetadata == Spec => []AvailableIsStored
<1>1. Init => SaveInv
  BY DEF Init, StoresInit, MRInit, SaveInv, AvailableIsStored, Stored
<1>2. TypeOK /\ SaveInv /\ [Next]_vars => SaveInv'
  BY SaveInvInductive
<1>3. SaveInv => AvailableIsStored
  BY DEF SaveInv
<1> QED BY <1>1, <1>2, <1>3, TypeCorrect, PTL DEF Spec

-----------------------------------------------------------------------------
(* NOTHING IS STRANDED                                                     *)

(* Past the fetch, a task of the metadata reader knows the status it ends  *)
(* with.                                                                   *)
StatusKnown == \A task \in mrTasks : task.at # "fetch" => task.status # "undefined"

LEMMA OutcomesAreKnown ==
  ASSUME NEW kind, NEW o \in Outcomes(kind)
  PROVE  o.status # "undefined"
BY DEF Outcomes, StatusAfter

LEMMA StatusKnownInductive ==
  ASSUME StatusKnown, [Next]_vars
  PROVE  StatusKnown'
<1>0. CASE mrTasks' \subseteq mrTasks
  BY <1>0 DEF StatusKnown
<1>1. ASSUME NEW ref \in Refs, MRDeliver(ref) PROVE StatusKnown'
  BY <1>1 DEF MRDeliver, MRTask, StatusKnown
<1>2. ASSUME NEW ref \in Refs, Fetch(ref) PROVE StatusKnown'
  <2> PICK o \in Outcomes(UriOf[ref[1]]) : mrTasks' \subseteq mrTasks \cup AfterFetch(ref, o)
    BY <1>2 DEF Fetch
  <2>1. o.status # "undefined"
    BY OutcomesAreKnown
  <2> QED BY <2>1 DEF AfterFetch, MRTask, StatusKnown
<1>3. ASSUME NEW x \in mrTasks, SaveMetadata(x) \/ SaveFails(x) PROVE StatusKnown'
  <2>1. mrTasks' \subseteq mrTasks \cup {MRTask(x.of, "status", NoMetadata, x.status)}
    BY <1>3 DEF SaveMetadata, SaveFails
  <2>2. x.at = "save"
    BY <1>3 DEF SaveMetadata, SaveFails
  <2> QED BY <2>1, <2>2 DEF MRTask, StatusKnown
<1>4. CASE ReadMetadata
  BY <1>4, <1>0, <1>1, <1>2, <1>3 DEF ReadMetadata, MRNext, MRWork, MRStep, SetStatus,
    SetStatusFails, MetadataReaderCrash
<1>5. CASE ~ReadMetadata
  BY <1>5, <1>0 DEF Next, Indexer, ReadContracts, Produce, Environment, vars, mrVars
<1> QED BY <1>4, <1>5

Settled(t) == tokens[t].status # "undefined"

(* Where READ_TOKEN, or what has become of it, can be.                     *)
Announcing(t) == Task(t, "emit") \in tasks
OnContractsQueue(t) == Ref(t) \in contractsQueue
Locating(t) == \E x \in crTasks : x.of = Ref(t)
OnMetadataQueue(t) == Ref(t) \in metadataQueue
Fetching(t) == \E x \in mrTasks : x.of = Ref(t)

LEMMA InFlightIsSomewhere ==
  ASSUME NEW t
  PROVE  InFlight(t) <=> \/ Announcing(t) \/ OnContractsQueue(t) \/ Locating(t)
                         \/ OnMetadataQueue(t) \/ Fetching(t)
BY DEF InFlight, Announcing, OnContractsQueue, Locating, OnMetadataQueue, Fetching

(* Between two ranges the indexer has nothing to do, nor when it is stuck. *)
NoTaskBetween ==
    /\ stuck => range # NoRange
    /\ range = NoRange \/ stuck => tasks = {}

LEMMA NoTaskBetweenInductive ==
  ASSUME TypeOK, NoTaskBetween, [Next]_vars
  PROVE  NoTaskBetween'
<1> USE DEF NoTaskBetween
<1>1. ASSUME NEW r \in Ranges, ReceiveRange(r) \/ RangeFails(r) PROVE NoTaskBetween'
  BY <1>1, RangesAssumption DEF ReceiveRange, RangeFails
<1>2. ASSUME tasks # {}, UNCHANGED <<range, stuck>> PROVE NoTaskBetween'
  BY <1>2
<1>3. ASSUME NEW c \in Contracts, StoreContract(c) \/ EmitReadContract(c) PROVE NoTaskBetween'
  BY <1>2, <1>3 DEF StoreContract, EmitReadContract
<1>4. ASSUME NEW t \in Tokens, StoreToken(t) \/ EmitReadToken(t) PROVE NoTaskBetween'
  BY <1>2, <1>4 DEF StoreToken, EmitReadToken
<1>5. ASSUME NEW x \in tasks, TaskFails(x) PROVE NoTaskBetween'
  BY <1>2, <1>5 DEF TaskFails
<1>6. CASE FinishRange \/ IndexerCrash
  BY <1>6 DEF FinishRange, IndexerCrash
<1>7. CASE BrokerRestart
  BY <1>7 DEF BrokerRestart
<1>8. CASE ~Indexer /\ ~BrokerRestart
  BY <1>8 DEF Next, ReadContracts, ReadMetadata, Produce, Environment, Republish, vars,
    indexerVars
<1> QED BY <1>1, <1>3, <1>4, <1>5, <1>6, <1>7, <1>8 DEF Indexer, IndexerNext, IndexerStep

(* From one place a message goes to the next, or a fault takes it away.    *)
LEMMA AnnouncingEnds ==
  ASSUME NoTaskBetween, [Next]_vars, NEW t \in Tokens, Announcing(t)
  PROVE  Announcing(t)' \/ OnContractsQueue(t)' \/ t \in lost'
<1> USE DEF Announcing
<1>0. CASE UNCHANGED tasks
  BY <1>0
<1>1. ASSUME NEW r \in Ranges, ReceiveRange(r) PROVE FALSE
  BY <1>1 DEF ReceiveRange, NoTaskBetween
<1>2. ASSUME NEW c \in Contracts, StoreContract(c) \/ EmitReadContract(c) PROVE Announcing(t)'
  <2>1. t # c
    BY StoresAssumption
  <2>2. Task(t, "emit") # Task(c, "emit") /\ Task(t, "emit") # Task(c, "store")
    BY <2>1, TaskIsPair
  <2> QED BY <1>2, <2>2 DEF StoreContract, EmitReadContract
<1>3. ASSUME NEW s \in Tokens, StoreToken(s) PROVE Announcing(t)'
  <2>1. Task(t, "emit") # Task(s, "store")
    BY TaskIsPair
  <2> QED BY <1>3, <2>1 DEF StoreToken
<1>4. ASSUME NEW s \in Tokens, EmitReadToken(s) PROVE Announcing(t)' \/ OnContractsQueue(t)'
  <2>1. CASE s = t
    BY <1>4, <2>1 DEF EmitReadToken, OnContractsQueue
  <2>2. CASE s # t
    <3>1. Task(t, "emit") # Task(s, "emit")
      BY <2>2, TaskIsPair
    <3> QED BY <1>4, <3>1 DEF EmitReadToken
  <2> QED BY <2>1, <2>2
<1>5. ASSUME NEW x \in tasks, TaskFails(x) PROVE Announcing(t)' \/ t \in lost'
  BY <1>5 DEF TaskFails, Fault, Task
<1>6. CASE IndexerCrash
  <2>1. Task(t, "emit").of = t
    BY DEF Task
  <2>2. ~stuck
    BY DEF NoTaskBetween
  <2> QED BY <1>6, <2>1, <2>2 DEF IndexerCrash, Fault
<1>7. CASE FinishRange \/ \E r \in Ranges : RangeFails(r)
  BY <1>7, <1>0 DEF FinishRange, RangeFails
<1>8. CASE Indexer
  BY <1>1, <1>2, <1>3, <1>4, <1>5, <1>6, <1>7, <1>8 DEF Indexer, IndexerNext, IndexerStep
<1>9. CASE ~Indexer
  BY <1>9, <1>0 DEF Next, ReadContracts, ReadMetadata, Produce, Environment, BrokerRestart,
    Republish, vars, indexerVars
<1> QED BY <1>8, <1>9

LEMMA ContractsQueueEnds ==
  ASSUME [Next]_vars, NEW t \in Tokens, OnContractsQueue(t)
  PROVE  OnContractsQueue(t)' \/ Locating(t)' \/ t \in lost'
<1> USE DEF OnContractsQueue
<1>1. CASE Indexer
  BY <1>1 DEF Indexer, IndexerNext, IndexerStep, ReceiveRange, StoreContract, EmitReadContract,
    StoreToken, EmitReadToken, FinishRange, TaskFails, RangeFails, IndexerCrash, storeVars, queues
<1>2. ASSUME NEW ref, CRDeliver(ref) PROVE OnContractsQueue(t)' \/ Locating(t)'
  <2>1. CASE ref = Ref(t)
    <3>1. CRTask(ref, "read") \in crTasks' /\ CRTask(ref, "read").of = ref
      BY <1>2 DEF CRDeliver, CRTask
    <3> QED BY <2>1, <3>1 DEF Locating, Ref
  <2>2. CASE ref # Ref(t)
    BY <1>2, <2>2 DEF CRDeliver, Ref
  <2> QED BY <2>1, <2>2
<1>3. CASE ReadContracts
  BY <1>2, <1>3 DEF ReadContracts, CRNext, CRWork, CRStep, ReadName, ReadUri,
    EmitReadMetadata, CRTaskFails, ContractReaderCrash, queues
<1>4. CASE ReadMetadata
  BY <1>4 DEF ReadMetadata, MRNext, MRWork, MRStep, MRDeliver, Fetch, SaveMetadata, SaveFails,
    SetStatus, SetStatusFails, MetadataReaderCrash, storeVars, queues
<1>5. CASE Produce
  BY <1>5 DEF Produce, ProducersNext, RefreshContract, RefreshTokens, RefreshFails,
    SendTokens, RefreshToken, FillContractQueue, FillMetadataQueue, queues
<1>6. CASE Environment
  <2>1. CASE BrokerRestart
    <3>1. Ref(t)[1] = t
      BY DEF Ref
    <3>2. t \in {ref[1] : ref \in contractsQueue \cup metadataQueue}
      BY <3>1
    <3> QED BY <2>1, <3>2 DEF BrokerRestart, Fault
  <2>2. CASE ~BrokerRestart
    BY <1>6, <2>2 DEF Environment, Republish, Ref, queues
  <2> QED BY <2>1, <2>2
<1> QED BY <1>1, <1>3, <1>4, <1>5, <1>6 DEF Next, vars, storeVars, queues

LEMMA LocatingEnds ==
  ASSUME TypeOK, [Next]_vars, NEW t \in Tokens, UriOf[t] # "", Locating(t)
  PROVE  Locating(t)' \/ OnMetadataQueue(t)' \/ t \in lost'
<1> PICK x \in crTasks : x.of = Ref(t)
  BY DEF Locating
<1>X. x = CRTask(Ref(t), x.at) /\ x.at \in {"read", "emit"} /\ x.of[1] = t /\ t \notin Contracts
  <2>1. x \in [of : Refs \cup ContractRefs, at : {"read", "emit"}]
    BY DEF TypeOK, CRTypeOK
  <2>2. x = [of |-> x.of, at |-> x.at] /\ x.at \in {"read", "emit"}
    BY <2>1
  <2>3. x = CRTask(Ref(t), x.at)
    BY <2>2 DEF CRTask
  <2>4. x.of[1] = t
    <3>1. Ref(t)[1] = t
      BY DEF Ref
    <3> QED BY <3>1
  <2> QED BY <2>2, <2>3, <2>4, StoresAssumption
<1>0. ASSUME x \in crTasks' PROVE Locating(t)'
  BY <1>0 DEF Locating, Ref
<1>1. ASSUME NEW ref, CRDeliver(ref) PROVE x \in crTasks'
  BY <1>1 DEF CRDeliver
<1>2. ASSUME NEW ref, ReadName(ref) PROVE x \in crTasks'
  <2>1. ref # Ref(t)
    BY <1>2, <1>X DEF ReadName, ContractRefs, Ref
  <2>2. CRTask(ref, "read").of = ref
    BY DEF CRTask
  <2>3. x # CRTask(ref, "read")
    BY <2>1, <2>2
  <2> QED BY <1>2, <2>3 DEF ReadName, Advance
<1>3. ASSUME NEW ref, ReadUri(ref) PROVE Locating(t)'
  <2>1. CASE x = CRTask(ref, "read")
    <3>1. ref = Ref(t) /\ ref[1] = t
      BY <2>1, <1>X DEF CRTask, Ref
    <3>2. CRTask(ref, "emit") \in crTasks'
      BY <1>3, <3>1 DEF ReadUri, Advance
    <3> QED BY <3>1, <3>2 DEF Locating, CRTask, Ref
  <2>2. CASE x # CRTask(ref, "read")
    BY <1>3, <2>2, <1>0 DEF ReadUri, Advance
  <2> QED BY <2>1, <2>2
<1>4. ASSUME NEW ref, EmitReadMetadata(ref) PROVE Locating(t)' \/ OnMetadataQueue(t)'
  <2>1. CASE x = CRTask(ref, "emit")
    <3>1. ref = Ref(t)
      BY <2>1 DEF CRTask
    <3> QED BY <1>4, <3>1 DEF EmitReadMetadata, OnMetadataQueue, Ref
  <2>2. CASE x # CRTask(ref, "emit")
    BY <1>4, <2>2, <1>0 DEF EmitReadMetadata, Advance
  <2> QED BY <2>1, <2>2
<1>5. ASSUME NEW task \in crTasks, CRTaskFails(task) PROVE Locating(t)' \/ t \in lost'
  BY <1>5, <1>0, <1>X DEF CRTaskFails, Fault
<1>6. CASE ContractReaderCrash
  BY <1>6, <1>X DEF ContractReaderCrash, Fault
<1>7. CASE ReadContracts
  BY <1>0, <1>1, <1>2, <1>3, <1>4, <1>5, <1>6, <1>7 DEF ReadContracts, CRNext, CRWork, CRStep
<1>8. CASE ~ReadContracts
  BY <1>8, <1>0 DEF Next, Indexer, ReadMetadata, Produce, Environment, vars
<1> QED BY <1>7, <1>8

LEMMA MetadataQueueEnds ==
  ASSUME [Next]_vars, NEW t \in Tokens, HasReader(UriOf[t]), OnMetadataQueue(t)
  PROVE  OnMetadataQueue(t)' \/ Fetching(t)' \/ t \in lost'
<1> USE DEF OnMetadataQueue
<1>1. CASE Indexer
  BY <1>1 DEF Indexer, IndexerNext, IndexerStep, ReceiveRange, StoreContract, EmitReadContract,
    StoreToken, EmitReadToken, FinishRange, TaskFails, RangeFails, IndexerCrash, storeVars, queues
<1>2. CASE ReadContracts
  BY <1>2 DEF ReadContracts, CRNext, CRWork, CRStep, CRDeliver, ReadName, ReadUri,
    EmitReadMetadata, CRTaskFails, ContractReaderCrash, queues
<1>3. ASSUME NEW ref, MRDeliver(ref) PROVE OnMetadataQueue(t)' \/ Fetching(t)'
  <2>1. CASE ref = Ref(t)
    <3>1. ref[1] = t
      BY <2>1 DEF Ref
    <3>2. MRTask(ref, "fetch", NoMetadata, "undefined") \in mrTasks'
      BY <1>3, <3>1 DEF MRDeliver
    <3>3. MRTask(ref, "fetch", NoMetadata, "undefined").of = ref
      BY DEF MRTask
    <3> QED BY <2>1, <3>2, <3>3 DEF Fetching, Ref
  <2>2. CASE ref # Ref(t)
    BY <1>3, <2>2 DEF MRDeliver, Ref
  <2> QED BY <2>1, <2>2
<1>4. CASE ReadMetadata
  BY <1>3, <1>4 DEF ReadMetadata, MRNext, MRWork, MRStep, Fetch, SaveMetadata, SaveFails,
    SetStatus, SetStatusFails, MetadataReaderCrash, storeVars, queues
<1>5. CASE Produce
  BY <1>5 DEF Produce, ProducersNext, RefreshContract, RefreshTokens, RefreshFails,
    RefreshToken, FillContractQueue, FillMetadataQueue, queues
<1>6. CASE Environment
  <2>1. CASE BrokerRestart
    <3>1. Ref(t)[1] = t
      BY DEF Ref
    <3>2. t \in {ref[1] : ref \in contractsQueue \cup metadataQueue}
      BY <3>1
    <3> QED BY <2>1, <3>2 DEF BrokerRestart, Fault
  <2>2. CASE ~BrokerRestart
    BY <1>6, <2>2 DEF Environment, Republish, Ref, queues
  <2> QED BY <2>1, <2>2
<1> QED BY <1>1, <1>2, <1>4, <1>5, <1>6 DEF Next, vars, storeVars, queues

LEMMA FetchingEnds ==
  ASSUME TypeOK, StatusKnown, [Next]_vars, NEW t \in Tokens, Stored(t), Fetching(t)
  PROVE  Fetching(t)' \/ Settled(t)' \/ t \in lost'
<1> PICK x \in mrTasks : x.of = Ref(t)
  BY DEF Fetching
<1>X. x.of[1] = t /\ x.of[2] = Checksum
  BY DEF Ref
<1>0. ASSUME x \in mrTasks' PROVE Fetching(t)'
  BY <1>0 DEF Fetching, Ref
<1>1. ASSUME NEW ref, MRDeliver(ref) PROVE x \in mrTasks'
  BY <1>1 DEF MRDeliver
<1>2. ASSUME NEW ref, Fetch(ref) PROVE Fetching(t)'
  <2> PICK task \in mrTasks, o \in Outcomes(UriOf[ref[1]]) :
        task.of = ref /\ mrTasks' = (mrTasks \ {task}) \cup AfterFetch(ref, o)
    BY <1>2 DEF Fetch
  <2>1. CASE x = task
    <3>1. \E y \in AfterFetch(ref, o) : y.of = ref
      BY DEF AfterFetch, MRTask
    <3> QED BY <2>1, <3>1 DEF Fetching, Ref
  <2>2. CASE x # task
    BY <2>2, <1>0
  <2> QED BY <2>1, <2>2
<1>3. ASSUME NEW task \in mrTasks, SaveMetadata(task) \/ SaveFails(task) PROVE Fetching(t)'
  <2>1. mrTasks' = (mrTasks \ {task}) \cup {MRTask(task.of, "status", NoMetadata, task.status)}
    BY <1>3 DEF SaveMetadata, SaveFails
  <2>2. MRTask(task.of, "status", NoMetadata, task.status).of = task.of
    BY DEF MRTask
  <2> QED BY <2>1, <2>2, <1>0 DEF Fetching, Ref
<1>4. ASSUME NEW task \in mrTasks, SetStatus(task) PROVE Fetching(t)' \/ Settled(t)'
  <2>1. CASE x = task
    <3>1. tokens' = [tokens EXCEPT ![t] = [tokens[t] EXCEPT !.status = x.status]]
      BY <1>4, <1>X, <2>1 DEF SetStatus, UpdateUnavailability, UpdateToken
    <3>2. tokens[t] \in Row /\ tokens \in [Tokens -> Row \cup {NoToken}]
      BY DEF TypeOK, StoresTypeOK, Stored
    <3>3. tokens'[t].status = x.status
      BY <3>1, <3>2 DEF Row
    <3>4. x.status # "undefined"
      BY <1>4, <2>1 DEF SetStatus, StatusKnown
    <3> QED BY <3>3, <3>4 DEF Settled
  <2>2. CASE x # task
    BY <1>4, <2>2, <1>0 DEF SetStatus
  <2> QED BY <2>1, <2>2
<1>5. ASSUME NEW task \in mrTasks, SetStatusFails(task) PROVE Fetching(t)' \/ t \in lost'
  BY <1>5, <1>0, <1>X DEF SetStatusFails, Fault
<1>6. CASE MetadataReaderCrash
  BY <1>6, <1>X DEF MetadataReaderCrash, Fault
<1>7. CASE ReadMetadata
  BY <1>0, <1>1, <1>2, <1>3, <1>4, <1>5, <1>6, <1>7 DEF ReadMetadata, MRNext, MRWork, MRStep
<1>8. CASE ~ReadMetadata
  BY <1>8, <1>0 DEF Next, Indexer, ReadContracts, Produce, Environment, vars, mrVars
<1> QED BY <1>7, <1>8

(* What the store knows of a token's metadata is not forgotten.            *)
LEMMA SettledStays ==
  ASSUME TypeOK, StatusKnown, [Next]_vars, NEW t \in Tokens, Stored(t), Settled(t)
  PROVE  Settled(t)'
<1>T. tokens \in [Tokens -> Row \cup {NoToken}] /\ tokens[t] \in Row
  BY DEF TypeOK, StoresTypeOK, Stored
<1>0. CASE UNCHANGED tokens
  BY <1>0 DEF Settled
<1>1. ASSUME NEW s \in Tokens, StoreToken(s) PROVE Settled(t)'
  BY <1>1, <1>T DEF StoreToken, Upsert, Stored, Settled
<1>2. ASSUME NEW ref, ReadUri(ref) PROVE Settled(t)'
  <2>1. CASE ref[1] = t /\ tokens' = [tokens EXCEPT ![t] =
                                        [tokens[t] EXCEPT !.tokenUri = UriOf[ref[1]]]]
    <3>1. tokens'[t].status = tokens[t].status
      BY <2>1, <1>T DEF Row
    <3> QED BY <3>1 DEF Settled
  <2>2. CASE ref[1] # t
    BY <1>0, <1>2, <2>2, <1>T DEF ReadUri, UpdateUri, UpdateToken, Settled
  <2> QED BY <1>0, <1>2, <2>1, <2>2 DEF ReadUri, UpdateUri, UpdateToken
<1>3. ASSUME NEW task \in mrTasks, SetStatus(task) PROVE Settled(t)'
  <2>1. CASE task.of[1] = t /\ tokens' = [tokens EXCEPT ![t] =
                                            [tokens[t] EXCEPT !.status = task.status]]
    <3>1. tokens'[t].status = task.status
      BY <2>1, <1>T DEF Row
    <3>2. task.status # "undefined"
      BY <1>3 DEF SetStatus, StatusKnown
    <3> QED BY <3>1, <3>2 DEF Settled
  <2>2. CASE task.of[1] # t
    BY <1>0, <1>3, <2>2, <1>T DEF SetStatus, UpdateUnavailability, UpdateToken, Settled
  <2> QED BY <1>0, <1>3, <2>1, <2>2 DEF SetStatus, UpdateUnavailability, UpdateToken
<1>4. CASE Indexer
  <2>1. CASE \E s \in Tokens : StoreToken(s)
    BY <2>1, <1>1
  <2>2. CASE ~\E s \in Tokens : StoreToken(s)
    BY <1>4, <2>2, <1>0 DEF Indexer, IndexerNext, IndexerStep, ReceiveRange, StoreContract,
      EmitReadContract, EmitReadToken, FinishRange, TaskFails, RangeFails, IndexerCrash, storeVars,
      collections
  <2> QED BY <2>1, <2>2
<1>5. CASE ReadContracts
  BY <1>5, <1>0, <1>2 DEF ReadContracts, CRNext, CRWork, CRStep, CRDeliver, ReadName,
    EmitReadMetadata, CRTaskFails, ContractReaderCrash, collections
<1>6. CASE ReadMetadata
  <2>1. CASE \E task \in mrTasks : SetStatus(task)
    BY <2>1, <1>3
  <2>2. CASE ~\E task \in mrTasks : SetStatus(task)
    BY <1>6, <2>2, <1>0 DEF ReadMetadata, MRNext, MRWork, MRStep, MRDeliver, Fetch,
      SaveMetadata, SaveFails, SetStatusFails, MetadataReaderCrash, storeVars, collections
  <2> QED BY <2>1, <2>2
<1>7. CASE Produce \/ Environment
  BY <1>7, <1>0 DEF Produce, ProducersNext, RefreshContract, RefreshTokens, RefreshFails,
    RefreshToken, FillContractQueue, FillMetadataQueue, Environment, BrokerRestart, Republish,
    collections
<1> QED BY <1>0, <1>4, <1>5, <1>6, <1>7 DEF Next, vars, storeVars, collections

(* A token that the upsert has just inserted is about to be announced.     *)
LEMMA InsertedIsAnnounced ==
  ASSUME [Next]_vars, TypeOK, NEW t \in Tokens, ~Stored(t), Stored(t)'
  PROVE  Announcing(t)'
<1>T. tokens \in [Tokens -> Row \cup {NoToken}]
  BY DEF TypeOK, StoresTypeOK
<1>0. UNCHANGED tokens => FALSE
  BY DEF Stored
<1>1. ASSUME NEW s \in Tokens, StoreToken(s) PROVE Announcing(t)'
  <2>1. s = t
    BY <1>1, <1>T DEF StoreToken, Upsert, Stored
  <2> QED BY <1>1, <2>1 DEF StoreToken, EmitEvent, Announcing, Task
<1>2. ASSUME NEW ref, ReadUri(ref) PROVE FALSE
  BY <1>0, <1>2, <1>T DEF ReadUri, UpdateUri, UpdateToken, Stored
<1>3. ASSUME NEW task \in mrTasks, SetStatus(task) PROVE FALSE
  BY <1>0, <1>3, <1>T DEF SetStatus, UpdateUnavailability, UpdateToken, Stored
<1>4. CASE Indexer
  <2>1. CASE \E s \in Tokens : StoreToken(s)
    BY <2>1, <1>1
  <2>2. CASE ~\E s \in Tokens : StoreToken(s)
    BY <1>4, <2>2, <1>0 DEF Indexer, IndexerNext, IndexerStep, ReceiveRange, StoreContract,
      EmitReadContract, EmitReadToken, FinishRange, TaskFails, RangeFails, IndexerCrash, storeVars,
      collections
  <2> QED BY <2>1, <2>2
<1>5. CASE ReadContracts
  BY <1>5, <1>0, <1>2 DEF ReadContracts, CRNext, CRWork, CRStep, CRDeliver, ReadName,
    EmitReadMetadata, CRTaskFails, ContractReaderCrash, collections
<1>6. CASE ReadMetadata
  <2>1. CASE \E task \in mrTasks : SetStatus(task)
    BY <2>1, <1>3
  <2>2. CASE ~\E task \in mrTasks : SetStatus(task)
    BY <1>6, <2>2, <1>0 DEF ReadMetadata, MRNext, MRWork, MRStep, MRDeliver, Fetch,
      SaveMetadata, SaveFails, SetStatusFails, MetadataReaderCrash, storeVars, collections
  <2> QED BY <2>1, <2>2
<1>7. CASE Produce \/ Environment
  BY <1>7, <1>0 DEF Produce, ProducersNext, RefreshContract, RefreshTokens, RefreshFails,
    RefreshToken, FillContractQueue, FillMetadataQueue, Environment, BrokerRestart, Republish,
    collections
<1> QED BY <1>0, <1>4, <1>5, <1>6, <1>7 DEF Next, vars, storeVars, collections

(* What was lost and no longer is has been sent again, with the stored id. *)
LEMMA FoundIsSent ==
  ASSUME TypeOK, [Next]_vars, NEW t \in Tokens, t \in lost, t \notin lost'
  PROVE  OnContractsQueue(t)' \/ OnMetadataQueue(t)'
<1> DEFINE Sent1 == OnContractsQueue(t)' \/ OnMetadataQueue(t)'
<1>0. t \notin Contracts
  BY StoresAssumption
<1>F. ASSUME NEW refs, Found(refs) PROVE \E r \in refs : r[1] = t /\ r[2] = Checksum
  BY <1>F DEF Found
<1>1. CASE Indexer
  BY <1>1 DEF Indexer, IndexerNext, IndexerStep, ReceiveRange, StoreContract, EmitReadContract,
    StoreToken, EmitReadToken, FinishRange, TaskFails, RangeFails, IndexerCrash, Fault, NoFault,
    storeVars
<1>2. CASE ReadContracts
  BY <1>2 DEF ReadContracts, CRNext, CRWork, CRStep, CRDeliver, ReadName, ReadUri,
    EmitReadMetadata, CRTaskFails, ContractReaderCrash, Fault
<1>3. CASE ReadMetadata
  BY <1>3 DEF ReadMetadata, MRNext, MRWork, MRStep, MRDeliver, Fetch, SaveMetadata, SaveFails,
    SetStatus, SetStatusFails, MetadataReaderCrash, Fault, storeVars
<1>4. ASSUME NEW c \in Contracts, NEW form \in Forms, RefreshContract(c, form) PROVE FALSE
  BY <1>4, <1>F, <1>0 DEF RefreshContract
<1>5. ASSUME RefreshTokens PROVE Sent1
  <2> DEFINE ts == TokensOf(refreshing[1])
  <2>1. \E r \in {Ref(u) : u \in ts} \cup {refreshing} : r[1] = t
    BY <1>5, <1>F DEF RefreshTokens, SendTokens
  <2>2. refreshing[1] # t
    BY <1>5, <1>0 DEF RefreshTokens, TypeOK, ProducersTypeOK, ContractRefs
  <2>3. t \in ts
    BY <2>1, <2>2 DEF Ref
  <2> QED BY <1>5, <2>3 DEF RefreshTokens, SendTokens, OnContractsQueue, Ref
<1>11. ASSUME RefreshFails PROVE Sent1
  <2>1. PICK ts \in SUBSET TokensOf(refreshing[1]) : SendTokens(ts, {})
    BY <1>11 DEF RefreshFails
  <2>2. \E r \in {Ref(u) : u \in ts} \cup {} : r[1] = t
    BY <2>1, <1>F DEF SendTokens
  <2> QED BY <2>1, <2>2 DEF SendTokens, OnContractsQueue, Ref
<1>6. ASSUME NEW u \in Tokens, NEW form \in Forms, RefreshToken(u, form) PROVE Sent1
  <2>0. Found({<<u, form>>})
    BY <1>6 DEF RefreshToken
  <2>1. \E r \in {<<u, form>>} : r[1] = t /\ r[2] = Checksum
    BY <2>0, <1>F
  <2>2. <<u, form>> = Ref(t)
    BY <2>1 DEF Ref
  <2>3. <<u, form>> \in contractsQueue'
    BY <1>6 DEF RefreshToken
  <2> QED BY <2>2, <2>3 DEF OnContractsQueue, Ref
<1>7. ASSUME NEW u \in Tokens, FillContractQueue(u) PROVE Sent1
  <2>1. u = t
    BY <1>7, <1>F DEF FillContractQueue, Ref
  <2> QED BY <1>7, <2>1 DEF FillContractQueue, OnContractsQueue, Ref
<1>8. ASSUME NEW u \in Tokens, FillMetadataQueue(u) PROVE Sent1
  <2>0. Found({Ref(u)})
    BY <1>8 DEF FillMetadataQueue
  <2>1. \E r \in {Ref(u)} : r[1] = t
    BY <2>0, <1>F
  <2>2. u = t
    BY <2>1 DEF Ref
  <2> QED BY <1>8, <2>2 DEF FillMetadataQueue, OnMetadataQueue, Ref
<1>9. CASE Produce
  BY <1>4, <1>5, <1>6, <1>7, <1>8, <1>9, <1>11 DEF Produce, ProducersNext
<1>10. CASE Environment
  BY <1>10 DEF Environment, BrokerRestart, Republish, Fault
<1> QED BY <1>1, <1>2, <1>3, <1>9, <1>10 DEF Next, vars, storeVars

StrandedInv == NoTaskBetween /\ StatusKnown /\ NothingStranded

LEMMA StrandedInvInductive ==
  ASSUME TypeOK, StrandedInv, [Next]_vars
  PROVE  StrandedInv'
<1>1. NoTaskBetween' /\ StatusKnown'
  BY NoTaskBetweenInductive, StatusKnownInductive DEF StrandedInv
<1>2. ASSUME NEW t \in Tokens, Stored(t)', Readable(t), t \notin lost'
      PROVE  InFlight(t)' \/ Settled(t)'
  <2>1. CASE ~Stored(t)
    <3>1. Announcing(t)'
      BY <1>2, <2>1, InsertedIsAnnounced
    <3> QED BY <3>1 DEF InFlight, Announcing, Ref, Task
  <2>2. CASE Stored(t) /\ t \in lost
    <3>1. OnContractsQueue(t)' \/ OnMetadataQueue(t)'
      BY <1>2, <2>2, FoundIsSent
    <3> QED BY <3>1 DEF InFlight, OnContractsQueue, OnMetadataQueue, Ref, Task
  <2>3. CASE Stored(t) /\ Settled(t)
    BY <2>3, SettledStays DEF StrandedInv
  <2>4. CASE Stored(t) /\ t \notin lost /\ ~Settled(t)
    <3>1. \/ Announcing(t) \/ OnContractsQueue(t) \/ Locating(t)
          \/ OnMetadataQueue(t) \/ Fetching(t)
      BY <1>2, <2>4, InFlightIsSomewhere DEF StrandedInv, NothingStranded, Settled
    <3>2. \/ Announcing(t)' \/ OnContractsQueue(t)' \/ Locating(t)'
          \/ OnMetadataQueue(t)' \/ Fetching(t)' \/ Settled(t)'
      BY <1>2, <2>4, <3>1, AnnouncingEnds, ContractsQueueEnds, LocatingEnds,
         MetadataQueueEnds, FetchingEnds DEF StrandedInv, Readable
    <3> QED BY <3>2 DEF InFlight, Announcing, OnContractsQueue, Locating, OnMetadataQueue,
          Fetching, Ref, Task
  <2> QED BY <2>1, <2>2, <2>3, <2>4
<1>3. NothingStranded'
  BY <1>2 DEF NothingStranded, Settled, Readable
<1> QED BY <1>1, <1>3 DEF StrandedInv

(* No process drops a token on its own: for any tokens, URIs and faults, a *)
(* stored token with a readable URI whose metadata nobody has looked for   *)
(* is on a queue or in a task, or a fault has taken it away and nobody has *)
(* sent it again.                                                          *)
THEOREM NoTokenStranded == Spec => []NothingStranded
<1>1. Init => StrandedInv
  BY DEF Init, StoresInit, IndexerInit, MRInit, StrandedInv, NoTaskBetween, StatusKnown,
    NothingStranded, Stored
<1>2. TypeOK /\ StrandedInv /\ [Next]_vars => StrandedInv'
  BY StrandedInvInductive
<1>3. StrandedInv => NothingStranded
  BY DEF StrandedInv
<1> QED BY <1>1, <1>2, <1>3, TypeCorrect, PTL DEF Spec

-----------------------------------------------------------------------------
(* THE REFINEMENT                                                          *)

(* What is on its way shows how far its token has come: what goes to the   *)
(* contract reader belongs to a stored token, what goes to the metadata    *)
(* reader, or has gone through it, to a token with a URI.                  *)
StageInv ==
    \A t \in Tokens :
       /\ Ref(t) \in contractsQueue => Stored(t)
       /\ \A task \in crTasks : task.of = Ref(t) =>
             Stored(t) /\ (task.at = "emit" => Located(t))
       /\ Ref(t) \in metadataQueue => Located(t)
       /\ \A task \in mrTasks : task.of = Ref(t) => Located(t)
       /\ metadata[Ref(t)] # NoMetadata => Located(t)

LEMMA ContractsQueueShows ==
  ASSUME TypeOK, AnnounceInv, [Next]_vars,
         NEW t \in Tokens, Ref(t) \in contractsQueue', Ref(t) \notin contractsQueue
  PROVE  Stored(t)
<1>0. t \notin Contracts
  BY StoresAssumption
<1>1. ASSUME NEW c \in Contracts, EmitReadContract(c) PROVE FALSE
  BY <1>0, <1>1 DEF EmitReadContract, Ref
<1>2. ASSUME NEW s \in Tokens, EmitReadToken(s) PROVE Stored(t)
  <2>1. Ref(t) = Ref(s)
    BY <1>2 DEF EmitReadToken
  <2> QED BY <1>2, <2>1, RefIsInjective DEF EmitReadToken, AnnounceInv
<1>3. CASE Indexer
  BY <1>1, <1>2, <1>3 DEF Indexer, IndexerNext, IndexerStep, ReceiveRange, StoreContract,
    StoreToken, FinishRange, TaskFails, RangeFails, IndexerCrash, storeVars, queues
<1>4. CASE ReadContracts
  BY <1>4 DEF ReadContracts, CRNext, CRWork, CRStep, CRDeliver, ReadName, ReadUri,
    EmitReadMetadata, CRTaskFails, ContractReaderCrash, queues
<1>5. CASE ReadMetadata
  BY <1>5 DEF ReadMetadata, MRNext, MRWork, MRStep, MRDeliver, Fetch, SaveMetadata, SaveFails,
    SetStatus, SetStatusFails, MetadataReaderCrash, storeVars, queues
<1>6. ASSUME NEW c \in Contracts, NEW form \in Forms, RefreshContract(c, form) PROVE FALSE
  BY <1>0, <1>6 DEF RefreshContract, Ref
<1>7. ASSUME RefreshTokens PROVE Stored(t)
  <2>1. refreshing # Ref(t)
    BY <1>0, <1>7 DEF RefreshTokens, TypeOK, ProducersTypeOK, ContractRefs, Ref
  <2>2. \E u \in Tokens : Stored(u) /\ Ref(u) = Ref(t)
    BY <1>7, <2>1 DEF RefreshTokens, SendTokens, TokensOf
  <2> QED BY <2>2, RefIsInjective
<1>12. ASSUME RefreshFails PROVE Stored(t)
  <2>1. \E u \in Tokens : Stored(u) /\ Ref(u) = Ref(t)
    BY <1>12 DEF RefreshFails, SendTokens, TokensOf
  <2> QED BY <2>1, RefIsInjective
<1>8. ASSUME NEW u \in Tokens, NEW form \in Forms, RefreshToken(u, form) PROVE Stored(t)
  <2>1. Ref(t) = <<u, form>>
    BY <1>8 DEF RefreshToken
  <2>2. u = t
    BY <2>1 DEF Ref
  <2> QED BY <1>8, <2>2 DEF RefreshToken
<1>9. ASSUME NEW u \in Tokens, FillContractQueue(u) PROVE Stored(t)
  BY <1>9, RefIsInjective DEF FillContractQueue
<1>10. CASE Produce
  BY <1>6, <1>7, <1>8, <1>9, <1>10, <1>12 DEF Produce, ProducersNext, FillMetadataQueue
<1>11. CASE Environment
  BY <1>11 DEF Environment, BrokerRestart, Republish, queues
<1> QED BY <1>3, <1>4, <1>5, <1>10, <1>11 DEF Next, vars, storeVars, queues

LEMMA ContractTasksShow ==
  ASSUME TypeOK, StageInv, [Next]_vars,
         NEW t \in Tokens, NEW task \in crTasks', task \notin crTasks, task.of = Ref(t)
  PROVE  Stored(t) /\ (task.at = "emit" => Located(t)')
<1>1. ASSUME NEW ref, CRDeliver(ref) PROVE Stored(t) /\ task.at = "read"
  BY <1>1 DEF CRDeliver, CRTask, StageInv
<1>2. ASSUME NEW ref, ReadUri(ref) PROVE Stored(t) /\ Located(t)'
  <2>1. task = CRTask(ref, "emit") /\ UriOf[ref[1]] # ""
    BY <1>2 DEF ReadUri, Advance
  <2>2. ref = Ref(t) /\ ref[1] = t /\ ref[2] = Checksum
    <3>1. task.of = ref
      BY <2>1 DEF CRTask
    <3>2. ref = Ref(t)
      BY <3>1
    <3> QED BY <3>2 DEF Ref
  <2>3. CRTask(ref, "read") \in crTasks /\ CRTask(ref, "read").of = Ref(t)
    BY <1>2, <2>2 DEF ReadUri, Advance, CRTask
  <2>4. Stored(t)
    BY <2>3 DEF StageInv
  <2>5. tokens' = [tokens EXCEPT ![t] = [tokens[t] EXCEPT !.tokenUri = UriOf[t]]]
    BY <1>2, <2>1, <2>2, <2>4 DEF ReadUri, UpdateUri, UpdateToken
  <2>6. tokens \in [Tokens -> Row \cup {NoToken}] /\ tokens[t] \in Row
        /\ UriOf[t] \in UriValues
    BY <2>4, StoresAssumption DEF TypeOK, StoresTypeOK, Stored
  <2>7. tokens'[t] \in Row /\ tokens'[t].tokenUri = UriOf[t]
    BY <2>5, <2>6 DEF Row
  <2> QED BY <2>1, <2>2, <2>4, <2>7, StoresAssumption DEF Stored, Located
<1>3. CASE ReadContracts
  BY <1>1, <1>2, <1>3 DEF ReadContracts, CRNext, CRWork, CRStep, ReadName, EmitReadMetadata,
    CRTaskFails, ContractReaderCrash, Advance, NextStepAfterError
<1>4. CASE ~ReadContracts
  BY <1>4 DEF Next, Indexer, ReadMetadata, Produce, Environment, vars
<1> QED BY <1>3, <1>4

LEMMA MetadataQueueShows ==
  ASSUME TypeOK, StageInv, [Next]_vars,
         NEW t \in Tokens, Ref(t) \in metadataQueue', Ref(t) \notin metadataQueue
  PROVE  Located(t)
<1>1. ASSUME NEW ref, EmitReadMetadata(ref) PROVE Located(t)
  <2>1. ref = Ref(t) /\ CRTask(ref, "emit") \in crTasks
    BY <1>1 DEF EmitReadMetadata, Advance
  <2> QED BY <2>1 DEF StageInv, CRTask
<1>2. ASSUME NEW u \in Tokens, FillMetadataQueue(u) PROVE Located(t)
  BY <1>2, RefIsInjective DEF FillMetadataQueue, Located
<1>3. CASE Indexer
  BY <1>3 DEF Indexer, IndexerNext, IndexerStep, ReceiveRange, StoreContract, EmitReadContract,
    StoreToken, EmitReadToken, FinishRange, TaskFails, RangeFails, IndexerCrash, storeVars, queues
<1>4. CASE ReadContracts
  BY <1>1, <1>4 DEF ReadContracts, CRNext, CRWork, CRStep, CRDeliver, ReadName, ReadUri,
    CRTaskFails, ContractReaderCrash, queues
<1>5. CASE ReadMetadata
  BY <1>5 DEF ReadMetadata, MRNext, MRWork, MRStep, MRDeliver, Fetch, SaveMetadata, SaveFails,
    SetStatus, SetStatusFails, MetadataReaderCrash, storeVars, queues
<1>6. CASE Produce
  BY <1>2, <1>6 DEF Produce, ProducersNext, RefreshContract, RefreshTokens, RefreshFails,
    RefreshToken, FillContractQueue, queues
<1>7. CASE Environment
  BY <1>7 DEF Environment, BrokerRestart, Republish, queues
<1> QED BY <1>3, <1>4, <1>5, <1>6, <1>7 DEF Next, vars, storeVars, queues

LEMMA MetadataTasksShow ==
  ASSUME TypeOK, StageInv, [Next]_vars,
         NEW t \in Tokens, NEW task \in mrTasks', task \notin mrTasks, task.of = Ref(t)
  PROVE  Located(t)
<1>1. ASSUME NEW ref \in Refs, MRDeliver(ref) PROVE Located(t)
  BY <1>1 DEF MRDeliver, MRTask, StageInv
<1>2. ASSUME NEW ref \in Refs, Fetch(ref) PROVE Located(t)
  <2>1. task.of = ref
    BY <1>2 DEF Fetch, AfterFetch, MRTask
  <2> QED BY <1>2, <2>1 DEF Fetch, StageInv
<1>3. ASSUME NEW x \in mrTasks, SaveMetadata(x) \/ SaveFails(x) PROVE Located(t)
  <2>1. task.of = x.of
    BY <1>3 DEF SaveMetadata, SaveFails, MRTask
  <2> QED BY <2>1 DEF StageInv
<1>4. CASE ReadMetadata
  BY <1>1, <1>2, <1>3, <1>4 DEF ReadMetadata, MRNext, MRWork, MRStep, SetStatus, SetStatusFails,
    MetadataReaderCrash
<1>5. CASE ~ReadMetadata
  BY <1>5 DEF Next, Indexer, ReadContracts, Produce, Environment, vars, mrVars
<1> QED BY <1>4, <1>5

(* Metadata changes only where a task of the metadata reader saves it.     *)
LEMMA MetadataSteps ==
  ASSUME TypeOK, [Next]_vars
  PROVE  UNCHANGED metadata \/ \E task \in mrTasks : SaveMetadata(task)
<1>1. CASE Indexer
  BY <1>1 DEF Indexer, IndexerNext, IndexerStep, ReceiveRange, StoreContract, EmitReadContract,
    StoreToken, EmitReadToken, FinishRange, TaskFails, RangeFails, IndexerCrash, storeVars,
      collections
<1>2. CASE ReadContracts
  BY <1>2 DEF ReadContracts, CRNext, CRWork, CRStep, CRDeliver, ReadName, ReadUri,
    EmitReadMetadata, CRTaskFails, ContractReaderCrash, collections
<1>3. CASE ReadMetadata
  BY <1>3 DEF ReadMetadata, MRNext, MRWork, MRStep, MRDeliver, Fetch, SaveFails, SetStatus,
    SetStatusFails, MetadataReaderCrash, storeVars, collections
<1>4. CASE Produce
  BY <1>4 DEF Produce, ProducersNext, RefreshContract, RefreshTokens, RefreshFails,
    RefreshToken, FillContractQueue, FillMetadataQueue, collections
<1>5. CASE Environment
  BY <1>5 DEF Environment, BrokerRestart, Republish, collections
<1> QED BY <1>1, <1>2, <1>3, <1>4, <1>5 DEF Next, vars, storeVars, collections

LEMMA StageInvInductive ==
  ASSUME TypeOK, AnnounceInv, StageInv, [Next]_vars
  PROVE  StageInv'
<1> SUFFICES ASSUME NEW t \in Tokens
             PROVE  /\ Ref(t) \in contractsQueue' => Stored(t)'
                    /\ \A task \in crTasks' : task.of = Ref(t) =>
                          Stored(t)' /\ (task.at = "emit" => Located(t)')
                    /\ Ref(t) \in metadataQueue' => Located(t)'
                    /\ \A task \in mrTasks' : task.of = Ref(t) => Located(t)'
                    /\ metadata'[Ref(t)] # NoMetadata => Located(t)'
  BY DEF StageInv, Ref
<1>K. (Stored(t) => Stored(t)') /\ (Located(t) => Located(t)')
  BY RowsAreKept
<1>1. Ref(t) \in contractsQueue' => Stored(t)'
  BY <1>K, ContractsQueueShows DEF StageInv
<1>2. ASSUME NEW task \in crTasks', task.of = Ref(t)
      PROVE  Stored(t)' /\ (task.at = "emit" => Located(t)')
  <2>1. CASE task \in crTasks
    BY <1>2, <1>K, <2>1 DEF StageInv
  <2>2. CASE task \notin crTasks
    BY <1>2, <1>K, <2>2, ContractTasksShow
  <2> QED BY <2>1, <2>2
<1>3. Ref(t) \in metadataQueue' => Located(t)'
  BY <1>K, MetadataQueueShows DEF StageInv
<1>4. ASSUME NEW task \in mrTasks', task.of = Ref(t)
      PROVE  Located(t)'
  <2>1. CASE task \in mrTasks
    BY <1>4, <1>K, <2>1 DEF StageInv
  <2>2. CASE task \notin mrTasks
    BY <1>4, <1>K, <2>2, MetadataTasksShow
  <2> QED BY <2>1, <2>2
<1>5. ASSUME metadata'[Ref(t)] # NoMetadata PROVE Located(t)'
  <2>1. CASE metadata[Ref(t)] # NoMetadata
    BY <1>K, <2>1 DEF StageInv
  <2>2. ASSUME NEW x \in mrTasks, SaveMetadata(x), metadata[Ref(t)] = NoMetadata
        PROVE  x.of = Ref(t)
    BY <1>5, <2>2 DEF SaveMetadata, Save, TypeOK, StoresTypeOK
  <2> QED BY <1>5, <1>K, <2>1, <2>2, MetadataSteps DEF StageInv
<1> QED BY <1>1, <1>2, <1>3, <1>4, <1>5

(* The stage, without its cases, given StageInv.                           *)
LEMMA StageValues ==
  ASSUME NEW t \in Tokens
  PROVE  /\ ~Stored(t) => StageOf(t) = "unknown"
         /\ Stored(t) /\ metadata[Ref(t)] # NoMetadata => StageOf(t) = "read"
         /\ Stored(t) /\ metadata[Ref(t)] = NoMetadata /\ tokens[t].tokenUri = "" =>
               StageOf(t) = "indexed"
         /\ Stored(t) /\ metadata[Ref(t)] = NoMetadata /\ tokens[t].tokenUri # "" =>
               StageOf(t) = "located"
BY DEF StageOf

LEMMA NewRow ==
  ASSUME NEW row, row = [tokenUri |-> "", status |-> "undefined"]
  PROVE  row # NoToken /\ row.tokenUri = ""
<1>1. row \in Row
  BY DEF Row, UriValues, Status
<1> QED BY <1>1, StoresAssumption

(* A step changes one token: it inserts it, locates it or sets its status. *)
LEMMA TokenSteps ==
  ASSUME TypeOK, [Next]_vars
  PROVE  \/ UNCHANGED tokens
         \/ /\ UNCHANGED metadata
            /\ \E t \in Tokens :
                 /\ \A u \in Tokens : u # t => tokens'[u] = tokens[u]
                 /\ \/ ~Stored(t) /\ Stored(t)' /\ tokens'[t].tokenUri = ""
                    \/ Stored(t) /\ Stored(t)' /\ tokens'[t].tokenUri # ""
                    \/ Stored(t) /\ Stored(t)' /\ tokens'[t].tokenUri = tokens[t].tokenUri
<1> USE StoresAssumption
<1> DEFINE OneToken(t) ==
      /\ \A u \in Tokens : u # t => tokens'[u] = tokens[u]
      /\ \/ ~Stored(t) /\ Stored(t)' /\ tokens'[t].tokenUri = ""
         \/ Stored(t) /\ Stored(t)' /\ tokens'[t].tokenUri # ""
         \/ Stored(t) /\ Stored(t)' /\ tokens'[t].tokenUri = tokens[t].tokenUri
<1> HIDE DEF OneToken
<1>T. tokens \in [Tokens -> Row \cup {NoToken}]
  BY DEF TypeOK, StoresTypeOK
<1>1. ASSUME NEW s \in Tokens, StoreToken(s)
      PROVE  UNCHANGED metadata /\ (UNCHANGED tokens \/ OneToken(s))
  <2>1. UNCHANGED metadata
    BY <1>1 DEF StoreToken
  <2>2. CASE Stored(s)
    BY <1>1, <2>1, <2>2, <1>T DEF StoreToken, Upsert, Stored
  <2>3. CASE ~Stored(s)
    <3>1. tokens'[s] = [tokenUri |-> "", status |-> "undefined"]
      BY <1>1, <2>3, <1>T DEF StoreToken, Upsert, Stored
    <3>2. Stored(s)' /\ tokens'[s].tokenUri = ""
      BY <3>1, NewRow DEF Stored
    <3>3. \A u \in Tokens : u # s => tokens'[u] = tokens[u]
      BY <1>1, <1>T DEF StoreToken, Upsert
    <3> QED BY <2>1, <2>3, <3>2, <3>3 DEF OneToken
  <2> QED BY <2>2, <2>3
<1>2. ASSUME NEW ref, ReadUri(ref)
      PROVE  UNCHANGED metadata /\ (UNCHANGED tokens \/ (OneToken(ref[1]) /\ ref[1] \in Tokens))
  <2>1. ref[1] \in Tokens /\ UNCHANGED metadata
    BY <1>2 DEF ReadUri, Refs
  <2>2. CASE UriOf[ref[1]] # "" /\ Stored(ref[1]) /\
             tokens' = [tokens EXCEPT ![ref[1]] =
                          [tokens[ref[1]] EXCEPT !.tokenUri = UriOf[ref[1]]]]
    <3>1. tokens[ref[1]] \in Row /\ UriOf[ref[1]] \in UriValues
      BY <2>1, <2>2, <1>T DEF Stored
    <3>2. tokens'[ref[1]] \in Row /\ tokens'[ref[1]].tokenUri = UriOf[ref[1]]
      BY <2>1, <2>2, <3>1, <1>T DEF Row
    <3>3. \A u \in Tokens : u # ref[1] => tokens'[u] = tokens[u]
      BY <2>1, <2>2, <1>T
    <3> QED BY <2>1, <2>2, <3>2, <3>3 DEF Stored, OneToken
  <2> QED BY <1>2, <2>1, <2>2 DEF ReadUri, UpdateUri, UpdateToken
<1>3. ASSUME NEW task \in mrTasks, SetStatus(task)
      PROVE  /\ UNCHANGED metadata
             /\ UNCHANGED tokens \/ (OneToken(task.of[1]) /\ task.of[1] \in Tokens)
  <2> DEFINE u == task.of[1]
  <2>0. task.of \in Refs /\ task.status \in Status
    BY DEF TypeOK, MRTypeOK
  <2>1. u \in Tokens /\ UNCHANGED metadata
    BY <1>3, <2>0 DEF Refs, SetStatus
  <2>2. CASE Stored(u) /\ tokens' = [tokens EXCEPT ![u] =
                                      [tokens[u] EXCEPT !.status = task.status]]
    <3>1. tokens[u] \in Row
      BY <2>1, <2>2, <1>T DEF Stored
    <3>2. tokens'[u] \in Row /\ tokens'[u].tokenUri = tokens[u].tokenUri
      BY <2>0, <2>1, <2>2, <3>1, <1>T DEF Row
    <3>3. \A w \in Tokens : w # u => tokens'[w] = tokens[w]
      BY <2>1, <2>2, <1>T
    <3> QED BY <2>1, <2>2, <3>2, <3>3 DEF Stored, OneToken
  <2> QED BY <1>3, <2>1, <2>2 DEF SetStatus, UpdateUnavailability, UpdateToken
<1>4. CASE Indexer
  <2>1. CASE \E s \in Tokens : StoreToken(s)
    BY <2>1, <1>1 DEF OneToken
  <2>2. CASE ~\E s \in Tokens : StoreToken(s)
    BY <1>4, <2>2 DEF Indexer, IndexerNext, IndexerStep, ReceiveRange, StoreContract,
      EmitReadContract, EmitReadToken, FinishRange, TaskFails, RangeFails, IndexerCrash, storeVars,
      collections
  <2> QED BY <2>1, <2>2
<1>5. CASE ReadContracts
  <2>1. CASE \E ref \in Refs \cup ContractRefs : ReadUri(ref)
    BY <2>1, <1>2 DEF OneToken
  <2>2. CASE ~\E ref \in Refs \cup ContractRefs : ReadUri(ref)
    BY <1>5, <2>2 DEF ReadContracts, CRNext, CRWork, CRStep, CRDeliver, ReadName,
      EmitReadMetadata, CRTaskFails, ContractReaderCrash, collections
  <2> QED BY <2>1, <2>2
<1>6. CASE ReadMetadata
  <2>1. CASE \E task \in mrTasks : SetStatus(task)
    BY <2>1, <1>3 DEF OneToken
  <2>2. CASE ~\E task \in mrTasks : SetStatus(task)
    BY <1>6, <2>2 DEF ReadMetadata, MRNext, MRWork, MRStep, MRDeliver, Fetch, SaveMetadata,
      SaveFails, SetStatusFails, MetadataReaderCrash, storeVars, collections
  <2> QED BY <2>1, <2>2
<1>7. CASE Produce \/ Environment
  BY <1>7 DEF Produce, ProducersNext, RefreshContract, RefreshTokens, RefreshFails,
    RefreshToken, FillContractQueue, FillMetadataQueue, Environment, BrokerRestart, Republish,
    collections
<1> QED BY <1>4, <1>5, <1>6, <1>7 DEF Next, vars, storeVars, collections

(* The stage of one token moves on while the others stay.                  *)
LEMMA OneStageMoves ==
  ASSUME NEW t \in Tokens, NEW from, NEW to,
         StageOf(t) = from, StageOf(t)' = to,
         \A u \in Tokens : u # t => StageOf(u)' = StageOf(u)
  PROVE  /\ [u \in Tokens |-> StageOf(u)][t] = from
         /\ [u \in Tokens |-> StageOf(u)]' = [[u \in Tokens |-> StageOf(u)] EXCEPT ![t] = to]
OBVIOUS

LEMMA StepsOfTheLifecycle ==
  ASSUME TypeOK, SaveInv, StageInv, [Next]_vars
  PROVE  [Lifecycle!LifecycleNext]_([t \in Tokens |-> StageOf(t)])
<1> DEFINE S == [t \in Tokens |-> StageOf(t)]
<1> USE DEF Lifecycle!LifecycleNext, Lifecycle!Index, Lifecycle!Locate, Lifecycle!Read,
        Lifecycle!Step
<1>K. \A t \in Tokens : metadata[Ref(t)] # NoMetadata => Stored(t) /\ tokens[t].tokenUri # ""
  BY DEF StageInv, Located
<1>0. ASSUME \A t \in Tokens : StageOf(t)' = StageOf(t)
      PROVE  S' = S
  BY <1>0
<1>1. CASE UNCHANGED <<tokens, metadata>>
  <2>1. \A t \in Tokens : StageOf(t)' = StageOf(t)
    BY <1>1 DEF StageOf, Stored, Ref
  <2> QED BY <2>1, <1>0
<1>2. ASSUME UNCHANGED metadata,
             NEW t \in Tokens, \A u \in Tokens : u # t => tokens'[u] = tokens[u],
             \/ ~Stored(t) /\ Stored(t)' /\ tokens'[t].tokenUri = ""
             \/ Stored(t) /\ Stored(t)' /\ tokens'[t].tokenUri # ""
             \/ Stored(t) /\ Stored(t)' /\ tokens'[t].tokenUri = tokens[t].tokenUri
      PROVE  [Lifecycle!LifecycleNext]_S
  <2>1. \A u \in Tokens : u # t => StageOf(u)' = StageOf(u)
    BY <1>2 DEF StageOf, Stored, Ref
  <2>2. CASE StageOf(t)' = StageOf(t)
    BY <2>1, <2>2, <1>0
  <2>3. CASE StageOf(t) = "unknown" /\ StageOf(t)' = "indexed"
    BY <2>1, <2>3, OneStageMoves
  <2>4. CASE StageOf(t) = "indexed" /\ StageOf(t)' = "located"
    BY <2>1, <2>4, OneStageMoves
  <2>5. CASE ~Stored(t)
    <3>1. metadata[Ref(t)] = NoMetadata /\ metadata' = metadata
      BY <2>5, <1>K, <1>2
    <3> QED BY <2>3, <2>5, <3>1, <1>2 DEF StageOf, Ref
  <2>6. CASE Stored(t) /\ Stored(t)' /\ metadata[Ref(t)] # NoMetadata
    <3>1. StageOf(t) = "read" /\ StageOf(t)' = "read"
      BY <2>6, <1>2 DEF StageOf, Ref
    <3> QED BY <3>1, <2>2
  <2>7. CASE Stored(t) /\ Stored(t)' /\ metadata[Ref(t)] = NoMetadata
    <3>1. /\ StageOf(t) = IF tokens[t].tokenUri = "" THEN "indexed" ELSE "located"
          /\ StageOf(t)' = IF tokens'[t].tokenUri = "" THEN "indexed" ELSE "located"
      BY <2>7, <1>2 DEF StageOf, Ref
    <3> QED BY <1>2, <2>2, <2>4, <2>7, <3>1
  <2> QED BY <1>2, <2>5, <2>6, <2>7
<1>3. ASSUME NEW task \in mrTasks, SaveMetadata(task), UNCHANGED tokens
      PROVE  [Lifecycle!LifecycleNext]_S
  <2>0. task.of \in Refs /\ metadata \in [Refs -> (0..MaxVersion) \cup {NoMetadata}]
    BY DEF TypeOK, MRTypeOK, StoresTypeOK
  <2>1. CASE \A t \in Tokens : metadata'[Ref(t)] # NoMetadata <=> metadata[Ref(t)] # NoMetadata
    <3>1. \A t \in Tokens : StageOf(t)' = StageOf(t)
      BY <1>3, <2>1 DEF StageOf, Stored, Ref
    <3> QED BY <3>1, <1>0
  <2>2. ASSUME NEW t \in Tokens,
               ~(metadata'[Ref(t)] # NoMetadata <=> metadata[Ref(t)] # NoMetadata)
        PROVE  [Lifecycle!LifecycleNext]_S
    <3>1. task.of = Ref(t)
      BY <1>3, <2>0, <2>2 DEF SaveMetadata, Save
    <3>2. Stored(t) /\ tokens[t].tokenUri # ""
      BY <3>1 DEF StageInv, Located
    <3>3. metadata[Ref(t)] = NoMetadata /\ metadata'[Ref(t)] # NoMetadata
      BY <2>2, MetadataIsKept
    <3>4. StageOf(t) = "located" /\ StageOf(t)' = "read"
      BY <1>3, <3>2, <3>3 DEF StageOf, Stored, Ref
    <3>5. \A u \in Tokens : u # t => metadata'[Ref(u)] = metadata[Ref(u)]
      BY <1>3, <2>0, <3>1, RefIsInjective DEF SaveMetadata, Save
    <3>6. \A u \in Tokens : u # t => StageOf(u)' = StageOf(u)
      BY <1>3, <3>5 DEF StageOf, Stored, Ref
    <3> QED BY <3>4, <3>6, OneStageMoves
  <2> QED BY <2>1, <2>2
<1>4. CASE UNCHANGED tokens
  BY <1>1, <1>3, <1>4, MetadataSteps
<1>5. CASE ~UNCHANGED tokens
  BY <1>2, <1>5, TokenSteps
<1> QED BY <1>4, <1>5

(* The pipeline implements the lifecycle of a token: for any tokens, URIs, *)
(* crashes, losses and repeated messages the collections show every token  *)
(* going through the stages in their order.                                *)
THEOREM PipelineImplementsLifecycle == Spec => ImplementsLifecycle
<1>1. Init => AnnounceInv /\ SaveInv /\ StageInv
  <2> SUFFICES ASSUME Init PROVE AnnounceInv /\ SaveInv /\ StageInv
    OBVIOUS
  <2>1. AnnounceInv
    BY DEF Init, IndexerInit, AnnounceInv
  <2>2. SaveInv
    BY DEF Init, StoresInit, MRInit, SaveInv, AvailableIsStored, Stored
  <2>3. ASSUME NEW t \in Tokens PROVE Ref(t) \in Refs
    BY StoresAssumption DEF Ref, Refs
  <2>4. StageInv
    BY <2>3 DEF Init, StoresInit, CRInit, MRInit, StageInv
  <2> QED BY <2>1, <2>2, <2>4
<1>2. Init => Lifecycle!LifecycleInit
  <2> SUFFICES ASSUME Init, NEW t \in Tokens PROVE StageOf(t) = "unknown"
    BY DEF Lifecycle!LifecycleInit
  <2> QED BY DEF Init, StoresInit, StageOf, Stored
<1>3. TypeOK /\ AnnounceInv /\ SaveInv /\ StageInv /\ [Next]_vars =>
        AnnounceInv' /\ SaveInv' /\ StageInv'
  BY AnnounceInvInductive, SaveInvInductive, StageInvInductive
<1>4. TypeOK /\ SaveInv /\ StageInv /\ [Next]_vars =>
        [Lifecycle!LifecycleNext]_([t \in Tokens |-> StageOf(t)])
  BY StepsOfTheLifecycle
<1> QED
  BY <1>1, <1>2, <1>3, <1>4, TypeCorrect, PTL
  DEF Spec, ImplementsLifecycle, Lifecycle!LifecycleSpec
=============================================================================
