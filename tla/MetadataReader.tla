--------------------------- MODULE MetadataReader ---------------------------
(***************************************************************************)
(* src/app-metadata-reader under READ_METADATA: readOne fetches what the   *)
(* token URI serves, stores it, and records in the token whether there is  *)
(* metadata.  As in ContractReader the message is acknowledged when the    *)
(* task has started.  retryCount is left out: nothing under src reads it.  *)
(***************************************************************************)
EXTENDS Stores, MetadataFetch

VARIABLES
    mrTasks,        \* [of: ref, at: step, data: version or NoMetadata, status]
    dropped         \* observation: tokens whose fetched data was not stored

mrVars == <<mrTasks, dropped>>

MRTask(ref, step, data, s) == [of |-> ref, at |-> step, data |-> data, status |-> s]

MRTypeOK ==
    /\ mrTasks \subseteq [of : Refs, at : {"fetch", "save", "status"},
                          data : (0..MaxVersion) \cup {NoMetadata}, status : Status]
    /\ dropped \subseteq Tokens

MRInit == mrTasks = {} /\ dropped = {}

(* readMetadata, and readOne up to wg.go: no URI, or a protocol without a  *)
(* reader, and the message is all the same acknowledged.                   *)
MRDeliver(ref) ==
    /\ ref \in metadataQueue
    /\ metadataQueue' = metadataQueue \ {ref}
    /\ mrTasks' = mrTasks \cup
         (IF HasReader(UriOf[ref[1]])
          THEN {MRTask(ref, "fetch", NoMetadata, "undefined")} ELSE {})
    /\ UNCHANGED <<collections, contractsQueue, served, lost, faults, dropped>>

(* Mutation target: the status is set without storing the data.            *)
StatusOnly(ref, o) == {MRTask(ref, "status", NoMetadata, o.status)}

(* Mutation target: the catch block returns before the status, as that of  *)
(* read() does.                                                            *)
DataOnly(ref, o) ==
    IF o.data THEN {MRTask(ref, "save", served[ref[1]], o.status)} ELSE {}

(* A fallback's data is dropped: the catch block updates the status and    *)
(* returns.                                                                *)
AfterFetch(ref, o) ==
    {IF o.data THEN MRTask(ref, "save", served[ref[1]], o.status)
               ELSE MRTask(ref, "status", NoMetadata, o.status)}

(* reader(uri) with its fallbacks.                                         *)
Fetch(ref) ==
    \E task \in mrTasks, o \in Outcomes(UriOf[ref[1]]) :
      /\ task.of = ref /\ task.at = "fetch"
      /\ mrTasks' = (mrTasks \ {task}) \cup AfterFetch(ref, o)
      /\ dropped' = IF o.status = "available" /\ ~o.data
                    THEN dropped \cup {ref[1]} ELSE dropped
      /\ UNCHANGED storeVars

(* metadata.save, whatever its outcome, is followed by the status.         *)
SaveMetadata(task) ==
    /\ task \in mrTasks /\ task.at = "save"
    /\ Save(task.of, task.data)
    /\ mrTasks' = (mrTasks \ {task}) \cup {MRTask(task.of, "status", NoMetadata, task.status)}
    /\ UNCHANGED <<contracts, tokens, queues, served, lost, faults, dropped>>

SaveFails(task) ==
    /\ task \in mrTasks /\ task.at = "save"
    /\ Fault({})
    /\ mrTasks' = (mrTasks \ {task}) \cup {MRTask(task.of, "status", NoMetadata, task.status)}
    /\ dropped' = dropped \cup {task.of[1]}
    /\ UNCHANGED <<collections, queues, served>>

(* tokens.updateUnavailability.                                            *)
SetStatus(task) ==
    /\ task \in mrTasks /\ task.at = "status"
    /\ UpdateUnavailability(task.of, task.status)
    /\ mrTasks' = mrTasks \ {task}
    /\ UNCHANGED <<contracts, metadata, queues, served, lost, faults, dropped>>

SetStatusFails(task) ==
    /\ task \in mrTasks /\ task.at = "status"
    /\ Fault({task.of[1]})
    /\ mrTasks' = mrTasks \ {task}
    /\ UNCHANGED <<collections, queues, served, dropped>>

MetadataReaderCrash ==
    /\ mrTasks # {}
    /\ Fault({task.of[1] : task \in mrTasks})
    /\ mrTasks' = {}
    /\ UNCHANGED <<collections, queues, served, dropped>>

MRStep(ref) ==
    \/ MRDeliver(ref)
    \/ Fetch(ref)
    \/ \E task \in mrTasks : task.of = ref /\ (SaveMetadata(task) \/ SetStatus(task))

MRWork == \E ref \in Refs : MRStep(ref)

MRNext ==
    \/ MRWork
    \/ \E task \in mrTasks : SaveFails(task) \/ SetStatusFails(task)
    \/ MetadataReaderCrash
=============================================================================
