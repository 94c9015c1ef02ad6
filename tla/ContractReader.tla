--------------------------- MODULE ContractReader ---------------------------
(***************************************************************************)
(* src/app-contract-reader: READ_CONTRACT stores the name of a contract,   *)
(* READ_TOKEN the URI of a token, and announces it with READ_METADATA.     *)
(* wg.go returns when the task has started, and the controller then        *)
(* acknowledges the message: a task is all that is left of it.             *)
(***************************************************************************)
EXTENDS Stores

VARIABLE crTasks        \* what runs in the wait group: [of: ref, at: step]

CRTask(ref, step) == [of |-> ref, at |-> step]

CRTypeOK == crTasks \subseteq
              [of : Refs \cup ContractRefs, at : {"read", "emit"}]

CRInit == crTasks = {}

(* A task goes from one step to the next, or ends.                         *)
Advance(ref, from, to) ==
    /\ CRTask(ref, from) \in crTasks
    /\ crTasks' = (crTasks \ {CRTask(ref, from)}) \cup to

(* readContract, readToken: the message is acknowledged at once.           *)
CRDeliver(ref) ==
    /\ ref \in contractsQueue
    /\ contractsQueue' = contractsQueue \ {ref}
    /\ crTasks' = crTasks \cup {CRTask(ref, "read")}
    /\ UNCHANGED <<collections, metadataQueue, served, lost, faults>>

(* processContract: the name and the image are fetched (a missing image is *)
(* no error) and stored.  What a contract answers does not change, so the  *)
(* call and the update it leads to are one step, here and in ReadUri.      *)
ReadName(ref) ==
    /\ ref \in ContractRefs
    /\ Advance(ref, "read", {})
    /\ UpdateName(ref)
    /\ UNCHANGED <<tokens, metadata, queues, served, lost, faults>>

(* processToken: an empty URI ends the task.                               *)
ReadUri(ref) ==
    LET uri == UriOf[ref[1]] IN
    /\ ref \in Refs
    /\ Advance(ref, "read", IF uri = "" THEN {} ELSE {CRTask(ref, "emit")})
    /\ IF uri = "" THEN UNCHANGED tokens ELSE UpdateUri(ref, uri)
    /\ UNCHANGED <<contracts, metadata, queues, served, lost, faults>>

EmitReadMetadata(ref) ==
    /\ ref \in Refs
    /\ Advance(ref, "emit", {})
    /\ metadataQueue' = metadataQueue \cup {ref}
    /\ UNCHANGED <<collections, contractsQueue, served, lost, faults>>

(* Mutation target: the return after "Error updating token into DB" left   *)
(* out: the metadata is announced although the URI is not stored.          *)
NextStepAlways(task) ==
    IF task.of \in Refs /\ task.at = "read" THEN {CRTask(task.of, "emit")} ELSE {}

(* Every catch block ends the task, that of a name or URI which cannot be  *)
(* fetched too.                                                            *)
NextStepAfterError(task) == {}

CRTaskFails(task) ==
    /\ task \in crTasks
    /\ Fault({task.of[1]})
    /\ crTasks' = (crTasks \ {task}) \cup NextStepAfterError(task)
    /\ UNCHANGED <<collections, queues, served>>

(* The process dies with its tasks, whose messages are acknowledged.       *)
ContractReaderCrash ==
    /\ crTasks # {}
    /\ Fault({task.of[1] : task \in crTasks})
    /\ crTasks' = {}
    /\ UNCHANGED <<collections, queues, served>>

CRStep(ref) ==
    \/ CRDeliver(ref)
    \/ ReadName(ref)
    \/ ReadUri(ref) \/ EmitReadMetadata(ref)

CRWork == \E ref \in Refs \cup ContractRefs : CRStep(ref)

CRNext ==
    \/ CRWork
    \/ \E task \in crTasks : CRTaskFails(task)
    \/ ContractReaderCrash
=============================================================================
