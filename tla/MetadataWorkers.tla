-------------------------- MODULE MetadataWorkers --------------------------
(***************************************************************************)
(* metadata-reader, the Go program: Listener.Run keeps a number of workers *)
(* on one RabbitMQ connection.  A worker has a channel of its own with     *)
(* prefetch 1, hands each message to Service.Read and acknowledges it      *)
(* whatever came of it.  Service.Read writes the metadata to MongoDB, then *)
(* to the OpenSearch index.                                                *)
(***************************************************************************)
EXTENDS Naturals, FiniteSets

CONSTANTS
    Workers,
    Messages,
    TokenOf,        \* the token a message names
    KindOf,         \* "http", "data", "badData" or "undecodable"
    Retries,        \* config.Retries
    HasIndex,       \* s.opensearch # nil
    MaxFaults,      \* bound: closed channels, interrupts and failed writes
    NoMessage

Kinds == {"http", "data", "badData", "undecodable"}

ASSUME WorkersAssumption ==
    /\ IsFiniteSet(Workers)
    /\ KindOf \in [Messages -> Kinds]
    /\ Retries \in Nat /\ MaxFaults \in Nat
    /\ HasIndex \in BOOLEAN
    /\ NoMessage \notin Messages

Tokens == {TokenOf[m] : m \in Messages}

VARIABLES
    queue,          \* messages RabbitMQ has ready
    at,             \* what a worker is at
    msg,            \* the message it was delivered last
    open,           \* workers whose channel is open
    tries,          \* requests made for the message
    running,        \* ctx is not cancelled
    stored,         \* tokens whose metadata is in MongoDB
    indexed,        \* tokens in the OpenSearch index
    acked,          \* messages RabbitMQ has dropped
    handled,        \* observation: messages whose handler has returned
    faults

workerVars == <<at, msg, tries>>
effects == <<stored, indexed>>
vars == <<queue, workerVars, open, running, effects, acked, handled, faults>>

(* "stuck": back in the loop, with the message neither acknowledged nor    *)
(* rejected.                                                               *)
Steps == {"idle", "stuck", "request", "store", "index", "ack", "stopped"}

TypeOK ==
    /\ queue \subseteq Messages /\ acked \subseteq Messages /\ handled \subseteq Messages
    /\ at \in [Workers -> Steps]
    /\ msg \in [Workers -> Messages \cup {NoMessage}]
    /\ open \subseteq Workers
    /\ tries \in [Workers -> 0..Retries + 1]
    /\ running \in BOOLEAN
    /\ stored \subseteq Tokens /\ indexed \subseteq Tokens
    /\ faults \in 0..MaxFaults

Init ==
    /\ queue = Messages
    /\ at = [w \in Workers |-> "idle"]
    /\ msg = [w \in Workers |-> NoMessage]
    /\ open = Workers
    /\ tries = [w \in Workers |-> 0]
    /\ running = TRUE
    /\ stored = {} /\ indexed = {} /\ acked = {} /\ handled = {}
    /\ faults = 0

Goto(w, step) == at' = [at EXCEPT ![w] = step]

(* The handler returns, with or without an error: next is the Ack.         *)
Return(w) ==
    /\ Goto(w, "ack")
    /\ handled' = handled \cup {msg[w]}

Fault == faults < MaxFaults /\ faults' = faults + 1

-----------------------------------------------------------------------------
(* SERVICE.READ                                                            *)

(* Where Read goes for a message: a data URI that is malformed, or not     *)
(* base64, ends it at once.                                                *)
FirstStep(m) ==
    CASE KindOf[m] = "undecodable" -> "stuck"
      [] KindOf[m] = "http" -> "request"
      [] KindOf[m] = "data" -> "store"
      [] KindOf[m] = "badData" -> "ack"

(* doWithRetries: for i := 1; i <= retries+1                               *)
TriesLeft(w) == tries[w] <= Retries

(* httpReader.Read: 200 leads to the store; 429 is tried again; any other  *)
(* status, an error or the timeout ends Read.  A cancelled ctx is an       *)
(* error.                                                                  *)
Request(w) ==
    /\ at[w] = "request"
    /\ \/ /\ running
          /\ tries' = [tries EXCEPT ![w] = @ + 1]
          /\ TriesLeft(w)
          /\ \/ Goto(w, "store") /\ UNCHANGED handled
             \/ UNCHANGED <<at, handled>>
       \/ Return(w) /\ UNCHANGED tries
    /\ UNCHANGED <<queue, msg, open, running, effects, acked, faults>>

(* Mutation target: the return after "Error writing metadata to DB" left   *)
(* out.                                                                    *)
IndexAnyway(w) == Goto(w, "index") /\ UNCHANGED handled

StoreError(w) == Return(w)

(* db.InsertOrUpdate; with ctx cancelled it fails.                         *)
Store(w) ==
    /\ at[w] = "store"
    /\ \/ /\ running
          /\ stored' = stored \cup {TokenOf[msg[w]]}
          /\ IF HasIndex THEN Goto(w, "index") /\ UNCHANGED handled ELSE Return(w)
       \/ /\ ~running
          /\ StoreError(w)
          /\ UNCHANGED stored
    /\ UNCHANGED <<queue, msg, tries, open, running, indexed, acked, faults>>

StoreFails(w) ==
    /\ at[w] = "store" /\ running
    /\ Fault
    /\ StoreError(w)
    /\ UNCHANGED <<queue, msg, tries, open, running, effects, acked>>

(* UpsertToIndex, for a body that is a JSON object.                        *)
Index(w) ==
    /\ at[w] = "index"
    /\ \/ running /\ indexed' = indexed \cup {TokenOf[msg[w]]}
       \/ UNCHANGED indexed
    /\ Return(w)
    /\ UNCHANGED <<queue, msg, tries, open, running, stored, acked, faults>>

-----------------------------------------------------------------------------
(* LISTENER.WORKER                                                         *)

(* Mutation target: an acknowledgement before the handler.                 *)
AckFirst(w, m) == acked' = acked \cup {m}

AckLater(w, m) == UNCHANGED acked

(* A delivery, with Qos(1): only to a worker that has nothing to           *)
(* acknowledge.  Between ctx.Done and a delivery that is there the select  *)
(* chooses at random, so a worker may receive after the cancel too.        *)
Receive(w) ==
    /\ at[w] = "idle" /\ w \in open
    /\ \E m \in queue :
         /\ queue' = queue \ {m}
         /\ msg' = [msg EXCEPT ![w] = m]
         /\ Goto(w, FirstStep(m))
         /\ handled' = IF FirstStep(m) = "ack" THEN handled \cup {m} ELSE handled
         /\ AckLater(w, m)
    /\ tries' = [tries EXCEPT ![w] = 0]
    /\ UNCHANGED <<open, running, effects, faults>>

(* msg.Ack: on a channel that has closed it fails, which is only logged.   *)
Ack(w) ==
    /\ at[w] = "ack"
    /\ acked' = IF w \in open THEN acked \cup {msg[w]} ELSE acked
    /\ msg' = [msg EXCEPT ![w] = NoMessage]
    /\ Goto(w, "idle")
    /\ UNCHANGED <<queue, tries, open, running, effects, handled, faults>>

(* What the broker takes back when a channel closes.                       *)
Requeue(ws) ==
    queue' = queue \cup ({msg[w] : w \in ws \cap open} \ ({NoMessage} \cup acked))

(* The broker closes a channel; the handler does not notice.               *)
ChannelCloses(w) ==
    /\ w \in open
    /\ Fault
    /\ Requeue({w})
    /\ open' = open \ {w}
    /\ UNCHANGED <<workerVars, running, effects, acked, handled>>

(* Mutation target: errClosed ends the worker.                             *)
ReopenNever(w) == FALSE

(* errClosed: sleep and call worker again.                                 *)
MayReopen(w) == running

Reopen(w) ==
    /\ at[w] \in {"idle", "stuck"} /\ w \notin open
    /\ MayReopen(w)
    /\ open' = open \cup {w}
    /\ msg' = [msg EXCEPT ![w] = NoMessage]
    /\ Goto(w, "idle")
    /\ UNCHANGED <<queue, tries, running, effects, acked, handled, faults>>

(* ctx is cancelled: an interrupt, or another error than errClosed.        *)
Cancel ==
    /\ running
    /\ Fault
    /\ running' = FALSE
    /\ UNCHANGED <<queue, workerVars, open, effects, acked, handled>>

(* The select takes ctx.Done; the deferred ch.Close returns the message.   *)
Stop(w) ==
    /\ ~running
    /\ at[w] \in {"idle", "stuck"}
    /\ Goto(w, "stopped")
    /\ Requeue({w})
    /\ open' = open \ {w}
    /\ UNCHANGED <<msg, tries, running, effects, acked, handled, faults>>

(* The process has ended and is started again.                             *)
Restart ==
    /\ \A w \in Workers : at[w] = "stopped"
    /\ at' = [w \in Workers |-> "idle"]
    /\ msg' = [w \in Workers |-> NoMessage]
    /\ open' = Workers
    /\ running' = TRUE
    /\ UNCHANGED <<queue, tries, effects, acked, handled, faults>>

Worker(w) ==
    \/ Receive(w) \/ Request(w) \/ Store(w) \/ Index(w) \/ Ack(w)
    \/ Reopen(w) \/ Stop(w)

Next ==
    \/ \E w \in Workers : Worker(w) \/ StoreFails(w) \/ ChannelCloses(w)
    \/ Cancel
    \/ Restart

Spec == Init /\ [][Next]_vars /\ WF_vars(Restart) /\ \A w \in Workers : WF_vars(Worker(w))

-----------------------------------------------------------------------------
(* PROPERTIES                                                              *)

(* Every message is at one place: ready, delivered on one open channel, or *)
(* acknowledged.  Closed channels and restarts lose none and double none.  *)
Holders(m) == {w \in open : msg[w] = m}

NothingLostOrDoubled ==
    \A m \in Messages :
       /\ Cardinality(Holders(m)) = (IF m \in queue \cup acked THEN 0 ELSE 1)
       /\ m \notin queue \cap acked

(* A message is acknowledged only after its handler has returned, whatever *)
(* closes or stops in between.                                             *)
AckedIsHandled == acked \subseteq handled

(* The index never shows a token whose metadata is not in MongoDB.         *)
IndexedIsStored == indexed \subseteq stored

Undecodable == {m \in Messages : KindOf[m] = "undecodable"}

(* As long as there are more workers than messages that cannot be decoded, *)
(* every other message is acknowledged in the end.                         *)
EventuallyAcked ==
    Cardinality(Undecodable) < Cardinality(Workers) =>
       \A m \in Messages \ Undecodable : <>(m \in acked)
=============================================================================
