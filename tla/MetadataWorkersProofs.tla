----------------------- MODULE MetadataWorkersProofs -----------------------
(* Proofs about MetadataWorkers, for any workers, messages and faults: no  *)
(* message is lost or doubled, an acknowledged one was handled, and the    *)
(* index follows the database.                                             *)
EXTENDS MetadataWorkers, FiniteSetTheorems, TLAPS

-----------------------------------------------------------------------------
(* TYPES.  A worker between a delivery and its acknowledgement has the     *)
(* message: without it handled and stored would not keep their types.      *)

Busy == {"stuck", "request", "store", "index", "ack"}

TypeInv ==
    /\ TypeOK
    /\ \A w \in Workers : at[w] \in Busy => msg[w] \in Messages

LEMMA FirstSteps ==
  ASSUME NEW m \in Messages
  PROVE  /\ FirstStep(m) \in Steps /\ FirstStep(m) # "idle" /\ FirstStep(m) # "stopped"
         /\ FirstStep(m) # "index"
BY WorkersAssumption DEF FirstStep, Steps, Kinds

LEMMA TypeInvInductive ==
  ASSUME TypeInv, [Next]_vars
  PROVE  TypeInv'
<1> USE WorkersAssumption DEF TypeInv, TypeOK, Busy, Goto
<1>1. ASSUME NEW w \in Workers, Receive(w) PROVE TypeInv'
  <2> PICK m \in queue :
        /\ queue' = queue \ {m}
        /\ msg' = [msg EXCEPT ![w] = m]
        /\ at' = [at EXCEPT ![w] = FirstStep(m)]
        /\ handled' = IF FirstStep(m) = "ack" THEN handled \cup {m} ELSE handled
        /\ acked' = acked
    BY <1>1 DEF Receive, AckLater
  <2>1. m \in Messages /\ FirstStep(m) \in Steps
    BY FirstSteps
  <2>2. tries' \in [Workers -> 0..Retries + 1]
    BY <1>1 DEF Receive
  <2>3. UNCHANGED <<open, running, stored, indexed, faults>>
    BY <1>1 DEF Receive, effects
  <2>4. at' \in [Workers -> Steps] /\ msg' \in [Workers -> Messages \cup {NoMessage}]
        /\ handled' \subseteq Messages /\ queue' \subseteq Messages
    BY <2>1
  <2>5. \A v \in Workers : at'[v] \in Busy => msg'[v] \in Messages
    BY <2>1
  <2> QED BY <2>2, <2>3, <2>4, <2>5
<1>2. ASSUME NEW w \in Workers, Request(w) PROVE TypeInv'
  <2>1. tries' \in [Workers -> 0..Retries + 1]
    BY <1>2 DEF Request, TriesLeft
  <2>2. msg[w] \in Messages
    BY <1>2 DEF Request
  <2>3. at' \in [Workers -> Steps] /\ handled' \subseteq Messages
    BY <1>2, <2>2 DEF Request, Return, Steps
  <2>4. UNCHANGED <<queue, msg, open, running, stored, indexed, acked, faults>>
    BY <1>2 DEF Request, effects
  <2>5. \A v \in Workers : at'[v] \in Busy => msg'[v] \in Messages
    BY <1>2, <2>2, <2>4 DEF Request, Return
  <2> QED BY <2>1, <2>3, <2>4, <2>5
<1>3. ASSUME NEW w \in Workers, Store(w) PROVE TypeInv'
  <2>1. msg[w] \in Messages
    BY <1>3 DEF Store
  <2>2. at' \in [Workers -> Steps] /\ handled' \subseteq Messages
    BY <1>3, <2>1 DEF Store, StoreError, Return, Steps
  <2>3. stored' \subseteq Tokens
    BY <1>3, <2>1 DEF Store, Tokens
  <2>4. UNCHANGED <<queue, msg, tries, open, running, indexed, acked, faults>>
    BY <1>3 DEF Store
  <2>5. \A v \in Workers : at'[v] \in Busy => msg'[v] \in Messages
    BY <1>3, <2>1, <2>4 DEF Store, StoreError, Return
  <2> QED BY <2>2, <2>3, <2>4, <2>5
<1>4. ASSUME NEW w \in Workers, StoreFails(w) PROVE TypeInv'
  <2>1. msg[w] \in Messages
    BY <1>4 DEF StoreFails
  <2>2. at' \in [Workers -> Steps] /\ handled' \subseteq Messages
    BY <1>4, <2>1 DEF StoreFails, StoreError, Return, Steps
  <2>3. faults' \in 0..MaxFaults
    BY <1>4 DEF StoreFails, Fault
  <2>4. UNCHANGED <<queue, msg, tries, open, running, stored, indexed, acked>>
    BY <1>4 DEF StoreFails, effects
  <2>5. \A v \in Workers : at'[v] \in Busy => msg'[v] \in Messages
    BY <1>4, <2>1, <2>4 DEF StoreFails, StoreError, Return
  <2> QED BY <2>2, <2>3, <2>4, <2>5
<1>5. ASSUME NEW w \in Workers, Index(w) PROVE TypeInv'
  <2>1. msg[w] \in Messages
    BY <1>5 DEF Index
  <2>2. at' \in [Workers -> Steps] /\ handled' \subseteq Messages
    BY <1>5, <2>1 DEF Index, Return, Steps
  <2>3. indexed' \subseteq Tokens
    BY <1>5, <2>1 DEF Index, Tokens
  <2>4. UNCHANGED <<queue, msg, tries, open, running, stored, acked, faults>>
    BY <1>5 DEF Index
  <2>5. \A v \in Workers : at'[v] \in Busy => msg'[v] \in Messages
    BY <1>5, <2>1, <2>4 DEF Index, Return
  <2> QED BY <2>2, <2>3, <2>4, <2>5
<1>6. ASSUME NEW w \in Workers, Ack(w) PROVE TypeInv'
  BY <1>6 DEF Ack, Steps, effects
<1>7. ASSUME NEW w \in Workers, Reopen(w) PROVE TypeInv'
  BY <1>7 DEF Reopen, Steps, effects
<1>8. ASSUME NEW w \in Workers, Stop(w) PROVE TypeInv'
  BY <1>8 DEF Stop, Requeue, Steps, effects
<1>9. ASSUME NEW w \in Workers, ChannelCloses(w) PROVE TypeInv'
  <2>1. faults' \in 0..MaxFaults
    BY <1>9 DEF ChannelCloses, Fault
  <2>2. queue' \subseteq Messages
    BY <1>9 DEF ChannelCloses, Requeue
  <2> QED BY <1>9, <2>1, <2>2 DEF ChannelCloses, workerVars, effects
<1>10. CASE Cancel
  <2>1. faults' \in 0..MaxFaults
    BY <1>10 DEF Cancel, Fault
  <2> QED BY <1>10, <2>1 DEF Cancel, workerVars, effects
<1>11. CASE Restart
  BY <1>11 DEF Restart, Steps, effects
<1>12. CASE UNCHANGED vars
  BY <1>12 DEF vars, workerVars, effects
<1> QED BY <1>1, <1>2, <1>3, <1>4, <1>5, <1>6, <1>7, <1>8, <1>9, <1>10, <1>11, <1>12
  DEF Next, Worker

(* Every variable of the workers keeps its type.                           *)
THEOREM TypeCorrect == Spec => []TypeOK
<1>1. Init => TypeInv
  BY WorkersAssumption DEF Init, TypeInv, TypeOK, Steps, Busy
<1>2. TypeInv /\ [Next]_vars => TypeInv'
  BY TypeInvInductive
<1>3. TypeInv => TypeOK
  BY DEF TypeInv
<1> QED BY <1>1, <1>2, <1>3, PTL DEF Spec

-----------------------------------------------------------------------------
(* MESSAGES AND EFFECTS                                                    *)

(* The handler has returned when the acknowledgement is due, and what is   *)
(* about to be indexed has been stored.                                    *)
EffectInv ==
    /\ AckedIsHandled
    /\ IndexedIsStored
    /\ \A w \in Workers : at[w] = "ack" => msg[w] \in handled
    /\ \A w \in Workers : at[w] = "index" => TokenOf[msg[w]] \in stored

LEMMA EffectInvInductive ==
  ASSUME TypeInv, EffectInv, [Next]_vars
  PROVE  EffectInv'
<1> USE DEF EffectInv, AckedIsHandled, IndexedIsStored, Goto
<1>T. at \in [Workers -> Steps] /\ msg \in [Workers -> Messages \cup {NoMessage}]
  BY DEF TypeInv, TypeOK
<1>1. ASSUME NEW w \in Workers, Receive(w) PROVE EffectInv'
  <2> PICK m \in queue :
        /\ msg' = [msg EXCEPT ![w] = m]
        /\ at' = [at EXCEPT ![w] = FirstStep(m)]
        /\ handled' = IF FirstStep(m) = "ack" THEN handled \cup {m} ELSE handled
        /\ acked' = acked
    BY <1>1 DEF Receive, AckLater
  <2>1. FirstStep(m) # "index"
    BY FirstSteps DEF TypeInv, TypeOK
  <2> QED BY <1>1, <1>T, <2>1 DEF Receive, effects
<1>2. ASSUME NEW w \in Workers, Request(w) PROVE EffectInv'
  BY <1>2, <1>T DEF Request, Return, effects
<1>3. ASSUME NEW w \in Workers, Store(w) PROVE EffectInv'
  BY <1>3, <1>T DEF Store, StoreError, Return
<1>4. ASSUME NEW w \in Workers, StoreFails(w) PROVE EffectInv'
  BY <1>4, <1>T DEF StoreFails, StoreError, Return, effects
<1>5. ASSUME NEW w \in Workers, Index(w) PROVE EffectInv'
  BY <1>5, <1>T DEF Index, Return
<1>6. ASSUME NEW w \in Workers, Ack(w) PROVE EffectInv'
  BY <1>6, <1>T DEF Ack, effects
<1>7. ASSUME NEW w \in Workers, Reopen(w) PROVE EffectInv'
  BY <1>7, <1>T DEF Reopen, effects
<1>8. ASSUME NEW w \in Workers, Stop(w) PROVE EffectInv'
  BY <1>8, <1>T DEF Stop, effects
<1>9. ASSUME NEW w \in Workers, ChannelCloses(w) PROVE EffectInv'
  BY <1>9 DEF ChannelCloses, workerVars, effects
<1>10. CASE Cancel
  BY <1>10 DEF Cancel, workerVars, effects
<1>11. CASE Restart
  BY <1>11 DEF Restart, effects
<1>12. CASE UNCHANGED vars
  BY <1>12 DEF vars, workerVars, effects
<1> QED BY <1>1, <1>2, <1>3, <1>4, <1>5, <1>6, <1>7, <1>8, <1>9, <1>10, <1>11, <1>12
  DEF Next, Worker

(* A message that RabbitMQ has dropped was handled, whatever channel       *)
(* closed or worker stopped in between.                                    *)
THEOREM AcknowledgedWasHandled == Spec => []AckedIsHandled
<1>1. Init => TypeInv /\ EffectInv
  BY WorkersAssumption DEF Init, TypeInv, TypeOK, Steps, Busy, EffectInv, AckedIsHandled,
    IndexedIsStored
<1>2. TypeInv /\ EffectInv /\ [Next]_vars => TypeInv' /\ EffectInv'
  BY TypeInvInductive, EffectInvInductive
<1>3. EffectInv => AckedIsHandled
  BY DEF EffectInv
<1> QED BY <1>1, <1>2, <1>3, PTL DEF Spec

(* The index shows no token whose metadata is not in MongoDB.              *)
THEOREM IndexFollowsStore == Spec => []IndexedIsStored
<1>1. Init => TypeInv /\ EffectInv
  BY WorkersAssumption DEF Init, TypeInv, TypeOK, Steps, Busy, EffectInv, AckedIsHandled,
    IndexedIsStored
<1>2. TypeInv /\ EffectInv /\ [Next]_vars => TypeInv' /\ EffectInv'
  BY TypeInvInductive, EffectInvInductive
<1>3. EffectInv => IndexedIsStored
  BY DEF EffectInv
<1> QED BY <1>1, <1>2, <1>3, PTL DEF Spec

-----------------------------------------------------------------------------
(* ONE PLACE FOR EVERY MESSAGE                                             *)

(* NothingLostOrDoubled without Cardinality, and why it stays: a worker    *)
(* that waits for a delivery has nothing to acknowledge, and a stopped one *)
(* has no channel.                                                         *)
PlaceInv ==
    /\ queue \cap acked = {}
    /\ \A w \in open : msg[w] \notin queue \cup acked
    /\ \A w, v \in open : msg[w] = msg[v] /\ msg[w] # NoMessage => w = v
    /\ \A m \in Messages : m \in queue \cup acked \/ \E w \in open : msg[w] = m
    /\ \A w \in open : at[w] = "idle" => msg[w] = NoMessage
    /\ \A w \in open : at[w] # "stopped"

LEMMA PlaceInvInductive ==
  ASSUME TypeInv, PlaceInv, [Next]_vars
  PROVE  PlaceInv'
<1> USE WorkersAssumption DEF PlaceInv, Goto
<1>T. /\ at \in [Workers -> Steps] /\ msg \in [Workers -> Messages \cup {NoMessage}]
      /\ queue \subseteq Messages /\ acked \subseteq Messages /\ open \subseteq Workers
      /\ \A w \in Workers : at[w] \in Busy => msg[w] \in Messages
  BY DEF TypeInv, TypeOK
<1>0. ASSUME UNCHANGED <<queue, acked, msg, open>>, NEW w \in Workers, NEW step,
             at' = at \/ at' = [at EXCEPT ![w] = step],
             step # "idle" /\ step # "stopped"
      PROVE  PlaceInv'
  BY <1>0, <1>T
<1>1. ASSUME NEW w \in Workers, Receive(w) PROVE PlaceInv'
  <2> PICK m \in queue :
        /\ queue' = queue \ {m}
        /\ msg' = [msg EXCEPT ![w] = m]
        /\ at' = [at EXCEPT ![w] = FirstStep(m)]
        /\ acked' = acked
    BY <1>1 DEF Receive, AckLater
  <2>1. FirstStep(m) # "idle" /\ FirstStep(m) # "stopped"
    BY <1>T, FirstSteps
  <2>2. w \in open /\ msg[w] = NoMessage /\ open' = open /\ m \in Messages /\ m \notin acked
    BY <1>1, <1>T DEF Receive
  <2>3. \A v \in open' : msg'[v] \notin queue' \cup acked'
    BY <1>T, <2>2
  <2>4. \A u, v \in open' : msg'[u] = msg'[v] /\ msg'[u] # NoMessage => u = v
    BY <1>T, <2>2
  <2>5. \A n \in Messages : n \in queue' \cup acked' \/ \E v \in open' : msg'[v] = n
    BY <1>T, <2>2
  <2>6. \A v \in open' : (at'[v] = "idle" => msg'[v] = NoMessage) /\ at'[v] # "stopped"
    BY <1>T, <2>1, <2>2
  <2> QED BY <2>3, <2>4, <2>5, <2>6
<1>2. ASSUME NEW w \in Workers, Request(w) \/ Store(w) \/ StoreFails(w) \/ Index(w)
      PROVE  PlaceInv'
  <2>1. UNCHANGED <<queue, acked, msg, open>>
    BY <1>2 DEF Request, Store, StoreFails, Index
  <2>2. at' = at \/ at' = [at EXCEPT ![w] = "store"] \/ at' = [at EXCEPT ![w] = "index"]
        \/ at' = [at EXCEPT ![w] = "ack"]
    BY <1>2 DEF Request, Store, StoreFails, StoreError, Index, Return
  <2> QED BY <2>1, <2>2, <1>0
<1>3. ASSUME NEW w \in Workers, Ack(w) PROVE PlaceInv'
  <2>1. msg[w] \in Messages /\ UNCHANGED <<queue, open>> /\ msg' = [msg EXCEPT ![w] = NoMessage]
        /\ at' = [at EXCEPT ![w] = "idle"]
        /\ acked' = IF w \in open THEN acked \cup {msg[w]} ELSE acked
    BY <1>3, <1>T DEF Ack, Busy
  <2>2. queue' \cap acked' = {}
    BY <2>1, <1>T
  <2>3. \A v \in open' : msg'[v] \notin queue' \cup acked'
    BY <1>T, <2>1
  <2>4. \A u, v \in open' : msg'[u] = msg'[v] /\ msg'[u] # NoMessage => u = v
    BY <1>T, <2>1
  <2>5. \A n \in Messages : n \in queue' \cup acked' \/ \E v \in open' : msg'[v] = n
    BY <1>T, <2>1
  <2>6. \A v \in open' : (at'[v] = "idle" => msg'[v] = NoMessage) /\ at'[v] # "stopped"
    BY <1>T, <2>1
  <2> QED BY <2>2, <2>3, <2>4, <2>5, <2>6
<1>4. ASSUME NEW w \in Workers, Reopen(w) PROVE PlaceInv'
  BY <1>4, <1>T DEF Reopen
<1>5. ASSUME NEW w \in Workers, Requeue({w}), open' = open \ {w}, UNCHANGED <<msg, acked>>,
             at' = at \/ at' = [at EXCEPT ![w] = "stopped"]
      PROVE  PlaceInv'
  <2>1. queue' = queue \cup ((IF w \in open THEN {msg[w]} ELSE {}) \ ({NoMessage} \cup acked))
    BY <1>5 DEF Requeue
  <2>2. queue' \cap acked' = {}
    BY <2>1, <1>5
  <2>3. \A v \in open' : msg'[v] \notin queue' \cup acked'
    BY <1>T, <2>1, <1>5
  <2>4. \A u, v \in open' : msg'[u] = msg'[v] /\ msg'[u] # NoMessage => u = v
    BY <1>5
  <2>5. \A n \in Messages : n \in queue' \cup acked' \/ \E v \in open' : msg'[v] = n
    BY <1>T, <2>1, <1>5
  <2>6. \A v \in open' : (at'[v] = "idle" => msg'[v] = NoMessage) /\ at'[v] # "stopped"
    BY <1>T, <1>5
  <2> QED BY <2>2, <2>3, <2>4, <2>5, <2>6
<1>6. ASSUME NEW w \in Workers, ChannelCloses(w) PROVE PlaceInv'
  BY <1>6, <1>5 DEF ChannelCloses, workerVars
<1>7. ASSUME NEW w \in Workers, Stop(w) PROVE PlaceInv'
  BY <1>7, <1>5 DEF Stop
<1>8. CASE Restart
  <2>1. open = {}
    BY <1>8, <1>T DEF Restart
  <2> QED BY <1>8, <1>T, <2>1 DEF Restart
<1>9. CASE Cancel \/ UNCHANGED vars
  BY <1>9 DEF Cancel, vars, workerVars
<1> QED BY <1>1, <1>2, <1>3, <1>4, <1>6, <1>7, <1>8, <1>9 DEF Next, Worker

LEMMA OnePlace ==
  ASSUME TypeInv, PlaceInv
  PROVE  NothingLostOrDoubled
<1> SUFFICES ASSUME NEW m \in Messages
             PROVE  /\ Cardinality(Holders(m)) = (IF m \in queue \cup acked THEN 0 ELSE 1)
                    /\ m \notin queue \cap acked
  BY DEF NothingLostOrDoubled
<1>1. m \notin queue \cap acked
  BY DEF PlaceInv
<1>2. CASE m \in queue \cup acked
  <2>1. Holders(m) = {}
    BY <1>2 DEF Holders, PlaceInv
  <2> QED BY <1>1, <1>2, <2>1, FS_EmptySet
<1>3. CASE m \notin queue \cup acked
  <2> PICK w \in open : msg[w] = m
    BY <1>3 DEF PlaceInv
  <2>1. m # NoMessage
    BY WorkersAssumption
  <2>2. Holders(m) = {w}
    BY <2>1 DEF Holders, PlaceInv
  <2> QED BY <1>1, <1>3, <2>2, FS_Singleton
<1> QED BY <1>2, <1>3

(* Closed channels, interrupts and restarts neither lose a message nor     *)
(* give it to two workers.                                                 *)
THEOREM EveryMessageAtOnePlace == Spec => []NothingLostOrDoubled
<1>1. Init => TypeInv /\ PlaceInv
  BY WorkersAssumption DEF Init, TypeInv, TypeOK, Steps, Busy, PlaceInv
<1>2. TypeInv /\ PlaceInv /\ [Next]_vars => TypeInv' /\ PlaceInv'
  BY TypeInvInductive, PlaceInvInductive
<1>3. TypeInv /\ PlaceInv => NothingLostOrDoubled
  BY OnePlace
<1> QED BY <1>1, <1>2, <1>3, PTL DEF Spec
=============================================================================
