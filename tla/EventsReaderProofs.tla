------------------------- MODULE EventsReaderProofs -------------------------
(***************************************************************************)
(* Theorems about EventsReader, for every chain, every processing limit    *)
(* and every bound.                                                        *)
(*                                                                         *)
(* RangesInv is what the type of the reader's locals rests on: the ranges  *)
(* it computes, records and re-reads are never empty and never reach above *)
(* the head, although the head moves between the computation of a range    *)
(* and its use.  CoverInv, DataInv, ForkInv and VouchInv further down      *)
(* relate the two collections to the loop's cursor, to each other and to   *)
(* the chain.                                                              *)
(***************************************************************************)
EXTENDS EventsReader, TLAPS

InRead == pc \in {"fetch", "store", "blocks", "record", "emit", "delete", "softDelete"}

Cascade == pc \in {"delete", "softDelete"} \/ (reread /\ reorg)

(* The range of the current read: the one the loop has computed, or, in a  *)
(* chain of re-reads, one that ends below it.                              *)
ReadInv ==
    InRead => /\ rFrom <= rTo /\ rTo <= to /\ to <= head
              /\ ~Cascade => rFrom = from /\ rTo = to
              /\ reorg <=> IsLive
              /\ pc \in {"delete", "softDelete"} => reorg
              /\ reread /\ ~reorg => Rewriting
              /\ Rewriting => reread
              /\ pc = "blocks" => reorg
              /\ pc = "record" => ~reorg
              /\ pc = "emit" /\ latest # 0 => reorg /\ queue[latest].to < rFrom

(* Between two reads nothing of a read is left.                            *)
RestInv == ~InRead => ~reread /\ ~reorg

(* The cursors of the two loops.                                           *)
LoopInv ==
    /\ pc \in {"loop", "poll", "wait"} /\ IsLive =>
          to <= head /\ (from <= head \/ from = to + 1)
    /\ pc \in {"latest", "clean", "loop"} /\ ~IsLive =>
          blockTo = task.to /\ to <= blockTo /\ (to = blockTo \/ from <= blockTo)
    /\ InRead /\ ~IsLive => blockTo = task.to /\ to <= blockTo
    /\ pc = "head" => IsLive /\ to = 0 /\ from <= head
    /\ pc \in {"latest", "clean"} => ~Rewriting /\ to = 0 /\ from <= head /\ blockTo <= head
    /\ pc \in {"poll", "wait"} => IsLive

TaskInv ==
    /\ task.from <= InitialHead /\ task.to <= InitialHead
    /\ task.to = 0 \/ task.from <= task.to

RangesInv ==
    /\ TypeOK
    /\ InitialHead <= head
    /\ TaskInv /\ RangesMined /\ LoopInv /\ ReadInv /\ RestInv

-----------------------------------------------------------------------------
(* The logs of a range are versioned blocks.                               *)
LEMMA LogsType ==
    ASSUME TypeOK, NEW f \in Nat, NEW t \in Nat
    PROVE  LogsOf(f, t) \subseteq Blocks \X Nat
  BY ConstantsAssumption DEF TypeOK, LogsOf, Hash

(* getLatest answers null or a live document below the bound.              *)
LEMMA LatestDoc ==
    ASSUME TypeOK, NEW bound \in Nat, NEW i \in Latest(bound)
    PROVE  \/ i = 0
           \/ /\ i \in DOMAIN queue /\ i # 0 /\ i \in Nat
              /\ ~queue[i].isDeleted
              /\ queue[i] \in Doc
              /\ queue[i].to < bound
  BY DEF TypeOK, Latest, Below

(* softDelete keeps every document's range and hash.                       *)
LEMMA SoftDeletedDocs ==
    ASSUME TypeOK, NEW f \in Nat, NEW t \in Nat
    PROVE  /\ SoftDeleted(f, t) \in Seq(Doc)
           /\ DOMAIN SoftDeleted(f, t) = DOMAIN queue
           /\ \A i \in DOMAIN queue :
                 /\ SoftDeleted(f, t)[i].from = queue[i].from
                 /\ SoftDeleted(f, t)[i].to = queue[i].to
                 /\ SoftDeleted(f, t)[i].toHash = queue[i].toHash
                 /\ queue[i].isDeleted => SoftDeleted(f, t)[i].isDeleted
<1>1. Len(queue) \in Nat /\ DOMAIN queue = 1..Len(queue)
  BY DEF TypeOK
<1>2. ASSUME NEW i \in DOMAIN queue
      PROVE  /\ SoftDeleted(f, t)[i] \in Doc
             /\ SoftDeleted(f, t)[i].from = queue[i].from
             /\ SoftDeleted(f, t)[i].to = queue[i].to
             /\ SoftDeleted(f, t)[i].toHash = queue[i].toHash
             /\ queue[i].isDeleted => SoftDeleted(f, t)[i].isDeleted
  <2>1. queue[i] \in Doc
    BY DEF TypeOK
  <2>. QED  BY <2>1 DEF SoftDeleted, Doc
<1>3. SoftDeleted(f, t) \in [1..Len(queue) -> Doc]
  BY <1>1, <1>2 DEF SoftDeleted
<1>. QED  BY <1>1, <1>2, <1>3 DEF SoftDeleted

LEMMA RangesInit == Init => RangesInv
<1> SUFFICES ASSUME Init PROVE RangesInv
  OBVIOUS
<1>1. TypeOK
  <2>1. head \in Blocks /\ fork \in [Blocks -> Nat]
    BY ConstantsAssumption DEF Init
  <2>2. queue \in Seq(Doc) /\ DOMAIN queue = {}
    BY DEF Init
  <2>3. task \in TaskDoc
    BY ConstantsAssumption DEF Init, NoTask, Blocks, TaskDoc
  <2>. QED  BY <2>1, <2>2, <2>3 DEF Init, TypeOK, PCs, Hashes
<1>2. InitialHead <= head /\ TaskInv
  BY ConstantsAssumption DEF Init, TaskInv, NoTask, Blocks
<1>3. RangesMined
  BY DEF Init, RangesMined
<1>4. LoopInv /\ ReadInv /\ RestInv
  BY DEF Init, LoopInv, ReadInv, RestInv, InRead
<1>. QED  BY <1>1, <1>2, <1>3, <1>4 DEF RangesInv

(* A process that ends leaves the collections as they are and no locals.   *)
LEMMA RangesExit ==
    ASSUME RangesInv, Exit,
           UNCHANGED <<head, fork, reorgs, queue, sent>>,
           events' \subseteq Blocks \X Nat,
           task' \in TaskDoc, task'.from = task.from, task'.to = task.to,
           aborted' \in BOOLEAN, requests' \in Nat, crashes' \in Nat
    PROVE  RangesInv'
<1>1. TypeOK'
  BY DEF RangesInv, TypeOK, Exit, PCs, Hashes
<1>2. InitialHead <= head' /\ TaskInv' /\ RangesMined'
  BY DEF RangesInv, TaskInv, RangesMined
<1>3. LoopInv' /\ ReadInv' /\ RestInv'
  BY DEF Exit, LoopInv, ReadInv, RestInv, InRead
<1>. QED  BY <1>1, <1>2, <1>3 DEF RangesInv

(* The range of a read consists of blocks.                                 *)
LEMMA ReadBlocks ==
    ASSUME RangesInv, InRead
    PROVE  rFrom \in Blocks /\ rTo \in Blocks
  BY ConstantsAssumption DEF RangesInv, TypeOK, ReadInv, Blocks

LEMMA RangesStep == RangesInv /\ [Next]_vars => RangesInv'
<1> SUFFICES ASSUME RangesInv, [Next]_vars PROVE RangesInv'
  OBVIOUS
<1>T. TypeOK
  BY DEF RangesInv
<1>H. InitialHead <= head /\ TaskInv
  BY DEF RangesInv
<1>Q. RangesMined
  BY DEF RangesInv
<1>L. LoopInv
  BY DEF RangesInv
<1>R. ReadInv /\ RestInv
  BY DEF RangesInv
<1>N. /\ head \in Nat /\ MaxBlock \in Nat /\ InitialHead \in Nat /\ ProcessingLimit \in Nat
      /\ task.from \in Nat /\ task.to \in Nat
  BY <1>T, ConstantsAssumption DEF TypeOK, Blocks, TaskDoc
<1> USE DEF TypeOK, TaskInv, RangesMined, LoopInv, ReadInv, RestInv, InRead, Cascade,
        IsLive, Rewriting, Blocks, PCs, Hashes, chainVars, storeVars, loopVars, callVars,
        readVars, taskVars
<1>1. CASE PickTask
  <2>5. TypeOK'
    BY <1>T, <1>N, <1>1 DEF PickTask
  <2>6. TaskInv' /\ InitialHead <= head'
    BY <1>H, <1>N, <1>T, <1>1 DEF PickTask
  <2>7. RangesMined'
    BY <1>T, <1>Q, <1>1 DEF PickTask
  <2>8. LoopInv'
    BY <1>T, <1>H, <1>L, <1>R, <1>N, <1>1 DEF PickTask
  <2>9. ReadInv' /\ RestInv'
    BY <1>T, <1>L, <1>R, <1>1 DEF PickTask
  <2>. QED  BY <2>5, <2>6, <2>7, <2>8, <2>9 DEF RangesInv
<1>2. CASE GetHead
  BY <1>T, <1>H, <1>Q, <1>L, <1>R, <1>N, <1>2 DEF RangesInv, GetHead
<1>3. CASE GetLatest
  <2>1. PICK i \in Latest(blockTo) : from' = Resume(i) /\ pc' = IF i = 0 THEN "loop" ELSE "clean"
    BY <1>3 DEF GetLatest
  <2>2. UNCHANGED <<chainVars, storeVars, to, blockTo, callVars, readVars, taskVars, crashes>>
    BY <1>3 DEF GetLatest
  <2>3. pc = "latest"
    BY <1>3 DEF GetLatest
  <2>4. CASE i = 0
    <3>1. from' = task.from /\ from' \in Nat /\ pc' = "loop"
      BY <1>N, <2>1, <2>4 DEF Resume
    <3>2. TypeOK'
      BY <1>T, <2>2, <3>1
    <3>3. LoopInv' /\ ReadInv' /\ RestInv'
      BY <1>T, <1>H, <1>L, <1>R, <1>N, <2>2, <2>3, <3>1
    <3>. QED  BY <1>H, <1>Q, <2>2, <3>2, <3>3 DEF RangesInv
  <2>5. CASE i # 0
    <3>1. from' = queue[i].to + 1 /\ queue[i].to \in Nat /\ queue[i].to < blockTo
      <4>1. queue[i] \in Doc /\ queue[i].to < blockTo
        BY <1>T, <2>5, LatestDoc
      <4>. QED  BY <2>1, <2>5, <4>1 DEF Resume, Doc
    <3>2. from' \in Nat /\ from' <= blockTo /\ pc' = "clean"
      BY <1>T, <2>1, <2>5, <3>1
    <3>3. TypeOK'
      BY <1>T, <2>2, <3>2
    <3>4. LoopInv' /\ ReadInv' /\ RestInv'
      BY <1>T, <1>H, <1>L, <1>R, <1>N, <2>2, <2>3, <3>2
    <3>. QED  BY <2>2, <3>3, <3>4 DEF RangesInv
  <2>. QED  BY <2>4, <2>5 DEF RangesInv
<1>4. CASE Clean
  BY <1>T, <1>H, <1>Q, <1>L, <1>R, <1>N, <1>4 DEF RangesInv, Clean
<1>5. CASE LoopAborted
  BY <1>T, <1>H, <1>Q, <1>L, <1>R, <1>N, <1>5 DEF RangesInv, LoopAborted
<1>6. CASE RangeStep
  <2>1. /\ pc = "loop" /\ ~IsLive /\ to # blockTo /\ pc' = "fetch"
        /\ rFrom' = from /\ rTo' = to' /\ to' = RangeEnd(from, blockTo) /\ reorg' = FALSE
        /\ UNCHANGED <<chainVars, storeVars, from, blockTo, readVars, taskVars, crashes>>
    BY <1>6 DEF RangeStep, CallRead
  <2>2. reread' \in BOOLEAN /\ (reread' <=> Rewriting) /\ (Rewriting' <=> Rewriting)
    BY <1>6 DEF RangeStep, CallRead
  <2>3. to' \in Nat /\ from <= to' /\ to' <= blockTo
    BY <1>T, <1>L, <1>N, <2>1 DEF RangeEnd
  <2>4. blockTo <= head /\ ~IsLive'
    BY <1>T, <1>H, <1>L, <1>N, <2>1
  <2> HIDE DEF Rewriting
  <2>5. TypeOK'
    BY <1>T, <2>1, <2>2, <2>3
  <2>6. TaskInv' /\ InitialHead <= head' /\ RangesMined'
    BY <1>H, <1>Q, <2>1
  <2>7. LoopInv'
    BY <1>T, <1>H, <1>L, <1>R, <1>N, <2>1, <2>3, <2>4
  <2>8. ReadInv' /\ RestInv'
    BY <1>T, <1>L, <1>R, <2>1, <2>2, <2>3, <2>4
  <2>. QED  BY <2>5, <2>6, <2>7, <2>8 DEF RangesInv
<1>7. CASE RangeFinish
  <2>1. /\ pc = "loop" /\ pc' = "idle" /\ aborted' = TRUE
        /\ task' = [task EXCEPT !.inProgress = FALSE]
        /\ UNCHANGED <<chainVars, storeVars, loopVars, callVars, readVars, requests, crashes>>
    BY <1>7 DEF RangeFinish
  <2>2. task' \in TaskDoc /\ task'.from = task.from /\ task'.to = task.to
    BY <1>T, <2>1 DEF TaskDoc
  <2>3. TypeOK'
    BY <1>T, <2>1, <2>2
  <2>4. TaskInv' /\ InitialHead <= head' /\ RangesMined'
    BY <1>H, <1>Q, <2>1, <2>2
  <2>5. LoopInv' /\ ReadInv' /\ RestInv'
    BY <1>T, <1>R, <2>1
  <2>. QED  BY <2>3, <2>4, <2>5 DEF RangesInv
<1>8. CASE LiveStep
  BY <1>T, <1>H, <1>Q, <1>L, <1>R, <1>N, <1>8 DEF RangesInv, LiveStep
<1>9. CASE PollNew
  <2>1. /\ pc = "poll" /\ pc' = "fetch" /\ blockTo' = head
        /\ rFrom' = from /\ rTo' = to' /\ to' = RangeEnd(from, head)
        /\ reorg' = TRUE /\ reread' = FALSE
        /\ UNCHANGED <<chainVars, storeVars, from, readVars, taskVars, crashes>>
    BY <1>9 DEF PollNew, CallRead
  <2>2. IsLive /\ IsLive' /\ to # head /\ from <= head
    BY <1>T, <1>L, <1>N, <1>9 DEF PollNew
  <2>3. to' \in Nat /\ from <= to' /\ to' <= head
    BY <1>T, <1>N, <2>1, <2>2 DEF RangeEnd
  <2>5. TypeOK'
    BY <1>T, <1>N, <2>1, <2>3
  <2>6. TaskInv' /\ InitialHead <= head' /\ RangesMined'
    BY <1>H, <1>Q, <2>1
  <2>7. LoopInv'
    BY <1>T, <1>H, <1>L, <1>R, <1>N, <2>1, <2>2, <2>3
  <2>8. ReadInv' /\ RestInv'
    BY <1>T, <1>L, <1>R, <2>1, <2>2, <2>3
  <2>. QED  BY <2>5, <2>6, <2>7, <2>8 DEF RangesInv
<1>10. CASE PollWait
  BY <1>T, <1>H, <1>Q, <1>L, <1>R, <1>N, <1>10 DEF RangesInv, PollWait, Exit
<1>11. CASE WakeUp
  BY <1>T, <1>H, <1>Q, <1>L, <1>R, <1>N, <1>11 DEF RangesInv, WakeUp
<1>12. CASE FetchEvents
  <2>1. LogsOf(rFrom, rTo) \subseteq Blocks \X Nat
    BY <1>T, LogsType
  <2>5. TypeOK'
    BY <1>T, <1>12, <2>1 DEF FetchEvents
  <2>6. TaskInv' /\ InitialHead <= head'
    BY <1>H, <1>N, <1>T, <1>12, <2>1 DEF FetchEvents
  <2>7. RangesMined'
    BY <1>T, <1>Q, <1>12, <2>1 DEF FetchEvents
  <2>8. LoopInv'
    BY <1>T, <1>H, <1>L, <1>R, <1>N, <1>12, <2>1 DEF FetchEvents
  <2>9. ReadInv' /\ RestInv'
    BY <1>T, <1>L, <1>R, <1>12, <2>1 DEF FetchEvents
  <2>. QED  BY <2>5, <2>6, <2>7, <2>8, <2>9 DEF RangesInv
<1>13. CASE StoreEvents
  <2>1. events' \subseteq Blocks \X Nat
    BY <1>T, <1>13 DEF StoreEvents
  <2>2. UNCHANGED <<chainVars, queue, sent, taskVars, crashes>>
    BY <1>13 DEF StoreEvents
  <2>3. CASE Exit
    BY <1>T, <1>H, <1>Q, <1>L, <1>R, <1>N, <2>1, <2>2, <2>3, RangesExit DEF RangesInv, TaskDoc
  <2>4. CASE AfterStore
    <3>1. TypeOK'
      BY <1>T, <2>1, <2>2, <2>4 DEF AfterStore
    <3>2. TaskInv' /\ InitialHead <= head' /\ RangesMined'
      BY <1>H, <1>Q, <2>2
    <3>3. LoopInv' /\ ReadInv' /\ RestInv'
      BY <1>T, <1>H, <1>L, <1>R, <1>N, <1>13, <2>2, <2>4 DEF AfterStore, StoreEvents
    <3>. QED  BY <3>1, <3>2, <3>3 DEF RangesInv
  <2>. QED  BY <1>13, <2>3, <2>4 DEF StoreEvents
<1>14. CASE GetFromBlock
  <2>1. pc = "blocks" /\ pc' = pc
        /\ UNCHANGED <<chainVars, storeVars, loopVars, callVars, logs, latest, taskVars, crashes>>
    BY <1>14 DEF GetFromBlock
  <2>2. rFrom \in Blocks
    BY <1>T, <1>R, <1>N, <2>1
  <2>3. Hash(rFrom) \in Nat \X Nat /\ ParentHash(rFrom) \in Hashes
    <3>1. \A b \in Blocks : Hash(b) \in Nat \X Nat
      BY <1>T, <1>N DEF Hash
    <3>2. rFrom # 0 => rFrom - 1 \in Blocks
      BY <1>N, <2>2
    <3>. QED  BY <2>2, <3>1, <3>2 DEF ParentHash
  <2>4. parent' \in Hashes /\ toHash' \in Hashes /\ awaiting' \subseteq {"from", "to"}
    BY <1>T, <1>14, <2>3 DEF GetFromBlock
  <2>5. TypeOK'
    BY <1>T, <2>1, <2>4
  <2>6. TaskInv' /\ InitialHead <= head' /\ RangesMined'
    BY <1>H, <1>Q, <2>1
  <2>7. LoopInv' /\ ReadInv' /\ RestInv'
    BY <1>T, <1>H, <1>L, <1>R, <1>N, <2>1
  <2>. QED  BY <2>5, <2>6, <2>7 DEF RangesInv
<1>15. CASE GetToBlock
  <2>1. pc = "blocks" /\ pc' = pc
        /\ UNCHANGED <<chainVars, storeVars, loopVars, callVars, logs, parent, latest, taskVars,
                       crashes>>
    BY <1>15 DEF GetToBlock
  <2>2. rTo \in Blocks
    BY <1>T, <1>R, <1>N, <2>1
  <2>3. Hash(rTo) \in Nat \X Nat
    BY <1>T, <2>2 DEF Hash
  <2>4. toHash' \in Hashes /\ awaiting' \subseteq {"from", "to"}
    BY <1>T, <1>15, <2>3 DEF GetToBlock
  <2>5. TypeOK'
    BY <1>T, <2>1, <2>4
  <2>6. TaskInv' /\ InitialHead <= head' /\ RangesMined'
    BY <1>H, <1>Q, <2>1
  <2>7. LoopInv' /\ ReadInv' /\ RestInv'
    BY <1>T, <1>L, <1>R, <2>1
  <2>. QED  BY <2>5, <2>6, <2>7 DEF RangesInv
<1>16. CASE RecordRange
  <2> DEFINE doc == [from |-> rFrom, to |-> rTo, toHash |-> toHash, isDeleted |-> FALSE]
  <2>1. /\ pc \in {"record", "blocks"} /\ pc' = "emit" /\ queue' = Append(queue, doc)
        /\ UNCHANGED <<chainVars, events, sent, loopVars, callVars, logs, awaiting, parent,
                       toHash, taskVars, crashes>>
    BY <1>16 DEF RecordRange
  <2>2. /\ latest' \in Nat
        /\ latest' # 0 => latest' \in DOMAIN queue /\ reorg /\ queue[latest'].to < rFrom
    <3>1. CASE reorg
      <4>1. latest' \in Latest(rFrom)
        BY <1>16, <3>1 DEF RecordRange
      <4>. QED  BY <4>1, <3>1, LatestDoc DEF RangesInv
    <3>2. CASE ~reorg
      BY <1>T, <1>H, <1>Q, <1>L, <1>R, <1>N, <1>16, <3>2 DEF RangesInv, RecordRange
    <3>. QED  BY <3>1, <3>2 DEF RangesInv
  <2>3. doc \in Doc /\ doc.from = rFrom /\ doc.to = rTo
    BY <1>T, <2>1, ReadBlocks DEF Doc
  <2> HIDE DEF doc
  <2>4. /\ queue' \in Seq(Doc) /\ DOMAIN queue' = 1..(Len(queue) + 1)
        /\ DOMAIN queue = 1..Len(queue) /\ Len(queue) \in Nat
        /\ \A i \in DOMAIN queue : queue'[i] = queue[i]
        /\ queue'[Len(queue) + 1] = doc
    BY <1>T, <2>1, <2>3
  <2>5. TypeOK'
    BY <1>T, <2>1, <2>2, <2>4
  <2>6. TaskInv' /\ InitialHead <= head'
    BY <1>H, <1>N, <1>T, <2>1
  <2>7. rFrom <= rTo /\ rTo <= head
    BY <1>T, <1>R, <1>N, <2>1
  <2>8. RangesMined'
    BY <1>T, <1>Q, <2>1, <2>3, <2>4, <2>7
  <2>9. LoopInv'
    BY <1>T, <1>H, <1>L, <1>R, <1>N, <2>1
  <2>10. ReadInv' /\ RestInv'
    BY <1>T, <1>L, <1>R, <2>1, <2>2, <2>4
  <2>. QED  BY <2>5, <2>6, <2>8, <2>9, <2>10 DEF RangesInv
<1>17. CASE EmitRange
  <2> DEFINE message == [from |-> rFrom, to |-> rTo, reread |-> reread]
  <2>1. /\ pc = "emit" /\ sent' = sent \cup {message}
        /\ logs' = {} /\ parent' = NoHash /\ toHash' = NoHash /\ latest' = 0
        /\ UNCHANGED <<chainVars, events, queue, to, blockTo, awaiting, taskVars, crashes>>
    BY <1>17 DEF EmitRange
  <2>2. sent' \subseteq Message
    <3>1. message \in Message
      BY <1>T, <2>1, ReadBlocks DEF Message
    <3>. QED  BY <1>T, <2>1, <3>1
  <2>3. TaskInv' /\ InitialHead <= head' /\ RangesMined'
    BY <1>H, <1>Q, <2>1
  <2>4. CASE ReorgDetected
    <3>1. /\ rFrom' = queue[latest].from /\ rTo' = queue[latest].to /\ pc' = "delete"
          /\ from' = from /\ reorg' = reorg /\ reread' = reread
      BY <1>17, <2>4 DEF EmitRange
    <3>2. /\ queue[latest] \in Doc /\ queue[latest].from <= queue[latest].to
          /\ queue[latest].to < rFrom /\ reorg
      BY <1>T, <1>Q, <1>R, <2>1, <2>4 DEF ReorgDetected
    <3>3. rFrom' \in Nat /\ rTo' \in Nat
      BY <3>1, <3>2 DEF Doc
    <3>4. TypeOK'
      BY <1>T, <2>1, <2>2, <3>1, <3>3
    <3>5. LoopInv'
      BY <1>T, <1>H, <1>L, <1>R, <1>N, <2>1, <3>1
    <3>6. ReadInv' /\ RestInv'
      BY <1>T, <1>L, <1>R, <2>1, <3>1, <3>2, <3>3
    <3>. QED  BY <2>3, <3>4, <3>5, <3>6 DEF RangesInv
  <2>5. CASE ~ReorgDetected
    <3>1. /\ from' = to + 1 /\ pc' = "loop"
          /\ rFrom' = 0 /\ rTo' = 0 /\ reorg' = FALSE /\ reread' = FALSE
      BY <1>17, <2>5 DEF EmitRange
    <3>2. TypeOK'
      <4>1. from' \in Nat /\ rFrom' \in Nat /\ rTo' \in Nat
        BY <1>T, <3>1
      <4>. QED  BY <1>T, <2>1, <2>2, <3>1, <4>1
    <3>3. LoopInv' /\ ReadInv' /\ RestInv'
      BY <1>T, <1>H, <1>L, <1>R, <1>N, <2>1, <3>1
    <3>. QED  BY <2>3, <3>2, <3>3 DEF RangesInv
  <2>. QED  BY <2>4, <2>5 DEF RangesInv
<1>18. CASE DeleteRange
  BY <1>T, <1>H, <1>Q, <1>L, <1>R, <1>N, <1>18 DEF RangesInv, DeleteRange
<1>19. CASE SoftDelete
  <2>1. /\ pc = "softDelete" /\ pc' = "fetch" /\ queue' = SoftDeleted(rFrom, rTo)
        /\ rFrom' = rFrom /\ rTo' = rTo /\ reorg' = TRUE /\ reread' = TRUE
        /\ UNCHANGED <<chainVars, events, sent, loopVars, readVars, taskVars, crashes>>
    BY <1>19 DEF SoftDelete, CallRead
  <2>2. /\ queue' \in Seq(Doc) /\ DOMAIN queue' = DOMAIN queue
        /\ \A i \in DOMAIN queue : queue'[i].from = queue[i].from /\ queue'[i].to = queue[i].to
    <3>1. rFrom \in Nat /\ rTo \in Nat
      BY <1>T
    <3> HIDE DEF TypeOK
    <3>. QED  BY <1>T, <2>1, <3>1, SoftDeletedDocs
  <2>3. TypeOK'
    BY <1>T, <2>1, <2>2
  <2>4. TaskInv' /\ InitialHead <= head'
    BY <1>H, <1>N, <1>T, <2>1
  <2>5. RangesMined'
    BY <1>T, <1>Q, <2>1, <2>2
  <2>6. LoopInv' /\ ReadInv' /\ RestInv'
    BY <1>T, <1>H, <1>L, <1>R, <1>N, <2>1
  <2>. QED  BY <2>3, <2>4, <2>5, <2>6 DEF RangesInv
<1>20. ASSUME NEW t \in Tasks, StartTask(t) PROVE RangesInv'
  <2>0. task' = [from |-> t.from, to |-> t.to, type |-> t.type, inProgress |-> TRUE]
    BY <1>20 DEF StartTask
  <2>1. /\ pc = "idle" /\ aborted' = FALSE /\ requests' = requests + 1
        /\ UNCHANGED <<chainVars, storeVars, loopVars, callVars, readVars, pc, crashes>>
    BY <1>20 DEF StartTask
  <2>2. t \in TaskType
    BY ConstantsAssumption
  <2>3. task' \in TaskDoc /\ task'.from = t.from /\ task'.to = t.to
    BY <2>0, <2>2 DEF TaskType, TaskDoc
  <2>4. TypeOK'
    <3>1. requests \in Nat
      BY <1>T
    <3>2. requests' \in Nat
      BY <1>20, <3>1 DEF StartTask
    <3>3. aborted' \in BOOLEAN
      BY <1>20 DEF StartTask
    <3>. QED  BY <1>T, <2>1, <2>3, <3>2, <3>3
  <2>5. TaskInv'
    BY <2>3, ConstantsAssumption
  <2>6. InitialHead <= head' /\ RangesMined'
    BY <1>H, <1>Q, <2>1
  <2>7. LoopInv' /\ ReadInv' /\ RestInv'
    BY <1>T, <1>H, <1>L, <1>R, <1>N, <2>1
  <2>. QED  BY <2>4, <2>5, <2>6, <2>7 DEF RangesInv
<1>21. CASE StopTask
  <2>1. /\ aborted' = TRUE /\ requests' = requests + 1
        /\ UNCHANGED <<chainVars, storeVars, crashes>>
    BY <1>21 DEF StopTask
  <2>2. CASE pc = "wait"
    <3>1. Exit /\ task' = task
      BY <1>21, <2>2 DEF StopTask
    <3>. QED  BY <1>T, <2>1, <3>1, RangesExit
  <2>3. CASE pc # "wait"
    <3>1. /\ task' = [task EXCEPT !.inProgress = FALSE]
          /\ UNCHANGED <<loopVars, callVars, readVars, pc>>
      BY <1>21, <2>3 DEF StopTask
    <3>2. /\ task' \in TaskDoc
          /\ task'.from = task.from /\ task'.to = task.to /\ task'.type = task.type
      BY <1>T, <3>1 DEF TaskDoc
    <3>3. TypeOK'
      <4>1. requests' \in Nat /\ aborted' \in BOOLEAN
        BY <1>T, <2>1
      <4>. QED  BY <1>T, <2>1, <3>1, <3>2, <4>1
    <3>4. TaskInv' /\ InitialHead <= head' /\ RangesMined'
      BY <1>H, <1>Q, <2>1, <3>2
    <3>5. LoopInv' /\ ReadInv' /\ RestInv'
      BY <1>T, <1>H, <1>L, <1>R, <1>N, <2>1, <3>1, <3>2
    <3>. QED  BY <3>3, <3>4, <3>5 DEF RangesInv
  <2>. QED  BY <2>2, <2>3 DEF RangesInv
<1>22. CASE Crash
  <2>1. Exit /\ crashes' = crashes + 1 /\ UNCHANGED <<chainVars, storeVars, taskVars>>
    BY <1>22 DEF Crash
  <2>. QED  BY <1>T, <2>1, RangesExit
<1>23. CASE Restart
  BY <1>T, <1>H, <1>Q, <1>L, <1>R, <1>N, <1>23 DEF RangesInv, Restart
<1>24. CASE Mine
  <2>1. /\ head' = head + 1 /\ head + 1 \in Blocks /\ fork' = [fork EXCEPT ![head + 1] = reorgs]
        /\ UNCHANGED <<storeVars, loopVars, callVars, readVars, taskVars, pc, crashes, reorgs>>
    BY <1>N, <1>24 DEF Mine
  <2>2. fork' \in [Blocks -> Nat]
    BY <1>T, <2>1
  <2>3. TypeOK'
    BY <1>T, <2>1, <2>2
  <2>4. TaskInv' /\ InitialHead <= head'
    BY <1>H, <1>N, <1>T, <2>1
  <2>5. RangesMined'
    <3> SUFFICES ASSUME NEW i \in DOMAIN queue
                 PROVE  queue[i].from <= queue[i].to /\ queue[i].to <= head + 1
      BY <1>T, <1>Q, <2>1
    <3>1. queue[i] \in Doc
      BY <1>T
    <3>2. queue[i].to \in Nat
      BY <3>1 DEF Doc
    <3>. QED  BY <1>Q, <1>N, <3>2
  <2>6. LoopInv'
    <3>1. (pc \in {"loop", "poll", "wait"} /\ IsLive =>
              to <= head /\ (from <= head \/ from = to + 1))'
      BY <1>T, <1>L, <1>N, <2>1
    <3>2. /\ (pc \in {"latest", "clean", "loop"} /\ ~IsLive =>
                 blockTo = task.to /\ to <= blockTo /\ (to = blockTo \/ from <= blockTo))'
          /\ (InRead /\ ~IsLive => blockTo = task.to /\ to <= blockTo)'
          /\ (pc \in {"poll", "wait"} => IsLive)'
      BY <1>L, <2>1
    <3>3. (pc = "head" => IsLive /\ to = 0 /\ from <= head)'
      BY <1>T, <1>L, <1>N, <2>1
    <3>4. (pc \in {"latest", "clean"} =>
              ~Rewriting /\ to = 0 /\ from <= head /\ blockTo <= head)'
      BY <1>T, <1>L, <1>N, <2>1
    <3>. QED  BY <3>1, <3>2, <3>3, <3>4
  <2>7. ReadInv' /\ RestInv'
    BY <1>T, <1>L, <1>R, <2>1
  <2>. QED  BY <2>3, <2>4, <2>5, <2>6, <2>7 DEF RangesInv
<1>25. ASSUME NEW b \in Blocks, Reorg(b) PROVE RangesInv'
  BY <1>T, <1>H, <1>Q, <1>L, <1>R, <1>N, <1>25 DEF RangesInv, Reorg
<1>26. CASE UNCHANGED vars
  BY <1>T, <1>H, <1>Q, <1>L, <1>R, <1>N, <1>26 DEF RangesInv, vars
<1>. QED  BY <1>1, <1>2, <1>3, <1>4, <1>5, <1>6, <1>7, <1>8, <1>9, <1>10, <1>11, <1>12, <1>13, <1>14, <1>15, <1>16, <1>17, <1>18, <1>19, <1>20, <1>21, <1>22, <1>23, <1>24, <1>25, <1>26 DEF Next, ReaderStep

-----------------------------------------------------------------------------
(* Type correctness, through every crash, request, reorganisation and      *)
(* restart: the reader's cursors, ranges and hashes are blocks of the      *)
(* chain, and `latest` always points at a document of blocks_queue.        *)
THEOREM TypeCorrect == Spec => []TypeOK
<1>1. RangesInv => TypeOK
  BY DEF RangesInv
<1>. QED  BY <1>1, RangesInit, RangesStep, PTL DEF Spec

(* No empty and no unmined range: every range in blocks_queue is non-empty *)
(* and lies below the head, although the head moves between the            *)
(* computation of the range and blockQueue.save.                           *)
THEOREM RangesAreMined == Spec => []RangesMined
<1>1. RangesInv => RangesMined
  BY DEF RangesInv
<1>. QED  BY <1>1, RangesInit, RangesStep, PTL DEF Spec
-----------------------------------------------------------------------------
(* NO BLOCK IS SKIPPED                                                     *)

(* Every task starts at block 0, and nothing interrupts the reader while   *)
(* it stores again what a restart or a re-read has deleted.                *)
FromStart == ~InterruptRecovery /\ \A t \in Tasks : t.from = 0

BeingReread(b) == Rereading /\ rFrom <= b /\ b <= rTo

(* A live document vouches for every block below it, not only for those of *)
(* its own range: that is what lets a restart resume above the latest one. *)
ClosedBelow ==
    \A i \in DOMAIN queue : ~queue[i].isDeleted =>
        \A b \in Blocks : b <= queue[i].to => Covered(b) \/ BeingReread(b)

(* The same of the cursor, in tasks of every kind.                         *)
CursorCovered ==
    /\ pc = "clean" => \A b \in Blocks : b < from => Covered(b)
    /\ InLoop => \A b \in Blocks : b < Cursor =>
          \/ Covered(b) \/ BeingReread(b)
          \/ pc \in {"blocks", "record"} /\ rFrom <= b /\ b <= rTo

CoverInv == task.from = 0 /\ ClosedBelow /\ CursorCovered

LEMMA CoverStep == FromStart /\ RangesInv /\ CoverInv /\ [Next]_vars => CoverInv'
<1> SUFFICES ASSUME FromStart, RangesInv, CoverInv, [Next]_vars PROVE CoverInv'
  OBVIOUS
<1>T. TypeOK /\ ReadInv /\ RestInv
  BY DEF RangesInv
<1>N. /\ from \in Nat /\ to \in Nat /\ rFrom \in Nat /\ rTo \in Nat
      /\ queue \in Seq(Doc)
      /\ \A i \in DOMAIN queue : queue[i].from \in Nat /\ queue[i].to \in Nat
      /\ \A b \in Blocks : b \in Nat
  <2>1. queue \in Seq(Doc) /\ \A i \in DOMAIN queue : queue[i] \in Doc
    BY <1>T DEF TypeOK
  <2>2. \A i \in DOMAIN queue : queue[i].from \in Nat /\ queue[i].to \in Nat
    BY <2>1, ConstantsAssumption DEF Doc, Blocks
  <2>. QED  BY <1>T, <2>1, <2>2 DEF TypeOK, Blocks
<1>I. task.from = 0 /\ ClosedBelow /\ CursorCovered
  BY DEF CoverInv
<1> USE DEF chainVars, storeVars, loopVars, callVars, readVars, taskVars
(* the ways to keep the invariant: outside the loop, and inside            *)
<1>E. ASSUME UNCHANGED queue, task'.from = 0, ~Rereading, ~InLoop', pc' # "clean"
      PROVE  CoverInv'
  BY <1>I, <1>E DEF CoverInv, ClosedBelow, CursorCovered, Covered, BeingReread
<1>S. ASSUME UNCHANGED queue, task'.from = 0, pc' # "clean",
             \A b \in Blocks : BeingReread(b) => BeingReread(b)',
             InLoop' => InLoop /\ Cursor' = Cursor,
             pc \in {"blocks", "record"} => pc' = pc /\ UNCHANGED <<rFrom, rTo>>
      PROVE  CoverInv'
  BY <1>I, <1>S DEF CoverInv, ClosedBelow, CursorCovered, Covered
<1>1. CASE PickTask
  <2>1. /\ pc = "idle" /\ pc' \in {"head", "loop", "latest"} /\ from' = 0
        /\ UNCHANGED <<queue, task, reread, reorg>>
    BY <1>1, <1>I DEF PickTask
  <2>2. ~reread
    BY <1>T, <2>1 DEF RestInv, InRead
  <2>3. Cursor' = 0 /\ ~Rereading
    BY <2>1, <2>2 DEF Cursor, Rereading
  <2>4. \A b \in Blocks : ~(b < 0)
    BY <1>N
  <2>. QED  BY <1>I, <2>1, <2>3, <2>4 DEF CoverInv, ClosedBelow, CursorCovered, Covered, BeingReread
<1>2. CASE GetHead
  BY <1>E, <1>I, <1>2 DEF GetHead, Rereading, InLoop
<1>3. CASE GetLatest
  <2>1. PICK i \in Latest(blockTo) : from' = Resume(i) /\ pc' = IF i = 0 THEN "loop" ELSE "clean"
    BY <1>3 DEF GetLatest
  <2>2. /\ pc = "latest" /\ UNCHANGED <<queue, task, reread, reorg>> /\ ~reread
    BY <1>3, <1>T DEF GetLatest, RestInv, InRead
  <2>3. ~Rereading /\ ClosedBelow'
    BY <1>I, <2>2 DEF Rereading, ClosedBelow, Covered, BeingReread
  <2>4. CASE i = 0
    <3>1. from' = 0 /\ pc' = "loop"
      BY <1>I, <2>1, <2>4 DEF Resume
    <3>2. Cursor' = 0 /\ \A b \in Blocks : ~(b < 0)
      BY <1>N, <2>2, <3>1 DEF Cursor
    <3>. QED  BY <1>I, <2>2, <2>3, <3>1, <3>2 DEF CoverInv, CursorCovered
  <2>5. CASE i # 0
    <3>1. i \in DOMAIN queue /\ ~queue[i].isDeleted
      BY <1>T, <2>5, LatestDoc DEF TypeOK
    <3>2. from' = queue[i].to + 1 /\ pc' = "clean"
      BY <2>1, <2>5 DEF Resume
    <3>3. ASSUME NEW b \in Blocks, b < from' PROVE Covered(b)'
      <4>1. b <= queue[i].to
        BY <1>N, <3>1, <3>2, <3>3
      <4>2. Covered(b)
        BY <1>I, <2>3, <3>1, <4>1 DEF ClosedBelow, BeingReread
      <4>. QED  BY <2>2, <4>2 DEF Covered
    <3>. QED  BY <1>I, <2>2, <2>3, <3>2, <3>3 DEF CoverInv, CursorCovered, InLoop
  <2>. QED  BY <2>4, <2>5
<1>4. CASE Clean
  <2>1. pc = "clean" /\ pc' = "loop" /\ UNCHANGED <<queue, from, task, reread, reorg>>
    BY <1>4 DEF Clean
  <2>2. ~reread
    BY <1>T, <2>1 DEF RestInv, InRead
  <2>3. Cursor' = from /\ ~Rereading
    BY <2>1, <2>2 DEF Cursor, Rereading
  <2>4. CursorCovered'
    BY <1>I, <2>1, <2>3 DEF CursorCovered, Covered
  <2>. QED  BY <1>I, <2>1, <2>3, <2>4 DEF CoverInv, ClosedBelow, Covered, BeingReread
<1>5. CASE LoopAborted
  BY <1>E, <1>I, <1>5 DEF LoopAborted, Rereading, InLoop
<1>6. CASE RangeStep \/ PollNew
  <2>1. /\ pc \in {"loop", "poll"} /\ pc' = "fetch" /\ from' = from
        /\ UNCHANGED <<queue, task>> /\ ~(reread' /\ reorg')
    BY <1>6 DEF RangeStep, PollNew, CallRead
  <2>2. ~reread
    BY <1>T, <2>1 DEF RestInv, InRead
  <2>3. Cursor = from /\ Cursor' = from /\ ~Rereading
    BY <2>1, <2>2 DEF Cursor, Rereading
  <2>. QED  BY <1>S, <1>I, <2>1, <2>3 DEF InLoop, BeingReread
<1>7. CASE RangeFinish
  <2>1. pc = "loop" /\ pc' = "idle" /\ UNCHANGED queue /\ task'.from = task.from
    BY <1>7, <1>T DEF RangeFinish, TypeOK, TaskDoc
  <2>. QED  BY <1>E, <1>I, <2>1 DEF Rereading, InLoop
<1>8. CASE LiveStep \/ WakeUp
  BY <1>S, <1>I, <1>8 DEF LiveStep, WakeUp, InLoop, Cursor, BeingReread, Rereading
<1>9. CASE PollWait
  <2>1. pc = "poll" /\ UNCHANGED <<queue, task>>
    BY <1>9 DEF PollWait
  <2>2. CASE aborted
    BY <1>E, <1>I, <1>9, <2>1, <2>2 DEF PollWait, Exit, Rereading, InLoop
  <2>3. CASE ~aborted
    <3>1. pc' = "wait" /\ UNCHANGED <<from, to, rFrom, rTo, reread, reorg>>
      BY <1>9, <2>3 DEF PollWait
    <3>. QED  BY <1>S, <1>I, <2>1, <3>1 DEF InLoop, Cursor, BeingReread, Rereading
  <2>. QED  BY <2>2, <2>3
<1>10. CASE FetchEvents \/ GetFromBlock \/ GetToBlock \/ DeleteRange
  BY <1>S, <1>I, <1>10 DEF FetchEvents, GetFromBlock, GetToBlock, DeleteRange, InLoop, Cursor,
     BeingReread, Rereading
<1>11. CASE StoreEvents
  <2>1. pc = "store" /\ UNCHANGED <<queue, task>>
    BY <1>11 DEF StoreEvents
  <2>2. CASE reread \/ logs \cap events = {}
    <3>1. /\ pc' = IF reorg THEN "blocks" ELSE "record"
          /\ UNCHANGED <<from, to, rFrom, rTo, reread, reorg>>
      BY <1>11, <2>2 DEF StoreEvents, AfterStore
    <3>2. Cursor' = to + 1
      BY <3>1 DEF Cursor
    <3>3. \A b \in Blocks : BeingReread(b) => BeingReread(b)'
      BY <2>1, <3>1 DEF BeingReread, Rereading
    <3>4. CASE reread /\ reorg
      <4>1. Cursor = to + 1
        BY <3>4 DEF Cursor
      <4>. QED  BY <1>I, <2>1, <3>1, <3>2, <3>3, <4>1 DEF CoverInv, ClosedBelow, CursorCovered,
                   Covered, InLoop
    <3>5. CASE ~(reread /\ reorg)
      <4>1. Cursor = from /\ rFrom = from /\ rTo = to
        BY <1>T, <2>1, <3>5 DEF Cursor, ReadInv, InRead, Cascade
      <4>2. ASSUME NEW b \in Blocks, b < to + 1
            PROVE  b < from \/ (rFrom <= b /\ b <= rTo)
        BY <1>N, <4>1, <4>2
      <4>. QED  BY <1>I, <2>1, <3>1, <3>2, <3>3, <4>1, <4>2 DEF CoverInv, ClosedBelow,
                   CursorCovered, Covered, InLoop
    <3>. QED  BY <3>4, <3>5
  <2>3. CASE ~(reread \/ logs \cap events = {})
    BY <1>E, <1>I, <1>11, <2>1, <2>3 DEF StoreEvents, Exit, Rereading, InLoop
  <2>. QED  BY <2>2, <2>3
<1>12. CASE RecordRange
  <2> DEFINE doc == [from |-> rFrom, to |-> rTo, toHash |-> toHash, isDeleted |-> FALSE]
  <2>1. /\ pc \in {"record", "blocks"} /\ pc' = "emit" /\ queue' = Append(queue, doc)
        /\ UNCHANGED <<from, to, rFrom, rTo, reread, reorg, task>>
    BY <1>12 DEF RecordRange
  <2>2. doc \in Doc /\ doc.from = rFrom /\ doc.to = rTo /\ ~doc.isDeleted
    BY <1>T, <2>1, ReadBlocks DEF TypeOK, Doc, Hashes, InRead
  <2> HIDE DEF doc
  <2>3. /\ DOMAIN queue' = 1..(Len(queue) + 1)
        /\ DOMAIN queue = 1..Len(queue) /\ Len(queue) \in Nat
        /\ \A i \in DOMAIN queue : queue'[i] = queue[i]
        /\ queue'[Len(queue) + 1] = doc
    BY <1>N, <2>1, <2>2
  <2>4. \A b \in Blocks : Covered(b) => Covered(b)'
    BY <2>3 DEF Covered
  <2>5. \A b \in Blocks : rFrom <= b /\ b <= rTo => Covered(b)'
    BY <2>2, <2>3 DEF Covered
  <2>6. Cursor = to + 1 /\ Cursor' = to + 1 /\ InLoop
    BY <2>1 DEF Cursor, InLoop
  <2>7. \A b \in Blocks : b < to + 1 => Covered(b)'
    BY <1>I, <2>4, <2>5, <2>6 DEF CursorCovered, BeingReread
  <2>8. ASSUME NEW i \in DOMAIN queue', ~queue'[i].isDeleted, NEW b \in Blocks, b <= queue'[i].to
        PROVE  Covered(b)'
    <3>1. CASE i \in DOMAIN queue
      BY <1>I, <2>3, <2>4, <2>5, <2>8, <3>1 DEF ClosedBelow, BeingReread
    <3>2. CASE i = Len(queue) + 1
      <4>1. b <= rTo /\ rTo <= to
        BY <1>T, <2>1, <2>2, <2>3, <2>8, <3>2 DEF ReadInv, InRead
      <4>. QED  BY <1>N, <2>7, <4>1
    <3>. QED  BY <2>3, <3>1, <3>2
  <2>. QED  BY <1>I, <2>1, <2>6, <2>7, <2>8 DEF CoverInv, ClosedBelow, CursorCovered
<1>13. CASE EmitRange
  <2>1. pc = "emit" /\ UNCHANGED <<task, queue, to>>
    BY <1>13 DEF EmitRange
  <2>2. \/ pc' = "delete"
        \/ pc' = "loop" /\ from' = to + 1 /\ reread' = FALSE
    <3>1. CASE ReorgDetected
      BY <1>13, <3>1 DEF EmitRange
    <3>2. CASE ~ReorgDetected
      BY <1>13, <3>2 DEF EmitRange
    <3>. QED  BY <3>1, <3>2
  <2>3. Cursor = to + 1 /\ Cursor' = to + 1 /\ InLoop /\ ~Rereading
    BY <2>1, <2>2 DEF Cursor, InLoop, Rereading
  <2>. QED  BY <1>S, <1>I, <2>1, <2>2, <2>3 DEF BeingReread
<1>14. CASE SoftDelete
  <2>1. /\ pc = "softDelete" /\ pc' = "fetch" /\ queue' = SoftDeleted(rFrom, rTo)
        /\ reread' = TRUE /\ reorg' = TRUE /\ UNCHANGED <<to, rFrom, rTo, task>>
    BY <1>14 DEF SoftDelete, CallRead
  <2>2. /\ DOMAIN queue' = DOMAIN queue
        /\ \A i \in DOMAIN queue : /\ queue'[i].from = queue[i].from
                                   /\ queue'[i].to = queue[i].to
                                   /\ queue[i].isDeleted => queue'[i].isDeleted
    BY <1>T, <1>N, <2>1, SoftDeletedDocs
  <2>3. \A i \in DOMAIN queue : queue'[i].isDeleted =>
            queue[i].isDeleted \/ (queue[i].from = rFrom /\ queue[i].to = rTo)
    BY <2>1 DEF SoftDeleted, SameRange
  <2>4. /\ Cursor = to + 1 /\ Cursor' = to + 1 /\ InLoop
        /\ \A b \in Blocks : BeingReread(b)' <=> rFrom <= b /\ b <= rTo
    BY <2>1 DEF Cursor, InLoop, BeingReread, Rereading
  <2>5. \A b \in Blocks : Covered(b) => Covered(b)' \/ BeingReread(b)'
    BY <2>2, <2>3, <2>4 DEF Covered
  <2>6. \A b \in Blocks : BeingReread(b) => BeingReread(b)'
    BY <2>4 DEF BeingReread
  <2>7. ClosedBelow'
    BY <1>I, <2>2, <2>5, <2>6 DEF ClosedBelow
  <2>8. CursorCovered'
    BY <1>I, <2>1, <2>4, <2>5, <2>6 DEF CursorCovered
  <2>. QED  BY <1>I, <2>1, <2>7, <2>8 DEF CoverInv
<1>15. ASSUME NEW t \in Tasks, StartTask(t) PROVE CoverInv'
  <2>1. pc = "idle" /\ pc' = "idle" /\ UNCHANGED queue /\ task'.from = 0
    BY <1>15 DEF StartTask, FromStart
  <2>. QED  BY <1>E, <2>1 DEF InLoop, Rereading
<1>16. CASE StopTask
  <2>1. UNCHANGED queue /\ task'.from = task.from
    BY <1>16, <1>T DEF StopTask, TypeOK, TaskDoc
  <2>2. CASE pc = "wait"
    BY <1>E, <1>I, <1>16, <2>1, <2>2 DEF StopTask, Exit, InLoop, Rereading
  <2>3. CASE pc # "wait"
    <3>1. UNCHANGED <<from, to, rFrom, rTo, reread, reorg, pc>> /\ pc # "clean"
      BY <1>16, <2>3 DEF StopTask, FromStart, Startup
    <3>. QED  BY <1>S, <1>I, <2>1, <3>1 DEF InLoop, Cursor, BeingReread, Rereading
  <2>. QED  BY <2>2, <2>3
<1>17. CASE Crash
  <2>1. ~Rereading /\ pc' = "down" /\ UNCHANGED <<queue, task>>
    BY <1>17 DEF Crash, Exit, FromStart, InRecovery
  <2>. QED  BY <1>E, <1>I, <2>1 DEF InLoop
<1>18. CASE Restart
  BY <1>E, <1>I, <1>18 DEF Restart, InLoop, Rereading
<1>19. ASSUME UNCHANGED <<pc, task, queue, from, to, rFrom, rTo, reread, reorg>> PROVE CoverInv'
  BY <1>I, <1>19 DEF CoverInv, ClosedBelow, CursorCovered, Covered, BeingReread, Rereading,
     InLoop, Cursor
<1>20. CASE Mine \/ (\E b \in Blocks : Reorg(b)) \/ UNCHANGED vars
  BY <1>19, <1>20 DEF Mine, Reorg, vars
<1>. QED  BY <1>1, <1>2, <1>3, <1>4, <1>5, <1>6, <1>7, <1>8, <1>9, <1>10, <1>11, <1>12, <1>13,
             <1>14, <1>15, <1>16, <1>17, <1>18, <1>20 DEF Next, ReaderStep

LEMMA CoverInit == Init => CoverInv
<1> SUFFICES ASSUME Init PROVE CoverInv
  OBVIOUS
<1>1. DOMAIN queue = {}
  BY DEF Init
<1>. QED  BY <1>1 DEF Init, NoTask, CoverInv, ClosedBelow, CursorCovered, InLoop

(* The reader leaves no block behind: with any mix of live, NEW_ONLY and   *)
(* REINDEX tasks that start at block 0, through reorganisations at any     *)
(* moment, crashes, stops and restarts, every block below the cursor is in *)
(* a live range or is being read again.                                    *)
THEOREM NothingIsSkipped == FromStart => (Spec => []NoBlockSkipped)
<1> SUFFICES ASSUME FromStart PROVE Spec => []NoBlockSkipped
  OBVIOUS
<1>1. RangesInv /\ CoverInv /\ [Next]_vars => RangesInv' /\ CoverInv'
  BY RangesStep, CoverStep
<1>2. CoverInv => NoBlockSkipped
  BY DEF CoverInv, CursorCovered, NoBlockSkipped, BeingReread
<1>. QED  BY <1>1, <1>2, RangesInit, CoverInit, PTL DEF Spec

-----------------------------------------------------------------------------
(* RANGES STAY COMPLETE                                                    *)
(* RecordedRangesComplete for every chain, every processing limit and any  *)
(* number of crashes, stops, REINDEX tasks and reorganisations at any      *)
(* moment, as long as tasks are live or REINDEX and nothing interrupts the *)
(* reader while it stores again what a restart or a re-read has deleted.   *)
(* Both conditions are needed: the README says what happens without them.  *)

Benign ==
    /\ ~InterruptRecovery
    /\ \A t \in Tasks : t.to = 0 \/ t.type = "REINDEX"

(* No bounded NEW_ONLY task.                                               *)
KindInv == IsLive \/ Rewriting

HasEvent(b) == \E e \in events : e[1] = b

(* The logs a read holds are of its range and leave out no transfer block; *)
(* once they are stored, `events` leaves out none.                         *)
LogsInv ==
    /\ pc = "store" =>
          /\ \A l \in logs : rFrom <= l[1] /\ l[1] <= rTo
          /\ \A b \in TransferBlocks : rFrom <= b /\ b <= rTo => \E l \in logs : l[1] = b
    /\ pc \in {"blocks", "record", "emit"} =>
          \A b \in TransferBlocks : rFrom <= b /\ b <= rTo => HasEvent(b)

(* A task that has been stopped leaves nothing cut off behind.             *)
AbortInv ==
    aborted => /\ ~Startup
               /\ pc # "down" => ~task.inProgress
               /\ InLoop /\ ~Rewriting =>
                     \A i \in DOMAIN queue : queue[i].isDeleted \/ queue[i].to < Cursor

DataInv == RangesInv /\ KindInv /\ LogsInv /\ AbortInv /\ RecordedRangesComplete

-----------------------------------------------------------------------------
(* The logs of a mined range are of its blocks, one for each that has any. *)
LEMMA LogsMember ==
    ASSUME TypeOK, NEW f \in Nat, NEW t \in Nat
    PROVE  /\ t <= head => \A b \in TransferBlocks :
                               f <= b /\ b <= t => \E l \in LogsOf(f, t) : l[1] = b
           /\ \A l \in LogsOf(f, t) : /\ l = Hash(l[1]) /\ l[1] \in TransferBlocks
                                     /\ f <= l[1] /\ l[1] <= t /\ l[1] <= head
<1>1. \A b : Hash(b)[1] = b
  BY DEF Hash
<1>2. ASSUME NEW l \in LogsOf(f, t)
      PROVE  /\ l = Hash(l[1]) /\ l[1] \in TransferBlocks
             /\ f <= l[1] /\ l[1] <= t /\ l[1] <= head
  <2>1. PICK b \in {x \in TransferBlocks : f <= x /\ x <= t /\ x <= head} : l = Hash(b)
    BY DEF LogsOf
  <2>. QED  BY <1>1, <2>1
<1>3. ASSUME t <= head, NEW b \in TransferBlocks, f <= b, b <= t
      PROVE  \E l \in LogsOf(f, t) : l[1] = b
  <2>1. b <= head
    BY <1>3, ConstantsAssumption DEF TypeOK, Blocks
  <2>2. Hash(b) \in LogsOf(f, t)
    BY <1>3, <2>1 DEF LogsOf
  <2>. QED  BY <1>1, <2>2
<1>. QED  BY <1>2, <1>3

LEMMA KindStep == Benign /\ RangesInv /\ KindInv /\ [Next]_vars => KindInv'
<1> SUFFICES ASSUME Benign, RangesInv, KindInv, [Next]_vars PROVE KindInv'
  OBVIOUS
<1>T. TypeOK
  BY DEF RangesInv
<1> USE DEF KindInv, IsLive, Rewriting, taskVars
<1>1. ASSUME UNCHANGED task PROVE KindInv'
  BY <1>1
<1>2. ASSUME NEW t \in Tasks, StartTask(t) PROVE KindInv'
  BY <1>2 DEF StartTask, Benign
<1>3. ASSUME task' = [task EXCEPT !.inProgress = FALSE] PROVE KindInv'
  BY <1>T, <1>3 DEF TypeOK, TaskDoc
<1>4. RangeFinish \/ StopTask => KindInv'
  BY <1>1, <1>3 DEF RangeFinish, StopTask
<1>5. ReaderStep => KindInv'
  BY <1>1, <1>4 DEF ReaderStep, PickTask, GetHead, GetLatest, Clean, LoopAborted, RangeStep,
     LiveStep, PollNew, PollWait, WakeUp, FetchEvents, StoreEvents, GetFromBlock, GetToBlock,
     RecordRange, EmitRange, DeleteRange, SoftDelete
<1>6. Crash \/ Restart \/ Mine \/ (\E b \in Blocks : Reorg(b)) \/ UNCHANGED vars => KindInv'
  BY <1>1 DEF Crash, Restart, Mine, Reorg, vars
<1>. QED  BY <1>2, <1>4, <1>5, <1>6 DEF Next

LEMMA LogsStep == RangesInv /\ LogsInv /\ [Next]_vars => LogsInv'
<1> SUFFICES ASSUME RangesInv, LogsInv, [Next]_vars PROVE LogsInv'
  OBVIOUS
<1>T. TypeOK /\ ReadInv
  BY DEF RangesInv
<1> USE DEF chainVars, storeVars, loopVars, callVars, readVars, taskVars
<1>1. ASSUME pc' \notin {"store", "blocks", "record", "emit"} PROVE LogsInv'
  BY <1>1 DEF LogsInv
<1>2. ASSUME UNCHANGED <<pc, events, logs, rFrom, rTo>> PROVE LogsInv'
  BY <1>2 DEF LogsInv, HasEvent
<1>3. CASE FetchEvents
  <2>1. pc = "fetch" /\ pc' = "store" /\ logs' = LogsOf(rFrom, rTo) /\ UNCHANGED <<rFrom, rTo>>
    BY <1>3 DEF FetchEvents
  <2>2. rFrom \in Nat /\ rTo \in Nat /\ rTo <= head
    BY <1>T, <2>1, ConstantsAssumption DEF TypeOK, ReadInv, InRead, Blocks
  <2>. QED  BY <1>T, <2>1, <2>2, LogsMember DEF LogsInv
<1>4. CASE StoreEvents
  <2>1. CASE Exit
    BY <1>1, <2>1 DEF Exit
  <2>2. CASE AfterStore
    <3>1. pc' \in {"blocks", "record"} /\ UNCHANGED <<rFrom, rTo>> /\ pc = "store"
      BY <1>4, <2>2 DEF StoreEvents, AfterStore
    <3>2. events' = events \cup logs
      BY <1>4, <3>1 DEF StoreEvents, Exit
    <3>. QED  BY <3>1, <3>2 DEF LogsInv, HasEvent
  <2>. QED  BY <1>4, <2>1, <2>2 DEF StoreEvents
<1>5. CASE RecordRange
  <2>1. pc \in {"blocks", "record"} /\ pc' = "emit" /\ UNCHANGED <<events, rFrom, rTo>>
    BY <1>5 DEF RecordRange
  <2>. QED  BY <2>1 DEF LogsInv, HasEvent
<1>6. ReaderStep => LogsInv'
  BY <1>1, <1>2, <1>3, <1>4, <1>5 DEF ReaderStep, PickTask, GetHead, GetLatest, Clean,
     LoopAborted, RangeStep, RangeFinish, LiveStep, PollNew, PollWait, WakeUp, GetFromBlock,
     GetToBlock, EmitRange, DeleteRange, SoftDelete, CallRead, Exit
<1>7. ASSUME NEW t \in Tasks, StartTask(t) PROVE LogsInv'
  BY <1>2, <1>7 DEF StartTask
<1>8. StopTask \/ Crash \/ Restart \/ UNCHANGED vars => LogsInv'
  BY <1>1, <1>2 DEF StopTask, Crash, Restart, vars, Exit
<1>9. Mine \/ (\E b \in Blocks : Reorg(b)) => LogsInv'
  BY <1>2 DEF Mine, Reorg
<1>. QED  BY <1>6, <1>7, <1>8, <1>9 DEF Next

(* What the steps do to the cursor and to the documents of blocks_queue:   *)
(* outside Clean and the end of the process the cursor never moves back.   *)
LEMMA AbortStep ==
    Benign /\ RangesInv /\ AbortInv /\ [Next]_vars => AbortInv'
<1> SUFFICES ASSUME Benign, RangesInv, AbortInv, [Next]_vars PROVE AbortInv'
  OBVIOUS
<1>T. TypeOK
  BY DEF RangesInv
<1>R. ReadInv /\ RestInv
  BY DEF RangesInv
<1>N. /\ from \in Nat /\ to \in Nat /\ rFrom \in Nat /\ rTo \in Nat
      /\ queue \in Seq(Doc) /\ \A i \in DOMAIN queue : queue[i].to \in Nat
  <2>1. queue \in Seq(Doc) /\ \A i \in DOMAIN queue : queue[i] \in Doc
    BY <1>T DEF TypeOK
  <2>2. \A i \in DOMAIN queue : queue[i].to \in Nat
    BY <2>1, ConstantsAssumption DEF Doc, Blocks
  <2>. QED  BY <1>T, <2>1, <2>2 DEF TypeOK
<1> USE DEF chainVars, storeVars, loopVars, callVars, readVars, taskVars
(* a process that ends, and a step that leaves everything the invariant    *)
(* speaks about alone                                                      *)
<1>1. ASSUME pc' = "down" PROVE AbortInv'
  BY <1>1 DEF AbortInv, Startup, InLoop
<1>2. ASSUME UNCHANGED <<task, aborted, queue>>, pc \in PCs, pc' \in PCs,
             ~Startup', pc # "down", InLoop' /\ ~Rewriting => InLoop /\ Cursor' = Cursor
      PROVE  AbortInv'
  BY <1>2 DEF AbortInv, Rewriting
<1>3. ASSUME ~aborted' PROVE AbortInv'
  BY <1>3 DEF AbortInv
<1>4. CASE PickTask \/ GetHead \/ GetLatest \/ Clean
  <2>1. ~aborted
    BY <1>4 DEF PickTask, GetHead, GetLatest, Clean, AbortInv, Startup
  <2>. QED  BY <1>3, <1>4, <2>1 DEF PickTask, GetHead, GetLatest, Clean
<1>5. CASE LoopAborted \/ LiveStep \/ WakeUp
  BY <1>2, <1>5, <1>T, <1>R DEF LoopAborted, LiveStep, WakeUp, TypeOK, PCs, Startup, InLoop,
     Cursor, RestInv, InRead
<1>6. CASE RangeStep
  BY <1>3, <1>6 DEF RangeStep
<1>7. CASE RangeFinish
  <2>1. pc' = "idle" /\ ~task'.inProgress
    BY <1>7, <1>T DEF RangeFinish, TypeOK, TaskDoc
  <2>. QED  BY <2>1 DEF AbortInv, Startup, InLoop
<1>8. CASE PollNew
  <2>1. /\ pc = "poll" /\ pc' = "fetch" /\ ~reread /\ reread' = FALSE /\ from' = from
        /\ UNCHANGED <<task, aborted, queue>>
    BY <1>8, <1>R DEF PollNew, CallRead, RestInv, InRead
  <2>. QED  BY <1>2, <2>1 DEF PCs, Startup, InLoop, Cursor
<1>9. CASE PollWait
  <2>1. CASE Exit
    BY <1>1, <2>1 DEF Exit
  <2>2. CASE ~Exit
    <3>1. /\ pc = "poll" /\ pc' = "wait" /\ UNCHANGED <<from, to, reread, reorg>>
          /\ UNCHANGED <<task, aborted, queue>>
      BY <1>9, <2>2 DEF PollWait
    <3>. QED  BY <1>2, <3>1 DEF PCs, Startup, InLoop, Cursor
  <2>. QED  BY <2>1, <2>2
<1>10. CASE FetchEvents
  BY <1>2, <1>10 DEF FetchEvents, PCs, Startup, InLoop, Cursor
<1>11. CASE StoreEvents
  <2>1. CASE Exit
    BY <1>1, <2>1 DEF Exit
  <2>2. CASE AfterStore
    <3>1. /\ pc = "store" /\ pc' \in {"blocks", "record"} /\ UNCHANGED <<from, to, reread, reorg>>
          /\ UNCHANGED <<task, aborted, queue>>
      BY <1>11, <2>2 DEF StoreEvents, AfterStore
    <3>2. Cursor \in Nat /\ Cursor' \in Nat /\ Cursor <= Cursor'
      <4>1. ~(reread /\ reorg) => from <= to
        BY <1>R, <1>N, <3>1 DEF ReadInv, InRead, Cascade
      <4>. QED  BY <1>N, <3>1, <4>1 DEF Cursor
    <3>. QED  BY <1>N, <3>1, <3>2 DEF AbortInv, Startup, InLoop, Rewriting
  <2>. QED  BY <1>11, <2>1, <2>2 DEF StoreEvents
<1>12. CASE GetFromBlock \/ GetToBlock
  BY <1>2, <1>12 DEF GetFromBlock, GetToBlock, PCs, Startup, InLoop, Cursor
<1>13. CASE RecordRange
  <2> DEFINE doc == [from |-> rFrom, to |-> rTo, toHash |-> toHash, isDeleted |-> FALSE]
  <2>1. /\ pc \in {"record", "blocks"} /\ pc' = "emit" /\ queue' = Append(queue, doc)
        /\ UNCHANGED <<to, task, aborted>>
    BY <1>13 DEF RecordRange
  <2>2. doc \in Doc /\ doc.to = rTo
    BY <1>T, <2>1, ReadBlocks DEF TypeOK, Doc, Hashes, DataInv, InRead
  <2> HIDE DEF doc
  <2>3. /\ DOMAIN queue' = 1..(Len(queue) + 1)
        /\ DOMAIN queue = 1..Len(queue) /\ Len(queue) \in Nat
        /\ \A i \in DOMAIN queue : queue'[i] = queue[i]
        /\ queue'[Len(queue) + 1] = doc
    BY <1>N, <2>1, <2>2
  <2>4. rTo < to + 1 /\ Cursor = to + 1 /\ Cursor' = to + 1
    BY <1>R, <1>N, <2>1 DEF ReadInv, InRead, Cursor
  <2>. QED  BY <2>1, <2>2, <2>3, <2>4 DEF AbortInv, Startup, InLoop, Rewriting
<1>14. CASE EmitRange
  <2>1. pc = "emit" /\ UNCHANGED <<task, aborted, queue>>
    BY <1>14 DEF EmitRange
  <2>2. \/ pc' = "delete" /\ to' = to
        \/ pc' = "loop" /\ from' = to + 1 /\ reread' = FALSE
    <3>1. CASE ReorgDetected
      BY <1>14, <3>1 DEF EmitRange
    <3>2. CASE ~ReorgDetected
      BY <1>14, <3>2 DEF EmitRange
    <3>. QED  BY <3>1, <3>2
  <2>3. Cursor = to + 1 /\ Cursor' = to + 1
    BY <2>1, <2>2 DEF Cursor
  <2>. QED  BY <1>2, <2>1, <2>2, <2>3 DEF PCs, Startup, InLoop
<1>15. CASE DeleteRange
  BY <1>2, <1>15 DEF DeleteRange, PCs, Startup, InLoop, Cursor
<1>16. CASE SoftDelete
  <2>1. /\ pc = "softDelete" /\ pc' = "fetch" /\ queue' = SoftDeleted(rFrom, rTo)
        /\ reread' = TRUE /\ reorg' = TRUE /\ UNCHANGED <<to, task, aborted>>
    BY <1>16 DEF SoftDelete, CallRead
  <2>2. /\ DOMAIN queue' = DOMAIN queue
        /\ \A i \in DOMAIN queue : /\ queue'[i].to = queue[i].to
                                   /\ queue[i].isDeleted => queue'[i].isDeleted
    BY <1>T, <1>N, <2>1, SoftDeletedDocs
  <2>3. Cursor = to + 1 /\ Cursor' = to + 1
    BY <2>1 DEF Cursor
  <2>. QED  BY <2>1, <2>2, <2>3 DEF AbortInv, Startup, InLoop, Rewriting
<1>17. ASSUME NEW t \in Tasks, StartTask(t) PROVE AbortInv'
  BY <1>3, <1>17 DEF StartTask
<1>18. CASE StopTask
  <2>1. ~InRecovery /\ ~Startup
    BY <1>18 DEF StopTask, Benign
  <2>2. CASE pc = "wait"
    BY <1>1, <1>18, <2>2 DEF StopTask, Exit
  <2>3. CASE pc # "wait"
    <3>1. /\ pc' = pc /\ task' = [task EXCEPT !.inProgress = FALSE]
          /\ UNCHANGED <<from, to, reread, reorg, queue>>
      BY <1>18, <2>3 DEF StopTask
    <3>2. ~task'.inProgress /\ task'.to = task.to /\ task'.type = task.type
      BY <1>T, <3>1 DEF TypeOK, TaskDoc
    <3>3. Cursor \in Nat /\ Cursor' = Cursor
      BY <1>N, <3>1 DEF Cursor
    <3>4. InLoop /\ ~Rewriting => \A i \in DOMAIN queue : queue[i].isDeleted \/ queue[i].to < Cursor
      BY <1>N, <2>1, <3>3 DEF InRecovery
    <3>. QED  BY <2>1, <3>1, <3>2, <3>3, <3>4 DEF AbortInv, Startup, InLoop, Rewriting
  <2>. QED  BY <2>2, <2>3
<1>19. CASE Crash
  BY <1>1, <1>19 DEF Crash, Exit
<1>20. CASE Restart
  BY <1>3, <1>20 DEF Restart
<1>21. CASE Mine \/ (\E b \in Blocks : Reorg(b)) \/ UNCHANGED vars
  <2>1. UNCHANGED <<pc, task, aborted, queue, from, to, reread, reorg>>
    BY <1>21 DEF Mine, Reorg, vars
  <2>2. Cursor' = Cursor
    BY <2>1 DEF Cursor
  <2>. QED  BY <2>1, <2>2 DEF AbortInv, Startup, InLoop, Rewriting
<1>. QED  BY <1>4, <1>5, <1>6, <1>7, <1>8, <1>9, <1>10, <1>11, <1>12, <1>13, <1>14, <1>15,
             <1>16, <1>17, <1>18, <1>19, <1>20, <1>21 DEF Next, ReaderStep

(* Every step keeps the live ranges complete.  Clean and DeleteRange make  *)
(* their blocks Lost, StoreEvents brings them back, and a process can only *)
(* stop when nothing is Lost.                                              *)
LEMMA CompleteStep ==
    Benign /\ DataInv /\ [Next]_vars => RecordedRangesComplete'
<1> SUFFICES ASSUME Benign, DataInv, [Next]_vars PROVE RecordedRangesComplete'
  OBVIOUS
<1>T. TypeOK /\ ReadInv /\ RestInv /\ LoopInv
  BY DEF DataInv, RangesInv
<1>P. KindInv /\ LogsInv /\ AbortInv
  BY DEF DataInv
<1>N. /\ from \in Nat /\ to \in Nat /\ rFrom \in Nat /\ rTo \in Nat /\ head \in Nat
      /\ reread \in BOOLEAN /\ reorg \in BOOLEAN /\ queue \in Seq(Doc)
      /\ \A e \in events : e[1] \in Nat
      /\ \A i \in DOMAIN queue : queue[i].from \in Nat /\ queue[i].to \in Nat
  <2>1. queue \in Seq(Doc) /\ \A i \in DOMAIN queue : queue[i] \in Doc
    BY <1>T DEF TypeOK
  <2>2. head \in Nat /\ \A e \in events : e[1] \in Nat
    BY <1>T, ConstantsAssumption DEF TypeOK, Blocks
  <2>3. \A i \in DOMAIN queue : queue[i].from \in Nat /\ queue[i].to \in Nat
    BY <2>1, ConstantsAssumption DEF Doc, Blocks
  <2>. QED  BY <1>T, <2>1, <2>2, <2>3 DEF TypeOK
<1>F. \A b \in TransferBlocks : b \in Nat
  BY ConstantsAssumption DEF Blocks
<1>C. ASSUME NEW i \in DOMAIN queue, ~queue[i].isDeleted, NEW b \in TransferBlocks,
             queue[i].from <= b, b <= queue[i].to
      PROVE  HasEvent(b) \/ Lost(b)
  BY <1>C, <1>F DEF DataInv, RecordedRangesComplete, HasEvent
<1>E. \A b : events \subseteq events' /\ HasEvent(b) => HasEvent(b)'
  BY DEF HasEvent
<1> USE DEF chainVars, storeVars, loopVars, callVars, readVars, taskVars
(* three ways to keep the property                                         *)
<1>K. ASSUME UNCHANGED queue,
             \A b \in TransferBlocks : HasEvent(b) \/ Lost(b) => HasEvent(b)' \/ Lost(b)'
      PROVE  RecordedRangesComplete'
  BY <1>C, <1>F, <1>K DEF RecordedRangesComplete, HasEvent
<1>S. ASSUME UNCHANGED <<queue, events, rFrom, rTo>>, Rereading => Rereading',
             InLoop /\ ~Rewriting => InLoop' /\ ~Rewriting' /\ Cursor' = Cursor
      PROVE  RecordedRangesComplete'
  BY <1>K, <1>S DEF Lost, HasEvent
<1>A. ASSUME UNCHANGED queue, events \subseteq events', ~Rereading,
             InLoop /\ ~Rewriting =>
                 \/ \A i \in DOMAIN queue : queue[i].isDeleted \/ queue[i].to < Cursor
                 \/ \E e \in events : ~(e[1] < Cursor)
      PROVE  RecordedRangesComplete'
  <2>1. ASSUME NEW i \in DOMAIN queue, ~queue[i].isDeleted, NEW b \in TransferBlocks,
               queue[i].from <= b, b <= queue[i].to
        PROVE  HasEvent(b)
    <3>1. Cursor \in Nat /\ b \in Nat /\ queue[i].to \in Nat
      BY <1>N, <1>F DEF Cursor
    <3>. QED  BY <1>A, <1>C, <2>1, <3>1 DEF Lost
  <2>. QED  BY <1>A, <1>F, <2>1 DEF RecordedRangesComplete, HasEvent
<1>1. CASE PickTask \/ GetHead \/ GetLatest
  BY <1>A, <1>1 DEF PickTask, GetHead, GetLatest, InLoop, Rereading
<1>2. CASE Clean
  <2>1. /\ pc = "clean" /\ pc' = "loop" /\ events' = {e \in events : e[1] < from}
        /\ UNCHANGED <<queue, from, task, reread, reorg>>
    BY <1>2 DEF Clean
  <2>2. ~reread /\ ~Rewriting
    BY <1>T, <2>1 DEF RestInv, InRead, LoopInv
  <2>3. Cursor' = from /\ InLoop' /\ ~Rewriting'
    BY <2>1, <2>2 DEF Cursor, InLoop, Rewriting
  <2>4. ASSUME NEW b \in TransferBlocks, HasEvent(b) \/ Lost(b)
        PROVE  HasEvent(b)' \/ Lost(b)'
    <3>1. HasEvent(b)
      BY <2>1, <2>4 DEF Lost, InLoop, Rereading
    <3>2. CASE b < from
      BY <2>1, <3>1, <3>2 DEF HasEvent
    <3>3. CASE ~(b < from)
      BY <1>N, <1>F, <2>1, <2>3, <3>3 DEF Lost
    <3>. QED  BY <3>2, <3>3
  <2>. QED  BY <1>K, <2>1, <2>4
<1>3. CASE LoopAborted
  <2>1. pc = "loop" /\ aborted /\ UNCHANGED <<queue, events>>
    BY <1>3 DEF LoopAborted
  <2>. QED  BY <1>A, <1>P, <2>1 DEF AbortInv, Rereading
<1>4. CASE RangeStep \/ RangeFinish
  <2>1. pc = "loop" /\ ~IsLive /\ UNCHANGED <<queue, events>>
    BY <1>4 DEF RangeStep, RangeFinish
  <2>2. Rewriting
    BY <1>P, <2>1 DEF KindInv
  <2>. QED  BY <1>A, <2>1, <2>2 DEF Rereading
<1>5. CASE LiveStep \/ WakeUp
  BY <1>S, <1>5 DEF LiveStep, WakeUp, Rereading, InLoop, Rewriting, Cursor
<1>6. CASE PollNew
  <2>1. /\ pc = "poll" /\ pc' = "fetch" /\ ~reread /\ reread' = FALSE /\ from' = from
        /\ UNCHANGED <<task, queue, events>>
    BY <1>6, <1>T DEF PollNew, CallRead, RestInv, InRead
  <2>2. InLoop /\ InLoop' /\ Cursor = from /\ Cursor' = from /\ ~Rereading
        /\ (Rewriting' <=> Rewriting)
    BY <2>1 DEF InLoop, Cursor, Rereading, Rewriting
  <2>3. \A b \in TransferBlocks : Lost(b) => Lost(b)'
    BY <2>1, <2>2 DEF Lost
  <2>. QED  BY <1>E, <1>K, <2>1, <2>3
<1>7. CASE PollWait
  <2>1. pc = "poll" /\ UNCHANGED <<task, queue, events>>
    BY <1>7 DEF PollWait
  <2>2. CASE aborted
    BY <1>A, <1>P, <2>1, <2>2 DEF AbortInv, Rereading
  <2>3. CASE ~aborted
    <3>1. pc' = "wait" /\ UNCHANGED <<from, to, rFrom, rTo, reread, reorg>>
      BY <1>7, <2>3 DEF PollWait
    <3>. QED  BY <1>S, <2>1, <3>1 DEF Rereading, InLoop, Rewriting, Cursor
  <2>. QED  BY <2>2, <2>3
<1>8. CASE FetchEvents \/ GetFromBlock \/ GetToBlock
  BY <1>S, <1>8 DEF FetchEvents, GetFromBlock, GetToBlock, Rereading, InLoop, Rewriting, Cursor
<1>9. CASE StoreEvents
  <2>1. /\ pc = "store" /\ UNCHANGED <<task, queue>>
        /\ rFrom <= rTo /\ rTo <= to
    BY <1>9, <1>T DEF StoreEvents, ReadInv, InRead
  <2>2. /\ \A b \in TransferBlocks : rFrom <= b /\ b <= rTo => \E l \in logs : l[1] = b
        /\ \A l \in logs : l[1] \in Nat /\ rFrom <= l[1] /\ l[1] <= rTo
    BY <1>P, <1>T, <2>1 DEF LogsInv, TypeOK, Blocks
  <2>3. CASE reread \/ logs \cap events = {}
    <3>1. /\ events' = events \cup logs /\ pc' = IF reorg THEN "blocks" ELSE "record"
          /\ UNCHANGED <<from, to, rFrom, rTo, reread, reorg>>
      BY <1>9, <2>3 DEF StoreEvents, AfterStore
    <3>2. CASE ~reorg
      <4>1. Rewriting
        BY <1>T, <1>P, <2>1, <3>2 DEF ReadInv, InRead, KindInv
      <4>. QED  BY <1>A, <2>1, <3>1, <3>2, <4>1 DEF Rereading
    <3>3. CASE reorg
      <4>1. pc' = "blocks" /\ Cursor' = to + 1 /\ InLoop /\ InLoop'
            /\ (Rewriting' <=> Rewriting) /\ (Rereading => Rereading')
        BY <2>1, <3>1, <3>3 DEF Cursor, InLoop, Rewriting, Rereading
      <4>2. Cursor = IF reread THEN to + 1 ELSE from
        BY <2>1, <3>3 DEF Cursor
      <4>3. ~reread => from = rFrom /\ to = rTo
        BY <1>T, <2>1 DEF ReadInv, InRead, Cascade
      <4>4. ASSUME NEW b \in TransferBlocks, Lost(b), ~HasEvent(b)'
            PROVE  Lost(b)'
        <5>1. b \in Nat /\ ~(rFrom <= b /\ b <= rTo)
          BY <1>F, <2>2, <3>1, <4>4 DEF HasEvent
        <5>2. InLoop /\ ~Rewriting /\ b >= Cursor /\ \A e \in events : e[1] < Cursor
          BY <4>4, <5>1 DEF Lost
        <5>3. b >= to + 1
          BY <1>N, <4>2, <4>3, <5>1, <5>2
        <5>4. \A e \in events' : e[1] < to + 1
          <6>1. \A e \in events : e[1] < to + 1
            BY <1>N, <2>1, <4>2, <4>3, <5>2
          <6>2. \A e \in logs : e[1] < to + 1
            BY <1>N, <2>1, <2>2
          <6>. QED  BY <3>1, <6>1, <6>2
        <5>. QED  BY <4>1, <5>2, <5>3, <5>4 DEF Lost
      <4>5. events \subseteq events'
        BY <3>1
      <4>. QED  BY <1>E, <1>K, <2>1, <4>4, <4>5
    <3>. QED  BY <3>2, <3>3
  <2>4. CASE ~(reread \/ logs \cap events = {})
    <3>1. events \subseteq events' /\ ~reread
      BY <1>9, <2>4 DEF StoreEvents
    <3>2. from = rFrom /\ Cursor = from
      BY <1>T, <2>1, <3>1 DEF ReadInv, InRead, Cascade, Cursor
    <3>3. \E e \in events : ~(e[1] < Cursor)
      BY <1>N, <2>2, <2>4, <3>2
    <3>. QED  BY <1>A, <2>1, <3>1, <3>3 DEF Rereading
  <2>. QED  BY <2>3, <2>4
<1>10. CASE RecordRange
  <2> DEFINE doc == [from |-> rFrom, to |-> rTo, toHash |-> toHash, isDeleted |-> FALSE]
  <2>1. /\ pc \in {"record", "blocks"} /\ pc' = "emit" /\ queue' = Append(queue, doc)
        /\ UNCHANGED <<from, to, rFrom, rTo, reread, reorg, task, events>>
    BY <1>10 DEF RecordRange
  <2>2. doc \in Doc /\ doc.from = rFrom /\ doc.to = rTo
    BY <1>T, <2>1, ReadBlocks DEF TypeOK, Doc, Hashes, DataInv, InRead
  <2> HIDE DEF doc
  <2>3. /\ DOMAIN queue' = 1..(Len(queue) + 1)
        /\ DOMAIN queue = 1..Len(queue) /\ Len(queue) \in Nat
        /\ \A i \in DOMAIN queue : queue'[i] = queue[i]
        /\ queue'[Len(queue) + 1] = doc
    BY <1>N, <2>1, <2>2
  <2>4. \A b \in TransferBlocks : rFrom <= b /\ b <= rTo => HasEvent(b)
    BY <1>P, <2>1 DEF LogsInv
  <2>5. /\ Cursor = to + 1 /\ Cursor' = to + 1 /\ InLoop /\ InLoop'
        /\ (Rewriting' <=> Rewriting)
    BY <2>1 DEF Cursor, InLoop, Rewriting
  <2>6. \A b \in TransferBlocks : Lost(b) => HasEvent(b)' \/ Lost(b)'
    BY <1>E, <2>1, <2>4, <2>5 DEF Lost
  <2>7. ASSUME NEW i \in DOMAIN queue', ~queue'[i].isDeleted, NEW b \in TransferBlocks,
               queue'[i].from <= b, b <= queue'[i].to
        PROVE  HasEvent(b)' \/ Lost(b)'
    <3>1. CASE i \in DOMAIN queue
      BY <1>C, <1>E, <2>1, <2>3, <2>6, <2>7, <3>1
    <3>2. CASE i = Len(queue) + 1
      BY <1>E, <2>1, <2>2, <2>3, <2>4, <2>7, <3>2
    <3>. QED  BY <2>3, <3>1, <3>2
  <2>. QED  BY <1>F, <2>7 DEF RecordedRangesComplete, HasEvent
<1>11. CASE EmitRange
  <2>1. pc = "emit" /\ UNCHANGED <<task, queue, events, to>>
    BY <1>11 DEF EmitRange
  <2>2. \/ pc' = "delete"
        \/ pc' = "loop" /\ from' = to + 1 /\ reread' = FALSE
    <3>1. CASE ReorgDetected
      BY <1>11, <3>1 DEF EmitRange
    <3>2. CASE ~ReorgDetected
      BY <1>11, <3>2 DEF EmitRange
    <3>. QED  BY <3>1, <3>2
  <2>3. /\ Cursor = to + 1 /\ Cursor' = to + 1 /\ InLoop /\ InLoop' /\ ~Rereading
        /\ (Rewriting' <=> Rewriting)
    BY <2>1, <2>2 DEF Cursor, InLoop, Rewriting, Rereading
  <2>4. \A b \in TransferBlocks : Lost(b) => Lost(b)'
    BY <2>1, <2>3 DEF Lost
  <2>. QED  BY <1>E, <1>K, <2>1, <2>4
<1>12. CASE DeleteRange
  <2>1. /\ pc = "delete" /\ pc' = "softDelete"
        /\ events' = {e \in events : ~(rFrom <= e[1] /\ e[1] <= rTo)}
        /\ UNCHANGED <<task, queue, from, to, rFrom, rTo, reread, reorg>>
    BY <1>12 DEF DeleteRange
  <2>2. /\ Cursor' = Cursor /\ InLoop' /\ ~Rereading /\ Rereading'
        /\ (Rewriting' <=> Rewriting)
    BY <2>1 DEF Cursor, InLoop, Rewriting, Rereading
  <2>3. \A b \in TransferBlocks : Lost(b) => Lost(b)'
    BY <2>1, <2>2 DEF Lost
  <2>4. ASSUME NEW b \in TransferBlocks, HasEvent(b)
        PROVE  HasEvent(b)' \/ Lost(b)'
    BY <2>1, <2>2, <2>4 DEF Lost, HasEvent
  <2>. QED  BY <1>K, <2>1, <2>3, <2>4
<1>13. CASE SoftDelete
  <2>1. /\ pc = "softDelete" /\ pc' = "fetch" /\ queue' = SoftDeleted(rFrom, rTo)
        /\ reread' = TRUE /\ reorg' = TRUE /\ UNCHANGED <<from, to, rFrom, rTo, task, events>>
    BY <1>13 DEF SoftDelete, CallRead
  <2>2. /\ DOMAIN queue' = DOMAIN queue
        /\ \A i \in DOMAIN queue : /\ queue'[i].from = queue[i].from
                                   /\ queue'[i].to = queue[i].to
                                   /\ queue[i].isDeleted => queue'[i].isDeleted
    BY <1>T, <1>N, <2>1, SoftDeletedDocs
  <2>3. /\ Cursor = to + 1 /\ Cursor' = to + 1 /\ InLoop' /\ Rereading'
        /\ (Rewriting' <=> Rewriting)
    BY <2>1 DEF Cursor, InLoop, Rereading, Rewriting
  <2>4. \A b \in TransferBlocks : Lost(b) => Lost(b)'
    BY <2>1, <2>3 DEF Lost
  <2>. QED  BY <1>C, <1>E, <1>F, <2>1, <2>2, <2>4 DEF RecordedRangesComplete, HasEvent
<1>14. ASSUME NEW t \in Tasks, StartTask(t) PROVE RecordedRangesComplete'
  BY <1>A, <1>14 DEF StartTask, InLoop, Rereading
(* a stop and a crash come when nothing is Lost                            *)
<1>15. CASE StopTask \/ Crash
  <2>1. UNCHANGED <<queue, events>> /\ (~InRecovery \/ pc \in {"head", "latest", "clean"})
    BY <1>15 DEF StopTask, Crash, Benign, Startup
  <2>2. InLoop /\ ~Rewriting =>
            \A i \in DOMAIN queue : queue[i].isDeleted \/ queue[i].to < Cursor
    <3>1. Cursor \in Nat
      BY <1>N DEF Cursor
    <3>. QED  BY <1>N, <2>1, <3>1 DEF InRecovery, InLoop
  <2>. QED  BY <1>A, <2>1, <2>2 DEF InRecovery, Rereading
<1>16. CASE Restart
  BY <1>A, <1>16 DEF Restart, InLoop, Rereading
<1>17. CASE Mine \/ (\E b \in Blocks : Reorg(b)) \/ UNCHANGED vars
  <2>1. UNCHANGED <<pc, task, queue, events, from, to, rFrom, rTo, reread, reorg>>
    BY <1>17 DEF Mine, Reorg, vars
  <2>. QED  BY <1>S, <2>1 DEF Rereading, InLoop, Rewriting, Cursor
<1>. QED  BY <1>1, <1>2, <1>3, <1>4, <1>5, <1>6, <1>7, <1>8, <1>9, <1>10, <1>11, <1>12, <1>13,
             <1>14, <1>15, <1>16, <1>17 DEF Next, ReaderStep

LEMMA DataInit == Init => DataInv
<1> SUFFICES ASSUME Init PROVE DataInv
  OBVIOUS
<1>1. DOMAIN queue = {}
  BY DEF Init
<1>2. KindInv /\ LogsInv /\ AbortInv
  BY DEF Init, KindInv, LogsInv, AbortInv, IsLive, NoTask
<1>. QED  BY <1>1, <1>2, RangesInit DEF DataInv, RecordedRangesComplete

LEMMA DataStep == Benign /\ DataInv /\ [Next]_vars => DataInv'
BY RangesStep, KindStep, LogsStep, AbortStep, CompleteStep DEF DataInv

(* blocks_queue tells the truth: with live and REINDEX tasks, whatever the *)
(* chain does, no transfer block of a live range is without its events,    *)
(* except for what the loop is storing again.                              *)
THEOREM RangesStayComplete == Benign => (Spec => []RecordedRangesComplete)
<1> SUFFICES ASSUME Benign PROVE Spec => []RecordedRangesComplete
  OBVIOUS
<1>1. DataInv => RecordedRangesComplete
  BY DEF DataInv
<1>. QED  BY <1>1, DataInit, DataStep, PTL DEF Spec

-----------------------------------------------------------------------------
(* HASHES VOUCH FOR EVENTS                                                 *)
(* HashVouchesForEvents for every chain, every processing limit and any    *)
(* number of crashes, stops and reorganisations of any depth.  It takes    *)
(* what RangesStayComplete takes (no block of a live range without events, *)
(* whatever fork they are of), and that the chain reorganises only while   *)
(* the reader waits for blocks, and that the first range of a task ends    *)
(* below the head: a restart then finds a document that it resumes above.  *)

Recoverable ==
    /\ Benign /\ ~ReorgAnytime
    /\ \A t \in Tasks : t.from + ProcessingLimit < InitialHead

(* A reorganisation makes hashes that no document has.  Only a live read   *)
(* records a hash, and it is that of the range's last block.               *)
HashInv ==
    /\ \A b \in Blocks : fork[b] <= reorgs
    /\ \A i \in DOMAIN queue : queue[i].toHash # NoHash => queue[i].toHash[2] <= reorgs
    /\ pc = "blocks" => toHash \in {NoHash, Hash(rTo)} /\ ("to" \notin awaiting => toHash = Hash(rTo))
    /\ pc = "record" => toHash = NoHash

(* As long as nothing is recorded the reader is at the first range of a    *)
(* task, has not waited for blocks yet, and the chain has not reorganised. *)
StartInv ==
    /\ pc \notin {"idle", "down"} \/ task.inProgress => task.from + ProcessingLimit < InitialHead
    /\ queue = <<>> => /\ reorgs = 0
                       /\ pc \in {"loop", "poll"} => from = task.from
                       /\ pc \notin {"clean", "wait", "emit", "delete", "softDelete"}
                       /\ InRead => rTo < InitialHead
    /\ pc \in {"loop", "poll", "wait"} /\ IsLive => to = 0 \/ (from = to + 1 /\ queue # <<>>)

(* Once something is recorded, the next restart finds a live document that *)
(* ends below the head; only a re-read takes the last one away, and then   *)
(* records it again.                                                       *)
Anchored == \E i \in DOMAIN queue : ~queue[i].isDeleted /\ queue[i].to < head

AnchorInv ==
    /\ queue # <<>> => Anchored \/ Rereading
    /\ pc \in {"delete", "softDelete"} \/ Rereading => rTo < head
    /\ pc = "latest" /\ queue # <<>> =>
          \E i \in DOMAIN queue : ~queue[i].isDeleted /\ queue[i].to < blockTo

(* An event of the chain as it is.                                         *)
Canonical(e) == e = Hash(e[1])

(* Above the cursor of a live loop there are no events, or the chain has   *)
(* never reorganised; what a live read is about to record holds events of  *)
(* the chain only.                                                         *)
CanonInv ==
    /\ \A e \in events : e[1] \in TransferBlocks /\ e[1] <= head
    /\ reorgs = 0 => \A e \in events : Canonical(e)
    /\ InLoop /\ ~Rewriting => (\A e \in events : e[1] < Cursor) \/ (reorgs = 0 /\ pc # "wait")
    /\ pc = "store" => logs = LogsOf(rFrom, rTo)
    /\ pc \in {"softDelete", "fetch", "store", "blocks"} /\ ~Rewriting =>
          \A e \in events : rFrom <= e[1] /\ e[1] <= rTo => Canonical(e)

(* No event of an abandoned fork under a hash that is current.             *)
Current(i) == ~queue[i].isDeleted /\ queue[i].toHash = Hash(queue[i].to)

NoStaleEvent ==
    \A i \in DOMAIN queue : Current(i) =>
        \A e \in events : queue[i].from <= e[1] /\ e[1] <= queue[i].to => Canonical(e)

ForkInv == HashInv /\ StartInv /\ AnchorInv /\ CanonInv /\ NoStaleEvent

-----------------------------------------------------------------------------
(* What the proofs below need of types.                                    *)
LEMMA ReaderNumbers ==
    ASSUME RangesInv
    PROVE  /\ from \in Nat /\ to \in Nat /\ rFrom \in Nat /\ rTo \in Nat /\ head \in Nat
           /\ \A e \in events \cup logs : e \in Blocks \X Nat /\ e[1] \in Nat
           /\ queue \in Seq(Doc)
           /\ \A i \in DOMAIN queue : queue[i].from \in Nat /\ queue[i].to \in Nat
           /\ \A b \in Blocks : b \in Nat
<1>1. TypeOK /\ \A b \in Blocks : b \in Nat
  BY DEF RangesInv, Blocks
<1>2. queue \in Seq(Doc) /\ \A i \in DOMAIN queue : queue[i] \in Doc
  BY <1>1 DEF TypeOK
<1>3. \A i \in DOMAIN queue : queue[i].from \in Nat /\ queue[i].to \in Nat
  BY <1>1, <1>2 DEF Doc
<1>4. \A e \in events \cup logs : e \in Blocks \X Nat /\ e[1] \in Nat
  BY <1>1 DEF TypeOK
<1>. QED  BY <1>1, <1>2, <1>3, <1>4 DEF TypeOK

(* What the chain says of mined blocks that no reorganisation has reached. *)
LEMMA SettledLogs ==
    ASSUME RangesInv, NEW f \in Nat, NEW t \in Nat, t <= head, head' \in Nat, head <= head',
           \A x \in Blocks : x <= t => fork'[x] = fork[x]
    PROVE  LogsOf(f, t)' = LogsOf(f, t)
<1>1. TransferBlocks \subseteq Blocks /\ head \in Nat /\ \A b \in Blocks : b \in Nat
  BY ConstantsAssumption, ReaderNumbers
<1>2. \A x \in TransferBlocks : x <= t => Hash(x)' = Hash(x) /\ x <= head /\ x <= head'
  BY <1>1 DEF Hash
<1>3. \A e : e \in LogsOf(f, t)' <=> e \in LogsOf(f, t)
  BY <1>2 DEF LogsOf
<1>. QED  BY <1>3

LEMMA LogsInRange ==
    ASSUME NEW f \in Nat, NEW t \in Nat, NEW e \in LogsOf(f, t)
    PROVE  f <= e[1] /\ e[1] <= t
  BY DEF LogsOf, Hash

LEMMA HashStep ==
    ASSUME ~ReorgAnytime, RangesInv, HashInv, [Next]_vars
    PROVE  HashInv'
<1> USE DEF chainVars, storeVars, loopVars, callVars, readVars, taskVars
<1>T. TypeOK /\ ReadInv /\ RangesMined /\ RestInv
  BY DEF RangesInv
<1>N. /\ reorgs \in Nat /\ fork \in [Blocks -> Nat] /\ head \in Nat /\ rTo \in Nat
      /\ queue \in Seq(Doc)
      /\ \A i \in DOMAIN queue : queue[i].to \in Nat
      /\ \A b \in Blocks : b \in Nat
  BY <1>T, ReaderNumbers DEF TypeOK
<1>H. /\ \A b \in Blocks : fork[b] <= reorgs
      /\ \A i \in DOMAIN queue : queue[i].toHash # NoHash => queue[i].toHash[2] <= reorgs
  BY DEF HashInv
<1>F. ASSUME UNCHANGED <<fork, reorgs, queue>>, pc' \notin {"blocks", "record"}
      PROVE  HashInv'
  BY <1>H, <1>F DEF HashInv
<1>U. ASSUME UNCHANGED <<fork, reorgs, queue, pc, rTo, toHash, awaiting>>
      PROVE  HashInv'
  BY <1>U DEF HashInv, Hash
<1>1. CASE PickTask \/ GetHead \/ GetLatest \/ Clean \/ LoopAborted \/ RangeStep \/ RangeFinish
            \/ LiveStep \/ PollNew \/ PollWait \/ WakeUp \/ FetchEvents \/ DeleteRange \/ EmitRange
            \/ Crash \/ Restart
  <2>1. UNCHANGED <<fork, reorgs, queue>>
    BY <1>1 DEF PickTask, GetHead, GetLatest, Clean, LoopAborted, RangeStep, RangeFinish, LiveStep,
       PollNew, PollWait, WakeUp, FetchEvents, DeleteRange, EmitRange, Crash, Restart
  <2>2. pc' \notin {"blocks", "record"}
    BY <1>1 DEF PickTask, GetHead, GetLatest, Clean, LoopAborted, RangeStep, RangeFinish, LiveStep,
       PollNew, PollWait, WakeUp, FetchEvents, DeleteRange, EmitRange, Crash, Restart, CallRead, Exit
  <2>. QED  BY <1>F, <2>1, <2>2
<1>2. CASE StoreEvents
  <2>1. CASE Exit
    BY <1>F, <1>2, <2>1 DEF StoreEvents, Exit
  <2>2. CASE AfterStore
    <3>1. /\ pc' = "record" \/ (pc' = "blocks" /\ awaiting' = {"from", "to"})
          /\ UNCHANGED <<fork, reorgs, queue>>
      BY <1>2, <2>2 DEF StoreEvents, AfterStore
    <3>2. toHash' = NoHash
      BY <2>2 DEF AfterStore
    <3>. QED  BY <1>H, <3>1, <3>2 DEF HashInv
  <2>. QED  BY <1>2, <2>1, <2>2 DEF StoreEvents
<1>3. CASE GetFromBlock \/ GetToBlock
  <2>1. /\ pc = "blocks" /\ pc' = "blocks" /\ UNCHANGED <<fork, reorgs, queue, rFrom, rTo>>
    BY <1>3 DEF GetFromBlock, GetToBlock
  <2>2. toHash \in {NoHash, Hash(rTo)} /\ ("to" \notin awaiting => toHash = Hash(rTo))
    BY <2>1 DEF HashInv
  <2>3. toHash' \in {NoHash, Hash(rTo)} /\ ("to" \notin awaiting' => toHash' = Hash(rTo))
    BY <1>3, <2>2 DEF GetFromBlock, GetToBlock
  <2>4. Hash(rTo)' = Hash(rTo)
    BY <2>1 DEF Hash
  <2>. QED  BY <1>H, <2>1, <2>3, <2>4 DEF HashInv
<1>4. CASE RecordRange
  <2> DEFINE doc == [from |-> rFrom, to |-> rTo, toHash |-> toHash, isDeleted |-> FALSE]
  <2>1. /\ pc' = "emit" /\ queue' = Append(queue, doc) /\ UNCHANGED <<fork, reorgs>>
        /\ pc = "record" \/ (pc = "blocks" /\ awaiting = {})
    BY <1>4 DEF RecordRange
  <2>2. doc.toHash = toHash /\ toHash \in {NoHash, Hash(rTo)} /\ rTo \in Blocks
    BY <2>1, ReadBlocks DEF HashInv, InRead
  <2>3. doc.toHash # NoHash => doc.toHash[2] <= reorgs
    BY <1>H, <2>2 DEF Hash
  <2> HIDE DEF doc
  <2>4. /\ DOMAIN queue' = 1..(Len(queue) + 1)
        /\ DOMAIN queue = 1..Len(queue) /\ Len(queue) \in Nat
        /\ \A i \in DOMAIN queue : queue'[i] = queue[i]
        /\ queue'[Len(queue) + 1] = doc
    BY <1>N, <2>1
  <2>5. \A i \in DOMAIN queue' : queue'[i].toHash # NoHash => queue'[i].toHash[2] <= reorgs
    BY <1>H, <2>3, <2>4
  <2>. QED  BY <1>H, <2>1, <2>5 DEF HashInv
<1>5. CASE SoftDelete
  <2>1. pc' = "fetch" /\ queue' = SoftDeleted(rFrom, rTo) /\ UNCHANGED <<fork, reorgs>>
    BY <1>5 DEF SoftDelete, CallRead
  <2>2. /\ DOMAIN queue' = DOMAIN queue
        /\ \A i \in DOMAIN queue : queue'[i].toHash = queue[i].toHash
    BY <1>T, ReaderNumbers, <2>1, SoftDeletedDocs
  <2>. QED  BY <1>H, <2>1, <2>2 DEF HashInv
<1>6. CASE Mine
  <2>1. /\ fork' = [fork EXCEPT ![head + 1] = reorgs]
        /\ UNCHANGED <<reorgs, queue, pc, rFrom, rTo, toHash, awaiting>>
    BY <1>6 DEF Mine
  <2>2. \A b \in Blocks : fork'[b] <= reorgs
    BY <1>N, <1>H, <2>1
  <2>3. ASSUME pc = "blocks" PROVE Hash(rTo)' = Hash(rTo)
    <3>1. rTo \in Blocks /\ rTo <= head
      BY <1>N, <1>T, <2>3, ReadBlocks, ReaderNumbers DEF ReadInv, InRead
    <3>. QED  BY <1>N, <2>1, <3>1 DEF Hash
  <2>. QED  BY <1>H, <2>1, <2>2, <2>3 DEF HashInv
<1>7. ASSUME NEW b \in Blocks, Reorg(b) PROVE HashInv'
  <2>1. /\ fork' = [x \in Blocks |-> IF b <= x /\ x <= head THEN reorgs + 1 ELSE fork[x]]
        /\ reorgs' = reorgs + 1 /\ UNCHANGED <<queue, pc>> /\ pc = "wait"
    BY <1>7 DEF Reorg
  <2>2. \A x \in Blocks : fork'[x] <= reorgs + 1
    BY <1>N, <1>H, <2>1
  <2>3. \A i \in DOMAIN queue : queue[i].toHash # NoHash => queue[i].toHash[2] <= reorgs + 1
    <3>1. \A i \in DOMAIN queue : queue[i] \in Doc
      BY <1>N
    <3>2. \A i \in DOMAIN queue : queue[i].toHash # NoHash => queue[i].toHash[2] \in Nat
      BY <3>1 DEF Doc
    <3>. QED  BY <1>N, <1>H, <3>2
  <2>. QED  BY <1>7, <2>1, <2>2, <2>3 DEF HashInv
<1>8. ASSUME NEW t \in Tasks, StartTask(t) PROVE HashInv'
  BY <1>U, <1>8 DEF StartTask
<1>9. CASE StopTask
  BY <1>F, <1>U, <1>9 DEF StopTask, Exit
<1>10. CASE UNCHANGED vars
  BY <1>U, <1>10 DEF vars
<1>. QED  BY <1>1, <1>2, <1>3, <1>4, <1>5, <1>6, <1>7, <1>8, <1>9, <1>10 DEF Next, ReaderStep

LEMMA StartStep ==
    Recoverable /\ RangesInv /\ KindInv /\ StartInv /\ [Next]_vars => StartInv'
<1> SUFFICES ASSUME Recoverable, RangesInv, KindInv, StartInv, [Next]_vars PROVE StartInv'
  OBVIOUS
<1>T. TypeOK /\ LoopInv /\ ReadInv /\ RestInv /\ InitialHead <= head
  BY DEF RangesInv
<1>N. /\ from \in Nat /\ to \in Nat /\ head \in Nat /\ InitialHead \in Nat
      /\ task.from \in Nat /\ ProcessingLimit \in Nat /\ queue \in Seq(Doc)
  BY <1>T, ReaderNumbers, ConstantsAssumption DEF TypeOK, TaskDoc, Blocks
<1>L. pc \notin {"idle", "down"} => task.from + ProcessingLimit < InitialHead
  BY DEF StartInv
<1>Q. queue = <<>> => /\ reorgs = 0
                      /\ pc \in {"loop", "poll"} => from = task.from
                      /\ pc \notin {"clean", "wait", "emit", "delete", "softDelete"}
                      /\ InRead => rTo < InitialHead
  BY DEF StartInv
<1>C. pc \in {"loop", "poll", "wait"} /\ IsLive => to = 0 \/ (from = to + 1 /\ queue # <<>>)
  BY DEF StartInv
<1> USE DEF chainVars, storeVars, loopVars, callVars, readVars, taskVars
(* a process that ends, and steps within a phase                           *)
<1>D. ASSUME UNCHANGED <<task, queue, reorgs>>, pc' \in {"idle", "down"}, pc \notin {"idle", "down"}
      PROVE  StartInv'
  BY <1>D DEF StartInv, InRead
<1>K. ASSUME UNCHANGED <<task, queue, reorgs, from, to, rTo>>,
             pc' = pc \/ (pc \in {"loop", "poll", "wait"} /\ pc' \in {"loop", "poll"})
                \/ (InRead /\ pc' \in {"store", "blocks", "record", "emit"})
                \/ (pc = "delete" /\ pc' = "softDelete"),
             pc' = "emit" => queue # <<>>
      PROVE  StartInv'
  BY <1>K DEF StartInv, InRead, IsLive
<1>1. CASE PickTask
  <2>1. /\ pc = "idle" /\ task.inProgress /\ from' = task.from /\ to' = 0
        /\ pc' \in {"head", "latest", "loop"} /\ UNCHANGED <<task, queue, reorgs>>
    BY <1>1 DEF PickTask
  <2>. QED  BY <2>1 DEF StartInv, InRead
<1>2. CASE GetHead
  <2>1. pc = "head" /\ pc' = "latest" /\ UNCHANGED <<task, queue, reorgs>>
    BY <1>2 DEF GetHead
  <2>. QED  BY <2>1 DEF StartInv, InRead
<1>3. CASE GetLatest
  <2>1. PICK i \in Latest(blockTo) : from' = Resume(i) /\ pc' = IF i = 0 THEN "loop" ELSE "clean"
    BY <1>3 DEF GetLatest
  <2>2. pc = "latest" /\ UNCHANGED <<task, queue, reorgs, to>> /\ to = 0
    BY <1>3, <1>T DEF GetLatest, LoopInv
  <2>3. CASE i = 0
    <3>1. from' = task.from /\ pc' = "loop"
      BY <2>1, <2>3 DEF Resume
    <3>. QED  BY <1>L, <2>2, <3>1 DEF StartInv, InRead
  <2>4. CASE i # 0
    <3>1. i \in DOMAIN queue /\ pc' = "clean"
      <4>1. blockTo \in Nat
        BY <1>T DEF TypeOK
      <4>. QED  BY <1>T, <2>1, <2>4, <4>1, LatestDoc
    <3>2. queue # <<>>
      BY <3>1
    <3>. QED  BY <1>L, <2>2, <3>1, <3>2 DEF StartInv, InRead
  <2>. QED  BY <2>3, <2>4
<1>4. CASE Clean
  <2>1. pc = "clean" /\ pc' = "loop" /\ UNCHANGED <<task, queue, reorgs, to>> /\ to = 0
    BY <1>4, <1>T DEF Clean, LoopInv
  <2>. QED  BY <1>L, <1>Q, <2>1 DEF StartInv, InRead
<1>5. CASE LoopAborted
  BY <1>D, <1>5 DEF LoopAborted
<1>6. CASE RangeStep \/ PollNew
  <2>1. PICK bound \in {blockTo, head} :
           /\ rTo' = RangeEnd(from, bound) /\ pc' = "fetch" /\ pc \in {"loop", "poll"}
           /\ UNCHANGED <<task, queue, reorgs, from>>
    BY <1>6 DEF RangeStep, PollNew, CallRead
  <2>2. blockTo \in Nat /\ bound \in Nat
    BY <1>T, <1>N DEF TypeOK
  <2>3. rTo' <= from + ProcessingLimit
    BY <1>N, <2>1, <2>2 DEF RangeEnd
  <2>4. queue = <<>> => rTo' < InitialHead
    <3>1. ASSUME queue = <<>> PROVE rTo' < InitialHead
      <4>1. from = task.from /\ task.from + ProcessingLimit < InitialHead
        BY <1>L, <1>Q, <2>1, <3>1
      <4>2. rTo' \in Nat
        BY <1>N, <2>1, <2>2 DEF RangeEnd
      <4>. QED  BY <1>N, <2>3, <4>1, <4>2
    <3>. QED  BY <3>1
  <2>. QED  BY <1>L, <1>Q, <2>1, <2>4 DEF StartInv, InRead
<1>7. CASE RangeFinish
  <2>1. /\ pc = "loop" /\ pc' = "idle" /\ ~task'.inProgress /\ UNCHANGED <<queue, reorgs>>
    BY <1>7, <1>T DEF RangeFinish, TypeOK, TaskDoc
  <2>. QED  BY <1>Q, <2>1 DEF StartInv, InRead
<1>8. CASE LiveStep \/ WakeUp
  BY <1>K, <1>8 DEF LiveStep, WakeUp
<1>9. CASE PollWait
  <2>1. CASE aborted
    BY <1>D, <1>9, <2>1 DEF PollWait, Exit
  <2>2. CASE ~aborted
    <3>1. /\ pc = "poll" /\ pc' = "wait" /\ to = head /\ UNCHANGED <<task, queue, reorgs, from, to>>
      BY <1>9, <2>2 DEF PollWait
    <3>2. IsLive /\ to # 0
      BY <1>T, <1>N, <1>L, <3>1 DEF LoopInv
    <3>3. from = to + 1 /\ queue # <<>>
      BY <1>C, <3>1, <3>2
    <3>. QED  BY <1>L, <3>1, <3>3 DEF StartInv, InRead
  <2>. QED  BY <2>1, <2>2
<1>10. CASE FetchEvents \/ GetFromBlock \/ GetToBlock \/ DeleteRange
  BY <1>K, <1>10 DEF FetchEvents, GetFromBlock, GetToBlock, DeleteRange, InRead
<1>11. CASE StoreEvents
  <2>1. pc = "store" /\ UNCHANGED <<task, queue, reorgs>>
    BY <1>11 DEF StoreEvents
  <2>2. CASE Exit
    BY <1>D, <2>1, <2>2 DEF Exit
  <2>3. CASE AfterStore
    <3>1. pc' \in {"blocks", "record"} /\ UNCHANGED <<from, to, rTo>>
      BY <2>3 DEF AfterStore
    <3>. QED  BY <1>K, <2>1, <3>1 DEF InRead
  <2>. QED  BY <1>11, <2>2, <2>3 DEF StoreEvents
<1>12. CASE RecordRange
  <2>1. /\ pc \in {"record", "blocks"} /\ pc' = "emit" /\ queue' # <<>> /\ UNCHANGED task
    BY <1>12, <1>N DEF RecordRange
  <2>. QED  BY <1>L, <2>1 DEF StartInv, InRead
<1>13. CASE EmitRange
  <2>1. pc = "emit" /\ UNCHANGED <<task, queue, to>>
    BY <1>13 DEF EmitRange
  <2>2. pc' = "delete" \/ (pc' = "loop" /\ from' = to + 1)
    <3>1. CASE ReorgDetected
      BY <1>13, <3>1 DEF EmitRange
    <3>2. CASE ~ReorgDetected
      BY <1>13, <3>2 DEF EmitRange
    <3>. QED  BY <3>1, <3>2
  <2>. QED  BY <1>L, <1>Q, <2>1, <2>2 DEF StartInv, InRead
<1>14. CASE SoftDelete
  <2>1. /\ pc = "softDelete" /\ pc' = "fetch" /\ queue' = SoftDeleted(rFrom, rTo) /\ UNCHANGED task
    BY <1>14 DEF SoftDelete, CallRead
  <2>2. DOMAIN queue' = DOMAIN queue /\ queue # <<>> /\ DOMAIN queue # {}
    BY <1>Q, <1>N, <2>1 DEF SoftDeleted
  <2>3. queue' # <<>>
    BY <2>2
  <2>. QED  BY <1>L, <2>1, <2>3 DEF StartInv, InRead
<1>15. ASSUME NEW t \in Tasks, StartTask(t) PROVE StartInv'
  <2>1. pc = "idle" /\ pc' = "idle" /\ task'.from = t.from /\ UNCHANGED <<queue, reorgs>>
    BY <1>15 DEF StartTask
  <2>. QED  BY <1>Q, <2>1 DEF StartInv, InRead, Recoverable
<1>16. CASE StopTask
  <2>1. CASE pc = "wait"
    BY <1>D, <1>16, <2>1 DEF StopTask, Exit
  <2>2. CASE pc # "wait"
    <3>1. /\ task' = [task EXCEPT !.inProgress = FALSE]
          /\ UNCHANGED <<queue, reorgs, from, to, rTo, pc>>
      BY <1>16, <2>2 DEF StopTask
    <3>2. ~task'.inProgress /\ task'.from = task.from /\ task'.to = task.to
      BY <1>T, <3>1 DEF TypeOK, TaskDoc
    <3>. QED  BY <1>L, <1>Q, <1>C, <3>1, <3>2 DEF StartInv, InRead, IsLive
  <2>. QED  BY <2>1, <2>2
<1>17. CASE Crash
  <2>1. pc' = "down" /\ UNCHANGED <<task, queue, reorgs>>
    BY <1>17 DEF Crash, Exit
  <2>. QED  BY <2>1 DEF StartInv, InRead
<1>18. CASE Restart
  <2>1. pc = "down" /\ pc' = "idle" /\ UNCHANGED <<task, queue, reorgs>>
    BY <1>18 DEF Restart
  <2>. QED  BY <2>1 DEF StartInv, InRead
<1>19. CASE Mine \/ UNCHANGED vars
  BY <1>K, <1>19 DEF Mine, vars, StartInv
<1>20. ASSUME NEW b \in Blocks, Reorg(b) PROVE StartInv'
  <2>1. pc = "wait" /\ UNCHANGED <<task, queue, from, to, pc>> /\ queue # <<>>
    BY <1>20, <1>Q DEF Reorg, Recoverable
  <2>. QED  BY <1>L, <1>C, <2>1 DEF StartInv, InRead, IsLive
<1>. QED  BY <1>1, <1>2, <1>3, <1>4, <1>5, <1>6, <1>7, <1>8, <1>9, <1>10, <1>11, <1>12, <1>13,
             <1>14, <1>15, <1>16, <1>17, <1>18, <1>19, <1>20 DEF Next, ReaderStep

LEMMA AnchorStep ==
    Recoverable /\ RangesInv /\ KindInv /\ StartInv /\ AnchorInv /\ [Next]_vars => AnchorInv'
<1> SUFFICES ASSUME Recoverable, RangesInv, KindInv, StartInv, AnchorInv, [Next]_vars
             PROVE  AnchorInv'
  OBVIOUS
<1>T. TypeOK /\ LoopInv /\ ReadInv /\ RestInv /\ InitialHead <= head
  BY DEF RangesInv
<1>N. /\ from \in Nat /\ to \in Nat /\ rFrom \in Nat /\ rTo \in Nat /\ head \in Nat
      /\ InitialHead \in Nat /\ queue \in Seq(Doc)
      /\ \A i \in DOMAIN queue : queue[i].to \in Nat
  BY <1>T, ReaderNumbers, ConstantsAssumption DEF TypeOK, Blocks
<1>A. queue # <<>> => Anchored \/ Rereading
  BY DEF AnchorInv
<1>D. pc \in {"delete", "softDelete"} \/ Rereading => rTo < head
  BY DEF AnchorInv
<1>L. pc = "latest" /\ queue # <<>> => \E i \in DOMAIN queue : ~queue[i].isDeleted /\ queue[i].to < blockTo
  BY DEF AnchorInv
<1> USE DEF chainVars, storeVars, loopVars, callVars, readVars, taskVars
(* a step outside a re-read, one to its next await, one that keeps its     *)
(* place                                                                   *)
<1>F. ASSUME UNCHANGED <<head, queue>>, ~Rereading, ~Rereading',
             pc' \notin {"latest", "delete", "softDelete"}
      PROVE  AnchorInv'
  BY <1>A, <1>F DEF AnchorInv, Anchored
<1>G. ASSUME UNCHANGED <<head, queue, rTo, reread, reorg>>, pc \in {"fetch", "store", "blocks", "delete"},
             pc' \in {"store", "blocks", "record", "softDelete"},
             pc = "delete" <=> pc' = "softDelete", pc' = "record" => ~reorg
      PROVE  AnchorInv'
  BY <1>A, <1>D, <1>G DEF AnchorInv, Anchored, Rereading
<1>U. ASSUME UNCHANGED <<queue, pc, rTo, reread, reorg, blockTo>>, head' \in Nat, head <= head'
      PROVE  AnchorInv'
  BY <1>A, <1>D, <1>L, <1>N, <1>U DEF AnchorInv, Anchored, Rereading
<1>1. CASE PickTask
  <2>1. /\ pc = "idle" /\ pc' \in {"head", "loop"} /\ UNCHANGED <<head, queue, reread, reorg>>
    BY <1>1 DEF PickTask, KindInv
  <2>. QED  BY <1>F, <2>1 DEF Rereading
<1>2. CASE GetHead
  <2>1. pc = "head" /\ pc' = "latest" /\ blockTo' = head /\ UNCHANGED <<head, queue>>
    BY <1>2 DEF GetHead
  <2>2. ~Rereading /\ ~Rereading'
    BY <2>1 DEF Rereading
  <2>. QED  BY <1>A, <2>1, <2>2 DEF AnchorInv, Anchored
<1>3. CASE GetLatest \/ Clean \/ LoopAborted \/ RangeFinish \/ LiveStep \/ WakeUp
  BY <1>F, <1>3 DEF GetLatest, Clean, LoopAborted, RangeFinish, LiveStep, WakeUp, Rereading
<1>4. CASE RangeStep \/ PollNew
  <2>1. pc \in {"loop", "poll"} /\ pc' = "fetch" /\ ~(reread' /\ reorg') /\ UNCHANGED <<head, queue>>
    BY <1>4 DEF RangeStep, PollNew, CallRead
  <2>. QED  BY <1>F, <2>1 DEF Rereading
<1>5. CASE PollWait
  <2>1. pc = "poll" /\ pc' \in {"wait", "down"} /\ UNCHANGED <<head, queue>>
    BY <1>5 DEF PollWait, Exit
  <2>. QED  BY <1>F, <2>1 DEF Rereading
<1>6. CASE FetchEvents \/ DeleteRange
  BY <1>G, <1>6 DEF FetchEvents, DeleteRange
<1>7. CASE GetFromBlock \/ GetToBlock
  BY <1>G, <1>7 DEF GetFromBlock, GetToBlock
<1>8. CASE StoreEvents
  <2>1. pc = "store" /\ UNCHANGED <<head, queue>>
    BY <1>8 DEF StoreEvents
  <2>2. CASE reread \/ logs \cap events = {}
    <3>1. AfterStore
      BY <1>8, <2>2 DEF StoreEvents
    <3>. QED  BY <1>G, <2>1, <3>1 DEF AfterStore
  <2>3. CASE ~(reread \/ logs \cap events = {})
    <3>1. pc' = "down" /\ ~Rereading
      BY <1>8, <2>1, <2>3 DEF StoreEvents, Exit, Rereading
    <3>. QED  BY <1>F, <2>1, <3>1 DEF Rereading
  <2>. QED  BY <2>2, <2>3
<1>9. CASE RecordRange
  <2> DEFINE doc == [from |-> rFrom, to |-> rTo, toHash |-> toHash, isDeleted |-> FALSE]
  <2>1. /\ pc \in {"record", "blocks"} /\ pc' = "emit" /\ queue' = Append(queue, doc)
        /\ UNCHANGED head
    BY <1>9 DEF RecordRange
  <2>2. doc.to = rTo /\ ~doc.isDeleted
    OBVIOUS
  <2> HIDE DEF doc
  <2>3. /\ DOMAIN queue' = 1..(Len(queue) + 1)
        /\ DOMAIN queue = 1..Len(queue) /\ Len(queue) \in Nat
        /\ \A i \in DOMAIN queue : queue'[i] = queue[i]
        /\ queue'[Len(queue) + 1] = doc
    BY <1>N, <2>1
  <2>4. Anchored \/ rTo < head
    <3>1. queue = <<>> => rTo < InitialHead
      BY <2>1 DEF StartInv, InRead
    <3>. QED  BY <1>A, <1>D, <1>T, <1>N, <3>1
  <2>5. Anchored'
    <3>1. CASE rTo < head
      <4>1. Len(queue) + 1 \in DOMAIN queue'
        BY <2>3
      <4>. QED  BY <2>1, <2>2, <2>3, <3>1, <4>1 DEF Anchored
    <3>2. CASE Anchored
      BY <2>1, <2>3, <3>2 DEF Anchored
    <3>. QED  BY <2>4, <3>1, <3>2
  <2>6. ~Rereading'
    BY <2>1 DEF Rereading
  <2>. QED  BY <2>1, <2>5, <2>6 DEF AnchorInv
<1>10. CASE EmitRange
  <2>1. pc = "emit" /\ UNCHANGED <<head, queue>> /\ ~Rereading
    BY <1>10 DEF EmitRange, Rereading
  <2>2. CASE ReorgDetected
    <3>1. pc' = "delete" /\ rTo' = queue[latest].to /\ ~Rereading'
      BY <1>10, <2>2 DEF EmitRange, Rereading
    <3>2. latest \in DOMAIN queue /\ queue[latest].to < rFrom /\ rFrom <= rTo /\ rTo <= to /\ to <= head
      BY <1>T, <2>1, <2>2 DEF ReorgDetected, TypeOK, ReadInv, InRead
    <3>3. rTo' < head
      BY <1>N, <3>1, <3>2
    <3>. QED  BY <1>A, <2>1, <3>1, <3>3 DEF AnchorInv, Anchored
  <2>3. CASE ~ReorgDetected
    <3>1. pc' = "loop" /\ ~Rereading'
      BY <1>10, <2>3 DEF EmitRange, Rereading
    <3>. QED  BY <1>F, <2>1, <3>1
  <2>. QED  BY <2>2, <2>3
<1>11. CASE SoftDelete
  <2>1. /\ pc = "softDelete" /\ pc' = "fetch" /\ reread' = TRUE /\ reorg' = TRUE
        /\ UNCHANGED <<head, rTo>>
    BY <1>11 DEF SoftDelete, CallRead
  <2>2. Rereading' /\ rTo' < head'
    BY <1>D, <2>1 DEF Rereading
  <2>. QED  BY <2>1, <2>2 DEF AnchorInv
<1>12. ASSUME NEW t \in Tasks, StartTask(t) PROVE AnchorInv'
  BY <1>U, <1>N, <1>12 DEF StartTask
<1>13. CASE StopTask
  <2>1. CASE pc = "wait"
    BY <1>F, <1>13, <2>1 DEF StopTask, Exit, Rereading
  <2>2. CASE pc # "wait"
    BY <1>U, <1>N, <1>13, <2>2 DEF StopTask
  <2>. QED  BY <2>1, <2>2
<1>14. CASE Crash
  <2>1. ~Rereading /\ pc' = "down" /\ UNCHANGED <<head, queue>>
    BY <1>14 DEF Crash, Exit, Recoverable, Benign, InRecovery
  <2>. QED  BY <1>F, <2>1 DEF Rereading
<1>15. CASE Restart
  BY <1>F, <1>15 DEF Restart, Rereading
<1>16. CASE Mine \/ (\E b \in Blocks : Reorg(b)) \/ UNCHANGED vars
  <2>1. UNCHANGED <<queue, pc, rTo, reread, reorg, blockTo>> /\ head' \in Nat /\ head <= head'
    BY <1>16, <1>N DEF Mine, Reorg, vars
  <2>. QED  BY <1>U, <2>1
<1>. QED  BY <1>1, <1>2, <1>3, <1>4, <1>5, <1>6, <1>7, <1>8, <1>9, <1>10, <1>11, <1>12, <1>13,
             <1>14, <1>15, <1>16 DEF Next, ReaderStep

LEMMA CanonStep ==
    Recoverable /\ RangesInv /\ KindInv /\ StartInv /\ AnchorInv /\ CanonInv /\ [Next]_vars
        => CanonInv'
<1> SUFFICES ASSUME Recoverable, RangesInv, KindInv, StartInv, AnchorInv, CanonInv, [Next]_vars
             PROVE  CanonInv'
  OBVIOUS
<1>T. TypeOK /\ LoopInv /\ ReadInv /\ RestInv
  BY DEF RangesInv
<1>N. /\ from \in Nat /\ to \in Nat /\ rFrom \in Nat /\ rTo \in Nat /\ head \in Nat
      /\ queue \in Seq(Doc) /\ reorgs \in Nat /\ fork \in [Blocks -> Nat]
      /\ \A e \in events \cup logs : e \in Blocks \X Nat /\ e[1] \in Nat
  BY <1>T, ReaderNumbers DEF TypeOK
<1>1E. \A e \in events : e[1] \in TransferBlocks /\ e[1] <= head
  BY DEF CanonInv
<1>2E. reorgs = 0 => \A e \in events : Canonical(e)
  BY DEF CanonInv
<1>3E. InLoop /\ ~Rewriting => (\A e \in events : e[1] < Cursor) \/ (reorgs = 0 /\ pc # "wait")
  BY DEF CanonInv
<1>4E. pc = "store" => logs = LogsOf(rFrom, rTo)
  BY DEF CanonInv
<1>5E. pc \in {"softDelete", "fetch", "store", "blocks"} /\ ~Rewriting =>
          \A e \in events : rFrom <= e[1] /\ e[1] <= rTo => Canonical(e)
  BY DEF CanonInv
<1> USE DEF chainVars, storeVars, loopVars, callVars, readVars, taskVars
(* steps that leave the chain alone and add no event                       *)
<1>C. ASSUME UNCHANGED <<head, fork, reorgs>>, events' \subseteq events,
             InLoop' /\ ~Rewriting' =>
                (\A e \in events' : e[1] < Cursor') \/ (reorgs = 0 /\ pc' # "wait"),
             pc' = "store" => logs' = LogsOf(rFrom, rTo)',
             pc' \in {"softDelete", "fetch", "store", "blocks"} /\ ~Rewriting' =>
                \A e \in events' : rFrom' <= e[1] /\ e[1] <= rTo' => Canonical(e)
      PROVE  CanonInv'
  <2>1. \A e : Canonical(e)' <=> Canonical(e)
    BY <1>C DEF Canonical, Hash
  <2>. QED  BY <1>1E, <1>2E, <1>C, <2>1 DEF CanonInv
<1>O. ASSUME UNCHANGED <<head, fork, reorgs, events>>, ~InLoop' \/ Rewriting', pc' # "store"
      PROVE  CanonInv'
  BY <1>C, <1>O DEF InLoop
<1>K. ASSUME UNCHANGED <<head, fork, reorgs, events>>, Rewriting' <=> Rewriting, InLoop,
             Cursor' = Cursor, pc' \notin {"wait", "softDelete", "fetch", "store", "blocks"}
      PROVE  CanonInv'
  BY <1>3E, <1>C, <1>K
<1>1. CASE PickTask
  <2>1. /\ UNCHANGED <<head, fork, reorgs, events, task>> /\ pc' \in {"head", "latest", "loop"}
        /\ pc' = "loop" => Rewriting
    BY <1>1 DEF PickTask
  <2>. QED  BY <1>O, <2>1 DEF InLoop, Rewriting
<1>2. CASE GetHead
  BY <1>O, <1>2 DEF GetHead, InLoop
<1>3. CASE GetLatest
  <2>1. PICK i \in Latest(blockTo) : from' = Resume(i) /\ pc' = IF i = 0 THEN "loop" ELSE "clean"
    BY <1>3 DEF GetLatest
  <2>2. pc = "latest" /\ UNCHANGED <<head, fork, reorgs, events>>
    BY <1>3 DEF GetLatest
  <2>3. CASE i = 0
    <3>1. Below(blockTo) = {}
      <4>1. 0 \notin DOMAIN queue
        BY <1>N
      <4>. QED  BY <2>1, <2>3, <4>1 DEF Latest, Below
    <3>2. queue = <<>>
      BY <2>2, <3>1 DEF AnchorInv, Below
    <3>3. reorgs = 0 /\ pc' = "loop"
      BY <2>1, <2>3, <3>2 DEF StartInv
    <3>. QED  BY <1>C, <2>2, <3>3
  <2>4. CASE i # 0
    BY <1>O, <2>1, <2>2, <2>4 DEF InLoop
  <2>. QED  BY <2>3, <2>4
<1>4. CASE Clean
  <2>1. /\ pc = "clean" /\ pc' = "loop" /\ events' = {e \in events : e[1] < from}
        /\ UNCHANGED <<head, fork, reorgs, from, reread, reorg>>
    BY <1>4 DEF Clean
  <2>2. Cursor' = from
    BY <1>T, <2>1 DEF RestInv, InRead, Cursor
  <2>. QED  BY <1>C, <2>1, <2>2
<1>5. CASE LoopAborted \/ RangeFinish
  BY <1>O, <1>5 DEF LoopAborted, RangeFinish, InLoop
<1>6. CASE LiveStep \/ WakeUp
  <2>1. /\ pc \in {"loop", "wait"} /\ pc' \in {"loop", "poll"}
        /\ UNCHANGED <<head, fork, reorgs, events, task, from, to, reread, reorg>>
    BY <1>6 DEF LiveStep, WakeUp
  <2>2. Cursor' = Cursor /\ InLoop /\ (Rewriting' <=> Rewriting)
    BY <2>1 DEF Cursor, InLoop, Rewriting
  <2>. QED  BY <1>K, <2>1, <2>2
<1>7. CASE RangeStep
  <2>1. Rewriting /\ Rewriting' /\ pc' = "fetch" /\ UNCHANGED <<head, fork, reorgs, events>>
    BY <1>7 DEF RangeStep, KindInv, CallRead, Rewriting
  <2>. QED  BY <1>O, <2>1
<1>8. CASE PollNew
  <2>1. /\ pc = "poll" /\ pc' = "fetch" /\ rFrom' = from /\ reread' = FALSE /\ from' = from
        /\ UNCHANGED <<head, fork, reorgs, events, task>>
    BY <1>8 DEF PollNew, CallRead
  <2>2. ~reread /\ ~Rewriting
    BY <1>T, <2>1 DEF RestInv, InRead, LoopInv, IsLive, Rewriting
  <2>3. Cursor = from /\ Cursor' = from /\ InLoop
    BY <2>1, <2>2 DEF Cursor, InLoop
  <2>4. (\A e \in events : e[1] < from) \/ reorgs = 0
    BY <1>3E, <2>2, <2>3
  <2>5. \A e \in events : from <= e[1] => Canonical(e)
    BY <1>N, <1>2E, <2>4
  <2>. QED  BY <1>C, <2>1, <2>3, <2>4, <2>5
<1>9. CASE PollWait
  <2>1. pc = "poll" /\ UNCHANGED <<head, fork, reorgs, events, task>>
    BY <1>9 DEF PollWait
  <2>2. CASE aborted
    BY <1>O, <1>9, <2>1, <2>2 DEF PollWait, Exit, InLoop
  <2>3. CASE ~aborted
    <3>1. pc' = "wait" /\ to = head /\ UNCHANGED <<from, to, reread, reorg>>
      BY <1>9, <2>3 DEF PollWait
    <3>2. IsLive /\ ~reread
      BY <1>T, <2>1 DEF LoopInv, RestInv, InRead
    <3>3. to # 0
      <4>1. pc \notin {"idle", "down"} => task.from + ProcessingLimit < InitialHead
        BY DEF StartInv
      <4>2. task.from \in Nat /\ ProcessingLimit \in Nat /\ InitialHead \in Nat /\ InitialHead <= head
        BY <1>T, ConstantsAssumption DEF RangesInv, TypeOK, TaskDoc, Blocks
      <4>. QED  BY <1>N, <2>1, <3>1, <4>1, <4>2
    <3>4. from = head + 1 /\ Cursor' = from
      BY <2>1, <3>1, <3>2, <3>3 DEF StartInv, Cursor
    <3>5. \A e \in events : e[1] < head + 1
      BY <1>N, <1>1E
    <3>. QED  BY <1>C, <2>1, <3>1, <3>4, <3>5
  <2>. QED  BY <2>2, <2>3
<1>10. CASE FetchEvents
  <2>1. /\ pc = "fetch" /\ pc' = "store" /\ logs' = LogsOf(rFrom, rTo)
        /\ UNCHANGED <<head, fork, reorgs, events, task, rFrom, rTo, from, to, reread, reorg>>
    BY <1>10 DEF FetchEvents
  <2>2. Cursor' = Cursor /\ InLoop /\ (Rewriting' <=> Rewriting)
        /\ LogsOf(rFrom, rTo)' = LogsOf(rFrom, rTo)
    BY <2>1 DEF Cursor, InLoop, Rewriting, LogsOf, Hash
  <2>3. \A e \in events : ~Rewriting /\ rFrom <= e[1] /\ e[1] <= rTo => Canonical(e)
    BY <1>5E, <2>1
  <2>. QED  BY <1>3E, <1>C, <2>1, <2>2, <2>3
<1>11. CASE StoreEvents
  <2>1. /\ pc = "store" /\ logs = LogsOf(rFrom, rTo) /\ UNCHANGED <<head, fork, reorgs, task>>
        /\ events' \subseteq events \cup logs
    BY <1>11, <1>4E DEF StoreEvents
  <2>2. \A e \in logs : Canonical(e) /\ e[1] \in TransferBlocks /\ e[1] <= rTo /\ e[1] <= head
    BY <1>T, <1>N, <2>1, LogsMember DEF Canonical
  <2>3. \A e : Canonical(e)' <=> Canonical(e)
    BY <2>1 DEF Canonical, Hash
  <2>4. /\ \A e \in events' : e[1] \in TransferBlocks /\ e[1] <= head
        /\ reorgs = 0 => \A e \in events' : Canonical(e)
    BY <1>1E, <1>2E, <2>1, <2>2
  <2>5. CASE Exit
    BY <2>1, <2>3, <2>4, <2>5 DEF Exit, CanonInv, InLoop
  <2>6. CASE AfterStore
    <3>1. pc' \in {"blocks", "record"} /\ UNCHANGED <<from, to, rFrom, rTo, reread, reorg>>
      BY <2>6 DEF AfterStore
    <3>2. Cursor' = to + 1 /\ InLoop /\ (Rewriting' <=> Rewriting)
      BY <2>1, <3>1 DEF Cursor, InLoop, Rewriting
    <3>3. rTo <= to /\ Cursor <= to + 1 /\ Cursor \in Nat
      <4>1. rFrom <= rTo /\ rTo <= to /\ (~(reread /\ reorg) => rFrom = from)
        BY <1>T, <2>1 DEF ReadInv, InRead, Cascade
      <4>. QED  BY <1>N, <2>1, <4>1 DEF Cursor
    <3>4. ~Rewriting => (\A e \in events' : e[1] < to + 1) \/ reorgs = 0
      <4>1. ASSUME ~Rewriting, reorgs # 0, NEW e \in events' PROVE e[1] < to + 1
        <5>1. CASE e \in events
          BY <1>3E, <1>N, <3>2, <3>3, <4>1, <5>1
        <5>2. CASE e \in logs
          BY <1>N, <2>2, <3>3, <5>2
        <5>. QED  BY <2>1, <4>1, <5>1, <5>2
      <4>. QED  BY <4>1
    <3>5. ~Rewriting => \A e \in events' : rFrom <= e[1] /\ e[1] <= rTo => Canonical(e)
      BY <1>5E, <2>1, <2>2
    <3>. QED  BY <2>1, <2>3, <2>4, <3>1, <3>2, <3>4, <3>5 DEF CanonInv
  <2>. QED  BY <1>11, <2>5, <2>6 DEF StoreEvents
<1>12. CASE GetFromBlock \/ GetToBlock
  <2>1. /\ pc = "blocks" /\ pc' = "blocks"
        /\ UNCHANGED <<head, fork, reorgs, events, task, rFrom, rTo, from, to, reread, reorg>>
    BY <1>12 DEF GetFromBlock, GetToBlock
  <2>2. Cursor' = Cursor /\ InLoop /\ (Rewriting' <=> Rewriting)
    BY <2>1 DEF Cursor, InLoop, Rewriting
  <2>. QED  BY <1>3E, <1>5E, <1>C, <2>1, <2>2
<1>13. CASE RecordRange
  <2>1. /\ pc \in {"record", "blocks"} /\ pc' = "emit"
        /\ UNCHANGED <<head, fork, reorgs, events, task, to>>
    BY <1>13 DEF RecordRange
  <2>2. Cursor' = Cursor /\ InLoop /\ (Rewriting' <=> Rewriting)
    BY <2>1 DEF Cursor, InLoop, Rewriting
  <2>. QED  BY <1>K, <2>1, <2>2
<1>14. CASE EmitRange
  <2>1. pc = "emit" /\ UNCHANGED <<head, fork, reorgs, events, task, to>>
    BY <1>14 DEF EmitRange
  <2>2. pc' = "delete" \/ (pc' = "loop" /\ from' = to + 1 /\ reread' = FALSE)
    <3>1. CASE ReorgDetected
      BY <1>14, <3>1 DEF EmitRange
    <3>2. CASE ~ReorgDetected
      BY <1>14, <3>2 DEF EmitRange
    <3>. QED  BY <3>1, <3>2
  <2>3. Cursor' = Cursor /\ InLoop /\ (Rewriting' <=> Rewriting)
    BY <2>1, <2>2 DEF Cursor, InLoop, Rewriting
  <2>. QED  BY <1>K, <2>1, <2>2, <2>3
<1>15. CASE DeleteRange
  <2>1. /\ pc = "delete" /\ pc' = "softDelete"
        /\ events' = {e \in events : ~(rFrom <= e[1] /\ e[1] <= rTo)}
        /\ UNCHANGED <<head, fork, reorgs, task, to, rFrom, rTo>>
    BY <1>15 DEF DeleteRange
  <2>2. Cursor' = Cursor /\ InLoop /\ (Rewriting' <=> Rewriting)
    BY <2>1 DEF Cursor, InLoop, Rewriting
  <2>. QED  BY <1>3E, <1>C, <2>1, <2>2
<1>16. CASE SoftDelete
  <2>1. /\ pc = "softDelete" /\ pc' = "fetch" /\ reread' = TRUE /\ reorg' = TRUE
        /\ UNCHANGED <<head, fork, reorgs, events, task, to, rFrom, rTo>>
    BY <1>16 DEF SoftDelete, CallRead
  <2>2. Cursor' = Cursor /\ InLoop /\ (Rewriting' <=> Rewriting)
    BY <2>1 DEF Cursor, InLoop, Rewriting
  <2>. QED  BY <1>3E, <1>5E, <1>C, <2>1, <2>2
<1>17. ASSUME NEW t \in Tasks, StartTask(t) PROVE CanonInv'
  BY <1>O, <1>17 DEF StartTask, InLoop
<1>18. CASE StopTask
  <2>1. CASE pc = "wait"
    BY <1>O, <1>18, <2>1 DEF StopTask, Exit, InLoop
  <2>2. CASE pc # "wait"
    <3>1. /\ task' = [task EXCEPT !.inProgress = FALSE]
          /\ UNCHANGED <<head, fork, reorgs, events, logs, rFrom, rTo, from, to, reread, reorg, pc>>
      BY <1>18, <2>2 DEF StopTask
    <3>2. (Rewriting' <=> Rewriting) /\ Cursor' = Cursor /\ (InLoop' <=> InLoop)
          /\ LogsOf(rFrom, rTo)' = LogsOf(rFrom, rTo)
      BY <1>T, <3>1 DEF TypeOK, TaskDoc, Rewriting, Cursor, InLoop, LogsOf, Hash
    <3>. QED  BY <1>3E, <1>4E, <1>5E, <1>C, <3>1, <3>2
  <2>. QED  BY <2>1, <2>2
<1>19. CASE Crash \/ Restart
  BY <1>O, <1>19 DEF Crash, Exit, Restart, InLoop
<1>20. CASE Mine
  <2>1. /\ head' = head + 1 /\ fork' = [fork EXCEPT ![head + 1] = reorgs]
        /\ UNCHANGED <<reorgs, events, logs, task, rFrom, rTo, from, to, reread, reorg, pc>>
    BY <1>20 DEF Mine
  <2>2. \A x \in Blocks : x <= head => fork'[x] = fork[x] /\ x <= head'
    BY <1>N, <2>1, ReaderNumbers
  <2>3. \A e \in events : Canonical(e) => Canonical(e)'
    <3>1. \A e \in events : e[1] \in Blocks /\ e[1] <= head
      BY <1>1E, ConstantsAssumption
    <3>. QED  BY <2>2, <3>1 DEF Canonical, Hash
  <2>4. pc = "store" => LogsOf(rFrom, rTo)' = LogsOf(rFrom, rTo)
    <3>1. ASSUME pc = "store" PROVE LogsOf(rFrom, rTo)' = LogsOf(rFrom, rTo)
      <4>1. rTo <= head
        BY <1>N, <1>T, <3>1 DEF ReadInv, InRead
      <4>2. PICK f \in Nat, t \in Nat : f = rFrom /\ t = rTo
        BY <1>N
      <4>3. head' \in Nat /\ head <= head'
        BY <1>N, <2>1
      <4>4. \A x \in Blocks : x <= t => fork'[x] = fork[x]
        BY <1>N, <2>2, <4>1, <4>2, ReaderNumbers
      <4>5. LogsOf(f, t)' = LogsOf(f, t)
        BY <4>1, <4>2, <4>3, <4>4, SettledLogs
      <4>. QED  BY <2>1, <4>2, <4>5 DEF LogsOf, Hash
    <3>. QED  BY <3>1
  <2>5. Cursor' = Cursor /\ (InLoop' <=> InLoop) /\ (Rewriting' <=> Rewriting)
    BY <2>1 DEF Cursor, InLoop, Rewriting
  <2>6. \A e \in events : e[1] <= head'
    BY <1>N, <1>1E, <2>1
  <2>. QED  BY <1>1E, <1>2E, <1>3E, <1>4E, <1>5E, <2>1, <2>3, <2>4, <2>5, <2>6 DEF CanonInv
<1>21. ASSUME NEW b \in Blocks, Reorg(b) PROVE CanonInv'
  <2>1. /\ pc = "wait" /\ reorgs' = reorgs + 1
        /\ UNCHANGED <<head, events, task, from, to, reread, reorg, pc>>
    BY <1>21 DEF Reorg, Recoverable
  <2>2. Cursor' = Cursor /\ InLoop /\ (Rewriting' <=> Rewriting) /\ reorgs' # 0
    BY <1>N, <2>1 DEF Cursor, InLoop, Rewriting
  <2>. QED  BY <1>1E, <1>3E, <2>1, <2>2 DEF CanonInv
<1>22. CASE UNCHANGED vars
  <2>1. UNCHANGED <<head, fork, reorgs, events, logs, task, rFrom, rTo, from, to, reread, reorg, pc>>
    BY <1>22 DEF vars
  <2>2. (Rewriting' <=> Rewriting) /\ Cursor' = Cursor /\ (InLoop' <=> InLoop)
        /\ LogsOf(rFrom, rTo)' = LogsOf(rFrom, rTo)
    BY <2>1 DEF Rewriting, Cursor, InLoop, LogsOf, Hash
  <2>. QED  BY <1>3E, <1>4E, <1>5E, <1>C, <2>1, <2>2
<1>. QED  BY <1>1, <1>2, <1>3, <1>4, <1>5, <1>6, <1>7, <1>8, <1>9, <1>10, <1>11, <1>12, <1>13,
             <1>14, <1>15, <1>16, <1>17, <1>18, <1>19, <1>20, <1>21, <1>22 DEF Next, ReaderStep

(* Events only get rid of abandoned forks under a current hash, and what a *)
(* document records last was read from the chain its hash is of.           *)
LEMMA StaleStep ==
    Recoverable /\ RangesInv /\ KindInv /\ HashInv /\ CanonInv /\ NoStaleEvent /\ [Next]_vars
        => NoStaleEvent'
<1> SUFFICES ASSUME Recoverable, RangesInv, KindInv, HashInv, CanonInv, NoStaleEvent, [Next]_vars
             PROVE  NoStaleEvent'
  OBVIOUS
<1>T. TypeOK /\ ReadInv /\ RangesMined
  BY DEF RangesInv
<1>N. /\ rFrom \in Nat /\ rTo \in Nat /\ head \in Nat /\ reorgs \in Nat
      /\ queue \in Seq(Doc) /\ fork \in [Blocks -> Nat]
      /\ \A e \in events \cup logs : e \in Blocks \X Nat /\ e[1] \in Nat
      /\ \A i \in DOMAIN queue : /\ queue[i].from \in Nat /\ queue[i].to \in Nat
                                 /\ queue[i].to \in Blocks /\ queue[i].to <= head
      /\ \A b \in Blocks : b \in Nat
  <2>1. \A i \in DOMAIN queue : queue[i] \in Doc
    BY <1>T DEF TypeOK
  <2>. QED  BY <1>T, <2>1, ReaderNumbers DEF TypeOK, RangesMined, Doc
<1> USE DEF chainVars, storeVars, loopVars, callVars, readVars, taskVars
(* the chain stays, documents may die, events may go or come from it       *)
<1>K. ASSUME UNCHANGED fork, DOMAIN queue' = DOMAIN queue,
             \A i \in DOMAIN queue : /\ queue'[i].from = queue[i].from /\ queue'[i].to = queue[i].to
                                     /\ queue'[i].toHash = queue[i].toHash
                                     /\ queue[i].isDeleted => queue'[i].isDeleted,
             \A e \in events' : e \in events \/ Canonical(e)
      PROVE  NoStaleEvent'
  <2>1. \A e : Canonical(e)' <=> Canonical(e)
    BY <1>K DEF Canonical, Hash
  <2>2. \A i \in DOMAIN queue : Current(i)' => Current(i)
    BY <1>K DEF Current, Hash
  <2>. QED  BY <1>K, <2>1, <2>2 DEF NoStaleEvent
<1>1. ASSUME UNCHANGED <<fork, queue>>, events' \subseteq events PROVE NoStaleEvent'
  BY <1>K, <1>1
<1>2. CASE StoreEvents
  <2>1. /\ logs = LogsOf(rFrom, rTo) /\ UNCHANGED <<fork, queue>> /\ events' \subseteq events \cup logs
    BY <1>2 DEF StoreEvents, CanonInv
  <2>2. \A e \in logs : Canonical(e)
    BY <1>T, <1>N, <2>1, LogsMember DEF Canonical
  <2>. QED  BY <1>K, <2>1, <2>2
<1>3. CASE RecordRange
  <2> DEFINE doc == [from |-> rFrom, to |-> rTo, toHash |-> toHash, isDeleted |-> FALSE]
  <2>1. /\ pc \in {"record", "blocks"} /\ queue' = Append(queue, doc) /\ UNCHANGED <<fork, events>>
    BY <1>3 DEF RecordRange
  <2>2. doc.from = rFrom /\ doc.to = rTo /\ doc.toHash = toHash
    OBVIOUS
  <2> HIDE DEF doc
  <2>3. /\ DOMAIN queue' = 1..(Len(queue) + 1)
        /\ DOMAIN queue = 1..Len(queue) /\ Len(queue) \in Nat
        /\ \A i \in DOMAIN queue : queue'[i] = queue[i]
        /\ queue'[Len(queue) + 1] = doc
    BY <1>N, <2>1
  <2>4. \A e : Canonical(e)' <=> Canonical(e)
    BY <2>1 DEF Canonical, Hash
  <2>5. \A i \in DOMAIN queue : Current(i)' => Current(i)
    BY <2>1, <2>3 DEF Current, Hash
  <2>6. \A i \in DOMAIN queue : Current(i)' =>
           \A e \in events' : queue'[i].from <= e[1] /\ e[1] <= queue'[i].to => Canonical(e)'
    BY <2>1, <2>3, <2>4, <2>5 DEF NoStaleEvent
  <2>7. ASSUME NEW n \in DOMAIN queue', n = Len(queue) + 1, Current(n)',
               NEW e \in events', queue'[n].from <= e[1], e[1] <= queue'[n].to
        PROVE  Canonical(e)'
    <3>1. queue'[n] = doc
      BY <2>3, <2>7
    <3>2. toHash = Hash(rTo)
      BY <2>1, <2>2, <2>7, <3>1 DEF Current, Hash
    <3>3. pc = "blocks"
      BY <2>1, <3>2 DEF HashInv, Hash, NoHash
    <3>4. ~Rewriting
      BY <1>T, <3>3 DEF ReadInv, InRead, IsLive, Rewriting
    <3>. QED  BY <2>1, <2>2, <2>4, <2>7, <3>1, <3>3, <3>4 DEF CanonInv
  <2>. QED  BY <2>3, <2>6, <2>7 DEF NoStaleEvent
<1>4. CASE SoftDelete
  <2>1. queue' = SoftDeleted(rFrom, rTo) /\ UNCHANGED <<fork, events>>
    BY <1>4 DEF SoftDelete
  <2>. QED  BY <1>K, <1>T, <1>N, <2>1, SoftDeletedDocs
(* the chain moves on, or a part of it is replaced                         *)
<1>5. ASSUME UNCHANGED <<queue, events>>,
             \A i \in DOMAIN queue : Current(i)' =>
                \A x \in Blocks : x <= queue[i].to => fork'[x] = fork[x]
      PROVE  NoStaleEvent'
  <2>1. SUFFICES ASSUME NEW i \in DOMAIN queue, Current(i)', NEW e \in events,
                        queue[i].from <= e[1], e[1] <= queue[i].to
                 PROVE  Canonical(e)'
    BY <1>5 DEF NoStaleEvent
  <2>2. Current(i)
    BY <1>5, <1>N, <2>1 DEF Current, Hash
  <2>3. Canonical(e)
    BY <2>1, <2>2 DEF NoStaleEvent
  <2>4. e[1] \in Blocks
    BY ConstantsAssumption DEF CanonInv
  <2>. QED  BY <1>5, <2>1, <2>3, <2>4 DEF Canonical, Hash
<1>6. CASE Mine
  <2>1. fork' = [fork EXCEPT ![head + 1] = reorgs] /\ UNCHANGED <<queue, events>>
    BY <1>6 DEF Mine
  <2>2. \A i \in DOMAIN queue, x \in Blocks : x <= queue[i].to => fork'[x] = fork[x]
    BY <1>N, <2>1
  <2>. QED  BY <1>5, <2>1, <2>2
<1>7. ASSUME NEW b \in Blocks, Reorg(b) PROVE NoStaleEvent'
  <2>1. /\ fork' = [x \in Blocks |-> IF b <= x /\ x <= head THEN reorgs + 1 ELSE fork[x]]
        /\ UNCHANGED <<queue, events>>
    BY <1>7 DEF Reorg
  <2>2. ASSUME NEW i \in DOMAIN queue, Current(i)', NEW x \in Blocks, x <= queue[i].to
        PROVE  fork'[x] = fork[x]
    <3>1. CASE b <= queue[i].to
      <4>1. Hash(queue[i].to)' = <<queue[i].to, reorgs + 1>>
        BY <1>N, <2>1, <2>2, <3>1 DEF Hash
      <4>2. queue[i].toHash = <<queue[i].to, reorgs + 1>>
        BY <2>1, <2>2, <4>1 DEF Current
      <4>3. queue[i].toHash # NoHash /\ queue[i].toHash[2] = reorgs + 1
        BY <4>2 DEF NoHash
      <4>. QED  BY <1>N, <2>2, <4>3 DEF HashInv
    <3>2. CASE ~(b <= queue[i].to)
      BY <1>N, <2>1, <2>2, <3>2
    <3>. QED  BY <3>1, <3>2
  <2>. QED  BY <1>5, <2>1, <2>2
<1>8. ReaderStep => NoStaleEvent'
  BY <1>1, <1>2, <1>3, <1>4 DEF ReaderStep, PickTask, GetHead, GetLatest, Clean, LoopAborted,
     RangeStep, RangeFinish, LiveStep, PollNew, PollWait, WakeUp, FetchEvents, GetFromBlock,
     GetToBlock, EmitRange, DeleteRange
<1>9. (\E t \in Tasks : StartTask(t)) \/ StopTask \/ Crash \/ Restart \/ UNCHANGED vars => NoStaleEvent'
  BY <1>1 DEF StartTask, StopTask, Crash, Restart, vars
<1>. QED  BY <1>6, <1>7, <1>8, <1>9 DEF Next

LEMMA ForkInit == Recoverable /\ Init => ForkInv
<1> SUFFICES ASSUME Recoverable, Init PROVE ForkInv
  OBVIOUS
<1>1. /\ DOMAIN queue = {} /\ queue = <<>> /\ events = {} /\ pc = "idle" /\ ~task.inProgress
      /\ reorgs = 0 /\ \A b \in Blocks : fork[b] <= reorgs
  BY DEF Init, NoTask
<1>. QED  BY <1>1 DEF ForkInv, HashInv, StartInv, AnchorInv, CanonInv, NoStaleEvent, InLoop, InRead,
             Rereading

(* With its events complete and none of them stale, a live range whose     *)
(* hash is current has exactly the canonical events.                       *)
LEMMA CanonicalBlocks ==
    ASSUME RangesInv, CanonInv, NoStaleEvent, RecordedRangesComplete
    PROVE  HashVouchesForEvents
<1> SUFFICES ASSUME NEW i \in DOMAIN queue, Current(i),
                    NEW b \in queue[i].from..queue[i].to, ~Lost(b)
             PROVE  {e \in events : e[1] = b} = LogsOf(b, b)
  BY DEF HashVouchesForEvents, Current
<1>1. /\ queue[i].from <= b /\ b <= queue[i].to /\ b \in Nat /\ head \in Nat /\ b <= head
      /\ \A x \in TransferBlocks : x \in Nat
  BY ReaderNumbers, ConstantsAssumption DEF RangesInv, RangesMined
<1>2. LogsOf(b, b) = IF b \in TransferBlocks THEN {Hash(b)} ELSE {}
  <2>1. {x \in TransferBlocks : b <= x /\ x <= b /\ x <= head}
           = IF b \in TransferBlocks THEN {b} ELSE {}
    BY <1>1
  <2>. QED  BY <2>1 DEF LogsOf
<1>3. \A e \in events : e[1] = b => e = Hash(b) /\ b \in TransferBlocks
  BY <1>1 DEF CanonInv, NoStaleEvent, Canonical
<1>4. b \in TransferBlocks => \E e \in events : e[1] = b
  BY <1>1 DEF RecordedRangesComplete, Current
<1>5. Hash(b)[1] = b
  BY DEF Hash
<1>. QED  BY <1>2, <1>3, <1>4, <1>5

(* A recorded hash vouches for the events: with live and REINDEX tasks,    *)
(* through crashes, stops and any reorganisations met while waiting, the   *)
(* blocks of a live document whose hash is still the chain's have exactly  *)
(* the canonical events, except for what the loop is storing again.        *)
THEOREM HashesVouch == Recoverable => (Spec => []HashVouchesForEvents)
<1> SUFFICES ASSUME Recoverable PROVE Spec => []HashVouchesForEvents
  OBVIOUS
<1>1. DataInv /\ ForkInv /\ [Next]_vars => ForkInv'
  BY HashStep, StartStep, AnchorStep, CanonStep, StaleStep DEF DataInv, ForkInv, Recoverable
<1>2. DataInv /\ [Next]_vars => DataInv'
  BY DataStep DEF Recoverable
<1>3. DataInv /\ ForkInv => HashVouchesForEvents
  BY CanonicalBlocks DEF DataInv, ForkInv
<1>4. Init => DataInv /\ ForkInv
  BY DataInit, ForkInit
<1>. QED  BY <1>1, <1>2, <1>3, <1>4, PTL DEF Spec

-----------------------------------------------------------------------------
(* AN UNDISTURBED READER                                                   *)
(* While one live task runs undisturbed, and the chain only reorganises    *)
(* while it waits for blocks, a hash vouches for its range as a whole,     *)
(* wherever the first range ends.                                          *)

WholeRangesVouch ==
    \A i \in DOMAIN queue :
        ~queue[i].isDeleted /\ queue[i].toHash = Hash(queue[i].to) =>
            \/ Rereading /\ rFrom = queue[i].from /\ rTo = queue[i].to
            \/ {e \in events : queue[i].from <= e[1] /\ e[1] <= queue[i].to}
                 = LogsOf(queue[i].from, queue[i].to)

Undisturbed ==
    /\ MaxCrashes = 0 /\ MaxRequests <= 1 /\ ~ReorgAnytime
    /\ \A t \in Tasks : t.to = 0

(* Nothing takes the reader out of its loop; before it is in it, nothing   *)
(* is stored.                                                              *)
SteadyInv ==
    /\ IsLive /\ ~aborted
    /\ pc \in {"idle", "head", "latest"} \/ InLoop
    /\ pc \in {"idle", "head", "latest"} => queue = <<>> /\ events = {}
    /\ task.inProgress => requests >= 1

(* What is stored lies below the block the loop reads next.                *)
Bound == IF pc \in {"emit", "delete", "softDelete"} \/ reread THEN to + 1 ELSE from

BoundInv ==
    InLoop => /\ \A e \in events : e[1] < Cursor
              /\ \A i \in DOMAIN queue : queue[i].to < Bound

(* Documents have the same range or lie apart, and what is read again is   *)
(* the range of a document.                                                *)
Same(f, t, i) == queue[i].from = f /\ queue[i].to = t

Apart(f, t, i) == queue[i].to < f \/ t < queue[i].from

RangeInv ==
    /\ \A i, j \in DOMAIN queue :
          LET d == queue[j] IN Same(d.from, d.to, i) \/ Apart(d.from, d.to, i)
    /\ InRead /\ Cascade => \E i \in DOMAIN queue : Same(rFrom, rTo, i)

(* The events of the range that is being read.                             *)
Span(f, t) == {e \in events : f <= e[1] /\ e[1] <= t}

SpanInv ==
    /\ pc \in {"softDelete", "fetch", "store"} => Span(rFrom, rTo) = {}
    /\ pc = "store" => logs = LogsOf(rFrom, rTo)
    /\ pc = "blocks" => Span(rFrom, rTo) = LogsOf(rFrom, rTo)

VouchInv == SteadyInv /\ BoundInv /\ HashInv /\ RangeInv /\ SpanInv /\ WholeRangesVouch

(* The steps of an undisturbed reader.                                     *)
Before ==
    /\ pc \in {"idle", "head", "latest"} /\ pc' \in {"idle", "head", "latest", "loop"}
    /\ UNCHANGED <<chainVars, events, queue, callVars>>

Around ==
    /\ pc \in {"loop", "poll", "wait"} /\ pc' \in {"loop", "poll", "wait"}
    /\ UNCHANGED <<chainVars, events, queue, from, to, callVars>>

StoreAll ==
    /\ pc = "store" /\ events' = events \cup logs /\ pc' = "blocks"
    /\ awaiting' = {"from", "to"} /\ toHash' = NoHash
    /\ UNCHANGED <<chainVars, queue, loopVars, callVars, taskVars>>

UndisturbedNext ==
    \/ Before \/ Around
    \/ PollNew \/ FetchEvents \/ StoreAll \/ GetFromBlock \/ GetToBlock
    \/ pc = "blocks" /\ reorg /\ RecordRange
    \/ EmitRange \/ DeleteRange \/ SoftDelete
    \/ Mine \/ (pc = "wait" /\ \E b \in Blocks : Reorg(b))
    \/ UNCHANGED vars

LEMMA UndisturbedStep ==
    ASSUME Undisturbed, RangesInv, SteadyInv, SpanInv, [Next]_vars
    PROVE  SteadyInv' /\ UndisturbedNext
<1> USE DEF chainVars, storeVars, loopVars, callVars, readVars, taskVars
<1>T. TypeOK /\ ReadInv /\ RestInv
  BY DEF RangesInv
<1>S. /\ IsLive /\ ~aborted /\ task.to = 0 /\ ~Rewriting
      /\ pc \in {"idle", "head", "latest"} \/ InLoop
      /\ pc \in {"idle", "head", "latest"} => queue = <<>> /\ events = {}
      /\ task.inProgress => requests >= 1
  BY DEF SteadyInv, IsLive, Rewriting
<1>K. ASSUME UNCHANGED <<task, aborted, requests>>, InLoop'
      PROVE  SteadyInv'
  BY <1>S, <1>K DEF SteadyInv, IsLive, InLoop
<1>B. ASSUME pc \in {"idle", "head", "latest"}, UNCHANGED <<events, queue>>,
             pc' \in {"idle", "head", "latest", "loop"}, task'.to = 0, ~aborted', 
             task'.inProgress => requests' >= 1
      PROVE  SteadyInv'
  BY <1>S, <1>B DEF SteadyInv, IsLive, InLoop
<1>1. CASE PickTask
  <2>1. Before /\ UNCHANGED <<task, aborted, requests>>
    BY <1>1, <1>S DEF PickTask, Before
  <2>. QED  BY <1>B, <1>S, <2>1 DEF Before, UndisturbedNext
<1>2. CASE GetHead
  <2>1. Before /\ UNCHANGED <<task, aborted, requests>>
    BY <1>2 DEF GetHead, Before
  <2>. QED  BY <1>B, <1>S, <2>1 DEF Before, UndisturbedNext
<1>3. CASE GetLatest
  <2>1. pc = "latest" /\ Latest(blockTo) = {0}
    BY <1>3, <1>S DEF GetLatest, Latest, Below
  <2>2. Before /\ UNCHANGED <<task, aborted, requests>>
    BY <1>3, <2>1 DEF GetLatest, Before
  <2>. QED  BY <1>B, <1>S, <2>2 DEF Before, UndisturbedNext
<1>4. ASSUME NEW t \in Tasks, StartTask(t) PROVE SteadyInv' /\ UndisturbedNext
  <2>1. Before /\ ~aborted' /\ task'.to = 0
    BY <1>4 DEF StartTask, Before, Undisturbed
  <2>2. requests' >= 1
    BY <1>4, <1>T DEF StartTask, TypeOK
  <2>. QED  BY <1>B, <2>1, <2>2 DEF Before, UndisturbedNext
<1>5. CASE LiveStep \/ PollWait \/ WakeUp
  <2>1. Around /\ UNCHANGED <<task, aborted, requests>>
    BY <1>5, <1>S DEF LiveStep, PollWait, WakeUp, Around
  <2>. QED  BY <1>K, <2>1 DEF Around, InLoop, UndisturbedNext
<1>6. CASE PollNew \/ FetchEvents \/ GetFromBlock \/ GetToBlock \/ EmitRange \/ DeleteRange \/ SoftDelete
  <2>1. InLoop' /\ UNCHANGED <<task, aborted, requests>>
    BY <1>6 DEF PollNew, FetchEvents, GetFromBlock, GetToBlock, EmitRange, DeleteRange, SoftDelete,
       CallRead, InLoop
  <2>. QED  BY <1>6, <1>K, <2>1 DEF UndisturbedNext
<1>7. CASE StoreEvents
  <2>1. pc = "store" /\ reorg
    BY <1>7, <1>T, <1>S DEF StoreEvents, ReadInv, InRead
  <2>2. logs \cap events = {}
    BY <2>1 DEF SpanInv, Span, LogsOf, Hash
  <2>3. StoreAll
    BY <1>7, <2>1, <2>2 DEF StoreEvents, AfterStore, StoreAll
  <2>. QED  BY <1>K, <2>3 DEF StoreAll, InLoop, UndisturbedNext
<1>8. CASE RecordRange
  <2>1. pc = "blocks" /\ reorg
    BY <1>8, <1>T, <1>S DEF RecordRange, ReadInv, InRead
  <2>2. InLoop' /\ UNCHANGED <<task, aborted, requests>>
    BY <1>8 DEF RecordRange, InLoop
  <2>. QED  BY <1>8, <1>K, <2>1, <2>2 DEF UndisturbedNext
<1>9. CASE Mine \/ \E b \in Blocks : Reorg(b)
  <2>1. UNCHANGED <<task, aborted, requests, pc, events, queue>>
    BY <1>9 DEF Mine, Reorg
  <2>2. SteadyInv'
    BY <1>S, <2>1 DEF SteadyInv, IsLive, InLoop
  <2>. QED  BY <1>9, <2>2 DEF UndisturbedNext, Undisturbed, Reorg
<1>10. CASE UNCHANGED vars
  <2>1. SteadyInv'
    BY <1>S, <1>10 DEF vars, SteadyInv, IsLive, InLoop
  <2>. QED  BY <1>10, <2>1 DEF UndisturbedNext
<1>11. ~Crash /\ ~StopTask
  <2>1. requests \in Nat /\ crashes \in Nat /\ MaxRequests \in Nat
    BY <1>T, ConstantsAssumption DEF TypeOK
  <2>2. ~Crash
    BY <2>1 DEF Crash, Undisturbed
  <2>3. ~StopTask
    BY <1>S, <2>1 DEF StopTask, Undisturbed
  <2>. QED  BY <2>2, <2>3
<1>12. ~Clean /\ ~LoopAborted /\ ~RangeStep /\ ~RangeFinish /\ ~Restart
  BY <1>S DEF Clean, LoopAborted, RangeStep, RangeFinish, Restart, InLoop
<1>. QED  BY <1>1, <1>2, <1>3, <1>4, <1>5, <1>6, <1>7, <1>8, <1>9, <1>10, <1>11, <1>12
          DEF Next, ReaderStep

LEMMA BoundStep ==
    ASSUME RangesInv, SteadyInv, BoundInv, SpanInv, UndisturbedNext
    PROVE  BoundInv'
<1> USE DEF chainVars, storeVars, loopVars, callVars, readVars, taskVars
<1>T. TypeOK /\ ReadInv /\ RestInv
  BY DEF RangesInv
<1>N. /\ from \in Nat /\ to \in Nat /\ rFrom \in Nat /\ rTo \in Nat
      /\ queue \in Seq(Doc)
      /\ \A e \in events \cup logs : e[1] \in Nat
      /\ \A i \in DOMAIN queue : queue[i].to \in Nat
  BY ReaderNumbers
<1>R. InRead => rFrom <= rTo /\ rTo <= to /\ (~Cascade => rFrom = from)
  BY <1>T DEF ReadInv
<1>C. InRead => (reorg <=> IsLive)
  BY <1>T DEF ReadInv
<1>L. IsLive
  BY DEF SteadyInv
<1>F. ASSUME UNCHANGED <<events, queue>>, InLoop, Cursor' = Cursor, Bound' = Bound
      PROVE  BoundInv'
  BY <1>F DEF BoundInv
<1>1. CASE Before
  <2>1. pc \in {"idle", "head", "latest"} /\ UNCHANGED <<events, queue>>
    BY <1>1 DEF Before
  <2>. QED  BY <2>1 DEF SteadyInv, BoundInv
<1>2. CASE Around
  <2>1. /\ pc \in {"loop", "poll", "wait"} /\ pc' \in {"loop", "poll", "wait"}
        /\ UNCHANGED <<events, queue, from, to, reread, reorg>>
    BY <1>2 DEF Around
  <2>. QED  BY <1>F, <2>1 DEF InLoop, Cursor, Bound
<1>3. CASE PollNew
  <2>1. pc = "poll" /\ pc' = "fetch" /\ UNCHANGED <<events, queue, from>> /\ reread' = FALSE
    BY <1>3 DEF PollNew, CallRead
  <2>2. reread = FALSE
    BY <1>T, <2>1 DEF RestInv, InRead, TypeOK
  <2>. QED  BY <1>F, <2>1, <2>2 DEF InLoop, Cursor, Bound
<1>4. CASE FetchEvents
  <2>1. pc = "fetch" /\ pc' = "store" /\ UNCHANGED <<events, queue, from, to, reread, reorg>>
    BY <1>4 DEF FetchEvents
  <2>. QED  BY <1>F, <2>1 DEF InLoop, Cursor, Bound
<1>5. CASE StoreAll
  <2>1. /\ pc = "store" /\ pc' = "blocks" /\ events' = events \cup logs
        /\ UNCHANGED <<queue, from, to, reread, reorg>>
    BY <1>5 DEF StoreAll
  <2>2. /\ \A e \in logs : e[1] <= to
        /\ from <= to \/ Cursor = to + 1
    <3>1. \A e \in logs : e[1] <= rTo
      BY <2>1 DEF SpanInv, LogsOf, Hash
    <3>2. InRead
      BY <2>1 DEF InRead
    <3>3. from <= to \/ (reread /\ reorg)
      BY <1>N, <1>R, <2>1, <3>2 DEF Cascade
    <3>. QED  BY <1>N, <1>R, <3>1, <3>2, <3>3 DEF Cursor
  <2>3. InLoop /\ (Cursor = from \/ Cursor = to + 1) /\ Cursor' = to + 1 /\ Bound' = Bound
    BY <2>1 DEF Cursor, Bound, InLoop
  <2>4. \A e \in events' : e[1] < to + 1
    BY <1>N, <2>1, <2>2, <2>3 DEF BoundInv
  <2>. QED  BY <2>1, <2>3, <2>4 DEF BoundInv
<1>6. CASE GetFromBlock \/ GetToBlock \/ UNCHANGED vars \/ Mine \/ \E b \in Blocks : Reorg(b)
  <2>1. UNCHANGED <<pc, events, queue, from, to, reread, reorg>>
    BY <1>6 DEF GetFromBlock, GetToBlock, vars, Mine, Reorg
  <2>. QED  BY <2>1 DEF BoundInv, InLoop, Cursor, Bound
<1>7. CASE pc = "blocks" /\ RecordRange
  <2> DEFINE doc == [from |-> rFrom, to |-> rTo, toHash |-> toHash, isDeleted |-> FALSE]
  <2>1. /\ pc = "blocks" /\ pc' = "emit" /\ queue' = Append(queue, doc)
        /\ UNCHANGED <<events, from, to, reread, reorg>>
    BY <1>7 DEF RecordRange
  <2>2. doc.to = rTo
    OBVIOUS
  <2> HIDE DEF doc
  <2>3. /\ DOMAIN queue' = 1..(Len(queue) + 1)
        /\ DOMAIN queue = 1..Len(queue) /\ Len(queue) \in Nat
        /\ \A i \in DOMAIN queue : queue'[i] = queue[i]
        /\ queue'[Len(queue) + 1] = doc
    BY <1>N, <2>1
  <2>4. InLoop /\ Cursor = to + 1 /\ Cursor' = to + 1 /\ Bound' = to + 1
    BY <2>1 DEF InLoop, Cursor, Bound
  <2>5. Bound <= to + 1 /\ Bound \in Nat /\ rTo <= to
    BY <1>N, <1>R, <1>C, <1>L, <2>1 DEF Bound, InRead, Cascade
  <2>6. \A i \in DOMAIN queue : queue[i].to < to + 1
    BY <1>N, <2>4, <2>5 DEF BoundInv
  <2>7. \A i \in DOMAIN queue' : queue'[i].to < to + 1
    BY <1>N, <2>2, <2>3, <2>5, <2>6
  <2>. QED  BY <2>1, <2>4, <2>7 DEF BoundInv
<1>8. CASE EmitRange
  <2>1. pc = "emit" /\ UNCHANGED <<events, queue, to>>
    BY <1>8 DEF EmitRange
  <2>2. pc' = "delete" \/ (pc' = "loop" /\ from' = to + 1 /\ reread' = FALSE)
    <3>1. CASE ReorgDetected
      BY <1>8, <3>1 DEF EmitRange
    <3>2. CASE ~ReorgDetected
      BY <1>8, <3>2 DEF EmitRange
    <3>. QED  BY <3>1, <3>2
  <2>. QED  BY <1>F, <2>1, <2>2 DEF InLoop, Cursor, Bound
<1>9. CASE DeleteRange
  <2>1. pc = "delete" /\ pc' = "softDelete" /\ events' \subseteq events /\ UNCHANGED <<queue, to>>
    BY <1>9 DEF DeleteRange
  <2>. QED  BY <2>1 DEF BoundInv, InLoop, Cursor, Bound
<1>10. CASE SoftDelete
  <2>1. /\ pc = "softDelete" /\ pc' = "fetch" /\ queue' = SoftDeleted(rFrom, rTo)
        /\ reread' = TRUE /\ reorg' = TRUE /\ UNCHANGED <<to, events>>
    BY <1>10 DEF SoftDelete, CallRead
  <2>2. /\ DOMAIN queue' = DOMAIN queue
        /\ \A i \in DOMAIN queue : queue'[i].to = queue[i].to
    BY <1>T, <1>N, <2>1, SoftDeletedDocs
  <2>3. InLoop /\ Cursor = to + 1 /\ Cursor' = to + 1 /\ Bound = to + 1 /\ Bound' = to + 1
    BY <2>1 DEF InLoop, Cursor, Bound
  <2>. QED  BY <2>1, <2>2, <2>3 DEF BoundInv
<1>. QED  BY <1>1, <1>2, <1>3, <1>4, <1>5, <1>6, <1>7, <1>8, <1>9, <1>10 DEF UndisturbedNext

LEMMA ApartStep ==
    ASSUME RangesInv, SteadyInv, BoundInv, RangeInv, UndisturbedNext
    PROVE  RangeInv'
<1> USE DEF chainVars, storeVars, loopVars, callVars, readVars, taskVars
<1>T. TypeOK /\ ReadInv /\ RestInv /\ RangesMined
  BY DEF RangesInv
<1>N. /\ rFrom \in Nat /\ rTo \in Nat /\ from \in Nat
      /\ queue \in Seq(Doc)
      /\ \A i \in DOMAIN queue : queue[i].from \in Nat /\ queue[i].to \in Nat
  BY ReaderNumbers
<1>A. /\ \A i, j \in DOMAIN queue :
            \/ queue[i].from = queue[j].from /\ queue[i].to = queue[j].to
            \/ queue[i].to < queue[j].from \/ queue[j].to < queue[i].from
      /\ InRead /\ Cascade => \E i \in DOMAIN queue : queue[i].from = rFrom /\ queue[i].to = rTo
  BY DEF RangeInv, Same, Apart
<1>F. ASSUME UNCHANGED queue,
             InRead' /\ Cascade' => InRead /\ Cascade /\ UNCHANGED <<rFrom, rTo>>
      PROVE  RangeInv'
  BY <1>A, <1>F DEF RangeInv, Same, Apart
<1>1. CASE Before \/ Around
  <2>1. UNCHANGED queue /\ ~InRead'
    BY <1>1 DEF Before, Around, InRead
  <2>. QED  BY <1>F, <2>1
<1>2. CASE PollNew
  BY <1>F, <1>2 DEF PollNew, CallRead, Cascade
<1>3. CASE FetchEvents
  BY <1>F, <1>3 DEF FetchEvents, InRead, Cascade
<1>4. CASE StoreAll
  BY <1>F, <1>4 DEF StoreAll, InRead, Cascade
<1>5. CASE GetFromBlock \/ GetToBlock \/ UNCHANGED vars \/ Mine \/ \E b \in Blocks : Reorg(b)
  <2>1. UNCHANGED <<pc, queue, rFrom, rTo, reread, reorg>>
    BY <1>5 DEF GetFromBlock, GetToBlock, vars, Mine, Reorg
  <2>. QED  BY <1>F, <2>1 DEF InRead, Cascade
<1>6. CASE pc = "blocks" /\ reorg /\ RecordRange
  <2> DEFINE doc == [from |-> rFrom, to |-> rTo, toHash |-> toHash, isDeleted |-> FALSE]
  <2>1. /\ pc = "blocks" /\ reorg /\ pc' = "emit" /\ queue' = Append(queue, doc)
        /\ UNCHANGED <<rFrom, rTo, reread, reorg>>
    BY <1>6 DEF RecordRange
  <2>2. doc.from = rFrom /\ doc.to = rTo
    OBVIOUS
  <2> HIDE DEF doc
  <2>3. /\ DOMAIN queue' = 1..(Len(queue) + 1)
        /\ DOMAIN queue = 1..Len(queue) /\ Len(queue) \in Nat
        /\ \A i \in DOMAIN queue : queue'[i] = queue[i]
        /\ queue'[Len(queue) + 1] = doc
    BY <1>N, <2>1
  <2>4. InRead /\ InLoop
    BY <2>1 DEF InRead, InLoop
  <2>5. \A j \in DOMAIN queue :
            \/ queue[j].from = rFrom /\ queue[j].to = rTo
            \/ rTo < queue[j].from \/ queue[j].to < rFrom
    <3>1. CASE reread
      <4>1. PICK i \in DOMAIN queue : queue[i].from = rFrom /\ queue[i].to = rTo
        BY <1>A, <2>1, <2>4, <3>1 DEF Cascade
      <4>. QED  BY <1>A, <4>1
    <3>2. CASE ~reread
      <4>1. rFrom = from /\ Bound = from
        BY <1>T, <2>1, <2>4, <3>2 DEF ReadInv, Cascade, Bound
      <4>. QED  BY <2>4, <4>1 DEF BoundInv
    <3>. QED  BY <3>1, <3>2
  <2>6. \A i, j \in DOMAIN queue' :
            \/ queue'[i].from = queue'[j].from /\ queue'[i].to = queue'[j].to
            \/ queue'[i].to < queue'[j].from \/ queue'[j].to < queue'[i].from
    BY <1>A, <2>2, <2>3, <2>5
  <2>7. \E i \in DOMAIN queue' : queue'[i].from = rFrom /\ queue'[i].to = rTo
    BY <2>2, <2>3
  <2>. QED  BY <2>1, <2>6, <2>7 DEF RangeInv, Same, Apart
<1>7. CASE EmitRange
  <2>1. pc = "emit" /\ UNCHANGED queue
    BY <1>7 DEF EmitRange
  <2>2. CASE ReorgDetected
    <3>1. rFrom' = queue[latest].from /\ rTo' = queue[latest].to
      BY <1>7, <2>2 DEF EmitRange
    <3>2. latest \in DOMAIN queue
      BY <1>T, <2>2 DEF ReorgDetected, TypeOK
    <3>. QED  BY <1>A, <2>1, <3>1, <3>2 DEF RangeInv, Same, Apart
  <2>3. CASE ~ReorgDetected
    <3>1. pc' = "loop"
      BY <1>7, <2>3 DEF EmitRange
    <3>. QED  BY <1>F, <2>1, <3>1 DEF InRead
  <2>. QED  BY <2>2, <2>3
<1>8. CASE DeleteRange
  BY <1>F, <1>8 DEF DeleteRange, InRead, Cascade
<1>9. CASE SoftDelete
  <2>1. /\ pc = "softDelete" /\ queue' = SoftDeleted(rFrom, rTo) /\ UNCHANGED <<rFrom, rTo>>
    BY <1>9 DEF SoftDelete, CallRead
  <2>2. /\ DOMAIN queue' = DOMAIN queue
        /\ \A i \in DOMAIN queue : queue'[i].from = queue[i].from /\ queue'[i].to = queue[i].to
    BY <1>T, <1>N, <2>1, SoftDeletedDocs
  <2>3. \E i \in DOMAIN queue : queue[i].from = rFrom /\ queue[i].to = rTo
    BY <1>A, <2>1 DEF InRead, Cascade
  <2>. QED  BY <1>A, <2>1, <2>2, <2>3 DEF RangeInv, Same, Apart
<1>. QED  BY <1>1, <1>2, <1>3, <1>4, <1>5, <1>6, <1>7, <1>8, <1>9 DEF UndisturbedNext

LEMMA SpanStep ==
    ASSUME RangesInv, SteadyInv, BoundInv, SpanInv, UndisturbedNext
    PROVE  SpanInv'
<1> USE DEF chainVars, storeVars, loopVars, callVars, readVars, taskVars
<1>T. TypeOK /\ ReadInv /\ RestInv
  BY DEF RangesInv
<1>N. /\ from \in Nat /\ to \in Nat /\ rFrom \in Nat /\ rTo \in Nat /\ head \in Nat
      /\ \A e \in events \cup logs : e[1] \in Nat
  BY ReaderNumbers
<1>1. CASE Before \/ Around
  <2>1. pc' \in {"idle", "head", "latest", "loop", "poll", "wait"}
    BY <1>1 DEF Before, Around
  <2>. QED  BY <2>1 DEF SpanInv
<1>2. CASE PollNew
  <2>1. pc = "poll" /\ pc' = "fetch" /\ rFrom' = from /\ UNCHANGED events
    BY <1>2 DEF PollNew, CallRead
  <2>2. Cursor = from /\ InLoop
    BY <1>T, <2>1 DEF Cursor, InLoop, RestInv, InRead
  <2>3. \A e \in events : ~(rFrom' <= e[1])
    BY <1>N, <2>1, <2>2 DEF BoundInv
  <2>. QED  BY <2>1, <2>3 DEF SpanInv, Span
<1>3. CASE FetchEvents
  <2>1. /\ pc = "fetch" /\ pc' = "store" /\ UNCHANGED <<head, fork, events, rFrom, rTo>>
        /\ logs' = LogsOf(rFrom, rTo)
    BY <1>3 DEF FetchEvents
  <2>2. LogsOf(rFrom, rTo)' = LogsOf(rFrom, rTo)
    BY <2>1 DEF LogsOf, Hash
  <2>. QED  BY <2>1, <2>2 DEF SpanInv, Span
<1>4. CASE StoreAll
  <2>1. /\ pc = "store" /\ pc' = "blocks" /\ events' = events \cup logs
        /\ UNCHANGED <<head, fork, rFrom, rTo>>
    BY <1>4 DEF StoreAll
  <2>2. Span(rFrom, rTo) = {} /\ logs = LogsOf(rFrom, rTo)
    BY <2>1 DEF SpanInv
  <2>3. \A e \in logs : rFrom <= e[1] /\ e[1] <= rTo
    BY <1>N, <2>2, LogsInRange
  <2>4. Span(rFrom, rTo)' = logs
    BY <2>1, <2>2, <2>3 DEF Span
  <2>5. LogsOf(rFrom, rTo)' = LogsOf(rFrom, rTo)
    BY <2>1 DEF LogsOf, Hash
  <2>. QED  BY <2>1, <2>2, <2>4, <2>5 DEF SpanInv
<1>5. CASE GetFromBlock \/ GetToBlock \/ UNCHANGED vars
  <2>1. UNCHANGED <<pc, events, logs, head, fork, rFrom, rTo>>
    BY <1>5 DEF GetFromBlock, GetToBlock, vars
  <2>. QED  BY <2>1 DEF SpanInv, Span, LogsOf, Hash
<1>6. CASE RecordRange \/ EmitRange
  <2>1. pc' \in {"emit", "loop", "delete"}
    BY <1>6 DEF RecordRange, EmitRange
  <2>. QED  BY <2>1 DEF SpanInv
<1>7. CASE DeleteRange
  <2>1. /\ pc' = "softDelete" /\ UNCHANGED <<rFrom, rTo>>
        /\ events' = {e \in events : ~(rFrom <= e[1] /\ e[1] <= rTo)}
    BY <1>7 DEF DeleteRange
  <2>. QED  BY <2>1 DEF SpanInv, Span
<1>8. CASE SoftDelete
  <2>1. pc = "softDelete" /\ pc' = "fetch" /\ UNCHANGED <<events, rFrom, rTo>>
    BY <1>8 DEF SoftDelete, CallRead
  <2>. QED  BY <2>1 DEF SpanInv, Span
<1>9. CASE Mine
  <2>1. /\ head' = head + 1 /\ fork' = [fork EXCEPT ![head + 1] = reorgs]
        /\ UNCHANGED <<pc, events, logs, rFrom, rTo>>
    BY <1>9 DEF Mine
  <2>2. CASE InRead
    <3>1. rTo <= head /\ \A x \in Blocks : x <= rTo => fork'[x] = fork[x]
      BY <1>N, <1>T, <2>1, <2>2, ReaderNumbers DEF ReadInv, TypeOK
    <3>2. LogsOf(rFrom, rTo)' = LogsOf(rFrom, rTo)
      <4>1. PICK f \in Nat, t \in Nat : f = rFrom /\ t = rTo
        BY <1>N
      <4>2. head' \in Nat /\ head <= head'
        BY <1>N, <2>1
      <4>3. LogsOf(f, t)' = LogsOf(f, t)
        BY <3>1, <4>1, <4>2, SettledLogs
      <4>. QED  BY <2>1, <4>1, <4>3 DEF LogsOf, Hash
    <3>. QED  BY <2>1, <3>2 DEF SpanInv, Span
  <2>3. CASE ~InRead
    BY <2>1, <2>3 DEF SpanInv, InRead
  <2>. QED  BY <2>2, <2>3
<1>10. CASE pc = "wait" /\ \E b \in Blocks : Reorg(b)
  BY <1>10 DEF Reorg, SpanInv
<1>. QED  BY <1>1, <1>2, <1>3, <1>4, <1>5, <1>6, <1>7, <1>8, <1>9, <1>10 DEF UndisturbedNext

LEMMA VouchesStep ==
    ASSUME RangesInv, VouchInv, UndisturbedNext
    PROVE  WholeRangesVouch'
<1> USE DEF chainVars, storeVars, loopVars, callVars, readVars, taskVars
<1>V. SteadyInv /\ BoundInv /\ HashInv /\ RangeInv /\ SpanInv /\ WholeRangesVouch
  BY DEF VouchInv
<1>T. TypeOK /\ ReadInv /\ RestInv /\ RangesMined
  BY DEF RangesInv
<1>N. /\ rFrom \in Nat /\ rTo \in Nat /\ from \in Nat /\ head \in Nat
      /\ queue \in Seq(Doc)
      /\ \A e \in events \cup logs : e[1] \in Nat
      /\ \A i \in DOMAIN queue : queue[i].from \in Nat /\ queue[i].to \in Nat
      /\ \A b \in Blocks : b \in Nat
  BY ReaderNumbers
<1> DEFINE Vouched(i) == Span(queue[i].from, queue[i].to) = LogsOf(queue[i].from, queue[i].to)
           Matching(i) == ~queue[i].isDeleted /\ queue[i].toHash = Hash(queue[i].to)
           Again(i) == Rereading /\ rFrom = queue[i].from /\ rTo = queue[i].to
<1>H. WholeRangesVouch <=> \A i \in DOMAIN queue : Matching(i) => Again(i) \/ Vouched(i)
  BY DEF WholeRangesVouch, Span
<1>HP. WholeRangesVouch' <=>
          \A i \in DOMAIN queue' : Matching(i)' => Again(i)' \/ Vouched(i)'
  BY DEF WholeRangesVouch, Span
<1>R. ASSUME NEW i \in DOMAIN queue, Rereading
      PROVE  Again(i) \/ Apart(rFrom, rTo, i)
  <2>1. InRead /\ Cascade
    BY <1>R DEF Rereading, InRead, Cascade
  <2>2. PICK j \in DOMAIN queue : queue[j].from = rFrom /\ queue[j].to = rTo
    BY <1>V, <2>1 DEF RangeInv, Same
  <2>. QED  BY <1>R, <1>V, <2>2 DEF RangeInv, Same, Apart
<1>F. ASSUME UNCHANGED <<queue, events, fork, head>>,
             Rereading => Rereading' /\ UNCHANGED <<rFrom, rTo>>
      PROVE  WholeRangesVouch'
  BY <1>F, <1>V DEF WholeRangesVouch, LogsOf, Hash
<1>1. CASE Before \/ Around
  <2>1. UNCHANGED <<queue, events, fork, head>> /\ ~Rereading
    BY <1>1, <1>T DEF Before, Around, Rereading
  <2>. QED  BY <1>F, <2>1
<1>2. CASE PollNew
  <2>1. UNCHANGED <<queue, events, fork, head>> /\ ~Rereading
    BY <1>2 DEF PollNew, Rereading
  <2>. QED  BY <1>F, <2>1
<1>3. CASE FetchEvents \/ GetFromBlock \/ GetToBlock \/ UNCHANGED vars
  <2>1. UNCHANGED <<queue, events, fork, head, rFrom, rTo, reread, reorg>>
    BY <1>3 DEF FetchEvents, GetFromBlock, GetToBlock, vars
  <2>2. Rereading => Rereading'
    BY <1>3, <2>1 DEF FetchEvents, GetFromBlock, GetToBlock, vars, Rereading
  <2>. QED  BY <1>F, <2>1, <2>2
<1>4. CASE EmitRange
  BY <1>F, <1>4 DEF EmitRange, Rereading
(* events come and go in the range of the read only                        *)
<1>5. ASSUME UNCHANGED <<queue, fork, head, rFrom, rTo>>,
             \A e : ~(rFrom <= e[1] /\ e[1] <= rTo) => (e \in events' <=> e \in events),
             \A e \in events' : e[1] \in Nat,
             \A i \in DOMAIN queue : Again(i)' \/ (~Again(i) /\ Apart(rFrom, rTo, i))
      PROVE  WholeRangesVouch'
  <2>1. SUFFICES ASSUME NEW i \in DOMAIN queue, Matching(i)', ~Again(i)'
                 PROVE  Vouched(i)'
    BY <1>5, <1>HP
  <2>2. Matching(i) /\ ~Again(i) /\ Apart(rFrom, rTo, i)
    BY <1>5, <2>1 DEF Hash
  <2>3. Vouched(i)
    BY <1>H, <1>V, <2>2
  <2>4. Span(queue[i].from, queue[i].to)' = Span(queue[i].from, queue[i].to)
    BY <1>5, <1>N, <2>2 DEF Span, Apart
  <2>5. LogsOf(queue[i].from, queue[i].to)' = LogsOf(queue[i].from, queue[i].to)
    BY <1>5 DEF LogsOf, Hash
  <2>. QED  BY <2>3, <2>4, <2>5
<1>6. CASE StoreAll
  <2>1. /\ pc = "store" /\ pc' = "blocks" /\ events' = events \cup logs
        /\ UNCHANGED <<queue, fork, head, rFrom, rTo, from, reread, reorg>>
    BY <1>6 DEF StoreAll
  <2>2. \A e \in logs : rFrom <= e[1] /\ e[1] <= rTo
    BY <1>N, <1>V, <2>1, LogsInRange DEF SpanInv
  <2>3. InRead /\ InLoop /\ reorg
    BY <1>T, <1>V, <2>1 DEF InRead, InLoop, ReadInv, SteadyInv
  <2>4. ASSUME NEW i \in DOMAIN queue
        PROVE  Again(i)' \/ (~Again(i) /\ Apart(rFrom, rTo, i))
    <3>1. CASE reread
      <4>1. Rereading /\ Rereading'
        BY <2>1, <2>3, <3>1 DEF Rereading
      <4>2. Again(i)' <=> Again(i)
        BY <2>1, <4>1
      <4>. QED  BY <1>R, <4>1, <4>2
    <3>2. CASE ~reread
      <4>1. rFrom = from /\ Bound = from /\ ~Rereading
        BY <1>T, <2>1, <2>3, <3>2 DEF ReadInv, Cascade, Bound, Rereading
      <4>2. queue[i].to < rFrom
        BY <1>V, <2>3, <4>1 DEF BoundInv
      <4>. QED  BY <4>1, <4>2 DEF Apart
    <3>. QED  BY <3>1, <3>2
  <2>5. \A e : ~(rFrom <= e[1] /\ e[1] <= rTo) => (e \in events' <=> e \in events)
    BY <2>1, <2>2
  <2>. QED  BY <1>5, <1>N, <2>1, <2>4, <2>5
<1>7. CASE DeleteRange
  <2>1. /\ pc = "delete" /\ pc' = "softDelete" /\ UNCHANGED <<queue, fork, head, rFrom, rTo>>
        /\ events' = {e \in events : ~(rFrom <= e[1] /\ e[1] <= rTo)}
    BY <1>7 DEF DeleteRange
  <2>2. ~Rereading /\ Rereading'
    BY <2>1 DEF Rereading
  <2>3. PICK j \in DOMAIN queue : queue[j].from = rFrom /\ queue[j].to = rTo
    BY <1>V, <2>1 DEF RangeInv, Same, InRead, Cascade
  <2>4. \A i \in DOMAIN queue : Again(i)' \/ (~Again(i) /\ Apart(rFrom, rTo, i))
    BY <1>V, <2>1, <2>2, <2>3 DEF RangeInv, Same, Apart
  <2>. QED  BY <1>5, <1>N, <2>1, <2>4
<1>8. CASE pc = "blocks" /\ reorg /\ RecordRange
  <2> DEFINE doc == [from |-> rFrom, to |-> rTo, toHash |-> toHash, isDeleted |-> FALSE]
  <2>1. /\ pc = "blocks" /\ queue' = Append(queue, doc)
        /\ UNCHANGED <<events, fork, head, rFrom, rTo>>
    BY <1>8 DEF RecordRange
  <2>2. doc.from = rFrom /\ doc.to = rTo
    OBVIOUS
  <2> HIDE DEF doc
  <2>3. /\ DOMAIN queue' = 1..(Len(queue) + 1)
        /\ DOMAIN queue = 1..Len(queue) /\ Len(queue) \in Nat
        /\ \A i \in DOMAIN queue : queue'[i] = queue[i]
        /\ queue'[Len(queue) + 1] = doc
    BY <1>N, <2>1
  <2>4. Span(rFrom, rTo) = LogsOf(rFrom, rTo)
    BY <1>V, <2>1 DEF SpanInv
  <2>5. \A f, t : Span(f, t)' = Span(f, t) /\ LogsOf(f, t)' = LogsOf(f, t)
    BY <2>1 DEF Span, LogsOf, Hash
  <2>6. ASSUME NEW i \in DOMAIN queue, Matching(i)'
        PROVE  Vouched(i)'
    <3>1. Matching(i)
      BY <2>1, <2>3, <2>6 DEF Hash
    <3>2. Again(i) \/ Vouched(i)
      BY <1>H, <1>V, <3>1
    <3>3. Vouched(i)
      BY <2>4, <3>2
    <3>4. queue'[i] = queue[i]
      BY <2>3
    <3>. QED  BY <2>5, <3>3, <3>4
  <2>7. \A n \in DOMAIN queue' : n = Len(queue) + 1 => Vouched(n)'
    BY <2>1, <2>2, <2>3, <2>4, <2>5
  <2>. QED  BY <1>HP, <2>3, <2>6, <2>7
<1>9. CASE SoftDelete
  <2>1. /\ pc = "softDelete" /\ pc' = "fetch" /\ queue' = SoftDeleted(rFrom, rTo)
        /\ reread' = TRUE /\ reorg' = TRUE /\ UNCHANGED <<events, fork, head, rFrom, rTo>>
    BY <1>9 DEF SoftDelete, CallRead
  <2>2. /\ DOMAIN queue' = DOMAIN queue
        /\ \A i \in DOMAIN queue : /\ queue'[i].from = queue[i].from
                                   /\ queue'[i].to = queue[i].to
                                   /\ queue'[i].toHash = queue[i].toHash
                                   /\ queue[i].isDeleted => queue'[i].isDeleted
    BY <1>T, <1>N, <2>1, SoftDeletedDocs
  <2>3. Rereading /\ Rereading'
    BY <2>1 DEF Rereading
  <2>4. ASSUME NEW i \in DOMAIN queue, Matching(i)'
        PROVE  Again(i)' \/ Vouched(i)'
    <3>1. Matching(i)
      BY <2>1, <2>2, <2>4 DEF Hash
    <3>2. Again(i) \/ Vouched(i)
      BY <1>H, <1>V, <3>1
    <3>3. \A f, t : Span(f, t)' = Span(f, t) /\ LogsOf(f, t)' = LogsOf(f, t)
      BY <2>1 DEF Span, LogsOf, Hash
    <3>. QED  BY <2>1, <2>2, <2>3, <3>2, <3>3
  <2>. QED  BY <1>HP, <2>2, <2>4
(* the chain moves on, or a part of it is replaced                         *)
<1>10. ASSUME UNCHANGED <<queue, events, pc, rFrom, rTo, reread, reorg>>,
              head' \in Nat, head <= head',
              \A i \in DOMAIN queue : Matching(i)' =>
                 \A x \in Blocks : x <= queue[i].to => fork'[x] = fork[x]
       PROVE  WholeRangesVouch'
  <2>1. SUFFICES ASSUME NEW i \in DOMAIN queue, Matching(i)'
                 PROVE  Again(i)' \/ Vouched(i)'
    BY <1>10, <1>HP
  <2>2. queue[i] \in Doc
    BY <1>N
  <2>3. Matching(i)
    <3>1. queue[i].to \in Blocks /\ queue[i].to \in Nat
      BY <1>N, <2>2 DEF Doc
    <3>2. fork'[queue[i].to] = fork[queue[i].to]
      BY <1>10, <2>1, <3>1
    <3>. QED  BY <1>10, <2>1, <3>2 DEF Hash
  <2>4. Again(i) \/ Vouched(i)
    BY <1>H, <1>V, <2>3
  <2>5. CASE Again(i)
    BY <1>10, <2>5 DEF Rereading
  <2>6. CASE Vouched(i)
    <3>1. queue[i].from \in Nat /\ queue[i].to \in Nat /\ queue[i].to <= head
      BY <1>N, <1>T DEF RangesMined
    <3>2. PICK f \in Nat, t \in Nat : f = queue[i].from /\ t = queue[i].to
      BY <3>1
    <3>3. LogsOf(f, t)' = LogsOf(f, t)
      BY <1>10, <2>1, <3>1, <3>2, SettledLogs
    <3>4. LogsOf(queue[i].from, queue[i].to)' = LogsOf(queue[i].from, queue[i].to)
      BY <1>10, <3>2, <3>3 DEF LogsOf, Hash
    <3>5. Span(queue[i].from, queue[i].to)' = Span(queue[i].from, queue[i].to)
      BY <1>10 DEF Span
    <3>. QED  BY <2>6, <3>4, <3>5
  <2>. QED  BY <2>4, <2>5, <2>6
<1>11. CASE Mine
  <2>1. /\ head' = head + 1 /\ fork' = [fork EXCEPT ![head + 1] = reorgs]
        /\ UNCHANGED <<queue, events, pc, rFrom, rTo, reread, reorg>>
    BY <1>11 DEF Mine
  <2>2. \A i \in DOMAIN queue, x \in Blocks : x <= queue[i].to => fork'[x] = fork[x]
    BY <1>N, <1>T, <2>1 DEF RangesMined, TypeOK
  <2>. QED  BY <1>10, <1>N, <2>1, <2>2
<1>12. ASSUME pc = "wait", NEW b \in Blocks, Reorg(b) PROVE WholeRangesVouch'
  <2>1. /\ fork' = [x \in Blocks |-> IF b <= x /\ x <= head THEN reorgs + 1 ELSE fork[x]]
        /\ UNCHANGED <<queue, events, head, pc, rFrom, rTo, reread, reorg>>
    BY <1>12 DEF Reorg
  <2>2. ASSUME NEW i \in DOMAIN queue, Matching(i)', NEW x \in Blocks, x <= queue[i].to
        PROVE  fork'[x] = fork[x]
    <3>0. queue[i] \in Doc
      BY <1>N
    <3>1. queue[i].to \in Blocks /\ queue[i].to <= head
      BY <1>T, <3>0 DEF Doc, RangesMined
    <3>2. CASE b <= queue[i].to
      <4>1. Hash(queue[i].to)' = <<queue[i].to, reorgs + 1>>
        BY <1>N, <2>1, <3>1, <3>2 DEF Hash
      <4>2. queue[i].toHash = <<queue[i].to, reorgs + 1>>
        BY <2>1, <2>2, <4>1
      <4>3. queue[i].toHash # NoHash /\ queue[i].toHash[2] = reorgs + 1
        BY <4>2 DEF NoHash
      <4>4. reorgs \in Nat
        BY <1>T DEF TypeOK
      <4>. QED  BY <1>V, <4>3, <4>4 DEF HashInv
    <3>3. CASE ~(b <= queue[i].to)
      BY <1>N, <2>1, <2>2, <3>1, <3>3
    <3>. QED  BY <3>2, <3>3
  <2>. QED  BY <1>10, <1>N, <2>1, <2>2
<1>. QED  BY <1>1, <1>2, <1>3, <1>4, <1>6, <1>7, <1>8, <1>9, <1>11, <1>12 DEF UndisturbedNext

LEMMA VouchInit == Init => VouchInv
<1> SUFFICES ASSUME Init PROVE VouchInv
  OBVIOUS
<1>1. DOMAIN queue = {} /\ queue = <<>> /\ events = {} /\ pc = "idle"
  BY DEF Init
<1>2. SteadyInv
  BY <1>1 DEF Init, NoTask, SteadyInv, IsLive
<1>3. \A b \in Blocks : fork[b] <= reorgs
  BY DEF Init
<1>. QED  BY <1>1, <1>2, <1>3 DEF VouchInv, BoundInv, HashInv, RangeInv, SpanInv, InLoop, InRead,
             WholeRangesVouch

(* While a live task runs undisturbed, and whatever reorganisations it     *)
(* meets, a live document whose hash is still the chain's has exactly the  *)
(* canonical events in its range, unless that range is being read again.   *)
THEOREM UndisturbedVouches == Undisturbed => (Spec => []WholeRangesVouch)
<1> SUFFICES ASSUME Undisturbed PROVE Spec => []WholeRangesVouch
  OBVIOUS
<1>1. RangesInv /\ VouchInv /\ [Next]_vars => RangesInv' /\ VouchInv'
  <2> SUFFICES ASSUME RangesInv, VouchInv, [Next]_vars PROVE RangesInv' /\ VouchInv'
    OBVIOUS
  <2>1. SteadyInv' /\ UndisturbedNext
    BY UndisturbedStep DEF VouchInv
  <2>2. HashInv'
    BY HashStep DEF VouchInv, Undisturbed
  <2>. QED  BY <2>1, <2>2, RangesStep, BoundStep, ApartStep, SpanStep, VouchesStep DEF VouchInv
<1>2. VouchInv => WholeRangesVouch
  BY DEF VouchInv
<1>. QED  BY <1>1, <1>2, RangesInit, VouchInit, PTL DEF Spec
=============================================================================
