-------------------------- MODULE BatchJobsProofs --------------------------
(* Proofs about BatchJobs, for any collections, spans and faults: what the *)
(* lazy mint indexer stores and deletes, what the import announces and     *)
(* leaves out, what a scan visits and what the indexers report.            *)
EXTENDS BatchJobs, FiniteSetTheorems, TLAPS

-----------------------------------------------------------------------------
(* THE LAZY MINT INDEXER                                                   *)

(* Where a run takes up the work: behind the last range recorded below the *)
(* end of the span.  The range at the end of the span does not count.      *)
LastEnd == Max({r[2] : r \in RecordedBelow})

Resume == IF RecordedBelow = {} THEN From ELSE LastEnd + 1

Known(b) == b \in processed \cup byReader \cup cut

(* An event that will be deleted when the next run resumes.                *)
Doomed(b) ==
    /\ lazyStage \in {"off", "latest", "delete"}
    /\ RecordedBelow # {} /\ Resume <= b /\ b < Resume + limit

InHand(b) == lazyStage \in {"record", "process"} /\ b \in found

LazyTypes ==
    /\ limit \in Limits \cup {0}
    /\ lazyStage \in {"off", "latest", "delete", "fetch", "save", "record", "process", "done"}
    /\ block \in Nat
    /\ UNION {events, found, byReader} \subseteq Chain
    /\ recorded \subseteq Nat \X Nat
    /\ limit = 0 => lazyStage = "off" /\ recorded = {} /\ byReader = {}

ResumeInv ==
    /\ Resume \in From..To
    /\ RecordedBelow # {} => LastEnd \in Nat /\ \A r \in RecordedBelow : r[2] <= LastEnd
    /\ lazyStage \in {"delete", "fetch", "save", "record"} => block = Resume
    /\ lazyStage = "process" =>
          /\ block \in From..To
          /\ Resume = IF RangeTo < To THEN RangeTo + 1 ELSE block

StoredInv ==
    /\ \A b \in Chain : From <= b /\ b < Resume => b \in events
    /\ lazyStage \in {"save", "record", "process"} => found \subseteq block..RangeTo
    /\ lazyStage = "save" => Chain \cap (block..RangeTo) \subseteq events \cup found
    /\ lazyStage \in {"record", "process"} => Chain \cap (block..RangeTo) \subseteq events
    /\ lazyStage = "done" => Chain \cap (From..To) \subseteq events
    /\ \A b \in events : Known(b) \/ Doomed(b) \/ InHand(b)

LazyInv == LazyTypes /\ ResumeInv /\ StoredInv

Divides == (To + 1 - From) % limit = 0

BeyondInv ==
    limit # 0 /\ Divides =>
       /\ (To + 1 - Resume) % limit = 0
       /\ byReader \ (From..To) \subseteq events

LEMMA MaxIs ==
  ASSUME NEW S \in SUBSET Nat, NEW m \in S, \A x \in S : x <= m
  PROVE  Max(S) = m
<1>1. \E x \in S : \A y \in S : x >= y
  OBVIOUS
<1>2. Max(S) \in S /\ \A y \in S : Max(S) >= y
  BY <1>1 DEF Max
<1>3. Max(S) \in Nat /\ m \in Nat /\ Max(S) >= m /\ Max(S) <= m
  BY <1>2
<1> QED BY <1>3

LEMMA ResumeStays ==
  ASSUME recorded' = recorded
  PROVE  RecordedBelow' = RecordedBelow /\ LastEnd' = LastEnd /\ Resume' = Resume
BY DEF RecordedBelow, LastEnd, Resume

(* A range that ends below the end of the span is the last one then.       *)
LEMMA ResumeMoves ==
  ASSUME LazyInv, lazyStage = "record", recorded' = recorded \cup {<<block, RangeTo>>}
  PROVE  /\ block \in From..To /\ RangeTo \in block..To
         /\ Resume' = IF RangeTo < To THEN RangeTo + 1 ELSE block
         /\ RecordedBelow' # {} =>
               LastEnd' \in Nat /\ \A r \in RecordedBelow' : r[2] <= LastEnd'
<1> USE LazyMintAssumption
<1>1. /\ block = Resume /\ block \in From..To
      /\ limit \in Nat \ {0} /\ recorded \subseteq Nat \X Nat
  BY DEF LazyInv, LazyTypes, ResumeInv
<1>2. RangeTo \in block..To
  BY <1>1 DEF RangeTo
<1>3. RecordedBelow' = {r \in recorded \cup {<<block, RangeTo>>} : r[2] < To}
  BY DEF RecordedBelow
<1>4. CASE RangeTo < To
  <2>1. RecordedBelow' = RecordedBelow \cup {<<block, RangeTo>>}
    BY <1>3, <1>4 DEF RecordedBelow
  <2>2. \A r \in RecordedBelow' : r[2] \in Nat /\ r[2] <= RangeTo
    <3>1. \A r \in RecordedBelow : r[2] \in Nat
      BY <1>1 DEF RecordedBelow
    <3>2. RecordedBelow # {} => \A r \in RecordedBelow : r[2] < block
      BY <1>1, <3>1 DEF LazyInv, ResumeInv, Resume
    <3> QED BY <1>1, <1>2, <2>1, <3>1, <3>2
  <2> DEFINE S == {r[2] : r \in RecordedBelow'}
  <2>3. S \in SUBSET Nat /\ RangeTo \in S /\ \A x \in S : x <= RangeTo
    <3>1. <<block, RangeTo>> \in RecordedBelow' /\ <<block, RangeTo>>[2] = RangeTo
      BY <2>1
    <3> QED BY <2>2, <3>1
  <2>4. Max(S) = RangeTo
    BY <2>3, MaxIs
  <2>5. LastEnd' = RangeTo
    BY <2>4 DEF LastEnd
  <2>6. Resume' = RangeTo + 1
    BY <2>1, <2>5 DEF Resume
  <2>7. RangeTo \in Nat
    BY <1>1, <1>2
  <2> QED BY <1>1, <1>2, <1>4, <2>2, <2>5, <2>6, <2>7
<1>5. CASE RangeTo = To
  <2>1. RecordedBelow' = RecordedBelow
    BY <1>3, <1>5 DEF RecordedBelow
  <2>2. LastEnd' = LastEnd /\ Resume' = Resume
    BY <2>1 DEF LastEnd, Resume
  <2> QED BY <1>1, <1>2, <1>5, <2>1, <2>2 DEF LazyInv, ResumeInv
<1> QED BY <1>1, <1>2, <1>4, <1>5

LEMMA LazyTypesInductive ==
  ASSUME LazyInv, [Next]_vars
  PROVE  LazyTypes'
<1> USE LazyMintAssumption DEF LazyTypes, LazyInv
<1>0. CASE UNCHANGED lazyVars
  BY <1>0 DEF lazyVars, outcomes
<1>1. ASSUME NEW l \in Limits, LazyStart(l) PROVE LazyTypes'
  BY <1>1 DEF LazyStart, outcomes
<1>2. CASE GetLatest
  BY <1>2 DEF GetLatest, outcomes, ResumeInv, Resume, LastEnd
<1>3. CASE DeleteWindow \/ FetchNew \/ SaveNew \/ LazyAgain
  BY <1>3 DEF DeleteWindow, FetchNew, SaveNew, LazyAgain, outcomes
<1>4. CASE RecordRange
  BY <1>4, ResumeMoves DEF RecordRange, outcomes
<1>5. CASE ProcessNew
  BY <1>5 DEF ProcessNew
<1>6. CASE SaveMeetsDuplicate \/ LazyCrash
  BY <1>6 DEF SaveMeetsDuplicate, LazyCrash, Ends
<1>7. ASSUME NEW b \in Chain, ReaderStores(b) PROVE LazyTypes'
  BY <1>7 DEF ReaderStores
<1> QED BY <1>0, <1>1, <1>2, <1>3, <1>4, <1>5, <1>6, <1>7
  DEF Next, Import, Lazy, Scan, LazyNext, LazyStep, vars

LEMMA ResumeInvInductive ==
  ASSUME LazyInv, [Next]_vars
  PROVE  ResumeInv'
<1> USE LazyMintAssumption DEF ResumeInv, LazyInv
<1>T. block \in Nat /\ limit \in Nat /\ (lazyStage # "off" => limit # 0)
  BY DEF LazyTypes
<1>0. CASE UNCHANGED lazyVars
  BY <1>0, ResumeStays DEF lazyVars, outcomes, RangeTo
<1>1. ASSUME NEW l \in Limits, LazyStart(l) PROVE ResumeInv'
  BY <1>1, ResumeStays DEF LazyStart, outcomes
<1>2. CASE GetLatest
  <2>1. /\ recorded' = recorded /\ lazyStage' \in {"fetch", "delete"}
        /\ block' = Resume
    BY <1>2 DEF GetLatest, Resume, LastEnd
  <2> QED BY <2>1, ResumeStays
<1>3. CASE DeleteWindow \/ FetchNew \/ SaveNew \/ LazyAgain
  BY <1>3, ResumeStays DEF DeleteWindow, FetchNew, SaveNew, LazyAgain, outcomes
<1>4. CASE RecordRange
  <2>1. lazyStage' = "process" /\ RangeTo' = RangeTo /\ block' = block
    BY <1>4 DEF RecordRange, RangeTo
  <2>2. /\ block \in From..To /\ RangeTo \in block..To
        /\ Resume' = IF RangeTo < To THEN RangeTo + 1 ELSE block
        /\ RecordedBelow' # {} =>
              LastEnd' \in Nat /\ \A r \in RecordedBelow' : r[2] <= LastEnd'
    BY <1>4, ResumeMoves DEF RecordRange
  <2>3. Resume' \in From..To
    BY <2>2
  <2> QED BY <2>1, <2>2, <2>3
<1>5. CASE ProcessNew
  <2>1. /\ lazyStage = "process" /\ block' = block + limit /\ recorded' = recorded
        /\ \/ lazyStage' = "fetch" /\ block + limit <= To
           \/ lazyStage' = "done"
    BY <1>5 DEF ProcessNew
  <2>2. block + limit <= To => Resume = block + limit
    BY <1>T, <2>1 DEF RangeTo
  <2> QED BY <2>1, <2>2, ResumeStays
<1>6. CASE SaveMeetsDuplicate \/ LazyCrash
  BY <1>6, ResumeStays DEF SaveMeetsDuplicate, LazyCrash, Ends
<1>7. ASSUME NEW b \in Chain, ReaderStores(b) PROVE ResumeInv'
  BY <1>7, ResumeStays DEF ReaderStores, RangeTo
<1> QED BY <1>0, <1>1, <1>2, <1>3, <1>4, <1>5, <1>6, <1>7
  DEF Next, Import, Lazy, Scan, LazyNext, LazyStep, vars

(* A run that ends has counted what it saved as cut, but for what the next *)
(* one will delete.                                                        *)
LEMMA EndsCounts ==
  ASSUME LazyInv, NEW saved \in SUBSET found, Ends(saved), lazyStage \in {"save", "record", "process"},
         NEW b \in saved
  PROVE  Known(b)' \/ Doomed(b)'
<1> USE LazyMintAssumption DEF LazyInv
<1>1. /\ lazyStage' = "off" /\ cut' = cut \cup Spared(saved)
      /\ recorded' = recorded /\ limit' = limit
  BY DEF Ends
<1>2. CASE b \in Spared(saved)
  BY <1>1, <1>2 DEF Known
<1>3. CASE b \notin Spared(saved)
  <2>1. RecordedBelow # {} /\ ~(b <= LastEnd)
    BY <1>3 DEF Spared, LastEnd
  <2>2. b \in Nat /\ block \in Nat /\ limit \in Nat \ {0} /\ b \in block..RangeTo
    BY DEF LazyTypes, StoredInv
  <2>3. Resume = LastEnd + 1 /\ LastEnd \in Nat
    BY <2>1 DEF Resume, ResumeInv
  <2>4. Resume <= b
    BY <2>1, <2>2, <2>3
  <2>5. b < Resume + limit
    <3>1. CASE Resume = block
      BY <2>2, <3>1 DEF RangeTo
    <3>2. CASE Resume = RangeTo + 1
      BY <2>2, <2>4, <3>2 DEF RangeTo
    <3> QED BY <3>1, <3>2 DEF ResumeInv
  <2> QED BY <1>1, <2>1, <2>4, <2>5, ResumeStays DEF Doomed
<1> QED BY <1>2, <1>3

LEMMA StoredInvInductive ==
  ASSUME LazyInv, [Next]_vars
  PROVE  StoredInv'
<1> USE LazyMintAssumption DEF LazyInv
<1>T. /\ block \in Nat /\ limit \in Nat /\ (lazyStage # "off" => limit # 0)
      /\ Chain \subseteq Nat /\ events \subseteq Chain /\ found \subseteq Chain
      /\ Resume \in From..To
  BY DEF LazyTypes, ResumeInv
<1>0. CASE UNCHANGED lazyVars
  BY <1>0, ResumeStays DEF lazyVars, outcomes, RangeTo, StoredInv, Known, Doomed, InHand
<1>1. ASSUME NEW l \in Limits, LazyStart(l) PROVE StoredInv'
  <2>1. /\ lazyStage' = "latest" /\ UNCHANGED <<events, recorded, processed, byReader, cut>>
        /\ lazyStage = "off" /\ recorded = {}
    BY <1>1 DEF LazyStart, outcomes, LazyTypes
  <2>2. RecordedBelow = {}
    BY <2>1 DEF RecordedBelow
  <2> QED BY <2>1, <2>2, ResumeStays DEF StoredInv, Known, Doomed, InHand
<1>2. CASE GetLatest
  <2>1. /\ recorded' = recorded /\ lazyStage = "latest"
        /\ \/ lazyStage' = "fetch" /\ RecordedBelow = {}
           \/ lazyStage' = "delete"
        /\ UNCHANGED <<limit, events, found, processed, byReader, cut>>
    BY <1>2 DEF GetLatest, outcomes
  <2> QED BY <2>1, ResumeStays DEF StoredInv, Known, Doomed, InHand
<1>3. CASE DeleteWindow
  <2>1. /\ recorded' = recorded /\ lazyStage = "delete" /\ lazyStage' = "fetch"
        /\ events' = events \ Window /\ block = Resume
        /\ UNCHANGED <<limit, block, found, processed, byReader, cut>>
    BY <1>3 DEF DeleteWindow, outcomes, ResumeInv
  <2>2. \A b \in events' : Known(b)'
    <3> SUFFICES ASSUME NEW b \in events' PROVE Known(b)'
      OBVIOUS
    <3>1. ~Doomed(b) /\ b \in events
      BY <1>T, <2>1 DEF Doomed, Window
    <3> QED BY <2>1, <3>1 DEF StoredInv, Known, InHand
  <2>3. \A b \in Chain : From <= b /\ b < Resume' => b \in events'
    BY <1>T, <2>1, ResumeStays DEF StoredInv, Window
  <2> QED BY <2>1, <2>2, <2>3 DEF StoredInv
<1>4. CASE FetchNew
  <2>1. /\ recorded' = recorded /\ lazyStage = "fetch"
        /\ found' = (Chain \cap (block..RangeTo)) \ events
        /\ lazyStage' = IF found' = {} THEN "record" ELSE "save"
        /\ UNCHANGED <<limit, block, events, processed, byReader, cut>>
        /\ RangeTo' = RangeTo
    BY <1>4 DEF FetchNew, outcomes, RangeTo
  <2> QED BY <2>1, ResumeStays DEF StoredInv, Known, Doomed, InHand
<1>5. CASE SaveNew
  <2>1. /\ recorded' = recorded /\ lazyStage = "save" /\ lazyStage' = "record"
        /\ events' = events \cup found
        /\ UNCHANGED <<limit, block, found, processed, byReader, cut>>
        /\ RangeTo' = RangeTo
    BY <1>5 DEF SaveNew, outcomes, RangeTo
  <2> QED BY <2>1, ResumeStays DEF StoredInv, Known, Doomed, InHand
<1>6. CASE RecordRange
  <2>1. /\ recorded' = recorded \cup {<<block, RangeTo>>}
        /\ lazyStage = "record" /\ lazyStage' = "process"
        /\ UNCHANGED <<limit, block, events, found, processed, byReader, cut>>
        /\ RangeTo' = RangeTo
    BY <1>6 DEF RecordRange, outcomes, RangeTo
  <2>2. /\ block = Resume /\ RangeTo \in block..To
        /\ Resume' = IF RangeTo < To THEN RangeTo + 1 ELSE block
    BY <2>1, ResumeMoves DEF ResumeInv
  <2>3. ASSUME NEW b \in Chain, From <= b, b < Resume' PROVE b \in events'
    <3>1. CASE b < block
      BY <2>1, <2>2, <2>3, <3>1 DEF StoredInv
    <3>2. CASE block <= b /\ b <= RangeTo
      BY <1>T, <2>1, <3>2 DEF StoredInv
    <3> QED BY <1>T, <2>2, <2>3, <3>1, <3>2
  <2> QED BY <2>1, <2>3 DEF StoredInv, Known, Doomed, InHand
<1>7. CASE ProcessNew
  <2>1. /\ recorded' = recorded /\ lazyStage = "process"
        /\ processed' = processed \cup found /\ found' = {}
        /\ lazyStage' = IF block + limit <= To THEN "fetch" ELSE "done"
        /\ UNCHANGED <<limit, events, byReader, cut>>
    BY <1>7 DEF ProcessNew
  <2>2. \A b \in events' : Known(b)'
    BY <2>1 DEF StoredInv, Known, Doomed, InHand
  <2>3. ASSUME lazyStage' = "done", NEW b \in Chain \cap (From..To) PROVE b \in events
    <3>1. RangeTo = To /\ Resume = block
      BY <1>T, <2>1, <2>3 DEF RangeTo, ResumeInv
    <3>2. CASE b < block
      BY <1>T, <2>3, <3>1, <3>2 DEF StoredInv
    <3>3. CASE b \in block..RangeTo
      BY <2>1, <3>3 DEF StoredInv
    <3> QED BY <1>T, <2>3, <3>1, <3>2, <3>3
  <2>4. lazyStage' \in {"fetch", "done"}
    BY <2>1
  <2> QED BY <2>1, <2>2, <2>3, <2>4, ResumeStays DEF StoredInv
<1>8. CASE SaveMeetsDuplicate
  <2>1. PICK before \in SUBSET found : events' = events \cup before /\ Ends(before)
    BY <1>8 DEF SaveMeetsDuplicate
  <2>2. lazyStage = "save"
    BY <1>8 DEF SaveMeetsDuplicate
  <2>3. /\ lazyStage' = "off" /\ cut \subseteq cut' /\ found' = {}
        /\ UNCHANGED <<limit, recorded, processed, byReader>>
    BY <2>1 DEF Ends
  <2>4. \A b \in before : Known(b)' \/ Doomed(b)'
    BY <2>1, <2>2, EndsCounts
  <2>5. \A b \in events : Known(b)'
    BY <2>2, <2>3 DEF StoredInv, Known, Doomed, InHand
  <2> QED BY <2>1, <2>3, <2>4, <2>5, ResumeStays DEF StoredInv
<1>9. CASE LazyCrash
  <2> DEFINE saved == IF lazyStage \in {"record", "process"} THEN found ELSE {}
  <2>1. Ends(saved) /\ events' = events /\ lazyStage \notin {"off", "done"}
    BY <1>9 DEF LazyCrash
  <2>2. /\ lazyStage' = "off" /\ cut \subseteq cut' /\ found' = {}
        /\ UNCHANGED <<limit, recorded, processed, byReader>>
    BY <2>1 DEF Ends
  <2>3. ASSUME NEW b \in events PROVE Known(b)' \/ Doomed(b)'
    <3>1. CASE Known(b)
      BY <2>2, <3>1 DEF Known
    <3>2. CASE Doomed(b)
      BY <2>2, <3>2, ResumeStays DEF Doomed
    <3>3. CASE InHand(b)
      <4>1. lazyStage \in {"save", "record", "process"} /\ b \in saved /\ saved \in SUBSET found
        BY <3>3 DEF InHand
      <4> QED BY <2>1, <4>1, EndsCounts
    <3> QED BY <3>1, <3>2, <3>3 DEF StoredInv
  <2> QED BY <2>1, <2>2, <2>3, ResumeStays DEF StoredInv
<1>10. CASE LazyAgain
  <2>1. /\ lazyStage \in {"off", "done"} /\ lazyStage' = "latest"
        /\ UNCHANGED <<limit, events, recorded, found, processed, byReader, cut>>
    BY <1>10 DEF LazyAgain, outcomes
  <2> QED BY <2>1, ResumeStays DEF StoredInv, Known, Doomed, InHand
<1>11. ASSUME NEW b \in Chain, ReaderStores(b) PROVE StoredInv'
  <2>1. /\ events' = events \cup {b} /\ byReader' = byReader \cup {b}
        /\ UNCHANGED <<limit, lazyStage, block, recorded, found, processed, cut>>
        /\ RangeTo' = RangeTo
    BY <1>11 DEF ReaderStores, RangeTo
  <2>2. \A c \in events' : Known(c)' \/ Doomed(c)' \/ InHand(c)'
    BY <2>1, ResumeStays DEF StoredInv, Known, Doomed, InHand
  <2> QED BY <2>1, <2>2, ResumeStays DEF StoredInv
<1> QED BY <1>0, <1>1, <1>2, <1>3, <1>4, <1>5, <1>6, <1>7, <1>8, <1>9, <1>10, <1>11
  DEF Next, Import, Lazy, Scan, LazyNext, LazyStep, vars

LEMMA LazyInvHolds == Spec => []LazyInv
<1>1. Init => LazyInv
  <2> SUFFICES ASSUME Init PROVE LazyInv
    OBVIOUS
  <2>1. RecordedBelow = {}
    BY DEF Init, LazyInit, RecordedBelow
  <2>2. Resume = From
    BY <2>1 DEF Resume
  <2> QED BY <2>1, <2>2, LazyMintAssumption
    DEF Init, LazyInit, LazyInv, LazyTypes, ResumeInv, StoredInv
<1>2. LazyInv /\ [Next]_vars => LazyInv'
  BY LazyTypesInductive, ResumeInvInductive, StoredInvInductive DEF LazyInv
<1> QED BY <1>1, <1>2, PTL DEF Spec

(* A command that has ended has left every event of the span stored and    *)
(* processed, unless the events reader found it or a run that ended early  *)
(* left it below where the next one resumed: for any span, limit, events   *)
(* and failures.                                                           *)
THEOREM LazyLeavesNothingOut == Spec => []LazySpanComplete
<1>1. LazyInv => LazySpanComplete
  BY DEF LazyInv, StoredInv, LazySpanComplete, Known, Doomed, InHand
<1> QED BY <1>1, LazyInvHolds, PTL

LEMMA MultipleStep ==
  ASSUME NEW x \in Nat, NEW l \in Nat \ {0}, x % l = 0, x > 0
  PROVE  l <= x /\ (x - l) % l = 0
<1>1. PICK q \in Nat : x = q * l
  OBVIOUS
<1>2. q >= 1
  BY <1>1
<1>3. q * l >= l
  BY <1>2
<1>4. (q - 1) * l = q * l - l /\ q - 1 \in Nat
  BY <1>2
<1>5. ((q - 1) * l) % l = 0
  BY <1>4
<1> QED BY <1>1, <1>3, <1>4, <1>5

LEMMA BeyondInvInductive ==
  ASSUME LazyInv, BeyondInv, [Next]_vars
  PROVE  BeyondInv'
<1> USE LazyMintAssumption DEF BeyondInv, LazyInv
<1>T. /\ block \in Nat /\ limit \in Nat /\ (lazyStage # "off" => limit # 0)
      /\ Resume \in From..To
  BY DEF LazyTypes, ResumeInv
<1>P. To + 1 - Resume \in Nat /\ To + 1 - Resume > 0
  BY <1>T
<1>1. CASE limit' # limit
  <2>1. byReader' = {} /\ recorded' = {}
    BY <1>1 DEF Next, Import, Lazy, Scan, LazyNext, LazyStep, vars, lazyVars, LazyStart,
      GetLatest, DeleteWindow, FetchNew, SaveNew, RecordRange, ProcessNew,
      SaveMeetsDuplicate, LazyCrash, Ends, LazyAgain, ReaderStores, outcomes, LazyTypes
  <2>2. Resume' = From
    BY <2>1 DEF Resume, RecordedBelow
  <2> QED BY <2>1, <2>2 DEF Divides
<1>2. CASE limit' = limit /\ limit # 0 /\ Divides
  <2>1. (To + 1 - Resume) % limit = 0 /\ byReader \ (From..To) \subseteq events
    BY <1>2
  <2>2. Resume + limit <= To + 1 /\ (To + 1 - (Resume + limit)) % limit = 0
    <3> DEFINE x == To + 1 - Resume
    <3>0. x \in Nat /\ x > 0 /\ limit \in Nat \ {0} /\ x % limit = 0
      BY <1>T, <1>P, <1>2, <2>1
    <3> HIDE DEF x
    <3>1. limit <= x /\ (x - limit) % limit = 0
      BY <3>0, MultipleStep
    <3> USE DEF x
    <3>2. x - limit = To + 1 - (Resume + limit)
      BY <1>T
    <3>3. Resume + limit <= To + 1
      BY <1>T, <3>1
    <3> QED BY <3>1, <3>2, <3>3
  <2>3. (To + 1 - Resume') % limit = 0
    <3>1. CASE RecordRange
      <4>1. block = Resume /\ Resume' = IF RangeTo < To THEN RangeTo + 1 ELSE block
        BY <3>1, ResumeMoves DEF RecordRange, ResumeInv
      <4>2. Resume' = Resume \/ Resume' = Resume + limit
        BY <1>T, <4>1 DEF RangeTo
      <4> QED BY <2>1, <2>2, <4>2
    <3>2. CASE recorded' = recorded
      BY <2>1, <3>2, ResumeStays
    <3> QED BY <3>1, <3>2 DEF Next, Import, Lazy, Scan, LazyNext, LazyStep, vars, lazyVars,
      LazyStart, GetLatest, DeleteWindow, FetchNew, SaveNew, ProcessNew,
      SaveMeetsDuplicate, LazyCrash, Ends, LazyAgain, ReaderStores, outcomes
  <2>4. byReader' \ (From..To) \subseteq events'
    <3>1. CASE DeleteWindow
      <4>1. events' = events \ Window /\ byReader' = byReader /\ block = Resume
        BY <3>1 DEF DeleteWindow, outcomes, ResumeInv
      <4>2. Window \subseteq From..To
        BY <1>T, <2>2, <4>1 DEF Window
      <4> QED BY <2>1, <4>1, <4>2
    <3>2. ASSUME NEW b \in Chain, ReaderStores(b) PROVE byReader' \ (From..To) \subseteq events'
      BY <2>1, <3>2 DEF ReaderStores
    <3>3. CASE byReader' = byReader /\ events \subseteq events'
      BY <2>1, <3>3
    <3> QED BY <3>1, <3>2, <3>3 DEF Next, Import, Lazy, Scan, LazyNext, LazyStep, vars,
      lazyVars, LazyStart, GetLatest, FetchNew, SaveNew, RecordRange, ProcessNew,
      SaveMeetsDuplicate, LazyCrash, Ends, LazyAgain, outcomes
  <2> QED BY <1>2, <2>3, <2>4 DEF Divides
<1> QED BY <1>1, <1>2 DEF Divides

(* What the events reader has stored beyond the span stays there, whatever *)
(* is deleted on resuming, when the limit divides the span.                *)
THEOREM LazyKeepsBeyondTheSpan == Spec => []BeyondSpanKept
<1>1. Init => BeyondInv
  BY DEF Init, LazyInit, BeyondInv
<1>2. LazyInv /\ BeyondInv /\ [Next]_vars => BeyondInv'
  BY BeyondInvInductive
<1>3. BeyondInv => BeyondSpanKept
  BY DEF BeyondInv, BeyondSpanKept, Divides
<1> QED BY <1>1, <1>2, <1>3, LazyInvHolds, PTL DEF Spec

-----------------------------------------------------------------------------
(* THE IMPORT                                                              *)

(* A mint that is about to be announced has just been inserted.            *)
SentInv ==
    /\ sent \in [Mints -> {0, 1}]
    /\ \A m \in Mints : sent[m] = 1 => m \in preTokens
    /\ preStage = "emit" => \A m \in Mints : Current(m) => sent[m] = 0 /\ m \in preTokens

LEMMA OneCurrent ==
  ASSUME NEW m \in Mints, NEW n \in Mints, Current(m), Current(n)
  PROVE  m = n
<1>1. m \in Nat /\ n \in Nat /\ m <= n /\ n <= m
  BY PreContractsAssumption DEF Current
<1> QED BY <1>1

LEMMA SentInvInductive ==
  ASSUME SentInv, [Next]_vars
  PROVE  SentInv'
<1>0. CASE UNCHANGED preVars
  BY <1>0 DEF preVars, importVars, importedVars, SentInv, Current
<1>1. CASE PreStart \/ NextRange \/ SaveEvents \/ RangeDone \/ PreCrash
  BY <1>1 DEF PreStart, NextRange, SaveEvents, RangeDone, PreCrash, importedVars, SentInv
<1>2. ASSUME NEW m \in Mints, SaveContract(m) PROVE SentInv'
  BY <1>2 DEF SaveContract, SentInv
<1>3. ASSUME NEW m \in Mints, SaveToken(m) PROVE SentInv'
  <2>1. sent' = sent /\ preTokens \subseteq preTokens'
    BY <1>3 DEF SaveToken
  <2>2. ASSUME preStage' = "emit", NEW n \in Mints, Current(n)'
        PROVE  sent'[n] = 0 /\ n \in preTokens'
    <3>1. pending' = pending /\ preTokens' = preTokens \cup {m} /\ m \notin preTokens
      BY <1>3, <2>2 DEF SaveToken, Emits
    <3>2. n = m
      BY <1>3, <2>2, <3>1, OneCurrent DEF SaveToken, Current
    <3> QED BY <2>1, <3>1, <3>2 DEF SentInv
  <2> QED BY <2>1, <2>2 DEF SentInv
<1>4. ASSUME NEW m \in Mints, EmitMint(m) PROVE SentInv'
  <2>1. sent[m] = 0 /\ m \in preTokens
    BY <1>4 DEF EmitMint, SentInv
  <2>2. preStage' = "contract" /\ preTokens' = preTokens
        /\ (sent' = sent \/ sent' = [sent EXCEPT ![m] = @ + 1])
    BY <1>4 DEF EmitMint
  <2> QED BY <2>1, <2>2 DEF SentInv
<1> QED BY <1>0, <1>1, <1>2, <1>3, <1>4 DEF Next, Import, PreNext, PreStep, Lazy, Scan, vars

(* READ_METADATA is sent at most once for a token of the import, over all  *)
(* overlapping ranges and restarts.                                        *)
THEOREM ImportSendsOnce == Spec => []SentOnce
<1>1. Init => SentInv
  BY DEF Init, PreInit, SentInv
<1>2. SentInv /\ [Next]_vars => SentInv'
  BY SentInvInductive
<1>3. SentInv => SentOnce
  BY DEF SentInv, SentOnce
<1> QED BY <1>1, <1>2, <1>3, PTL DEF Spec

(* What the import has left behind it.  A mint is imported when it was     *)
(* stored with its contract and announced.                                 *)
Imported(m) ==
    /\ m \in preEvents \cap preTokens
    /\ PreContract[m] \in preContracts
    /\ sent[m] = 1

InLoop == preStage \in {"events", "contract", "token", "emit", "done"}

(* The blocks the loop has behind it, or has the mints of in `pending`:    *)
(* the next range begins with the block the last one has ended with.       *)
Behind(m) ==
    /\ PreFrom <= BlockOf[m]
    /\ BlockOf[m] < rangeFrom \/ (InLoop /\ BlockOf[m] <= rangeTo)

ImportInv ==
    /\ rangeFrom \in Nat /\ rangeTo \in Nat
    /\ pending \subseteq Mints /\ preTokens \subseteq Mints
    /\ preStage \in {"off", "range", "done"} => pending = {}
    /\ preStage = "off" => rangeFrom = PreFrom
    /\ preStage = "done" => rangeTo >= PreTo
    /\ preStage \in {"contract", "token", "emit"} => pending \subseteq preEvents \cup failed
    /\ preStage \in {"token", "emit"} =>
          \A m \in Mints : Current(m) => PreContract[m] \in visited
    /\ \A m \in Mints \ failed : PreContract[m] \in visited => PreContract[m] \in preContracts
    /\ \A m \in preTokens \ failed : sent[m] = 1 \/ (preStage = "emit" /\ Current(m))
    /\ \A m \in Mints \ (pending \cup failed) : Behind(m) => Imported(m)

LEMMA ImportInvInductive ==
  ASSUME SentInv, ImportInv, [Next]_vars
  PROVE  ImportInv'
<1> USE PreContractsAssumption DEF ImportInv
<1>0. CASE UNCHANGED preVars
  BY <1>0 DEF preVars, importVars, importedVars, Current, Behind, InLoop, Imported
<1>1. CASE PreStart
  BY <1>1 DEF PreStart, importedVars, Current, Behind, InLoop, Imported
<1>2. CASE NextRange
  <2>1. /\ preStage = "range" /\ preStage' = "events"
        /\ rangeTo' \in Nat
        /\ pending' = {m \in Mints : InRange(m, rangeFrom, rangeTo')}
        /\ UNCHANGED <<rangeFrom, visited, preEvents, preContracts, preTokens, sent, failed>>
    BY <1>2 DEF NextRange, importedVars
  <2>2. ASSUME NEW m \in Mints \ (pending' \cup failed'), Behind(m)'
        PROVE  Imported(m)'
    <3>1. ~InRange(m, rangeFrom, rangeTo') /\ BlockOf[m] \in Nat
      BY <2>1, <2>2
    <3>2. BlockOf[m] < rangeFrom /\ PreFrom <= BlockOf[m]
      BY <2>1, <2>2, <3>1 DEF InRange, Behind
    <3>3. Behind(m)
      BY <3>2 DEF Behind
    <3>4. Imported(m)
      <4>1. pending = {} /\ m \notin failed
        BY <2>1, <2>2
      <4> QED BY <3>3, <4>1
    <3> QED BY <2>1, <3>4 DEF Imported
  <2>3. \A m \in preTokens \ failed : sent[m] = 1
    BY <2>1
  <2> QED BY <2>1, <2>2, <2>3
<1>3. CASE SaveEvents
  BY <1>3 DEF SaveEvents, Behind, InLoop, Imported, Current
<1>4. ASSUME NEW m \in Mints, SaveContract(m) PROVE ImportInv'
  <2>1. /\ preStage = "contract" /\ preStage' = "token" /\ Current(m)
        /\ visited' = visited \cup {PreContract[m]}
        /\ preContracts \subseteq preContracts' /\ failed \subseteq failed'
        /\ UNCHANGED <<rangeFrom, rangeTo, pending, preEvents, preTokens, sent>>
    BY <1>4 DEF SaveContract
  <2>2. \A n \in Mints : Current(n)' => n = m
    BY <2>1, OneCurrent DEF Current
  <2>3. ASSUME NEW n \in Mints \ failed', PreContract[n] \in visited'
        PROVE  PreContract[n] \in preContracts'
    <3>1. CASE PreContract[n] \in visited
      BY <2>1, <2>3, <3>1
    <3>2. CASE PreContract[n] = PreContract[m] /\ PreContract[m] \notin visited
      BY <1>4, <2>3, <3>2 DEF SaveContract
    <3> QED BY <2>1, <2>3, <3>1, <3>2
  <2> QED BY <2>1, <2>2, <2>3 DEF Behind, InLoop, Imported
<1>5. ASSUME NEW m \in Mints, SaveToken(m) PROVE ImportInv'
  <2>1. /\ preStage = "token" /\ Current(m)
        /\ preTokens \subseteq preTokens' /\ preTokens' \subseteq preTokens \cup {m}
        /\ failed \subseteq failed'
        /\ UNCHANGED <<rangeFrom, rangeTo, visited, preEvents, preContracts, sent>>
    BY <1>5 DEF SaveToken
  <2>2. m \in pending /\ PreContract[m] \in visited
    BY <2>1 DEF Current
  <2>3. CASE preStage' = "emit"
    <3>1. pending' = pending /\ failed' = failed /\ preTokens' = preTokens \cup {m}
      BY <1>5, <2>3 DEF SaveToken
    <3>2. \A n \in Mints : Current(n)' => n = m
      BY <2>1, <3>1, OneCurrent DEF Current
    <3>3. Current(m)'
      BY <2>1, <3>1 DEF Current
    <3> QED BY <2>1, <2>2, <2>3, <3>1, <3>2, <3>3 DEF Behind, InLoop, Imported
  <2>4. CASE preStage' # "emit"
    <3>1. /\ preStage' = "contract" /\ pending' = pending \ {m}
          /\ m \notin failed' => m \in preTokens' /\ preTokens' = preTokens
      BY <1>5, <2>4 DEF SaveToken, Emits
    <3>2. m \notin failed' => Imported(m)'
      BY <2>1, <2>2, <3>1 DEF Imported
    <3>3. \A n \in preTokens' \ failed' : sent[n] = 1
      BY <2>1, <3>1
    <3> QED BY <2>1, <2>2, <3>1, <3>2, <3>3 DEF Behind, InLoop, Imported
  <2> QED BY <2>3, <2>4
<1>6. ASSUME NEW m \in Mints, EmitMint(m) PROVE ImportInv'
  <2>1. /\ preStage = "emit" /\ preStage' = "contract" /\ Current(m)
        /\ pending' = pending \ {m}
        /\ \/ sent' = [sent EXCEPT ![m] = @ + 1] /\ failed' = failed
           \/ sent' = sent /\ failed' = failed \cup {m}
        /\ UNCHANGED <<rangeFrom, rangeTo, visited, preEvents, preContracts, preTokens>>
    BY <1>6 DEF EmitMint
  <2>2. m \in pending /\ PreContract[m] \in visited /\ sent[m] = 0 /\ m \in preTokens
    BY <2>1 DEF Current, SentInv
  <2>3. /\ m \in failed' \/ sent'[m] = 1
        /\ \A n \in Mints : n # m => sent'[n] = sent[n]
        /\ failed \subseteq failed'
    BY <2>1, <2>2 DEF SentInv
  <2>4. m \notin failed' => Imported(m)'
    BY <2>1, <2>2, <2>3 DEF Imported
  <2>5. \A n \in preTokens' \ failed' : sent'[n] = 1
    BY <2>1, <2>2, <2>3, OneCurrent DEF SentInv
  <2> QED BY <2>1, <2>2, <2>3, <2>4, <2>5 DEF Behind, InLoop, Imported
<1>7. CASE RangeDone
  <2>1. /\ preStage = "contract" /\ pending = {} /\ pending' = {}
        /\ \/ preStage' = "done" /\ rangeFrom' = rangeFrom /\ rangeTo >= PreTo
           \/ preStage' = "range" /\ rangeFrom' = rangeTo
        /\ UNCHANGED <<rangeTo, visited, preEvents, preContracts, preTokens, sent, failed>>
    BY <1>7 DEF RangeDone, LoopEnds, importedVars
  <2>2. \A m \in Mints : BlockOf[m] \in Nat /\ (Behind(m)' => Behind(m))
    BY <2>1 DEF Behind, InLoop
  <2> QED BY <2>1, <2>2 DEF Imported
<1>8. CASE PreCrash
  <2>1. /\ preStage' = "off" /\ rangeFrom' = PreFrom /\ rangeTo' = PreFrom
        /\ pending' = {} /\ visited' = {} /\ failed \subseteq failed'
        /\ preStage = "emit" => {m \in pending : Current(m)} \subseteq failed'
        /\ UNCHANGED <<preEvents, preContracts, preTokens, sent>>
    BY <1>8 DEF PreCrash, importedVars
  <2>2. \A m \in preTokens \ failed' : sent[m] = 1
    BY <2>1 DEF Current
  <2>3. \A m \in Mints : BlockOf[m] \in Nat /\ ~Behind(m)'
    BY <2>1 DEF Behind, InLoop
  <2> QED BY <2>1, <2>2, <2>3
<1> QED BY <1>0, <1>1, <1>2, <1>3, <1>4, <1>5, <1>6, <1>7, <1>8
  DEF Next, Import, PreNext, PreStep, Lazy, Scan, vars

(* An import that has come to its end has stored every mint of the span    *)
(* with its event, its contract and its token and has announced it, but    *)
(* for those a logged error has left behind: for any span, limit and       *)
(* mints, over ranges that share a block, failed calls and restarts.       *)
THEOREM ImportLeavesNothingOut == Spec => []ImportComplete
<1>1. Init => SentInv /\ ImportInv
  BY PreContractsAssumption
  DEF Init, PreInit, SentInv, ImportInv, Behind, InLoop
<1>2. SentInv /\ ImportInv /\ [Next]_vars => SentInv' /\ ImportInv'
  BY SentInvInductive, ImportInvInductive
<1>3. ImportInv => ImportComplete
  <2> SUFFICES ASSUME ImportInv, preStage = "done",
                      NEW m \in Mints, BlockOf[m] \in PreFrom..PreTo, m \notin failed
               PROVE  Imported(m)
    BY DEF ImportComplete, Imported
  <2>1. Behind(m) /\ pending = {}
    BY PreContractsAssumption DEF ImportInv, Behind, InLoop
  <2> QED BY <2>1 DEF ImportInv
<1> QED BY <1>1, <1>2, <1>3, PTL DEF Spec

-----------------------------------------------------------------------------
(* THE SCANS                                                               *)

(* The rows up to the cursor were in one page, those after it in none; a   *)
(* row of the page that needs a message gets it before the next page.      *)
ScanInv ==
    /\ rows \subseteq Keys /\ initial \subseteq rows
    /\ cursor \in Nat
    /\ seen \in [Keys -> {0, 1}]
    /\ \A k \in Keys : seen[k] = 1 => k <= cursor
    /\ \A k \in initial : k <= cursor /\ Selected(k) => seen[k] = 1
    /\ \A k \in Keys : seen[k] = 1 /\ Needs(k) /\ ~Filtered(k) =>
          k \in messaged \cup failures \/ (k \in batch /\ scanStage \in {"rows", "died"})
    /\ scanStage = "off" => cursor = 0
    /\ scanStage = "bulk" => program \in Indexers
    /\ scanStage = "done" => Remaining = {}

LEMMA ScanInvInductive ==
  ASSUME ScanInv, [Next]_vars
  PROVE  ScanInv'
<1> USE ScansAssumption DEF ScanInv
<1>0. CASE UNCHANGED scanVars
  BY <1>0 DEF scanVars, pageVars, indexVars, Selected, Needs, Filtered, Remaining, After
<1>1. ASSUME NEW p \in Programs, NEW present \in SUBSET Keys, NEW old \in SUBSET Keys,
             ScanStart(p, present, old)
      PROVE  ScanInv'
  <2>1. cursor = 0 /\ \A k \in Keys : seen[k] = 0
    BY <1>1 DEF ScanStart
  <2> QED BY <1>1, <2>1 DEF ScanStart, pageVars, Indexers
<1>2. ASSUME NEW p \in SUBSET Keys, NEW last \in Keys, FetchPage(p, last)
      PROVE  ScanInv'
  <2>1. /\ \A k \in p : k > cursor /\ k <= last
        /\ cursor' = last /\ last \in p /\ last > cursor
        /\ \A k \in Keys : seen'[k] = IF k \in p THEN seen[k] + 1 ELSE seen[k]
        /\ seen' = [k \in Keys |-> IF k \in p THEN seen[k] + 1 ELSE seen[k]]
        /\ UNCHANGED <<program, rows, initial, messaged, failures>>
        /\ batch' = {k \in p : ~Filtered(k)}
        /\ scanStage' = IF program \in Indexers THEN "bulk" ELSE "rows"
        /\ scanStage = "fetch"
    BY <1>2 DEF FetchPage, Remaining, After
  <2>2. \A k \in p : seen[k] = 0 /\ seen'[k] = 1
    BY <2>1
  <2>3. seen' \in [Keys -> {0, 1}] /\ \A k \in Keys : seen'[k] = 1 => k <= cursor'
    BY <2>1, <2>2
  <2>4. ASSUME NEW k \in initial, k <= cursor', Selected(k)
        PROVE  seen'[k] = 1
    <3>1. CASE k <= cursor
      BY <2>1, <2>4, <3>1
    <3>2. CASE k > cursor
      <4>1. k \in Remaining
        BY <2>4, <3>2 DEF Remaining, After
      <4>2. k \in p
        BY <1>2, <2>1, <2>4, <4>1 DEF FetchPage, IsPage
      <4> QED BY <2>2, <4>2
    <3> QED BY <3>1, <3>2
  <2>5. ASSUME NEW k \in Keys, seen'[k] = 1, Needs(k), ~Filtered(k)
        PROVE  k \in messaged' \cup failures' \/ (k \in batch' /\ scanStage' \in {"rows", "died"})
    <3>1. program \notin Indexers
      BY <2>5 DEF Needs, Indexers
    <3> QED BY <2>1, <2>5, <3>1
  <2>6. \A k \in Keys : (Selected(k)' <=> Selected(k)) /\ (Needs(k)' <=> Needs(k))
                        /\ (Filtered(k)' <=> Filtered(k))
    BY <2>1 DEF Selected, Needs, Filtered
  <2> QED BY <2>1, <2>3, <2>4, <2>5, <2>6
<1>3. CASE NoMoreRows
  BY <1>3 DEF NoMoreRows, pageVars, indexVars, Selected, Needs, Filtered, Remaining, After
<1>4. ASSUME NEW k \in Keys, HandleRow(k) PROVE ScanInv'
  BY <1>4 DEF HandleRow, NextRow, ContractMissing, Selected, Needs, Filtered
<1>5. ASSUME NEW k \in Keys, EmitFails(k) PROVE ScanInv'
  BY <1>5 DEF EmitFails, NextRow, Selected, Needs, Filtered
<1>6. ASSUME NEW k \in Keys, NoContract(k) PROVE ScanInv'
  BY <1>6 DEF NoContract, NextRow, pageVars, Selected, Needs, Filtered
<1>7. CASE RowsDone
  <2>1. /\ batch = {} /\ scanStage' = "fetch"
        /\ UNCHANGED <<program, rows, cursor, batch, messaged, seen, initial, failures>>
    BY <1>7 DEF RowsDone, pageVars
  <2>2. \A k \in Keys : (Selected(k)' <=> Selected(k)) /\ (Needs(k)' <=> Needs(k))
                        /\ (Filtered(k)' <=> Filtered(k))
    BY <2>1 DEF Selected, Needs, Filtered
  <2> QED BY <2>1, <2>2
<1>8. CASE NothingToIndex \/ BulkSucceeds \/ BulkMeetsDocuments \/ BulkPartlyFails
  <2>1. program \in Indexers /\ UNCHANGED <<program, rows, cursor, seen, initial>>
        /\ scanStage' \in {"fetch", "bulk"}
    BY <1>8 DEF NothingToIndex, BulkSucceeds, BulkMeetsDocuments, BulkPartlyFails,
      AfterBulkError, pageVars
  <2>2. \A k \in Keys : ~Needs(k)' /\ (Selected(k)' <=> Selected(k))
    BY <2>1 DEF Needs, Indexers, Selected
  <2> QED BY <2>1, <2>2
<1>9. CASE CleanIndex \/ ScanDies
  BY <1>9 DEF CleanIndex, ScanDies, pageVars, Selected, Needs, Filtered
<1>10. ASSUME NEW k \in Keys, InsertRow(k) PROVE ScanInv'
  BY <1>10 DEF InsertRow, pageVars, Selected, Needs, Filtered
<1> QED BY <1>0, <1>1, <1>2, <1>3, <1>4, <1>5, <1>6, <1>7, <1>8, <1>9, <1>10
  DEF Next, Import, Lazy, Scan, ScanNext, ScanStep, vars

(* A scan puts no row into two pages, and one that has ended has visited   *)
(* every row there was at its start, for any collection, page size and     *)
(* insertions.                                                             *)
THEOREM ScanVisitsEveryRowOnce == Spec => []ScanExact
<1>1. Init => ScanInv
  BY DEF Init, ScanInit, ScanInv
<1>2. ScanInv /\ [Next]_vars => ScanInv'
  BY ScanInvInductive
<1>3. ScanInv => ScanExact
  <2> SUFFICES ASSUME ScanInv PROVE ScanExact
    OBVIOUS
  <2>1. \A k \in Keys : seen[k] <= 1
    BY DEF ScanInv
  <2>2. ASSUME scanStage = "done", NEW k \in initial
        PROVE  /\ Selected(k) => seen[k] = 1
               /\ Needs(k) /\ ~Filtered(k) => k \in messaged \cup failures
    <3>1. k \in rows /\ k \in Keys /\ k \in Nat /\ cursor \in Nat /\ Remaining = {}
      BY <2>2, ScansAssumption DEF ScanInv
    <3>2. Selected(k) => k <= cursor
      BY <3>1 DEF Remaining, After
    <3>3. Selected(k) => seen[k] = 1
      BY <3>2 DEF ScanInv
    <3>4. Needs(k) => Selected(k)
      BY DEF Needs, Selected
    <3> QED BY <2>2, <3>1, <3>3, <3>4 DEF ScanInv
  <2> QED BY <2>1, <2>2 DEF ScanExact
<1> QED BY <1>1, <1>2, <1>3, PTL DEF Spec

-----------------------------------------------------------------------------
(* THE INDEXERS                                                            *)

(* An indexable row up to the cursor is in the index or was reported, or   *)
(* the bulk request for its page is still to come.                         *)
IndexInv ==
    /\ UNION {stale, index, batch} \subseteq Keys
    /\ indexedItems \in Nat /\ indexedItems <= Cardinality(index)
    /\ program \in Indexers =>
          /\ scanStage # "rows"
          /\ \A k \in initial : k <= cursor /\ Indexable(k) =>
                k \in index \cup reported \cup failures
                  \/ (k \in batch /\ scanStage \in {"bulk", "died"})
    /\ scanStage = "clean" => cursor = 0

(* Documents that are added to the index.                                  *)
LEMMA IndexGrows ==
  ASSUME index \subseteq Keys, NEW new \in SUBSET Keys, index' = index \cup new
  PROVE  /\ index' \subseteq Keys
         /\ Cardinality(index) \in Nat /\ Cardinality(index') \in Nat
         /\ Cardinality(index) <= Cardinality(index')
         /\ index \cap new = {} =>
               Cardinality(index') = Cardinality(index) + Cardinality(new)
         /\ Cardinality(new) \in Nat
<1>1. IsFiniteSet(index) /\ IsFiniteSet(new) /\ IsFiniteSet(index')
  BY ScansAssumption, FS_Subset
<1>2. /\ Cardinality(index) \in Nat /\ Cardinality(new) \in Nat
      /\ Cardinality(index') \in Nat
  BY <1>1, FS_CardinalityType
<1>3. Cardinality(index) <= Cardinality(index')
  BY <1>1, FS_Subset
<1>4. ASSUME index \cap new = {}
      PROVE  Cardinality(index') = Cardinality(index) + Cardinality(new)
  <2>1. /\ Cardinality(index') = Cardinality(index) + Cardinality(new)
                                    - Cardinality(index \cap new)
        /\ Cardinality(index \cap new) = 0
    BY <1>1, <1>4, FS_Union, FS_EmptySet
  <2> QED BY <2>1, <1>2
<1> QED BY <1>2, <1>3, <1>4

LEMMA IndexInvInductive ==
  ASSUME ScanInv, IndexInv, [Next]_vars
  PROVE  IndexInv'
<1> USE ScansAssumption DEF IndexInv
<1>I. initial \subseteq Keys /\ cursor \in Nat
  BY DEF ScanInv
<1>0. CASE UNCHANGED scanVars
  BY <1>0 DEF scanVars, pageVars, indexVars, Indexable
<1>1. ASSUME NEW p \in Programs, NEW present \in SUBSET Keys, NEW old \in SUBSET Keys,
             ScanStart(p, present, old)
      PROVE  IndexInv'
  <2>1. cursor = 0
    BY <1>1 DEF ScanStart, ScanInv
  <2>2. /\ stale' \subseteq Keys /\ UNCHANGED <<index, batch, indexedItems, cursor>>
        /\ scanStage' # "rows" \/ program' \notin Indexers
    BY <1>1 DEF ScanStart, pageVars
  <2>3. initial' \subseteq Keys /\ \A k \in initial' : ~(k <= cursor')
    BY <1>1, <2>1, <2>2 DEF ScanStart
  <2> QED BY <2>1, <2>2, <2>3
<1>2. ASSUME NEW p \in SUBSET Keys, NEW last \in Keys, FetchPage(p, last)
      PROVE  IndexInv'
  <2>1. /\ scanStage = "fetch" /\ cursor' = last /\ last \in p
        /\ scanStage' = IF program \in Indexers THEN "bulk" ELSE "rows"
        /\ batch' = {k \in p : ~Filtered(k)}
        /\ UNCHANGED <<program, rows, stale, index, indexedItems, reported, initial, failures>>
    BY <1>2 DEF FetchPage, indexVars
  <2>2. ASSUME program \in Indexers, NEW k \in initial, k <= last, Indexable(k)
        PROVE  k \in index \cup reported \cup failures \/ k \in batch'
    <3>1. ~Filtered(k) /\ Selected(k) /\ k \in rows
      BY <2>2 DEF Indexers, Filtered, Selected, ScanInv
    <3>2. CASE k <= cursor
      BY <2>1, <2>2, <3>2
    <3>3. CASE k > cursor
      <4>1. k \in Remaining
        BY <3>1, <3>3 DEF Remaining, After
      <4>2. k \in p
        BY <1>2, <1>I, <2>1, <2>2, <4>1 DEF FetchPage, IsPage
      <4> QED BY <2>1, <3>1, <4>2
    <3> QED BY <1>I, <3>2, <3>3
  <2>3. batch' \subseteq Keys
    BY <2>1
  <2> QED BY <2>1, <2>2, <2>3 DEF Indexable
<1>3. ASSUME NEW k \in Keys, HandleRow(k) \/ EmitFails(k) \/ NoContract(k) PROVE IndexInv'
  <2>1. program \notin Indexers
    BY <1>3 DEF HandleRow, EmitFails, NoContract, NextRow
  <2> QED BY <1>3, <2>1 DEF HandleRow, EmitFails, NoContract, NextRow, pageVars, indexVars
<1>4. CASE RowsDone
  <2>1. program \notin Indexers
    BY <1>4 DEF RowsDone
  <2> QED BY <1>4, <2>1 DEF RowsDone, pageVars, indexVars
<1>5. CASE NoMoreRows \/ CleanIndex
  BY <1>5 DEF NoMoreRows, CleanIndex, pageVars, indexVars, Indexable
<1>6. CASE NothingToIndex
  BY <1>6 DEF NothingToIndex, Documents, pageVars, indexVars, Indexable
<1>7. CASE BulkSucceeds
  <2>1. Documents \in SUBSET Keys
    BY DEF Documents
  <2>2. /\ index' = index \cup Documents /\ index \cap Documents = {}
        /\ scanStage' = "fetch" /\ scanStage = "bulk"
        /\ indexedItems' = indexedItems + Cardinality(Documents) \/ indexedItems' = indexedItems
        /\ UNCHANGED <<program, cursor, batch, stale, reported, initial, failures>>
    BY <1>7 DEF BulkSucceeds, pageVars
  <2>3. index' \subseteq Keys /\ indexedItems' \in Nat /\ indexedItems' <= Cardinality(index')
    <3>1. /\ index' \subseteq Keys /\ Cardinality(Documents) \in Nat
          /\ Cardinality(index) \in Nat /\ Cardinality(index') \in Nat
          /\ Cardinality(index') = Cardinality(index) + Cardinality(Documents)
      BY <2>1, <2>2, IndexGrows
    <3>2. indexedItems \in Nat /\ indexedItems <= Cardinality(index)
      OBVIOUS
    <3> QED BY <2>2, <3>1, <3>2
  <2>4. ASSUME program \in Indexers, NEW k \in initial, k <= cursor, Indexable(k)
        PROVE  k \in index' \cup reported \cup failures
    BY <2>2, <2>4 DEF Documents
  <2> QED BY <2>2, <2>3, <2>4 DEF Indexable
<1>8. CASE BulkMeetsDocuments \/ BulkPartlyFails
  <2>1. PICK new \in SUBSET Keys : index' = index \cup new
    BY <1>8 DEF BulkMeetsDocuments, BulkPartlyFails, Documents
  <2>2. /\ AfterBulkError /\ scanStage = "bulk"
        /\ UNCHANGED <<program, cursor, batch, stale, indexedItems, initial>>
    BY <1>8 DEF BulkMeetsDocuments, BulkPartlyFails
  <2>3. index' \subseteq Keys /\ indexedItems' \in Nat /\ indexedItems' <= Cardinality(index')
    <3>1. /\ index' \subseteq Keys /\ Cardinality(index) <= Cardinality(index')
          /\ Cardinality(index) \in Nat /\ Cardinality(index') \in Nat
      BY <2>1, IndexGrows
    <3>2. indexedItems' = indexedItems /\ indexedItems \in Nat
          /\ indexedItems <= Cardinality(index)
      BY <2>2
    <3> QED BY <3>1, <3>2
  <2>4. \/ scanStage' = "bulk" /\ UNCHANGED <<reported, failures>>
        \/ /\ scanStage' = "fetch" /\ batch \subseteq reported' \cup failures'
           /\ reported \subseteq reported' /\ failures \subseteq failures'
    BY <2>2 DEF AfterBulkError, ReportPage
  <2>5. ASSUME program \in Indexers, NEW k \in initial, k <= cursor, Indexable(k)
        PROVE  k \in index' \cup reported' \cup failures' \/ (k \in batch /\ scanStage' = "bulk")
    BY <2>1, <2>2, <2>4, <2>5
  <2> QED BY <2>2, <2>3, <2>4, <2>5 DEF Indexable
<1>9. CASE ScanDies
  BY <1>9 DEF ScanDies, pageVars, indexVars, Indexable
<1>10. ASSUME NEW k \in Keys, InsertRow(k) PROVE IndexInv'
  BY <1>10 DEF InsertRow, pageVars, indexVars, Indexable
<1> QED BY <1>0, <1>1, <1>2, <1>3, <1>4, <1>5, <1>6, <1>7, <1>8, <1>9, <1>10
  DEF Next, Import, Lazy, Scan, ScanNext, ScanStep, vars

(* When an indexer has ended, a row without a document was reported, and   *)
(* the count it prints is not above the documents there are.               *)
THEOREM WhatIsMissingWasReported == Spec => []IndexedOrReported
<1>1. Init => ScanInv /\ IndexInv
  <2>1. Cardinality({}) = 0
    BY FS_EmptySet
  <2> QED BY <2>1 DEF Init, ScanInit, ScanInv, IndexInv
<1>2. ScanInv /\ IndexInv /\ [Next]_vars => ScanInv' /\ IndexInv'
  BY ScanInvInductive, IndexInvInductive
<1>3. ScanInv /\ IndexInv => IndexedOrReported
  <2> SUFFICES ASSUME ScanInv, IndexInv, scanStage = "done", program \in Indexers,
                      NEW k \in initial, Indexable(k)
               PROVE  k \in index \cup reported \cup failures
    BY DEF IndexedOrReported, IndexInv
  <2>1. Selected(k)
    BY DEF Selected, Indexers
  <2>2. k \in rows /\ k \in Nat /\ cursor \in Nat /\ k \notin Remaining
    BY ScansAssumption DEF ScanInv
  <2>3. k <= cursor
    BY <2>1, <2>2 DEF Remaining, After
  <2> QED BY <2>3 DEF IndexInv
<1> QED BY <1>1, <1>2, <1>3, PTL DEF Spec

-----------------------------------------------------------------------------
(* TYPES.  LazyInv, ImportInv, ScanInv and IndexInv hold of most variables *)
(* already; what follows is the rest.                                      *)
LazyRest ==
    /\ processed \subseteq Chain /\ cut \subseteq Chain
    /\ runs \in 0..MaxRuns

LEMMA LazyRestInductive ==
  ASSUME LazyInv, LazyRest, [Next]_vars
  PROVE  LazyRest'
<1> USE LazyMintAssumption DEF LazyRest
<1>F. events \subseteq Chain /\ found \subseteq Chain
  BY DEF LazyInv, LazyTypes
<1>0. CASE UNCHANGED lazyVars
  BY <1>0 DEF lazyVars, outcomes
<1>1. ASSUME NEW l \in Limits, LazyStart(l) PROVE LazyRest'
  BY <1>1 DEF LazyStart, outcomes
<1>2. CASE GetLatest \/ DeleteWindow \/ FetchNew \/ SaveNew \/ RecordRange
  BY <1>2 DEF GetLatest, DeleteWindow, FetchNew, SaveNew, RecordRange, outcomes
<1>8. CASE LazyAgain
  BY <1>8 DEF LazyAgain, outcomes
<1>3. CASE ProcessNew
  BY <1>3, <1>F DEF ProcessNew
<1>4. ASSUME NEW saved \in SUBSET Chain, Ends(saved) PROVE LazyRest'
  BY <1>4 DEF Ends, Spared
<1>5. CASE SaveMeetsDuplicate
  <2> DEFINE before == {b \in found : \A d \in found \cap events : b < d}
  <2>1. before \in SUBSET Chain
    BY <1>F
  <2>2. Ends(before)
    BY <1>5 DEF SaveMeetsDuplicate
  <2> HIDE DEF before
  <2> QED BY <1>4, <2>1, <2>2
<1>6. CASE LazyCrash
  <2> DEFINE saved == IF lazyStage \in {"record", "process"} THEN found ELSE {}
  <2>1. saved \in SUBSET Chain
    BY <1>F
  <2>2. Ends(saved)
    BY <1>6 DEF LazyCrash
  <2> HIDE DEF saved
  <2> QED BY <1>4, <2>1, <2>2
<1>7. ASSUME NEW b \in Chain, ReaderStores(b) PROVE LazyRest'
  BY <1>7 DEF ReaderStores
<1> QED BY <1>0, <1>1, <1>2, <1>3, <1>5, <1>6, <1>7, <1>8
  DEF Next, Import, Lazy, Scan, LazyNext, LazyStep, vars

PreTypes ==
    /\ preStage \in {"off", "range", "events", "contract", "token", "emit", "done"}
    /\ rangeFrom \in Nat /\ rangeTo \in Nat
    /\ pending \subseteq Mints /\ preEvents \subseteq Mints
    /\ preTokens \subseteq Mints /\ failed \subseteq Mints
    /\ visited \subseteq {PreContract[m] : m \in Mints}
    /\ preContracts \subseteq {PreContract[m] : m \in Mints}
    /\ sent \in [Mints -> Nat]
    /\ preFaults \in 0..MaxPreFaults

LEMMA PreTypesInductive ==
  ASSUME PreTypes, [Next]_vars
  PROVE  PreTypes'
<1> USE PreContractsAssumption DEF PreTypes
<1>F. PreFault => preFaults' \in 0..MaxPreFaults
  BY DEF PreFault
<1>0. CASE UNCHANGED preVars
  BY <1>0 DEF preVars, importVars, importedVars
<1>1. CASE PreStart
  BY <1>1 DEF PreStart, importedVars
<1>2. CASE NextRange
  BY <1>2 DEF NextRange, importedVars
<1>3. CASE SaveEvents
  BY <1>3, <1>F DEF SaveEvents
<1>4. ASSUME NEW m \in Mints, SaveContract(m) PROVE PreTypes'
  BY <1>4, <1>F DEF SaveContract
<1>5. ASSUME NEW m \in Mints, SaveToken(m) PROVE PreTypes'
  BY <1>5, <1>F DEF SaveToken
<1>6. ASSUME NEW m \in Mints, EmitMint(m) PROVE PreTypes'
  <2>1. [sent EXCEPT ![m] = @ + 1] \in [Mints -> Nat]
    OBVIOUS
  <2>2. /\ preFaults' \in 0..MaxPreFaults /\ sent' \in [Mints -> Nat]
        /\ failed' \subseteq Mints
    BY <1>6, <1>F, <2>1 DEF EmitMint
  <2> QED BY <1>6, <2>2 DEF EmitMint
<1>7. CASE RangeDone
  BY <1>7 DEF RangeDone, importedVars
<1>8. CASE PreCrash
  BY <1>8, <1>F DEF PreCrash, importedVars
<1> QED BY <1>0, <1>1, <1>2, <1>3, <1>4, <1>5, <1>6, <1>7, <1>8
  DEF Next, Import, PreNext, PreStep, Lazy, Scan, vars

ScanRest ==
    /\ program \in Commands \cup {"none"}
    /\ scanStage \in {"off", "clean", "fetch", "rows", "bulk", "done", "died"}
    /\ messaged \subseteq Keys /\ reported \subseteq Keys /\ failures \subseteq Keys
    /\ cursor \in Keys \cup {0}
    /\ attempt \in 0..Attempts - 1
    /\ scanFaults \in 0..MaxScanFaults

LEMMA ScanRestInductive ==
  ASSUME IndexInv, ScanRest, [Next]_vars
  PROVE  ScanRest'
<1> USE ScansAssumption DEF ScanRest
<1>F. ScanFault => scanFaults' \in 0..MaxScanFaults
  BY DEF ScanFault
<1>B. batch \subseteq Keys
  BY DEF IndexInv
<1>0. CASE UNCHANGED scanVars
  BY <1>0 DEF scanVars, pageVars, indexVars
<1>1. ASSUME NEW p \in Programs, NEW present \in SUBSET Keys, NEW old \in SUBSET Keys,
             ScanStart(p, present, old)
      PROVE  ScanRest'
  BY <1>1 DEF ScanStart, pageVars, indexVars
<1>2. ASSUME NEW p \in SUBSET Keys, NEW last \in Keys, FetchPage(p, last)
      PROVE  ScanRest'
  BY <1>2 DEF FetchPage, indexVars
<1>3. CASE NoMoreRows \/ RowsDone \/ NothingToIndex \/ BulkSucceeds
  BY <1>3 DEF NoMoreRows, RowsDone, NothingToIndex, BulkSucceeds, pageVars, indexVars
<1>4. ASSUME NEW k \in Keys, HandleRow(k) \/ NoContract(k) \/ InsertRow(k)
      PROVE  ScanRest'
  BY <1>4 DEF HandleRow, NoContract, InsertRow, pageVars, indexVars
<1>5. ASSUME NEW k \in Keys, EmitFails(k) PROVE ScanRest'
  BY <1>5, <1>F DEF EmitFails, indexVars
<1>6. CASE CleanIndex \/ ScanDies
  BY <1>6, <1>F DEF CleanIndex, ScanDies, pageVars, indexVars
<1>7. ASSUME AfterBulkError
      PROVE  /\ scanStage' \in {scanStage, "fetch"}
             /\ reported' \subseteq Keys /\ failures' \subseteq Keys
             /\ attempt' \in 0..Attempts - 1
  <2>1. CASE program = "indexMetadata" /\ GivesUp
    BY <1>7, <1>B, <2>1 DEF AfterBulkError, ReportPage
  <2>2. CASE program = "indexMetadata" /\ ~GivesUp
    <3>1. attempt' = attempt + 1 /\ UNCHANGED <<scanStage, reported, failures>>
      BY <1>7, <2>2 DEF AfterBulkError
    <3>2. attempt + 1 < Attempts /\ attempt \in Nat
      BY <2>2 DEF GivesUp
    <3> QED BY <3>1, <3>2
  <2>3. CASE program # "indexMetadata"
    BY <1>7, <1>B, <2>3 DEF AfterBulkError
  <2> QED BY <2>1, <2>2, <2>3
<1>8. CASE BulkPartlyFails
  BY <1>8, <1>7, <1>F DEF BulkPartlyFails
<1>9. CASE BulkMeetsDocuments
  BY <1>9, <1>7 DEF BulkMeetsDocuments
<1> QED BY <1>0, <1>1, <1>2, <1>3, <1>4, <1>5, <1>6, <1>8, <1>9
  DEF Next, Import, Lazy, Scan, ScanNext, ScanStep, vars

(* Every variable of the programs run by hand keeps its type: none stores, *)
(* announces or reports anything but the events, mints and rows there are. *)
THEOREM TypeCorrect == Spec => []TypeOK
<1> DEFINE Inv == /\ job \in Jobs /\ LazyRest /\ PreTypes
                  /\ ScanInv /\ IndexInv /\ ScanRest
<1>1. Init => Inv
  <2> SUFFICES ASSUME Init PROVE Inv
    OBVIOUS
  <2>1. job \in Jobs /\ LazyRest
    BY LazyMintAssumption DEF Init, LazyInit, LazyRest
  <2>2. PreTypes
    BY PreContractsAssumption DEF Init, PreInit, PreTypes
  <2>3. ScanInv /\ IndexInv
    BY ScansAssumption, FS_EmptySet DEF Init, ScanInit, ScanInv, IndexInv, Indexers
  <2>4. ScanRest
    BY ScansAssumption DEF Init, ScanInit, ScanRest
  <2> QED BY <2>1, <2>2, <2>3, <2>4
<1>2. LazyInv /\ Inv /\ [Next]_vars => Inv'
  <2> SUFFICES ASSUME LazyInv, Inv, [Next]_vars PROVE Inv'
    OBVIOUS
  <2>1. job' \in Jobs
    BY DEF Next, Lazy, Import, Scan, vars
  <2> QED BY <2>1, LazyRestInductive, PreTypesInductive, ScanInvInductive, IndexInvInductive,
             ScanRestInductive
<1>3. LazyInv /\ Inv => TypeOK
  <2> SUFFICES ASSUME LazyInv, Inv PROVE TypeOK
    OBVIOUS
  <2>1. LazyTypeOK
    BY DEF LazyInv, LazyTypes, LazyRest, LazyTypeOK
  <2>2. PreTypeOK
    BY DEF PreTypes, PreTypeOK
  <2>3. ScanTypeOK
    <3>1. UNION {rows, batch, messaged, stale, index, reported, initial, failures} \subseteq Keys
      BY DEF ScanInv, IndexInv, ScanRest
    <3>2. seen \in [Keys -> Nat] /\ indexedItems \in Nat
      BY DEF ScanInv, IndexInv
    <3> QED BY <3>1, <3>2 DEF ScanRest, ScanTypeOK
  <2> QED BY <2>1, <2>2, <2>3 DEF TypeOK
<1> HIDE DEF Inv
<1> QED BY <1>1, <1>2, <1>3, LazyInvHolds, PTL DEF Spec
=============================================================================
