----------------------- MODULE MetadataPollingProofs -----------------------
(* Proofs about MetadataPolling, for any tokens, page sizes, clocks and    *)
(* crashes: what the cursor makes of the collection.                       *)
EXTENDS MetadataPolling, FiniteSetTheorems, TLAPS

-----------------------------------------------------------------------------
(* TYPES.  The wait group's set of tasks is finite, so that taking one out *)
(* makes room for another.                                                 *)
TokenSets ==
    /\ located \subseteq Tokens /\ available \subseteq Tokens /\ metadata \subseteq Tokens
    /\ attempted \subseteq Tokens /\ passed \subseteq Tokens
    /\ late \subseteq Tokens /\ again \subseteq Tokens

LEMMA TokenSetsAre ==
    UNION {located, available, metadata, attempted, passed, late, again} \subseteq Tokens
      <=> TokenSets
BY DEF TokenSets

LoopTypes ==
    /\ clock \in 1..(MaxTime + 1)
    /\ dated \in [Tokens -> 0..MaxTime + 1]
    /\ created \in [Tokens -> 0..MaxTime + 1]
    /\ cursor \in 0..(MaxTime + 1) /\ last \in 0..(MaxTime + 1)
    /\ phase \in {"poll", "page", "sleep"}
    /\ page \in [DOMAIN page -> BOOLEAN] /\ DOMAIN page \subseteq Tokens
    /\ crashes \in 0..MaxCrashes

PoolTypes ==
    /\ running \subseteq [of : Tokens, at : Steps]
    /\ IsFiniteSet(running) /\ Cardinality(running) <= Workers

TypesInv == TokenSets /\ LoopTypes /\ PoolTypes

(* An empty page is a function without a row.                              *)
LEMMA NoRows == << >> \in [DOMAIN << >> -> BOOLEAN] /\ DOMAIN << >> = {}
OBVIOUS

(* A task goes on to its next step, or ends: the group does not grow.      *)
LEMMA TaskMoves ==
  ASSUME PoolTypes, NEW x \in running, NEW step \in Steps,
         \/ running' = running \ {x}
         \/ running' = (running \ {x}) \cup {[x EXCEPT !.at = step]}
  PROVE  PoolTypes'
<1> DEFINE rest == running \ {x}
           y == [x EXCEPT !.at = step]
<1>1. x \in [of : Tokens, at : Steps] /\ y \in [of : Tokens, at : Steps]
  BY DEF PoolTypes
<1>2. /\ IsFiniteSet(running) /\ Cardinality(running) \in Nat
      /\ Cardinality(running) <= Workers
  BY FS_CardinalityType DEF PoolTypes
<1>3. IsFiniteSet(rest) /\ Cardinality(rest) = Cardinality(running) - 1
  BY <1>2, FS_RemoveElement
<1>4. /\ IsFiniteSet(rest \cup {y})
      /\ Cardinality(rest \cup {y}) = IF y \in rest THEN Cardinality(rest) ELSE Cardinality(rest) + 1
  BY <1>3, FS_AddElement
<1>5. /\ rest \subseteq [of : Tokens, at : Steps]
      /\ rest \cup {y} \subseteq [of : Tokens, at : Steps]
  BY <1>1 DEF PoolTypes
<1>6. Workers \in Nat
  BY PollingAssumption
<1> HIDE DEF rest, y
<1>7. CASE running' = rest
  BY <1>2, <1>3, <1>5, <1>6, <1>7 DEF PoolTypes
<1>8. CASE running' = rest \cup {y}
  BY <1>2, <1>3, <1>4, <1>5, <1>6, <1>8 DEF PoolTypes
<1> QED BY <1>7, <1>8 DEF rest, y

LEMMA TypesInvInductive ==
  ASSUME TypesInv, [Next]_vars
  PROVE  TypesInv'
<1> USE PollingAssumption
<1>P. TokenSets /\ LoopTypes /\ PoolTypes
  BY DEF TypesInv
<1>S. UNCHANGED <<located, available, metadata, attempted, passed, late, again>> => TokenSets'
  BY <1>P DEF TokenSets
<1>R. UNCHANGED running => PoolTypes'
  BY <1>P DEF PoolTypes
<1>L. UNCHANGED <<clock, dated, created, cursor, phase, page, last, crashes>> => LoopTypes'
  BY <1>P DEF LoopTypes
<1>1. CASE Tick
  <2>1. LoopTypes'
    BY <1>1, <1>P DEF Tick, rows, pageVars, LoopTypes
  <2> QED BY <1>1, <1>S, <1>R, <2>1 DEF Tick, rows, pageVars, seen, TypesInv
<1>2. ASSUME NEW t \in Tokens, DateToken(t) PROVE TypesInv'
  <2>1. LoopTypes'
    BY <1>2, <1>P DEF DateToken, rows, pageVars, LoopTypes
  <2> QED BY <1>2, <1>S, <1>R, <2>1 DEF DateToken, rows, pageVars, seen, TypesInv
<1>3. ASSUME NEW t \in Tokens, InsertToken(t) PROVE TypesInv'
  <2>1. LoopTypes'
    BY <1>3, <1>P DEF InsertToken, pageVars, LoopTypes
  <2>2. TokenSets'
    BY <1>3, <1>P DEF InsertToken, TokenSets
  <2> QED BY <1>3, <1>R, <2>1, <2>2 DEF InsertToken, pageVars, TypesInv
<1>4. ASSUME NEW t \in Tokens, LocateToken(t) PROVE TypesInv'
  <2>1. TokenSets'
    BY <1>4, <1>P DEF LocateToken, seen, TokenSets
  <2> QED BY <1>4, <1>R, <1>L, <2>1 DEF LocateToken, pageVars, TypesInv
<1>5. ASSUME NEW x, Fetch(x) PROVE TypesInv'
  <2>1. x \in running /\ "save" \in Steps
        /\ \/ running' = running \ {x}
           \/ running' = (running \ {x}) \cup {[x EXCEPT !.at = "save"]}
    BY <1>5 DEF Fetch, Steps
  <2>2. PoolTypes'
    BY <1>P, <2>1, TaskMoves
  <2> QED BY <1>5, <1>S, <1>L, <2>2 DEF Fetch, rows, seen, TypesInv
<1>6. ASSUME NEW x, SaveMetadata(x) PROVE TypesInv'
  <2>1. x \in running /\ "status" \in Steps
        /\ running' = (running \ {x}) \cup {[x EXCEPT !.at = "status"]}
    BY <1>6 DEF SaveMetadata, Steps
  <2>2. PoolTypes'
    BY <1>P, <2>1, TaskMoves
  <2>3. x.of \in Tokens
    BY <1>P, <2>1 DEF PoolTypes
  <2>4. TokenSets'
    BY <1>6, <1>P, <2>3 DEF SaveMetadata, seen, TokenSets
  <2> QED BY <1>6, <1>L, <2>2, <2>4 DEF SaveMetadata, TypesInv
<1>7. ASSUME NEW x, SetStatus(x) PROVE TypesInv'
  <2>1. x \in running /\ "status" \in Steps /\ running' = running \ {x}
    BY <1>7 DEF SetStatus, Steps
  <2>2. PoolTypes'
    BY <1>P, <2>1, TaskMoves
  <2>3. x.of \in Tokens
    BY <1>P, <2>1 DEF PoolTypes
  <2>4. TokenSets'
    BY <1>7, <1>P, <2>3 DEF SetStatus, seen, TokenSets
  <2> QED BY <1>7, <1>L, <2>2, <2>4 DEF SetStatus, TypesInv
<1>8. CASE FetchPage
  <2> PICK p \in Pages(CreatedAfter(cursor)) :
        IF p = {}
        THEN /\ phase' = "sleep"
             /\ UNCHANGED <<page, last>>
        ELSE /\ phase' = "page"
             /\ page' = [t \in p |-> t \in located]
             /\ \E t \in p : /\ \A u \in p : created[u] <= created[t]
                             /\ last' = created[t]
    BY <1>8 DEF FetchPage
  <2>1. UNCHANGED <<clock, dated, created, cursor, crashes>>
    BY <1>8 DEF FetchPage, rows
  <2>2. p \subseteq Tokens
    BY DEF Pages, CreatedAfter
  <2>3. CASE p = {}
    <3>1. LoopTypes'
      BY <1>P, <2>1, <2>3 DEF LoopTypes
    <3> QED BY <1>8, <1>S, <1>R, <3>1 DEF FetchPage, rows, seen, TypesInv
  <2>4. CASE p # {}
    <3>1. /\ phase' = "page" /\ DOMAIN page' = p
          /\ page' \in [p -> BOOLEAN]
          /\ \E t \in p : last' = created[t]
      <4>1. [t \in p |-> t \in located] \in [p -> BOOLEAN]
        <5>1. \A t \in p : (t \in located) \in BOOLEAN
          OBVIOUS
        <5> QED BY <5>1, Zenon
      <4>2. /\ phase' = "page" /\ page' = [t \in p |-> t \in located]
            /\ \E t \in p : last' = created[t]
        BY <2>4
      <4>3. DOMAIN page' = p
        BY <4>2
      <4> QED BY <4>1, <4>2, <4>3, Zenon
    <3>2. last' \in 0..(MaxTime + 1)
      BY <1>P, <2>2, <3>1 DEF LoopTypes
    <3>3. LoopTypes'
      BY <1>P, <2>1, <2>2, <3>1, <3>2 DEF LoopTypes
    <3> QED BY <1>8, <1>S, <1>R, <3>3 DEF FetchPage, rows, seen, TypesInv
  <2> QED BY <2>3, <2>4
<1>9. CASE WakeUp
  <2>1. LoopTypes'
    BY <1>9, <1>P DEF WakeUp, rows, LoopTypes
  <2> QED BY <1>9, <1>S, <1>R, <2>1 DEF WakeUp, rows, seen, TypesInv
<1>10. ASSUME NEW t \in Tokens, NextRow(t), UNCHANGED <<clock, dated, created, cursor, phase, last, crashes>>
       PROVE  LoopTypes'
  <2>1. /\ DOMAIN page' = DOMAIN page \ {t}
        /\ page' \in [DOMAIN page \ {t} -> BOOLEAN]
    BY <1>10, <1>P DEF NextRow, LoopTypes
  <2> QED BY <1>10, <1>P, <2>1 DEF LoopTypes
<1>11. ASSUME NEW t \in Tokens, SkipToken(t) PROVE TypesInv'
  <2>1. LoopTypes'
    BY <1>10, <1>11 DEF SkipToken, rows
  <2>2. TokenSets'
    BY <1>11, <1>P DEF SkipToken, rows, TokenSets
  <2> QED BY <1>11, <1>R, <2>1, <2>2 DEF SkipToken, TypesInv
<1>12. ASSUME NEW t \in Tokens, StartTask(t) PROVE TypesInv'
  <2>1. LoopTypes'
    BY <1>10, <1>12 DEF StartTask, rows
  <2>2. TokenSets'
    BY <1>12, <1>P DEF StartTask, rows, TokenSets
  <2> DEFINE x == [of |-> t, at |-> "fetch"]
  <2>3. x \in [of : Tokens, at : Steps]
    BY DEF Steps
  <2>4. /\ running' = running \cup {x}
        /\ IsFiniteSet(running) /\ Cardinality(running) \in Nat /\ Cardinality(running) < Workers
    BY <1>12, <1>P, FS_CardinalityType DEF StartTask, PoolTypes
  <2> HIDE DEF x
  <2>5. /\ IsFiniteSet(running \cup {x})
        /\ Cardinality(running \cup {x}) =
              IF x \in running THEN Cardinality(running) ELSE Cardinality(running) + 1
    BY <2>4, FS_AddElement, Zenon
  <2>6. PoolTypes'
    <3>1. Cardinality(running \cup {x}) \in Nat
      BY <2>5, FS_CardinalityType
    <3> QED BY <1>P, <2>3, <2>4, <2>5, <3>1 DEF PoolTypes
  <2> QED BY <2>1, <2>2, <2>6 DEF TypesInv
<1>13. CASE EndPage
  <2>1. LoopTypes'
    BY <1>13, <1>P DEF EndPage, rows, LoopTypes
  <2> QED BY <1>13, <1>S, <1>R, <2>1 DEF EndPage, rows, seen, TypesInv
<1>14. CASE Crash
  <2>1. LoopTypes'
    BY <1>14, <1>P, NoRows DEF Crash, rows, LoopTypes
  <2>2. TokenSets'
    BY <1>14, <1>P DEF Crash, rows, TokenSets
  <2>3. PoolTypes'
    BY <1>14, FS_EmptySet DEF Crash, PoolTypes
  <2> QED BY <2>1, <2>2, <2>3 DEF TypesInv
<1>15. CASE UNCHANGED vars
  BY <1>15, <1>S, <1>R, <1>L DEF vars, rows, pageVars, seen, TypesInv
<1> QED BY <1>1, <1>2, <1>3, <1>4, <1>5, <1>6, <1>7, <1>8, <1>9, <1>11, <1>12, <1>13, <1>14, <1>15
  DEF Next, Loop, Rows, Task

(* Every variable of the polling reader keeps its type, and its wait group *)
(* never holds more tasks than there are workers.                          *)
THEOREM TypeCorrect == Spec => []TypeOK
<1>1. Init => TypesInv
  <2> SUFFICES ASSUME Init PROVE TypesInv
    OBVIOUS
  <2>1. TokenSets
    BY DEF Init, TokenSets
  <2>2. LoopTypes
    BY PollingAssumption, NoRows DEF Init, LoopTypes
  <2>3. PoolTypes
    BY PollingAssumption, FS_EmptySet DEF Init, PoolTypes
  <2> QED BY <2>1, <2>2, <2>3 DEF TypesInv
<1>2. TypesInv /\ [Next]_vars => TypesInv'
  BY TypesInvInductive
<1>3. TypesInv => TypeOK
  BY TokenSetsAre DEF TypesInv, LoopTypes, PoolTypes, TypeOK
<1> QED BY <1>1, <1>2, <1>3, PTL DEF Spec

-----------------------------------------------------------------------------
(* The dates are numbers, an inserted token keeps its date, and a page is  *)
(* open only in phase "page", with rows up to its last one beyond the      *)
(* cursor.                                                                 *)
PageInv ==
    /\ clock \in Nat /\ cursor \in Nat /\ last \in Nat
    /\ dated \in [Tokens -> Nat] /\ created \in [Tokens -> Nat]
    /\ DOMAIN page \subseteq Tokens
    /\ DOMAIN page # {} => phase = "page"
    /\ phase = "page" => cursor < last
    /\ \A t \in DOMAIN page : created[t] # 0 /\ cursor < created[t] /\ created[t] <= last

(* What was read from lies within the horizon and in no open page.         *)
ReadInv ==
    /\ again = {}
    /\ attempted \subseteq Tokens
    /\ \A t \in attempted : /\ created[t] # 0 /\ created[t] <= Horizon
                            /\ t \notin DOMAIN page

(* What lies within the horizon is accounted for or waits in the page.     *)
PassInv ==
    \A t \in Tokens :
       created[t] # 0 /\ created[t] <= Horizon =>
          t \in attempted \cup passed \cup late \cup DOMAIN page \/ Tied(t)

PollInv == PageInv /\ ReadInv /\ PassInv

(* What a page that is fetched holds.                                      *)
LEMMA FetchedPage ==
  ASSUME PollInv, NEW p \in Pages(CreatedAfter(cursor)), NEW l \in p,
         \A u \in p : created[u] <= created[l]
  PROVE  /\ \A t \in p : t \in Tokens /\ created[t] # 0 /\ cursor < created[t]
         /\ \A t \in Tokens : created[t] # 0 /\ cursor < created[t] /\ created[t] <= created[l] =>
               t \in p \/ Tied(t)
<1>0. created \in [Tokens -> Nat] /\ cursor \in Nat
  BY DEF PollInv, PageInv
<1>1. p \subseteq CreatedAfter(cursor)
        /\ \A t \in p, u \in CreatedAfter(cursor) \ p : created[t] <= created[u]
  BY DEF Pages
<1>2. \A t \in p : t \in Tokens /\ created[t] # 0 /\ cursor < created[t]
  BY <1>0, <1>1 DEF CreatedAfter
<1>3. ASSUME NEW t \in Tokens, created[t] # 0, cursor < created[t], created[t] <= created[l],
             t \notin p
      PROVE  Tied(t)
  <2>1. t \in CreatedAfter(cursor)
    BY <1>0, <1>3 DEF CreatedAfter
  <2>2. created[t] = created[l] /\ l \in Tokens /\ l # t /\ created[l] # 0
    BY <1>0, <1>1, <1>2, <1>3, <2>1
  <2> QED BY <2>2 DEF Tied
<1> QED BY <1>2, <1>3

(* A step that leaves the dates, the cursor and the pages alone.           *)
LEMMA NothingPolled ==
  ASSUME PollInv, UNCHANGED <<created, dated, cursor, phase, page, last, seen>>, clock' \in Nat
  PROVE  PollInv'
BY DEF PollInv, PageInv, ReadInv, PassInv, Horizon, Tied, seen

LEMMA PollInvInductive ==
  ASSUME PollInv, [Next]_vars
  PROVE  PollInv'
<1> USE PollingAssumption
<1>P. PageInv /\ ReadInv /\ PassInv
  BY DEF PollInv
<1>1. CASE Tick
  BY <1>1, NothingPolled DEF Tick, rows, pageVars, PollInv, PageInv
<1>2. ASSUME NEW t \in Tokens, DateToken(t) PROVE PollInv'
  <2>1. dated' \in [Tokens -> Nat]
    BY <1>2, <1>P DEF DateToken, PageInv
  <2> QED BY <1>2, <1>P, <2>1
      DEF DateToken, rows, pageVars, seen, PollInv, PageInv, ReadInv, PassInv, Horizon, Tied
<1>3. ASSUME NEW t \in Tokens, InsertToken(t) PROVE PollInv'
  <2>1. /\ created[t] = 0 /\ dated[t] # 0 /\ dated[t] \in Nat
        /\ created' = [created EXCEPT ![t] = dated[t]]
        /\ late' = IF dated[t] <= Horizon THEN late \cup {t} ELSE late
        /\ UNCHANGED <<clock, dated, cursor, phase, page, last, attempted, passed, again>>
    BY <1>3, <1>P DEF InsertToken, pageVars, PageInv
  <2>2. created' \in [Tokens -> Nat] /\ \A u \in Tokens : u # t => created'[u] = created[u]
    BY <2>1, <1>P DEF PageInv
  <2>3. Horizon' = Horizon
    BY <2>1 DEF Horizon
  <2>4. t \notin DOMAIN page /\ t \notin attempted
    BY <2>1, <1>P DEF PageInv, ReadInv
  <2>5. PageInv'
    BY <2>1, <2>2, <2>4, <1>P DEF PageInv
  <2>6. ReadInv'
    BY <2>1, <2>2, <2>3, <2>4, <1>P DEF ReadInv
  <2>7. ASSUME NEW u \in Tokens, Tied(u) PROVE Tied(u)'
    BY <2>1, <2>2, <2>7 DEF Tied
  <2>8. PassInv'
    <3> SUFFICES ASSUME NEW u \in Tokens, created'[u] # 0, created'[u] <= Horizon
                 PROVE  u \in attempted' \cup passed' \cup late' \cup DOMAIN page' \/ Tied(u)'
      BY <2>3 DEF PassInv
    <3>1. CASE u = t
      BY <2>1, <3>1, <1>P DEF PageInv
    <3>2. CASE u # t
      BY <2>1, <2>2, <2>7, <3>2, <1>P DEF PassInv
    <3> QED BY <3>1, <3>2
  <2> QED BY <2>5, <2>6, <2>8 DEF PollInv
<1>4. ASSUME NEW t \in Tokens, LocateToken(t) PROVE PollInv'
  BY <1>4, <1>P, NothingPolled DEF LocateToken, pageVars, PageInv
<1>5. ASSUME NEW x, Fetch(x) \/ SaveMetadata(x) \/ SetStatus(x) PROVE PollInv'
  BY <1>5, <1>P, NothingPolled DEF Fetch, SaveMetadata, SetStatus, rows, PageInv
<1>6. CASE FetchPage
  <2> PICK p \in Pages(CreatedAfter(cursor)) :
        IF p = {}
        THEN /\ phase' = "sleep"
             /\ UNCHANGED <<page, last>>
        ELSE /\ phase' = "page"
             /\ page' = [t \in p |-> t \in located]
             /\ \E t \in p : /\ \A u \in p : created[u] <= created[t]
                             /\ last' = created[t]
    BY <1>6 DEF FetchPage
  <2>0. /\ phase = "poll" /\ DOMAIN page = {}
        /\ UNCHANGED <<clock, dated, created, cursor, attempted, passed, late, again>>
    BY <1>6, <1>P DEF FetchPage, rows, seen, PageInv
  <2>1. CASE p = {}
    BY <2>0, <2>1, <1>P DEF PollInv, PageInv, ReadInv, PassInv, Horizon, Tied
  <2>2. CASE p # {}
    <3> PICK l \in p : (\A u \in p : created[u] <= created[l]) /\ last' = created[l]
      BY <2>2
    <3>1. /\ \A t \in p : t \in Tokens /\ created[t] # 0 /\ cursor < created[t]
          /\ \A t \in Tokens : created[t] # 0 /\ cursor < created[t] /\ created[t] <= created[l] =>
                t \in p \/ Tied(t)
      BY FetchedPage
    <3>2. DOMAIN page' = p /\ phase' = "page" /\ Horizon' = created[l] /\ Horizon = cursor
      BY <2>0, <2>2 DEF Horizon
    <3>3. PageInv'
      BY <2>0, <3>1, <3>2, <1>P DEF PageInv
    <3>4. ReadInv'
      <4>1. \A t \in attempted : created[t] <= cursor /\ t \in Tokens
        BY <3>2, <1>P DEF ReadInv
      <4>2. cursor < created[l] /\ \A t \in attempted : t \notin p
        BY <3>1, <4>1, <1>P DEF PageInv
      <4>3. \A t \in attempted : created[t] <= created[l]
        BY <3>1, <4>1, <4>2, <1>P DEF PageInv
      <4> QED BY <2>0, <3>2, <4>2, <4>3, <1>P DEF ReadInv
    <3>5. PassInv'
      <4> SUFFICES ASSUME NEW t \in Tokens, created[t] # 0, created[t] <= created[l]
                   PROVE  t \in attempted \cup passed \cup late \cup p \/ Tied(t)
        BY <2>0, <3>2 DEF PassInv, Tied
      <4>1. CASE created[t] <= cursor
        BY <2>0, <3>2, <4>1, <1>P DEF PassInv
      <4>2. CASE cursor < created[t]
        BY <3>1, <4>2
      <4> QED BY <4>1, <4>2, <1>P DEF PageInv
    <3> QED BY <3>3, <3>4, <3>5 DEF PollInv
  <2> QED BY <2>1, <2>2
<1>7. CASE WakeUp
  BY <1>7, <1>P DEF WakeUp, rows, seen, PollInv, PageInv, ReadInv, PassInv, Horizon, Tied
<1>8. ASSUME NEW t \in Tokens, SkipToken(t) PROVE PollInv'
  <2>1. /\ t \in DOMAIN page /\ DOMAIN page' = DOMAIN page \ {t}
        /\ passed' = passed \cup {t}
        /\ UNCHANGED <<clock, dated, created, cursor, phase, last, attempted, late, again>>
    BY <1>8 DEF SkipToken, NextRow, rows
  <2> QED BY <2>1, <1>P DEF PollInv, PageInv, ReadInv, PassInv, Horizon, Tied
<1>9. ASSUME NEW t \in Tokens, StartTask(t) PROVE PollInv'
  <2>1. /\ t \in DOMAIN page /\ DOMAIN page' = DOMAIN page \ {t}
        /\ attempted' = attempted \cup {t}
        /\ again' = again \cup ({t} \cap attempted)
        /\ UNCHANGED <<clock, dated, created, cursor, phase, last, passed, late>>
    BY <1>9 DEF StartTask, NextRow, rows
  <2>2. t \notin attempted /\ phase = "page" /\ created[t] # 0 /\ created[t] <= last
    BY <2>1, <1>P DEF PageInv, ReadInv
  <2>3. PageInv'
    BY <2>1, <1>P DEF PageInv
  <2>4. ReadInv'
    BY <2>1, <2>2, <1>P DEF ReadInv, Horizon
  <2>5. PassInv'
    BY <2>1, <1>P DEF PassInv, Horizon, Tied
  <2> QED BY <2>3, <2>4, <2>5 DEF PollInv
<1>10. CASE EndPage
  <2>1. /\ phase = "page" /\ cursor' = last /\ phase' = "poll" /\ DOMAIN page = {}
        /\ UNCHANGED <<clock, dated, created, page, last, attempted, passed, late, again>>
    BY <1>10, NoRows DEF EndPage, rows, seen
  <2> QED BY <2>1, <1>P DEF PollInv, PageInv, ReadInv, PassInv, Horizon, Tied
<1>11. CASE Crash
  <2>1. /\ cursor' = 0 /\ phase' = "poll" /\ last' = 0 /\ DOMAIN page' = {}
        /\ attempted' = {} /\ again' = {}
        /\ UNCHANGED <<clock, dated, created>>
    BY <1>11, NoRows DEF Crash, rows
  <2> QED BY <2>1, <1>P DEF PollInv, PageInv, ReadInv, PassInv, Horizon
<1>12. CASE UNCHANGED vars
  BY <1>12, <1>P, NothingPolled DEF vars, rows, pageVars, PageInv
<1> QED BY <1>1, <1>2, <1>3, <1>4, <1>5, <1>6, <1>7, <1>8, <1>9, <1>10, <1>11, <1>12
  DEF Next, Loop, Rows, Task

LEMMA PollInvInitially ==
  ASSUME Init
  PROVE  PollInv
BY NoRows DEF Init, PollInv, PageInv, ReadInv, PassInv, Horizon

(* One run of the reader reads no token twice.                             *)
THEOREM PagesDoNotOverlap == Spec => []ReadOnce
<1>1. Init => PollInv
  BY PollInvInitially
<1>2. PollInv /\ [Next]_vars => PollInv'
  BY PollInvInductive
<1>3. PollInv => ReadOnce
  BY DEF PollInv, ReadInv, ReadOnce
<1> QED BY <1>1, <1>2, <1>3, PTL DEF Spec

(* What the cursor has passed without reading it had no usable URI, came   *)
(* late, or shares its date with another token: these are the only ways to *)
(* be missed.                                                              *)
THEOREM MissedForAReason == Spec => []PassedForAReason
<1>1. Init => PollInv
  BY PollInvInitially
<1>2. PollInv /\ [Next]_vars => PollInv'
  BY PollInvInductive
<1>3. PollInv => PassedForAReason
  <2> SUFFICES ASSUME PollInv, NEW t \in Tokens, created[t] # 0, created[t] <= cursor
               PROVE  t \in attempted \cup passed \cup late \/ Tied(t)
    BY DEF PassedForAReason
  <2>1. /\ created[t] <= Horizon
        /\ t \notin DOMAIN page
    BY DEF PollInv, PageInv, Horizon
  <2> QED BY <2>1 DEF PollInv, PassInv
<1> QED BY <1>1, <1>2, <1>3, PTL DEF Spec
=============================================================================
