-------------------------- MODULE ReaderTasksProofs --------------------------
(***************************************************************************)
(* Theorems about ReaderTasks, for any number of requests that are sent    *)
(* one after the other, any number of ranges, any crashes and failures.    *)
(*                                                                         *)
(* The state log and the AbortController are written by different          *)
(* processes at different awaits.  What ties them together: the controller *)
(* in memory belongs to the last task that was started, and a stop aborts  *)
(* it before it ends the task.  So the loop that works on a task in        *)
(* progress holds the controller that a stop will abort, and the one that  *)
(* works on an ended task holds one that was aborted, unless it has        *)
(* captured it too late.                                                   *)
(***************************************************************************)
EXTENDS ReaderTasks, TLAPS

(* One request is open at a time.                                          *)
TurnInv ==
    /\ \A c, d \in Clients : ~Closed(req[c]) /\ ~Closed(req[d]) => c = d
    /\ \A c \in Clients : lpc = "down" => Closed(req[c])

Starting(c) == req[c].op = "start" /\ req[c].at = "write"

(* The state log: the document of an insert in flight is the last one, no  *)
(* task is in progress meanwhile, and the current document is the latest.  *)
LogInv ==
    /\ \A s \in Stamps : log[s].state = "pending" =>
          s = Len(log) /\ \E c \in Clients : Starting(c)
    /\ \A c \in Clients : Starting(c) =>
          /\ req[c].stamp = Len(log) /\ Len(log) \in Stamps
          /\ log[Len(log)].state = "pending"
    /\ \A c \in Clients :
          req[c].op = "start" /\ (req[c].at = "write" \/ (req[c].at = "act" /\ ~req[c].busy)) =>
             \A s \in Stamps : log[s].state # "running"
    /\ \A c \in Clients : req[c].op = "stop" /\ req[c].at = "write" => req[c].stamp \in Stored
    /\ Stored # {} => CurrentLog \in Stored /\ \A s \in Stored : s <= CurrentLog
    /\ RunningTaskVisible

(* What the loop holds between its awaits.                                 *)
LoopInv ==
    /\ lpc \notin {"top", "down"} => ltask \in Stored
    /\ lpc \in {"stopQuery", "stopWrite"} => left = 0
    /\ lpc \in {"poll", "wait"} => ~IsRange
    /\ lpc = "read" /\ IsRange => left > 0
    /\ lpc = "stopWrite" =>
          lstop \in Stored /\ (lstop = ltask \/ log[ltask].state = "ended")

(* Whose controller is aborted.                                            *)
ControllerInv ==
    /\ \A c \in Clients : req[c].op = "stop" /\ ~Closed(req[c]) => ctl \in aborted
    /\ lpc \in {"check", "poll", "wait", "read"} =>
          /\ log[ltask].state = "running" => lctl = ctl
          /\ log[ltask].state = "ended" => lctl \in aborted \/ astray

TasksInv == TypeOK /\ TurnInv /\ LogInv /\ LoopInv /\ ControllerInv

Documents == [kind : Kinds, state : States]

-----------------------------------------------------------------------------
(* THE STATE LOG                                                           *)

LEMMA LargestIs ==
  ASSUME NEW S \in SUBSET Nat, NEW s \in S, \A r \in S : r <= s
  PROVE  (CHOOSE x \in S : \A r \in S : r <= x) = s
<1>1. \E x \in S : \A r \in S : r <= x
  OBVIOUS
<1> DEFINE m == CHOOSE x \in S : \A r \in S : r <= x
<1>2. m \in S /\ \A r \in S : r <= m
  BY <1>1
<1>3. m \in Nat /\ s \in Nat /\ m <= s /\ s <= m
  BY <1>2
<1> QED BY <1>3

LEMMA StampsType ==
  ASSUME TypeOK
  PROVE  /\ log \in Seq(Documents) /\ Len(log) \in Nat
         /\ Stamps = 1..Len(log) /\ Stamps \subseteq Nat
         /\ \A s \in Stamps : log[s] \in Documents
         /\ Stored \subseteq Stamps
<1>1. log \in Seq(Documents)
  BY DEF TypeOK, Documents
<1>2. Len(log) \in Nat /\ DOMAIN log = 1..Len(log)
  BY <1>1
<1>3. \A s \in 1..Len(log) : log[s] \in Documents
  BY <1>1
<1> QED BY <1>1, <1>2, <1>3 DEF Stamps, Stored

LEMMA StateWritten ==
  ASSUME TypeOK, NEW i \in Stamps, NEW st \in States, log' = [log EXCEPT ![i].state = st]
  PROVE  /\ log' \in Seq(Documents) /\ Len(log') = Len(log) /\ Stamps' = Stamps
         /\ log'[i].state = st /\ log'[i].kind = log[i].kind
         /\ \A s \in Stamps : s # i => log'[s] = log[s]
<1>1. log \in Seq(Documents) /\ Stamps = 1..Len(log) /\ log[i] \in Documents
  BY StampsType
<1>2. [log[i] EXCEPT !.state = st] \in Documents
  BY <1>1 DEF Documents
<1>3. log' \in Seq(Documents) /\ Len(log') = Len(log)
  BY <1>1, <1>2
<1>4. \A s \in Stamps : log'[s] = IF s = i THEN [log[i] EXCEPT !.state = st] ELSE log[s]
  BY <1>1
<1> QED BY <1>1, <1>2, <1>3, <1>4 DEF Stamps, Documents

LEMMA StateAppended ==
  ASSUME TypeOK, NEW k \in Kinds, log' = Append(log, [kind |-> k, state |-> "pending"])
  PROVE  /\ log' \in Seq(Documents) /\ Len(log') = Len(log) + 1
         /\ Stamps' = Stamps \cup {Len(log) + 1} /\ Len(log) + 1 \notin Stamps
         /\ log'[Len(log) + 1].state = "pending"
         /\ \A s \in Stamps : log'[s] = log[s]
<1>1. log \in Seq(Documents) /\ Stamps = 1..Len(log) /\ Len(log) \in Nat
  BY StampsType
<1>2. [kind |-> k, state |-> "pending"] \in Documents
  BY DEF Documents, States
<1>3. log' \in Seq(Documents) /\ Len(log') = Len(log) + 1
  BY <1>1, <1>2
<1>4. Stamps' = 1..Len(log) + 1
  BY <1>3 DEF Stamps
<1>5. \A s \in 1..Len(log) : log'[s] = log[s]
  BY <1>1, <1>2
<1>6. log'[Len(log) + 1] = [kind |-> k, state |-> "pending"]
  BY <1>1, <1>2
<1> QED BY <1>1, <1>3, <1>4, <1>5, <1>6

(* The documents and the current one stay when no state changes to or from *)
(* "pending".                                                              *)
LEMMA CurrentStays ==
  ASSUME Stored' = Stored
  PROVE  CurrentLog' = CurrentLog
BY DEF CurrentLog

LEMMA TaskEnded ==
  ASSUME TypeOK, NEW i \in Stored, log' = [log EXCEPT ![i].state = "ended"]
  PROVE  /\ log' \in Seq(Documents) /\ Len(log') = Len(log) /\ Stamps' = Stamps
         /\ log'[i].state = "ended" /\ log'[i].kind = log[i].kind
         /\ \A s \in Stamps : s # i => log'[s] = log[s]
         /\ Stored' = Stored /\ CurrentLog' = CurrentLog
<1>1. i \in Stamps /\ "ended" \in States
  BY DEF Stored, States
<1>2. /\ log' \in Seq(Documents) /\ Len(log') = Len(log) /\ Stamps' = Stamps
      /\ log'[i].state = "ended" /\ log'[i].kind = log[i].kind
      /\ \A s \in Stamps : s # i => log'[s] = log[s]
  BY <1>1, StateWritten
<1>3. Stored' = Stored
  BY <1>1, <1>2 DEF Stored
<1> QED BY <1>2, <1>3, CurrentStays

(* The document of an insert in flight, when it lands, is the current one. *)
LEMMA InsertLands ==
  ASSUME TypeOK, LogInv, Len(log) \in Stamps, log[Len(log)].state = "pending",
         log' = [log EXCEPT ![Len(log)].state = "running"]
  PROVE  /\ log' \in Seq(Documents) /\ Len(log') = Len(log) /\ Stamps' = Stamps
         /\ log'[Len(log)].state = "running"
         /\ \A s \in Stamps : s # Len(log) => log'[s] = log[s]
         /\ Stored' = Stored \cup {Len(log)} /\ CurrentLog' = Len(log)
<1>1. /\ log' \in Seq(Documents) /\ Len(log') = Len(log) /\ Stamps' = Stamps
      /\ log'[Len(log)].state = "running"
      /\ \A s \in Stamps : s # Len(log) => log'[s] = log[s]
  BY StateWritten DEF States
<1>2. Stored' = Stored \cup {Len(log)}
  BY <1>1 DEF Stored
<1>3. /\ Stored' \in SUBSET Nat /\ Len(log) \in Stored' /\ \A s \in Stored' : s <= Len(log)
  BY <1>2, StampsType
<1>4. CurrentLog' = CHOOSE x \in Stored' : \A r \in Stored' : r <= x
  BY <1>3 DEF CurrentLog
<1> QED BY <1>1, <1>2, <1>3, <1>4, LargestIs

-----------------------------------------------------------------------------
(* TYPES                                                                   *)

Places == {"new", "query", "act", "write"} \cup Answers

RequestsOf(stamps) ==
    [op : {"none", "start", "stop"}, at : Places, busy : BOOLEAN,
     stamp : stamps \cup {0}, aim : stamps \cup {0}]

LEMMA CurrentType ==
  ASSUME TypeOK, LogInv
  PROVE  CurrentLog \in Stored \cup {0} /\ InProgress(CurrentLog) \in BOOLEAN
BY DEF LogInv, CurrentLog, InProgress

LEMMA ExitType ==
  ASSUME TypeOK, NEW r \in [Clients -> RequestsOf(Stamps)], Exit(r)
  PROVE  /\ log' \in Seq(Documents) /\ Len(log') = Len(log) /\ Stamps' = Stamps
         /\ \A s \in Stamps :
               \/ log'[s] = log[s] /\ log[s].state # "pending"
               \/ log[s].state = "pending" /\ log'[s].state \in {"running", "lost"}
         /\ req' = [c \in Clients |-> IF Closed(r[c]) THEN r[c] ELSE [r[c] EXCEPT !.at = "gone"]]
         /\ req' \in [Clients -> RequestsOf(Stamps)]
         /\ \A c \in Clients : Closed(req'[c])
         /\ lpc' = "down" /\ ltask' = 0 /\ lctl' = 0 /\ left' = 0 /\ lstop' = 0 /\ astray' = FALSE
<1>1. PICK kept \in SUBSET {s \in Stamps : log[s].state = "pending"} :
         log' = [s \in Stamps |->
                     IF log[s].state # "pending" THEN log[s]
                     ELSE [log[s] EXCEPT !.state = IF s \in kept THEN "running" ELSE "lost"]]
  BY DEF Exit
<1>2. Stamps = 1..Len(log) /\ Len(log) \in Nat /\ \A s \in Stamps : log[s] \in Documents
  BY StampsType
<1>3. ASSUME NEW s \in Stamps
      PROVE  /\ log'[s] \in Documents
             /\ \/ log'[s] = log[s] /\ log[s].state # "pending"
                \/ log[s].state = "pending" /\ log'[s].state \in {"running", "lost"}
  BY <1>1, <1>2 DEF Documents, States
<1>4. log' = [s \in 1..Len(log) |-> log'[s]]
  BY <1>1, <1>2
<1>5. log' \in Seq(Documents) /\ Len(log') = Len(log)
  BY <1>2, <1>3, <1>4
<1>6. Stamps' = Stamps
  BY <1>2, <1>5 DEF Stamps
<1>7. req' = [c \in Clients |-> IF Closed(r[c]) THEN r[c] ELSE [r[c] EXCEPT !.at = "gone"]]
  BY DEF Exit
<1>8. ASSUME NEW c \in Clients PROVE req'[c] \in RequestsOf(Stamps) /\ Closed(req'[c])
  BY <1>7 DEF RequestsOf, Places, Answers, Closed
<1> QED BY <1>3, <1>5, <1>6, <1>7, <1>8 DEF Exit, Idle

LEMMA SentType ==
  ASSUME TypeOK, LogInv, NEW c \in Clients, NEW o \in {"start", "stop"}
  PROVE  /\ Sent(c, o) \in [Clients -> RequestsOf(Stamps)]
         /\ Sent(c, o)[c].op = o /\ Sent(c, o)[c].at = "query"
         /\ \A d \in Clients : d # c => Sent(c, o)[d] = req[d]
<1>1. req \in [Clients -> RequestsOf(Stamps)]
  BY DEF TypeOK, RequestsOf, Places
<1>2. CurrentLog \in Stamps \cup {0}
  BY CurrentType, StampsType
<1> DEFINE a == IF InProgress(CurrentLog) THEN CurrentLog ELSE 0
<1>3. a \in Stamps \cup {0}
  BY <1>2
<1> HIDE DEF a
<1>4. Sent(c, o) = [req EXCEPT ![c].op = o, ![c].at = "query", ![c].aim = a]
  BY DEF Sent, a
<1>5. /\ Sent(c, o)[c] = [req[c] EXCEPT !.op = o, !.at = "query", !.aim = a]
      /\ \A d \in Clients : d # c => Sent(c, o)[d] = req[d]
      /\ Sent(c, o) = [d \in Clients |-> Sent(c, o)[d]]
  BY <1>1, <1>4
<1>6. Sent(c, o)[c] \in RequestsOf(Stamps) /\ Sent(c, o)[c].op = o /\ Sent(c, o)[c].at = "query"
  <2> DEFINE r == req[c]
  <2>1. r \in RequestsOf(Stamps) /\ Sent(c, o)[c] = [r EXCEPT !.op = o, !.at = "query", !.aim = a]
    BY <1>1, <1>5
  <2> HIDE DEF r
  <2>2. "query" \in Places /\ o \in {"none", "start", "stop"}
    BY DEF Places
  <2>3. [r EXCEPT !.op = o, !.at = "query", !.aim = a] \in RequestsOf(Stamps)
    BY <1>3, <2>1, <2>2 DEF RequestsOf
  <2>4. /\ [r EXCEPT !.op = o, !.at = "query", !.aim = a].op = o
        /\ [r EXCEPT !.op = o, !.at = "query", !.aim = a].at = "query"
    BY <2>1 DEF RequestsOf
  <2> QED BY <2>1, <2>3, <2>4
<1>7. Sent(c, o) \in [Clients -> RequestsOf(Stamps)]
  BY <1>1, <1>5, <1>6
<1> QED BY <1>5, <1>6, <1>7

LEMMA TypeStep ==
  ASSUME TypeOK, LogInv, LoopInv, [Next]_vars
  PROVE  TypeOK'
<1> USE DEF loopVars
<1>T. /\ log \in Seq(Documents) /\ req \in [Clients -> RequestsOf(Stamps)]
      /\ ctl \in Nat /\ aborted \subseteq Nat /\ lpc \in LoopPCs
      /\ ltask \in Stamps \cup {0} /\ lctl \in Nat /\ left \in 0..Ranges
      /\ lstop \in Stamps \cup {0} /\ astray \in BOOLEAN /\ faults \in 0..MaxFaults
  BY DEF TypeOK, Documents, RequestsOf, Places
<1>C. CurrentLog \in Stamps \cup {0} /\ InProgress(CurrentLog) \in BOOLEAN
  BY CurrentType, StampsType
<1>F. ASSUME /\ log' \in Seq(Documents) /\ req' \in [Clients -> RequestsOf(Stamps')]
             /\ ctl' \in Nat /\ aborted' \subseteq Nat /\ lpc' \in LoopPCs
             /\ ltask' \in Stamps' \cup {0} /\ lctl' \in Nat /\ left' \in 0..Ranges
             /\ lstop' \in Stamps' \cup {0} /\ astray' \in BOOLEAN /\ faults' \in 0..MaxFaults
      PROVE  TypeOK'
  BY <1>F DEF TypeOK, Documents, RequestsOf, Places
<1>R. ASSUME Stamps' = Stamps, log' \in Seq(Documents), req' \in [Clients -> RequestsOf(Stamps)],
             ctl' \in Nat, aborted' \subseteq Nat, UNCHANGED <<loopVars, faults>>
      PROVE  TypeOK'
  BY <1>R, <1>T, <1>F
<1>1. CASE UNCHANGED vars
  <2>1. Stamps' = Stamps
    BY <1>1 DEF vars, Stamps
  <2> QED BY <1>1, <1>T, <1>R, <2>1 DEF vars
<1>E. ASSUME NEW r \in [Clients -> RequestsOf(Stamps)], Exit(r), ctl' = ctl,
             aborted' \subseteq Nat, faults' \in 0..MaxFaults
      PROVE  TypeOK'
  <2>1. /\ log' \in Seq(Documents) /\ Stamps' = Stamps /\ req' \in [Clients -> RequestsOf(Stamps)]
        /\ lpc' = "down" /\ ltask' = 0 /\ lctl' = 0 /\ left' = 0 /\ lstop' = 0 /\ astray' = FALSE
    BY <1>E, ExitType
  <2>2. 0 \in 0..Ranges /\ 0 \in Nat
    BY ConstantsAssumption
  <2> QED BY <1>E, <1>T, <1>F, <2>1, <2>2 DEF LoopPCs
<1>2. ASSUME NEW c \in Clients, StartRequest(c) PROVE TypeOK'
  <2>1. Stamps' = Stamps
    BY <1>2 DEF StartRequest, Stamps
  <2> QED BY <1>2, <1>T, <1>R, <2>1, SentType DEF StartRequest
<1>3. ASSUME NEW c \in Clients, StopRequest(c) PROVE TypeOK'
  <2>1. Sent(c, "stop") \in [Clients -> RequestsOf(Stamps)] /\ aborted' \subseteq Nat
        /\ UNCHANGED <<ctl, faults>>
    BY <1>3, <1>T, SentType DEF StopRequest
  <2>2. CASE Exit(Sent(c, "stop"))
    BY <1>T, <1>E, <2>1, <2>2
  <2>3. CASE req' = Sent(c, "stop") /\ UNCHANGED <<log, loopVars>>
    <3>1. Stamps' = Stamps
      BY <2>3 DEF Stamps
    <3> QED BY <1>T, <1>R, <2>1, <2>3, <3>1
  <2> QED BY <1>3, <2>2, <2>3 DEF StopRequest
<1>4. ASSUME NEW c \in Clients, StartConflict(c) \/ StartQuery(c) \/ StopQuery(c) PROVE TypeOK'
  <2>1. Stamps' = Stamps /\ UNCHANGED <<log, ctl, aborted, loopVars, faults>>
    BY <1>4 DEF StartConflict, StartQuery, StopQuery, Stamps
  <2>2. {"act", "write", "badRequest", "conflict"} \subseteq Places
    BY DEF Places, Answers
  <2>3. \/ req' = [req EXCEPT ![c].at = "conflict"]
        \/ req' = [req EXCEPT ![c].at = "act", ![c].busy = InProgress(CurrentLog)]
        \/ req' = [req EXCEPT ![c].at = "write", ![c].stamp = CurrentLog]
        \/ req' = [req EXCEPT ![c].at = "badRequest"]
    BY <1>4 DEF StartConflict, StartQuery, StopQuery
  <2> DEFINE r == req[c]
             b == InProgress(CurrentLog)
             s == CurrentLog
  <2>4. r \in RequestsOf(Stamps) /\ b \in BOOLEAN /\ s \in Stamps \cup {0}
    BY <1>T, <1>C
  <2>5. /\ req' = [d \in Clients |-> IF d = c THEN req'[c] ELSE req[d]]
        /\ \/ req'[c] = [r EXCEPT !.at = "conflict"]
           \/ req'[c] = [r EXCEPT !.at = "act", !.busy = b]
           \/ req'[c] = [r EXCEPT !.at = "write", !.stamp = s]
           \/ req'[c] = [r EXCEPT !.at = "badRequest"]
    BY <1>T, <2>3
  <2>6. req'[c] \in RequestsOf(Stamps)
    <3> HIDE DEF r, b, s
    <3>1. [r EXCEPT !.at = "conflict"] \in RequestsOf(Stamps)
      BY <2>2, <2>4 DEF RequestsOf
    <3>2. [r EXCEPT !.at = "act", !.busy = b] \in RequestsOf(Stamps)
      BY <2>2, <2>4 DEF RequestsOf
    <3>3. [r EXCEPT !.at = "write", !.stamp = s] \in RequestsOf(Stamps)
      BY <2>2, <2>4 DEF RequestsOf
    <3>4. [r EXCEPT !.at = "badRequest"] \in RequestsOf(Stamps)
      BY <2>2, <2>4 DEF RequestsOf
    <3> QED BY <2>5, <3>1, <3>2, <3>3, <3>4
  <2>7. req' \in [Clients -> RequestsOf(Stamps)]
    BY <1>T, <2>5, <2>6
  <2> QED BY <1>T, <1>R, <2>1, <2>7
<1>5. ASSUME NEW c \in Clients, NEW k \in Kinds, StartAct(c, k) PROVE TypeOK'
  <2>1. log' = Append(log, [kind |-> k, state |-> "pending"])
    BY <1>5 DEF StartAct, NewTask
  <2>2. /\ log' \in Seq(Documents) /\ Stamps' = Stamps \cup {Len(log) + 1}
    BY <2>1, StateAppended
  <2>3. req' = [req EXCEPT ![c].at = "write", ![c].stamp = Len(log) + 1]
    BY <1>5 DEF StartAct, NewTask
  <2> DEFINE r == req[c]
             s == Len(log) + 1
  <2>4. /\ r \in RequestsOf(Stamps') /\ s \in Stamps' \cup {0}
        /\ \A d \in Clients : req[d] \in RequestsOf(Stamps')
    BY <1>T, <2>2 DEF RequestsOf
  <2>5. /\ req' = [d \in Clients |-> IF d = c THEN req'[c] ELSE req[d]]
        /\ req'[c] = [r EXCEPT !.at = "write", !.stamp = s]
    BY <1>T, <2>3
  <2>6. req'[c] \in RequestsOf(Stamps')
    <3> HIDE DEF r, s
    <3>1. "write" \in Places
      BY DEF Places
    <3> QED BY <2>4, <2>5, <3>1 DEF RequestsOf
  <2>7. req' \in [Clients -> RequestsOf(Stamps')]
    BY <2>4, <2>5, <2>6
  <2>8. ctl' = ctl + 1 /\ UNCHANGED <<aborted, lpc, ltask, lctl, left, lstop, astray, faults>>
    BY <1>5 DEF StartAct
  <2>9. ltask' \in Stamps' \cup {0} /\ lstop' \in Stamps' \cup {0} /\ ctl' \in Nat
    BY <1>T, <2>2, <2>8
  <2> QED BY <1>T, <1>F, <2>2, <2>7, <2>8, <2>9
<1>6. ASSUME NEW c \in Clients, StartWrite(c) \/ StopWrite(c) PROVE TypeOK'
  <2>1. /\ req' = [req EXCEPT ![c].at = "ok"]
        /\ UNCHANGED <<ctl, aborted, loopVars, faults>>
    BY <1>6 DEF StartWrite, StopWrite
  <2>2. req[c].stamp \in Stamps /\ {"running", "ended"} \subseteq States
    BY <1>6, StampsType DEF StartWrite, StopWrite, LogInv, Starting, States
  <2>3. PICK st \in {"running", "ended"} : log' = [log EXCEPT ![req[c].stamp].state = st]
    BY <1>6 DEF StartWrite, StopWrite
  <2>4. log' \in Seq(Documents) /\ Stamps' = Stamps
    BY <2>2, <2>3, StateWritten
  <2>5. req' \in [Clients -> RequestsOf(Stamps)]
    BY <1>T, <2>1 DEF RequestsOf, Places, Answers
  <2> QED BY <1>T, <1>R, <2>1, <2>4, <2>5
<1>12. ASSUME NEW c \in Clients, HandlerFails(c) PROVE TypeOK'
  <2>1. /\ req' = [req EXCEPT ![c].at = "error"] /\ faults' \in 0..MaxFaults
        /\ UNCHANGED <<ctl, aborted, loopVars>>
    BY <1>12, <1>T, ConstantsAssumption DEF HandlerFails, QueryFails, StartWriteFails, StopWriteFails, Fault
  <2>2. log' \in Seq(Documents) /\ Stamps' = Stamps
    <3>1. CASE log' = log
      BY <1>T, <3>1 DEF Stamps
    <3>2. CASE log' # log
      <4>1. req[c].stamp \in Stamps /\ {"running", "lost", "ended"} \subseteq States
        BY <1>12, <3>2, StampsType DEF HandlerFails, QueryFails, StartWriteFails, StopWriteFails,
          LogInv, Starting, States
      <4>2. PICK st \in {"running", "lost", "ended"} : log' = [log EXCEPT ![req[c].stamp].state = st]
        BY <1>12, <3>2 DEF HandlerFails, QueryFails, StartWriteFails, StopWriteFails
      <4> QED BY <4>1, <4>2, StateWritten
    <3> QED BY <3>1, <3>2
  <2>3. req' \in [Clients -> RequestsOf(Stamps)]
    BY <1>T, <2>1 DEF RequestsOf, Places, Answers
  <2> QED BY <1>T, <1>F, <2>1, <2>2, <2>3
<1>7. CASE LoopPick \/ LoopCapture \/ LoopAborted \/ LoopGoOn \/ LoopPollNew
           \/ LoopWakeUp \/ LoopRead \/ LoopFinish \/ Restart
  <2>1. Stamps' = Stamps /\ UNCHANGED <<log, req, faults>>
    BY <1>7 DEF LoopPick, LoopCapture, LoopAborted, LoopGoOn, LoopPollNew,
      LoopWakeUp, LoopRead, LoopFinish, Restart, Stamps
  <2>2. ctl' \in Nat /\ aborted' \subseteq Nat
    <3>1. ctl' \in {ctl, ctl + 1} /\ aborted' \in {aborted, aborted \cup {ctl}}
      BY <1>7 DEF LoopPick, LoopCapture, LoopAborted, LoopGoOn, LoopPollNew,
        LoopWakeUp, LoopRead, LoopFinish, Restart
    <3> QED BY <1>T, <3>1
  <2>5. lpc' \in LoopPCs
    BY <1>7 DEF LoopPick, LoopCapture, LoopAborted, LoopGoOn, LoopPollNew,
      LoopWakeUp, LoopRead, LoopFinish, Restart, LoopPCs, Idle
  <2>3. ltask' \in Stamps \cup {0} /\ lctl' \in Nat /\ lstop' \in Stamps \cup {0}
    BY <1>7, <1>T, <1>C DEF LoopPick, LoopCapture, LoopAborted, LoopGoOn, LoopPollNew,
      LoopWakeUp, LoopRead, LoopFinish, Restart, Idle
  <2>6. left' \in 0..Ranges
    <3>1. left' \in {0, Ranges, left} \/ (left' = left - 1 /\ left > 0)
      BY <1>7, <1>T DEF LoopPick, LoopCapture, LoopAborted, LoopGoOn, LoopPollNew,
        LoopWakeUp, LoopRead, LoopFinish, Restart, Idle, LoopInv
    <3> QED BY <1>T, <3>1, ConstantsAssumption
  <2>4. astray' \in BOOLEAN
    BY <1>7, <1>T DEF LoopPick, LoopCapture, LoopAborted, LoopGoOn, LoopPollNew,
      LoopWakeUp, LoopRead, LoopFinish, Restart, Idle
  <2> QED BY <1>T, <1>F, <2>1, <2>2, <2>3, <2>4, <2>5, <2>6
<1>8. CASE LoopPollWait
  <2>1. CASE Exit(req)
    BY <1>8, <1>T, <1>E, <2>1 DEF LoopPollWait
  <2>2. CASE lpc' = "wait" /\ UNCHANGED <<log, req, ltask, lctl, left, lstop, astray>>
    BY <1>8, <1>T, <1>F, <2>2 DEF LoopPollWait, LoopPCs, Stamps
  <2> QED BY <1>8, <2>1, <2>2 DEF LoopPollWait
<1>9. CASE LoopStopQuery
  <2>1. CASE Exit(req)
    BY <1>9, <1>T, <1>E, <2>1 DEF LoopStopQuery
  <2>2. CASE lpc' = "stopWrite" /\ lstop' = CurrentLog /\ UNCHANGED <<log, req, ltask, lctl, left, astray>>
    BY <1>9, <1>T, <1>C, <1>F, <2>2 DEF LoopStopQuery, LoopPCs, Stamps
  <2> QED BY <1>9, <2>1, <2>2 DEF LoopStopQuery
<1>10. CASE LoopStopWrite
  <2>1. lstop \in Stored /\ log' = [log EXCEPT ![lstop].state = "ended"]
    BY <1>10 DEF LoopStopWrite, LoopInv
  <2>2. log' \in Seq(Documents) /\ Stamps' = Stamps
    BY <2>1, TaskEnded
  <2>3. /\ lpc' = "top" /\ ltask' = 0 /\ lctl' = 0 /\ left' = 0 /\ lstop' = 0 /\ astray' = FALSE
        /\ UNCHANGED <<ctl, aborted, req, faults>>
    BY <1>10 DEF LoopStopWrite, Idle
  <2>4. 0 \in 0..Ranges /\ 0 \in Nat
    BY ConstantsAssumption
  <2> QED BY <1>T, <1>F, <2>2, <2>3, <2>4 DEF LoopPCs
<1>11. CASE Crash
  BY <1>11, <1>T, <1>E, ConstantsAssumption DEF Crash, Fault
<1> QED BY <1>1, <1>2, <1>3, <1>4, <1>5, <1>6, <1>7, <1>8, <1>9, <1>10, <1>11, <1>12
  DEF Next, Requests, Handlers, Loop

-----------------------------------------------------------------------------
(* REQUESTS IN TURN                                                        *)

(* A handler's step, and its failure, works on an open request and leaves  *)
(* the loop alone.                                                         *)
LEMMA HandlerFrame ==
  ASSUME TypeOK, NEW c \in Clients, Handlers(c)
  PROVE  /\ ~Closed(req[c]) /\ req'[c].op = req[c].op
         /\ \A d \in Clients : d # c => req'[d] = req[d]
         /\ UNCHANGED <<loopVars, aborted, faults>>
<1>1. req \in [Clients -> RequestsOf(Stamps)]
  BY DEF TypeOK, RequestsOf, Places
<1>2. ~Closed(req[c]) /\ UNCHANGED <<loopVars, aborted, faults>>
  BY DEF Handlers, StartQuery, StartConflict, StartAct, StartWrite, StopQuery, StopWrite,
    Closed, Answers
<1>3. \A d \in Clients : d # c => req'[d] = req[d]
  BY <1>1 DEF Handlers, StartQuery, StartConflict, StartAct, StartWrite, StopQuery,
    StopWrite, NewTask
<1>4. req'[c].op = req[c].op
  BY <1>1 DEF Handlers, StartQuery, StartConflict, StartAct, StartWrite, StopQuery,
    StopWrite, NewTask, RequestsOf
<1> QED BY <1>2, <1>3, <1>4

LEMMA FailureFrame ==
  ASSUME TypeOK, NEW c \in Clients, HandlerFails(c)
  PROVE  /\ ~Closed(req[c]) /\ req'[c].op = req[c].op /\ req'[c].at = "error"
         /\ \A d \in Clients : d # c => req'[d] = req[d]
         /\ UNCHANGED <<loopVars, aborted, ctl>>
<1>1. req \in [Clients -> RequestsOf(Stamps)]
  BY DEF TypeOK, RequestsOf, Places
<1>2. ~Closed(req[c]) /\ UNCHANGED <<loopVars, aborted, ctl>>
  BY DEF HandlerFails, QueryFails, StartWriteFails, StopWriteFails, Closed, Answers
<1>3. req' = [req EXCEPT ![c].at = "error"]
  BY DEF HandlerFails, QueryFails, StartWriteFails, StopWriteFails
<1> QED BY <1>1, <1>2, <1>3 DEF RequestsOf

LEMMA TurnStep ==
  ASSUME Sequential, TypeOK, LogInv, TurnInv, [Next]_vars
  PROVE  TurnInv'
<1> USE DEF TurnInv
<1>T. req \in [Clients -> RequestsOf(Stamps)]
  BY DEF TypeOK, RequestsOf, Places
<1>1. CASE UNCHANGED <<req, lpc>>
  BY <1>1
<1>E. ASSUME NEW r \in [Clients -> RequestsOf(Stamps)], Exit(r) PROVE TurnInv'
  BY <1>E, ExitType
<1>2. ASSUME NEW c \in Clients, NEW o \in {"start", "stop"}, MayAsk(c),
             req' = Sent(c, o), lpc' = lpc
      PROVE  TurnInv'
  <2>1. \A d \in Clients : d # c => req'[d] = req[d] /\ Closed(req[d])
    BY <1>2, SentType DEF MayAsk
  <2> QED BY <1>2, <2>1 DEF MayAsk
<1>3. ASSUME NEW c \in Clients, Handlers(c) PROVE TurnInv'
  <2>1. /\ ~Closed(req[c]) /\ lpc' = lpc
        /\ \A d \in Clients : d # c => req'[d] = req[d]
    BY <1>3, HandlerFrame DEF loopVars
  <2> QED BY <2>1
<1>6. ASSUME NEW c \in Clients, HandlerFails(c) PROVE TurnInv'
  <2>1. /\ ~Closed(req[c]) /\ lpc' = lpc
        /\ \A d \in Clients : d # c => req'[d] = req[d]
    BY <1>6, FailureFrame DEF loopVars
  <2> QED BY <2>1
<1>4. ASSUME NEW c \in Clients, Requests(c) PROVE TurnInv'
  <2>1. Sent(c, "stop") \in [Clients -> RequestsOf(Stamps)]
    BY SentType
  <2>2. CASE Exit(Sent(c, "stop"))
    BY <1>E, <2>1, <2>2
  <2> QED BY <1>2, <1>4, <2>2 DEF Requests, StartRequest, StopRequest, loopVars
<1>5. CASE Loop \/ Crash \/ Restart
  <2>1. Exit(req) => TurnInv'
    BY <1>T, <1>E
  <2>2. Exit(req) \/ (req' = req /\ (lpc' = "down" => lpc = "down"))
        \/ (req' = req /\ lpc' # "down")
    BY <1>5 DEF Loop, Crash, Restart, LoopPick, LoopCapture, LoopAborted, LoopGoOn, LoopPollNew,
      LoopPollWait, LoopWakeUp, LoopRead, LoopFinish, LoopStopQuery, LoopStopWrite, Idle
  <2> QED BY <2>1, <2>2
<1> QED BY <1>1, <1>3, <1>4, <1>5, <1>6 DEF Next, vars, loopVars

-----------------------------------------------------------------------------
(* THE STATE LOG IN TURN                                                   *)

LEMMA LogStays ==
  ASSUME log' = log
  PROVE  Stamps' = Stamps /\ Len(log') = Len(log) /\ Stored' = Stored /\ CurrentLog' = CurrentLog
BY DEF Stamps, Stored, CurrentLog

(* No task is in progress where the current one is not.                    *)
LEMMA NoneInProgress ==
  ASSUME TypeOK, LogInv, ~InProgress(CurrentLog)
  PROVE  \A s \in Stamps : log[s].state # "running"
<1>1. 0 \notin Stamps
  BY StampsType
<1> QED BY <1>1 DEF LogInv, RunningTaskVisible, InProgress

LEMMA LogExit ==
  ASSUME TypeOK, LogInv, TurnInv, NEW r \in [Clients -> RequestsOf(Stamps)], Exit(r)
  PROVE  LogInv'
<1>1. /\ Len(log') = Len(log) /\ Stamps' = Stamps
      /\ \A s \in Stamps :
            \/ log'[s] = log[s] /\ log[s].state # "pending"
            \/ log[s].state = "pending" /\ log'[s].state \in {"running", "lost"}
      /\ \A c \in Clients : Closed(req'[c])
  BY ExitType
<1>2. \A c \in Clients : req'[c].at \notin {"write", "act"}
  BY <1>1 DEF Closed, Answers
<1>3. \A s \in Stamps : log'[s].state # "pending"
  BY <1>1
<1>4. Stamps \subseteq Nat /\ Stored' \subseteq Stamps /\ Stored \subseteq Stamps
  BY <1>1, StampsType DEF Stored
<1>5. \A s \in Stamps : log[s].state = "pending" => s = Len(log)
  BY DEF LogInv
<1>6. CASE \E s \in Stamps : log[s].state = "pending" /\ log'[s].state = "running"
  <2>1. /\ Len(log) \in Stamps /\ log[Len(log)].state = "pending"
        /\ log'[Len(log)].state = "running"
    BY <1>5, <1>6
  <2>2. \A s \in Stamps : log[s].state # "running"
    BY <2>1 DEF LogInv, Starting
  <2>3. \A s \in Stamps : s <= Len(log)
    BY StampsType
  <2>4. Stored' \in SUBSET Nat /\ Len(log) \in Stored' /\ \A s \in Stored' : s <= Len(log)
    BY <1>1, <1>4, <2>1, <2>3 DEF Stored
  <2>5. CurrentLog' = Len(log)
    <3>1. CurrentLog' = CHOOSE x \in Stored' : \A s \in Stored' : s <= x
      BY <2>4 DEF CurrentLog
    <3> QED BY <2>4, <3>1, LargestIs
  <2>6. \A s \in Stamps : log'[s].state = "running" => s = Len(log)
    BY <1>1, <1>5, <2>2
  <2> QED BY <1>1, <1>2, <1>3, <2>4, <2>5, <2>6 DEF LogInv, Starting, RunningTaskVisible
<1>7. CASE ~\E s \in Stamps : log[s].state = "pending" /\ log'[s].state = "running"
  <2>1. Stored' = Stored
    BY <1>1, <1>7 DEF Stored
  <2>2. CurrentLog' = CurrentLog
    BY <2>1, CurrentStays
  <2>3. \A s \in Stamps : log'[s].state = "running" => log[s].state = "running"
    BY <1>1, <1>7
  <2> QED BY <1>1, <1>2, <1>3, <2>1, <2>2, <2>3 DEF LogInv, Starting, RunningTaskVisible
<1> QED BY <1>6, <1>7

LEMMA LogStep ==
  ASSUME Sequential, TypeOK, TurnInv, LogInv, LoopInv, [Next]_vars
  PROVE  LogInv'
<1>T. req \in [Clients -> RequestsOf(Stamps)]
  BY DEF TypeOK, RequestsOf, Places
<1>1. CASE UNCHANGED <<log, req>>
  BY <1>1, LogStays DEF LogInv, Starting, RunningTaskVisible
<1>2. ASSUME NEW c \in Clients, NEW o \in {"start", "stop"}, req' = Sent(c, o), log' = log,
             MayAsk(c)
      PROVE  LogInv'
  <2>1. /\ req'[c].at = "query" /\ req[c].at = "new"
        /\ \A d \in Clients : d # c => req'[d] = req[d]
    BY <1>2, SentType DEF MayAsk
  <2> QED BY <1>2, <2>1, LogStays DEF LogInv, Starting, RunningTaskVisible
<1>3. ASSUME NEW c \in Clients, Requests(c) PROVE LogInv'
  <2>1. CASE Exit(Sent(c, "stop"))
    <3>1. Sent(c, "stop") \in [Clients -> RequestsOf(Stamps)]
      BY SentType
    <3> QED BY <2>1, <3>1, LogExit
  <2> QED BY <1>2, <1>3, <2>1 DEF Requests, StartRequest, StopRequest
<1>4. ASSUME NEW c \in Clients, StartQuery(c) PROVE LogInv'
  <2>1. /\ log' = log /\ req[c].at = "query"
        /\ req'[c].at = "act" /\ req'[c].busy = InProgress(CurrentLog)
        /\ \A d \in Clients : d # c => req'[d] = req[d]
    BY <1>4, <1>T DEF StartQuery, RequestsOf
  <2>2. ~req'[c].busy => \A s \in Stamps : log[s].state # "running"
    BY <2>1, NoneInProgress
  <2> QED BY <2>1, <2>2, LogStays DEF LogInv, Starting, RunningTaskVisible
<1>5. ASSUME NEW c \in Clients, StartConflict(c) PROVE LogInv'
  <2>1. /\ log' = log /\ req[c].at = "act" /\ req'[c].at = "conflict"
        /\ \A d \in Clients : d # c => req'[d] = req[d]
    BY <1>5, <1>T DEF StartConflict, RequestsOf
  <2> QED BY <2>1, LogStays DEF LogInv, Starting, RunningTaskVisible
<1>6. ASSUME NEW c \in Clients, NEW k \in Kinds, StartAct(c, k) PROVE LogInv'
  <2> DEFINE n == Len(log) + 1
  <2>1. /\ req[c].op = "start" /\ req[c].at = "act" /\ ~req[c].busy
        /\ req'[c].op = "start" /\ req'[c].at = "write" /\ req'[c].stamp = n
        /\ \A d \in Clients : d # c => req'[d] = req[d]
        /\ log' = Append(log, [kind |-> k, state |-> "pending"])
    BY <1>6, <1>T DEF StartAct, NewTask, RequestsOf
  <2>2. /\ Len(log') = n /\ Stamps' = Stamps \cup {n} /\ n \notin Stamps
        /\ log'[n].state = "pending"
        /\ \A s \in Stamps : log'[s] = log[s]
    BY <2>1, StateAppended
  <2>3. \A d \in Clients : d # c => Closed(req[d])
    BY <2>1 DEF TurnInv, Closed, Answers
  <2>4. \A d \in Clients : d # c => req[d].at \notin {"act", "write"}
    BY <2>3 DEF Closed, Answers
  <2>5. \A s \in Stamps : log[s].state \notin {"pending", "running"}
    BY <2>1, <2>4 DEF LogInv, Starting
  <2>6. Stored' = Stored
    BY <2>2 DEF Stored
  <2> QED BY <2>1, <2>2, <2>4, <2>5, <2>6, CurrentStays DEF LogInv, Starting, RunningTaskVisible
<1>I. ASSUME NEW c \in Clients, Starting(c), req'[c].at \in {"ok", "error"},
             \A d \in Clients : d # c => req'[d] = req[d],
             log' = [log EXCEPT ![req[c].stamp].state = "running"]
      PROVE  LogInv'
  <2>2. /\ req[c].stamp = Len(log) /\ Len(log) \in Stamps /\ log[Len(log)].state = "pending"
        /\ \A s \in Stamps : log[s].state # "running"
    BY <1>I DEF LogInv, Starting
  <2>3. /\ Len(log') = Len(log) /\ Stamps' = Stamps
        /\ log'[Len(log)].state = "running"
        /\ \A s \in Stamps : s # Len(log) => log'[s] = log[s]
        /\ Stored' = Stored \cup {Len(log)} /\ CurrentLog' = Len(log)
    BY <1>I, <2>2, InsertLands
  <2>4. \A d \in Clients : req'[d].at \notin {"act", "write"}
    <3>1. \A d \in Clients : d # c => Closed(req[d])
      BY <1>I DEF TurnInv, Closed, Answers, Starting
    <3> QED BY <1>I, <3>1 DEF Closed, Answers
  <2>5. \A s \in Stamps : log'[s].state # "pending"
    BY <2>2, <2>3 DEF LogInv
  <2>6. \A s \in Stored' : s <= Len(log)
    BY <2>2, <2>3, StampsType
  <2> QED BY <2>2, <2>3, <2>4, <2>5, <2>6 DEF LogInv, Starting, RunningTaskVisible
<1>7. ASSUME NEW c \in Clients, StartWrite(c) PROVE LogInv'
  <2>1. /\ Starting(c) /\ req'[c].at = "ok"
        /\ \A d \in Clients : d # c => req'[d] = req[d]
        /\ log' = [log EXCEPT ![req[c].stamp].state = "running"]
    BY <1>7, <1>T DEF StartWrite, RequestsOf, Starting
  <2> QED BY <1>I, <2>1
<1>8. ASSUME NEW c \in Clients, StopQuery(c) PROVE LogInv'
  <2>1. /\ log' = log /\ req[c].op = "stop" /\ req'[c].op = "stop" /\ req[c].at = "query"
        /\ req'[c].at \in {"write", "badRequest"}
        /\ req'[c].at = "write" => InProgress(CurrentLog) /\ req'[c].stamp = CurrentLog
        /\ \A d \in Clients : d # c => req'[d] = req[d]
    BY <1>8, <1>T DEF StopQuery, RequestsOf
  <2>2. InProgress(CurrentLog) => CurrentLog \in Stored
    BY CurrentType DEF InProgress
  <2> QED BY <2>1, <2>2, LogStays DEF LogInv, Starting, RunningTaskVisible
<1> DEFINE StopAnswered(d) ==
             \/ req'[d] = req[d]
             \/ req[d].op = "stop" /\ req'[d].op = "stop" /\ req'[d].at \in {"ok", "error"}
<1>S. ASSUME NEW i \in Stored, log' = [log EXCEPT ![i].state = "ended"],
             \A d \in Clients : StopAnswered(d)
      PROVE  LogInv'
  <2>1. /\ Len(log') = Len(log) /\ Stamps' = Stamps
        /\ log'[i].state = "ended" /\ log[i].state # "pending"
        /\ \A s \in Stamps : s # i => log'[s] = log[s]
        /\ Stored' = Stored /\ CurrentLog' = CurrentLog
    BY <1>S, TaskEnded DEF Stored
  <2>2. \A c \in Clients : Starting(c) => Starting(c)' /\ req'[c] = req[c]
    BY <1>S DEF Starting
  <2>3. \A c \in Clients : Starting(c)' => Starting(c) /\ req'[c] = req[c]
    BY <1>S DEF Starting
  <2>4. \A c \in Clients : req'[c].at \in {"write", "act"} => req'[c] = req[c]
    BY <1>S
  <2> QED BY <2>1, <2>2, <2>3, <2>4 DEF LogInv, RunningTaskVisible
<1>9. ASSUME NEW c \in Clients, StopWrite(c) PROVE LogInv'
  <2>1. /\ req[c].op = "stop" /\ req[c].at = "write" /\ req'[c].op = "stop" /\ req'[c].at = "ok"
        /\ \A d \in Clients : d # c => req'[d] = req[d]
        /\ log' = [log EXCEPT ![req[c].stamp].state = "ended"]
    BY <1>9, <1>T DEF StopWrite, RequestsOf
  <2>2. req[c].stamp \in Stored /\ \A d \in Clients : StopAnswered(d)
    BY <2>1 DEF LogInv
  <2> HIDE DEF StopAnswered
  <2> QED BY <1>S, <2>1, <2>2
<1>F. ASSUME NEW c \in Clients, HandlerFails(c) PROVE LogInv'
  <2>F. /\ req'[c].op = req[c].op /\ req'[c].at = "error"
        /\ \A d \in Clients : d # c => req'[d] = req[d]
    BY <1>F, FailureFrame
  <2>1. CASE StartWriteFails(c)
    <3>1. Starting(c)
      BY <2>1 DEF StartWriteFails, Starting
    <3>2. CASE log' = [log EXCEPT ![req[c].stamp].state = "running"]
      BY <1>I, <2>F, <3>1, <3>2
    <3>3. CASE log' = [log EXCEPT ![req[c].stamp].state = "lost"]
      <4>1. /\ req[c].stamp = Len(log) /\ Len(log) \in Stamps /\ log[Len(log)].state = "pending"
        BY <3>1 DEF LogInv
      <4>2. /\ Len(log') = Len(log) /\ Stamps' = Stamps /\ log'[Len(log)].state = "lost"
            /\ \A s \in Stamps : s # Len(log) => log'[s] = log[s]
        BY <3>3, <4>1, StateWritten DEF States
      <4>3. Stored' = Stored
        BY <4>1, <4>2 DEF Stored
      <4>4. \A d \in Clients : req'[d].at \notin {"act", "write"}
        <5>1. \A d \in Clients : d # c => Closed(req[d])
          BY <3>1 DEF TurnInv, Closed, Answers, Starting
        <5> QED BY <2>F, <5>1 DEF Closed, Answers
      <4>5. \A s \in Stamps : log'[s].state # "pending"
        BY <4>1, <4>2 DEF LogInv
      <4> QED BY <4>1, <4>2, <4>3, <4>4, <4>5, CurrentStays DEF LogInv, Starting, RunningTaskVisible
    <3> QED BY <2>1, <3>2, <3>3 DEF StartWriteFails
  <2>2. CASE QueryFails(c) \/ (StopWriteFails(c) /\ log' = log)
    <3>1. log' = log /\ (req[c].at = "query" \/ req[c].op = "stop")
      BY <2>2 DEF QueryFails, StopWriteFails
    <3> QED BY <2>F, <3>1, LogStays DEF LogInv, Starting, RunningTaskVisible
  <2>3. CASE StopWriteFails(c) /\ log' = [log EXCEPT ![req[c].stamp].state = "ended"]
    <3>1. req[c].op = "stop" /\ req[c].stamp \in Stored
      BY <2>3 DEF StopWriteFails, LogInv
    <3>2. \A d \in Clients : StopAnswered(d)
      BY <2>F, <3>1
    <3> HIDE DEF StopAnswered
    <3> QED BY <1>S, <2>3, <3>1, <3>2
  <2> QED BY <1>F, <2>1, <2>2, <2>3 DEF HandlerFails, StopWriteFails
<1>10. CASE LoopStopWrite
  <2>1. lstop \in Stored /\ \A d \in Clients : StopAnswered(d)
    BY <1>10 DEF LoopStopWrite, LoopInv
  <2>2. log' = [log EXCEPT ![lstop].state = "ended"]
    BY <1>10 DEF LoopStopWrite
  <2> HIDE DEF StopAnswered
  <2> QED BY <1>S, <2>1, <2>2
<1>11. CASE Crash \/ LoopPollWait \/ LoopStopQuery
  <2>1. Exit(req) \/ UNCHANGED <<log, req>>
    BY <1>11 DEF Crash, LoopPollWait, LoopStopQuery
  <2> QED BY <1>1, <1>T, <2>1, LogExit
<1>12. CASE LoopPick \/ LoopCapture \/ LoopAborted \/ LoopGoOn \/ LoopPollNew
            \/ LoopWakeUp \/ LoopRead \/ LoopFinish \/ Restart
  BY <1>1, <1>12 DEF LoopPick, LoopCapture, LoopAborted, LoopGoOn, LoopPollNew,
    LoopWakeUp, LoopRead, LoopFinish, Restart
<1> QED BY <1>1, <1>3, <1>4, <1>5, <1>6, <1>7, <1>8, <1>9, <1>10, <1>11, <1>12, <1>F
  DEF Next, Handlers, Loop, vars

-----------------------------------------------------------------------------
(* THE LOOP AND ITS CONTROLLER                                             *)

StopLands(s) ==
    \/ \E c \in Clients :
          /\ StopWrite(c) \/ StopWriteFails(c)
          /\ req[c].op = "stop" /\ req[c].at = "write" /\ req[c].stamp = s
    \/ LoopStopWrite /\ lstop = s

(* What may happen to a stored document.                                   *)
LEMMA LogMoves ==
  ASSUME TypeOK, LogInv, LoopInv, [Next]_vars, NEW s \in Stored
  PROVE  /\ s \in Stored' /\ log'[s].kind = log[s].kind
         /\ log'[s].state = log[s].state \/ (log'[s].state = "ended" /\ StopLands(s))
<1>T. req \in [Clients -> RequestsOf(Stamps)]
  BY DEF TypeOK, RequestsOf, Places
<1>S. s \in Stamps /\ log[s].state \in {"running", "ended"}
  BY DEF Stored
<1>0. CASE log' = log
  BY <1>0, LogStays
<1>E. ASSUME NEW r \in [Clients -> RequestsOf(Stamps)], Exit(r)
      PROVE  s \in Stored' /\ log'[s] = log[s]
  BY <1>S, <1>E, ExitType DEF Stored
<1>1. ASSUME NEW c \in Clients, NEW k \in Kinds, StartAct(c, k)
      PROVE  s \in Stored' /\ log'[s] = log[s]
  BY <1>S, <1>1, StateAppended DEF StartAct, NewTask, Stored
<1>2. ASSUME NEW c \in Clients, StartWrite(c) PROVE s \in Stored' /\ log'[s] = log[s]
  <2>1. /\ Len(log) \in Stamps /\ log[Len(log)].state = "pending"
        /\ log' = [log EXCEPT ![Len(log)].state = "running"]
    BY <1>2 DEF StartWrite, LogInv, Starting
  <2> QED BY <1>S, <2>1, InsertLands
<1>3. ASSUME NEW i \in Stored, log' = [log EXCEPT ![i].state = "ended"], StopLands(i)
      PROVE  /\ s \in Stored' /\ log'[s].kind = log[s].kind
             /\ log'[s].state = log[s].state \/ (log'[s].state = "ended" /\ StopLands(s))
  BY <1>S, <1>3, TaskEnded
<1>4. ASSUME NEW c \in Clients, StopWrite(c)
      PROVE  /\ req[c].stamp \in Stored /\ StopLands(req[c].stamp)
             /\ log' = [log EXCEPT ![req[c].stamp].state = "ended"]
  BY <1>4 DEF StopWrite, LogInv, StopLands
<1>7. ASSUME NEW c \in Clients, HandlerFails(c)
      PROVE  /\ s \in Stored' /\ log'[s].kind = log[s].kind
             /\ log'[s].state = log[s].state \/ (log'[s].state = "ended" /\ StopLands(s))
  <2>1. CASE StartWriteFails(c)
    <3>1. /\ req[c].stamp = Len(log) /\ Len(log) \in Stamps /\ log[Len(log)].state = "pending"
      BY <2>1 DEF StartWriteFails, LogInv, Starting
    <3>2. PICK st \in {"running", "lost"} : log' = [log EXCEPT ![Len(log)].state = st]
      BY <2>1, <3>1 DEF StartWriteFails
    <3>3. s # Len(log) /\ Stamps' = Stamps /\ log'[s] = log[s]
      BY <1>S, <3>1, <3>2, StateWritten DEF States
    <3> QED BY <1>S, <3>3 DEF Stored
  <2>2. CASE StopWriteFails(c) /\ log' = [log EXCEPT ![req[c].stamp].state = "ended"]
    <3>1. req[c].stamp \in Stored /\ StopLands(req[c].stamp)
      BY <2>2 DEF StopWriteFails, LogInv, StopLands
    <3> QED BY <1>3, <2>2, <3>1
  <2>3. CASE log' = log
    BY <1>0, <2>3
  <2> QED BY <1>7, <2>1, <2>2, <2>3 DEF HandlerFails, QueryFails, StopWriteFails
<1>5. CASE LoopStopWrite
  BY <1>3, <1>5 DEF LoopStopWrite, LoopInv, StopLands
<1>6. CASE log' # log
  <2>1. \/ \E c \in Clients : Exit(Sent(c, "stop")) \/ StartWrite(c) \/ StopWrite(c) \/ HandlerFails(c)
        \/ \E c \in Clients, k \in Kinds : StartAct(c, k)
        \/ LoopStopWrite \/ Exit(req)
    BY <1>6 DEF Next, Requests, Handlers, Loop, vars, StartRequest, StopRequest, StartQuery,
      StartConflict, StopQuery, LoopPick, LoopCapture, LoopAborted, LoopGoOn, LoopPollNew,
      LoopPollWait, LoopWakeUp, LoopRead, LoopFinish, LoopStopQuery, Crash, Restart
  <2>2. \A c \in Clients : Sent(c, "stop") \in [Clients -> RequestsOf(Stamps)]
    BY SentType
  <2> QED BY <1>T, <1>E, <1>1, <1>2, <1>3, <1>4, <1>5, <1>7, <2>1, <2>2
<1> QED BY <1>0, <1>6

LEMMA ExitLoop ==
  ASSUME TypeOK, NEW r \in [Clients -> RequestsOf(Stamps)], Exit(r)
  PROVE  /\ lpc' = "down" /\ ltask' = 0 /\ left' = 0
         /\ \A c \in Clients : Closed(req'[c])
BY ExitType

LEMMA LoopStep ==
  ASSUME TypeOK, LogInv, LoopInv, [Next]_vars
  PROVE  LoopInv'
<1>T. req \in [Clients -> RequestsOf(Stamps)] /\ left \in Nat
  BY ConstantsAssumption DEF TypeOK, RequestsOf, Places
<1>M. \A s \in Stored :
         /\ s \in Stored' /\ log'[s].kind = log[s].kind
         /\ log[s].state = "ended" => log'[s].state = "ended"
  BY LogMoves
<1> USE DEF LoopInv, IsRange
<1>1. CASE UNCHANGED loopVars
  BY <1>1, <1>M DEF loopVars
<1>2. CASE lpc' \in {"top", "down"}
  BY <1>2
<1>3. CASE Loop
  <2>1. CASE LoopPick
    <3>1. lpc' = "prepare" /\ ltask' = CurrentLog /\ CurrentLog \in Stored
      BY <2>1, CurrentType DEF LoopPick, InProgress
    <3> QED BY <1>M, <3>1
  <2>2. CASE LoopCapture \/ LoopGoOn \/ LoopPollNew \/ LoopWakeUp \/ LoopRead \/ LoopFinish
    <3>1. /\ lpc \notin {"top", "down"} /\ ltask' = ltask
          /\ lpc' \in {"check", "read", "poll", "stopQuery"}
          /\ lpc' = "poll" => ~IsRange
          /\ lpc' = "read" /\ IsRange => left' > 0
          /\ lpc' = "stopQuery" => left' = 0
      BY <2>2 DEF LoopCapture, LoopGoOn, LoopPollNew, LoopWakeUp, LoopRead, LoopFinish
    <3> QED BY <1>M, <3>1
  <2>3. CASE LoopAborted \/ LoopStopWrite
    BY <1>2, <2>3 DEF LoopAborted, LoopStopWrite, Idle
  <2>4. CASE LoopPollWait
    <3>1. CASE Exit(req)
      BY <1>T, <1>2, <3>1, ExitLoop
    <3>2. CASE lpc' = "wait" /\ UNCHANGED <<ltask, lstop, left>>
      BY <1>M, <2>4, <3>2 DEF LoopPollWait
    <3> QED BY <2>4, <3>1, <3>2 DEF LoopPollWait
  <2>5. CASE LoopStopQuery
    <3>1. CASE Exit(req)
      BY <1>T, <1>2, <3>1, ExitLoop
    <3>2. CASE /\ InProgress(CurrentLog) /\ lpc' = "stopWrite" /\ lstop' = CurrentLog
               /\ UNCHANGED <<ltask, left, log>>
      <4>1. CurrentLog \in Stored /\ ltask \in Stored /\ left = 0
        BY <2>5, <3>2, CurrentType DEF LoopStopQuery, InProgress
      <4>2. ltask = CurrentLog \/ log[ltask].state = "ended"
        BY <4>1 DEF LogInv, RunningTaskVisible, Stored
      <4> QED BY <1>M, <3>2, <4>1, <4>2
    <3> QED BY <2>5, <3>1, <3>2 DEF LoopStopQuery
  <2> QED BY <1>3, <2>1, <2>2, <2>3, <2>4, <2>5 DEF Loop
<1>4. CASE Crash \/ Restart
  BY <1>T, <1>2, <1>4, ExitLoop DEF Crash, Restart
<1>5. ASSUME NEW c \in Clients, Handlers(c) PROVE LoopInv'
  BY <1>1, <1>5, HandlerFrame
<1>7. ASSUME NEW c \in Clients, HandlerFails(c) PROVE LoopInv'
  BY <1>1, <1>7, FailureFrame
<1>6. ASSUME NEW c \in Clients, Requests(c) PROVE LoopInv'
  <2>1. Sent(c, "stop") \in [Clients -> RequestsOf(Stamps)]
    BY SentType
  <2>2. Exit(Sent(c, "stop")) \/ UNCHANGED loopVars
    BY <1>6 DEF Requests, StartRequest, StopRequest
  <2> QED BY <1>1, <1>2, <2>1, <2>2, ExitLoop
<1> QED BY <1>1, <1>3, <1>4, <1>5, <1>6, <1>7 DEF Next, vars

LEMMA ControllerStep ==
  ASSUME Sequential, TypeOK, TurnInv, LogInv, LoopInv, ControllerInv, [Next]_vars
  PROVE  ControllerInv'
<1>T. req \in [Clients -> RequestsOf(Stamps)]
  BY DEF TypeOK, RequestsOf, Places
<1>M. \A s \in Stored :
         \/ log'[s].state = log[s].state
         \/ log'[s].state = "ended" /\ StopLands(s)
  BY LogMoves
<1>A. \A s \in Stored : log[s].state \in {"running", "ended"}
  BY DEF Stored
<1> DEFINE StopsInv == \A c \in Clients : req[c].op = "stop" /\ ~Closed(req[c]) => ctl \in aborted
           HoldsInv == lpc \in {"check", "poll", "wait", "read"} =>
                          /\ log[ltask].state = "running" => lctl = ctl
                          /\ log[ltask].state = "ended" => lctl \in aborted \/ astray
<1>0. CASE UNCHANGED vars
  BY <1>0 DEF ControllerInv, vars, loopVars, Closed
<1>E. ASSUME NEW r \in [Clients -> RequestsOf(Stamps)], Exit(r) PROVE ControllerInv'
  BY <1>E, ExitLoop DEF ControllerInv
<1>1. ASSUME NEW c \in Clients, Requests(c) PROVE ControllerInv'
  <2>1. CASE StartRequest(c)
    <3>1. /\ req'[c].op = "start" /\ \A d \in Clients : d # c => req'[d] = req[d]
          /\ UNCHANGED <<log, ctl, aborted, loopVars>>
      BY <2>1, SentType DEF StartRequest
    <3> QED BY <3>1 DEF ControllerInv, loopVars
  <2>2. CASE StopRequest(c)
    <3>1. aborted' = aborted \cup {ctl} /\ ctl' = ctl
      BY <2>2 DEF StopRequest
    <3>2. CASE Exit(Sent(c, "stop"))
      <4>1. Sent(c, "stop") \in [Clients -> RequestsOf(Stamps)]
        BY SentType
      <4> QED BY <1>E, <3>2, <4>1
    <3>3. CASE UNCHANGED <<log, loopVars>>
      BY <3>1, <3>3 DEF ControllerInv, loopVars
    <3> QED BY <2>2, <3>2, <3>3 DEF StopRequest
  <2> QED BY <1>1, <2>1, <2>2 DEF Requests
<1>2. ASSUME NEW c \in Clients, Handlers(c) PROVE ControllerInv'
  <2>1. /\ ~Closed(req[c]) /\ req'[c].op = req[c].op
        /\ \A d \in Clients : d # c => req'[d] = req[d] /\ Closed(req[d])
        /\ UNCHANGED <<lpc, ltask, lctl, astray, aborted>>
    BY <1>2, HandlerFrame DEF TurnInv, loopVars
  <2>2. (\E k \in Kinds : StartAct(c, k)) \/ ctl' = ctl
    BY <1>2 DEF Handlers, StartQuery, StartConflict, StartWrite, StopQuery, StopWrite
  <2>3. StopsInv'
    BY <2>1, <2>2 DEF StartAct, ControllerInv
  <2>4. ASSUME lpc \in {"check", "poll", "wait", "read"} PROVE HoldsInv'
    <3>1. ltask \in Stored
      BY <2>4 DEF LoopInv
    <3>2. CASE \E k \in Kinds : StartAct(c, k)
      <4>1. \A s \in Stamps : log[s].state # "running"
        BY <3>2 DEF StartAct, LogInv
      <4>2. log[ltask].state = "ended" /\ log'[ltask].state = "ended"
        BY <1>M, <1>A, <3>1, <4>1 DEF Stored
      <4> QED BY <2>1, <2>4, <4>2 DEF ControllerInv
    <3>3. CASE ctl' = ctl /\ log'[ltask].state = log[ltask].state
      BY <2>1, <2>4, <3>3 DEF ControllerInv
    <3>4. CASE ctl' = ctl /\ log'[ltask].state = "ended" /\ StopLands(ltask)
      <4>1. \E d \in Clients : req[d].op = "stop" /\ req[d].at = "write"
        BY <2>4, <3>4 DEF StopLands, LoopStopWrite
      <4>2. ctl \in aborted
        BY <4>1 DEF ControllerInv, Closed, Answers
      <4>3. lctl \in aborted \/ astray
        BY <1>A, <2>4, <3>1, <4>2 DEF ControllerInv
      <4> QED BY <2>1, <3>4, <4>3
    <3> QED BY <1>M, <2>2, <3>1, <3>2, <3>3, <3>4
  <2> QED BY <2>1, <2>3, <2>4 DEF ControllerInv
<1>6. ASSUME NEW c \in Clients, HandlerFails(c) PROVE ControllerInv'
  <2>1. /\ req'[c].op = req[c].op /\ ~Closed(req[c])
        /\ \A d \in Clients : d # c => req'[d] = req[d]
        /\ UNCHANGED <<lpc, ltask, lctl, astray, aborted, ctl>>
    BY <1>6, FailureFrame DEF loopVars
  <2>2. StopsInv'
    BY <2>1 DEF ControllerInv
  <2>3. ASSUME lpc \in {"check", "poll", "wait", "read"} PROVE HoldsInv'
    <3>1. ltask \in Stored
      BY <2>3 DEF LoopInv
    <3>2. CASE log'[ltask].state = log[ltask].state
      BY <2>1, <2>3, <3>2 DEF ControllerInv
    <3>3. CASE log'[ltask].state = "ended" /\ StopLands(ltask)
      <4>1. \E d \in Clients : req[d].op = "stop" /\ req[d].at = "write"
        BY <2>3, <3>3 DEF StopLands, LoopStopWrite
      <4>2. ctl \in aborted
        BY <4>1 DEF ControllerInv, Closed, Answers
      <4>3. lctl \in aborted \/ astray
        BY <1>A, <2>3, <3>1, <4>2 DEF ControllerInv
      <4> QED BY <2>1, <3>3, <4>3
    <3> QED BY <1>M, <3>1, <3>2, <3>3
  <2> QED BY <2>1, <2>2, <2>3 DEF ControllerInv
<1>3. CASE Loop
  <2>1. CASE Exit(req)
    BY <1>T, <1>E, <2>1
  <2>2. CASE req' = req /\ ctl' = ctl /\ aborted \subseteq aborted'
    <3>1. StopsInv'
      BY <2>2 DEF ControllerInv
    <3>2. CASE lpc' \notin {"check", "poll", "wait", "read"}
      BY <3>1, <3>2 DEF ControllerInv
    <3>3. CASE LoopCapture
      <4>1. ltask \in Stored
        BY <3>3 DEF LoopCapture, LoopInv
      <4>2. /\ log' = log /\ ltask' = ltask /\ lctl' = ctl
            /\ log[ltask].state = "ended" => (ctl \in aborted \/ astray')
        BY <3>3 DEF LoopCapture
      <4> QED BY <2>2, <3>1, <4>2 DEF ControllerInv
    <3>4. CASE /\ lpc \in {"check", "poll", "wait", "read"}
               /\ UNCHANGED <<log, ltask, lctl, astray>>
      BY <2>2, <3>1, <3>4 DEF ControllerInv
    <3>5. \/ LoopCapture \/ lpc' \notin {"check", "poll", "wait", "read"}
          \/ lpc \in {"check", "poll", "wait", "read"} /\ UNCHANGED <<log, ltask, lctl, astray>>
          \/ Exit(req)
      BY <1>3 DEF Loop, LoopPick, LoopCapture, LoopAborted, LoopGoOn, LoopPollNew,
        LoopPollWait, LoopWakeUp, LoopRead, LoopFinish, LoopStopQuery, LoopStopWrite, Idle
    <3> QED BY <2>1, <3>2, <3>3, <3>4, <3>5
  <2>3. Exit(req) \/ (req' = req /\ ctl' = ctl /\ aborted \subseteq aborted')
    BY <1>3 DEF Loop, LoopPick, LoopCapture, LoopAborted, LoopGoOn, LoopPollNew,
      LoopPollWait, LoopWakeUp, LoopRead, LoopFinish, LoopStopQuery, LoopStopWrite
  <2> QED BY <2>1, <2>2, <2>3
<1>4. CASE Crash
  BY <1>T, <1>E, <1>4 DEF Crash
<1>5. CASE Restart
  BY <1>5 DEF Restart, TurnInv, ControllerInv
<1> QED BY <1>0, <1>1, <1>2, <1>3, <1>4, <1>5, <1>6 DEF Next

-----------------------------------------------------------------------------
LEMMA TasksInit == Init => TasksInv
<1> SUFFICES ASSUME Init PROVE TasksInv
  OBVIOUS
<1>1. log \in Seq(Documents) /\ Stamps = {} /\ Len(log) = 0
  BY DEF Init, Stamps
<1>2. Stored = {}
  BY <1>1 DEF Stored
<1>3. \A c \in Clients : req[c] = Unsent
  BY DEF Init
<1>4. Unsent \in RequestsOf(Stamps)
  BY DEF Unsent, RequestsOf, Places
<1>5. req \in [Clients -> RequestsOf(Stamps)]
  BY <1>3, <1>4 DEF Init
<1>6. TypeOK
  <2>1. log \in Seq([kind : Kinds, state : States])
    BY <1>1 DEF Documents
  <2>2. /\ ctl \in Nat /\ aborted \subseteq Nat /\ lpc \in LoopPCs
        /\ ltask \in Stamps \cup {0} /\ lctl \in Nat /\ left \in 0..Ranges
        /\ lstop \in Stamps \cup {0} /\ astray \in BOOLEAN /\ faults \in 0..MaxFaults
    <3>1. /\ ctl = 1 /\ aborted = {} /\ lpc = "top" /\ ltask = 0 /\ lctl = 0 /\ left = 0
          /\ lstop = 0 /\ astray = FALSE /\ faults = 0
      BY DEF Init
    <3>2. 0 \in 0..Ranges /\ 0 \in 0..MaxFaults
      BY ConstantsAssumption
    <3>3. ctl \in Nat /\ aborted \subseteq Nat /\ lctl \in Nat
      BY <3>1
    <3>4. astray \in BOOLEAN
      BY <3>1
    <3>5. lpc \in LoopPCs
      BY <3>1 DEF LoopPCs
    <3>6. ltask \in Stamps \cup {0} /\ lstop \in Stamps \cup {0}
      BY <3>1
    <3>7. left \in 0..Ranges /\ faults \in 0..MaxFaults
      BY <3>1, <3>2
    <3> QED BY <3>3, <3>4, <3>5, <3>6, <3>7
  <2> QED BY <1>5, <2>1, <2>2 DEF TypeOK, RequestsOf, Places
<1>7. TurnInv /\ LogInv /\ LoopInv /\ ControllerInv
  BY <1>1, <1>2, <1>3 DEF Init, Unsent, TurnInv, LogInv, LoopInv, ControllerInv, Closed,
    Starting, RunningTaskVisible
<1> QED BY <1>6, <1>7 DEF TasksInv

LEMMA TasksInvHolds == Sequential => (Spec => []TasksInv)
<1> SUFFICES ASSUME Sequential PROVE Spec => []TasksInv
  OBVIOUS
<1>1. TasksInv /\ [Next]_vars => TasksInv'
  BY TypeStep, TurnStep, LogStep, LoopStep, ControllerStep DEF TasksInv
<1> QED BY <1>1, TasksInit, PTL DEF Spec

(* Every variable of the task control keeps its type, while operators wait *)
(* for their answers: what requests and the loop hold are documents of the *)
(* log, and a range task never reads more ranges than it has.              *)
THEOREM TypeCorrect == Sequential => (Spec => []TypeOK)
<1> SUFFICES ASSUME Sequential PROVE Spec => []TypeOK
  OBVIOUS
<1>1. TasksInv => TypeOK
  BY DEF TasksInv
<1> QED BY <1>1, TasksInvHolds, PTL

(* While operators wait for an answer before they send the next request,   *)
(* at most one task is in progress, and it is the one that the loop, the   *)
(* stop handler and the state request see, whatever the handlers' awaits   *)
(* and crashes in between.                                                 *)
THEOREM OneVisibleTask == Sequential => (Spec => []RunningTaskVisible)
<1> SUFFICES ASSUME Sequential PROVE Spec => []RunningTaskVisible
  OBVIOUS
<1>1. TasksInv => RunningTaskVisible
  BY DEF TasksInv, LogInv
<1> QED BY <1>1, TasksInvHolds, PTL

(* The loop does not go on with an ended task, unless it had not captured  *)
(* its controller yet when the task was ended and another one started.     *)
THEOREM EndedTaskIsLeft == Sequential => (Spec => EndedTaskReadsNoMoreUnlessAstray)
<1> SUFFICES ASSUME Sequential PROVE Spec => EndedTaskReadsNoMoreUnlessAstray
  OBVIOUS
<1>1. TasksInv /\ [Next]_vars => [GoesOn => log[ltask].state # "ended" \/ astray]_vars
  <2> SUFFICES ASSUME TasksInv, Next, GoesOn PROVE log[ltask].state # "ended" \/ astray
    BY DEF GoesOn, vars, loopVars
  <2>1. LoopGoOn
    <3>1. TypeOK /\ req \in [Clients -> RequestsOf(Stamps)]
      BY DEF TasksInv, TypeOK, RequestsOf, Places
    <3>2. \A c \in Clients : ~Handlers(c)
      BY <3>1, HandlerFrame DEF GoesOn, loopVars
    <3>5. \A c \in Clients : ~HandlerFails(c)
      BY <3>1, FailureFrame DEF GoesOn, loopVars
    <3>3. \A r \in [Clients -> RequestsOf(Stamps)] : ~Exit(r)
      BY <3>1, ExitLoop DEF GoesOn
    <3>4. \A c \in Clients : ~Requests(c)
      BY <3>3, SentType DEF GoesOn, Requests, StartRequest, StopRequest, loopVars, TasksInv
    <3> QED BY <3>1, <3>2, <3>3, <3>4, <3>5 DEF GoesOn, Next, Loop, LoopPick, LoopCapture, LoopAborted,
      LoopPollNew, LoopPollWait, LoopWakeUp, LoopRead, LoopFinish, LoopStopQuery, LoopStopWrite,
      Crash, Restart, Idle
  <2> QED BY <2>1 DEF LoopGoOn, TasksInv, ControllerInv
<1> QED BY <1>1, TasksInvHolds, PTL DEF Spec, EndedTaskReadsNoMoreUnlessAstray

(* A task is ended by a stop request that found it in progress, or by the  *)
(* loop after all ranges: of that task, or of one an operator has ended.   *)
THEOREM EndsHaveReasons == Sequential => (Spec => TaskEndedForAReason)
<1> SUFFICES ASSUME Sequential PROVE Spec => TaskEndedForAReason
  OBVIOUS
<1> DEFINE Reason ==
      \A s \in Stamps : log[s].state = "running" /\ log'[s].state = "ended" =>
          \/ lpc = "stopWrite" /\ left = 0 /\ (ltask = s \/ log[ltask].state = "ended")
          \/ \E c \in Clients : req[c].op = "stop" /\ req[c].at = "write" /\ req[c].stamp = s
<1>1. TasksInv /\ [Next]_vars => [Reason]_vars
  <2> SUFFICES ASSUME TasksInv, [Next]_vars, NEW s \in Stamps,
                      log[s].state = "running", log'[s].state = "ended"
               PROVE  \/ lpc = "stopWrite" /\ left = 0 /\ (ltask = s \/ log[ltask].state = "ended")
                      \/ \E c \in Clients : req[c].op = "stop" /\ req[c].at = "write" /\ req[c].stamp = s
    OBVIOUS
  <2>1. s \in Stored
    BY DEF Stored
  <2>2. StopLands(s)
    BY <2>1, LogMoves DEF TasksInv
  <2> QED BY <2>2 DEF StopLands, LoopStopWrite, TasksInv, LoopInv
<1> QED BY <1>1, TasksInvHolds, PTL DEF Spec, TaskEndedForAReason
=============================================================================
