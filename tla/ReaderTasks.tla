----------------------------- MODULE ReaderTasks -----------------------------
(***************************************************************************)
(* Task control of src/app-events-reader: the POST /reader-start and       *)
(* /reader-stop handlers (ReaderTasksProvider), the state log they share   *)
(* with runLoop through MongoDB, and the AbortController they share with   *)
(* it through memory.  Handlers and loop interleave at every await: a      *)
(* query that is evaluated, a continuation that runs later, a write that   *)
(* is issued and lands later are separate steps.  Reading a range is one   *)
(* step here; EventsReader opens it up.                                    *)
(***************************************************************************)
EXTENDS Naturals, Sequences, FiniteSets

CONSTANTS
    Clients,        \* each sends one request
    Kinds,          \* the kinds of task a client may start: "range", "live"
    Ranges,         \* how many ranges a "range" task reads
    Sequential,     \* TRUE: a client waits for the answer to the one before
    MaxFaults       \* bound: crashes of the process, failed queries and writes

ASSUME ConstantsAssumption ==
    /\ Kinds \subseteq {"range", "live"}
    /\ Ranges \in Nat \ {0} /\ MaxFaults \in Nat
    /\ Sequential \in BOOLEAN

VARIABLES
    log,        \* events_reader_state_log in the order of startAt
    ctl,        \* ReaderTasksProvider's current AbortController, by number
    aborted,    \* the controllers whose signal is aborted
    req,        \* the request of each client
    lpc,        \* the await at which runLoop is suspended
    ltask,      \* runLoop: the task it has picked (0: none)
    lctl,       \* runLoop: the controller it has captured (0: none)
    left,       \* runLoop: ranges still to read
    lstop,      \* runLoop: the document its own stopReaderTask updates
    astray,     \* observation: it has captured the controller of another task
    faults

loopVars == <<lpc, ltask, lctl, left, lstop, astray>>
vars == <<log, ctl, aborted, req, loopVars, faults>>

(* Where a request is: not sent, at an await, or answered; "error" when a  *)
(* query or a write of its handler has failed, "gone" when the process     *)
(* died before it could answer.                                            *)
Answers == {"ok", "conflict", "badRequest", "error", "gone"}
Closed(r) == r.at \in Answers \cup {"new"}

(* `aim` is an observation: the task in progress when the request came.    *)
Unsent == [op |-> "none", at |-> "new", busy |-> FALSE, stamp |-> 0, aim |-> 0]

Stamps == DOMAIN log

(* getCurrentLog: the stored document with the latest startAt (0: none).   *)
Stored == {s \in Stamps : log[s].state \in {"running", "ended"}}
CurrentLog == IF Stored = {} THEN 0 ELSE CHOOSE s \in Stored : \A r \in Stored : r <= s

InProgress(s) == s # 0 /\ log[s].state = "running"

Init ==
    /\ log = <<>>
    /\ ctl = 1 /\ aborted = {}
    /\ req = [c \in Clients |-> Unsent]
    /\ lpc = "top" /\ ltask = 0 /\ lctl = 0 /\ left = 0 /\ lstop = 0
    /\ astray = FALSE /\ faults = 0

-----------------------------------------------------------------------------
(* The loop is at pc without a task.                                       *)
Idle(pc) ==
    /\ lpc' = pc
    /\ ltask' = 0 /\ lctl' = 0 /\ left' = 0 /\ lstop' = 0 /\ astray' = FALSE

(* process.exit(1), or a crash, with the requests as in r: the open ones   *)
(* get no answer, and an insert in flight lands or is lost.                *)
Exit(r) ==
    /\ \E kept \in SUBSET {s \in Stamps : log[s].state = "pending"} :
          log' = [s \in Stamps |->
                     IF log[s].state # "pending" THEN log[s]
                     ELSE [log[s] EXCEPT !.state = IF s \in kept THEN "running" ELSE "lost"]]
    /\ req' = [c \in Clients |-> IF Closed(r[c]) THEN r[c] ELSE [r[c] EXCEPT !.at = "gone"]]
    /\ Idle("down")

(* The operators send requests one at a time when Sequential.              *)
MayAsk(c) ==
    /\ lpc # "down" /\ req[c].at = "new"
    /\ Sequential => \A d \in Clients : Closed(req[d])

Sent(c, o) == [req EXCEPT ![c].op = o, ![c].at = "query",
                          ![c].aim = IF InProgress(CurrentLog) THEN CurrentLog ELSE 0]

Fault == faults < MaxFaults /\ faults' = faults + 1

(* getCurrentLog fails, of either handler: the answer is 500, and an abort *)
(* that came before it stays.                                              *)
QueryFails(c) ==
    /\ req[c].at = "query"
    /\ Fault
    /\ req' = [req EXCEPT ![c].at = "error"]
    /\ UNCHANGED <<log, ctl, aborted, loopVars>>

-----------------------------------------------------------------------------
(* startReaderTask.                                                        *)

StartRequest(c) ==
    /\ MayAsk(c)
    /\ req' = Sent(c, "start")
    /\ UNCHANGED <<log, ctl, aborted, loopVars, faults>>

(* getCurrentLog is evaluated.                                             *)
StartQuery(c) ==
    /\ req[c].op = "start" /\ req[c].at = "query"
    /\ req' = [req EXCEPT ![c].at = "act", ![c].busy = InProgress(CurrentLog)]
    /\ UNCHANGED <<log, ctl, aborted, loopVars, faults>>

(* Indexing is already in progress.                                        *)
StartConflict(c) ==
    /\ req[c].op = "start" /\ req[c].at = "act" /\ req[c].busy
    /\ req' = [req EXCEPT ![c].at = "conflict"]
    /\ UNCHANGED <<log, ctl, aborted, loopVars, faults>>

NewTask(c, k) ==
    /\ log' = Append(log, [kind |-> k, state |-> "pending"])
    /\ req' = [req EXCEPT ![c].at = "write", ![c].stamp = Len(log) + 1]

StartUnchecked(c, k) ==
    /\ req[c].op = "start" /\ req[c].at = "act"
    /\ ctl' = ctl + 1
    /\ NewTask(c, k)
    /\ UNCHANGED <<aborted, loopVars, faults>>

StartNoReset(c, k) ==
    /\ req[c].op = "start" /\ req[c].at = "act" /\ ~req[c].busy
    /\ NewTask(c, k)
    /\ UNCHANGED <<ctl, aborted, loopVars, faults>>

(* _resetAbortController, and the insert is issued with startAt = now.     *)
StartAct(c, k) ==
    /\ req[c].op = "start" /\ req[c].at = "act" /\ ~req[c].busy
    /\ ctl' = ctl + 1
    /\ NewTask(c, k)
    /\ UNCHANGED <<aborted, loopVars, faults>>

StartWrite(c) ==
    /\ req[c].op = "start" /\ req[c].at = "write"
    /\ log' = [log EXCEPT ![req[c].stamp].state = "running"]
    /\ req' = [req EXCEPT ![c].at = "ok"]
    /\ UNCHANGED <<ctl, aborted, loopVars, faults>>

(* The insert fails, having landed or not.                                 *)
StartWriteFails(c) ==
    /\ req[c].op = "start" /\ req[c].at = "write"
    /\ Fault
    /\ \E landed \in {"running", "lost"} : log' = [log EXCEPT ![req[c].stamp].state = landed]
    /\ req' = [req EXCEPT ![c].at = "error"]
    /\ UNCHANGED <<ctl, aborted, loopVars>>

-----------------------------------------------------------------------------
(* stopReaderTask.                                                         *)

(* abort() comes first.  A live loop that waits on this signal rejects,    *)
(* nothing catches the rejection of runLoop and the process exits.         *)
StopRequest(c) ==
    /\ MayAsk(c)
    /\ aborted' = aborted \cup {ctl}
    /\ IF lpc = "wait" /\ lctl = ctl
       THEN Exit(Sent(c, "stop"))
       ELSE req' = Sent(c, "stop") /\ UNCHANGED <<log, loopVars>>
    /\ UNCHANGED <<ctl, faults>>

StopQuery(c) ==
    /\ req[c].op = "stop" /\ req[c].at = "query"
    /\ req' = IF InProgress(CurrentLog)
              THEN [req EXCEPT ![c].at = "write", ![c].stamp = CurrentLog]
              ELSE [req EXCEPT ![c].at = "badRequest"]
    /\ UNCHANGED <<log, ctl, aborted, loopVars, faults>>

StopWrite(c) ==
    /\ req[c].op = "stop" /\ req[c].at = "write"
    /\ log' = [log EXCEPT ![req[c].stamp].state = "ended"]
    /\ req' = [req EXCEPT ![c].at = "ok"]
    /\ UNCHANGED <<ctl, aborted, loopVars, faults>>

(* The update fails, having landed or not: a task may stay in progress     *)
(* whose controller is aborted.                                            *)
StopWriteFails(c) ==
    /\ req[c].op = "stop" /\ req[c].at = "write"
    /\ Fault
    /\ log' \in {log, [log EXCEPT ![req[c].stamp].state = "ended"]}
    /\ req' = [req EXCEPT ![c].at = "error"]
    /\ UNCHANGED <<ctl, aborted, loopVars>>

-----------------------------------------------------------------------------
(* runLoop.                                                                *)

(* getActiveReaderTask, after the pause when there was none.               *)
LoopPick ==
    /\ lpc = "top" /\ InProgress(CurrentLog)
    /\ ltask' = CurrentLog /\ lpc' = "prepare"
    /\ left' = IF log[CurrentLog].kind = "range" THEN Ranges ELSE 0
    /\ UNCHANGED <<log, ctl, aborted, req, lctl, lstop, astray, faults>>

(* The queries before the loop are done; only now is the controller read.  *)
LoopCapture ==
    /\ lpc = "prepare"
    /\ lctl' = ctl /\ lpc' = "check"
    /\ astray' = (log[ltask].state = "ended" /\ ctl \notin aborted)
    /\ UNCHANGED <<log, ctl, aborted, req, ltask, left, lstop, faults>>

IsRange == log[ltask].kind = "range"

LoopAborted ==
    /\ lpc = "check" /\ lctl \in aborted
    /\ Idle("top")
    /\ UNCHANGED <<log, ctl, aborted, req, faults>>

CheckIgnoringAbort ==
    /\ lpc = "check"
    /\ IsRange => left > 0
    /\ lpc' = IF IsRange THEN "read" ELSE "poll"
    /\ UNCHANGED <<log, ctl, aborted, req, ltask, lctl, left, lstop, astray, faults>>

(* A range task reads its next range, a live task asks for the head.       *)
LoopGoOn ==
    /\ lpc = "check" /\ lctl \notin aborted
    /\ IsRange => left > 0
    /\ lpc' = IF IsRange THEN "read" ELSE "poll"
    /\ UNCHANGED <<log, ctl, aborted, req, ltask, lctl, left, lstop, astray, faults>>

(* There are new blocks ...                                                *)
LoopPollNew ==
    /\ lpc = "poll"
    /\ lpc' = "read"
    /\ UNCHANGED <<log, ctl, aborted, req, ltask, lctl, left, lstop, astray, faults>>

(* ... or none: wait, which an aborted signal rejects at once.             *)
LoopPollWait ==
    /\ lpc = "poll"
    /\ IF lctl \in aborted
       THEN Exit(req)
       ELSE lpc' = "wait" /\ UNCHANGED <<log, req, ltask, lctl, left, lstop, astray>>
    /\ UNCHANGED <<ctl, aborted, faults>>

LoopWakeUp ==
    /\ lpc = "wait"
    /\ lpc' = "check"
    /\ UNCHANGED <<log, ctl, aborted, req, ltask, lctl, left, lstop, astray, faults>>

LoopRead ==
    /\ lpc = "read"
    /\ left' = IF IsRange THEN left - 1 ELSE left
    /\ lpc' = "check"
    /\ UNCHANGED <<log, ctl, aborted, req, ltask, lctl, lstop, astray, faults>>

FinishEarly ==
    /\ lpc = "check" /\ lctl \notin aborted /\ IsRange
    /\ aborted' = aborted \cup {ctl}
    /\ lpc' = "stopQuery"
    /\ UNCHANGED <<log, ctl, req, ltask, lctl, left, lstop, astray, faults>>

(* The end of a range task: stopReaderTask, called by the loop itself.     *)
LoopFinish ==
    /\ lpc = "check" /\ lctl \notin aborted /\ IsRange /\ left = 0
    /\ aborted' = aborted \cup {ctl}
    /\ lpc' = "stopQuery"
    /\ UNCHANGED <<log, ctl, req, ltask, lctl, left, lstop, astray, faults>>

(* Its BadRequestException ends the process.                               *)
LoopStopQuery ==
    /\ lpc = "stopQuery"
    /\ IF InProgress(CurrentLog)
       THEN lpc' = "stopWrite" /\ lstop' = CurrentLog /\ UNCHANGED <<log, req, ltask, lctl, left, astray>>
       ELSE Exit(req)
    /\ UNCHANGED <<ctl, aborted, faults>>

LoopStopWrite ==
    /\ lpc = "stopWrite"
    /\ log' = [log EXCEPT ![lstop].state = "ended"]
    /\ Idle("top")
    /\ UNCHANGED <<ctl, aborted, req, faults>>

-----------------------------------------------------------------------------
(* A query of the loop that fails ends the process as well.                *)
Crash ==
    /\ lpc # "down" /\ Fault
    /\ Exit(req)
    /\ UNCHANGED <<ctl, aborted>>

Restart ==
    /\ lpc = "down"
    /\ lpc' = "top" /\ ctl' = ctl + 1
    /\ UNCHANGED <<log, aborted, req, ltask, lctl, left, lstop, astray, faults>>

Requests(c) ==
    \/ StartRequest(c) \/ StopRequest(c)

Handlers(c) ==
    \/ StartQuery(c) \/ StartConflict(c) \/ (\E k \in Kinds : StartAct(c, k)) \/ StartWrite(c)
    \/ StopQuery(c) \/ StopWrite(c)

HandlerFails(c) ==
    \/ QueryFails(c) \/ StartWriteFails(c) \/ StopWriteFails(c)

Loop ==
    \/ LoopPick \/ LoopCapture \/ LoopAborted \/ LoopGoOn \/ LoopPollNew \/ LoopPollWait
    \/ LoopWakeUp \/ LoopRead \/ LoopFinish \/ LoopStopQuery \/ LoopStopWrite

Next ==
    \/ \E c \in Clients : Requests(c) \/ Handlers(c) \/ HandlerFails(c)
    \/ Loop
    \/ Crash \/ Restart

Spec == Init /\ [][Next]_vars

(* Handlers and loop are run by the event loop as their awaits complete,   *)
(* and the supervisor restarts the process.                                *)
Fairness ==
    /\ \A c \in Clients : WF_vars(Handlers(c))
    /\ WF_vars(Loop)
    /\ WF_vars(Restart)

FairSpec == Spec /\ Fairness

-----------------------------------------------------------------------------
(* Properties.                                                             *)

States == {"pending", "running", "ended", "lost"}
LoopPCs == {"top", "prepare", "check", "poll", "wait", "read", "stopQuery", "stopWrite", "down"}

(* The type of every variable.                                             *)
TypeOK ==
    /\ log \in Seq([kind : Kinds, state : States])
    /\ ctl \in Nat /\ aborted \subseteq Nat
    /\ req \in [Clients -> [op : {"none", "start", "stop"},
                            at : {"new", "query", "act", "write"} \cup Answers,
                            busy : BOOLEAN, stamp : Stamps \cup {0}, aim : Stamps \cup {0}]]
    /\ lpc \in LoopPCs
    /\ ltask \in Stamps \cup {0} /\ lctl \in Nat /\ left \in 0..Ranges
    /\ lstop \in Stamps \cup {0} /\ astray \in BOOLEAN
    /\ faults \in 0..MaxFaults

(* "Indexing is already in progress ... Stop existing process": a task in  *)
(* progress is the current one, so there is one at most and the loop, the  *)
(* stop handler and the state request all see it.                          *)
RunningTaskVisible == \A s \in Stamps : log[s].state = "running" => s = CurrentLog

(* A task in progress is worked on: the loop reads for it with a signal    *)
(* that is not aborted, or waits for new blocks on its behalf, or the task *)
(* is ended.  A loop that has gone astray may never come to it, and while  *)
(* the controller is aborted of a stop whose query or write has failed,    *)
(* the loop leaves the task again and again, until another stop or a       *)
(* restart.                                                                *)
Running(s) == s \in Stamps /\ log[s].state = "running"
Ended(s) == s \in Stamps /\ log[s].state = "ended"
Served(s) == ltask = s /\ lpc \in {"read", "wait"} /\ lctl \notin aborted

Halted(s) ==
    ctl \in aborted /\ \E c \in Clients :
        req[c].op = "stop" /\ req[c].at = "error" /\ req[c].aim = s

RunningTaskServed ==
    \A s \in 1..Cardinality(Clients) :
        Running(s) ~> (Ended(s) \/ Served(s) \/ Halted(s) \/ astray)

(* "Stop events reader indexing": a loop does not go on with a task that   *)
(* has been ended; it passes its abort check for that task never again ... *)
GoesOn == lpc = "check" /\ lpc' \in {"read", "poll"}

EndedTaskReadsNoMore == [][GoesOn => log[ltask].state # "ended"]_vars

(* ... unless the task was ended, and another one started, while the loop  *)
(* was still preparing it and had not captured its controller.             *)
EndedTaskReadsNoMoreUnlessAstray ==
    [][GoesOn => log[ltask].state # "ended" \/ astray]_vars

(* A task is ended by a stop request that found it in progress, or by the  *)
(* loop after it has read all ranges: of that very task, or of one that an *)
(* operator has ended while the loop was about to.                         *)
TaskEndedForAReason ==
    [][\A s \in Stamps : log[s].state = "running" /\ log'[s].state = "ended" =>
          \/ lpc = "stopWrite" /\ left = 0 /\ (ltask = s \/ log[ltask].state = "ended")
          \/ \E c \in Clients : req[c].op = "stop" /\ req[c].at = "write" /\ req[c].stamp = s]_vars

(* "Stop events reader indexing": a stop request that arrives while a task *)
(* is in progress ends that task.                                          *)
StopTakesEffect ==
    \A c \in Clients, s \in 1..Cardinality(Clients) :
        (req[c].op = "stop" /\ req[c].aim = s) ~> Ended(s)
=============================================================================
