------------------------------ MODULE WaitGroup ------------------------------
(***************************************************************************)
(* src/shared/wg: the promise pool that bounds how many asynchronous       *)
(* operations the indexer, the contract reader, the metadata reader and    *)
(* the SQS consumer run at the same time.  A caller of go() that finds the *)
(* pool full awaits Promise.race over the tasks it sees at that moment and *)
(* then starts its task without looking again; wait() awaits Promise.all.  *)
(*                                                                         *)
(* The token processor and the metadata reader use a group of their own    *)
(* from one loop (one caller); the contract reader shares one group among  *)
(* all message handlers that are running (several callers).                *)
(***************************************************************************)
EXTENDS Naturals, FiniteSets

CONSTANTS
    Callers,    \* the asynchronous functions that share the group
    Limit,      \* workersCount
    MaxTasks    \* bound: the tasks that are started

ASSUME ConstantsAssumption ==
    /\ Limit \in Nat \ {0}
    /\ MaxTasks \in Nat

VARIABLES
    tasks,      \* the keys of the map: tasks that have not settled
    started,    \* how many tasks have been started; they are numbered
    at,         \* where each caller is suspended
    snap,       \* the promises each suspended caller awaits
    mine,       \* observation: what each caller started since its last wait()
    overlapped  \* observation: go() was called while another call waited in it

vars == <<tasks, started, at, snap, mine, overlapped>>

TaskIds == 1..started

Init ==
    /\ tasks = {} /\ started = 0
    /\ at = [c \in Callers |-> "idle"]
    /\ snap = [c \in Callers |-> {}]
    /\ mine = [c \in Callers |-> {}]
    /\ overlapped = FALSE

(* The task is started and put into the map.                               *)
Begin(c) ==
    /\ started' = started + 1
    /\ tasks' = tasks \cup {started + 1}
    /\ at' = [at EXCEPT ![c] = "idle"]
    /\ snap' = [snap EXCEPT ![c] = {}]
    /\ mine' = [mine EXCEPT ![c] = @ \cup {started + 1}]

Calls(c) == overlapped' = (overlapped \/ \E d \in Callers \ {c} : at[d] = "race")

(* Every caller that awaits a full pool will start one more task.          *)
MayCall == started + Cardinality({c \in Callers : at[c] = "race"}) < MaxTasks

Suspend(c, where) ==
    /\ at' = [at EXCEPT ![c] = where]
    /\ snap' = [snap EXCEPT ![c] = tasks]
    /\ UNCHANGED <<tasks, started, mine>>

FullLate == Cardinality(tasks) > Limit

(* this.tasks.size === this.limit                                          *)
Full == Cardinality(tasks) = Limit

(* go(): a full pool is awaited ...                                        *)
GoWait(c) ==
    /\ at[c] = "idle" /\ Full /\ MayCall
    /\ Suspend(c, "race") /\ Calls(c)

(* ... otherwise the task is started at once.                              *)
GoStart(c) ==
    /\ at[c] = "idle" /\ ~Full /\ MayCall
    /\ Begin(c) /\ Calls(c)

ResumeAtOnce(c) == at[c] = "race" /\ Begin(c) /\ UNCHANGED overlapped

(* One of the awaited tasks has settled; size is not looked at again.      *)
Resume(c) ==
    /\ at[c] = "race" /\ ~(snap[c] \subseteq tasks)
    /\ Begin(c) /\ UNCHANGED overlapped

(* wait().                                                                 *)
Wait(c) ==
    /\ at[c] = "idle"
    /\ Suspend(c, "wait") /\ UNCHANGED overlapped

WaitDoneFirst(c) ==
    /\ at[c] = "wait" /\ (snap[c] = {} \/ ~(snap[c] \subseteq tasks))
    /\ at' = [at EXCEPT ![c] = "idle"]
    /\ snap' = [snap EXCEPT ![c] = {}]
    /\ mine' = [mine EXCEPT ![c] = {}]
    /\ UNCHANGED <<tasks, started, overlapped>>

WaitDone(c) ==
    /\ at[c] = "wait" /\ snap[c] \cap tasks = {}
    /\ at' = [at EXCEPT ![c] = "idle"]
    /\ snap' = [snap EXCEPT ![c] = {}]
    /\ mine' = [mine EXCEPT ![c] = {}]
    /\ UNCHANGED <<tasks, started, overlapped>>

SettleKept(t) == t \in tasks /\ UNCHANGED vars

(* A task settles.  Its finally callback was registered before any caller  *)
(* could race on the task, so the map forgets it before they resume.  The  *)
(* actions handed to go() catch their errors: a task never rejects.        *)
Settle(t) ==
    /\ t \in tasks
    /\ tasks' = tasks \ {t}
    /\ UNCHANGED <<started, at, snap, mine, overlapped>>

Next ==
    \/ \E c \in Callers : GoWait(c) \/ GoStart(c) \/ Resume(c) \/ Wait(c) \/ WaitDone(c)
    \/ \E t \in tasks : Settle(t)

Spec == Init /\ [][Next]_vars

(* Every action settles (the requests it makes have timeouts) and the      *)
(* event loop runs what a settled promise has made ready.                  *)
Fairness ==
    /\ \A t \in 1..MaxTasks : WF_vars(Settle(t))
    /\ \A c \in Callers : WF_vars(Resume(c)) /\ WF_vars(WaitDone(c))

FairSpec == Spec /\ Fairness

-----------------------------------------------------------------------------
(* Properties.                                                             *)

(* The type of every variable.                                             *)
TypeOK ==
    /\ started \in Nat
    /\ tasks \subseteq TaskIds
    /\ at \in [Callers -> {"idle", "race", "wait"}]
    /\ snap \in [Callers -> SUBSET TaskIds]
    /\ mine \in [Callers -> SUBSET TaskIds]
    /\ overlapped \in BOOLEAN

(* "workers - number of concurrently executing asynchronous operations":   *)
(* no more tasks run at the same time than the limit says, as long as no   *)
(* go() is called while another waits.  The handlers of a batch that share *)
(* a group do call it so, and go beyond the limit.                         *)
Throttled == ~overlapped => Cardinality(tasks) <= Limit

(* When wait() returns, everything its caller started before has settled:  *)
(* TokenProcessor.process does not report a range before its tokens are    *)
(* stored.                                                                 *)
WaitCoversOwnTasks ==
    [][\A c \in Callers : at[c] = "wait" /\ at'[c] = "idle" => mine[c] \cap tasks = {}]_vars

(* A call of go() or wait() returns, whatever the other callers do.        *)
CallsReturn == \A c \in Callers : at[c] # "idle" ~> at[c] = "idle"
=============================================================================
