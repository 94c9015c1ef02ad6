-------------------------- MODULE MetadataPolling --------------------------
(***************************************************************************)
(* src/app-metadata-reader without a queue: runLoop polls the collection   *)
(* tokens for what was created after the last token it has checked, and    *)
(* reads the metadata of a page with a wait group.  The cursor lives in    *)
(* memory and starts at Date(0).  Meanwhile the indexer inserts tokens,    *)
(* with a creation date it took before, and the contract reader adds URIs. *)
(***************************************************************************)
EXTENDS Naturals, FiniteSets, MetadataFetch

CONSTANTS
    Tokens,
    UriOf,          \* the kind of URI the contract reader finds for a token
    BatchLimit,     \* batchLimit, the size of a page
    Workers,        \* workers, the limit of the wait group
    MaxTime,        \* bound: ticks of the clock
    MaxCrashes      \* bound: crashes of the reader

ASSUME PollingAssumption ==
    /\ IsFiniteSet(Tokens)
    /\ UriOf \in [Tokens -> UriKinds]
    /\ BatchLimit \in Nat \ {0} /\ Workers \in Nat \ {0}
    /\ MaxTime \in Nat /\ MaxCrashes \in Nat

VARIABLES
    clock,          \* the time creation dates are taken from
    dated,          \* createdAt the indexer is about to insert, 0: none
    created,        \* createdAt in the collection, 0: not inserted
    located,        \* tokens whose row has its URI
    available,      \* tokens whose row says "available"
    metadata,       \* tokens with metadata in the repository
    cursor,         \* dateOfLastCheckedToken
    phase,          \* "poll", "page" or "sleep"
    page,           \* rows of the page not yet looked at: token -> has a URI
    last,           \* createdAt of the page's last row
    running,        \* tasks of the wait group: [of: token, at: step]
    attempted,      \* observation: tokens read from since the start
    passed,         \* observation: tokens a page showed without a usable URI
    late,           \* observation: tokens inserted behind the cursor or page
    again,          \* observation: tokens read from twice since the start
    crashes

rows == <<created, located, available, metadata>>
pageVars == <<phase, page, last, running>>
seen == <<attempted, passed, late, again>>
vars == <<clock, dated, rows, cursor, pageVars, seen, crashes>>

Steps == {"fetch", "save", "status"}

TypeOK ==
    /\ clock \in 1..(MaxTime + 1)
    /\ dated \in [Tokens -> 0..MaxTime + 1]
    /\ created \in [Tokens -> 0..MaxTime + 1]
    /\ cursor \in 0..(MaxTime + 1) /\ last \in 0..(MaxTime + 1)
    /\ UNION {located, available, metadata, attempted, passed, late, again} \subseteq Tokens
    /\ phase \in {"poll", "page", "sleep"}
    /\ page \in [DOMAIN page -> BOOLEAN] /\ DOMAIN page \subseteq Tokens
    /\ running \subseteq [of : Tokens, at : Steps]
    /\ Cardinality(running) <= Workers
    /\ crashes \in 0..MaxCrashes

Init ==
    /\ clock = 1
    /\ dated = [t \in Tokens |-> 0]
    /\ created = [t \in Tokens |-> 0]
    /\ located = {} /\ available = {} /\ metadata = {}
    /\ cursor = 0 /\ phase = "poll" /\ page = << >> /\ last = 0 /\ running = {}
    /\ attempted = {} /\ passed = {} /\ late = {} /\ again = {}
    /\ crashes = 0

-----------------------------------------------------------------------------
(* THE INDEXER AND THE CONTRACT READER                                     *)

Tick ==
    /\ clock <= MaxTime
    /\ clock' = clock + 1
    /\ UNCHANGED <<dated, rows, cursor, pageVars, seen, crashes>>

(* createdAt: new Date(), an argument of the upsert.                       *)
DateToken(t) ==
    /\ dated[t] = 0
    /\ dated' = [dated EXCEPT ![t] = clock]
    /\ UNCHANGED <<clock, rows, cursor, pageVars, seen, crashes>>

(* The reach of the pages so far: what is inserted within is not found.    *)
Horizon == IF phase = "page" THEN last ELSE cursor

InsertToken(t) ==
    /\ dated[t] # 0 /\ created[t] = 0
    /\ created' = [created EXCEPT ![t] = dated[t]]
    /\ late' = IF dated[t] <= Horizon THEN late \cup {t} ELSE late
    /\ UNCHANGED <<clock, dated, located, available, metadata, cursor, pageVars>>
    /\ UNCHANGED <<attempted, passed, again, crashes>>

LocateToken(t) ==
    /\ created[t] # 0
    /\ located' = located \cup {t}
    /\ UNCHANGED <<clock, dated, created, available, metadata>>
    /\ UNCHANGED <<cursor, pageVars, seen, crashes>>

-----------------------------------------------------------------------------
(* THE LOOP                                                                *)

(* Mutation target: $gte instead of $gt.                                   *)
CreatedSince(date) == {t \in Tokens : created[t] # 0 /\ created[t] >= date}

CreatedAfter(date) == {t \in Tokens : created[t] # 0 /\ created[t] > date}

(* Mutation target: a page without the sort.                               *)
UnsortedPages(found) ==
    {p \in SUBSET found : Cardinality(p) = BatchLimit \/ p = found}

(* The first BatchLimit rows by date; MongoDB orders equal dates as it     *)
(* likes.                                                                  *)
Pages(found) ==
    {p \in SUBSET found :
        /\ \/ Cardinality(p) = BatchLimit
           \/ p = found /\ Cardinality(p) < BatchLimit
        /\ \A t \in p, u \in found \ p : created[t] <= created[u]}

(* getCreatedAfter; the rows are a snapshot.                               *)
FetchPage ==
    /\ phase = "poll"
    /\ \E p \in Pages(CreatedAfter(cursor)) :
         IF p = {}
         THEN /\ phase' = "sleep"
              /\ UNCHANGED <<page, last>>
         ELSE /\ phase' = "page"
              /\ page' = [t \in p |-> t \in located]
              /\ \E t \in p : /\ \A u \in p : created[u] <= created[t]
                              /\ last' = created[t]
    /\ UNCHANGED <<clock, dated, rows, cursor, running, seen, crashes>>

(* setTimeout(checkInterval * 1000)                                        *)
WakeUp ==
    /\ phase = "sleep"
    /\ phase' = "poll"
    /\ UNCHANGED <<clock, dated, rows, cursor, page, last, running, seen, crashes>>

(* The body of the loop over the page, up to wg.go.  The rows of a page    *)
(* are taken in the order of their dates.                                  *)
NextRow(t) ==
    /\ t \in DOMAIN page
    /\ \A u \in DOMAIN page : created[t] <= created[u]
    /\ page' = [u \in DOMAIN page \ {t} |-> page[u]]

SkipToken(t) ==
    /\ NextRow(t)
    /\ ~page[t] \/ ~HasReader(UriOf[t])
    /\ passed' = passed \cup {t}
    /\ UNCHANGED <<clock, dated, rows, cursor, phase, last, running>>
    /\ UNCHANGED <<attempted, late, again, crashes>>

StartTask(t) ==
    /\ NextRow(t)
    /\ page[t] /\ HasReader(UriOf[t])
    /\ Cardinality(running) < Workers
    /\ running' = running \cup {[of |-> t, at |-> "fetch"]}
    /\ attempted' = attempted \cup {t}
    /\ again' = again \cup ({t} \cap attempted)
    /\ UNCHANGED <<clock, dated, rows, cursor, phase, last, passed, late, crashes>>

(* reader(uri): only an answer leads on; the catch block of read(), unlike *)
(* that of readOne(), returns without a word to the database, whatever the *)
(* fallbacks gave.                                                         *)
Fetch(x) ==
    /\ x \in running /\ x.at = "fetch"
    /\ \E o \in Outcomes(UriOf[x.of]) :
         running' = (running \ {x}) \cup (IF o.data THEN {[x EXCEPT !.at = "save"]} ELSE {})
    /\ UNCHANGED <<clock, dated, rows, cursor, phase, page, last, seen, crashes>>

(* metadata.save: an error, a duplicate _id among them, is only logged.    *)
SaveMetadata(x) ==
    /\ x \in running /\ x.at = "save"
    /\ running' = (running \ {x}) \cup {[x EXCEPT !.at = "status"]}
    /\ metadata' \in {metadata, metadata \cup {x.of}}
    /\ UNCHANGED <<clock, dated, created, located, available>>
    /\ UNCHANGED <<cursor, phase, page, last, seen, crashes>>

(* tokens.updateUnavailability, its error logged as well.                  *)
SetStatus(x) ==
    /\ x \in running /\ x.at = "status"
    /\ running' = running \ {x}
    /\ available' \in {available, available \cup {x.of}}
    /\ UNCHANGED <<clock, dated, created, located, metadata>>
    /\ UNCHANGED <<cursor, phase, page, last, seen, crashes>>

(* wg.wait(), then dateOfLastCheckedToken.                                 *)
EndPage ==
    /\ phase = "page" /\ page = << >> /\ running = {}
    /\ cursor' = last
    /\ phase' = "poll"
    /\ UNCHANGED <<clock, dated, rows, page, last, running, seen, crashes>>

(* The process dies, or getCreatedAfter fails, which nothing catches; it   *)
(* is started again.                                                       *)
Crash ==
    /\ crashes < MaxCrashes
    /\ crashes' = crashes + 1
    /\ cursor' = 0 /\ phase' = "poll" /\ page' = << >> /\ last' = 0 /\ running' = {}
    /\ attempted' = {} /\ passed' = {} /\ late' = {} /\ again' = {}
    /\ UNCHANGED <<clock, dated, rows>>

Task(t) == \E x \in running : x.of = t /\ (Fetch(x) \/ SaveMetadata(x) \/ SetStatus(x))
Rows == \E t \in Tokens : SkipToken(t) \/ StartTask(t)
Loop == FetchPage \/ WakeUp \/ Rows \/ EndPage

Next ==
    \/ Tick
    \/ \E t \in Tokens : DateToken(t) \/ InsertToken(t) \/ LocateToken(t)
    \/ Loop
    \/ \E t \in Tokens : Task(t)
    \/ Crash

(* The loop and its tasks go on; nothing is asked of those who write.      *)
Spec == Init /\ [][Next]_vars /\ WF_vars(Loop) /\ \A t \in Tokens : WF_vars(Task(t))

-----------------------------------------------------------------------------
(* PROPERTIES                                                              *)

(* The pages of one run of the process do not overlap: no token is read    *)
(* from twice.                                                             *)
ReadOnce == again = {}

Tied(t) == \E u \in Tokens \ {t} : created[u] # 0 /\ created[u] = created[t]

(* A token the cursor has passed was read from, unless its URI was missing *)
(* when its page was read, it was inserted behind the cursor, or a token   *)
(* with the same date ended a page.                                        *)
PassedForAReason ==
    \A t \in Tokens :
       created[t] # 0 /\ created[t] <= cursor =>
          t \in attempted \cup passed \cup late \/ Tied(t)

(* A token with a URI beyond the horizon is read from in the end.          *)
Due(t) == t \in located /\ HasReader(UriOf[t]) /\ created[t] > Horizon

EventuallyRead == \A t \in Tokens : Due(t) ~> (t \in attempted \/ Tied(t))
=============================================================================
