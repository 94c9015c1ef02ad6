--------------------------- MODULE MCEventsReader ---------------------------
(* Small instances of EventsReader for TLC.                                *)
EXTENDS EventsReader

Request(f, t, k) == [from |-> f, to |-> t, type |-> k]

LiveTask == Request(0, 0, "NEW_ONLY")

OnlyLive == {LiveTask}

(* Live indexing and a repair of a range that already exists.              *)
LiveAndReindex == {LiveTask, Request(0, 2, "REINDEX")}

AllButFirst == Blocks \ {0}

=============================================================================
