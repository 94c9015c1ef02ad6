---------------------------- MODULE MCReaderTasks ----------------------------
(* Small instances of ReaderTasks for TLC.                                 *)
EXTENDS ReaderTasks

BothKinds == {"range", "live"}
=============================================================================
