--------------------------- MODULE MCSqsConsumer ---------------------------
(* Three messages, one of them no JSON, batches of two, two workers.       *)
EXTENDS SqsConsumer

CONSTANTS m1, m2, m3
=============================================================================
