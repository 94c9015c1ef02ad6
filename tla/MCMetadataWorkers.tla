------------------------- MODULE MCMetadataWorkers -------------------------
(* Two workers; one of four messages cannot be decoded, and two name the   *)
(* same token.                                                             *)
EXTENDS MetadataWorkers

CONSTANTS w1, w2, m1, m2, m3, m4, t1, t2

MCTokenOf == [m \in Messages |-> IF m \in {m1, m2} THEN t1 ELSE t2]
MCKindOf == [m \in Messages |-> CASE m = m1 -> "http" [] m = m2 -> "data"
                                  [] m = m3 -> "badData" [] m = m4 -> "undecodable"]
=============================================================================
