------------------------- MODULE MCMetadataPolling -------------------------
(* Three tokens, one of them with a URI no reader handles.                 *)
EXTENDS MetadataPolling

CONSTANTS t1, t2, t3

MCUriOf == [t \in Tokens |-> CASE t = t1 -> "ipfs" [] t = t2 -> "https" [] t = t3 -> "other"]
=============================================================================
