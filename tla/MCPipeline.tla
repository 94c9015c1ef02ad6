---------------------------- MODULE MCPipeline ----------------------------
(* One token, mentioned by both ranges, with its metadata on IPFS.         *)
EXTENDS Pipeline

CONSTANTS t1, c1, r1, r2

MCContractOf == [t \in Tokens |-> c1]
MCUriOf == [t \in Tokens |-> "ipfs"]
MCEventsOf == [r \in Ranges |-> Tokens]
=============================================================================
