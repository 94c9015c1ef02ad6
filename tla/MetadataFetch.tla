---------------------------- MODULE MetadataFetch ----------------------------
(***************************************************************************)
(* How the TypeScript metadata reader gets from a token URI to metadata:   *)
(* the reader chosen for the protocol, the conversion of IPFS links to the *)
(* Pinata gateway, and the fallbacks after a rate limit.  read() and       *)
(* readOne() contain the same code; both modules that model them use this  *)
(* one.  A URI is only its kind:                                           *)
(*   ipfs      ipfs:// link with a CID                                     *)
(*   gateway   https link to an IPFS gateway, with a CID                   *)
(*   https     any other https (or http) link                              *)
(*   data      on-chain data URI                                           *)
(*   other     a protocol no reader handles                                *)
(***************************************************************************)
CONSTANTS
    UsePinata,              \* usePinata
    IpfsGatewayFallback,    \* ipfsGatewayFallback
    DedicatedFallback       \* pinataDedicatedGatewayFallback is configured

ASSUME FetchAssumption ==
    {UsePinata, IpfsGatewayFallback, DedicatedFallback} \subseteq BOOLEAN

UriKinds == {"ipfs", "gateway", "https", "data", "other"}

(* What a reader's promise settles with, its own retries included.         *)
Answers == {"ok", "rateLimited", "error"}

Converted(kind) == UsePinata /\ kind \in {"ipfs", "gateway"}

HasReader(kind) == kind # "other"

(* The rate limit of the Pinata gateway is the only error with a fallback. *)
FallsBack(kind, answer) ==
    /\ kind = "ipfs" /\ Converted(kind)
    /\ answer = "rateLimited"

(* One of the fallbacks answered; the second is tried after the first.     *)
Processed(ipfsGateway, dedicated) ==
    \/ IpfsGatewayFallback /\ ipfsGateway = "ok"
    \/ DedicatedFallback /\ dedicated = "ok"

(* The status the token ends with, given what the three gateways answer.   *)
StatusAfter(kind, answer, ipfsGateway, dedicated) ==
    CASE answer = "ok" -> "available"
      [] FallsBack(kind, answer) ->
            IF Processed(ipfsGateway, dedicated) THEN "available" ELSE "receivable"
      [] OTHER -> "unavailable"

(* Only the first answer reaches the store: the catch block that runs the  *)
(* fallbacks ends in a return.                                             *)
Outcomes(kind) ==
    {[data |-> a = "ok", status |-> StatusAfter(kind, a, g, d)] :
        a \in Answers, g \in Answers, d \in Answers}
=============================================================================
