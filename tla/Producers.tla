----------------------------- MODULE Producers -----------------------------
(***************************************************************************)
(* The programs that send messages of the pipeline again: the refresh API  *)
(* (src/api/refresh, src/app-refresh) and the commands of src/tokens-      *)
(* reader.  A refresh names the contract the way its caller wrote it.      *)
(***************************************************************************)
EXTENDS Stores

CONSTANTS
    MaxResends,     \* bound: requests and commands together
    NoRefresh

ASSUME ProducersAssumption == MaxResends \in Nat /\ NoRefresh \notin ContractRefs

VARIABLES
    refreshing,     \* the contract whose tokens a request has still to send
    refreshed,      \* observation: what a token's URI served at its last refresh
    resends         \* how many requests and commands there were

producerVars == <<refreshing, refreshed, resends>>

ProducersTypeOK ==
    /\ refreshing \in ContractRefs \cup {NoRefresh}
    /\ refreshed \in [Tokens -> (0..MaxVersion) \cup {NoMetadata}]
    /\ resends \in 0..MaxResends

ProducersInit ==
    /\ refreshing = NoRefresh
    /\ refreshed = [t \in Tokens |-> NoMetadata]
    /\ resends = 0

Resend == resends < MaxResends /\ resends' = resends + 1

(* What is sent with an id that the collections know is no longer lost.    *)
Found(refs) == lost' = lost \ {ref[1] : ref \in {r \in refs : r[2] = Checksum}}

Sent(ts) == refreshed' = [t \in Tokens |-> IF t \in ts THEN served[t] ELSE refreshed[t]]

(* refreshContract up to the first message; the lookup ignores the case of *)
(* the address, the message repeats it as the caller wrote it.             *)
RefreshContract(c, form) ==
    /\ refreshing = NoRefresh
    /\ contracts[c] # "absent"
    /\ Resend
    /\ contractsQueue' = contractsQueue \cup {<<c, form>>}
    /\ Found({<<c, form>>})
    /\ refreshing' = <<c, form>>
    /\ UNCHANGED <<collections, metadataQueue, served, faults, refreshed>>

(* What getByIdPrefix finds.                                               *)
TokensOf(c) == {t \in Tokens : ContractOf[t] = c /\ Stored(t)}

(* A message per token with the stored id, and the others in `more`.       *)
SendTokens(ts, more) ==
    /\ contractsQueue' = contractsQueue \cup {Ref(t) : t \in ts} \cup more
    /\ Found({Ref(t) : t \in ts} \cup more)
    /\ Sent(ts)

(* The rest of it: all tokens, and the contract once more.                 *)
RefreshTokens ==
    /\ refreshing # NoRefresh
    /\ SendTokens(TokensOf(refreshing[1]), {refreshing})
    /\ refreshing' = NoRefresh
    /\ UNCHANGED <<collections, metadataQueue, served, faults, resends>>

(* The request dies in between, or the broker refuses some messages, the   *)
(* last one included: the others are sent, the caller gets an error.       *)
RefreshFails ==
    /\ refreshing # NoRefresh
    /\ faults < MaxFaults /\ faults' = faults + 1
    /\ \E ts \in SUBSET TokensOf(refreshing[1]) : SendTokens(ts, {})
    /\ refreshing' = NoRefresh
    /\ UNCHANGED <<collections, metadataQueue, served, resends>>

RefreshToken(t, form) ==
    /\ contracts[ContractOf[t]] # "absent"
    /\ Stored(t) /\ tokens[t].tokenUri # ""
    /\ Resend
    /\ contractsQueue' = contractsQueue \cup {<<t, form>>}
    /\ Found({<<t, form>>})
    /\ Sent({t})
    /\ UNCHANGED <<collections, metadataQueue, served, faults, refreshing>>

(* fill-contract-queue, for one token of a page.  The page was read        *)
(* before: a URI it showed as empty may have been stored since.  Without   *)
(* its contract the command ends with an error.                            *)
FillContractQueue(t) ==
    /\ Stored(t)
    /\ contracts[ContractOf[t]] # "absent"
    /\ Resend
    /\ contractsQueue' = contractsQueue \cup {Ref(t)}
    /\ Found({Ref(t)})
    /\ UNCHANGED <<collections, metadataQueue, served, faults, refreshing, refreshed>>

(* fill-metadata-queue, for one token of a page.                           *)
FillMetadataQueue(t) ==
    /\ Stored(t) /\ tokens[t].tokenUri # ""
    /\ Resend
    /\ metadataQueue' = metadataQueue \cup {Ref(t)}
    /\ Found({Ref(t)})
    /\ UNCHANGED <<collections, contractsQueue, served, faults, refreshing, refreshed>>

ProducersNext ==
    \/ \E c \in Contracts, form \in Forms : RefreshContract(c, form)
    \/ RefreshTokens
    \/ RefreshFails
    \/ \E t \in Tokens, form \in Forms : RefreshToken(t, form)
    \/ \E t \in Tokens : FillContractQueue(t) \/ FillMetadataQueue(t)
=============================================================================
