----------------------------- MODULE WalletNFTs -----------------------------
(***************************************************************************)
(* src/api/wallet: what a wallet owns, computed from the transfer events   *)
(* the explorers API returns for its address.  The three kinds of event    *)
(* are requested one after the other, each answer newest first, and the    *)
(* balances are added up from the end of the concatenation.  A client      *)
(* walks through the pages of the answer, each computed anew, while the    *)
(* chain goes on.                                                          *)
(***************************************************************************)
EXTENDS Naturals, Integers, FiniteSets, Sequences, SequencesExt

CONSTANTS
    Nfts,           \* ERC-721 tokens
    Multis,         \* ERC-1155 tokens
    Contract,       \* the contract of a token
    Filters,        \* values of contractAddress, "" for none
    MaxValue,       \* bound: the amount of an ERC-1155 transfer
    PageLimit,      \* limit
    MaxEvents       \* bound: events of the wallet

ASSUME WalletAssumption ==
    /\ Nfts \cap Multis = {}
    /\ DOMAIN Contract = Nfts \cup Multis
    /\ MaxValue \in Nat \ {0} /\ PageLimit \in Nat \ {0} /\ MaxEvents \in Nat

Tokens == Nfts \cup Multis
Parties == {"wallet", "other"}

(* The events that mention the wallet, as operator at least.               *)
TransferEvents ==
    [kind : {"Transfer"}, ids : {{t} : t \in Nfts}, value : {1},
     from : Parties, to : Parties]
SingleEvents ==
    [kind : {"TransferSingle"}, ids : {{t} : t \in Multis}, value : 1..MaxValue,
     from : Parties, to : Parties]
BatchEvents ==
    [kind : {"TransferBatch"}, ids : SUBSET Multis \ {{}}, value : 1..MaxValue,
     from : Parties, to : Parties]

VARIABLES
    history,        \* events of the wallet, the oldest first
    stage,          \* 1..3: the kind fetched next, 4: the answer, Done
    answers,        \* allEvents
    filter, page,   \* parameters of the request
    began,          \* observation: events there were when the walk began
    collected       \* tokens of the pages so far, in their order

vars == <<history, stage, answers, filter, page, began, collected>>

Done == 5

Order == <<"Transfer", "TransferSingle", "TransferBatch">>

TypeOK ==
    /\ history \in Seq(TransferEvents \cup SingleEvents \cup BatchEvents)
    /\ stage \in 1..Done
    /\ answers \in Seq(TransferEvents \cup SingleEvents \cup BatchEvents)
    /\ filter \in Filters /\ page \in Nat /\ began \in 0..MaxEvents
    /\ collected \in Seq(Tokens)

(* The effect of an event on the balance of a token.                       *)
Effect(e, t) ==
    IF t \notin e.ids \/ e.from = e.to THEN 0
    ELSE IF e.to = "wallet" THEN e.value ELSE 0 - e.value

(* Reference: the balance after the first n events.                        *)
Balance(t, n) == FoldLeft(LAMBDA b, e : b + Effect(e, t), 0, SubSeq(history, 1, n))

Possible(e) == \A t \in e.ids : Balance(t, Len(history)) + Effect(e, t) \in 0..MaxValue

Init ==
    /\ history = << >> /\ stage = 1 /\ answers = << >>
    /\ filter \in Filters /\ page = 1 /\ began = 0 /\ collected = << >>

(* External: a transfer of, to or by the wallet.                           *)
Transfer(e) ==
    /\ Len(history) < MaxEvents
    /\ e.kind = "Transfer" => "wallet" \in {e.from, e.to}
    /\ Possible(e)
    /\ history' = Append(history, e)
    /\ UNCHANGED <<stage, answers, filter, page, collected>>
    /\ began' = IF page = 1 /\ stage = 1 THEN Len(history) + 1 ELSE began

(* fetchWalletEvents                                                       *)
FetchEvents ==
    /\ stage \in 1..3
    /\ answers' = answers \o Reverse(SelectSeq(history, LAMBDA e : e.kind = Order[stage]))
    /\ stage' = stage + 1
    /\ UNCHANGED <<history, filter, page, began, collected>>

Skipped(e) == "wallet" \notin {e.from, e.to}

Added(cache, e) ==
    [t \in DOMAIN cache \cup e.ids |->
        (IF t \in DOMAIN cache THEN cache[t] ELSE 0) + (IF t \in e.ids THEN e.value ELSE 0)]

(* A token that is not in the cache is only logged.                        *)
Subtracted(cache, e) ==
    [t \in DOMAIN cache |-> IF t \in e.ids THEN cache[t] - e.value ELSE cache[t]]

ApplyEvent(cache, e) ==
    IF Skipped(e) THEN cache
    ELSE IF e.to = "wallet" THEN Added(cache, e) ELSE Subtracted(cache, e)

(* Mutation target: the loop runs forward.                                 *)
FromNewest(events) == events

FromOldest(events) == Reverse(events)

(* tokensCache                                                             *)
Cache == FoldLeft(ApplyEvent, << >>, FromOldest(answers))

(* Its keys in the order they were put in; those of one event in any.      *)
Firsts == FoldLeft(LAMBDA s, e :
                     IF e.to = "wallet"
                     THEN s \o SetToSeq(e.ids \ ToSet(s)) ELSE s,
                   << >>, FromOldest(answers))

Kept == SelectSeq(Firsts, LAMBDA t : Cache[t] > 0 /\ filter \in {"", Contract[t]})

(* filtered.slice(offset, offset + limit)                                  *)
PageOf(seq) == LET offset == (page - 1) * PageLimit IN
    SubSeq(seq, offset + 1, IF offset + PageLimit < Len(seq) THEN offset + PageLimit ELSE Len(seq))

Answer ==
    /\ stage = 4
    /\ collected' = collected \o PageOf(Kept)
    /\ IF PageOf(Kept) = << >>
       THEN stage' = Done /\ UNCHANGED page
       ELSE stage' = 1 /\ page' = page + 1
    /\ answers' = << >>
    /\ UNCHANGED <<history, filter, began>>

Next ==
    \/ \E e \in TransferEvents \cup SingleEvents \cup BatchEvents : Transfer(e)
    \/ FetchEvents
    \/ Answer

Spec == Init /\ [][Next]_vars

-----------------------------------------------------------------------------
(* The events of a token the algorithm is right about: they are all of one *)
(* kind (kinds are not merged by time), and none is a transfer to oneself  *)
(* (which only adds).                                                      *)
Plain(t) ==
    LET own == {i \in 1..Len(history) : t \in history[i].ids} IN
    /\ Cardinality({history[i].kind : i \in own}) <= 1
    /\ \A i \in own : ~(history[i].from = "wallet" /\ history[i].to = "wallet")

Asked(t) == filter \in {"", Contract[t]}

(* A walk shows no plain token the wallet has not owned at some time since *)
(* it began, and, when nothing was transferred meanwhile, every one that   *)
(* it owns, once.                                                          *)
WalkShowsOwned ==
    stage = Done =>
       \A t \in {u \in Tokens : Plain(u)} :
          LET times == Cardinality({i \in 1..Len(collected) : collected[i] = t}) IN
          /\ times > 0 => Asked(t) /\ \E n \in began..Len(history) : Balance(t, n) > 0
          /\ began = Len(history) /\ Asked(t) /\ Balance(t, began) > 0 => times = 1
=============================================================================
