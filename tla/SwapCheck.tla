----------------------------- MODULE SwapCheck -----------------------------
(***************************************************************************)
(* A swap: Exchange starts the app with the payment it agreed on, the app  *)
(* parses and validates the one document it is sent (TxDisplay) and        *)
(* compares the items it would show with the payment, by their position,   *)
(* before it signs without asking the user (check_swap_conditions).        *)
(*                                                                         *)
(* The value of an amount field stands for a list of coins.  parser_getItem*)
(* gives the first page of an item only: the first coin of a list, and the *)
(* beginning of a text that does not fit.                                  *)
(***************************************************************************)
EXTENDS TxDisplay

CONSTANTS
    Parameters,   \* payments Exchange may start the app with
    Numbers,      \* amounts
    Denoms,       \* denominations
    Ticker,       \* what the normal view shows for the default denomination
    CoinsOf,      \* the coins of the value of an amount field
    Chains,       \* chain ids of the table chains, the default chain first
    BaseDenom,    \* their expert tickers
    SendText,     \* the text of the type Send
    TooLong,      \* texts longer than the fields of G_swap_state
    BigNumbers,   \* amounts longer than COIN_AMOUNT_MAXSIZE bytes
    SwapPage      \* the part of a text that fits the 65 byte buffer

Coin == [n : Numbers, denom : Denoms]
Payments == [amount : Numbers, fees : Numbers, destination_address : Vals, memo : Vals]
SwapKeys == {"type", "chain_id", "memo", "amount", "to_address", "inputs/address",
             "inputs/coins", "outputs/address", "outputs/coins", "fee/amount"}

\* The path that a key stands for begins with the name of its root field.
FieldOf(key) ==
    CASE key = "chain_id" -> chain_id
      [] key = "memo" -> memo
      [] key = "fee/amount" -> fee
      [] OTHER -> msgs

EXPERT_SEND_MODE_ITEMS == 10
NORMAL_SEND_MODE_ITEMS == 6

ASSUME SwapAssumption ==
    /\ Parameters \subseteq Payments /\ BigNumbers \subseteq Numbers
    /\ SwapKeys \subseteq LeafKeys
    /\ AmountKeys \cap (SwapKeys \cup {"from_address", "fee/gas"}) =
        {"amount", "inputs/coins", "outputs/coins", "fee/amount"}
    /\ \A d \in Docs : \A r \in RootItems \ {msgs, fee, tip} : \A p \in DOMAIN d.leaves[r] :
         d.leaves[r][p].key \notin AmountKeys
    /\ \A d \in Docs : \A r \in RootItems : \A p \in DOMAIN d.leaves[r] :
         d.leaves[r][p].key \in SwapKeys => r = FieldOf(d.leaves[r][p].key)
    /\ \A d \in Docs : \A p \in DOMAIN d.deep :
         d.deep[p].key \in SwapKeys => FieldOf(d.deep[p].key) = msgs
    \* What cannot be formatted is no coin.
    /\ CoinsOf \in [Vals -> Seq(Coin)] /\ \A v \in Vals \cap BadAmounts : CoinsOf[v] = <<>>
    /\ Chains # <<>> /\ Chains \in Seq(Vals) /\ Chains[1] = DefaultChain
    /\ BaseDenom \in [DOMAIN Chains -> Denoms] /\ Ticker \notin Denoms
    /\ SwapPage \in [Vals -> Vals]
    /\ EmptyVal \notin TooLong /\ 0 \notin BigNumbers
    /\ SendText \in KnownTypes \ TooLong
    /\ \A k \in DOMAIN Chains : Chains[k] \notin TooLong \cup ForbiddenChains
    /\ \A j, k \in DOMAIN Chains : Chains[j] = Chains[k] => j = k
    /\ ByteMax >= EXPERT_SEND_MODE_ITEMS
    \* The fields of G_swap_state (50 bytes) are shorter than a page.
    /\ \A v \in Vals : IF v \in TooLong THEN SwapPage[v] \in TooLong ELSE SwapPage[v] = v

VARIABLES
    swap,     \* the payment in G_swap_state
    verdict,  \* how far the swap has come
    stage,    \* the item check_swap_conditions compares next
    base,     \* position of the first item of the messages
    chain     \* chain_index, from 1

swapVars == <<swap, verdict, stage, base, chain>>

NoSwap == [amount |-> 0, fees |-> 0, destination_address |-> EmptyVal, memo |-> EmptyVal]

----------------------------------------------------------------------------
(* Texts of amounts                                                        *)

is_default_denom_base(denom) ==
    ~tx_is_expert_mode_or_not_default_chainid /\ denom = BaseDenom[1]

\* The default denomination is scaled and named in the normal view.
parser_formatAmountItem(coin) ==
    <<coin.n, IF is_default_denom_base(coin.denom) THEN Ticker ELSE coin.denom>>

\* The first page of a list of coins.
parser_formatAmount(coins) ==
    IF coins = <<>> THEN <<>> ELSE parser_formatAmountItem(coins[1])

\* The agreed amount, in the unit of the chain.
format_amount(n) ==
    IF expert \/ chain # 1 THEN <<n, BaseDenom[chain]>> ELSE <<n, Ticker>>

----------------------------------------------------------------------------
(* The items of a payment                                                  *)

\* One row for each comparison: position of the item behind the first item of
\* the messages, its key, and the row after it.
Rows ==
    [sourceAddress |-> [at |-> 0, key |-> "inputs/address", next |-> "sourceCoins"],
     sourceCoins   |-> [at |-> 1, key |-> "inputs/coins", next |-> "destAddress"],
     destAddress   |-> [at |-> 2, key |-> "outputs/address", next |-> "destCoins"],
     destCoins     |-> [at |-> 3, key |-> "outputs/coins", next |-> "memo"],
     type          |-> [at |-> 0, key |-> "type", next |-> "amount"],
     amount        |-> [at |-> 1, key |-> "amount", next |-> "to"],
     to            |-> [at |-> 3, key |-> "to_address", next |-> "memo"],
     memo          |-> [at |-> 4, key |-> "memo", next |-> "fee"],
     fee           |-> [at |-> 4, key |-> "fee/amount", next |-> "count"]]

has_memo == swap.memo # EmptyVal

Position(row) == base + Rows[row].at + (IF row = "fee" /\ has_memo THEN 1 ELSE 0)

\* A payment without a memo has no row for it.
FollowingNoFee(row) ==   \* a fault: without a memo the fee is not compared
    IF Rows[row].next = "memo" /\ ~has_memo THEN "count" ELSE Rows[row].next
Following(row) ==
    IF Rows[row].next = "memo" /\ ~has_memo THEN "fee" ELSE Rows[row].next

AgreesAmountUnread(row, leaf) ==   \* a fault: the coins sent are not compared
    leaf.key = Rows[row].key
Agrees(row, leaf) ==
    /\ leaf.key = Rows[row].key
    /\ CASE row = "sourceAddress" -> TRUE
         [] row \in {"sourceCoins", "destCoins", "amount"} ->
                parser_formatAmount(CoinsOf[leaf.val]) = format_amount(swap.amount)
         [] row = "fee" -> parser_formatAmount(CoinsOf[leaf.val]) = format_amount(swap.fees)
         [] row = "type" -> SwapPage[leaf.val] = SendText
         [] row = "memo" -> SwapPage[leaf.val] = swap.memo
         [] row \in {"destAddress", "to"} -> SwapPage[leaf.val] = swap.destination_address

ItemsExpectedNormal ==   \* a fault: the items of other chains are not counted
    (IF expert THEN EXPERT_SEND_MODE_ITEMS ELSE NORMAL_SEND_MODE_ITEMS)
        - (IF has_memo THEN 0 ELSE 1)
ItemsExpected ==
    (IF chain # 1 \/ expert THEN EXPERT_SEND_MODE_ITEMS ELSE NORMAL_SEND_MODE_ITEMS)
        - (IF has_memo THEN 0 ELSE 1)

find_chain_index_by_chain_id(v) == {k \in DOMAIN Chains : Chains[k] = SwapPage[v]}

----------------------------------------------------------------------------
(* Starting a swap, and its document                                       *)

\* copy_transaction_parameters refuses what its fields cannot hold, and wipes
\* the BSS before it commits what they can.
FitsAnything(p) == TRUE   \* a fault: the lengths are not checked
Fits(p) ==
    /\ p.amount \notin BigNumbers /\ p.fees \notin BigNumbers
    /\ p.destination_address \notin TooLong /\ p.memo \notin TooLong

StartSwap(p) ==
    /\ verdict \in {"none", "accepted", "refused"}
    /\ IF Fits(p)
       THEN /\ swap' = p /\ verdict' = "open"
            /\ phase' = "none" /\ doc' = NoDocument
            /\ extraDepthLevel' = FALSE /\ cache' = EmptyCache
            /\ root' = 1 /\ item' = 1 /\ checked' = <<>> /\ seen' = {}
       ELSE /\ verdict' = "none"
            /\ UNCHANGED <<swap, phase, doc, extraDepthLevel, cache, root, item,
                           checked, seen>>
    /\ stage' = "first" /\ base' = 0 /\ chain' = 1
    /\ UNCHANGED expert

\* tx_parse up to the swap check.  A document that is refused here leaves the
\* swap open for another one.
ReadDocument ==
    /\ verdict = "open"
    /\ \/ \E d \in Docs : ParseDocument(d)
       \/ IndexItem \/ IndexRootDone \/ IndexDone \/ ValidateItem
    /\ UNCHANGED swapVars

----------------------------------------------------------------------------
(* check_swap_conditions                                                   *)

Checking == verdict = "open" /\ phase = "review"

displayVars == <<phase, doc, expert, cache, root, item, checked, seen>>

\* The first item tells whether the chain, account and sequence are shown.  The
\* rows of a transfer come first, those of a send if its first row fails.
CheckFirst(row) ==
    LET leaf == tx_display_query(0)
        index == find_chain_index_by_chain_id(leaf.val)
    IN
    /\ Checking
    /\ \/ row = "sourceAddress" /\ stage = "first"
       \/ row = "type" /\ stage = "second"
    /\ extraDepthLevel' = DepthAfter(leaf)
    /\ \/ /\ leaf.key = "chain_id" /\ index = {}
          /\ verdict' = "refused" /\ UNCHANGED <<stage, base, chain>>
       \/ /\ leaf.key = "chain_id" /\ index # {}
          /\ chain' = (CHOOSE k \in index : TRUE)
          /\ base' = 3 /\ stage' = row /\ UNCHANGED verdict
       \/ /\ leaf.key # "chain_id"
          /\ chain' = 1 /\ base' = 0 /\ stage' = row /\ UNCHANGED verdict
    /\ UNCHANGED <<swap, displayVars>>

CheckRow(row) ==
    LET leaf == tx_display_query(Position(row)) IN
    /\ Checking /\ stage = row
    /\ extraDepthLevel' = DepthAfter(leaf)
    /\ \/ Agrees(row, leaf) /\ stage' = Following(row) /\ UNCHANGED verdict
       \/ ~Agrees(row, leaf) /\ row = "sourceAddress" /\ leaf # NoLeaf
          /\ stage' = "second" /\ UNCHANGED verdict
       \/ ~Agrees(row, leaf) /\ ~(row = "sourceAddress" /\ leaf # NoLeaf)
          /\ verdict' = "refused" /\ UNCHANGED stage
    /\ UNCHANGED <<swap, base, chain, displayVars>>

CheckCount ==
    /\ Checking /\ stage = "count"
    /\ verdict' = IF tx_display_numItems = ItemsExpected THEN "accepted" ELSE "refused"
    /\ UNCHANGED <<swap, stage, base, chain, extraDepthLevel, displayVars>>

SwapInit ==
    /\ Init
    /\ swap = NoSwap /\ verdict = "none" /\ stage = "first" /\ base = 0 /\ chain = 1

SwapNext ==
    \/ \E p \in Parameters : StartSwap(p)
    \/ ReadDocument
    \/ \E row \in {"sourceAddress", "type"} : CheckFirst(row)
    \/ \E row \in DOMAIN Rows : CheckRow(row)
    \/ CheckCount

SwapSpec == SwapInit /\ [][SwapNext]_<<vars, swapVars>>

----------------------------------------------------------------------------
(* Correctness properties                                                  *)

\* The type invariant of a swap; what it agreed on fits its fields.
SwapTypeOK ==
    /\ swap \in Payments \cup {NoSwap}
    /\ swap.amount \notin BigNumbers /\ swap.fees \notin BigNumbers
    /\ swap.destination_address \notin TooLong /\ swap.memo \notin TooLong
    /\ verdict \in {"none", "open", "accepted", "refused"}
    /\ stage \in {"first", "second", "count"} \cup DOMAIN Rows
    /\ base \in {0, 3} /\ chain \in DOMAIN Chains

\* The rows of the two forms of a payment.
TransferRows == {"sourceAddress", "sourceCoins", "destAddress", "destCoins"}
SendRows == {"type", "amount", "to"}
CommonRows == {"fee"} \cup {row \in {"memo"} : has_memo}

AgreesNow(row) == Agrees(row, tx_display_query(Position(row)))
AllAgree(rows) == \A row \in rows : AgreesNow(row)

\* When a payment is accepted all the rows of one form agree with it at once:
\* none was passed over, though each comparison fetches its item by a walk of
\* its own whose depth the earlier ones may set, and a failed attempt at the
\* other form came first.
AcceptedRowsAgree ==
    verdict = "accepted" /\ OneDepth(doc) =>
        /\ \E form \in {TransferRows, SendRows} : AllAgree(form \cup CommonRows)
        /\ tx_display_numItems = ItemsExpected

\* What a document says.
KeysIn(r, keys) == {p \in DOMAIN doc.leaves[r] : doc.leaves[r][p].key \in keys}
CoinsAt(r, keys) == {CoinsOf[doc.leaves[r][p].val] : p \in KeysIn(r, keys)}
TextsAt(r, keys) == {doc.leaves[r][p].val : p \in KeysIn(r, keys)}
PaidCoins == {"amount", "inputs/coins", "outputs/coins"}
Receivers == {"to_address", "outputs/address"}
OneCoin == \A r \in RootItems : \A coins \in CoinsAt(r, AmountKeys) : Len(coins) <= 1
SwapChain == find_chain_index_by_chain_id(doc.leaves[chain_id][1].val)
Agreed(k, n) == <<[n |-> n, denom |-> BaseDenom[k]]>>

\* What the check takes for granted of a document, as clients of the chain make
\* it: the replay protection fields and the memo are single texts, the fee is one
\* record, the amount of a Send is followed by its sender, and a Multi Send is
\* named by a type.
WellFormed ==
    /\ \A r \in {chain_id, account_number, sequence} : Len(doc.leaves[r]) = 1
    /\ Len(doc.leaves[memo]) <= 1
    /\ \A p, q \in KeysIn(fee, {"fee/amount"}) : p = q
    /\ \A p \in KeysIn(msgs, {"amount"}) : p + 1 \in KeysIn(msgs, {"from_address"})
    /\ \A leaves \in {doc.leaves[msgs], doc.deep} : \A p \in DOMAIN leaves :
         leaves[p].val \in MultiTypes => leaves[p].key = "type"

\* A well-formed document accepted for a swap pays what was agreed on, once, to whom it was
\* agreed, with the memo and the fee agreed on, though the check sees items by
\* their position and only their first pages, and does not see the sender.  In
\* the normal view it has no tip.
PaysOnce(k) ==
    /\ CoinsAt(msgs, PaidCoins) = {Agreed(k, swap.amount)}
    /\ TextsAt(msgs, Receivers) = {swap.destination_address}
    /\ Cardinality(KeysIn(msgs, Receivers)) = 1
WithMemoAndFee(k) ==
    /\ TextsAt(memo, LeafKeys) \ {EmptyVal} = {swap.memo} \ {EmptyVal}
    /\ CoinsAt(fee, {"fee/amount"}) = {Agreed(k, swap.fees)}
PaysAgreed == \E k \in SwapChain : PaysOnce(k) /\ WithMemoAndFee(k)
AcceptedPaysAgreed ==
    verdict = "accepted" /\ OneDepth(doc) /\ OneCoin /\ WellFormed =>
        /\ PaysAgreed
        /\ tx_is_expert_mode_or_not_default_chainid \/ doc.leaves[tip] = <<>>

\* The forms of a payment that the comments of check_swap_conditions give.
KeysOf(r) == [p \in DOMAIN doc.leaves[r] |-> doc.leaves[r][p].key]
StandardForm ==
    /\ KeysOf(chain_id) = <<"chain_id">> /\ KeysOf(memo) = <<"memo">>
    /\ \A r \in {account_number, sequence} : Len(doc.leaves[r]) = 1
    /\ KeysOf(msgs) \in
        {<<"type", "amount", "from_address", "to_address">>,
         <<"inputs/address", "inputs/coins", "outputs/address", "outputs/coins">>}
    /\ \A p \in KeysIn(msgs, {"type"}) : doc.leaves[msgs][p].val = SendText
    /\ KeysOf(fee) = <<"fee/amount", "fee/gas">> /\ doc.leaves[tip] = <<>>

\* A payment as agreed, in one of these forms, is accepted in every mode and on
\* every chain of the table.
AgreedIsAccepted ==
    (verdict = "refused" \/ phase = "rejected") /\ verdict # "none" =>
        ~(NoMulti(doc) /\ StandardForm /\ OneCoin /\ PaysAgreed)

\* handle_sign_transaction.c: "If any discrepancy is found (either in item count
\* or content), the function will return an error."
NoDiscrepancyAccepted ==
    verdict = "accepted" /\ OneDepth(doc) => PaysAgreed /\ doc.leaves[tip] = <<>>
=============================================================================
