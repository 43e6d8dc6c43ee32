---------------------------- MODULE MCTxDisplay ----------------------------
(* Small documents for TxDisplay, built from lists of messages.            *)
EXTENDS TxDisplay, SequencesExt

CONSTANTS Send, Delegate, MultiSend, Transfer,  \* types; Transfer is unknown
          hub, zero, empty, plain, list, own, alice, longA, longB, long, bad

MCVals == {Send, Delegate, MultiSend, Transfer, hub, zero, empty, plain, list,
           own, alice, longA, longB, long, bad}

\* longA and longB differ beyond their first page only.
MCFirstPage == [v \in MCVals |-> IF v \in {longA, longB} THEN long ELSE v]

\* A field of a message: its leaf, and the leaves one level deeper.
Scalar(k, v) == [key |-> k, val |-> v, parts |-> <<[key |-> k, val |-> v]>>]
Nested(k, v, vs) ==
    [key |-> k, val |-> v,
     parts |-> [i \in DOMAIN vs |-> [key |-> "other", val |-> vs[i]]]]

SendMsg(v)     == <<Scalar("type", Send), Nested("amount", v, <<plain, plain>>),
                    Scalar("from_address", own), Scalar("to_address", alice)>>
DelegateMsg(a) == <<Scalar("type", Delegate), Scalar("delegator", a), Scalar("other", plain)>>
MultiMsg       == <<Scalar("type", MultiSend), Nested("other", list, <<own, list>>)>>
BadMultiMsg    == <<Scalar("type", MultiSend),
                    [key |-> "other", val |-> list,
                     parts |-> <<[key |-> "outputs/coins", val |-> bad]>>]>>
TransferMsg    == <<Scalar("type", Transfer), Nested("other", list, <<plain, plain>>),
                    Scalar("other", alice)>>

Deeper(fields, i) ==
    [j \in DOMAIN fields[i].parts |->
        [key |-> fields[i].parts[j].key, val |-> fields[i].parts[j].val,
         atoms |-> {<<msgs, i, j>>}]]
Single(r, v) ==
    <<[key |-> CASE r = chain_id -> "chain_id" [] r = memo -> "memo" [] OTHER -> "other",
       val |-> v, atoms |-> {<<r, 1, 1>>}]>>

Fee(v) == <<[key |-> "fee/amount", val |-> v, atoms |-> {<<fee, 1, 1>>}],
            [key |-> "fee/gas", val |-> plain, atoms |-> {<<fee, 2, 1>>}]>>
StdFee == Fee(list)

\* The document with these messages, chain, memo and fee fields.
MkDoc(messages, chain, memoText, fees, tips) ==
    LET fields == FlattenSeq(messages) IN
    [leaves |-> [r \in RootItems |->
        CASE r = chain_id -> Single(r, chain)
          [] r \in {account_number, sequence} -> Single(r, plain)
          [] r = msgs -> [i \in DOMAIN fields |->
                            [key |-> fields[i].key, val |-> fields[i].val,
                             atoms |-> {<<msgs, i, j>> : j \in DOMAIN fields[i].parts}]]
          [] r = memo -> Single(r, memoText)
          [] r = fee  -> fees
          [] r = tip  -> tips],
     deep |-> FlattenSeq([i \in DOMAIN fields |-> Deeper(fields, i)])]

MCAmountKeys == {"amount", "inputs/coins", "outputs/coins", "fee/amount"}
MCLeafKeys == MCAmountKeys \cup {"type", "delegator", "from_address", "to_address",
    "chain_id", "memo", "fee/gas", "inputs/address", "outputs/address", "other"}
MCAtoms == RootItems \X (1 .. 12) \X (1 .. 2)

\* One level deeper an array of plain values is met without its last element.
WithoutLast(d) == [d EXCEPT !.deep = Front(@)]

Tip == Single(tip, plain)
MCDocs ==
    {MkDoc(messages, hub, empty, StdFee, <<>>) : messages \in
        {<<DelegateMsg(own), DelegateMsg(own)>>,
         <<DelegateMsg(alice), DelegateMsg(alice)>>,
         <<DelegateMsg(alice), DelegateMsg(own)>>,
         <<DelegateMsg(alice), SendMsg(list)>>,
         <<SendMsg(bad)>>, <<BadMultiMsg>>, <<MultiMsg, MultiMsg>>, <<TransferMsg>>}}
    \cup {MkDoc(<<DelegateMsg(alice), DelegateMsg(alice)>>, plain, empty, StdFee, <<>>),
          MkDoc(<<SendMsg(list)>>, hub, plain, StdFee, Tip),
          MkDoc(<<DelegateMsg(longA), DelegateMsg(longB)>>, hub, empty, StdFee, <<>>),
          MkDoc(<<SendMsg(list)>>, hub, empty, <<>>, <<>>),
          WithoutLast(MkDoc(<<MultiMsg>>, hub, empty, StdFee, <<>>)),
          MkDoc(<<SendMsg(list)>>, zero, empty, StdFee, <<>>)}

\* Documents whose messages are met at two depths.
MixedDocs ==
    {MkDoc(<<MultiMsg, SendMsg(list)>>, hub, empty, StdFee, <<>>),
     MkDoc(<<SendMsg(list), MultiMsg>>, hub, empty, StdFee, <<>>),
     MkDoc(<<TransferMsg>>, hub, MultiSend, StdFee, <<>>)}
ManyItems == {MkDoc(<<DelegateMsg(alice), DelegateMsg(own), DelegateMsg(alice)>>,
                    hub, empty, StdFee, <<>>)}
=============================================================================
