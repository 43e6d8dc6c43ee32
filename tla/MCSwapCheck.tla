---------------------------- MODULE MCSwapCheck ----------------------------
(* Small swaps for SwapCheck.                                              *)
EXTENDS SwapCheck, MCTxDisplay

CONSTANTS osmo, six, three, both, note, longNote, manyDigits

SwapVals == MCVals \cup {osmo, six, three, both, note, longNote}

\* six and three are lists of one coin: of the default chain's denomination if
\* they begin a list, both is a list of two.
MCNumbers == {0, 3, 6, manyDigits}
SwapCoins ==
    [v \in SwapVals |->
        CASE v = six   -> <<[n |-> 6, denom |-> "uatom"]>>
          [] v = three -> <<[n |-> 3, denom |-> "uatom"]>>
          [] v = list  -> <<[n |-> 6, denom |-> "uosmo"]>>
          [] v = both  -> <<[n |-> 6, denom |-> "uatom"], [n |-> 3, denom |-> "uosmo"]>>
          [] v = plain -> <<[n |-> 3, denom |-> "uosmo"]>>
          [] OTHER     -> <<>>]
SwapFirstPage == [v \in SwapVals |-> v]
MCChains == <<hub, osmo>>
MCBaseDenom == <<"uatom", "uosmo">>

Payment(to, text) ==
    [amount |-> 6, fees |-> 3, destination_address |-> to, memo |-> text]
MCParameters ==
    {Payment(alice, empty), Payment(alice, note), Payment(alice, longNote),
     [Payment(alice, empty) EXCEPT !.amount = manyDigits]}

Pay(v, to) ==
    <<Scalar("type", Send), Scalar("amount", v), Scalar("from_address", own),
      Scalar("to_address", to)>>
Transfer2(in, out, to) ==
    <<Scalar("inputs/address", own), Scalar("inputs/coins", in),
      Scalar("outputs/address", to), Scalar("outputs/coins", out)>>
NoGas(v) == <<Fee(v)[1]>>
MCTip == <<[key |-> "other", val |-> plain, atoms |-> {<<tip, 1, 1>>}]>>

MCSwapDocs ==
    {MkDoc(messages, hub, text, Fee(three), <<>>) :
        messages \in {<<Pay(six, alice)>>, <<Transfer2(six, six, alice)>>},
        text \in {empty, note, longNote}}
    \cup {MkDoc(messages, hub, empty, Fee(three), <<>>) : messages \in
        {<<Pay(three, alice)>>, <<Pay(six, own)>>, <<Pay(six, alice), Pay(six, alice)>>,
         <<Transfer2(six, three, alice)>>, <<MultiMsg>>, <<DelegateMsg(alice)>>}}
    \cup {MkDoc(<<Pay(list, alice)>>, c, text, Fee(plain), <<>>) :
            c \in {hub, osmo, alice}, text \in {empty, note}}
    \cup {MkDoc(<<Transfer2(list, list, alice)>>, osmo, empty, Fee(plain), <<>>),
          MkDoc(<<Pay(six, alice)>>, hub, empty, Fee(six), <<>>),
          MkDoc(<<Pay(six, alice)>>, hub, empty, NoGas(three), <<>>),
          MkDoc(<<Pay(six, alice)>>, hub, empty, Fee(three), MCTip),
          MkDoc(<<Pay(six, alice)>>, hub, empty, NoGas(three), MCTip),
          MkDoc(<<Pay(six, alice)>>, zero, empty, Fee(three), <<>>)}

\* Payments of two coins where one was agreed on.
TwoCoinDocs ==
    {MkDoc(<<Pay(both, alice)>>, hub, empty, Fee(three), <<>>),
     MkDoc(<<Transfer2(six, both, alice)>>, hub, empty, Fee(three), <<>>)}
=============================================================================
