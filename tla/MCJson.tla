------------------------------- MODULE MCJson -------------------------------
(* Small texts for TxWalk: transactions, and texts a few edits away.       *)
EXTENDS TxWalk

Str(s) == <<Quote, s, Quote>>
EmptyStr == <<Quote, Quote>>
Mem(name, value) == Str(name) \o <<":">> \o value
Listed(parts) ==
    FlattenSeq([i \in DOMAIN parts |-> IF i = 1 THEN parts[i] ELSE <<",">> \o parts[i]])
Obj(members) == <<"{">> \o Listed(members) \o <<"}">>
Arr(elements) == <<"[">> \o Listed(elements) \o <<"]">>

Fields(fees, messages) ==
    <<Mem("account_number", Str("1")), Mem("chain_id", Str("hub")), Mem("fee", fees),
      Mem("memo", EmptyStr), Mem("msgs", messages), Mem("sequence", Str("2"))>>
Tx(messages) == Obj(Fields(Str("free"), messages))

Coin(n) == Obj(<<Mem("amount", Str(n)), Mem("denom", Str("uatom"))>>)
Fee == Obj(<<Mem("amount", Arr(<<Coin("5")>>)), Mem("gas", Str("9"))>>)
Send(n) == Obj(<<Mem("type", Str("send")),
                 Mem("value", Obj(<<Mem("amount", Arr(<<Coin(n)>>)), Mem("to", Str("alice"))>>))>>)
Multi == Obj(<<Mem("value", Obj(<<Mem("inputs", Arr(<<Coin("3"), Coin("4")>>)),
                                  Mem("outputs", Arr(<<>>))>>))>>)
Legacy == Obj(<<Mem("inputs", Arr(<<Coin("3"), Coin("4")>>)), Mem("outputs", Arr(<<>>))>>)
Chained == Arr(<<Arr(<<Arr(<<Arr(<<Arr(<<Arr(<<Arr(<<<<"1">>>>)>>)>>)>>)>>)>>)>>)

\* Transactions whose arrays are counted right.
Regular ==
    {Obj(Fields(Fee, Arr(<<Send("1"), Send("2")>>))), Tx(Arr(<<Multi>>)), Tx(Arr(<<Legacy, Legacy>>)),
     Tx(Arr(<<>>)), Tx(Chained), Tx(Arr(<<Send("1"), <<"1">>>>)), Tx(Obj(<<Mem("one", Send("1"))>>)),
     Tx(Arr(<<Str(Space)>>))}

\* An array of values, and one with an empty message before another.
Values == Obj(<<Mem("signers", Arr(<<Str("own"), Str("alice")>>))>>)
Irregular == {Tx(Arr(<<Values>>)), Tx(Arr(<<Obj(<<>>), Values>>)), Tx(Arr(<<Str("a"), Str("b"), Str("c")>>))}

\* Members out of order, repeated, missing, or with long names.
Plain == Fields(Str("free"), Arr(<<>>))
Swapped(i) == [k \in DOMAIN Plain |-> CASE k = i -> Plain[i + 1] [] k = i + 1 -> Plain[i] [] OTHER -> Plain[k]]
Disordered ==
    {Obj(Swapped(i)) : i \in 1 .. 5}
        \cup {Obj(RemoveAt(Plain, i)) : i \in 1 .. 6}
        \cup {Obj(InsertAt(Plain, i, Plain[i])) : i \in {1, 6}}
        \cup {Tx(Arr(<<Obj(<<Mem("b", Str("1")), Mem("a", Coin("2"))>>)>>)),
              Tx(Arr(<<Obj(<<Mem("a", Coin("2")), Mem("b", Str("1")), Mem("b", Str("2"))>>)>>)),
              Tx(Obj(<<Mem("a", Str("1")), Mem("long", Str("2"))>>))}

\* A space at every place, a character less, and texts that are no transaction.
Simple == Obj(Plain)
Deep == Tx(Arr(<<Obj(<<Mem("a", Coin("2")), Mem("b", <<"1">>)>>)>>))
Quoted(t, p) == Cardinality({q \in 1 .. p - 1 : t[q] = Quote}) % 2 = 1
Spaced(t) == {InsertAt(t, p, Space) : p \in {q \in 1 .. Len(t) + 1 : ~Quoted(t, q)}}
Shortened == {RemoveAt(Simple, p) : p \in DOMAIN Simple}
Others ==
    {<<>>, <<Space>>, <<"1">>, Str("a"), Str(Space), Arr(<<Simple>>), Simple \o Simple, Append(Simple, "1"),
     Append(Simple, Nul), Listed(<<Str(Space), Str("a")>>), Arr(<<Mem("fee", Str("1"))>>), <<"1">> \o Simple, Obj(<<>>), Obj(<<<<"a">>>>),
     Tx(Arr([k \in 1 .. 7 |-> Send("1")])),
     Tx(Arr(<<Obj(<<Str("a") \o Str("b")>>)>>)), Tx(Arr(<<Mem("a", Str("b"))>>))}

AllTexts ==
    Regular \cup Irregular \cup Disordered \cup Spaced(Deep) \cup Shortened \cup Others

MCStrings == {""} \cup (UNION {Range(t) : t \in AllTexts})
MCRank ==
    LET order == <<"a", "account_number", "amount", "b", "chain_id", "denom", "fee", "gas", "inputs",
                   "long", "memo", "msgs", "one", "outputs", "sequence", "signers", "to", "type", "value">>
        others == <<"", Quote, Space, Nul, ",", ":", "{", "}", "[", "]", "1", "2", "3", "4", "5", "7", "9",
                    "alice", "c", "free", "hub", "own", "send", "uatom">>
        all == order \o others
    IN  [s \in MCStrings |-> CHOOSE i \in DOMAIN all : all[i] = s]
SpacedTexts == Spaced(Deep)
=============================================================================
