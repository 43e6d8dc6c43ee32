------------------------------ MODULE MCPages ------------------------------
(***************************************************************************)
(* Reviews of JSON transactions with an amount and a memo, and of textual  *)
(* transactions of one or two screens, with buffers small enough for short *)
(* texts to meet their limits.                                             *)
(***************************************************************************)
EXTENDS TxPages

Alphabet == {"A", "a", "1", "0", "n", "u", "nl", "\\", "@", " ", "e'", "a'", "half", "nul", "x", "amount", "denom",
             "Chain id"}
WideChars == ("e'" :> <<"\\", "u", "0", "1">>) @@ ("a'" :> <<"\\", "u", "1", "0">>)
             @@ ("nul" :> <<"\\", "x", "0", "0">>)
Small == <<"u">>
TickerText == <<"A">>
Decimals == (<<"1">> :> <<"0", "1">>) @@ (<<"1", "0">> :> <<"1">>)
ScreenViews == {[key |-> 6, val |-> 4], [key |-> 9, val |-> 7]}

----------------------------------------------------------------------------
(* JSON                                                                    *)

Str(s) == [type |-> "JSMN_STRING", text |-> s, own |-> TRUE]
Deep(t) == [t EXCEPT !.own = FALSE]
Element(ty, ts) == [type |-> ty, tokens |-> ts]
CoinOf(a, d) == Element("JSMN_OBJECT", <<Str(<<"amount">>), Str(a), Str(<<"denom">>), Str(d)>>)
Coins ==
    {CoinOf(a, d) : a \in {<<"1">>, <<"1", "0">>, <<"a">>},
                    d \in {<<"u">>, <<"n">>, <<"a", "a", "n">>}}
Odd ==
    {Element("JSMN_OBJECT", <<>>), CoinOf(<<>>, <<"u">>), CoinOf(<<"1">>, <<>>),
     CoinOf(<<"1", "1", "1", "1">>, <<"n">>), CoinOf(<<"1">>, <<"n", "n", "n", "n">>),
     CoinOf(<<"1", "1", "1">>, <<"n", "n", "n">>), Element("JSMN_STRING", <<>>),
     Element("JSMN_ARRAY", <<Str(<<"amount">>), Str(<<"1">>), Str(<<"denom">>), Str(<<"u">>)>>),
     Element("JSMN_OBJECT", <<Str(<<"amount">>), Str(<<"1">>)>>),
     Element("JSMN_OBJECT", <<Str(<<"amount">>), [Str(<<"1">>) EXCEPT !.type = "JSMN_ARRAY"],
                              Deep(Str(<<"denom">>)), Str(<<"n">>), Str(<<"a">>)>>)}
Lists ==
    {<<>>} \cup {<<c>> : c \in Coins \cup Odd}
    \cup {<<c, d>> : c, d \in Coins \cup Odd}
    \cup {[i \in 1 .. n |-> c] : n \in {3, 5, 7, 8, 9, 15, 16}, c \in Coins}
    \cup {[i \in 1 .. n |-> CoinOf(IF i = 2 THEN <<"1">> ELSE <<"a">>, <<"n">>)] : n \in 3 .. 6}
Amounts ==
    {[array |-> TRUE, elements |-> l] : l \in Lists}
    \cup {[array |-> FALSE, elements |-> <<c>>] : c \in Coins \cup Odd}
Memos == {<<>>, <<"a", "1", "n">>, <<"a", "1", "n", "u">>}
Json ==
    {[tx_type |-> "tx_json", plain |-> p,
      items |-> <<[key |-> <<"a">>, isAmount |-> TRUE, value |-> v],
                  [key |-> <<"n">>, isAmount |-> FALSE, text |-> m]>>] :
        p \in BOOLEAN, v \in Amounts, m \in Memos}

----------------------------------------------------------------------------
(* Textual                                                                 *)

IntOf(n) == [kind |-> "int", n |-> n]
Bool(b) == [kind |-> "bool", b |-> b]
String(s) == [kind |-> "text", s |-> s]
F(k, v) == [key |-> k, value |-> v]
Ts == {<<"a">>, <<"a", "1">>, <<"a", "1", "n">>, <<"a", "1", "n", "u">>,
       <<"a", "1", "n", "u", "a">>, <<>>, <<"Chain id">>,
       <<"nul">>, <<"a", "nul">>, <<"a", "1", "nul", "u">>}
Signs == {"a", "n", "nl", "\\", "@", " ", "e'", "a'", "half", "nul"}
Pairs == {<<c>> : c \in Signs} \cup {<<c, d>> : c, d \in Signs} \cup {<<"a", c, "@">> : c \in Signs}
FewCs ==
    {<<>>, <<"a">>, <<"0">>, <<"nl">>, <<"half">>, <<"a", "n", "a">>, <<"a", "n", "a", "n">>,
     <<"nl", "nl", "nl">>}
Cs == FewCs
      \cup {<<"a", "n", "a", "n", "a", "n">>, <<"a", "n", "a", "n", "a", "n", "a">>,
            <<"a", "n", "a", "n", "a", "n", "a", "n">>, <<"nl", "nl", "nl", "nl">>,
            <<"nl", "nl", "nl", "nl", "a">>, <<"nl", "nl", "nl", "a", "a", "a">>,
            <<"nl", "nl", "nl", "nl", "nl">>, <<"a", "nl", "nl", "nl", "nl", "nl">>}
Indents == {<<>>} \cup {<<F(INDENT_KEY_ID, IntOf(n))>> : n \in {0, 1, 2, 13, 15, 16, -1}}
Options ==
    Indents \cup {<<F(INDENT_KEY_ID, IntOf(1)), F(EXPERT_KEY_ID, Bool(TRUE))>>,
                  <<F(EXPERT_KEY_ID, Bool(TRUE)), F(INDENT_KEY_ID, IntOf(1))>>,
                  <<F(INDENT_KEY_ID, IntOf(1)), F(IntOf(5), IntOf(0))>>,
                  <<F(INDENT_KEY_ID, Bool(TRUE))>>, <<F(EXPERT_KEY_ID, IntOf(1))>>,
                  <<F(Bool(TRUE), IntOf(1))>>}
FewOptions == {<<>>, <<F(INDENT_KEY_ID, IntOf(1))>>}
Contented(s) == F(CONTENT_KEY_ID, String(s))
Screens ==
    {<<F(TITLE_KEY_ID, String(t)), Contented(c)>> \o o : t \in Ts, c \in Cs, o \in FewOptions}
    \cup {<<F(TITLE_KEY_ID, String(t)), Contented(c)>> \o o : t \in Ts, c \in FewCs, o \in Options}
    \cup {<<Contented(c)>> \o o : c \in FewCs, o \in Options}
    \cup {<<Contented(c)>> : c \in Pairs}
Broken ==
    {<<F(TITLE_KEY_ID, IntOf(1)), Contented(<<"a">>)>>, <<F(TITLE_KEY_ID, String(<<"a">>))>>,
     <<F(CONTENT_KEY_ID, Bool(TRUE))>>, <<F(IntOf(7), String(<<"a">>)), Contented(<<"a">>)>>,
     <<F(TITLE_KEY_ID, String(<<"a">>)), F(IntOf(7), String(<<"a">>))>>, <<>>,
     <<F(Bool(TRUE), String(<<"a">>))>>,
     <<F(TITLE_KEY_ID, String(<<"a">>)), F(CONTENT_KEY_ID, IntOf(1))>>}
Good == [map |-> TRUE, screen_key |-> TRUE, array |-> TRUE, rest |-> FALSE]
Textual ==
    {[tx_type |-> "tx_textual", envelope |-> Good, screens |-> <<s>>] : s \in Screens \cup Broken}
    \cup {[tx_type |-> "tx_textual", envelope |-> Good, screens |-> <<<<Contented(<<"a">>)>>, s>>] :
            s \in Broken \cup {<<F(TITLE_KEY_ID, String(t)), Contented(c)>> : t \in Ts, c \in FewCs}}
    \cup {[tx_type |-> "tx_textual", envelope |-> Good, screens |-> [i \in 1 .. n |-> <<Contented(<<"a">>)>>]] :
            n \in {0, 15, 16}}
    \cup {[tx_type |-> "tx_textual", envelope |-> e, screens |-> <<<<Contented(<<"a">>)>>>>] :
            e \in [map : BOOLEAN, screen_key : BOOLEAN, array : BOOLEAN, rest : BOOLEAN]}

----------------------------------------------------------------------------
(* Addresses                                                               *)

AddressReviews ==
    {[tx_type |-> "address", address |-> a, path |-> <<"1", "1", "0", "1">>, expert |-> x, eth |-> e] :
        a \in {<<"a">>, <<"a", "1", "n">>, <<"a", "1", "n", "u", "1">>}, x, e \in BOOLEAN}

Transactions == Json \cup Textual \cup AddressReviews
=============================================================================
