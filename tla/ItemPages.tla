----------------------------- MODULE ItemPages -----------------------------
(***************************************************************************)
(* What parser_getItem puts on one page: the pages of a text, of a list of *)
(* coins (parser.c) and of a screen of a textual transaction (parser.c,    *)
(* cbor_parser_helper.c).  A text is a sequence of characters and a buffer *)
(* of n bytes holds n - 1 of them; the sizes of the code are constants, so *)
(* that TLC can meet every limit with short texts.                         *)
(*                                                                         *)
(* pageString and z_str3join belong to zxlib and are modelled from how     *)
(* parser.c, tx_parser.c and the paging loop of tests/common.cpp use them. *)
(***************************************************************************)
EXTENDS Integers, Sequences, SequencesExt, TLC

CONSTANTS
    Chars,                            \* characters, "half" one that is cut short,
                                      \* "nul" the end of a C string
    Wide,                             \* characters shown as code points, and how
    UINT8_MAX,
    OUTPUT_HANDLER_SIZE, MAX_CONTENT_SIZE, MAX_TITLE_SIZE,
    PRINTABLE_TITLE_SIZE, PRINTABLE_PAGINATED_TITLE_SIZE,
    FORMATTED_AMOUNT_BUFFER_SIZE, COIN_DENOM_MAXSIZE, COIN_AMOUNT_MAXSIZE,
    DefaultDenom, Ticker,             \* COIN_DEFAULT_DENOM_BASE, COIN_DEFAULT_DENOM_REPR
    Decimal                           \* amounts of the default coin, and how they are shown

Text == Seq(Chars)

ASSUME SizeAssumption ==
    /\ {UINT8_MAX, OUTPUT_HANDLER_SIZE, MAX_CONTENT_SIZE, MAX_TITLE_SIZE,
        PRINTABLE_TITLE_SIZE, PRINTABLE_PAGINATED_TITLE_SIZE, FORMATTED_AMOUNT_BUFFER_SIZE,
        COIN_DENOM_MAXSIZE, COIN_AMOUNT_MAXSIZE} \subseteq Nat
    /\ MAX_TITLE_SIZE > 1 /\ UINT8_MAX > 0
    /\ MAX_TITLE_SIZE + 2 <= OUTPUT_HANDLER_SIZE
    /\ PRINTABLE_PAGINATED_TITLE_SIZE <= PRINTABLE_TITLE_SIZE
    /\ PRINTABLE_TITLE_SIZE <= MAX_TITLE_SIZE
    /\ 2 * MAX_TITLE_SIZE <= UINT8_MAX
    \* A byte counts the pages of a coin and of a screen.
    /\ FORMATTED_AMOUNT_BUFFER_SIZE <= UINT8_MAX * (MAX_TITLE_SIZE - 1)
    /\ OUTPUT_HANDLER_SIZE <= UINT8_MAX * (MAX_TITLE_SIZE - 1)

\* A default amount and its unit fit the buffer in which coins are formatted.
ASSUME DecimalAssumption ==
    /\ Ticker \in Text
    /\ \A a \in DOMAIN Decimal :
        /\ Decimal[a] \in Text
        /\ Len(Decimal[a]) + Len(Ticker) + 1 < FORMATTED_AMOUNT_BUFFER_SIZE

uint8(n) == n % (UINT8_MAX + 1)

\* What a call leaves: the title and the text of the page, and how many pages.
Page(k, v, n) == [err |-> "parser_ok", key |-> k, val |-> v, pageCount |-> n]
Error(e) == [err |-> e, key |-> <<>>, val |-> <<>>, pageCount |-> 0]

----------------------------------------------------------------------------
(* zxlib                                                                   *)

Bytes(s, first, last) == SubSeq(s, first, IF last < Len(s) THEN last ELSE Len(s))
PagesOf(s, outValLen) == (Len(s) + outValLen - 2) \div (outValLen - 1)
pageStringFull(s, outValLen, pageIdx) ==   \* a fault: no room for the end of the string
    Bytes(s, pageIdx * (outValLen - 1) + 1, pageIdx * (outValLen - 1) + outValLen)
pageString(s, outValLen, pageIdx) ==
    Bytes(s, pageIdx * (outValLen - 1) + 1, (pageIdx + 1) * (outValLen - 1))

\* What a C string of these bytes says: up to the first NUL.
NUL == "nul"
strlen(s) == Cardinality({n \in DOMAIN s : NUL \notin {s[i] : i \in 1 .. n}})
CString(s) == Bytes(s, 1, strlen(s))

\* A mark is put before the text as long as the buffer has room for it.
SCREEN_INDENT == ">"
Marks(n) == [i \in 1 .. n |-> SCREEN_INDENT]
Indented(s, indent, size) ==
    Marks(CHOOSE n \in 0 .. indent :
            \/ n = indent /\ n + Len(s) < size
            \/ n + Len(s) = size - 1) \o s

----------------------------------------------------------------------------
(* Amounts                                                                 *)

\* An element of an amount: its type and the tokens after it, of which those
\* that are its own elements (array_get_element_count) are marked.
InnerToken == [type : {"JSMN_STRING", "JSMN_PRIMITIVE", "JSMN_ARRAY"}, text : Text,
               own : BOOLEAN]
AmountElement ==
    [type : {"JSMN_OBJECT", "JSMN_STRING", "JSMN_PRIMITIVE", "JSMN_ARRAY"},
     tokens : Seq(InnerToken)]
AmountValue ==   \* a list of coins, or one coin
    [array : {TRUE}, elements : Seq(AmountElement)]
    \cup [array : {FALSE}, elements : [1 .. 1 -> AmountElement]]
AMOUNT_OBJECT_TOKEN_COUNT == 4
Own(e) == {i \in DOMAIN e.tokens : e.tokens[i].own}
parser_areEqual(t, text) == t.type = "JSMN_STRING" /\ t.text = text
AmountName == <<"amount">>
DenomName == <<"denom">>

is_default_denom_base(denom, plain) == plain /\ denom = DefaultDenom

\* The text of a coin; plain is the normal view of the default chain.
FormatCoin(amount, denom, plain) ==
    IF is_default_denom_base(denom, plain)
    THEN Decimal[amount] \o <<" ">> \o Ticker
    ELSE amount \o <<" ">> \o denom

parser_formatAmountItem(e, plain, outValLen, pageIdx) ==
    LET amount == e.tokens[2].text
        denom == e.tokens[4].text
        text == FormatCoin(amount, denom, plain)
    IN  IF Own(e) = {} THEN Page(<<>>, <<"Empty">>, 1)
        ELSE IF \/ Cardinality(Own(e)) # AMOUNT_OBJECT_TOKEN_COUNT
                \/ e.type # "JSMN_OBJECT"
                \/ ~parser_areEqual(e.tokens[1], AmountName)
                \/ ~parser_areEqual(e.tokens[3], DenomName)
        THEN Error("parser_unexpected_field")
        ELSE IF \/ Len(denom) = 0 \/ Len(denom) >= COIN_DENOM_MAXSIZE
                \/ Len(amount) = 0 \/ Len(amount) >= COIN_AMOUNT_MAXSIZE
                \/ is_default_denom_base(denom, plain) /\ amount \notin DOMAIN Decimal
        THEN Error("parser_unexpected_error")
        ELSE IF Len(amount) + Len(denom) + 2 > FORMATTED_AMOUNT_BUFFER_SIZE
        THEN Error("parser_unexpected_buffer_end")
        ELSE Page(<<>>, pageString(text, outValLen, pageIdx), uint8(PagesOf(text, outValLen)))

\* One pass of the loop over the coins: the pages so far, the coin asked for
\* once it is known, and the page asked for, counted from the coin at hand.
CountCoinWraps(e, i, plain, outValLen, loop) ==   \* a fault: the sum overflows
    LET item == parser_formatAmountItem(e, plain, outValLen, 0)
        total == uint8(loop.totalPages + item.pageCount)
    IN  IF loop.err # "parser_ok" THEN loop
        ELSE IF item.err # "parser_ok" THEN [loop EXCEPT !.err = item.err]
        ELSE IF loop.showItem = 0 /\ loop.showPageIdx < item.pageCount
        THEN [loop EXCEPT !.totalPages = total, !.showItem = i]
        ELSE [loop EXCEPT !.totalPages = total,
                          !.showPageIdx = IF loop.showItem = 0 THEN @ - item.pageCount ELSE @]
CountCoin(e, i, plain, outValLen, loop) ==
    LET item == parser_formatAmountItem(e, plain, outValLen, 0)
        subpagesCount == item.pageCount
    IN  IF loop.err # "parser_ok" THEN loop
        ELSE IF item.err # "parser_ok" THEN [loop EXCEPT !.err = item.err]
        ELSE IF loop.totalPages > UINT8_MAX - subpagesCount
        THEN [loop EXCEPT !.err = "parser_value_out_of_range"]
        ELSE IF loop.showItem = 0 /\ loop.showPageIdx < subpagesCount
        THEN [loop EXCEPT !.totalPages = @ + subpagesCount, !.showItem = i]
        ELSE [loop EXCEPT !.totalPages = @ + subpagesCount,
                          !.showPageIdx = IF loop.showItem = 0 THEN @ - subpagesCount ELSE @]

\* What the loop has counted after each coin.
CountCoins(coins, plain, outValLen, pageIdx) ==
    LET count[i \in 0 .. Len(coins)] ==
            IF i = 0 THEN [err |-> "parser_ok", totalPages |-> 0, showItem |-> 0,
                           showPageIdx |-> pageIdx]
            ELSE CountCoin(coins[i], i, plain, outValLen, count[i - 1])
    IN  count

parser_formatAmount(value, plain, outValLen, pageIdx) ==
    LET coins == value.elements
        loop == CountCoins(coins, plain, outValLen, pageIdx)[Len(coins)]
        shown == parser_formatAmountItem(coins[loop.showItem], plain, outValLen, loop.showPageIdx)
    IN  IF ~value.array THEN parser_formatAmountItem(coins[1], plain, outValLen, pageIdx)
        ELSE IF loop.err # "parser_ok" THEN Error(loop.err)
        ELSE IF pageIdx > loop.totalPages THEN Error("parser_unexpected_value")
        ELSE IF loop.totalPages = 0 THEN Page(<<>>, <<"Empty">>, 1)
        \* The token of index 0, the document, is tried as a coin.
        ELSE IF loop.showItem = 0 THEN Error("parser_unexpected_field")
        ELSE [shown EXCEPT !.pageCount = IF shown.err = "parser_ok" THEN loop.totalPages ELSE 0]

----------------------------------------------------------------------------
(* Screens of a textual transaction                                        *)

\* ascii_substitutions: what follows the backslash.
Substitution == [c \in {"nl", "tab", "\\"} |-> IF c = "nl" THEN "n" ELSE IF c = "tab" THEN "t" ELSE c]
Shown(c) ==
    IF c \in DOMAIN Substitution THEN <<"\\", Substitution[c]>>
    ELSE IF c \in DOMAIN Wide THEN Wide[c] ELSE <<c>>

\* A code point is written \xNN, \uNNNN or \UNNNNNNNN: none of these begins with
\* another, nor with a substitution.
ASSUME WideAssumption ==
    /\ Wide \in [DOMAIN Wide -> Text] /\ NUL \in DOMAIN Wide
    /\ \A c \in DOMAIN Wide :
        /\ Len(Wide[c]) > 2 /\ Wide[c][1] = "\\"
        /\ \A b \in DOMAIN Substitution : Wide[c][2] # Substitution[b]
        /\ \A d \in DOMAIN Wide : IsPrefix(Wide[c], Wide[d]) => c = d

EndMarkBlank(src) == IF Last(src) = " " THEN <<"@">> ELSE <<>>  \* a fault: not for "@"
EndMark(src) == IF Last(src) \in {" ", "@"} THEN <<"@">> ELSE <<>>

\* The text the user reads for src, if it fits a buffer of dstLen bytes.
tx_display_translation(src, dstLen) ==
    LET out == FlattenSeq([i \in DOMAIN src |-> Shown(src[i])]) \o EndMark(src)
    IN  IF src = <<>> THEN [err |-> "parser_ok", text |-> <<>>]
        ELSE IF Last(src) = "half" THEN [err |-> "parser_unexpected_characters", text |-> <<>>]
        ELSE IF Len(out) >= dstLen THEN [err |-> "parser_transaction_too_big", text |-> <<>>]
        ELSE [err |-> "parser_ok", text |-> out]

\* A CBOR value, and a field of a map.
Value == [kind : {"int"}, n : Int] \cup [kind : {"bool"}, b : BOOLEAN]
            \cup [kind : {"text"}, s : Text] \cup [kind : {"other"}]
Field == [key : Value, value : Value]
Key(k) == [kind |-> "int", n |-> k]
TITLE_KEY_ID == Key(1)
CONTENT_KEY_ID == Key(2)
INDENT_KEY_ID == Key(3)
EXPERT_KEY_ID == Key(4)

\* screen_arg_t; a screen without a title has the empty title.
NoScreen == [err |-> "parser_ok", title |-> <<>>, content |-> <<>>, indent |-> 0, expert |-> FALSE]
Refuse(c, e) == [c EXCEPT !.err = e]

OptField(c, f) ==
    IF f.key.kind # "int" THEN Refuse(c, "parser_unexpected_type")
    ELSE IF f.key = INDENT_KEY_ID
    THEN IF f.value.kind # "int" THEN Refuse(c, "parser_unexpected_type")
         ELSE IF f.value.n \notin 0 .. UINT8_MAX THEN Refuse(c, "parser_unexpected_value")
         ELSE [c EXCEPT !.indent = f.value.n]
    ELSE IF f.key = EXPERT_KEY_ID
    THEN IF f.value.kind # "bool" THEN Refuse(c, "parser_unexpected_type")
         ELSE [c EXCEPT !.expert = f.value.b]
    ELSE [c EXCEPT !.indent = 0, !.expert = FALSE]

cbor_check_optFields(c, fields) ==
    LET read[i \in 0 .. Len(fields)] ==
            IF i = 0 THEN c
            ELSE IF read[i - 1].err # "parser_ok" THEN read[i - 1]
            ELSE OptField(read[i - 1], fields[i])
    IN  read[Len(fields)]

Titled(fields) == fields[1].key = TITLE_KEY_ID
cbor_check_screen(fields) ==
    LET at == IF Titled(fields) THEN 2 ELSE 1     \* the field that must be the content
        IsText(i) == fields[i].value.kind = "text"
        Fits(i) == Len(fields[i].value.s) <= MAX_CONTENT_SIZE
    IN  IF \/ fields[1].key.kind # "int"
           \/ ~Titled(fields) /\ fields[1].key # CONTENT_KEY_ID
        THEN Refuse(NoScreen, "parser_unexpected_type")
        ELSE IF ~IsText(1) THEN Refuse(NoScreen, "parser_context_mismatch")
        ELSE IF ~Fits(1) THEN Refuse(NoScreen, "parser_unexpected_value")
        ELSE IF at > Len(fields) \/ (at = 2 /\ fields[2].key # CONTENT_KEY_ID)
        THEN Refuse(NoScreen, "parser_unexpected_type")
        ELSE IF ~IsText(at) THEN Refuse(NoScreen, "parser_context_mismatch")
        ELSE IF ~Fits(at) THEN Refuse(NoScreen, "parser_unexpected_value")
        ELSE [NoScreen EXCEPT !.title = IF at = 2 THEN fields[1].value.s ELSE <<>>,
                              !.content = fields[at].value.s]

\* Two fields are counted for the text, whether the screen has a title or not.
cbor_get_containerInfoShort(fields) ==   \* a fault: a content is taken for a title
    LET c == cbor_check_screen(fields)
    IN  IF c.err # "parser_ok" \/ Len(fields) <= 2 THEN c
        ELSE cbor_check_optFields(c, SubSeq(fields, 3, Len(fields)))
cbor_get_containerInfo(fields) ==
    LET c == cbor_check_screen(fields)
        read == IF Titled(fields) THEN 2 ELSE 1
    IN  IF c.err # "parser_ok" \/ Len(fields) <= 2 THEN c
        ELSE cbor_check_optFields(c, SubSeq(fields, read + 1, read + Len(fields) - 2))

cbor_check_expert(fields) ==
    IF Len(fields) > 1 THEN cbor_check_optFields(NoScreen, fields) ELSE NoScreen

TruncatedLate(titleLen, text, outValLen) ==   \* a fault: a text of one byte too many
    \/ titleLen > PRINTABLE_TITLE_SIZE
    \/ Len(text) > outValLen /\ titleLen > PRINTABLE_PAGINATED_TITLE_SIZE
\* A title moves to the text when it would be cut.
Truncated(titleLen, text, outValLen) ==
    \/ titleLen > PRINTABLE_TITLE_SIZE
    \/ Len(text) >= outValLen /\ titleLen > PRINTABLE_PAGINATED_TITLE_SIZE

TITLE_TRUNCATE_REPLACE == <<"-", "-", "-">>

parser_screenPrint(c, outKeyLen, outValLen, pageIdx) ==
    LET out == tx_display_translation(c.content, OUTPUT_HANDLER_SIZE)
        titleLen == uint8(Len(c.title) + c.indent)
        key(t) == Indented(t, c.indent, MAX_TITLE_SIZE + 2)
        \* The title is copied as it was sent: a NUL in it ends what follows, too.
        tmp == IF strlen(c.title) < Len(c.title) THEN CString(c.title)
               ELSE c.title \o <<":", " ">> \o
                    Bytes(out.text, 1, OUTPUT_HANDLER_SIZE - Len(c.title) - 2)
        Screen(k, text) ==
            Page(Bytes(k, 1, outKeyLen - 1), pageString(text, outValLen, pageIdx),
                 uint8(PagesOf(text, outValLen)))
    IN  IF Len(c.title) > MAX_TITLE_SIZE \/ Len(c.content) > MAX_CONTENT_SIZE
        THEN Error("parser_unexpected_value")
        ELSE IF out.err # "parser_ok" THEN Error(out.err)
        ELSE IF c.title = <<>>
        THEN Screen(<<" ">>, Indented(out.text, c.indent, OUTPUT_HANDLER_SIZE))
        ELSE IF Truncated(titleLen, out.text, outValLen)
        THEN Screen(key(TITLE_TRUNCATE_REPLACE), tmp)
        ELSE Screen(key(CString(c.title)), out.text)

ChainTitle == <<"Chain id">>
parser_getTextualItem(screens, displayIdx, outKeyLen, outValLen, pageIdx) ==
    LET c == cbor_get_containerInfo(screens[displayIdx])
    IN  IF screens = <<>> THEN Error("parser_unexpected_number_items")
        ELSE IF displayIdx > Len(screens) THEN Error("parser_display_idx_out_of_range")
        ELSE IF c.err # "parser_ok" THEN Error(c.err)
        ELSE IF c.title = ChainTitle /\ c.content \in {<<"0">>, <<"1">>}
        THEN Error("parser_unexpected_chain")
        ELSE parser_screenPrint(c, outKeyLen, outValLen, pageIdx)

\* The envelope says which of the conditions on the outer map hold.
_read_text_tx(envelope, screens) ==
    IF ~(envelope.map /\ envelope.screen_key /\ envelope.array) THEN "parser_unexpected_type"
    ELSE IF Len(screens) \notin 1 .. UINT8_MAX THEN "parser_unexpected_number_items"
    ELSE LET refused == {i \in DOMAIN screens :
                            \/ Len(screens[i]) \notin 1 .. 4
                            \/ cbor_check_expert(screens[i]).err # "parser_ok"}
         IN  IF refused # {} THEN "parser_unexpected_value"
             ELSE IF envelope.rest THEN "parser_cbor_unexpected_EOF" ELSE "parser_ok"
=============================================================================
