------------------------------ MODULE TxPages ------------------------------
(***************************************************************************)
(* The review of a transaction, JSON or textual: parser_parse reads it,    *)
(* parser_validate gets the first page of every item with its own small    *)
(* buffers, and the user then turns the pages, which the screen asks for   *)
(* with buffers of other sizes (parser.c).  The paging loop is zxlib's; it *)
(* is the one of tests/common.cpp and fuzz/parser_parse.cpp.               *)
(*                                                                         *)
(* The items of a JSON transaction are those TxDisplay finds.  The address *)
(* a command asks to confirm is shown on pages of the same kind (addr.c).  *)
(***************************************************************************)
EXTENDS ItemPages

CONSTANTS
    Documents,   \* transactions, and addresses to confirm
    Views        \* buffers of the screen: [key, val] sizes

\* The value of an item is a list of coins or a coin where parser_isAmount
\* holds of its key, and a text otherwise.
JsonItem ==
    [key : Text, isAmount : {TRUE}, value : AmountValue]
    \cup [key : Text, isAmount : {FALSE}, text : Text]

\* Transactions as the device may receive them.
ASSUME DocumentsAssumption ==
    \A d \in Documents :
        \/ d.tx_type = "tx_json" /\ d.plain \in BOOLEAN /\ d.items \in Seq(JsonItem)
        \/ d.tx_type = "tx_textual" /\ d.screens \in Seq(Seq(Field))
        \/ /\ d.tx_type = "address" /\ d.expert \in BOOLEAN /\ d.eth \in BOOLEAN
           /\ d.address \in Text /\ d.path \in Text
           \* A byte counts the pages of what fits their buffers.
           /\ Len(d.address) <= UINT8_MAX * (MAX_TITLE_SIZE - 1)
           /\ Len(d.path) <= UINT8_MAX * (MAX_TITLE_SIZE - 1)

VARIABLES
    tx,          \* the transaction or the address
    phase,       \* none, validating, review, done, refused, failed
    view,        \* the buffers of the review
    displayIdx,  \* the item at hand, from 1
    pageIdx, pageCount,
    pages        \* of each item so far the pages shown: [key, val, pageCount]

vars == <<tx, phase, view, displayIdx, pageIdx, pageCount, pages>>

\* The buffers of a review are no smaller than those of the code.
ASSUME ViewAssumption ==
    /\ Views \subseteq [key : Nat, val : Nat]
    /\ \A v \in Views : v.val >= MAX_TITLE_SIZE /\ v.key >= MAX_TITLE_SIZE + 2

NoTx == [tx_type |-> "none"]

Init ==
    /\ tx = NoTx /\ phase = "none" /\ view \in Views
    /\ displayIdx = 0 /\ pageIdx = 0 /\ pageCount = 0 /\ pages = <<>>

parser_getNumItems == IF tx.tx_type = "tx_textual" THEN Len(tx.screens) ELSE Len(tx.items)

addr_getNumItemsExpert == IF tx.expert THEN 2 ELSE 1   \* a fault: coin type 60 is left out
addr_getNumItems == IF tx.expert \/ tx.eth THEN 2 ELSE 1

NumItems == IF tx.tx_type = "address" THEN addr_getNumItems ELSE parser_getNumItems

tx_getToken(s, outValLen, page) ==
    LET count == IF s = <<>> THEN 1 ELSE uint8(PagesOf(s, outValLen))
    IN  IF page >= count THEN Error("parser_display_page_out_of_range")
        ELSE Page(<<>>, pageString(s, outValLen, page), count)

parser_getJsonItem(idx, outKeyLen, outValLen, page) ==
    LET item == tx.items[idx]
        shown == IF item.isAmount
                 THEN parser_formatAmount(item.value, tx.plain, outValLen, page)
                 ELSE tx_getToken(item.text, outValLen, page)
    IN  [shown EXCEPT !.key = IF shown.err = "parser_ok"
                              THEN Bytes(item.key, 1, outKeyLen - 1) ELSE <<>>]

parser_getItem(idx, outKeyLen, outValLen, page) ==
    IF tx.tx_type = "tx_textual"
    THEN parser_getTextualItem(tx.screens, idx, outKeyLen, outValLen, page)
    ELSE parser_getJsonItem(idx, outKeyLen, outValLen, page)

addr_getItem(idx, outValLen, page) ==
    LET Shows(k, text) == Page(<<k>>, pageString(text, outValLen, page),
                               uint8(PagesOf(text, outValLen)))
    IN  IF idx = 1 THEN Shows("Address", tx.address)
        ELSE IF idx = 2 /\ (tx.expert \/ tx.eth) THEN Shows("Path", tx.path)
        ELSE Error("zxerr_no_data")

\* What the screen asks for.
Item(idx, page) ==
    IF tx.tx_type = "address" THEN addr_getItem(idx, view.val, page)
    ELSE parser_getItem(idx, view.key, view.val, page)

----------------------------------------------------------------------------
(* Parsing and validating                                                  *)

parser_parse(d) ==
    /\ phase = "none" /\ d.tx_type # "address"
    /\ tx' = d
    /\ phase' = IF /\ d.tx_type = "tx_textual"
                   /\ _read_text_tx(d.envelope, d.screens) # "parser_ok"
                THEN "refused" ELSE "validating"
    /\ displayIdx' = 1
    /\ UNCHANGED <<view, pageIdx, pageCount, pages>>

\* One pass of the loop of parser_validate, and its end.
parser_validate ==
    /\ phase = "validating" /\ displayIdx <= parser_getNumItems
    /\ IF parser_getItem(displayIdx, MAX_TITLE_SIZE, MAX_TITLE_SIZE, 0).err = "parser_ok"
       THEN displayIdx' = displayIdx + 1 /\ UNCHANGED phase
       ELSE phase' = "refused" /\ UNCHANGED displayIdx
    /\ UNCHANGED <<tx, view, pageIdx, pageCount, pages>>

ValidatedAlmost ==   \* a fault: the last item is not tried
    /\ phase = "validating" /\ displayIdx >= parser_getNumItems
    /\ phase' = "review"
    /\ displayIdx' = 1 /\ pageIdx' = 0 /\ pageCount' = 1 /\ pages' = <<<<>>>>
    /\ UNCHANGED <<tx, view>>
Validated ==
    /\ phase = "validating" /\ displayIdx > parser_getNumItems
    /\ phase' = "review"
    /\ displayIdx' = 1 /\ pageIdx' = 0 /\ pageCount' = 1 /\ pages' = <<<<>>>>
    /\ UNCHANGED <<tx, view>>

\* An address is shown as it was derived.
ShowAddress(d) ==
    /\ phase = "none" /\ d.tx_type = "address"
    /\ tx' = d /\ phase' = "review"
    /\ displayIdx' = 1 /\ pageIdx' = 0 /\ pageCount' = 1 /\ pages' = <<<<>>>>
    /\ UNCHANGED view

----------------------------------------------------------------------------
(* Turning the pages                                                       *)

NextPage ==
    /\ phase = "review" /\ displayIdx <= NumItems /\ pageIdx < pageCount
    /\ LET p == Item(displayIdx, pageIdx) IN
       IF p.err # "parser_ok"
       THEN phase' = "failed" /\ UNCHANGED <<pageIdx, pageCount, pages>>
       ELSE /\ pages' = [pages EXCEPT ![displayIdx] =
                            Append(@, [key |-> p.key, val |-> p.val, pageCount |-> p.pageCount])]
            /\ pageCount' = p.pageCount /\ pageIdx' = pageIdx + 1
            /\ UNCHANGED phase
    /\ UNCHANGED <<tx, view, displayIdx>>

NextItem ==
    /\ phase = "review" /\ displayIdx <= NumItems /\ pageIdx >= pageCount
    /\ displayIdx' = displayIdx + 1 /\ pageIdx' = 0 /\ pageCount' = 1
    /\ pages' = Append(pages, <<>>)
    /\ UNCHANGED <<tx, phase, view>>

LastItem ==
    /\ phase = "review" /\ displayIdx > NumItems
    /\ phase' = "done"
    /\ UNCHANGED <<tx, view, displayIdx, pageIdx, pageCount, pages>>

Next ==
    \/ \E d \in Documents : parser_parse(d) \/ ShowAddress(d)
    \/ parser_validate \/ Validated
    \/ NextPage \/ NextItem \/ LastItem

Spec == Init /\ [][Next]_vars

----------------------------------------------------------------------------
(* Properties                                                              *)

\* Pages are of the transaction at hand, and no page is longer than its buffer
\* (parser_getItem).
TypeOK ==
    /\ tx \in Documents \cup {NoTx} /\ view \in Views
    /\ phase \in {"none", "validating", "review", "done", "refused", "failed"}
    /\ displayIdx \in Nat /\ pageIdx \in Nat /\ pageCount \in 0 .. UINT8_MAX
    /\ \A i \in DOMAIN pages : \A j \in DOMAIN pages[i] :
        Len(pages[i][j].key) < view.key /\ Len(pages[i][j].val) < view.val

\* Whatever parser_validate accepted can be shown: no page of no item fails,
\* though the screen asks with other buffers and for other pages than the
\* validation did.
AcceptedCanBeShown == phase # "failed"

Told(i) == FlattenSeq([j \in DOMAIN pages[i] |-> pages[i][j].val])

Coin(e) == e.type = "JSMN_OBJECT" /\ Len(e.tokens) = 4 /\ \A i \in 1 .. 4 : e.tokens[i].own
CoinText(e, plain) ==
    IF e.tokens = <<>> THEN <<"Empty">>
    ELSE FormatCoin(e.tokens[2].text, e.tokens[4].text, plain)
AmountText(coins, plain) ==
    IF coins = <<>> THEN <<"Empty">>
    ELSE FlattenSeq([i \in DOMAIN coins |-> CoinText(coins[i], plain)])
ItemText(item) ==
    IF item.isAmount THEN AmountText(item.value.elements, tx.plain) ELSE item.text
CoinsOnly(coins) == \A i \in DOMAIN coins : coins[i].tokens = <<>> \/ Coin(coins[i])
Flat(item) == item.isAmount => CoinsOnly(item.value.elements)

\* The pages of an item, put one behind the other, are its text: every coin of
\* a list once and in order, none cut and none left out, however many pages the
\* coins before it take (parser_formatAmount).
AmountsShownWhole ==
    phase = "done" /\ tx.tx_type = "tx_json" =>
        \A i \in DOMAIN tx.items : Flat(tx.items[i]) => Told(i) = ItemText(tx.items[i])

\* Whoever may sign for coin type 60, or asked for details, has read the path as
\* well as the whole address before confirming it (addr_getItem).
AddressShownWhole ==
    phase = "done" /\ tx.tx_type = "address" =>
        /\ Told(1) = tx.address
        /\ tx.expert \/ tx.eth => Told(2) = tx.path

\* A screen as it was sent.
Sent(fields) ==
    LET has(k) == \E j \in DOMAIN fields : fields[j].key = k
        the(k) == fields[CHOOSE j \in DOMAIN fields : fields[j].key = k].value
    IN  [title |-> IF has(TITLE_KEY_ID) THEN the(TITLE_KEY_ID).s ELSE <<>>,
         content |-> the(CONTENT_KEY_ID).s,
         indent |-> IF has(INDENT_KEY_ID) THEN the(INDENT_KEY_ID).n ELSE 0]

\* A map has each key once, and a title comes before the content; there are no
\* other keys than those of a screen.
Ordered(fields) ==
    \A j \in DOMAIN fields :
        /\ fields[j].key \in {TITLE_KEY_ID, CONTENT_KEY_ID, INDENT_KEY_ID, EXPERT_KEY_ID}
        /\ \A k \in DOMAIN fields : k < j =>
                fields[j].key \notin {fields[k].key, TITLE_KEY_ID}

\* The screen has room for its indentation, and does not end with it if it has
\* no title, as the options are then read one short.
IndentFits(fields) ==
    LET s == Sent(fields)
    IN  /\ Ordered(fields)
        /\ Titled(fields) \/ fields[Len(fields)].key # INDENT_KEY_ID
        /\ s.title # <<>> =>
            Len(TITLE_TRUNCATE_REPLACE) + s.indent < MAX_TITLE_SIZE + 2

\* The output buffer has room for the title and the content.
TextFits(fields) ==
    LET s == Sent(fields)
        n == Len(tx_display_translation(s.content, OUTPUT_HANDLER_SIZE).text)
    IN  IF s.title = <<>> THEN n + s.indent < OUTPUT_HANDLER_SIZE
        ELSE n + Len(s.title) + 2 <= OUTPUT_HANDLER_SIZE

\* The title is copied to the page as a C string.
TitleEndsOnce(fields) == NUL \notin Range(Sent(fields).title)

\* The title, all of the content and the indentation are on the pages.
ShownWhole(i) ==
    LET s == Sent(tx.screens[i])
        text == tx_display_translation(s.content, OUTPUT_HANDLER_SIZE).text
        Keyed(k) == \A j \in DOMAIN pages[i] : pages[i][j].key = Marks(s.indent) \o k
    IN  \/ s.title = <<>> /\ Told(i) = Marks(s.indent) \o text
        \/ s.title # <<>> /\ Keyed(s.title) /\ Told(i) = text
        \/ /\ s.title # <<>> /\ Keyed(TITLE_TRUNCATE_REPLACE)
           /\ Told(i) = s.title \o <<":", " ">> \o text

\* Wherever the title goes, a screen there is room for is shown whole if no NUL
\* is in its title (parser_screenPrint, cbor_get_containerInfo).
ScreensShownWhole ==
    phase = "done" /\ tx.tx_type = "tx_textual" =>
        \A i \in DOMAIN tx.screens :
            /\ IndentFits(tx.screens[i]) /\ TextFits(tx.screens[i])
            /\ TitleEndsOnce(tx.screens[i])
            => ShownWhole(i)

\* A title that stays in the key can be read there: next to the page number,
\* when the text takes several pages, it has PRINTABLE_PAGINATED_TITLE_SIZE
\* characters (parser_screenPrint).
TitlesReadable ==
    tx.tx_type = "tx_textual" =>
        \A i \in DOMAIN pages : \A j \in DOMAIN pages[i] :
            LET s == Sent(tx.screens[i])
                page == pages[i][j]
            IN  /\ s.title # <<>> /\ IndentFits(tx.screens[i])
                /\ page.key # Marks(s.indent) \o TITLE_TRUNCATE_REPLACE
                => Len(page.key) <= IF page.pageCount > 1 THEN PRINTABLE_PAGINATED_TITLE_SIZE
                                    ELSE PRINTABLE_TITLE_SIZE

TextsOf(screens) ==
    {f.value.s : f \in {g \in UNION {Range(screens[i]) : i \in DOMAIN screens} :
                           g.value.kind = "text"}}
Texts ==
    UNION {TextsOf(d.screens) : d \in {e \in Documents : e.tx_type = "tx_textual"}}

\* What the user reads tells which content was sent: two contents are never
\* shown as the same text, though characters that cannot be shown are written
\* with others that can (tx_display_translation).
ContentsDistinct ==
    phase = "validating" /\ displayIdx = 1 /\ tx.tx_type = "tx_textual" =>
        LET shown(s) == tx_display_translation(s, OUTPUT_HANDLER_SIZE)
        IN  \A c \in TextsOf(tx.screens), s \in Texts :
                shown(c).err = "parser_ok" /\ shown(s) = shown(c) => s = c
=============================================================================
