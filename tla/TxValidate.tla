----------------------------- MODULE TxValidate -----------------------------
(***************************************************************************)
(* Parsing and validating a JSON transaction: _read_json_tx and            *)
(* tx_validate, which call the walkers of JsonScan one after the other.    *)
(* dictionaries_sorted goes through the objects of the document and in     *)
(* each through its names; then the required members are looked up.        *)
(***************************************************************************)
EXTENDS JsonScan, JsonText

CONSTANTS Inputs,     \* contents of the transaction buffer
          Rank,       \* order of the strings (strcmp)
          TooLong     \* those of 256 bytes and more

required == <<"chain_id", "sequence", "fee", "msgs", "account_number", "memo">>

\* strcmp finds no two strings equal that differ.
ASSUME InputsAssumption ==
    /\ \A t \in Inputs : t \in Seq(Strings)
    /\ \A k \in DOMAIN required : required[k] \in Strings
    /\ Rank \in [Strings -> Nat] /\ TooLong \subseteq Strings
    /\ \A a, b \in Strings : Rank[a] = Rank[b] => a = b

missing == <<"parser_json_missing_chain_id", "parser_json_missing_sequence",
             "parser_json_missing_fee", "parser_json_missing_msgs",
             "parser_json_missing_account_number", "parser_json_missing_memo">>

VARIABLES
    text,       \* the text in the transaction buffer
    phase,      \* what is being done with it
    err,        \* why it was rejected
    jsmn,       \* the tokenizer
    obj,        \* dictionaries_sorted: the token it has come to,
    elem,       \*   the member of that object,
    count,      \*   the number of its members,
    prevName,   \*   and the name of the member before
    field       \* the required member looked up

validateVars == <<text, phase, err, jsmn, obj, elem, count, prevName, field>>

ValidateInit ==
    /\ ScanInit
    /\ text \in Inputs
    /\ phase = "parse" /\ err = "none"
    /\ jsmn = jsmn_init
    /\ obj = 0 /\ elem = 0 /\ count = 0 /\ prevName = 0 /\ field = 1

Reject(e) == phase' = "rejected" /\ err' = e
GoOn(p) == phase' = p /\ UNCHANGED err

----------------------------------------------------------------------------
(* _read_json_tx, and the checks of tx_validate on the text                *)

\* A text with a zero byte is refused before it is read.
Readable == jsmn.err = "none" /\ jsmn.pos < Len(text) /\ Nul \notin Range(text)

ReadCharacter ==
    /\ phase = "parse" /\ Readable
    /\ jsmn' = [jsmn_read(jsmn, buffer(text, jsmn.pos)) EXCEPT !.pos = @ + 1]
    /\ UNCHANGED scanVars
    /\ UNCHANGED <<text, phase, err, obj, elem, count, prevName, field>>

Parse ==
    /\ phase = "parse" /\ ~Readable
    /\ jsmn' = jsmn_end(jsmn)
    /\ LET r == json_parse(text, jsmn') IN
       IF r.err = "parser_ok" THEN Load(r.json) /\ GoOn("text")
       ELSE UNCHANGED scanVars /\ Reject(r.err)
    /\ UNCHANGED <<text, obj, elem, count, prevName, field>>

\* An object at the top must be the whole text.
WholeTextFromStart ==   \* a fault: what follows the object is not looked at
    json.tokens[0].type = "JSMN_OBJECT" => json.tokens[0].start = 0
WholeText ==
    json.tokens[0].type = "JSMN_OBJECT" =>
        json.tokens[0].start = 0 /\ json.tokens[0].end = Len(text)

\* The positions inspected: what lies before a token, from one past the end of
\* the token before it in the list, and what lies between the last token and
\* the end of the first.
Inspected ==
    LET Past(i) == IF i = 0 THEN 0 ELSE json.tokens[i].end + 1
        last == json.numberOfTokens - 1
    IN  (UNION {Past(i - 1) .. json.tokens[i].start - 1 : i \in 1 .. last})
            \cup (Past(last) .. json.tokens[0].end - 1)

contains_whitespace ==
    \E p \in Inspected : p < Len(text) /\ buffer(text, p) = Space

CheckText ==
    /\ phase = "text"
    /\ IF ~WholeText THEN Reject("parser_unexpected_characters")
       ELSE IF contains_whitespace THEN Reject("parser_json_contains_whitespace")
       ELSE GoOn("object")
    /\ UNCHANGED scanVars
    /\ UNCHANGED <<text, jsmn, obj, elem, count, prevName, field>>

----------------------------------------------------------------------------
(* dictionaries_sorted                                                     *)

is_sortedTwo(i, j) ==   \* a fault: any name not greater passes for a repeated one
    IF Rank[token(i).text] < Rank[token(j).text] THEN 1 ELSE -1
is_sorted(i, j) ==
    LET a == token(i).text
        b == token(j).text
    IN  CASE a \in TooLong \/ b \in TooLong -> 0
          [] Rank[a] < Rank[b] -> 1
          [] Rank[a] = Rank[b] -> -1
          [] OTHER -> 0

NextObject == obj' = obj + 1 /\ GoOn("object")

NoMoreObjects ==
    /\ phase = "object" /\ call = Idle /\ obj = json.numberOfTokens
    /\ GoOn("field")
    /\ UNCHANGED scanVars
    /\ UNCHANGED <<text, jsmn, obj, elem, count, prevName, field>>

VisitToken ==
    /\ phase = "object" /\ call = Idle /\ obj < json.numberOfTokens
    /\ IF token(obj).type # "JSMN_OBJECT" THEN NextObject /\ UNCHANGED scanVars
       ELSE /\ Call("object_get_element_count", obj, 0, "")
            /\ GoOn("count") /\ UNCHANGED obj
    /\ UNCHANGED <<text, jsmn, elem, count, prevName, field>>

CountMembers ==
    /\ phase = "count" /\ call = Idle
    /\ count' = result.value
    /\ IF result.value > 1
       THEN /\ Call("object_get_nth_key", obj, 0, "")
            /\ GoOn("first") /\ UNCHANGED obj
       ELSE NextObject /\ UNCHANGED scanVars
    /\ UNCHANGED <<text, jsmn, elem, prevName, field>>

\* From the member just read to the next one; its name is kept.
NextMember(n) ==
    /\ prevName' = result.value
    /\ elem' = n
    /\ IF n < count
       THEN /\ Call("object_get_nth_key", obj, n, "")
            /\ GoOn("next") /\ UNCHANGED obj
       ELSE NextObject /\ UNCHANGED scanVars

\* object_get_nth_key failing is an unexpected value.
FirstName ==
    /\ phase = "first" /\ call = Idle
    /\ IF result.err = "parser_ok" THEN NextMember(1)
       ELSE /\ Reject("parser_unexpected_value")
            /\ UNCHANGED scanVars /\ UNCHANGED <<obj, elem, prevName>>
    /\ UNCHANGED <<text, jsmn, count, field>>

NextName ==
    /\ phase = "next" /\ call = Idle
    /\ LET order == is_sorted(prevName, result.value) IN
       IF result.err = "parser_ok" /\ order = 1 THEN NextMember(elem + 1)
       ELSE /\ Reject(CASE result.err # "parser_ok" -> "parser_unexpected_value"
                        [] order = -1 -> "parser_duplicated_field"
                        [] OTHER -> "parser_json_is_not_sorted")
            /\ UNCHANGED scanVars /\ UNCHANGED <<obj, elem, prevName>>
    /\ UNCHANGED <<text, jsmn, count, field>>

----------------------------------------------------------------------------
(* The required members                                                    *)

LookUp ==
    /\ phase = "field" /\ call = Idle
    /\ Call("object_get_value", 0, 0, required[field])
    /\ GoOn("lookup")
    /\ UNCHANGED <<text, jsmn, obj, elem, count, prevName, field>>

LookedUp ==
    /\ phase = "lookup" /\ call = Idle
    /\ IF result.err # "parser_ok" THEN Reject(missing[field]) /\ UNCHANGED field
       ELSE IF field < Len(required) THEN GoOn("field") /\ field' = field + 1
       ELSE GoOn("accepted") /\ UNCHANGED field
    /\ UNCHANGED scanVars
    /\ UNCHANGED <<text, jsmn, obj, elem, count, prevName>>

ValidateNext ==
    \/ ReadCharacter \/ Parse \/ CheckText
    \/ NoMoreObjects \/ VisitToken \/ CountMembers \/ FirstName \/ NextName
    \/ LookUp \/ LookedUp
    \/ ScanStep /\ UNCHANGED validateVars

----------------------------------------------------------------------------
(* What validation promises                                                *)

Validating == {"parse", "text", "object", "count", "first", "next", "field", "lookup"}

ValidateTypeOK ==
    /\ json.numberOfTokens \in 0 .. MaxTokens
    /\ phase = "text" => json \in ListsOf(json.numberOfTokens)
    /\ Len(jsmn.toks) <= MaxTokens /\ jsmn.pos \in 0 .. Len(text)
    /\ call = Idle \/ call \in Calls
    /\ result = NoResult \/ result \in Results
    /\ {token_index, prev_element_end, element_count, obj, elem, count, prevName} \subseteq Nat
    /\ obj <= json.numberOfTokens
    /\ field \in DOMAIN required

NameOf(i) == json.tokens[i].text
Names(c) == {NameOf(i) : i \in Members(json, c)}
Objects == {c \in DOMAIN json.tokens : json.tokens[c].type = "JSMN_OBJECT"}

\* Whitespace goes unseen between a token and the first token inside it, and
\* right behind a token that encloses none.
Unseen ==
    {p \in 0 .. Len(text) - 1 :
        \E i \in 1 .. json.numberOfTokens - 1 :
            /\ p \in json.tokens[i].start .. json.tokens[i].end
            /\ \A j \in i + 1 .. json.numberOfTokens - 1 : json.tokens[j].start > p}

\* Whitespace outside strings.
InString(p) ==
    \E i \in DOMAIN json.tokens :
        json.tokens[i].type = "JSMN_STRING" /\ p \in json.tokens[i].start .. json.tokens[i].end - 1
Spaces == {p \in 0 .. Len(text) - 1 : buffer(text, p) = Space /\ ~InString(p)}

InOrder(c) ==
    \A i, j \in Members(json, c) : i < j => Rank[NameOf(i)] < Rank[NameOf(j)]
Has(name) == 0 \in Objects /\ name \in Names(0)
Complete == \A k \in DOMAIN required : Has(required[k])

\* A JSON text that tx_validate accepts is one object and nothing else, every
\* object in it has its names in strictly ascending order, so none twice, it has
\* the six required members, and whitespace only where tx_validate.c:63 to :83
\* does not look.
AcceptedIsValid ==
    phase = "accepted" /\ IsJson(json) =>
        /\ 0 \in Objects /\ json.tokens[0].start = 0 /\ json.tokens[0].end = Len(text)
        /\ \A c \in Objects : InOrder(c)
        /\ Complete
        /\ Spaces \subseteq Unseen

\* A rejected JSON text gives cause for it, the cause the error names: an order
\* error is never reported for a sorted text, a repeated name is reported as
\* such only if there is one, a member is missing if it is reported missing
\* (tx_validate.c:162 to :241).  A complete canonical text is never rejected.
\* In a text that begins with a string the spaces of the string count (:78).
RejectedWithCause ==
    phase = "rejected" /\ json.numberOfTokens > 0 /\ IsJson(json) =>
        CASE err = "parser_unexpected_characters" -> json.tokens[0].end < Len(text) \/ json.tokens[0].start > 0
          [] err = "parser_json_contains_whitespace" ->
                Spaces # {} \/ json.tokens[0].type = "JSMN_STRING"
          [] err = "parser_duplicated_field" ->
                \E c \in Objects : \E i, j \in Members(json, c) : i # j /\ NameOf(i) = NameOf(j)
          [] err = "parser_json_is_not_sorted" ->
                \E c \in Objects : ~InOrder(c) \/ Names(c) \cap TooLong # {}
          [] OTHER -> \E k \in DOMAIN required : err = missing[k] /\ ~Has(required[k])

\* docs/TXSPEC.md:76: "No spaces or newlines can be included, other than escaped
\* in strings".
NoSpacesAccepted == phase = "accepted" => Spaces = {}
=============================================================================
