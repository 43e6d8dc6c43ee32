------------------------------ MODULE JsonText ------------------------------
(***************************************************************************)
(* From the text of a transaction to its list of tokens: json_parse and    *)
(* the tokenizer it runs (jsmn, built without JSMN_STRICT and without      *)
(* JSMN_PARENT_LINKS).                                                     *)
(*                                                                         *)
(* A text is a sequence of characters; the body of a string and a          *)
(* primitive are one character each, whatever they say.  Positions count   *)
(* from 0, as in the code, and so do the indices of tokens.                *)
(***************************************************************************)
EXTENDS Integers, Sequences, SequencesExt

CONSTANT MaxTokens     \* MAX_NUMBER_OF_TOKENS

ASSUME MaxTokensAssumption == MaxTokens \in Nat

Quote == "\""
Space == " "           \* any of the characters of whitespaces[]
Nul == "NUL"

buffer(text, p) == text[p + 1]

\* end is -1 while a token is being read.
NewToken(type, start, string) ==
    [type |-> type, start |-> start, end |-> -1, text |-> string]

\* The tokenizer: where it is, what it has read, and an error that stops it.
jsmn_init == [pos |-> 0, toks |-> <<>>, err |-> "none"]

Unfinished(s) == {i \in DOMAIN s.toks : s.toks[i].end = -1}
Innermost(s) == CHOOSE i \in Unfinished(s) : \A j \in Unfinished(s) : j <= i
Reading(s, type) == Unfinished(s) # {} /\ s.toks[Innermost(s)].type = type

jsmn_alloc_tokenAny(s, token) ==   \* a fault: the array of tokens has no end
    [s EXCEPT !.toks = Append(@, token)]
jsmn_alloc_token(s, token) ==
    IF Len(s.toks) = MaxTokens THEN [s EXCEPT !.err = "NOMEM"]
    ELSE [s EXCEPT !.toks = Append(@, token)]

\* A closing bracket ends the innermost container that is still open.
CloseContainer(s, type, p) ==
    IF ~Reading(s, type) THEN [s EXCEPT !.err = "INVAL"]
    ELSE [s EXCEPT !.toks[Innermost(s)].end = p + 1]

EndsPrimitive == {Space, ",", "]", "}", ":"}

\* A character outside strings and primitives.
Structural(s, c, p) ==
    CASE c = "{" -> jsmn_alloc_token(s, NewToken("JSMN_OBJECT", p, ""))
      [] c = "[" -> jsmn_alloc_token(s, NewToken("JSMN_ARRAY", p, ""))
      [] c = "}" -> CloseContainer(s, "JSMN_OBJECT", p)
      [] c = "]" -> CloseContainer(s, "JSMN_ARRAY", p)
      [] c = Quote -> jsmn_alloc_token(s, NewToken("JSMN_STRING", p + 1, ""))
      [] c \in {Space, ",", ":"} -> s
      [] OTHER -> jsmn_alloc_token(s, NewToken("JSMN_PRIMITIVE", p, c))

\* One pass of the loop of jsmn_parse, or of those inside it that read a string
\* or a primitive to its end.
jsmn_read(s, c) ==
    IF Reading(s, "JSMN_STRING")
    THEN IF c = Quote THEN [s EXCEPT !.toks[Innermost(s)].end = s.pos]
         ELSE [s EXCEPT !.toks[Innermost(s)].text = c]
    ELSE IF Reading(s, "JSMN_PRIMITIVE")
    THEN IF c \in EndsPrimitive
         THEN Structural([s EXCEPT !.toks[Innermost(s)].end = s.pos], c, s.pos)
         ELSE s
    ELSE Structural(s, c, s.pos)

\* A primitive may end with the text; anything else that is open is an error.
jsmn_end(s) ==
    LET t == IF s.err = "none" /\ Reading(s, "JSMN_PRIMITIVE")
             THEN [s EXCEPT !.toks[Innermost(s)].end = s.pos] ELSE s
    IN  IF t.err = "none" /\ Unfinished(t) # {} THEN [t EXCEPT !.err = "PART"] ELSE t

\* The tokens that the text marks as names of members: strings before a colon.
NamesIn(text, toks) ==
    {i \in 0 .. Len(toks) - 1 :
        LET after == {p \in toks[i + 1].end + 1 .. Len(text) - 1 : buffer(text, p) # Space}
        IN  /\ toks[i + 1].type = "JSMN_STRING"
            /\ \E p \in after : buffer(text, p) = ":" /\ \A q \in after : p <= q}

NoTokens == [numberOfTokens |-> 0, tokens |-> <<>>, names |-> {}]

TokenList(text, toks) ==
    [numberOfTokens |-> Len(toks),
     tokens |-> [i \in 0 .. Len(toks) - 1 |-> toks[i + 1]],
     names |-> NamesIn(text, toks)]

\* What json_parse makes of the tokenizer's result.
json_parse(text, s) ==
    LET err == CASE Nul \in Range(text) -> "parser_unexpected_characters"
                 [] s.err = "NOMEM" -> "parser_json_too_many_tokens"
                 [] s.err = "INVAL" -> "parser_unexpected_characters"
                 [] s.err = "PART" -> "parser_json_incomplete_json"
                 [] s.err = "none" /\ s.toks = <<>> -> "parser_json_zero_tokens"
                 [] OTHER -> "parser_ok"
    IN  [err |-> err, json |-> IF err = "parser_ok" THEN TokenList(text, s.toks) ELSE NoTokens]
=============================================================================
