------------------------------ MODULE JsonScan ------------------------------
(***************************************************************************)
(* The walkers of json_parser.c.  A token is a span of the text; the list  *)
(* holds them in the order of their starts and says nothing of which token *)
(* is inside which.  A walker goes through the tokens after a container,   *)
(* one pass of its loop per step, skips what starts before the end of the  *)
(* last element taken, and stops at the first token past the container.    *)
(*                                                                         *)
(* The promise is stated over the spans: an element of a container is a    *)
(* token inside it that no other token inside it encloses, and a member    *)
(* of an object is an element that the text marks as a name.               *)
(***************************************************************************)
EXTENDS Integers, FiniteSets

CONSTANT Strings   \* texts of strings and primitives

Token == [type : {"JSMN_OBJECT", "JSMN_ARRAY", "JSMN_STRING", "JSMN_PRIMITIVE",
                  "JSMN_UNDEFINED"},
          start : Nat, end : Nat, text : Strings]

\* parsed_json_t: the tokens, and which of them the text marks as names.
ListsOf(n) == [numberOfTokens : {n}, tokens : [0 .. n - 1 -> Token], names : SUBSET (0 .. n - 1)]
TokenLists == UNION {ListsOf(n) : n \in Nat}

ASSUME StringsAssumption == "" \in Strings

ArrayWalkers == {"array_get_element_count", "array_get_nth_element"}
ObjectWalkers == {"object_get_element_count", "object_get_nth_key",
                  "object_get_nth_value", "object_get_value"}
Counters == {"array_get_element_count", "object_get_element_count"}
ByNumber == {"array_get_nth_element", "object_get_nth_key", "object_get_nth_value"}

VARIABLES
    json,              \* parsed_json_t
    call,              \* the walker that runs and its arguments
    token_index,       \* the token its loop examines
    prev_element_end,  \* where the last element it took ends
    element_count,     \* elements it has taken
    result             \* what the last walker returned, and to which call

scanVars == <<json, call, token_index, prev_element_end, element_count, result>>

Idle == [fn |-> "none", at |-> 0, nth |-> 0, key |-> ""]
Calls == [fn : ArrayWalkers \cup ObjectWalkers, at : Nat, nth : Nat, key : Strings]
NoResult == [call |-> Idle, err |-> "none", value |-> 0]
Results == [call : Calls, err : {"parser_ok", "parser_no_data"}, value : Nat]

\* json_parse clears the tokens it does not fill.
Unused == [type |-> "JSMN_UNDEFINED", start |-> 0, end |-> 0, text |-> ""]
token(i) == IF i < json.numberOfTokens THEN json.tokens[i] ELSE Unused

ScanInit ==
    /\ json = [numberOfTokens |-> 0, tokens |-> [i \in {} |-> Unused], names |-> {}]
    /\ call = Idle /\ result = NoResult
    /\ token_index = 0 /\ prev_element_end = 0 /\ element_count = 0

Load(d) ==
    /\ call = Idle
    /\ json' = d /\ result' = NoResult
    /\ UNCHANGED <<call, token_index, prev_element_end, element_count>>

----------------------------------------------------------------------------
(* A walker                                                                *)

\* The two early returns; then the loop starts after the container.
Refused(c) ==
    \/ c.at >= json.numberOfTokens
    \/ c.fn = "object_get_value" /\ token(c.at).type # "JSMN_OBJECT"

Call(f, i, n, k) ==
    LET c == [fn |-> f, at |-> i, nth |-> n, key |-> k] IN
    /\ call = Idle
    /\ \/ /\ Refused(c)
          /\ result' = [call |-> c, err |-> "parser_no_data", value |-> 0]
          /\ UNCHANGED <<call, token_index, prev_element_end, element_count>>
       \/ /\ ~Refused(c)
          /\ call' = c /\ result' = NoResult
          /\ token_index' = i + 1
          /\ prev_element_end' = token(i).start
          /\ element_count' = 0
    /\ UNCHANGED json

\* object_get_value looks at a name only when a token follows it.
AtEnd ==
    \/ token_index >= json.numberOfTokens
    \/ call.fn = "object_get_value" /\ token_index + 1 >= json.numberOfTokens
    \/ token(token_index).start > token(call.at).end

Inner == token(token_index).start <= prev_element_end

\* An element of an object ends with its value, the token after the name.
ElementEndName == token(token_index).end   \* a fault: values are taken for names
ElementEnd ==
    IF call.fn \in ArrayWalkers THEN token(token_index).end ELSE token(token_index + 1).end

Wanted ==
    \/ call.fn \in ByNumber /\ element_count = call.nth
    \/ call.fn = "object_get_value" /\ token(token_index).text = call.key

Return(e, v) ==
    /\ result' = [call |-> call, err |-> e, value |-> v]
    /\ call' = Idle
    /\ UNCHANGED <<json, token_index, prev_element_end, element_count>>

Finish ==
    /\ call # Idle /\ AtEnd
    /\ IF call.fn \in Counters THEN Return("parser_ok", element_count)
       ELSE Return("parser_no_data", 0)

SkipStays ==   \* a fault: the loop goes on with the same token
    /\ call # Idle /\ ~AtEnd /\ Inner
    /\ UNCHANGED scanVars
Skip ==
    /\ call # Idle /\ ~AtEnd /\ Inner
    /\ token_index' = token_index + 1
    /\ UNCHANGED <<json, call, prev_element_end, element_count, result>>

Take ==
    /\ call # Idle /\ ~AtEnd /\ ~Inner /\ ~Wanted
    /\ prev_element_end' = ElementEnd
    /\ element_count' = element_count + 1
    /\ token_index' = token_index + 1
    /\ UNCHANGED <<json, call, result>>

Found ==
    /\ call # Idle /\ ~AtEnd /\ ~Inner /\ Wanted
    /\ Return("parser_ok",
              IF call.fn \in {"object_get_nth_value", "object_get_value"}
              THEN token_index + 1 ELSE token_index)

ScanStep == Finish \/ Skip \/ Take \/ Found

\* Any token list, and any call in it.
ScanNext ==
    \/ \E d \in TokenLists : Load(d)
    \/ \E f \in ArrayWalkers \cup ObjectWalkers, i \in Nat, n \in Nat, k \in Strings :
            Call(f, i, n, k)
    \/ ScanStep

ScanSpec == ScanInit /\ [][ScanNext]_scanVars

----------------------------------------------------------------------------
(* What the walkers promise                                                *)

Elements(d, c) ==
    {i \in c + 1 .. d.numberOfTokens - 1 :
        /\ d.tokens[i].start < d.tokens[c].end
        /\ \A j \in c + 1 .. i - 1 : d.tokens[j].end < d.tokens[i].start}
Members(d, c) == Elements(d, c) \cap d.names

\* Spans of a JSON text: every two are nested or apart.
Nested(d) ==
    \A i \in DOMAIN d.tokens :
        /\ d.tokens[i].start <= d.tokens[i].end
        /\ \A j \in i + 1 .. d.numberOfTokens - 1 :
            /\ d.tokens[i].start < d.tokens[j].start
            /\ \/ d.tokens[j].end < d.tokens[i].end
               \/ d.tokens[i].end < d.tokens[j].start

\* Objects of a JSON text: names and values alternate.
Alternates(d) ==
    \A c \in DOMAIN d.tokens : d.tokens[c].type = "JSMN_OBJECT" =>
        \A i \in Elements(d, c) :
            IF i \in d.names THEN i + 1 \in Elements(d, c) \ d.names
            ELSE i - 1 \in Members(d, c)

IsJson(d) == Nested(d) /\ Alternates(d)

\* The set a walker goes over, and the place of i in it.
Walked(d, c) == IF c.fn \in ArrayWalkers THEN Elements(d, c.at) ELSE Members(d, c.at)
Place(S, i) == Cardinality({j \in S : j < i})

\* The array walkers promise something for every container, the object
\* walkers for objects.
Meant(d, c) ==
    /\ c.at < d.numberOfTokens
    /\ c.fn \in ObjectWalkers => d.tokens[c.at].type = "JSMN_OBJECT"

CountIsRight(d, r) ==
    r.call.fn \in Counters =>
        r.err = "parser_ok" /\ r.value = Cardinality(Walked(d, r.call))

NthIsRight(d, r) ==
    LET W == Walked(d, r.call)
        found == IF r.call.fn = "object_get_nth_value" THEN r.value - 1 ELSE r.value
    IN  r.call.fn \in ByNumber =>
            IF r.err = "parser_ok" THEN found \in W /\ Place(W, found) = r.call.nth
            ELSE Cardinality(W) <= r.call.nth

ValueIsRight(d, r) ==
    LET Named == {i \in Members(d, r.call.at) : d.tokens[i].text = r.call.key}
    IN  r.call.fn = "object_get_value" =>
            IF r.err = "parser_ok"
            THEN r.value - 1 \in Named /\ \A i \in Named : r.value - 1 <= i
            ELSE Named = {}

\* In a JSON text a walker counts, and finds by number or by name, exactly the
\* elements of its container, however deeply they are nested and whatever
\* follows the container (json_parser.c).
ScanIsExact ==
    result # NoResult /\ IsJson(json) /\ Meant(json, result.call) =>
        /\ CountIsRight(json, result)
        /\ NthIsRight(json, result)
        /\ ValueIsRight(json, result)
=============================================================================
