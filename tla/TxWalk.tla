------------------------------- MODULE TxWalk -------------------------------
(***************************************************************************)
(* tx_traverse_find on the tokens of a validated transaction: the search   *)
(* for one item of a root field.  TxDisplay works with the leaves this     *)
(* walk meets; here they come from the spans of the tokens, by way of the  *)
(* walkers of JsonScan.  The calls the recursion has open are a stack.     *)
(***************************************************************************)
EXTENDS TxValidate

CONSTANT MAX_RECURSION_DEPTH

ASSUME WalkAssumption == MAX_RECURSION_DEPTH \in Nat \ {0}

VARIABLES
    stack,         \* open calls of tx_traverse_find, innermost last
    max_level,     \* levels of objects the walk may still go down
    max_depth,     \* containers it may still go down
    out_key,       \* path of names to where the walk is
    query,         \* the field, its level and the item asked for
    current,       \* leaves met (_item_index_current)
    found          \* its token

walkVars == <<stack, max_level, max_depth, out_key, query, current, found>>
vars == <<scanVars, validateVars, walkVars>>

Init ==
    /\ ValidateInit
    /\ stack = <<>> /\ max_level = 0 /\ max_depth = 0 /\ out_key = <<>>
    /\ query = [root |-> 0, level |-> 0, item_index |-> 0] /\ current = 0 /\ found = 0

\* get_root_max_level: messages are entered one level deeper while
\* extraDepthLevel is set.
get_root_max_level(name) ==
    CASE name \in {"fee", "tip"} -> {1} [] name = "msgs" -> {2, 3} [] OTHER -> {2}

Open(i) == [at |-> i, step |-> "arrive", el_count |-> 0, i |-> 0, key_len |-> 0]
Top == stack[Len(stack)]
AtStep(s) == phase = "walk" /\ call = Idle /\ Top.step = s

\* The frame of the innermost call goes to another step.
Become(frame) == stack' = [stack EXCEPT ![Len(stack)] = frame]
Descend(i) == stack' = Append([stack EXCEPT ![Len(stack)].step = "child"], Open(i))

\* A call returns without a result; the outermost one ends the search.
Leave ==
    /\ stack' = SubSeq(stack, 1, Len(stack) - 1)
    /\ IF Len(stack) = 1 THEN GoOn("absent") ELSE UNCHANGED <<phase, err>>

\* INIT_QUERY_CONTEXT, and the first call.
Search(root, name, level, n) ==
    /\ query' = [root |-> root, level |-> level, item_index |-> n]
    /\ max_level' = level /\ max_depth' = MAX_RECURSION_DEPTH
    /\ out_key' = <<name>>
    /\ stack' = <<Open(root)>>
    /\ current' = 0 /\ found' = 0
    /\ GoOn("walk")
    /\ UNCHANGED scanVars

\* tx_indexRootFields asks for the items of a field one after the other until
\* one is not found.
FirstItem ==
    /\ phase = "accepted"
    /\ \E k \in Members(json, 0) : \E level \in get_root_max_level(NameOf(k)) :
            Search(k + 1, NameOf(k), level, 0)
NextItem ==
    /\ phase = "found"
    /\ Search(query.root, out_key[1], query.level, query.item_index + 1)

\* Where the walk goes no deeper.
StopsAt(i) ==
    \/ max_level <= 0 \/ max_depth <= 0
    \/ token(i).type \in {"JSMN_STRING", "JSMN_PRIMITIVE"}

MeetLeaf ==
    /\ AtStep("arrive") /\ StopsAt(Top.at)
    /\ IF current = query.item_index
       THEN found' = Top.at /\ GoOn("found") /\ UNCHANGED <<stack, current>>
       ELSE Leave /\ current' = current + 1 /\ UNCHANGED found
    /\ UNCHANGED scanVars
    /\ UNCHANGED <<max_level, max_depth, out_key, query>>

\* The elements of arrays, too, are counted by object_get_element_count.
CountElements ==
    /\ AtStep("arrive") /\ ~StopsAt(Top.at)
    /\ Call("object_get_element_count", Top.at, 0, "")
    /\ Become([Top EXCEPT !.step = "counted"])
    /\ UNCHANGED <<phase, err, max_level, max_depth, out_key, query, current, found>>

Counted ==
    /\ AtStep("counted")
    /\ Become([Top EXCEPT !.step = "loop", !.el_count = result.value, !.key_len = Len(out_key)])
    /\ UNCHANGED scanVars
    /\ UNCHANGED <<phase, err, max_level, max_depth, out_key, query, current, found>>

NextElement ==
    /\ AtStep("loop")
    /\ IF Top.i >= Top.el_count THEN Leave /\ UNCHANGED scanVars
       ELSE /\ UNCHANGED <<phase, err>>
            /\ IF token(Top.at).type = "JSMN_OBJECT"
               THEN Call("object_get_nth_key", Top.at, Top.i, "") /\ Become([Top EXCEPT !.step = "name"])
               ELSE Call("array_get_nth_element", Top.at, Top.i, "") /\ Become([Top EXCEPT !.step = "element"])
    /\ UNCHANGED <<max_level, max_depth, out_key, query, current, found>>

append_key_item(i) == Append(out_key, token(i).text)

MemberName ==
    /\ AtStep("name")
    /\ IF result.err # "parser_ok" THEN Leave /\ UNCHANGED <<scanVars, out_key>>
       ELSE /\ out_key' = append_key_item(result.value)
            /\ Call("object_get_nth_value", Top.at, Top.i, "")
            /\ Become([Top EXCEPT !.step = "value"])
            /\ UNCHANGED <<phase, err>>
    /\ UNCHANGED <<max_level, max_depth, query, current, found>>

\* object_get_nth_value finds what object_get_nth_key found.
MemberValue ==
    /\ AtStep("value")
    /\ Descend(result.value)
    /\ max_level' = max_level - 1 /\ max_depth' = max_depth - 1
    /\ UNCHANGED scanVars
    /\ UNCHANGED <<phase, err, out_key, query, current, found>>

\* The level is that of the array; past the last element the call returns.
Element ==
    /\ AtStep("element")
    /\ IF result.err # "parser_ok" THEN Leave /\ UNCHANGED max_depth
       ELSE Descend(result.value) /\ max_depth' = max_depth - 1 /\ UNCHANGED <<phase, err>>
    /\ UNCHANGED scanVars
    /\ UNCHANGED <<max_level, out_key, query, current, found>>

RestoredNot == out_key   \* a fault: the path keeps the names of members passed
Restored == SubSeq(out_key, 1, Top.key_len)
LevelKept == max_level   \* a fault: a member takes the level of those after it
LevelAbove == max_level + 1

\* Back from the walk of an element.
Resume ==
    /\ AtStep("child")
    /\ Become([Top EXCEPT !.step = "loop", !.i = @ + 1])
    /\ max_depth' = max_depth + 1
    /\ IF token(Top.at).type = "JSMN_OBJECT"
       THEN max_level' = LevelAbove /\ out_key' = Restored
       ELSE UNCHANGED <<max_level, out_key>>
    /\ UNCHANGED scanVars
    /\ UNCHANGED <<phase, err, query, current, found>>

WalkStep ==
    \/ MeetLeaf \/ CountElements \/ Counted \/ NextElement
    \/ MemberName \/ MemberValue \/ Element \/ Resume

Next ==
    \/ ValidateNext /\ UNCHANGED walkVars
    \/ (FirstItem \/ NextItem \/ WalkStep) /\ UNCHANGED <<text, jsmn, obj, elem, count, prevName, field>>

\* The device runs the check and the search to their ends.
Spec == Init /\ [][Next]_vars /\ WF_vars(Next)

----------------------------------------------------------------------------
(* What the walk promises                                                  *)

TypeOK ==
    /\ ValidateTypeOK
    /\ phase \in Validating \cup {"accepted", "rejected", "walk", "found", "absent"}
    /\ \A k \in DOMAIN stack : stack[k].at \in 0 .. json.numberOfTokens
    /\ max_level \in 0 .. 3 /\ max_depth \in 0 .. MAX_RECURSION_DEPTH
    /\ query.item_index \in Nat /\ current \in 0 .. query.item_index + 1
    /\ found \in Nat

HasParts(d, i) == d.tokens[i].type \notin {"JSMN_STRING", "JSMN_PRIMITIVE"}
IsObject(d, i) == i < d.numberOfTokens /\ d.tokens[i].type = "JSMN_OBJECT"
Inside(d, i, c) == d.tokens[i].start < d.tokens[c].end

\* The containers from r down that enclose token i, and the objects of them.
Above(d, r, i) == {c \in r .. i - 1 : HasParts(d, c) /\ Inside(d, i, c)}
ObjectsAbove(d, r, i) == {c \in Above(d, r, i) : IsObject(d, c)}

\* A value is shown as it is when it has no parts, or is as deep as values go.
Flat(d, r, level, i) ==
    \/ ~HasParts(d, i)
    \/ Cardinality(ObjectsAbove(d, r, i)) >= level
    \/ Cardinality(Above(d, r, i)) >= MAX_RECURSION_DEPTH

\* The names of the members of objects.
MemberNames(d) == UNION {Members(d, c) : c \in {o \in DOMAIN d.tokens : IsObject(d, o)}}

\* The items of the field at r: the outermost values shown as they are.
Items(d, r, level) ==
    {i \in r .. d.numberOfTokens - 1 :
        /\ i = r \/ Inside(d, i, r)
        /\ i \notin MemberNames(d)
        /\ Flat(d, r, level, i)
        /\ \A c \in Above(d, r, i) : ~Flat(d, r, level, c)}

\* The path to item i is the names of the members it is in, outermost first.
NamesTo(d, r, i) == {n \in MemberNames(d) : n >= r - 1 /\ n + 1 \in Above(d, r, i) \cup {i}}
LeadsTo(path, d, r, i) ==
    /\ Len(path) = Cardinality(NamesTo(d, r, i))
    /\ \A n \in NamesTo(d, r, i) : path[Place(NamesTo(d, r, i), n) + 1] = d.tokens[n].text

\* No array the walk enters has, before another element, one that encloses
\* nothing: the count would take the two for one.
CountsWell(d, c) == \A e, f \in Elements(d, c) : e < f => Inside(d, e + 1, e)
ArraysAreCounted(d, r, level) ==
    \A c \in r .. d.numberOfTokens - 1 :
        ~IsObject(d, c) /\ (c = r \/ Inside(d, c, r)) /\ ~Flat(d, r, level, c) => CountsWell(d, c)

AllItems == Items(json, query.root, query.level)

\* What is found in a JSON text is an item of the field, under the path of names
\* that leads to it, whatever the arrays hold (tx_parser.c:203 to :265).
FoundIsAnItem ==
    phase = "found" /\ IsJson(json) =>
        /\ found \in AllItems
        /\ LeadsTo(out_key, json, query.root, found)

\* Item n is the one with n items before it, so that asking for one after the
\* other meets each once, and the first that is not found comes after the last,
\* as long as the elements of arrays are counted right (tx_parser.c:203).
EveryItemMet ==
    /\ phase \in {"found", "absent"} /\ IsJson(json)
    /\ ArraysAreCounted(json, query.root, query.level)
    => query.item_index =
            IF phase = "found" THEN Place(AllItems, found) ELSE Cardinality(AllItems)

\* docs/TXSPEC.md:49: msgs should be iterated through and each displayed, for
\* each element of an array.
AllElementsMet == phase = "absent" => query.item_index >= Cardinality(AllItems)

\* Every text is rejected or shown to its last item (the loops of json_parser.c,
\* tx_validate.c and tx_parser.c end).
Answered == <>(phase \in {"rejected", "absent"})
=============================================================================
