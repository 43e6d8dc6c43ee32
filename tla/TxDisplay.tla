----------------------------- MODULE TxDisplay -----------------------------
(***************************************************************************)
(* Which items of a JSON transaction the user gets to see: indexing the    *)
(* document (tx_indexRootFields), checking that every item can be shown    *)
(* (parser_validate), and the review, in which the view asks for items by  *)
(* their number in any order (tx_getItem).                                 *)
(*                                                                         *)
(* A document is what tx_traverse_find meets on its walk: for every root   *)
(* field the sequence of leaves at the field's maximal level, and for msgs *)
(* also the leaves one level deeper, where the walk stops while            *)
(* extraDepthLevel is set.  A leaf stands for the atoms of the document    *)
(* that its text contains, so a leaf that is flattened at one level has    *)
(* the atoms of several leaves at the next.  What no walk meets is not     *)
(* here: a root member that is none of the seven fields, and the elements  *)
(* of an array that the walk does not count.                               *)
(***************************************************************************)
EXTENDS Integers, Sequences, FiniteSets

CONSTANTS
    Docs,             \* canonical documents with the required root fields
    Vals,             \* texts of leaves
    Atoms,            \* pieces of a document
    LeafKeys,         \* names of fields
    AmountKeys,       \* those whose values are amounts (parser_isAmount)
    MultiTypes,       \* message types substituted by a text with "Multi"
    KnownTypes,       \* the other substituted message types
    EmptyVal,         \* the empty string
    FirstPage,        \* the part of a text that fits the indexing buffer
    DefaultChain,     \* COIN_DEFAULT_CHAINID
    ForbiddenChains,  \* "0" and "1"
    OwnAddress,       \* address of the signing path
    BadAmounts,       \* values of amount fields that cannot be formatted
    ByteMax           \* UINT8_MAX

chain_id == 1
account_number == 2
sequence == 3
msgs == 4
memo == 5
fee == 6
tip == 7
RootItems == 1 .. 7

Leaf == [key : LeafKeys, val : Vals, atoms : SUBSET Atoms]
Documents == [leaves : [RootItems -> Seq(Leaf)], deep : Seq(Leaf)]

GroupedKeys == {"type", "delegator"}

\* One level deeper the walk over msgs meets a leaf again, or its parts instead.
\* A part has a longer path than a grouped field.
Parts(d) == {d.deep[q] : q \in DOMAIN d.deep}
SplitInto(leaf, leaves) ==
    leaf.atoms \subseteq UNION {part.atoms : part \in {x \in leaves : x.key \notin GroupedKeys}}
\* Whether it meets all of their parts: not so for an array of plain values.
Splits(d) ==
    \A p \in DOMAIN d.leaves[msgs] :
        d.leaves[msgs][p] \in Parts(d) \/ SplitInto(d.leaves[msgs][p], Parts(d))
\* A text has no parts: the type that sets the depth is met at both.
TypeMetDeeper(d) ==
    d.leaves[msgs] # <<>> /\ d.leaves[msgs][1].val \in MultiTypes
        => d.deep # <<>> /\ d.deep[1] = d.leaves[msgs][1]

ASSUME DocsAssumption ==
    /\ GroupedKeys \subseteq LeafKeys
    /\ AmountKeys \subseteq LeafKeys \ GroupedKeys /\ "none" \notin LeafKeys
    /\ Docs \subseteq Documents
    \* The grouped fields are fields of messages.
    /\ \A d \in Docs : \A r \in RootItems \ {msgs} : \A p \in DOMAIN d.leaves[r] :
         d.leaves[r][p].key \notin GroupedKeys
    /\ \A d \in Docs : TypeMetDeeper(d)
    /\ EmptyVal \in Vals /\ OwnAddress \in Vals
    /\ MultiTypes \cap KnownTypes = {} /\ EmptyVal \notin MultiTypes \cup KnownTypes
    /\ FirstPage \in [Vals -> Vals]
    \* An address is shorter than a page.
    /\ \A v \in Vals : FirstPage[v] = OwnAddress => v = OwnAddress
    /\ ByteMax \in Nat \ {0}

VARIABLES
    phase,            \* how far the document has come
    doc,              \* the tokens of the transaction buffer
    expert,           \* app_mode_expert()
    extraDepthLevel,  \* the walk over msgs goes one level deeper
    cache,            \* display_cache and the grouping fields of tx_json
    root, item,       \* position of the indexing loops
    checked,          \* items parser_validate has fetched
    seen              \* history: the items this review has shown

vars == <<phase, doc, expert, extraDepthLevel, cache, root, item, checked, seen>>

NoDocument == [leaves |-> [r \in RootItems |-> <<>>], deep |-> <<>>]
NoLeaf == [key |-> "none", val |-> EmptyVal, atoms |-> {}]

\* tx_indexRootFields clears the cache and turns grouping on.
EmptyCache ==
    [valid |-> FALSE, counts |-> [r \in RootItems |-> 0], isDefault |-> FALSE,
     typeGrouping |-> TRUE, typeCount |-> 0, typeIdx |-> 0, typeRef |-> EmptyVal,
     fromGrouping |-> TRUE, fromCount |-> 0, fromIdx |-> 0, fromRef |-> EmptyVal,
     hideAll |-> FALSE]

----------------------------------------------------------------------------
(* Walking the leaves                                                      *)

get_root_max_level(r) == IF r = msgs /\ extraDepthLevel THEN "deep" ELSE "level"
Leaves(r) == IF get_root_max_level(r) = "deep" THEN doc.deep ELSE doc.leaves[r]

\* Reading a text of a known message type sets the depth of every later walk.
tx_getTokenAlways(v) == v \in MultiTypes   \* a fault: reset by any text
tx_getToken(v) ==
    IF v \in MultiTypes \cup KnownTypes THEN v \in MultiTypes ELSE extraDepthLevel

\* Leaves of msgs that grouping skips once the cache is valid.
SkipsType(p, leaf) ==
    cache.typeGrouping /\ leaf.key = "type" /\ p # cache.typeIdx
SkipsAnyFrom(p, leaf) ==   \* a fault: the first address is skipped as well
    cache.fromGrouping /\ leaf.key = "delegator"
SkipsFrom(p, leaf) ==
    /\ cache.fromGrouping /\ leaf.key = "delegator"
    /\ cache.hideAll \/ p # cache.fromIdx
Skipped(leaves) ==
    {p \in DOMAIN leaves :
        cache.valid /\ (SkipsType(p, leaves[p]) \/ SkipsFrom(p, leaves[p]))}

\* tx_traverse_find: the place of leaf number t (from 0) among those not skipped.
tx_traverse_find(leaves, t) ==
    {p \in DOMAIN leaves \ Skipped(leaves) :
        Cardinality(1 .. (p - 1) \ Skipped(leaves)) = t}

----------------------------------------------------------------------------
(* Indexing                                                                *)

Wrap(n) == n % (ByteMax + 1)

\* Grouping of messages: the first type and the first delegator are kept for
\* reference; a different one turns the grouping off.
GroupType(c, leaf, p) ==
    LET text == FirstPage[leaf.val]
        first == c.typeCount = 0
        ref == IF first THEN text ELSE c.typeRef
    IN  IF ~c.typeGrouping \/ leaf.key # "type" THEN c
        ELSE [c EXCEPT !.typeRef = ref,
                       !.typeIdx = IF first THEN p ELSE @,
                       !.typeGrouping = (text = ref),
                       !.typeCount = IF text = ref THEN Wrap(@ + 1) ELSE 1]

GroupFrom(c, leaf, p) ==
    LET text == FirstPage[leaf.val]
        first == c.fromCount = 0
        ref == IF first THEN text ELSE c.fromRef
    IN  IF ~c.fromGrouping \/ leaf.key # "delegator" THEN c
        ELSE [c EXCEPT !.fromRef = ref,
                       !.fromIdx = IF first THEN p ELSE @,
                       !.fromGrouping = (text = ref),
                       !.fromCount = IF text = ref THEN Wrap(@ + 1) ELSE 1]

Counted(c, r) == [c EXCEPT !.counts[r] = @ + 1]

NextRoot == root' = root + 1 /\ item' = 1

\* One pass of the loop that counts the items of a root field.
IndexItem ==
    /\ phase = "indexing" /\ root \in RootItems
    /\ item \in DOMAIN Leaves(root)
    /\ LET leaf == Leaves(root)[item] IN
       /\ extraDepthLevel' = tx_getToken(leaf.val)
       /\ \/ /\ root = memo /\ leaf.val = EmptyVal
             /\ NextRoot
             /\ UNCHANGED cache
          \/ /\ ~(root = memo /\ leaf.val = EmptyVal)
             /\ item' = item + 1 /\ UNCHANGED root
             /\ cache' = Counted(IF root = msgs
                                 THEN GroupFrom(GroupType(cache, leaf, item), leaf, item)
                                 ELSE cache, root)
    /\ UNCHANGED <<phase, doc, expert, checked, seen>>

\* The walk finds no further item, or the document lacks the field.
IndexRootDone ==
    /\ phase = "indexing" /\ root \in RootItems
    /\ item \notin DOMAIN Leaves(root)
    /\ NextRoot
    /\ UNCHANGED <<phase, doc, expert, extraDepthLevel, cache, checked, seen>>

\* The chain of the document, as its first leaf names it.
ChainLeaves == doc.leaves[chain_id]
calculate_is_default_chainid ==
    ChainLeaves # <<>> /\ ChainLeaves[1].val = DefaultChain
ChainRefused == ChainLeaves = <<>> \/ ChainLeaves[1].val \in ForbiddenChains

address_matches_own(addr) == addr = OwnAddress

\* The end of indexing: the cache is valid, even if the chain is refused.
IndexDone ==
    /\ phase = "indexing" /\ root \notin RootItems
    /\ phase' = IF ChainRefused THEN "rejected" ELSE "validating"
    /\ extraDepthLevel' = IF ChainLeaves = <<>> THEN extraDepthLevel
                          ELSE tx_getToken(ChainLeaves[1].val)
    /\ cache' = IF ChainRefused THEN [cache EXCEPT !.valid = TRUE]
                ELSE [cache EXCEPT
                        !.valid = TRUE, !.isDefault = calculate_is_default_chainid,
                        !.fromGrouping = @ /\ ~expert /\ calculate_is_default_chainid,
                        !.hideAll = address_matches_own(cache.fromRef)]
    /\ UNCHANGED <<doc, expert, root, item, checked, seen>>

----------------------------------------------------------------------------
(* Items                                                                   *)

tx_is_expert_mode_or_not_default_chainid == expert \/ ~cache.isDefault

\* Leaves of msgs left when the repeated types and delegators are taken away;
\* below zero is an error.
GroupedNoFirst ==   \* a fault: the first type is taken away as well
    cache.counts[msgs]
      - (IF cache.typeGrouping THEN cache.typeCount ELSE 0)
      - (IF cache.fromGrouping /\ cache.fromCount > 0
         THEN cache.fromCount - (IF cache.hideAll THEN 0 ELSE 1) ELSE 0)
Grouped ==
    cache.counts[msgs]
      - (IF cache.typeGrouping /\ cache.typeCount > 0 THEN cache.typeCount - 1 ELSE 0)
      - (IF cache.fromGrouping /\ cache.fromCount > 0
         THEN cache.fromCount - (IF cache.hideAll THEN 0 ELSE 1) ELSE 0)

get_subitem_count(r) ==
    CASE r \in {chain_id, account_number, sequence}
           /\ ~tx_is_expert_mode_or_not_default_chainid -> 0
      [] r = fee /\ ~tx_is_expert_mode_or_not_default_chainid -> 1
      [] r = msgs -> Grouped
      [] OTHER -> cache.counts[r]

CountsFit == \A r \in RootItems : get_subitem_count(r) \in 0 .. ByteMax

ItemsIn(r, before) == IF r < before THEN get_subitem_count(r) ELSE 0
ItemsBefore(r) ==
    ItemsIn(1, r) + ItemsIn(2, r) + ItemsIn(3, r) + ItemsIn(4, r)
        + ItemsIn(5, r) + ItemsIn(6, r) + ItemsIn(7, r)
tx_display_numItems == ItemsBefore(8)

\* retrieve_tree_indexes counts i items off the non-empty root fields: item
\* number i is in the field that i falls into.
retrieve_tree_indexes(i) ==
    {r \in RootItems : i - ItemsBefore(r) \in 0 .. (get_subitem_count(r) - 1)}

\* tx_display_query: the leaf of item number i, if its walk finds one.
tx_display_query(i) ==
    LET found == UNION {{Leaves(r)[p] :
                           p \in tx_traverse_find(Leaves(r), i - ItemsBefore(r))} :
                        r \in retrieve_tree_indexes(i)}
    IN  IF found = {} THEN NoLeaf ELSE CHOOSE leaf \in found : TRUE

\* parser_getJsonItem: an amount is formatted, any other text is a token.
ShownEvenIfMissing(leaf) ==   \* a fault: the error of the walk is ignored
    ~(leaf.key \in AmountKeys /\ leaf.val \in BadAmounts)
Malformed(leaf) == leaf.key \in AmountKeys /\ leaf.val \in BadAmounts
CanBeShown(leaf) == leaf # NoLeaf /\ ~Malformed(leaf)
DepthAfter(leaf) ==
    IF leaf = NoLeaf \/ leaf.key \in AmountKeys THEN extraDepthLevel
    ELSE tx_getToken(leaf.val)

----------------------------------------------------------------------------
(* Parsing, validating, reviewing                                          *)

Idle == phase \in {"none", "rejected"}

ParseDocument(d) ==
    /\ Idle
    /\ phase' = "indexing" /\ doc' = d
    /\ extraDepthLevel' = FALSE
    /\ cache' = EmptyCache /\ root' = 1 /\ item' = 1
    /\ checked' = <<>> /\ seen' = {}
    /\ UNCHANGED expert

\* One pass of the loop of parser_validate, or its end.
ValidateItem ==
    /\ phase = "validating"
    /\ \/ /\ ~CountsFit \/ tx_display_numItems > ByteMax
          /\ phase' = "rejected"
          /\ UNCHANGED <<extraDepthLevel, checked>>
       \/ /\ CountsFit /\ tx_display_numItems <= ByteMax
          /\ Len(checked) = tx_display_numItems
          /\ phase' = "review"
          /\ UNCHANGED <<extraDepthLevel, checked>>
       \/ /\ CountsFit /\ tx_display_numItems <= ByteMax
          /\ Len(checked) < tx_display_numItems
          /\ LET leaf == tx_display_query(Len(checked)) IN
             /\ phase' = IF CanBeShown(leaf) THEN phase ELSE "rejected"
             /\ checked' = IF CanBeShown(leaf) THEN Append(checked, leaf) ELSE checked
             /\ extraDepthLevel' = DepthAfter(leaf)
    /\ UNCHANGED <<doc, expert, cache, root, item, seen>>

\* The index of an item is an int8_t in tx_getItem.
IndexMax == ByteMax \div 2
Showable == {i \in 0 .. (tx_display_numItems - 1) : i <= IndexMax}

\* tx_getItem, called by the view for the item the user pages to.
tx_getItem(i) ==
    /\ phase = "review" /\ i \in Showable
    /\ LET leaf == tx_display_query(i) IN
       /\ extraDepthLevel' = DepthAfter(leaf)
       /\ seen' = seen \cup {[index |-> i, leaf |-> leaf]}
    /\ UNCHANGED <<phase, doc, expert, cache, root, item, checked>>

\* External: the user approves or rejects.
EndReview ==
    /\ phase = "review"
    /\ phase' = "none"
    /\ UNCHANGED <<doc, expert, extraDepthLevel, cache, root, item, checked, seen>>

\* External: the menu, reachable while no review is shown.
ToggleExpert ==
    /\ Idle
    /\ expert' = ~expert
    /\ UNCHANGED <<phase, doc, extraDepthLevel, cache, root, item, checked, seen>>

Init ==
    /\ phase = "none" /\ doc = NoDocument /\ expert \in BOOLEAN
    /\ extraDepthLevel = FALSE /\ cache = EmptyCache
    /\ root = 1 /\ item = 1 /\ checked = <<>> /\ seen = {}

Next ==
    \/ \E d \in Docs : ParseDocument(d)
    \/ IndexItem \/ IndexRootDone \/ IndexDone
    \/ ValidateItem
    \/ \E i \in 0 .. ByteMax : tx_getItem(i)
    \/ EndReview \/ ToggleExpert

Spec == Init /\ [][Next]_vars

----------------------------------------------------------------------------
(* Correctness properties                                                  *)

Caches ==
    [valid : BOOLEAN, counts : [RootItems -> Nat], isDefault : BOOLEAN,
     typeGrouping : BOOLEAN, typeCount : 0 .. ByteMax, typeIdx : Nat, typeRef : Vals,
     fromGrouping : BOOLEAN, fromCount : 0 .. ByteMax, fromIdx : Nat, fromRef : Vals,
     hideAll : BOOLEAN]

\* The type invariant of the display state.
TypeOK ==
    /\ phase \in {"none", "indexing", "validating", "review", "rejected"}
    /\ doc \in Documents
    /\ expert \in BOOLEAN /\ extraDepthLevel \in BOOLEAN
    /\ cache \in Caches
    /\ root \in 1 .. 8 /\ item \in Nat \ {0}
    /\ checked \in Seq(Leaf)
    /\ seen \subseteq [index : 0 .. ByteMax, leaf : Leaf \cup {NoLeaf}]

\* All walks of the document meet its messages at one depth: it has no
\* MultiSend, or nothing but MultiSends.
ValuesOf(leaves) == {leaves[p].val : p \in DOMAIN leaves}
Texts(d) == (UNION {ValuesOf(d.leaves[r]) : r \in RootItems}) \cup ValuesOf(d.deep)
TypeTexts(d) == Texts(d) \cap (MultiTypes \cup KnownTypes)
FirstIn(leaves, texts) == leaves # <<>> /\ leaves[1].val \in texts
NoMulti(d) == TypeTexts(d) \subseteq KnownTypes
OnlyMulti(d) ==
    /\ TypeTexts(d) \subseteq MultiTypes
    /\ FirstIn(d.leaves[msgs], MultiTypes) /\ FirstIn(d.deep, MultiTypes)
OneDepth(d) == NoMulti(d) \/ OnlyMulti(d)

\* Grouped texts that agree on the first page are the same.
PagesTellApart(d, key) ==
    \A leaves \in {d.leaves[msgs], d.deep} : \A p, q \in DOMAIN leaves :
        /\ leaves[p].key = key /\ leaves[q].key = key
        /\ FirstPage[leaves[p].val] = FirstPage[leaves[q].val]
        => leaves[p].val = leaves[q].val
\* Indexing stops at an empty text of the memo, which is one string.
Regular(d) ==
    /\ OneDepth(d) /\ PagesTellApart(d, "type") /\ PagesTellApart(d, "delegator")
    /\ Len(d.leaves[memo]) <= 1

\* What the display rules leave out on purpose: in the normal view of the
\* default chain the replay protection fields and all of the fee but the amount,
\* and in msgs what repeats a shown text or is the signer's own address.
HiddenRoot(r, p) ==
    /\ ~tx_is_expert_mode_or_not_default_chainid
    /\ r \in {chain_id, account_number, sequence} \/ (r = fee /\ p > 1)
SeenText(leaf) == \E s \in seen : s.leaf.key = leaf.key /\ s.leaf.val = leaf.val
HiddenMsgField(leaf) ==
    \/ leaf.key = "type" /\ SeenText(leaf)
    \/ /\ leaf.key = "delegator" /\ ~tx_is_expert_mode_or_not_default_chainid
       /\ leaf.val = OwnAddress \/ SeenText(leaf)
HiddenLeaf(r, p, leaf) ==
    \/ HiddenRoot(r, p)
    \/ r = msgs /\ HiddenMsgField(leaf)
    \/ r = memo /\ leaf.val = EmptyVal

ShownAtoms == UNION {s.leaf.atoms : s \in seen}
AllItemsSeen ==
    phase = "review" /\ {s.index : s \in seen} = 0 .. (tx_display_numItems - 1)
WasSeen(leaf) == \E s \in seen : s.leaf = leaf
\* The leaves the walks meet, at the depth they go to, were shown.
MetIsSeen ==
    \A r \in RootItems : \A p \in DOMAIN Leaves(r) :
        HiddenLeaf(r, p, Leaves(r)[p]) \/ WasSeen(Leaves(r)[p])
\* Nothing of the text of the seven fields is missing from the screen.
NothingMissing ==
    \A r \in RootItems : \A p \in DOMAIN doc.leaves[r] :
        \/ HiddenLeaf(r, p, doc.leaves[r][p])
        \/ doc.leaves[r][p].atoms \subseteq ShownAtoms

\* When the user has paged through all items, in any order, each leaf that the
\* walks meet was shown but for what the rules hide: the counts of indexing, the
\* grouping and the skipping of the walks agree.  The seven fields were shown
\* whole, unless the messages are walked one level deeper and the walk meets less
\* there than the leaves contain.
AllShown ==
    AllItemsSeen /\ Regular(doc) =>
        /\ MetIsSeen
        /\ (extraDepthLevel => Splits(doc)) => NothingMissing

\* An item shows in the review what it showed when parser_validate accepted it,
\* though the walk that finds it depends on which texts were read before.
SeenAsChecked ==
    phase = "review" /\ OneDepth(doc) =>
        \A s \in seen : s.leaf = checked[s.index + 1]

\* A document is rejected for what it says only, in the mode it is read in:
\* every item the counts promise is found by its walk, and no count falls below
\* zero when the repeated texts are taken away.
RejectionCause ==
    \/ ChainRefused
    \/ \E r \in RootItems : \E p \in DOMAIN Leaves(r) : Malformed(Leaves(r)[p])
    \/ doc.leaves[fee] = <<>> /\ ~tx_is_expert_mode_or_not_default_chainid
    \/ \E r \in RootItems : get_subitem_count(r) > ByteMax
    \/ tx_display_numItems > ByteMax
RejectedForCause ==
    [][phase # "rejected" /\ phase' = "rejected" /\ OneDepth(doc) => RejectionCause]_vars

----------------------------------------------------------------------------
(* What comments and documents say of the program                          *)

\* docs/TXSPEC.md: "msgs should be iterated through and each displayed".
MessagesDisplayed ==
    AllItemsSeen => \A p \in DOMAIN doc.leaves[msgs] :
        \/ HiddenLeaf(msgs, p, doc.leaves[msgs][p])
        \/ doc.leaves[msgs][p].atoms \subseteq ShownAtoms

\* tx_display.c: "Reject transactions with too many items to display safely".
ItemsReachable ==
    phase = "review" => Showable = 0 .. (tx_display_numItems - 1)
=============================================================================
