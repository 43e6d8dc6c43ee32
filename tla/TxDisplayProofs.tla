-------------------------- MODULE TxDisplayProofs --------------------------
(***************************************************************************)
(* Proofs about TxDisplay, for documents that are met at one depth: an     *)
(* item shows in the review what it showed when it was checked, in         *)
(* whatever order the user pages; a document is refused only for what it   *)
(* says; and the items show all of it.  The last two rest on CountInv: the *)
(* counts of indexing are those of the leaves the walks do not skip.       *)
(***************************************************************************)
EXTENDS TxDisplay, TLAPS, FiniteSetTheorems, WellFoundedInduction

----------------------------------------------------------------------------
(* Types                                                                   *)

LEMMA LeavesType ==
    ASSUME doc \in Documents, NEW r \in RootItems
    PROVE  Leaves(r) \in Seq(Leaf)
  BY DEF Leaves, Documents

\* An item is a leaf of one of the walks, or there is none.
LEMMA QueryResult ==
    ASSUME doc \in Documents, NEW i
    PROVE  \/ tx_display_query(i) = NoLeaf
           \/ \E r \in RootItems : \E p \in DOMAIN Leaves(r) :
                tx_display_query(i) = Leaves(r)[p]
<1> DEFINE found == UNION {{Leaves(r)[p] :
                              p \in tx_traverse_find(Leaves(r), i - ItemsBefore(r))} :
                           r \in retrieve_tree_indexes(i)}
<1>1. tx_display_query(i) = IF found = {} THEN NoLeaf ELSE CHOOSE leaf \in found : TRUE
  BY DEF tx_display_query
<1>2. \A leaf \in found : \E r \in RootItems : \E p \in DOMAIN Leaves(r) : leaf = Leaves(r)[p]
  <2> SUFFICES ASSUME NEW leaf \in found
               PROVE  \E r \in RootItems : \E p \in DOMAIN Leaves(r) : leaf = Leaves(r)[p]
    OBVIOUS
  <2>1. PICK r \in retrieve_tree_indexes(i) :
            leaf \in {Leaves(r)[p] : p \in tx_traverse_find(Leaves(r), i - ItemsBefore(r))}
    OBVIOUS
  <2>2. PICK p \in tx_traverse_find(Leaves(r), i - ItemsBefore(r)) : leaf = Leaves(r)[p]
    BY <2>1
  <2>3. r \in RootItems
    BY <2>1 DEF retrieve_tree_indexes
  <2>4. p \in DOMAIN Leaves(r)
    BY <2>2 DEF tx_traverse_find
  <2> QED
    BY <2>2, <2>3, <2>4
<1>3. CASE found = {}
  BY <1>1, <1>3
<1>4. CASE found # {}
  <2> HIDE DEF found
  <2>1. (CHOOSE leaf \in found : TRUE) \in found
    BY <1>4
  <2> QED
    BY <1>1, <1>2, <1>4, <2>1
<1> QED
  BY <1>3, <1>4

LEMMA QueryType ==
    ASSUME doc \in Documents, NEW i
    PROVE  tx_display_query(i) \in Leaf \cup {NoLeaf}
<1>1. CASE \E r \in RootItems : \E p \in DOMAIN Leaves(r) : tx_display_query(i) = Leaves(r)[p]
  <2>1. PICK r \in RootItems :
            \E p \in DOMAIN Leaves(r) : tx_display_query(i) = Leaves(r)[p]
    BY <1>1
  <2>2. Leaves(r) \in Seq(Leaf)
    BY LeavesType
  <2> QED
    BY <2>1, <2>2
<1> QED
  BY <1>1, QueryResult

LEMMA WrapType ==
    ASSUME NEW n \in Nat
    PROVE  Wrap(n) \in 0 .. ByteMax
<1>1. ByteMax + 1 \in Nat \ {0}
  BY DocsAssumption
<1> QED
  BY <1>1, DocsAssumption DEF Wrap

LEMMA GroupTypeType ==
    ASSUME NEW c \in Caches, NEW leaf \in Leaf, NEW p \in Nat
    PROVE  GroupType(c, leaf, p) \in Caches
<1>1. FirstPage[leaf.val] \in Vals
  BY DocsAssumption DEF Leaf
<1>2. Wrap(c.typeCount + 1) \in 0 .. ByteMax /\ 1 \in 0 .. ByteMax
  BY WrapType, DocsAssumption DEF Caches
<1> QED
  BY <1>1, <1>2, ZenonT(60) DEF GroupType, Caches

LEMMA GroupFromType ==
    ASSUME NEW c \in Caches, NEW leaf \in Leaf, NEW p \in Nat
    PROVE  GroupFrom(c, leaf, p) \in Caches
<1>1. FirstPage[leaf.val] \in Vals
  BY DocsAssumption DEF Leaf
<1>2. Wrap(c.fromCount + 1) \in 0 .. ByteMax /\ 1 \in 0 .. ByteMax
  BY WrapType, DocsAssumption DEF Caches
<1> QED
  BY <1>1, <1>2, ZenonT(60) DEF GroupFrom, Caches

LEMMA CountedType ==
    ASSUME NEW c \in Caches, NEW r \in RootItems
    PROVE  Counted(c, r) \in Caches
  BY DEF Counted, Caches

LEMMA TokenType ==
    ASSUME NEW v, extraDepthLevel \in BOOLEAN
    PROVE  tx_getToken(v) \in BOOLEAN
<1>1. (v \in MultiTypes) \in BOOLEAN
  OBVIOUS
<1>2. CASE v \in MultiTypes \cup KnownTypes
  BY <1>1, <1>2, Zenon DEF tx_getToken
<1>3. CASE v \notin MultiTypes \cup KnownTypes
  BY <1>3 DEF tx_getToken
<1> QED
  BY <1>2, <1>3

LEMMA DepthType ==
    ASSUME NEW leaf, extraDepthLevel \in BOOLEAN
    PROVE  DepthAfter(leaf) \in BOOLEAN
  BY TokenType DEF DepthAfter

\* What IndexItem makes of the cache.
LEMMA IndexedType ==
    ASSUME TypeOK, NEW leaf \in Leaf, root \in RootItems
    PROVE  Counted(IF root = msgs
                   THEN GroupFrom(GroupType(cache, leaf, item), leaf, item)
                   ELSE cache, root) \in Caches
<1>1. cache \in Caches /\ item \in Nat
  BY DEF TypeOK
<1>2. GroupFrom(GroupType(cache, leaf, item), leaf, item) \in Caches
  BY <1>1, GroupTypeType, GroupFromType
<1> QED
  BY <1>1, <1>2, CountedType

LEMMA NextTyped ==
    ASSUME TypeOK, [Next]_vars
    PROVE  TypeOK'
<1>1. CASE UNCHANGED vars
  BY <1>1 DEF TypeOK, vars
<1>2. ASSUME NEW d \in Docs, ParseDocument(d) PROVE TypeOK'
  <2>1. d \in Documents
    BY DocsAssumption
  <2>2. EmptyCache \in Caches
    BY DocsAssumption DEF EmptyCache, Caches
  <2>3. phase' \in {"none", "indexing", "validating", "review", "rejected"} /\ doc' \in Documents
    BY <1>2, <2>1 DEF ParseDocument
  <2>4. expert' \in BOOLEAN /\ extraDepthLevel' \in BOOLEAN
    BY <1>2 DEF ParseDocument, TypeOK
  <2>5. cache' \in Caches
    BY <1>2, <2>2 DEF ParseDocument
  <2>6. root' \in 1 .. 8 /\ item' \in Nat \ {0} /\ checked' \in Seq(Leaf) /\ seen' = {}
    BY <1>2 DEF ParseDocument
  <2> QED
    BY <2>3, <2>4, <2>5, <2>6 DEF TypeOK
<1>3. CASE IndexItem
  <2> DEFINE leaf == Leaves(root)[item]
  <2>1. root \in RootItems /\ leaf \in Leaf
    BY <1>3, LeavesType DEF IndexItem, TypeOK
  <2>2. extraDepthLevel' \in BOOLEAN
    <3>1. extraDepthLevel' = tx_getToken(leaf.val)
      BY <1>3 DEF IndexItem
    <3> QED
      BY <3>1, TokenType DEF TypeOK
  <2>3. root' \in 1 .. 8 /\ item' \in Nat \ {0}
    <3>1. \/ root' = root + 1 /\ item' = 1
          \/ root' = root /\ item' = item + 1
      BY <1>3 DEF IndexItem, NextRoot
    <3> QED
      BY <2>1, <3>1 DEF TypeOK, RootItems
  <2>4. cache' \in Caches
    BY <1>3, <2>1, IndexedType DEF IndexItem, TypeOK
  <2>5. UNCHANGED <<phase, doc, expert, checked, seen>>
    BY <1>3 DEF IndexItem
  <2> QED
    BY <2>2, <2>3, <2>4, <2>5 DEF TypeOK
<1>4. CASE IndexRootDone
  <2>1. root' \in 1 .. 8 /\ item' = 1
    BY <1>4 DEF IndexRootDone, NextRoot, RootItems
  <2> QED
    BY <1>4, <2>1 DEF IndexRootDone, TypeOK
<1>5. CASE IndexDone
  <2>1. extraDepthLevel' \in BOOLEAN
    BY <1>5, TokenType DEF IndexDone, TypeOK
  <2>2. cache' \in Caches
    <3>1. ASSUME NEW isDefault \in BOOLEAN, NEW hideAll \in BOOLEAN, NEW fromGrouping \in BOOLEAN
          PROVE  /\ [cache EXCEPT !.valid = TRUE] \in Caches
                 /\ [cache EXCEPT !.valid = TRUE, !.isDefault = isDefault,
                                  !.fromGrouping = fromGrouping,
                                  !.hideAll = hideAll] \in Caches
      BY ZenonT(60) DEF Caches, TypeOK
    <3>2. calculate_is_default_chainid \in BOOLEAN /\ address_matches_own(cache.fromRef) \in BOOLEAN
      BY DEF calculate_is_default_chainid, address_matches_own
    <3>3. (cache.fromGrouping /\ ~expert /\ calculate_is_default_chainid) \in BOOLEAN
      OBVIOUS
    <3> QED
      BY <1>5, <3>1, <3>2, <3>3, Zenon DEF IndexDone
  <2>3. phase' \in {"rejected", "validating"}
    BY <1>5 DEF IndexDone
  <2>4. UNCHANGED <<doc, expert, root, item, checked, seen>>
    BY <1>5 DEF IndexDone
  <2> QED
    BY <2>1, <2>2, <2>3, <2>4 DEF TypeOK
<1>6. CASE ValidateItem
  <2> DEFINE leaf == tx_display_query(Len(checked))
  <2>1. leaf \in Leaf \cup {NoLeaf}
    BY QueryType DEF TypeOK
  <2>2. CASE UNCHANGED <<extraDepthLevel, checked>> /\ phase' \in {"rejected", "review"}
    BY <1>6, <2>2 DEF ValidateItem, TypeOK
  <2>3. CASE /\ phase' = IF CanBeShown(leaf) THEN phase ELSE "rejected"
             /\ checked' = IF CanBeShown(leaf) THEN Append(checked, leaf) ELSE checked
             /\ extraDepthLevel' = DepthAfter(leaf)
    <3>1. checked' \in Seq(Leaf)
      BY <2>1, <2>3 DEF CanBeShown, TypeOK
    <3>2. extraDepthLevel' \in BOOLEAN
      BY <2>3, DepthType DEF TypeOK
    <3>3. UNCHANGED <<doc, expert, cache, root, item, seen>>
      BY <1>6 DEF ValidateItem
    <3> QED
      BY <2>3, <3>1, <3>2, <3>3 DEF TypeOK
  <2> QED
    BY <1>6, <2>2, <2>3 DEF ValidateItem
<1>7. ASSUME NEW i \in 0 .. ByteMax, tx_getItem(i) PROVE TypeOK'
  <2>1. tx_display_query(i) \in Leaf \cup {NoLeaf}
    BY QueryType DEF TypeOK
  <2>2. extraDepthLevel' \in BOOLEAN
    BY <1>7, DepthType DEF tx_getItem, TypeOK
  <2>3. seen' = seen \cup {[index |-> i, leaf |-> tx_display_query(i)]}
    BY <1>7 DEF tx_getItem
  <2>4. UNCHANGED <<phase, doc, expert, cache, root, item, checked>>
    BY <1>7 DEF tx_getItem
  <2> QED
    BY <2>1, <2>2, <2>3, <2>4 DEF TypeOK
<1>8. CASE EndReview
  BY <1>8 DEF EndReview, TypeOK
<1>9. CASE ToggleExpert
  BY <1>9 DEF ToggleExpert, TypeOK
<1> QED
  BY <1>1, <1>2, <1>3, <1>4, <1>5, <1>6, <1>7, <1>8, <1>9 DEF Next

LEMMA InitTyped ==
    ASSUME Init
    PROVE  TypeOK
<1>1. EmptyCache \in Caches
  BY DocsAssumption DEF EmptyCache, Caches
<1>2. NoDocument \in Documents
  BY DEF NoDocument, Documents
<1>3. extraDepthLevel \in BOOLEAN /\ expert \in BOOLEAN
  BY DEF Init
<1>4. doc \in Documents /\ cache \in Caches
  BY <1>1, <1>2 DEF Init
<1> QED
  BY <1>3, <1>4 DEF Init, TypeOK

\* The display state keeps its type for any documents and any texts.
THEOREM TypeCorrect == Spec => []TypeOK
<1>1. Init => TypeOK
  BY InitTyped
<1> QED
  BY <1>1, NextTyped, PTL DEF Spec

----------------------------------------------------------------------------
(* An item keeps its text                                                  *)

\* The depth every walk of msgs uses once the first message was indexed.
DepthInv ==
    /\ phase \in {"indexing", "validating", "review"} /\ NoMulti(doc) => ~extraDepthLevel
    /\ OnlyMulti(doc) =>
         /\ phase \in {"validating", "review"} => extraDepthLevel
         /\ phase = "indexing" /\ (root > msgs \/ (root = msgs /\ item > 1))
              => extraDepthLevel

\* The items that were checked, and those that were shown, are those the walks
\* find now.
StableInv ==
    /\ phase \in {"indexing", "validating"} => seen = {}
    /\ phase = "indexing" => checked = <<>>
    /\ phase = "review" => Len(checked) = tx_display_numItems
    /\ phase \in {"validating", "review"} /\ OneDepth(doc) =>
         \A j \in DOMAIN checked : checked[j] = tx_display_query(j - 1)
    /\ phase = "review" /\ OneDepth(doc) =>
         \A s \in seen : /\ s.index < tx_display_numItems
                         /\ s.leaf = tx_display_query(s.index)

ItemInv == TypeOK /\ DepthInv /\ StableInv

LEMMA LeafText ==
    ASSUME doc \in Documents, NEW r \in RootItems, NEW p \in DOMAIN Leaves(r)
    PROVE  Leaves(r)[p].val \in Texts(doc)
<1>1. Leaves(r) = doc.leaves[r] \/ Leaves(r) = doc.deep
  BY DEF Leaves
<1>2. CASE Leaves(r) = doc.leaves[r]
  <2>1. Leaves(r)[p].val \in ValuesOf(doc.leaves[r])
    BY <1>2 DEF ValuesOf
  <2>2. ValuesOf(doc.leaves[r]) \in {ValuesOf(doc.leaves[q]) : q \in RootItems}
    OBVIOUS
  <2>3. Leaves(r)[p].val \in UNION {ValuesOf(doc.leaves[q]) : q \in RootItems}
    BY <2>1, <2>2, Zenon
  <2> QED
    BY <2>3 DEF Texts
<1>3. CASE Leaves(r) = doc.deep
  <2>1. Leaves(r)[p].val \in ValuesOf(doc.deep)
    BY <1>3 DEF ValuesOf
  <2> QED
    BY <2>1 DEF Texts
<1> QED
  BY <1>1, <1>2, <1>3

\* Reading any text of the document leaves the depth as it is.
LEMMA ReadNoMulti ==
    ASSUME NoMulti(doc), ~extraDepthLevel, NEW v \in Texts(doc)
    PROVE  ~tx_getToken(v)
<1>1. v \notin MultiTypes
  BY DocsAssumption DEF NoMulti, TypeTexts
<1> QED
  BY <1>1, Zenon DEF tx_getToken

LEMMA ReadOnlyMulti ==
    ASSUME OnlyMulti(doc), extraDepthLevel, NEW v \in Texts(doc)
    PROVE  tx_getToken(v)
<1>1. v \in MultiTypes \cup KnownTypes => v \in MultiTypes
  BY DEF OnlyMulti, TypeTexts
<1>2. CASE v \in MultiTypes \cup KnownTypes
  BY <1>1, <1>2, Zenon DEF tx_getToken
<1>3. CASE v \notin MultiTypes \cup KnownTypes
  BY <1>3, Zenon DEF tx_getToken
<1> QED
  BY <1>2, <1>3

LEMMA DepthStays ==
    ASSUME TypeOK, OneDepth(doc), NEW i,
           NoMulti(doc) => ~extraDepthLevel, OnlyMulti(doc) => extraDepthLevel
    PROVE  DepthAfter(tx_display_query(i)) = extraDepthLevel
<1> DEFINE leaf == tx_display_query(i)
<1> HIDE DEF leaf
<1>1. CASE leaf = NoLeaf \/ leaf.key \in AmountKeys
  BY <1>1 DEF DepthAfter, leaf
<1>2. CASE ~(leaf = NoLeaf \/ leaf.key \in AmountKeys)
  <2>1. leaf.val \in Texts(doc)
    BY <1>2, QueryResult, LeafText DEF leaf, TypeOK
  <2>2. DepthAfter(leaf) = tx_getToken(leaf.val)
    BY <1>2 DEF DepthAfter
  <2>3. tx_getToken(leaf.val) \in BOOLEAN /\ extraDepthLevel \in BOOLEAN
    BY TokenType DEF TypeOK
  <2>4. CASE NoMulti(doc)
    BY <2>1, <2>2, <2>3, <2>4, ReadNoMulti DEF leaf
  <2>5. CASE OnlyMulti(doc)
    BY <2>1, <2>2, <2>3, <2>5, ReadOnlyMulti DEF leaf
  <2> QED
    BY <2>4, <2>5 DEF OneDepth
<1> QED
  BY <1>1, <1>2 DEF leaf

\* What the counts and the walks depend on.
LEMMA SameItems ==
    ASSUME UNCHANGED <<doc, expert, cache, extraDepthLevel>>
    PROVE  /\ tx_display_numItems' = tx_display_numItems
           /\ \A i : tx_display_query(i)' = tx_display_query(i)
           /\ CountsFit' = CountsFit
  BY DEF tx_display_numItems, tx_display_query, CountsFit, ItemsBefore, ItemsIn,
         get_subitem_count, Grouped, retrieve_tree_indexes, tx_traverse_find, Skipped,
         SkipsType, SkipsFrom, Leaves, get_root_max_level,
         tx_is_expert_mode_or_not_default_chainid

LEMMA SameCount ==
    ASSUME UNCHANGED <<doc, expert, cache>>
    PROVE  tx_display_numItems' = tx_display_numItems
  BY DEF tx_display_numItems, ItemsBefore, ItemsIn,
         get_subitem_count, Grouped, tx_is_expert_mode_or_not_default_chainid

\* DepthInv speaks of these.
DepthVars == <<phase, doc, extraDepthLevel, root, item>>

LEMMA NextDepth ==
    ASSUME TypeOK, DepthInv, [Next]_vars
    PROVE  DepthInv'
<1>1. CASE UNCHANGED DepthVars
  BY <1>1 DEF DepthInv, DepthVars, NoMulti, OnlyMulti
<1>2. ASSUME NEW d \in Docs, ParseDocument(d) PROVE DepthInv'
  BY <1>2 DEF ParseDocument, DepthInv, msgs
<1>3. CASE IndexItem
  <2> DEFINE v == Leaves(root)[item].val
  <2>1. phase = "indexing" /\ phase' = phase /\ doc' = doc /\ extraDepthLevel' = tx_getToken(v)
    BY <1>3 DEF IndexItem
  <2>2. v \in Texts(doc)
    BY <1>3, LeafText DEF IndexItem, TypeOK
  <2>3. NoMulti(doc) => ~extraDepthLevel'
    BY <2>1, <2>2, ReadNoMulti DEF DepthInv
  <2>4. ASSUME OnlyMulti(doc), root' > msgs \/ (root' = msgs /\ item' > 1)
        PROVE  extraDepthLevel'
    <3>1. \/ root' = root + 1 /\ item' = 1
          \/ root' = root /\ item' = item + 1
      BY <1>3 DEF IndexItem, NextRoot
    <3>2. root \in 1 .. 8 /\ item \in Nat \ {0}
      BY DEF TypeOK
    <3>3. root > msgs \/ (root = msgs /\ item > 1) \/ (root = msgs /\ item = 1)
      BY <2>4, <3>1, <3>2 DEF msgs
    <3>4. CASE root > msgs \/ (root = msgs /\ item > 1)
      BY <2>1, <2>2, <2>4, <3>4, ReadOnlyMulti DEF DepthInv
    <3>5. CASE root = msgs /\ item = 1
      <4>1. Leaves(root) \in {doc.leaves[msgs], doc.deep}
        BY <3>5 DEF Leaves
      <4>2. v \in MultiTypes
        BY <2>4, <3>5, <4>1 DEF OnlyMulti, FirstIn
      <4> QED
        BY <2>1, <4>2, Zenon DEF tx_getToken
    <3> QED
      BY <3>3, <3>4, <3>5
  <2> QED
    BY <2>1, <2>3, <2>4 DEF DepthInv, NoMulti, OnlyMulti
<1>4. CASE IndexRootDone
  <2>1. phase = "indexing" /\ UNCHANGED <<phase, doc, extraDepthLevel>>
    BY <1>4 DEF IndexRootDone
  <2>2. root' = root + 1 /\ item' = 1 /\ root \in RootItems /\ item \notin DOMAIN Leaves(root)
    BY <1>4 DEF IndexRootDone, NextRoot
  <2>3. ASSUME OnlyMulti(doc), root' > msgs
        PROVE  root > msgs \/ (root = msgs /\ item > 1)
    <3>1. root > msgs \/ root = msgs
      BY <2>2, <2>3 DEF RootItems, msgs
    <3>2. CASE root = msgs
      <4>1. Leaves(root) \in {doc.leaves[msgs], doc.deep}
        BY <3>2 DEF Leaves
      <4>2. Leaves(root) # <<>> /\ Leaves(root) \in Seq(Leaf)
        BY <2>2, <2>3, <4>1, LeavesType DEF OnlyMulti, FirstIn, TypeOK
      <4>3. 1 \in DOMAIN Leaves(root)
        BY <4>2
      <4>4. item \in Nat \ {0} /\ item # 1
        BY <2>2, <4>3 DEF TypeOK
      <4> QED
        BY <3>2, <4>4
    <3> QED
      BY <3>1, <3>2
  <2>4. OnlyMulti(doc) /\ root' > msgs => extraDepthLevel
    BY <2>1, <2>3 DEF DepthInv
  <2> QED
    BY <2>1, <2>2, <2>4 DEF DepthInv, NoMulti, OnlyMulti
<1>5. CASE IndexDone
  <2> DEFINE v == doc.leaves[chain_id][1].val
  <2>1. phase = "indexing" /\ doc' = doc /\ root > msgs
    BY <1>5 DEF IndexDone, TypeOK, RootItems, msgs
  <2>2. extraDepthLevel' = extraDepthLevel
        \/ (doc.leaves[chain_id] # <<>> /\ extraDepthLevel' = tx_getToken(v))
    BY <1>5 DEF IndexDone, ChainLeaves
  <2>3. phase' \in {"rejected", "validating"}
    BY <1>5 DEF IndexDone
  <2>4. ASSUME doc.leaves[chain_id] # <<>> PROVE v \in Texts(doc)
    <3>1. doc.leaves[chain_id] \in Seq(Leaf) /\ chain_id \in RootItems
      BY DEF TypeOK, Documents, chain_id, RootItems
    <3>2. 1 \in DOMAIN doc.leaves[chain_id]
      BY <2>4, <3>1
    <3>3. Leaves(chain_id) = doc.leaves[chain_id]
      BY DEF Leaves, get_root_max_level, chain_id, msgs
    <3> QED
      BY <3>1, <3>2, <3>3, LeafText DEF TypeOK
  <2>5. NoMulti(doc) => ~extraDepthLevel'
    BY <2>1, <2>2, <2>4, ReadNoMulti DEF DepthInv
  <2>6. OnlyMulti(doc) => extraDepthLevel'
    BY <2>1, <2>2, <2>4, ReadOnlyMulti DEF DepthInv
  <2> QED
    BY <2>1, <2>3, <2>5, <2>6 DEF DepthInv, NoMulti, OnlyMulti
<1>6. CASE ValidateItem
  <2>1. phase = "validating" /\ doc' = doc /\ phase' \in {"validating", "review", "rejected"}
    BY <1>6 DEF ValidateItem
  <2>2. \/ UNCHANGED extraDepthLevel
        \/ extraDepthLevel' = DepthAfter(tx_display_query(Len(checked)))
    BY <1>6 DEF ValidateItem
  <2>3. OneDepth(doc) => extraDepthLevel' = extraDepthLevel
    BY <2>1, <2>2, DepthStays DEF DepthInv
  <2> QED
    BY <2>1, <2>3 DEF DepthInv, OneDepth, NoMulti, OnlyMulti
<1>7. ASSUME NEW i \in 0 .. ByteMax, tx_getItem(i) PROVE DepthInv'
  <2>1. phase = "review" /\ UNCHANGED <<phase, doc>>
        /\ extraDepthLevel' = DepthAfter(tx_display_query(i))
    BY <1>7 DEF tx_getItem
  <2>2. OneDepth(doc) => extraDepthLevel' = extraDepthLevel
    BY <2>1, DepthStays DEF DepthInv
  <2> QED
    BY <2>1, <2>2 DEF DepthInv, OneDepth, NoMulti, OnlyMulti
<1>8. CASE EndReview
  BY <1>8 DEF EndReview, DepthInv
<1>9. CASE ToggleExpert
  BY <1>1, <1>9 DEF ToggleExpert, DepthVars
<1> QED
  BY <1>1, <1>2, <1>3, <1>4, <1>5, <1>6, <1>7, <1>8, <1>9 DEF Next, vars, DepthVars

\* A step that leaves the items alone keeps StableInv.
LEMMA StableStays ==
    ASSUME StableInv,
           UNCHANGED <<phase, doc, expert, cache, extraDepthLevel, checked, seen>>
    PROVE  StableInv'
  BY SameItems DEF StableInv, OneDepth, NoMulti, OnlyMulti

LEMMA ValidateStable ==
    ASSUME ItemInv, ValidateItem
    PROVE  StableInv'
<1> DEFINE i == Len(checked)
           leaf == tx_display_query(i)
<1> USE DEF ItemInv
<1>1. phase = "validating" /\ UNCHANGED <<doc, expert, cache, root, item, seen>> /\ seen = {}
  BY DEF ValidateItem, StableInv
<1>2. CASE phase' = "rejected"
  BY <1>2 DEF StableInv
<1>3. CASE /\ Len(checked) = tx_display_numItems /\ phase' = "review"
           /\ UNCHANGED <<extraDepthLevel, checked>>
  BY <1>1, <1>3, SameItems DEF StableInv, OneDepth, NoMulti, OnlyMulti
<1>4. CASE /\ phase' = phase /\ checked' = Append(checked, leaf)
           /\ extraDepthLevel' = DepthAfter(leaf)
  <2>1. ASSUME OneDepth(doc), NEW j \in DOMAIN checked'
        PROVE  checked'[j] = tx_display_query(j - 1)'
    <3>1. extraDepthLevel' = extraDepthLevel
      BY <1>1, <1>4, <2>1, DepthStays DEF DepthInv
    <3>2. \A k : tx_display_query(k)' = tx_display_query(k)
      BY <1>1, <3>1, SameItems
    <3>3. leaf \in Leaf \cup {NoLeaf}
      BY QueryType DEF TypeOK
    <3>4. checked \in Seq(Leaf)
      BY DEF TypeOK
    <3>5. CASE j \in DOMAIN checked
      <4>1. checked'[j] = checked[j]
        BY <1>4, <3>4, <3>5
      <4>2. checked[j] = tx_display_query(j - 1)
        BY <1>1, <2>1, <3>5 DEF StableInv
      <4> QED
        BY <3>2, <4>1, <4>2
    <3>6. CASE j \notin DOMAIN checked
      <4>1. j = Len(checked) + 1 /\ checked'[j] = leaf
        BY <1>4, <2>1, <3>4, <3>6
      <4>2. j - 1 = i
        BY <3>4, <4>1
      <4> QED
        BY <3>2, <4>1, <4>2
    <3> QED
      BY <3>5, <3>6
  <2>2. OneDepth(doc)' = OneDepth(doc)
    BY <1>1 DEF OneDepth, NoMulti, OnlyMulti
  <2> QED
    BY <1>1, <1>4, <2>1, <2>2 DEF StableInv
<1> QED
  BY <1>2, <1>3, <1>4 DEF ValidateItem

LEMMA GetItemStable ==
    ASSUME ItemInv, NEW i \in 0 .. ByteMax, tx_getItem(i)
    PROVE  StableInv'
<1> USE DEF ItemInv
<1>1. phase = "review" /\ UNCHANGED <<phase, doc, expert, cache, checked>>
  BY DEF tx_getItem
<1>2. tx_display_numItems' = tx_display_numItems
  BY <1>1, SameCount
<1>3. ASSUME OneDepth(doc)
      PROVE  \A k : tx_display_query(k)' = tx_display_query(k)
  <2>1. extraDepthLevel' = extraDepthLevel
    BY <1>1, <1>3, DepthStays DEF DepthInv, tx_getItem
  <2> QED
    BY <1>1, <2>1, SameItems
<1>4. seen' = seen \cup {[index |-> i, leaf |-> tx_display_query(i)]}
  BY DEF tx_getItem
<1>5. tx_display_numItems = Len(checked) /\ checked \in Seq(Leaf)
  BY <1>1 DEF StableInv, TypeOK
<1>6. i < tx_display_numItems
  BY <1>5 DEF tx_getItem, Showable
<1>7. OneDepth(doc)' = OneDepth(doc)
  BY <1>1 DEF OneDepth, NoMulti, OnlyMulti
<1> QED
  BY <1>1, <1>2, <1>3, <1>4, <1>6, <1>7 DEF StableInv

LEMMA NextStable ==
    ASSUME ItemInv, [Next]_vars
    PROVE  StableInv'
<1>1. CASE UNCHANGED vars
  BY <1>1, StableStays DEF ItemInv, vars
<1>2. ASSUME NEW d \in Docs, ParseDocument(d) PROVE StableInv'
  BY <1>2 DEF ParseDocument, StableInv
<1>3. CASE IndexItem \/ IndexRootDone
  BY <1>3 DEF IndexItem, IndexRootDone, ItemInv, StableInv
<1>4. CASE IndexDone
  BY <1>4 DEF IndexDone, ItemInv, StableInv
<1>5. CASE ValidateItem
  BY <1>5, ValidateStable
<1>6. ASSUME NEW i \in 0 .. ByteMax, tx_getItem(i) PROVE StableInv'
  BY <1>6, GetItemStable
<1>7. CASE EndReview
  BY <1>7 DEF EndReview, StableInv
<1>8. CASE ToggleExpert
  BY <1>8 DEF ToggleExpert, Idle, StableInv
<1> QED
  BY <1>1, <1>2, <1>3, <1>4, <1>5, <1>6, <1>7, <1>8 DEF Next

\* The inductive invariant behind the next theorem: the depth flag has the depth
\* of the document, and what was fetched once is what would be fetched now
\* (tx_traverse_find).
THEOREM ItemInvariant == Spec => []ItemInv
<1>1. Init => ItemInv
  <2>1. Init => DepthInv /\ StableInv
    BY DEF Init, DepthInv, StableInv, msgs
  <2> QED
    BY <2>1, InitTyped DEF ItemInv
<1>2. ItemInv /\ [Next]_vars => ItemInv'
  BY NextTyped, NextDepth, NextStable DEF ItemInv
<1> QED
  BY <1>1, <1>2, PTL DEF Spec

\* An item shows in the review what it showed when parser_validate accepted it,
\* whatever was read in between.
THEOREM ShownAsChecked == Spec => []SeenAsChecked
<1>1. ItemInv => SeenAsChecked
  <2> SUFFICES ASSUME ItemInv, phase = "review", OneDepth(doc), NEW s \in seen
               PROVE  s.leaf = checked[s.index + 1]
    BY DEF SeenAsChecked
  <2>1. s.index \in Nat /\ s.index < Len(checked) /\ s.leaf = tx_display_query(s.index)
    BY DEF ItemInv, TypeOK, StableInv
  <2>2. s.index + 1 \in DOMAIN checked /\ (s.index + 1) - 1 = s.index
    BY <2>1 DEF ItemInv, TypeOK
  <2>3. checked[s.index + 1] = tx_display_query((s.index + 1) - 1)
    BY <2>2 DEF ItemInv, StableInv
  <2> QED
    BY <2>1, <2>2, <2>3
<1> QED
  BY <1>1, ItemInvariant, PTL

----------------------------------------------------------------------------
(* Numbers of what is not skipped                                          *)

LEMMA Largest ==
    ASSUME NEW S \in SUBSET Nat, IsFiniteSet(S), S # {}
    PROVE  \E m \in S : \A i \in S : i <= m
<1> DEFINE From(m) == {i \in S : m <= i}
           F == {From(m) : m \in S}
           R == StrictSubsetOrdering(S)
<1>1. IsWellFoundedOn(R, SUBSET S)
  <2>1. FiniteSubsetsOf(S) = SUBSET S
    BY FS_FiniteSubsetsOfFinite
  <2> QED
    BY <2>1, FS_StrictSubsetOrderingWellFounded
<1>2. F \subseteq SUBSET S /\ F # {}
  OBVIOUS
<1>3. PICK x \in F : \A y \in F : ~(<<y, x>> \in R)
  <2> HIDE DEF F, R
  <2> QED
    BY <1>1, <1>2, WFMin
<1>4. PICK m \in S : x = From(m)
  BY <1>3
<1>5. ASSUME NEW i \in S, ~(i <= m) PROVE FALSE
  <2>1. From(i) \in F /\ From(i) \in SUBSET S /\ From(m) \in SUBSET S
    OBVIOUS
  <2>2. m <= i /\ m <= m /\ ~(i <= m) /\ m \in Nat /\ i \in Nat
    BY <1>5
  <2>3. m \in From(m) /\ m \notin From(i) /\ From(i) \subseteq From(m)
    <3>1. \A k \in S : i <= k => m <= k
      BY <2>2
    <3> QED
      BY <2>2, <3>1, Zenon
  <2>4. <<From(i), From(m)>> \in R
    <3> HIDE DEF From
    <3> QED
      BY <2>1, <2>3 DEF StrictSubsetOrdering
  <2> QED
    BY <1>3, <1>4, <2>1, <2>4
<1> QED
  BY <1>4, <1>5

\* The positions up to p that are not skipped.
Kept(p, skipped) == (1 .. p) \ skipped

LEMMA KeptGrows ==
    ASSUME NEW p \in Nat, NEW X
    PROVE  /\ IsFiniteSet(Kept(p, X)) /\ Cardinality(Kept(p, X)) \in Nat
           /\ p + 1 \in X => Kept(p + 1, X) = Kept(p, X)
           /\ p + 1 \notin X => Cardinality(Kept(p + 1, X)) = Cardinality(Kept(p, X)) + 1
<1>1. IsFiniteSet(1 .. p)
  BY FS_Interval
<1>2. Kept(p, X) \in SUBSET (1 .. p)
  BY DEF Kept
<1>3. IsFiniteSet(Kept(p, X))
  BY <1>1, <1>2, FS_Subset
<1>4. Cardinality(Kept(p, X)) \in Nat
  BY <1>3, FS_CardinalityType
<1>5. 1 .. (p + 1) = (1 .. p) \cup {p + 1}
  OBVIOUS
<1>6. p + 1 \in X => Kept(p + 1, X) = Kept(p, X)
  BY <1>5 DEF Kept
<1>7. ASSUME p + 1 \notin X
      PROVE  Cardinality(Kept(p + 1, X)) = Cardinality(Kept(p, X)) + 1
  <2>1. Kept(p + 1, X) = Kept(p, X) \cup {p + 1}
    BY <1>5, <1>7 DEF Kept
  <2>2. p + 1 \notin Kept(p, X)
    BY DEF Kept
  <2> QED
    BY <1>3, <2>1, <2>2, FS_AddElement
<1> QED
  BY <1>3, <1>4, <1>6, <1>7

LEMMA KeptMonotone ==
    ASSUME NEW p \in Nat, NEW q \in Nat, p <= q, NEW X
    PROVE  Cardinality(Kept(p, X)) <= Cardinality(Kept(q, X))
<1>1. Kept(p, X) \in SUBSET Kept(q, X)
  BY DEF Kept
<1> QED
  BY <1>1, KeptGrows, FS_Subset

\* Of n positions of which k are not skipped, each number below k is the number
\* of one.
LEMMA NumberTaken ==
    ASSUME NEW n \in Nat, NEW X, NEW t \in Nat, t < Cardinality(Kept(n, X))
    PROVE  \E p \in Kept(n, X) : Cardinality(Kept(p - 1, X)) = t
<1> DEFINE S == {p \in 0 .. n : Cardinality(Kept(p, X)) <= t}
<1>1. S \in SUBSET Nat /\ IsFiniteSet(S)
  <2>1. IsFiniteSet(0 .. n) /\ S \in SUBSET (0 .. n)
    BY FS_Interval
  <2> QED
    BY <2>1, FS_Subset
<1>2. 0 \in S
  <2>1. Kept(0, X) = {}
    BY DEF Kept
  <2> QED
    BY <2>1, FS_EmptySet
<1>3. PICK m \in S : \A i \in S : i <= m
  <2> HIDE DEF S
  <2> QED
    BY <1>1, <1>2, Largest
<1>4. m \in Nat /\ m < n
  <2>1. m \in 0 .. n /\ m # n
    <3>1. Cardinality(Kept(n, X)) \in Nat
      BY KeptGrows
    <3> QED
      BY <1>3, <3>1
  <2> QED
    BY <2>1
<1>5. Cardinality(Kept(m, X)) <= t /\ ~(Cardinality(Kept(m + 1, X)) <= t)
  <2>1. m + 1 \in 0 .. n /\ m + 1 \notin S
    BY <1>3, <1>4
  <2> QED
    BY <1>3, <2>1
<1>6. m + 1 \notin X /\ Cardinality(Kept(m + 1, X)) = Cardinality(Kept(m, X)) + 1
  BY <1>4, <1>5, KeptGrows
<1>7. Cardinality(Kept(m, X)) \in Nat
  BY <1>4, KeptGrows
<1>8. Cardinality(Kept(m, X)) = t
  BY <1>5, <1>6, <1>7
<1>9. m + 1 \in Kept(n, X) /\ (m + 1) - 1 = m
  BY <1>4, <1>6 DEF Kept
<1> QED
  BY <1>8, <1>9

\* No two positions have the same number, and each number is below k.
LEMMA NumberUnique ==
    ASSUME NEW n \in Nat, NEW X, NEW p \in Kept(n, X), NEW q \in Kept(n, X), p < q
    PROVE  Cardinality(Kept(p - 1, X)) < Cardinality(Kept(q - 1, X))
<1>1. p \in Nat \ {0} /\ q \in Nat \ {0} /\ p \notin X
  BY DEF Kept
<1>2. p - 1 \in Nat /\ q - 1 \in Nat /\ (p - 1) + 1 = p /\ p <= q - 1
  BY <1>1
<1>3. Cardinality(Kept(p, X)) = Cardinality(Kept(p - 1, X)) + 1
  <2>1. (p - 1) + 1 \notin X
    BY <1>1, <1>2
  <2>2. Cardinality(Kept((p - 1) + 1, X)) = Cardinality(Kept(p - 1, X)) + 1
    BY <1>2, <2>1, KeptGrows
  <2> QED
    BY <1>2, <2>2
<1>4. Cardinality(Kept(p, X)) <= Cardinality(Kept(q - 1, X))
  BY <1>1, <1>2, KeptMonotone
<1>5. Cardinality(Kept(p - 1, X)) \in Nat /\ Cardinality(Kept(q - 1, X)) \in Nat
  BY <1>2, KeptGrows
<1> QED
  BY <1>3, <1>4, <1>5

LEMMA NumberBelow ==
    ASSUME NEW n \in Nat, NEW X, NEW p \in Kept(n, X)
    PROVE  /\ Cardinality(Kept(p - 1, X)) \in Nat
           /\ Cardinality(Kept(p - 1, X)) < Cardinality(Kept(n, X))
<1>1. p \in Nat \ {0} /\ p <= n /\ p \notin X
  BY DEF Kept
<1>2. p - 1 \in Nat /\ (p - 1) + 1 = p
  BY <1>1
<1>3. Cardinality(Kept(p, X)) = Cardinality(Kept(p - 1, X)) + 1
  <2>1. (p - 1) + 1 \notin X
    BY <1>1, <1>2
  <2>2. Cardinality(Kept((p - 1) + 1, X)) = Cardinality(Kept(p - 1, X)) + 1
    BY <1>2, <2>1, KeptGrows
  <2> QED
    BY <1>2, <2>2
<1>4. Cardinality(Kept(p, X)) <= Cardinality(Kept(n, X))
  BY <1>1, KeptMonotone
<1>5. Cardinality(Kept(p - 1, X)) \in Nat /\ Cardinality(Kept(n, X)) \in Nat
  BY <1>2, KeptGrows
<1> QED
  BY <1>3, <1>4, <1>5

----------------------------------------------------------------------------
(* Items and their numbers                                                 *)

\* The walk for number t finds the one leaf that has this number.
LEMMA WalkFinds ==
    ASSUME NEW leaves \in Seq(Leaf), NEW p \in DOMAIN leaves \ Skipped(leaves),
           NEW t, t = Cardinality(Kept(p - 1, Skipped(leaves)))
    PROVE  tx_traverse_find(leaves, t) = {p}
<1> DEFINE X == Skipped(leaves)
           n == Len(leaves)
<1>1. n \in Nat /\ DOMAIN leaves = 1 .. n
  OBVIOUS
<1>2. DOMAIN leaves \ X = Kept(n, X)
  BY <1>1 DEF Kept
<1>3. ASSUME NEW q \in Kept(n, X)
      PROVE  Cardinality(Kept(q - 1, X)) = t <=> q = p
  <2> HIDE DEF X, n
  <2>1. p \in Kept(n, X) /\ p \in Nat /\ q \in Nat
    BY <1>2 DEF Kept, X
  <2>2. Cardinality(Kept(q - 1, X)) \in Nat /\ Cardinality(Kept(p - 1, X)) \in Nat
    BY <1>1, <2>1, NumberBelow
  <2>3. CASE p < q
    BY <1>1, <2>1, <2>2, <2>3, NumberUnique DEF X
  <2>4. CASE q < p
    BY <1>1, <2>1, <2>2, <2>4, NumberUnique DEF X
  <2>5. CASE q = p
    BY <2>5 DEF X
  <2> QED
    BY <2>1, <2>3, <2>4, <2>5
<1>4. tx_traverse_find(leaves, t) = {q \in Kept(n, X) : Cardinality(Kept(q - 1, X)) = t}
  BY <1>2 DEF tx_traverse_find, Kept
<1>5. p \in Kept(n, X)
  BY <1>2
<1> HIDE DEF X, n
<1> QED
  BY <1>3, <1>4, <1>5

\* Every number below the count of the leaves that are not skipped is found.
LEMMA WalkReaches ==
    ASSUME NEW leaves \in Seq(Leaf), NEW t \in Nat,
           t < Cardinality(DOMAIN leaves \ Skipped(leaves))
    PROVE  \E p \in DOMAIN leaves \ Skipped(leaves) : tx_traverse_find(leaves, t) = {p}
<1> DEFINE X == Skipped(leaves)
           n == Len(leaves)
<1>1. n \in Nat /\ DOMAIN leaves \ X = Kept(n, X)
  BY DEF Kept
<1>2. PICK p \in Kept(n, X) : Cardinality(Kept(p - 1, X)) = t
  <2>1. t < Cardinality(Kept(n, X))
    BY <1>1
  <2> HIDE DEF X, n
  <2> QED
    BY <1>1, <2>1, NumberTaken
<1> QED
  BY <1>1, <1>2, WalkFinds

\* The items of the root fields follow each other.
LEMMA RootsFollow ==
    ASSUME CountsFit
    PROVE  /\ \A r \in RootItems : get_subitem_count(r) \in Nat
           /\ \A r \in 1 .. 8 : ItemsBefore(r) \in Nat
           /\ ItemsBefore(1) = 0
           /\ \A r \in RootItems : ItemsBefore(r + 1) = ItemsBefore(r) + get_subitem_count(r)
<1>1. \A r \in RootItems : get_subitem_count(r) \in Nat
  BY DocsAssumption DEF CountsFit
<1>2. PICK c1 : c1 = get_subitem_count(1)
  OBVIOUS
<1>3. PICK c2 : c2 = get_subitem_count(2)
  OBVIOUS
<1>4. PICK c3 : c3 = get_subitem_count(3)
  OBVIOUS
<1>5. PICK c4 : c4 = get_subitem_count(4)
  OBVIOUS
<1>6. PICK c5 : c5 = get_subitem_count(5)
  OBVIOUS
<1>7. PICK c6 : c6 = get_subitem_count(6)
  OBVIOUS
<1>8. PICK c7 : c7 = get_subitem_count(7)
  OBVIOUS
<1>9. /\ c1 \in Nat /\ c2 \in Nat /\ c3 \in Nat /\ c4 \in Nat
      /\ c5 \in Nat /\ c6 \in Nat /\ c7 \in Nat
  BY <1>1, <1>2, <1>3, <1>4, <1>5, <1>6, <1>7, <1>8 DEF RootItems
<1>10. /\ ItemsBefore(1) = 0 /\ ItemsBefore(2) = c1 /\ ItemsBefore(3) = c1 + c2
       /\ ItemsBefore(4) = c1 + c2 + c3 /\ ItemsBefore(5) = c1 + c2 + c3 + c4
       /\ ItemsBefore(6) = c1 + c2 + c3 + c4 + c5
       /\ ItemsBefore(7) = c1 + c2 + c3 + c4 + c5 + c6
       /\ ItemsBefore(8) = c1 + c2 + c3 + c4 + c5 + c6 + c7
  BY <1>2, <1>3, <1>4, <1>5, <1>6, <1>7, <1>8, <1>9 DEF ItemsBefore, ItemsIn
<1>11. \A r \in 1 .. 8 : ItemsBefore(r) \in Nat
  BY <1>9, <1>10
<1>12. \A r \in RootItems : ItemsBefore(r + 1) = ItemsBefore(r) + get_subitem_count(r)
  BY <1>2, <1>3, <1>4, <1>5, <1>6, <1>7, <1>8, <1>9, <1>10 DEF RootItems
<1> QED
  BY <1>1, <1>10, <1>11, <1>12

LEMMA RootsOrdered ==
    ASSUME CountsFit, NEW q \in RootItems, NEW r \in 1 .. 8, q < r
    PROVE  ItemsBefore(q) + get_subitem_count(q) <= ItemsBefore(r)
<1>1. /\ \A k \in RootItems : get_subitem_count(k) \in Nat
      /\ \A k \in 1 .. 8 : ItemsBefore(k) \in Nat
      /\ \A k \in RootItems : ItemsBefore(k + 1) = ItemsBefore(k) + get_subitem_count(k)
  BY RootsFollow
<1>2. \A k \in RootItems : ItemsBefore(k) <= ItemsBefore(k + 1) /\ k \in 1 .. 8 /\ k + 1 \in 1 .. 8
  <2>1. \A k \in RootItems : k \in 1 .. 8 /\ k + 1 \in 1 .. 8
    BY DEF RootItems
  <2> QED
    BY <1>1, <2>1
<1>3. PICK b1, b2, b3, b4, b5, b6, b7, b8 :
        /\ b1 = ItemsBefore(1) /\ b2 = ItemsBefore(2) /\ b3 = ItemsBefore(3)
        /\ b4 = ItemsBefore(4) /\ b5 = ItemsBefore(5) /\ b6 = ItemsBefore(6)
        /\ b7 = ItemsBefore(7) /\ b8 = ItemsBefore(8)
  OBVIOUS
<1>4. /\ b1 \in Nat /\ b2 \in Nat /\ b3 \in Nat /\ b4 \in Nat
      /\ b5 \in Nat /\ b6 \in Nat /\ b7 \in Nat /\ b8 \in Nat
  BY <1>1, <1>3
<1>5. b1 <= b2 /\ b2 <= b3 /\ b3 <= b4 /\ b4 <= b5 /\ b5 <= b6 /\ b6 <= b7 /\ b7 <= b8
  <2>1. /\ 1 + 1 = 2 /\ 2 + 1 = 3 /\ 3 + 1 = 4 /\ 4 + 1 = 5 /\ 5 + 1 = 6 /\ 6 + 1 = 7 /\ 7 + 1 = 8
        /\ 1 \in RootItems /\ 2 \in RootItems /\ 3 \in RootItems /\ 4 \in RootItems
        /\ 5 \in RootItems /\ 6 \in RootItems /\ 7 \in RootItems
    BY DEF RootItems
  <2> QED
    BY <1>2, <1>3, <2>1
<1>6. ItemsBefore(q + 1) <= ItemsBefore(r)
  <2>1. q \in 1 .. 7
    BY DEF RootItems
  <2> QED
    BY <1>3, <1>4, <1>5, <2>1
<1> QED
  BY <1>1, <1>6

\* Item number ItemsBefore(r) + t is number t of root field r.
LEMMA Located ==
    ASSUME CountsFit, NEW r \in RootItems, NEW t \in Nat, t < get_subitem_count(r)
    PROVE  /\ retrieve_tree_indexes(ItemsBefore(r) + t) = {r}
           /\ ItemsBefore(r) + t \in 0 .. (tx_display_numItems - 1)
<1> DEFINE i == ItemsBefore(r) + t
<1>1. /\ \A k \in RootItems : get_subitem_count(k) \in Nat
      /\ \A k \in 1 .. 8 : ItemsBefore(k) \in Nat
  BY RootsFollow
<1>2. r \in 1 .. 8 /\ r < 8 /\ 8 \in 1 .. 8
  BY DEF RootItems
<1>3. i - ItemsBefore(r) \in 0 .. (get_subitem_count(r) - 1)
  BY <1>1, <1>2
<1>4. ASSUME NEW q \in RootItems, q # r
      PROVE  i - ItemsBefore(q) \notin 0 .. (get_subitem_count(q) - 1)
  <2>1. q \in 1 .. 8 /\ q < 8
    BY DEF RootItems
  <2>2. CASE q < r
    <3>1. ItemsBefore(q) + get_subitem_count(q) <= ItemsBefore(r)
      BY <1>2, <2>2, RootsOrdered
    <3> QED
      BY <1>1, <1>2, <2>1, <3>1
  <2>3. CASE r < q
    <3>1. ItemsBefore(r) + get_subitem_count(r) <= ItemsBefore(q)
      BY <2>1, <2>3, RootsOrdered
    <3> QED
      BY <1>1, <1>2, <2>1, <3>1
  <2> QED
    BY <1>2, <1>4, <2>1, <2>2, <2>3
<1>5. retrieve_tree_indexes(i) = {r}
  <2> HIDE DEF i
  <2> QED
    BY <1>3, <1>4 DEF retrieve_tree_indexes
<1>6. ItemsBefore(r) + get_subitem_count(r) <= tx_display_numItems
  BY <1>2, RootsOrdered DEF tx_display_numItems
<1>7. tx_display_numItems \in Nat
  BY <1>1, <1>2 DEF tx_display_numItems
<1> QED
  BY <1>1, <1>2, <1>5, <1>6, <1>7

LEMMA EveryItemLocated ==
    ASSUME CountsFit, NEW i \in Nat, i < tx_display_numItems
    PROVE  \E r \in RootItems : \E t \in Nat : t < get_subitem_count(r) /\ i = ItemsBefore(r) + t
<1>1. /\ \A k \in RootItems : get_subitem_count(k) \in Nat
      /\ \A k \in 1 .. 8 : ItemsBefore(k) \in Nat
      /\ ItemsBefore(1) = 0
      /\ \A k \in RootItems : ItemsBefore(k + 1) = ItemsBefore(k) + get_subitem_count(k)
  BY RootsFollow
<1>2. \E r \in RootItems : ItemsBefore(r) <= i /\ i < ItemsBefore(r + 1)
  <2>1. SUFFICES ASSUME \A r \in RootItems : ~(ItemsBefore(r) <= i /\ i < ItemsBefore(r + 1))
                 PROVE  FALSE
    OBVIOUS
  <2>2. \A r \in 1 .. 7 : ItemsBefore(r) <= i => ItemsBefore(r + 1) <= i
    <3>1. \A r \in 1 .. 7 : r \in RootItems /\ r + 1 \in 1 .. 8
      BY DEF RootItems
    <3> QED
      BY <1>1, <2>1, <3>1
  <2>3. ItemsBefore(1) <= i
    BY <1>1
  <2>4. /\ 1 + 1 = 2 /\ 2 + 1 = 3 /\ 3 + 1 = 4 /\ 4 + 1 = 5 /\ 5 + 1 = 6 /\ 6 + 1 = 7 /\ 7 + 1 = 8
        /\ 1 \in 1 .. 7 /\ 2 \in 1 .. 7 /\ 3 \in 1 .. 7 /\ 4 \in 1 .. 7
        /\ 5 \in 1 .. 7 /\ 6 \in 1 .. 7 /\ 7 \in 1 .. 7
    OBVIOUS
  <2>5. ItemsBefore(8) <= i
    BY <2>2, <2>3, <2>4
  <2> QED
    BY <1>1, <2>5 DEF tx_display_numItems
<1>3. PICK r \in RootItems : ItemsBefore(r) <= i /\ i < ItemsBefore(r + 1)
  BY <1>2
<1>4. r \in 1 .. 8
  BY DEF RootItems
<1>5. i - ItemsBefore(r) \in Nat /\ i - ItemsBefore(r) < get_subitem_count(r)
  BY <1>1, <1>3, <1>4
<1>6. i = ItemsBefore(r) + (i - ItemsBefore(r))
  BY <1>1, <1>4
<1> QED
  BY <1>5, <1>6

\* The item with this number is the leaf its walk finds.
LEMMA QueryIs ==
    ASSUME NEW i, NEW r \in RootItems, NEW p,
           retrieve_tree_indexes(i) = {r},
           tx_traverse_find(Leaves(r), i - ItemsBefore(r)) = {p}
    PROVE  tx_display_query(i) = Leaves(r)[p]
<1> DEFINE found == UNION {{Leaves(s)[k] :
                              k \in tx_traverse_find(Leaves(s), i - ItemsBefore(s))} :
                           s \in retrieve_tree_indexes(i)}
<1>1. {{Leaves(s)[k] : k \in tx_traverse_find(Leaves(s), i - ItemsBefore(s))} :
         s \in retrieve_tree_indexes(i)} = {{Leaves(r)[p]}}
  OBVIOUS
<1>2. found = {Leaves(r)[p]}
  BY <1>1
<1>3. tx_display_query(i) = IF found = {} THEN NoLeaf ELSE CHOOSE leaf \in found : TRUE
  BY DEF tx_display_query
<1> HIDE DEF found
<1> QED
  BY <1>2, <1>3

----------------------------------------------------------------------------
(* Counting and grouping while indexing                                    *)

\* The leaves of msgs that all walks meet but the first, which may come before
\* the type of the first message set the depth.
MsgLeaves == IF NoMulti(doc) THEN doc.leaves[msgs] ELSE doc.deep

\* How many of them are indexed.
Indexed ==
    IF root < msgs THEN 0 ELSE IF root = msgs THEN item - 1 ELSE Len(MsgLeaves)

Fields(key, n) == {p \in 1 .. n : MsgLeaves[p].key = key}

\* A group that is still on has counted its fields, or so many that the byte
\* wrapped; it keeps the place of one of them, and as long as it counts them all
\* they agree with the reference.
Group(count, idx, ref, fields) ==
    /\ count <= Cardinality(fields)
    /\ count = Cardinality(fields) \/ count + ByteMax < Cardinality(fields)
    /\ fields # {} => idx \in fields
    /\ count = Cardinality(fields) => \A p \in fields : FirstPage[MsgLeaves[p].val] = ref

RootsCounted ==
    \A r \in RootItems \ {msgs} :
        /\ r > root => cache.counts[r] = 0
        /\ r = root => cache.counts[r] = item - 1
        /\ cache.counts[r] <= Len(doc.leaves[r])
        /\ r < root => \/ cache.counts[r] = Len(doc.leaves[r])
                       \/ /\ r = memo
                          /\ doc.leaves[r][cache.counts[r] + 1].val = EmptyVal
        /\ r = memo => \A p \in 1 .. cache.counts[r] : doc.leaves[r][p].val # EmptyVal

MsgsCounted ==
    /\ cache.counts[msgs] = Indexed /\ Indexed <= Len(MsgLeaves)
    /\ cache.typeGrouping =>
         Group(cache.typeCount, cache.typeIdx, cache.typeRef, Fields("type", Indexed))
    /\ cache.fromGrouping =>
         Group(cache.fromCount, cache.fromIdx, cache.fromRef, Fields("delegator", Indexed))

\* What is settled once the document is indexed.
Settled ==
    /\ root = 8 /\ cache.valid
    /\ cache.isDefault <=> calculate_is_default_chainid
    /\ cache.fromGrouping => ~tx_is_expert_mode_or_not_default_chainid
    /\ cache.hideAll <=> cache.fromRef = OwnAddress

CountInv ==
    phase \in {"indexing", "validating", "review"} =>
        /\ doc \in Docs
        /\ RootsCounted
        /\ OneDepth(doc) => MsgsCounted
        /\ phase # "indexing" => Settled
        /\ phase = "review" => CountsFit /\ tx_display_numItems <= ByteMax

LEMMA FieldsFinite ==
    ASSUME NEW n \in Nat, NEW key
    PROVE  IsFiniteSet(Fields(key, n)) /\ Cardinality(Fields(key, n)) \in Nat
<1>1. IsFiniteSet(1 .. n) /\ Fields(key, n) \in SUBSET (1 .. n)
  BY FS_Interval DEF Fields
<1> QED
  BY <1>1, FS_Subset, FS_CardinalityType

LEMMA FieldsGrow ==
    ASSUME NEW n \in Nat, NEW key
    PROVE  /\ n + 1 \notin Fields(key, n)
           /\ MsgLeaves[n + 1].key = key => Fields(key, n + 1) = Fields(key, n) \cup {n + 1}
           /\ MsgLeaves[n + 1].key # key => Fields(key, n + 1) = Fields(key, n)
<1>1. 1 .. (n + 1) = (1 .. n) \cup {n + 1}
  OBVIOUS
<1> QED
  BY <1>1 DEF Fields

\* One field more in a group that is on.
LEMMA GroupGrows ==
    ASSUME NEW count \in 0 .. ByteMax, NEW idx, NEW ref, NEW fields, NEW p,
           IsFiniteSet(fields), p \notin fields,
           Group(count, idx, ref, fields),
           NEW text, text = FirstPage[MsgLeaves[p].val],
           text = IF count = 0 THEN text ELSE ref,
           NEW newIdx, newIdx = IF count = 0 THEN p ELSE idx,
           NEW newCount, newCount = Wrap(count + 1)
    PROVE  Group(newCount, newIdx, text, fields \cup {p})
<1>2. PICK n : n = Cardinality(fields)
  OBVIOUS
<1>3. n \in Nat /\ Cardinality(fields \cup {p}) = n + 1
  BY <1>2, FS_CardinalityType, FS_AddElement
<1>4. count <= n /\ (count = n \/ count + ByteMax < n)
  BY <1>2 DEF Group
<1>5. newCount = IF count = ByteMax THEN 0 ELSE count + 1
  BY DocsAssumption DEF Wrap
<1>6. newCount <= n + 1 /\ (newCount = n + 1 \/ newCount + ByteMax < n + 1)
  BY <1>3, <1>4, <1>5, DocsAssumption
<1>7. newIdx \in fields \cup {p}
  <2>1. CASE count = 0
    BY <2>1
  <2>2. CASE count # 0
    <3>1. n # 0
      BY <1>3, <1>4, <2>2
    <3>2. fields # {}
      BY <1>2, <3>1, FS_EmptySet
    <3> QED
      BY <2>2, <3>2 DEF Group
  <2> QED
    BY <2>1, <2>2
<1>8. ASSUME newCount = n + 1, NEW k \in fields \cup {p}
      PROVE  FirstPage[MsgLeaves[k].val] = text
  <2>1. count = n
    BY <1>3, <1>4, <1>5, <1>8, DocsAssumption
  <2>2. CASE k = p
    BY <2>2
  <2>3. CASE k \in fields
    <3>1. fields # {} /\ n # 0
      BY <1>2, <2>3, FS_EmptySet
    <3>2. text = ref
      BY <2>1, <3>1
    <3> QED
      BY <1>2, <2>1, <2>3, <3>2 DEF Group
  <2> QED
    BY <2>2, <2>3
<1> QED
  BY <1>3, <1>6, <1>7, <1>8 DEF Group

LEMMA GroupTypeFields ==
    ASSUME NEW c \in Caches, NEW leaf \in Leaf, NEW p \in Nat,
           NEW text, text = FirstPage[leaf.val],
           NEW ref, ref = IF c.typeCount = 0 THEN text ELSE c.typeRef,
           NEW d, d = GroupType(c, leaf, p)
    PROVE  /\ d.counts = c.counts
           /\ d.fromGrouping = c.fromGrouping /\ d.fromCount = c.fromCount
           /\ d.fromIdx = c.fromIdx /\ d.fromRef = c.fromRef
           /\ c.typeGrouping /\ leaf.key = "type" =>
                /\ d.typeRef = ref
                /\ d.typeIdx = IF c.typeCount = 0 THEN p ELSE c.typeIdx
                /\ d.typeCount = IF text = ref THEN Wrap(c.typeCount + 1) ELSE 1
                /\ d.typeGrouping = (text = ref)
           /\ ~(c.typeGrouping /\ leaf.key = "type") => d = c
  BY DEF GroupType, Caches

LEMMA GroupFromFields ==
    ASSUME NEW c \in Caches, NEW leaf \in Leaf, NEW p \in Nat,
           NEW text, text = FirstPage[leaf.val],
           NEW ref, ref = IF c.fromCount = 0 THEN text ELSE c.fromRef,
           NEW d, d = GroupFrom(c, leaf, p)
    PROVE  /\ d.counts = c.counts
           /\ d.typeGrouping = c.typeGrouping /\ d.typeCount = c.typeCount
           /\ d.typeIdx = c.typeIdx /\ d.typeRef = c.typeRef
           /\ c.fromGrouping /\ leaf.key = "delegator" =>
                /\ d.fromRef = ref
                /\ d.fromIdx = IF c.fromCount = 0 THEN p ELSE c.fromIdx
                /\ d.fromCount = IF text = ref THEN Wrap(c.fromCount + 1) ELSE 1
                /\ d.fromGrouping = (text = ref)
           /\ ~(c.fromGrouping /\ leaf.key = "delegator") => d = c
  BY DEF GroupFrom, Caches

LEMMA TypeGrows ==
    ASSUME NEW c \in Caches, NEW n \in Nat, NEW leaf \in Leaf, leaf = MsgLeaves[n + 1],
           c.typeGrouping => Group(c.typeCount, c.typeIdx, c.typeRef, Fields("type", n)),
           NEW d, d = GroupType(c, leaf, n + 1)
    PROVE  d.typeGrouping => Group(d.typeCount, d.typeIdx, d.typeRef, Fields("type", n + 1))
<1>1. PICK text : text = FirstPage[leaf.val]
  OBVIOUS
<1>2. PICK ref : ref = IF c.typeCount = 0 THEN text ELSE c.typeRef
  OBVIOUS
<1>3. n + 1 \in Nat
  OBVIOUS
<1>4. /\ c.typeGrouping /\ leaf.key = "type" =>
           /\ d.typeRef = ref
           /\ d.typeIdx = IF c.typeCount = 0 THEN n + 1 ELSE c.typeIdx
           /\ d.typeCount = IF text = ref THEN Wrap(c.typeCount + 1) ELSE 1
           /\ d.typeGrouping = (text = ref)
      /\ ~(c.typeGrouping /\ leaf.key = "type") => d = c
  BY <1>1, <1>2, <1>3, GroupTypeFields
<1>5. CASE c.typeGrouping /\ leaf.key = "type"
  <2>1. SUFFICES ASSUME text = ref
                 PROVE  Group(d.typeCount, d.typeIdx, d.typeRef, Fields("type", n + 1))
    BY <1>4, <1>5
  <2>2. c.typeCount \in 0 .. ByteMax
    BY DEF Caches
  <2>3. /\ Fields("type", n + 1) = Fields("type", n) \cup {n + 1}
        /\ n + 1 \notin Fields("type", n)
    BY <1>5, FieldsGrow
  <2>4. IsFiniteSet(Fields("type", n))
    BY FieldsFinite
  <2>5. Group(c.typeCount, c.typeIdx, c.typeRef, Fields("type", n))
    BY <1>5
  <2>6. text = FirstPage[MsgLeaves[n + 1].val]
    BY <1>1
  <2>7. text = IF c.typeCount = 0 THEN text ELSE c.typeRef
    BY <1>2, <2>1
  <2>8. d.typeCount = Wrap(c.typeCount + 1)
    BY <1>4, <1>5, <2>1
  <2>9. d.typeIdx = IF c.typeCount = 0 THEN n + 1 ELSE c.typeIdx
    BY <1>4, <1>5
  <2>10. Group(d.typeCount, d.typeIdx, text, Fields("type", n) \cup {n + 1})
    BY <2>2, <2>3, <2>4, <2>5, <2>6, <2>7, <2>8, <2>9, GroupGrows
  <2> QED
    BY <1>4, <1>5, <2>1, <2>3, <2>10
<1>6. CASE ~c.typeGrouping
  BY <1>4, <1>6
<1>7. CASE leaf.key # "type"
  BY <1>4, <1>7, FieldsGrow
<1> QED
  BY <1>5, <1>6, <1>7

LEMMA FromGrows ==
    ASSUME NEW c \in Caches, NEW n \in Nat, NEW leaf \in Leaf, leaf = MsgLeaves[n + 1],
           c.fromGrouping => Group(c.fromCount, c.fromIdx, c.fromRef, Fields("delegator", n)),
           NEW d, d = GroupFrom(c, leaf, n + 1)
    PROVE  d.fromGrouping => Group(d.fromCount, d.fromIdx, d.fromRef, Fields("delegator", n + 1))
<1>1. PICK text : text = FirstPage[leaf.val]
  OBVIOUS
<1>2. PICK ref : ref = IF c.fromCount = 0 THEN text ELSE c.fromRef
  OBVIOUS
<1>3. n + 1 \in Nat
  OBVIOUS
<1>4. /\ c.fromGrouping /\ leaf.key = "delegator" =>
           /\ d.fromRef = ref
           /\ d.fromIdx = IF c.fromCount = 0 THEN n + 1 ELSE c.fromIdx
           /\ d.fromCount = IF text = ref THEN Wrap(c.fromCount + 1) ELSE 1
           /\ d.fromGrouping = (text = ref)
      /\ ~(c.fromGrouping /\ leaf.key = "delegator") => d = c
  BY <1>1, <1>2, <1>3, GroupFromFields
<1>5. CASE c.fromGrouping /\ leaf.key = "delegator"
  <2>1. SUFFICES ASSUME text = ref
                 PROVE  Group(d.fromCount, d.fromIdx, d.fromRef, Fields("delegator", n + 1))
    BY <1>4, <1>5
  <2>2. c.fromCount \in 0 .. ByteMax
    BY DEF Caches
  <2>3. /\ Fields("delegator", n + 1) = Fields("delegator", n) \cup {n + 1}
        /\ n + 1 \notin Fields("delegator", n)
    BY <1>5, FieldsGrow
  <2>4. IsFiniteSet(Fields("delegator", n))
    BY FieldsFinite
  <2>5. Group(c.fromCount, c.fromIdx, c.fromRef, Fields("delegator", n))
    BY <1>5
  <2>6. text = FirstPage[MsgLeaves[n + 1].val]
    BY <1>1
  <2>7. text = IF c.fromCount = 0 THEN text ELSE c.fromRef
    BY <1>2, <2>1
  <2>8. d.fromCount = Wrap(c.fromCount + 1)
    BY <1>4, <1>5, <2>1
  <2>9. d.fromIdx = IF c.fromCount = 0 THEN n + 1 ELSE c.fromIdx
    BY <1>4, <1>5
  <2>10. Group(d.fromCount, d.fromIdx, text, Fields("delegator", n) \cup {n + 1})
    BY <2>2, <2>3, <2>4, <2>5, <2>6, <2>7, <2>8, <2>9, GroupGrows, SMTT(60)
  <2> QED
    BY <1>4, <1>5, <2>1, <2>3, <2>10
<1>6. CASE ~c.fromGrouping
  BY <1>4, <1>6
<1>7. CASE leaf.key # "delegator"
  BY <1>4, <1>7, FieldsGrow
<1> QED
  BY <1>5, <1>6, <1>7

\* In a document of one depth the walk over msgs meets MsgLeaves: its first leaf
\* is the same at both depths, the others are met when the depth is set.
LEMMA MsgsMet ==
    ASSUME doc \in Docs, OneDepth(doc), NEW n \in Nat \ {0},
           NoMulti(doc) => ~extraDepthLevel,
           OnlyMulti(doc) => extraDepthLevel \/ n = 1
    PROVE  /\ MsgLeaves \in Seq(Leaf)
           /\ n \in DOMAIN Leaves(msgs) <=> n \in DOMAIN MsgLeaves
           /\ n \in DOMAIN MsgLeaves => Leaves(msgs)[n] = MsgLeaves[n]
<1>1. doc \in Documents /\ TypeMetDeeper(doc)
  BY DocsAssumption
<1>2. doc.leaves[msgs] \in Seq(Leaf) /\ doc.deep \in Seq(Leaf)
  BY <1>1 DEF Documents, RootItems, msgs
<1>3. CASE Leaves(msgs) = MsgLeaves
  BY <1>2, <1>3 DEF MsgLeaves
<1>4. CASE Leaves(msgs) # MsgLeaves
  <2>1. ~NoMulti(doc) /\ OnlyMulti(doc)
    BY <1>4 DEF OneDepth, MsgLeaves, Leaves, get_root_max_level
  <2>2. n = 1 /\ Leaves(msgs) = doc.leaves[msgs] /\ MsgLeaves = doc.deep
    BY <1>4, <2>1 DEF MsgLeaves, Leaves, get_root_max_level
  <2>3. /\ doc.leaves[msgs] # <<>> /\ doc.deep # <<>>
        /\ doc.deep[1] = doc.leaves[msgs][1]
    BY <1>1, <2>1 DEF OnlyMulti, FirstIn, TypeMetDeeper
  <2> QED
    BY <1>2, <2>2, <2>3
<1> QED
  BY <1>3, <1>4

\* Once the depth is set they are the same.
LEMMA MsgsSettled ==
    ASSUME doc \in Docs, OneDepth(doc), DepthInv, phase \in {"validating", "review"}
    PROVE  Leaves(msgs) = MsgLeaves
  BY DEF DepthInv, OneDepth, MsgLeaves, Leaves, get_root_max_level

LEMMA MsgsGrow ==
    ASSUME TypeOK, CountInv, DepthInv, OneDepth(doc), IndexItem, root = msgs
    PROVE  MsgsCounted'
<1> DEFINE leaf == Leaves(msgs)[item]
           d1 == GroupType(cache, leaf, item)
           d2 == GroupFrom(d1, leaf, item)
<1>1. /\ doc \in Docs /\ MsgsCounted /\ phase = "indexing" /\ cache \in Caches
      /\ item \in DOMAIN Leaves(msgs) /\ item \in Nat \ {0}
  BY DEF CountInv, TypeOK, IndexItem
<1>2. PICK n : n = item - 1
  OBVIOUS
<1>3. n \in Nat /\ item = n + 1
  BY <1>1, <1>2
<1>4. /\ MsgLeaves \in Seq(Leaf) /\ item \in DOMAIN MsgLeaves /\ leaf = MsgLeaves[item]
  <2>1. OnlyMulti(doc) => extraDepthLevel \/ item = 1
    BY <1>1 DEF DepthInv
  <2>2. NoMulti(doc) => ~extraDepthLevel
    BY <1>1 DEF DepthInv
  <2> QED
    BY <1>1, <2>1, <2>2, MsgsMet
<1>5. leaf \in Leaf
  BY <1>4
<1>6. UNCHANGED <<doc, root>> /\ item' = item + 1 /\ cache' = Counted(d2, msgs)
  BY DEF IndexItem, msgs, memo
<1>7. Indexed = n /\ Indexed' = n + 1 /\ MsgLeaves' = MsgLeaves /\ n + 1 <= Len(MsgLeaves)
  <2>1. Indexed = n /\ n + 1 <= Len(MsgLeaves)
    BY <1>2, <1>3, <1>4 DEF Indexed, msgs
  <2>2. MsgLeaves' = MsgLeaves
    BY <1>6 DEF MsgLeaves, NoMulti
  <2>3. Indexed' = n + 1
    BY <1>3, <1>6 DEF Indexed, msgs
  <2> QED
    BY <2>1, <2>2, <2>3
<1>8. d1 \in Caches /\ d2 \in Caches
  BY <1>1, <1>5, GroupTypeType, GroupFromType
<1>9. /\ d1.counts = cache.counts /\ d2.counts = cache.counts
      /\ /\ d1.fromGrouping = cache.fromGrouping /\ d1.fromCount = cache.fromCount
         /\ d1.fromIdx = cache.fromIdx /\ d1.fromRef = cache.fromRef
      /\ /\ d2.typeGrouping = d1.typeGrouping /\ d2.typeCount = d1.typeCount
         /\ d2.typeIdx = d1.typeIdx /\ d2.typeRef = d1.typeRef
  <2>1. PICK text : text = FirstPage[leaf.val]
    OBVIOUS
  <2>2. PICK ref1 : ref1 = IF cache.typeCount = 0 THEN text ELSE cache.typeRef
    OBVIOUS
  <2>3. PICK ref2 : ref2 = IF d1.fromCount = 0 THEN text ELSE d1.fromRef
    OBVIOUS
  <2>4. item \in Nat
    BY <1>1
  <2>5. /\ d1.counts = cache.counts
        /\ d1.fromGrouping = cache.fromGrouping /\ d1.fromCount = cache.fromCount
        /\ d1.fromIdx = cache.fromIdx /\ d1.fromRef = cache.fromRef
    <3> HIDE DEF leaf
    <3> QED
      BY <1>1, <1>5, <2>1, <2>2, <2>4, GroupTypeFields
  <2>6. /\ d2.counts = d1.counts
        /\ d2.typeGrouping = d1.typeGrouping /\ d2.typeCount = d1.typeCount
        /\ d2.typeIdx = d1.typeIdx /\ d2.typeRef = d1.typeRef
    <3> HIDE DEF leaf, d1
    <3> QED
      BY <1>5, <1>8, <2>1, <2>3, <2>4, GroupFromFields
  <2> QED
    BY <2>5, <2>6
<1>10. d1.typeGrouping => Group(d1.typeCount, d1.typeIdx, d1.typeRef, Fields("type", n + 1))
  <2>1. d1 = GroupType(cache, leaf, n + 1) /\ leaf = MsgLeaves[n + 1]
    BY <1>3, <1>4
  <2> HIDE DEF leaf, d1
  <2> QED
    BY <1>1, <1>3, <1>5, <1>7, <2>1, TypeGrows DEF MsgsCounted
<1>11. d2.fromGrouping => Group(d2.fromCount, d2.fromIdx, d2.fromRef, Fields("delegator", n + 1))
  <2>1. d2 = GroupFrom(d1, leaf, n + 1) /\ leaf = MsgLeaves[n + 1]
    BY <1>3, <1>4
  <2> HIDE DEF leaf, d1, d2
  <2> QED
    BY <1>1, <1>3, <1>5, <1>7, <1>8, <1>9, <2>1, FromGrows DEF MsgsCounted
<1>12. /\ cache'.counts[msgs] = n + 1
       /\ /\ cache'.typeGrouping = d2.typeGrouping /\ cache'.typeCount = d2.typeCount
          /\ cache'.typeIdx = d2.typeIdx /\ cache'.typeRef = d2.typeRef
       /\ /\ cache'.fromGrouping = d2.fromGrouping /\ cache'.fromCount = d2.fromCount
          /\ cache'.fromIdx = d2.fromIdx /\ cache'.fromRef = d2.fromRef
  <2>1. d2.counts[msgs] = n
    BY <1>1, <1>7, <1>9 DEF MsgsCounted
  <2> HIDE DEF d2
  <2> QED
    BY <1>6, <1>8, <2>1 DEF Counted, Caches, RootItems, msgs
<1>13. /\ Fields("type", Indexed)' = Fields("type", n + 1)
       /\ Fields("delegator", Indexed)' = Fields("delegator", n + 1)
  BY <1>7 DEF Fields
<1> HIDE DEF d1, d2, leaf
<1>14. (cache.typeGrouping =>
         Group(cache.typeCount, cache.typeIdx, cache.typeRef, Fields("type", Indexed)))'
  BY <1>7, <1>9, <1>10, <1>12, <1>13 DEF Group
<1>15. (cache.fromGrouping =>
         Group(cache.fromCount, cache.fromIdx, cache.fromRef, Fields("delegator", Indexed)))'
  BY <1>7, <1>11, <1>12, <1>13 DEF Group
<1> QED
  BY <1>7, <1>12, <1>14, <1>15 DEF MsgsCounted

\* CountInv speaks of these.
CountVars == <<phase, doc, expert, cache, root, item>>

LEMMA SameCounts ==
    ASSUME UNCHANGED <<doc, expert, cache>>
    PROVE  /\ (CountsFit /\ tx_display_numItems <= ByteMax)' =
                (CountsFit /\ tx_display_numItems <= ByteMax)
           /\ tx_is_expert_mode_or_not_default_chainid' = tx_is_expert_mode_or_not_default_chainid
  BY DEF CountsFit, tx_display_numItems, ItemsBefore, ItemsIn,
         get_subitem_count, Grouped, tx_is_expert_mode_or_not_default_chainid

LEMMA SameGroups ==
    ASSUME doc' = doc
    PROVE  MsgLeaves' = MsgLeaves /\ OneDepth(doc)' = OneDepth(doc)
  BY SMTT(60) DEF MsgLeaves, NoMulti, OnlyMulti, OneDepth

LEMMA MsgsStay ==
    ASSUME MsgsCounted, doc' = doc, Indexed' = Indexed, cache'.counts[msgs] = cache.counts[msgs],
           cache'.typeGrouping => cache.typeGrouping,
           cache'.typeCount = cache.typeCount, cache'.typeIdx = cache.typeIdx,
           cache'.typeRef = cache.typeRef,
           cache'.fromGrouping => cache.fromGrouping,
           cache'.fromCount = cache.fromCount, cache'.fromIdx = cache.fromIdx,
           cache'.fromRef = cache.fromRef
    PROVE  MsgsCounted'
  BY SameGroups DEF MsgsCounted, Group, Fields, MsgLeaves

LEMMA CountStays ==
    ASSUME CountInv, UNCHANGED CountVars
    PROVE  CountInv'
<1>1. UNCHANGED <<phase, doc, expert, cache, root, item>>
  BY DEF CountVars
<1>2. RootsCounted' = RootsCounted
  BY <1>1 DEF RootsCounted
<1>3. MsgsCounted => MsgsCounted'
  <2>1. Indexed' = Indexed
    BY <1>1 DEF Indexed, MsgLeaves
  <2> QED
    BY <1>1, <2>1, MsgsStay
<1>4. Settled' = Settled
  BY <1>1 DEF Settled, tx_is_expert_mode_or_not_default_chainid,
     calculate_is_default_chainid, ChainLeaves
<1> QED
  BY <1>1, <1>2, <1>3, <1>4, SameCounts, SameGroups DEF CountInv

LEMMA CountStarts ==
    ASSUME NEW d \in Docs, ParseDocument(d)
    PROVE  CountInv'
<1>1. /\ phase' = "indexing" /\ doc' = d /\ cache' = EmptyCache /\ root' = 1 /\ item' = 1
  BY DEF ParseDocument
<1>2. d \in Documents
  BY DocsAssumption
<1>3. \A r \in RootItems : Len(d.leaves[r]) \in Nat /\ EmptyCache.counts[r] = 0
  BY <1>2 DEF Documents, EmptyCache
<1>4. RootsCounted'
  <2>1. \A r \in RootItems : ~(r < 1)
    BY DEF RootItems
  <2> QED
    BY <1>1, <1>3, <2>1 DEF RootsCounted
<1>5. Indexed' = 0
  BY <1>1 DEF Indexed, msgs
<1>6. MsgsCounted'
  <2>1. Len(MsgLeaves)' \in Nat
    <3>1. MsgLeaves' \in Seq(Leaf)
      BY <1>1, <1>2 DEF MsgLeaves, Documents, RootItems, msgs
    <3> QED
      BY <3>1
  <2>3. Fields("type", Indexed)' = {} /\ Fields("delegator", Indexed)' = {}
    BY <1>5 DEF Fields
  <2>4. Cardinality({}) = 0
    BY FS_EmptySet
  <2>5. /\ cache'.counts[msgs] = 0 /\ cache'.typeCount = 0 /\ cache'.fromCount = 0
    BY <1>1, <1>3 DEF EmptyCache, RootItems, msgs
  <2>6. Group(cache.typeCount, cache.typeIdx, cache.typeRef, Fields("type", Indexed))'
    BY <2>3, <2>4, <2>5 DEF Group
  <2>7. Group(cache.fromCount, cache.fromIdx, cache.fromRef, Fields("delegator", Indexed))'
    BY <2>3, <2>4, <2>5 DEF Group
  <2>8. cache'.counts[msgs] = Indexed' /\ Indexed' <= Len(MsgLeaves)'
    BY <1>5, <2>1, <2>5
  <2> QED
    BY <2>6, <2>7, <2>8 DEF MsgsCounted
<1> QED
  BY <1>1, <1>4, <1>6 DEF CountInv

\* Passing to the next root field.
LEMMA RootPassed ==
    ASSUME TypeOK, CountInv, DepthInv, phase = "indexing", phase' = phase,
           root \in RootItems, NextRoot, UNCHANGED <<doc, cache>>,
           \/ item \notin DOMAIN Leaves(root)
           \/ /\ root = memo /\ item \in DOMAIN Leaves(root)
              /\ Leaves(root)[item].val = EmptyVal
    PROVE  CountInv'
<1>1. /\ doc \in Docs /\ RootsCounted /\ doc \in Documents /\ item \in Nat \ {0}
      /\ root \in 1 .. 7 /\ root' = root + 1 /\ item' = 1
      /\ cache.counts \in [RootItems -> Nat]
  BY DocsAssumption DEF CountInv, NextRoot, RootItems, TypeOK, Caches
<1>2. \A r \in RootItems : r \in 1 .. 7 /\ Len(doc.leaves[r]) \in Nat
  BY <1>1 DEF Documents, RootItems
<1>3. root # msgs => Leaves(root) = doc.leaves[root]
  BY DEF Leaves, get_root_max_level
<1>4. ASSUME root # msgs
      PROVE  \/ cache.counts[root] = Len(doc.leaves[root])
             \/ /\ root = memo
                /\ doc.leaves[root][cache.counts[root] + 1].val = EmptyVal
  <2>1. cache.counts[root] = item - 1 /\ cache.counts[root] <= Len(doc.leaves[root])
    BY <1>1, <1>4 DEF RootsCounted
  <2>2. CASE item \notin DOMAIN Leaves(root)
    <3>1. DOMAIN doc.leaves[root] = 1 .. Len(doc.leaves[root])
      BY <1>1 DEF Documents
    <3> QED
      BY <1>1, <1>2, <1>3, <1>4, <2>1, <2>2, <3>1
  <2>3. CASE root = memo /\ Leaves(root)[item].val = EmptyVal
    <3>1. cache.counts[root] + 1 = item
      BY <1>1, <2>1
    <3> QED
      BY <1>3, <1>4, <2>3, <3>1
  <2> QED
    BY <2>2, <2>3
<1>5. RootsCounted'
  <2> SUFFICES ASSUME NEW r \in RootItems \ {msgs}
               PROVE  /\ r > root + 1 => cache.counts[r] = 0
                      /\ r = root + 1 => cache.counts[r] = 0
                      /\ cache.counts[r] <= Len(doc.leaves[r])
                      /\ r < root + 1 => \/ cache.counts[r] = Len(doc.leaves[r])
                                         \/ /\ r = memo
                                            /\ doc.leaves[r][cache.counts[r] + 1].val = EmptyVal
                      /\ r = memo =>
                           \A p \in 1 .. cache.counts[r] : doc.leaves[r][p].val # EmptyVal
    BY <1>1 DEF RootsCounted
  <2>1. r \in 1 .. 7
    BY <1>2
  <2>2. r > root => cache.counts[r] = 0
    BY <1>1 DEF RootsCounted
  <2>3. cache.counts[r] <= Len(doc.leaves[r])
    BY <1>1 DEF RootsCounted
  <2>4. r < root => \/ cache.counts[r] = Len(doc.leaves[r])
                    \/ /\ r = memo
                       /\ doc.leaves[r][cache.counts[r] + 1].val = EmptyVal
    BY <1>1 DEF RootsCounted
  <2>5. (r > root + 1 => r > root) /\ (r = root + 1 => r > root) /\ (r < root + 1 => r < root \/ r = root)
    BY <1>1, <2>1
  <2>6. r = memo => \A p \in 1 .. cache.counts[r] : doc.leaves[r][p].val # EmptyVal
    BY <1>1 DEF RootsCounted
  <2> QED
    BY <1>4, <2>2, <2>3, <2>4, <2>5, <2>6
<1>6. ASSUME OneDepth(doc)
      PROVE  MsgsCounted'
  <2>1. MsgsCounted
    BY <1>6 DEF CountInv
  <2>2. Indexed' = Indexed
    <3>1. MsgLeaves' = MsgLeaves
      BY SameGroups
    <3>2. CASE root # msgs
      BY <1>1, <3>1, <3>2 DEF Indexed, msgs
    <3>3. CASE root = msgs
      <4>1. Indexed = item - 1 /\ Indexed <= Len(MsgLeaves)
        BY <2>1, <3>3 DEF Indexed, MsgsCounted, msgs
      <4>2. MsgLeaves \in Seq(Leaf) /\ item \notin DOMAIN MsgLeaves
        <5>1. item \notin DOMAIN Leaves(msgs)
          BY <3>3 DEF msgs, memo
        <5>2. /\ OnlyMulti(doc) => extraDepthLevel \/ item = 1
              /\ NoMulti(doc) => ~extraDepthLevel
          BY <1>1, <3>3 DEF DepthInv
        <5> QED
          BY <1>1, <1>6, <5>1, <5>2, MsgsMet
      <4>3. Indexed = Len(MsgLeaves)
        BY <1>1, <4>1, <4>2
      <4>4. Indexed' = Len(MsgLeaves)'
        BY <1>1, <3>3 DEF Indexed, msgs
      <4> QED
        BY <3>1, <4>3, <4>4
    <3> QED
      BY <3>2, <3>3
  <2> QED
    BY <2>1, <2>2, MsgsStay
<1> QED
  BY <1>1, <1>5, <1>6, SameGroups DEF CountInv

LEMMA IndexItemCounts ==
    ASSUME TypeOK, CountInv, DepthInv, IndexItem
    PROVE  CountInv'
<1>1. /\ doc \in Docs /\ RootsCounted /\ doc \in Documents /\ item \in Nat \ {0}
      /\ phase = "indexing" /\ root \in RootItems /\ root \in 1 .. 7
      /\ item \in DOMAIN Leaves(root) /\ cache \in Caches
  BY DocsAssumption DEF CountInv, IndexItem, RootItems, TypeOK
<1>2. UNCHANGED <<phase, doc, expert>>
  BY DEF IndexItem
<1>3. CASE root = memo /\ Leaves(root)[item].val = EmptyVal
  BY <1>1, <1>2, <1>3, RootPassed DEF IndexItem
<1>4. CASE ~(root = memo /\ Leaves(root)[item].val = EmptyVal)
  <2> DEFINE leaf == Leaves(root)[item]
             c == IF root = msgs THEN GroupFrom(GroupType(cache, leaf, item), leaf, item)
                  ELSE cache
  <2>1. root' = root /\ item' = item + 1 /\ cache' = Counted(c, root)
    BY <1>4 DEF IndexItem
  <2>2. c \in Caches /\ c.counts = cache.counts
    <3>1. leaf \in Leaf
      BY <1>1, LeavesType
    <3>2. item \in Nat
      BY <1>1
    <3>3. PICK g : g = GroupType(cache, leaf, item)
      OBVIOUS
    <3>4. g \in Caches /\ g.counts = cache.counts
      <4>1. g \in Caches
        BY <1>1, <3>1, <3>2, <3>3, GroupTypeType
      <4>2. g.counts = cache.counts
        <5> HIDE DEF leaf
        <5> QED
          BY <1>1, <3>1, <3>3 DEF GroupType, Caches
      <4> QED
        BY <4>1, <4>2
    <3>5. PICK h : h = GroupFrom(g, leaf, item)
      OBVIOUS
    <3>6. h \in Caches /\ h.counts = g.counts
      <4>1. h \in Caches
        BY <3>1, <3>2, <3>4, <3>5, GroupFromType
      <4>2. h.counts = g.counts
        <5> HIDE DEF leaf
        <5> QED
          BY <3>1, <3>4, <3>5 DEF GroupFrom, Caches
      <4> QED
        BY <4>1, <4>2
    <3> QED
      BY <1>1, <3>3, <3>4, <3>5, <3>6
  <2>3. /\ cache'.counts = [cache.counts EXCEPT ![root] = @ + 1]
        /\ cache.counts \in [RootItems -> Nat]
    <3> HIDE DEF c
    <3> QED
      BY <1>1, <2>1, <2>2 DEF Counted, Caches
  <2>4. RootsCounted'
    <3> SUFFICES ASSUME NEW r \in RootItems \ {msgs}
                 PROVE  /\ r > root => cache'.counts[r] = 0
                        /\ r = root => cache'.counts[r] = item
                        /\ cache'.counts[r] <= Len(doc.leaves[r])
                        /\ r < root => \/ cache'.counts[r] = Len(doc.leaves[r])
                                       \/ /\ r = memo
                                          /\ doc.leaves[r][cache'.counts[r] + 1].val = EmptyVal
                        /\ r = memo =>
                             \A p \in 1 .. cache'.counts[r] : doc.leaves[r][p].val # EmptyVal
      BY <1>1, <1>2, <2>1 DEF RootsCounted
    <3>1. r \in 1 .. 7
      BY DEF RootItems
    <3>2. CASE r # root
      BY <1>1, <2>3, <3>1, <3>2 DEF RootsCounted
    <3>3. CASE r = root
      <4>1. cache.counts[root] = item - 1 /\ cache'.counts[root] = cache.counts[root] + 1
        BY <1>1, <2>3, <3>3 DEF RootsCounted
      <4>2. Leaves(root) = doc.leaves[root] /\ doc.leaves[root] \in Seq(Leaf)
        BY <1>1, <3>3 DEF Leaves, get_root_max_level, Documents
      <4>3. item <= Len(doc.leaves[root])
        BY <1>1, <4>2
      <4>4. ASSUME root = memo, NEW p \in 1 .. item
            PROVE  doc.leaves[root][p].val # EmptyVal
        <5>1. CASE p = item
          BY <1>4, <4>2, <4>4, <5>1
        <5>2. CASE p # item
          <6>1. p \in 1 .. cache.counts[root]
            BY <1>1, <4>1, <5>2
          <6> QED
            BY <1>1, <3>3, <4>4, <6>1 DEF RootsCounted
        <5> QED
          BY <5>1, <5>2
      <4> QED
        BY <1>1, <3>1, <3>3, <4>1, <4>3, <4>4
    <3> QED
      BY <3>2, <3>3
  <2>5. ASSUME OneDepth(doc)
        PROVE  MsgsCounted'
    <3>1. CASE root = msgs
      BY <2>5, <3>1, MsgsGrow
    <3>2. CASE root # msgs
      <4>1. cache' = Counted(cache, root)
        BY <2>1, <3>2
      <4>2. /\ cache'.counts[msgs] = cache.counts[msgs]
            /\ /\ cache'.typeGrouping = cache.typeGrouping /\ cache'.typeCount = cache.typeCount
               /\ cache'.typeIdx = cache.typeIdx /\ cache'.typeRef = cache.typeRef
            /\ /\ cache'.fromGrouping = cache.fromGrouping /\ cache'.fromCount = cache.fromCount
               /\ cache'.fromIdx = cache.fromIdx /\ cache'.fromRef = cache.fromRef
        BY <1>1, <3>2, <4>1 DEF Counted, Caches, RootItems, msgs
      <4>3. Indexed' = Indexed
        BY <1>2, <2>1, <3>2, SameGroups DEF Indexed
      <4>4. MsgsCounted
        BY <1>1, <2>5 DEF CountInv
      <4> QED
        BY <1>2, <4>2, <4>3, <4>4, MsgsStay
    <3> QED
      BY <3>1, <3>2
  <2> QED
    BY <1>1, <1>2, <2>4, <2>5, SameGroups DEF CountInv
<1> QED
  BY <1>3, <1>4

LEMMA IndexDoneCounts ==
    ASSUME TypeOK, CountInv, IndexDone
    PROVE  CountInv'
<1>1. CASE phase' = "rejected"
  BY <1>1 DEF CountInv
<1>2. CASE phase' # "rejected"
  <2>1. phase = "indexing" /\ phase' = "validating" /\ UNCHANGED <<doc, expert, root, item>>
    BY <1>2 DEF IndexDone
  <2>2. root = 8
    BY DEF IndexDone, TypeOK, RootItems
  <2>3. cache' = [cache EXCEPT
                    !.valid = TRUE, !.isDefault = calculate_is_default_chainid,
                    !.fromGrouping = @ /\ ~expert /\ calculate_is_default_chainid,
                    !.hideAll = address_matches_own(cache.fromRef)]
    BY <1>2 DEF IndexDone
  <2>4. PICK isDefault \in BOOLEAN, fromGrouping \in BOOLEAN, hideAll \in BOOLEAN :
          /\ cache' = [cache EXCEPT !.valid = TRUE, !.isDefault = isDefault,
                                    !.fromGrouping = fromGrouping, !.hideAll = hideAll]
          /\ fromGrouping => cache.fromGrouping /\ ~expert /\ isDefault
          /\ hideAll <=> cache.fromRef = OwnAddress
          /\ isDefault <=> calculate_is_default_chainid
    <3>1. calculate_is_default_chainid \in BOOLEAN
      BY DEF calculate_is_default_chainid
    <3>2. (cache.fromGrouping /\ ~expert /\ calculate_is_default_chainid) \in BOOLEAN
      OBVIOUS
    <3>3. /\ address_matches_own(cache.fromRef) \in BOOLEAN
          /\ address_matches_own(cache.fromRef) <=> cache.fromRef = OwnAddress
      BY DEF address_matches_own
    <3> HIDE DEF calculate_is_default_chainid
    <3> QED
      BY <2>3, <3>1, <3>2, <3>3, Zenon
  <2>5. cache \in Caches
    BY DEF TypeOK
  <2>6. /\ cache'.counts = cache.counts
        /\ cache'.typeGrouping = cache.typeGrouping /\ cache'.typeCount = cache.typeCount
        /\ cache'.typeIdx = cache.typeIdx /\ cache'.typeRef = cache.typeRef
        /\ cache'.fromCount = cache.fromCount
        /\ cache'.fromIdx = cache.fromIdx /\ cache'.fromRef = cache.fromRef
        /\ cache'.fromGrouping = fromGrouping /\ cache'.isDefault = isDefault
        /\ cache'.hideAll = hideAll /\ cache'.valid = TRUE
    BY <2>4, <2>5 DEF Caches
  <2>7. RootsCounted'
    <3>1. cache'.counts = cache.counts
      BY <2>6
    <3>2. RootsCounted
      BY <2>1 DEF CountInv
    <3> QED
      BY <2>1, <3>1, <3>2 DEF RootsCounted
  <2>8. OneDepth(doc) => MsgsCounted'
    <3>1. Indexed' = Indexed
      BY <2>1, SameGroups DEF Indexed
    <3>2. OneDepth(doc) => MsgsCounted
      BY <2>1 DEF CountInv
    <3> QED
      BY <2>1, <2>4, <2>6, <3>1, <3>2, MsgsStay
  <2>9. Settled'
    <3>1. cache'.fromGrouping => ~expert' /\ cache'.isDefault
      BY <2>1, <2>4, <2>6
    <3>2. cache'.hideAll <=> cache'.fromRef = OwnAddress
      BY <2>4, <2>6
    <3>3. cache'.isDefault <=> calculate_is_default_chainid'
      BY <2>1, <2>4, <2>6 DEF calculate_is_default_chainid, ChainLeaves
    <3>4. ~expert' /\ cache'.isDefault => ~tx_is_expert_mode_or_not_default_chainid'
      BY DEF tx_is_expert_mode_or_not_default_chainid
    <3> QED
      BY <2>1, <2>2, <2>6, <3>1, <3>2, <3>3, <3>4 DEF Settled
  <2> QED
    BY <2>1, <2>7, <2>8, <2>9, SameGroups DEF CountInv
<1> QED
  BY <1>1, <1>2

LEMMA ValidateItemCounts ==
    ASSUME CountInv, ValidateItem
    PROVE  CountInv'
<1>1. phase = "validating" /\ UNCHANGED <<doc, expert, cache, root, item>>
  BY DEF ValidateItem
<1>2. CASE phase' = phase
  BY <1>1, <1>2, CountStays DEF CountVars
<1>3. CASE phase' = "rejected"
  BY <1>3 DEF CountInv
<1>4. CASE phase' = "review"
  <2>1. CountsFit /\ tx_display_numItems <= ByteMax
    BY <1>1, <1>4 DEF ValidateItem
  <2>2. RootsCounted' = RootsCounted
    BY <1>1 DEF RootsCounted
  <2>3. MsgsCounted => MsgsCounted'
    <3>1. Indexed' = Indexed
      BY <1>1 DEF Indexed, MsgLeaves
    <3> QED
      BY <1>1, <3>1, MsgsStay
  <2>4. Settled' = Settled
    BY <1>1 DEF Settled, tx_is_expert_mode_or_not_default_chainid,
     calculate_is_default_chainid, ChainLeaves
  <2> QED
    BY <1>1, <1>4, <2>1, <2>2, <2>3, <2>4, SameCounts, SameGroups DEF CountInv
<1> QED
  BY <1>1, <1>2, <1>3, <1>4 DEF ValidateItem

LEMMA NextCounts ==
    ASSUME TypeOK, DepthInv, CountInv, [Next]_vars
    PROVE  CountInv'
<1>1. CASE UNCHANGED CountVars
  BY <1>1, CountStays
<1>2. ASSUME NEW d \in Docs, ParseDocument(d) PROVE CountInv'
  BY <1>2, CountStarts
<1>3. CASE IndexItem
  BY <1>3, IndexItemCounts
<1>4. CASE IndexRootDone
  BY <1>4, RootPassed DEF IndexRootDone
<1>5. CASE IndexDone
  BY <1>5, IndexDoneCounts
<1>6. CASE ValidateItem
  BY <1>6, ValidateItemCounts
<1>7. ASSUME NEW i \in 0 .. ByteMax, tx_getItem(i) PROVE CountInv'
  BY <1>1, <1>7 DEF tx_getItem, CountVars
<1>8. CASE EndReview
  BY <1>8 DEF EndReview, CountInv
<1>9. CASE ToggleExpert
  BY <1>9 DEF ToggleExpert, Idle, CountInv
<1> QED
  BY <1>1, <1>2, <1>3, <1>4, <1>5, <1>6, <1>7, <1>8, <1>9 DEF Next, vars, CountVars

----------------------------------------------------------------------------
(* The counts are the leaves that are not skipped                          *)

\* Of a group that counted all its fields, all but one are skipped, or all.
LEMMA AllButOne ==
    ASSUME NEW count \in Nat, NEW idx, NEW ref, NEW n \in Nat, NEW key,
           Group(count, idx, ref, Fields(key, n)), count = Cardinality(Fields(key, n))
    PROVE  Cardinality(Fields(key, n) \ {idx}) = IF count > 0 THEN count - 1 ELSE 0
<1> DEFINE S == Fields(key, n)
<1>1. IsFiniteSet(S)
  BY FieldsFinite
<1>2. CASE S = {}
  <2>1. count = 0 /\ S \ {idx} = {}
    BY <1>2, FS_EmptySet
  <2> QED
    BY <2>1, FS_EmptySet
<1>3. CASE S # {}
  <2>1. count # 0 /\ idx \in S
    BY <1>1, <1>3, FS_EmptySet DEF Group
  <2>2. Cardinality(S \ {idx}) = Cardinality(S) - 1
    <3> HIDE DEF S
    <3> QED
      BY <1>1, <2>1, FS_RemoveElement
  <2> QED
    BY <2>1, <2>2
<1> QED
  BY <1>2, <1>3

\* The leaves of msgs that are skipped because of their type, or delegator.
TypesSkipped == {p \in DOMAIN MsgLeaves : SkipsType(p, MsgLeaves[p])}
FromsSkipped == {p \in DOMAIN MsgLeaves : SkipsFrom(p, MsgLeaves[p])}
Types == Fields("type", Len(MsgLeaves))
Froms == Fields("delegator", Len(MsgLeaves))

LEMMA SkippedParts ==
    ASSUME MsgLeaves \in Seq(Leaf), cache \in Caches, cache.valid
    PROVE  /\ Skipped(MsgLeaves) = TypesSkipped \cup FromsSkipped
           /\ TypesSkipped \cap FromsSkipped = {} /\ Types \cap Froms = {}
           /\ IsFiniteSet(TypesSkipped) /\ IsFiniteSet(FromsSkipped)
           /\ IsFiniteSet(Types) /\ IsFiniteSet(Froms)
           /\ Cardinality(Types) + Cardinality(Froms) <= Len(MsgLeaves)
           /\ Cardinality(DOMAIN MsgLeaves \ Skipped(MsgLeaves)) =
                Len(MsgLeaves) - Cardinality(TypesSkipped) - Cardinality(FromsSkipped)
<1> DEFINE n == Len(MsgLeaves)
           D == 1 .. n
<1>1. n \in Nat /\ DOMAIN MsgLeaves = D
  OBVIOUS
<1>2. IsFiniteSet(D) /\ Cardinality(D) = n
  BY <1>1, FS_Interval, SMTT(60)
<1>3. Skipped(MsgLeaves) = TypesSkipped \cup FromsSkipped
  BY DEF Skipped, TypesSkipped, FromsSkipped
<1>4. TypesSkipped \cap FromsSkipped = {} /\ Types \cap Froms = {}
  BY DEF TypesSkipped, FromsSkipped, SkipsType, SkipsFrom, Types, Froms, Fields
<1>5. /\ TypesSkipped \in SUBSET D /\ FromsSkipped \in SUBSET D
      /\ Types \in SUBSET D /\ Froms \in SUBSET D
  BY <1>1 DEF TypesSkipped, FromsSkipped, Types, Froms, Fields
<1> HIDE DEF D, n
<1>6. /\ IsFiniteSet(TypesSkipped) /\ IsFiniteSet(FromsSkipped)
      /\ IsFiniteSet(Types) /\ IsFiniteSet(Froms)
  BY <1>2, <1>5, FS_Subset
<1>7. /\ Cardinality(TypesSkipped) \in Nat /\ Cardinality(FromsSkipped) \in Nat
      /\ Cardinality(Types) \in Nat /\ Cardinality(Froms) \in Nat
  BY <1>6, FS_CardinalityType
<1>8. Cardinality(Types) + Cardinality(Froms) <= n
  <2>1. Cardinality(Types \cup Froms) =
          Cardinality(Types) + Cardinality(Froms) - Cardinality({})
    BY <1>4, <1>6, FS_Union
  <2>2. Types \cup Froms \in SUBSET D
    BY <1>5
  <2>3. Cardinality(Types \cup Froms) <= n
    BY <1>2, <2>2, FS_Subset
  <2> QED
    BY <1>7, <2>1, <2>3, FS_EmptySet
<1>9. Cardinality(D \ (TypesSkipped \cup FromsSkipped)) =
        n - Cardinality(TypesSkipped) - Cardinality(FromsSkipped)
  <2>1. Cardinality(TypesSkipped \cup FromsSkipped) =
          Cardinality(TypesSkipped) + Cardinality(FromsSkipped) - Cardinality({})
    BY <1>4, <1>6, FS_Union
  <2>2. PICK X : X = TypesSkipped \cup FromsSkipped
    OBVIOUS
  <2>3. Cardinality(X) = Cardinality(TypesSkipped) + Cardinality(FromsSkipped)
    BY <1>7, <2>1, <2>2, FS_EmptySet
  <2>4. D \cap X = X
    BY <1>5, <2>2
  <2>5. Cardinality(D \ X) = n - Cardinality(X)
    BY <1>2, <2>4, FS_Difference, ZenonT(60)
  <2>6. Cardinality(D \ X) = n - (Cardinality(TypesSkipped) + Cardinality(FromsSkipped))
    BY <2>3, <2>5
  <2>7. n \in Nat
    BY <1>1
  <2> QED
    BY <1>7, <2>2, <2>6, <2>7
<1> QED
  BY <1>1, <1>3, <1>4, <1>6, <1>8, <1>9 DEF n

\* The repeated types and delegators are different leaves of msgs, so what is
\* taken away is never more than there is.
LEMMA GroupedNatural ==
    ASSUME TypeOK, CountInv, OneDepth(doc), phase \in {"validating", "review"}
    PROVE  Grouped \in Nat
<1>1. /\ doc \in Documents /\ MsgsCounted /\ root = 8 /\ cache \in Caches /\ cache.valid
  BY DocsAssumption DEF CountInv, Settled, TypeOK
<1>2. MsgLeaves \in Seq(Leaf)
  BY <1>1 DEF MsgLeaves, Documents, RootItems, msgs
<1>3. PICK n : n = Len(MsgLeaves)
  OBVIOUS
<1>4. n \in Nat /\ Indexed = n /\ cache.counts[msgs] = n
  BY <1>1, <1>2, <1>3 DEF Indexed, MsgsCounted, msgs
<1>5. /\ cache.typeGrouping => Group(cache.typeCount, cache.typeIdx, cache.typeRef, Types)
      /\ cache.fromGrouping => Group(cache.fromCount, cache.fromIdx, cache.fromRef, Froms)
  BY <1>1, <1>3, <1>4 DEF MsgsCounted, Types, Froms
<1>6. PICK a : a = IF cache.typeGrouping /\ cache.typeCount > 0 THEN cache.typeCount - 1 ELSE 0
  OBVIOUS
<1>7. PICK b : b = IF cache.fromGrouping /\ cache.fromCount > 0
                   THEN cache.fromCount - (IF cache.hideAll THEN 0 ELSE 1) ELSE 0
  OBVIOUS
<1>8. Grouped = n - a - b
  BY <1>4, <1>6, <1>7 DEF Grouped
<1>9. PICK t, f, nT, nF :
        /\ t = cache.typeCount /\ f = cache.fromCount
        /\ nT = Cardinality(Types) /\ nF = Cardinality(Froms)
  OBVIOUS
<1>10. /\ t \in Nat /\ f \in Nat /\ nT \in Nat /\ nF \in Nat /\ nT + nF <= n
  BY <1>1, <1>2, <1>3, <1>9, SkippedParts, FS_CardinalityType DEF Caches
<1>11. /\ cache.typeGrouping => t <= nT /\ (t = nT \/ t + ByteMax < nT)
       /\ cache.fromGrouping => f <= nF /\ (f = nF \/ f + ByteMax < nF)
  BY <1>5, <1>9 DEF Group
<1>12. /\ a \in Nat /\ b \in Nat /\ a <= nT /\ b <= nF
       /\ cache.typeGrouping => a <= t
       /\ cache.fromGrouping => b <= f
  BY <1>6, <1>7, <1>9, <1>10, <1>11
<1> QED
  BY <1>4, <1>8, <1>10, <1>12

LEMMA CountsNatural ==
    ASSUME TypeOK, CountInv, OneDepth(doc), phase \in {"validating", "review"},
           NEW r \in RootItems
    PROVE  get_subitem_count(r) \in Nat
<1>1. cache.counts[r] \in Nat
  BY DEF TypeOK, Caches
<1>2. Grouped \in Nat
  BY GroupedNatural
<1> QED
  BY <1>1, <1>2 DEF get_subitem_count

\* A document whose leaves of msgs fit a byte is one whose groups did not wrap,
\* and then the count is the number of leaves the walk does not skip.
LEMMA GroupedIsKept ==
    ASSUME TypeOK, CountInv, OneDepth(doc), phase \in {"validating", "review"},
           Grouped \in 0 .. ByteMax
    PROVE  /\ MsgLeaves \in Seq(Leaf)
           /\ Grouped = Cardinality(DOMAIN MsgLeaves \ Skipped(MsgLeaves))
           /\ cache.typeGrouping => /\ Group(cache.typeCount, cache.typeIdx, cache.typeRef, Types)
                                    /\ cache.typeCount = Cardinality(Types)
           /\ cache.fromGrouping => /\ Group(cache.fromCount, cache.fromIdx, cache.fromRef, Froms)
                                    /\ cache.fromCount = Cardinality(Froms)
<1>1. /\ doc \in Documents /\ MsgsCounted /\ root = 8 /\ cache \in Caches /\ cache.valid
  BY DocsAssumption DEF CountInv, Settled, TypeOK
<1>2. MsgLeaves \in Seq(Leaf)
  BY <1>1 DEF MsgLeaves, Documents, RootItems, msgs
<1>3. PICK n : n = Len(MsgLeaves)
  OBVIOUS
<1>4. n \in Nat /\ Indexed = n /\ cache.counts[msgs] = n
  BY <1>1, <1>2, <1>3 DEF Indexed, MsgsCounted, msgs
<1>5. /\ cache.typeGrouping => Group(cache.typeCount, cache.typeIdx, cache.typeRef, Types)
      /\ cache.fromGrouping => Group(cache.fromCount, cache.fromIdx, cache.fromRef, Froms)
  BY <1>1, <1>3, <1>4 DEF MsgsCounted, Types, Froms
<1>6. PICK a : a = IF cache.typeGrouping /\ cache.typeCount > 0 THEN cache.typeCount - 1 ELSE 0
  OBVIOUS
<1>7. PICK b : b = IF cache.fromGrouping /\ cache.fromCount > 0
                   THEN cache.fromCount - (IF cache.hideAll THEN 0 ELSE 1) ELSE 0
  OBVIOUS
<1>8. Grouped = n - a - b
  BY <1>4, <1>6, <1>7 DEF Grouped
<1>9. PICK t, f, nT, nF :
        /\ t = cache.typeCount /\ f = cache.fromCount
        /\ nT = Cardinality(Types) /\ nF = Cardinality(Froms)
  OBVIOUS
<1>10. /\ t \in Nat /\ f \in Nat /\ nT \in Nat /\ nF \in Nat /\ nT + nF <= n
  BY <1>1, <1>2, <1>3, <1>9, SkippedParts, FS_CardinalityType DEF Caches
<1>11. /\ cache.typeGrouping => t <= nT /\ (t = nT \/ t + ByteMax < nT)
       /\ cache.fromGrouping => f <= nF /\ (f = nF \/ f + ByteMax < nF)
  BY <1>5, <1>9 DEF Group
<1>12. /\ a \in Nat /\ b \in Nat /\ a <= nT /\ b <= nF
       /\ cache.typeGrouping => a <= t
       /\ cache.fromGrouping => b <= f
  BY <1>6, <1>7, <1>9, <1>10, <1>11
<1>13. ByteMax \in Nat /\ n - a - b <= ByteMax
  BY <1>8, DocsAssumption
<1>14. ASSUME cache.typeGrouping
       PROVE  t = nT
  <2>1. (t = nT \/ t + ByteMax < nT) /\ a <= t
    BY <1>11, <1>12, <1>14, Zenon
  <2>2. a \in Nat /\ b \in Nat /\ b <= nF
    BY <1>12
  <2> QED
    BY <1>4, <1>10, <1>13, <2>1, <2>2
<1>15. ASSUME cache.fromGrouping
       PROVE  f = nF
  <2>1. (f = nF \/ f + ByteMax < nF) /\ b <= f
    BY <1>11, <1>12, <1>15, Zenon
  <2>2. a \in Nat /\ b \in Nat /\ a <= nT
    BY <1>12
  <2> QED
    BY <1>4, <1>10, <1>13, <2>1, <2>2
<1>16. Cardinality(TypesSkipped) = a
  <2>1. CASE cache.typeGrouping
    <3>1. TypesSkipped = Types \ {cache.typeIdx}
      BY <1>2, <2>1 DEF TypesSkipped, Types, Fields, SkipsType
    <3>2. Cardinality(Fields("type", n) \ {cache.typeIdx}) = IF t > 0 THEN t - 1 ELSE 0
      BY <1>3, <1>4, <1>5, <1>9, <1>10, <1>14, <2>1, AllButOne DEF Types
    <3> QED
      BY <1>3, <1>6, <1>9, <2>1, <3>1, <3>2 DEF Types
  <2>2. CASE ~cache.typeGrouping
    <3>1. TypesSkipped = {}
      BY <2>2 DEF TypesSkipped, SkipsType
    <3> QED
      BY <1>6, <2>2, <3>1, FS_EmptySet
  <2> QED
    BY <2>1, <2>2
<1>17. Cardinality(FromsSkipped) = b
  <2>1. CASE cache.fromGrouping /\ ~cache.hideAll
    <3>1. FromsSkipped = Froms \ {cache.fromIdx}
      BY <1>2, <2>1 DEF FromsSkipped, Froms, Fields, SkipsFrom
    <3>2. Cardinality(Fields("delegator", n) \ {cache.fromIdx}) = IF f > 0 THEN f - 1 ELSE 0
      BY <1>3, <1>4, <1>5, <1>9, <1>10, <1>15, <2>1, AllButOne DEF Froms
    <3> QED
      BY <1>3, <1>7, <1>9, <2>1, <3>1, <3>2 DEF Froms
  <2>2. CASE cache.fromGrouping /\ cache.hideAll
    <3>1. FromsSkipped = Froms
      BY <1>2, <2>2 DEF FromsSkipped, Froms, Fields, SkipsFrom
    <3>2. b = f
      BY <1>7, <1>9, <1>10, <2>2
    <3> QED
      BY <1>9, <1>15, <2>2, <3>1, <3>2
  <2>3. CASE ~cache.fromGrouping
    <3>1. FromsSkipped = {}
      BY <2>3 DEF FromsSkipped, SkipsFrom
    <3> QED
      BY <1>7, <2>3, <3>1, FS_EmptySet
  <2> QED
    BY <2>1, <2>2, <2>3
<1>18. Cardinality(DOMAIN MsgLeaves \ Skipped(MsgLeaves)) = n - a - b
  BY <1>1, <1>2, <1>3, <1>16, <1>17, SkippedParts
<1> QED
  BY <1>2, <1>5, <1>8, <1>9, <1>14, <1>15, <1>18

----------------------------------------------------------------------------
(* No item is missing                                                      *)

ReadInv == TypeOK /\ DepthInv /\ CountInv
DisplayInv == ItemInv /\ CountInv

\* Outside msgs no leaf is skipped.
LEMMA NoneSkipped ==
    ASSUME doc \in Docs, NEW r \in RootItems, r # msgs
    PROVE  /\ Leaves(r) = doc.leaves[r] /\ doc.leaves[r] \in Seq(Leaf)
           /\ Skipped(Leaves(r)) = {}
<1>1. Leaves(r) = doc.leaves[r]
  BY DEF Leaves, get_root_max_level
<1>2. doc \in Documents
  BY DocsAssumption
<1>3. \A p \in DOMAIN doc.leaves[r] : doc.leaves[r][p].key \notin GroupedKeys
  BY DocsAssumption
<1> QED
  BY <1>1, <1>2, <1>3 DEF Documents, Skipped, SkipsType, SkipsFrom, GroupedKeys

\* As many leaves are found as the counts promise, but for a fee that is not
\* there.
LEMMA CountIsKept ==
    ASSUME ReadInv, OneDepth(doc), phase \in {"validating", "review"}, CountsFit,
           NEW r \in RootItems
    PROVE  /\ Leaves(r) \in Seq(Leaf)
           /\ \/ get_subitem_count(r) <= Cardinality(DOMAIN Leaves(r) \ Skipped(Leaves(r)))
              \/ /\ r = fee /\ doc.leaves[fee] = <<>>
                 /\ ~tx_is_expert_mode_or_not_default_chainid
           /\ r = msgs =>
                get_subitem_count(r) = Cardinality(DOMAIN Leaves(r) \ Skipped(Leaves(r)))
<1>1. TypeOK /\ DepthInv /\ CountInv /\ doc \in Docs /\ RootsCounted
  BY DEF ReadInv, CountInv
<1>2. CASE r = msgs
  <2>1. get_subitem_count(msgs) = Grouped
    BY DEF get_subitem_count, chain_id, account_number, sequence, fee, msgs
  <2>2. Grouped \in 0 .. ByteMax
    BY <1>2, <2>1 DEF CountsFit
  <2>3. Leaves(msgs) = MsgLeaves
    BY <1>1, MsgsSettled
  <2>4. /\ MsgLeaves \in Seq(Leaf)
        /\ Grouped = Cardinality(DOMAIN MsgLeaves \ Skipped(MsgLeaves))
    BY <1>1, <2>2, GroupedIsKept
  <2>5. Grouped <= Grouped
    BY <2>2
  <2> QED
    BY <1>2, <2>1, <2>3, <2>4, <2>5
<1>3. CASE r # msgs
  <2>1. /\ Leaves(r) = doc.leaves[r] /\ doc.leaves[r] \in Seq(Leaf)
        /\ Skipped(Leaves(r)) = {}
    BY <1>1, <1>3, NoneSkipped
  <2>2. PICK n : n = Len(doc.leaves[r])
    OBVIOUS
  <2>3. n \in Nat /\ DOMAIN Leaves(r) \ Skipped(Leaves(r)) = 1 .. n
    BY <2>1, <2>2
  <2>4. Cardinality(DOMAIN Leaves(r) \ Skipped(Leaves(r))) = n
    <3>1. Cardinality(1 .. n) = n
      BY <2>3, FS_Interval
    <3> QED
      BY <2>3, <3>1
  <2>5. cache.counts[r] <= n
    BY <1>1, <1>3, <2>2 DEF RootsCounted
  <2>6. \/ get_subitem_count(r) = 0
        \/ get_subitem_count(r) = cache.counts[r]
        \/ /\ r = fee /\ get_subitem_count(r) = 1
           /\ ~tx_is_expert_mode_or_not_default_chainid
    BY <1>3 DEF get_subitem_count
  <2>7. ASSUME r = fee, doc.leaves[fee] # <<>> PROVE 1 <= n
    BY <2>1, <2>2, <2>7
  <2> QED
    BY <1>3, <2>1, <2>3, <2>4, <2>5, <2>6, <2>7
<1> QED
  BY <1>2, <1>3

\* Every item the counts promise is found by its walk.
LEMMA ItemFound ==
    ASSUME ReadInv, OneDepth(doc), phase \in {"validating", "review"}, CountsFit,
           NEW i \in Nat, i < tx_display_numItems,
           ~(doc.leaves[fee] = <<>> /\ ~tx_is_expert_mode_or_not_default_chainid)
    PROVE  \E r \in RootItems : \E p \in DOMAIN Leaves(r) : tx_display_query(i) = Leaves(r)[p]
<1>1. PICK r \in RootItems, t \in Nat : t < get_subitem_count(r) /\ i = ItemsBefore(r) + t
  BY EveryItemLocated
<1>2. /\ Leaves(r) \in Seq(Leaf)
      /\ get_subitem_count(r) <= Cardinality(DOMAIN Leaves(r) \ Skipped(Leaves(r)))
  BY CountIsKept
<1>3. /\ get_subitem_count(r) \in Nat /\ ItemsBefore(r) \in Nat
      /\ Cardinality(DOMAIN Leaves(r) \ Skipped(Leaves(r))) \in Nat
  <2>1. IsFiniteSet(DOMAIN Leaves(r) \ Skipped(Leaves(r)))
    <3>1. DOMAIN Leaves(r) = 1 .. Len(Leaves(r)) /\ Len(Leaves(r)) \in Nat
      BY <1>2
    <3>2. IsFiniteSet(1 .. Len(Leaves(r)))
      BY <3>1, FS_Interval
    <3> QED
      BY <3>1, <3>2, FS_Difference
  <2>2. r \in 1 .. 8
    BY DEF RootItems
  <2> QED
    BY <2>1, <2>2, RootsFollow, FS_CardinalityType
<1>4. t < Cardinality(DOMAIN Leaves(r) \ Skipped(Leaves(r)))
  BY <1>1, <1>2, <1>3
<1>5. PICK p \in DOMAIN Leaves(r) \ Skipped(Leaves(r)) : tx_traverse_find(Leaves(r), t) = {p}
  BY <1>2, <1>4, WalkReaches
<1>6. retrieve_tree_indexes(i) = {r} /\ i - ItemsBefore(r) = t
  BY <1>1, <1>3, Located
<1>7. tx_display_query(i) = Leaves(r)[p]
  BY <1>5, <1>6, QueryIs
<1> QED
  BY <1>5, <1>7

LEMMA LeafIsThere ==
    ASSUME NEW leaf \in Leaf
    PROVE  leaf # NoLeaf
<1>1. leaf.key \in LeafKeys /\ NoLeaf.key = "none"
  BY DEF Leaf, NoLeaf
<1> QED
  BY <1>1, DocsAssumption

LEMMA RejectingStep ==
    ASSUME DisplayInv, [Next]_vars, phase # "rejected", phase' = "rejected", OneDepth(doc)
    PROVE  RejectionCause
<1>1. CASE IndexDone
  BY <1>1 DEF IndexDone, RejectionCause
<1>2. CASE ValidateItem
  <2> DEFINE i == Len(checked)
  <2>1. phase = "validating" /\ TypeOK /\ doc \in Docs
    BY <1>2 DEF ValidateItem, DisplayInv, ItemInv, CountInv
  <2>2. SUFFICES ASSUME CountsFit, ~(tx_display_numItems > ByteMax),
                        ~(doc.leaves[fee] = <<>> /\ ~tx_is_expert_mode_or_not_default_chainid)
                 PROVE  \E r \in RootItems : \E p \in DOMAIN Leaves(r) : Malformed(Leaves(r)[p])
    <3>1. ASSUME ~CountsFit
          PROVE  \E r \in RootItems : get_subitem_count(r) > ByteMax
      <4>1. PICK r \in RootItems : get_subitem_count(r) \notin 0 .. ByteMax
        BY <3>1 DEF CountsFit
      <4>2. get_subitem_count(r) \in Nat /\ ByteMax \in Nat
        BY <2>1, CountsNatural, DocsAssumption DEF DisplayInv, ItemInv
      <4> QED
        BY <4>1, <4>2
    <3> QED
      BY <3>1 DEF RejectionCause
  <2>3. i < tx_display_numItems /\ ~CanBeShown(tx_display_query(i))
    <3>1. phase' = "rejected" /\ phase = "validating"
      BY <2>1
    <3>2. \/ ~CountsFit \/ tx_display_numItems > ByteMax
          \/ phase' = "review"
          \/ i < tx_display_numItems
             /\ phase' = IF CanBeShown(tx_display_query(i)) THEN phase ELSE "rejected"
      BY <1>2 DEF ValidateItem
    <3>3. \/ phase' = "review"
          \/ i < tx_display_numItems
             /\ phase' = IF CanBeShown(tx_display_query(i)) THEN phase ELSE "rejected"
      BY <2>2, <3>2, Zenon
    <3>4. "review" # "rejected" /\ "validating" # "rejected"
      OBVIOUS
    <3>5. /\ i < tx_display_numItems
          /\ phase' = IF CanBeShown(tx_display_query(i)) THEN phase ELSE "rejected"
      BY <3>1, <3>3, <3>4, Zenon
    <3> QED
      BY <3>1, <3>4, <3>5, Zenon
  <2>4. i \in Nat
    <3>1. checked \in Seq(Leaf)
      BY <2>1 DEF TypeOK
    <3> QED
      BY <3>1
  <2>5. PICK r \in RootItems : \E p \in DOMAIN Leaves(r) : tx_display_query(i) = Leaves(r)[p]
    BY <2>1, <2>2, <2>3, <2>4, ItemFound DEF ReadInv, DisplayInv, ItemInv
  <2>6. PICK p \in DOMAIN Leaves(r) : tx_display_query(i) = Leaves(r)[p]
    BY <2>5
  <2>7. Leaves(r)[p] \in Leaf
    BY <2>1, LeavesType DEF TypeOK
  <2>8. Malformed(Leaves(r)[p])
    BY <2>3, <2>6, <2>7, LeafIsThere DEF CanBeShown
  <2> QED
    BY <2>8
<1>3. CASE UNCHANGED vars
  BY <1>3 DEF vars
<1>4. CASE \E d \in Docs : ParseDocument(d)
  BY <1>4 DEF ParseDocument
<1>5. CASE IndexItem \/ IndexRootDone
  BY <1>5 DEF IndexItem, IndexRootDone
<1>6. CASE \E i \in 0 .. ByteMax : tx_getItem(i)
  BY <1>6 DEF tx_getItem
<1>7. CASE EndReview \/ ToggleExpert
  BY <1>7 DEF EndReview, ToggleExpert
<1> QED
  BY <1>1, <1>2, <1>3, <1>4, <1>5, <1>6, <1>7 DEF Next

\* The counts, the groups and the depth fit the document while it is read.
THEOREM DisplayInvariant == Spec => []DisplayInv
<1>1. Init => CountInv
  BY DEF Init, CountInv
<1>2. ItemInv /\ CountInv /\ [Next]_vars => CountInv'
  BY NextCounts DEF ItemInv
<1> QED
  BY <1>1, <1>2, ItemInvariant, PTL DEF Spec, DisplayInv

\* A document is rejected for its chain, for an amount that cannot be formatted,
\* for a missing fee or for its size, never because an item that was counted is
\* not found (parser_validate, tx_display_query).
THEOREM RejectionsHaveCause == Spec => RejectedForCause
<1>1. DisplayInv /\ [Next]_vars =>
        [phase # "rejected" /\ phase' = "rejected" /\ OneDepth(doc) => RejectionCause]_vars
  BY RejectingStep
<1> QED
  BY <1>1, DisplayInvariant, PTL DEF Spec, RejectedForCause

----------------------------------------------------------------------------
(* The whole document was shown                                            *)

AllSeen == DisplayInv /\ AllItemsSeen /\ Regular(doc)

LEMMA ReviewFacts ==
    ASSUME AllSeen
    PROVE  /\ TypeOK /\ CountInv /\ doc \in Docs /\ phase = "review"
           /\ RootsCounted /\ root = 8 /\ cache.valid /\ cache \in Caches
           /\ cache.fromGrouping => ~tx_is_expert_mode_or_not_default_chainid
           /\ cache.hideAll <=> cache.fromRef = OwnAddress
           /\ CountsFit /\ OneDepth(doc) /\ Leaves(msgs) = MsgLeaves
           /\ MsgLeaves \in Seq(Leaf)
<1>1. TypeOK /\ CountInv /\ DepthInv /\ phase = "review" /\ OneDepth(doc)
  BY DEF AllSeen, DisplayInv, ItemInv, AllItemsSeen, Regular
<1>2. doc \in Docs /\ RootsCounted /\ Settled /\ CountsFit
  BY <1>1 DEF CountInv
<1>3. cache \in Caches
  BY <1>1 DEF TypeOK
<1>4. doc \in Documents
  BY <1>1 DEF TypeOK
<1>5. MsgLeaves \in Seq(Leaf)
  BY <1>4 DEF Documents, MsgLeaves, RootItems, msgs
<1> QED
  BY <1>1, <1>2, <1>3, <1>5, MsgsSettled DEF Settled

\* A leaf whose number among those that are not skipped is promised was seen.
LEMMA SeenItem ==
    ASSUME AllSeen, NEW r \in RootItems, NEW p \in DOMAIN Leaves(r) \ Skipped(Leaves(r)),
           Leaves(r) \in Seq(Leaf),
           NEW t \in Nat, t = Cardinality(Kept(p - 1, Skipped(Leaves(r)))),
           t < get_subitem_count(r)
    PROVE  \E s \in seen : s.leaf = Leaves(r)[p]
<1>1. CountsFit
  BY ReviewFacts
<1>2. PICK b : b = ItemsBefore(r)
  OBVIOUS
<1>3. b \in Nat
  <2>1. r \in 1 .. 8
    BY DEF RootItems
  <2> QED
    BY <1>1, <1>2, <2>1, RootsFollow
<1>4. tx_traverse_find(Leaves(r), t) = {p}
  BY WalkFinds
<1>5. retrieve_tree_indexes(b + t) = {r} /\ b + t \in 0 .. (tx_display_numItems - 1)
  BY <1>1, <1>2, Located
<1>6. (b + t) - ItemsBefore(r) = t
  BY <1>2, <1>3
<1>7. tx_display_query(b + t) = Leaves(r)[p]
  BY <1>4, <1>5, <1>6, QueryIs
<1>8. PICK s \in seen : s.index = b + t
  BY <1>5 DEF AllSeen, AllItemsSeen
<1>9. s.leaf = tx_display_query(s.index)
  BY <1>8 DEF AllSeen, DisplayInv, ItemInv, StableInv, AllItemsSeen, Regular
<1> QED
  BY <1>7, <1>8, <1>9

LEMMA SeenIsShown ==
    ASSUME NEW s \in seen
    PROVE  s.leaf.atoms \subseteq ShownAtoms
  BY DEF ShownAtoms

\* Outside msgs a leaf that is not counted is one the rules hide.
LEMMA RootShown ==
    ASSUME AllSeen, NEW r \in RootItems, r # msgs, NEW p \in DOMAIN doc.leaves[r]
    PROVE  /\ Leaves(r) = doc.leaves[r]
           /\ HiddenLeaf(r, p, doc.leaves[r][p]) \/ WasSeen(doc.leaves[r][p])
<1>1. /\ Leaves(r) = doc.leaves[r] /\ doc.leaves[r] \in Seq(Leaf)
      /\ Skipped(Leaves(r)) = {}
  BY ReviewFacts, NoneSkipped
<1>2. PICK n : n = Len(doc.leaves[r])
  OBVIOUS
<1>3. n \in Nat /\ p \in Nat /\ 1 <= p /\ p <= n
  BY <1>1, <1>2
<1>4. PICK c : c = get_subitem_count(r)
  OBVIOUS
<1>5. c \in Nat
  BY <1>4, ReviewFacts, RootsFollow
<1>6. CASE p - 1 < c
  <2>1. p - 1 \in Nat /\ Kept(p - 1, {}) = 1 .. (p - 1)
    BY <1>3 DEF Kept
  <2>2. Cardinality(1 .. (p - 1)) = p - 1
    BY <2>1, FS_Interval
  <2>3. PICK t : t = p - 1
    OBVIOUS
  <2>4. t \in Nat /\ t = Cardinality(Kept(p - 1, Skipped(Leaves(r)))) /\ t < get_subitem_count(r)
    BY <1>1, <1>4, <1>6, <2>1, <2>2, <2>3
  <2>5. p \in DOMAIN Leaves(r) \ Skipped(Leaves(r)) /\ Leaves(r) \in Seq(Leaf)
    BY <1>1
  <2>6. PICK s \in seen : s.leaf = Leaves(r)[p]
    BY <2>4, <2>5, SeenItem
  <2> QED
    BY <1>1, <2>6 DEF WasSeen
<1>7. CASE ~(p - 1 < c)
  <2>1. SUFFICES ASSUME ~HiddenRoot(r, p)
                 PROVE  r = memo /\ doc.leaves[r][p].val = EmptyVal
    BY <1>1 DEF HiddenLeaf
  <2>2. c = cache.counts[r]
    <3>1. CASE r \in {chain_id, account_number, sequence}
      BY <1>4, <2>1, <3>1 DEF HiddenRoot, get_subitem_count, chain_id, account_number,
         sequence, fee, msgs
    <3>2. CASE r = fee /\ ~tx_is_expert_mode_or_not_default_chainid
      <4>1. c = 1
        BY <1>4, <3>2 DEF get_subitem_count, chain_id, account_number, sequence, fee, msgs
      <4>2. p > 1
        BY <1>3, <1>7, <4>1
      <4> QED
        BY <2>1, <3>2, <4>2 DEF HiddenRoot
    <3>3. CASE r \notin {chain_id, account_number, sequence}
               /\ ~(r = fee /\ ~tx_is_expert_mode_or_not_default_chainid)
      BY <1>4, <3>3 DEF get_subitem_count
    <3> QED
      BY <3>1, <3>2, <3>3
  <2>3. c < n
    BY <1>3, <1>5, <1>7
  <2>4. r < root
    BY ReviewFacts DEF RootItems
  <2>5. r = memo /\ doc.leaves[r][c + 1].val = EmptyVal
    <3>1. r \in RootItems \ {msgs}
      OBVIOUS
    <3>2. \/ cache.counts[r] = Len(doc.leaves[r])
          \/ r = memo /\ doc.leaves[r][cache.counts[r] + 1].val = EmptyVal
      BY <2>4, <3>1, ReviewFacts DEF RootsCounted
    <3>3. ~(cache.counts[r] = Len(doc.leaves[r]))
      BY <1>2, <1>3, <1>5, <2>2, <2>3
    <3> QED
      BY <2>2, <3>2, <3>3
  <2>6. n <= 1
    BY <1>2, <2>5 DEF AllSeen, Regular
  <2>7. p = c + 1
    BY <1>3, <1>5, <2>3, <2>6
  <2> QED
    BY <2>5, <2>7
<1> QED
  BY <1>1, <1>6, <1>7

\* A leaf of msgs that is not skipped was seen.
LEMMA MsgSeen ==
    ASSUME AllSeen, NEW q \in DOMAIN MsgLeaves \ Skipped(MsgLeaves)
    PROVE  /\ WasSeen(MsgLeaves[q])
           /\ MsgLeaves[q].atoms \subseteq ShownAtoms /\ SeenText(MsgLeaves[q])
<1>1. Leaves(msgs) = MsgLeaves /\ MsgLeaves \in Seq(Leaf) /\ msgs \in RootItems
  BY ReviewFacts DEF msgs, RootItems
<1>2. PICK n : n = Len(MsgLeaves)
  OBVIOUS
<1>3. n \in Nat /\ DOMAIN MsgLeaves = 1 .. n
  BY <1>1, <1>2
<1>4. PICK X : X = Skipped(MsgLeaves)
  OBVIOUS
<1>5. q \in Kept(n, X) /\ Kept(n, X) = DOMAIN MsgLeaves \ Skipped(MsgLeaves)
  BY <1>3, <1>4 DEF Kept
<1>6. get_subitem_count(msgs) = Cardinality(Kept(n, X))
  BY <1>1, <1>5, ReviewFacts, CountIsKept
        DEF AllSeen, ReadInv, DisplayInv, ItemInv
<1>7. PICK t : t = Cardinality(Kept(q - 1, X))
  OBVIOUS
<1>8. t \in Nat /\ t < get_subitem_count(msgs)
  BY <1>3, <1>5, <1>6, <1>7, NumberBelow
<1>9. q \in DOMAIN Leaves(msgs) \ Skipped(Leaves(msgs))
      /\ t = Cardinality(Kept(q - 1, Skipped(Leaves(msgs))))
  BY <1>1, <1>4, <1>7
<1>10. PICK s \in seen : s.leaf = MsgLeaves[q]
  BY <1>1, <1>8, <1>9, SeenItem
<1> QED
  BY <1>10, SeenIsShown DEF SeenText, WasSeen

\* The text of a field that was counted in a group is the text of its first.
LEMMA SameText ==
    ASSUME AllSeen, NEW key, PagesTellApart(doc, key), MsgLeaves \in Seq(Leaf),
           NEW count, NEW idx, NEW ref, NEW fields, fields = Fields(key, Len(MsgLeaves)),
           Group(count, idx, ref, fields), count = Cardinality(fields),
           NEW q \in DOMAIN MsgLeaves, MsgLeaves[q].key = key
    PROVE  /\ idx \in DOMAIN MsgLeaves /\ MsgLeaves[idx].key = key
           /\ MsgLeaves[idx].val = MsgLeaves[q].val /\ FirstPage[MsgLeaves[q].val] = ref
<1>1. DOMAIN MsgLeaves = 1 .. Len(MsgLeaves)
  OBVIOUS
<1>2. q \in fields
  BY <1>1 DEF Fields
<1>3. idx \in fields
  BY <1>2 DEF Group
<1>4. FirstPage[MsgLeaves[q].val] = ref /\ FirstPage[MsgLeaves[idx].val] = ref
  BY <1>2, <1>3 DEF Group
<1>5. idx \in DOMAIN MsgLeaves /\ MsgLeaves[idx].key = key
  BY <1>1, <1>3 DEF Fields
<1>6. MsgLeaves \in {doc.leaves[msgs], doc.deep}
  BY DEF MsgLeaves
<1> QED
  BY <1>4, <1>5, <1>6 DEF PagesTellApart

\* A leaf of msgs is shown, or repeats a shown text, or is the signer's address.
LEMMA MsgShown ==
    ASSUME AllSeen, NEW q \in DOMAIN MsgLeaves
    PROVE  /\ \/ HiddenMsgField(MsgLeaves[q])
              \/ WasSeen(MsgLeaves[q]) /\ MsgLeaves[q].atoms \subseteq ShownAtoms
           /\ MsgLeaves[q].key \notin GroupedKeys => MsgLeaves[q].atoms \subseteq ShownAtoms
<1>1. CASE q \notin Skipped(MsgLeaves)
  BY <1>1, MsgSeen
<1>2. CASE q \in Skipped(MsgLeaves)
  <2>1. SkipsType(q, MsgLeaves[q]) \/ SkipsFrom(q, MsgLeaves[q])
    BY <1>2 DEF Skipped
  <2>2. MsgLeaves[q].key \in GroupedKeys
    BY <2>1 DEF SkipsType, SkipsFrom, GroupedKeys
  <2>3. MsgLeaves \in Seq(Leaf) /\ Grouped \in 0 .. ByteMax
    <3>1. get_subitem_count(msgs) = Grouped /\ msgs \in RootItems
      BY DEF get_subitem_count, chain_id, account_number, sequence, fee, msgs, RootItems
    <3> QED
      BY <3>1, ReviewFacts DEF CountsFit
  <2>4. /\ cache.typeGrouping => /\ Group(cache.typeCount, cache.typeIdx, cache.typeRef, Types)
                                 /\ cache.typeCount = Cardinality(Types)
        /\ cache.fromGrouping => /\ Group(cache.fromCount, cache.fromIdx, cache.fromRef, Froms)
                                 /\ cache.fromCount = Cardinality(Froms)
    BY <2>3, ReviewFacts, GroupedIsKept
  <2>5. CASE SkipsType(q, MsgLeaves[q])
    <3>1. cache.typeGrouping /\ MsgLeaves[q].key = "type"
      BY <2>5 DEF SkipsType
    <3>2. PICK idx : idx = cache.typeIdx
      OBVIOUS
    <3>3. /\ idx \in DOMAIN MsgLeaves /\ MsgLeaves[idx].key = "type"
          /\ MsgLeaves[idx].val = MsgLeaves[q].val
      <4>1. PagesTellApart(doc, "type")
        BY DEF AllSeen, Regular
      <4> QED
        BY <2>3, <2>4, <3>1, <3>2, <4>1, SameText DEF Types
    <3>4. idx \notin Skipped(MsgLeaves)
      BY <3>2, <3>3 DEF Skipped, SkipsType, SkipsFrom
    <3>5. SeenText(MsgLeaves[idx])
      BY <3>3, <3>4, MsgSeen
    <3>6. SeenText(MsgLeaves[q])
      BY <3>1, <3>3, <3>5 DEF SeenText
    <3> QED
      BY <2>2, <3>1, <3>6 DEF HiddenMsgField
  <2>6. CASE SkipsFrom(q, MsgLeaves[q])
    <3>1. cache.fromGrouping /\ MsgLeaves[q].key = "delegator"
      BY <2>6 DEF SkipsFrom
    <3>2. ~tx_is_expert_mode_or_not_default_chainid
      BY <3>1, ReviewFacts
    <3>3. PICK idx : idx = cache.fromIdx
      OBVIOUS
    <3>4. /\ idx \in DOMAIN MsgLeaves /\ MsgLeaves[idx].key = "delegator"
          /\ MsgLeaves[idx].val = MsgLeaves[q].val
          /\ FirstPage[MsgLeaves[q].val] = cache.fromRef
      <4>1. PagesTellApart(doc, "delegator")
        BY DEF AllSeen, Regular
      <4> QED
        BY <2>3, <2>4, <3>1, <3>3, <4>1, SameText DEF Froms
    <3>5. CASE cache.hideAll
      <4>1. FirstPage[MsgLeaves[q].val] = OwnAddress
        BY <3>4, <3>5, ReviewFacts
      <4>2. MsgLeaves[q].val \in Vals
        <5>1. MsgLeaves[q] \in Leaf
          BY <2>3
        <5> QED
          BY <5>1 DEF Leaf
      <4>3. MsgLeaves[q].val = OwnAddress
        BY <4>1, <4>2, DocsAssumption
      <4> QED
        BY <2>2, <3>1, <3>2, <4>3 DEF HiddenMsgField
    <3>6. CASE ~cache.hideAll
      <4>1. idx \notin Skipped(MsgLeaves)
        BY <3>3, <3>4, <3>6 DEF Skipped, SkipsType, SkipsFrom
      <4>2. SeenText(MsgLeaves[idx])
        BY <3>4, <4>1, MsgSeen
      <4>3. SeenText(MsgLeaves[q])
        BY <3>1, <3>4, <4>2 DEF SeenText
      <4> QED
        BY <2>2, <3>1, <3>2, <4>3 DEF HiddenMsgField
    <3> QED
      BY <3>5, <3>6
  <2> QED
    BY <2>1, <2>5, <2>6
<1> QED
  BY <1>1, <1>2

\* A message of the document is shown, itself or in all of its parts.
LEMMA MessageShown ==
    ASSUME AllSeen, extraDepthLevel => Splits(doc), NEW p \in DOMAIN doc.leaves[msgs]
    PROVE  \/ HiddenLeaf(msgs, p, doc.leaves[msgs][p])
           \/ doc.leaves[msgs][p].atoms \subseteq ShownAtoms
<1>1. CASE Leaves(msgs) = doc.leaves[msgs]
  <2>1. MsgLeaves = doc.leaves[msgs]
    BY <1>1, ReviewFacts
  <2> QED
    BY <2>1, MsgShown DEF HiddenLeaf
<1>2. CASE Leaves(msgs) # doc.leaves[msgs]
  <2>1. Splits(doc) /\ MsgLeaves = doc.deep
    BY <1>2, ReviewFacts DEF Leaves, get_root_max_level
  <2>2. \/ doc.leaves[msgs][p] \in Parts(doc)
        \/ SplitInto(doc.leaves[msgs][p], Parts(doc))
    BY <2>1 DEF Splits
  <2>3. CASE doc.leaves[msgs][p] \in Parts(doc)
    <3>1. PICK q \in DOMAIN MsgLeaves : doc.leaves[msgs][p] = MsgLeaves[q]
      BY <2>1, <2>3 DEF Parts
    <3> QED
      BY <3>1, MsgShown DEF HiddenLeaf
  <2>4. CASE SplitInto(doc.leaves[msgs][p], Parts(doc))
    <3>1. ASSUME NEW a \in doc.leaves[msgs][p].atoms PROVE a \in ShownAtoms
      <4>1. PICK part \in Parts(doc) : part.key \notin GroupedKeys /\ a \in part.atoms
        BY <2>4, <3>1 DEF SplitInto
      <4>2. PICK q \in DOMAIN MsgLeaves : part = MsgLeaves[q]
        BY <2>1, <4>1 DEF Parts
      <4> QED
        BY <4>1, <4>2, MsgShown
    <3> QED
      BY <3>1
  <2> QED
    BY <2>2, <2>3, <2>4
<1> QED
  BY <1>1, <1>2

\* When the user has paged through all items, each leaf that the walks meet was
\* shown but for what the rules hide, and the seven fields were shown whole unless
\* the walk one level deeper meets less than they contain (tx_indexRootFields,
\* tx_display_query).
THEOREM EverythingShown == Spec => []AllShown
<1>1. DisplayInv => AllShown
  <2> SUFFICES ASSUME AllSeen
               PROVE  /\ MetIsSeen
                      /\ (extraDepthLevel => Splits(doc)) => NothingMissing
    BY DEF AllShown, AllSeen
  <2>1. MetIsSeen
    <3>1. SUFFICES ASSUME NEW r \in RootItems, NEW p \in DOMAIN Leaves(r)
                   PROVE  HiddenLeaf(r, p, Leaves(r)[p]) \/ WasSeen(Leaves(r)[p])
      BY DEF MetIsSeen
    <3>2. CASE r = msgs
      <4>1. Leaves(r) = MsgLeaves
        BY <3>2, ReviewFacts
      <4> QED
        BY <3>2, <4>1, MsgShown DEF HiddenLeaf
    <3>3. CASE r # msgs
      <4>1. Leaves(r) = doc.leaves[r]
        BY <3>3, ReviewFacts, NoneSkipped
      <4> QED
        BY <3>3, <4>1, RootShown
    <3> QED
      BY <3>2, <3>3
  <2>2. ASSUME extraDepthLevel => Splits(doc) PROVE NothingMissing
    <3>1. SUFFICES ASSUME NEW r \in RootItems, NEW p \in DOMAIN doc.leaves[r]
                   PROVE  \/ HiddenLeaf(r, p, doc.leaves[r][p])
                          \/ doc.leaves[r][p].atoms \subseteq ShownAtoms
      BY DEF NothingMissing
    <3>2. CASE r = msgs
      BY <2>2, <3>2, MessageShown
    <3>3. CASE r # msgs
      <4>1. HiddenLeaf(r, p, doc.leaves[r][p]) \/ WasSeen(doc.leaves[r][p])
        BY <3>3, RootShown
      <4> QED
        BY <4>1, SeenIsShown DEF WasSeen
    <3> QED
      BY <3>2, <3>3
  <2> QED
    BY <2>1, <2>2
<1> QED
  BY <1>1, DisplayInvariant, PTL
=============================================================================
