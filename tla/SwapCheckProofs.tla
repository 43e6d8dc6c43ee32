-------------------------- MODULE SwapCheckProofs --------------------------
(***************************************************************************)
(* Proofs about SwapCheck, for any documents and payments: a payment is    *)
(* accepted only if all the rows of one of its forms agree with what       *)
(* Exchange agreed on, and then the document pays that and nothing else.   *)
(* The converse: a payment as agreed, in a standard form, is not refused.  *)
(***************************************************************************)
EXTENDS SwapCheck, TxDisplayProofs, SequenceTheorems

allVars == <<vars, swapVars>>

----------------------------------------------------------------------------
(* Types                                                                   *)

\* A step of the check changes nothing of the display but the depth.
CheckStep == \E row \in DOMAIN Rows : CheckFirst(row) \/ CheckRow(row)

LEMMA CheckReads ==
    ASSUME CheckStep
    PROVE  /\ Checking
           /\ \E i : extraDepthLevel' = DepthAfter(tx_display_query(i))
           /\ UNCHANGED <<swap, displayVars>>
<1>1. PICK row \in DOMAIN Rows : CheckFirst(row) \/ CheckRow(row)
  BY DEF CheckStep
<1>2. CASE CheckFirst(row)
  BY <1>2 DEF CheckFirst
<1>3. CASE CheckRow(row)
  BY <1>3 DEF CheckRow
<1> QED
  BY <1>1, <1>2, <1>3

\* The steps of a swap.
LEMMA SwapSteps ==
    ASSUME [SwapNext]_allVars
    PROVE  \/ UNCHANGED allVars
           \/ \E p \in Parameters : StartSwap(p)
           \/ ReadDocument
           \/ CheckStep
           \/ CheckCount
<1>1. {"sourceAddress", "type"} \subseteq DOMAIN Rows
  BY DEF Rows
<1> QED
  BY <1>1 DEF SwapNext, CheckStep

\* Reading the document is a step of the display.
LEMMA ReadIsNext ==
    ASSUME ReadDocument
    PROVE  [Next]_vars /\ UNCHANGED swapVars
  BY DEF ReadDocument, Next

\* A payment that does not fit leaves the document as it was.
LEMMA StartResets ==
    ASSUME NEW p \in Parameters, StartSwap(p)
    PROVE  /\ expert' = expert /\ stage' = "first" /\ base' = 0 /\ chain' = 1
           /\ \/ /\ Fits(p) /\ swap' = p /\ verdict' = "open"
                 /\ phase' = "none" /\ doc' = NoDocument /\ extraDepthLevel' = FALSE
                 /\ cache' = EmptyCache /\ root' = 1 /\ item' = 1
                 /\ checked' = <<>> /\ seen' = {}
              \/ verdict' = "none" /\ UNCHANGED <<swap, vars>>
  BY DEF StartSwap, vars

LEMMA SwapStepTyped ==
    ASSUME TypeOK, [SwapNext]_allVars
    PROVE  TypeOK'
<1>1. CASE UNCHANGED allVars
  BY <1>1, NextTyped DEF allVars
<1>2. ASSUME NEW p \in Parameters, StartSwap(p) PROVE TypeOK'
  <2>1. CASE UNCHANGED vars
    BY <2>1, NextTyped
  <2>2. CASE ~UNCHANGED vars
    <3>1. NoDocument \in Documents
      BY DEF NoDocument, Documents
    <3>2. EmptyCache \in Caches
      BY DocsAssumption DEF EmptyCache, Caches
    <3>3. /\ phase' = "none" /\ doc' = NoDocument /\ extraDepthLevel' = FALSE
          /\ cache' = EmptyCache /\ root' = 1 /\ item' = 1
          /\ checked' = <<>> /\ seen' = {} /\ expert' = expert
      BY <1>2, <2>2, StartResets
    <3>4. /\ phase' \in {"none", "indexing", "validating", "review", "rejected"}
          /\ doc' \in Documents /\ cache' \in Caches
      BY <3>1, <3>2, <3>3
    <3>5. expert' \in BOOLEAN /\ extraDepthLevel' \in BOOLEAN
      BY <3>3 DEF TypeOK
    <3>6. root' \in 1 .. 8 /\ item' \in Nat \ {0} /\ checked' \in Seq(Leaf) /\ seen' = {}
      BY <3>3
    <3> QED
      BY <3>4, <3>5, <3>6 DEF TypeOK
  <2> QED
    BY <2>1, <2>2
<1>3. CASE ReadDocument
  BY <1>3, ReadIsNext, NextTyped
<1>4. CASE CheckStep
  <2>1. extraDepthLevel' \in BOOLEAN
    BY <1>4, CheckReads, DepthType DEF TypeOK
  <2>2. UNCHANGED displayVars
    BY <1>4, CheckReads
  <2> QED
    BY <2>1, <2>2 DEF TypeOK, displayVars
<1>5. CASE CheckCount
  <2>1. UNCHANGED vars
    BY <1>5 DEF CheckCount, displayVars, vars
  <2> QED
    BY <2>1, NextTyped
<1> QED
  BY <1>1, <1>2, <1>3, <1>4, <1>5, SwapSteps

LEMMA FirstChain == 1 \in DOMAIN Chains
  BY SwapAssumption

LEMMA SwapTyped ==
    ASSUME SwapTypeOK, [SwapNext]_allVars
    PROVE  SwapTypeOK'
<1>1. CASE UNCHANGED swapVars
  BY <1>1 DEF SwapTypeOK, swapVars
<1>2. ASSUME NEW p \in Parameters, StartSwap(p) PROVE SwapTypeOK'
  <2>1. CASE UNCHANGED swap
    BY <1>2, <2>1, StartResets, FirstChain DEF SwapTypeOK
  <2>2. CASE ~UNCHANGED swap
    <3>1. Fits(p) /\ swap' = p /\ verdict' = "open"
      BY <1>2, <2>2, StartResets
    <3>2. p \in Payments
      BY SwapAssumption
    <3> QED
      BY <1>2, <3>1, <3>2, StartResets, FirstChain DEF SwapTypeOK, Fits
  <2> QED
    BY <2>1, <2>2
<1>3. ASSUME NEW row \in DOMAIN Rows, CheckFirst(row) PROVE SwapTypeOK'
  <2> DEFINE index == find_chain_index_by_chain_id(tx_display_query(0).val)
  <2>1. index \subseteq DOMAIN Chains
    BY DEF find_chain_index_by_chain_id
  <2>2. \/ UNCHANGED chain
        \/ index # {} /\ chain' = CHOOSE k \in index : TRUE
        \/ chain' = 1
    BY <1>3 DEF CheckFirst
  <2>3. chain' \in DOMAIN Chains
    BY <2>1, <2>2, FirstChain DEF SwapTypeOK
  <2>4. /\ swap' = swap /\ verdict' \in {verdict, "refused"}
        /\ stage' \in {stage, row} /\ base' \in {base, 0, 3}
    BY <1>3 DEF CheckFirst
  <2> QED
    BY <2>3, <2>4 DEF SwapTypeOK
<1>4. ASSUME NEW row \in DOMAIN Rows, CheckRow(row) PROVE SwapTypeOK'
  <2>1. Following(row) \in DOMAIN Rows \cup {"count"}
    BY DEF Following, Rows
  <2>2. /\ UNCHANGED <<swap, base, chain>> /\ verdict' \in {verdict, "refused"}
        /\ stage' \in {stage, "second", Following(row)}
    BY <1>4 DEF CheckRow
  <2> QED
    BY <2>1, <2>2 DEF SwapTypeOK
<1>5. CASE CheckCount
  BY <1>5 DEF CheckCount, SwapTypeOK
<1> QED
  BY <1>1, <1>2, <1>3, <1>4, <1>5, SwapSteps, ReadIsNext DEF CheckStep, allVars

LEMMA SwapInitTyped ==
    ASSUME SwapInit
    PROVE  TypeOK /\ SwapTypeOK
<1>1. TypeOK
  BY InitTyped DEF SwapInit
<1>2. NoSwap.amount \notin BigNumbers /\ NoSwap.fees \notin BigNumbers
  BY SwapAssumption DEF NoSwap
<1>3. NoSwap.destination_address \notin TooLong /\ NoSwap.memo \notin TooLong
  BY SwapAssumption DEF NoSwap
<1> QED
  BY <1>1, <1>2, <1>3, FirstChain DEF SwapInit, SwapTypeOK

\* The state of a swap keeps its type, and what was agreed on fits its fields,
\* for any payments and documents.
THEOREM SwapTypeCorrect == SwapSpec => []SwapTypeOK
<1>1. SwapInit => SwapTypeOK
  BY SwapInitTyped
<1> QED
  BY <1>1, SwapTyped, PTL DEF SwapSpec, allVars

----------------------------------------------------------------------------
(* Every row of a form agrees                                              *)

\* Messages are met at one depth while a swap is checked.
LEMMA SwapStepDepth ==
    ASSUME TypeOK, DepthInv, [SwapNext]_allVars
    PROVE  DepthInv'
<1>1. CASE UNCHANGED vars
  BY <1>1, NextDepth
<1>2. ASSUME NEW p \in Parameters, StartSwap(p) PROVE DepthInv'
  <2>1. CASE phase' = "none"
    BY <2>1 DEF DepthInv
  <2> QED
    BY <1>1, <1>2, <2>1, StartResets
<1>3. CASE ReadDocument
  BY <1>3, ReadIsNext, NextDepth
<1>4. CASE CheckStep
  <2>1. phase = "review" /\ UNCHANGED <<phase, doc, root, item>>
    BY <1>4, CheckReads DEF Checking, displayVars
  <2>2. PICK i : extraDepthLevel' = DepthAfter(tx_display_query(i))
    BY <1>4, CheckReads
  <2>3. CASE OneDepth(doc)
    <3>1. extraDepthLevel' = extraDepthLevel
      BY <2>1, <2>2, <2>3, DepthStays DEF DepthInv
    <3> QED
      BY <2>1, <3>1 DEF DepthInv, NoMulti, OnlyMulti
  <2>4. CASE ~OneDepth(doc)
    BY <2>1, <2>4 DEF DepthInv, OneDepth, NoMulti, OnlyMulti
  <2> QED
    BY <2>3, <2>4
<1>5. CASE CheckCount
  BY <1>1, <1>5 DEF CheckCount, displayVars, vars
<1> QED
  BY <1>1, <1>2, <1>3, <1>4, <1>5, SwapSteps DEF allVars

\* A step of the check that fetches an item leaves the depth as it is.
LEMMA CheckKeepsDepth ==
    ASSUME TypeOK, DepthInv, OneDepth(doc), CheckStep
    PROVE  extraDepthLevel' = extraDepthLevel
<1>1. phase = "review"
  BY CheckReads DEF Checking
<1>2. PICK i : extraDepthLevel' = DepthAfter(tx_display_query(i))
  BY CheckReads
<1> QED
  BY <1>1, <1>2, DepthStays DEF DepthInv

\* What the comparison of a row depends on.
LEMMA SameAgreement ==
    ASSUME UNCHANGED <<doc, expert, cache, extraDepthLevel, swap, base, chain>>, NEW row
    PROVE  AgreesNow(row)' = AgreesNow(row)
<1>1. Position(row)' = Position(row)
  BY DEF Position, has_memo
<1>2. tx_display_query(Position(row))' = tx_display_query(Position(row))
  BY <1>1, SameItems
<1>3. \A leaf : Agrees(row, leaf)' = Agrees(row, leaf)
  BY DEF Agrees, parser_formatAmount, parser_formatAmountItem, is_default_denom_base,
         tx_is_expert_mode_or_not_default_chainid, format_amount
<1> QED
  BY <1>2, <1>3 DEF AgreesNow

\* The rows compared before each stage of a form, and those before the last ones.
RowsBefore ==
    [sourceCoins |-> {"sourceAddress"},
     destAddress |-> {"sourceAddress", "sourceCoins"},
     destCoins   |-> {"sourceAddress", "sourceCoins", "destAddress"},
     amount      |-> {"type"},
     to          |-> {"type", "amount"}]
OneForm(rows) == \E form \in {TransferRows, SendRows} : AllAgree(form \cup rows)

RowsInv ==
    /\ phase # "review" => stage = "first" /\ verdict # "accepted"
    /\ OneDepth(doc) =>
         /\ \A row \in DOMAIN RowsBefore : stage = row => AllAgree(RowsBefore[row])
         /\ stage = "memo" => has_memo /\ OneForm({})
         /\ stage = "fee" => OneForm(CommonRows \ {"fee"})
         /\ stage = "count" => OneForm(CommonRows)
    /\ verdict = "accepted" => stage = "count" /\ tx_display_numItems = ItemsExpected

\* Agreement lasts while what it depends on does.
LEMMA SameRows ==
    ASSUME UNCHANGED <<doc, expert, cache, extraDepthLevel, swap, base, chain>>
    PROVE  /\ \A rows : AllAgree(rows)' = AllAgree(rows)
           /\ \A rows : OneForm(rows)' = OneForm(rows)
           /\ tx_display_numItems' = tx_display_numItems /\ ItemsExpected' = ItemsExpected
           /\ CommonRows' = CommonRows /\ has_memo' = has_memo
<1>1. \A rows : AllAgree(rows)' = AllAgree(rows)
  BY SameAgreement DEF AllAgree
<1>2. \A rows : OneForm(rows)' = OneForm(rows)
  BY <1>1 DEF OneForm, TransferRows, SendRows
<1>3. tx_display_numItems' = tx_display_numItems /\ ItemsExpected' = ItemsExpected
  BY SameItems DEF ItemsExpected, has_memo
<1>4. CommonRows' = CommonRows /\ has_memo' = has_memo
  BY DEF CommonRows, has_memo
<1> QED
  BY <1>1, <1>2, <1>3, <1>4

LEMMA SameRowsInv ==
    ASSUME RowsInv, verdict' \in {verdict, "refused"},
           UNCHANGED <<phase, doc, expert, cache, extraDepthLevel, swap, base, chain, stage>>
    PROVE  RowsInv'
  BY SameRows DEF RowsInv, RowsBefore, OneDepth, NoMulti, OnlyMulti

\* A row that agrees joins those before it.
LEMMA RowJoins ==
    ASSUME RowsInv, OneDepth(doc), NEW row \in DOMAIN Rows, stage = row, AgreesNow(row)
    PROVE  /\ Following(row) \in DOMAIN RowsBefore => AllAgree(RowsBefore[Following(row)])
           /\ Following(row) = "memo" => has_memo /\ OneForm({})
           /\ Following(row) = "fee" => OneForm(CommonRows \ {"fee"})
           /\ Following(row) = "count" => OneForm(CommonRows)
<1>1. ASSUME NEW rows, AllAgree(rows) PROVE AllAgree(rows \cup {row})
  BY <1>1 DEF AllAgree
<1>2. CASE row \in {"sourceAddress", "type"}
  <2>1. Following(row) = IF row = "type" THEN "amount" ELSE "sourceCoins"
    BY <1>2 DEF Following, Rows
  <2>2. AllAgree({row})
    BY DEF AllAgree
  <2> QED
    BY <1>2, <2>1, <2>2 DEF RowsBefore
<1>3. CASE row \in {"sourceCoins", "destAddress", "amount"}
  <2>1. Following(row) = CASE row = "sourceCoins" -> "destAddress"
                           [] row = "destAddress" -> "destCoins"
                           [] row = "amount" -> "to"
    BY <1>3 DEF Following, Rows
  <2>2. RowsBefore[Following(row)] = RowsBefore[row] \cup {row}
    BY <1>3, <2>1 DEF RowsBefore
  <2>3. AllAgree(RowsBefore[row])
    BY <1>3 DEF RowsInv, RowsBefore
  <2> QED
    BY <1>1, <1>3, <2>1, <2>2, <2>3
<1>4. CASE row \in {"destCoins", "to"}
  <2>1. Following(row) = IF has_memo THEN "memo" ELSE "fee"
    BY <1>4 DEF Following, Rows
  <2>2. RowsBefore[row] \cup {row} \in {TransferRows, SendRows}
    BY <1>4 DEF RowsBefore, TransferRows, SendRows
  <2>3. AllAgree(RowsBefore[row])
    BY <1>4 DEF RowsInv, RowsBefore
  <2>4. OneForm({})
    BY <1>1, <2>2, <2>3 DEF OneForm
  <2>5. ~has_memo => CommonRows \ {"fee"} = {}
    BY DEF CommonRows
  <2> QED
    BY <2>1, <2>4, <2>5 DEF RowsBefore
<1>5. CASE row = "memo"
  <2>1. Following(row) = "fee"
    BY <1>5 DEF Following, Rows
  <2>2. has_memo /\ OneForm({})
    BY <1>5 DEF RowsInv
  <2>3. CommonRows \ {"fee"} = {"memo"}
    BY <2>2 DEF CommonRows
  <2>4. PICK form \in {TransferRows, SendRows} : AllAgree(form \cup {})
    BY <2>2 DEF OneForm
  <2>5. AllAgree(form \cup {"memo"})
    BY <1>1, <1>5, <2>4
  <2> QED
    BY <2>1, <2>3, <2>5 DEF OneForm, RowsBefore
<1>6. CASE row = "fee"
  <2>1. Following(row) = "count"
    BY <1>6 DEF Following, Rows
  <2>2. PICK form \in {TransferRows, SendRows} : AllAgree(form \cup (CommonRows \ {"fee"}))
    BY <1>6 DEF RowsInv, OneForm
  <2>3. AllAgree((form \cup (CommonRows \ {"fee"})) \cup {"fee"})
    BY <1>1, <1>6, <2>2
  <2>4. AllAgree(form \cup CommonRows)
    BY <2>3 DEF AllAgree
  <2> QED
    BY <2>1, <2>4 DEF OneForm, RowsBefore
<1> QED
  BY <1>2, <1>3, <1>4, <1>5, <1>6 DEF Rows

LEMMA SwapStepRows ==
    ASSUME TypeOK, DepthInv, RowsInv, [SwapNext]_allVars
    PROVE  RowsInv'
<1>1. CASE UNCHANGED allVars
  BY <1>1, SameRowsInv DEF allVars, vars, swapVars
<1>2. ASSUME stage' \in {"first", "second", "sourceAddress", "type"}, verdict' # "accepted",
             phase' # "review" => stage' = "first"
      PROVE  RowsInv'
  BY <1>2 DEF RowsInv, RowsBefore
<1>3. ASSUME NEW p \in Parameters, StartSwap(p) PROVE RowsInv'
  BY <1>2, <1>3, StartResets
<1>4. CASE ReadDocument
  <2>1. phase # "review" /\ verdict = "open"
    BY <1>4 DEF ReadDocument, ParseDocument, Idle, IndexItem, IndexRootDone, IndexDone,
                ValidateItem
  <2>2. stage' = "first" /\ verdict' = "open"
    BY <1>4, <2>1, ReadIsNext DEF RowsInv, swapVars
  <2> QED
    BY <1>2, <2>2
<1>5. ASSUME NEW row \in DOMAIN Rows, CheckFirst(row) PROVE RowsInv'
  <2>1. /\ phase = "review" /\ phase' = phase /\ verdict = "open"
        /\ \/ row = "sourceAddress" /\ stage = "first"
           \/ row = "type" /\ stage = "second"
        /\ stage' \in {stage, row} /\ verdict' \in {verdict, "refused"}
    BY <1>5 DEF CheckFirst, Checking, displayVars
  <2> QED
    BY <1>2, <2>1
<1>6. ASSUME NEW row \in DOMAIN Rows, CheckRow(row) PROVE RowsInv'
  <2>1. /\ phase = "review" /\ verdict = "open" /\ stage = row
        /\ UNCHANGED <<phase, doc, expert, cache, swap, base, chain>>
    BY <1>6 DEF CheckRow, Checking, displayVars
  <2>2. CASE AgreesNow(row) /\ stage' = Following(row) /\ UNCHANGED verdict
    <3>1. PICK following : following = Following(row)
      OBVIOUS
    <3>2. following = stage'
      BY <2>2, <3>1
    <3>3. ASSUME OneDepth(doc)
          PROVE  /\ following \in DOMAIN RowsBefore => AllAgree(RowsBefore[following])'
                 /\ following = "memo" => has_memo' /\ OneForm({})'
                 /\ following = "fee" => OneForm(CommonRows \ {"fee"})'
                 /\ following = "count" => OneForm(CommonRows)'
      <4>1. extraDepthLevel' = extraDepthLevel
        BY <1>6, <3>3, CheckKeepsDepth DEF CheckStep
      <4>2. /\ following \in DOMAIN RowsBefore => AllAgree(RowsBefore[following])
            /\ following = "memo" => has_memo /\ OneForm({})
            /\ following = "fee" => OneForm(CommonRows \ {"fee"})
            /\ following = "count" => OneForm(CommonRows)
        BY <2>1, <2>2, <3>1, <3>3, RowJoins
      <4> QED
        BY <2>1, <4>1, <4>2, SameRows
    <3>4. OneDepth(doc)' => OneDepth(doc)
      BY <2>1 DEF OneDepth, NoMulti, OnlyMulti
    <3> QED
      BY <2>1, <2>2, <3>2, <3>3, <3>4 DEF RowsInv, RowsBefore
  <2>3. CASE stage' = "second" /\ UNCHANGED verdict
    BY <1>2, <2>1, <2>3
  <2>4. CASE verdict' = "refused" /\ UNCHANGED stage
    <3>1. CASE OneDepth(doc)
      <4>1. extraDepthLevel' = extraDepthLevel
        BY <1>6, <3>1, CheckKeepsDepth DEF CheckStep
      <4> QED
        BY <2>1, <2>4, <4>1, SameRowsInv
    <3>2. CASE ~OneDepth(doc)
      BY <2>1, <2>4, <3>2 DEF RowsInv, OneDepth, NoMulti, OnlyMulti
    <3> QED
      BY <3>1, <3>2
  <2> QED
    BY <1>6, <2>2, <2>3, <2>4 DEF CheckRow, AgreesNow
<1>7. CASE CheckCount
  <2>1. /\ phase = "review" /\ stage = "count"
        /\ UNCHANGED <<phase, doc, expert, cache, extraDepthLevel, swap, base, chain, stage>>
        /\ verdict' = "accepted" => tx_display_numItems = ItemsExpected
    BY <1>7 DEF CheckCount, Checking, displayVars
  <2> QED
    BY <2>1, SameRows DEF RowsInv, RowsBefore, OneDepth, NoMulti, OnlyMulti
<1> QED
  BY <1>1, <1>3, <1>4, <1>5, <1>6, <1>7, SwapSteps DEF CheckStep

\* The invariant: every row before the present stage agrees with the payment.
SwapInv == TypeOK /\ DepthInv /\ RowsInv

\* A payment is accepted only if all the rows of one of its forms agree with it
\* at once and it has no further item, for any payments, chains and documents
\* whose messages are met at one depth.
THEOREM AcceptedPaymentAgrees == SwapSpec => []AcceptedRowsAgree
<1>1. SwapInit => SwapInv
  <2> SUFFICES ASSUME SwapInit PROVE SwapInv
    OBVIOUS
  <2>1. phase = "none" /\ stage = "first" /\ verdict = "none"
    BY DEF SwapInit, Init
  <2> QED
    BY <2>1, SwapInitTyped DEF SwapInv, DepthInv, RowsInv, RowsBefore
<1>2. SwapInv /\ [SwapNext]_allVars => SwapInv'
  BY SwapStepTyped, SwapStepDepth, SwapStepRows DEF SwapInv
<1>3. SwapInv => AcceptedRowsAgree
  BY DEF SwapInv, RowsInv, OneForm, AcceptedRowsAgree
<1> QED
  BY <1>1, <1>2, <1>3, PTL DEF SwapSpec, allVars

----------------------------------------------------------------------------
(* The chain of a swap                                                     *)

\* The indexes fit the document while it is checked.
LEMMA SwapStepCounts ==
    ASSUME TypeOK, DepthInv, CountInv, [SwapNext]_allVars
    PROVE  CountInv'
<1>1. CASE UNCHANGED vars
  BY <1>1, NextCounts
<1>2. ASSUME NEW p \in Parameters, StartSwap(p) PROVE CountInv'
  <2>1. CASE phase' = "none"
    BY <2>1 DEF CountInv
  <2> QED
    BY <1>1, <1>2, <2>1, StartResets
<1>3. CASE ReadDocument
  BY <1>3, ReadIsNext, NextCounts
<1>4. CASE CheckStep
  <2>1. UNCHANGED CountVars
    BY <1>4, CheckReads DEF displayVars, CountVars
  <2> QED
    BY <2>1, CountStays
<1>5. CASE CheckCount
  BY <1>1, <1>5 DEF CheckCount, displayVars, vars
<1> QED
  BY <1>1, <1>2, <1>3, <1>4, <1>5, SwapSteps DEF allVars

\* The items are looked for from the first on, or behind the three that a chain
\* named by the first comes with.
ChainInv ==
    OneDepth(doc) /\ stage # "first" =>
        \/ base = 0 /\ chain = 1
        \/ /\ base = 3 /\ tx_display_query(0).key = "chain_id"
           /\ chain \in find_chain_index_by_chain_id(tx_display_query(0).val)

LEMMA SameChain ==
    ASSUME ChainInv, stage' # "first" => stage # "first",
           UNCHANGED <<doc, expert, cache, base, chain>>,
           OneDepth(doc) => extraDepthLevel' = extraDepthLevel
    PROVE  ChainInv'
<1>1. OneDepth(doc)' = OneDepth(doc)
  BY DEF OneDepth, NoMulti, OnlyMulti
<1>2. CASE OneDepth(doc)
  <2>1. tx_display_query(0)' = tx_display_query(0)
    BY <1>2, SameItems
  <2> QED
    BY <1>1, <1>2, <2>1 DEF ChainInv, find_chain_index_by_chain_id
<1>3. CASE ~OneDepth(doc)
  BY <1>1, <1>3 DEF ChainInv
<1> QED
  BY <1>2, <1>3

LEMMA SwapStepChain ==
    ASSUME TypeOK, DepthInv, RowsInv, ChainInv, [SwapNext]_allVars
    PROVE  ChainInv'
<1>1. CASE stage' = "first"
  BY <1>1 DEF ChainInv
<1>2. CASE UNCHANGED allVars
  BY <1>2, SameChain DEF allVars, vars, swapVars
<1>3. ASSUME NEW p \in Parameters, StartSwap(p) PROVE ChainInv'
  BY <1>1, <1>3, StartResets
<1>4. CASE ReadDocument
  <2>1. phase # "review"
    BY <1>4 DEF ReadDocument, ParseDocument, Idle, IndexItem, IndexRootDone, IndexDone,
                ValidateItem
  <2> QED
    BY <1>1, <1>4, <2>1, ReadIsNext DEF RowsInv, swapVars
<1>5. ASSUME NEW row \in DOMAIN Rows, CheckFirst(row) PROVE ChainInv'
  <2>1. UNCHANGED <<doc, expert, cache>>
    BY <1>5 DEF CheckFirst, displayVars
  <2>2. OneDepth(doc)' = OneDepth(doc)
    BY <2>1 DEF OneDepth, NoMulti, OnlyMulti
  <2>3. CASE OneDepth(doc)
    <3>1. extraDepthLevel' = extraDepthLevel
      BY <1>5, <2>3, CheckKeepsDepth DEF CheckStep
    <3>2. PICK leaf : leaf = tx_display_query(0)
      OBVIOUS
    <3>3. tx_display_query(0)' = leaf
      BY <2>1, <3>1, <3>2, SameItems
    <3>4. PICK index : index = find_chain_index_by_chain_id(leaf.val)
      OBVIOUS
    <3>5. \/ UNCHANGED <<stage, base, chain>>
          \/ /\ leaf.key = "chain_id" /\ index # {}
             /\ chain' = (CHOOSE k \in index : TRUE) /\ base' = 3
          \/ chain' = 1 /\ base' = 0
      BY <1>5, <3>2, <3>4 DEF CheckFirst
    <3>6. CASE UNCHANGED <<stage, base, chain>>
      BY <2>1, <3>1, <3>6, SameChain
    <3>7. CASE /\ leaf.key = "chain_id" /\ index # {}
               /\ chain' = (CHOOSE k \in index : TRUE) /\ base' = 3
      <4>1. chain' \in index
        BY <3>7
      <4> QED
        BY <3>3, <3>4, <3>7, <4>1 DEF ChainInv, find_chain_index_by_chain_id
    <3>8. CASE chain' = 1 /\ base' = 0
      BY <3>8 DEF ChainInv
    <3> QED
      BY <3>5, <3>6, <3>7, <3>8
  <2>4. CASE ~OneDepth(doc)
    BY <2>2, <2>4 DEF ChainInv
  <2> QED
    BY <2>3, <2>4
<1>6. ASSUME NEW row \in DOMAIN Rows, CheckRow(row) PROVE ChainInv'
  <2>1. UNCHANGED <<doc, expert, cache, base, chain>> /\ stage # "first"
    BY <1>6 DEF CheckRow, displayVars, Rows
  <2>2. OneDepth(doc) => extraDepthLevel' = extraDepthLevel
    BY <1>6, CheckKeepsDepth DEF CheckStep
  <2> QED
    BY <2>1, <2>2, SameChain
<1>7. CASE CheckCount
  BY <1>7, SameChain DEF CheckCount, displayVars
<1> QED
  BY <1>2, <1>3, <1>4, <1>5, <1>6, <1>7, SwapSteps DEF CheckStep

----------------------------------------------------------------------------
(* The items of a document that is checked                                 *)

\* The invariant of a swap.
PaymentInv == SwapInv /\ SwapTypeOK /\ CountInv /\ ChainInv

\* A document is in review, and its messages are met at one depth.
InReview == PaymentInv /\ phase = "review" /\ OneDepth(doc)

LEMMA ReviewedFacts ==
    ASSUME InReview
    PROVE  /\ ReadInv /\ phase \in {"validating", "review"} /\ doc \in Docs /\ doc \in Documents
           /\ RootsCounted /\ Settled /\ CountsFit /\ cache \in Caches
           /\ Leaves(msgs) = MsgLeaves /\ MsgLeaves \in Seq(Leaf)
<1>1. TypeOK /\ DepthInv /\ CountInv /\ phase = "review" /\ OneDepth(doc)
  BY DEF InReview, PaymentInv, SwapInv
<1>2. doc \in Docs /\ RootsCounted /\ Settled /\ CountsFit
  BY <1>1 DEF CountInv
<1>3. cache \in Caches /\ doc \in Documents
  BY <1>1 DEF TypeOK
<1>4. MsgLeaves \in Seq(Leaf)
  BY <1>3 DEF Documents, MsgLeaves, RootItems, msgs
<1> QED
  BY <1>1, <1>2, <1>3, <1>4, MsgsSettled DEF ReadInv

\* An item with a key of a swap is a leaf of the field that the key belongs to.
LEMMA ItemField ==
    ASSUME InReview, NEW i, NEW key \in SwapKeys, tx_display_query(i).key = key,
           NEW r, r = FieldOf(key)
    PROVE  /\ r \in RootItems /\ i - ItemsBefore(r) \in 0 .. (get_subitem_count(r) - 1)
           /\ \E p \in tx_traverse_find(Leaves(r), i - ItemsBefore(r)) :
                p \in DOMAIN Leaves(r) /\ tx_display_query(i) = Leaves(r)[p]
<1> DEFINE found == UNION {{Leaves(q)[p] : p \in tx_traverse_find(Leaves(q), i - ItemsBefore(q))} :
                             q \in retrieve_tree_indexes(i)}
<1>1. tx_display_query(i) # NoLeaf
  BY SwapAssumption, DocsAssumption DEF NoLeaf
<1>2. tx_display_query(i) \in found
  BY <1>1 DEF tx_display_query
<1>3. PICK q \in retrieve_tree_indexes(i) :
        \E p \in tx_traverse_find(Leaves(q), i - ItemsBefore(q)) : tx_display_query(i) = Leaves(q)[p]
  BY <1>2
<1>4. PICK p \in tx_traverse_find(Leaves(q), i - ItemsBefore(q)) : tx_display_query(i) = Leaves(q)[p]
  BY <1>3
<1>5. p \in DOMAIN Leaves(q)
  BY <1>4 DEF tx_traverse_find
<1>6. q \in RootItems /\ i - ItemsBefore(q) \in 0 .. (get_subitem_count(q) - 1)
  BY <1>3 DEF retrieve_tree_indexes
<1>7. q = r
  <2>1. CASE q # msgs
    <3>1. Leaves(q) = doc.leaves[q]
      BY <1>6, <2>1, ReviewedFacts, NoneSkipped
    <3> QED
      BY <1>4, <1>5, <1>6, <3>1, ReviewedFacts, SwapAssumption
  <2>2. CASE q = msgs
    <3>1. Leaves(q) = doc.leaves[q] \/ Leaves(q) = doc.deep
      BY DEF Leaves
    <3> QED
      BY <1>4, <1>5, <1>6, <2>2, <3>1, ReviewedFacts, SwapAssumption
  <2> QED
    BY <2>1, <2>2
<1> QED
  BY <1>4, <1>5, <1>6, <1>7

\* The first item of a field other than msgs is its first leaf.
LEMMA FirstItem ==
    ASSUME InReview, NEW i, NEW key \in SwapKeys, tx_display_query(i).key = key,
           NEW r, r = FieldOf(key), r # msgs, i = ItemsBefore(r), i \in Nat
    PROVE  1 \in DOMAIN doc.leaves[r] /\ tx_display_query(i) = doc.leaves[r][1]
<1>1. PICK p \in tx_traverse_find(Leaves(r), i - ItemsBefore(r)) :
        p \in DOMAIN Leaves(r) /\ tx_display_query(i) = Leaves(r)[p]
  BY ItemField
<1>2. r \in RootItems
  BY ItemField
<1>3. Leaves(r) = doc.leaves[r] /\ doc.leaves[r] \in Seq(Leaf) /\ Skipped(Leaves(r)) = {}
  BY <1>2, ReviewedFacts, NoneSkipped
<1>4. p \in Nat /\ 1 <= p
  BY <1>1, <1>3
<1>5. Cardinality(1 .. (p - 1)) = 0
  <2>1. i - ItemsBefore(r) = 0
    OBVIOUS
  <2>2. (1 .. (p - 1)) \ {} = 1 .. (p - 1)
    OBVIOUS
  <2> QED
    BY <1>1, <1>3, <2>1, <2>2 DEF tx_traverse_find
<1>6. Cardinality(1 .. (p - 1)) = p - 1
  <2>1. p - 1 \in Nat
    BY <1>4
  <2> QED
    BY <2>1, FS_Interval
<1>7. p = 1
  BY <1>4, <1>5, <1>6
<1> QED
  BY <1>1, <1>3, <1>7

\* The number of leaves counted in a field other than msgs, memo and fee.
LEMMA FieldCounted ==
    ASSUME InReview, NEW r \in {chain_id, account_number, sequence, tip}
    PROVE  /\ r \in RootItems /\ doc.leaves[r] \in Seq(Leaf)
           /\ get_subitem_count(r) =
                IF r # tip /\ ~tx_is_expert_mode_or_not_default_chainid
                THEN 0 ELSE Len(doc.leaves[r])
<1>1. r \in RootItems \ {msgs} /\ r # memo /\ r # fee /\ r < 8
  BY DEF RootItems, chain_id, account_number, sequence, tip, msgs, memo, fee
<1>2. cache.counts[r] = Len(doc.leaves[r])
  BY <1>1, ReviewedFacts DEF RootsCounted, Settled
<1>3. tip \notin {chain_id, account_number, sequence}
  BY DEF chain_id, account_number, sequence, tip
<1>4. doc.leaves[r] \in Seq(Leaf)
  BY <1>1, ReviewedFacts DEF Documents
<1> QED
  BY <1>1, <1>2, <1>3, <1>4 DEF get_subitem_count

----------------------------------------------------------------------------
(* How many items an accepted payment has                                  *)

Accepted == InReview /\ stage = "count" /\ verdict = "accepted" /\ WellFormed /\ OneCoin

\* Positions of the rows and the fields they are in.
RowAt(row, key, at) == AgreesNow(row) => tx_display_query(at).key = key

LEMMA RowPositions ==
    ASSUME base \in Nat
    PROVE  /\ RowAt("sourceAddress", "inputs/address", base)
           /\ RowAt("sourceCoins", "inputs/coins", base + 1)
           /\ RowAt("destAddress", "outputs/address", base + 2)
           /\ RowAt("destCoins", "outputs/coins", base + 3)
           /\ RowAt("type", "type", base)
           /\ RowAt("amount", "amount", base + 1)
           /\ RowAt("to", "to_address", base + 3)
           /\ RowAt("memo", "memo", base + 4)
           /\ RowAt("fee", "fee/amount", base + 4 + (IF has_memo THEN 1 ELSE 0))
<1>1. ASSUME NEW row PROVE AgreesNow(row) => tx_display_query(Position(row)).key = Rows[row].key
  BY DEF AgreesNow, Agrees
<1>2. /\ Position("sourceAddress") = base /\ Position("sourceCoins") = base + 1
      /\ Position("destAddress") = base + 2 /\ Position("destCoins") = base + 3
      /\ Position("type") = base /\ Position("amount") = base + 1 /\ Position("to") = base + 3
      /\ Position("memo") = base + 4
      /\ Position("fee") = base + 4 + (IF has_memo THEN 1 ELSE 0)
  BY DEF Position, Rows
<1>3. /\ Rows["sourceAddress"].key = "inputs/address" /\ Rows["sourceCoins"].key = "inputs/coins"
      /\ Rows["destAddress"].key = "outputs/address" /\ Rows["destCoins"].key = "outputs/coins"
      /\ Rows["type"].key = "type" /\ Rows["amount"].key = "amount"
      /\ Rows["to"].key = "to_address" /\ Rows["memo"].key = "memo"
      /\ Rows["fee"].key = "fee/amount"
  BY DEF Rows
<1> QED
  BY <1>1, <1>2, <1>3 DEF RowAt

\* The first and the last compared item of a form are in msgs.
LEMMA FormInMsgs ==
    ASSUME Accepted, NEW form \in {TransferRows, SendRows}, AllAgree(form), base \in Nat
    PROVE  /\ base - ItemsBefore(msgs) \in 0 .. (get_subitem_count(msgs) - 1)
           /\ (base + 3) - ItemsBefore(msgs) \in 0 .. (get_subitem_count(msgs) - 1)
<1>1. PICK first \in {"inputs/address", "type"}, last \in {"outputs/coins", "to_address"} :
        tx_display_query(base).key = first /\ tx_display_query(base + 3).key = last
  <2>1. CASE form = TransferRows
    BY <2>1, RowPositions DEF RowAt, AllAgree, TransferRows
  <2>2. CASE form = SendRows
    BY <2>2, RowPositions DEF RowAt, AllAgree, SendRows
  <2> QED
    BY <2>1, <2>2
<1>2. first \in SwapKeys /\ last \in SwapKeys /\ FieldOf(first) = msgs /\ FieldOf(last) = msgs
  BY <1>1 DEF SwapKeys, FieldOf
<1> QED
  BY <1>1, <1>2, ItemField DEF Accepted

\* An accepted payment has four items of msgs, one for its memo, and in the
\* normal view one for its fee and none for a tip.
Placed ==
    /\ base \in Nat /\ ItemsBefore(msgs) = base /\ get_subitem_count(msgs) = 4
    /\ ItemsBefore(memo) = base + 4
    /\ get_subitem_count(memo) = IF has_memo THEN 1 ELSE 0
    /\ ItemsBefore(fee) = base + 4 + (IF has_memo THEN 1 ELSE 0)
    /\ \/ /\ base = 0 /\ chain = 1 /\ ~tx_is_expert_mode_or_not_default_chainid
          /\ doc.leaves[tip] = <<>>
       \/ /\ base = 3 /\ tx_is_expert_mode_or_not_default_chainid
          /\ tx_display_query(0).key = "chain_id" /\ (chain # 1 \/ expert)
          /\ chain \in find_chain_index_by_chain_id(tx_display_query(0).val)

LEMMA ItemsOfPayment ==
    ASSUME Accepted, NEW form \in {TransferRows, SendRows}, AllAgree(form \cup CommonRows),
           tx_display_numItems = ItemsExpected
    PROVE  Placed
<1>1. /\ base \in Nat
      /\ \/ base = 0 /\ chain = 1
         \/ /\ base = 3 /\ tx_display_query(0).key = "chain_id"
            /\ chain \in find_chain_index_by_chain_id(tx_display_query(0).val)
  BY DEF Accepted, InReview, PaymentInv, ChainInv
<1>2. PICK m \in {0, 1} : m = IF has_memo THEN 1 ELSE 0
  OBVIOUS
<1>3. PICK n1, n2, n3, n4, n5, n6, n7 :
        /\ n1 = get_subitem_count(1) /\ n2 = get_subitem_count(2) /\ n3 = get_subitem_count(3)
        /\ n4 = get_subitem_count(4) /\ n5 = get_subitem_count(5) /\ n6 = get_subitem_count(6)
        /\ n7 = get_subitem_count(7)
  OBVIOUS
<1>4. /\ n1 \in Nat /\ n2 \in Nat /\ n3 \in Nat /\ n4 \in Nat
      /\ n5 \in Nat /\ n6 \in Nat /\ n7 \in Nat
  <2>1. \A r \in RootItems : get_subitem_count(r) \in Nat
    BY ReviewedFacts, RootsFollow DEF Accepted
  <2> QED
    BY <1>3, <2>1 DEF RootItems
<1>5. /\ ItemsBefore(1) = 0 /\ ItemsBefore(4) = n1 + n2 + n3
      /\ ItemsBefore(5) = n1 + n2 + n3 + n4 /\ ItemsBefore(6) = n1 + n2 + n3 + n4 + n5
      /\ tx_display_numItems = n1 + n2 + n3 + n4 + n5 + n6 + n7
  BY <1>3, <1>4 DEF ItemsBefore, ItemsIn, tx_display_numItems
<1>6. /\ n1 = IF tx_is_expert_mode_or_not_default_chainid THEN 1 ELSE 0
      /\ n2 = n1 /\ n3 = n1
      /\ n7 = 0 => doc.leaves[tip] = <<>>
  <2>1. InReview
    BY DEF Accepted
  <2>2. ASSUME NEW r \in {chain_id, account_number, sequence}
        PROVE  get_subitem_count(r) = IF tx_is_expert_mode_or_not_default_chainid THEN 1 ELSE 0
    <3>1. r # tip
      BY DEF chain_id, account_number, sequence, tip
    <3>2. Len(doc.leaves[r]) = 1
      BY DEF Accepted, WellFormed
    <3>3. r \in {chain_id, account_number, sequence, tip}
      OBVIOUS
    <3>4. get_subitem_count(r) =
            IF r # tip /\ ~tx_is_expert_mode_or_not_default_chainid
            THEN 0 ELSE Len(doc.leaves[r])
      BY <2>1, <3>3, FieldCounted
    <3> QED
      BY <3>1, <3>2, <3>4
  <2>3. get_subitem_count(tip) = Len(doc.leaves[tip]) /\ doc.leaves[tip] \in Seq(Leaf)
    BY <2>1, FieldCounted
  <2>4. ASSUME NEW text \in Seq(Leaf), Len(text) = 0 PROVE text = <<>>
    BY <2>4
  <2>5. n7 = 0 => doc.leaves[tip] = <<>>
    BY <1>3, <2>3, <2>4 DEF tip
  <2> QED
    BY <1>3, <2>2, <2>5 DEF chain_id, account_number, sequence
<1>7. ~tx_is_expert_mode_or_not_default_chainid => n6 = 1
  BY <1>3 DEF get_subitem_count, chain_id, account_number, sequence, fee, msgs
<1>8. /\ base - (n1 + n2 + n3) \in 0 .. (n4 - 1)
      /\ (base + 3) - (n1 + n2 + n3) \in 0 .. (n4 - 1)
  <2>1. AllAgree(form)
    BY DEF AllAgree
  <2> QED
    BY <1>1, <1>3, <1>5, <2>1, FormInMsgs DEF msgs
<1>9. m = 1 => (base + 4) - (n1 + n2 + n3 + n4) \in 0 .. (n5 - 1)
  <2>1. m = 1 => tx_display_query(base + 4).key = "memo"
    BY <1>1, <1>2, RowPositions DEF RowAt, AllAgree, CommonRows
  <2>2. "memo" \in SwapKeys /\ FieldOf("memo") = memo
    BY DEF SwapKeys, FieldOf
  <2> QED
    BY <1>3, <1>5, <2>1, <2>2, ItemField DEF Accepted, memo
<1>10. (base + 4 + m) - (n1 + n2 + n3 + n4 + n5) \in 0 .. (n6 - 1)
  <2>1. tx_display_query(base + 4 + m).key = "fee/amount"
    BY <1>1, <1>2, RowPositions DEF RowAt, AllAgree, CommonRows
  <2>2. "fee/amount" \in SwapKeys /\ FieldOf("fee/amount") = fee
    BY DEF SwapKeys, FieldOf
  <2> QED
    BY <1>3, <1>5, <2>1, <2>2, ItemField DEF Accepted, fee
<1>11. base = 3 => 0 - 0 \in 0 .. (n1 - 1)
  <2>1. "chain_id" \in SwapKeys /\ FieldOf("chain_id") = chain_id
    BY DEF SwapKeys, FieldOf
  <2> QED
    BY <1>1, <1>3, <1>5, <2>1, ItemField DEF Accepted, chain_id
<1>12. n1 + n2 + n3 + n4 + n5 + n6 + n7 =
         (IF chain # 1 \/ expert THEN 10 ELSE 6) - 1 + m
  BY <1>2, <1>5 DEF ItemsExpected, EXPERT_SEND_MODE_ITEMS, NORMAL_SEND_MODE_ITEMS
<1>13. expert => tx_is_expert_mode_or_not_default_chainid
  BY DEF tx_is_expert_mode_or_not_default_chainid
<1>14. CASE base = 0
  <2>1. n1 = 0 /\ n2 = 0 /\ n3 = 0 /\ n4 = 4 /\ n5 = m
    BY <1>2, <1>4, <1>6, <1>8, <1>9, <1>10, <1>14
  <2>2. ~tx_is_expert_mode_or_not_default_chainid /\ n6 = 1 /\ chain = 1 /\ ~expert
    BY <1>1, <1>6, <1>7, <1>13, <1>14, <2>1
  <2>3. n7 = 0
    BY <1>2, <1>4, <1>12, <2>1, <2>2
  <2>4. doc.leaves[tip] = <<>>
    BY <1>6, <2>3
  <2>5. /\ ItemsBefore(4) = base /\ ItemsBefore(5) = base + 4 /\ ItemsBefore(6) = base + 4 + m
    BY <1>2, <1>5, <1>14, <2>1
  <2> QED
    BY <1>1, <1>2, <1>3, <1>14, <2>1, <2>2, <2>4, <2>5 DEF Placed, msgs, memo, fee
<1>15. CASE base = 3
  <2>1. n1 = 1 /\ n2 = 1 /\ n3 = 1 /\ tx_is_expert_mode_or_not_default_chainid
    BY <1>4, <1>6, <1>11, <1>15
  <2>2. n4 = 4 /\ n5 = m /\ n6 >= 1
    BY <1>2, <1>4, <1>8, <1>9, <1>10, <1>15, <2>1
  <2>3. chain # 1 \/ expert
    BY <1>2, <1>4, <1>12, <2>1, <2>2
  <2>4. /\ ItemsBefore(4) = base /\ ItemsBefore(5) = base + 4 /\ ItemsBefore(6) = base + 4 + m
    BY <1>2, <1>5, <1>15, <2>1, <2>2
  <2> QED
    BY <1>1, <1>2, <1>3, <1>15, <2>1, <2>2, <2>3, <2>4 DEF Placed, msgs, memo, fee
<1> QED
  BY <1>1, <1>14, <1>15

----------------------------------------------------------------------------
(* What an accepted payment pays                                           *)

\* Each of the four items of msgs is a leaf, and each leaf that is not skipped
\* is one of them.
LEMMA MsgItems ==
    ASSUME Accepted, Placed, NEW X, X = Skipped(MsgLeaves)
    PROVE  /\ \A t \in 0 .. 3 : \E q \in DOMAIN MsgLeaves \ X :
                /\ t = Cardinality(Kept(q - 1, X))
                /\ tx_display_query(base + t) = MsgLeaves[q]
           /\ \A q \in DOMAIN MsgLeaves \ X : \E t \in 0 .. 3 :
                /\ t = Cardinality(Kept(q - 1, X))
                /\ tx_display_query(base + t) = MsgLeaves[q]
           /\ \A p, q \in DOMAIN MsgLeaves \ X :
                Cardinality(Kept(p - 1, X)) = Cardinality(Kept(q - 1, X)) => p = q
<1>1. /\ Leaves(msgs) = MsgLeaves /\ MsgLeaves \in Seq(Leaf) /\ CountsFit
      /\ ReadInv /\ OneDepth(doc) /\ phase \in {"validating", "review"} /\ msgs \in RootItems
  BY ReviewedFacts DEF Accepted, InReview, RootItems, msgs
<1>2. PICK n : n = Len(MsgLeaves)
  OBVIOUS
<1>3. n \in Nat /\ DOMAIN MsgLeaves = 1 .. n
  BY <1>1, <1>2
<1>4. Kept(n, X) = DOMAIN MsgLeaves \ X
  BY <1>3 DEF Kept
<1>5. Cardinality(Kept(n, X)) = 4
  BY <1>1, <1>4, CountIsKept DEF Placed
<1>6. base \in Nat /\ get_subitem_count(msgs) = 4 /\ ItemsBefore(msgs) = base
  BY DEF Placed
<1>7. ASSUME NEW t \in 0 .. 3, NEW q \in DOMAIN MsgLeaves \ X, t = Cardinality(Kept(q - 1, X))
      PROVE  tx_display_query(base + t) = MsgLeaves[q]
  <2>1. tx_traverse_find(MsgLeaves, t) = {q}
    <3>1. t = Cardinality(Kept(q - 1, Skipped(MsgLeaves)))
      BY <1>7
    <3>2. q \in DOMAIN MsgLeaves \ Skipped(MsgLeaves)
      OBVIOUS
    <3> QED
      BY <1>1, <3>1, <3>2, WalkFinds
  <2>2. t \in Nat /\ t < get_subitem_count(msgs) /\ (base + t) - ItemsBefore(msgs) = t
    BY <1>6
  <2>3. retrieve_tree_indexes(base + t) = {msgs}
    BY <1>1, <1>6, <2>2, Located
  <2>4. PICK i : i = base + t
    OBVIOUS
  <2>5. tx_traverse_find(Leaves(msgs), i - ItemsBefore(msgs)) = {q}
    BY <1>1, <2>1, <2>2, <2>4
  <2>6. tx_display_query(i) = Leaves(msgs)[q]
    BY <1>1, <2>3, <2>4, <2>5, QueryIs
  <2> QED
    BY <1>1, <2>4, <2>6
<1>8. ASSUME NEW t \in 0 .. 3
      PROVE  \E q \in DOMAIN MsgLeaves \ X : t = Cardinality(Kept(q - 1, X))
  <2>1. t \in Nat /\ t < Cardinality(Kept(n, X))
    BY <1>5
  <2>2. PICK q \in Kept(n, X) : Cardinality(Kept(q - 1, X)) = t
    BY <1>3, <2>1, NumberTaken
  <2> QED
    BY <1>4, <2>2
<1>9. ASSUME NEW q \in DOMAIN MsgLeaves \ X PROVE Cardinality(Kept(q - 1, X)) \in 0 .. 3
  <2>1. q \in Kept(n, X)
    BY <1>4
  <2>2. Cardinality(Kept(q - 1, X)) \in Nat /\ Cardinality(Kept(q - 1, X)) < Cardinality(Kept(n, X))
    BY <1>3, <2>1, NumberBelow
  <2> QED
    BY <1>5, <2>2
<1>10. ASSUME NEW p \in DOMAIN MsgLeaves \ X, NEW q \in DOMAIN MsgLeaves \ X,
              Cardinality(Kept(p - 1, X)) = Cardinality(Kept(q - 1, X))
       PROVE  p = q
  <2>1. p \in Kept(n, X) /\ q \in Kept(n, X) /\ p \in Nat /\ q \in Nat
    BY <1>3, <1>4
  <2>2. Cardinality(Kept(p - 1, X)) \in Nat
    BY <1>3, <2>1, NumberBelow
  <2>3. CASE p < q
    BY <1>3, <1>10, <2>1, <2>2, <2>3, NumberUnique
  <2>4. CASE q < p
    BY <1>3, <1>10, <2>1, <2>2, <2>4, NumberUnique
  <2> QED
    BY <2>1, <2>3, <2>4
<1> QED
  BY <1>7, <1>8, <1>9, <1>10

\* A leaf that is skipped has a grouped field.
LEMMA SkippedIsGrouped ==
    ASSUME NEW q \in Skipped(MsgLeaves)
    PROVE  MsgLeaves[q].key \in GroupedKeys
  BY DEF Skipped, SkipsType, SkipsFrom, GroupedKeys

\* A text that agrees with one that fits its field is that text.
LEMMA TextAgrees ==
    ASSUME NEW v \in Vals, NEW w, w \notin TooLong, SwapPage[v] = w
    PROVE  v = w
  BY SwapAssumption

\* A coin that agrees with an amount is the amount, in the unit of the chain.
LEMMA CoinAgrees ==
    ASSUME Placed, NEW coins \in Seq(Coin), Len(coins) <= 1, NEW n,
           parser_formatAmount(coins) = format_amount(n)
    PROVE  coins = Agreed(chain, n)
<1>1. format_amount(n) = <<n, BaseDenom[chain]>> \/ format_amount(n) = <<n, Ticker>>
  BY DEF format_amount
<1>2. coins # <<>>
  <2>1. format_amount(n) # <<>>
    BY <1>1
  <2> QED
    BY <2>1 DEF parser_formatAmount
<1>3. PICK c \in Coin : coins = <<c>>
  <2>1. ASSUME NEW S, NEW s \in Seq(S), Len(s) <= 1, s # <<>>
        PROVE  s[1] \in S /\ s = <<s[1]>>
    <3>1. Len(s) \in Nat /\ (Len(s) = 0 => s = <<>>)
      BY <2>1
    <3>2. Len(s) = 1
      <4>1. PICK k : k = Len(s)
        OBVIOUS
      <4>2. k \in Nat /\ k <= 1 /\ k # 0
        BY <2>1, <3>1, <4>1
      <4>3. k = 1
        BY <4>2
      <4> QED
        BY <4>1, <4>3
    <3>3. s[1] \in S
      BY <2>1, <3>2
    <3>4. Len(<<s[1]>>) = 1 /\ <<s[1]>> \in Seq(S) /\ <<s[1]>>[1] = s[1]
      BY <3>3
    <3>5. \A k \in 1 .. 1 : <<s[1]>>[k] = s[k]
      BY <3>4
    <3>6. <<s[1]>> = s
      BY <2>1, <3>2, <3>4, <3>5, SeqEqual
    <3> QED
      BY <3>3, <3>6
  <2> QED
    BY <1>2, <2>1
<1>4. c = [n |-> c.n, denom |-> c.denom] /\ c.denom \in Denoms
  BY DEF Coin
<1>5. parser_formatAmountItem(c) = format_amount(n)
  BY <1>2, <1>3 DEF parser_formatAmount
<1>6. CASE base = 0 /\ chain = 1 /\ ~tx_is_expert_mode_or_not_default_chainid
  <2>1. format_amount(n) = <<n, Ticker>>
    BY <1>6 DEF format_amount, tx_is_expert_mode_or_not_default_chainid
  <2>2. c.n = n /\ (IF is_default_denom_base(c.denom) THEN Ticker ELSE c.denom) = Ticker
    BY <1>5, <2>1 DEF parser_formatAmountItem
  <2>3. is_default_denom_base(c.denom)
    BY <1>4, <2>2, SwapAssumption
  <2> QED
    BY <1>3, <1>4, <1>6, <2>2, <2>3 DEF is_default_denom_base, Agreed
<1>7. CASE tx_is_expert_mode_or_not_default_chainid /\ (chain # 1 \/ expert)
  <2>1. format_amount(n) = <<n, BaseDenom[chain]>>
    BY <1>7 DEF format_amount
  <2>2. c.n = n /\ c.denom = BaseDenom[chain]
    BY <1>5, <1>7, <2>1 DEF parser_formatAmountItem, is_default_denom_base
  <2> QED
    BY <1>3, <1>4, <2>2 DEF Agreed
<1> QED
  BY <1>6, <1>7 DEF Placed

\* The chain that the amounts are compared in is the one the document names.
LEMMA ChainOfPayment ==
    ASSUME Accepted, Placed
    PROVE  chain \in SwapChain
<1>1. /\ doc.leaves[chain_id] \in Seq(Leaf) /\ Len(doc.leaves[chain_id]) = 1
      /\ chain_id \in RootItems /\ chain_id # msgs
  BY FieldCounted DEF Accepted, WellFormed, chain_id, msgs
<1>2. CASE base = 0 /\ chain = 1 /\ ~tx_is_expert_mode_or_not_default_chainid
  <2>1. doc.leaves[chain_id][1].val = DefaultChain
    BY <1>2, ReviewedFacts
       DEF Accepted, tx_is_expert_mode_or_not_default_chainid, Settled,
           calculate_is_default_chainid, ChainLeaves
  <2>2. 1 \in DOMAIN Chains /\ Chains[1] = DefaultChain /\ DefaultChain \in Vals
    BY SwapAssumption
  <2>3. SwapPage[DefaultChain] = DefaultChain
    BY <2>2, SwapAssumption
  <2> QED
    BY <1>2, <2>1, <2>2, <2>3 DEF SwapChain, find_chain_index_by_chain_id
<1>3. CASE tx_display_query(0).key = "chain_id"
           /\ chain \in find_chain_index_by_chain_id(tx_display_query(0).val)
  <2>1. "chain_id" \in SwapKeys /\ FieldOf("chain_id") = chain_id
    BY DEF SwapKeys, FieldOf
  <2>2. ItemsBefore(chain_id) = 0
    <3>1. ItemsBefore(1) = 0
      BY ReviewedFacts, RootsFollow DEF Accepted
    <3> QED
      BY <3>1 DEF chain_id
  <2>3. tx_display_query(0) = doc.leaves[chain_id][1]
    <3>1. PICK i \in Nat : i = 0
      OBVIOUS
    <3> QED
      BY <1>1, <1>3, <2>1, <2>2, <3>1, FirstItem DEF Accepted
  <2> QED
    BY <1>3, <2>3 DEF SwapChain
<1> QED
  BY <1>2, <1>3 DEF Placed

LEMMA AgreedFits ==
    ASSUME Accepted
    PROVE  /\ swap.destination_address \notin TooLong /\ swap.memo \notin TooLong
           /\ doc \in Documents
  BY ReviewedFacts DEF Accepted, InReview, PaymentInv, SwapTypeOK

\* A field with an amount has at most one coin.
LEMMA OneCoinOf ==
    ASSUME OneCoin, doc \in Documents, NEW r \in RootItems, NEW p \in DOMAIN doc.leaves[r],
           doc.leaves[r][p].key \in AmountKeys
    PROVE  CoinsOf[doc.leaves[r][p].val] \in Seq(Coin)
           /\ Len(CoinsOf[doc.leaves[r][p].val]) <= 1
<1>1. doc.leaves[r][p] \in Leaf
  BY DEF Documents
<1>2. CoinsOf[doc.leaves[r][p].val] \in Seq(Coin)
  BY <1>1, SwapAssumption DEF Leaf
<1>3. CoinsOf[doc.leaves[r][p].val] \in CoinsAt(r, AmountKeys)
  BY DEF CoinsAt, KeysIn
<1> QED
  BY <1>2, <1>3 DEF OneCoin

LEMMA MemoAndFeeAgree ==
    ASSUME Accepted, Placed, AllAgree(CommonRows)
    PROVE  WithMemoAndFee(chain)
<1>1. doc \in Documents /\ swap.memo \notin TooLong /\ InReview /\ WellFormed /\ OneCoin
  BY AgreedFits DEF Accepted
<1>2. PICK m \in {0, 1} : m = IF has_memo THEN 1 ELSE 0
  OBVIOUS
<1>3. /\ base \in Nat /\ ItemsBefore(memo) = base + 4 /\ get_subitem_count(memo) = m
      /\ ItemsBefore(fee) = base + 4 + m
  BY <1>2 DEF Placed
<1>4. /\ doc.leaves[memo] \in Seq(Leaf) /\ doc.leaves[fee] \in Seq(Leaf)
      /\ memo \in RootItems /\ fee \in RootItems
  BY <1>1 DEF Documents, RootItems, memo, fee
<1>5. CoinsAt(fee, {"fee/amount"}) = {Agreed(chain, swap.fees)}
  <2>1. "fee/amount" \in SwapKeys /\ FieldOf("fee/amount") = fee /\ fee # msgs
        /\ "fee/amount" \in AmountKeys
    BY SwapAssumption DEF SwapKeys, FieldOf, fee, msgs
  <2>2. PICK i \in Nat : i = base + 4 + m
    BY <1>3
  <2>3. AgreesNow("fee")
    BY DEF AllAgree, CommonRows
  <2>4. tx_display_query(i).key = "fee/amount"
    BY <1>2, <1>3, <2>2, <2>3, RowPositions DEF RowAt
  <2>5. 1 \in DOMAIN doc.leaves[fee] /\ tx_display_query(i) = doc.leaves[fee][1]
    BY <1>1, <1>3, <2>1, <2>2, <2>4, FirstItem
  <2>6. Position("fee") = i
    BY <1>2, <1>3, <2>2 DEF Position, Rows
  <2>7. parser_formatAmount(CoinsOf[doc.leaves[fee][1].val]) = format_amount(swap.fees)
    BY <2>3, <2>5, <2>6 DEF AgreesNow, Agrees
  <2>8. CoinsOf[doc.leaves[fee][1].val] = Agreed(chain, swap.fees)
    BY <1>1, <1>4, <2>1, <2>4, <2>5, <2>7, OneCoinOf, CoinAgrees
  <2>9. 1 \in KeysIn(fee, {"fee/amount"})
    BY <2>4, <2>5 DEF KeysIn
  <2>10. KeysIn(fee, {"fee/amount"}) = {1}
    BY <1>1, <2>9 DEF WellFormed
  <2> QED
    BY <2>8, <2>10 DEF CoinsAt
<1>6. TextsAt(memo, LeafKeys) \ {EmptyVal} = {swap.memo} \ {EmptyVal}
  <2>1. \A p \in DOMAIN doc.leaves[memo] : p = 1
    BY <1>1, <1>4 DEF WellFormed
  <2>2. \A p \in DOMAIN doc.leaves[memo] : doc.leaves[memo][p] \in Leaf
    BY <1>4
  <2>3. TextsAt(memo, LeafKeys) = {doc.leaves[memo][p].val : p \in DOMAIN doc.leaves[memo]}
    BY <2>2 DEF TextsAt, KeysIn, Leaf
  <2>4. CASE has_memo
    <3>1. "memo" \in SwapKeys /\ FieldOf("memo") = memo /\ memo # msgs
      BY DEF SwapKeys, FieldOf, memo, msgs
    <3>2. PICK i \in Nat : i = base + 4
      BY <1>3
    <3>3. AgreesNow("memo")
      BY <2>4 DEF AllAgree, CommonRows
    <3>4. tx_display_query(i).key = "memo"
      BY <1>3, <3>2, <3>3, RowPositions DEF RowAt
    <3>5. 1 \in DOMAIN doc.leaves[memo] /\ tx_display_query(i) = doc.leaves[memo][1]
      BY <1>1, <1>3, <3>1, <3>2, <3>4, FirstItem
    <3>6. Position("memo") = i
      BY <1>3, <3>2 DEF Position, Rows
    <3>7. SwapPage[doc.leaves[memo][1].val] = swap.memo
      BY <3>3, <3>5, <3>6 DEF AgreesNow, Agrees
    <3>8. doc.leaves[memo][1].val = swap.memo
      BY <1>1, <2>2, <3>5, <3>7, TextAgrees DEF Leaf
    <3>9. DOMAIN doc.leaves[memo] = {1}
      BY <2>1, <3>5
    <3> QED
      BY <2>3, <3>8, <3>9
  <2>5. CASE ~has_memo
    <3>1. cache.counts[memo] = 0
      BY <1>2, <1>3, <2>5 DEF get_subitem_count, chain_id, account_number, sequence, fee,
                              msgs, memo
    <3>2. \/ 0 = Len(doc.leaves[memo])
          \/ doc.leaves[memo][1].val = EmptyVal
      <4>1. memo \in RootItems \ {msgs} /\ memo < 8
        BY DEF RootItems, memo, msgs
      <4> QED
        BY <1>1, <3>1, <4>1, ReviewedFacts DEF RootsCounted, Settled
    <3>3. \A p \in DOMAIN doc.leaves[memo] : doc.leaves[memo][p].val = EmptyVal
      BY <1>4, <2>1, <3>2
    <3>4. swap.memo = EmptyVal
      BY <2>5 DEF has_memo
    <3> QED
      BY <2>3, <3>3, <3>4
  <2> QED
    BY <2>4, <2>5
<1> QED
  BY <1>5, <1>6 DEF WithMemoAndFee

\* A leaf of the messages with none of the grouped fields is one of the four
\* items, and no other leaf is the same item.
LEMMA PaidItem ==
    ASSUME Accepted, Placed, NoMulti(doc), NEW p \in DOMAIN doc.leaves[msgs],
           doc.leaves[msgs][p].key \notin GroupedKeys
    PROVE  \E t \in 0 .. 3 :
             /\ tx_display_query(base + t) = doc.leaves[msgs][p]
             /\ t = Cardinality(Kept(p - 1, Skipped(MsgLeaves)))
             /\ p \in DOMAIN MsgLeaves \ Skipped(MsgLeaves)
<1>1. MsgLeaves = doc.leaves[msgs]
  BY DEF MsgLeaves
<1>2. p \in DOMAIN MsgLeaves \ Skipped(MsgLeaves)
  BY <1>1, SkippedIsGrouped
<1> QED
  BY <1>1, <1>2, MsgItems

\* The items with some key of the messages are all at one place.
LEMMA OnePlace ==
    ASSUME Accepted, Placed, NoMulti(doc), NEW keys, keys \cap GroupedKeys = {},
           NEW t \in 0 .. 3, tx_display_query(base + t).key \in keys,
           \A u \in 0 .. 3 : tx_display_query(base + u).key \in keys => u = t
    PROVE  \E p \in DOMAIN doc.leaves[msgs] :
             KeysIn(msgs, keys) = {p} /\ tx_display_query(base + t) = doc.leaves[msgs][p]
<1>1. MsgLeaves = doc.leaves[msgs]
  BY DEF MsgLeaves
<1>2. PICK X : X = Skipped(MsgLeaves)
  OBVIOUS
<1>3. PICK p \in DOMAIN MsgLeaves \ X :
        t = Cardinality(Kept(p - 1, X)) /\ tx_display_query(base + t) = MsgLeaves[p]
  BY <1>2, MsgItems
<1>4. p \in KeysIn(msgs, keys)
  BY <1>1, <1>3 DEF KeysIn
<1>5. ASSUME NEW q \in KeysIn(msgs, keys) PROVE q = p
  <2>1. q \in DOMAIN doc.leaves[msgs] /\ doc.leaves[msgs][q].key \in keys
    BY DEF KeysIn
  <2>2. PICK u \in 0 .. 3 :
          /\ tx_display_query(base + u) = doc.leaves[msgs][q]
          /\ u = Cardinality(Kept(q - 1, X)) /\ q \in DOMAIN MsgLeaves \ X
    BY <1>2, <2>1, PaidItem
  <2>3. u = t
    BY <2>1, <2>2
  <2> QED
    BY <1>2, <1>3, <2>2, <2>3, MsgItems
<1> QED
  BY <1>1, <1>3, <1>4, <1>5

\* An amount of the messages whose row agrees is the amount agreed on.
LEMMA AmountAgrees ==
    ASSUME Accepted, Placed, NEW row \in {"sourceCoins", "destCoins", "amount"}, AgreesNow(row),
           NEW p \in DOMAIN doc.leaves[msgs],
           tx_display_query(Position(row)) = doc.leaves[msgs][p]
    PROVE  CoinsOf[doc.leaves[msgs][p].val] = Agreed(chain, swap.amount)
<1>1. parser_formatAmount(CoinsOf[doc.leaves[msgs][p].val]) = format_amount(swap.amount)
  BY DEF AgreesNow, Agrees
<1>2. doc.leaves[msgs][p].key \in AmountKeys
  <2>1. Rows[row].key \in {"inputs/coins", "outputs/coins", "amount"}
    BY DEF Rows
  <2> QED
    BY <2>1, SwapAssumption DEF AgreesNow, Agrees
<1>3. /\ CoinsOf[doc.leaves[msgs][p].val] \in Seq(Coin)
      /\ Len(CoinsOf[doc.leaves[msgs][p].val]) <= 1
  BY <1>2, AgreedFits, OneCoinOf DEF Accepted, RootItems, msgs
<1> QED
  BY <1>1, <1>3, CoinAgrees

LEMMA ReceiverAgrees ==
    ASSUME Accepted, Placed, NEW row \in {"destAddress", "to"}, AgreesNow(row),
           NEW p \in DOMAIN doc.leaves[msgs],
           tx_display_query(Position(row)) = doc.leaves[msgs][p]
    PROVE  doc.leaves[msgs][p].val = swap.destination_address
<1>1. SwapPage[doc.leaves[msgs][p].val] = swap.destination_address
  BY DEF AgreesNow, Agrees
<1>2. doc.leaves[msgs][p] \in Leaf
  BY AgreedFits DEF Documents, RootItems, msgs
<1> QED
  BY <1>1, <1>2, AgreedFits, TextAgrees DEF Leaf

\* The places of the rows in msgs.
LEMMA Places ==
    ASSUME Placed
    PROVE  /\ Position("sourceAddress") = base + 0 /\ Position("sourceCoins") = base + 1
           /\ Position("destAddress") = base + 2 /\ Position("destCoins") = base + 3
           /\ Position("type") = base + 0 /\ Position("amount") = base + 1
           /\ Position("to") = base + 3
<1>1. base \in Nat
  BY DEF Placed
<1> QED
  BY <1>1 DEF Position, Rows

\* Once the receiver is at one place and every amount agrees, the payment is
\* paid once.
LEMMA PaidOnce ==
    ASSUME Accepted, Placed, NoMulti(doc), NEW row \in {"destAddress", "to"}, AgreesNow(row),
           NEW t \in 0 .. 3, Position(row) = base + t,
           tx_display_query(base + t).key \in Receivers,
           \A u \in 0 .. 3 : tx_display_query(base + u).key \in Receivers => u = t,
           KeysIn(msgs, PaidCoins) # {},
           \A p \in KeysIn(msgs, PaidCoins) :
             CoinsOf[doc.leaves[msgs][p].val] = Agreed(chain, swap.amount)
    PROVE  PaysOnce(chain)
<1>1. Receivers \cap GroupedKeys = {}
  BY DEF Receivers, GroupedKeys
<1>2. PICK p \in DOMAIN doc.leaves[msgs] :
        KeysIn(msgs, Receivers) = {p} /\ tx_display_query(base + t) = doc.leaves[msgs][p]
  BY <1>1, OnePlace
<1>3. TextsAt(msgs, Receivers) = {swap.destination_address}
  BY <1>2, ReceiverAgrees DEF TextsAt
<1>4. Cardinality(KeysIn(msgs, Receivers)) = 1
  BY <1>2, FS_Singleton
<1>5. CoinsAt(msgs, PaidCoins) = {Agreed(chain, swap.amount)}
  BY DEF CoinsAt
<1> QED
  BY <1>3, <1>4, <1>5 DEF PaysOnce

LEMMA TransferPays ==
    ASSUME Accepted, Placed, AllAgree(TransferRows)
    PROVE  PaysOnce(chain)
<1>1. /\ AgreesNow("sourceAddress") /\ AgreesNow("sourceCoins")
      /\ AgreesNow("destAddress") /\ AgreesNow("destCoins")
  BY DEF AllAgree, TransferRows
<1>2. base \in Nat
  BY DEF Placed
<1>3. /\ tx_display_query(base + 0).key = "inputs/address"
      /\ tx_display_query(base + 1).key = "inputs/coins"
      /\ tx_display_query(base + 2).key = "outputs/address"
      /\ tx_display_query(base + 3).key = "outputs/coins"
  BY <1>1, <1>2, RowPositions DEF RowAt
<1>4. ASSUME NEW u \in 0 .. 3 PROVE u = 0 \/ u = 1 \/ u = 2 \/ u = 3
  OBVIOUS
<1>5. NoMulti(doc)
  <2>1. SUFFICES ASSUME OnlyMulti(doc), ~NoMulti(doc) PROVE FALSE
    BY DEF Accepted, InReview, OneDepth
  <2>2. MsgLeaves = doc.deep /\ MsgLeaves \in Seq(Leaf)
    BY <2>1, ReviewedFacts DEF MsgLeaves, Accepted
  <2>3. 1 \in DOMAIN MsgLeaves /\ MsgLeaves[1].val \in MultiTypes
    <3>1. MsgLeaves # <<>> /\ MsgLeaves[1].val \in MultiTypes
      BY <2>1, <2>2 DEF OnlyMulti, FirstIn
    <3> QED
      BY <2>2, <3>1
  <2>4. MsgLeaves[1].key = "type"
    BY <2>2, <2>3 DEF Accepted, WellFormed
  <2>5. ASSUME NEW q \in DOMAIN MsgLeaves, MsgLeaves[q].key = "type"
        PROVE  q \in Skipped(MsgLeaves)
    <3>1. SUFFICES ASSUME q \notin Skipped(MsgLeaves) PROVE FALSE
      OBVIOUS
    <3>2. PICK u \in 0 .. 3 : tx_display_query(base + u) = MsgLeaves[q]
      BY <3>1, MsgItems
    <3> QED
      BY <1>3, <1>4, <2>5, <3>2
  <2>6. cache.typeGrouping
    BY <2>3, <2>4, <2>5 DEF Skipped, SkipsType, SkipsFrom
  <2>7. PICK idx : idx = cache.typeIdx
    OBVIOUS
  <2>8. idx \in Types
    <3>1. Grouped \in 0 .. ByteMax
      <4>1. get_subitem_count(msgs) = Grouped /\ msgs \in RootItems
        BY DEF get_subitem_count, chain_id, account_number, sequence, fee, msgs, RootItems
      <4> QED
        BY <4>1, ReviewedFacts DEF CountsFit, Accepted
    <3>2. Group(cache.typeCount, cache.typeIdx, cache.typeRef, Types)
      BY <2>6, <3>1, ReviewedFacts, GroupedIsKept DEF Accepted, InReview, ReadInv
    <3>3. 1 \in Types
      BY <2>2, <2>3, <2>4 DEF Types, Fields
    <3> QED
      BY <2>7, <3>2, <3>3 DEF Group
  <2>9. idx \in DOMAIN MsgLeaves /\ MsgLeaves[idx].key = "type"
    BY <2>2, <2>8 DEF Types, Fields
  <2>10. idx \notin Skipped(MsgLeaves)
    BY <2>7, <2>9 DEF Skipped, SkipsType, SkipsFrom
  <2> QED
    BY <2>5, <2>9, <2>10
<1>6. ASSUME NEW p \in KeysIn(msgs, PaidCoins)
      PROVE  CoinsOf[doc.leaves[msgs][p].val] = Agreed(chain, swap.amount)
  <2>1. p \in DOMAIN doc.leaves[msgs] /\ doc.leaves[msgs][p].key \in PaidCoins
    BY DEF KeysIn
  <2>2. doc.leaves[msgs][p].key \notin GroupedKeys
    BY <2>1 DEF PaidCoins, GroupedKeys
  <2>3. PICK u \in 0 .. 3 : tx_display_query(base + u) = doc.leaves[msgs][p]
    BY <1>5, <2>1, <2>2, PaidItem
  <2>4. u = 1 \/ u = 3
    BY <1>3, <1>4, <2>1, <2>3 DEF PaidCoins
  <2>5. \E row \in {"sourceCoins", "destCoins"} : AgreesNow(row) /\ Position(row) = base + u
    BY <1>1, <2>4, Places
  <2> QED
    BY <2>1, <2>3, <2>5, AmountAgrees
<1>7. KeysIn(msgs, PaidCoins) # {}
  <2>1. PICK q \in DOMAIN MsgLeaves : tx_display_query(base + 1) = MsgLeaves[q]
    BY MsgItems
  <2> QED
    BY <1>3, <1>5, <2>1 DEF MsgLeaves, KeysIn, PaidCoins
<1>8. /\ tx_display_query(base + 2).key \in Receivers
      /\ \A u \in 0 .. 3 : tx_display_query(base + u).key \in Receivers => u = 2
  BY <1>3, <1>4 DEF Receivers
<1>9. AgreesNow("destAddress") /\ Position("destAddress") = base + 2
  BY <1>1, Places
<1> QED
  BY <1>5, <1>6, <1>7, <1>8, <1>9, PaidOnce

LEMMA SendPays ==
    ASSUME Accepted, Placed, AllAgree(SendRows)
    PROVE  PaysOnce(chain)
<1>1. AgreesNow("type") /\ AgreesNow("amount") /\ AgreesNow("to")
  BY DEF AllAgree, SendRows
<1>2. base \in Nat
  BY DEF Placed
<1>3. /\ tx_display_query(base + 0).key = "type" /\ tx_display_query(base + 1).key = "amount"
      /\ tx_display_query(base + 3).key = "to_address"
  BY <1>1, <1>2, RowPositions DEF RowAt
<1>4. ASSUME NEW u \in 0 .. 3 PROVE u = 0 \/ u = 1 \/ u = 2 \/ u = 3
  OBVIOUS
<1>5. PICK X : X = Skipped(MsgLeaves)
  OBVIOUS
<1>6. Leaves(msgs) = MsgLeaves /\ MsgLeaves \in Seq(Leaf) /\ doc \in Documents
      /\ msgs \in RootItems
  BY ReviewedFacts DEF Accepted, RootItems, msgs
<1>7. NoMulti(doc)
  <2>1. PICK q \in DOMAIN MsgLeaves : tx_display_query(base + 0) = MsgLeaves[q]
    BY MsgItems
  <2>2. SwapPage[MsgLeaves[q].val] = SendText
    <3>1. Position("type") = base + 0
      BY Places
    <3> QED
      BY <1>1, <2>1, <3>1 DEF AgreesNow, Agrees
  <2>3. MsgLeaves[q].val \in Vals
    <3>1. MsgLeaves[q] \in Leaf
      BY <1>6, <2>1
    <3> QED
      BY <3>1 DEF Leaf
  <2>4. MsgLeaves[q].val = SendText
    BY <2>2, <2>3, TextAgrees, SwapAssumption
  <2>5. SendText \in Texts(doc)
    BY <1>6, <2>1, <2>4, LeafText
  <2>6. ~OnlyMulti(doc)
    BY <2>5, SwapAssumption, DocsAssumption DEF OnlyMulti, TypeTexts
  <2> QED
    BY <2>6 DEF Accepted, InReview, OneDepth
<1>8. MsgLeaves = doc.leaves[msgs]
  BY <1>7 DEF MsgLeaves
<1>9. tx_display_query(base + 2).key = "from_address"
  <2>1. PICK p \in DOMAIN MsgLeaves \ X :
          1 = Cardinality(Kept(p - 1, X)) /\ tx_display_query(base + 1) = MsgLeaves[p]
    BY <1>5, MsgItems
  <2>2. p + 1 \in KeysIn(msgs, {"from_address"})
    BY <1>3, <1>8, <2>1 DEF Accepted, WellFormed, KeysIn
  <2>3. p + 1 \in DOMAIN MsgLeaves /\ MsgLeaves[p + 1].key = "from_address"
    BY <1>8, <2>2 DEF KeysIn
  <2>4. p + 1 \notin X
    BY <1>5, <2>3, SkippedIsGrouped DEF GroupedKeys
  <2>5. p \in Nat /\ 1 <= p
    BY <1>6
  <2>6. Cardinality(Kept(p, X)) = 2
    <3>1. PICK k : k = p - 1
      OBVIOUS
    <3>2. k \in Nat /\ k + 1 = p /\ k + 1 \notin X
      BY <2>1, <2>5, <3>1
    <3>3. Cardinality(Kept(k + 1, X)) = Cardinality(Kept(k, X)) + 1
      BY <3>2, KeptGrows
    <3> QED
      BY <2>1, <3>1, <3>2, <3>3
  <2>7. PICK q : q = p + 1
    OBVIOUS
  <2>8. q - 1 = p /\ q \in DOMAIN MsgLeaves \ X /\ MsgLeaves[q].key = "from_address"
    BY <2>3, <2>4, <2>5, <2>7
  <2>9. PICK u \in 0 .. 3 :
          u = Cardinality(Kept(q - 1, X)) /\ tx_display_query(base + u) = MsgLeaves[q]
    BY <1>5, <2>8, MsgItems
  <2>10. u = 2
    BY <2>6, <2>8, <2>9
  <2> QED
    BY <2>8, <2>9, <2>10
<1>10. ASSUME NEW p \in KeysIn(msgs, PaidCoins)
       PROVE  CoinsOf[doc.leaves[msgs][p].val] = Agreed(chain, swap.amount)
  <2>1. p \in DOMAIN doc.leaves[msgs] /\ doc.leaves[msgs][p].key \in PaidCoins
    BY DEF KeysIn
  <2>2. doc.leaves[msgs][p].key \notin GroupedKeys
    BY <2>1 DEF PaidCoins, GroupedKeys
  <2>3. PICK u \in 0 .. 3 : tx_display_query(base + u) = doc.leaves[msgs][p]
    BY <1>7, <2>1, <2>2, PaidItem
  <2>4. u = 1
    BY <1>3, <1>4, <1>9, <2>1, <2>3 DEF PaidCoins
  <2>5. AgreesNow("amount") /\ Position("amount") = base + u
    BY <1>1, <2>4, Places
  <2> QED
    BY <2>1, <2>3, <2>5, AmountAgrees
<1>11. KeysIn(msgs, PaidCoins) # {}
  <2>1. PICK q \in DOMAIN MsgLeaves : tx_display_query(base + 1) = MsgLeaves[q]
    BY MsgItems
  <2> QED
    BY <1>3, <1>8, <2>1 DEF KeysIn, PaidCoins
<1>12. /\ tx_display_query(base + 3).key \in Receivers
       /\ \A u \in 0 .. 3 : tx_display_query(base + u).key \in Receivers => u = 3
  BY <1>3, <1>4, <1>9 DEF Receivers
<1>13. AgreesNow("to") /\ Position("to") = base + 3
  BY <1>1, Places
<1> QED
  BY <1>7, <1>10, <1>11, <1>12, <1>13, PaidOnce

\* The invariant of a swap, for any payments and documents.
THEOREM PaymentInvariant == SwapSpec => []PaymentInv
<1>1. SwapInit => PaymentInv
  <2> SUFFICES ASSUME SwapInit PROVE PaymentInv
    OBVIOUS
  <2>1. phase = "none" /\ stage = "first" /\ verdict = "none"
    BY DEF SwapInit, Init
  <2> QED
    BY <2>1, SwapInitTyped
       DEF PaymentInv, SwapInv, DepthInv, RowsInv, RowsBefore, CountInv, ChainInv
<1>2. PaymentInv /\ [SwapNext]_allVars => PaymentInv'
  BY SwapStepTyped, SwapStepDepth, SwapStepRows, SwapStepCounts, SwapStepChain, SwapTyped
     DEF PaymentInv, SwapInv
<1> QED
  BY <1>1, <1>2, PTL DEF SwapSpec, allVars

\* An accepted document pays what was agreed on, once, to whom it was agreed,
\* with the memo and the fee agreed on, and in the normal view has no tip, for
\* any payments, chains and documents (check_swap_conditions).
THEOREM AcceptedIsWhatWasAgreed == SwapSpec => []AcceptedPaysAgreed
<1>1. PaymentInv => AcceptedPaysAgreed
  <2>1. SUFFICES ASSUME PaymentInv, verdict = "accepted", OneDepth(doc), OneCoin, WellFormed
                 PROVE  /\ PaysAgreed
                        /\ tx_is_expert_mode_or_not_default_chainid \/ doc.leaves[tip] = <<>>
    BY DEF AcceptedPaysAgreed
  <2>2. /\ phase = "review" /\ stage = "count" /\ OneForm(CommonRows)
        /\ tx_display_numItems = ItemsExpected
    BY <2>1 DEF PaymentInv, SwapInv, RowsInv
  <2>3. Accepted
    BY <2>1, <2>2 DEF Accepted, InReview
  <2>4. PICK form \in {TransferRows, SendRows} : AllAgree(form \cup CommonRows)
    BY <2>2 DEF OneForm
  <2>5. Placed
    BY <2>2, <2>3, <2>4, ItemsOfPayment
  <2>6. AllAgree(form) /\ AllAgree(CommonRows)
    BY <2>4 DEF AllAgree
  <2>7. PaysOnce(chain)
    BY <2>3, <2>5, <2>6, TransferPays, SendPays
  <2>8. WithMemoAndFee(chain) /\ chain \in SwapChain
    BY <2>3, <2>5, <2>6, MemoAndFeeAgree, ChainOfPayment
  <2> QED
    BY <2>5, <2>7, <2>8 DEF PaysAgreed, Placed
<1> QED
  BY <1>1, PaymentInvariant, PTL

----------------------------------------------------------------------------
(* A payment as agreed is accepted                                         *)

\* The document is a payment as agreed in one of the forms that the comments give.
AgreedPayment == NoMulti(doc) /\ StandardForm /\ OneCoin /\ PaysAgreed

\* It is being validated or checked.
AgreedRead ==
    ReadInv /\ SwapTypeOK /\ phase \in {"validating", "review"} /\ AgreedPayment

TransferKeys == <<"inputs/address", "inputs/coins", "outputs/address", "outputs/coins">>
SendKeys == <<"type", "amount", "from_address", "to_address">>
IsTransfer == \A p \in 1 .. 4 : doc.leaves[msgs][p].key = TransferKeys[p]
IsSend ==
    /\ \A p \in 1 .. 4 : doc.leaves[msgs][p].key = SendKeys[p]
    /\ doc.leaves[msgs][1].val = SendText

\* The keys of a field.
LEMMA KeysAre ==
    ASSUME doc \in Documents, NEW r \in RootItems, NEW n \in Nat, DOMAIN KeysOf(r) = 1 .. n
    PROVE  /\ Len(doc.leaves[r]) = n /\ DOMAIN doc.leaves[r] = 1 .. n
           /\ \A p \in 1 .. n : doc.leaves[r][p].key = KeysOf(r)[p]
<1>1. PICK s \in Seq(Leaf) : s = doc.leaves[r]
  BY DEF Documents
<1>2. KeysOf(r) = [p \in DOMAIN s |-> s[p].key]
  BY <1>1 DEF KeysOf
<1>3. DOMAIN s = 1 .. n
  BY <1>2
<1>4. Len(s) = n
  BY <1>3, LenProperties
<1>5. \A p \in 1 .. n : s[p].key = KeysOf(r)[p]
  BY <1>2, <1>3
<1> QED
  BY <1>1, <1>3, <1>4, <1>5

LEMMA StandardShape ==
    ASSUME doc \in Documents, StandardForm
    PROVE  /\ \A r \in {chain_id, account_number, sequence, memo} :
                doc.leaves[r] \in Seq(Leaf) /\ Len(doc.leaves[r]) = 1
           /\ doc.leaves[chain_id][1].key = "chain_id" /\ doc.leaves[memo][1].key = "memo"
           /\ doc.leaves[msgs] \in Seq(Leaf) /\ Len(doc.leaves[msgs]) = 4
           /\ DOMAIN doc.leaves[msgs] = 1 .. 4
           /\ IsTransfer \/ IsSend
           /\ doc.leaves[fee] \in Seq(Leaf) /\ Len(doc.leaves[fee]) = 2
           /\ doc.leaves[fee][1].key = "fee/amount" /\ doc.leaves[fee][2].key = "fee/gas"
           /\ doc.leaves[tip] = <<>>
<1>1. /\ chain_id \in RootItems /\ account_number \in RootItems /\ sequence \in RootItems
      /\ msgs \in RootItems /\ memo \in RootItems /\ fee \in RootItems
  BY DEF RootItems, chain_id, account_number, sequence, msgs, memo, fee
<1>2. \A r \in RootItems : doc.leaves[r] \in Seq(Leaf)
  BY DEF Documents
<1>3. ASSUME NEW r \in RootItems, NEW k, KeysOf(r) = <<k>>
      PROVE  Len(doc.leaves[r]) = 1 /\ doc.leaves[r][1].key = k
  <2>1. PICK keys : keys = <<k>>
    OBVIOUS
  <2>2. DOMAIN keys = 1 .. 1 /\ keys[1] = k
    BY <2>1
  <2>3. KeysOf(r) = keys /\ 1 \in 1 .. 1 /\ 1 \in Nat
    BY <1>3, <2>1
  <2>4. Len(doc.leaves[r]) = 1 /\ \A p \in 1 .. 1 : doc.leaves[r][p].key = keys[p]
    BY <2>2, <2>3, KeysAre
  <2> QED
    BY <2>2, <2>3, <2>4
<1>4. Len(doc.leaves[chain_id]) = 1 /\ doc.leaves[chain_id][1].key = "chain_id"
  <2>1. KeysOf(chain_id) = <<"chain_id">>
    BY DEF StandardForm
  <2> QED
    BY <1>1, <1>3, <2>1
<1>5. Len(doc.leaves[memo]) = 1 /\ doc.leaves[memo][1].key = "memo"
  <2>1. KeysOf(memo) = <<"memo">>
    BY DEF StandardForm
  <2> QED
    BY <1>1, <1>3, <2>1
<1>6. /\ Len(doc.leaves[msgs]) = 4 /\ DOMAIN doc.leaves[msgs] = 1 .. 4
      /\ IsTransfer \/ IsSend
  <2>1. DOMAIN TransferKeys = 1 .. 4 /\ DOMAIN SendKeys = 1 .. 4
    BY DEF TransferKeys, SendKeys
  <2>2. PICK keys \in {TransferKeys, SendKeys} : KeysOf(msgs) = keys
    BY DEF StandardForm, TransferKeys, SendKeys
  <2>3. DOMAIN keys = 1 .. 4 /\ 4 \in Nat
    BY <2>1, <2>2
  <2>4. /\ Len(doc.leaves[msgs]) = 4 /\ DOMAIN doc.leaves[msgs] = 1 .. 4
        /\ \A p \in 1 .. 4 : doc.leaves[msgs][p].key = keys[p]
    BY <1>1, <2>2, <2>3, KeysAre
  <2>5. CASE keys = TransferKeys
    BY <2>4, <2>5, Zenon DEF IsTransfer
  <2>6. CASE keys = SendKeys
    <3>1. SendKeys[1] = "type" /\ 1 \in 1 .. 4
      BY DEF SendKeys
    <3>2. 1 \in KeysIn(msgs, {"type"})
      BY <2>4, <2>6, <3>1 DEF KeysIn
    <3>3. doc.leaves[msgs][1].val = SendText
      BY <3>2 DEF StandardForm
    <3> QED
      BY <2>4, <2>6, <3>3, Zenon DEF IsSend
  <2> QED
    BY <2>2, <2>4, <2>5, <2>6
<1>7. /\ Len(doc.leaves[fee]) = 2
      /\ doc.leaves[fee][1].key = "fee/amount" /\ doc.leaves[fee][2].key = "fee/gas"
  <2>1. PICK keys : keys = <<"fee/amount", "fee/gas">>
    OBVIOUS
  <2>2. /\ DOMAIN keys = 1 .. 2 /\ keys[1] = "fee/amount" /\ keys[2] = "fee/gas"
        /\ 1 \in 1 .. 2 /\ 2 \in 1 .. 2 /\ 2 \in Nat
    BY <2>1
  <2>3. KeysOf(fee) = keys
    BY <2>1 DEF StandardForm
  <2>4. Len(doc.leaves[fee]) = 2 /\ \A p \in 1 .. 2 : doc.leaves[fee][p].key = keys[p]
    BY <1>1, <2>2, <2>3, KeysAre
  <2> QED
    BY <2>2, <2>4
<1>8. /\ Len(doc.leaves[account_number]) = 1 /\ Len(doc.leaves[sequence]) = 1
      /\ doc.leaves[tip] = <<>>
  BY DEF StandardForm
<1> QED
  BY <1>1, <1>2, <1>4, <1>5, <1>6, <1>7, <1>8

----------------------------------------------------------------------------

\* The chain of the payment is the one that the document names.
LEMMA AgreedChain ==
    ASSUME doc \in Documents, AgreedPayment
    PROVE  \E k \in DOMAIN Chains :
             /\ SwapChain = {k} /\ doc.leaves[chain_id][1].val = Chains[k]
             /\ PaysOnce(k) /\ WithMemoAndFee(k)
             /\ ~ChainRefused
             /\ calculate_is_default_chainid => k = 1
             /\ k = 1 => calculate_is_default_chainid
<1>1. /\ doc.leaves[chain_id] \in Seq(Leaf) /\ Len(doc.leaves[chain_id]) = 1
  BY StandardShape DEF AgreedPayment
<1>2. PICK leaf \in Leaf : leaf = doc.leaves[chain_id][1]
  BY <1>1
<1>3. PICK k \in SwapChain : PaysOnce(k) /\ WithMemoAndFee(k)
  BY DEF AgreedPayment, PaysAgreed
<1>4. k \in DOMAIN Chains /\ Chains[k] = SwapPage[leaf.val] /\ leaf.val \in Vals
  BY <1>2, <1>3 DEF SwapChain, find_chain_index_by_chain_id, Leaf
<1>5. leaf.val = Chains[k]
  <2>1. Chains[k] \notin TooLong
    BY <1>4, SwapAssumption
  <2> QED
    BY <1>4, <2>1, TextAgrees
<1>6. ASSUME NEW j \in SwapChain PROVE j = k
  <2>1. j \in DOMAIN Chains /\ Chains[j] = SwapPage[leaf.val]
    BY <1>2 DEF SwapChain, find_chain_index_by_chain_id
  <2> QED
    BY <1>4, <2>1, SwapAssumption
<1>7. SwapChain = {k}
  BY <1>6
<1>8. ~ChainRefused
  <2>1. Chains[k] \notin ForbiddenChains
    BY <1>4, SwapAssumption
  <2>2. doc.leaves[chain_id] # <<>>
    <3>1. PICK s \in Seq(Leaf) : s = doc.leaves[chain_id] /\ Len(s) = 1
      BY <1>1
    <3>2. s # <<>>
      <4>1. 1 \in DOMAIN s
        BY <3>1
      <4>2. 1 \notin DOMAIN <<>>
        OBVIOUS
      <4> QED
        BY <4>1, <4>2, Zenon
    <3> QED
      BY <3>1, <3>2
  <2> QED
    BY <1>2, <1>5, <2>1, <2>2 DEF ChainRefused, ChainLeaves
<1>9. calculate_is_default_chainid <=> leaf.val = DefaultChain
  BY <1>1, <1>2 DEF calculate_is_default_chainid, ChainLeaves
<1>10. leaf.val = DefaultChain => k = 1
  <2>1. Chains[1] = DefaultChain /\ 1 \in DOMAIN Chains
    BY SwapAssumption
  <2> QED
    BY <1>4, <1>5, <2>1, SwapAssumption
<1>11. k = 1 => leaf.val = DefaultChain
  BY <1>5, SwapAssumption
<1> QED
  BY <1>2, <1>3, <1>4, <1>5, <1>7, <1>8, <1>9, <1>10, <1>11

\* No leaf of it has the keys of a group, but for its type.
LEMMA AgreedSkipsNothing ==
    ASSUME AgreedRead
    PROVE  /\ Leaves(msgs) = doc.leaves[msgs] /\ MsgLeaves = doc.leaves[msgs]
           /\ Skipped(Leaves(msgs)) = {} /\ get_subitem_count(msgs) = 4
<1>1. /\ TypeOK /\ CountInv /\ DepthInv /\ OneDepth(doc) /\ doc \in Docs /\ doc \in Documents
      /\ MsgsCounted /\ Settled /\ cache \in Caches
  BY DEF AgreedRead, AgreedPayment, ReadInv, CountInv, OneDepth, TypeOK
<1>2. Leaves(msgs) = MsgLeaves /\ MsgLeaves = doc.leaves[msgs]
  BY <1>1, MsgsSettled DEF AgreedRead, AgreedPayment, ReadInv, MsgLeaves
<1>3. /\ Len(MsgLeaves) = 4 /\ DOMAIN MsgLeaves = 1 .. 4 /\ MsgLeaves \in Seq(Leaf)
      /\ IsTransfer \/ IsSend
  BY <1>1, <1>2, StandardShape DEF AgreedRead, AgreedPayment
<1>4. Indexed = 4
  BY <1>1, <1>3 DEF Settled, Indexed, msgs
<1>5. \A p \in 1 .. 4 : MsgLeaves[p].key # "delegator" /\ (MsgLeaves[p].key = "type" => p = 1)
  <2>1. \A p \in 1 .. 4 : p = 1 \/ p = 2 \/ p = 3 \/ p = 4
    OBVIOUS
  <2>2. CASE IsTransfer
    BY <1>2, <2>1, <2>2 DEF IsTransfer, TransferKeys
  <2>3. CASE IsSend
    BY <1>2, <2>1, <2>3 DEF IsSend, SendKeys
  <2> QED
    BY <1>3, <2>2, <2>3
<1>6. Fields("delegator", 4) = {} /\ Fields("type", 4) \subseteq {1}
  BY <1>5 DEF Fields
<1>7. Cardinality(Fields("delegator", 4)) = 0 /\ Cardinality(Fields("type", 4)) \in {0, 1}
  <2>1. Cardinality({}) = 0 /\ Cardinality({1}) = 1
    BY FS_EmptySet, FS_Singleton
  <2>2. Fields("type", 4) = {} \/ Fields("type", 4) = {1}
    BY <1>6
  <2> QED
    BY <1>6, <2>1, <2>2
<1>8. /\ cache.typeGrouping => /\ cache.typeCount \in {0, 1}
                               /\ Fields("type", 4) # {} => cache.typeIdx = 1
      /\ cache.fromGrouping => cache.fromCount = 0
  <2>1. cache.typeCount \in Nat /\ cache.fromCount \in Nat
    BY <1>1, DocsAssumption DEF Caches
  <2> QED
    BY <1>1, <1>4, <1>6, <1>7, <2>1 DEF MsgsCounted, Group
<1>9. Skipped(MsgLeaves) = {}
  <2>1. ASSUME NEW p \in 1 .. 4 PROVE ~SkipsType(p, MsgLeaves[p]) /\ ~SkipsFrom(p, MsgLeaves[p])
    <3>1. MsgLeaves[p].key = "type" => p \in Fields("type", 4)
      BY DEF Fields
    <3> QED
      BY <1>5, <1>8, <3>1 DEF SkipsType, SkipsFrom
  <2> QED
    BY <1>3, <2>1 DEF Skipped
<1>10. cache.counts[msgs] = 4
  BY <1>1, <1>4 DEF MsgsCounted
<1>11. Grouped = 4
  BY <1>8, <1>10 DEF Grouped
<1> QED
  BY <1>2, <1>9, <1>11
     DEF get_subitem_count, chain_id, account_number, sequence, fee, msgs

\* How many items it has, and where its fields begin.
Layout(e, m) ==
    /\ get_subitem_count(chain_id) = e /\ get_subitem_count(account_number) = e
    /\ get_subitem_count(sequence) = e /\ get_subitem_count(msgs) = 4
    /\ get_subitem_count(memo) = m /\ get_subitem_count(fee) = 1 + e
    /\ get_subitem_count(tip) = 0
    /\ CountsFit /\ tx_display_numItems = 5 + 4 * e + m /\ tx_display_numItems <= ByteMax
    /\ ItemsBefore(chain_id) = 0 /\ ItemsBefore(msgs) = 3 * e
    /\ ItemsBefore(memo) = 3 * e + 4 /\ ItemsBefore(fee) = 3 * e + 4 + m

LEMMA AgreedMemo ==
    ASSUME doc \in Documents, AgreedPayment
    PROVE  doc.leaves[memo][1].val = swap.memo
<1>1. /\ doc.leaves[memo] \in Seq(Leaf) /\ Len(doc.leaves[memo]) = 1
  BY StandardShape DEF AgreedPayment
<1>2. PICK s \in Seq(Leaf) : s = doc.leaves[memo]
  BY <1>1
<1>3. DOMAIN s = {1} /\ s[1] \in Leaf
  BY <1>1, <1>2
<1>4. TextsAt(memo, LeafKeys) = {s[1].val}
  <2>1. KeysIn(memo, LeafKeys) = {1}
    BY <1>2, <1>3 DEF KeysIn, Leaf
  <2> QED
    BY <1>2, <2>1 DEF TextsAt
<1>5. {s[1].val} \ {EmptyVal} = {swap.memo} \ {EmptyVal}
  BY <1>4 DEF AgreedPayment, PaysAgreed, WithMemoAndFee
<1>6. PICK v : v = s[1].val
  OBVIOUS
<1>7. PICK w : w = swap.memo
  OBVIOUS
<1>8. {v} \ {EmptyVal} = {w} \ {EmptyVal}
  BY <1>5, <1>6, <1>7
<1>9. v = w
  <2>1. CASE v = EmptyVal
    BY <1>8, <2>1
  <2>2. CASE v # EmptyVal
    BY <1>8, <2>2
  <2> QED
    BY <2>1, <2>2
<1> QED
  BY <1>2, <1>6, <1>7, <1>9

LEMMA AgreedLayout ==
    ASSUME AgreedRead, NEW e \in {0, 1}, NEW m \in {0, 1},
           e = IF tx_is_expert_mode_or_not_default_chainid THEN 1 ELSE 0,
           m = IF has_memo THEN 1 ELSE 0
    PROVE  Layout(e, m)
<1>1. /\ doc \in Documents /\ RootsCounted /\ root = 8 /\ cache \in Caches
      /\ StandardForm /\ AgreedPayment
  BY DEF AgreedRead, AgreedPayment, ReadInv, CountInv, TypeOK, Settled
<1>2. /\ Len(doc.leaves[chain_id]) = 1 /\ Len(doc.leaves[account_number]) = 1
      /\ Len(doc.leaves[sequence]) = 1 /\ Len(doc.leaves[memo]) = 1
      /\ Len(doc.leaves[fee]) = 2 /\ Len(doc.leaves[tip]) = 0
  BY <1>1, StandardShape
<1>3. ASSUME NEW r \in RootItems, r # msgs, r # memo PROVE cache.counts[r] = Len(doc.leaves[r])
  <2>1. r < root /\ r \in RootItems \ {msgs}
    BY <1>1, <1>3 DEF RootItems
  <2> QED
    BY <1>1, <1>3, <2>1 DEF RootsCounted
<1>4. /\ cache.counts[chain_id] = 1 /\ cache.counts[account_number] = 1
      /\ cache.counts[sequence] = 1 /\ cache.counts[fee] = 2 /\ cache.counts[tip] = 0
  <2>1. ASSUME NEW r \in {chain_id, account_number, sequence, fee, tip}
        PROVE  cache.counts[r] = Len(doc.leaves[r])
    <3>1. r \in RootItems /\ r # msgs /\ r # memo
      BY DEF RootItems, chain_id, account_number, sequence, msgs, memo, fee, tip
    <3> QED
      BY <1>3, <3>1
  <2> QED
    BY <1>2, <2>1
<1>5. cache.counts[memo] = m
  <2>1. memo \in RootItems \ {msgs} /\ memo < root
    BY <1>1 DEF RootItems, msgs, memo
  <2>2. PICK n : n = cache.counts[memo]
    OBVIOUS
  <2>3. /\ n \in Nat /\ n <= 1
        /\ n = 1 \/ doc.leaves[memo][n + 1].val = EmptyVal
        /\ \A p \in 1 .. n : doc.leaves[memo][p].val # EmptyVal
    <3>1. n \in Nat
      BY <1>1, <2>1, <2>2 DEF Caches
    <3>2. /\ n <= Len(doc.leaves[memo])
          /\ n = Len(doc.leaves[memo]) \/ doc.leaves[memo][n + 1].val = EmptyVal
          /\ \A p \in 1 .. n : doc.leaves[memo][p].val # EmptyVal
      BY <1>1, <2>1, <2>2 DEF RootsCounted
    <3> QED
      BY <1>2, <3>1, <3>2
  <2>4. doc.leaves[memo][1].val = swap.memo
    BY <1>1, AgreedMemo
  <2>5. n = 0 => ~has_memo
    <3>1. n = 0 => doc.leaves[memo][1].val = EmptyVal
      BY <2>3
    <3> QED
      BY <2>4, <3>1 DEF has_memo
  <2>6. n = 1 => has_memo
    BY <2>3, <2>4 DEF has_memo
  <2> QED
    BY <2>2, <2>3, <2>5, <2>6
<1>6. /\ get_subitem_count(chain_id) = e /\ get_subitem_count(account_number) = e
      /\ get_subitem_count(sequence) = e /\ get_subitem_count(fee) = 1 + e
      /\ get_subitem_count(memo) = m /\ get_subitem_count(tip) = 0
  <2>1. tx_is_expert_mode_or_not_default_chainid \in BOOLEAN
    BY DEF tx_is_expert_mode_or_not_default_chainid
  <2> QED
    BY <1>4, <1>5, <2>1
       DEF get_subitem_count, chain_id, account_number, sequence, msgs, memo, fee, tip
<1>7. get_subitem_count(msgs) = 4
  BY AgreedSkipsNothing
<1>8. /\ get_subitem_count(1) = e /\ get_subitem_count(2) = e /\ get_subitem_count(3) = e
      /\ get_subitem_count(4) = 4 /\ get_subitem_count(5) = m /\ get_subitem_count(6) = 1 + e
      /\ get_subitem_count(7) = 0
  BY <1>6, <1>7 DEF chain_id, account_number, sequence, msgs, memo, fee, tip
<1>9. ByteMax \in Nat /\ ByteMax >= 10
  BY DocsAssumption, SwapAssumption DEF EXPERT_SEND_MODE_ITEMS
<1>10. CountsFit
  <2>1. ASSUME NEW r \in RootItems PROVE get_subitem_count(r) \in 0 .. ByteMax
    <3>1. r = 1 \/ r = 2 \/ r = 3 \/ r = 4 \/ r = 5 \/ r = 6 \/ r = 7
      BY DEF RootItems
    <3> QED
      BY <1>8, <1>9, <3>1
  <2> QED
    BY <2>1 DEF CountsFit
<1>11. /\ ItemsBefore(1) = 0 /\ ItemsBefore(2) = e /\ ItemsBefore(3) = 2 * e
       /\ ItemsBefore(4) = 3 * e /\ ItemsBefore(5) = 3 * e + 4 /\ ItemsBefore(6) = 3 * e + 4 + m
       /\ ItemsBefore(7) = 4 * e + 5 + m /\ ItemsBefore(8) = 4 * e + 5 + m
  <2>1. /\ ItemsBefore(1) = 0
        /\ \A r \in RootItems : ItemsBefore(r + 1) = ItemsBefore(r) + get_subitem_count(r)
    BY <1>10, RootsFollow
  <2>2. /\ ItemsBefore(1 + 1) = ItemsBefore(1) + get_subitem_count(1)
        /\ ItemsBefore(2 + 1) = ItemsBefore(2) + get_subitem_count(2)
        /\ ItemsBefore(3 + 1) = ItemsBefore(3) + get_subitem_count(3)
        /\ ItemsBefore(4 + 1) = ItemsBefore(4) + get_subitem_count(4)
        /\ ItemsBefore(5 + 1) = ItemsBefore(5) + get_subitem_count(5)
        /\ ItemsBefore(6 + 1) = ItemsBefore(6) + get_subitem_count(6)
        /\ ItemsBefore(7 + 1) = ItemsBefore(7) + get_subitem_count(7)
    BY <2>1 DEF RootItems
  <2> QED
    BY <1>8, <2>1, <2>2
<1>12. tx_display_numItems = 5 + 4 * e + m /\ 5 + 4 * e + m <= 10
  BY <1>11 DEF tx_display_numItems
<1> QED
  BY <1>6, <1>7, <1>9, <1>10, <1>11, <1>12 DEF Layout, chain_id, msgs, memo, fee

LEMMA AgreedLaidOut ==
    ASSUME AgreedRead
    PROVE  \E e, m \in {0, 1} :
             /\ e = IF tx_is_expert_mode_or_not_default_chainid THEN 1 ELSE 0
             /\ m = IF has_memo THEN 1 ELSE 0
             /\ Layout(e, m)
<1>1. PICK e \in {0, 1} : e = IF tx_is_expert_mode_or_not_default_chainid THEN 1 ELSE 0
  OBVIOUS
<1>2. PICK m \in {0, 1} : m = IF has_memo THEN 1 ELSE 0
  OBVIOUS
<1>3. Layout(e, m)
  BY <1>1, <1>2, AgreedLayout
<1> QED
  BY <1>1, <1>2, <1>3

\* Item number t of a field is its leaf number t + 1.
LEMMA AgreedItem ==
    ASSUME AgreedRead, NEW r \in RootItems, NEW t \in Nat, t < get_subitem_count(r)
    PROVE  /\ t + 1 \in DOMAIN doc.leaves[r] /\ doc.leaves[r][t + 1] \in Leaf
           /\ tx_display_query(ItemsBefore(r) + t) = doc.leaves[r][t + 1]
<1>1. PICK e \in {0, 1}, m \in {0, 1} : Layout(e, m)
  BY AgreedLaidOut
<1>2. doc \in Docs /\ doc \in Documents /\ AgreedPayment
  BY DEF AgreedRead, ReadInv, CountInv, TypeOK
<1>3. Leaves(r) = doc.leaves[r] /\ doc.leaves[r] \in Seq(Leaf) /\ Skipped(Leaves(r)) = {}
  <2>1. CASE r = msgs
    BY <1>2, <2>1, AgreedSkipsNothing, StandardShape DEF AgreedPayment
  <2>2. CASE r # msgs
    BY <1>2, <2>2, NoneSkipped
  <2> QED
    BY <2>1, <2>2
<1>4. get_subitem_count(r) \in Nat /\ get_subitem_count(r) <= Len(doc.leaves[r])
  <2>1. /\ Len(doc.leaves[chain_id]) = 1 /\ Len(doc.leaves[account_number]) = 1
        /\ Len(doc.leaves[sequence]) = 1 /\ Len(doc.leaves[msgs]) = 4
        /\ Len(doc.leaves[memo]) = 1 /\ Len(doc.leaves[fee]) = 2
        /\ Len(doc.leaves[tip]) = 0
    BY <1>2, StandardShape DEF AgreedPayment
  <2>2. \/ r = chain_id \/ r = account_number \/ r = sequence \/ r = msgs
        \/ r = memo \/ r = fee \/ r = tip
    BY DEF RootItems, chain_id, account_number, sequence, msgs, memo, fee, tip
  <2>3. /\ get_subitem_count(chain_id) = e /\ get_subitem_count(account_number) = e
        /\ get_subitem_count(sequence) = e /\ get_subitem_count(msgs) = 4
        /\ get_subitem_count(memo) = m /\ get_subitem_count(fee) = 1 + e
        /\ get_subitem_count(tip) = 0
    BY <1>1 DEF Layout
  <2>4. e \in Nat /\ e <= 1 /\ m \in Nat /\ m <= 1
    OBVIOUS
  <2>5. /\ get_subitem_count(chain_id) \in Nat
        /\ get_subitem_count(chain_id) <= Len(doc.leaves[chain_id])
        /\ get_subitem_count(account_number) \in Nat
        /\ get_subitem_count(account_number) <= Len(doc.leaves[account_number])
        /\ get_subitem_count(sequence) \in Nat
        /\ get_subitem_count(sequence) <= Len(doc.leaves[sequence])
    BY <2>1, <2>3, <2>4
  <2>6. /\ get_subitem_count(msgs) \in Nat /\ get_subitem_count(msgs) <= Len(doc.leaves[msgs])
        /\ get_subitem_count(memo) \in Nat /\ get_subitem_count(memo) <= Len(doc.leaves[memo])
    BY <2>1, <2>3, <2>4
  <2>7. /\ get_subitem_count(fee) \in Nat /\ get_subitem_count(fee) <= Len(doc.leaves[fee])
        /\ get_subitem_count(tip) \in Nat /\ get_subitem_count(tip) <= Len(doc.leaves[tip])
    BY <2>1, <2>3, <2>4
  <2> QED
    BY <2>2, <2>5, <2>6, <2>7, Zenon
<1>5. PICK leaves \in Seq(Leaf) : leaves = Leaves(r)
  BY <1>3
<1>6. t + 1 \in DOMAIN leaves
  BY <1>3, <1>4, <1>5
<1>7. Kept(t, {}) = 1 .. t /\ Cardinality(Kept(t, {})) = t
  <2>1. Kept(t, {}) = 1 .. t
    BY DEF Kept
  <2>2. Cardinality(1 .. t) = t
    BY FS_Interval
  <2> QED
    BY <2>1, <2>2
<1>8. tx_traverse_find(leaves, t) = {t + 1}
  <2>1. Skipped(leaves) = {}
    BY <1>3, <1>5
  <2>2. t + 1 \in DOMAIN leaves \ Skipped(leaves)
    BY <1>6, <2>1
  <2>3. t = Cardinality(Kept((t + 1) - 1, Skipped(leaves)))
    BY <1>7, <2>1
  <2> QED
    BY <2>2, <2>3, WalkFinds
<1>9. CountsFit
  BY <1>1 DEF Layout
<1>10. retrieve_tree_indexes(ItemsBefore(r) + t) = {r}
  BY <1>9, Located
<1>11. ItemsBefore(r) \in Nat
  <2>1. r \in 1 .. 8
    BY DEF RootItems
  <2> QED
    BY <1>9, <2>1, RootsFollow
<1>12. PICK i \in Nat : i = ItemsBefore(r) + t
  BY <1>11
<1>13. i - ItemsBefore(r) = t
  BY <1>11, <1>12
<1>14. tx_display_query(i) = Leaves(r)[t + 1]
  <2>1. tx_traverse_find(Leaves(r), i - ItemsBefore(r)) = {t + 1}
    BY <1>5, <1>8, <1>13
  <2>2. retrieve_tree_indexes(i) = {r}
    BY <1>10, <1>12
  <2> QED
    BY <2>1, <2>2, QueryIs
<1> QED
  BY <1>3, <1>5, <1>6, <1>12, <1>14

----------------------------------------------------------------------------

\* The items are where the rows look for them.
AgreedBase == base = ItemsBefore(msgs) /\ chain \in SwapChain

\* An amount that is the one agreed on is shown as the check expects it.
LEMMA AgreedShown ==
    ASSUME AgreedRead, AgreedBase, NEW k \in SwapChain, NEW n
    PROVE  parser_formatAmount(Agreed(k, n)) = format_amount(n)
<1>1. /\ doc \in Documents /\ AgreedPayment
      /\ cache.isDefault <=> calculate_is_default_chainid
  BY DEF AgreedRead, ReadInv, CountInv, Settled, TypeOK
<1>2. /\ k = chain /\ k \in DOMAIN Chains
      /\ calculate_is_default_chainid => k = 1
      /\ k = 1 => calculate_is_default_chainid
  <2>1. PICK c \in DOMAIN Chains :
          /\ SwapChain = {c}
          /\ calculate_is_default_chainid => c = 1
          /\ c = 1 => calculate_is_default_chainid
    BY <1>1, AgreedChain
  <2> QED
    BY <2>1 DEF AgreedBase
<1>3. tx_is_expert_mode_or_not_default_chainid <=> expert \/ k # 1
  BY <1>1, <1>2 DEF tx_is_expert_mode_or_not_default_chainid
<1>4. PICK coin : coin = [n |-> n, denom |-> BaseDenom[k]]
  OBVIOUS
<1>5. Agreed(k, n) = <<coin>> /\ <<coin>> # <<>> /\ <<coin>>[1] = coin
  BY <1>4 DEF Agreed
<1>6. parser_formatAmount(Agreed(k, n)) = parser_formatAmountItem(coin)
  BY <1>5 DEF parser_formatAmount
<1>7. /\ coin.n = n /\ coin.denom = BaseDenom[k]
  BY <1>4
<1>8. CASE expert \/ k # 1
  <2>1. ~is_default_denom_base(coin.denom)
    BY <1>3, <1>8 DEF is_default_denom_base
  <2>2. parser_formatAmountItem(coin) = <<n, BaseDenom[k]>>
    BY <1>7, <2>1 DEF parser_formatAmountItem
  <2> QED
    BY <1>2, <1>6, <1>8, <2>2 DEF format_amount
<1>9. CASE ~(expert \/ k # 1)
  <2>1. is_default_denom_base(coin.denom)
    BY <1>3, <1>7, <1>9 DEF is_default_denom_base
  <2>2. parser_formatAmountItem(coin) = <<n, Ticker>>
    BY <1>7, <2>1 DEF parser_formatAmountItem
  <2> QED
    BY <1>2, <1>6, <1>9, <2>2 DEF format_amount
<1> QED
  BY <1>8, <1>9

\* A leaf of the payment that is read has its item.
LEMMA AgreedRow ==
    ASSUME AgreedRead, NEW row \in DOMAIN Rows, NEW r \in RootItems, NEW t \in Nat,
           t < get_subitem_count(r), Position(row) = ItemsBefore(r) + t,
           Agrees(row, doc.leaves[r][t + 1])
    PROVE  AgreesNow(row)
BY AgreedItem DEF AgreesNow

LEMMA AgreedPlaces ==
    ASSUME AgreedRead, AgreedBase
    PROVE  /\ base \in Nat /\ msgs \in RootItems /\ memo \in RootItems /\ fee \in RootItems
           /\ get_subitem_count(msgs) = 4 /\ get_subitem_count(fee) > 0
           /\ has_memo => get_subitem_count(memo) = 1
           /\ \A row \in DOMAIN Rows \ {"memo", "fee"} :
                /\ Rows[row].at \in 0 .. 3
                /\ Position(row) = ItemsBefore(msgs) + Rows[row].at
           /\ has_memo => Position("memo") = ItemsBefore(memo) + 0
           /\ Position("fee") = ItemsBefore(fee) + 0
<1>1. PICK e \in {0, 1}, m \in {0, 1} : m = (IF has_memo THEN 1 ELSE 0) /\ Layout(e, m)
  BY AgreedLaidOut
<1>2. /\ base = 3 * e /\ get_subitem_count(msgs) = 4 /\ get_subitem_count(fee) = 1 + e
      /\ get_subitem_count(memo) = m
      /\ ItemsBefore(memo) = base + 4 /\ ItemsBefore(fee) = base + 4 + m
  BY <1>1 DEF Layout, AgreedBase
<1>3. base \in Nat
  BY <1>2
<1>4. msgs \in RootItems /\ memo \in RootItems /\ fee \in RootItems
  BY DEF msgs, memo, fee, RootItems
<1>5. ASSUME NEW row \in DOMAIN Rows \ {"memo", "fee"}
      PROVE  /\ Rows[row].at \in 0 .. 3
             /\ Position(row) = ItemsBefore(msgs) + Rows[row].at
  <2>1. Rows[row].at \in 0 .. 3
    BY <1>5 DEF Rows
  <2>2. Position(row) = base + Rows[row].at + 0
    BY <1>5 DEF Position
  <2> QED
    BY <1>3, <2>1, <2>2 DEF AgreedBase
<1>6. Position("memo") = base + 4 + 0 /\ Position("fee") = base + 4 + m
  <2>1. Rows["memo"].at = 4 /\ Rows["fee"].at = 4
    BY DEF Rows
  <2>2. Position("fee") = base + 4 + (IF has_memo THEN 1 ELSE 0)
    BY <2>1 DEF Position
  <2>3. Position("memo") = base + 4 + 0
    BY <2>1 DEF Position
  <2> QED
    BY <1>1, <2>2, <2>3
<1>7. ItemsBefore(memo) + 0 = base + 4 /\ ItemsBefore(fee) + 0 = base + 4 + m
  BY <1>2, <1>3
<1> QED
  BY <1>1, <1>2, <1>3, <1>4, <1>5, <1>6, <1>7

----------------------------------------------------------------------------
(* Its rows agree                                                          *)

\* What the payment says in the leaves of its messages.
LEMMA AgreedMsgs ==
    ASSUME doc \in Documents, AgreedPayment, NEW k \in SwapChain,
           PaysOnce(k), WithMemoAndFee(k)
    PROVE  /\ \A p \in 1 .. 4 : doc.leaves[msgs][p].key \in PaidCoins =>
                CoinsOf[doc.leaves[msgs][p].val] = Agreed(k, swap.amount)
           /\ \A p \in 1 .. 4 : doc.leaves[msgs][p].key \in Receivers =>
                doc.leaves[msgs][p].val = swap.destination_address
           /\ CoinsOf[doc.leaves[fee][1].val] = Agreed(k, swap.fees)
<1>1. /\ DOMAIN doc.leaves[msgs] = 1 .. 4
      /\ doc.leaves[fee] \in Seq(Leaf) /\ Len(doc.leaves[fee]) = 2
      /\ doc.leaves[fee][1].key = "fee/amount"
  BY StandardShape DEF AgreedPayment
<1>2. ASSUME NEW p \in 1 .. 4, doc.leaves[msgs][p].key \in PaidCoins
      PROVE  CoinsOf[doc.leaves[msgs][p].val] = Agreed(k, swap.amount)
  <2>1. p \in KeysIn(msgs, PaidCoins)
    BY <1>1, <1>2 DEF KeysIn
  <2>2. CoinsOf[doc.leaves[msgs][p].val] \in CoinsAt(msgs, PaidCoins)
    BY <2>1 DEF CoinsAt
  <2> QED
    BY <2>2 DEF PaysOnce
<1>3. ASSUME NEW p \in 1 .. 4, doc.leaves[msgs][p].key \in Receivers
      PROVE  doc.leaves[msgs][p].val = swap.destination_address
  <2>1. p \in KeysIn(msgs, Receivers)
    BY <1>1, <1>3 DEF KeysIn
  <2>2. doc.leaves[msgs][p].val \in TextsAt(msgs, Receivers)
    BY <2>1 DEF TextsAt
  <2> QED
    BY <2>2 DEF PaysOnce
<1>4. CoinsOf[doc.leaves[fee][1].val] = Agreed(k, swap.fees)
  <2>1. 1 \in DOMAIN doc.leaves[fee]
    BY <1>1
  <2>2. 1 \in KeysIn(fee, {"fee/amount"})
    BY <1>1, <2>1 DEF KeysIn
  <2>3. CoinsOf[doc.leaves[fee][1].val] \in CoinsAt(fee, {"fee/amount"})
    BY <2>2 DEF CoinsAt
  <2> QED
    BY <2>3 DEF WithMemoAndFee
<1> QED
  BY <1>2, <1>3, <1>4

\* A text that was agreed on fits the field it is compared in.
LEMMA AgreedText ==
    ASSUME NEW v \in Vals, v \notin TooLong
    PROVE  SwapPage[v] = v
BY SwapAssumption

\* Every row of the form of the payment, and those of memo and fee, agree.
LEMMA AgreedRows ==
    ASSUME AgreedRead, AgreedBase
    PROVE  /\ IsTransfer => AllAgree(TransferRows)
           /\ IsSend => AllAgree(SendRows)
           /\ AllAgree(CommonRows)
<1>1. /\ doc \in Documents /\ AgreedPayment
      /\ swap.destination_address \notin TooLong /\ swap.memo \notin TooLong
  BY DEF AgreedRead, ReadInv, TypeOK, SwapTypeOK
<1>2. PICK k \in SwapChain : PaysOnce(k) /\ WithMemoAndFee(k)
  BY <1>1 DEF AgreedPayment, PaysAgreed
<1>3. /\ doc.leaves[msgs] \in Seq(Leaf) /\ DOMAIN doc.leaves[msgs] = 1 .. 4
      /\ doc.leaves[memo] \in Seq(Leaf) /\ Len(doc.leaves[memo]) = 1
      /\ doc.leaves[memo][1].key = "memo" /\ doc.leaves[fee][1].key = "fee/amount"
  BY <1>1, StandardShape DEF AgreedPayment
<1>4. ASSUME NEW row \in DOMAIN Rows \ {"memo", "fee"}, NEW leaf,
             leaf = doc.leaves[msgs][Rows[row].at + 1], Agrees(row, leaf)
      PROVE  AgreesNow(row)
  <2>1. /\ msgs \in RootItems /\ get_subitem_count(msgs) = 4 /\ Rows[row].at \in 0 .. 3
        /\ Position(row) = ItemsBefore(msgs) + Rows[row].at
    BY AgreedPlaces
  <2>2. Rows[row].at \in Nat /\ Rows[row].at < get_subitem_count(msgs)
    BY <2>1
  <2> QED
    BY <1>4, <2>1, <2>2, AgreedRow
<1>5. ASSUME NEW p \in 1 .. 4, NEW row \in {"sourceCoins", "destCoins", "amount"},
             doc.leaves[msgs][p].key = Rows[row].key, Rows[row].key \in PaidCoins
      PROVE  Agrees(row, doc.leaves[msgs][p])
  <2>1. parser_formatAmount(CoinsOf[doc.leaves[msgs][p].val]) = format_amount(swap.amount)
    <3>1. CoinsOf[doc.leaves[msgs][p].val] = Agreed(k, swap.amount)
      BY <1>1, <1>2, <1>5, AgreedMsgs
    <3> QED
      BY <3>1, AgreedShown
  <2> QED
    BY <1>5, <2>1 DEF Agrees
<1>6. ASSUME NEW p \in 1 .. 4, NEW row \in {"destAddress", "to"},
             doc.leaves[msgs][p].key = Rows[row].key, Rows[row].key \in Receivers
      PROVE  Agrees(row, doc.leaves[msgs][p])
  <2>1. SwapPage[doc.leaves[msgs][p].val] = swap.destination_address
    <3>1. doc.leaves[msgs][p].val = swap.destination_address
      BY <1>1, <1>2, <1>6, AgreedMsgs
    <3>2. doc.leaves[msgs][p].val \in Vals
      <4>1. doc.leaves[msgs][p] \in Leaf
        BY <1>3
      <4> QED
        BY <4>1 DEF Leaf
    <3> QED
      BY <1>1, <3>1, <3>2, AgreedText
  <2> QED
    BY <1>6, <2>1 DEF Agrees
<1>7. ASSUME IsTransfer PROVE AllAgree(TransferRows)
  <2>1. /\ doc.leaves[msgs][1].key = "inputs/address" /\ doc.leaves[msgs][2].key = "inputs/coins"
        /\ doc.leaves[msgs][3].key = "outputs/address"
        /\ doc.leaves[msgs][4].key = "outputs/coins"
    BY <1>7 DEF IsTransfer, TransferKeys
  <2>2. Agrees("sourceAddress", doc.leaves[msgs][1])
    BY <2>1 DEF Agrees, Rows
  <2>3. Agrees("sourceCoins", doc.leaves[msgs][2])
    <3>1. Rows["sourceCoins"].key = "inputs/coins" /\ "inputs/coins" \in PaidCoins
      BY DEF Rows, PaidCoins
    <3> QED
      BY <1>5, <2>1, <3>1
  <2>4. Agrees("destAddress", doc.leaves[msgs][3])
    <3>1. Rows["destAddress"].key = "outputs/address" /\ "outputs/address" \in Receivers
      BY DEF Rows, Receivers
    <3> QED
      BY <1>6, <2>1, <3>1
  <2>5. Agrees("destCoins", doc.leaves[msgs][4])
    <3>1. Rows["destCoins"].key = "outputs/coins" /\ "outputs/coins" \in PaidCoins
      BY DEF Rows, PaidCoins
    <3> QED
      BY <1>5, <2>1, <3>1
  <2>6. /\ Rows["sourceAddress"].at + 1 = 1 /\ Rows["sourceCoins"].at + 1 = 2
        /\ Rows["destAddress"].at + 1 = 3 /\ Rows["destCoins"].at + 1 = 4
        /\ {"sourceAddress", "sourceCoins", "destAddress", "destCoins"}
             \subseteq DOMAIN Rows \ {"memo", "fee"}
    BY DEF Rows
  <2> QED
    BY <1>4, <2>2, <2>3, <2>4, <2>5, <2>6 DEF AllAgree, TransferRows
<1>8. ASSUME IsSend PROVE AllAgree(SendRows)
  <2>1. /\ doc.leaves[msgs][1].key = "type" /\ doc.leaves[msgs][2].key = "amount"
        /\ doc.leaves[msgs][4].key = "to_address" /\ doc.leaves[msgs][1].val = SendText
    BY <1>8 DEF IsSend, SendKeys
  <2>2. Agrees("type", doc.leaves[msgs][1])
    <3>1. doc.leaves[msgs][1] \in Leaf
      BY <1>3
    <3>2. SwapPage[SendText] = SendText
      BY <2>1, <3>1, SwapAssumption, AgreedText DEF Leaf
    <3> QED
      BY <2>1, <3>2 DEF Agrees, Rows
  <2>3. Agrees("amount", doc.leaves[msgs][2])
    <3>1. Rows["amount"].key = "amount" /\ "amount" \in PaidCoins
      BY DEF Rows, PaidCoins
    <3> QED
      BY <1>5, <2>1, <3>1
  <2>4. Agrees("to", doc.leaves[msgs][4])
    <3>1. Rows["to"].key = "to_address" /\ "to_address" \in Receivers
      BY DEF Rows, Receivers
    <3> QED
      BY <1>6, <2>1, <3>1
  <2>5. /\ Rows["type"].at + 1 = 1 /\ Rows["amount"].at + 1 = 2 /\ Rows["to"].at + 1 = 4
        /\ {"type", "amount", "to"} \subseteq DOMAIN Rows \ {"memo", "fee"}
    BY DEF Rows
  <2> QED
    BY <1>4, <2>2, <2>3, <2>4, <2>5 DEF AllAgree, SendRows
<1>9. AllAgree(CommonRows)
  <2>1. /\ memo \in RootItems /\ fee \in RootItems /\ get_subitem_count(fee) > 0
        /\ has_memo => get_subitem_count(memo) = 1
        /\ has_memo => Position("memo") = ItemsBefore(memo) + 0
        /\ Position("fee") = ItemsBefore(fee) + 0
    BY AgreedPlaces
  <2>2. "memo" \in DOMAIN Rows /\ "fee" \in DOMAIN Rows
    BY DEF Rows
  <2>3. AgreesNow("fee")
    <3>1. parser_formatAmount(CoinsOf[doc.leaves[fee][1].val]) = format_amount(swap.fees)
      <4>1. CoinsOf[doc.leaves[fee][1].val] = Agreed(k, swap.fees)
        BY <1>1, <1>2, AgreedMsgs
      <4> QED
        BY <4>1, AgreedShown
    <3>2. Agrees("fee", doc.leaves[fee][1])
      BY <1>3, <3>1 DEF Agrees, Rows
    <3>3. Agrees("fee", doc.leaves[fee][0 + 1]) /\ 0 \in Nat /\ 0 < get_subitem_count(fee)
      BY <2>1, <3>2
    <3> QED
      BY <2>1, <2>2, <3>3, AgreedRow
  <2>4. ASSUME has_memo PROVE AgreesNow("memo")
    <3>1. doc.leaves[memo][1].val = swap.memo
      BY <1>1, AgreedMemo
    <3>2. SwapPage[doc.leaves[memo][1].val] = swap.memo
      <4>1. doc.leaves[memo][1] \in Leaf
        BY <1>3
      <4> QED
        BY <1>1, <3>1, <4>1, AgreedText DEF Leaf
    <3>3. Agrees("memo", doc.leaves[memo][1])
      BY <1>3, <3>2 DEF Agrees, Rows
    <3>4. Agrees("memo", doc.leaves[memo][0 + 1]) /\ 0 \in Nat /\ 0 < get_subitem_count(memo)
      BY <2>1, <2>4, <3>3
    <3> QED
      BY <2>1, <2>2, <2>4, <3>4, AgreedRow
  <2> QED
    BY <2>3, <2>4 DEF AllAgree, CommonRows
<1> QED
  BY <1>7, <1>8, <1>9

\* The number of its items is the one expected.
LEMMA AgreedCount ==
    ASSUME AgreedRead, AgreedBase
    PROVE  tx_display_numItems = ItemsExpected
<1>1. /\ doc \in Documents /\ AgreedPayment
      /\ cache.isDefault <=> calculate_is_default_chainid
  BY DEF AgreedRead, ReadInv, CountInv, Settled, TypeOK
<1>2. /\ calculate_is_default_chainid => chain = 1
      /\ chain = 1 => calculate_is_default_chainid
  BY <1>1, AgreedChain DEF AgreedBase
<1>3. PICK e \in {0, 1}, m \in {0, 1} :
        /\ e = IF tx_is_expert_mode_or_not_default_chainid THEN 1 ELSE 0
        /\ m = IF has_memo THEN 1 ELSE 0
        /\ tx_display_numItems = 5 + 4 * e + m
  BY AgreedLaidOut DEF Layout
<1>4. tx_is_expert_mode_or_not_default_chainid <=> chain # 1 \/ expert
  BY <1>1, <1>2 DEF tx_is_expert_mode_or_not_default_chainid
<1>5. CASE chain # 1 \/ expert
  <2>1. ItemsExpected = 10 - (IF has_memo THEN 0 ELSE 1) /\ e = 1
    BY <1>3, <1>4, <1>5 DEF ItemsExpected, EXPERT_SEND_MODE_ITEMS
  <2> QED
    BY <1>3, <2>1
<1>6. CASE ~(chain # 1 \/ expert)
  <2>1. ItemsExpected = 6 - (IF has_memo THEN 0 ELSE 1) /\ e = 0
    BY <1>3, <1>4, <1>6 DEF ItemsExpected, NORMAL_SEND_MODE_ITEMS
  <2> QED
    BY <1>3, <2>1
<1> QED
  BY <1>5, <1>6

----------------------------------------------------------------------------
(* No step refuses it                                                      *)

\* A leaf of the payment can be shown.
LEMMA AgreedCanBeShown ==
    ASSUME AgreedRead, NEW i \in Nat, i < tx_display_numItems
    PROVE  CanBeShown(tx_display_query(i))
<1>1. /\ doc \in Docs /\ doc \in Documents /\ AgreedPayment
  BY DEF AgreedRead, ReadInv, CountInv, TypeOK
<1>2. CountsFit
  BY AgreedLaidOut DEF Layout
<1>3. PICK r \in RootItems, t \in Nat : t < get_subitem_count(r) /\ i = ItemsBefore(r) + t
  BY <1>2, EveryItemLocated
<1>4. PICK leaf \in Leaf, p \in DOMAIN doc.leaves[r] :
        leaf = doc.leaves[r][p] /\ tx_display_query(i) = leaf
  BY <1>3, AgreedItem
<1>5. leaf # NoLeaf
  BY LeafIsThere
<1>6. PICK k \in SwapChain : PaysOnce(k) /\ WithMemoAndFee(k)
  BY <1>1 DEF AgreedPayment, PaysAgreed
<1>7. ASSUME Malformed(leaf) PROVE FALSE
  <2>1. leaf.key \in AmountKeys /\ leaf.val \in Vals /\ CoinsOf[leaf.val] = <<>>
    <3>1. leaf.key \in AmountKeys /\ leaf.val \in BadAmounts /\ leaf.val \in Vals
      BY <1>7 DEF Malformed, Leaf
    <3> QED
      BY <3>1, SwapAssumption
  <2>2. ASSUME NEW n PROVE <<>> # Agreed(k, n)
    BY DEF Agreed
  <2>3. r \in {msgs, fee, tip}
    BY <1>1, <1>4, <2>1, SwapAssumption
  <2>4. AmountKeys \cap (SwapKeys \cup {"from_address", "fee/gas"}) =
          {"amount", "inputs/coins", "outputs/coins", "fee/amount"}
    BY SwapAssumption
  <2>5. /\ DOMAIN doc.leaves[msgs] = 1 .. 4
        /\ IsTransfer \/ IsSend
        /\ doc.leaves[fee] \in Seq(Leaf) /\ Len(doc.leaves[fee]) = 2
        /\ doc.leaves[fee][1].key = "fee/amount" /\ doc.leaves[fee][2].key = "fee/gas"
        /\ doc.leaves[tip] = <<>>
    BY <1>1, StandardShape DEF AgreedPayment
  <2>6. CASE r = msgs
    <3>1. p = 1 \/ p = 2 \/ p = 3 \/ p = 4
      <4>1. p \in DOMAIN doc.leaves[msgs] /\ DOMAIN doc.leaves[msgs] = 1 .. 4
        BY <1>4, <2>5, <2>6
      <4> QED
        BY <4>1
    <3>2. leaf.key \in SwapKeys \cup {"from_address"} /\ leaf.key # "fee/amount"
      <4>1. CASE IsTransfer
        BY <1>4, <2>6, <3>1, <4>1 DEF IsTransfer, TransferKeys, SwapKeys
      <4>2. CASE IsSend
        BY <1>4, <2>6, <3>1, <4>2 DEF IsSend, SendKeys, SwapKeys
      <4> QED
        BY <2>5, <4>1, <4>2
    <3>3. leaf.key \in PaidCoins
      BY <2>1, <2>4, <3>2 DEF PaidCoins
    <3>4. CoinsOf[leaf.val] = Agreed(k, swap.amount)
      <4>1. \A q \in 1 .. 4 : doc.leaves[msgs][q].key \in PaidCoins =>
              CoinsOf[doc.leaves[msgs][q].val] = Agreed(k, swap.amount)
        BY <1>1, <1>6, AgreedMsgs
      <4>2. p \in 1 .. 4 /\ doc.leaves[msgs][p] = leaf
        BY <1>4, <2>6, <3>1
      <4> QED
        BY <3>3, <4>1, <4>2
    <3> QED
      BY <2>1, <2>2, <3>4
  <2>7. CASE r = fee
    <3>1. p = 1 \/ p = 2
      BY <1>4, <2>5, <2>7
    <3>2. p # 2
      <4>1. "fee/gas" \notin AmountKeys
        BY <2>4
      <4> QED
        BY <1>4, <2>1, <2>5, <2>7, <4>1
    <3>3. CoinsOf[leaf.val] = Agreed(k, swap.fees)
      BY <1>1, <1>4, <1>6, <2>7, <3>1, <3>2, AgreedMsgs
    <3> QED
      BY <2>1, <2>2, <3>3
  <2>8. CASE r = tip
    BY <1>4, <2>5, <2>8
  <2> QED
    BY <2>3, <2>6, <2>7, <2>8
<1> QED
  BY <1>4, <1>5, <1>7 DEF CanBeShown

\* Validation does not refuse it.
LEMMA AgreedValidates ==
    ASSUME AgreedRead, ValidateItem
    PROVE  phase' # "rejected"
<1>1. CountsFit /\ tx_display_numItems <= ByteMax /\ tx_display_numItems \in Nat
  BY AgreedLaidOut DEF Layout
<1>2. ~(~CountsFit \/ tx_display_numItems > ByteMax)
  BY <1>1, DocsAssumption
<1>3. phase = "validating" /\ checked \in Seq(Leaf)
  BY DEF ValidateItem, AgreedRead, ReadInv, TypeOK
<1>4. Len(checked) < tx_display_numItems => CanBeShown(tx_display_query(Len(checked)))
  BY <1>3, AgreedCanBeShown
<1>5. \/ phase' = "review"
      \/ /\ Len(checked) < tx_display_numItems
         /\ phase' = IF CanBeShown(tx_display_query(Len(checked))) THEN phase ELSE "rejected"
  BY <1>2, Zenon DEF ValidateItem
<1> QED
  BY <1>3, <1>4, <1>5

\* Its first item tells the check its chain, and where the messages begin.
LEMMA AgreedFirst ==
    ASSUME AgreedRead, NEW row, CheckFirst(row)
    PROVE  /\ verdict' # "refused" /\ stage' = row
           /\ base' = ItemsBefore(msgs) /\ chain' \in SwapChain
<1>1. /\ doc \in Documents /\ AgreedPayment /\ verdict = "open"
      /\ cache.isDefault <=> calculate_is_default_chainid
  BY DEF AgreedRead, ReadInv, CountInv, Settled, TypeOK, CheckFirst, Checking
<1>2. PICK e \in {0, 1}, m \in {0, 1} :
        e = (IF tx_is_expert_mode_or_not_default_chainid THEN 1 ELSE 0) /\ Layout(e, m)
  BY AgreedLaidOut
<1>3. /\ get_subitem_count(chain_id) = e /\ get_subitem_count(msgs) = 4
      /\ ItemsBefore(chain_id) = 0 /\ ItemsBefore(msgs) = 3 * e
  BY <1>2 DEF Layout
<1>4. PICK k \in DOMAIN Chains :
        /\ SwapChain = {k}
        /\ calculate_is_default_chainid => k = 1
  BY <1>1, AgreedChain
<1>5. chain_id \in RootItems /\ msgs \in RootItems /\ 0 \in Nat
  BY DEF chain_id, msgs, RootItems
<1>6. /\ doc.leaves[chain_id][1].key = "chain_id"
      /\ doc.leaves[msgs][1].key # "chain_id"
  <2>1. doc.leaves[chain_id][1].key = "chain_id" /\ (IsTransfer \/ IsSend) /\ 1 \in 1 .. 4
    BY <1>1, StandardShape DEF AgreedPayment
  <2> QED
    BY <2>1 DEF IsTransfer, IsSend, TransferKeys, SendKeys
<1>7. CASE e = 1
  <2>1. tx_display_query(ItemsBefore(chain_id) + 0) = doc.leaves[chain_id][0 + 1]
    BY <1>3, <1>5, <1>7, AgreedItem
  <2>2. tx_display_query(0) = doc.leaves[chain_id][1]
    BY <1>3, <2>1
  <2>3. find_chain_index_by_chain_id(tx_display_query(0).val) = {k}
    BY <1>4, <2>2 DEF SwapChain
  <2>4. stage' = row /\ base' = 3 /\ chain' = (CHOOSE j \in {k} : TRUE) /\ verdict' = verdict
    BY <1>6, <2>2, <2>3 DEF CheckFirst
  <2>5. chain' = k
    BY <2>4
  <2> QED
    BY <1>1, <1>3, <1>4, <1>7, <2>4, <2>5
<1>8. CASE e = 0
  <2>1. tx_display_query(ItemsBefore(msgs) + 0) = doc.leaves[msgs][0 + 1]
    BY <1>3, <1>5, AgreedItem
  <2>2. tx_display_query(0) = doc.leaves[msgs][1]
    BY <1>3, <1>8, <2>1
  <2>3. k = 1
    BY <1>1, <1>2, <1>4, <1>8 DEF tx_is_expert_mode_or_not_default_chainid
  <2>4. stage' = row /\ base' = 0 /\ chain' = 1 /\ verdict' = verdict
    BY <1>6, <2>2 DEF CheckFirst
  <2> QED
    BY <1>1, <1>3, <1>4, <1>8, <2>3, <2>4
<1> QED
  BY <1>7, <1>8

\* The stages in which a payment of the form of a Send is compared.
SendStages == {"second", "type", "amount", "to"}

\* No row refuses it.
LEMMA AgreedRowPasses ==
    ASSUME AgreedRead, AgreedBase, RowsInv, NEW row \in DOMAIN Rows, CheckRow(row),
           stage \in SendStages => IsSend
    PROVE  verdict' # "refused" /\ (stage' \in SendStages => IsSend)
<1>1. /\ doc \in Documents /\ AgreedPayment /\ OneDepth(doc)
      /\ verdict = "open" /\ stage = row
  BY DEF AgreedRead, AgreedPayment, OneDepth, ReadInv, TypeOK, CheckRow, Checking
<1>2. IsTransfer \/ IsSend
  BY <1>1, StandardShape DEF AgreedPayment
<1>3. /\ IsTransfer => AllAgree(TransferRows)
      /\ IsSend => AllAgree(SendRows)
      /\ AllAgree(CommonRows)
  BY AgreedRows
<1>4. ASSUME AgreesNow(row)
      PROVE  verdict' = verdict /\ stage' = Following(row)
  BY <1>4 DEF AgreesNow, CheckRow
<1>5. ASSUME AgreesNow("sourceAddress") PROVE ~IsSend
  <2>1. /\ get_subitem_count(msgs) = 4 /\ msgs \in RootItems
        /\ Position("sourceAddress") = ItemsBefore(msgs) + Rows["sourceAddress"].at
    BY AgreedPlaces DEF Rows
  <2>2. tx_display_query(ItemsBefore(msgs) + 0) = doc.leaves[msgs][0 + 1]
    BY <2>1, AgreedItem
  <2>3. tx_display_query(Position("sourceAddress")) = doc.leaves[msgs][1]
    BY <2>1, <2>2 DEF Rows
  <2>4. doc.leaves[msgs][1].key = "inputs/address"
    BY <1>5, <2>3 DEF AgreesNow, Agrees, Rows
  <2> QED
    BY <2>4 DEF IsSend, SendKeys
<1>6. row \in {"sourceAddress", "sourceCoins", "destAddress", "destCoins", "type", "amount",
               "to", "memo", "fee"}
  BY DEF Rows
<1>7. CASE row = "sourceAddress" /\ ~IsTransfer
  <2>1. IsSend
    BY <1>2, <1>7
  <2>2. tx_display_query(Position(row)) # NoLeaf
    <3>1. /\ get_subitem_count(msgs) = 4 /\ msgs \in RootItems
          /\ Position("sourceAddress") = ItemsBefore(msgs) + Rows["sourceAddress"].at
      BY AgreedPlaces DEF Rows
    <3>2. /\ tx_display_query(ItemsBefore(msgs) + 0) = doc.leaves[msgs][0 + 1]
          /\ doc.leaves[msgs][0 + 1] \in Leaf
      BY <3>1, AgreedItem
    <3>3. tx_display_query(Position(row)) \in Leaf
      BY <1>7, <3>1, <3>2 DEF Rows
    <3> QED
      BY <3>3, LeafIsThere
  <2> QED
    BY <1>1, <1>7, <2>1, <2>2 DEF CheckRow
<1>8. CASE row \in TransferRows /\ IsTransfer
  <2>1. Following(row) \notin SendStages
    BY <1>8 DEF Following, Rows, TransferRows, SendStages
  <2> QED
    BY <1>1, <1>3, <1>4, <1>8, <2>1 DEF AllAgree
<1>9. CASE row \in {"sourceCoins", "destAddress", "destCoins"}
  <2>1. AgreesNow("sourceAddress")
    <3>1. row \in DOMAIN RowsBefore /\ "sourceAddress" \in RowsBefore[row]
      BY <1>9 DEF RowsBefore
    <3> QED
      BY <1>1, <3>1 DEF RowsInv, AllAgree
  <2>2. IsTransfer
    BY <1>2, <1>5, <2>1
  <2> QED
    BY <1>8, <1>9, <2>2 DEF TransferRows
<1>10. CASE row \in SendRows
  <2>1. IsSend
    BY <1>1, <1>10 DEF SendRows, SendStages
  <2>2. AgreesNow(row)
    BY <1>3, <1>10, <2>1 DEF AllAgree
  <2> QED
    BY <1>1, <1>4, <2>1, <2>2
<1>11. CASE row = "memo"
  <2>1. has_memo
    BY <1>1, <1>11 DEF RowsInv
  <2>2. AgreesNow(row)
    BY <1>3, <1>11, <2>1 DEF AllAgree, CommonRows
  <2>3. Following(row) = "fee"
    BY <1>11 DEF Following, Rows
  <2> QED
    BY <1>1, <1>4, <2>2, <2>3 DEF SendStages
<1>12. CASE row = "fee"
  <2>1. AgreesNow(row)
    BY <1>3, <1>12 DEF AllAgree, CommonRows
  <2>2. Following(row) = "count"
    BY <1>12 DEF Following, Rows
  <2> QED
    BY <1>1, <1>4, <2>1, <2>2 DEF SendStages
<1> QED
  BY <1>6, <1>7, <1>8, <1>9, <1>10, <1>11, <1>12 DEF TransferRows, SendRows

\* A payment as agreed has not been refused, and the check looks for its items
\* where they are.
AgreedInv ==
    AgreedPayment =>
        /\ verdict # "refused"
        /\ verdict # "none" => phase # "rejected"
        /\ stage # "first" => AgreedBase
        /\ stage \in SendStages => IsSend

LEMMA SamePayment ==
    ASSUME UNCHANGED <<doc, swap>>
    PROVE  /\ AgreedPayment' = AgreedPayment /\ SwapChain' = SwapChain
           /\ IsSend' = IsSend
<1>1. SwapChain' = SwapChain
  BY DEF SwapChain
<1>2. StandardForm' = StandardForm
  BY DEF StandardForm, KeysOf, KeysIn
<1>3. OneCoin' = OneCoin
  BY DEF OneCoin, CoinsAt, KeysIn
<1>4. PaysAgreed' = PaysAgreed
  BY <1>1 DEF PaysAgreed, PaysOnce, WithMemoAndFee, CoinsAt, TextsAt, KeysIn
<1>5. NoMulti(doc)' = NoMulti(doc)
  BY DEF NoMulti
<1>6. IsSend' = IsSend
  BY DEF IsSend
<1> QED
  BY <1>1, <1>2, <1>3, <1>4, <1>5, <1>6 DEF AgreedPayment

LEMMA SameBase ==
    ASSUME UNCHANGED <<doc, expert, cache>>
    PROVE  ItemsBefore(msgs)' = ItemsBefore(msgs)
BY DEF ItemsBefore, ItemsIn, get_subitem_count, Grouped,
       tx_is_expert_mode_or_not_default_chainid

\* Reading the document does not refuse it.
LEMMA AgreedReadOn ==
    ASSUME PaymentInv, AgreedInv, ReadDocument
    PROVE  AgreedInv'
<1>1. /\ UNCHANGED swapVars /\ verdict = "open" /\ ReadInv /\ SwapTypeOK /\ RowsInv
      /\ doc \in Documents
  BY DEF ReadDocument, PaymentInv, SwapInv, ReadInv, TypeOK
<1>2. CASE \E d \in Docs : ParseDocument(d)
  <2>1. phase' = "indexing" /\ phase # "review"
    BY <1>2 DEF ParseDocument, Idle
  <2>2. stage' = "first" /\ verdict' = "open"
    BY <1>1, <2>1 DEF RowsInv, swapVars
  <2> QED
    BY <2>1, <2>2 DEF AgreedInv, SendStages
<1>3. CASE IndexItem \/ IndexRootDone \/ IndexDone \/ ValidateItem
  <2> SUFFICES ASSUME AgreedPayment'
               PROVE  phase' # "rejected" /\ stage' = "first" /\ verdict' = "open"
    BY DEF AgreedInv, SendStages
  <2>1. doc' = doc /\ phase \in {"indexing", "validating"}
    BY <1>3 DEF IndexItem, IndexRootDone, IndexDone, ValidateItem
  <2>2. AgreedPayment
    BY <1>1, <2>1, SamePayment DEF swapVars
  <2>3. stage' = "first" /\ verdict' = "open"
    BY <1>1, <2>1 DEF RowsInv, swapVars
  <2>4. CASE IndexItem \/ IndexRootDone
    BY <2>1, <2>3, <2>4 DEF IndexItem, IndexRootDone
  <2>5. CASE IndexDone
    <3>1. ~ChainRefused
      BY <1>1, <2>2, AgreedChain
    <3> QED
      BY <2>3, <2>5, <3>1 DEF IndexDone
  <2>6. CASE ValidateItem
    <3>1. AgreedRead
      BY <1>1, <2>2, <2>6 DEF AgreedRead, ValidateItem
    <3> QED
      BY <2>3, <2>6, <3>1, AgreedValidates
  <2> QED
    BY <1>3, <2>4, <2>5, <2>6
<1> QED
  BY <1>2, <1>3 DEF ReadDocument

\* Nor does the check.
LEMMA AgreedCheckedOn ==
    ASSUME PaymentInv, AgreedInv, CheckStep
    PROVE  AgreedInv'
<1> SUFFICES ASSUME AgreedPayment'
             PROVE  /\ verdict' # "refused" /\ phase' # "rejected"
                    /\ stage' # "first" => AgreedBase'
                    /\ stage' \in SendStages => IsSend'
  BY DEF AgreedInv
<1>1. /\ Checking /\ UNCHANGED <<swap, displayVars>>
  BY CheckReads
<1>2. /\ phase' = "review" /\ UNCHANGED <<doc, swap, expert, cache>>
  BY <1>1 DEF Checking, displayVars
<1>3. /\ AgreedPayment /\ SwapChain' = SwapChain /\ IsSend' = IsSend
      /\ ItemsBefore(msgs)' = ItemsBefore(msgs)
  BY <1>2, SamePayment, SameBase
<1>4. AgreedRead /\ RowsInv /\ doc \in Documents
  BY <1>1, <1>3 DEF AgreedRead, ReadInv, PaymentInv, SwapInv, Checking, TypeOK
<1>5. PICK row \in DOMAIN Rows : CheckFirst(row) \/ CheckRow(row)
  BY DEF CheckStep
<1>6. CASE CheckFirst(row)
  <2>1. /\ verdict' # "refused" /\ stage' = row
        /\ base' = ItemsBefore(msgs) /\ chain' \in SwapChain
    BY <1>4, <1>6, AgreedFirst
  <2>2. AgreedBase'
    BY <1>3, <2>1 DEF AgreedBase
  <2>3. stage' \in SendStages => IsSend
    <3>1. CASE row = "sourceAddress"
      BY <2>1, <3>1 DEF SendStages
    <3>2. CASE stage = "second"
      BY <1>3, <3>2 DEF AgreedInv, SendStages
    <3> QED
      BY <1>6, <3>1, <3>2 DEF CheckFirst
  <2> QED
    BY <1>2, <1>3, <2>1, <2>2, <2>3
<1>7. CASE CheckRow(row)
  <2>1. stage = row /\ stage # "first" /\ UNCHANGED <<base, chain>>
    BY <1>7 DEF CheckRow, Rows
  <2>2. AgreedBase /\ (stage \in SendStages => IsSend)
    BY <1>3, <2>1 DEF AgreedInv
  <2>3. verdict' # "refused" /\ (stage' \in SendStages => IsSend)
    BY <1>4, <1>7, <2>2, AgreedRowPasses
  <2>4. AgreedBase'
    BY <1>3, <2>1, <2>2 DEF AgreedBase
  <2> QED
    BY <1>2, <1>3, <2>3, <2>4
<1> QED
  BY <1>5, <1>6, <1>7

LEMMA AgreedCountedOn ==
    ASSUME PaymentInv, AgreedInv, CheckCount
    PROVE  AgreedInv'
<1> SUFFICES ASSUME AgreedPayment'
             PROVE  /\ verdict' # "refused" /\ phase' # "rejected"
                    /\ stage' # "first" => AgreedBase'
                    /\ stage' \in SendStages => IsSend'
  BY DEF AgreedInv
<1>1. /\ Checking /\ stage = "count" /\ stage' = "count"
      /\ phase' = phase /\ phase = "review" /\ UNCHANGED <<doc, swap, expert, cache, base, chain>>
  BY DEF CheckCount, Checking, displayVars
<1>2. /\ AgreedPayment /\ SwapChain' = SwapChain
      /\ ItemsBefore(msgs)' = ItemsBefore(msgs)
  BY <1>1, SamePayment, SameBase
<1>3. AgreedRead
  BY <1>1, <1>2 DEF AgreedRead, ReadInv, PaymentInv, SwapInv
<1>4. AgreedBase
  BY <1>1, <1>2 DEF AgreedInv
<1>5. verdict' = "accepted"
  BY <1>3, <1>4, AgreedCount DEF CheckCount
<1>6. AgreedBase'
  BY <1>1, <1>2, <1>4 DEF AgreedBase
<1> QED
  BY <1>1, <1>5, <1>6 DEF SendStages

LEMMA AgreedStep ==
    ASSUME PaymentInv, AgreedInv, [SwapNext]_allVars
    PROVE  AgreedInv'
<1>1. CASE UNCHANGED allVars
  <2>1. UNCHANGED <<doc, swap, expert, cache, base, chain, stage, verdict, phase>>
    BY <1>1 DEF allVars, vars, swapVars
  <2>2. /\ AgreedPayment' = AgreedPayment /\ SwapChain' = SwapChain /\ IsSend' = IsSend
        /\ ItemsBefore(msgs)' = ItemsBefore(msgs)
    BY <2>1, SamePayment, SameBase
  <2> QED
    BY <2>1, <2>2 DEF AgreedInv, AgreedBase
<1>2. CASE \E p \in Parameters : StartSwap(p)
  <2>1. PICK p \in Parameters : StartSwap(p)
    BY <1>2
  <2>2. CASE doc' = NoDocument
    <3>1. ~AgreedPayment'
      <4>1. KeysOf(memo)' = <<>>
        BY <2>2 DEF KeysOf, NoDocument, RootItems, memo
      <4>2. KeysOf(memo)' # <<"memo">>
        BY <4>1
      <4> QED
        BY <4>2 DEF AgreedPayment, StandardForm
    <3> QED
      BY <3>1 DEF AgreedInv
  <2>3. CASE verdict' = "none"
    BY <2>1, <2>3, StartResets DEF AgreedInv, SendStages
  <2> QED
    BY <2>1, <2>2, <2>3, StartResets
<1> QED
  BY <1>1, <1>2, SwapSteps, AgreedReadOn, AgreedCheckedOn, AgreedCountedOn

\* A payment as agreed, in one of the forms that the comments of parser_msg_send
\* and parser_simple_transfer give, is never refused, neither when it is parsed
\* and validated nor when it is compared, for any payments, chains and documents.
THEOREM AgreedPaymentAccepted == SwapSpec => []AgreedIsAccepted
<1>1. SwapInit => AgreedInv
  <2>1. SwapInit => stage = "first" /\ verdict = "none"
    BY DEF SwapInit
  <2> QED
    BY <2>1 DEF AgreedInv, SendStages
<1>2. PaymentInv /\ AgreedInv /\ [SwapNext]_allVars => AgreedInv'
BY AgreedStep
<1>3. AgreedInv => AgreedIsAccepted
BY DEF AgreedInv, AgreedIsAccepted, AgreedPayment
<1> QED
BY <1>1, <1>2, <1>3, PaymentInvariant, PTL DEF SwapSpec, allVars
=============================================================================
