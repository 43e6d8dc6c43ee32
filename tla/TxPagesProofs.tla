--------------------------- MODULE TxPagesProofs ---------------------------
(***************************************************************************)
(* What parser_validate accepted can be shown on any screen, what the user *)
(* has read to the end is all of it, and every page fits its buffers.      *)
(*                                                                         *)
(* parser_validate tries page 0 of every item with buffers of its own.     *)
(* Whether a page of a textual transaction can be had depends on its       *)
(* screen only.  A list of coins has to be followed through its loop: the  *)
(* pages of each coin are no more in the longer buffers of the review, so  *)
(* a byte still counts them (ReviewedLoop), and the loop finds the coin of *)
(* every page below their sum (LoopOK).  The loop is a recursive function  *)
(* of the coins; Successors is the induction over its index.               *)
(*                                                                         *)
(* What the user has read is what the pages add up to: those of a text are *)
(* the text (TextTold), those of a list are the pages of its coins in      *)
(* order (PagesInOrder, CoinsTold), and `pages' holds all of them of every *)
(* item that was left, because an item goes on telling how many pages it   *)
(* has (HistoryInv, Steady).  A screen is read from the fields of a CBOR   *)
(* map (InfoSent); its title is a key or moves to the text (ScreenShown).  *)
(*                                                                         *)
(* What is shown of a content is read back one character at a time: none   *)
(* is shown as the beginning of another (CodesApart), and the end mark     *)
(* tells a text that ends with "@" from one that does not (ReadBack).      *)
(***************************************************************************)
EXTENDS TxPages, TLAPS, FiniteSetTheorems, SequenceTheorems, WellFoundedInduction

----------------------------------------------------------------------------
(* Recursion over a list of coins                                          *)

\* Numbers that contain 0 and the successor of each of them are all numbers.
LEMMA Successors ==
    ASSUME NEW S \in SUBSET Nat, 0 \in S, \A k \in S : k + 1 \in S
    PROVE  S = Nat
  <1> DEFINE T == {0 .. k : k \in Nat \ S}
             R == StrictSubsetOrdering(Nat)
             F == FiniteSubsetsOf(Nat)
  <1>1. SUFFICES ASSUME NEW n \in Nat \ S PROVE FALSE
    OBVIOUS
  <1>2. T \subseteq F /\ T # {}
    <2>1. ASSUME NEW k \in Nat PROVE 0 .. k \in F
      <3>1. IsFiniteSet(0 .. k)
        BY FS_Interval
      <3> QED
        BY <3>1 DEF FiniteSubsetsOf
    <2> QED
      BY <1>1, <2>1
  <1>3. PICK x \in T : \A y \in T : ~(<<y, x>> \in R)
    <2> HIDE DEF T, F, R
    <2>1. IsWellFoundedOn(R, F)
      BY FS_StrictSubsetOrderingWellFounded DEF R, F
    <2> QED
      BY <1>2, <2>1, WFMin
  <1>4. PICK k \in Nat \ S : x = 0 .. k
    BY <1>3
  <1>5. PICK j : j = k - 1
    OBVIOUS
  <1>6. j \in Nat /\ j + 1 = k /\ j \notin S
    BY <1>4, <1>5
  <1>7. 0 .. j \in T /\ 0 .. j \subseteq 0 .. k /\ 0 .. j # 0 .. k
    <2>1. k \in 0 .. k /\ k \notin 0 .. j
      BY <1>6
    <2> QED
      BY <1>6, <2>1
  <1>8. <<0 .. j, 0 .. k>> \in R
    <2> HIDE DEF T
    <2>1. 0 .. j \in SUBSET Nat /\ 0 .. k \in SUBSET Nat
      BY <1>4, <1>6
    <2> QED
      BY <1>7, <2>1 DEF StrictSubsetOrdering
  <1> QED
    BY <1>3, <1>4, <1>7, <1>8

LEMMA CoinsCounted ==
    ASSUME NEW coins, Len(coins) \in Nat, NEW plain, NEW outValLen, NEW page
    PROVE  LET count == CountCoins(coins, plain, outValLen, page) IN
           /\ count[0] = [err |-> "parser_ok", totalPages |-> 0, showItem |-> 0,
                          showPageIdx |-> page]
           /\ \A i \in 1 .. Len(coins) :
                count[i] = CountCoin(coins[i], i, plain, outValLen, count[i - 1])
  <1> DEFINE n == Len(coins)
             base == [err |-> "parser_ok", totalPages |-> 0, showItem |-> 0, showPageIdx |-> page]
             St(i, v) == CountCoin(coins[i], i, plain, outValLen, v)
             Counts(g, k) == g = [i \in 0 .. k |-> IF i = 0 THEN base ELSE St(i, g[i - 1])]
             S == {k \in Nat : \E g : Counts(g, k)}
  <1>1. 0 \in S
    <2>1. Counts([i \in 0 .. 0 |-> base], 0)
      OBVIOUS
    <2> QED
      BY <2>1
  <1>2. ASSUME NEW k \in S PROVE k + 1 \in S
    <2> HIDE DEF base, St
    <2>1. PICK g : Counts(g, k)
      OBVIOUS
    <2> DEFINE h == [i \in 0 .. k + 1 |-> IF i = k + 1 THEN St(i, g[k]) ELSE g[i]]
    <2>2. Counts(h, k + 1)
      <3>1. \A i \in 0 .. k + 1 : h[i] = IF i = 0 THEN base ELSE St(i, h[i - 1])
        BY <2>1
      <3> QED
        BY <3>1
    <2>3. k + 1 \in Nat
      OBVIOUS
    <2> HIDE DEF h, Counts
    <2> QED
      BY <2>2, <2>3
  <1>3. \E g : Counts(g, n)
    <2> HIDE DEF Counts
    <2>1. S = Nat
      BY <1>1, <1>2, Successors
    <2> QED
      BY <2>1
  <1>4. Counts(CountCoins(coins, plain, outValLen, page), n)
    BY <1>3 DEF CountCoins
  <1> HIDE DEF n, St, base
  <1>5. \A i \in 0 .. n :
            CountCoins(coins, plain, outValLen, page)[i]
                = IF i = 0 THEN base ELSE St(i, CountCoins(coins, plain, outValLen, page)[i - 1])
    BY <1>4, Zenon
  <1> QED
    BY <1>5 DEF n, St, base

----------------------------------------------------------------------------
(* The pages of a text                                                     *)

LEMMA Quotient ==
    ASSUME NEW x \in Nat, NEW a \in Nat \ {0}
    PROVE  /\ x \div a \in Nat
           /\ a * (x \div a) <= x /\ x < a * (x \div a) + a
  OBVIOUS

LEMMA QuotientBelow ==
    ASSUME NEW x \in Nat, NEW a \in Nat \ {0}, NEW q \in Nat, x < a * q + a
    PROVE  x \div a <= q
  <1>1. PICK r \in Nat : r = x \div a
    BY Quotient
  <1>2. a * r <= x
    BY <1>1, Quotient
  <1>3. SUFFICES ASSUME r >= q + 1 PROVE FALSE
    BY <1>1
  <1>4. a * r >= a * (q + 1)
    BY <1>3
  <1>5. a * (q + 1) = a * q + a
    OBVIOUS
  <1> QED
    BY <1>2, <1>4, <1>5

\* A longer buffer takes no more pages, and a text takes no more pages than it
\* has characters for.
LEMMA FewerPages ==
    ASSUME NEW s, Len(s) \in Nat, NEW v \in Nat, NEW w \in Nat, 1 < v, v <= w
    PROVE  /\ PagesOf(s, v) \in Nat /\ PagesOf(s, w) \in Nat
           /\ PagesOf(s, w) <= PagesOf(s, v)
           /\ Len(s) > 0 => PagesOf(s, w) > 0
           /\ \A m \in Nat : Len(s) <= m * (v - 1) => PagesOf(s, v) <= m
  <1>1. PICK n \in Nat, a \in Nat \ {0}, b \in Nat \ {0} : n = Len(s) /\ a = v - 1 /\ b = w - 1
    OBVIOUS
  <1>2. a <= b /\ PagesOf(s, v) = (n + a - 1) \div a /\ PagesOf(s, w) = (n + b - 1) \div b
    BY <1>1 DEF PagesOf
  <1>0. PICK x, y : x = n + a - 1 /\ y = n + b - 1
    OBVIOUS
  <1>3. x \in Nat /\ y \in Nat /\ x = n + a - 1 /\ y = n + b - 1
    BY <1>0
  <1>12. x \div a \in Nat /\ y \div b \in Nat
    BY <1>3, Quotient
  <1>4. PICK q \in Nat, r \in Nat : q = x \div a /\ r = y \div b
    BY <1>12
  <1>5. x < a * q + a /\ a * q <= x /\ b * r <= y /\ y < b * r + b
    BY <1>3, <1>4, Quotient
  <1>6. n <= a * q
    BY <1>3, <1>5
  <1>7. a * q <= b * q
    BY <1>2
  <1>8. y < b * q + b
    BY <1>3, <1>6, <1>7
  <1>9. r <= q
    BY <1>3, <1>4, <1>8, QuotientBelow
  <1>10. n > 0 => r > 0
    BY <1>3, <1>5
  <1>11. ASSUME NEW m \in Nat, n <= m * a PROVE q <= m
    BY <1>3, <1>4, <1>11, QuotientBelow
  <1> QED
    BY <1>1, <1>2, <1>3, <1>4, <1>9, <1>10, <1>11

----------------------------------------------------------------------------
(* The pages of a coin                                                     *)

LEMMA CoinErrors ==
    ASSUME NEW e, NEW plain, NEW v, NEW p, NEW w, NEW q
    PROVE  /\ parser_formatAmountItem(e, plain, v, p).err
                = parser_formatAmountItem(e, plain, w, q).err
           /\ parser_formatAmountItem(e, plain, v, p).pageCount
                = parser_formatAmountItem(e, plain, v, q).pageCount
  BY DEF parser_formatAmountItem, Page, Error

LEMMA CoinLength ==
    ASSUME NEW e \in AmountElement, NEW plain, Own(e) # {},
           parser_formatAmountItem(e, plain, MAX_TITLE_SIZE, 0).err = "parser_ok"
    PROVE  LET text == FormatCoin(e.tokens[2].text, e.tokens[4].text, plain) IN
           /\ text \in Seq(Chars \cup {" "})
           /\ 0 < Len(text) /\ Len(text) < FORMATTED_AMOUNT_BUFFER_SIZE
  <1> DEFINE amount == e.tokens[2].text
             denom == e.tokens[4].text
             U == Chars \cup {" "}
  <1>1. /\ Cardinality(Own(e)) = 4
        /\ ~(Len(denom) = 0 \/ Len(amount) = 0)
        /\ is_default_denom_base(denom, plain) => amount \in DOMAIN Decimal
        /\ ~(Len(amount) + Len(denom) + 2 > FORMATTED_AMOUNT_BUFFER_SIZE)
    BY DEF parser_formatAmountItem, Error, AMOUNT_OBJECT_TOKEN_COUNT
  <1>2. e.tokens \in Seq(InnerToken)
    BY DEF AmountElement
  <1>3. 4 <= Len(e.tokens)
    <2>1. PICK n \in Nat : n = Len(e.tokens)
      BY <1>2
    <2>2. Own(e) \subseteq 1 .. n
      BY <1>2, <2>1 DEF Own
    <2>3. IsFiniteSet(1 .. n) /\ Cardinality(1 .. n) = n
      BY FS_Interval
    <2>4. Cardinality(Own(e)) <= n
      BY <2>2, <2>3, FS_Subset
    <2> QED
      BY <1>1, <2>1, <2>4
  <1>4. amount \in Text /\ denom \in Text
    <2>1. e.tokens[2] \in InnerToken /\ e.tokens[4] \in InnerToken
      BY <1>2, <1>3
    <2> QED
      BY <2>1 DEF InnerToken
  <1>5. ASSUME NEW a \in Text, NEW b \in Text
        PROVE  a \o <<" ">> \o b \in Seq(U) /\ Len(a \o <<" ">> \o b) = Len(a) + 1 + Len(b)
    <2>1. a \in Seq(U) /\ b \in Seq(U)
      BY <1>5, SeqMonotonic DEF Text
    <2>2. PICK c : c = " "
      OBVIOUS
    <2>3. PICK blank : blank = <<c>>
      OBVIOUS
    <2>6. c \in U
      BY <2>2
    <2> HIDE DEF U
    <2>7. blank \in Seq(U) /\ Len(blank) = 1
      BY <2>3, <2>6
    <2>4. a \o blank \in Seq(U) /\ Len(a \o blank) = Len(a) + 1
      <3>1. a \o blank \in Seq(U) /\ Len(a \o blank) = Len(a) + Len(blank)
        BY <2>1, <2>7, ConcatProperties
      <3> QED
        BY <2>7, <3>1
    <2>5. a \o blank \o b \in Seq(U) /\ Len(a \o blank \o b) = Len(a \o blank) + Len(b)
      BY <2>1, <2>4, ConcatProperties
    <2> QED
      BY <2>2, <2>3, <2>4, <2>5
  <1>6. Len(amount) \in Nat /\ Len(denom) \in Nat
    BY <1>4, SMTT(60) DEF Text
  <1>7. CASE is_default_denom_base(denom, plain)
    <2>1. /\ Decimal[amount] \in Text /\ Ticker \in Text
          /\ Len(Decimal[amount]) + Len(Ticker) + 1 < FORMATTED_AMOUNT_BUFFER_SIZE
      BY <1>1, <1>7, DecimalAssumption
    <2>2. Len(Decimal[amount]) \in Nat /\ Len(Ticker) \in Nat
      BY <2>1 DEF Text
    <2>3. FormatCoin(amount, denom, plain) = Decimal[amount] \o <<" ">> \o Ticker
      BY <1>7 DEF FormatCoin
    <2> HIDE DEF amount, denom
    <2>4. /\ FormatCoin(amount, denom, plain) \in Seq(U)
          /\ Len(FormatCoin(amount, denom, plain)) = Len(Decimal[amount]) + 1 + Len(Ticker)
      BY <2>1, <2>3, <1>5
    <2>5. FORMATTED_AMOUNT_BUFFER_SIZE \in Nat
      BY SizeAssumption
    <2>6. PICK n \in Nat, m \in Nat : n = Len(Decimal[amount]) /\ m = Len(Ticker)
      BY <2>2
    <2>7. n + m + 1 < FORMATTED_AMOUNT_BUFFER_SIZE /\ Len(FormatCoin(amount, denom, plain)) = n + 1 + m
      BY <2>1, <2>4, <2>6
    <2>8. 0 < n + 1 + m /\ n + 1 + m < FORMATTED_AMOUNT_BUFFER_SIZE
      BY <2>5, <2>7
    <2> QED
      BY <2>4, <2>7, <2>8 DEF amount, denom
  <1>8. CASE ~is_default_denom_base(denom, plain)
    <2>1. FormatCoin(amount, denom, plain) = amount \o <<" ">> \o denom
      BY <1>8 DEF FormatCoin
    <2> HIDE DEF amount, denom
    <2>2. /\ FormatCoin(amount, denom, plain) \in Seq(U)
          /\ Len(FormatCoin(amount, denom, plain)) = Len(amount) + 1 + Len(denom)
      BY <1>4, <2>1, <1>5
    <2>3. FORMATTED_AMOUNT_BUFFER_SIZE \in Nat
      BY SizeAssumption
    <2>4. PICK n \in Nat, m \in Nat : n = Len(amount) /\ m = Len(denom)
      BY <1>6
    <2>5. ~(n + m + 2 > FORMATTED_AMOUNT_BUFFER_SIZE) /\ Len(FormatCoin(amount, denom, plain)) = n + 1 + m
      BY <1>1, <2>2, <2>4
    <2>6. 0 < n + 1 + m /\ n + 1 + m < FORMATTED_AMOUNT_BUFFER_SIZE
      BY <2>3, <2>5
    <2> QED
      BY <2>2, <2>5, <2>6 DEF amount, denom
  <1> QED
    BY <1>7, <1>8

\* A coin takes no more pages in a longer buffer.
LEMMA CoinPages ==
    ASSUME NEW e \in AmountElement, NEW plain, NEW v \in Nat, v >= MAX_TITLE_SIZE,
           parser_formatAmountItem(e, plain, MAX_TITLE_SIZE, 0).err = "parser_ok"
    PROVE  LET less == parser_formatAmountItem(e, plain, v, 0).pageCount
               more == parser_formatAmountItem(e, plain, MAX_TITLE_SIZE, 0).pageCount
           IN  less \in Nat /\ more \in Nat /\ less <= more /\ more <= UINT8_MAX
  <1>0. /\ UINT8_MAX \in Nat /\ MAX_TITLE_SIZE \in Nat /\ 1 < MAX_TITLE_SIZE
        /\ FORMATTED_AMOUNT_BUFFER_SIZE \in Nat
        /\ FORMATTED_AMOUNT_BUFFER_SIZE <= UINT8_MAX * (MAX_TITLE_SIZE - 1)
    BY SizeAssumption
  <1>1. UINT8_MAX > 0
    BY SizeAssumption
  <1>2. CASE Own(e) = {}
    <2>1. /\ parser_formatAmountItem(e, plain, v, 0) = Page(<<>>, <<"Empty">>, 1)
          /\ parser_formatAmountItem(e, plain, MAX_TITLE_SIZE, 0) = Page(<<>>, <<"Empty">>, 1)
      BY <1>2 DEF parser_formatAmountItem
    <2> QED
      BY <1>0, <1>1, <2>1 DEF Page
  <1>3. CASE Own(e) # {}
    <2>1. PICK text : text = FormatCoin(e.tokens[2].text, e.tokens[4].text, plain)
      OBVIOUS
    <2>2. Len(text) \in Nat /\ Len(text) < FORMATTED_AMOUNT_BUFFER_SIZE
      <3>1. text \in Seq(Chars \cup {" "}) /\ Len(text) < FORMATTED_AMOUNT_BUFFER_SIZE
        BY <1>3, <2>1, CoinLength
      <3> QED
        BY <3>1, LenProperties
    <2>3. /\ parser_formatAmountItem(e, plain, v, 0).pageCount = uint8(PagesOf(text, v))
          /\ parser_formatAmountItem(e, plain, MAX_TITLE_SIZE, 0).pageCount
                = uint8(PagesOf(text, MAX_TITLE_SIZE))
      BY <1>3, <2>1 DEF parser_formatAmountItem, Page, Error
    <2>4. Len(text) <= UINT8_MAX * (MAX_TITLE_SIZE - 1)
      <3>1. PICK bound : bound = UINT8_MAX * (MAX_TITLE_SIZE - 1)
        OBVIOUS
      <3>2. bound \in Int
        BY <1>0, <3>1
      <3>3. Len(text) <= bound
        BY <1>0, <2>2, <3>1, <3>2
      <3> QED
        BY <3>1, <3>3
    <2>5. /\ PagesOf(text, MAX_TITLE_SIZE) \in Nat /\ PagesOf(text, v) \in Nat
          /\ PagesOf(text, v) <= PagesOf(text, MAX_TITLE_SIZE)
          /\ PagesOf(text, MAX_TITLE_SIZE) <= UINT8_MAX
      BY <1>0, <2>2, <2>4, FewerPages
    <2>6. ASSUME NEW n \in Nat, n <= UINT8_MAX PROVE uint8(n) = n
      BY <1>0, <2>6 DEF uint8
    <2>7. PICK less \in Nat, more \in Nat :
            less = PagesOf(text, v) /\ more = PagesOf(text, MAX_TITLE_SIZE)
      BY <2>5
    <2>8. less <= more /\ more <= UINT8_MAX /\ uint8(less) = less /\ uint8(more) = more
      BY <1>0, <2>5, <2>6, <2>7
    <2> QED
      BY <2>3, <2>7, <2>8
  <1> QED
    BY <1>2, <1>3

----------------------------------------------------------------------------
(* The loop over the coins                                                 *)

\* What the loop has counted after k coins, when page p is asked for: the coin
\* and the page of it are known as soon as the pages so far reach p.
Loops == [err : {"parser_ok"}, totalPages : Nat, showItem : Nat, showPageIdx : Nat]
LoopOK(loop, k, p, most) ==
    /\ loop \in Loops /\ loop.err = "parser_ok" /\ loop.totalPages <= most
    /\ loop.showItem = 0 => loop.totalPages + loop.showPageIdx = p
    /\ loop.showItem # 0 => loop.showItem <= k /\ p < loop.totalPages

NothingCounted(p) == [err |-> "parser_ok", totalPages |-> 0, showItem |-> 0, showPageIdx |-> p]

LEMMA LoopStarts ==
    ASSUME NEW p \in Nat
    PROVE  LoopOK(NothingCounted(p), 0, p, 0) /\ NothingCounted(p).totalPages = 0
  <1>1. PICK loop : loop = NothingCounted(p)
    OBVIOUS
  <1>2. loop \in Loops /\ loop.err = "parser_ok"
    <2>1. ASSUME NEW z \in Nat
          PROVE  [err |-> "parser_ok", totalPages |-> z, showItem |-> z, showPageIdx |-> p] \in Loops
      BY DEF Loops
    <2>2. 0 \in Nat
      OBVIOUS
    <2>3. NothingCounted(p) \in Loops
      BY <2>1, <2>2, Zenon DEF NothingCounted
    <2> QED
      BY <1>1, <2>3 DEF NothingCounted
  <1>3. loop.totalPages = 0 /\ loop.showItem = 0 /\ loop.showPageIdx = p
    BY <1>1 DEF NothingCounted
  <1>4. loop.totalPages <= 0 /\ loop.totalPages + loop.showPageIdx = p
    BY <1>3
  <1> QED
    BY <1>1, <1>2, <1>3, <1>4 DEF LoopOK

FirstPage(e, plain, v) == parser_formatAmountItem(e, plain, v, 0)

\* A pass finds the coin it is at or leaves what was found before.
Finds(loop, new, i, subpagesCount) ==
    /\ loop.showItem # 0 =>
        new.showItem = loop.showItem /\ new.showPageIdx = loop.showPageIdx
    /\ loop.showItem = 0 /\ new.showItem # 0 =>
        /\ new.showItem = i /\ new.showPageIdx = loop.showPageIdx
        /\ loop.showPageIdx < subpagesCount

LEMMA LoopStep ==
    ASSUME NEW e \in AmountElement, NEW plain, NEW v \in Nat, v >= MAX_TITLE_SIZE,
           FirstPage(e, plain, MAX_TITLE_SIZE).err = "parser_ok",
           NEW k \in Nat, NEW p \in Nat, NEW most \in Nat, NEW loop, LoopOK(loop, k, p, most),
           most + FirstPage(e, plain, MAX_TITLE_SIZE).pageCount <= UINT8_MAX
    PROVE  LET new == CountCoin(e, k + 1, plain, v, loop) IN
           /\ LoopOK(new, k + 1, p, most + FirstPage(e, plain, MAX_TITLE_SIZE).pageCount)
           /\ new.totalPages = loop.totalPages + FirstPage(e, plain, v).pageCount
           /\ Finds(loop, new, k + 1, FirstPage(e, plain, v).pageCount)
  <1>1. PICK item : item = FirstPage(e, plain, v)
    OBVIOUS
  <1>2. item.err = "parser_ok"
    BY <1>1, CoinErrors DEF FirstPage
  <1>3. PICK less \in Nat, more \in Nat :
          /\ less = item.pageCount /\ more = FirstPage(e, plain, MAX_TITLE_SIZE).pageCount
          /\ less <= more
    BY <1>1, CoinPages DEF FirstPage
  <1>4. UINT8_MAX \in Nat
    BY SizeAssumption
  <1>5. PICK t \in Nat, i \in Nat, q \in Nat :
          t = loop.totalPages /\ i = loop.showItem /\ q = loop.showPageIdx
    BY DEF LoopOK, Loops
  <1>6. loop = [err |-> "parser_ok", totalPages |-> t, showItem |-> i, showPageIdx |-> q]
    BY <1>5 DEF LoopOK, Loops
  <1>7. ~(t > UINT8_MAX - less) /\ t <= most
    BY <1>3, <1>4, <1>5 DEF LoopOK
  <1>8. CountCoin(e, k + 1, plain, v, loop)
          = IF i = 0 /\ q < less
            THEN [loop EXCEPT !.totalPages = t + less, !.showItem = k + 1]
            ELSE [loop EXCEPT !.totalPages = t + less, !.showPageIdx = IF i = 0 THEN q - less ELSE q]
    <2>1. loop.err = "parser_ok" /\ ~(loop.totalPages > UINT8_MAX - less)
      BY <1>5, <1>7 DEF LoopOK
    <2>2. CountCoin(e, k + 1, plain, v, loop)
          = IF loop.showItem = 0 /\ loop.showPageIdx < less
            THEN [loop EXCEPT !.totalPages = loop.totalPages + less, !.showItem = k + 1]
            ELSE [loop EXCEPT !.totalPages = loop.totalPages + less,
                    !.showPageIdx = IF loop.showItem = 0 THEN loop.showPageIdx - less
                                    ELSE loop.showPageIdx]
      BY <1>1, <1>2, <1>3, <2>1 DEF CountCoin, FirstPage
    <2> QED
      BY <1>5, <2>2
  <1>9. /\ i = 0 => t + q = p
        /\ i # 0 => i <= k /\ p < t
    BY <1>5 DEF LoopOK
  <1>10. CASE i = 0 /\ q < less
    <2>1. CountCoin(e, k + 1, plain, v, loop)
            = [err |-> "parser_ok", totalPages |-> t + less, showItem |-> k + 1, showPageIdx |-> q]
      BY <1>6, <1>8, <1>10
    <2> QED
      BY <1>1, <1>3, <1>5, <1>7, <1>9, <1>10, <2>1 DEF LoopOK, Loops, Finds
  <1>11. CASE i = 0 /\ ~(q < less)
    <2>1. q - less \in Nat
      BY <1>11
    <2>2. CountCoin(e, k + 1, plain, v, loop)
            = [err |-> "parser_ok", totalPages |-> t + less, showItem |-> i, showPageIdx |-> q - less]
      BY <1>6, <1>8, <1>11
    <2> QED
      BY <1>1, <1>3, <1>5, <1>7, <1>9, <1>11, <2>1, <2>2 DEF LoopOK, Loops, Finds
  <1>12. CASE i # 0
    <2>1. CountCoin(e, k + 1, plain, v, loop)
            = [err |-> "parser_ok", totalPages |-> t + less, showItem |-> i, showPageIdx |-> q]
      BY <1>6, <1>8, <1>12
    <2> QED
      BY <1>1, <1>3, <1>5, <1>7, <1>9, <1>12, <2>1 DEF LoopOK, Loops, Finds
  <1> QED
    BY <1>10, <1>11, <1>12

\* One pass, whichever page was asked for.
LEMMA LoopSteps ==
    ASSUME NEW e \in AmountElement, NEW plain, NEW v \in Nat, v >= MAX_TITLE_SIZE,
           FirstPage(e, plain, MAX_TITLE_SIZE).err = "parser_ok",
           NEW k \in Nat, NEW most \in Nat, NEW add,
           add = FirstPage(e, plain, MAX_TITLE_SIZE).pageCount,
           most + FirstPage(e, plain, MAX_TITLE_SIZE).pageCount <= UINT8_MAX
    PROVE  \A p \in Nat : \A loop : LoopOK(loop, k, p, most) =>
             /\ LoopOK(CountCoin(e, k + 1, plain, v, loop), k + 1, p, most + add)
             /\ CountCoin(e, k + 1, plain, v, loop).totalPages
                    = loop.totalPages + FirstPage(e, plain, v).pageCount
             /\ Finds(loop, CountCoin(e, k + 1, plain, v, loop), k + 1,
                      FirstPage(e, plain, v).pageCount)
  BY LoopStep

\* An error stops the loop.
LEMMA LoopStops ==
    ASSUME NEW e, NEW i, NEW plain, NEW v, NEW loop,
           CountCoin(e, i, plain, v, loop).err = "parser_ok"
    PROVE  loop.err = "parser_ok"
  BY DEF CountCoin

LEMMA LoopGoesOn ==
    ASSUME NEW e, NEW i, NEW plain, NEW v, NEW loop \in Loops,
           CountCoin(e, i, plain, v, loop).err = "parser_ok"
    PROVE  /\ FirstPage(e, plain, v).err = "parser_ok"
           /\ ~(loop.totalPages > UINT8_MAX - FirstPage(e, plain, v).pageCount)
  <1>1. loop.err = "parser_ok"
    BY LoopStops
  <1>2. loop = [err |-> loop.err, totalPages |-> loop.totalPages, showItem |-> loop.showItem,
                showPageIdx |-> loop.showPageIdx]
    BY DEF Loops
  <1> QED
    BY <1>1, <1>2 DEF CountCoin, FirstPage

\* A list of coins that parser_validate accepted, with the pages a byte counts.
LEMMA ValidatedLoop ==
    ASSUME NEW coins \in Seq(AmountElement), NEW plain,
           CountCoins(coins, plain, MAX_TITLE_SIZE, 0)[Len(coins)].err = "parser_ok"
    PROVE  LET count == CountCoins(coins, plain, MAX_TITLE_SIZE, 0) IN
           /\ \A k \in 0 .. Len(coins) :
                LoopOK(count[k], k, 0, count[k].totalPages) /\ count[k].totalPages <= UINT8_MAX
           /\ \A k \in 1 .. Len(coins) :
                /\ FirstPage(coins[k], plain, MAX_TITLE_SIZE).err = "parser_ok"
                /\ count[k].totalPages
                    = count[k - 1].totalPages + FirstPage(coins[k], plain, MAX_TITLE_SIZE).pageCount
  <1>0. PICK n \in Nat : n = Len(coins)
    OBVIOUS
  <1>1. PICK count : count = CountCoins(coins, plain, MAX_TITLE_SIZE, 0)
    OBVIOUS
  <1>2. /\ count[0] = [err |-> "parser_ok", totalPages |-> 0, showItem |-> 0, showPageIdx |-> 0]
        /\ \A i \in 1 .. n : count[i] = CountCoin(coins[i], i, plain, MAX_TITLE_SIZE, count[i - 1])
    BY <1>0, <1>1, CoinsCounted
  <1>3. UINT8_MAX \in Nat /\ MAX_TITLE_SIZE \in Nat /\ MAX_TITLE_SIZE >= MAX_TITLE_SIZE
    BY SizeAssumption
  <1>4. \A k \in Nat : k <= n => count[n - k].err = "parser_ok"
    <2> DEFINE S == {k \in Nat : k <= n => count[n - k].err = "parser_ok"}
    <2>1. 0 \in S
      BY <1>0, <1>1
    <2>2. ASSUME NEW k \in S PROVE k + 1 \in S
      <3>1. CASE k + 1 <= n
        <4>1. PICK i : i = n - k
          OBVIOUS
        <4>2. i \in 1 .. n /\ i - 1 = n - (k + 1)
          BY <3>1, <4>1
        <4>3. CountCoin(coins[i], i, plain, MAX_TITLE_SIZE, count[i - 1]).err = "parser_ok"
          BY <1>2, <3>1, <4>1, <4>2
        <4>4. count[i - 1].err = "parser_ok"
          BY <4>3, LoopStops
        <4> QED
          BY <4>2, <4>4
      <3> QED
        BY <3>1
    <2> HIDE DEF S
    <2>3. S = Nat
      BY <2>1, <2>2, Successors DEF S
    <2> QED
      BY <2>3 DEF S
  <1>5. \A k \in 0 .. n : count[k].err = "parser_ok"
    <2> TAKE k \in 0 .. n
    <2>1. PICK j : j = n - k
      OBVIOUS
    <2>2. j \in Nat /\ j <= n /\ n - j = k
      BY <2>1
    <2> QED
      BY <1>4, <2>2
  <1> DEFINE OK(k) == LoopOK(count[k], k, 0, count[k].totalPages) /\ count[k].totalPages <= UINT8_MAX
  <1>6. ASSUME NEW k \in 0 .. n - 1, OK(k)
        PROVE  /\ OK(k + 1)
               /\ FirstPage(coins[k + 1], plain, MAX_TITLE_SIZE).err = "parser_ok"
               /\ count[k + 1].totalPages
                    = count[k].totalPages + FirstPage(coins[k + 1], plain, MAX_TITLE_SIZE).pageCount
    <2>1. k \in Nat /\ k + 1 \in 1 .. n /\ (k + 1) - 1 = k
      OBVIOUS
    <2>2. PICK e : e = coins[k + 1]
      OBVIOUS
    <2>3. e \in AmountElement
      BY <1>0, <2>1, <2>2
    <2>4. count[k + 1] = CountCoin(e, k + 1, plain, MAX_TITLE_SIZE, count[k])
      BY <1>2, <2>1, <2>2
    <2>5. count[k + 1].err = "parser_ok" /\ count[k] \in Loops
      BY <1>5, <1>6, <2>1 DEF LoopOK
    <2>6. /\ FirstPage(e, plain, MAX_TITLE_SIZE).err = "parser_ok"
          /\ ~(count[k].totalPages > UINT8_MAX - FirstPage(e, plain, MAX_TITLE_SIZE).pageCount)
      BY <2>4, <2>5, LoopGoesOn
    <2>7. PICK most \in Nat : most = count[k].totalPages
      BY <2>5 DEF Loops
    <2>8. PICK more \in Nat : more = FirstPage(e, plain, MAX_TITLE_SIZE).pageCount
      BY <1>3, <2>3, <2>6, CoinPages DEF FirstPage
    <2>9. most + more <= UINT8_MAX
      BY <1>3, <2>6, <2>7, <2>8
    <2>10. LoopOK(count[k], k, 0, most)
      BY <1>6, <2>7
    <2>11. /\ LoopOK(count[k + 1], k + 1, 0, most + more)
           /\ count[k + 1].totalPages = most + more
      BY <1>3, <2>1, <2>3, <2>4, <2>6, <2>7, <2>8, <2>9, <2>10, LoopStep, SMTT(60)
    <2> QED
      BY <2>2, <2>6, <2>7, <2>8, <2>9, <2>11
  <1>7. \A k \in 0 .. n : OK(k)
    <2> DEFINE S == {k \in Nat : k <= n => OK(k)}
    <2>1. 0 \in S
      <3>1. OK(0)
        <4>1. count[0] = NothingCounted(0)
          BY <1>2 DEF NothingCounted
        <4> QED
          BY <1>3, <4>1, LoopStarts
      <3> QED
        BY <3>1
    <2>2. ASSUME NEW k \in S PROVE k + 1 \in S
      <3> HIDE DEF OK
      <3>1. CASE k + 1 <= n
        BY <1>6, <3>1
      <3> QED
        BY <3>1
    <2> HIDE DEF S
    <2>3. S = Nat
      BY <2>1, <2>2, Successors DEF S
    <2> HIDE DEF OK
    <2> QED
      BY <2>3 DEF S
  <1>8. ASSUME NEW k \in 1 .. n
        PROVE  /\ FirstPage(coins[k], plain, MAX_TITLE_SIZE).err = "parser_ok"
               /\ count[k].totalPages
                    = count[k - 1].totalPages + FirstPage(coins[k], plain, MAX_TITLE_SIZE).pageCount
    <2> HIDE DEF OK
    <2>1. PICK j : j = k - 1
      OBVIOUS
    <2>2. j \in 0 .. n - 1 /\ j + 1 = k /\ OK(j)
      BY <1>7, <2>1
    <2> QED
      BY <1>6, <2>1, <2>2
  <1> QED
    BY <1>0, <1>1, <1>7, <1>8

\* The page asked for, counted from the coin that has it.
Found(loop, p, count, coins, plain, v) ==
    loop.showItem # 0 =>
        /\ count[loop.showItem - 1].totalPages + loop.showPageIdx = p
        /\ loop.showPageIdx < FirstPage(coins[loop.showItem], plain, v).pageCount
Adds(count, k, coins, plain, v) ==
    k > 0 => count[k].totalPages
                = count[k - 1].totalPages + FirstPage(coins[k], plain, v).pageCount

\* The same list in the review, in longer buffers and for any page.
LEMMA ReviewedLoop ==
    ASSUME NEW coins \in Seq(AmountElement), NEW plain,
           CountCoins(coins, plain, MAX_TITLE_SIZE, 0)[Len(coins)].err = "parser_ok",
           NEW v \in Nat, v >= MAX_TITLE_SIZE, NEW p \in Nat
    PROVE  LET most == CountCoins(coins, plain, MAX_TITLE_SIZE, 0)
               count == CountCoins(coins, plain, v, p)
               first == CountCoins(coins, plain, v, 0)
           IN  \A k \in 0 .. Len(coins) :
                /\ LoopOK(count[k], k, p, most[k].totalPages)
                /\ count[k].totalPages = first[k].totalPages
                /\ Found(count[k], p, first, coins, plain, v)
                /\ Adds(first, k, coins, plain, v)
  <1>0. PICK n \in Nat : n = Len(coins)
    OBVIOUS
  <1>1. PICK max, count, first :
          /\ max = CountCoins(coins, plain, MAX_TITLE_SIZE, 0)
          /\ count = CountCoins(coins, plain, v, p)
          /\ first = CountCoins(coins, plain, v, 0)
    OBVIOUS
  <1>2. /\ max[0] = [err |-> "parser_ok", totalPages |-> 0, showItem |-> 0, showPageIdx |-> 0]
        /\ count[0] = [err |-> "parser_ok", totalPages |-> 0, showItem |-> 0, showPageIdx |-> p]
        /\ first[0] = [err |-> "parser_ok", totalPages |-> 0, showItem |-> 0, showPageIdx |-> 0]
        /\ \A i \in 1 .. n : count[i] = CountCoin(coins[i], i, plain, v, count[i - 1])
        /\ \A i \in 1 .. n : first[i] = CountCoin(coins[i], i, plain, v, first[i - 1])
    BY <1>0, <1>1, CoinsCounted
  <1>3. /\ \A k \in 0 .. n : max[k].totalPages \in Nat /\ max[k].totalPages <= UINT8_MAX
        /\ \A k \in 1 .. n :
             /\ FirstPage(coins[k], plain, MAX_TITLE_SIZE).err = "parser_ok"
             /\ max[k].totalPages
                    = max[k - 1].totalPages + FirstPage(coins[k], plain, MAX_TITLE_SIZE).pageCount
    BY <1>0, <1>1, ValidatedLoop, ZenonT(60) DEF LoopOK, Loops
  <1> DEFINE OK(k) == /\ LoopOK(count[k], k, p, max[k].totalPages)
                      /\ LoopOK(first[k], k, 0, max[k].totalPages)
                      /\ count[k].totalPages = first[k].totalPages
                      /\ Found(count[k], p, first, coins, plain, v)
                      /\ Adds(first, k, coins, plain, v)
             S == {k \in Nat : k <= n => OK(k)}
  <1>4. 0 \in S
    <2>1. OK(0)
      <3>1. max[0] = NothingCounted(0) /\ count[0] = NothingCounted(p) /\ first[0] = NothingCounted(0)
        BY <1>2 DEF NothingCounted
      <3>2. Found(count[0], p, first, coins, plain, v) /\ Adds(first, 0, coins, plain, v)
        BY <1>2 DEF Found, Adds
      <3> QED
        BY <3>1, <3>2, LoopStarts
    <2> QED
      BY <2>1
  <1>5. ASSUME NEW k \in S PROVE k + 1 \in S
    <2>1. CASE k + 1 <= n
      <3>1. k \in Nat /\ k \in 0 .. n /\ k + 1 \in 1 .. n /\ (k + 1) - 1 = k /\ OK(k)
        BY <2>1
      <3>2. PICK e : e = coins[k + 1]
        OBVIOUS
      <3>3. e \in AmountElement
        BY <1>0, <3>1, <3>2
      <3>4. /\ count[k + 1] = CountCoin(e, k + 1, plain, v, count[k])
            /\ first[k + 1] = CountCoin(e, k + 1, plain, v, first[k])
        BY <1>2, <3>1, <3>2
      <3>5. PICK most \in Nat : most = max[k].totalPages
        BY <1>3, <3>1
      <3>6. FirstPage(e, plain, MAX_TITLE_SIZE).err = "parser_ok"
        BY <1>3, <3>1, <3>2
      <3>7. /\ max[k + 1].totalPages = most + FirstPage(e, plain, MAX_TITLE_SIZE).pageCount
            /\ most + FirstPage(e, plain, MAX_TITLE_SIZE).pageCount <= UINT8_MAX
        BY <1>3, <3>1, <3>2, <3>5
      <3>8. /\ LoopOK(count[k], k, p, most) /\ LoopOK(first[k], k, 0, most)
            /\ count[k].totalPages = first[k].totalPages
        BY <3>1, <3>5
      <3>11. PICK add : add = FirstPage(e, plain, MAX_TITLE_SIZE).pageCount
        OBVIOUS
      <3>12. most + add <= UINT8_MAX /\ max[k + 1].totalPages = most + add
        BY <3>7, <3>11
      <3>9. \A q \in Nat : \A loop : LoopOK(loop, k, q, most) =>
              /\ LoopOK(CountCoin(e, k + 1, plain, v, loop), k + 1, q, most + add)
              /\ CountCoin(e, k + 1, plain, v, loop).totalPages
                    = loop.totalPages + FirstPage(e, plain, v).pageCount
              /\ Finds(loop, CountCoin(e, k + 1, plain, v, loop), k + 1,
                       FirstPage(e, plain, v).pageCount)
        <4> HIDE DEF S
        <4>1. k \in Nat
          BY <3>1
        <4> QED
          BY <3>3, <3>6, <3>7, <3>11, <4>1, LoopSteps
      <3>10. /\ LoopOK(count[k + 1], k + 1, p, most + add)
             /\ LoopOK(first[k + 1], k + 1, 0, most + add)
             /\ count[k + 1].totalPages = count[k].totalPages + FirstPage(e, plain, v).pageCount
             /\ first[k + 1].totalPages = first[k].totalPages + FirstPage(e, plain, v).pageCount
             /\ Finds(count[k], count[k + 1], k + 1, FirstPage(e, plain, v).pageCount)
        <4>1. LoopOK(count[k], k, p, most) /\ LoopOK(first[k], k, 0, most)
          BY <3>8
        <4>2. 0 \in Nat
          OBVIOUS
        <4> HIDE DEF S
        <4> QED
          BY <3>4, <3>9, <4>1, <4>2
      <3>13. Adds(first, k + 1, coins, plain, v)
        <4> HIDE DEF S
        <4> QED
          BY <3>1, <3>2, <3>10 DEF Adds
      <3>14. Found(count[k + 1], p, first, coins, plain, v)
        <4> HIDE DEF S
        <4>1. CASE count[k].showItem # 0
          <5>1. /\ count[k + 1].showItem = count[k].showItem
                /\ count[k + 1].showPageIdx = count[k].showPageIdx
            BY <3>10, <4>1 DEF Finds
          <5>2. Found(count[k], p, first, coins, plain, v)
            BY <3>1
          <5> QED
            BY <5>1, <5>2 DEF Found
        <4>2. CASE count[k].showItem = 0 /\ count[k + 1].showItem # 0
          <5>1. /\ count[k + 1].showItem = k + 1
                /\ count[k + 1].showPageIdx = count[k].showPageIdx
                /\ count[k].showPageIdx < FirstPage(e, plain, v).pageCount
            BY <3>10, <4>2 DEF Finds
          <5>2. first[k].totalPages + count[k].showPageIdx = p
            BY <3>8, <4>2 DEF LoopOK
          <5> QED
            BY <3>1, <3>2, <5>1, <5>2 DEF Found
        <4>3. CASE count[k + 1].showItem = 0
          BY <4>3 DEF Found
        <4> QED
          BY <4>1, <4>2, <4>3
      <3> QED
        BY <3>8, <3>10, <3>12, <3>13, <3>14
    <2> HIDE DEF OK
    <2> QED
      BY <2>1
  <1>6. \A k \in 0 .. n : OK(k)
    <2> HIDE DEF OK, S
    <2>1. S = Nat
      BY <1>4, <1>5, Successors DEF S
    <2> QED
      BY <2>1 DEF S
  <1> QED
    BY <1>0, <1>1, <1>6

----------------------------------------------------------------------------
(* Amounts and texts                                                       *)

IsPage(x) == x = [err |-> x.err, key |-> x.key, val |-> x.val, pageCount |-> x.pageCount]

LEMMA CoinIsPage ==
    ASSUME NEW e, NEW plain, NEW v, NEW p
    PROVE  IsPage(parser_formatAmountItem(e, plain, v, p))
  BY DEF parser_formatAmountItem, Page, Error, IsPage

LEMMA AmountIsPage ==
    ASSUME NEW value, NEW plain, NEW v, NEW p
    PROVE  IsPage(parser_formatAmount(value, plain, v, p))
  <1>1. ASSUME NEW x, IsPage(x), NEW n PROVE IsPage([x EXCEPT !.pageCount = n])
    BY <1>1 DEF IsPage
  <1>2. ASSUME NEW n, NEW e PROVE IsPage(Error(e)) /\ IsPage(Page(<<>>, <<"Empty">>, n))
    BY DEF IsPage, Error, Page
  <1> QED
    BY <1>1, <1>2, CoinIsPage, SMTT(60) DEF parser_formatAmount

\* The page of an amount, case by case.
LEMMA AmountCases ==
    ASSUME NEW value \in AmountValue, NEW plain, NEW v, NEW p \in Nat,
           NEW loop, loop = CountCoins(value.elements, plain, v, p)[Len(value.elements)],
           NEW t \in Nat, t = loop.totalPages
    PROVE  LET amount == parser_formatAmount(value, plain, v, p)
               e == value.elements[loop.showItem]
           IN  /\ value.array /\ loop.err # "parser_ok" => amount.err # "parser_ok"
               /\ value.array /\ loop.err = "parser_ok" /\ p = 0 /\ t = 0 =>
                    amount = Page(<<>>, <<"Empty">>, 1)
               /\ /\ value.array /\ loop.err = "parser_ok" /\ p < t /\ loop.showItem # 0
                  /\ parser_formatAmountItem(e, plain, v, loop.showPageIdx).err = "parser_ok"
                  => /\ amount.err = "parser_ok" /\ amount.pageCount = t
                     /\ amount.val
                            = parser_formatAmountItem(e, plain, v, loop.showPageIdx).val
  <1>1. PICK shown : shown = parser_formatAmountItem(value.elements[loop.showItem], plain, v,
                                                     loop.showPageIdx)
    OBVIOUS
  <1>2. IsPage(shown)
    BY <1>1, CoinIsPage
  <1>3. ASSUME value.array, loop.err # "parser_ok"
        PROVE  parser_formatAmount(value, plain, v, p).err # "parser_ok"
    BY <1>3 DEF parser_formatAmount, Error
  <1>4. ASSUME value.array, loop.err = "parser_ok", p = 0, t = 0
        PROVE  parser_formatAmount(value, plain, v, p) = Page(<<>>, <<"Empty">>, 1)
    <2>1. ~(p > t)
      BY <1>4
    <2> QED
      BY <1>4, <2>1 DEF parser_formatAmount
  <1>5. ASSUME value.array, loop.err = "parser_ok", p < t, loop.showItem # 0, shown.err = "parser_ok"
        PROVE  /\ parser_formatAmount(value, plain, v, p).err = "parser_ok"
               /\ parser_formatAmount(value, plain, v, p).pageCount = t
               /\ parser_formatAmount(value, plain, v, p).val = shown.val
    <2>1. ~(p > t) /\ t # 0
      BY <1>5, SMTT(60)
    <2>2. parser_formatAmount(value, plain, v, p) = [shown EXCEPT !.pageCount = t]
      BY <1>1, <1>5, <2>1 DEF parser_formatAmount
    <2> QED
      BY <1>2, <1>5, <2>2 DEF IsPage
  <1> QED
    BY <1>1, <1>3, <1>4, <1>5

\* An amount that parser_validate accepted can be had on every page it takes.
LEMMA AmountShown ==
    ASSUME NEW value \in AmountValue, NEW plain,
           parser_formatAmount(value, plain, MAX_TITLE_SIZE, 0).err = "parser_ok",
           NEW v \in Nat, v >= MAX_TITLE_SIZE, NEW p \in Nat,
           p = 0 \/ p < parser_formatAmount(value, plain, v, 0).pageCount
    PROVE  /\ parser_formatAmount(value, plain, v, p).err = "parser_ok"
           /\ parser_formatAmount(value, plain, v, p).pageCount
                = parser_formatAmount(value, plain, v, 0).pageCount
           /\ parser_formatAmount(value, plain, v, 0).pageCount \in Nat
  <1>1. CASE ~value.array
    <2>1. \A w, q : parser_formatAmount(value, plain, w, q)
                        = parser_formatAmountItem(value.elements[1], plain, w, q)
      BY <1>1 DEF parser_formatAmount
    <2>2. /\ parser_formatAmountItem(value.elements[1], plain, v, p).err
                = parser_formatAmountItem(value.elements[1], plain, MAX_TITLE_SIZE, 0).err
          /\ parser_formatAmountItem(value.elements[1], plain, v, p).pageCount
                = parser_formatAmountItem(value.elements[1], plain, v, 0).pageCount
      BY CoinErrors
    <2>3. PICK coins : coins = value.elements
      OBVIOUS
    <2>4. coins \in [1 .. 1 -> AmountElement]
      BY <1>1, <2>3 DEF AmountValue
    <2>5. value.elements[1] \in AmountElement
      BY <2>3, <2>4
    <2>6. parser_formatAmountItem(value.elements[1], plain, MAX_TITLE_SIZE, 0).err = "parser_ok"
      BY <2>1
    <2>7. parser_formatAmountItem(value.elements[1], plain, v, 0).pageCount \in Nat
      BY <2>5, <2>6, CoinPages
    <2> QED
      BY <2>1, <2>2, <2>7
  <1>2. CASE value.array
    <2>1. PICK coins : coins = value.elements
      OBVIOUS
    <2>2. coins \in Seq(AmountElement)
      BY <1>2, <2>1 DEF AmountValue
    <2>3. PICK n \in Nat : n = Len(coins)
      BY <2>2
    <2>4. CountCoins(coins, plain, MAX_TITLE_SIZE, 0)[n].err = "parser_ok"
      BY <1>2, <2>1, <2>3 DEF parser_formatAmount, Error
    <2>5. PICK loop, first, most :
            /\ loop = CountCoins(coins, plain, v, p)[n] /\ first = CountCoins(coins, plain, v, 0)[n]
            /\ most = CountCoins(coins, plain, MAX_TITLE_SIZE, 0)[n].totalPages
      OBVIOUS
    <2>6. 0 \in Nat /\ n \in 0 .. n
      BY <2>3
    <2>7. LoopOK(loop, n, p, most) /\ LoopOK(first, n, 0, most) /\ loop.totalPages = first.totalPages
      BY <2>2, <2>3, <2>4, <2>5, <2>6, ReviewedLoop
    <2>8. PICK t \in Nat : t = loop.totalPages /\ t = first.totalPages
      BY <2>7 DEF LoopOK, Loops
    <2>9. \A i \in 1 .. n : parser_formatAmountItem(coins[i], plain, MAX_TITLE_SIZE, 0).err = "parser_ok"
      BY <2>2, <2>3, <2>4, ValidatedLoop DEF FirstPage
    <2>10. ASSUME NEW i \in 1 .. n, NEW q
           PROVE  parser_formatAmountItem(coins[i], plain, v, q).err = "parser_ok"
      BY <2>9, CoinErrors
    <2>11. CASE t = 0
      <3>1. /\ parser_formatAmount(value, plain, v, 0).err = "parser_ok"
            /\ parser_formatAmount(value, plain, v, 0).pageCount = 1
        <4>1. parser_formatAmount(value, plain, v, 0) = Page(<<>>, <<"Empty">>, 1)
          BY <1>2, <2>1, <2>3, <2>5, <2>6, <2>7, <2>8, <2>11, AmountCases DEF LoopOK
        <4> QED
          BY <4>1 DEF Page
      <3>2. p = 0
        BY <3>1
      <3> QED
        BY <3>1, <3>2
    <2>12. CASE t # 0
      <3>1. ASSUME NEW q \in Nat, q < t, NEW l, LoopOK(l, n, q, most), l.totalPages = t,
                   l = CountCoins(coins, plain, v, q)[n]
            PROVE  /\ parser_formatAmount(value, plain, v, q).err = "parser_ok"
                   /\ parser_formatAmount(value, plain, v, q).pageCount = t
        <4>1. l.err = "parser_ok" /\ l.showItem \in Nat /\ l.showPageIdx \in Nat
          BY <3>1 DEF LoopOK, Loops
        <4>2. l.showItem # 0
          BY <3>1, <4>1 DEF LoopOK
        <4>3. l.showItem \in 1 .. n
          BY <3>1, <4>1, <4>2 DEF LoopOK
        <4>4. parser_formatAmountItem(coins[l.showItem], plain, v, l.showPageIdx).err = "parser_ok"
          BY <2>10, <4>3
        <4> QED
          BY <1>2, <2>1, <2>3, <3>1, <4>1, <4>2, <4>4, AmountCases, SMTT(60)
      <3>2. /\ parser_formatAmount(value, plain, v, 0).err = "parser_ok"
            /\ parser_formatAmount(value, plain, v, 0).pageCount = t
        BY <2>5, <2>6, <2>7, <2>8, <2>12, <3>1
      <3>3. p < t
        BY <2>12, <3>2
      <3>4. /\ parser_formatAmount(value, plain, v, p).err = "parser_ok"
            /\ parser_formatAmount(value, plain, v, p).pageCount = t
        BY <2>5, <2>7, <2>8, <3>1, <3>3
      <3> QED
        BY <3>2, <3>4
    <2> QED
      BY <2>11, <2>12
  <1> QED
    BY <1>1, <1>2

\* Texts that take at most as many pages as a byte counts: zxlib keeps the
\* count of pages in a byte, and a longer text has none to show.
TextsCounted ==
    \A d \in Documents : d.tx_type = "tx_json" =>
        \A i \in DOMAIN d.items :
            ~d.items[i].isAmount => Len(d.items[i].text) <= UINT8_MAX * (MAX_TITLE_SIZE - 1)

LEMMA TextCount ==
    ASSUME NEW S, NEW s \in Seq(S), Len(s) <= UINT8_MAX * (MAX_TITLE_SIZE - 1),
           NEW v \in Nat, v >= MAX_TITLE_SIZE
    PROVE  s # <<>> => uint8(PagesOf(s, v)) = PagesOf(s, v) /\ PagesOf(s, v) \in Nat /\ PagesOf(s, v) > 0
  <1>0. UINT8_MAX \in Nat /\ MAX_TITLE_SIZE \in Nat /\ 1 < MAX_TITLE_SIZE
    BY SizeAssumption
  <1>1. SUFFICES ASSUME s # <<>>
                 PROVE  /\ uint8(PagesOf(s, v)) = PagesOf(s, v) /\ PagesOf(s, v) \in Nat
                        /\ PagesOf(s, v) > 0
    OBVIOUS
  <1>2. Len(s) \in Nat /\ Len(s) > 0
    BY <1>1
  <1>3. /\ PagesOf(s, v) \in Nat /\ PagesOf(s, v) <= PagesOf(s, MAX_TITLE_SIZE)
        /\ PagesOf(s, v) > 0
        /\ PagesOf(s, MAX_TITLE_SIZE) \in Nat /\ PagesOf(s, MAX_TITLE_SIZE) <= UINT8_MAX
    BY <1>0, <1>2, FewerPages
  <1>4. PICK n \in Nat : n = PagesOf(s, v)
    BY <1>3
  <1>5. n <= UINT8_MAX
    BY <1>0, <1>3, <1>4
  <1>6. uint8(n) = n
    BY <1>0, <1>5 DEF uint8
  <1> QED
    BY <1>3, <1>4, <1>6

LEMMA TextShown ==
    ASSUME NEW s \in Text, Len(s) <= UINT8_MAX * (MAX_TITLE_SIZE - 1),
           NEW v \in Nat, v >= MAX_TITLE_SIZE, NEW p \in Nat,
           p = 0 \/ p < tx_getToken(s, v, 0).pageCount
    PROVE  /\ tx_getToken(s, v, p).err = "parser_ok"
           /\ tx_getToken(s, v, p).pageCount = tx_getToken(s, v, 0).pageCount
           /\ tx_getToken(s, v, 0).pageCount \in Nat
  <1>1. PICK n : n = IF s = <<>> THEN 1 ELSE uint8(PagesOf(s, v))
    OBVIOUS
  <1>2. n \in Nat /\ n > 0
    BY <1>1, TextCount DEF Text
  <1>3. \A q : tx_getToken(s, v, q) = IF q >= n THEN Error("parser_display_page_out_of_range")
                                      ELSE Page(<<>>, pageString(s, v, q), n)
    BY <1>1 DEF tx_getToken
  <1>4. ~(0 >= n)
    BY <1>2
  <1>5. tx_getToken(s, v, 0).pageCount = n
    BY <1>3, <1>4 DEF Page
  <1>6. ~(p >= n)
    BY <1>2, <1>5
  <1> QED
    BY <1>2, <1>3, <1>5, <1>6 DEF Page

----------------------------------------------------------------------------
(* The review                                                              *)

\* The error of a screen is the same whatever is asked for.
LEMMA ErrorsOfScreens ==
    ASSUME NEW screens, NEW i, NEW k1, NEW v1, NEW p1, NEW k2, NEW v2, NEW p2
    PROVE  parser_getTextualItem(screens, i, k1, v1, p1).err
            = parser_getTextualItem(screens, i, k2, v2, p2).err
  <1>1. ASSUME NEW c
        PROVE parser_screenPrint(c, k1, v1, p1).err = parser_screenPrint(c, k2, v2, p2).err
    BY DEF parser_screenPrint, Page, Error
  <1> QED
    BY <1>1 DEF parser_getTextualItem, Error

LEMMA ViewSizes ==
    ASSUME NEW w \in Views
    PROVE  w.val \in Nat /\ w.val >= MAX_TITLE_SIZE
  BY ViewAssumption

Fetched(i) == parser_getJsonItem(i, MAX_TITLE_SIZE, MAX_TITLE_SIZE, 0).err = "parser_ok"

\* The page of an item of a JSON transaction, its title aside.
ValuePage(item, plain, w, q) ==
    IF item.isAmount THEN parser_formatAmount(item.value, plain, w, q)
    ELSE tx_getToken(item.text, w, q)

LEMMA ItemValue ==
    ASSUME NEW i, NEW k, NEW w, NEW q
    PROVE  LET page == parser_getJsonItem(i, k, w, q)
               value == ValuePage(tx.items[i], tx.plain, w, q)
           IN  page.err = value.err /\ page.pageCount = value.pageCount /\ page.val = value.val
  <1>1. IsPage(tx_getToken(tx.items[i].text, w, q))
    BY DEF tx_getToken, Page, Error, IsPage
  <1>2. PICK shown : shown = ValuePage(tx.items[i], tx.plain, w, q)
    OBVIOUS
  <1>3. IsPage(shown)
    BY <1>1, <1>2, AmountIsPage DEF ValuePage
  <1>4. parser_getJsonItem(i, k, w, q)
          = [shown EXCEPT !.key = IF shown.err = "parser_ok"
                                  THEN Bytes(tx.items[i].key, 1, k - 1) ELSE <<>>]
    BY <1>2 DEF parser_getJsonItem, ValuePage
  <1> QED
    BY <1>2, <1>3, <1>4 DEF IsPage

\* An item that was fetched once can be had on each of its pages.
LEMMA ItemShown ==
    ASSUME TextsCounted, tx \in Documents, tx.tx_type = "tx_json", view \in Views,
           NEW i \in 1 .. Len(tx.items), Fetched(i), NEW p \in Nat,
           p = 0 \/ p < parser_getJsonItem(i, view.key, view.val, 0).pageCount
    PROVE  /\ parser_getJsonItem(i, view.key, view.val, p).err = "parser_ok"
           /\ parser_getJsonItem(i, view.key, view.val, p).pageCount
                = parser_getJsonItem(i, view.key, view.val, 0).pageCount
           /\ parser_getJsonItem(i, view.key, view.val, 0).pageCount \in Nat
  <1> DEFINE Had(w, q) == ValuePage(tx.items[i], tx.plain, w, q)
  <1>1. tx.items[i] \in JsonItem
    BY DocumentsAssumption
  <1>2. ASSUME NEW k, NEW w, NEW q
        PROVE  /\ parser_getJsonItem(i, k, w, q).err = Had(w, q).err
               /\ parser_getJsonItem(i, k, w, q).pageCount = Had(w, q).pageCount
    BY ItemValue
  <1>3. /\ Had(MAX_TITLE_SIZE, 0).err = "parser_ok"
        /\ p = 0 \/ p < Had(view.val, 0).pageCount
    BY <1>2 DEF Fetched
  <1>4. PICK v \in Nat : v = view.val /\ v >= MAX_TITLE_SIZE
    BY ViewSizes
  <1>5. /\ Had(v, p).err = "parser_ok" /\ Had(v, p).pageCount = Had(v, 0).pageCount
        /\ Had(v, 0).pageCount \in Nat
    <2>1. CASE tx.items[i].isAmount
      <3>1. tx.items[i].value \in AmountValue
        BY <1>1, <2>1 DEF JsonItem
      <3> QED
        BY <1>3, <1>4, <2>1, <3>1, AmountShown DEF ValuePage
    <2>2. CASE ~tx.items[i].isAmount
      <3>1. tx.items[i].text \in Text
        BY <1>1, <2>2 DEF JsonItem
      <3>2. Len(tx.items[i].text) <= UINT8_MAX * (MAX_TITLE_SIZE - 1)
        <4>1. i \in DOMAIN tx.items
          BY DocumentsAssumption
        <4> QED
          BY <2>2, <4>1 DEF TextsCounted
      <3> QED
        BY <1>3, <1>4, <2>2, <3>1, <3>2, TextShown DEF ValuePage
    <2> QED
      BY <2>1, <2>2
  <1> HIDE DEF Had
  <1> QED
    BY <1>2, <1>4, <1>5

Showable(i) ==
    parser_getTextualItem(tx.screens, i, MAX_TITLE_SIZE, MAX_TITLE_SIZE, 0).err = "parser_ok"

\* What was tried so far can be shown, and in a review all of it; the page at
\* hand is the first of its item, or the item has told how many there are.
ReviewInv ==
    /\ view \in Views
    /\ phase \in {"none", "validating", "review", "done", "refused", "failed"}
    /\ IF phase = "none" THEN tx = NoTx ELSE tx \in Documents
    /\ phase = "failed" => tx.tx_type = "tx_json" /\ ~TextsCounted
    /\ phase \in {"none", "validating", "refused"} => pages = <<>>
    /\ phase \in {"validating", "review", "done"} => displayIdx \in Nat \ {0}
    /\ phase \in {"validating", "review", "done"} /\ tx.tx_type = "tx_textual" =>
        _read_text_tx(tx.envelope, tx.screens) = "parser_ok"
    /\ phase = "validating" =>
        /\ tx.tx_type \in {"tx_json", "tx_textual"}
        /\ tx.tx_type = "tx_textual" => \A i \in 1 .. displayIdx - 1 : Showable(i)
        /\ tx.tx_type = "tx_json" => \A i \in 1 .. displayIdx - 1 : Fetched(i)
    /\ phase \in {"review", "done"} /\ tx.tx_type = "tx_textual" =>
        \A i \in 1 .. Len(tx.screens) : Showable(i)
    /\ phase \in {"review", "done"} /\ tx.tx_type = "tx_json" =>
        \A i \in 1 .. Len(tx.items) : Fetched(i)
    /\ TextsCounted /\ phase = "review" /\ tx.tx_type = "tx_json" =>
        /\ pageIdx \in Nat
        /\ \/ pageIdx = 0
           \/ pageCount = parser_getJsonItem(displayIdx, view.key, view.val, 0).pageCount

LEMMA Reviewed == Spec => []ReviewInv
  <1>1. Init => ReviewInv
    BY DEF Init, ReviewInv, NoTx
  <1>2. ReviewInv /\ [Next]_vars => ReviewInv'
    <2> SUFFICES ASSUME ReviewInv, [Next]_vars PROVE ReviewInv'
      OBVIOUS
    <2>1. ASSUME NEW d \in Documents, parser_parse(d) PROVE ReviewInv'
      <3>1. d.tx_type \in {"tx_json", "tx_textual"}
        BY <2>1, DocumentsAssumption DEF parser_parse
      <3> QED
        BY <2>1, <3>1 DEF parser_parse, ReviewInv
    <2>2. ASSUME NEW d \in Documents, ShowAddress(d) PROVE ReviewInv'
      BY <2>2 DEF ShowAddress, ReviewInv
    <2>3. CASE parser_validate
      <3>1. parser_getItem(displayIdx, MAX_TITLE_SIZE, MAX_TITLE_SIZE, 0).err = "parser_ok"
              => IF tx.tx_type = "tx_textual" THEN Showable(displayIdx) ELSE Fetched(displayIdx)
        BY DEF parser_getItem, Showable, Fetched
      <3>2. \A i : (Showable(i)' <=> Showable(i)) /\ (Fetched(i)' <=> Fetched(i))
        BY <2>3 DEF parser_validate, Showable, Fetched, parser_getJsonItem
      <3>3. phase = "validating" /\ displayIdx \in Nat \ {0} /\ tx \in Documents
        BY <2>3 DEF parser_validate, ReviewInv
      <3>4. CASE parser_getItem(displayIdx, MAX_TITLE_SIZE, MAX_TITLE_SIZE, 0).err = "parser_ok"
        <4>1. /\ displayIdx' = displayIdx + 1 /\ phase' = phase /\ tx' = tx /\ view' = view
              /\ pages' = pages
          BY <2>3, <3>4 DEF parser_validate
        <4>2. \A i \in 1 .. displayIdx' - 1 : i \in 1 .. displayIdx - 1 \/ i = displayIdx
          BY <3>3, <4>1
        <4>3. tx.tx_type = "tx_textual" => \A i \in 1 .. displayIdx' - 1 : Showable(i)'
          BY <3>1, <3>2, <3>3, <3>4, <4>2 DEF ReviewInv
        <4>4. tx.tx_type = "tx_json" => \A i \in 1 .. displayIdx' - 1 : Fetched(i)'
          BY <3>1, <3>2, <3>3, <3>4, <4>2 DEF ReviewInv
        <4> QED
          BY <3>3, <4>1, <4>3, <4>4 DEF ReviewInv
      <3>5. CASE parser_getItem(displayIdx, MAX_TITLE_SIZE, MAX_TITLE_SIZE, 0).err # "parser_ok"
        BY <2>3, <3>5 DEF parser_validate, ReviewInv
      <3> QED
        BY <3>4, <3>5
    <2>4. CASE Validated
      <3>1. /\ phase = "validating" /\ tx \in Documents /\ displayIdx \in Nat \ {0}
            /\ tx.tx_type \in {"tx_json", "tx_textual"} /\ view \in Views
        BY <2>4 DEF Validated, ReviewInv
      <3>2. /\ tx' = tx /\ view' = view /\ phase' = "review" /\ displayIdx' = 1 /\ pageIdx' = 0
            /\ displayIdx > parser_getNumItems
        BY <2>4 DEF Validated
      <3>3. \A i : (Showable(i)' <=> Showable(i)) /\ (Fetched(i)' <=> Fetched(i))
        BY <3>2 DEF Showable, Fetched, parser_getJsonItem
      <3>4. tx.tx_type = "tx_textual" => \A i \in 1 .. Len(tx.screens) : Showable(i)'
        <4>1. tx.tx_type = "tx_textual" => Len(tx.screens) \in Nat /\ Len(tx.screens) < displayIdx
          BY <3>1, <3>2, DocumentsAssumption DEF parser_getNumItems
        <4> QED
          BY <3>1, <3>3, <4>1 DEF ReviewInv
      <3>5. tx.tx_type = "tx_json" => \A i \in 1 .. Len(tx.items) : Fetched(i)'
        <4>1. tx.tx_type = "tx_json" => Len(tx.items) \in Nat /\ Len(tx.items) < displayIdx
          BY <3>1, <3>2, DocumentsAssumption DEF parser_getNumItems
        <4> QED
          BY <3>1, <3>3, <4>1 DEF ReviewInv
      <3> QED
        BY <3>1, <3>2, <3>4, <3>5 DEF ReviewInv
    <2>5. CASE NextPage
      <3>1. /\ tx \in Documents /\ displayIdx \in Nat \ {0} /\ displayIdx <= NumItems
            /\ phase = "review" /\ pageIdx < pageCount /\ view \in Views
        BY <2>5 DEF NextPage, ReviewInv
      <3>2. \/ ~TextsCounted /\ tx.tx_type = "tx_json"
            \/ /\ Item(displayIdx, pageIdx).err = "parser_ok"
               /\ tx.tx_type = "tx_json" =>
                    Item(displayIdx, pageIdx).pageCount
                        = parser_getJsonItem(displayIdx, view.key, view.val, 0).pageCount
        <4>1. CASE tx.tx_type = "tx_textual"
          <5>1. Len(tx.screens) \in Nat /\ NumItems = Len(tx.screens)
            BY <3>1, <4>1, DocumentsAssumption DEF NumItems, parser_getNumItems
          <5>2. Showable(displayIdx)
            BY <3>1, <4>1, <5>1 DEF ReviewInv
          <5>3. Item(displayIdx, pageIdx)
                  = parser_getTextualItem(tx.screens, displayIdx, view.key, view.val, pageIdx)
            BY <4>1 DEF Item, parser_getItem
          <5> QED
            BY <4>1, <5>2, <5>3, ErrorsOfScreens DEF Showable
        <4>2. CASE tx.tx_type = "address"
          <5>1. displayIdx = 1 \/ (displayIdx = 2 /\ (tx.expert \/ tx.eth))
            BY <3>1, <4>2 DEF NumItems, addr_getNumItems
          <5> QED
            BY <4>2, <5>1 DEF Item, addr_getItem, Page
        <4>3. CASE TextsCounted /\ tx.tx_type = "tx_json"
          <5>1. Len(tx.items) \in Nat /\ NumItems = Len(tx.items)
            BY <3>1, <4>3, DocumentsAssumption DEF NumItems, parser_getNumItems
          <5>2. displayIdx \in 1 .. Len(tx.items)
            BY <3>1, <5>1
          <5>3. Fetched(displayIdx) /\ pageIdx \in Nat
            BY <3>1, <4>3, <5>2 DEF ReviewInv
          <5>4. \/ pageIdx = 0
                \/ pageIdx < parser_getJsonItem(displayIdx, view.key, view.val, 0).pageCount
            BY <3>1, <4>3 DEF ReviewInv
          <5>5. Item(displayIdx, pageIdx) = parser_getJsonItem(displayIdx, view.key, view.val, pageIdx)
            BY <4>3 DEF Item, parser_getItem
          <5> QED
            BY <3>1, <4>3, <5>2, <5>3, <5>4, <5>5, ItemShown
        <4> QED
          BY <3>1, <4>1, <4>2, <4>3, DocumentsAssumption
      <3>3. /\ tx' = tx /\ view' = view /\ displayIdx' = displayIdx
            /\ \/ phase' = phase
               \/ phase' = "failed" /\ Item(displayIdx, pageIdx).err # "parser_ok"
        BY <2>5 DEF NextPage
      <3>4. /\ \A i : (Showable(i)' <=> Showable(i)) /\ (Fetched(i)' <=> Fetched(i))
            /\ parser_getJsonItem(displayIdx, view.key, view.val, 0)'
                = parser_getJsonItem(displayIdx, view.key, view.val, 0)
        BY <3>3 DEF Showable, Fetched, parser_getJsonItem
      <3>5. CASE phase' = "failed"
        BY <3>1, <3>2, <3>3, <3>5 DEF ReviewInv
      <3>6. CASE phase' = phase
        <4>1. TextsCounted /\ tx.tx_type = "tx_json" =>
                /\ pageIdx' = pageIdx + 1 /\ pageCount' = Item(displayIdx, pageIdx).pageCount
          BY <2>5, <3>2 DEF NextPage
        <4>2. TextsCounted /\ tx.tx_type = "tx_json" => pageIdx' \in Nat
          BY <3>1, <4>1 DEF ReviewInv
        <4> QED
          BY <3>1, <3>2, <3>3, <3>4, <3>6, <4>1, <4>2 DEF ReviewInv
      <3> QED
        BY <3>3, <3>5, <3>6
    <2>6. CASE NextItem
      <3>1. \A i : (Showable(i)' <=> Showable(i)) /\ (Fetched(i)' <=> Fetched(i))
        BY <2>6 DEF NextItem, Showable, Fetched, parser_getJsonItem
      <3>2. displayIdx' \in Nat \ {0}
        BY <2>6 DEF NextItem, ReviewInv
      <3> QED
        BY <2>6, <3>1, <3>2 DEF NextItem, ReviewInv
    <2>7. CASE LastItem
      <3>1. \A i : (Showable(i)' <=> Showable(i)) /\ (Fetched(i)' <=> Fetched(i))
        BY <2>7 DEF LastItem, Showable, Fetched, parser_getJsonItem
      <3> QED
        BY <2>7, <3>1 DEF LastItem, ReviewInv
    <2>8. CASE UNCHANGED vars
      <3>1. \A i : (Showable(i)' <=> Showable(i)) /\ (Fetched(i)' <=> Fetched(i))
        BY <2>8 DEF vars, Showable, Fetched, parser_getJsonItem
      <3>2. parser_getJsonItem(displayIdx, view.key, view.val, 0)'
                = parser_getJsonItem(displayIdx, view.key, view.val, 0)
        BY <2>8 DEF vars, parser_getJsonItem
      <3> QED
        BY <2>8, <3>1, <3>2 DEF vars, ReviewInv
    <2> QED
      BY <2>1, <2>2, <2>3, <2>4, <2>5, <2>6, <2>7, <2>8 DEF Next
  <1> QED
    BY <1>1, <1>2, PTL DEF Spec

\* Whatever the items, screens and coins of a transaction, and whatever the
\* sizes of the buffers, a transaction that parser_validate accepted never fails
\* while the user reads it, as long as a byte counts the pages of its texts; nor
\* does an address (parser.c:69, parser.c:319, parser.c:521, addr.c:42).
THEOREM AcceptedItemsCanBeShown ==
    ASSUME TextsCounted
    PROVE  Spec => []AcceptedCanBeShown
  <1>1. Spec => []ReviewInv
    BY Reviewed
  <1>2. ReviewInv => AcceptedCanBeShown
    BY DEF ReviewInv, AcceptedCanBeShown
  <1> QED
    BY <1>1, <1>2, PTL

----------------------------------------------------------------------------
(* What the pages say, one behind the other                                *)

\* FlattenSeq puts the last sequence behind what it makes of those before it.
LEMMA FlattenRecursion ==
    ASSUME NEW S, NEW ss \in Seq(Seq(S)), NEW n \in Nat, n = Len(ss), n > 0
    PROVE  \E g : /\ \A i \in 1 .. n : g[i] = IF i = 1 THEN ss[i] ELSE g[i - 1] \o ss[i]
                  /\ FlattenSeq(ss) = g[n]
  <1> DEFINE St(i, v) == IF i = 1 THEN ss[i] ELSE v \o ss[i]
             Glued(g, k) == g = [i \in 1 .. k |-> St(i, g[i - 1])]
             T == {k \in Nat : \E g : Glued(g, k)}
  <1>1. 0 \in T
    <2>1. Glued(<<>>, 0)
      OBVIOUS
    <2> QED
      BY <2>1
  <1>2. ASSUME NEW k \in T PROVE k + 1 \in T
    <2> HIDE DEF St
    <2>1. PICK g : Glued(g, k)
      OBVIOUS
    <2> DEFINE h == [i \in 1 .. k + 1 |-> IF i = k + 1 THEN St(i, g[k]) ELSE g[i]]
    <2>2. Glued(h, k + 1)
      <3>1. ASSUME NEW i \in 1 .. k + 1 PROVE h[i] = St(i, h[i - 1])
        <4>1. CASE i = k + 1
          <5>1. i - 1 = k /\ h[i] = St(i, g[k])
            BY <4>1
          <5>2. CASE i = 1
            BY <5>1, <5>2 DEF St
          <5>3. CASE i # 1
            <6>1. h[k] = g[k]
              BY <4>1, <5>3
            <6> QED
              BY <5>1, <6>1
          <5> QED
            BY <5>2, <5>3
        <4>2. CASE i # k + 1
          <5>1. h[i] = g[i] /\ g[i] = St(i, g[i - 1])
            <6>1. i \in 1 .. k
              BY <4>2
            <6> QED
              BY <2>1, <4>2, <6>1
          <5>2. CASE i = 1
            BY <5>1, <5>2 DEF St
          <5>3. CASE i # 1
            <6>1. h[i - 1] = g[i - 1]
              BY <4>2, <5>3
            <6> QED
              BY <5>1, <6>1
          <5> QED
            BY <5>2, <5>3
        <4> QED
          BY <4>1, <4>2
      <3> QED
        BY <3>1
    <2>3. k + 1 \in Nat
      OBVIOUS
    <2> HIDE DEF h, Glued
    <2> QED
      BY <2>2, <2>3
  <1>3. \E g : Glued(g, n)
    <2> HIDE DEF Glued
    <2>1. T = Nat
      BY <1>1, <1>2, Successors, Zenon
    <2> QED
      BY <2>1
  <1> DEFINE f == CHOOSE g : Glued(g, n)
  <1>4. Glued(f, n)
    BY <1>3, Zenon
  <1>5. FlattenSeq(ss) = f[n]
    <2>1. Len(ss) # 0
      OBVIOUS
    <2> QED
      BY <2>1 DEF FlattenSeq
  <1> HIDE DEF f
  <1>6. \A i \in 1 .. n : f[i] = St(i, f[i - 1])
    <2> HIDE DEF St
    <2> QED
      BY <1>4
  <1> QED
    BY <1>5, <1>6

LEMMA FlattenEmpty == FlattenSeq(<<>>) = <<>>
  BY DEF FlattenSeq

\* One sequence more.
LEMMA FlattenAppend ==
    ASSUME NEW S, NEW ss \in Seq(Seq(S)), NEW s \in Seq(S)
    PROVE  FlattenSeq(Append(ss, s)) = FlattenSeq(ss) \o s
  <1>1. PICK n \in Nat : n = Len(ss)
    OBVIOUS
  <1>2. PICK tt : tt = Append(ss, s)
    OBVIOUS
  <1>3. /\ tt \in Seq(Seq(S)) /\ Len(tt) = n + 1 /\ tt[n + 1] = s
        /\ \A i \in 1 .. n : tt[i] = ss[i]
    BY <1>1, <1>2, AppendProperties
  <1>4. PICK h : /\ \A i \in 1 .. n + 1 : h[i] = IF i = 1 THEN tt[i] ELSE h[i - 1] \o tt[i]
                 /\ FlattenSeq(tt) = h[n + 1]
    <2>1. n + 1 \in Nat /\ n + 1 > 0
      OBVIOUS
    <2> QED
      BY <1>3, <2>1, FlattenRecursion, ZenonT(60)
  <1>5. CASE n = 0
    <2>1. FlattenSeq(tt) = s
      BY <1>3, <1>4, <1>5
    <2>2. ss = <<>>
      BY <1>1, <1>5, EmptySeq
    <2> QED
      BY <1>2, <2>1, <2>2, ConcatEmptySeq, FlattenEmpty
  <1>6. CASE n > 0
    <2>1. PICK g : /\ \A i \in 1 .. n : g[i] = IF i = 1 THEN ss[i] ELSE g[i - 1] \o ss[i]
                   /\ FlattenSeq(ss) = g[n]
      BY <1>1, <1>6, FlattenRecursion
    <2> DEFINE T == {k \in Nat : k \in 1 .. n => h[k] = g[k]}
    <2>2. 0 \in T
      OBVIOUS
    <2>3. ASSUME NEW k \in T PROVE k + 1 \in T
      <3>1. ASSUME k + 1 \in 1 .. n PROVE h[k + 1] = g[k + 1]
        <4>1. k + 1 \in 1 .. n + 1 /\ tt[k + 1] = ss[k + 1]
          BY <1>3, <3>1
        <4>2. h[k + 1] = IF k + 1 = 1 THEN tt[k + 1] ELSE h[(k + 1) - 1] \o tt[k + 1]
          BY <1>4, <4>1
        <4>3. g[k + 1] = IF k + 1 = 1 THEN ss[k + 1] ELSE g[(k + 1) - 1] \o ss[k + 1]
          BY <2>1, <3>1
        <4>4. (k + 1) - 1 = k /\ (k + 1 # 1 => k \in 1 .. n)
          BY <3>1
        <4> QED
          BY <4>1, <4>2, <4>3, <4>4
      <3> QED
        BY <3>1
    <2>4. T = Nat
      <3> HIDE DEF T
      <3> QED
        BY <2>2, <2>3, Successors DEF T
    <2>5. h[n] = g[n]
      BY <1>6, <2>4
    <2>6. h[n + 1] = h[n] \o tt[n + 1]
      <3>1. n + 1 \in 1 .. n + 1 /\ n + 1 # 1 /\ (n + 1) - 1 = n
        BY <1>6
      <3> QED
        BY <1>4, <3>1
    <2> QED
      BY <1>2, <1>3, <1>4, <2>1, <2>5, <2>6
  <1> QED
    BY <1>5, <1>6

\* The same of a sequence given by its elements.
LEMMA FlattenNext ==
    ASSUME NEW S, NEW n \in Nat, NEW g, \A i \in 1 .. n + 1 : g[i] \in Seq(S)
    PROVE  FlattenSeq([i \in 1 .. n + 1 |-> g[i]]) = FlattenSeq([i \in 1 .. n |-> g[i]]) \o g[n + 1]
  <1>1. PICK ss : ss = [i \in 1 .. n |-> g[i]]
    OBVIOUS
  <1>2. ss \in Seq(Seq(S)) /\ Len(ss) = n
    <2>1. ss \in [1 .. n -> Seq(S)]
      BY <1>1
    <2> QED
      BY <2>1
  <1>3. g[n + 1] \in Seq(S)
    OBVIOUS
  <1>4. Append(ss, g[n + 1]) = [i \in 1 .. n + 1 |-> g[i]]
    BY <1>1, <1>2
  <1> QED
    BY <1>1, <1>2, <1>3, <1>4, FlattenAppend

LEMMA FlattenNone ==
    ASSUME NEW g
    PROVE  FlattenSeq([i \in 1 .. 0 |-> g[i]]) = <<>>
  BY DEF FlattenSeq

LEMMA FlattenType ==
    ASSUME NEW S, NEW ss \in Seq(Seq(S))
    PROVE  FlattenSeq(ss) \in Seq(S)
  <1>1. PICK n \in Nat : n = Len(ss)
    OBVIOUS
  <1>2. CASE n = 0
    <2>1. ss = <<>>
      BY <1>1, <1>2, EmptySeq
    <2> QED
      BY <2>1, FlattenEmpty, EmptySeq
  <1>3. CASE n > 0
    <2>1. PICK g : /\ \A i \in 1 .. n : g[i] = IF i = 1 THEN ss[i] ELSE g[i - 1] \o ss[i]
                   /\ FlattenSeq(ss) = g[n]
      BY <1>1, <1>3, FlattenRecursion
    <2> DEFINE T == {k \in Nat : k \in 1 .. n => g[k] \in Seq(S)}
    <2>2. 0 \in T
      OBVIOUS
    <2>3. ASSUME NEW k \in T PROVE k + 1 \in T
      <3>1. ASSUME k + 1 \in 1 .. n PROVE g[k + 1] \in Seq(S)
        <4>1. ss[k + 1] \in Seq(S)
          BY <1>1, <3>1, ElementOfSeq
        <4>2. g[k + 1] = IF k + 1 = 1 THEN ss[k + 1] ELSE g[(k + 1) - 1] \o ss[k + 1]
          BY <2>1, <3>1
        <4>3. (k + 1) - 1 = k /\ (k + 1 # 1 => g[k] \in Seq(S))
          BY <3>1
        <4> QED
          BY <4>1, <4>2, <4>3, ConcatProperties
      <3> QED
        BY <3>1
    <2>4. T = Nat
      <3> HIDE DEF T
      <3> QED
        BY <2>2, <2>3, Successors DEF T
    <2> QED
      BY <1>3, <2>1, <2>4
  <1> QED
    BY <1>2, <1>3

\* Concatenation is associative, for every set of elements at once.
LEMMA ConcatAssociates == \A S : \A y, z, w \in Seq(S) : (y \o z) \o w = y \o (z \o w)
  BY ConcatAssociative, Zenon

\* Two lists of sequences, one behind the other.
LEMMA FlattenConcat ==
    ASSUME NEW S, NEW ss \in Seq(Seq(S)), NEW tt \in Seq(Seq(S))
    PROVE  FlattenSeq(ss \o tt) = FlattenSeq(ss) \o FlattenSeq(tt)
  <1> DEFINE First(k) == SubSeq(tt, 1, k)
             P(k) == FlattenSeq(ss \o First(k)) = FlattenSeq(ss) \o FlattenSeq(First(k))
             T == {k \in Nat : k <= Len(tt) => P(k)}
  <1>0. \A y, z, w \in Seq(S) : (y \o z) \o w = y \o (z \o w)
    BY ConcatAssociates, SMTT(60)
  <1>1. PICK n \in Nat : n = Len(tt)
    OBVIOUS
  <1>2. \A uu \in Seq(Seq(S)) : FlattenSeq(uu) \in Seq(S)
    BY FlattenType
  <1>3. 0 \in T
    <2>1. First(0) = <<>>
      BY SubSeqEmpty
    <2>2. ss \o <<>> = ss /\ FlattenSeq(ss) \o <<>> = FlattenSeq(ss)
      BY <1>2, ConcatEmptySeq
    <2>3. P(0)
      BY <2>1, <2>2, FlattenEmpty
    <2> QED
      BY <2>3
  <1>4. ASSUME NEW k \in T PROVE k + 1 \in T
    <2> SUFFICES ASSUME k + 1 <= n PROVE P(k + 1)
      <3> HIDE DEF P
      <3> QED
        BY <1>1
    <2>1. P(k)
      <3> HIDE DEF P
      <3> QED
        BY <1>1
    <2>2. k \in Nat /\ k + 1 \in 1 .. n
      OBVIOUS
    <2> HIDE DEF T
    <2>3. PICK x, e : x = First(k) /\ e = tt[k + 1]
      OBVIOUS
    <2>4. x \in Seq(Seq(S)) /\ Len(x) = k /\ e \in Seq(S)
      <3>1. \A i \in 1 .. k : i \in 1 .. n
        BY <2>2
      <3>2. \A i \in 1 .. n : tt[i] \in Seq(S)
        BY <1>1, ElementOfSeq
      <3>3. 1 \in Int /\ k \in Int /\ \A i \in 1 .. k : tt[i] \in Seq(S)
        BY <2>2, <3>1, <3>2
      <3>4. SubSeq(tt, 1, k) \in Seq(Seq(S)) /\ Len(SubSeq(tt, 1, k)) = IF 1 <= k THEN k - 1 + 1 ELSE 0
        BY <3>3, SubSeqProperties
      <3> QED
        BY <2>2, <2>3, <3>2, <3>4
    <2>5. First(k + 1) = Append(x, e)
      BY <1>1, <2>2, <2>3, <2>4
    <2>6. ss \o Append(x, e) = Append(ss \o x, e)
      BY <2>4, SMTT(60)
    <2>7. ss \o x \in Seq(Seq(S))
      BY <2>4, ConcatProperties
    <2>8. /\ FlattenSeq(Append(ss \o x, e)) = FlattenSeq(ss \o x) \o e
          /\ FlattenSeq(Append(x, e)) = FlattenSeq(x) \o e
      BY <2>4, <2>7, FlattenAppend
    <2>9. (FlattenSeq(ss) \o FlattenSeq(x)) \o e = FlattenSeq(ss) \o (FlattenSeq(x) \o e)
      <3>1. PICK y \in Seq(S), z \in Seq(S), w \in Seq(S) :
                y = FlattenSeq(ss) /\ z = FlattenSeq(x) /\ w = e
        BY <1>2, <2>4
      <3>2. (y \o z) \o w = y \o (z \o w)
        BY <1>0
      <3> QED
        BY <3>1, <3>2
    <2>10. FlattenSeq(ss \o x) = FlattenSeq(ss) \o FlattenSeq(x)
      BY <2>1, <2>3
    <2> QED
      BY <2>5, <2>6, <2>8, <2>9, <2>10
  <1>5. T = Nat
    <2> HIDE DEF T, P
    <2> QED
      BY <1>3, <1>4, Successors DEF T
  <1>6. P(n)
    <2> HIDE DEF P
    <2> QED
      BY <1>1, <1>5
  <1>7. First(n) = tt
    BY <1>1, SubSeqFull
  <1> QED
    BY <1>6, <1>7

\* A page is a part of the text, and no longer than its buffer.
LEMMA PageParts ==
    ASSUME NEW S, NEW s \in Seq(S), NEW v \in Nat, v > 1, NEW k \in Nat
    PROVE  /\ pageString(s, v, k) \in Seq(S)
           /\ Len(pageString(s, v, k)) < v
  <1>1. PICK a \in Nat, n \in Nat : a = v - 1 /\ n = Len(s)
    OBVIOUS
  <1>2. PICK b, e : b = k * a /\ e = (k + 1) * a
    OBVIOUS
  <1>3. b \in Nat /\ e \in Nat /\ e = b + a
    BY <1>2
  <1>4. PICK l : l = IF e < n THEN e ELSE n
    OBVIOUS
  <1>5. l \in Nat /\ l <= n /\ l <= b + a
    BY <1>3, <1>4
  <1>6. pageString(s, v, k) = SubSeq(s, b + 1, l)
    BY <1>1, <1>2, <1>4 DEF pageString, Bytes
  <1>7. \A i \in b + 1 .. l : s[i] \in S
    <2>1. \A i \in b + 1 .. l : i \in 1 .. n
      BY <1>3, <1>5
    <2> QED
      BY <1>1, <2>1, ElementOfSeq
  <1>8. b + 1 \in Int /\ l \in Int
    BY <1>3, <1>5
  <1>9. /\ SubSeq(s, b + 1, l) \in Seq(S)
        /\ Len(SubSeq(s, b + 1, l)) = IF b + 1 <= l THEN l - (b + 1) + 1 ELSE 0
    BY <1>7, <1>8, SubSeqProperties
  <1> QED
    BY <1>1, <1>3, <1>5, <1>6, <1>9

\* The pages of a text are the text.
LEMMA TextTold ==
    ASSUME NEW S, NEW s \in Seq(S), NEW v \in Nat, v > 1
    PROVE  FlattenSeq([j \in 1 .. PagesOf(s, v) |-> pageString(s, v, j - 1)]) = s
  <1>1. PICK a \in Nat \ {0}, n \in Nat : a = v - 1 /\ n = Len(s)
    OBVIOUS
  <1>2. PICK x : x = n + a - 1
    OBVIOUS
  <1>3. x \in Nat /\ x = n + a - 1 /\ PagesOf(s, v) = x \div a
    BY <1>1, <1>2 DEF PagesOf
  <1>4. PICK many \in Nat : many = PagesOf(s, v)
    BY <1>3, Quotient
  <1>5. a * many <= x /\ x < a * many + a
    BY <1>3, <1>4, Quotient
  <1> DEFINE E(k) == IF k * a < n THEN k * a ELSE n
             g == [j \in Nat |-> pageString(s, v, j - 1)]
             Joined(k) == FlattenSeq([j \in 1 .. k |-> g[j]])
             P(k) == Joined(k) = SubSeq(s, 1, E(k))
             T == {k \in Nat : k <= many => P(k)}
  <1>6. \A j \in Nat : j > 0 => g[j] \in Seq(S)
    <2> SUFFICES ASSUME NEW j \in Nat, j > 0 PROVE pageString(s, v, j - 1) \in Seq(S)
      OBVIOUS
    <2>1. j - 1 \in Nat
      OBVIOUS
    <2> QED
      BY <2>1, PageParts
  <1>7. 0 \in T
    <2>1. Joined(0) = <<>>
      BY FlattenNone
    <2>2. E(0) = 0
      BY <1>1
    <2>3. SubSeq(s, 1, 0) = <<>>
      BY SubSeqEmpty
    <2>4. P(0)
      BY <2>1, <2>2, <2>3
    <2> QED
      BY <2>4
  <1>8. ASSUME NEW k \in T PROVE k + 1 \in T
    <2> SUFFICES ASSUME k + 1 <= many PROVE P(k + 1)
      <3> HIDE DEF P
      <3> QED
        OBVIOUS
    <2>1. Joined(k) = SubSeq(s, 1, E(k))
      <3> HIDE DEF P
      <3>1. P(k)
        OBVIOUS
      <3> QED
        BY <3>1 DEF P
    <2>2. k * a \in Nat /\ (k + 1) * a = k * a + a /\ k * a < n
      <3>1. a * (k + 1) <= a * many
        <4>1. k \in Nat
          OBVIOUS
        <4> HIDE DEF T
        <4> QED
          BY <4>1
      <3>2. a * (k + 1) = k * a + a /\ k * a \in Nat
        OBVIOUS
      <3>3. k * a + a <= n + a - 1
        <4>1. PICK c, d : c \in Nat /\ c = k * a /\ d = a * many
          BY <3>2
        <4>2. c + a <= d /\ d <= n + a - 1 /\ c \in Nat /\ d \in Nat
          BY <1>3, <1>5, <3>1, <3>2, <4>1
        <4> HIDE DEF T
        <4>3. c + a <= n + a - 1
          BY <4>2
        <4> QED
          BY <4>1, <4>3
      <3> QED
        BY <3>2, <3>3
    <2>3. PICK b \in Nat, e \in Nat : b = E(k) /\ e = E(k + 1) /\ b = k * a
      BY <2>2
    <2>4. b < n /\ e <= n /\ b <= e
      BY <2>2, <2>3
    <2>5. pageString(s, v, k) = SubSeq(s, b + 1, e)
      BY <1>1, <2>2, <2>3 DEF pageString, Bytes
    <2>6. SubSeq(s, 1, b) \o SubSeq(s, b + 1, e) = SubSeq(s, 1, e)
      <3>1. 1 \in 1 .. Len(s) + 1 /\ b \in 1 - 1 .. Len(s) /\ e \in b .. Len(s)
        BY <1>1, <2>4
      <3> QED
        BY <3>1, ConcatAdjacentSubSeq
    <2>7. Joined(k + 1) = Joined(k) \o g[k + 1]
      <3>1. k \in Nat /\ \A i \in 1 .. k + 1 : g[i] \in Seq(S)
        BY <1>6
      <3> HIDE DEF g, T
      <3> QED
        BY <3>1, FlattenNext
    <2>8. g[k + 1] = pageString(s, v, k)
      <3>1. k + 1 \in Nat /\ (k + 1) - 1 = k
        OBVIOUS
      <3> QED
        BY <3>1
    <2> QED
      BY <2>1, <2>3, <2>5, <2>6, <2>7, <2>8
  <1>9. T = Nat
    <2> HIDE DEF T, P
    <2> QED
      BY <1>7, <1>8, Successors DEF T
  <1>10. Joined(many) = SubSeq(s, 1, E(many))
    <2> HIDE DEF P
    <2>1. P(many)
      BY <1>9
    <2> QED
      BY <2>1 DEF P
  <1>11. E(many) = n
    <2>1. a * many = many * a /\ many * a \in Nat
      OBVIOUS
    <2>2. n <= many * a
      BY <1>3, <1>5, <2>1
    <2> QED
      BY <2>1, <2>2
  <1>12. SubSeq(s, 1, n) = s
    BY <1>1, SubSeqFull
  <1>13. Joined(many) = FlattenSeq([j \in 1 .. many |-> pageString(s, v, j - 1)])
    <2>1. \A j \in 1 .. many : g[j] = pageString(s, v, j - 1)
      OBVIOUS
    <2> HIDE DEF g
    <2>2. [j \in 1 .. many |-> g[j]] = [j \in 1 .. many |-> pageString(s, v, j - 1)]
      BY <2>1
    <2> QED
      BY <2>2
  <1> QED
    BY <1>4, <1>10, <1>11, <1>12, <1>13

----------------------------------------------------------------------------
(* Texts shown one after the other                                         *)

\* n texts, of which text i takes many[i] pages, and total[i] with those before.
Sums(n, total, many) ==
    /\ total[0] = 0
    /\ \A k \in 1 .. n : many[k] \in Nat /\ total[k] = total[k - 1] + many[k]
\* part[i] are the pages of text i.
Parts(S, n, many, part, text) ==
    \A i \in 1 .. n :
        /\ \A q \in 0 .. many[i] - 1 : part[i][q] \in Seq(S)
        /\ FlattenSeq([j \in 1 .. many[i] |-> part[i][j - 1]]) = text[i]
        /\ text[i] \in Seq(S)
\* Every page is one of a text, the pages of those before come first.
OnePart(i, q, p, total, many, part, val) ==
    total[i - 1] + q = p /\ q < many[i] /\ val[p] = part[i][q]
PartByPart(n, total, many, part, val) ==
    \A p \in 0 .. total[n] - 1 :
        \E i \in 1 .. n : \E q \in Nat : OnePart(i, q, p, total, many, part, val)

\* Sums of natural numbers grow.
LEMMA SumsGrow ==
    ASSUME NEW n \in Nat, NEW total, NEW many, Sums(n, total, many)
    PROVE  /\ \A k \in 0 .. n : total[k] \in Nat
           /\ \A i, k \in 0 .. n : i <= k => total[i] <= total[k]
  <1> DEFINE P(k) == \A i \in 0 .. k : total[i] \in Nat /\ total[i] <= total[k]
             T == {k \in Nat : k <= n => P(k)}
  <1>1. 0 \in T
    <2>1. total[0] \in Nat /\ total[0] <= total[0] /\ \A i \in 0 .. 0 : i = 0
      BY DEF Sums
    <2>2. P(0)
      BY <2>1
    <2> QED
      BY <2>2
  <1>2. ASSUME NEW k \in T PROVE k + 1 \in T
    <2> SUFFICES ASSUME k + 1 <= n PROVE P(k + 1)
      <3> HIDE DEF P
      <3> QED
        OBVIOUS
    <2>1. P(k)
      <3> HIDE DEF P
      <3> QED
        OBVIOUS
    <2>2. /\ k + 1 \in 1 .. n /\ (k + 1) - 1 = k
          /\ \A i \in 0 .. k + 1 : i \in 0 .. k \/ i = k + 1
      OBVIOUS
    <2> HIDE DEF T
    <2>3. many[k + 1] \in Nat /\ total[k + 1] = total[k] + many[k + 1]
      BY <2>2 DEF Sums
    <2>4. \A i \in 0 .. k : total[i] \in Nat /\ total[i] <= total[k] /\ total[k] \in Nat
      <3>1. k \in 0 .. k
        BY <2>2
      <3> QED
        BY <2>1, <3>1
    <2>5. \A i \in 0 .. k : total[i] <= total[k + 1] /\ total[k + 1] \in Nat
      <3> SUFFICES ASSUME NEW i \in 0 .. k
                   PROVE  total[i] <= total[k + 1] /\ total[k + 1] \in Nat
        OBVIOUS
      <3>2. PICK a \in Nat, b \in Nat, c \in Nat : a = total[i] /\ b = total[k] /\ c = many[k + 1]
        BY <2>3, <2>4
      <3> QED
        BY <2>3, <2>4, <3>2
    <2>6. 0 \in 0 .. k /\ total[k + 1] \in Nat
      <3>1. 0 \in 0 .. k
        BY <2>2
      <3> QED
        BY <2>5, <3>1
    <2>7. ASSUME NEW i \in 0 .. k + 1 PROVE total[i] \in Nat /\ total[i] <= total[k + 1]
      <3>1. CASE i \in 0 .. k
        BY <2>4, <2>5, <3>1
      <3>2. CASE i = k + 1
        BY <2>6, <3>2
      <3> QED
        BY <2>2, <3>1, <3>2
    <2> QED
      BY <2>7
  <1>3. T = Nat
    <2> HIDE DEF T, P
    <2> QED
      BY <1>1, <1>2, Successors DEF T
  <1>4. ASSUME NEW k \in 0 .. n PROVE P(k)
    <2> HIDE DEF P
    <2>1. k \in T
      BY <1>3
    <2> QED
      BY <2>1
  <1>5. \A k \in 0 .. n : \A i \in 0 .. k : total[i] \in Nat /\ total[i] <= total[k]
    BY <1>4
  <1>6. \A k \in 0 .. n : k \in 0 .. k
    OBVIOUS
  <1>7. \A i, k \in 0 .. n : i <= k => i \in 0 .. k
    OBVIOUS
  <1> QED
    BY <1>5, <1>6, <1>7

\* Texts shown one after the other, each on pages of its own, are told in order.
LEMMA PagesInOrder ==
    ASSUME NEW S, NEW n \in Nat, NEW total, NEW many, NEW part, NEW text, NEW val,
           Sums(n, total, many), Parts(S, n, many, part, text),
           PartByPart(n, total, many, part, val)
    PROVE  FlattenSeq([j \in 1 .. total[n] |-> val[j - 1]]) = FlattenSeq([i \in 1 .. n |-> text[i]])
  <1>1. /\ \A k \in 0 .. n : total[k] \in Nat
        /\ \A i, k \in 0 .. n : i <= k => total[i] <= total[k]
    BY SumsGrow
  <1> DEFINE g == [j \in Nat |-> val[j - 1]]
             ToldOf(k) == FlattenSeq([j \in 1 .. total[k] |-> g[j]])
             Meant(k) == FlattenSeq([i \in 1 .. k |-> text[i]])
             P(k) == ToldOf(k) = Meant(k)
             T == {k \in Nat : k <= n => P(k)}
  <1>2. ASSUME NEW k \in 0 .. n - 1, NEW j \in 1 .. many[k + 1]
        PROVE  /\ total[k] + j \in Nat /\ total[k] + j <= total[n]
               /\ g[total[k] + j] = part[k + 1][j - 1] /\ part[k + 1][j - 1] \in Seq(S)
    <2>1. k \in 0 .. n /\ k + 1 \in 1 .. n /\ k + 1 \in 0 .. n /\ (k + 1) - 1 = k /\ n \in 0 .. n
      OBVIOUS
    <2>2. PICK a \in Nat, b \in Nat, m \in Nat, c \in Nat :
            a = total[k] /\ b = total[k + 1] /\ m = many[k + 1] /\ c = total[n]
      BY <1>1, <2>1 DEF Sums
    <2>17. j \in Nat /\ 1 <= j /\ j <= m
      BY <2>2
    <2>3. b = a + m /\ b <= c
      BY <1>1, <2>1, <2>2 DEF Sums
    <2>4. PICK p \in Nat : p = a + j - 1
      BY <2>17
    <2>5. p \in 0 .. c - 1 /\ p < b /\ a <= p
      BY <2>3, <2>4, <2>17
    <2>6. PICK i \in 1 .. n, q \in Nat :
            total[i - 1] + q = p /\ q < many[i] /\ val[p] = part[i][q]
      BY <2>2, <2>5 DEF PartByPart, OnePart
    <2>7. i \in 0 .. n /\ i - 1 \in 0 .. n
      OBVIOUS
    <2>8. PICK d \in Nat, e \in Nat, l \in Nat : d = total[i - 1] /\ e = total[i] /\ l = many[i]
      BY <1>1, <2>7 DEF Sums
    <2>9. e = d + l /\ d + q = p /\ q < l
      BY <2>6, <2>8 DEF Sums
    <2>10. ~(i <= k)
      <3>1. i <= k => e <= a
        BY <1>1, <2>1, <2>2, <2>7, <2>8
      <3> QED
        BY <2>5, <2>9, <3>1
    <2>11. ~(k + 1 <= i - 1)
      <3>1. k + 1 <= i - 1 => b <= d
        BY <1>1, <2>1, <2>2, <2>7, <2>8
      <3> QED
        BY <2>5, <2>9, <3>1
    <2>12. i = k + 1
      BY <2>10, <2>11
    <2>13. d = a /\ q = j - 1
      BY <2>1, <2>2, <2>4, <2>8, <2>9, <2>12
    <2>14. total[k] + j \in Nat /\ (total[k] + j) - 1 = p /\ total[k] + j <= total[n]
      BY <2>2, <2>3, <2>4, <2>17
    <2>15. g[total[k] + j] = val[p]
      BY <2>14
    <2>16. j - 1 \in 0 .. many[k + 1] - 1
      BY <2>2
    <2> HIDE DEF g
    <2> QED
      BY <2>1, <2>6, <2>12, <2>13, <2>14, <2>15, <2>16 DEF Parts
  <1>3. 0 \in T
    <2>1. P(0)
      <3>1. ToldOf(0) = <<>> /\ Meant(0) = <<>>
        BY FlattenNone DEF Sums
      <3> QED
        BY <3>1
    <2> QED
      BY <2>1
  <1>4. \A i \in 1 .. total[n] : g[i] \in Seq(S)
    <2> SUFFICES ASSUME NEW x \in 1 .. total[n] PROVE g[x] \in Seq(S)
      OBVIOUS
    <2>1. total[n] \in Nat
      BY <1>1
    <2>2. x - 1 \in 0 .. total[n] - 1 /\ x \in Nat
      BY <2>1
    <2>3. PICK i \in 1 .. n, q \in Nat : q < many[i] /\ val[x - 1] = part[i][q]
      BY <2>2 DEF PartByPart, OnePart
    <2>4. q \in 0 .. many[i] - 1
      BY <2>3 DEF Sums
    <2>5. g[x] = val[x - 1]
      BY <2>2
    <2> HIDE DEF g
    <2> QED
      BY <2>3, <2>4, <2>5 DEF Parts
  <1>5. ASSUME NEW k \in T PROVE k + 1 \in T
    <2> SUFFICES ASSUME k + 1 <= n PROVE P(k + 1)
      <3> HIDE DEF P
      <3> QED
        OBVIOUS
    <2>1. P(k)
      <3> HIDE DEF P
      <3> QED
        OBVIOUS
    <2>2. k \in Nat /\ k \in 0 .. n - 1 /\ k + 1 \in 1 .. n /\ (k + 1) - 1 = k /\ k \in 0 .. n
      OBVIOUS
    <2> HIDE DEF T
    <2>3. PICK a \in Nat, m \in Nat : a = total[k] /\ m = many[k + 1]
      BY <1>1, <2>2 DEF Sums
    <2>4. total[k + 1] = a + m
      BY <2>2, <2>3 DEF Sums
    <2>5. \A j \in 1 .. m : /\ a + j \in Nat /\ a + j <= total[n]
                            /\ g[a + j] = part[k + 1][j - 1]
      <3> HIDE DEF g
      <3> QED
        BY <1>2, <2>2, <2>3
    <2>6. \A i \in 1 .. a + m : g[i] \in Seq(S)
      <3>1. total[k + 1] <= total[n] /\ total[n] \in Nat
        BY <1>1, <2>2
      <3> HIDE DEF g
      <3> QED
        BY <1>4, <2>4, <3>1
    <2>7. FlattenSeq([i \in 1 .. a + m |-> g[i]])
            = FlattenSeq([i \in 1 .. a |-> g[i]])
              \o FlattenSeq([j \in 1 .. m |-> part[k + 1][j - 1]])
      <3> HIDE DEF g
      <3>1. PICK x, y, z : /\ x = [i \in 1 .. a |-> g[i]]
                           /\ y = [j \in 1 .. m |-> part[k + 1][j - 1]]
                           /\ z = [i \in 1 .. a + m |-> g[i]]
        OBVIOUS
      <3>2. x \in [1 .. a -> Seq(S)]
        BY <2>6, <3>1
      <3>3. y \in [1 .. m -> Seq(S)]
        <4>1. \A j \in 1 .. m : y[j] = g[a + j] /\ a + j \in 1 .. a + m
          BY <2>5, <3>1
        <4>2. \A j \in 1 .. m : y[j] \in Seq(S)
          BY <2>6, <4>1
        <4> QED
          BY <3>1, <4>2
      <3>4. x \in Seq(Seq(S)) /\ y \in Seq(Seq(S)) /\ Len(x) = a /\ Len(y) = m
        BY <3>2, <3>3
      <3>5. x \o y = z
        <4>1. /\ x \o y \in Seq(Seq(S)) /\ Len(x \o y) = a + m
              /\ \A i \in 1 .. a + m : (x \o y)[i] = IF i <= a THEN x[i] ELSE y[i - a]
          BY <3>4, ConcatProperties
        <4>2. z \in [1 .. a + m -> Seq(S)]
          BY <2>6, <3>1
        <4>3. z \in Seq(Seq(S)) /\ Len(z) = a + m
          BY <4>2
        <4>4. ASSUME NEW i \in 1 .. a + m PROVE (x \o y)[i] = z[i]
          <5>1. CASE i <= a
            BY <3>1, <4>1, <5>1
          <5>2. CASE ~(i <= a)
            <6>1. PICK j \in 1 .. m : i = a + j
              BY <5>2
            <6>2. i - a = j /\ y[j] = g[a + j]
              BY <2>5, <3>1, <6>1
            <6> QED
              BY <3>1, <4>1, <5>2, <6>1, <6>2
          <5> QED
            BY <5>1, <5>2
        <4> QED
          BY <4>1, <4>3, <4>4, SeqEqual
      <3>6. FlattenSeq(x \o y) = FlattenSeq(x) \o FlattenSeq(y)
        BY <3>4, FlattenConcat
      <3> QED
        BY <3>1, <3>5, <3>6
    <2>9. FlattenSeq([j \in 1 .. m |-> part[k + 1][j - 1]]) = text[k + 1]
      BY <2>2, <2>3 DEF Parts
    <2>10. ToldOf(k + 1) = ToldOf(k) \o text[k + 1]
      <3> HIDE DEF g
      <3> QED
        BY <2>3, <2>4, <2>7, <2>9
    <2>11. Meant(k + 1) = Meant(k) \o text[k + 1]
      <3>1. \A i \in 1 .. k + 1 : text[i] \in Seq(S)
        <4>1. \A i \in 1 .. k + 1 : i \in 1 .. n
          BY <2>2
        <4> QED
          BY <4>1 DEF Parts
      <3>2. FlattenSeq([i \in 1 .. k + 1 |-> text[i]])
                = FlattenSeq([i \in 1 .. k |-> text[i]]) \o text[k + 1]
        <4> HIDE DEF g
        <4>1. k \in Nat
          BY <2>2
        <4> QED
          BY <3>1, <4>1, FlattenNext
      <3> QED
        BY <3>2
    <2> HIDE DEF ToldOf, Meant
    <2> QED
      BY <2>1, <2>10, <2>11
  <1>6. T = Nat
    <2> HIDE DEF T, P
    <2> QED
      BY <1>3, <1>5, Successors DEF T
  <1>7. P(n)
    <2> HIDE DEF P
    <2> QED
      BY <1>6
  <1>8. [j \in 1 .. total[n] |-> g[j]] = [j \in 1 .. total[n] |-> val[j - 1]]
    <2>1. \A j \in 1 .. total[n] : g[j] = val[j - 1]
      <3>1. total[n] \in Nat
        BY <1>1
      <3> QED
        BY <3>1
    <2> HIDE DEF g
    <2> QED
      BY <2>1
  <1> QED
    BY <1>7, <1>8

ShownChars == Chars \cup {" ", "Empty", "\\", "n", "t", "@", ">", ":", "-"}

LEMMA EmptyShown == <<"Empty">> \in Seq(ShownChars) /\ Len(<<"Empty">>) = 1
  <1>1. PICK e : e = "Empty"
    OBVIOUS
  <1>2. e \in ShownChars
    BY <1>1 DEF ShownChars
  <1>3. <<e>> \in Seq(ShownChars) /\ Len(<<e>>) = 1
    BY <1>2
  <1> QED
    BY <1>1, <1>3

\* One page only.
LEMMA FlattenOne ==
    ASSUME NEW S, NEW s \in Seq(S)
    PROVE  FlattenSeq([j \in 1 .. 1 |-> s]) = s
  <1>1. PICK ss : ss = [j \in 1 .. 1 |-> s]
    OBVIOUS
  <1>2. ss \in Seq(Seq(S)) /\ Len(ss) = 1 /\ ss[1] = s
    <2>1. PICK n \in Nat : n = 1
      OBVIOUS
    <2>2. ss \in [1 .. n -> Seq(S)] /\ ss[1] = s
      BY <1>1, <2>1
    <2>3. ss \in Seq(Seq(S)) /\ Len(ss) = n
      BY <2>2
    <2> QED
      BY <2>1, <2>2, <2>3
  <1>3. PICK g : /\ \A i \in 1 .. 1 : g[i] = IF i = 1 THEN ss[i] ELSE g[i - 1] \o ss[i]
                 /\ FlattenSeq(ss) = g[1]
    <2>1. 1 \in Nat /\ 1 = Len(ss) /\ 1 > 0
      BY <1>2
    <2> QED
      BY <1>2, <2>1, FlattenRecursion
  <1>4. g[1] = ss[1]
    BY <1>3
  <1> QED
    BY <1>1, <1>2, <1>3, <1>4

CoinIsTold(e, plain, v, m) ==
    /\ m \in Nat /\ m > 0
    /\ CoinText(e, plain) \in Seq(ShownChars)
    /\ \A q \in Nat : parser_formatAmountItem(e, plain, v, q).val \in Seq(ShownChars)
    /\ FlattenSeq([j \in 1 .. m |-> parser_formatAmountItem(e, plain, v, j - 1).val])
        = CoinText(e, plain)

\* The pages of a coin are its text.
LEMMA CoinTold ==
    ASSUME NEW e \in AmountElement, NEW plain, NEW v \in Nat, v >= MAX_TITLE_SIZE,
           FirstPage(e, plain, MAX_TITLE_SIZE).err = "parser_ok",
           e.tokens = <<>> \/ Coin(e)
    PROVE  CoinIsTold(e, plain, v, FirstPage(e, plain, v).pageCount)
  <1>0. /\ UINT8_MAX \in Nat /\ MAX_TITLE_SIZE \in Nat /\ 1 < MAX_TITLE_SIZE
        /\ FORMATTED_AMOUNT_BUFFER_SIZE \in Nat
        /\ FORMATTED_AMOUNT_BUFFER_SIZE <= UINT8_MAX * (MAX_TITLE_SIZE - 1)
    BY SizeAssumption
  <1>1. CASE e.tokens = <<>>
    <2>1. Own(e) = {}
      BY <1>1 DEF Own
    <2>2. \A q : parser_formatAmountItem(e, plain, v, q) = Page(<<>>, <<"Empty">>, 1)
      BY <2>1 DEF parser_formatAmountItem
    <2>3. /\ FirstPage(e, plain, v).pageCount = 1
          /\ \A q : parser_formatAmountItem(e, plain, v, q).val = <<"Empty">>
      BY <2>2 DEF FirstPage, Page
    <2>4. CoinText(e, plain) = <<"Empty">>
      BY <1>1 DEF CoinText
    <2>5. PICK s : s = <<"Empty">>
      OBVIOUS
    <2>6. s \in Seq(ShownChars)
      BY <2>5, EmptyShown
    <2>7. [j \in 1 .. 1 |-> parser_formatAmountItem(e, plain, v, j - 1).val] = [j \in 1 .. 1 |-> s]
      BY <2>3, <2>5
    <2>8. FlattenSeq([j \in 1 .. 1 |-> parser_formatAmountItem(e, plain, v, j - 1).val]) = s
      BY <2>6, <2>7, FlattenOne
    <2>9. 1 \in Nat /\ 1 > 0
      OBVIOUS
    <2> QED
      BY <2>3, <2>4, <2>5, <2>6, <2>8, <2>9 DEF CoinIsTold
  <1>2. CASE e.tokens # <<>> /\ Coin(e)
    <2>1. PICK text : text = FormatCoin(e.tokens[2].text, e.tokens[4].text, plain)
      OBVIOUS
    <2>2. Own(e) # {}
      <3>1. 1 \in DOMAIN e.tokens /\ e.tokens[1].own
        BY <1>2 DEF Coin, AmountElement
      <3> QED
        BY <3>1 DEF Own
    <2>3. /\ text \in Seq(Chars \cup {" "})
          /\ Len(text) \in Nat /\ 0 < Len(text) /\ Len(text) < FORMATTED_AMOUNT_BUFFER_SIZE
      <3>1. /\ text \in Seq(Chars \cup {" "})
            /\ 0 < Len(text) /\ Len(text) < FORMATTED_AMOUNT_BUFFER_SIZE
        BY <2>1, <2>2, CoinLength DEF FirstPage
      <3> QED
        BY <3>1, LenProperties
    <2>13. Len(text) \in Nat /\ 0 < Len(text) /\ Len(text) < FORMATTED_AMOUNT_BUFFER_SIZE
      BY <2>3
    <2>4. text \in Seq(ShownChars)
      <3>1. Chars \cup {" "} \subseteq ShownChars
        BY DEF ShownChars
      <3> QED
        BY <2>3, <3>1, SeqMonotonic
    <2>5. ASSUME NEW q
          PROVE  /\ parser_formatAmountItem(e, plain, v, q).val = pageString(text, v, q)
                 /\ parser_formatAmountItem(e, plain, v, q).pageCount = uint8(PagesOf(text, v))
      <3>1. parser_formatAmountItem(e, plain, v, q).err = "parser_ok"
        BY CoinErrors DEF FirstPage
      <3> QED
        BY <2>1, <2>2, <3>1 DEF parser_formatAmountItem, Page, Error
    <2>6. uint8(PagesOf(text, v)) = PagesOf(text, v) /\ PagesOf(text, v) \in Nat /\ PagesOf(text, v) > 0
      <3>1. PICK bound : bound = UINT8_MAX * (MAX_TITLE_SIZE - 1)
        OBVIOUS
      <3>2. bound \in Int
        BY <1>0, <3>1
      <3>3. Len(text) <= bound
        BY <1>0, <2>13, <3>1, <3>2
      <3>4. /\ PagesOf(text, v) \in Nat /\ PagesOf(text, v) <= PagesOf(text, MAX_TITLE_SIZE)
            /\ PagesOf(text, v) > 0
            /\ PagesOf(text, MAX_TITLE_SIZE) \in Nat /\ PagesOf(text, MAX_TITLE_SIZE) <= UINT8_MAX
        BY <1>0, <2>13, <3>1, <3>3, FewerPages
      <3>5. PICK n \in Nat : n = PagesOf(text, v)
        BY <3>4
      <3>6. n <= UINT8_MAX
        BY <1>0, <3>4, <3>5
      <3>7. uint8(n) = n
        BY <1>0, <3>6 DEF uint8
      <3> QED
        BY <3>4, <3>5, <3>7
    <2>7. PICK m \in Nat : m = PagesOf(text, v) /\ m > 0 /\ m = FirstPage(e, plain, v).pageCount
      BY <2>5, <2>6 DEF FirstPage
    <2>8. v > 1
      BY <1>0
    <2>9. \A q \in Nat : parser_formatAmountItem(e, plain, v, q).val \in Seq(ShownChars)
      BY <2>4, <2>5, <2>8, PageParts
    <2>10. [j \in 1 .. m |-> parser_formatAmountItem(e, plain, v, j - 1).val]
            = [j \in 1 .. m |-> pageString(text, v, j - 1)]
      BY <2>5
    <2>11. FlattenSeq([j \in 1 .. m |-> pageString(text, v, j - 1)]) = text
      BY <2>4, <2>7, <2>8, TextTold
    <2>12. CoinText(e, plain) = text
      BY <1>2, <2>1 DEF CoinText
    <2> QED
      BY <2>4, <2>7, <2>9, <2>10, <2>11, <2>12 DEF CoinIsTold
  <1> QED
    BY <1>1, <1>2

AmountIsTold(value, plain, v, many) ==
    /\ many \in Nat /\ many > 0
    /\ FlattenSeq([j \in 1 .. many |-> parser_formatAmount(value, plain, v, j - 1).val])
        = AmountText(value.elements, plain)

\* The loop finds the pages of the coins one after the other.
LEMMA CoinsTold ==
    ASSUME NEW value \in AmountValue, NEW plain, value.array, value.elements # <<>>,
           parser_formatAmount(value, plain, MAX_TITLE_SIZE, 0).err = "parser_ok",
           CoinsOnly(value.elements), NEW v \in Nat, v >= MAX_TITLE_SIZE
    PROVE  AmountIsTold(value, plain, v, parser_formatAmount(value, plain, v, 0).pageCount)
  <1>1. PICK coins : coins = value.elements
    OBVIOUS
  <1>2. coins \in Seq(AmountElement)
    BY <1>1 DEF AmountValue
  <1>3. PICK n \in Nat : n = Len(coins) /\ n > 0
    BY <1>1, <1>2, EmptySeq
  <1>4. CountCoins(coins, plain, MAX_TITLE_SIZE, 0)[n].err = "parser_ok"
    BY <1>1, <1>3 DEF parser_formatAmount, Error
  <1>5. PICK max, first : /\ max = CountCoins(coins, plain, MAX_TITLE_SIZE, 0)
                          /\ first = CountCoins(coins, plain, v, 0)
    OBVIOUS
  <1>6. ASSUME NEW p \in Nat, NEW k \in 0 .. n
        PROVE  LET count == CountCoins(coins, plain, v, p) IN
               /\ LoopOK(count[k], k, p, max[k].totalPages)
               /\ count[k].totalPages = first[k].totalPages
               /\ Found(count[k], p, first, coins, plain, v)
               /\ Adds(first, k, coins, plain, v)
    BY <1>2, <1>3, <1>4, <1>5, <1>6, ReviewedLoop
  <1>7. \A i \in 1 .. n : FirstPage(coins[i], plain, MAX_TITLE_SIZE).err = "parser_ok"
    BY <1>2, <1>3, <1>4, ValidatedLoop
  <1>8. ASSUME NEW i \in 1 .. n
        PROVE  CoinIsTold(coins[i], plain, v, FirstPage(coins[i], plain, v).pageCount)
    <2>1. coins[i] \in AmountElement /\ i \in DOMAIN coins
      BY <1>2, <1>3
    <2>2. coins[i].tokens = <<>> \/ Coin(coins[i])
      BY <1>1, <2>1 DEF CoinsOnly
    <2> QED
      BY <1>7, <2>1, <2>2, CoinTold
  <1> DEFINE total == [k \in 0 .. n |-> first[k].totalPages]
             many == [i \in 1 .. n |-> FirstPage(coins[i], plain, v).pageCount]
             part == [i \in 1 .. n |-> [q \in Nat |-> parser_formatAmountItem(coins[i], plain, v, q).val]]
             text == [i \in 1 .. n |-> CoinText(coins[i], plain)]
             val == [p \in Nat |-> parser_formatAmount(value, plain, v, p).val]
  <1>9. Sums(n, total, many)
    <2>1. total[0] = 0
      <3>1. first[0] = [err |-> "parser_ok", totalPages |-> 0, showItem |-> 0, showPageIdx |-> 0]
        BY <1>2, <1>3, <1>5, CoinsCounted
      <3> QED
        BY <3>1
    <2>2. ASSUME NEW k \in 1 .. n PROVE many[k] \in Nat /\ total[k] = total[k - 1] + many[k]
      <3>1. k \in 0 .. n /\ k - 1 \in 0 .. n /\ 0 \in Nat /\ k > 0
        OBVIOUS
      <3>2. Adds(first, k, coins, plain, v)
        BY <1>6, <3>1
      <3>3. first[k].totalPages = first[k - 1].totalPages + FirstPage(coins[k], plain, v).pageCount
        BY <3>1, <3>2 DEF Adds
      <3>4. FirstPage(coins[k], plain, v).pageCount \in Nat
        BY <1>8 DEF CoinIsTold
      <3> QED
        BY <3>1, <3>3, <3>4
    <2> HIDE DEF total, many
    <2> QED
      BY <2>1, <2>2 DEF Sums
  <1>10. Parts(ShownChars, n, many, part, text)
    <2> SUFFICES ASSUME NEW i \in 1 .. n
                 PROVE  /\ \A q \in 0 .. many[i] - 1 : part[i][q] \in Seq(ShownChars)
                        /\ FlattenSeq([j \in 1 .. many[i] |-> part[i][j - 1]]) = text[i]
                        /\ text[i] \in Seq(ShownChars)
      <3> HIDE DEF many, part, text
      <3> QED
        BY DEF Parts
    <2>1. PICK m : m = many[i]
      OBVIOUS
    <2>2. CoinIsTold(coins[i], plain, v, m)
      BY <1>8, <2>1
    <2>3. m \in Nat
      BY <2>2 DEF CoinIsTold
    <2>4. [j \in 1 .. m |-> part[i][j - 1]]
            = [j \in 1 .. m |-> parser_formatAmountItem(coins[i], plain, v, j - 1).val]
      <3>1. \A j \in 1 .. m : part[i][j - 1] = parser_formatAmountItem(coins[i], plain, v, j - 1).val
        BY <2>3
      <3> HIDE DEF part
      <3> QED
        BY <3>1
    <2>5. \A q \in 0 .. m - 1 : part[i][q] \in Seq(ShownChars)
      BY <2>2, <2>3 DEF CoinIsTold
    <2>6. text[i] = CoinText(coins[i], plain)
      OBVIOUS
    <2> HIDE DEF many, part, text
    <2> QED
      BY <2>1, <2>2, <2>4, <2>5, <2>6 DEF CoinIsTold
  <1>11. PICK t \in Nat : t = total[n] /\ t > 0
    <2> HIDE DEF total, many
    <2>1. /\ \A k \in 0 .. n : total[k] \in Nat
          /\ \A i, k \in 0 .. n : i <= k => total[i] <= total[k]
      BY <1>9, SumsGrow
    <2>2. 1 \in 1 .. n /\ 1 \in 0 .. n /\ 0 \in 0 .. n /\ n \in 0 .. n /\ 1 - 1 = 0 /\ 1 <= n
      BY <1>3
    <2>3. many[1] \in Nat /\ total[1] = 0 + many[1]
      BY <1>9, <2>2 DEF Sums
    <2>4. many[1] > 0
      BY <1>8, <2>2 DEF CoinIsTold, many
    <2> QED
      BY <2>1, <2>2, <2>3, <2>4
  <1>12. ASSUME NEW p \in Nat, p < t
         PROVE  /\ parser_formatAmount(value, plain, v, p).pageCount = t
                /\ \E i \in 1 .. n : \E q \in Nat : OnePart(i, q, p, total, many, part, val)
    <2>1. PICK l : l = CountCoins(coins, plain, v, p)[n]
      OBVIOUS
    <2>2. n \in 0 .. n
      OBVIOUS
    <2>3. /\ LoopOK(l, n, p, max[n].totalPages) /\ l.totalPages = first[n].totalPages
          /\ Found(l, p, first, coins, plain, v)
      BY <1>6, <2>1, <2>2
    <2>4. l.totalPages = t
      BY <1>11, <2>2, <2>3
    <2>5. l.err = "parser_ok" /\ l.showItem \in Nat /\ l.showPageIdx \in Nat
      BY <2>3 DEF LoopOK, Loops
    <2>6. l.showItem # 0
      <3>1. l.showItem = 0 => t + l.showPageIdx = p
        BY <2>3, <2>4 DEF LoopOK
      <3> QED
        BY <1>12, <2>5, <3>1
    <2>7. l.showItem \in 1 .. n
      <3>1. l.showItem <= n
        BY <2>3, <2>6 DEF LoopOK
      <3> QED
        BY <2>5, <2>6, <3>1
    <2>8. PICK i \in 1 .. n, q \in Nat : i = l.showItem /\ q = l.showPageIdx
      BY <2>5, <2>7
    <2>9. first[i - 1].totalPages + q = p /\ q < FirstPage(coins[i], plain, v).pageCount
      BY <2>3, <2>6, <2>8 DEF Found
    <2>10. parser_formatAmountItem(coins[i], plain, v, q).err = "parser_ok"
      BY <1>7, CoinErrors DEF FirstPage
    <2>11. /\ parser_formatAmount(value, plain, v, p).pageCount = t
           /\ parser_formatAmount(value, plain, v, p).val
                = parser_formatAmountItem(coins[i], plain, v, q).val
      <3> HIDE DEF total, many, part, val, text
      <3>1. l = CountCoins(value.elements, plain, v, p)[Len(value.elements)] /\ t = l.totalPages
        BY <1>1, <1>3, <2>1, <2>4
      <3>2. parser_formatAmountItem(value.elements[l.showItem], plain, v, l.showPageIdx).err
                = "parser_ok"
        BY <1>1, <2>8, <2>10
      <3>3. value.array /\ l.err = "parser_ok" /\ p < t /\ l.showItem # 0
        BY <1>12, <2>5, <2>6
      <3>4. /\ parser_formatAmount(value, plain, v, p).pageCount = t
            /\ parser_formatAmount(value, plain, v, p).val
                = parser_formatAmountItem(value.elements[l.showItem], plain, v, l.showPageIdx).val
        BY <3>1, <3>2, <3>3, AmountCases
      <3> QED
        BY <1>1, <2>8, <3>4
    <2>12. /\ total[i - 1] = first[i - 1].totalPages /\ many[i] = FirstPage(coins[i], plain, v).pageCount
           /\ part[i][q] = parser_formatAmountItem(coins[i], plain, v, q).val
           /\ val[p] = parser_formatAmount(value, plain, v, p).val
      <3>1. i - 1 \in 0 .. n
        OBVIOUS
      <3> QED
        BY <3>1
    <2> HIDE DEF total, many, part, val
    <2>13. OnePart(i, q, p, total, many, part, val)
      BY <2>9, <2>11, <2>12 DEF OnePart
    <2> QED
      BY <2>11, <2>13
  <1>13. PartByPart(n, total, many, part, val)
    <2>1. ASSUME NEW p \in 0 .. total[n] - 1
          PROVE  \E i \in 1 .. n : \E q \in Nat : OnePart(i, q, p, total, many, part, val)
      <3> HIDE DEF total, many, part, val
      <3>1. p \in Nat /\ p < t
        BY <1>11
      <3> QED
        BY <1>12, <3>1
    <2> HIDE DEF total, many, part, val
    <2> QED
      BY <2>1 DEF PartByPart
  <1>14. FlattenSeq([j \in 1 .. t |-> val[j - 1]]) = FlattenSeq([i \in 1 .. n |-> text[i]])
    <2> HIDE DEF total, many, part, val, text
    <2> QED
      BY <1>9, <1>10, <1>11, <1>13, PagesInOrder
  <1>15. [j \in 1 .. t |-> val[j - 1]] = [j \in 1 .. t |-> parser_formatAmount(value, plain, v, j - 1).val]
    <2>1. \A j \in 1 .. t : val[j - 1] = parser_formatAmount(value, plain, v, j - 1).val
      OBVIOUS
    <2> HIDE DEF val
    <2> QED
      BY <2>1
  <1>16. [i \in 1 .. n |-> text[i]] = [i \in DOMAIN coins |-> CoinText(coins[i], plain)]
    <2>1. DOMAIN coins = 1 .. n
      BY <1>2, <1>3
    <2> QED
      BY <2>1
  <1>17. parser_formatAmount(value, plain, v, 0).pageCount = t
    <2>1. 0 \in Nat /\ 0 < t
      BY <1>11
    <2> QED
      BY <1>12, <2>1
  <1> HIDE DEF val, text, part, many, total
  <1>18. AmountText(coins, plain) = FlattenSeq([j \in 1 .. t |-> parser_formatAmount(value, plain, v, j - 1).val])
    BY <1>1, <1>14, <1>15, <1>16 DEF AmountText
  <1> QED
    BY <1>1, <1>11, <1>17, <1>18 DEF AmountIsTold

----------------------------------------------------------------------------
(* What the pages of an item say                                           *)

\* An amount that parser_validate accepted is told on the pages it counts.
LEMMA AmountTold ==
    ASSUME NEW value \in AmountValue, NEW plain,
           parser_formatAmount(value, plain, MAX_TITLE_SIZE, 0).err = "parser_ok",
           CoinsOnly(value.elements), NEW v \in Nat, v >= MAX_TITLE_SIZE
    PROVE  AmountIsTold(value, plain, v, parser_formatAmount(value, plain, v, 0).pageCount)
  <1>1. PICK coins : coins = value.elements
    OBVIOUS
  <1>2. CASE ~value.array
    <2>1. coins \in [1 .. 1 -> AmountElement]
      BY <1>1, <1>2 DEF AmountValue
    <2>2. 1 \in DOMAIN coins /\ coins[1] \in AmountElement /\ coins # <<>>
      BY <2>1
    <2>3. \A w, q : parser_formatAmount(value, plain, w, q) = parser_formatAmountItem(coins[1], plain, w, q)
      BY <1>1, <1>2 DEF parser_formatAmount
    <2>4. coins[1].tokens = <<>> \/ Coin(coins[1])
      BY <1>1, <2>2 DEF CoinsOnly
    <2>5. FirstPage(coins[1], plain, MAX_TITLE_SIZE).err = "parser_ok"
      BY <2>3 DEF FirstPage
    <2>6. CoinIsTold(coins[1], plain, v, FirstPage(coins[1], plain, v).pageCount)
      BY <2>2, <2>4, <2>5, CoinTold
    <2>7. PICK s : s = CoinText(coins[1], plain)
      OBVIOUS
    <2>8. s \in Seq(ShownChars)
      BY <2>6, <2>7 DEF CoinIsTold
    <2>9. AmountText(coins, plain) = s
      <3>1. [i \in DOMAIN coins |-> CoinText(coins[i], plain)] = [j \in 1 .. 1 |-> s]
        BY <2>1, <2>7
      <3> QED
        BY <2>2, <2>8, <3>1, FlattenOne DEF AmountText
    <2> QED
      BY <1>1, <2>3, <2>6, <2>7, <2>9 DEF CoinIsTold, AmountIsTold, FirstPage
  <1>3. CASE value.array /\ coins # <<>>
    BY <1>1, <1>3, CoinsTold
  <1>4. CASE value.array /\ coins = <<>>
    <2>1. Len(coins) = 0 /\ 0 \in Nat
      BY <1>4
    <2>2. PICK loop : loop = CountCoins(coins, plain, v, 0)[Len(coins)]
      OBVIOUS
    <2>3. loop = [err |-> "parser_ok", totalPages |-> 0, showItem |-> 0, showPageIdx |-> 0]
      BY <2>1, <2>2, CoinsCounted
    <2>4. loop.err = "parser_ok" /\ loop.totalPages = 0
      BY <2>3
    <2>5. parser_formatAmount(value, plain, v, 0) = Page(<<>>, <<"Empty">>, 1)
      <3>1. loop = CountCoins(value.elements, plain, v, 0)[Len(value.elements)]
        BY <1>1, <2>2
      <3>2. PICK t \in Nat : t = loop.totalPages /\ t = 0
        BY <2>1, <2>4
      <3>3. value.array /\ loop.err = "parser_ok" /\ 0 \in Nat /\ 0 = 0
        BY <1>4, <2>4
      <3> QED
        BY <3>1, <3>2, <3>3, AmountCases
    <2>6. PICK s : s = <<"Empty">>
      OBVIOUS
    <2>7. /\ parser_formatAmount(value, plain, v, 0).pageCount = 1
          /\ parser_formatAmount(value, plain, v, 0).val = s
      BY <2>5, <2>6 DEF Page
    <2>8. [j \in 1 .. 1 |-> parser_formatAmount(value, plain, v, j - 1).val] = [j \in 1 .. 1 |-> s]
      <3>1. \A j \in 1 .. 1 : j - 1 = 0
        OBVIOUS
      <3> QED
        BY <2>7, <3>1
    <2>9. s \in Seq(ShownChars)
      BY <2>6, EmptyShown
    <2>10. FlattenSeq([j \in 1 .. 1 |-> parser_formatAmount(value, plain, v, j - 1).val]) = s
      BY <2>8, <2>9, FlattenOne
    <2>11. AmountText(coins, plain) = s
      BY <1>4, <2>6 DEF AmountText
    <2>12. 1 \in Nat /\ 1 > 0
      OBVIOUS
    <2> QED
      BY <1>1, <2>7, <2>10, <2>11, <2>12 DEF AmountIsTold
  <1> QED
    BY <1>2, <1>3, <1>4

\* How many pages the screen asks for when it was told m.
TurnsFor(m) == IF m > 0 THEN m ELSE 1

LEMMA NoPages ==
    ASSUME NEW s, s = <<>>, NEW v \in Nat, v >= MAX_TITLE_SIZE
    PROVE  TurnsFor(uint8(PagesOf(s, v))) = 1
  <1>1. MAX_TITLE_SIZE \in Nat /\ UINT8_MAX \in Nat /\ 1 < MAX_TITLE_SIZE
    BY SizeAssumption
  <1>2. PICK x : x = v - 2
    OBVIOUS
  <1>3. PICK a : a = v - 1
    OBVIOUS
  <1>4. x \in Nat /\ a \in Nat \ {0} /\ x < a * 0 + a /\ x = 0 + v - 2
    BY <1>1, <1>2, <1>3
  <1>5. x \div a \in Nat /\ x \div a <= 0
    BY <1>4, Quotient, QuotientBelow
  <1>6. PagesOf(s, v) = 0
    BY <1>3, <1>4, <1>5 DEF PagesOf
  <1>7. uint8(0) = 0
    BY <1>1 DEF uint8
  <1> QED
    BY <1>6, <1>7 DEF TurnsFor

\* A text is told on the pages the screen asks for, a byte counting them.
LEMMA WholeText ==
    ASSUME NEW S, NEW s \in Seq(S), Len(s) <= UINT8_MAX * (MAX_TITLE_SIZE - 1),
           NEW v \in Nat, v >= MAX_TITLE_SIZE
    PROVE  FlattenSeq([j \in 1 .. TurnsFor(uint8(PagesOf(s, v))) |-> pageString(s, v, j - 1)]) = s
  <1>0. MAX_TITLE_SIZE \in Nat /\ UINT8_MAX \in Nat /\ 1 < MAX_TITLE_SIZE
    BY SizeAssumption
  <1>1. v > 1
    BY <1>0
  <1>2. CASE s # <<>>
    <2>1. TurnsFor(uint8(PagesOf(s, v))) = PagesOf(s, v)
      BY <1>2, TextCount DEF TurnsFor
    <2> QED
      BY <1>1, <2>1, TextTold
  <1>3. CASE s = <<>>
    <2>1. pageString(s, v, 0) = <<>>
      <3>1. 0 * (v - 1) + 1 = 1 /\ (0 + 1) * (v - 1) = v - 1 /\ ~(v - 1 < 0)
        BY <1>1
      <3>2. pageString(s, v, 0) = SubSeq(s, 1, 0)
        BY <1>3, <3>1 DEF pageString, Bytes
      <3> QED
        BY <3>2, SubSeqEmpty
    <2>2. PICK m : m = TurnsFor(uint8(PagesOf(s, v)))
      OBVIOUS
    <2>3. m = 1
      BY <1>3, <2>2, NoPages
    <2>4. [j \in 1 .. m |-> pageString(s, v, j - 1)] = [j \in 1 .. 1 |-> s]
      <3>1. \A j \in 1 .. 1 : j - 1 = 0
        OBVIOUS
      <3> QED
        BY <1>3, <2>1, <2>3, <3>1
    <2> QED
      BY <1>1, <2>2, <2>4, FlattenOne
  <1> QED
    BY <1>2, <1>3

----------------------------------------------------------------------------
(* The pages shown so far                                                  *)

LEMMA AppendAt ==
    ASSUME NEW n \in Nat, NEW g, NEW e
    PROVE  Append([i \in 1 .. n |-> g[i]], e) = [i \in 1 .. n + 1 |-> IF i <= n THEN g[i] ELSE e]
  <1>1. PICK ss, S : ss = [i \in 1 .. n |-> g[i]] /\ S = {g[i] : i \in 1 .. n} \cup {e}
    OBVIOUS
  <1>2. ss \in Seq(S) /\ Len(ss) = n
    <2>1. ss \in [1 .. n -> S]
      BY <1>1
    <2> QED
      BY <2>1
  <1> QED
    BY <1>1, <1>2

\* A page as it is kept, and what is kept of the items so far: of those that
\* were left all of their pages, of the one at hand those up to pageIdx.
PageAt(i, p) == [key |-> Item(i, p).key, val |-> Item(i, p).val, pageCount |-> Item(i, p).pageCount]
Turns(i) == TurnsFor(Item(i, 0).pageCount)
Turned(i) == IF i < displayIdx THEN Turns(i) ELSE pageIdx
History == [i \in 1 .. displayIdx |-> [j \in 1 .. Turned(i) |-> PageAt(i, j - 1)]]

HistoryInv ==
    phase \in {"review", "done"} =>
        /\ displayIdx \in Nat \ {0} /\ pageIdx \in Nat
        /\ pages = History
        /\ \/ pageIdx = 0 /\ pageCount = 1
           \/ /\ 0 < pageIdx /\ pageIdx <= Turns(displayIdx)
              /\ pageCount = Item(displayIdx, 0).pageCount
        /\ phase = "done" => displayIdx > NumItems

\* The item at hand goes on telling how many pages it has.
Steady ==
    phase = "review" /\ displayIdx <= NumItems =>
        /\ Item(displayIdx, 0).pageCount \in Nat
        /\ pageIdx < pageCount /\ Item(displayIdx, pageIdx).err = "parser_ok"
            => Item(displayIdx, pageIdx).pageCount = Item(displayIdx, 0).pageCount

LEMMA HistoryBegins ==
    ASSUME displayIdx' = 1, pageIdx' = 0, pageCount' = 1, pages' = <<<<>>>>, phase' = "review"
    PROVE  HistoryInv'
  <1>1. PICK none : none = <<>>
    OBVIOUS
  <1>2. pages' = <<none>>
    BY <1>1
  <1>3. [j \in 1 .. 0 |-> PageAt(1, j - 1)'] = none
    BY <1>1
  <1>4. History' = [i \in 1 .. 1 |-> [j \in 1 .. Turned(i)' |-> PageAt(i, j - 1)']]
    BY DEF History
  <1>5. Turned(1)' = 0
    BY DEF Turned
  <1>6. History' = [i \in 1 .. 1 |-> none]
    <2>1. \A i \in 1 .. 1 : i = 1
      OBVIOUS
    <2> QED
      BY <1>3, <1>4, <1>5, <2>1
  <1>7. <<none>> = [i \in 1 .. 1 |-> none]
    OBVIOUS
  <1> QED
    BY <1>2, <1>6, <1>7 DEF HistoryInv

\* Only the steadiness of the item at hand depends on what is shown.
LEMMA HistoryKept ==
    ASSUME HistoryInv, Steady, [Next]_vars
    PROVE  HistoryInv'
  <1>1. ASSUME NEW d \in Documents, parser_parse(d) PROVE HistoryInv'
    BY <1>1 DEF parser_parse, HistoryInv
  <1>2. ASSUME NEW d \in Documents, ShowAddress(d) PROVE HistoryInv'
    BY <1>2, HistoryBegins DEF ShowAddress
  <1>3. CASE parser_validate
    BY <1>3 DEF parser_validate, HistoryInv
  <1>4. CASE Validated
    BY <1>4, HistoryBegins DEF Validated
  <1>5. ASSUME tx' = tx, view' = view
        PROVE  \A i, p : PageAt(i, p)' = PageAt(i, p) /\ Item(i, p)' = Item(i, p)
    BY <1>5 DEF PageAt, Item, parser_getItem, addr_getItem, parser_getJsonItem
  <1>6. CASE NextPage
    <2>1. /\ phase = "review" /\ displayIdx \in Nat \ {0} /\ pageIdx \in Nat /\ pages = History
          /\ pageIdx < pageCount /\ tx' = tx /\ view' = view /\ displayIdx' = displayIdx
      BY <1>6 DEF NextPage, HistoryInv
    <2>2. CASE Item(displayIdx, pageIdx).err # "parser_ok"
      BY <1>6, <2>2 DEF NextPage, HistoryInv
    <2>3. CASE Item(displayIdx, pageIdx).err = "parser_ok"
      <3>1. /\ pages' = [pages EXCEPT ![displayIdx] = Append(@, PageAt(displayIdx, pageIdx))]
            /\ pageCount' = Item(displayIdx, pageIdx).pageCount /\ pageIdx' = pageIdx + 1
            /\ phase' = phase
        BY <1>6, <2>3 DEF NextPage, PageAt
      <3>2. pageCount' = Item(displayIdx, 0).pageCount
        BY <1>6, <2>3, <3>1 DEF NextPage, Steady
      <3>3. Item(displayIdx, 0)' = Item(displayIdx, 0) /\ Turns(displayIdx)' = Turns(displayIdx)
        <4>1. Item(displayIdx, 0)' = Item(displayIdx, 0)
          BY <2>1 DEF Item, parser_getItem, addr_getItem, parser_getJsonItem
        <4> QED
          BY <4>1 DEF Turns
      <3>4. pageIdx' <= Turns(displayIdx)
        <4>1. PICK m \in Nat : m = Item(displayIdx, 0).pageCount
          BY <1>6 DEF NextPage, Steady
        <4>2. pageIdx = 0 \/ pageIdx < m
          BY <2>1, <4>1 DEF HistoryInv
        <4>3. Turns(displayIdx) = IF m > 0 THEN m ELSE 1
          BY <4>1 DEF Turns, TurnsFor
        <4> QED
          BY <2>1, <3>1, <4>2, <4>3
      <3>5. pages' = History'
        <4>1. PICK n \in Nat, k \in Nat \ {0} : n = pageIdx /\ k = displayIdx
          BY <2>1
        <4> DEFINE g == [j \in Nat |-> PageAt(k, j - 1)]
        <4>2. pages[k] = [j \in 1 .. n |-> g[j]]
          <5>1. k \in 1 .. displayIdx /\ Turned(k) = n
            BY <4>1 DEF Turned
          <5>2. pages[k] = [j \in 1 .. n |-> PageAt(k, j - 1)]
            BY <2>1, <5>1 DEF History
          <5>3. \A j \in 1 .. n : g[j] = PageAt(k, j - 1)
            OBVIOUS
          <5> HIDE DEF g
          <5> QED
            BY <5>2, <5>3
        <4>3. Append(pages[k], PageAt(k, n)) = [j \in 1 .. n + 1 |-> PageAt(k, j - 1)]
          <5>1. \A j \in 1 .. n + 1 : (IF j <= n THEN g[j] ELSE PageAt(k, n)) = PageAt(k, j - 1)
            OBVIOUS
          <5> HIDE DEF g
          <5>2. Append(pages[k], PageAt(k, n)) = [j \in 1 .. n + 1 |-> IF j <= n THEN g[j] ELSE PageAt(k, n)]
            BY <4>2, AppendAt
          <5> QED
            BY <5>1, <5>2
        <4>4. History' = [i \in 1 .. k |-> [j \in 1 .. Turned(i)' |-> PageAt(i, j - 1)]]
          <5>1. \A i, p : PageAt(i, p)' = PageAt(i, p)
            BY <1>5, <2>1
          <5> QED
            BY <2>1, <4>1, <5>1 DEF History
        <4>5. /\ Turned(k)' = n + 1
              /\ \A i \in 1 .. k : i # k => Turned(i)' = Turned(i)
          <5>1. \A i : Turns(i)' = Turns(i)
            BY <1>5, <2>1 DEF Turns
          <5> QED
            BY <2>1, <3>1, <4>1, <5>1 DEF Turned
        <4>6. /\ pages' = [pages EXCEPT ![k] = Append(pages[k], PageAt(k, n))]
              /\ pages = [i \in 1 .. k |-> [j \in 1 .. Turned(i) |-> PageAt(i, j - 1)]]
          BY <2>1, <3>1, <4>1 DEF History
        <4> HIDE DEF g
        <4>7. ASSUME NEW i \in 1 .. k
              PROVE  pages'[i] = [j \in 1 .. Turned(i)' |-> PageAt(i, j - 1)]
          BY <4>3, <4>5, <4>6
        <4>8. pages' = [i \in 1 .. k |-> pages'[i]]
          BY <4>6
        <4> QED
          BY <4>4, <4>7, <4>8
      <3> QED
        <4>1. pageIdx' \in Nat /\ 0 < pageIdx'
          BY <2>1, <3>1
        <4> QED
          BY <2>1, <3>1, <3>2, <3>3, <3>4, <3>5, <4>1 DEF HistoryInv
    <2> QED
      BY <2>2, <2>3
  <1>7. CASE NextItem
    <2>1. /\ phase = "review" /\ displayIdx \in Nat \ {0} /\ pageIdx \in Nat /\ pages = History
          /\ pageIdx >= pageCount /\ tx' = tx /\ view' = view /\ displayIdx' = displayIdx + 1
          /\ pageIdx' = 0 /\ pageCount' = 1 /\ pages' = Append(pages, <<>>) /\ phase' = phase
      BY <1>7 DEF NextItem, HistoryInv
    <2>2. pageIdx = Turns(displayIdx)
      <3>1. PICK m \in Nat : m = Item(displayIdx, 0).pageCount
        BY <1>7 DEF NextItem, Steady
      <3>2. Turns(displayIdx) = IF m > 0 THEN m ELSE 1
        BY <3>1 DEF Turns, TurnsFor
      <3>3. pageIdx # 0
        BY <2>1 DEF HistoryInv
      <3>4. pageIdx <= Turns(displayIdx) /\ pageCount = m
        BY <2>1, <3>1, <3>3 DEF HistoryInv
      <3> QED
        BY <2>1, <3>2, <3>3, <3>4
    <2>3. pages' = History'
      <3>1. PICK k \in Nat \ {0} : k = displayIdx
        BY <2>1
      <3>2. PICK none : none = <<>>
        OBVIOUS
      <3>3. pages = [i \in 1 .. k |-> pages[i]]
        BY <2>1, <3>1 DEF History
      <3>4. pages' = [i \in 1 .. k + 1 |-> IF i <= k THEN pages[i] ELSE none]
        <4>1. Append([i \in 1 .. k |-> pages[i]], none)
                = [i \in 1 .. k + 1 |-> IF i <= k THEN pages[i] ELSE none]
          BY AppendAt
        <4> QED
          BY <2>1, <3>2, <3>3, <4>1
      <3>5. History' = [i \in 1 .. k + 1 |-> [j \in 1 .. Turned(i)' |-> PageAt(i, j - 1)]]
        <4>1. \A i, p : PageAt(i, p)' = PageAt(i, p)
          BY <1>5, <2>1
        <4> QED
          BY <2>1, <3>1, <4>1 DEF History
      <3>6. Turned(k + 1)' = 0 /\ \A i \in 1 .. k : Turned(i)' = Turned(i)
        <4>1. \A i : Turns(i)' = Turns(i)
          BY <1>5, <2>1 DEF Turns
        <4> QED
          BY <2>1, <2>2, <3>1, <4>1 DEF Turned
      <3>7. \A i \in 1 .. k : pages[i] = [j \in 1 .. Turned(i) |-> PageAt(i, j - 1)]
        BY <2>1, <3>1 DEF History
      <3>8. [j \in 1 .. 0 |-> PageAt(k + 1, j - 1)] = none
        BY <3>2
      <3>9. ASSUME NEW i \in 1 .. k + 1
            PROVE  (IF i <= k THEN pages[i] ELSE none) = [j \in 1 .. Turned(i)' |-> PageAt(i, j - 1)]
        <4>1. CASE i <= k
          <5>1. i \in 1 .. k
            BY <4>1
          <5> QED
            BY <3>6, <3>7, <4>1, <5>1
        <4>2. CASE i = k + 1
          <5>1. ~(i <= k) /\ Turned(i)' = 0
            BY <3>6, <4>2
          <5> QED
            BY <3>8, <4>2, <5>1
        <4> QED
          BY <4>1, <4>2
      <3> QED
        BY <3>4, <3>5, <3>9
    <2> QED
      BY <2>1, <2>3 DEF HistoryInv
  <1>8. CASE LastItem
    <2>1. \A i, p : PageAt(i, p)' = PageAt(i, p) /\ Item(i, p)' = Item(i, p)
      BY <1>5, <1>8 DEF LastItem
    <2>2. \A i : Turned(i)' = Turned(i) /\ Turns(i)' = Turns(i)
      BY <1>8, <2>1 DEF LastItem, Turned, Turns
    <2>3. History' = History
      BY <1>8, <2>1, <2>2 DEF LastItem, History
    <2>4. NumItems' = NumItems
      BY <1>8 DEF LastItem, NumItems, addr_getNumItems, parser_getNumItems
    <2> QED
      BY <1>8, <2>1, <2>2, <2>3, <2>4 DEF LastItem, HistoryInv
  <1>9. CASE UNCHANGED vars
    <2>1. \A i, p : PageAt(i, p)' = PageAt(i, p) /\ Item(i, p)' = Item(i, p)
      BY <1>5, <1>9 DEF vars
    <2>2. \A i : Turned(i)' = Turned(i) /\ Turns(i)' = Turns(i)
      BY <1>9, <2>1 DEF vars, Turned, Turns
    <2>3. History' = History
      BY <1>9, <2>1, <2>2 DEF vars, History
    <2>4. NumItems' = NumItems
      BY <1>9 DEF vars, NumItems, addr_getNumItems, parser_getNumItems
    <2> QED
      BY <1>9, <2>1, <2>2, <2>3, <2>4 DEF vars, HistoryInv
  <1> QED
    BY <1>1, <1>2, <1>3, <1>4, <1>6, <1>7, <1>8, <1>9 DEF Next

----------------------------------------------------------------------------
(* The fields of a screen                                                  *)

LEMMA KeysDiffer ==
    /\ TITLE_KEY_ID # CONTENT_KEY_ID /\ TITLE_KEY_ID # INDENT_KEY_ID /\ TITLE_KEY_ID # EXPERT_KEY_ID
    /\ CONTENT_KEY_ID # INDENT_KEY_ID /\ CONTENT_KEY_ID # EXPERT_KEY_ID
    /\ INDENT_KEY_ID # EXPERT_KEY_ID
  <1>1. \A k : Key(k).n = k
    BY DEF Key
  <1> QED
    BY <1>1 DEF TITLE_KEY_ID, CONTENT_KEY_ID, INDENT_KEY_ID, EXPERT_KEY_ID

IsScreen(c) == c = [err |-> c.err, title |-> c.title, content |-> c.content,
                    indent |-> c.indent, expert |-> c.expert]

\* One field of the options.
LEMMA OptionRead ==
    ASSUME NEW c, IsScreen(c), c.err = "parser_ok", NEW f, OptField(c, f).err = "parser_ok"
    PROVE  LET d == OptField(c, f) IN
           /\ IsScreen(d) /\ d.title = c.title /\ d.content = c.content
           /\ d.indent = c.indent \/ d.indent \in 0 .. UINT8_MAX
           /\ f.key = INDENT_KEY_ID => d.indent = f.value.n
           /\ f.key = EXPERT_KEY_ID => d.indent = c.indent
  <1>0. INDENT_KEY_ID # EXPERT_KEY_ID /\ 0 \in 0 .. UINT8_MAX
    BY KeysDiffer, SizeAssumption
  <1>1. \A e : e # "parser_ok" => Refuse(c, e).err # "parser_ok"
    BY DEF Refuse, IsScreen
  <1>2. ASSUME NEW d, IsScreen(d), NEW m
        PROVE  IsScreen([d EXCEPT !.indent = m]) /\ IsScreen([d EXCEPT !.expert = m])
    BY <1>2 DEF IsScreen
  <1>3. CASE f.key = INDENT_KEY_ID
    <2>1. OptField(c, f) = [c EXCEPT !.indent = f.value.n] /\ f.value.n \in 0 .. UINT8_MAX
      BY <1>1, <1>3 DEF OptField
    <2> QED
      BY <1>0, <1>2, <1>3, <2>1 DEF IsScreen
  <1>4. CASE f.key = EXPERT_KEY_ID
    <2>1. OptField(c, f) = [c EXCEPT !.expert = f.value.b]
      BY <1>0, <1>1, <1>4 DEF OptField
    <2> QED
      BY <1>0, <1>2, <1>4, <2>1 DEF IsScreen
  <1>5. CASE f.key # INDENT_KEY_ID /\ f.key # EXPERT_KEY_ID
    <2>1. PICK d : d = [c EXCEPT !.indent = 0]
      OBVIOUS
    <2>2. OptField(c, f) = [d EXCEPT !.expert = FALSE]
      BY <1>1, <1>5, <2>1 DEF OptField
    <2>3. IsScreen(d) /\ d.title = c.title /\ d.content = c.content /\ d.indent = 0
      BY <1>2, <2>1 DEF IsScreen
    <2>4. IsScreen(OptField(c, f))
      <3>1. PICK no : no = FALSE
        OBVIOUS
      <3>2. OptField(c, f) = [d EXCEPT !.expert = no]
        BY <2>2, <3>1
      <3>3. IsScreen([d EXCEPT !.expert = no])
        BY <1>2, <2>3
      <3> QED
        BY <3>2, <3>3
    <2>5. PICK e : e = OptField(c, f)
      OBVIOUS
    <2>6. e.title = c.title /\ e.content = c.content /\ e.indent = 0
      BY <2>2, <2>3, <2>5 DEF IsScreen
    <2> QED
      BY <1>0, <1>5, <2>4, <2>5, <2>6
  <1> QED
    BY <1>3, <1>4, <1>5

\* A screen has no more than two.
LEMMA OptionsRead ==
    ASSUME NEW c, NEW o, NEW n, n = Len(o), n = 1 \/ n = 2
    PROVE  LET one == IF c.err # "parser_ok" THEN c ELSE OptField(c, o[1])
               two == IF one.err # "parser_ok" THEN one ELSE OptField(one, o[2])
           IN  cbor_check_optFields(c, o) = IF n = 1 THEN one ELSE two
  <1> DEFINE St(i, d) == IF d.err # "parser_ok" THEN d ELSE OptField(d, o[i])
             Reads(g) == g = [i \in 0 .. n |-> IF i = 0 THEN c ELSE St(i, g[i - 1])]
             h == [i \in 0 .. n |-> IF i = 0 THEN c ELSE IF i = 1 THEN St(1, c) ELSE St(2, St(1, c))]
             f == CHOOSE g : Reads(g)
  <1>1. Reads(h)
    <2> HIDE DEF St
    <2>1. \A i \in 0 .. n : i = 0 \/ i = 1 \/ i = 2
      OBVIOUS
    <2>2. h[0] = c /\ h[1] = St(1, c) /\ (n = 2 => h[2] = St(2, h[1]))
      OBVIOUS
    <2>3. \A i \in 0 .. n : h[i] = IF i = 0 THEN c ELSE St(i, h[i - 1])
      BY <2>1, <2>2
    <2> QED
      BY <2>3
  <1>2. Reads(f)
    <2> HIDE DEF h, Reads
    <2> QED
      BY <1>1
  <1>3. cbor_check_optFields(c, o) = f[n]
    BY DEF cbor_check_optFields
  <1> HIDE DEF f
  <1>4. f[0] = c /\ f[1] = St(1, f[0]) /\ (n = 2 => f[2] = St(2, f[1]))
    <2> HIDE DEF St
    <2> QED
      BY <1>2
  <1> QED
    BY <1>3, <1>4

\* The text of a screen.
LEMMA TextRead ==
    ASSUME NEW fields \in Seq(Field), Len(fields) > 0, cbor_check_screen(fields).err = "parser_ok"
    PROVE  LET c == cbor_check_screen(fields) IN
           /\ IsScreen(c) /\ c.title \in Text /\ c.content \in Text /\ c.indent = 0
           /\ IF Titled(fields)
              THEN /\ Len(fields) > 1 /\ fields[2].key = CONTENT_KEY_ID
                   /\ c.title = fields[1].value.s /\ c.content = fields[2].value.s
              ELSE /\ fields[1].key = CONTENT_KEY_ID
                   /\ c.title = <<>> /\ c.content = fields[1].value.s
  <1>1. PICK c : c = cbor_check_screen(fields)
    OBVIOUS
  <1>2. PICK at : at = IF Titled(fields) THEN 2 ELSE 1
    OBVIOUS
  <1>3. \A e : e # "parser_ok" => Refuse(NoScreen, e).err # "parser_ok"
    BY DEF Refuse, NoScreen
  <1>4. /\ fields[1].value.kind = "text" /\ ~(at > Len(fields)) /\ fields[at].value.kind = "text"
        /\ Titled(fields) \/ fields[1].key = CONTENT_KEY_ID
        /\ ~(at = 2 /\ fields[2].key # CONTENT_KEY_ID)
        /\ c = [NoScreen EXCEPT !.title = IF at = 2 THEN fields[1].value.s ELSE <<>>,
                                !.content = fields[at].value.s]
    BY <1>1, <1>2, <1>3 DEF cbor_check_screen
  <1>5. /\ IsScreen(c) /\ c.title = IF at = 2 THEN fields[1].value.s ELSE <<>>
        /\ c.content = fields[at].value.s /\ c.indent = 0
    BY <1>4 DEF NoScreen, IsScreen
  <1>6. \A v \in Value : v.kind = "text" => v.s \in Text
    BY DEF Value
  <1>7. \A i \in 1 .. Len(fields) : fields[i].value \in Value
    <2>1. \A i \in 1 .. Len(fields) : fields[i] \in Field
      BY ElementOfSeq
    <2> QED
      BY <2>1 DEF Field
  <1>8. 1 \in 1 .. Len(fields) /\ at \in 1 .. Len(fields)
    BY <1>2, <1>4
  <1>9. <<>> \in Text
    BY EmptySeq DEF Text
  <1>10. c.title \in Text /\ c.content \in Text
    BY <1>4, <1>5, <1>6, <1>7, <1>8, <1>9
  <1>11. CASE Titled(fields)
    <2>1. at = 2 /\ Len(fields) > 1
      BY <1>2, <1>4, <1>11
    <2> QED
      BY <1>1, <1>4, <1>5, <1>10, <1>11, <2>1
  <1>12. CASE ~Titled(fields)
    <2>1. at = 1
      BY <1>2, <1>12
    <2> QED
      BY <1>1, <1>4, <1>5, <1>10, <1>12, <2>1
  <1> QED
    BY <1>11, <1>12

\* What a field of the options leaves of the indentation.
IndentOf(f, before) == IF f.key = INDENT_KEY_ID THEN f.value.n ELSE before
Option(f) == f.key \in {INDENT_KEY_ID, EXPERT_KEY_ID}

LEMMA FewFields == \A n \in Nat : n <= 2 => n # 3 /\ n # 4
  OBVIOUS

LEMMA InfoRead ==
    ASSUME NEW fields \in Seq(Field), NEW n, n = Len(fields), n \in 1 .. 4,
           cbor_get_containerInfo(fields).err = "parser_ok"
    PROVE  LET c == cbor_get_containerInfo(fields)
               read == IF Titled(fields) THEN 2 ELSE 1
           IN  /\ c.title \in Text /\ c.content \in Text /\ c.indent \in 0 .. UINT8_MAX
               /\ IF Titled(fields)
                  THEN /\ n > 1 /\ fields[2].key = CONTENT_KEY_ID
                       /\ c.title = fields[1].value.s /\ c.content = fields[2].value.s
                  ELSE /\ fields[1].key = CONTENT_KEY_ID
                       /\ c.title = <<>> /\ c.content = fields[1].value.s
               /\ n <= 2 => c.indent = 0
               /\ n = 3 /\ Option(fields[read + 1]) => c.indent = IndentOf(fields[read + 1], 0)
               /\ n = 4 /\ Option(fields[read + 1]) /\ Option(fields[read + 2]) =>
                    c.indent = IndentOf(fields[read + 2], IndentOf(fields[read + 1], 0))
  <1>1. PICK c, s : c = cbor_get_containerInfo(fields) /\ s = cbor_check_screen(fields)
    OBVIOUS
  <1>2. PICK read : read = IF Titled(fields) THEN 2 ELSE 1
    OBVIOUS
  <1>21. read \in {1, 2} /\ n \in Nat
    BY <1>2
  <1>3. s.err = "parser_ok" /\ Len(fields) > 0
    <2>1. s.err # "parser_ok" => c = s
      BY <1>1, Zenon DEF cbor_get_containerInfo
    <2>2. c.err = "parser_ok"
      BY <1>1, Zenon
    <2>3. Len(fields) = n /\ n > 0
      BY <1>21
    <2> QED
      BY <2>1, <2>2, <2>3, Zenon
  <1>4. /\ IsScreen(s) /\ s.title \in Text /\ s.content \in Text /\ s.indent = 0
        /\ IF Titled(fields)
           THEN /\ n > 1 /\ fields[2].key = CONTENT_KEY_ID
                /\ s.title = fields[1].value.s /\ s.content = fields[2].value.s
           ELSE /\ fields[1].key = CONTENT_KEY_ID
                /\ s.title = <<>> /\ s.content = fields[1].value.s
    BY <1>1, <1>3, TextRead
  <1>5. 0 \in 0 .. UINT8_MAX
    BY SizeAssumption
  <1>6. CASE n <= 2
    <2>1. c = s
      BY <1>1, <1>3, <1>6 DEF cbor_get_containerInfo
    <2> QED
      <3>1. c.title \in Text /\ c.content \in Text /\ c.indent = 0
        BY <1>4, <2>1
      <3>2. c.indent \in 0 .. UINT8_MAX
        BY <1>5, <3>1
      <3>3. IF Titled(fields)
            THEN /\ n > 1 /\ fields[2].key = CONTENT_KEY_ID
                 /\ c.title = fields[1].value.s /\ c.content = fields[2].value.s
            ELSE /\ fields[1].key = CONTENT_KEY_ID
                 /\ c.title = <<>> /\ c.content = fields[1].value.s
        BY <1>4, <2>1
      <3>4. n # 3 /\ n # 4
        BY <1>6, <1>21, FewFields, Zenon
      <3> QED
        BY <1>1, <3>1, <3>2, <3>3, <3>4
  <1>7. CASE n > 2
    <2>1. PICK o : o = SubSeq(fields, read + 1, read + n - 2)
      OBVIOUS
    <2>2. c = cbor_check_optFields(s, o)
      BY <1>1, <1>2, <1>3, <1>7, <2>1 DEF cbor_get_containerInfo
    <2>3. /\ Len(o) = n - 2 /\ o[1] = fields[read + 1] /\ (n = 4 => o[2] = fields[read + 2])
      <3>1. PICK a \in Int, b \in Int : a = read + 1 /\ b = read + n - 2
        <4>1. read + 1 \in Int /\ read + n - 2 \in Int
          BY <1>21
        <4> QED
          BY <4>1
      <3>2. \A i \in a .. b : fields[i] \in Field
        <4>1. \A i \in a .. b : i \in 1 .. Len(fields)
          BY <1>2, <3>1
        <4> QED
          BY <4>1, ElementOfSeq
      <3>3. o = SubSeq(fields, a, b)
        BY <2>1, <3>1
      <3>4. Len(o) = IF a <= b THEN b - a + 1 ELSE 0
        BY <3>2, <3>3, SubSeqProperties
      <3>5. \A i \in 1 .. b - a + 1 : o[i] = fields[a + i - 1]
        BY <3>2, <3>3, SubSeqProperties
      <3>6. Len(o) = n - 2 /\ \A i \in 1 .. n - 2 : o[i] = fields[read + i]
        BY <1>2, <1>7, <3>1, <3>4, <3>5
      <3> QED
        BY <1>7, <3>6
    <2>4. PICK one : one = OptField(s, o[1])
      OBVIOUS
    <2>5. n = 3 \/ n = 4
      BY <1>7
    <2>6. c = IF n = 3 THEN one ELSE IF one.err # "parser_ok" THEN one ELSE OptField(one, o[2])
      <3>1. PICK m : m = Len(o)
        OBVIOUS
      <3>2. m = 1 \/ m = 2
        BY <2>3, <2>5, <3>1
      <3>3. m = 1 <=> n = 3
        BY <2>3, <2>5, <3>1
      <3> QED
        BY <1>3, <2>2, <2>4, <3>1, <3>2, <3>3, OptionsRead
    <2>7. one.err = "parser_ok"
      BY <1>1, <2>6
    <2>8. /\ IsScreen(one) /\ one.title = s.title /\ one.content = s.content
          /\ one.indent \in 0 .. UINT8_MAX
          /\ Option(o[1]) => one.indent = IndentOf(o[1], 0)
      BY <1>3, <1>4, <1>5, <2>4, <2>7, OptionRead DEF Option, IndentOf
    <2>9. CASE n = 3
      BY <1>1, <1>2, <1>4, <2>3, <2>6, <2>8, <2>9
    <2>10. CASE n = 4
      <3>1. c = OptField(one, o[2])
        BY <2>6, <2>7, <2>10
      <3>2. /\ c.title = s.title /\ c.content = s.content /\ c.indent \in 0 .. UINT8_MAX
            /\ Option(o[2]) => c.indent = IndentOf(o[2], one.indent)
        BY <1>1, <2>7, <2>8, <3>1, OptionRead DEF Option, IndentOf
      <3> QED
        BY <1>1, <1>2, <1>4, <2>3, <2>8, <2>10, <3>2
    <2> QED
      BY <2>5, <2>9, <2>10
  <1> QED
    BY <1>6, <1>7

LEMMA OneField ==
    ASSUME NEW fields, NEW n \in Nat, DOMAIN fields = 1 .. n, Ordered(fields),
           NEW j \in 1 .. n, NEW k, fields[j].key = k
    PROVE  (CHOOSE i \in DOMAIN fields : fields[i].key = k) = j
  <1>1. ASSUME NEW i \in 1 .. n, fields[i].key = k PROVE i = j
    <2>1. ~(i < j) /\ ~(j < i)
      BY <1>1 DEF Ordered
    <2> QED
      BY <2>1
  <1> QED
    BY <1>1

\* Of a screen with its fields in order, the code reads what was sent.
LEMMA InfoSent ==
    ASSUME NEW fields \in Seq(Field), NEW n, n = Len(fields), n \in 1 .. 4,
           cbor_get_containerInfo(fields).err = "parser_ok", IndentFits(fields)
    PROVE  LET c == cbor_get_containerInfo(fields)
               s == Sent(fields)
           IN  c.title = s.title /\ c.content = s.content /\ c.indent = s.indent
  <1>1. PICK c, s : c = cbor_get_containerInfo(fields) /\ s = Sent(fields)
    OBVIOUS
  <1>2. PICK read : read = IF Titled(fields) THEN 2 ELSE 1
    OBVIOUS
  <1> DEFINE has(k) == \E j \in DOMAIN fields : fields[j].key = k
             the(k) == fields[CHOOSE j \in DOMAIN fields : fields[j].key = k].value
  <1>3. /\ s.title = IF has(TITLE_KEY_ID) THEN the(TITLE_KEY_ID).s ELSE <<>>
        /\ s.content = the(CONTENT_KEY_ID).s
        /\ s.indent = IF has(INDENT_KEY_ID) THEN the(INDENT_KEY_ID).n ELSE 0
    BY <1>1 DEF Sent
  <1>4. /\ IF Titled(fields)
           THEN /\ n > 1 /\ fields[2].key = CONTENT_KEY_ID
                /\ c.title = fields[1].value.s /\ c.content = fields[2].value.s
           ELSE /\ fields[1].key = CONTENT_KEY_ID
                /\ c.title = <<>> /\ c.content = fields[1].value.s
        /\ n <= 2 => c.indent = 0
        /\ n = 3 /\ Option(fields[read + 1]) => c.indent = IndentOf(fields[read + 1], 0)
        /\ n = 4 /\ Option(fields[read + 1]) /\ Option(fields[read + 2]) =>
                    c.indent = IndentOf(fields[read + 2], IndentOf(fields[read + 1], 0))
    BY <1>1, <1>2, InfoRead
  <1>5. n \in Nat /\ DOMAIN fields = 1 .. n
    BY LenProperties
  <1>6. Ordered(fields) /\ (Titled(fields) \/ fields[n].key # INDENT_KEY_ID)
    BY DEF IndentFits
  <1>7. /\ \A j \in 1 .. n : fields[j].key \in {TITLE_KEY_ID, CONTENT_KEY_ID, INDENT_KEY_ID, EXPERT_KEY_ID}
        /\ \A j, k \in 1 .. n : k < j => fields[j].key # fields[k].key /\ fields[j].key # TITLE_KEY_ID
    BY <1>5, <1>6 DEF Ordered
  <1>8. ASSUME NEW j \in 1 .. n, NEW k, fields[j].key = k PROVE has(k) /\ the(k) = fields[j].value
    <2>1. (CHOOSE i \in DOMAIN fields : fields[i].key = k) = j
      BY <1>5, <1>6, <1>8, OneField
    <2>2. has(k)
      BY <1>5, <1>8
    <2> QED
      BY <2>1, <2>2
  <1> HIDE DEF the
  <1>9. c.title = s.title
    <2>1. CASE Titled(fields)
      <3>1. 1 \in 1 .. n /\ fields[1].key = TITLE_KEY_ID
        BY <2>1 DEF Titled
      <3>2. has(TITLE_KEY_ID) /\ the(TITLE_KEY_ID) = fields[1].value
        BY <1>8, <3>1
      <3> QED
        BY <1>3, <1>4, <2>1, <3>2
    <2>2. CASE ~Titled(fields)
      <3>1. \A j \in 1 .. n : fields[j].key # TITLE_KEY_ID
        <4>1. \A j \in 1 .. n : j = 1 \/ 1 < j
          OBVIOUS
        <4>2. 1 \in 1 .. n
          OBVIOUS
        <4> QED
          BY <1>7, <2>2, <4>1, <4>2 DEF Titled
      <3>2. ~has(TITLE_KEY_ID)
        BY <1>5, <3>1
      <3> QED
        BY <1>3, <1>4, <2>2, <3>2
    <2> QED
      BY <2>1, <2>2
  <1>10. c.content = s.content
    <2>1. CASE Titled(fields)
      <3>1. 2 \in 1 .. n /\ fields[2].key = CONTENT_KEY_ID
        BY <1>4, <2>1
      <3>2. the(CONTENT_KEY_ID) = fields[2].value
        BY <1>8, <3>1
      <3> QED
        BY <1>3, <1>4, <2>1, <3>2
    <2>2. CASE ~Titled(fields)
      <3>1. 1 \in 1 .. n /\ fields[1].key = CONTENT_KEY_ID
        BY <1>4, <2>2
      <3>2. the(CONTENT_KEY_ID) = fields[1].value
        BY <1>8, <3>1
      <3> QED
        BY <1>3, <1>4, <2>2, <3>2
    <2> QED
      BY <2>1, <2>2
  <1>11. c.indent = s.indent
    <2>1. read \in {1, 2}
      BY <1>2
    <2>2. read <= n /\ \A j \in 1 .. read : fields[j].key # INDENT_KEY_ID
      <3>1. CASE Titled(fields)
        <4>1. read = 2 /\ n > 1 /\ fields[1].key = TITLE_KEY_ID /\ fields[2].key = CONTENT_KEY_ID
          BY <1>2, <1>4, <3>1 DEF Titled
        <4>2. \A j \in 1 .. read : j = 1 \/ j = 2
          BY <4>1
        <4>3. read <= n
          BY <4>1
        <4> QED
          BY <4>1, <4>2, <4>3, KeysDiffer
      <3>2. CASE ~Titled(fields)
        <4>1. read = 1 /\ fields[1].key = CONTENT_KEY_ID
          BY <1>2, <1>4, <3>2
        <4>2. read <= n /\ \A j \in 1 .. read : j = 1
          BY <4>1
        <4> QED
          BY <4>1, <4>2, KeysDiffer
      <3> QED
        BY <3>1, <3>2
    <2>3. ASSUME NEW j \in 1 .. n, read < j PROVE Option(fields[j])
      <3>1. 1 \in 1 .. n /\ read \in 1 .. n /\ 1 < j
        BY <2>1, <2>2, <2>3
      <3>2. fields[read].key = CONTENT_KEY_ID
        BY <1>2, <1>4
      <3>3. fields[j].key # CONTENT_KEY_ID /\ fields[j].key # TITLE_KEY_ID
        BY <1>7, <2>3, <3>1, <3>2
      <3> QED
        BY <1>7, <3>3 DEF Option
    <2>4. \A i, j, k \in 1 .. n : ~(read < i /\ i < j /\ j < k)
      <3>1. SUFFICES ASSUME NEW i \in 1 .. n, NEW j \in 1 .. n, NEW k \in 1 .. n,
                            read < i, i < j, j < k
                     PROVE  FALSE
        OBVIOUS
      <3>2. i < k /\ read < j /\ read < k
        BY <2>1, <3>1
      <3>3. Option(fields[i]) /\ Option(fields[j]) /\ Option(fields[k])
        BY <2>3, <3>1, <3>2
      <3>4. /\ fields[i].key # fields[j].key /\ fields[i].key # fields[k].key
            /\ fields[j].key # fields[k].key
        BY <1>7, <3>1, <3>2
      <3> QED
        BY <3>3, <3>4 DEF Option
    <2>5. CASE ~has(INDENT_KEY_ID)
      <3>1. \A j \in 1 .. n : fields[j].key # INDENT_KEY_ID
        BY <1>5, <2>5
      <3>2. \A m : \A j \in 1 .. n : IndentOf(fields[j], m) = m
        BY <3>1 DEF IndentOf
      <3>3. s.indent = 0
        BY <1>3, <2>5
      <3>4. n <= 2 \/ n = 3 \/ n = 4
        OBVIOUS
      <3>5. CASE n = 3
        <4>1. read + 1 \in 1 .. n /\ read < read + 1
          BY <2>1, <3>5
        <4> QED
          BY <1>4, <2>3, <3>2, <3>3, <3>5, <4>1
      <3>6. CASE n = 4
        <4>1. read + 1 \in 1 .. n /\ read < read + 1 /\ read + 2 \in 1 .. n /\ read < read + 2
          BY <2>1, <3>6
        <4> QED
          BY <1>4, <2>3, <3>2, <3>3, <3>6, <4>1
      <3> QED
        BY <1>4, <3>3, <3>4, <3>5, <3>6
    <2>6. CASE has(INDENT_KEY_ID)
      <3>1. PICK j \in 1 .. n : fields[j].key = INDENT_KEY_ID
        BY <1>5, <2>6
      <3>2. s.indent = fields[j].value.n
        BY <1>3, <1>8, <2>6, <3>1
      <3>3. read < j
        BY <2>1, <2>2, <3>1
      <3>4. \A i \in 1 .. n : i # j => fields[i].key # INDENT_KEY_ID
        <4>1. \A i \in 1 .. n : i # j => i < j \/ j < i
          OBVIOUS
        <4> QED
          BY <1>7, <3>1, <4>1
      <3>5. /\ \A m : IndentOf(fields[j], m) = fields[j].value.n
            /\ \A m : \A i \in 1 .. n : i # j => IndentOf(fields[i], m) = m
        BY <3>1, <3>4 DEF IndentOf
      <3>6. CASE read = 2
        <4>1. (n = 3 /\ j = 3) \/ (n = 4 /\ (j = 3 \/ j = 4))
          BY <3>3, <3>6
        <4>2. CASE n = 3 /\ j = 3
          <5>1. Option(fields[3])
            BY <2>3, <3>3, <4>2
          <5> QED
            BY <1>4, <3>2, <3>5, <3>6, <4>2, <5>1
        <4>3. CASE n = 4 /\ (j = 3 \/ j = 4)
          <5>1. 3 \in 1 .. n /\ 4 \in 1 .. n /\ read < 3 /\ read < 4 /\ read + 1 = 3 /\ read + 2 = 4
            BY <3>6, <4>3
          <5>2. Option(fields[3]) /\ Option(fields[4])
            BY <2>3, <5>1
          <5>3. c.indent = IndentOf(fields[4], IndentOf(fields[3], 0))
            BY <1>4, <4>3, <5>1, <5>2
          <5>4. CASE j = 3
            BY <3>2, <3>5, <5>1, <5>3, <5>4, ZenonT(60)
          <5>5. CASE j = 4
            BY <3>2, <3>5, <5>1, <5>3, <5>5
          <5> QED
            BY <4>3, <5>4, <5>5
        <4> QED
          BY <4>1, <4>2, <4>3
      <3>7. CASE read = 1
        <4>1. ~Titled(fields)
          BY <1>2, <3>7
        <4>2. n # j /\ n # 4
          <5>1. n # j
            BY <1>6, <3>1, <4>1
          <5>2. n # 4
            <6>1. SUFFICES ASSUME n = 4 PROVE FALSE
              OBVIOUS
            <6>2. 2 \in 1 .. n /\ 3 \in 1 .. n /\ 4 \in 1 .. n /\ read < 2
              BY <3>7, <6>1
            <6> QED
              BY <2>4, <6>2
          <5> QED
            BY <5>1, <5>2
        <4>3. n = 3 /\ j = 2 /\ read + 1 = 2
          BY <3>3, <3>7, <4>2
        <4>4. Option(fields[2])
          BY <2>3, <3>3, <4>3
        <4> QED
          BY <1>4, <3>2, <3>5, <4>3, <4>4
      <3> QED
        BY <2>1, <3>6, <3>7
    <2> QED
      BY <2>5, <2>6
  <1> QED
    BY <1>1, <1>9, <1>10, <1>11

----------------------------------------------------------------------------
(* The pages of a screen                                                   *)

LEMMA OneChar ==
    ASSUME NEW S, NEW c \in S
    PROVE  <<c>> \in Seq(S) /\ Len(<<c>>) = 1
  OBVIOUS

LEMMA ShownType ==
    ASSUME NEW c \in Chars
    PROVE  Shown(c) \in Seq(ShownChars)
  <1>1. CASE c \in DOMAIN Substitution
    <2>1. Substitution[c] \in {"n", "t", "\\"}
      BY <1>1 DEF Substitution
    <2>2. PICK a, b : a = "\\" /\ b = Substitution[c]
      OBVIOUS
    <2>3. a \in ShownChars /\ b \in ShownChars
      BY <2>1, <2>2 DEF ShownChars
    <2>4. <<a, b>> \in Seq(ShownChars)
      BY <2>3
    <2> QED
      BY <1>1, <2>2, <2>4 DEF Shown
  <1>2. CASE c \notin DOMAIN Substitution /\ c \in DOMAIN Wide
    <2>1. Wide[c] \in Seq(Chars)
      BY <1>2, WideAssumption DEF Text
    <2>2. Chars \subseteq ShownChars
      BY DEF ShownChars
    <2>3. Wide[c] \in Seq(ShownChars)
      BY <2>1, <2>2, SeqMonotonic
    <2> QED
      BY <1>2, <2>3 DEF Shown
  <1>3. CASE c \notin DOMAIN Substitution /\ c \notin DOMAIN Wide
    <2>1. c \in ShownChars
      BY DEF ShownChars
    <2> QED
      BY <1>3, <2>1, OneChar DEF Shown
  <1> QED
    BY <1>1, <1>2, <1>3

LEMMA Translated ==
    ASSUME NEW src \in Text, NEW size \in Nat, size > 0,
           tx_display_translation(src, size).err = "parser_ok"
    PROVE  LET text == tx_display_translation(src, size).text
           IN  text \in Seq(ShownChars) /\ Len(text) \in Nat /\ Len(text) < size
  <1>1. CASE src = <<>>
    <2>1. tx_display_translation(src, size).text = <<>>
      BY <1>1 DEF tx_display_translation
    <2> QED
      BY <2>1, EmptySeq
  <1>2. CASE src # <<>>
    <2>1. PICK shown : shown = [i \in DOMAIN src |-> Shown(src[i])]
      OBVIOUS
    <2>2. PICK n \in Nat : n = Len(src) /\ DOMAIN src = 1 .. n
      BY LenProperties DEF Text
    <2>3. shown \in Seq(Seq(ShownChars))
      <3>1. \A i \in 1 .. n : Shown(src[i]) \in Seq(ShownChars)
        <4>1. \A i \in 1 .. n : src[i] \in Chars
          BY <2>2, ElementOfSeq DEF Text
        <4> QED
          BY <4>1, ShownType
      <3>2. shown \in [1 .. n -> Seq(ShownChars)]
        BY <2>1, <2>2, <3>1
      <3> QED
        BY <3>2
    <2>4. FlattenSeq(shown) \in Seq(ShownChars)
      BY <2>3, FlattenType
    <2>5. EndMark(src) \in Seq(ShownChars)
      <3>1. PICK at : at = "@"
        OBVIOUS
      <3>2. at \in ShownChars
        BY <3>1 DEF ShownChars
      <3>3. <<at>> \in Seq(ShownChars) /\ <<>> \in Seq(ShownChars)
        BY <3>2
      <3>4. EndMark(src) = <<at>> \/ EndMark(src) = <<>>
        BY <3>1 DEF EndMark
      <3> QED
        BY <3>3, <3>4
    <2>6. PICK out : out = FlattenSeq(shown) \o EndMark(src)
      OBVIOUS
    <2>7. out \in Seq(ShownChars)
      BY <2>4, <2>5, <2>6, ConcatProperties
    <2>8. tx_display_translation(src, size).text = out /\ ~(Len(out) >= size)
      BY <1>2, <2>1, <2>6 DEF tx_display_translation
    <2> QED
      BY <2>7, <2>8, LenProperties
  <1> QED
    BY <1>1, <1>2

LEMMA MarksType ==
    ASSUME NEW n \in Nat
    PROVE  Marks(n) \in Seq(ShownChars) /\ Len(Marks(n)) = n
  <1>1. SCREEN_INDENT \in ShownChars
    BY DEF SCREEN_INDENT, ShownChars
  <1> QED
    BY <1>1 DEF Marks

\* As many marks as there is room for.
LEMMA IndentedIs ==
    ASSUME NEW s \in Seq(ShownChars), NEW indent \in Nat, NEW size \in Nat, Len(s) < size
    PROVE  /\ Indented(s, indent, size) \in Seq(ShownChars)
           /\ Len(Indented(s, indent, size)) \in Nat /\ Len(Indented(s, indent, size)) < size
           /\ indent + Len(s) < size => Indented(s, indent, size) = Marks(indent) \o s
  <1>1. PICK l \in Nat : l = Len(s)
    BY LenProperties
  <1> DEFINE Room(n) == (n = indent /\ n + Len(s) < size) \/ n + Len(s) = size - 1
  <1>2. \E n \in 0 .. indent : Room(n)
    <2>1. CASE indent + l < size
      <3>1. indent \in 0 .. indent /\ Room(indent)
        BY <1>1, <2>1
      <3> QED
        BY <3>1
    <2>2. CASE indent + l >= size
      <3>1. size - 1 - l \in 0 .. indent /\ Room(size - 1 - l)
        BY <1>1, <2>2
      <3> QED
        BY <3>1
    <2> QED
      BY <1>1, <2>1, <2>2
  <1>3. PICK n : n = CHOOSE m \in 0 .. indent : Room(m)
    OBVIOUS
  <1>4. n \in 0 .. indent /\ Room(n)
    BY <1>2, <1>3
  <1>5. Indented(s, indent, size) = Marks(n) \o s
    BY <1>3 DEF Indented
  <1>6. n \in Nat /\ n + l < size /\ (indent + l < size => n = indent)
    BY <1>1, <1>4
  <1>7. /\ Marks(n) \o s \in Seq(ShownChars) /\ Len(Marks(n) \o s) = n + l
    <2>1. Marks(n) \in Seq(ShownChars) /\ Len(Marks(n)) = n
      BY <1>6, MarksType
    <2> QED
      BY <1>1, <2>1, ConcatProperties
  <1> QED
    BY <1>1, <1>5, <1>6, <1>7, SMTT(60)

LEMMA BytesWhole ==
    ASSUME NEW S, NEW s \in Seq(S), NEW n \in Nat
    PROVE  /\ Bytes(s, 1, n) \in Seq(S) /\ Len(Bytes(s, 1, n)) \in Nat /\ Len(Bytes(s, 1, n)) <= n
           /\ Len(s) <= n => Bytes(s, 1, n) = s
  <1>1. PICK l \in Nat : l = IF n < Len(s) THEN n ELSE Len(s)
    OBVIOUS
  <1>2. Bytes(s, 1, n) = SubSeq(s, 1, l)
    BY <1>1 DEF Bytes
  <1>3. l <= n /\ l <= Len(s) /\ (Len(s) <= n => l = Len(s))
    BY <1>1
  <1>4. \A i \in 1 .. l : s[i] \in S
    <2>1. \A i \in 1 .. l : i \in 1 .. Len(s)
      BY <1>3
    <2> QED
      BY <2>1, ElementOfSeq
  <1>5. 1 \in Int /\ l \in Int
    OBVIOUS
  <1>6. /\ SubSeq(s, 1, l) \in Seq(S)
        /\ Len(SubSeq(s, 1, l)) = IF 1 <= l THEN l - 1 + 1 ELSE 0
        /\ \A i \in 1 .. l - 1 + 1 : SubSeq(s, 1, l)[i] = s[1 + i - 1]
    BY <1>4, <1>5, SubSeqProperties
  <1>7. Len(SubSeq(s, 1, l)) = l
    BY <1>6
  <1>8. ASSUME Len(s) <= n PROVE SubSeq(s, 1, l) = s
    <2>1. l = Len(s)
      BY <1>3, <1>8
    <2>2. \A i \in 1 .. l : SubSeq(s, 1, l)[i] = s[i]
      BY <1>6
    <2> QED
      BY <1>6, <1>7, <2>1, <2>2, SeqEqual
  <1> QED
    BY <1>2, <1>3, <1>6, <1>7, <1>8

\* What a screen says: the characters of its content, and whether its title
\* moves there, so that the key and the text are those below.
Out(c) == tx_display_translation(c.content, OUTPUT_HANDLER_SIZE).text
Moved(c, v) == Truncated(uint8(Len(c.title) + c.indent), Out(c), v)
WithTitle(c) == c.title \o <<":", " ">> \o Bytes(Out(c), 1, OUTPUT_HANDLER_SIZE - Len(c.title) - 2)
ScreenText(c, v) ==
    IF c.title = <<>> THEN Indented(Out(c), c.indent, OUTPUT_HANDLER_SIZE)
    ELSE IF ~Moved(c, v) THEN Out(c)
    ELSE IF strlen(c.title) < Len(c.title) THEN CString(c.title) ELSE WithTitle(c)
ScreenKey(c, v) ==
    IF c.title = <<>> THEN <<" ">>
    ELSE Indented(IF Moved(c, v) THEN TITLE_TRUNCATE_REPLACE ELSE CString(c.title), c.indent,
                  MAX_TITLE_SIZE + 2)

\* A C string is a piece of the text, all of it if no NUL is in it.
LEMMA CStringIs ==
    ASSUME NEW T, NEW s \in Seq(T)
    PROVE  /\ strlen(s) \in Nat /\ strlen(s) <= Len(s)
           /\ CString(s) \in Seq(T) /\ Len(CString(s)) \in Nat /\ Len(CString(s)) <= Len(s)
           /\ NUL \notin Range(s) => strlen(s) = Len(s) /\ CString(s) = s
  <1> DEFINE S == {n \in DOMAIN s : NUL \notin {s[i] : i \in 1 .. n}}
  <1>1. Len(s) \in Nat /\ DOMAIN s = 1 .. Len(s) /\ strlen(s) = Cardinality(S)
    BY LenProperties DEF strlen
  <1>2. IsFiniteSet(1 .. Len(s)) /\ Cardinality(1 .. Len(s)) = Len(s)
    <2>1. PICK n : n = Len(s)
      OBVIOUS
    <2>2. n \in Nat
      BY <1>1, <2>1
    <2>3. /\ IsFiniteSet(1 .. n)
          /\ Cardinality(1 .. n) = IF 1 > n THEN 0 ELSE n - 1 + 1
      BY <2>2, FS_Interval
    <2>4. Cardinality(1 .. n) = n
      BY <2>2, <2>3
    <2> QED
      BY <2>1, <2>3, <2>4
  <1>3. S \in SUBSET (1 .. Len(s))
    BY <1>1
  <1>4. strlen(s) \in Nat /\ strlen(s) <= Len(s)
    BY <1>1, <1>2, <1>3, FS_Subset, FS_CardinalityType
  <1>5. PICK n \in Nat : n = strlen(s)
    BY <1>4
  <1>6. /\ Bytes(s, 1, n) \in Seq(T) /\ Len(Bytes(s, 1, n)) \in Nat /\ Len(Bytes(s, 1, n)) <= n
        /\ Len(s) <= n => Bytes(s, 1, n) = s
    BY BytesWhole
  <1>7. ASSUME NUL \notin Range(s) PROVE strlen(s) = Len(s)
    <2>1. ASSUME NEW k \in 1 .. Len(s) PROVE k \in S
      BY <1>1, <1>7 DEF Range
    <2>2. S = 1 .. Len(s)
      BY <1>3, <2>1
    <2> QED
      BY <1>1, <1>2, <2>2
  <1> QED
    BY <1>1, <1>4, <1>5, <1>6, <1>7 DEF CString

LEMMA ScreenIs ==
    ASSUME NEW c, NEW k, NEW v, NEW p, parser_screenPrint(c, k, v, p).err = "parser_ok"
    PROVE  /\ ~(Len(c.title) > MAX_TITLE_SIZE)
           /\ tx_display_translation(c.content, OUTPUT_HANDLER_SIZE).err = "parser_ok"
           /\ \A l, w, q : parser_screenPrint(c, l, w, q)
                = Page(Bytes(ScreenKey(c, w), 1, l - 1), pageString(ScreenText(c, w), w, q),
                       uint8(PagesOf(ScreenText(c, w), w)))
  <1>1. /\ ~(Len(c.title) > MAX_TITLE_SIZE) /\ ~(Len(c.content) > MAX_CONTENT_SIZE)
        /\ ~(tx_display_translation(c.content, OUTPUT_HANDLER_SIZE).err # "parser_ok")
    BY DEF parser_screenPrint, Error
  <1>2. ASSUME NEW l, NEW w, NEW q
        PROVE  parser_screenPrint(c, l, w, q)
                = Page(Bytes(ScreenKey(c, w), 1, l - 1), pageString(ScreenText(c, w), w, q),
                       uint8(PagesOf(ScreenText(c, w), w)))
    BY <1>1, Zenon DEF parser_screenPrint, ScreenKey, ScreenText, Moved, WithTitle, Out
  <1> QED
    BY <1>1, <1>2

\* What is known of a screen that can be shown.
Readable(c) ==
    /\ c.title \in Text /\ c.content \in Text /\ c.indent \in 0 .. UINT8_MAX
    /\ Len(c.title) <= MAX_TITLE_SIZE
    /\ tx_display_translation(c.content, OUTPUT_HANDLER_SIZE).err = "parser_ok"

LEMMA Separator == <<":", " ">> \in Seq(ShownChars) /\ Len(<<":", " ">>) = 2
  <1>1. PICK a, b : a = ":" /\ b = " "
    OBVIOUS
  <1>2. a \in ShownChars /\ b \in ShownChars
    BY <1>1 DEF ShownChars
  <1>3. <<a, b>> \in Seq(ShownChars) /\ Len(<<a, b>>) = 2
    BY <1>2
  <1> QED
    BY <1>1, <1>3

LEMMA Replaced ==
    TITLE_TRUNCATE_REPLACE \in Seq(ShownChars) /\ Len(TITLE_TRUNCATE_REPLACE) = 3
  <1>1. PICK a : a = "-"
    OBVIOUS
  <1>2. a \in ShownChars
    BY <1>1 DEF ShownChars
  <1>3. <<a, a, a>> \in Seq(ShownChars) /\ Len(<<a, a, a>>) = 3
    BY <1>2
  <1> QED
    BY <1>1, <1>3 DEF TITLE_TRUNCATE_REPLACE

LEMMA Blank == <<" ">> \in Seq(ShownChars) /\ Len(<<" ">>) = 1
  <1>1. PICK a : a = " "
    OBVIOUS
  <1>2. a \in ShownChars
    BY <1>1 DEF ShownChars
  <1>3. <<a>> \in Seq(ShownChars) /\ Len(<<a>>) = 1
    BY <1>2
  <1> QED
    BY <1>1, <1>3

\* The output buffer holds the title, the separator and what follows them.
LEMMA WithTitleIs ==
    ASSUME NEW c, Readable(c)
    PROVE  /\ WithTitle(c) \in Seq(ShownChars) /\ Len(WithTitle(c)) <= OUTPUT_HANDLER_SIZE
           /\ Len(Out(c)) + Len(c.title) + 2 <= OUTPUT_HANDLER_SIZE =>
                WithTitle(c) = c.title \o <<":", " ">> \o Out(c)
  <1>1. /\ OUTPUT_HANDLER_SIZE \in Nat /\ MAX_TITLE_SIZE \in Nat
        /\ MAX_TITLE_SIZE + 2 <= OUTPUT_HANDLER_SIZE /\ OUTPUT_HANDLER_SIZE > 0
    BY SizeAssumption
  <1>2. c.content \in Text /\ Out(c) \in Seq(ShownChars) /\ Len(Out(c)) \in Nat
    BY <1>1, Translated DEF Readable, Out
  <1>3. c.title \in Seq(ShownChars)
    <2>1. c.title \in Seq(Chars) /\ Chars \subseteq ShownChars
      BY DEF Readable, Text, ShownChars
    <2> QED
      BY <2>1, SeqMonotonic
  <1>4. PICK t \in Nat, n \in Nat, o \in Nat :
            t = Len(c.title) /\ n = Len(Out(c)) /\ o = OUTPUT_HANDLER_SIZE
    BY <1>1, <1>2, <1>3, LenProperties
  <1>5. t <= MAX_TITLE_SIZE
    BY <1>4 DEF Readable
  <1>6. PICK room \in Nat : room = o - t - 2
    <2>1. o - t - 2 \in Nat
      BY <1>1, <1>4, <1>5
    <2> QED
      BY <2>1
  <1>7. PICK sep : sep = <<":", " ">>
    OBVIOUS
  <1>8. sep \in Seq(ShownChars) /\ Len(sep) = 2
    BY <1>7, Separator
  <1>9. PICK rest : rest = Bytes(Out(c), 1, room)
    OBVIOUS
  <1>10. /\ rest \in Seq(ShownChars) /\ Len(rest) \in Nat /\ Len(rest) <= room
         /\ n <= room => rest = Out(c)
    BY <1>2, <1>4, <1>6, <1>9, BytesWhole
  <1>11. WithTitle(c) = c.title \o sep \o rest
    BY <1>4, <1>6, <1>7, <1>9 DEF WithTitle
  <1>12. c.title \o sep \in Seq(ShownChars) /\ Len(c.title \o sep) = t + 2
    <2>1. c.title \o sep \in Seq(ShownChars) /\ Len(c.title \o sep) = Len(c.title) + Len(sep)
      BY <1>3, <1>8, ConcatProperties
    <2> QED
      BY <1>4, <1>8, <2>1
  <1>13. /\ c.title \o sep \o rest \in Seq(ShownChars)
         /\ Len(c.title \o sep \o rest) = t + 2 + Len(rest)
    <2>1. PICK start : start = c.title \o sep
      OBVIOUS
    <2>2. start \in Seq(ShownChars) /\ Len(start) = t + 2
      BY <1>12, <2>1
    <2>3. start \o rest \in Seq(ShownChars) /\ Len(start \o rest) = Len(start) + Len(rest)
      BY <1>10, <2>2, ConcatProperties
    <2> QED
      BY <2>1, <2>2, <2>3
  <1>14. t + 2 + Len(rest) <= o /\ (n + t + 2 <= o => n <= room)
    BY <1>6, <1>10
  <1> QED
    BY <1>4, <1>7, <1>10, <1>11, <1>13, <1>14

LEMMA ScreenParts ==
    ASSUME NEW c, Readable(c), NEW v
    PROVE  /\ ScreenText(c, v) \in Seq(ShownChars) /\ Len(ScreenText(c, v)) <= OUTPUT_HANDLER_SIZE
           /\ ScreenKey(c, v) \in Seq(ShownChars) /\ Len(ScreenKey(c, v)) < MAX_TITLE_SIZE + 2
  <1>1. /\ OUTPUT_HANDLER_SIZE \in Nat /\ MAX_TITLE_SIZE \in Nat /\ UINT8_MAX \in Nat
        /\ 1 < MAX_TITLE_SIZE /\ OUTPUT_HANDLER_SIZE > 0 /\ MAX_TITLE_SIZE + 2 \in Nat
    BY SizeAssumption
  <1>2. /\ c.content \in Text /\ Out(c) \in Seq(ShownChars) /\ Len(Out(c)) \in Nat
        /\ Len(Out(c)) < OUTPUT_HANDLER_SIZE
    BY <1>1, Translated DEF Readable, Out
  <1>3. c.title \in Seq(ShownChars)
    <2>1. c.title \in Seq(Chars) /\ Chars \subseteq ShownChars
      BY DEF Readable, Text, ShownChars
    <2> QED
      BY <2>1, SeqMonotonic
  <1>4. c.indent \in Nat
    BY <1>1 DEF Readable
  <1>5. ScreenText(c, v) \in Seq(ShownChars) /\ Len(ScreenText(c, v)) <= OUTPUT_HANDLER_SIZE
    <2>1. CASE c.title = <<>>
      <3>1. PICK w : w = Indented(Out(c), c.indent, OUTPUT_HANDLER_SIZE)
        OBVIOUS
      <3>2. w \in Seq(ShownChars) /\ Len(w) \in Nat /\ Len(w) < OUTPUT_HANDLER_SIZE
        BY <1>1, <1>2, <1>4, <3>1, IndentedIs
      <3>3. ScreenText(c, v) = w
        BY <2>1, <3>1 DEF ScreenText
      <3> QED
        BY <1>1, <3>2, <3>3
    <2>2. CASE c.title # <<>> /\ Moved(c, v)
      <3>1. ScreenText(c, v) \in {WithTitle(c), CString(c.title)}
        BY <2>2 DEF ScreenText
      <3>2. /\ CString(c.title) \in Seq(ShownChars) /\ Len(CString(c.title)) \in Nat
            /\ Len(CString(c.title)) <= Len(c.title) /\ Len(c.title) \in Nat
        BY <1>3, CStringIs, LenProperties
      <3>3. Len(c.title) <= MAX_TITLE_SIZE /\ MAX_TITLE_SIZE <= OUTPUT_HANDLER_SIZE
        BY <1>1, SizeAssumption DEF Readable
      <3>4. Len(CString(c.title)) <= OUTPUT_HANDLER_SIZE
        BY <1>1, <3>2, <3>3
      <3> QED
        BY <3>1, <3>2, <3>4, WithTitleIs
    <2>3. CASE c.title # <<>> /\ ~Moved(c, v)
      <3>1. ScreenText(c, v) = Out(c)
        BY <2>3 DEF ScreenText
      <3> QED
        BY <1>1, <1>2, <3>1
    <2> QED
      BY <2>1, <2>2, <2>3
  <1>6. ScreenKey(c, v) \in Seq(ShownChars) /\ Len(ScreenKey(c, v)) < MAX_TITLE_SIZE + 2
    <2>1. CASE c.title = <<>>
      <3>1. ScreenKey(c, v) = <<" ">>
        BY <2>1 DEF ScreenKey
      <3>2. 1 < MAX_TITLE_SIZE + 2
        BY <1>1
      <3> QED
        BY <3>1, <3>2, Blank
    <2>2. CASE c.title # <<>>
      <3>1. PICK k : k = IF Moved(c, v) THEN TITLE_TRUNCATE_REPLACE ELSE CString(c.title)
        OBVIOUS
      <3>2. k \in Seq(ShownChars) /\ Len(k) < MAX_TITLE_SIZE + 2
        <4>1. 3 < MAX_TITLE_SIZE + 2 /\ Len(c.title) < MAX_TITLE_SIZE + 2
          BY <1>1, <1>3 DEF Readable
        <4>2. PICK w : w = CString(c.title)
          OBVIOUS
        <4>3. w \in Seq(ShownChars) /\ Len(w) \in Nat /\ Len(w) <= Len(c.title)
          BY <1>3, <4>2, CStringIs
        <4>4. Len(w) < MAX_TITLE_SIZE + 2
          BY <1>1, <1>3, <4>1, <4>3
        <4> QED
          BY <3>1, <4>1, <4>2, <4>3, <4>4, Replaced
      <3>3. ScreenKey(c, v) = Indented(k, c.indent, MAX_TITLE_SIZE + 2)
        BY <2>2, <3>1 DEF ScreenKey
      <3> QED
        BY <1>1, <1>4, <3>2, <3>3, IndentedIs
    <2> QED
      BY <2>1, <2>2
  <1> QED
    BY <1>5, <1>6

LEMMA ViewKeys ==
    ASSUME NEW w \in Views
    PROVE  w.key \in Nat /\ w.key >= MAX_TITLE_SIZE + 2
  BY ViewAssumption

\* The screen of an item, as the code reads it.
Info(i) == cbor_get_containerInfo(tx.screens[i])

\* The pages of a screen that was accepted.
LEMMA ScreenItem ==
    ASSUME tx \in Documents, tx.tx_type = "tx_textual", view \in Views,
           _read_text_tx(tx.envelope, tx.screens) = "parser_ok",
           NEW i \in 1 .. Len(tx.screens), Showable(i)
    PROVE  /\ tx.screens[i] \in Seq(Field) /\ Len(tx.screens[i]) \in 1 .. 4
           /\ Info(i).err = "parser_ok" /\ Readable(Info(i))
           /\ \A p : Item(i, p) = Page(ScreenKey(Info(i), view.val),
                                       pageString(ScreenText(Info(i), view.val), view.val, p),
                                       uint8(PagesOf(ScreenText(Info(i), view.val), view.val)))
  <1>1. tx.screens \in Seq(Seq(Field))
    BY DocumentsAssumption
  <1>2. tx.screens[i] \in Seq(Field) /\ i \in DOMAIN tx.screens
    BY <1>1, ElementOfSeq, LenProperties
  <1>3. Len(tx.screens[i]) \in 1 .. 4
    <2>1. PICK refused : refused = {j \in DOMAIN tx.screens :
                            \/ Len(tx.screens[j]) \notin 1 .. 4
                            \/ cbor_check_expert(tx.screens[j]).err # "parser_ok"}
      OBVIOUS
    <2>2. refused = {}
      BY <2>1 DEF _read_text_tx
    <2> QED
      BY <1>2, <2>1, <2>2
  <1>4. PICK c : c = Info(i)
    OBVIOUS
  <1>5. /\ c.err = "parser_ok" /\ tx.screens # <<>> /\ ~(i > Len(tx.screens))
        /\ ~(c.title = ChainTitle /\ c.content \in {<<"0">>, <<"1">>})
        /\ parser_screenPrint(c, MAX_TITLE_SIZE, MAX_TITLE_SIZE, 0).err = "parser_ok"
    BY <1>4 DEF Showable, parser_getTextualItem, Error, Info
  <1>6. \A k, v, p : parser_getTextualItem(tx.screens, i, k, v, p) = parser_screenPrint(c, k, v, p)
    BY <1>4, <1>5, Zenon DEF parser_getTextualItem, Info
  <1>7. c.title \in Text /\ c.content \in Text /\ c.indent \in 0 .. UINT8_MAX
    <2>1. PICK n : n = Len(tx.screens[i])
      OBVIOUS
    <2> QED
      BY <1>2, <1>3, <1>4, <1>5, <2>1, InfoRead DEF Info
  <1>8. /\ ~(Len(c.title) > MAX_TITLE_SIZE)
        /\ tx_display_translation(c.content, OUTPUT_HANDLER_SIZE).err = "parser_ok"
        /\ \A l, w, q : parser_screenPrint(c, l, w, q)
                = Page(Bytes(ScreenKey(c, w), 1, l - 1), pageString(ScreenText(c, w), w, q),
                       uint8(PagesOf(ScreenText(c, w), w)))
    BY <1>5, ScreenIs
  <1>9. Readable(c)
    <2>1. MAX_TITLE_SIZE \in Nat /\ Len(c.title) \in Nat
      BY <1>7, SizeAssumption, LenProperties DEF Text
    <2> QED
      BY <1>7, <1>8, <2>1 DEF Readable
  <1>10. Bytes(ScreenKey(c, view.val), 1, view.key - 1) = ScreenKey(c, view.val)
    <2>1. PICK s : s = ScreenKey(c, view.val)
      OBVIOUS
    <2>2. s \in Seq(ShownChars) /\ Len(s) < MAX_TITLE_SIZE + 2
      BY <1>9, <2>1, ScreenParts
    <2>3. PICK n \in Nat : n = view.key - 1 /\ n >= MAX_TITLE_SIZE + 1
      <3>1. PICK w \in Nat, m \in Nat : w = view.key /\ m = MAX_TITLE_SIZE /\ w >= m + 2
        BY ViewKeys, SizeAssumption
      <3>2. w - 1 \in Nat /\ w - 1 >= m + 1
        BY <3>1
      <3> QED
        BY <3>1, <3>2
    <2>4. Len(s) <= n
      BY <2>2, <2>3, SizeAssumption, LenProperties, SMTT(60)
    <2> QED
      BY <2>1, <2>2, <2>3, <2>4, BytesWhole
  <1>11. \A p : Item(i, p) = parser_screenPrint(c, view.key, view.val, p)
    BY <1>6 DEF Item, parser_getItem
  <1>12. \A p : Item(i, p) = Page(ScreenKey(c, view.val),
                                  pageString(ScreenText(c, view.val), view.val, p),
                                  uint8(PagesOf(ScreenText(c, view.val), view.val)))
    BY <1>8, <1>10, <1>11
  <1> QED
    BY <1>2, <1>3, <1>4, <1>5, <1>9, <1>12

----------------------------------------------------------------------------
(* Items are steady                                                        *)

LEMMA ByteCount ==
    ASSUME NEW S, NEW s \in Seq(S), NEW v \in Nat, v >= MAX_TITLE_SIZE
    PROVE  uint8(PagesOf(s, v)) \in 0 .. UINT8_MAX
  <1>1. PICK n \in Nat, m \in Nat \ {0}, b \in Nat \ {0} :
          n = Len(s) + v - 2 /\ m = v - 1 /\ b = UINT8_MAX + 1
    <2>1. UINT8_MAX \in Nat /\ MAX_TITLE_SIZE \in Nat /\ 1 < MAX_TITLE_SIZE
      BY SizeAssumption
    <2>2. Len(s) \in Nat
      OBVIOUS
    <2>3. Len(s) + v - 2 \in Nat /\ v - 1 \in Nat \ {0} /\ UINT8_MAX + 1 \in Nat \ {0}
      BY <2>1, <2>2
    <2> QED
      BY <2>3
  <1>2. n \div m \in Int
    OBVIOUS
  <1>3. (n \div m) % b \in 0 .. b - 1
    BY <1>2
  <1>4. b - 1 = UINT8_MAX
    BY <1>1, SizeAssumption, SMTT(60)
  <1> QED
    BY <1>1, <1>3, <1>4 DEF uint8, PagesOf

LEMMA AddressSteady ==
    ASSUME tx \in Documents, tx.tx_type = "address", view \in Views, HistoryInv
    PROVE  Steady
  <1> SUFFICES ASSUME phase = "review", displayIdx <= NumItems PROVE Steady
    BY DEF Steady
  <1>1. PICK v \in Nat : v = view.val /\ v >= MAX_TITLE_SIZE
    BY ViewSizes
  <1>2. tx.address \in Text /\ tx.path \in Text
    BY DocumentsAssumption
  <1>3. displayIdx \in Nat \ {0}
    BY DEF HistoryInv
  <1>4. displayIdx = 1 \/ (displayIdx = 2 /\ (tx.expert \/ tx.eth))
    BY <1>3 DEF NumItems, addr_getNumItems
  <1>5. PICK s \in Text : \A p : Item(displayIdx, p).pageCount = uint8(PagesOf(s, v))
    <2>1. CASE displayIdx = 1
      BY <1>1, <1>2, <2>1 DEF Item, addr_getItem, Page
    <2>2. CASE displayIdx = 2 /\ (tx.expert \/ tx.eth)
      BY <1>1, <1>2, <2>2 DEF Item, addr_getItem, Page
    <2> QED
      BY <1>4, <2>1, <2>2
  <1>6. uint8(PagesOf(s, v)) \in Nat
    BY <1>1, ByteCount DEF Text
  <1> QED
    BY <1>5, <1>6 DEF Steady

LEMMA JsonSteady ==
    ASSUME TextsCounted, ReviewInv, HistoryInv, tx.tx_type = "tx_json"
    PROVE  Steady
  <1> SUFFICES ASSUME phase = "review", displayIdx <= NumItems PROVE Steady
    BY DEF Steady
  <1>1. tx \in Documents /\ view \in Views /\ displayIdx \in Nat \ {0} /\ pageIdx \in Nat
    BY DEF ReviewInv
  <1>2. Len(tx.items) \in Nat /\ NumItems = Len(tx.items)
    BY <1>1, DocumentsAssumption DEF NumItems, parser_getNumItems
  <1>3. displayIdx \in 1 .. Len(tx.items) /\ Fetched(displayIdx)
    BY <1>1, <1>2 DEF ReviewInv
  <1>4. \A p : Item(displayIdx, p) = parser_getJsonItem(displayIdx, view.key, view.val, p)
    BY DEF Item, parser_getItem
  <1>5. Item(displayIdx, 0).pageCount \in Nat
    <2>1. 0 \in Nat
      OBVIOUS
    <2> QED
      BY <1>1, <1>3, <1>4, <2>1, ItemShown
  <1>6. ASSUME pageIdx < pageCount
        PROVE  Item(displayIdx, pageIdx).pageCount = Item(displayIdx, 0).pageCount
    <2>1. pageIdx = 0 \/ pageIdx < parser_getJsonItem(displayIdx, view.key, view.val, 0).pageCount
      BY <1>6 DEF ReviewInv
    <2> QED
      BY <1>1, <1>3, <1>4, <2>1, ItemShown
  <1> QED
    BY <1>5, <1>6 DEF Steady

LEMMA ScreenSteady ==
    ASSUME ReviewInv, HistoryInv, tx.tx_type = "tx_textual"
    PROVE  Steady
  <1> SUFFICES ASSUME phase = "review", displayIdx <= NumItems PROVE Steady
    BY DEF Steady
  <1>1. /\ tx \in Documents /\ view \in Views /\ displayIdx \in Nat \ {0}
        /\ _read_text_tx(tx.envelope, tx.screens) = "parser_ok"
    BY DEF ReviewInv
  <1>2. Len(tx.screens) \in Nat /\ NumItems = Len(tx.screens)
    BY <1>1, DocumentsAssumption DEF NumItems, parser_getNumItems
  <1>3. displayIdx \in 1 .. Len(tx.screens) /\ Showable(displayIdx)
    BY <1>1, <1>2 DEF ReviewInv
  <1>4. PICK c, v, s : c = Info(displayIdx) /\ v = view.val /\ s = ScreenText(c, v)
    OBVIOUS
  <1>5. Readable(c) /\ \A p : Item(displayIdx, p)
            = Page(ScreenKey(c, v), pageString(s, v, p), uint8(PagesOf(s, v)))
    BY <1>1, <1>3, <1>4, ScreenItem
  <1>6. \A p : Item(displayIdx, p).pageCount = uint8(PagesOf(s, v))
    BY <1>5 DEF Page
  <1>7. uint8(PagesOf(s, v)) \in Nat
    <2>1. s \in Seq(ShownChars) /\ v \in Nat /\ v >= MAX_TITLE_SIZE
      BY <1>1, <1>4, <1>5, ScreenParts, ViewSizes
    <2> QED
      BY <2>1, ByteCount
  <1> QED
    BY <1>6, <1>7 DEF Steady

\* What `pages' holds, but for texts of which a byte does not count the pages.
Kept == (tx.tx_type = "tx_json" => TextsCounted) => HistoryInv

LEMMA Recorded == Spec => []Kept
  <1>1. Spec => []ReviewInv
    BY Reviewed
  <1>2. Init => Kept
    BY DEF Init, Kept, HistoryInv
  <1>3. ReviewInv /\ Kept /\ [Next]_vars => Kept'
    <2> SUFFICES ASSUME ReviewInv, Kept, [Next]_vars, (tx.tx_type = "tx_json" => TextsCounted)'
                 PROVE  HistoryInv'
      BY DEF Kept
    <2>1. CASE phase = "none"
      <3>1. HistoryInv /\ Steady
        BY <2>1 DEF HistoryInv, Steady
      <3> QED
        BY <3>1, HistoryKept
    <2>2. CASE phase # "none"
      <3>1. tx' = tx
        BY <2>2 DEF Next, vars, parser_parse, ShowAddress, parser_validate, Validated,
             NextPage, NextItem, LastItem
      <3>2. (tx.tx_type = "tx_json" => TextsCounted) /\ HistoryInv
        BY <3>1 DEF Kept, TextsCounted
      <3>3. tx \in Documents /\ view \in Views
        BY <2>2 DEF ReviewInv
      <3>4. tx.tx_type \in {"tx_json", "tx_textual", "address"}
        BY <3>3, DocumentsAssumption
      <3>5. Steady
        BY <3>2, <3>3, <3>4, AddressSteady, JsonSteady, ScreenSteady
      <3> QED
        BY <3>2, <3>5, HistoryKept
    <2> QED
      BY <2>1, <2>2
  <1> QED
    BY <1>1, <1>2, <1>3, PTL DEF Spec

\* What is left on the screen of an item that was read to its end.
LEMMA ToldByPages ==
    ASSUME HistoryInv, phase = "done", NumItems \in Nat, NEW i \in 1 .. NumItems
    PROVE  Told(i) = FlattenSeq([j \in 1 .. Turns(i) |-> Item(i, j - 1).val])
  <1>1. displayIdx \in Nat /\ i < displayIdx /\ i \in 1 .. displayIdx /\ pages = History
    BY DEF HistoryInv
  <1>2. pages[i] = [j \in 1 .. Turns(i) |-> PageAt(i, j - 1)]
    BY <1>1 DEF History, Turned
  <1>3. PICK n : n = Turns(i)
    OBVIOUS
  <1>4. pages[i] = [j \in 1 .. n |-> PageAt(i, j - 1)]
    BY <1>2, <1>3
  <1>5. \A p : PageAt(i, p).val = Item(i, p).val
    BY DEF PageAt
  <1>6. [j \in DOMAIN pages[i] |-> pages[i][j].val] = [j \in 1 .. n |-> Item(i, j - 1).val]
    BY <1>4, <1>5
  <1> QED
    BY <1>3, <1>6 DEF Told

----------------------------------------------------------------------------
(* The addresses                                                           *)

\* Whatever the buffers and however long the address and the path, as long as a
\* byte counts their pages: who has read the pages to the end has read the whole
\* address, and with coin type 60 or in expert mode the whole path (addr.c:31,
\* addr.c:42).
THEOREM AddressesAreShownWhole == Spec => []AddressShownWhole
  <1>1. Spec => []ReviewInv /\ []Kept
    BY Reviewed, Recorded
  <1>2. ReviewInv /\ Kept => AddressShownWhole
    <2> SUFFICES ASSUME ReviewInv, Kept, phase = "done", tx.tx_type = "address"
                 PROVE  /\ Told(1) = tx.address
                        /\ tx.expert \/ tx.eth => Told(2) = tx.path
      BY DEF AddressShownWhole
    <2>1. tx \in Documents /\ view \in Views /\ HistoryInv
      BY DEF ReviewInv, Kept
    <2>2. /\ tx.address \in Text /\ tx.path \in Text
          /\ Len(tx.address) <= UINT8_MAX * (MAX_TITLE_SIZE - 1)
          /\ Len(tx.path) <= UINT8_MAX * (MAX_TITLE_SIZE - 1)
      BY <2>1, DocumentsAssumption
    <2>3. PICK v \in Nat : v = view.val /\ v >= MAX_TITLE_SIZE
      BY <2>1, ViewSizes
    <2>4. NumItems \in Nat /\ 1 \in 1 .. NumItems /\ (tx.expert \/ tx.eth => 2 \in 1 .. NumItems)
      BY DEF NumItems, addr_getNumItems
    <2>5. ASSUME NEW i \in 1 .. NumItems, NEW s \in Text,
                 Len(s) <= UINT8_MAX * (MAX_TITLE_SIZE - 1),
                 \A p : /\ Item(i, p).val = pageString(s, v, p)
                        /\ Item(i, p).pageCount = uint8(PagesOf(s, v))
          PROVE  Told(i) = s
      <3>1. Told(i) = FlattenSeq([j \in 1 .. Turns(i) |-> Item(i, j - 1).val])
        BY <2>1, <2>4, ToldByPages
      <3>2. Turns(i) = TurnsFor(uint8(PagesOf(s, v)))
        BY <2>5 DEF Turns
      <3>3. PICK n : n = Turns(i)
        OBVIOUS
      <3>4. [j \in 1 .. n |-> Item(i, j - 1).val] = [j \in 1 .. n |-> pageString(s, v, j - 1)]
        BY <2>5
      <3>5. FlattenSeq([j \in 1 .. n |-> pageString(s, v, j - 1)]) = s
        BY <2>3, <2>5, <3>2, <3>3, WholeText DEF Text
      <3> QED
        BY <3>1, <3>3, <3>4, <3>5
    <2>6. \A p : /\ Item(1, p).val = pageString(tx.address, v, p)
                 /\ Item(1, p).pageCount = uint8(PagesOf(tx.address, v))
      BY <2>3 DEF Item, addr_getItem, Page
    <2>7. tx.expert \/ tx.eth =>
            \A p : /\ Item(2, p).val = pageString(tx.path, v, p)
                   /\ Item(2, p).pageCount = uint8(PagesOf(tx.path, v))
      BY <2>3 DEF Item, addr_getItem, Page
    <2>8. Told(1) = tx.address
      BY <2>2, <2>4, <2>5, <2>6
    <2>9. tx.expert \/ tx.eth => Told(2) = tx.path
      BY <2>2, <2>4, <2>5, <2>7
    <2> QED
      BY <2>8, <2>9
  <1> QED
    BY <1>1, <1>2, PTL

----------------------------------------------------------------------------
(* The amounts                                                             *)

\* What the pages of an item that was fetched say.
LEMMA ItemTold ==
    ASSUME TextsCounted, tx \in Documents, tx.tx_type = "tx_json", view \in Views,
           NEW i \in 1 .. Len(tx.items), Fetched(i), Flat(tx.items[i])
    PROVE  FlattenSeq([j \in 1 .. Turns(i) |-> Item(i, j - 1).val]) = ItemText(tx.items[i])
  <1>1. PICK item, plain : item = tx.items[i] /\ plain = tx.plain
    OBVIOUS
  <1>2. item \in JsonItem
    BY <1>1, DocumentsAssumption
  <1>3. PICK v \in Nat : v = view.val /\ v >= MAX_TITLE_SIZE
    BY ViewSizes
  <1>4. \A p : /\ Item(i, p).val = ValuePage(item, plain, v, p).val
               /\ Item(i, p).pageCount = ValuePage(item, plain, v, p).pageCount
    BY <1>1, <1>3, ItemValue DEF Item, parser_getItem
  <1>5. ValuePage(item, plain, MAX_TITLE_SIZE, 0).err = "parser_ok"
    BY <1>1, ItemValue DEF Fetched
  <1>6. PICK n : n = Turns(i)
    OBVIOUS
  <1>7. [j \in 1 .. n |-> Item(i, j - 1).val] = [j \in 1 .. n |-> ValuePage(item, plain, v, j - 1).val]
    BY <1>4
  <1>8. CASE item.isAmount
    <2>1. item.value \in AmountValue
      BY <1>2, <1>8 DEF JsonItem
    <2>2. /\ \A w, p : ValuePage(item, plain, w, p) = parser_formatAmount(item.value, plain, w, p)
          /\ CoinsOnly(item.value.elements)
      BY <1>1, <1>8 DEF ValuePage, Flat
    <2>3. parser_formatAmount(item.value, plain, MAX_TITLE_SIZE, 0).err = "parser_ok"
      BY <1>5, <2>2
    <2>4. AmountIsTold(item.value, plain, v, parser_formatAmount(item.value, plain, v, 0).pageCount)
      BY <1>3, <2>1, <2>2, <2>3, AmountTold
    <2>5. n = parser_formatAmount(item.value, plain, v, 0).pageCount
      BY <1>4, <1>6, <2>2, <2>4 DEF Turns, TurnsFor, AmountIsTold
    <2>6. [j \in 1 .. n |-> ValuePage(item, plain, v, j - 1).val]
            = [j \in 1 .. n |-> parser_formatAmount(item.value, plain, v, j - 1).val]
      BY <2>2
    <2> QED
      BY <1>1, <1>6, <1>7, <1>8, <2>4, <2>5, <2>6 DEF AmountIsTold, ItemText
  <1>9. CASE ~item.isAmount
    <2>1. PICK s : s = item.text
      OBVIOUS
    <2>2. s \in Text
      BY <1>2, <1>9, <2>1 DEF JsonItem
    <2>3. Len(s) <= UINT8_MAX * (MAX_TITLE_SIZE - 1)
      <3>1. i \in DOMAIN tx.items
        BY DocumentsAssumption
      <3> QED
        BY <1>1, <1>9, <2>1, <3>1 DEF TextsCounted
    <2>4. \A p : ValuePage(item, plain, v, p) = tx_getToken(s, v, p)
      BY <1>9, <2>1 DEF ValuePage
    <2>5. PICK count : count = IF s = <<>> THEN 1 ELSE uint8(PagesOf(s, v))
      OBVIOUS
    <2>6. count \in Nat /\ count > 0
      BY <1>3, <2>2, <2>3, <2>5, TextCount DEF Text
    <2>7. \A p : tx_getToken(s, v, p) = IF p >= count THEN Error("parser_display_page_out_of_range")
                                        ELSE Page(<<>>, pageString(s, v, p), count)
      BY <2>5 DEF tx_getToken
    <2>8. \A p \in Nat : p < count => /\ tx_getToken(s, v, p).val = pageString(s, v, p)
                                      /\ tx_getToken(s, v, p).pageCount = count
      <3>1. \A p \in Nat : p < count => ~(p >= count)
        BY <2>6
      <3> QED
        BY <2>7, <3>1 DEF Page
    <2>9. n = count
      <3>1. 0 \in Nat /\ 0 < count
        BY <2>6
      <3>2. Item(i, 0).pageCount = count
        BY <1>4, <2>4, <2>8, <3>1
      <3> QED
        BY <1>6, <2>6, <3>2 DEF Turns, TurnsFor
    <2>10. count = TurnsFor(uint8(PagesOf(s, v)))
      <3>1. CASE s = <<>>
        <4>1. TurnsFor(uint8(PagesOf(s, v))) = 1
          BY <1>3, <3>1, NoPages
        <4> QED
          BY <2>5, <3>1, <4>1 DEF TurnsFor
      <3>2. CASE s # <<>>
        BY <2>5, <2>6, <3>2 DEF TurnsFor
      <3> QED
        BY <3>1, <3>2
    <2>11. [j \in 1 .. n |-> ValuePage(item, plain, v, j - 1).val]
             = [j \in 1 .. n |-> pageString(s, v, j - 1)]
      <3>1. ASSUME NEW j \in 1 .. n
            PROVE  ValuePage(item, plain, v, j - 1).val = pageString(s, v, j - 1)
        <4>1. j - 1 \in Nat /\ j - 1 < count
          BY <2>6, <2>9
        <4> QED
          BY <2>4, <2>8, <4>1
      <3> QED
        BY <3>1
    <2>12. FlattenSeq([j \in 1 .. n |-> pageString(s, v, j - 1)]) = s
      BY <1>3, <2>2, <2>3, <2>9, <2>10, WholeText DEF Text
    <2> QED
      BY <1>1, <1>6, <1>7, <1>9, <2>1, <2>11, <2>12 DEF ItemText
  <1> QED
    BY <1>8, <1>9

\* Whatever the items and the coins of a transaction, whatever the buffers: the
\* user who has read the pages of a transaction that parser_validate accepted to
\* the end has read every coin of every list, and every text, once, in order and
\* whole, as long as a byte counts the pages of the texts (parser.c:124,
\* parser.c:319).
THEOREM AmountsAreShownWhole ==
    ASSUME TextsCounted
    PROVE  Spec => []AmountsShownWhole
  <1>1. Spec => []ReviewInv /\ []Kept
    BY Reviewed, Recorded
  <1>2. ReviewInv /\ Kept => AmountsShownWhole
    <2> SUFFICES ASSUME ReviewInv, Kept, phase = "done", tx.tx_type = "tx_json",
                        NEW i \in DOMAIN tx.items, Flat(tx.items[i])
                 PROVE  Told(i) = ItemText(tx.items[i])
      BY DEF AmountsShownWhole
    <2>1. tx \in Documents /\ view \in Views /\ HistoryInv
      BY DEF ReviewInv, Kept
    <2>2. /\ Len(tx.items) \in Nat /\ NumItems = Len(tx.items) /\ i \in 1 .. Len(tx.items)
      BY <2>1, DocumentsAssumption DEF NumItems, parser_getNumItems
    <2>3. Fetched(i)
      BY <2>2 DEF ReviewInv
    <2>4. Told(i) = FlattenSeq([j \in 1 .. Turns(i) |-> Item(i, j - 1).val])
      BY <2>1, <2>2, ToldByPages
    <2> QED
      BY <2>1, <2>2, <2>3, <2>4, ItemTold
  <1> QED
    BY <1>1, <1>2, PTL

----------------------------------------------------------------------------
(* The screens                                                             *)

\* What a screen sends, where it goes, when there is room for it.
LEMMA ScreenShown ==
    ASSUME NEW c, Readable(c), NEW v, NEW fields, NEW s, s = Sent(fields), IndentFits(fields),
           c.title = s.title, c.content = s.content, c.indent = s.indent
    PROVE  /\ s.title # <<>> /\ Moved(c, v) =>
                ScreenKey(c, v) = Marks(s.indent) \o TITLE_TRUNCATE_REPLACE
           /\ s.title # <<>> /\ ~Moved(c, v) =>
                /\ ScreenKey(c, v) = Marks(s.indent) \o CString(s.title) /\ ScreenText(c, v) = Out(c)
                /\ Len(ScreenKey(c, v)) \in Nat /\ Len(ScreenKey(c, v)) <= PRINTABLE_TITLE_SIZE
                /\ Len(Out(c)) >= v => Len(ScreenKey(c, v)) <= PRINTABLE_PAGINATED_TITLE_SIZE
           /\ TextFits(fields) /\ TitleEndsOnce(fields) => ScreenText(c, v) =
                IF s.title = <<>> THEN Marks(s.indent) \o Out(c)
                ELSE IF Moved(c, v) THEN s.title \o <<":", " ">> \o Out(c) ELSE Out(c)
  <1>1. /\ OUTPUT_HANDLER_SIZE \in Nat /\ MAX_TITLE_SIZE \in Nat /\ UINT8_MAX \in Nat
        /\ 1 < MAX_TITLE_SIZE /\ OUTPUT_HANDLER_SIZE > 0 /\ 2 * MAX_TITLE_SIZE <= UINT8_MAX
        /\ PRINTABLE_TITLE_SIZE \in Nat /\ PRINTABLE_TITLE_SIZE <= MAX_TITLE_SIZE
        /\ PRINTABLE_PAGINATED_TITLE_SIZE \in Nat
    BY SizeAssumption
  <1>2. /\ c.content \in Text /\ Out(c) \in Seq(ShownChars) /\ Len(Out(c)) \in Nat
        /\ Len(Out(c)) < OUTPUT_HANDLER_SIZE
    BY <1>1, Translated DEF Readable, Out
  <1>3. c.title \in Seq(ShownChars) /\ Len(c.title) \in Nat /\ Len(c.title) <= MAX_TITLE_SIZE
    <2>1. c.title \in Seq(Chars) /\ Chars \subseteq ShownChars
      BY DEF Readable, Text, ShownChars
    <2>2. c.title \in Seq(ShownChars)
      BY <2>1, SeqMonotonic
    <2> QED
      BY <2>2, LenProperties DEF Readable
  <1>4. PICK i \in Nat, t \in Nat, o \in Nat, m \in Nat, k \in Nat :
            /\ i = c.indent /\ t = Len(c.title) /\ o = OUTPUT_HANDLER_SIZE /\ m = MAX_TITLE_SIZE + 2
            /\ k = Len(Out(c))
    <2>1. c.indent \in Nat /\ MAX_TITLE_SIZE + 2 \in Nat
      BY <1>1 DEF Readable
    <2> QED
      BY <1>1, <1>2, <1>3, <2>1
  <1>5. s.title # <<>> => i + 3 < m
    <2>1. s.title # <<>> => Len(TITLE_TRUNCATE_REPLACE) + s.indent < MAX_TITLE_SIZE + 2
      BY DEF IndentFits
    <2>2. Len(TITLE_TRUNCATE_REPLACE) = 3
      BY Replaced
    <2> QED
      BY <1>4, <2>1, <2>2
  <1>6. ASSUME s.title # <<>>, Moved(c, v)
        PROVE  ScreenKey(c, v) = Marks(s.indent) \o TITLE_TRUNCATE_REPLACE
    <2>1. ScreenKey(c, v) = Indented(TITLE_TRUNCATE_REPLACE, i, m)
      BY <1>4, <1>6 DEF ScreenKey
    <2>2. PICK r : r = TITLE_TRUNCATE_REPLACE
      OBVIOUS
    <2>3. r \in Seq(ShownChars) /\ Len(r) = 3
      BY <2>2, Replaced
    <2>4. Len(r) < m /\ i + Len(r) < m
      BY <1>5, <1>6, <2>3
    <2>5. Indented(r, i, m) = Marks(i) \o r
      BY <2>3, <2>4, IndentedIs
    <2> QED
      BY <1>4, <2>1, <2>2, <2>5
  <1>7. ASSUME s.title # <<>>, ~Moved(c, v)
        PROVE  /\ ScreenKey(c, v) = Marks(s.indent) \o CString(s.title) /\ ScreenText(c, v) = Out(c)
               /\ Len(ScreenKey(c, v)) \in Nat /\ Len(ScreenKey(c, v)) <= PRINTABLE_TITLE_SIZE
               /\ Len(Out(c)) >= v => Len(ScreenKey(c, v)) <= PRINTABLE_PAGINATED_TITLE_SIZE
    <2>1. t + i <= UINT8_MAX
      <3>1. PICK x, u : x = MAX_TITLE_SIZE /\ u = UINT8_MAX
        OBVIOUS
      <3>2. x \in Nat /\ u \in Nat /\ 2 * x <= u
        BY <3>1, SizeAssumption
      <3>3. i + 3 < x + 2 /\ t <= x
        BY <1>3, <1>4, <1>5, <1>7, <3>1
      <3>4. t + i <= u
        BY <3>2, <3>3
      <3> QED
        BY <3>1, <3>4
    <2>2. PICK l \in Nat : l = t + i
      OBVIOUS
    <2>3. uint8(l) = l
      BY <1>1, <2>1, <2>2 DEF uint8
    <2>4. ~Truncated(l, Out(c), v)
      BY <1>4, <1>7, <2>2, <2>3 DEF Moved
    <2>5. l <= PRINTABLE_TITLE_SIZE /\ (Len(Out(c)) >= v => l <= PRINTABLE_PAGINATED_TITLE_SIZE)
      BY <1>1, <2>4 DEF Truncated
    <2>6. t < m /\ i + t < m
      BY <1>1, <1>4, <2>2, <2>5
    <2>7. ScreenKey(c, v) = Indented(CString(c.title), i, m) /\ ScreenText(c, v) = Out(c)
      BY <1>4, <1>7 DEF ScreenKey, ScreenText
    <2>8. PICK w : w = CString(c.title)
      OBVIOUS
    <2>9. /\ w \in Seq(ShownChars) /\ Len(w) \in Nat /\ Len(w) <= t
          /\ Len(w) < m /\ i + Len(w) < m
      <3>1. w \in Seq(ShownChars) /\ Len(w) \in Nat /\ Len(w) <= t
        BY <1>3, <1>4, <2>8, CStringIs
      <3> QED
        BY <2>6, <3>1
    <2>10. Indented(w, i, m) = Marks(i) \o w
      BY <2>9, IndentedIs
    <2>11. Marks(i) \in Seq(ShownChars) /\ Len(Marks(i)) = i
      BY MarksType
    <2>12. Len(Marks(i) \o w) = Len(Marks(i)) + Len(w)
      BY <2>9, <2>11, ConcatProperties
    <2>13. Len(Marks(i) \o w) \in Nat /\ Len(Marks(i) \o w) <= l
      BY <2>2, <2>9, <2>11, <2>12
    <2>14. ScreenKey(c, v) = Marks(s.indent) \o CString(s.title)
      BY <1>4, <2>7, <2>8, <2>10
    <2>15. Len(ScreenKey(c, v)) \in Nat /\ Len(ScreenKey(c, v)) <= l
      BY <2>7, <2>8, <2>10, <2>13
    <2>16. PICK b \in Nat : b = Len(ScreenKey(c, v)) /\ b <= l
      BY <2>15
    <2>17. /\ b <= PRINTABLE_TITLE_SIZE
           /\ Len(Out(c)) >= v => b <= PRINTABLE_PAGINATED_TITLE_SIZE
      BY <1>1, <2>5, <2>16
    <2> QED
      BY <2>7, <2>14, <2>16, <2>17
  <1>8. ASSUME TextFits(fields), TitleEndsOnce(fields)
        PROVE  ScreenText(c, v) =
                IF s.title = <<>> THEN Marks(s.indent) \o Out(c)
                ELSE IF Moved(c, v) THEN s.title \o <<":", " ">> \o Out(c) ELSE Out(c)
    <2>1. CASE s.title = <<>>
      <3>1. k + i < o
        BY <1>4, <1>8, <2>1 DEF TextFits, Out
      <3>2. PICK w : w = Out(c)
        OBVIOUS
      <3>3. w \in Seq(ShownChars) /\ Len(w) < o /\ i + Len(w) < o
        BY <1>2, <1>4, <3>1, <3>2
      <3>4. Indented(w, i, o) = Marks(i) \o w
        BY <3>3, IndentedIs
      <3> QED
        BY <1>4, <2>1, <3>2, <3>4 DEF ScreenText
    <2>2. CASE s.title # <<>> /\ Moved(c, v)
      <3>1. k + t + 2 <= o
        BY <1>4, <1>8, <2>2 DEF TextFits, Out
      <3>2. ScreenText(c, v) = WithTitle(c)
        <4>1. strlen(c.title) = Len(c.title)
          BY <1>3, <1>8, CStringIs DEF TitleEndsOnce
        <4> QED
          BY <1>3, <2>2, <4>1 DEF ScreenText
      <3>3. Len(Out(c)) + Len(c.title) + 2 <= OUTPUT_HANDLER_SIZE
        BY <1>4, <3>1
      <3>4. WithTitle(c) = c.title \o <<":", " ">> \o Out(c)
        BY <3>3, WithTitleIs
      <3> QED
        BY <2>2, <3>2, <3>4
    <2>3. CASE s.title # <<>> /\ ~Moved(c, v)
      BY <2>3, SMTT(60) DEF ScreenText
    <2> QED
      BY <2>1, <2>2, <2>3
  <1> QED
    BY <1>6, <1>7, <1>8

\* Whatever the screens and the buffers: who has read the pages of an accepted
\* textual transaction to the end has read the title, the whole content and the
\* indentation of every screen the buffers of parser_screenPrint have room for
\* and whose title has no NUL, which would end the text there,
\* whether the title is the key or part of the text (parser.c, cbor_parser_helper.c).
THEOREM ScreensAreShownWhole == Spec => []ScreensShownWhole
  <1>1. Spec => []ReviewInv /\ []Kept
    BY Reviewed, Recorded
  <1>2. ReviewInv /\ Kept => ScreensShownWhole
    <2> SUFFICES ASSUME ReviewInv, Kept, phase = "done", tx.tx_type = "tx_textual",
                        NEW i \in DOMAIN tx.screens,
                        IndentFits(tx.screens[i]), TextFits(tx.screens[i]),
                        TitleEndsOnce(tx.screens[i])
                 PROVE  ShownWhole(i)
      BY DEF ScreensShownWhole
    <2>1. /\ tx \in Documents /\ view \in Views /\ HistoryInv
          /\ _read_text_tx(tx.envelope, tx.screens) = "parser_ok"
      BY DEF ReviewInv, Kept
    <2>2. Len(tx.screens) \in Nat /\ NumItems = Len(tx.screens) /\ i \in 1 .. Len(tx.screens)
      BY <2>1, DocumentsAssumption DEF NumItems, parser_getNumItems
    <2>3. Showable(i)
      BY <2>2 DEF ReviewInv
    <2>4. PICK c, v, t : c = Info(i) /\ v = view.val /\ t = ScreenText(c, v)
      OBVIOUS
    <2>5. /\ tx.screens[i] \in Seq(Field) /\ Len(tx.screens[i]) \in 1 .. 4
          /\ c.err = "parser_ok" /\ Readable(c)
          /\ \A p : Item(i, p) = Page(ScreenKey(c, v), pageString(t, v, p), uint8(PagesOf(t, v)))
      BY <2>1, <2>2, <2>3, <2>4, ScreenItem
    <2>6. PICK fields, s : fields = tx.screens[i] /\ s = Sent(fields)
      OBVIOUS
    <2>7. c.title = s.title /\ c.content = s.content /\ c.indent = s.indent
      <3>1. PICK n : n = Len(fields)
        OBVIOUS
      <3>2. fields \in Seq(Field) /\ n \in 1 .. 4 /\ IndentFits(fields)
            /\ cbor_get_containerInfo(fields).err = "parser_ok"
        BY <2>4, <2>5, <2>6, <3>1 DEF Info
      <3> QED
        BY <2>4, <2>6, <3>1, <3>2, InfoSent DEF Info
    <2>8. Told(i) = t
      <3>1. Told(i) = FlattenSeq([j \in 1 .. Turns(i) |-> Item(i, j - 1).val])
        BY <2>1, <2>2, ToldByPages
      <3>2. \A p : /\ Item(i, p).val = pageString(t, v, p)
                   /\ Item(i, p).pageCount = uint8(PagesOf(t, v))
        BY <2>5 DEF Page
      <3>3. PICK n : n = Turns(i)
        OBVIOUS
      <3>4. n = TurnsFor(uint8(PagesOf(t, v)))
        BY <3>2, <3>3 DEF Turns
      <3>5. [j \in 1 .. n |-> Item(i, j - 1).val] = [j \in 1 .. n |-> pageString(t, v, j - 1)]
        BY <3>2
      <3>6. t \in Seq(ShownChars) /\ Len(t) <= UINT8_MAX * (MAX_TITLE_SIZE - 1)
        <4>1. t \in Seq(ShownChars) /\ Len(t) <= OUTPUT_HANDLER_SIZE /\ Len(t) \in Nat
          BY <2>4, <2>5, ScreenParts, LenProperties
        <4>2. PICK most : most = UINT8_MAX * (MAX_TITLE_SIZE - 1)
          OBVIOUS
        <4>3. most \in Int /\ OUTPUT_HANDLER_SIZE \in Nat /\ OUTPUT_HANDLER_SIZE <= most
          BY <4>2, SizeAssumption
        <4> QED
          BY <4>1, <4>2, <4>3
      <3>7. v \in Nat /\ v >= MAX_TITLE_SIZE
        BY <2>1, <2>4, ViewSizes
      <3> QED
        BY <3>1, <3>3, <3>4, <3>5, <3>6, <3>7, WholeText
    <2>9. \A j \in DOMAIN pages[i] : pages[i][j].key = ScreenKey(c, v)
      <3>1. displayIdx \in Nat /\ i \in 1 .. displayIdx /\ pages = History
        BY <2>1, <2>2 DEF HistoryInv
      <3>2. pages[i] = [j \in 1 .. Turned(i) |-> PageAt(i, j - 1)]
        BY <3>1 DEF History
      <3>3. PICK n : n = Turned(i)
        OBVIOUS
      <3>4. pages[i] = [j \in 1 .. n |-> PageAt(i, j - 1)]
        BY <3>2, <3>3
      <3>5. \A p : PageAt(i, p).key = ScreenKey(c, v)
        BY <2>5 DEF PageAt, Page
      <3> QED
        BY <3>4, <3>5
    <2>10. /\ s.title # <<>> /\ Moved(c, v) =>
                ScreenKey(c, v) = Marks(s.indent) \o TITLE_TRUNCATE_REPLACE
           /\ s.title # <<>> /\ ~Moved(c, v) => ScreenKey(c, v) = Marks(s.indent) \o s.title
           /\ ScreenText(c, v) =
                IF s.title = <<>> THEN Marks(s.indent) \o Out(c)
                ELSE IF Moved(c, v) THEN s.title \o <<":", " ">> \o Out(c) ELSE Out(c)
      <3>1. /\ IndentFits(fields) /\ TextFits(fields) /\ TitleEndsOnce(fields)
            /\ Readable(c) /\ s = Sent(fields)
        BY <2>5, <2>6
      <3>2. PICK text : text = ScreenText(c, v)
        OBVIOUS
      <3>3. s.title # <<>> /\ Moved(c, v) =>
                ScreenKey(c, v) = Marks(s.indent) \o TITLE_TRUNCATE_REPLACE
        BY <2>7, <3>1, ScreenShown
      <3>4. s.title # <<>> /\ ~Moved(c, v) => ScreenKey(c, v) = Marks(s.indent) \o s.title
        <4>1. c.title \in Seq(Chars) /\ NUL \notin Range(c.title)
          BY <2>7, <3>1 DEF Readable, Text, TitleEndsOnce
        <4>2. CString(s.title) = s.title
          BY <2>7, <4>1, CStringIs
        <4>3. s.title # <<>> /\ ~Moved(c, v) =>
                ScreenKey(c, v) = Marks(s.indent) \o CString(s.title)
          BY <2>7, <3>1, ScreenShown, ZenonT(60)
        <4> QED
          BY <4>2, <4>3, Zenon
      <3>5. text = IF s.title = <<>> THEN Marks(s.indent) \o Out(c)
                   ELSE IF Moved(c, v) THEN s.title \o <<":", " ">> \o Out(c) ELSE Out(c)
        BY <2>7, <3>1, <3>2, ScreenShown
      <3> QED
        BY <3>2, <3>3, <3>4, <3>5
    <2>11. PICK text : text = tx_display_translation(s.content, OUTPUT_HANDLER_SIZE).text
      OBVIOUS
    <2>12. Out(c) = text
      BY <2>7, <2>11 DEF Out
    <2>13. CASE s.title = <<>>
      BY <2>4, <2>6, <2>8, <2>10, <2>11, <2>12, <2>13, ZenonT(60) DEF ShownWhole
    <2>14. CASE s.title # <<>> /\ Moved(c, v)
      BY <2>4, <2>6, <2>8, <2>9, <2>10, <2>11, <2>12, <2>14, ZenonT(60) DEF ShownWhole
    <2>15. CASE s.title # <<>> /\ ~Moved(c, v)
      BY <2>4, <2>6, <2>8, <2>9, <2>10, <2>11, <2>12, <2>15, Zenon DEF ShownWhole
    <2> QED
      BY <2>13, <2>14, <2>15, ZenonT(60)
  <1> QED
    BY <1>1, <1>2, PTL

\* Pages of an item are kept for items of the transaction only.
PagesAreOfItems ==
    phase \in {"review", "done"} =>
        /\ displayIdx - 1 <= NumItems
        /\ pageIdx # 0 => displayIdx <= NumItems

LEMMA PagesOfItems == Spec => []PagesAreOfItems
  <1>1. Spec => []ReviewInv
    BY Reviewed
  <1>2. Init => PagesAreOfItems
    BY DEF Init, PagesAreOfItems
  <1>3. ReviewInv /\ PagesAreOfItems /\ [Next]_vars => PagesAreOfItems'
    <2> SUFFICES ASSUME ReviewInv, PagesAreOfItems, [Next]_vars PROVE PagesAreOfItems'
      OBVIOUS
    <2>1. ASSUME NEW d \in Documents
          PROVE  /\ d.tx_type = "tx_json" => Len(d.items) \in Nat
                 /\ d.tx_type = "tx_textual" => Len(d.screens) \in Nat
                 /\ d.tx_type \in {"tx_json", "tx_textual", "address"}
      BY DocumentsAssumption
    <2>2. tx \in Documents => NumItems \in Nat
      BY <2>1 DEF NumItems, addr_getNumItems, parser_getNumItems
    <2>3. tx' = tx => NumItems' = NumItems
      BY DEF NumItems, addr_getNumItems, parser_getNumItems
    <2>4. ASSUME NEW d \in Documents, parser_parse(d) PROVE PagesAreOfItems'
      BY <2>4 DEF parser_parse, PagesAreOfItems
    <2>5. ASSUME NEW d \in Documents, ShowAddress(d) PROVE PagesAreOfItems'
      <3>1. tx' = d /\ displayIdx' = 1 /\ pageIdx' = 0 /\ d.tx_type = "address"
        BY <2>5 DEF ShowAddress
      <3>2. NumItems' \in Nat
        BY <3>1 DEF NumItems, addr_getNumItems
      <3> QED
        BY <3>1, <3>2 DEF PagesAreOfItems
    <2>6. CASE parser_validate
      BY <2>6 DEF parser_validate, PagesAreOfItems
    <2>7. CASE Validated
      <3>1. tx \in Documents
        BY <2>7 DEF Validated, ReviewInv
      <3> QED
        BY <2>2, <2>3, <2>7, <3>1 DEF Validated, PagesAreOfItems
    <2>8. CASE NextPage
      <3>1. displayIdx' = displayIdx /\ tx' = tx /\ displayIdx <= NumItems
        BY <2>8 DEF NextPage
      <3>2. displayIdx - 1 <= NumItems
        BY <2>8 DEF NextPage, PagesAreOfItems
      <3> QED
        BY <2>3, <3>1, <3>2 DEF PagesAreOfItems
    <2>9. CASE NextItem
      <3>1. tx \in Documents /\ displayIdx \in Nat
        BY <2>9 DEF NextItem, ReviewInv
      <3> QED
        BY <2>2, <2>3, <2>9, <3>1 DEF NextItem, PagesAreOfItems
    <2>10. CASE LastItem
      BY <2>3, <2>10 DEF LastItem, PagesAreOfItems
    <2>11. CASE UNCHANGED vars
      BY <2>3, <2>11 DEF vars, PagesAreOfItems
    <2> QED
      BY <2>4, <2>5, <2>6, <2>7, <2>8, <2>9, <2>10, <2>11 DEF Next
  <1> QED
    BY <1>1, <1>2, <1>3, PTL DEF Spec

\* Whatever the titles, the contents and the buffers: a title that is shown as
\* the key of a page is no longer than what can be read there, next to the page
\* number when there are several pages (parser.c).
THEOREM TitlesAreReadable == Spec => []TitlesReadable
  <1>1. Spec => []ReviewInv /\ []Kept /\ []PagesAreOfItems
    BY Reviewed, Recorded, PagesOfItems
  <1>2. ReviewInv /\ Kept /\ PagesAreOfItems => TitlesReadable
    <2> SUFFICES ASSUME ReviewInv, Kept, PagesAreOfItems, tx.tx_type = "tx_textual",
                        NEW i \in DOMAIN pages, NEW j \in DOMAIN pages[i],
                        Sent(tx.screens[i]).title # <<>>, IndentFits(tx.screens[i]),
                        pages[i][j].key # Marks(Sent(tx.screens[i]).indent) \o TITLE_TRUNCATE_REPLACE
                 PROVE  Len(pages[i][j].key) <= IF pages[i][j].pageCount > 1
                                                THEN PRINTABLE_PAGINATED_TITLE_SIZE
                                                ELSE PRINTABLE_TITLE_SIZE
      BY DEF TitlesReadable
    <2>1. phase \in {"review", "done"}
      <3>1. phase # "none"
        BY DEF ReviewInv, NoTx
      <3>2. phase \notin {"validating", "refused"}
        BY DEF ReviewInv
      <3> QED
        BY <3>1, <3>2 DEF ReviewInv
    <2>2. /\ tx \in Documents /\ view \in Views /\ HistoryInv
          /\ _read_text_tx(tx.envelope, tx.screens) = "parser_ok"
      BY <2>1 DEF ReviewInv, Kept
    <2>3. Len(tx.screens) \in Nat /\ NumItems = Len(tx.screens)
      BY <2>2, DocumentsAssumption DEF NumItems, parser_getNumItems
    <2>4. displayIdx \in Nat \ {0} /\ pageIdx \in Nat /\ pages = History
      BY <2>1, <2>2 DEF HistoryInv
    <2>5. i \in 1 .. displayIdx /\ pages[i] = [k \in 1 .. Turned(i) |-> PageAt(i, k - 1)]
      BY <2>4 DEF History
    <2>6. PICK n : n = Turned(i)
      OBVIOUS
    <2>7. j \in 1 .. n /\ pages[i][j] = PageAt(i, j - 1)
      <3>1. pages[i] = [k \in 1 .. n |-> PageAt(i, k - 1)]
        BY <2>5, <2>6
      <3> QED
        BY <3>1
    <2>8. i \in 1 .. Len(tx.screens)
      <3>1. CASE i < displayIdx
        BY <2>1, <2>3, <2>4, <2>5, <3>1 DEF PagesAreOfItems
      <3>2. CASE i = displayIdx
        <4>1. n = pageIdx
          BY <2>4, <2>6, <3>2 DEF Turned
        <4>2. pageIdx # 0
          BY <2>4, <2>7, <4>1
        <4> QED
          BY <2>1, <2>3, <2>4, <2>5, <3>2, <4>2 DEF PagesAreOfItems
      <3> QED
        BY <2>4, <2>5, <3>1, <3>2
    <2>9. Showable(i)
      BY <2>1, <2>8 DEF ReviewInv
    <2>10. PICK c, v, t : c = Info(i) /\ v = view.val /\ t = ScreenText(c, v)
      OBVIOUS
    <2>11. /\ tx.screens[i] \in Seq(Field) /\ Len(tx.screens[i]) \in 1 .. 4
           /\ c.err = "parser_ok" /\ Readable(c)
           /\ \A p : Item(i, p) = Page(ScreenKey(c, v), pageString(t, v, p), uint8(PagesOf(t, v)))
      BY <2>2, <2>8, <2>9, <2>10, ScreenItem
    <2>12. PICK fields, s : fields = tx.screens[i] /\ s = Sent(fields)
      OBVIOUS
    <2>13. c.title = s.title /\ c.content = s.content /\ c.indent = s.indent
      <3>1. PICK m : m = Len(fields)
        OBVIOUS
      <3>2. fields \in Seq(Field) /\ m \in 1 .. 4 /\ IndentFits(fields)
            /\ cbor_get_containerInfo(fields).err = "parser_ok"
        BY <2>10, <2>11, <2>12, <3>1 DEF Info
      <3> QED
        BY <2>10, <2>12, <3>1, <3>2, InfoSent DEF Info
    <2>14. pages[i][j].key = ScreenKey(c, v) /\ pages[i][j].pageCount = uint8(PagesOf(t, v))
      BY <2>7, <2>11 DEF PageAt, Page
    <2>15. ~Moved(c, v)
      BY <2>11, <2>12, <2>13, <2>14, ScreenShown, ZenonT(60)
    <2>16. /\ t = Out(c) /\ Len(ScreenKey(c, v)) <= PRINTABLE_TITLE_SIZE
           /\ Len(Out(c)) >= v => Len(ScreenKey(c, v)) <= PRINTABLE_PAGINATED_TITLE_SIZE
      BY <2>10, <2>11, <2>12, <2>13, <2>15, ScreenShown, ZenonT(60)
    <2>17. uint8(PagesOf(t, v)) > 1 => Len(t) >= v
      <3>1. t \in Seq(ShownChars) /\ Len(t) \in Nat /\ v \in Nat /\ v >= MAX_TITLE_SIZE
        BY <2>2, <2>10, <2>11, ScreenParts, ViewSizes, LenProperties
      <3>2. UINT8_MAX \in Nat /\ UINT8_MAX > 0 /\ 1 < v
        BY <3>1, SizeAssumption
      <3>3. SUFFICES ASSUME Len(t) < v PROVE ~(uint8(PagesOf(t, v)) > 1)
        BY <3>1
      <3>4. 1 \in Nat /\ Len(t) <= 1 * (v - 1)
        BY <3>1, <3>3
      <3>5. PagesOf(t, v) \in Nat /\ PagesOf(t, v) <= 1
        BY <3>1, <3>2, <3>4, FewerPages
      <3>6. PICK q \in Nat : q = PagesOf(t, v) /\ q <= 1
        BY <3>5
      <3>7. q <= UINT8_MAX
        BY <3>2, <3>6
      <3>8. uint8(q) = q
        BY <3>2, <3>7 DEF uint8
      <3> QED
        BY <3>6, <3>8
    <2> QED
      BY <2>14, <2>16, <2>17
  <1> QED
    BY <1>1, <1>2, PTL

----------------------------------------------------------------------------
(* Pages fit their buffers                                                 *)

PageChars == ShownChars \cup {"Address", "Path"}

\* A page of v bytes, and the record that is kept of it.
Fits(page, v) ==
    /\ page.val \in Seq(PageChars) /\ Len(page.val) < v /\ page.pageCount \in 0 .. UINT8_MAX
PageRecord ==
    {r \in [key : Seq(PageChars), val : Seq(PageChars), pageCount : 0 .. UINT8_MAX] :
        Len(r.key) < view.key /\ Len(r.val) < view.val}

LEMMA StringFits ==
    ASSUME NEW s \in Seq(ShownChars), NEW v \in Nat, v >= MAX_TITLE_SIZE, NEW p \in Nat, NEW k
    PROVE  Fits(Page(k, pageString(s, v, p), uint8(PagesOf(s, v))), v)
  <1>1. v > 1 /\ s \in Seq(PageChars)
    <2>1. ShownChars \subseteq PageChars
      BY DEF PageChars
    <2> QED
      BY <2>1, SizeAssumption, SeqMonotonic, SMTT(60)
  <1>2. pageString(s, v, p) \in Seq(PageChars) /\ Len(pageString(s, v, p)) < v
    BY <1>1, PageParts
  <1>3. uint8(PagesOf(s, v)) \in 0 .. UINT8_MAX
    BY ByteCount
  <1> QED
    BY <1>2, <1>3 DEF Fits, Page

LEMMA EmptyFits ==
    ASSUME NEW v \in Nat, v >= MAX_TITLE_SIZE, NEW k
    PROVE  Fits(Page(k, <<"Empty">>, 1), v)
  <1>1. PICK e : e = <<"Empty">>
    OBVIOUS
  <1>2. e \in Seq(ShownChars) /\ Len(e) = 1 /\ ShownChars \subseteq PageChars
    BY <1>1, EmptyShown DEF PageChars
  <1>3. e \in Seq(PageChars)
    BY <1>2, SeqMonotonic
  <1>4. Len(e) < v /\ 1 \in 0 .. UINT8_MAX
    BY <1>2, SizeAssumption, SMTT(60)
  <1> QED
    BY <1>1, <1>3, <1>4 DEF Fits, Page

LEMMA CoinFits ==
    ASSUME NEW e \in AmountElement, NEW plain, NEW v \in Nat, v >= MAX_TITLE_SIZE, NEW p \in Nat,
           parser_formatAmountItem(e, plain, v, p).err = "parser_ok"
    PROVE  Fits(parser_formatAmountItem(e, plain, v, p), v)
  <1>1. CASE Own(e) = {}
    <2>1. parser_formatAmountItem(e, plain, v, p) = Page(<<>>, <<"Empty">>, 1)
      BY <1>1 DEF parser_formatAmountItem
    <2> QED
      BY <2>1, EmptyFits
  <1>2. CASE Own(e) # {}
    <2>1. PICK text : text = FormatCoin(e.tokens[2].text, e.tokens[4].text, plain)
      OBVIOUS
    <2>2. text \in Seq(ShownChars)
      <3>1. parser_formatAmountItem(e, plain, MAX_TITLE_SIZE, 0).err = "parser_ok"
        BY CoinErrors
      <3>2. text \in Seq(Chars \cup {" "})
        BY <1>2, <2>1, <3>1, CoinLength
      <3>3. Chars \cup {" "} \subseteq ShownChars
        BY DEF ShownChars
      <3> QED
        BY <3>2, <3>3, SeqMonotonic
    <2>3. parser_formatAmountItem(e, plain, v, p)
            = Page(<<>>, pageString(text, v, p), uint8(PagesOf(text, v)))
      BY <1>2, <2>1 DEF parser_formatAmountItem, Error
    <2> QED
      BY <2>2, <2>3, StringFits
  <1> QED
    BY <1>1, <1>2

\* The pages of a list are those of its coins, counted by a byte.
LEMMA AmountFits ==
    ASSUME NEW value \in AmountValue, NEW plain,
           parser_formatAmount(value, plain, MAX_TITLE_SIZE, 0).err = "parser_ok",
           NEW v \in Nat, v >= MAX_TITLE_SIZE, NEW p \in Nat,
           parser_formatAmount(value, plain, v, p).err = "parser_ok"
    PROVE  Fits(parser_formatAmount(value, plain, v, p), v)
  <1>1. CASE ~value.array
    <2>1. parser_formatAmount(value, plain, v, p)
            = parser_formatAmountItem(value.elements[1], plain, v, p)
      BY <1>1 DEF parser_formatAmount
    <2>2. PICK coins : coins = value.elements
      OBVIOUS
    <2>3. coins \in [1 .. 1 -> AmountElement]
      BY <1>1, <2>2 DEF AmountValue
    <2>4. value.elements[1] \in AmountElement
      BY <2>2, <2>3
    <2> QED
      BY <2>1, <2>4, CoinFits
  <1>2. CASE value.array
    <2>1. PICK coins : coins = value.elements
      OBVIOUS
    <2>2. coins \in Seq(AmountElement)
      BY <1>2, <2>1 DEF AmountValue
    <2>3. PICK n \in Nat : n = Len(coins)
      BY <2>2
    <2>4. CountCoins(coins, plain, MAX_TITLE_SIZE, 0)[n].err = "parser_ok"
      BY <1>2, <2>1, <2>3 DEF parser_formatAmount, Error
    <2>5. PICK loop, most :
            /\ loop = CountCoins(coins, plain, v, p)[n]
            /\ most = CountCoins(coins, plain, MAX_TITLE_SIZE, 0)[n].totalPages
      OBVIOUS
    <2>6. n \in 0 .. n
      BY <2>3
    <2>7. LoopOK(loop, n, p, most)
      BY <2>2, <2>3, <2>4, <2>5, <2>6, ReviewedLoop
    <2>8. loop.err = "parser_ok" /\ loop.totalPages \in Nat /\ loop.showItem \in Nat
          /\ loop.showPageIdx \in Nat /\ loop.totalPages <= most
      BY <2>7 DEF LoopOK, Loops
    <2>9. PICK t \in Nat : t = loop.totalPages
      BY <2>8
    <2>10. t \in 0 .. UINT8_MAX
      <3>1. PICK max : max = CountCoins(coins, plain, MAX_TITLE_SIZE, 0)
        OBVIOUS
      <3>2. LoopOK(max[n], n, 0, most) /\ most <= UINT8_MAX
        BY <2>2, <2>3, <2>4, <2>5, <2>6, <3>1, ValidatedLoop
      <3>3. most \in Nat /\ UINT8_MAX \in Nat
        BY <2>5, <3>1, <3>2, SizeAssumption DEF LoopOK, Loops
      <3> QED
        BY <2>8, <2>9, <3>2, <3>3
    <2>11. ~(p > t)
      BY <1>2, <2>1, <2>3, <2>5, <2>8, <2>9 DEF parser_formatAmount, Error
    <2>12. CASE t = 0
      <3>1. parser_formatAmount(value, plain, v, p) = Page(<<>>, <<"Empty">>, 1)
        BY <1>2, <2>1, <2>3, <2>5, <2>8, <2>9, <2>11, <2>12 DEF parser_formatAmount
      <3> QED
        BY <3>1, EmptyFits
    <2>13. CASE t # 0
      <3>1. PICK shown : shown = parser_formatAmountItem(coins[loop.showItem], plain, v,
                                                         loop.showPageIdx)
        OBVIOUS
      <3>2. loop.showItem # 0
        BY <1>2, <2>1, <2>3, <2>5, <2>8, <2>9, <2>11, <2>13 DEF parser_formatAmount, Error
      <3>3. loop.showItem \in 1 .. n
        BY <2>3, <2>7, <2>8, <3>2 DEF LoopOK
      <3>4. coins[loop.showItem] \in AmountElement
        BY <2>2, <2>3, <3>3, ElementOfSeq, SMTT(60)
      <3>5. parser_formatAmount(value, plain, v, p)
              = [shown EXCEPT !.pageCount = IF shown.err = "parser_ok" THEN t ELSE 0]
        BY <1>2, <2>1, <2>3, <2>5, <2>8, <2>9, <2>11, <2>13, <3>1, <3>2 DEF parser_formatAmount
      <3>6. IsPage(shown)
        BY <3>1, CoinIsPage
      <3>7. PICK count : count = IF shown.err = "parser_ok" THEN t ELSE 0
        OBVIOUS
      <3>8. /\ parser_formatAmount(value, plain, v, p).err = shown.err
            /\ parser_formatAmount(value, plain, v, p).val = shown.val
            /\ parser_formatAmount(value, plain, v, p).pageCount = count
        BY <3>5, <3>6, <3>7 DEF IsPage
      <3>9. shown.err = "parser_ok" /\ count = t
        BY <3>7, <3>8
      <3>10. Fits(shown, v)
        BY <2>8, <3>1, <3>4, <3>9, CoinFits
      <3> QED
        BY <2>10, <3>8, <3>9, <3>10 DEF Fits
    <2> QED
      BY <2>12, <2>13
  <1> QED
    BY <1>1, <1>2

LEMMA RecordOf ==
    ASSUME NEW page, NEW k \in Seq(PageChars), page.key = k, Len(k) < view.key, Fits(page, view.val)
    PROVE  [key |-> page.key, val |-> page.val, pageCount |-> page.pageCount] \in PageRecord
  BY DEF Fits, PageRecord

\* Every page of every item of a review.
LEMMA ItemFits ==
    ASSUME ReviewInv, phase = "review", NEW i \in 1 .. NumItems, NumItems \in Nat, NEW p \in Nat,
           Item(i, p).err = "parser_ok"
    PROVE  LET page == Item(i, p)
           IN  [key |-> page.key, val |-> page.val, pageCount |-> page.pageCount] \in PageRecord
  <1>1. tx \in Documents /\ view \in Views
    BY DEF ReviewInv
  <1>2. PICK v \in Nat, w \in Nat : v = view.val /\ v >= MAX_TITLE_SIZE
                                    /\ w = view.key /\ w >= MAX_TITLE_SIZE + 2
    BY <1>1, ViewSizes, ViewKeys
  <1>3. ShownChars \subseteq PageChars /\ Chars \subseteq ShownChars
    BY DEF PageChars, ShownChars
  <1>4. \A s \in Text : s \in Seq(ShownChars)
    BY <1>3, SeqMonotonic DEF Text
  <1>5. PICK page : page = Item(i, p)
    OBVIOUS
  <1>6. CASE tx.tx_type = "tx_textual"
    <2>1. tx.tx_type = "tx_textual"
      BY <1>6
    <2>2. /\ NumItems = Len(tx.screens)
          /\ _read_text_tx(tx.envelope, tx.screens) = "parser_ok"
      BY <2>1 DEF ReviewInv, NumItems, parser_getNumItems
    <2>3. i \in 1 .. Len(tx.screens) /\ Showable(i)
      BY <2>1, <2>2 DEF ReviewInv
    <2>4. PICK c, k, s : c = Info(i) /\ k = ScreenKey(c, v) /\ s = ScreenText(c, v)
      OBVIOUS
    <2>5. Readable(c) /\ page = Page(k, pageString(s, v, p), uint8(PagesOf(s, v)))
      BY <1>1, <1>2, <1>5, <2>1, <2>2, <2>3, <2>4, ScreenItem
    <2>6. s \in Seq(ShownChars) /\ k \in Seq(ShownChars) /\ Len(k) < MAX_TITLE_SIZE + 2
      BY <2>4, <2>5, ScreenParts
    <2>7. Fits(page, v)
      BY <1>2, <2>5, <2>6, StringFits
    <2>8. k \in Seq(PageChars)
      BY <1>3, <2>6, SeqMonotonic
    <2>9. Len(k) < w
      BY <1>2, <2>6, SizeAssumption, LenProperties, SMTT(60)
    <2>10. page.key = k
      BY <2>5 DEF Page
    <2> QED
      BY <1>2, <1>5, <2>7, <2>8, <2>9, <2>10, RecordOf
  <1>7. CASE tx.tx_type = "address"
    <2>1. tx.address \in Text /\ tx.path \in Text
      BY <1>1, <1>7, DocumentsAssumption
    <2>2. PICK name \in PageChars, s \in Text :
              page = Page(<<name>>, pageString(s, v, p), uint8(PagesOf(s, v)))
      <3>1. CASE i = 1
        <4>1. "Address" \in PageChars
          BY DEF PageChars
        <4>2. page = Page(<<"Address">>, pageString(tx.address, v, p), uint8(PagesOf(tx.address, v)))
          BY <1>2, <1>5, <1>7, <3>1, Zenon DEF Item, addr_getItem
        <4> QED
          BY <2>1, <4>1, <4>2
      <3>2. CASE i # 1
        <4>1. "Path" \in PageChars
          BY DEF PageChars
        <4>2. i = 2 /\ (tx.expert \/ tx.eth)
          BY <1>7, <3>2 DEF NumItems, addr_getNumItems
        <4>3. page = Page(<<"Path">>, pageString(tx.path, v, p), uint8(PagesOf(tx.path, v)))
          BY <1>2, <1>5, <1>7, <3>2, <4>2, Zenon DEF Item, addr_getItem
        <4> QED
          BY <2>1, <4>1, <4>3
      <3> QED
        BY <3>1, <3>2
    <2>3. Fits(page, v)
      BY <1>2, <1>4, <2>2, StringFits
    <2>4. <<name>> \in Seq(PageChars) /\ Len(<<name>>) = 1
      BY OneChar
    <2>5. Len(<<name>>) < w /\ page.key = <<name>>
      BY <1>2, <2>2, <2>4, SizeAssumption DEF Page
    <2> QED
      BY <1>2, <1>5, <2>3, <2>4, <2>5, RecordOf
  <1>8. CASE tx.tx_type = "tx_json"
    <2>1. NumItems = Len(tx.items)
      BY <1>8 DEF NumItems, parser_getNumItems
    <2>2. Fetched(i)
      BY <1>8, <2>1 DEF ReviewInv
    <2>3. PICK item, value : item = tx.items[i] /\ value = ValuePage(item, tx.plain, v, p)
      OBVIOUS
    <2>4. item \in JsonItem
      BY <1>1, <1>8, <2>1, <2>3, DocumentsAssumption
    <2>5. page = parser_getJsonItem(i, w, v, p)
      BY <1>2, <1>5, <1>8 DEF Item, parser_getItem
    <2>6. page.err = value.err /\ page.pageCount = value.pageCount /\ page.val = value.val
      BY <2>3, <2>5, ItemValue
    <2>7. ValuePage(item, tx.plain, MAX_TITLE_SIZE, 0).err = "parser_ok"
      BY <2>2, <2>3, ItemValue DEF Fetched
    <2>8. value.err = "parser_ok"
      BY <1>5, <2>6
    <2>9. Fits(value, v)
      <3>1. CASE item.isAmount
        <4>1. item.value \in AmountValue
          BY <2>4, <3>1 DEF JsonItem
        <4>2. \A l, q : ValuePage(item, tx.plain, l, q) = parser_formatAmount(item.value, tx.plain, l, q)
          BY <3>1 DEF ValuePage
        <4> QED
          BY <1>2, <2>3, <2>7, <2>8, <4>1, <4>2, AmountFits
      <3>2. CASE ~item.isAmount
        <4>1. item.text \in Seq(ShownChars)
          BY <1>4, <2>4, <3>2 DEF JsonItem
        <4>2. PICK s : s = item.text
          OBVIOUS
        <4>3. PICK count : count = IF s = <<>> THEN 1 ELSE uint8(PagesOf(s, v))
          OBVIOUS
        <4>4. value = tx_getToken(s, v, p)
          BY <2>3, <3>2, <4>2 DEF ValuePage
        <4>5. value = Page(<<>>, pageString(s, v, p), count)
          BY <2>8, <4>3, <4>4 DEF tx_getToken, Error
        <4>6. Fits(Page(<<>>, pageString(s, v, p), uint8(PagesOf(s, v))), v)
          BY <1>2, <4>1, <4>2, StringFits
        <4>7. 1 \in 0 .. UINT8_MAX
          BY SizeAssumption
        <4> QED
          BY <4>3, <4>5, <4>6, <4>7 DEF Fits, Page
      <3> QED
        BY <3>1, <3>2
    <2>10. Fits(page, v)
      BY <2>6, <2>9 DEF Fits
    <2>11. PICK k : k = Bytes(item.key, 1, w - 1)
      OBVIOUS
    <2>12. page.key = k
      <3>1. PICK shown : shown = ValuePage(item, tx.plain, v, p)
        OBVIOUS
      <3>2. IsPage(shown)
        <4>1. IsPage(tx_getToken(item.text, v, p))
          BY DEF tx_getToken, Page, Error, IsPage
        <4> QED
          BY <3>1, <4>1, AmountIsPage DEF ValuePage
      <3>3. page = [shown EXCEPT !.key = IF shown.err = "parser_ok"
                                         THEN Bytes(item.key, 1, w - 1) ELSE <<>>]
        BY <2>3, <2>5, <3>1 DEF parser_getJsonItem, ValuePage
      <3>4. page.key = IF shown.err = "parser_ok" THEN Bytes(item.key, 1, w - 1) ELSE <<>>
        BY <3>2, <3>3 DEF IsPage
      <3> QED
        BY <2>3, <2>8, <2>11, <3>1, <3>4
    <2>13. k \in Seq(PageChars) /\ Len(k) < w
      <3>1. item.key \in Seq(PageChars)
        <4>1. item.key \in Text
          BY <2>4 DEF JsonItem
        <4> QED
          BY <1>3, <1>4, <4>1, SeqMonotonic
      <3>2. PICK m \in Nat : m = w - 1
        <4>1. w - 1 \in Nat
          BY <1>2, SizeAssumption
        <4> QED
          BY <4>1
      <3>3. k \in Seq(PageChars) /\ Len(k) \in Nat /\ Len(k) <= m
        BY <2>11, <3>1, <3>2, BytesWhole
      <3> QED
        BY <3>2, <3>3
    <2> QED
      BY <1>2, <1>5, <2>10, <2>12, <2>13, RecordOf
  <1> QED
    BY <1>1, <1>6, <1>7, <1>8, DocumentsAssumption

TypeInv ==
    /\ displayIdx \in Nat /\ pageIdx \in Nat /\ pageCount \in 0 .. UINT8_MAX
    /\ pages \in Seq(Seq(PageRecord))

\* Whatever the transactions and the buffers, every page the user was shown fits
\* the buffers of the screen it was asked for, and its item takes no more pages
\* than a byte counts (parser.c:69, addr.c:42).
THEOREM PagesAreTyped == Spec => []TypeOK
  <1>0. 0 \in 0 .. UINT8_MAX /\ 1 \in 0 .. UINT8_MAX
    BY SizeAssumption
  <1>1. Spec => []ReviewInv
    BY Reviewed
  <1>2. Init => TypeInv
    <2>1. \A S : <<>> \in Seq(S)
      BY EmptySeq
    <2> QED
      BY <1>0, <2>1 DEF Init, TypeInv
  <1>3. ReviewInv /\ TypeInv /\ [Next]_vars => TypeInv'
    <2> SUFFICES ASSUME ReviewInv, TypeInv, [Next]_vars PROVE TypeInv'
      OBVIOUS
    <2>1. view' = view
      BY DEF Next, vars, parser_parse, ShowAddress, parser_validate, Validated, NextPage,
         NextItem, LastItem
    <2>2. PageRecord' = PageRecord
      BY <2>1 DEF PageRecord
    <2>3. PICK R : R = Seq(PageRecord)
      OBVIOUS
    <2>4. pages \in Seq(R) /\ <<>> \in R
      BY <2>3, EmptySeq DEF TypeInv
    <2>5. <<<<>>>> \in Seq(R)
      <3>1. PICK none \in R : none = <<>>
        BY <2>4
      <3> QED
        BY <3>1, OneChar
    <2>6. SUFFICES /\ displayIdx' \in Nat /\ pageIdx' \in Nat /\ pageCount' \in 0 .. UINT8_MAX
                   /\ pages' \in Seq(R)
      BY <2>2, <2>3 DEF TypeInv
    <2>7. 1 \in Nat /\ 0 \in Nat /\ displayIdx + 1 \in Nat /\ pageIdx + 1 \in Nat
      BY DEF TypeInv
    <2>8. ASSUME NEW d \in Documents, parser_parse(d) \/ ShowAddress(d)
          PROVE  /\ displayIdx' \in Nat /\ pageIdx' \in Nat /\ pageCount' \in 0 .. UINT8_MAX
                 /\ pages' \in Seq(R)
      BY <1>0, <2>4, <2>5, <2>7, <2>8 DEF parser_parse, ShowAddress, TypeInv
    <2>9. CASE parser_validate
      BY <2>4, <2>7, <2>9 DEF parser_validate, TypeInv
    <2>10. CASE Validated
      BY <1>0, <2>5, <2>7, <2>10 DEF Validated
    <2>11. CASE NextPage
      <3>1. PICK page : page = Item(displayIdx, pageIdx)
        OBVIOUS
      <3>2. CASE page.err # "parser_ok"
        BY <2>4, <2>11, <3>1, <3>2 DEF NextPage, TypeInv
      <3>3. CASE page.err = "parser_ok"
        <4>1. PICK r : r = [key |-> page.key, val |-> page.val, pageCount |-> page.pageCount]
          OBVIOUS
        <4>2. /\ pages' = [pages EXCEPT ![displayIdx] = Append(pages[displayIdx], r)]
              /\ pageCount' = page.pageCount /\ pageIdx' = pageIdx + 1 /\ displayIdx' = displayIdx
              /\ phase = "review" /\ displayIdx <= NumItems
          BY <2>11, <3>1, <3>3, <4>1 DEF NextPage
        <4>3. tx \in Documents /\ displayIdx \in Nat \ {0} /\ pageIdx \in Nat
          BY <4>2 DEF ReviewInv, TypeInv
        <4>4. NumItems \in Nat
          BY <4>3, DocumentsAssumption DEF NumItems, addr_getNumItems, parser_getNumItems
        <4>5. displayIdx \in 1 .. NumItems
          BY <4>2, <4>3, <4>4
        <4>6. r \in PageRecord
          BY <3>1, <3>3, <4>1, <4>2, <4>3, <4>4, <4>5, ItemFits
        <4>7. r.pageCount \in 0 .. UINT8_MAX /\ r.pageCount = page.pageCount
          BY <4>1, <4>6 DEF PageRecord
        <4>8. pages' \in Seq(R)
          <5>1. PICK n \in Nat : n = Len(pages) /\ DOMAIN pages = 1 .. n
            BY <2>4, LenProperties
          <5>2. CASE displayIdx \in 1 .. n
            <6>1. pages[displayIdx] \in Seq(PageRecord)
              BY <2>3, <2>4, <5>1, <5>2, ElementOfSeq
            <6>2. PICK longer : longer = Append(pages[displayIdx], r)
              OBVIOUS
            <6>3. longer \in R
              BY <2>3, <4>6, <6>1, <6>2, AppendProperties
            <6>4. pages \in [1 .. n -> R]
              BY <2>4, <5>1
            <6>5. pages' \in [1 .. n -> R]
              BY <4>2, <6>2, <6>3, <6>4
            <6> QED
              BY <6>5
          <5>3. CASE displayIdx \notin 1 .. n
            <6>1. pages \in [1 .. n -> R]
              BY <2>4, <5>1
            <6>2. pages' = pages
              BY <4>2, <5>3, <6>1
            <6> QED
              BY <2>4, <6>2
          <5> QED
            BY <5>2, <5>3
        <4> QED
          BY <2>7, <4>2, <4>3, <4>7, <4>8
      <3> QED
        BY <3>2, <3>3
    <2>12. CASE NextItem
      <3>1. PICK none \in R : none = <<>>
        BY <2>4
      <3>2. Append(pages, none) \in Seq(R)
        BY <2>4, AppendProperties
      <3> QED
        BY <1>0, <2>7, <2>12, <3>1, <3>2 DEF NextItem
    <2>13. CASE LastItem
      BY <2>4, <2>13 DEF LastItem, TypeInv
    <2>14. CASE UNCHANGED vars
      BY <2>4, <2>14 DEF vars, TypeInv
    <2> QED
      BY <2>8, <2>9, <2>10, <2>11, <2>12, <2>13, <2>14 DEF Next
  <1>4. ReviewInv /\ TypeInv => TypeOK
    <2> SUFFICES ASSUME ReviewInv, TypeInv PROVE TypeOK
      OBVIOUS
    <2>1. ASSUME NEW i \in DOMAIN pages, NEW j \in DOMAIN pages[i]
          PROVE  Len(pages[i][j].key) < view.key /\ Len(pages[i][j].val) < view.val
      <3>1. pages[i] \in Seq(PageRecord)
        BY ElementOfSeq, LenProperties DEF TypeInv
      <3>2. pages[i][j] \in PageRecord
        BY <3>1, ElementOfSeq, LenProperties
      <3> QED
        BY <3>2 DEF PageRecord
    <2>2. tx \in Documents \cup {NoTx}
      BY DEF ReviewInv
    <2> QED
      BY <2>1, <2>2 DEF ReviewInv, TypeInv, TypeOK
  <1> QED
    BY <1>1, <1>2, <1>3, <1>4, PTL DEF Spec

----------------------------------------------------------------------------
(* What is shown of a text can be read back                                *)

\* How a character is shown: as a substitution, as a code point, or as itself.
LEMMA CodeForm ==
    ASSUME NEW c \in Chars
    PROVE  /\ Len(Shown(c)) \in Nat
           /\ \/ /\ c \in DOMAIN Substitution /\ Len(Shown(c)) = 2
                 /\ Shown(c)[1] = "\\" /\ Shown(c)[2] = Substitution[c]
              \/ /\ c \in DOMAIN Wide /\ Shown(c) = Wide[c]
                 /\ Len(Shown(c)) > 2 /\ Shown(c)[1] = "\\"
              \/ Len(Shown(c)) = 1 /\ Shown(c)[1] = c /\ c # "\\"
  <1>1. CASE c \in DOMAIN Substitution
    <2>1. PICK a : a = Substitution[c]
      OBVIOUS
    <2>2. PICK b : b = "\\"
      OBVIOUS
    <2>3. Shown(c) = <<b, a>>
      BY <1>1, <2>1, <2>2 DEF Shown
    <2> QED
      BY <1>1, <2>1, <2>2, <2>3
  <1>2. CASE c \notin DOMAIN Substitution /\ c \in DOMAIN Wide
    <2>1. Shown(c) = Wide[c]
      BY <1>2 DEF Shown
    <2>2. Wide[c] \in Seq(Chars) /\ Len(Wide[c]) > 2 /\ Wide[c][1] = "\\"
      BY <1>2, WideAssumption DEF Text
    <2> QED
      BY <1>2, <2>1, <2>2, LenProperties
  <1>3. CASE c \notin DOMAIN Substitution /\ c \notin DOMAIN Wide
    <2>1. Shown(c) = <<c>>
      BY <1>3 DEF Shown
    <2>2. c # "\\"
      BY <1>3 DEF Substitution
    <2> QED
      BY <2>1, <2>2
  <1> QED
    BY <1>1, <1>2, <1>3

\* No character is shown as the beginning of another.
LEMMA CodesApart ==
    ASSUME NEW c \in Chars, NEW d \in Chars, Len(Shown(c)) <= Len(Shown(d)),
           \A j \in 1 .. Len(Shown(c)) : Shown(c)[j] = Shown(d)[j]
    PROVE  c = d
  <1>1. Len(Shown(c)) \in Nat /\ Len(Shown(d)) \in Nat
    BY CodeForm
  <1>2. CASE Len(Shown(c)) = 1 /\ Shown(c)[1] = c /\ c # "\\"
    <2>1. Shown(d)[1] = c
      BY <1>2
    <2> QED
      BY <1>2, <2>1, CodeForm
  <1>3. CASE /\ c \in DOMAIN Substitution /\ Len(Shown(c)) = 2
             /\ Shown(c)[1] = "\\" /\ Shown(c)[2] = Substitution[c]
    <2>1. Shown(d)[1] = "\\" /\ Shown(d)[2] = Substitution[c] /\ Len(Shown(d)) > 1
      BY <1>1, <1>3
    <2>2. CASE d \in DOMAIN Substitution /\ Shown(d)[2] = Substitution[d]
      BY <1>3, <2>1, <2>2 DEF Substitution
    <2>3. CASE d \in DOMAIN Wide /\ Shown(d) = Wide[d]
      BY <1>3, <2>1, <2>3, WideAssumption
    <2>4. Len(Shown(d)) # 1
      BY <1>1, <2>1
    <2>5. \/ d \in DOMAIN Substitution /\ Shown(d)[2] = Substitution[d]
          \/ d \in DOMAIN Wide /\ Shown(d) = Wide[d]
          \/ Len(Shown(d)) = 1
      BY CodeForm, Zenon
    <2> QED
      BY <2>2, <2>3, <2>4, <2>5, Zenon
  <1>4. CASE /\ c \in DOMAIN Wide /\ Shown(c) = Wide[c]
             /\ Len(Shown(c)) > 2 /\ Shown(c)[1] = "\\"
    <2>1. Shown(d)[1] = "\\" /\ Len(Shown(d)) > 2
      BY <1>1, <1>4
    <2>2. d \in DOMAIN Wide /\ Shown(d) = Wide[d]
      <3>1. Len(Shown(d)) # 1 /\ Len(Shown(d)) # 2
        <4>1. PICK n \in Nat : n = Len(Shown(d)) /\ n > 2
          BY <1>1, <2>1
        <4>2. n # 1 /\ n # 2
          BY <4>1
        <4> QED
          BY <4>1, <4>2
      <3>2. \/ Len(Shown(d)) = 2
            \/ d \in DOMAIN Wide /\ Shown(d) = Wide[d]
            \/ Len(Shown(d)) = 1
        BY CodeForm, Zenon
      <3> QED
        BY <3>1, <3>2, Zenon
    <2>3. IsPrefix(Wide[c], Wide[d])
      <3>1. Wide[c] \in Seq(Chars) /\ Wide[d] \in Seq(Chars)
        BY <1>4, <2>2, WideAssumption DEF Text
      <3>2. PICK n \in Nat : n = Len(Wide[c]) /\ n <= Len(Wide[d])
        BY <1>1, <1>4, <2>2
      <3>3. \A j \in 1 .. n : Wide[c][j] = Wide[d][j]
        BY <1>4, <2>2, <3>2
      <3>4. Wide[c] = SubSeq(Wide[d], 1, Len(Wide[c]))
        <4>1. PICK x, y : x = Wide[c] /\ y = Wide[d]
          OBVIOUS
        <4>2. x \in Seq(Chars) /\ y \in Seq(Chars) /\ n = Len(x) /\ n <= Len(y)
          BY <3>1, <3>2, <4>1
        <4>3. \A j \in 1 .. n : x[j] = y[j]
          BY <3>3, <4>1
        <4>4. x = SubSeq(y, 1, n)
          BY <4>2, <4>3
        <4> QED
          BY <4>1, <4>2, <4>4
      <3> QED
        BY <3>2, <3>4 DEF IsPrefix
    <2> QED
      BY <1>4, <2>2, <2>3, WideAssumption
  <1> QED
    BY <1>2, <1>3, <1>4, CodeForm, Zenon

\* What is shown of the first characters of a text.
ShownOf(s, k) == FlattenSeq([i \in 1 .. k |-> Shown(s[i])])

LEMMA ShownOfNext ==
    ASSUME NEW s \in Text, NEW k \in Nat, k + 1 <= Len(s)
    PROVE  /\ ShownOf(s, k) \in Seq(ShownChars) /\ ShownOf(s, k + 1) \in Seq(ShownChars)
           /\ s[k + 1] \in Chars /\ Shown(s[k + 1]) \in Seq(ShownChars)
           /\ ShownOf(s, k + 1) = ShownOf(s, k) \o Shown(s[k + 1])
  <1>1. \A i \in 1 .. k + 1 : s[i] \in Chars
    BY LenProperties, ElementOfSeq DEF Text
  <1>2. \A i \in 1 .. k + 1 : Shown(s[i]) \in Seq(ShownChars)
    BY <1>1, ShownType
  <1>3. PICK g : g = [i \in 1 .. k + 1 |-> Shown(s[i])]
    OBVIOUS
  <1>4. PICK f : f = [i \in 1 .. k |-> Shown(s[i])]
    OBVIOUS
  <1>5. k + 1 \in 1 .. k + 1 /\ \A i \in 1 .. k : i \in 1 .. k + 1
    OBVIOUS
  <1>6. f = [i \in 1 .. k |-> g[i]] /\ g = [i \in 1 .. k + 1 |-> g[i]]
    BY <1>3, <1>4, <1>5
  <1>7. FlattenSeq(g) = FlattenSeq(f) \o g[k + 1]
    <2>1. \A i \in 1 .. k + 1 : g[i] \in Seq(ShownChars)
      BY <1>2, <1>3
    <2>2. FlattenSeq([i \in 1 .. k + 1 |-> g[i]]) = FlattenSeq([i \in 1 .. k |-> g[i]]) \o g[k + 1]
      BY <2>1, FlattenNext
    <2> QED
      BY <1>6, <2>2
  <1>8. FlattenSeq(f) \in Seq(ShownChars) /\ FlattenSeq(g) \in Seq(ShownChars)
    <2>1. f \in [1 .. k -> Seq(ShownChars)] /\ g \in [1 .. k + 1 -> Seq(ShownChars)]
      BY <1>2, <1>3, <1>4, <1>5
    <2>2. f \in Seq(Seq(ShownChars)) /\ g \in Seq(Seq(ShownChars))
      BY <2>1
    <2> QED
      BY <2>2, FlattenType
  <1>9. g[k + 1] = Shown(s[k + 1])
    BY <1>3
  <1> QED
    BY <1>1, <1>2, <1>3, <1>4, <1>5, <1>7, <1>8, <1>9 DEF ShownOf

LEMMA ShownOfNone ==
    ASSUME NEW s
    PROVE  ShownOf(s, 0) = <<>>
  <1>1. PICK g : g = [i \in 1 .. 0 |-> Shown(s[i])]
    OBVIOUS
  <1>2. g = <<>>
    BY <1>1
  <1> QED
    BY <1>1, <1>2, FlattenEmpty DEF ShownOf

\* What is shown of some characters begins what is shown of more.
LEMMA ShownOfGrows ==
    ASSUME NEW s \in Text, NEW k \in Nat, NEW n \in Nat, k <= n, n <= Len(s)
    PROVE  /\ ShownOf(s, k) \in Seq(ShownChars) /\ ShownOf(s, n) \in Seq(ShownChars)
           /\ Len(ShownOf(s, k)) \in Nat /\ Len(ShownOf(s, n)) \in Nat
           /\ Len(ShownOf(s, k)) <= Len(ShownOf(s, n))
           /\ \A j \in 1 .. Len(ShownOf(s, k)) : ShownOf(s, n)[j] = ShownOf(s, k)[j]
  <1> DEFINE P(i) == /\ ShownOf(s, i) \in Seq(ShownChars)
                     /\ k <= i =>
                        /\ Len(ShownOf(s, k)) <= Len(ShownOf(s, i))
                        /\ \A j \in 1 .. Len(ShownOf(s, k)) : ShownOf(s, i)[j] = ShownOf(s, k)[j]
             T == {i \in Nat : i <= Len(s) => P(i)}
  <1>1. 0 \in T
    <2>1. ShownOf(s, 0) \in Seq(ShownChars) /\ Len(ShownOf(s, 0)) = 0
      BY ShownOfNone, EmptySeq
    <2>2. k <= 0 => k = 0
      OBVIOUS
    <2> QED
      BY <2>1, <2>2
  <1>2. ASSUME NEW i \in T PROVE i + 1 \in T
    <2> SUFFICES ASSUME i + 1 <= Len(s) PROVE P(i + 1)
      OBVIOUS
    <2>1. i \in Nat /\ Len(s) \in Nat
      BY LenProperties DEF Text
    <2>2. P(i)
      BY <2>1
    <2>3. PICK a, b, c : a = ShownOf(s, i) /\ b = Shown(s[i + 1]) /\ c = ShownOf(s, i + 1)
      OBVIOUS
    <2>4. a \in Seq(ShownChars) /\ b \in Seq(ShownChars) /\ c \in Seq(ShownChars) /\ c = a \o b
      BY <2>1, <2>3, ShownOfNext
    <2>5. Len(c) = Len(a) + Len(b) /\ Len(a) \in Nat /\ Len(b) \in Nat
      BY <2>4, ConcatProperties, LenProperties
    <2>6. \A j \in 1 .. Len(a) : c[j] = a[j]
      BY <2>4, ConcatProperties
    <2>7. CASE k <= i
      <3>1. PICK e : e = ShownOf(s, k)
        OBVIOUS
      <3>2. Len(e) <= Len(a) /\ \A j \in 1 .. Len(e) : a[j] = e[j]
        BY <2>2, <2>3, <2>7, <3>1
      <3>3. Len(e) <= Len(c) /\ \A j \in 1 .. Len(e) : c[j] = e[j]
        <4>1. Len(e) \in Nat
          BY <3>1, <2>1, <2>7
        <4> QED
          BY <2>5, <2>6, <3>2, <4>1
      <3> QED
        BY <2>3, <2>4, <3>1, <3>3
    <2>8. CASE k = i + 1
      BY <2>3, <2>4, <2>5, <2>8
    <2>9. CASE k > i + 1
      BY <2>1, <2>3, <2>4, <2>9
    <2> QED
      BY <2>1, <2>7, <2>8, <2>9
  <1>3. T = Nat
    <2> HIDE DEF T
    <2> QED
      BY <1>1, <1>2, Successors DEF T
  <1>4. Len(s) \in Nat /\ k <= Len(s)
    BY LenProperties DEF Text
  <1>5. P(k) /\ P(n)
    BY <1>3, <1>4
  <1> QED
    BY <1>5, LenProperties

\* Two texts shown alike, the first no longer, are the same text.
LEMMA ReadBack ==
    ASSUME NEW s \in Text, NEW c \in Text, NEW n \in Nat, NEW m \in Nat,
           n = Len(s), m = Len(c), n > 0, n <= m,
           ShownOf(s, n) \o EndMark(s) = ShownOf(c, m) \o EndMark(c)
    PROVE  s = c
  <1>1. PICK at : at = <<"@">>
    OBVIOUS
  <1>2. at \in Seq(ShownChars) /\ Len(at) = 1 /\ at[1] = "@"
    <2>1. "@" \in ShownChars
      BY DEF ShownChars
    <2> QED
      BY <1>1, <2>1
  <1>3. PICK x, y : x = EndMark(s) /\ y = EndMark(c)
    OBVIOUS
  <1>4. (x = at \/ x = <<>>) /\ (y = at \/ y = <<>>)
    BY <1>1, <1>3 DEF EndMark
  <1>5. /\ x \in Seq(ShownChars) /\ y \in Seq(ShownChars)
        /\ Len(x) \in 0 .. 1 /\ Len(y) \in 0 .. 1
        /\ x = <<>> => Len(x) = 0
    <2>1. PICK none \in Seq(ShownChars) : none = <<>> /\ Len(none) = 0
      BY EmptySeq
    <2>2. ASSUME NEW e, e = at \/ e = none
          PROVE  e \in Seq(ShownChars) /\ Len(e) \in 0 .. 1
      <3>1. CASE e = at
        BY <1>2, <3>1
      <3>2. CASE e = none
        BY <2>1, <3>2
      <3> QED
        BY <2>2, <3>1, <3>2
    <2>3. (x = at \/ x = none) /\ (y = at \/ y = none)
      BY <1>4, <2>1
    <2>4. x \in Seq(ShownChars) /\ Len(x) \in 0 .. 1
      BY <2>2, <2>3
    <2>5. y \in Seq(ShownChars) /\ Len(y) \in 0 .. 1
      BY <2>2, <2>3
    <2>6. x = <<>> => Len(x) = 0
      BY <2>1
    <2> QED
      BY <2>4, <2>5, <2>6
  <1>6. PICK out : out = ShownOf(s, n) \o x
    OBVIOUS
  <1>7. out = ShownOf(c, m) \o y
    BY <1>3, <1>6
  <1>8. ASSUME NEW k \in Nat, k <= n
        PROVE  /\ ShownOf(s, k) \in Seq(ShownChars) /\ Len(ShownOf(s, k)) \in Nat
               /\ Len(ShownOf(s, k)) <= Len(out)
               /\ \A j \in 1 .. Len(ShownOf(s, k)) : out[j] = ShownOf(s, k)[j]
    <2>1. PICK a, b : a = ShownOf(s, k) /\ b = ShownOf(s, n)
      OBVIOUS
    <2>2. /\ a \in Seq(ShownChars) /\ b \in Seq(ShownChars) /\ Len(a) \in Nat /\ Len(b) \in Nat
          /\ Len(a) <= Len(b)
          /\ \A j \in 1 .. Len(a) : b[j] = a[j]
      BY <1>8, <2>1, ShownOfGrows
    <2>3. Len(out) = Len(b) + Len(x) /\ \A j \in 1 .. Len(b) : out[j] = b[j]
      BY <1>5, <1>6, <2>1, <2>2, ConcatProperties
    <2>4. Len(a) <= Len(out) /\ \A j \in 1 .. Len(a) : out[j] = a[j]
      BY <1>5, <2>2, <2>3
    <2> QED
      BY <2>1, <2>2, <2>4
  <1>9. ASSUME NEW k \in Nat, k <= m
        PROVE  /\ ShownOf(c, k) \in Seq(ShownChars) /\ Len(ShownOf(c, k)) \in Nat
               /\ Len(ShownOf(c, k)) <= Len(out)
               /\ \A j \in 1 .. Len(ShownOf(c, k)) : out[j] = ShownOf(c, k)[j]
    <2>1. PICK a, b : a = ShownOf(c, k) /\ b = ShownOf(c, m)
      OBVIOUS
    <2>2. /\ a \in Seq(ShownChars) /\ b \in Seq(ShownChars) /\ Len(a) \in Nat /\ Len(b) \in Nat
          /\ Len(a) <= Len(b)
          /\ \A j \in 1 .. Len(a) : b[j] = a[j]
      BY <1>9, <2>1, ShownOfGrows
    <2>3. Len(out) = Len(b) + Len(y) /\ \A j \in 1 .. Len(b) : out[j] = b[j]
      BY <1>5, <1>7, <2>1, <2>2, ConcatProperties
    <2>4. Len(a) <= Len(out) /\ \A j \in 1 .. Len(a) : out[j] = a[j]
      BY <1>5, <2>2, <2>3
    <2> QED
      BY <2>1, <2>2, <2>4
  <1> DEFINE T == {k \in Nat : k <= n => /\ ShownOf(s, k) = ShownOf(c, k)
                                         /\ \A i \in 1 .. k : s[i] = c[i]}
  <1>10. 0 \in T
    BY ShownOfNone
  <1>11. ASSUME NEW k \in T PROVE k + 1 \in T
    <2> SUFFICES ASSUME k + 1 <= n
                 PROVE  ShownOf(s, k + 1) = ShownOf(c, k + 1) /\ s[k + 1] = c[k + 1]
      OBVIOUS
    <2>1. k \in Nat /\ ShownOf(s, k) = ShownOf(c, k) /\ k + 1 \in Nat /\ k + 1 <= m
      OBVIOUS
    <2>2. PICK a, p, q : a = ShownOf(s, k) /\ p = Shown(s[k + 1]) /\ q = Shown(c[k + 1])
      OBVIOUS
    <2>3. /\ a \in Seq(ShownChars) /\ p \in Seq(ShownChars) /\ q \in Seq(ShownChars)
          /\ ShownOf(s, k + 1) = a \o p /\ ShownOf(c, k + 1) = a \o q
          /\ s[k + 1] \in Chars /\ c[k + 1] \in Chars
      BY <2>1, <2>2, ShownOfNext
    <2>4. PICK u, w : u = a \o p /\ w = a \o q
      OBVIOUS
    <2>5. /\ Len(u) <= Len(out) /\ \A j \in 1 .. Len(u) : out[j] = u[j]
          /\ Len(w) <= Len(out) /\ \A j \in 1 .. Len(w) : out[j] = w[j]
      <3>1. ShownOf(s, k + 1) = u /\ ShownOf(c, k + 1) = w
        BY <2>3, <2>4
      <3>2. Len(u) <= Len(out) /\ \A j \in 1 .. Len(u) : out[j] = u[j]
        <4>1. /\ Len(ShownOf(s, k + 1)) <= Len(out)
              /\ \A j \in 1 .. Len(ShownOf(s, k + 1)) : out[j] = ShownOf(s, k + 1)[j]
          BY <1>8, <2>1, Zenon
        <4> QED
          BY <3>1, <4>1, Zenon
      <3>3. Len(w) <= Len(out) /\ \A j \in 1 .. Len(w) : out[j] = w[j]
        <4>1. /\ Len(ShownOf(c, k + 1)) <= Len(out)
              /\ \A j \in 1 .. Len(ShownOf(c, k + 1)) : out[j] = ShownOf(c, k + 1)[j]
          BY <1>9, <2>1, Zenon
        <4> QED
          BY <3>1, <4>1, Zenon
      <3> QED
        BY <3>2, <3>3, Zenon
    <2>6. /\ Len(a) \in Nat /\ Len(p) \in Nat /\ Len(q) \in Nat
          /\ Len(u) = Len(a) + Len(p) /\ Len(w) = Len(a) + Len(q)
          /\ \A j \in 1 .. Len(p) : u[Len(a) + j] = p[j]
          /\ \A j \in 1 .. Len(q) : w[Len(a) + j] = q[j]
      BY <2>3, <2>4, ConcatProperties, LenProperties
    <2>7. \A j \in 1 .. Len(p) : j \in 1 .. Len(q) => p[j] = q[j]
      <3> SUFFICES ASSUME NEW j \in 1 .. Len(p), j \in 1 .. Len(q) PROVE p[j] = q[j]
        OBVIOUS
      <3>1. Len(a) + j \in 1 .. Len(u) /\ Len(a) + j \in 1 .. Len(w)
        BY <2>6
      <3> QED
        BY <2>5, <2>6, <3>1
    <2>8. s[k + 1] = c[k + 1]
      <3>1. CASE Len(p) <= Len(q)
        <4>1. \A j \in 1 .. Len(p) : p[j] = q[j]
          BY <2>6, <2>7, <3>1
        <4> QED
          BY <2>2, <2>3, <3>1, <4>1, CodesApart
      <3>2. CASE Len(q) <= Len(p)
        <4>1. \A j \in 1 .. Len(q) : q[j] = p[j]
          BY <2>6, <2>7, <3>2
        <4> QED
          BY <2>2, <2>3, <3>2, <4>1, CodesApart
      <3> QED
        BY <2>6, <3>1, <3>2
    <2> QED
      BY <2>2, <2>3, <2>8
  <1>12. T = Nat
    <2> HIDE DEF T
    <2> QED
      BY <1>10, <1>11, Successors DEF T
  <1>13. ShownOf(s, n) = ShownOf(c, n) /\ \A i \in 1 .. n : s[i] = c[i]
    BY <1>12
  <1>14. CASE n = m
    <2>1. \A i \in 1 .. n : s[i] = c[i]
      BY <1>13
    <2>2. s \in Seq(Chars) /\ c \in Seq(Chars) /\ Len(s) = n /\ Len(c) = n
      BY <1>14 DEF Text
    <2> QED
      BY <2>1, <2>2, SeqEqual
  <1>15. CASE n < m
    <2>1. n + 1 <= m /\ n + 1 \in Nat /\ n + 1 > 0
      BY <1>15
    <2>2. PICK a, p : a = ShownOf(c, n) /\ p = Shown(c[n + 1])
      OBVIOUS
    <2>3. /\ a \in Seq(ShownChars) /\ p \in Seq(ShownChars)
          /\ ShownOf(c, n + 1) = a \o p /\ c[n + 1] \in Chars
      BY <2>1, <2>2, ShownOfNext
    <2>4. Len(out) = Len(a) + Len(x) /\ Len(a) \in Nat /\ out = a \o x
      BY <1>5, <1>6, <1>13, <2>2, <2>3, ConcatProperties, LenProperties
    <2>5. PICK w : w = a \o p
      OBVIOUS
    <2>6. Len(w) = Len(a) + Len(p) /\ w[Len(a) + 1] = p[1] /\ Len(p) >= 1 /\ Len(p) \in Nat
      <3>1. Len(p) >= 1 /\ Len(p) \in Nat
        BY <2>2, <2>3, CodeForm
      <3> QED
        BY <2>3, <2>5, <3>1, ConcatProperties
    <2>7. Len(w) <= Len(out) /\ out[Len(a) + 1] = p[1]
      <3>1. Len(w) <= Len(out) /\ \A j \in 1 .. Len(w) : out[j] = w[j]
        <4>1. /\ Len(ShownOf(c, n + 1)) <= Len(out)
              /\ \A j \in 1 .. Len(ShownOf(c, n + 1)) : out[j] = ShownOf(c, n + 1)[j]
          BY <1>9, <2>1, Zenon
        <4>2. ShownOf(c, n + 1) = w
          BY <2>3, <2>5, Zenon
        <4> QED
          BY <4>1, <4>2, Zenon
      <3>2. Len(w) \in Nat /\ Len(a) + 1 \in 1 .. Len(w)
        BY <2>4, <2>6
      <3> QED
        BY <2>6, <3>1, <3>2
    <2>8. x = at /\ Len(p) = 1
      <3>1. Len(a) + Len(p) <= Len(a) + Len(x)
        BY <2>4, <2>6, <2>7
      <3>2. Len(x) = 1 /\ Len(p) = 1
        <4>1. PICK i : i = Len(x)
          OBVIOUS
        <4>2. PICK j : j = Len(p)
          OBVIOUS
        <4>3. PICK b : b = Len(a)
          OBVIOUS
        <4>4. i \in 0 .. 1 /\ j \in Nat /\ j >= 1 /\ b \in Nat
          BY <1>5, <2>4, <2>6, <4>1, <4>2, <4>3
        <4>5. b + j <= b + i
          BY <3>1, <4>1, <4>2, <4>3
        <4>6. i = 1 /\ j = 1
          BY <4>4, <4>5
        <4> QED
          BY <4>1, <4>2, <4>6
      <3> QED
        BY <1>4, <1>5, <3>2
    <2>9. p[1] = "@"
      <3>1. out[Len(a) + 1] = x[1]
        <4>1. a \in Seq(ShownChars) /\ x \in Seq(ShownChars) /\ out = a \o x /\ Len(x) = 1
          BY <1>2, <1>5, <2>3, <2>4, <2>8
        <4>2. PICK l \in Nat : l = Len(a)
          BY <2>4
        <4>3. out[l + 1] = x[(l + 1) - l]
          <5>1. \A i \in 1 .. Len(a) + Len(x) :
                    out[i] = IF i <= Len(a) THEN a[i] ELSE x[i - Len(a)]
            BY <4>1, ConcatProperties, Zenon
          <5>2. l + 1 \in 1 .. Len(a) + Len(x) /\ ~(l + 1 <= Len(a))
            BY <4>1, <4>2
          <5> QED
            BY <4>2, <5>1, <5>2
        <4>4. (l + 1) - l = 1
          OBVIOUS
        <4> QED
          BY <4>2, <4>3, <4>4
      <3> QED
        BY <1>2, <2>7, <2>8, <3>1
    <2>10. c[n + 1] = "@"
      BY <2>2, <2>3, <2>8, <2>9, CodeForm
    <2>11. CASE m = n + 1
      <3>1. y = at
        BY <1>1, <1>3, <2>10, <2>11 DEF EndMark, Last
      <3>2. Len(out) = Len(w) + 1
        <4>1. w \in Seq(ShownChars)
          BY <2>3, <2>5, ConcatProperties
        <4>2. out = w \o y
          BY <1>7, <2>3, <2>5, <2>11
        <4>3. Len(out) = Len(w) + Len(y)
          BY <1>5, <4>1, <4>2, ConcatProperties
        <4> QED
          BY <1>2, <3>1, <4>3
      <3>3. Len(x) = 1
        BY <1>2, <2>8
      <3> QED
        BY <2>4, <2>6, <2>8, <3>2, <3>3
    <2>12. CASE m > n + 1
      <3>1. (n + 1) + 1 <= m /\ (n + 1) + 1 \in Nat
        BY <2>12
      <3>2. PICK q, v : q = Shown(c[(n + 1) + 1]) /\ v = w \o q
        OBVIOUS
      <3>3. /\ w \in Seq(ShownChars) /\ q \in Seq(ShownChars)
            /\ ShownOf(c, (n + 1) + 1) = v /\ c[(n + 1) + 1] \in Chars
        BY <2>1, <2>3, <2>5, <3>1, <3>2, ShownOfNext
      <3>4. Len(q) >= 1 /\ Len(q) \in Nat
        <4>1. PICK d \in Chars : d = c[(n + 1) + 1]
          BY <3>3
        <4> QED
          BY <3>2, <4>1, CodeForm
      <3>5. Len(v) = Len(w) + Len(q)
        BY <3>2, <3>3, ConcatProperties
      <3>6. Len(v) <= Len(out)
        BY <1>9, <3>1, <3>3
      <3> QED
        BY <1>2, <2>4, <2>6, <2>8, <3>4, <3>5, <3>6
    <2> QED
      BY <2>1, <2>11, <2>12
  <1> QED
    BY <1>14, <1>15

\* What the user reads of a text that is not empty.
LEMMA TranslationIs ==
    ASSUME NEW s \in Text, s # <<>>, NEW size \in Nat,
           tx_display_translation(s, size).err = "parser_ok"
    PROVE  /\ Len(s) \in Nat /\ Len(s) > 0
           /\ tx_display_translation(s, size).text = ShownOf(s, Len(s)) \o EndMark(s)
           /\ tx_display_translation(s, size).text # <<>>
  <1>1. PICK n \in Nat : n = Len(s) /\ n > 0 /\ DOMAIN s = 1 .. n
    BY LenProperties, EmptySeq DEF Text
  <1>2. PICK g : g = [i \in DOMAIN s |-> Shown(s[i])]
    OBVIOUS
  <1>3. PICK out : out = FlattenSeq(g) \o EndMark(s)
    OBVIOUS
  <1>4. tx_display_translation(s, size).text = out
    BY <1>2, <1>3 DEF tx_display_translation
  <1>5. FlattenSeq(g) = ShownOf(s, n)
    <2>1. g = [i \in 1 .. n |-> Shown(s[i])]
      BY <1>1, <1>2
    <2> QED
      BY <2>1 DEF ShownOf
  <1>6. PICK a : a = ShownOf(s, n)
    OBVIOUS
  <1>7. a \in Seq(ShownChars) /\ Len(a) \in Nat /\ Len(a) >= 1
    <2>1. 0 + 1 = 1 /\ 1 \in Nat /\ 0 \in Nat /\ 1 <= n /\ n <= Len(s)
      BY <1>1
    <2>2. PICK none, p : none = ShownOf(s, 0) /\ p = Shown(s[1])
      OBVIOUS
    <2>3. /\ none \in Seq(ShownChars) /\ p \in Seq(ShownChars)
          /\ ShownOf(s, 1) = none \o p /\ s[1] \in Chars
      <3>1. 0 + 1 <= Len(s)
        BY <1>1
      <3> QED
        BY <2>1, <2>2, <3>1, ShownOfNext
    <2>4. Len(p) \in Nat /\ Len(p) >= 1
      BY <2>2, <2>3, CodeForm
    <2>5. Len(none \o p) = Len(none) + Len(p) /\ Len(none) \in Nat
      BY <2>3, ConcatProperties, LenProperties
    <2>6. Len(ShownOf(s, 1)) >= 1 /\ Len(ShownOf(s, 1)) \in Nat
      BY <2>3, <2>4, <2>5
    <2>7. a \in Seq(ShownChars) /\ Len(a) \in Nat /\ Len(ShownOf(s, 1)) <= Len(a)
      BY <1>1, <1>6, <2>1, ShownOfGrows
    <2> QED
      BY <2>6, <2>7
  <1>8. PICK e : e = EndMark(s)
    OBVIOUS
  <1>9. e \in Seq(ShownChars)
    <2>1. PICK at : at = "@"
      OBVIOUS
    <2>2. at \in ShownChars
      BY <2>1 DEF ShownChars
    <2>3. <<at>> \in Seq(ShownChars) /\ <<>> \in Seq(ShownChars)
      BY <2>2
    <2>4. e = <<at>> \/ e = <<>>
      BY <1>8, <2>1 DEF EndMark
    <2> QED
      BY <2>3, <2>4
  <1>10. Len(out) >= 1
    <2>1. out = a \o e
      BY <1>3, <1>5, <1>6, <1>8
    <2>2. Len(out) = Len(a) + Len(e) /\ Len(e) \in Nat
      BY <1>7, <1>9, <2>1, ConcatProperties, LenProperties
    <2> QED
      BY <1>7, <2>2
  <1>11. out # <<>>
    <2>1. PICK none \in Seq(ShownChars) : none = <<>> /\ Len(none) = 0
      BY EmptySeq
    <2> QED
      BY <1>10, <2>1
  <1> QED
    BY <1>1, <1>3, <1>4, <1>5, <1>11

LEMMA TranslationsDiffer ==
    ASSUME NEW s \in Text, NEW c \in Text, NEW size \in Nat,
           tx_display_translation(c, size).err = "parser_ok",
           tx_display_translation(s, size) = tx_display_translation(c, size)
    PROVE  s = c
  <1>1. CASE s = <<>> /\ c = <<>>
    BY <1>1
  <1>2. CASE s = <<>> /\ c # <<>>
    <2>1. tx_display_translation(s, size).text = <<>>
      BY <1>2 DEF tx_display_translation
    <2> QED
      BY <1>2, <2>1, TranslationIs
  <1>3. CASE s # <<>> /\ c = <<>>
    <2>1. tx_display_translation(c, size).text = <<>>
      BY <1>3 DEF tx_display_translation
    <2> QED
      BY <1>3, <2>1, TranslationIs
  <1>4. CASE s # <<>> /\ c # <<>>
    <2>1. PICK n \in Nat : n = Len(s) /\ n > 0
      BY <1>4, TranslationIs
    <2>2. PICK m \in Nat : m = Len(c) /\ m > 0
      BY <1>4, TranslationIs
    <2>3. ShownOf(s, n) \o EndMark(s) = ShownOf(c, m) \o EndMark(c)
      BY <1>4, <2>1, <2>2, TranslationIs
    <2>4. CASE n <= m
      BY <2>1, <2>2, <2>3, <2>4, ReadBack
    <2>5. CASE m <= n
      BY <2>1, <2>2, <2>3, <2>5, ReadBack
    <2> QED
      BY <2>4, <2>5
  <1> QED
    BY <1>1, <1>2, <1>3, <1>4

\* Every text of a textual transaction is one.
LEMMA TextsAreTexts ==
    ASSUME NEW screens \in Seq(Seq(Field)), NEW s \in TextsOf(screens)
    PROVE  s \in Text
  <1>1. PICK f \in UNION {Range(screens[i]) : i \in DOMAIN screens} :
            f.value.kind = "text" /\ s = f.value.s
    BY DEF TextsOf
  <1>2. PICK i \in DOMAIN screens : f \in Range(screens[i])
    BY <1>1
  <1>3. screens[i] \in Seq(Field)
    BY <1>2, ElementOfSeq, LenProperties
  <1>4. PICK j \in DOMAIN screens[i] : f = screens[i][j]
    BY <1>2 DEF Range
  <1>5. f \in Field
    BY <1>3, <1>4, ElementOfSeq, LenProperties
  <1>6. PICK v : v = f.value
    OBVIOUS
  <1>7. v \in Value /\ v.kind = "text" /\ s = v.s
    BY <1>1, <1>5, <1>6 DEF Field
  <1> QED
    BY <1>7 DEF Value

\* Whatever the characters, the texts and the buffers, two contents that the
\* user reads are never shown as the same text (tx_display.c:655).
THEOREM ContentsAreDistinct == Spec => []ContentsDistinct
  <1>1. Spec => []ReviewInv
    BY Reviewed
  <1>2. ReviewInv => ContentsDistinct
    <2> SUFFICES ASSUME ReviewInv, phase = "validating", tx.tx_type = "tx_textual",
                        NEW c \in TextsOf(tx.screens), NEW s \in Texts,
                        tx_display_translation(c, OUTPUT_HANDLER_SIZE).err = "parser_ok",
                        tx_display_translation(s, OUTPUT_HANDLER_SIZE)
                          = tx_display_translation(c, OUTPUT_HANDLER_SIZE)
                 PROVE  s = c
      BY DEF ContentsDistinct
    <2>1. tx \in Documents
      BY DEF ReviewInv, NoTx
    <2>2. tx.screens \in Seq(Seq(Field))
      BY <2>1, DocumentsAssumption
    <2>3. c \in Text
      BY <2>2, TextsAreTexts
    <2>4. PICK e \in Documents : e.tx_type = "tx_textual" /\ s \in TextsOf(e.screens)
      BY DEF Texts
    <2>5. e.screens \in Seq(Seq(Field))
      BY <2>4, DocumentsAssumption
    <2>6. s \in Text
      BY <2>4, <2>5, TextsAreTexts
    <2>7. OUTPUT_HANDLER_SIZE \in Nat
      BY SizeAssumption
    <2> QED
      BY <2>3, <2>6, <2>7, TranslationsDiffer
  <1> QED
    BY <1>1, <1>2, PTL
=============================================================================
