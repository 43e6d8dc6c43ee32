-------------------------- MODULE TxValidateProofs --------------------------
(***************************************************************************)
(* What tx_validate accepts is valid and what it rejects gives cause, for  *)
(* every text.                                                             *)
(***************************************************************************)
EXTENDS TxValidate, JsonScanProofs, SequenceTheorems, WellFoundedInduction

----------------------------------------------------------------------------
(* Sets of numbers                                                         *)

\* A finite set of numbers has a greatest one: the sets of the members from
\* one of them on are ordered by inclusion, and the least is that of it.
LEMMA Greatest ==
    ASSUME NEW S \in SUBSET Nat, IsFiniteSet(S), S # {}
    PROVE  \E m \in S : \A i \in S : i <= m
  <1> DEFINE From(m) == {i \in S : m <= i}
             F == {From(m) : m \in S}
             R == StrictSubsetOrdering(S)
  <1>1. IsWellFoundedOn(R, SUBSET S)
    <2>1. FiniteSubsetsOf(S) = SUBSET S
      BY FS_FiniteSubsetsOfFinite
    <2> QED
      BY <2>1, FS_StrictSubsetOrderingWellFounded
  <1>2. F \subseteq SUBSET S /\ F # {}
    OBVIOUS
  <1>3. PICK x \in F : \A y \in F : ~(<<y, x>> \in R)
    <2> HIDE DEF F, R
    <2> QED
      BY <1>1, <1>2, WFMin
  <1>4. PICK m \in S : x = From(m)
    BY <1>3
  <1>5. ASSUME NEW i \in S, ~(i <= m) PROVE FALSE
    <2>1. From(i) \in F /\ From(i) \in SUBSET S /\ From(m) \in SUBSET S
      OBVIOUS
    <2>0. m <= i /\ m <= m /\ ~(i <= m) /\ m \in Nat /\ i \in Nat
      BY <1>5
    <2>2. m \in From(m) /\ m \notin From(i) /\ From(i) \subseteq From(m)
      <3>1. \A k \in S : i <= k => m <= k
        BY <2>0
      <3> QED
        BY <2>0, <3>1, Zenon
    <2>3. <<From(i), From(m)>> \in R
      <3> HIDE DEF From
      <3> QED
        BY <2>1, <2>2 DEF StrictSubsetOrdering
    <2> QED
      BY <1>3, <1>4, <2>1, <2>3
  <1> QED
    BY <1>4, <1>5

----------------------------------------------------------------------------
(* The tokenizer                                                           *)

RawToken == [type : {"JSMN_OBJECT", "JSMN_ARRAY", "JSMN_STRING", "JSMN_PRIMITIVE"},
             start : Nat, end : Nat \cup {-1}, text : Strings]
Leaf(t) == t.type \in {"JSMN_STRING", "JSMN_PRIMITIVE"}

JsmnStates == [pos : Nat, toks : Seq(RawToken), err : {"none", "NOMEM", "INVAL", "PART"}]

\* Tokens read from the first q characters: a string or a primitive is over
\* before the next token starts.
TokensTo(toks, q) ==
    /\ toks \in Seq(RawToken)
    /\ Len(toks) <= MaxTokens
    /\ \A i \in DOMAIN toks : toks[i].end <= q
    /\ \A i, j \in DOMAIN toks :
          i < j /\ Leaf(toks[i]) => toks[i].end # -1 /\ toks[i].end <= toks[j].start

LEMMA AppendToken ==
    ASSUME NEW q \in Nat, NEW toks, TokensTo(toks, q), Len(toks) # MaxTokens,
           NEW t \in RawToken, t.end = -1, q <= t.start,
           \A i \in DOMAIN toks : Leaf(toks[i]) => toks[i].end # -1
    PROVE  TokensTo(Append(toks, t), q + 1)
  <1> DEFINE new == Append(toks, t)
  <1>1. toks \in Seq(RawToken) /\ new \in Seq(RawToken) /\ Len(new) = Len(toks) + 1
    BY DEF TokensTo
  <1>2. /\ DOMAIN toks = 1 .. Len(toks) /\ DOMAIN new = 1 .. Len(toks) + 1
        /\ Len(toks) \in Nat /\ new[Len(toks) + 1] = t
        /\ \A i \in DOMAIN toks : new[i] = toks[i] /\ toks[i] \in RawToken
    BY <1>1
  <1>3. Len(new) <= MaxTokens
    <2>1. Len(toks) <= MaxTokens
      BY DEF TokensTo
    <2>2. Len(toks) \in Nat /\ MaxTokens \in Nat /\ Len(toks) # MaxTokens
      BY <1>2, MaxTokensAssumption, Zenon
    <2>3. Len(new) = Len(toks) + 1
      BY <1>1
    <2> HIDE DEF new
    <2> QED
      BY <2>1, <2>2, <2>3
  <1>4. \A i \in DOMAIN toks : toks[i].end \in Nat \cup {-1} /\ toks[i].end <= q
    BY <1>2 DEF TokensTo, RawToken
  <1>5. ASSUME NEW i \in DOMAIN new PROVE new[i].end <= q + 1
    BY <1>2, <1>4
  <1>6. ASSUME NEW i \in DOMAIN new, NEW j \in DOMAIN new, i < j, Leaf(new[i])
        PROVE  new[i].end # -1 /\ new[i].end <= new[j].start
    <2>1. i \in DOMAIN toks /\ new[i] = toks[i]
      BY <1>2, <1>6
    <2>2. CASE j \in DOMAIN toks
      BY <1>2, <1>6, <2>1, <2>2 DEF TokensTo
    <2>3. CASE j = Len(toks) + 1
      <3>1. new[j] = t /\ t.start \in Nat
        BY <1>2, <2>3 DEF RawToken
      <3> QED
        BY <1>4, <1>6, <2>1, <3>1
    <2> QED
      BY <1>2, <2>2, <2>3
  <1> QED
    BY <1>1, <1>3, <1>5, <1>6 DEF TokensTo

\* A token is given its end.
LEMMA EndToken ==
    ASSUME NEW q \in Nat, NEW r \in Nat, q <= r, NEW toks, TokensTo(toks, q),
           NEW k \in DOMAIN toks, toks[k].end = -1, NEW e \in 0 .. r
    PROVE  TokensTo([toks EXCEPT ![k].end = e], r)
  <1> DEFINE new == [toks EXCEPT ![k].end = e]
  <1>1. toks \in Seq(RawToken)
    BY DEF TokensTo
  <1>0. \A i \in DOMAIN toks : toks[i] \in RawToken
    BY <1>1
  <1>2. [toks[k] EXCEPT !.end = e] \in RawToken
    BY <1>0 DEF RawToken
  <1>3. new \in Seq(RawToken) /\ DOMAIN new = DOMAIN toks /\ Len(new) = Len(toks)
    BY <1>1, <1>2
  <1>4. \A i \in DOMAIN toks :
          /\ i # k => new[i] = toks[i]
          /\ toks[i] \in RawToken /\ new[i].start = toks[i].start /\ new[i].type = toks[i].type
          /\ new[k].end = e
    <2>1. new = [toks EXCEPT ![k] = [toks[k] EXCEPT !.end = e]]
      OBVIOUS
    <2>2. \A i \in DOMAIN toks : new[i] = IF i = k THEN [toks[k] EXCEPT !.end = e] ELSE toks[i]
      BY <2>1
    <2>3. toks[k] \in RawToken
      BY <1>0
    <2>4. /\ [toks[k] EXCEPT !.end = e].start = toks[k].start
          /\ [toks[k] EXCEPT !.end = e].type = toks[k].type
          /\ [toks[k] EXCEPT !.end = e].end = e
      BY <2>3 DEF RawToken
    <2> QED
      BY <1>0, <2>2, <2>4
  <1>5. ASSUME NEW i \in DOMAIN new PROVE new[i].end <= r
    <2>1. CASE i = k
      BY <1>3, <1>4, <2>1
    <2>2. CASE i # k
      <3>1. toks[i].end <= q /\ toks[i].end \in Int /\ new[i] = toks[i]
        BY <1>3, <1>4, <2>2 DEF TokensTo, RawToken
      <3> QED
        BY <3>1
    <2> QED
      BY <2>1, <2>2
  <1>6. ASSUME NEW i \in DOMAIN new, NEW j \in DOMAIN new, i < j, Leaf(new[i])
        PROVE  new[i].end # -1 /\ new[i].end <= new[j].start
    <2>1. Leaf(toks[i]) /\ i \in DOMAIN toks /\ j \in DOMAIN toks
      BY <1>3, <1>4, <1>6 DEF Leaf
    <2>2. toks[i].end # -1 /\ toks[i].end <= toks[j].start
      BY <1>6, <2>1 DEF TokensTo
    <2>3. i # k
      BY <2>2
    <2> QED
      BY <1>4, <2>1, <2>2, <2>3
  <1> QED
    BY <1>3, <1>5, <1>6 DEF TokensTo

\* A string is given a character of its body.
LEMMA TextToken ==
    ASSUME NEW q \in Nat, NEW toks, TokensTo(toks, q), NEW k \in DOMAIN toks, NEW c \in Strings
    PROVE  TokensTo([toks EXCEPT ![k].text = c], q + 1)
  <1> DEFINE new == [toks EXCEPT ![k].text = c]
  <1>1. toks \in Seq(RawToken)
    BY DEF TokensTo
  <1>0. \A i \in DOMAIN toks : toks[i] \in RawToken
    BY <1>1
  <1>2. [toks[k] EXCEPT !.text = c] \in RawToken
    BY <1>0 DEF RawToken
  <1>3. new \in Seq(RawToken) /\ DOMAIN new = DOMAIN toks /\ Len(new) = Len(toks)
    BY <1>1, <1>2
  <1>4. \A i \in DOMAIN toks :
          /\ new[i].start = toks[i].start /\ new[i].type = toks[i].type
          /\ new[i].end = toks[i].end /\ toks[i].end \in Int
    <2>1. new = [toks EXCEPT ![k] = [toks[k] EXCEPT !.text = c]]
      OBVIOUS
    <2>2. \A i \in DOMAIN toks : new[i] = IF i = k THEN [toks[k] EXCEPT !.text = c] ELSE toks[i]
      BY <2>1
    <2>3. toks[k] \in RawToken
      BY <1>0
    <2>4. /\ [toks[k] EXCEPT !.text = c].start = toks[k].start
          /\ [toks[k] EXCEPT !.text = c].type = toks[k].type
          /\ [toks[k] EXCEPT !.text = c].end = toks[k].end
      BY <2>3 DEF RawToken
    <2>5. \A i \in DOMAIN toks : toks[i].end \in Int
      BY <1>0 DEF RawToken
    <2> QED
      BY <2>2, <2>4, <2>5
  <1>5. \A i \in DOMAIN new : new[i].end <= q + 1
    BY <1>3, <1>4 DEF TokensTo
  <1>6. \A i, j \in DOMAIN new :
          i < j /\ Leaf(new[i]) => new[i].end # -1 /\ new[i].end <= new[j].start
    BY <1>3, <1>4 DEF TokensTo, Leaf
  <1> QED
    BY <1>3, <1>5, <1>6 DEF TokensTo

\* The token being read is the last that has no end; if it is a string or a
\* primitive it is the last token.
LEMMA InnermostOpen ==
    ASSUME NEW s \in JsmnStates, Unfinished(s) # {}
    PROVE  /\ Innermost(s) \in DOMAIN s.toks /\ s.toks[Innermost(s)].end = -1
           /\ \A j \in DOMAIN s.toks : s.toks[j].end = -1 => j <= Innermost(s)
  <1>1. s.toks \in Seq(RawToken)
    BY DEF JsmnStates
  <1>2. DOMAIN s.toks = 1 .. Len(s.toks) /\ Len(s.toks) \in Nat
    BY <1>1
  <1>3. Unfinished(s) \in SUBSET Nat /\ Unfinished(s) \subseteq 1 .. Len(s.toks)
    BY <1>2 DEF Unfinished
  <1>4. IsFiniteSet(Unfinished(s))
    <2>1. IsFiniteSet(1 .. Len(s.toks))
      BY <1>2, FS_Interval
    <2> QED
      BY <1>3, <2>1, FS_Subset
  <1>5. \E m \in Unfinished(s) : \A i \in Unfinished(s) : i <= m
    BY <1>3, <1>4, Greatest
  <1>6. /\ Innermost(s) \in Unfinished(s)
        /\ \A i \in Unfinished(s) : i <= Innermost(s)
    BY <1>5 DEF Innermost
  <1> QED
    BY <1>6 DEF Unfinished

LEMMA LeafIsInnermost ==
    ASSUME NEW s \in JsmnStates, NEW q, TokensTo(s.toks, q),
           NEW i \in DOMAIN s.toks, s.toks[i].end = -1, Leaf(s.toks[i])
    PROVE  Unfinished(s) # {} /\ Innermost(s) = i
  <1>1. s.toks \in Seq(RawToken)
    BY DEF JsmnStates
  <1>2. DOMAIN s.toks = 1 .. Len(s.toks) /\ Len(s.toks) \in Nat
    BY <1>1
  <1>3. Unfinished(s) # {}
    BY DEF Unfinished
  <1>4. Innermost(s) \in DOMAIN s.toks /\ i <= Innermost(s)
    BY <1>3, InnermostOpen
  <1>5. ~(i < Innermost(s))
    BY <1>4 DEF TokensTo
  <1>6. i \in Nat /\ Innermost(s) \in Nat
    BY <1>2, <1>4
  <1> QED
    BY <1>3, <1>4, <1>5, <1>6

\* What a step of the tokenizer keeps.
Reader(s, q) == s \in JsmnStates /\ TokensTo(s.toks, q)

LEMMA AllocKeeps ==
    ASSUME NEW q \in Nat, NEW s, Reader(s, q),
           \A i \in DOMAIN s.toks : Leaf(s.toks[i]) => s.toks[i].end # -1,
           NEW type \in {"JSMN_OBJECT", "JSMN_ARRAY", "JSMN_STRING", "JSMN_PRIMITIVE"},
           NEW p \in {q, q + 1}, NEW c \in Strings
    PROVE  LET r == jsmn_alloc_token(s, NewToken(type, p, c))
           IN  Reader(r, q + 1) /\ r.pos = s.pos
  <1> DEFINE t == NewToken(type, p, c)
             r == jsmn_alloc_token(s, t)
  <1>1. t \in RawToken /\ t.end = -1 /\ q <= t.start
    BY DEF NewToken, RawToken
  <1>2. CASE Len(s.toks) = MaxTokens
    <2>1. r \in JsmnStates /\ r.toks = s.toks /\ r.pos = s.pos
      BY <1>2 DEF jsmn_alloc_token, Reader, JsmnStates
    <2>2. TokensTo(s.toks, q + 1)
      <3>1. \A i \in DOMAIN s.toks : s.toks[i].end \in Int /\ s.toks[i].end <= q
        <4>1. \A i \in DOMAIN s.toks : s.toks[i] \in RawToken /\ s.toks[i].end <= q
          BY DEF Reader, TokensTo
        <4> QED
          BY <4>1 DEF RawToken
      <3>2. \A i \in DOMAIN s.toks : s.toks[i].end <= q + 1
        BY <3>1
      <3> QED
        BY <3>2 DEF Reader, TokensTo
    <2> QED
      BY <2>1, <2>2 DEF Reader
  <1>3. CASE Len(s.toks) # MaxTokens
    <2>1. TokensTo(Append(s.toks, t), q + 1)
      <3> HIDE DEF t
      <3> QED
        BY <1>1, <1>3, AppendToken DEF Reader
    <2>2. r = [s EXCEPT !.toks = Append(s.toks, t)]
      BY <1>3 DEF jsmn_alloc_token
    <2>3. r \in JsmnStates /\ r.toks = Append(s.toks, t) /\ r.pos = s.pos
      <3>1. Append(s.toks, t) \in Seq(RawToken)
        BY <2>1 DEF TokensTo
      <3> HIDE DEF t, r
      <3> QED
        BY <2>2, <3>1 DEF Reader, JsmnStates
    <2> QED
      BY <2>1, <2>3 DEF Reader
  <1> QED
    BY <1>2, <1>3

\* The token being read is ended; no string or primitive is open any more.
Ended(s, e) == [s EXCEPT !.toks[Innermost(s)].end = e]

LEMMA EndKeeps ==
    ASSUME NEW q \in Nat, NEW r \in Nat, q <= r, NEW s, Reader(s, q), Unfinished(s) # {},
           NEW e \in Nat, e <= r
    PROVE  /\ Reader(Ended(s, e), r) /\ Ended(s, e).pos = s.pos
           /\ Leaf(s.toks[Innermost(s)]) =>
                \A i \in DOMAIN Ended(s, e).toks :
                    Leaf(Ended(s, e).toks[i]) => Ended(s, e).toks[i].end # -1
  <1> DEFINE k == Innermost(s)
             new == [s.toks EXCEPT ![k].end = e]
             t == Ended(s, e)
  <1>0. s \in JsmnStates /\ TokensTo(s.toks, q)
    BY DEF Reader
  <1>1. k \in DOMAIN s.toks /\ s.toks[k].end = -1
    BY <1>0, InnermostOpen
  <1>2. TokensTo(new, r)
    <2>1. e \in 0 .. r
      OBVIOUS
    <2> HIDE DEF k
    <2> QED
      BY <1>0, <1>1, <2>1, EndToken
  <1>3. t = [s EXCEPT !.toks = new]
    BY DEF Ended
  <1>4. t \in JsmnStates /\ t.toks = new /\ t.pos = s.pos
    <2>1. new \in Seq(RawToken)
      BY <1>2 DEF TokensTo
    <2> HIDE DEF new, t
    <2> QED
      BY <1>0, <1>3, <2>1 DEF JsmnStates
  <1>5. ASSUME Leaf(s.toks[k]), NEW i \in DOMAIN new, Leaf(new[i]) PROVE new[i].end # -1
    <2>1. i \in DOMAIN s.toks
      BY <1>5
    <2>2. CASE i = k
      <3>1. s.toks[k] \in RawToken
        BY <1>0, <1>1 DEF TokensTo
      <3>2. new[k] = [s.toks[k] EXCEPT !.end = e]
        BY <1>1
      <3>3. new[k].end = e
        BY <3>1, <3>2 DEF RawToken
      <3> QED
        BY <2>2, <3>3
    <2>3. CASE i # k
      <3>1. new[i] = s.toks[i]
        BY <2>1, <2>3
      <3> QED
        BY <1>0, <1>5, <2>1, <2>3, <3>1, LeafIsInnermost
    <2> QED
      BY <2>2, <2>3
  <1> HIDE DEF new, t, k
  <1> QED
    BY <1>2, <1>4, <1>5 DEF Reader, k, t

LEMMA GrowReader ==
    ASSUME NEW q \in Nat, NEW s, Reader(s, q)
    PROVE  Reader(s, q + 1)
  <1>1. \A i \in DOMAIN s.toks : s.toks[i] \in RawToken /\ s.toks[i].end <= q
    BY DEF Reader, TokensTo
  <1>2. \A i \in DOMAIN s.toks : s.toks[i].end <= q + 1
    BY <1>1 DEF RawToken
  <1> QED
    BY <1>2 DEF Reader, TokensTo

LEMMA ErrKeeps ==
    ASSUME NEW q \in Nat, NEW s, Reader(s, q), NEW e \in {"NOMEM", "INVAL", "PART"}
    PROVE  Reader([s EXCEPT !.err = e], q) /\ [s EXCEPT !.err = e].pos = s.pos
  BY DEF Reader, JsmnStates

\* A character outside strings and primitives.
LEMMA StructuralKeeps ==
    ASSUME NEW q \in Nat, NEW s, Reader(s, q), NEW c \in Strings,
           \A i \in DOMAIN s.toks : Leaf(s.toks[i]) => s.toks[i].end # -1
    PROVE  Reader(Structural(s, c, q), q + 1) /\ Structural(s, c, q).pos = s.pos
  <1> DEFINE r == Structural(s, c, q)
  <1>1. \A type \in {"JSMN_OBJECT", "JSMN_ARRAY", "JSMN_STRING", "JSMN_PRIMITIVE"},
           p \in {q, q + 1}, x \in Strings :
             LET u == jsmn_alloc_token(s, NewToken(type, p, x))
             IN  Reader(u, q + 1) /\ u.pos = s.pos
    BY AllocKeeps
  <1>2. ASSUME NEW type PROVE LET u == CloseContainer(s, type, q)
                              IN  Reader(u, q + 1) /\ u.pos = s.pos
    <2>1. CASE Reading(s, type)
      <3>1. Unfinished(s) # {}
        BY <2>1 DEF Reading
      <3> DEFINE e == q + 1
      <3>2. e \in Nat /\ q <= e /\ e <= e
        OBVIOUS
      <3>3. Reader(Ended(s, e), e) /\ Ended(s, e).pos = s.pos
        <4> HIDE DEF e
        <4> QED
          BY <3>1, <3>2, EndKeeps
      <3> QED
        BY <2>1, <3>3 DEF CloseContainer, Ended
    <2>2. CASE ~Reading(s, type)
      <3>1. CloseContainer(s, type, q) = [s EXCEPT !.err = "INVAL"]
        BY <2>2 DEF CloseContainer
      <3>2. Reader([s EXCEPT !.err = "INVAL"], q) /\ [s EXCEPT !.err = "INVAL"].pos = s.pos
        BY ErrKeeps
      <3> QED
        BY <3>1, <3>2, GrowReader
    <2> QED
      BY <2>1, <2>2
  <1>3. \/ r = s
        \/ \E type \in {"JSMN_OBJECT", "JSMN_ARRAY", "JSMN_STRING", "JSMN_PRIMITIVE"},
              p \in {q, q + 1}, x \in Strings : r = jsmn_alloc_token(s, NewToken(type, p, x))
        \/ \E type : r = CloseContainer(s, type, q)
    <2> DEFINE T == {"JSMN_OBJECT", "JSMN_ARRAY", "JSMN_STRING", "JSMN_PRIMITIVE"}
               New(type, p, x) == jsmn_alloc_token(s, NewToken(type, p, x))
    <2>1. /\ c = "{" => r = New("JSMN_OBJECT", q, "")
          /\ c = "[" => r = New("JSMN_ARRAY", q, "")
          /\ c = "}" => r = CloseContainer(s, "JSMN_OBJECT", q)
          /\ c = "]" => r = CloseContainer(s, "JSMN_ARRAY", q)
          /\ c = Quote => r = New("JSMN_STRING", q + 1, "")
          /\ c \in {Space, ",", ":"} => r = s
          /\ c \notin {"{", "[", "}", "]", Quote, Space, ",", ":"} => r = New("JSMN_PRIMITIVE", q, c)
      BY DEF Structural, Quote, Space
    <2>2. "" \in Strings /\ "JSMN_OBJECT" \in T /\ "JSMN_ARRAY" \in T /\ "JSMN_STRING" \in T
          /\ "JSMN_PRIMITIVE" \in T
      BY StringsAssumption
    <2> HIDE DEF r, New
    <2>3. \/ r = s
          \/ \E type \in T, p \in {q, q + 1}, x \in Strings : r = New(type, p, x)
          \/ \E type : r = CloseContainer(s, type, q)
      BY <2>1, <2>2
    <2> QED
      BY <2>3 DEF New
  <1> HIDE DEF r
  <1>4. Reader(s, q + 1)
    BY GrowReader
  <1> QED
    BY <1>1, <1>2, <1>3, <1>4 DEF r

\* One character more.
LEMMA ReadKeeps ==
    ASSUME NEW s, Reader(s, s.pos), NEW c \in Strings
    PROVE  LET t == [jsmn_read(s, c) EXCEPT !.pos = @ + 1] IN Reader(t, t.pos) /\ t.pos = s.pos + 1
  <1> DEFINE q == s.pos
             k == Innermost(s)
             r == jsmn_read(s, c)
  <1>0. s \in JsmnStates /\ TokensTo(s.toks, q) /\ q \in Nat
    BY DEF Reader, JsmnStates
  <1>1. Reader(r, q + 1) /\ r.pos = q
    <2>1. CASE Reading(s, "JSMN_STRING")
      <3>1. Unfinished(s) # {} /\ k \in DOMAIN s.toks
        BY <1>0, <2>1, InnermostOpen DEF Reading
      <3>2. CASE c = Quote
        <4>1. q \in Nat /\ q <= q
          BY <1>0
        <4>2. Reader(Ended(s, q), q) /\ Ended(s, q).pos = q
          BY <1>0, <3>1, <4>1, EndKeeps
        <4>3. r = Ended(s, q)
          BY <2>1, <3>2 DEF jsmn_read, Ended
        <4> QED
          BY <1>0, <4>2, <4>3, GrowReader
      <3>3. CASE c # Quote
        <4> DEFINE new == [s.toks EXCEPT ![k].text = c]
        <4>1. TokensTo(new, q + 1)
          <5> HIDE DEF k
          <5> QED
            BY <1>0, <3>1, TextToken
        <4>2. r = [s EXCEPT !.toks = new]
          BY <2>1, <3>3 DEF jsmn_read
        <4>3. r \in JsmnStates /\ r.toks = new /\ r.pos = q
          <5>1. new \in Seq(RawToken)
            BY <4>1 DEF TokensTo
          <5> HIDE DEF new, r
          <5> QED
            BY <1>0, <4>2, <5>1 DEF JsmnStates
        <4> QED
          BY <4>1, <4>3 DEF Reader
      <3> QED
        BY <3>2, <3>3
    <2>2. CASE ~Reading(s, "JSMN_STRING") /\ Reading(s, "JSMN_PRIMITIVE")
      <3>1. Unfinished(s) # {} /\ Leaf(s.toks[k])
        BY <2>2 DEF Reading, Leaf
      <3>2. CASE c \in EndsPrimitive
        <4> DEFINE t == Ended(s, q)
        <4>1. q \in Nat /\ q <= q
          BY <1>0
        <4>2. /\ Reader(t, q) /\ t.pos = q
              /\ \A i \in DOMAIN t.toks : Leaf(t.toks[i]) => t.toks[i].end # -1
          BY <1>0, <3>1, <4>1, EndKeeps
        <4>3. r = Structural(t, c, q)
          BY <2>2, <3>2 DEF jsmn_read, Ended
        <4> HIDE DEF t
        <4> QED
          BY <1>0, <4>2, <4>3, StructuralKeeps
      <3>3. CASE c \notin EndsPrimitive
        <4>1. r = s
          BY <2>2, <3>3 DEF jsmn_read
        <4> QED
          BY <1>0, <4>1, GrowReader
      <3> QED
        BY <3>2, <3>3
    <2>3. CASE ~Reading(s, "JSMN_STRING") /\ ~Reading(s, "JSMN_PRIMITIVE")
      <3>1. ASSUME NEW i \in DOMAIN s.toks, Leaf(s.toks[i]), s.toks[i].end = -1 PROVE FALSE
        <4>1. Unfinished(s) # {} /\ Innermost(s) = i
          BY <1>0, <3>1, LeafIsInnermost
        <4> QED
          BY <2>3, <3>1, <4>1 DEF Reading, Leaf
      <3>2. r = Structural(s, c, q)
        BY <2>3 DEF jsmn_read
      <3> QED
        BY <1>0, <3>1, <3>2, StructuralKeeps
    <2> QED
      BY <2>1, <2>2, <2>3
  <1> DEFINE t == [r EXCEPT !.pos = @ + 1]
  <1>2. t.pos = q + 1 /\ t.toks = r.toks /\ t \in JsmnStates
    <2> HIDE DEF r
    <2> QED
      BY <1>0, <1>1 DEF Reader, JsmnStates
  <1> QED
    BY <1>1, <1>2 DEF Reader

\* The end of the text.
LEMMA EndOfText ==
    ASSUME NEW s, Reader(s, s.pos)
    PROVE  /\ Reader(jsmn_end(s), s.pos) /\ jsmn_end(s).pos = s.pos
           /\ jsmn_end(s).err = "none" => Unfinished(jsmn_end(s)) = {}
  <1> DEFINE q == s.pos
             t == IF s.err = "none" /\ Reading(s, "JSMN_PRIMITIVE") THEN Ended(s, q) ELSE s
  <1>0. s \in JsmnStates /\ q \in Nat
    BY DEF Reader, JsmnStates
  <1>1. Reader(t, q) /\ t.pos = q
    <2>1. CASE s.err = "none" /\ Reading(s, "JSMN_PRIMITIVE")
      <3>1. Unfinished(s) # {} /\ q <= q
        BY <1>0, <2>1 DEF Reading
      <3> QED
        BY <1>0, <2>1, <3>1, EndKeeps
    <2>2. CASE ~(s.err = "none" /\ Reading(s, "JSMN_PRIMITIVE"))
      BY <2>2
    <2> QED
      BY <2>1, <2>2
  <1>2. jsmn_end(s) = IF t.err = "none" /\ Unfinished(t) # {} THEN [t EXCEPT !.err = "PART"] ELSE t
    BY DEF jsmn_end, Ended
  <1> HIDE DEF t
  <1>3. CASE t.err = "none" /\ Unfinished(t) # {}
    <2>1. jsmn_end(s) = [t EXCEPT !.err = "PART"]
      BY <1>2, <1>3
    <2>2. Reader([t EXCEPT !.err = "PART"], q) /\ [t EXCEPT !.err = "PART"].pos = q
      BY <1>0, <1>1, ErrKeeps
    <2>3. [t EXCEPT !.err = "PART"].err # "none"
      BY <1>1 DEF Reader, JsmnStates
    <2> QED
      BY <2>1, <2>2, <2>3
  <1>4. CASE ~(t.err = "none" /\ Unfinished(t) # {})
    BY <1>1, <1>2, <1>4
  <1> QED
    BY <1>3, <1>4

\* What json_parse makes of the tokens: a list of at most MaxTokens tokens
\* inside the text, in which strings and primitives, names among them, enclose
\* nothing.
LeavesApart(d) ==
    /\ \A i, j \in DOMAIN d.tokens :
          i < j /\ Leaf(d.tokens[i]) => d.tokens[i].end <= d.tokens[j].start
    /\ \A n \in d.names : Leaf(d.tokens[n])

LEMMA ParsedList ==
    ASSUME NEW t, NEW s, NEW q \in Nat, Reader(s, q), s.err = "none" => Unfinished(s) = {},
           json_parse(t, s).err = "parser_ok"
    PROVE  LET d == json_parse(t, s).json
           IN  /\ d \in ListsOf(d.numberOfTokens) /\ d.numberOfTokens \in 1 .. MaxTokens
               /\ \A i \in DOMAIN d.tokens : d.tokens[i].end <= q
               /\ LeavesApart(d)
  <1> DEFINE d == TokenList(t, s.toks)
             n == Len(s.toks)
             get(i) == s.toks[i + 1]
  <1>1. s.err = "none" /\ s.toks # <<>> /\ json_parse(t, s).json = d
    BY DEF json_parse, Reader, JsmnStates
  <1>2. s.toks \in Seq(RawToken) /\ n \in Nat /\ DOMAIN s.toks = 1 .. n
    BY DEF Reader, TokensTo
  <1>3. n \in 1 .. MaxTokens
    <2>1. n # 0
      BY <1>1, <1>2
    <2>2. n <= MaxTokens
      BY DEF Reader, TokensTo
    <2> QED
      BY <1>2, <2>1, <2>2, MaxTokensAssumption
  <1>4. ASSUME NEW i \in 0 .. n - 1
        PROVE  /\ i + 1 \in DOMAIN s.toks /\ get(i) \in Token
               /\ get(i).end <= q
    <2>1. i + 1 \in DOMAIN s.toks
      BY <1>2
    <2>2. get(i) \in RawToken /\ get(i).end # -1
      BY <1>1, <1>2, <2>1 DEF Unfinished
    <2>3. get(i) \in Token
      BY <2>2 DEF RawToken, Token
    <2> QED
      BY <2>1, <2>3 DEF Reader, TokensTo
  <1>5. d = [numberOfTokens |-> n, tokens |-> [i \in 0 .. n - 1 |-> get(i)],
             names |-> NamesIn(t, s.toks)]
    BY DEF TokenList
  <1>6. NamesIn(t, s.toks) \subseteq 0 .. n - 1
    BY DEF NamesIn
  <1>7. /\ d.numberOfTokens = n /\ DOMAIN d.tokens = 0 .. n - 1
        /\ \A i \in 0 .. n - 1 : d.tokens[i] = get(i)
        /\ d.tokens \in [0 .. n - 1 -> Token] /\ d.names \subseteq 0 .. n - 1
    <2> HIDE DEF get
    <2> QED
      BY <1>4, <1>5, <1>6
  <1>8. d \in ListsOf(n)
    <2>1. d = [numberOfTokens |-> d.numberOfTokens, tokens |-> d.tokens, names |-> d.names]
      BY <1>5
    <2> HIDE DEF d
    <2> QED
      BY <1>7, <2>1 DEF ListsOf
  <1>9. ASSUME NEW i \in DOMAIN d.tokens, NEW j \in DOMAIN d.tokens, i < j, Leaf(d.tokens[i])
        PROVE  d.tokens[i].end <= d.tokens[j].start
    <2>1. d.tokens[i] = get(i) /\ d.tokens[j] = get(j) /\ i + 1 < j + 1
          /\ i + 1 \in DOMAIN s.toks /\ j + 1 \in DOMAIN s.toks
      BY <1>4, <1>7, <1>9
    <2>2. s.toks[i + 1].end <= s.toks[j + 1].start
      BY <1>9, <2>1 DEF Reader, TokensTo
    <2> QED
      BY <2>1, <2>2
  <1>10. \A i \in DOMAIN d.tokens : d.tokens[i].end <= q
    BY <1>4, <1>7
  <1>11. ASSUME NEW m \in d.names PROVE Leaf(d.tokens[m])
    <2>1. m \in NamesIn(t, s.toks)
      BY <1>5
    <2>2. m \in 0 .. n - 1 /\ s.toks[m + 1].type = "JSMN_STRING"
      BY <2>1 DEF NamesIn
    <2>3. d.tokens[m] = s.toks[m + 1]
      BY <1>7, <2>2
    <2> QED
      BY <2>2, <2>3 DEF Leaf
  <1> HIDE DEF d, n
  <1> QED
    BY <1>1, <1>3, <1>7, <1>8, <1>9, <1>10, <1>11 DEF LeavesApart

----------------------------------------------------------------------------
(* The types                                                               *)

ValidateBase ==
    /\ ScanTypeOK
    /\ call # Idle => element_count < token_index
    /\ result.value \in 0 .. json.numberOfTokens
    /\ text \in Inputs
    /\ Reader(jsmn, jsmn.pos) /\ jsmn.pos <= Len(text)
    /\ json.numberOfTokens <= MaxTokens
    /\ \A i \in DOMAIN json.tokens : json.tokens[i].end <= Len(text)
    /\ LeavesApart(json)
    /\ obj \in 0 .. json.numberOfTokens
    /\ elem \in Nat /\ count \in Nat /\ prevName \in Nat
    /\ field \in DOMAIN required
    /\ phase = "parse" => obj = 0 /\ json.numberOfTokens = 0 /\ call = Idle
    /\ phase \in {"count", "first", "next"} => obj < json.numberOfTokens

\* A walker run by its steps returns no more than the number of tokens.
LEMMA ScanStepBounds ==
    ASSUME ScanTypeOK, call # Idle => element_count < token_index,
           result.value \in 0 .. json.numberOfTokens, ScanStep
    PROVE  /\ call' # Idle => element_count' < token_index'
           /\ result'.value \in 0 .. json.numberOfTokens
           /\ json' = json
  <1>0. json.numberOfTokens \in Nat
    BY ListShape DEF ScanTypeOK
  <1>1. call # Idle
    BY DEF ScanStep, Finish, Skip, Take, Found
  <1>2. /\ token_index \in Nat /\ element_count \in Nat /\ element_count < token_index
        /\ token_index <= json.numberOfTokens
    BY <1>0, <1>1 DEF ScanTypeOK, Calls
  <1>3. CASE Finish
    <2>1. result'.value \in {element_count, 0} /\ call' = Idle /\ json' = json
      BY <1>3 DEF Finish, Return
    <2> QED
      BY <1>0, <1>2, <2>1
  <1>4. CASE Skip
    BY <1>2, <1>4 DEF Skip
  <1>5. CASE Take
    BY <1>2, <1>5 DEF Take
  <1>6. CASE Found
    <2>1. result'.value \in {token_index, token_index + 1} /\ call' = Idle /\ json' = json
      BY <1>6 DEF Found, Return
    <2>2. token_index < json.numberOfTokens
      BY <1>0, <1>2, <1>6 DEF Found, AtEnd
    <2> QED
      BY <1>0, <1>2, <2>1, <2>2
  <1> QED
    BY <1>3, <1>4, <1>5, <1>6 DEF ScanStep

\* A call leaves the tokens alone and starts its loop or refuses.
LEMMA CallBounds ==
    ASSUME NEW f \in ArrayWalkers \cup ObjectWalkers, NEW i \in Nat, NEW n \in Nat,
           NEW k \in Strings, ScanTypeOK, Call(f, i, n, k)
    PROVE  /\ ScanNext
           /\ call' # Idle => element_count' < token_index'
           /\ result'.value = 0
           /\ json' = json
  <1>1. ScanNext
    BY DEF ScanNext
  <1>2. result'.value = 0 /\ json' = json
    BY DEF Call, NoResult
  <1>3. call' # Idle => element_count' < token_index'
    BY DEF Call
  <1> QED
    BY <1>1, <1>2, <1>3

LEMMA Calling ==
    ASSUME ValidateBase
    PROVE  /\ obj \in Nat /\ elem + 1 \in Nat /\ 0 \in Nat /\ 1 \in Nat
           /\ "" \in Strings /\ required[field] \in Strings
           /\ json.numberOfTokens \in Nat
  <1>1. required[field] \in Strings
    BY InputsAssumption DEF ValidateBase
  <1>2. json.numberOfTokens \in Nat
    BY ListShape DEF ValidateBase, ScanTypeOK
  <1>3. obj \in 0 .. json.numberOfTokens /\ elem \in Nat
    BY DEF ValidateBase
  <1>4. obj \in Nat /\ elem + 1 \in Nat
    BY <1>2, <1>3
  <1>5. "" \in Strings
    BY StringsAssumption
  <1> QED
    BY <1>1, <1>2, <1>4, <1>5

\* What a step does to the walkers, when it loads no new tokens.
ScanMove ==
    /\ [ScanNext]_scanVars
    /\ json' = json
    /\ call' # Idle => element_count' < token_index'
    /\ result'.value \in 0 .. json.numberOfTokens

LEMMA MoveByStep ==
    ASSUME ValidateBase, ScanStep
    PROVE  ScanMove
  <1>1. /\ call' # Idle => element_count' < token_index'
        /\ result'.value \in 0 .. json.numberOfTokens /\ json' = json
    BY ScanStepBounds DEF ValidateBase
  <1> QED
    BY <1>1 DEF ScanMove, ScanNext

LEMMA MoveByCall ==
    ASSUME ValidateBase, NEW f \in ArrayWalkers \cup ObjectWalkers, NEW i \in Nat,
           NEW n \in Nat, NEW k \in Strings, Call(f, i, n, k)
    PROVE  ScanMove
  <1>1. /\ ScanNext /\ json' = json /\ result'.value = 0
        /\ call' # Idle => element_count' < token_index'
    BY CallBounds DEF ValidateBase
  <1>2. json.numberOfTokens \in Nat
    BY Calling
  <1> QED
    BY <1>1, <1>2 DEF ScanMove

LEMMA MoveByNone ==
    ASSUME ValidateBase, UNCHANGED scanVars
    PROVE  ScanMove
  BY DEF ValidateBase, ScanMove, scanVars

LEMMA BaseKept ==
    ASSUME ValidateBase, ScanMove, UNCHANGED <<text, jsmn>>,
           obj' \in 0 .. json.numberOfTokens, elem' \in Nat, count' \in Nat, prevName' \in Nat,
           field' \in DOMAIN required, phase' # "parse",
           phase' \in {"count", "first", "next"} => obj' < json.numberOfTokens
    PROVE  ValidateBase'
  <1>1. ScanTypeOK'
    BY ScanTypeStep DEF ValidateBase, ScanMove
  <1>2. (Reader(jsmn, jsmn.pos) /\ jsmn.pos <= Len(text))'
    BY DEF ValidateBase
  <1>3. LeavesApart(json) /\ json' = json
    BY DEF ValidateBase, ScanMove
  <1> QED
    BY <1>1, <1>2, <1>3 DEF ValidateBase, ScanMove

\* The reading of the text keeps the types.
LEMMA ReadingStep ==
    ASSUME ValidateBase, ReadCharacter \/ Parse
    PROVE  /\ [ScanNext]_scanVars /\ ValidateBase'
           /\ json' # json => Load(json') /\ json'.numberOfTokens > 0
           /\ phase' = "text" => json'.numberOfTokens > 0
  <1>0. /\ Reader(jsmn, jsmn.pos) /\ jsmn.pos <= Len(text) /\ jsmn.pos \in Nat
        /\ text \in Seq(Strings)
    BY InputsAssumption DEF ValidateBase, Reader, JsmnStates
  <1>1. CASE ReadCharacter
    <2> DEFINE c == buffer(text, jsmn.pos)
               t == [jsmn_read(jsmn, c) EXCEPT !.pos = @ + 1]
    <2>1. jsmn.pos < Len(text) /\ jsmn' = t
      BY <1>1 DEF ReadCharacter, Readable
    <2>2. c \in Strings /\ Len(text) \in Nat
      BY <1>0, <2>1 DEF buffer
    <2>3. Reader(t, t.pos) /\ t.pos = jsmn.pos + 1
      <3> HIDE DEF c
      <3> QED
        BY <1>0, <2>2, ReadKeeps
    <2>4. UNCHANGED scanVars /\ UNCHANGED <<text, phase, err, obj, elem, count, prevName, field>>
          /\ phase = "parse"
      BY <1>1 DEF ReadCharacter
    <2>5. (Reader(jsmn, jsmn.pos) /\ jsmn.pos <= Len(text))'
      <3> HIDE DEF t
      <3> QED
        BY <1>0, <2>1, <2>2, <2>3, <2>4
    <2>6. ScanTypeOK'
      BY <2>4, ScanTypeStep DEF ValidateBase
    <2>7. json' = json
      BY <2>4 DEF scanVars
    <2>8. ValidateBase'
      BY <2>4, <2>5, <2>6, <2>7 DEF ValidateBase, scanVars
    <2> QED
      BY <2>4, <2>7, <2>8
  <1>2. CASE Parse
    <2> DEFINE r == json_parse(text, jsmn')
               d == r.json
    <2>1. /\ jsmn' = jsmn_end(jsmn) /\ phase = "parse"
          /\ UNCHANGED <<text, obj, elem, count, prevName, field>>
          /\ IF r.err = "parser_ok" THEN Load(d) /\ GoOn("text")
             ELSE UNCHANGED scanVars /\ Reject(r.err)
      BY <1>2 DEF Parse
    <2>2. /\ Reader(jsmn', jsmn.pos) /\ jsmn'.pos = jsmn.pos
          /\ jsmn'.err = "none" => Unfinished(jsmn') = {}
      BY <1>0, <2>1, EndOfText
    <2>3. (Reader(jsmn, jsmn.pos) /\ jsmn.pos <= Len(text))'
      BY <1>0, <2>1, <2>2
    <2>4. CASE r.err = "parser_ok"
      <3>1. /\ d \in ListsOf(d.numberOfTokens) /\ d.numberOfTokens \in 1 .. MaxTokens
            /\ \A i \in DOMAIN d.tokens : d.tokens[i].end <= jsmn.pos
            /\ LeavesApart(d)
        BY <1>0, <2>2, <2>4, ParsedList
      <3> HIDE DEF d, r
      <3>2. Load(d) /\ phase' = "text"
        BY <2>1, <2>4 DEF GoOn
      <3>3. d.numberOfTokens \in Nat
        BY <3>1
      <3>4. d \in TokenLists
        BY <3>1, <3>3 DEF TokenLists
      <3>5. ScanNext
        BY <3>2, <3>4 DEF ScanNext
      <3>6. ScanTypeOK'
        BY <3>5, ScanTypeStep DEF ValidateBase
      <3>7. json' = d /\ result' = NoResult /\ call' = Idle
        BY <3>2 DEF Load
      <3>8. \A i \in DOMAIN d.tokens : d.tokens[i].end <= Len(text)
        <4>1. \A i \in DOMAIN d.tokens : d.tokens[i].end \in Nat
          BY <3>4, ListShape
        <4> QED
          BY <1>0, <3>1, <4>1
      <3>9. d.numberOfTokens <= MaxTokens /\ d.numberOfTokens > 0 /\ LeavesApart(d)
        BY <3>1, MaxTokensAssumption
      <3>10. result'.value \in 0 .. d.numberOfTokens
        BY <3>3, <3>7 DEF NoResult
      <3>11. obj' \in 0 .. d.numberOfTokens
        BY <2>1, <3>3 DEF ValidateBase
      <3>12. ValidateBase'
        BY <2>1, <2>3, <3>2, <3>6, <3>7, <3>8, <3>9, <3>10, <3>11 DEF ValidateBase
      <3> QED
        BY <3>2, <3>5, <3>7, <3>9, <3>12
    <2>5. CASE r.err # "parser_ok"
      <3>1. UNCHANGED scanVars /\ phase' = "rejected"
        BY <2>1, <2>5 DEF Reject
      <3>2. ScanTypeOK' /\ json' = json
        BY <3>1, ScanTypeStep DEF ValidateBase, scanVars
      <3>3. ValidateBase'
        BY <2>1, <2>3, <3>1, <3>2 DEF ValidateBase, scanVars
      <3> QED
        BY <3>1, <3>2, <3>3
    <2> QED
      BY <2>4, <2>5
  <1> QED
    BY <1>1, <1>2

\* Every step of the validation is a step of the walkers, and keeps the types.
\* All but those that read the text leave the tokens alone.
LEMMA CheckingStep ==
    ASSUME ValidateBase, ValidateNext, ~(ReadCharacter \/ Parse)
    PROVE  ScanMove /\ ValidateBase'
  <1> DEFINE n == json.numberOfTokens
             Types == /\ obj' \in 0 .. n /\ elem' \in Nat /\ count' \in Nat /\ prevName' \in Nat
                      /\ field' \in DOMAIN required
                      /\ phase' # "parse"
                      /\ phase' \in {"count", "first", "next"} => obj' < n
  <1>0. /\ obj \in Nat /\ elem + 1 \in Nat /\ "" \in Strings /\ required[field] \in Strings
        /\ n \in Nat
        /\ {"object_get_element_count", "object_get_nth_key", "object_get_value"}
              \subseteq ArrayWalkers \cup ObjectWalkers
    BY Calling DEF ObjectWalkers
  <1>1. SUFFICES ScanMove /\ UNCHANGED <<text, jsmn>> /\ Types
    BY BaseKept
  <1>15. obj \in Nat /\ elem + 1 \in Nat /\ n \in Nat
    BY <1>0, Zenon
  <1>2. /\ obj \in 0 .. n /\ elem \in Nat /\ count \in Nat /\ prevName \in Nat
        /\ field \in DOMAIN required
        /\ phase \in {"count", "first", "next"} => obj < n
        /\ result.value \in Nat
    <2>1. result.value \in 0 .. n
      BY DEF ValidateBase
    <2> QED
      BY <1>15, <2>1 DEF ValidateBase
  <1>14. ASSUME NextObject, obj < n PROVE obj' \in 0 .. n /\ phase' = "object"
    BY <1>15, <1>14 DEF NextObject, GoOn
  <1>3. CASE CheckText
    <2>1. UNCHANGED scanVars /\ phase' \in {"rejected", "object"}
          /\ UNCHANGED <<text, jsmn, obj, elem, count, prevName, field>>
      BY <1>3 DEF CheckText, Reject, GoOn
    <2> QED
      BY <1>2, <2>1, MoveByNone
  <1>4. CASE NoMoreObjects
    <2>1. UNCHANGED scanVars /\ phase' = "field"
          /\ UNCHANGED <<text, jsmn, obj, elem, count, prevName, field>>
      BY <1>4 DEF NoMoreObjects, GoOn
    <2> QED
      BY <1>2, <2>1, MoveByNone
  <1>5. CASE VisitToken
    <2>1. UNCHANGED <<text, jsmn, elem, count, prevName, field>> /\ obj < n
      BY <1>5 DEF VisitToken
    <2>2. CASE UNCHANGED scanVars /\ NextObject
      BY <1>2, <1>14, <2>1, <2>2, MoveByNone
    <2>3. CASE Call("object_get_element_count", obj, 0, "") /\ GoOn("count") /\ UNCHANGED obj
      <3>1. ScanMove
        BY <2>3, <1>0, MoveByCall
      <3> QED
        BY <1>2, <2>1, <2>3, <3>1 DEF GoOn
    <2> QED
      BY <1>5, <2>2, <2>3 DEF VisitToken
  <1>6. CASE CountMembers
    <2>1. /\ UNCHANGED <<text, jsmn, elem, prevName, field>> /\ count' = result.value
          /\ phase = "count"
      BY <1>6 DEF CountMembers
    <2>2. CASE UNCHANGED scanVars /\ NextObject
      BY <1>2, <1>14, <2>1, <2>2, MoveByNone
    <2>3. CASE Call("object_get_nth_key", obj, 0, "") /\ GoOn("first") /\ UNCHANGED obj
      <3>1. ScanMove
        BY <2>3, <1>0, MoveByCall
      <3> QED
        BY <1>2, <2>1, <2>3, <3>1 DEF GoOn
    <2> QED
      BY <1>6, <2>2, <2>3 DEF CountMembers
  <1>7. ASSUME phase \in {"first", "next"}, NEW m \in Nat, NextMember(m),
               UNCHANGED <<text, jsmn, count, field>>
        PROVE  ScanMove /\ UNCHANGED <<text, jsmn>> /\ Types
    <2>1. prevName' = result.value /\ elem' = m
      BY <1>7 DEF NextMember
    <2>2. CASE UNCHANGED scanVars /\ NextObject
      BY <1>2, <1>7, <1>14, <2>1, <2>2, MoveByNone
    <2>3. CASE Call("object_get_nth_key", obj, m, "") /\ GoOn("next") /\ UNCHANGED obj
      <3>1. ScanMove
        BY <2>3, <1>0, MoveByCall
      <3> QED
        BY <1>2, <1>7, <2>1, <2>3, <3>1 DEF GoOn
    <2> QED
      BY <1>7, <2>2, <2>3 DEF NextMember
  <1>8. ASSUME NEW e, Reject(e), UNCHANGED scanVars, UNCHANGED <<obj, elem, prevName>>,
               UNCHANGED <<text, jsmn, count, field>>
        PROVE  ScanMove /\ UNCHANGED <<text, jsmn>> /\ Types
    BY <1>2, <1>8, MoveByNone DEF Reject
  <1>9. CASE FirstName
    <2>1. phase = "first" /\ UNCHANGED <<text, jsmn, count, field>>
      BY <1>9 DEF FirstName
    <2>2. CASE NextMember(1)
      BY <1>7, <2>1, <2>2
    <2>3. CASE Reject("parser_unexpected_value") /\ UNCHANGED scanVars
               /\ UNCHANGED <<obj, elem, prevName>>
      BY <1>8, <2>1, <2>3
    <2> QED
      BY <1>9, <2>2, <2>3 DEF FirstName
  <1>10. CASE NextName
    <2>1. phase = "next" /\ UNCHANGED <<text, jsmn, count, field>>
      BY <1>10 DEF NextName
    <2>2. CASE NextMember(elem + 1)
      BY <1>0, <1>7, <2>1, <2>2
    <2>3. CASE (\E e : Reject(e)) /\ UNCHANGED scanVars /\ UNCHANGED <<obj, elem, prevName>>
      BY <1>8, <2>1, <2>3
    <2>4. \/ NextMember(elem + 1)
          \/ (\E e : Reject(e)) /\ UNCHANGED scanVars /\ UNCHANGED <<obj, elem, prevName>>
      BY <1>10 DEF NextName
    <2> QED
      BY <2>2, <2>3, <2>4
  <1>11. CASE LookUp
    <2>1. Call("object_get_value", 0, 0, required[field])
      BY <1>11 DEF LookUp
    <2>2. ScanMove
      BY <2>1, <1>0, MoveByCall
    <2> QED
      BY <1>2, <1>11, <2>2 DEF LookUp, GoOn
  <1>12. CASE LookedUp
    <2>1. /\ UNCHANGED scanVars /\ UNCHANGED <<text, jsmn, obj, elem, count, prevName>>
          /\ phase' \in {"rejected", "field", "accepted"}
          /\ field' = field \/ (field < Len(required) /\ field' = field + 1)
      BY <1>12 DEF LookedUp, Reject, GoOn
    <2>2. field' \in DOMAIN required
      BY <1>2, <2>1 DEF required
    <2> QED
      BY <1>2, <2>1, <2>2, MoveByNone
  <1>13. CASE ScanStep /\ UNCHANGED validateVars
    <2>1. phase # "parse"
      <3>1. call # Idle
        BY <1>13 DEF ScanStep, Finish, Skip, Take, Found
      <3> QED
        BY <1>13, <3>1 DEF ValidateBase
    <2> QED
      BY <1>2, <1>13, <2>1, MoveByStep DEF validateVars
  <1> QED
    BY <1>3, <1>4, <1>5, <1>6, <1>9, <1>10, <1>11, <1>12, <1>13 DEF ValidateNext

----------------------------------------------------------------------------
(* Places in a set                                                         *)

LEMMA PlaceGrows ==
    ASSUME NEW S \in SUBSET Nat, IsFiniteSet(S), NEW v \in S, NEW w \in Nat, v < w
    PROVE  /\ Place(S, v) \in Nat /\ Place(S, w) \in Nat /\ Cardinality(S) \in Nat
           /\ Place(S, v) + 1 <= Place(S, w)
           /\ Place(S, v) + 1 <= Cardinality(S)
           /\ Place(S, w) <= Cardinality(S)
  <1> DEFINE A == {j \in S : j < v}
             B == {j \in S : j < w}
  <1>1. A \subseteq B /\ B \subseteq S /\ v \in B /\ v \notin A
    <2>1. ~(v < v) /\ \A j \in S : j < v => j < w
      OBVIOUS
    <2> QED
      BY <2>1, Zenon
  <1>2. IsFiniteSet(A) /\ IsFiniteSet(B)
    BY <1>1, FS_Subset
  <1> HIDE DEF A, B
  <1>3. IsFiniteSet(A \cup {v}) /\ Cardinality(A \cup {v}) = Cardinality(A) + 1
    BY <1>1, <1>2, FS_AddElement
  <1>4. A \cup {v} \subseteq B /\ A \cup {v} \subseteq S
    BY <1>1
  <1>5. Cardinality(A \cup {v}) <= Cardinality(B) /\ Cardinality(A \cup {v}) <= Cardinality(S)
        /\ Cardinality(B) <= Cardinality(S)
    BY <1>1, <1>2, <1>4, FS_Subset
  <1>6. Cardinality(A) \in Nat /\ Cardinality(B) \in Nat /\ Cardinality(S) \in Nat
    BY <1>2, FS_CardinalityType
  <1>7. Place(S, v) = Cardinality(A) /\ Place(S, w) = Cardinality(B)
    BY DEF Place, A, B
  <1> QED
    BY <1>3, <1>5, <1>6, <1>7

\* The first of a set, the last, and the one after another.
LEMMA FirstPlace ==
    ASSUME NEW S \in SUBSET Nat, IsFiniteSet(S), NEW v \in S, Place(S, v) = 0
    PROVE  \A i \in S : v <= i
  BY PlaceGrows

LEMMA LastPlace ==
    ASSUME NEW S \in SUBSET Nat, IsFiniteSet(S), NEW v \in S, Place(S, v) + 1 >= Cardinality(S)
    PROVE  \A i \in S : i <= v
  <1> SUFFICES ASSUME NEW i \in S, v < i PROVE FALSE
    OBVIOUS
  <1>1. /\ Place(S, v) \in Nat /\ Place(S, i) \in Nat /\ Place(S, v) + 1 <= Place(S, i)
        /\ Cardinality(S) \in Nat
    BY PlaceGrows
  <1>2. i < i + 1 /\ i + 1 \in Nat
    OBVIOUS
  <1>3. Place(S, i) + 1 <= Cardinality(S)
    BY <1>2, PlaceGrows
  <1> QED
    BY <1>1, <1>3

LEMMA NextPlace ==
    ASSUME NEW S \in SUBSET Nat, IsFiniteSet(S), NEW p \in S, NEW v \in S,
           Place(S, v) = Place(S, p) + 1
    PROVE  p < v /\ \A i \in S : i < v => i <= p
  <1>0. /\ p \in Nat /\ v \in Nat /\ Place(S, p) \in Nat /\ Place(S, v) \in Nat
    BY PlaceStep
  <1>1. p < v
    <2>1. p # v
      BY <1>0
    <2>2. ~(v < p)
      BY <1>0, PlaceGrows
    <2> QED
      BY <1>0, <2>1, <2>2
  <1>2. ASSUME NEW i \in S, i < v, p < i PROVE FALSE
    <2>1. Place(S, p) + 1 <= Place(S, i) /\ Place(S, i) + 1 <= Place(S, v) /\ Place(S, i) \in Nat
      BY <1>0, <1>2, PlaceGrows
    <2> QED
      BY <1>0, <2>1
  <1> QED
    BY <1>0, <1>1, <1>2

LEMMA NoTwo ==
    ASSUME NEW S \in SUBSET Nat, IsFiniteSet(S), Cardinality(S) <= 1
    PROVE  \A i, j \in S : ~(i < j)
  <1> SUFFICES ASSUME NEW i \in S, NEW j \in S, i < j PROVE FALSE
    OBVIOUS
  <1>1. /\ Place(S, i) \in Nat /\ Place(S, j) \in Nat /\ Place(S, i) + 1 <= Place(S, j)
        /\ Cardinality(S) \in Nat
    BY PlaceGrows
  <1>2. j < j + 1 /\ j + 1 \in Nat
    OBVIOUS
  <1>3. Place(S, j) + 1 <= Cardinality(S)
    BY <1>2, PlaceGrows
  <1> QED
    BY <1>1, <1>3

----------------------------------------------------------------------------
(* The phases                                                              *)

\* A walker runs this call, or ran it last.
Called(f, i, n, k) ==
    LET c == [fn |-> f, at |-> i, nth |-> n, key |-> k] IN
    call = c \/ (call = Idle /\ result # NoResult /\ result.call = c)

LEMMA CalledByCall ==
    ASSUME NEW f, NEW i, NEW n, NEW k, Call(f, i, n, k)
    PROVE  Called(f, i, n, k)'
  BY DEF Call, Called, NoResult

LEMMA CalledByStep ==
    ASSUME NEW f, NEW i, NEW n, NEW k, Called(f, i, n, k), ScanStep
    PROVE  Called(f, i, n, k)'
  <1>1. call # Idle
    BY DEF ScanStep, Finish, Skip, Take, Found
  <1>2. call = [fn |-> f, at |-> i, nth |-> n, key |-> k]
    BY <1>1 DEF Called
  <1>3. CASE Skip \/ Take
    BY <1>2, <1>3 DEF Skip, Take, Called
  <1>4. CASE Finish \/ Found
    <2>1. call' = Idle /\ result'.call = call /\ result'.err # "none"
      BY <1>4 DEF Finish, Found, Return
    <2>2. result' # NoResult
      BY <2>1 DEF NoResult
    <2> QED
      BY <1>2, <2>1, <2>2 DEF Called
  <1> QED
    BY <1>3, <1>4 DEF ScanStep

SortedBefore(o) == IsJson(json) => \A c \in Objects : c < o => InOrder(c)
SortedTo(m) ==
    \A i, j \in Members(json, obj) : i < j /\ j <= m => Rank[NameOf(i)] < Rank[NameOf(j)]
FoundBefore(f) == IsJson(json) => \A k \in DOMAIN required : k < f => Has(required[k])

Ordering == {"object", "count", "first", "next"}
InObject == {"count", "first", "next"}
LookingUp == {"field", "lookup"}

\* What is known of the text in each phase.
PhaseInv ==
    /\ phase \in {"parse", "text"} => obj = 0
    /\ phase \in {"parse", "text"} \cup Ordering => field = 1
    /\ phase \in {"text"} \cup Ordering \cup LookingUp \cup {"accepted"} => json.numberOfTokens > 0
    /\ phase \in Ordering \cup LookingUp \cup {"accepted"} => WholeText /\ ~contains_whitespace
    /\ phase \in Ordering => SortedBefore(obj)
    /\ phase \in LookingUp \cup {"accepted"} => SortedBefore(json.numberOfTokens)
    /\ phase \in InObject => obj \in Objects
    /\ phase = "count" => Called("object_get_element_count", obj, 0, "")
    /\ phase \in {"first", "next"} /\ IsJson(json) => count = Cardinality(Members(json, obj))
    /\ phase = "first" => Called("object_get_nth_key", obj, 0, "") /\ count > 1
    /\ phase = "next" =>
        /\ Called("object_get_nth_key", obj, elem, "") /\ elem >= 1 /\ elem < count
        /\ IsJson(json) =>
            /\ prevName \in Members(json, obj) /\ SortedTo(prevName)
            /\ Place(Members(json, obj), prevName) = elem - 1
    /\ phase \in LookingUp => FoundBefore(field)
    /\ phase = "lookup" =>
        /\ Called("object_get_value", 0, 0, required[field])
        /\ call # Idle \/ result.err = "parser_ok" => 0 \in Objects
    /\ phase = "accepted" => FoundBefore(Len(required) + 1)

\* What only speaks of the tokens and the text stays true while they stay.
LEMMA Unmoved ==
    ASSUME UNCHANGED <<json, text>>
    PROVE  /\ Objects' = Objects /\ Spaces' = Spaces
           /\ WholeText' <=> WholeText
           /\ contains_whitespace' <=> contains_whitespace
           /\ \A c : InOrder(c)' <=> InOrder(c)
           /\ \A c : Names(c)' = Names(c)
           /\ \A i : NameOf(i)' = NameOf(i)
           /\ \A k : Has(k)' <=> Has(k)
  <1>1. Objects' = Objects
    BY Zenon DEF Objects
  <1>2. \A i : NameOf(i)' = NameOf(i)
    BY DEF NameOf
  <1>3. \A c : Names(c)' = Names(c)
    BY <1>2, Zenon DEF Names
  <1>4. \A c : InOrder(c)' <=> InOrder(c)
    BY <1>2 DEF InOrder
  <1>5. \A k : Has(k)' <=> Has(k)
    BY <1>1, <1>3 DEF Has
  <1>6. WholeText' <=> WholeText
    BY DEF WholeText
  <1>7. contains_whitespace' <=> contains_whitespace
    <2>1. Inspected' = Inspected
      BY Zenon DEF Inspected
    <2> QED
      BY <2>1, Zenon DEF contains_whitespace
  <1>8. Spaces' = Spaces
    BY Zenon DEF Spaces, InString
  <1> QED
    BY <1>1, <1>2, <1>3, <1>4, <1>5, <1>6, <1>7, <1>8

LEMMA UnmovedParts ==
    ASSUME UNCHANGED <<json, text>>
    PROVE  /\ \A o : SortedBefore(o)' <=> SortedBefore(o)
           /\ \A f : FoundBefore(f)' <=> FoundBefore(f)
           /\ obj' = obj => \A m : SortedTo(m)' <=> SortedTo(m)
  <1>1. \A o : SortedBefore(o)' <=> SortedBefore(o)
    BY Unmoved DEF SortedBefore
  <1>2. \A f : FoundBefore(f)' <=> FoundBefore(f)
    BY Unmoved DEF FoundBefore
  <1>3. obj' = obj => \A m : SortedTo(m)' <=> SortedTo(m)
    BY DEF SortedTo, NameOf
  <1> QED
    BY <1>1, <1>2, <1>3

----------------------------------------------------------------------------
(* What the walkers return to the validation                               *)

LEMMA MembersOf ==
    ASSUME ScanTypeOK, NEW c \in Nat
    PROVE  /\ Members(json, c) \in SUBSET Nat /\ IsFiniteSet(Members(json, c))
           /\ \A i \in Members(json, c) :
                /\ i \in DOMAIN json.tokens /\ i < json.numberOfTokens
                /\ token(i) = json.tokens[i] /\ NameOf(i) = token(i).text
                /\ NameOf(i) \in Strings /\ Rank[NameOf(i)] \in Nat
  <1>1. json \in TokenLists /\ json.numberOfTokens \in Nat
    BY ListShape DEF ScanTypeOK
  <1>2. /\ Members(json, c) \subseteq c + 1 .. json.numberOfTokens - 1
        /\ IsFiniteSet(Members(json, c))
    BY <1>1, ElementsFinite
  <1>3. ASSUME NEW i \in Members(json, c)
        PROVE  /\ i \in DOMAIN json.tokens /\ i < json.numberOfTokens /\ i \in Nat
               /\ token(i) = json.tokens[i] /\ NameOf(i) = token(i).text
               /\ NameOf(i) \in Strings /\ Rank[NameOf(i)] \in Nat
    <2>1. i \in 0 .. json.numberOfTokens - 1 /\ i < json.numberOfTokens /\ i \in Nat
      BY <1>1, <1>2
    <2>2. i \in DOMAIN json.tokens /\ json.tokens[i].text \in Strings
      BY <1>1, <2>1, ListShape
    <2>3. token(i) = json.tokens[i]
      BY <2>1 DEF token
    <2>4. Rank[json.tokens[i].text] \in Nat
      BY <2>2, InputsAssumption
    <2> QED
      BY <2>1, <2>2, <2>3, <2>4 DEF NameOf
  <1> QED
    BY <1>2, <1>3

LEMMA ObjectAt ==
    ASSUME ScanTypeOK, NEW o \in Objects
    PROVE  /\ o \in Nat /\ o < json.numberOfTokens
           /\ json.tokens[o].type = "JSMN_OBJECT"
           /\ \A c : c.at = o => Meant(json, c)
  <1>1. o \in Nat /\ o < json.numberOfTokens /\ json.tokens[o].type = "JSMN_OBJECT"
    BY ListShape DEF ScanTypeOK, Objects
  <1> QED
    BY <1>1 DEF Meant

LEMMA NotLess == \A a, b \in Nat : b < a => ~(a <= b)
  OBVIOUS

LEMMA CountReturned ==
    ASSUME ScanTypeOK, ScanIsExact, NEW o \in Objects, call = Idle, IsJson(json),
           Called("object_get_element_count", o, 0, "")
    PROVE  result.value = Cardinality(Members(json, o))
  <1> DEFINE c == [fn |-> "object_get_element_count", at |-> o, nth |-> 0, key |-> ""]
  <1>1. result # NoResult /\ result.call = c
    BY DEF Called, Idle
  <1>2. Meant(json, c)
    BY ObjectAt
  <1>3. CountIsRight(json, result)
    BY <1>1, <1>2 DEF ScanIsExact
  <1>4. c.fn \in Counters /\ c.fn \notin ArrayWalkers /\ c.at = o
    BY DEF Counters, ArrayWalkers
  <1>5. Walked(json, c) = Members(json, o)
    BY <1>4 DEF Walked
  <1> HIDE DEF c
  <1> QED
    BY <1>1, <1>3, <1>4, <1>5 DEF CountIsRight

LEMMA KeyReturned ==
    ASSUME ScanTypeOK, ScanIsExact, NEW o \in Objects, call = Idle, IsJson(json),
           NEW n \in Nat, n < Cardinality(Members(json, o)),
           Called("object_get_nth_key", o, n, "")
    PROVE  /\ result.err = "parser_ok" /\ result.value \in Members(json, o)
           /\ Place(Members(json, o), result.value) = n
  <1> DEFINE c == [fn |-> "object_get_nth_key", at |-> o, nth |-> n, key |-> ""]
  <1>1. result # NoResult /\ result.call = c
    BY DEF Called, Idle
  <1>2. Meant(json, c)
    BY ObjectAt
  <1>3. NthIsRight(json, result)
    BY <1>1, <1>2 DEF ScanIsExact
  <1>4. c.fn \in ByNumber /\ c.fn \notin ArrayWalkers /\ c.at = o /\ c.nth = n
        /\ c.fn # "object_get_nth_value"
    BY DEF ByNumber, ArrayWalkers
  <1>5. Walked(json, c) = Members(json, o)
    BY <1>4 DEF Walked
  <1> HIDE DEF c
  <1>6. IF result.err = "parser_ok"
        THEN result.value \in Members(json, o) /\ Place(Members(json, o), result.value) = n
        ELSE Cardinality(Members(json, o)) <= n
    BY <1>1, <1>3, <1>4, <1>5 DEF NthIsRight
  <1>7. ~(Cardinality(Members(json, o)) <= n)
    <2>1. Cardinality(Members(json, o)) \in Nat
      BY ObjectAt, MembersOf, FS_CardinalityType
    <2> QED
      BY <2>1, NotLess, Zenon
  <1> QED
    BY <1>6, <1>7, Zenon

LEMMA ValueReturned ==
    ASSUME ScanTypeOK, ScanIsExact, call = Idle, IsJson(json), NEW k \in Strings,
           Called("object_get_value", 0, 0, k),
           result.err = "parser_ok" => 0 \in Objects
    PROVE  result.err = "parser_ok" <=> Has(k)
  <1> DEFINE c == [fn |-> "object_get_value", at |-> 0, nth |-> 0, key |-> k]
  <1>1. result # NoResult /\ result.call = c
    BY DEF Called, Idle
  <1>2. CASE 0 \in Objects
    <2>1. Meant(json, c)
      BY <1>2, ObjectAt
    <2>2. ValueIsRight(json, result)
      BY <1>1, <2>1 DEF ScanIsExact
    <2>3. IF result.err = "parser_ok"
          THEN result.value - 1 \in {i \in Members(json, 0) : json.tokens[i].text = k}
          ELSE {i \in Members(json, 0) : json.tokens[i].text = k} = {}
      BY <1>1, <2>2 DEF ValueIsRight
    <2>4. Has(k) <=> \E i \in Members(json, 0) : json.tokens[i].text = k
      BY <1>2 DEF Has, Names, NameOf
    <2> QED
      BY <2>3, <2>4
  <1>3. CASE 0 \notin Objects
    BY <1>3 DEF Has
  <1> QED
    BY <1>2, <1>3

----------------------------------------------------------------------------
(* The steps of the validation                                             *)

Known == ValidateBase /\ PhaseInv /\ ScanIsExact

LEMMA ReadingKeepsPhase ==
    ASSUME Known, ReadCharacter \/ Parse
    PROVE  PhaseInv'
  <1>1. CASE ReadCharacter
    <2>1. UNCHANGED scanVars /\ UNCHANGED <<text, phase, err, obj, elem, count, prevName, field>>
          /\ phase = "parse"
      BY <1>1 DEF ReadCharacter
    <2>2. obj = 0 /\ field = 1
      BY <2>1 DEF Known, PhaseInv
    <2> QED
      BY <2>1, <2>2 DEF PhaseInv, Ordering, LookingUp, InObject
  <1>2. CASE Parse
    <2>1. /\ phase = "parse" /\ phase' \in {"text", "rejected"}
          /\ UNCHANGED <<obj, field>>
      BY <1>2 DEF Parse, GoOn, Reject
    <2>2. obj = 0 /\ field = 1
      BY <2>1 DEF Known, PhaseInv
    <2>3. phase' = "text" => json'.numberOfTokens > 0
      BY <1>2, ReadingStep DEF Known
    <2> QED
      BY <2>1, <2>2, <2>3 DEF PhaseInv, Ordering, LookingUp, InObject
  <1> QED
    BY <1>1, <1>2

LEMMA CheckTextKeepsPhase ==
    ASSUME Known, CheckText
    PROVE  PhaseInv'
  <1>1. /\ phase = "text" /\ phase' \in {"object", "rejected"}
        /\ phase' = "object" => WholeText /\ ~contains_whitespace
        /\ UNCHANGED <<json, text, obj, field>>
    BY DEF CheckText, Reject, GoOn, scanVars
  <1>2. obj = 0 /\ field = 1 /\ json.numberOfTokens > 0
    BY <1>1 DEF Known, PhaseInv
  <1>3. SortedBefore(0)
    BY ObjectAt DEF SortedBefore, Known, ValidateBase
  <1>4. SortedBefore(0)' /\ (phase' = "object" => (WholeText /\ ~contains_whitespace)')
    BY <1>1, <1>3, Unmoved, UnmovedParts
  <1> QED
    BY <1>1, <1>2, <1>4 DEF PhaseInv, Ordering, LookingUp, InObject

\* The next object is looked for: those before it are in order.
LEMMA ObjectDone ==
    ASSUME Known, phase \in Ordering, NextObject, UNCHANGED <<json, text, field>>,
           IsJson(json) /\ obj \in Objects => InOrder(obj)
    PROVE  PhaseInv'
  <1>1. /\ SortedBefore(obj) /\ WholeText /\ ~contains_whitespace
        /\ json.numberOfTokens > 0 /\ field = 1
    BY DEF Known, PhaseInv
  <1>2. PICK o \in Nat : o = obj + 1
    <2>1. obj \in Nat
      BY Calling, Zenon DEF Known
    <2> QED
      BY <2>1
  <1>3. SortedBefore(o)
    <2> SUFFICES ASSUME IsJson(json), NEW c \in Objects, c < o PROVE InOrder(c)
      BY DEF SortedBefore
    <2>1. c \in Nat /\ obj \in Nat
      BY ObjectAt, Calling DEF Known, ValidateBase
    <2>2. c < obj \/ c = obj
      BY <1>2, <2>1
    <2> QED
      BY <1>1, <2>2 DEF SortedBefore
  <1>4. SortedBefore(o)' /\ WholeText' /\ ~contains_whitespace'
    BY <1>1, <1>3, Unmoved, UnmovedParts
  <1>5. obj' = o /\ phase' = "object"
    BY <1>2 DEF NextObject, GoOn
  <1>6. SortedBefore(obj)'
    BY <1>4, <1>5 DEF SortedBefore
  <1> QED
    BY <1>1, <1>4, <1>5, <1>6 DEF PhaseInv, Ordering, LookingUp, InObject

LEMMA VisitTokenKeepsPhase ==
    ASSUME Known, VisitToken
    PROVE  PhaseInv'
  <1>1. phase = "object" /\ obj < json.numberOfTokens /\ UNCHANGED <<text, field>>
    BY DEF VisitToken
  <1>2. ScanTypeOK /\ obj \in Nat
    BY Calling, Zenon DEF Known, ValidateBase
  <1>3. token(obj) = json.tokens[obj] /\ obj \in DOMAIN json.tokens
    BY <1>1, <1>2, TokenIs, ListShape, SMTT(60) DEF ScanTypeOK
  <1>4. CASE token(obj).type # "JSMN_OBJECT"
    <2>1. NextObject /\ UNCHANGED <<json, text, field>>
      BY <1>1, <1>4 DEF VisitToken, scanVars
    <2>2. obj \notin Objects
      BY <1>3, <1>4 DEF Objects
    <2> QED
      BY <1>1, <2>1, <2>2, ObjectDone DEF Ordering
  <1>5. CASE token(obj).type = "JSMN_OBJECT"
    <2>1. /\ Call("object_get_element_count", obj, 0, "")
          /\ phase' = "count" /\ UNCHANGED obj
      BY <1>5 DEF VisitToken, GoOn
    <2>2. json' = json
      BY <2>1 DEF Call
    <2>3. Called("object_get_element_count", obj, 0, "")'
      <3>1. PICK o : o = obj
        OBVIOUS
      <3>2. Called("object_get_element_count", o, 0, "")'
        BY <2>1, <3>1, CalledByCall
      <3> QED
        BY <2>1, <3>1, <3>2 DEF Called
    <2>4. (obj \in Objects)'
      BY <1>3, <1>5, <2>1, <2>2 DEF Objects
    <2>5. /\ SortedBefore(obj) /\ WholeText /\ ~contains_whitespace
          /\ json.numberOfTokens > 0 /\ field = 1
      BY <1>1 DEF Known, PhaseInv, Ordering
    <2>6. (/\ SortedBefore(obj) /\ WholeText /\ ~contains_whitespace)'
      BY <1>1, <2>1, <2>2, <2>5, Unmoved DEF SortedBefore
    <2> QED
      BY <1>1, <2>1, <2>2, <2>3, <2>4, <2>5, <2>6 DEF PhaseInv, Ordering, LookingUp, InObject
  <1> QED
    BY <1>4, <1>5

LEMMA CountMembersKeepsPhase ==
    ASSUME Known, CountMembers
    PROVE  PhaseInv'
  <1>1. /\ phase = "count" /\ call = Idle /\ UNCHANGED <<text, field>> /\ count' = result.value
    BY DEF CountMembers
  <1>2. ScanTypeOK /\ ScanIsExact
    BY DEF Known, ValidateBase
  <1>3. /\ SortedBefore(obj) /\ WholeText /\ ~contains_whitespace
        /\ json.numberOfTokens > 0 /\ field = 1 /\ obj \in Objects
        /\ Called("object_get_element_count", obj, 0, "")
    BY <1>1 DEF Known, PhaseInv, Ordering, InObject
  <1>4. IsJson(json) => result.value = Cardinality(Members(json, obj))
    BY <1>1, <1>2, <1>3, CountReturned
  <1>5. CASE result.value > 1
    <2>1. /\ Call("object_get_nth_key", obj, 0, "")
          /\ phase' = "first" /\ UNCHANGED obj
      BY <1>5 DEF CountMembers, GoOn
    <2>2. json' = json
      BY <2>1 DEF Call
    <2>3. Called("object_get_nth_key", obj, 0, "")'
      <3>1. PICK o : o = obj
        OBVIOUS
      <3>2. Called("object_get_nth_key", o, 0, "")'
        BY <2>1, <3>1, CalledByCall
      <3> QED
        BY <2>1, <3>1, <3>2 DEF Called
    <2>4. (/\ SortedBefore(obj) /\ WholeText /\ ~contains_whitespace /\ obj \in Objects)'
      BY <1>1, <1>3, <2>1, <2>2, Unmoved DEF SortedBefore
    <2>5. (IsJson(json) => count = Cardinality(Members(json, obj)))'
      BY <1>1, <1>4, <2>1, <2>2
    <2>6. count' > 1
      BY <1>1, <1>5
    <2> QED
      BY <1>1, <1>3, <2>1, <2>2, <2>3, <2>4, <2>5, <2>6
         DEF PhaseInv, Ordering, LookingUp, InObject
  <1>6. CASE ~(result.value > 1)
    <2>1. NextObject /\ UNCHANGED <<json, text, field>>
      BY <1>1, <1>6 DEF CountMembers, scanVars
    <2>2. ASSUME IsJson(json) PROVE InOrder(obj)
      <3>1. Members(json, obj) \in SUBSET Nat /\ IsFiniteSet(Members(json, obj))
        BY <1>2, <1>3, ObjectAt, MembersOf
      <3>2. Cardinality(Members(json, obj)) \in Nat
        BY <3>1, FS_CardinalityType
      <3>3. Cardinality(Members(json, obj)) <= 1
        BY <1>4, <1>6, <2>2, <3>2
      <3>4. \A i, j \in Members(json, obj) : ~(i < j)
        BY <3>1, <3>3, NoTwo
      <3> QED
        BY <3>4 DEF InOrder
    <2> QED
      BY <1>1, <2>1, <2>2, ObjectDone DEF Ordering
  <1> QED
    BY <1>5, <1>6

\* A member is gone by: the names up to it are in order.
LEMMA MemberDone ==
    ASSUME Known, phase \in {"first", "next"}, NEW m \in Nat, 1 <= m, m <= count,
           NextMember(m), UNCHANGED <<text, count, field>>,
           IsJson(json) =>
                /\ result.value \in Members(json, obj) /\ SortedTo(result.value)
                /\ Place(Members(json, obj), result.value) = m - 1
    PROVE  PhaseInv'
  <1>1. prevName' = result.value /\ elem' = m
    BY DEF NextMember
  <1>2. ScanTypeOK /\ count \in Nat
    BY DEF Known, ValidateBase
  <1>3. /\ SortedBefore(obj) /\ WholeText /\ ~contains_whitespace
        /\ json.numberOfTokens > 0 /\ field = 1 /\ obj \in Objects
    BY DEF Known, PhaseInv, Ordering, InObject
  <1>4. IsJson(json) => count = Cardinality(Members(json, obj))
    BY DEF Known, PhaseInv
  <1>5. CASE m < count
    <2>1. /\ Call("object_get_nth_key", obj, m, "")
          /\ phase' = "next" /\ UNCHANGED obj
      BY <1>5 DEF NextMember, GoOn
    <2>2. json' = json
      BY <2>1 DEF Call
    <2>3. Called("object_get_nth_key", obj, elem, "")'
      <3>1. PICK o : o = obj
        OBVIOUS
      <3>2. Called("object_get_nth_key", o, m, "")'
        BY <2>1, <3>1, CalledByCall
      <3> QED
        BY <1>1, <2>1, <3>1, <3>2 DEF Called
    <2>4. (/\ SortedBefore(obj) /\ WholeText /\ ~contains_whitespace /\ obj \in Objects)'
      BY <1>3, <2>1, <2>2, Unmoved DEF SortedBefore
    <2>5. (IsJson(json) => count = Cardinality(Members(json, obj)))'
      BY <1>4, <2>1, <2>2
    <2>6. elem' >= 1 /\ elem' < count'
      BY <1>1, <1>5
    <2>7. (IsJson(json) =>
             /\ prevName \in Members(json, obj) /\ SortedTo(prevName)
             /\ Place(Members(json, obj), prevName) = elem - 1)'
      <3> SUFFICES ASSUME IsJson(json)
                   PROVE  (/\ prevName \in Members(json, obj) /\ SortedTo(prevName)
                           /\ Place(Members(json, obj), prevName) = elem - 1)'
        BY <2>2
      <3>1. SortedTo(prevName)'
        BY <1>1, <2>1, <2>2 DEF SortedTo, NameOf
      <3> QED
        BY <1>1, <2>1, <2>2, <3>1
    <2> QED
      BY <1>3, <2>1, <2>2, <2>3, <2>4, <2>5, <2>6, <2>7
         DEF PhaseInv, Ordering, LookingUp, InObject
  <1>6. CASE ~(m < count)
    <2>1. NextObject /\ UNCHANGED <<json, text, field>>
      BY <1>6 DEF NextMember, scanVars
    <2>2. ASSUME IsJson(json) PROVE InOrder(obj)
      <3> DEFINE S == Members(json, obj)
                 v == result.value
      <3>1. S \in SUBSET Nat /\ IsFiniteSet(S) /\ v \in S
        BY <1>2, <1>3, <2>2, ObjectAt, MembersOf
      <3>2. Place(S, v) + 1 >= Cardinality(S)
        <4>1. Place(S, v) = m - 1 /\ Cardinality(S) = count
          BY <1>4, <2>2
        <4> HIDE DEF S, v
        <4> QED
          BY <1>2, <1>6, <4>1
      <3>3. \A i \in S : i <= v
        <4> HIDE DEF S, v
        <4> QED
          BY <3>1, <3>2, LastPlace
      <3> QED
        BY <2>2, <3>3 DEF InOrder, SortedTo
    <2> QED
      BY <2>1, <2>2, ObjectDone DEF Ordering
  <1> QED
    BY <1>5, <1>6

LEMMA RejectKeepsPhase ==
    ASSUME NEW e, Reject(e), UNCHANGED <<obj, field>>
    PROVE  PhaseInv'
  BY DEF Reject, PhaseInv, Ordering, LookingUp, InObject

LEMMA FirstNameKeepsPhase ==
    ASSUME Known, FirstName
    PROVE  PhaseInv'
  <1>1. phase = "first" /\ call = Idle /\ UNCHANGED <<text, count, field>>
    BY DEF FirstName
  <1>2. ScanTypeOK /\ ScanIsExact /\ count \in Nat
    BY DEF Known, ValidateBase
  <1>3. obj \in Objects /\ Called("object_get_nth_key", obj, 0, "")
    BY <1>1 DEF Known, PhaseInv, InObject
  <1>0. 1 < count /\ count \in Nat
    BY <1>1 DEF Known, PhaseInv, ValidateBase
  <1>4. CASE NextMember(1)
    <2>1. ASSUME IsJson(json)
          PROVE  /\ result.value \in Members(json, obj) /\ SortedTo(result.value)
                 /\ Place(Members(json, obj), result.value) = 1 - 1
      <3> DEFINE S == Members(json, obj)
      <3>1. Cardinality(S) = count
        BY <1>1, <2>1 DEF Known, PhaseInv
      <3>2. 0 < Cardinality(S)
        BY <1>0, <3>1
      <3>3. result.value \in S /\ Place(S, result.value) = 0
        BY <1>1, <1>2, <1>3, <2>1, <3>2, KeyReturned
      <3>4. S \in SUBSET Nat /\ IsFiniteSet(S)
        BY <1>2, <1>3, ObjectAt, MembersOf
      <3>5. \A i \in S : result.value <= i
        BY <3>3, <3>4, FirstPlace
      <3>6. \A i, j \in S : i < j => ~(j <= result.value)
        BY <3>3, <3>4, <3>5
      <3> QED
        BY <3>3, <3>6 DEF SortedTo
    <2>2. 1 <= count
      BY <1>0
    <2> QED
      BY <1>1, <1>4, <2>1, <2>2, MemberDone
  <1>5. CASE Reject("parser_unexpected_value") /\ UNCHANGED <<obj, field>>
    BY <1>5, RejectKeepsPhase
  <1> QED
    BY <1>4, <1>5 DEF FirstName

\* The name read is the one after the last.
LEMMA NextNameReturned ==
    ASSUME Known, phase = "next", call = Idle, IsJson(json)
    PROVE  LET S == Members(json, obj)
               v == result.value
           IN  /\ S \in SUBSET Nat /\ IsFiniteSet(S)
               /\ result.err = "parser_ok" /\ v \in S /\ prevName \in S
               /\ Place(S, v) = elem
               /\ prevName < v /\ \A i \in S : i < v => i <= prevName
  <1> DEFINE S == Members(json, obj)
             v == result.value
  <1>1. ScanTypeOK /\ ScanIsExact /\ elem \in Nat
    BY DEF Known, ValidateBase
  <1>2. obj \in Objects /\ Called("object_get_nth_key", obj, elem, "")
    BY DEF Known, PhaseInv, InObject
  <1>3. prevName \in S /\ Place(S, prevName) = elem - 1
    BY DEF Known, PhaseInv
  <1>4. elem < Cardinality(S)
    BY DEF Known, PhaseInv
  <1>5. result.err = "parser_ok" /\ v \in S /\ Place(S, v) = elem
    BY <1>1, <1>2, <1>4, KeyReturned
  <1>6. S \in SUBSET Nat /\ IsFiniteSet(S)
    BY <1>1, <1>2, ObjectAt, MembersOf
  <1>7. Place(S, v) = Place(S, prevName) + 1
    BY <1>1, <1>3, <1>5
  <1>8. prevName < v /\ \A i \in S : i < v => i <= prevName
    <2> HIDE DEF S, v
    <2> QED
      BY <1>3, <1>5, <1>6, <1>7, NextPlace
  <1> QED
    BY <1>3, <1>5, <1>6, <1>8

\* What the comparison of two names says.
LEMMA OrderMeans ==
    ASSUME ScanTypeOK, NEW o \in Nat, NEW i \in Members(json, o), NEW j \in Members(json, o)
    PROVE  /\ is_sorted(i, j) \in {-1, 0, 1}
           /\ is_sorted(i, j) = 1 => Rank[NameOf(i)] < Rank[NameOf(j)]
           /\ is_sorted(i, j) = -1 => NameOf(i) = NameOf(j)
           /\ is_sorted(i, j) = 0 =>
                \/ NameOf(i) \in TooLong \/ NameOf(j) \in TooLong
                \/ ~(Rank[NameOf(i)] < Rank[NameOf(j)])
  <1>1. /\ NameOf(i) \in Strings /\ NameOf(j) \in Strings
        /\ Rank[NameOf(i)] \in Nat /\ Rank[NameOf(j)] \in Nat
        /\ token(i).text = NameOf(i) /\ token(j).text = NameOf(j)
    BY MembersOf
  <1> DEFINE a == NameOf(i)
             b == NameOf(j)
  <1>2. is_sorted(i, j) = CASE a \in TooLong \/ b \in TooLong -> 0
                            [] Rank[a] < Rank[b] -> 1
                            [] Rank[a] = Rank[b] -> -1
                            [] OTHER -> 0
    BY <1>1 DEF is_sorted
  <1>3. Rank[a] = Rank[b] => a = b
    BY <1>1, InputsAssumption
  <1> HIDE DEF a, b
  <1>4. CASE a \in TooLong \/ b \in TooLong
    BY <1>1, <1>2, <1>3, <1>4 DEF a, b
  <1>5. CASE ~(a \in TooLong \/ b \in TooLong)
    BY <1>1, <1>2, <1>3, <1>5 DEF a, b
  <1> QED
    BY <1>4, <1>5

LEMMA NextNameKeepsPhase ==
    ASSUME Known, NextName
    PROVE  PhaseInv'
  <1>1. phase = "next" /\ call = Idle /\ UNCHANGED <<text, count, field>>
    BY DEF NextName
  <1>2. elem \in Nat /\ count \in Nat /\ elem < count
    BY <1>1 DEF Known, ValidateBase, PhaseInv
  <1>3. ScanTypeOK
    BY DEF Known, ValidateBase
  <1>4. CASE NextMember(elem + 1) /\ is_sorted(prevName, result.value) = 1
    <2> DEFINE S == Members(json, obj)
               v == result.value
    <2>1. ASSUME IsJson(json) PROVE v \in S /\ SortedTo(v) /\ Place(S, v) = elem
      <3>1. /\ S \in SUBSET Nat /\ v \in S /\ prevName \in S /\ Place(S, v) = elem
            /\ \A i \in S : i < v => i <= prevName
        BY <1>1, <2>1, NextNameReturned
      <3>2. SortedTo(prevName)
        BY <1>1, <2>1 DEF Known, PhaseInv
      <3>3. obj \in Nat
        BY Calling, Zenon DEF Known
      <3>4. Rank[NameOf(prevName)] < Rank[NameOf(v)]
        BY <1>3, <1>4, <3>1, <3>3, OrderMeans
      <3>5. \A i \in S : Rank[NameOf(i)] \in Nat
        BY <1>3, <3>3, MembersOf
      <3>6. ASSUME NEW i \in S, NEW j \in S, i < j, j <= v
            PROVE  Rank[NameOf(i)] < Rank[NameOf(j)]
        <4>0. i \in Nat /\ j \in Nat /\ v \in Nat /\ prevName \in Nat
          BY <3>1
        <4>1. CASE j < v
          <5>1. j <= prevName
            BY <3>1, <4>1
          <5> QED
            BY <3>2, <3>6, <5>1 DEF SortedTo
        <4>2. CASE j = v
          <5>1. i <= prevName
            BY <3>1, <3>6, <4>2
          <5>2. CASE i = prevName
            BY <3>4, <4>2, <5>2
          <5>3. CASE i < prevName
            <6>1. Rank[NameOf(i)] < Rank[NameOf(prevName)]
              BY <3>1, <3>2, <4>0, <5>3 DEF SortedTo
            <6>2. /\ Rank[NameOf(i)] \in Nat /\ Rank[NameOf(prevName)] \in Nat
                  /\ Rank[NameOf(v)] \in Nat
              BY <3>1, <3>5
            <6> QED
              BY <3>4, <4>2, <6>1, <6>2
          <5> QED
            BY <4>0, <5>1, <5>2, <5>3
        <4> QED
          BY <3>6, <4>0, <4>1, <4>2
      <3> QED
        BY <3>1, <3>6 DEF SortedTo
    <2>2. PICK m \in Nat : m = elem + 1
      BY <1>2
    <2>3. 1 <= m /\ m <= count /\ elem = m - 1
      BY <1>2, <2>2
    <2>4. NextMember(m)
      BY <1>4, <2>2
    <2> QED
      BY <1>1, <2>1, <2>3, <2>4, MemberDone
  <1>5. CASE (\E e : Reject(e)) /\ UNCHANGED <<obj, field>>
    BY <1>5, RejectKeepsPhase
  <1> QED
    BY <1>1, <1>4, <1>5 DEF NextName

LEMMA NoMoreObjectsKeepsPhase ==
    ASSUME Known, NoMoreObjects
    PROVE  PhaseInv'
  <1>1. /\ phase = "object" /\ phase' = "field" /\ obj = json.numberOfTokens
        /\ UNCHANGED <<json, text, field>>
    BY DEF NoMoreObjects, GoOn, scanVars
  <1>2. /\ SortedBefore(json.numberOfTokens) /\ WholeText /\ ~contains_whitespace
        /\ json.numberOfTokens > 0 /\ field = 1
    BY <1>1 DEF Known, PhaseInv, Ordering
  <1>3. (/\ SortedBefore(json.numberOfTokens) /\ WholeText /\ ~contains_whitespace)'
    BY <1>1, <1>2, Unmoved DEF SortedBefore
  <1>4. FoundBefore(field)'
    BY <1>1, <1>2 DEF FoundBefore, required
  <1> QED
    BY <1>1, <1>2, <1>3, <1>4 DEF PhaseInv, Ordering, LookingUp, InObject

LEMMA LookUpKeepsPhase ==
    ASSUME Known, LookUp
    PROVE  PhaseInv'
  <1>1. /\ phase = "field" /\ phase' = "lookup" /\ UNCHANGED <<text, field>>
        /\ Call("object_get_value", 0, 0, required[field])
    BY DEF LookUp, GoOn
  <1>2. json' = json
    BY <1>1 DEF Call
  <1>3. /\ SortedBefore(json.numberOfTokens) /\ WholeText /\ ~contains_whitespace
        /\ json.numberOfTokens > 0 /\ FoundBefore(field)
    BY <1>1 DEF Known, PhaseInv, LookingUp
  <1>4. (/\ SortedBefore(json.numberOfTokens) /\ WholeText /\ ~contains_whitespace
         /\ FoundBefore(field))'
    BY <1>1, <1>2, <1>3, Unmoved DEF SortedBefore, FoundBefore
  <1>5. Called("object_get_value", 0, 0, required[field])'
    <2>1. PICK k : k = required[field]
      OBVIOUS
    <2>2. Called("object_get_value", 0, 0, k)'
      BY <1>1, <2>1, CalledByCall
    <2> QED
      BY <1>1, <2>1, <2>2 DEF Called
  <1>6. (call # Idle \/ result.err = "parser_ok" => 0 \in Objects)'
    <2> DEFINE c == [fn |-> "object_get_value", at |-> 0, nth |-> 0, key |-> required[field]]
    <2>1. CASE ~Refused(c)
      <3>1. token(0).type = "JSMN_OBJECT"
        BY <2>1 DEF Refused
      <3>2. token(0) = json.tokens[0] /\ 0 \in DOMAIN json.tokens
        <4>1. json \in TokenLists /\ ScanTypeOK
          BY DEF Known, ValidateBase, ScanTypeOK
        <4> QED
          BY <1>3, <4>1, TokenIs, ListShape
      <3>3. 0 \in Objects
        BY <3>1, <3>2 DEF Objects
      <3> QED
        BY <1>1, <1>2, <3>3, Unmoved
    <2>2. CASE Refused(c)
      BY <1>1, <2>2 DEF Call
    <2> QED
      BY <2>1, <2>2
  <1> QED
    BY <1>1, <1>2, <1>3, <1>4, <1>5, <1>6 DEF PhaseInv, Ordering, LookingUp, InObject

\* The member looked up is there exactly if the walker found it.
LEMMA LookedUpMember ==
    ASSUME Known, phase = "lookup", call = Idle, IsJson(json)
    PROVE  result.err = "parser_ok" <=> Has(required[field])
  <1>1. ScanTypeOK /\ ScanIsExact /\ required[field] \in Strings
    BY Calling, Zenon DEF Known, ValidateBase
  <1>2. /\ Called("object_get_value", 0, 0, required[field])
        /\ result.err = "parser_ok" => 0 \in Objects
    BY DEF Known, PhaseInv
  <1> QED
    BY <1>1, <1>2, ValueReturned

LEMMA LookedUpKeepsPhase ==
    ASSUME Known, LookedUp
    PROVE  PhaseInv'
  <1>1. /\ phase = "lookup" /\ call = Idle /\ UNCHANGED <<json, text, obj>>
    BY DEF LookedUp, scanVars
  <1>2. /\ SortedBefore(json.numberOfTokens) /\ WholeText /\ ~contains_whitespace
        /\ json.numberOfTokens > 0 /\ FoundBefore(field)
    BY <1>1 DEF Known, PhaseInv, LookingUp
  <1>3. (/\ SortedBefore(json.numberOfTokens) /\ WholeText /\ ~contains_whitespace)'
    BY <1>1, <1>2, Unmoved DEF SortedBefore
  <1>4. CASE result.err = "parser_ok"
    <2>1. FoundBefore(field + 1)
      <3> SUFFICES ASSUME IsJson(json), NEW k \in DOMAIN required, k < field + 1
                   PROVE  Has(required[k])
        BY DEF FoundBefore
      <3>1. field \in DOMAIN required
        BY DEF Known, ValidateBase
      <3>2. k < field \/ k = field
        BY <3>1 DEF required
      <3>3. Has(required[field])
        BY <1>1, <1>4, LookedUpMember
      <3> QED
        BY <1>2, <3>2, <3>3 DEF FoundBefore
    <2>2. PICK f : f = field + 1
      OBVIOUS
    <2>3. FoundBefore(f)'
      BY <1>1, <2>1, <2>2, UnmovedParts
    <2>4. CASE field < Len(required)
      <3>1. phase' = "field" /\ field' = f
        BY <1>4, <2>2, <2>4 DEF LookedUp, GoOn
      <3>2. FoundBefore(field)'
        BY <2>3, <3>1 DEF FoundBefore
      <3> QED
        BY <1>1, <1>2, <1>3, <3>1, <3>2 DEF PhaseInv, Ordering, LookingUp, InObject
    <2>5. CASE ~(field < Len(required))
      <3>1. phase' = "accepted"
        BY <1>4, <2>5 DEF LookedUp, GoOn
      <3>2. f = Len(required) + 1
        BY <2>2, <2>5 DEF Known, ValidateBase, required
      <3>3. FoundBefore(Len(required) + 1)'
        BY <2>3, <3>2 DEF FoundBefore
      <3> QED
        BY <1>1, <1>2, <1>3, <3>1, <3>3 DEF PhaseInv, Ordering, LookingUp, InObject
    <2> QED
      BY <2>4, <2>5
  <1>5. CASE result.err # "parser_ok"
    <2>1. (\E e : Reject(e)) /\ UNCHANGED <<obj, field>>
      BY <1>1, <1>5 DEF LookedUp
    <2> QED
      BY <2>1, RejectKeepsPhase
  <1> QED
    BY <1>4, <1>5

\* A step of a walker, and one that leaves the validation alone.
\* While a walker runs, and while nothing happens.
LEMMA PhaseUnmoved ==
    ASSUME PhaseInv, UNCHANGED <<json, text, phase, obj, elem, count, prevName, field>>,
           \A f, i, n, k : Called(f, i, n, k) => Called(f, i, n, k)',
           call' # Idle \/ result'.err = "parser_ok" => call # Idle \/ result.err = "parser_ok"
    PROVE  PhaseInv'
  <1>1. UNCHANGED <<text, phase, obj, elem, count, prevName, field>> /\ json' = json
    OBVIOUS
  <1>2. \A f, i, n, k : Called(f, i, n, k) => Called(f, i, n, k)'
    OBVIOUS
  <1>3. /\ phase \in Ordering => SortedBefore(obj)'
        /\ phase \in LookingUp \cup {"accepted"} => SortedBefore(json.numberOfTokens)'
        /\ phase \in Ordering \cup LookingUp \cup {"accepted"} => (WholeText /\ ~contains_whitespace)'
        /\ phase \in InObject => (obj \in Objects)'
    BY <1>1, Unmoved DEF PhaseInv, SortedBefore
  <1>4. /\ phase = "count" => Called("object_get_element_count", obj, 0, "")'
        /\ phase = "first" => Called("object_get_nth_key", obj, 0, "")'
        /\ phase = "next" => Called("object_get_nth_key", obj, elem, "")'
        /\ phase = "lookup" => Called("object_get_value", 0, 0, required[field])'
    <2>1. PICK o, m, r : o = obj /\ m = elem /\ r = required[field]
      OBVIOUS
    <2>2. /\ phase = "count" => Called("object_get_element_count", o, 0, "")'
          /\ phase = "first" => Called("object_get_nth_key", o, 0, "")'
          /\ phase = "next" => Called("object_get_nth_key", o, m, "")'
          /\ phase = "lookup" => Called("object_get_value", 0, 0, r)'
      BY <1>2, <2>1 DEF PhaseInv
    <2> QED
      BY <1>1, <2>1, <2>2 DEF Called
  <1>5. /\ phase \in LookingUp => FoundBefore(field)'
        /\ phase = "accepted" => FoundBefore(Len(required) + 1)'
    BY <1>1, Unmoved DEF PhaseInv, FoundBefore
  <1>6. phase = "next" /\ SortedTo(prevName) => SortedTo(prevName)'
    BY <1>1 DEF SortedTo, NameOf
  <1>7. phase = "lookup" => (call # Idle \/ result.err = "parser_ok" => 0 \in Objects)'
    BY <1>1, Unmoved DEF PhaseInv
  <1>8. (phase = "next" /\ IsJson(json) =>
            /\ prevName \in Members(json, obj) /\ SortedTo(prevName)
            /\ Place(Members(json, obj), prevName) = elem - 1)'
    BY <1>1, <1>6 DEF PhaseInv
  <1>9. (/\ phase \in {"parse", "text"} => obj = 0
         /\ phase \in {"parse", "text"} \cup Ordering => field = 1
         /\ phase \in {"text"} \cup Ordering \cup LookingUp \cup {"accepted"} =>
                json.numberOfTokens > 0
         /\ phase \in {"first", "next"} /\ IsJson(json) => count = Cardinality(Members(json, obj)))'
    BY <1>1 DEF PhaseInv, Ordering, LookingUp
  <1>10. (/\ phase = "first" => count > 1
          /\ phase = "next" => elem >= 1 /\ elem < count)'
    BY <1>1 DEF PhaseInv
  <1> QED
    BY <1>1, <1>3, <1>4, <1>5, <1>7, <1>8, <1>9, <1>10
       DEF PhaseInv, Ordering, LookingUp, InObject

LEMMA WalkerKeepsPhase ==
    ASSUME Known, ScanStep, UNCHANGED validateVars
    PROVE  PhaseInv'
  <1>1. /\ UNCHANGED <<json, text, phase, obj, elem, count, prevName, field>> /\ call # Idle
    BY ScanStepBounds DEF Known, ValidateBase, validateVars, ScanStep, Finish, Skip, Take, Found
  <1>2. \A f, i, n, k : Called(f, i, n, k) => Called(f, i, n, k)'
    BY CalledByStep
  <1> QED
    BY <1>1, <1>2, PhaseUnmoved DEF Known

\* Every step of the validation keeps what is known.
LEMMA PhaseStep ==
    ASSUME Known, ValidateNext
    PROVE  PhaseInv'
  BY ReadingKeepsPhase, CheckTextKeepsPhase, NoMoreObjectsKeepsPhase, VisitTokenKeepsPhase,
     CountMembersKeepsPhase, FirstNameKeepsPhase, NextNameKeepsPhase, LookUpKeepsPhase,
     LookedUpKeepsPhase, WalkerKeepsPhase DEF ValidateNext

----------------------------------------------------------------------------
(* What validation promises                                                *)

\* Whitespace that no loop looks at is right after a token or inside it,
\* before the next one starts.
LEMMA SpacesUnseen ==
    ASSUME ValidateBase, json.numberOfTokens > 1, ~contains_whitespace,
           json.tokens[0].start = 0, json.tokens[0].end = Len(text)
    PROVE  Spaces \subseteq Unseen
  <1> SUFFICES ASSUME NEW p \in Spaces PROVE p \in Unseen
    OBVIOUS
  <1> DEFINE n == json.numberOfTokens
             Past(i) == IF i = 0 THEN 0 ELSE json.tokens[i].end + 1
             Started == {i \in 0 .. n - 1 : json.tokens[i].start <= p}
  <1>1. n \in Nat /\ n > 1 /\ json \in TokenLists
    BY ListShape DEF ValidateBase, ScanTypeOK
  <1>2. Len(text) \in Nat
    BY InputsAssumption DEF ValidateBase
  <1>3. p \in Nat /\ p < Len(text) /\ buffer(text, p) = Space
    BY <1>2 DEF Spaces
  <1>4. \A i \in 0 .. n - 1 : json.tokens[i].start \in Nat /\ json.tokens[i].end \in Nat
    BY <1>1, ListShape
  <1>5. p \notin Inspected
    BY <1>3 DEF contains_whitespace
  <1>6. /\ \A i \in 1 .. n - 1 : p \notin Past(i - 1) .. json.tokens[i].start - 1
        /\ p \notin Past(n - 1) .. json.tokens[0].end - 1
    BY <1>5 DEF Inspected
  <1>7. PICK i \in Started : \A j \in Started : j <= i
    <2>1. Started \in SUBSET Nat /\ 0 \in Started
      BY <1>1, <1>3
    <2>2. IsFiniteSet(Started)
      <3>1. IsFiniteSet(0 .. n - 1)
        BY <1>1, FS_Interval
      <3>2. Started \subseteq 0 .. n - 1
        OBVIOUS
      <3> HIDE DEF Started
      <3> QED
        BY <3>1, <3>2, FS_Subset
    <2> HIDE DEF Started
    <2> QED
      BY <2>1, <2>2, Greatest
  <1>8. i \in 0 .. n - 1 /\ json.tokens[i].start <= p
    OBVIOUS
  <1>9. \A j \in i + 1 .. n - 1 : json.tokens[j].start > p
    <2> SUFFICES ASSUME NEW j \in i + 1 .. n - 1, ~(json.tokens[j].start > p) PROVE FALSE
      OBVIOUS
    <2>1. j \in 0 .. n - 1 /\ ~(j <= i)
      BY <1>1, <1>8
    <2>2. json.tokens[j].start <= p
      BY <1>3, <1>4, <2>1
    <2> QED
      BY <1>7, <2>1, <2>2
  <1>10. ASSUME Past(i) <= p PROVE FALSE
    <2>1. Past(i) \in Nat
      BY <1>4, <1>8
    <2>2. CASE i = n - 1
      <3>1. p \in Past(n - 1) .. json.tokens[0].end - 1
        BY <1>1, <1>2, <1>3, <1>10, <2>1, <2>2
      <3> QED
        BY <1>6, <3>1
    <2>3. CASE i # n - 1
      <3>1. i + 1 \in 1 .. n - 1 /\ (i + 1) - 1 = i /\ i + 1 \in i + 1 .. n - 1
            /\ i + 1 \in 0 .. n - 1
        BY <1>1, <1>8, <2>3
      <3>2. json.tokens[i + 1].start > p /\ json.tokens[i + 1].start \in Nat
        BY <1>4, <1>9, <3>1
      <3>3. p \in Past(i) .. json.tokens[i + 1].start - 1
        BY <1>3, <1>10, <2>1, <3>2
      <3>4. p \notin Past((i + 1) - 1) .. json.tokens[i + 1].start - 1
        BY <1>6, <3>1
      <3> HIDE DEF Past
      <3> QED
        BY <3>1, <3>3, <3>4
    <2> QED
      BY <2>2, <2>3
  <1>11. i # 0 /\ p <= json.tokens[i].end
    BY <1>3, <1>4, <1>8, <1>10
  <1>12. i \in 1 .. n - 1 /\ p \in json.tokens[i].start .. json.tokens[i].end
         /\ p \in 0 .. Len(text) - 1
    BY <1>1, <1>2, <1>3, <1>4, <1>8, <1>11
  <1> QED
    BY <1>9, <1>12 DEF Unseen

LEMMA AcceptedByPhase ==
    ASSUME Known
    PROVE  AcceptedIsValid
  <1> SUFFICES ASSUME phase = "accepted", IsJson(json)
               PROVE  /\ 0 \in Objects /\ json.tokens[0].start = 0
                      /\ json.tokens[0].end = Len(text)
                      /\ \A c \in Objects : InOrder(c)
                      /\ Complete /\ Spaces \subseteq Unseen
    BY DEF AcceptedIsValid
  <1>1. /\ WholeText /\ ~contains_whitespace /\ SortedBefore(json.numberOfTokens)
        /\ FoundBefore(Len(required) + 1)
    BY DEF Known, PhaseInv
  <1>2. ValidateBase /\ ScanTypeOK
    BY DEF Known, ValidateBase
  <1>3. Complete
    BY <1>1 DEF FoundBefore, Complete, required
  <1>4. Has(required[1])
    BY <1>3 DEF Complete, required
  <1>5. 0 \in Objects /\ json.tokens[0].type = "JSMN_OBJECT"
    BY <1>4 DEF Has, Objects
  <1>6. json.tokens[0].start = 0 /\ json.tokens[0].end = Len(text)
    BY <1>1, <1>5 DEF WholeText
  <1>7. \A c \in Objects : InOrder(c)
    BY <1>1, <1>2, ObjectAt DEF SortedBefore
  <1>8. json.numberOfTokens > 1
    <2>1. PICK i \in Members(json, 0) : NameOf(i) = required[1]
      BY <1>4 DEF Has, Names
    <2>2. json \in TokenLists /\ json.numberOfTokens \in Nat
      BY <1>2, ListShape DEF ScanTypeOK
    <2>3. i \in 0 + 1 .. json.numberOfTokens - 1
      BY <2>2, ElementsFinite
    <2> QED
      BY <2>2, <2>3
  <1>9. Spaces \subseteq Unseen
    BY <1>1, <1>2, <1>6, <1>8, SpacesUnseen
  <1> QED
    BY <1>3, <1>5, <1>6, <1>7, <1>9

\* The whitespace a loop finds is not in a string, unless the text is one.
LEMMA SpacesSeen ==
    ASSUME ValidateBase, json.numberOfTokens > 0, Nested(json), contains_whitespace,
           json.tokens[0].type # "JSMN_STRING"
    PROVE  Spaces # {}
  <1> DEFINE n == json.numberOfTokens
             Past(i) == IF i = 0 THEN 0 ELSE json.tokens[i].end + 1
  <1>1. n \in Nat /\ n > 0 /\ json \in TokenLists /\ DOMAIN json.tokens = 0 .. n - 1
    BY ListShape DEF ValidateBase, ScanTypeOK
  <1>2. Len(text) \in Nat
    BY InputsAssumption DEF ValidateBase
  <1>3. PICK p \in Inspected : p < Len(text) /\ buffer(text, p) = Space
    BY DEF contains_whitespace
  <1>4. \A i \in 0 .. n - 1 : json.tokens[i].start \in Nat /\ json.tokens[i].end \in Nat
    BY <1>1, ListShape
  <1>5. \A i \in 0 .. n - 1 : Past(i) \in Nat
    BY <1>1, <1>4
  <1>6. \/ \E i \in 1 .. n - 1 : p \in Past(i - 1) .. json.tokens[i].start - 1
        \/ p \in Past(n - 1) .. json.tokens[0].end - 1
    BY <1>3 DEF Inspected
  \* The token after which p is.
  <1>7. \E k \in 0 .. n - 1 :
            /\ p \in Nat /\ p >= Past(k)
            /\ \A j \in k + 1 .. n - 1 : p < json.tokens[j].start
    <2>1. ASSUME NEW i \in 1 .. n - 1, p \in Past(i - 1) .. json.tokens[i].start - 1
          PROVE  /\ i - 1 \in 0 .. n - 1
                 /\ p \in Nat /\ p >= Past(i - 1)
                 /\ \A j \in (i - 1) + 1 .. n - 1 : p < json.tokens[j].start
      <3>1. i - 1 \in 0 .. n - 1 /\ i \in 0 .. n - 1 /\ i \in DOMAIN json.tokens /\ i \in Nat
        BY <1>1
      <3>2. Past(i - 1) \in Nat /\ json.tokens[i].start \in Nat
        BY <1>4, <1>5, <3>1
      <3>3. p \in Nat /\ p >= Past(i - 1) /\ p < json.tokens[i].start
        <4> HIDE DEF Past
        <4> QED
          BY <2>1, <3>2
      <3>4. ASSUME NEW j \in (i - 1) + 1 .. n - 1 PROVE p < json.tokens[j].start
        <4>1. CASE j = i
          BY <3>3, <4>1
        <4>2. CASE j # i
          <5>1. j \in i + 1 .. n - 1 /\ j \in 0 .. n - 1
            BY <1>1, <3>1, <4>2
          <5>2. json.tokens[i].start < json.tokens[j].start
            BY <3>1, <5>1 DEF Nested
          <5>3. json.tokens[j].start \in Nat
            BY <1>4, <5>1
          <5> QED
            BY <3>2, <3>3, <5>2, <5>3
        <4> QED
          BY <4>1, <4>2
      <3> HIDE DEF Past
      <3> QED
        BY <3>1, <3>3, <3>4
    <2>2. ASSUME p \in Past(n - 1) .. json.tokens[0].end - 1
          PROVE  /\ n - 1 \in 0 .. n - 1 /\ p \in Nat /\ p >= Past(n - 1)
                 /\ \A j \in (n - 1) + 1 .. n - 1 : p < json.tokens[j].start
      <3>1. n - 1 \in 0 .. n - 1 /\ 0 \in 0 .. n - 1
        BY <1>1
      <3>2. Past(n - 1) \in Nat /\ json.tokens[0].end \in Nat
        BY <1>4, <1>5, <3>1
      <3>3. (n - 1) + 1 .. n - 1 = {}
        BY <1>1
      <3> HIDE DEF Past
      <3> QED
        BY <2>2, <3>1, <3>2, <3>3
    <2> HIDE DEF Past
    <2> QED
      BY <1>6, <2>1, <2>2
  <1>8. PICK k \in 0 .. n - 1 :
            /\ p \in Nat /\ p >= Past(k)
            /\ \A j \in k + 1 .. n - 1 : p < json.tokens[j].start
    BY <1>7
  <1>9. ASSUME NEW s \in 0 .. n - 1, json.tokens[s].type = "JSMN_STRING"
        PROVE  p \notin json.tokens[s].start .. json.tokens[s].end - 1
    <2>1. json.tokens[s].start \in Nat /\ json.tokens[s].end \in Nat /\ s # 0
      BY <1>4, <1>9
    <2>2. CASE s > k
      <3>1. s \in k + 1 .. n - 1
        BY <1>1, <2>2
      <3>2. p < json.tokens[s].start
        BY <1>8, <3>1
      <3> QED
        BY <1>8, <2>1, <3>2
    <2>3. CASE s = k
      <3>1. Past(k) = json.tokens[s].end + 1
        BY <2>1, <2>3
      <3> QED
        BY <1>8, <2>1, <3>1
    <2>4. CASE s < k
      <3>1. k # 0 /\ s \in DOMAIN json.tokens /\ k \in DOMAIN json.tokens
        BY <1>1, <2>4
      <3>2. json.tokens[s].end <= json.tokens[k].start
        BY <1>9, <2>4, <3>1 DEF ValidateBase, LeavesApart, Leaf
      <3>3. json.tokens[k].start <= json.tokens[k].end
        BY <3>1 DEF Nested
      <3>4. Past(k) = json.tokens[k].end + 1
        BY <3>1
      <3>5. json.tokens[k].start \in Nat /\ json.tokens[k].end \in Nat
        BY <1>4
      <3> QED
        BY <1>8, <2>1, <3>2, <3>3, <3>4, <3>5
    <2> QED
      BY <1>1, <2>2, <2>3, <2>4
  <1>10. ~InString(p)
    BY <1>1, <1>9 DEF InString
  <1>11. p \in 0 .. Len(text) - 1
    BY <1>2, <1>3, <1>8
  <1> QED
    BY <1>3, <1>10, <1>11 DEF Spaces

\* The cause that an error names.
Cause(e) ==
    CASE e = "parser_unexpected_characters" ->
            json.tokens[0].end < Len(text) \/ json.tokens[0].start > 0
      [] e = "parser_json_contains_whitespace" ->
            Spaces # {} \/ json.tokens[0].type = "JSMN_STRING"
      [] e = "parser_duplicated_field" ->
            \E c \in Objects : \E i, j \in Members(json, c) : i # j /\ NameOf(i) = NameOf(j)
      [] e = "parser_json_is_not_sorted" ->
            \E c \in Objects : ~InOrder(c) \/ Names(c) \cap TooLong # {}
      [] OTHER -> \E k \in DOMAIN required : e = missing[k] /\ ~Has(required[k])

LEMMA CauseUnmoved ==
    ASSUME UNCHANGED <<json, text>>, NEW e, Cause(e)
    PROVE  Cause(e)'
  <1>1. CASE e = "parser_unexpected_characters"
    BY <1>1 DEF Cause
  <1>2. CASE e = "parser_json_contains_whitespace"
    BY <1>2, Unmoved DEF Cause
  <1>3. CASE e = "parser_duplicated_field"
    BY <1>3, Unmoved DEF Cause
  <1>4. CASE e = "parser_json_is_not_sorted"
    BY <1>4, Unmoved DEF Cause
  <1>5. CASE e \notin {"parser_unexpected_characters", "parser_json_contains_whitespace",
                       "parser_duplicated_field", "parser_json_is_not_sorted"}
    <2>1. \E k \in DOMAIN required : e = missing[k] /\ ~Has(required[k])
      BY <1>5 DEF Cause
    <2>2. \E k \in DOMAIN required : e = missing[k] /\ ~Has(required[k])'
      BY <2>1, Unmoved
    <2> QED
      BY <1>5, <2>2 DEF Cause
  <1> QED
    BY <1>1, <1>2, <1>3, <1>4, <1>5

\* A JSON text rejected with an error has the cause that it names.
LEMMA RejectedBy ==
    ASSUME NEW e, Reject(e), UNCHANGED <<json, text>>,
           json.numberOfTokens > 0 /\ IsJson(json) => Cause(e)
    PROVE  RejectedWithCause'
  <1>1. phase' = "rejected" /\ err' = e
    BY DEF Reject
  <1>2. json.numberOfTokens > 0 /\ IsJson(json) => Cause(e)'
    BY CauseUnmoved
  <1>3. (json.numberOfTokens > 0 /\ IsJson(json) => Cause(err))'
    BY <1>1, <1>2 DEF Cause
  <1> QED
    BY <1>3 DEF RejectedWithCause, Cause

LEMMA CheckTextRejects ==
    ASSUME Known, CheckText
    PROVE  RejectedWithCause'
  <1>1. UNCHANGED <<json, text>> /\ phase = "text"
    BY DEF CheckText, scanVars
  <1>2. ValidateBase /\ json.numberOfTokens > 0
    BY <1>1 DEF Known, PhaseInv
  <1>3. CASE ~WholeText
    <2>1. Reject("parser_unexpected_characters")
      BY <1>3 DEF CheckText
    <2>2. json.tokens[0].end < Len(text) \/ json.tokens[0].start > 0
      <3>1. json \in TokenLists
        BY <1>2 DEF ValidateBase, ScanTypeOK
      <3>2. 0 \in DOMAIN json.tokens /\ 0 \in 0 .. json.numberOfTokens - 1
        BY <1>2, <3>1, ListShape
      <3>3. json.tokens[0].start \in Nat /\ json.tokens[0].end \in Nat
        BY <3>1, <3>2, ListShape
      <3>4. json.tokens[0].end <= Len(text) /\ Len(text) \in Nat
        BY <1>2, <3>2, InputsAssumption DEF ValidateBase
      <3> QED
        BY <1>3, <3>3, <3>4 DEF WholeText
    <2>3. Cause("parser_unexpected_characters")
      BY <2>2 DEF Cause
    <2> QED
      BY <1>1, <2>1, <2>3, RejectedBy
  <1>4. CASE WholeText /\ contains_whitespace
    <2>1. Reject("parser_json_contains_whitespace")
      BY <1>4 DEF CheckText
    <2>2. IsJson(json) => Cause("parser_json_contains_whitespace")
      BY <1>2, <1>4, SpacesSeen DEF IsJson, Cause
    <2> QED
      BY <1>1, <2>1, <2>2, RejectedBy
  <1>5. CASE WholeText /\ ~contains_whitespace
    <2>1. phase' = "object"
      BY <1>5 DEF CheckText, GoOn
    <2> QED
      BY <2>1 DEF RejectedWithCause
  <1> QED
    BY <1>3, <1>4, <1>5

LEMMA FirstNameRejects ==
    ASSUME Known, FirstName
    PROVE  RejectedWithCause'
  <1>1. phase = "first" /\ call = Idle /\ UNCHANGED text
    BY DEF FirstName
  <1>2. CASE result.err = "parser_ok"
    <2>1. phase' # "rejected"
      BY <1>2 DEF FirstName, NextMember, NextObject, GoOn
    <2> QED
      BY <2>1 DEF RejectedWithCause
  <1>3. CASE result.err # "parser_ok"
    <2>1. Reject("parser_unexpected_value") /\ UNCHANGED <<json, text>>
      BY <1>1, <1>3 DEF FirstName, scanVars
    <2>2. ~IsJson(json)
      <3> SUFFICES ASSUME IsJson(json) PROVE FALSE
        OBVIOUS
      <3>1. ScanTypeOK /\ ScanIsExact
        BY DEF Known, ValidateBase
      <3>2. obj \in Objects /\ Called("object_get_nth_key", obj, 0, "")
        BY <1>1 DEF Known, PhaseInv, InObject
      <3>3. 0 < Cardinality(Members(json, obj))
        <4>1. 1 < count /\ count \in Nat /\ count = Cardinality(Members(json, obj))
          BY <1>1 DEF Known, PhaseInv, ValidateBase
        <4> QED
          BY <4>1
      <3>4. result.err = "parser_ok"
        BY <1>1, <3>1, <3>2, <3>3, KeyReturned
      <3> QED
        BY <1>3, <3>4
    <2> QED
      BY <2>1, <2>2, RejectedBy
  <1> QED
    BY <1>2, <1>3

LEMMA NextNameRejects ==
    ASSUME Known, NextName
    PROVE  RejectedWithCause'
  <1> DEFINE order == is_sorted(prevName, result.value)
  <1>1. phase = "next" /\ call = Idle /\ UNCHANGED text
    BY DEF NextName
  <1>2. CASE result.err = "parser_ok" /\ order = 1
    <2>1. phase' # "rejected"
      BY <1>2 DEF NextName, NextMember, NextObject, GoOn
    <2> QED
      BY <2>1 DEF RejectedWithCause
  <1>3. CASE ~(result.err = "parser_ok" /\ order = 1)
    <2> DEFINE e == CASE result.err # "parser_ok" -> "parser_unexpected_value"
                      [] order = -1 -> "parser_duplicated_field"
                      [] OTHER -> "parser_json_is_not_sorted"
    <2>1. Reject(e) /\ UNCHANGED <<json, text>>
      BY <1>1, <1>3 DEF NextName, scanVars
    <2>2. ASSUME IsJson(json) PROVE Cause(e)
      <3> DEFINE S == Members(json, obj)
                 v == result.value
      <3>1. /\ result.err = "parser_ok" /\ v \in S /\ prevName \in S /\ prevName < v
            /\ S \in SUBSET Nat
        BY <1>1, <2>2, NextNameReturned
      <3>2. ScanTypeOK /\ obj \in Objects
        BY <1>1 DEF Known, ValidateBase, PhaseInv, InObject
      <3>3. obj \in Nat
        BY <3>2, ObjectAt
      <3>4. /\ order \in {-1, 0, 1}
            /\ order = -1 => NameOf(prevName) = NameOf(v)
            /\ order = 0 =>
                \/ NameOf(prevName) \in TooLong \/ NameOf(v) \in TooLong
                \/ ~(Rank[NameOf(prevName)] < Rank[NameOf(v)])
        BY <3>1, <3>2, <3>3, OrderMeans
      <3> HIDE DEF order
      <3>5. CASE order = -1
        <4>1. e = "parser_duplicated_field"
          BY <3>1, <3>5
        <4>2. prevName # v /\ NameOf(prevName) = NameOf(v)
          BY <3>1, <3>4, <3>5
        <4>3. \E c \in Objects : \E i, j \in Members(json, c) : i # j /\ NameOf(i) = NameOf(j)
          BY <3>1, <3>2, <4>2
        <4> HIDE DEF e
        <4> QED
          BY <4>1, <4>3 DEF Cause
      <3>6. CASE order = 0
        <4>1. e = "parser_json_is_not_sorted"
          BY <3>1, <3>6
        <4>2. CASE NameOf(prevName) \in TooLong \/ NameOf(v) \in TooLong
          <5>1. Names(obj) \cap TooLong # {}
            BY <3>1, <4>2 DEF Names
          <5> HIDE DEF e
          <5> QED
            BY <3>2, <4>1, <5>1 DEF Cause
        <4>3. CASE ~(Rank[NameOf(prevName)] < Rank[NameOf(v)])
          <5>1. ~InOrder(obj)
            BY <3>1, <4>3 DEF InOrder
          <5> HIDE DEF e
          <5> QED
            BY <3>2, <4>1, <5>1 DEF Cause
        <4> QED
          BY <3>4, <3>6, <4>2, <4>3
      <3> QED
        BY <1>3, <3>1, <3>4, <3>5, <3>6
    <2> HIDE DEF e
    <2> QED
      BY <2>1, <2>2, RejectedBy
  <1> QED
    BY <1>2, <1>3

LEMMA LookedUpRejects ==
    ASSUME Known, LookedUp
    PROVE  RejectedWithCause'
  <1>1. phase = "lookup" /\ call = Idle /\ UNCHANGED <<json, text>>
    BY DEF LookedUp, scanVars
  <1>2. CASE result.err = "parser_ok"
    <2>1. phase' # "rejected"
      BY <1>2 DEF LookedUp, GoOn
    <2> QED
      BY <2>1 DEF RejectedWithCause
  <1>3. CASE result.err # "parser_ok"
    <2>1. Reject(missing[field])
      BY <1>3 DEF LookedUp
    <2>2. field \in DOMAIN required
      BY DEF Known, ValidateBase
    <2>3. IsJson(json) => ~Has(required[field])
      BY <1>1, <1>3, LookedUpMember
    <2>4. missing[field] \notin {"parser_unexpected_characters", "parser_json_contains_whitespace",
                                 "parser_duplicated_field", "parser_json_is_not_sorted"}
      BY <2>2 DEF required, missing
    <2>5. IsJson(json) => Cause(missing[field])
      BY <2>2, <2>3, <2>4 DEF Cause
    <2> QED
      BY <1>1, <2>1, <2>5, RejectedBy
  <1> QED
    BY <1>2, <1>3

\* Every step of the validation.
LEMMA RejectionStep ==
    ASSUME Known, RejectedWithCause, ValidateNext
    PROVE  RejectedWithCause'
  <1>1. CASE ReadCharacter
    BY <1>1 DEF ReadCharacter, RejectedWithCause
  <1>2. CASE Parse
    <2>1. phase = "parse" /\ json.numberOfTokens = 0
      BY <1>2 DEF Parse, Known, ValidateBase
    <2>2. phase' = "text" \/ json' = json
      BY <1>2 DEF Parse, GoOn, scanVars
    <2> QED
      BY <2>1, <2>2 DEF RejectedWithCause
  <1>3. CASE NoMoreObjects \/ VisitToken \/ CountMembers \/ LookUp
    <2>1. phase' # "rejected"
      BY <1>3 DEF NoMoreObjects, VisitToken, CountMembers, LookUp, NextObject, GoOn
    <2> QED
      BY <2>1 DEF RejectedWithCause
  <1>4. CASE ScanStep /\ UNCHANGED validateVars
    <2>1. UNCHANGED <<json, text>> /\ phase' = phase /\ err' = err
      BY <1>4, ScanStepBounds DEF Known, ValidateBase, validateVars
    <2>2. CASE phase = "rejected"
      <3>1. json.numberOfTokens > 0 /\ IsJson(json) => Cause(err)
        BY <2>2 DEF RejectedWithCause, Cause
      <3>2. PICK e : e = err
        OBVIOUS
      <3>3. Reject(e)
        BY <2>1, <2>2, <3>2 DEF Reject
      <3>4. json.numberOfTokens > 0 /\ IsJson(json) => Cause(e)
        BY <3>1, <3>2
      <3> QED
        BY <2>1, <3>3, <3>4, RejectedBy
    <2>3. CASE phase # "rejected"
      BY <2>1, <2>3 DEF RejectedWithCause
    <2> QED
      BY <2>2, <2>3
  <1> QED
    BY <1>1, <1>2, <1>3, <1>4, CheckTextRejects, FirstNameRejects, NextNameRejects,
       LookedUpRejects DEF ValidateNext
=============================================================================
