--------------------------- MODULE JsonScanProofs ---------------------------
(***************************************************************************)
(* The walkers of json_parser.c are exact on every JSON text.              *)
(*                                                                         *)
(* ScanInv describes a loop between two of its passes: every token it has  *)
(* gone by starts inside the container and ends no later than the last     *)
(* element taken, that bound is the end of an element, and the count is    *)
(* the number of elements gone by.  Whether a token starts after the bound *)
(* is then the same as whether it is an element (ArrayPass, ObjectPass).   *)
(***************************************************************************)
EXTENDS JsonScan, FiniteSetTheorems, TLAPS

USE DEF ArrayWalkers, ObjectWalkers, Counters, ByNumber

\* The shape of a token list.
LEMMA ListShape ==
    ASSUME NEW d \in TokenLists
    PROVE  /\ d.numberOfTokens \in Nat
           /\ DOMAIN d.tokens = 0 .. d.numberOfTokens - 1
           /\ \A i \in 0 .. d.numberOfTokens - 1 :
                /\ d.tokens[i] \in Token
                /\ d.tokens[i].start \in Nat /\ d.tokens[i].end \in Nat
                /\ d.tokens[i].text \in Strings
           /\ d.names \subseteq 0 .. d.numberOfTokens - 1
  BY DEF TokenLists, ListsOf, Token

\* The elements of a container form a finite set of tokens after it.
LEMMA ElementsFinite ==
    ASSUME NEW d \in TokenLists, NEW c \in Nat
    PROVE  /\ Elements(d, c) \subseteq c + 1 .. d.numberOfTokens - 1
           /\ Members(d, c) \subseteq Elements(d, c)
           /\ IsFiniteSet(Elements(d, c)) /\ IsFiniteSet(Members(d, c))
  <1>1. Elements(d, c) \subseteq c + 1 .. d.numberOfTokens - 1
    BY DEF Elements
  <1>2. Members(d, c) \subseteq Elements(d, c)
    BY DEF Members
  <1>3. IsFiniteSet(c + 1 .. d.numberOfTokens - 1)
    BY ListShape, FS_Interval, SMTT(60)
  <1> QED
    BY <1>1, <1>2, <1>3, FS_Subset

\* Going by one more number adds it to the count if it is in the set.
LEMMA CountOne ==
    ASSUME NEW S \in SUBSET Nat, IsFiniteSet(S), NEW t \in Nat
    PROVE  /\ IsFiniteSet({i \in S : i < t})
           /\ Cardinality({i \in S : i < t}) \in Nat
           /\ Cardinality({i \in S : i < t + 1}) =
                IF t \in S THEN Cardinality({i \in S : i < t}) + 1
                ELSE Cardinality({i \in S : i < t})
  <1> DEFINE B == {i \in S : i < t}
  <1>1. IsFiniteSet(B)
    BY FS_Subset
  <1>2. Cardinality(B) \in Nat
    BY <1>1, FS_CardinalityType
  <1>0. \A i \in S : i < t + 1 <=> (i < t \/ i = t)
    OBVIOUS
  <1>3. CASE t \in S
    <2>1. {i \in S : i < t + 1} = B \cup {t}
      BY <1>0, <1>3, Zenon
    <2>2. t \notin B
      OBVIOUS
    <2>3. Cardinality(B \cup {t}) = Cardinality(B) + 1
      BY <1>1, <2>2, FS_AddElement
    <2> QED
      BY <1>1, <1>2, <1>3, <2>1, <2>3
  <1>4. CASE t \notin S
    <2>1. {i \in S : i < t + 1} = B
      BY <1>0, <1>4, Zenon
    <2> QED
      BY <1>1, <1>2, <1>4, <2>1
  <1> QED
    BY <1>3, <1>4

LEMMA PlaceStep ==
    ASSUME NEW S \in SUBSET Nat, IsFiniteSet(S), NEW t \in Nat
    PROVE  /\ Place(S, t) \in Nat
           /\ t \in S => Place(S, t + 1) = Place(S, t) + 1
           /\ t \notin S => Place(S, t + 1) = Place(S, t)
  BY CountOne DEF Place

----------------------------------------------------------------------------
(* One pass of a loop                                                      *)

\* A token that starts in the container and after all tokens gone by is an
\* element; one that starts before the end of a token gone by is not.
LEMMA ElementPass ==
    ASSUME NEW d \in TokenLists, Nested(d),
           NEW c \in DOMAIN d.tokens, NEW t \in c + 1 .. d.numberOfTokens - 1,
           d.tokens[t].start <= d.tokens[c].end
    PROVE  t \in Elements(d, c) <=>
              \A j \in c + 1 .. t - 1 : d.tokens[j].end < d.tokens[t].start
  <1>1. /\ t \in DOMAIN d.tokens /\ c \in Nat /\ t \in Nat
        /\ d.tokens[t].start \in Nat /\ d.tokens[t].end \in Nat
        /\ d.tokens[c].start \in Nat /\ d.tokens[c].end \in Nat
    BY ListShape
  <1>2. d.tokens[t].start <= d.tokens[t].end
    BY <1>1 DEF Nested
  <1>3. d.tokens[t].end < d.tokens[c].end \/ d.tokens[c].end < d.tokens[t].start
    BY <1>1 DEF Nested
  <1>4. d.tokens[t].start < d.tokens[c].end
    BY <1>1, <1>2, <1>3
  <1> QED
    BY <1>4 DEF Elements

LEMMA ArrayPass ==
    ASSUME NEW d \in TokenLists, Nested(d),
           NEW c \in DOMAIN d.tokens, NEW t \in c + 1 .. d.numberOfTokens - 1,
           NEW p \in Nat,
           d.tokens[t].start <= d.tokens[c].end,
           \A j \in c + 1 .. t - 1 : d.tokens[j].end <= p,
           \/ p = d.tokens[c].start
           \/ \E j \in c + 1 .. t - 1 : p = d.tokens[j].end
    PROVE  t \in Elements(d, c) <=> ~(d.tokens[t].start <= p)
  <1>1. c \in Nat /\ t \in Nat /\ t \in DOMAIN d.tokens
    BY ListShape
  <1>2. \A j \in c .. t : d.tokens[j].start \in Nat /\ d.tokens[j].end \in Nat
    BY <1>1, ListShape
  <1>3. d.tokens[c].start < d.tokens[t].start
    BY <1>1 DEF Nested
  <1>4. ASSUME ~(d.tokens[t].start <= p) PROVE t \in Elements(d, c)
    BY <1>1, <1>2, <1>4, ElementPass
  <1>5. ASSUME d.tokens[t].start <= p PROVE t \notin Elements(d, c)
    <2>1. PICK j \in c + 1 .. t - 1 : p = d.tokens[j].end
      BY <1>1, <1>2, <1>3, <1>5
    <2> QED
      BY <1>1, <1>2, <1>5, <2>1, ElementPass
  <1> QED
    BY <1>4, <1>5

\* In an object the bound is the end of a value, and what comes after a value
\* is a name.
LEMMA ObjectPass ==
    ASSUME NEW d \in TokenLists, IsJson(d),
           NEW c \in DOMAIN d.tokens, d.tokens[c].type = "JSMN_OBJECT",
           NEW t \in c + 1 .. d.numberOfTokens - 1, NEW p \in Nat,
           d.tokens[t].start <= d.tokens[c].end,
           \A j \in c + 1 .. t - 1 : d.tokens[j].end <= p,
           \A m \in Members(d, c) : m < t => d.tokens[m + 1].end <= p,
           \/ p = d.tokens[c].start
           \/ \E m \in Members(d, c) : m < t /\ p = d.tokens[m + 1].end
    PROVE  t \in Members(d, c) <=> ~(d.tokens[t].start <= p)
  <1>1. c \in Nat /\ t \in Nat /\ t \in DOMAIN d.tokens
    BY ListShape
  <1>2. \A j \in c .. d.numberOfTokens - 1 : d.tokens[j].start \in Nat /\ d.tokens[j].end \in Nat
    BY <1>1, ListShape
  <1>3. d.tokens[c].start < d.tokens[t].start /\ d.tokens[t].start <= d.tokens[t].end
    BY <1>1 DEF IsJson, Nested
  <1>4. \A i \in Elements(d, c) :
            IF i \in d.names THEN i + 1 \in Elements(d, c) \ d.names
            ELSE i - 1 \in Members(d, c)
    BY DEF IsJson, Alternates
  <1>5. ASSUME ~(d.tokens[t].start <= p) PROVE t \in Members(d, c)
    <2>0. \A j \in c + 1 .. t - 1 : d.tokens[j].end < d.tokens[t].start
      <3> TAKE j \in c + 1 .. t - 1
      <3>1. j \in c .. d.numberOfTokens - 1 /\ t \in c .. d.numberOfTokens - 1
        BY <1>1, ListShape
      <3>2. d.tokens[j].end <= p
        OBVIOUS
      <3> QED
        BY <1>2, <1>5, <3>1, <3>2
    <2>1. t \in Elements(d, c)
      BY <2>0, ElementPass DEF IsJson
    <2>2. CASE t \notin d.names
      <3>1. t - 1 \in Members(d, c)
        BY <1>4, <2>1, <2>2
      <3>2. d.tokens[(t - 1) + 1].end <= p
        BY <3>1, <1>1
      <3> QED
        BY <1>1, <1>2, <1>3, <1>5, <3>2
    <2> QED
      BY <2>1, <2>2 DEF Members
  <1>6. ASSUME d.tokens[t].start <= p, t \in Members(d, c) PROVE FALSE
    <2>1. t \in Elements(d, c) /\ t \in d.names
      BY <1>6 DEF Members
    <2>0. p # d.tokens[c].start
      <3>1. t \in c .. d.numberOfTokens - 1 /\ c \in c .. d.numberOfTokens - 1
        BY <1>1, ListShape
      <3> QED
        BY <1>2, <1>3, <1>6, <3>1
    <2>2. PICK m \in Members(d, c) : m < t /\ p = d.tokens[m + 1].end
      BY <2>0
    <2>3. m \in Elements(d, c) /\ m \in d.names /\ m \in c + 1 .. d.numberOfTokens - 1
      BY <2>2 DEF Members, Elements
    <2>4. m + 1 \in Elements(d, c) \ d.names
      BY <1>4, <2>3
    <2>5. m + 1 # t
      BY <2>1, <2>4
    <2>6. m + 1 \in c + 1 .. t - 1
      BY <1>1, <2>2, <2>3, <2>5
    <2>7. d.tokens[m + 1].end < d.tokens[t].start
      BY <2>1, <2>6 DEF Elements
    <2> QED
      BY <1>1, <1>2, <1>6, <2>2, <2>6, <2>7
  <1> QED
    BY <1>5, <1>6

\* Nothing is left when the loop stops.
LEMMA NoneLeft ==
    ASSUME NEW d \in TokenLists, Nested(d), NEW c \in DOMAIN d.tokens, NEW t \in Nat,
           t >= d.numberOfTokens \/ d.tokens[t].start > d.tokens[c].end
    PROVE  \A i \in Elements(d, c) : i < t
  <1> SUFFICES ASSUME NEW i \in Elements(d, c), t <= i PROVE FALSE
    BY ElementsFinite, ListShape
  <1>1. i \in c + 1 .. d.numberOfTokens - 1 /\ d.tokens[i].start < d.tokens[c].end
    BY DEF Elements
  <1>2. d.numberOfTokens \in Nat /\ c \in Nat /\ i \in Nat
    BY <1>1, ListShape
  <1>3. t \in DOMAIN d.tokens /\ i \in DOMAIN d.tokens
    BY <1>1, <1>2, ListShape
  <1>4. /\ d.tokens[t].start \in Nat /\ d.tokens[i].start \in Nat /\ d.tokens[c].end \in Nat
    BY <1>3, ListShape
  <1>5. t = i \/ d.tokens[t].start < d.tokens[i].start
    BY <1>1, <1>2, <1>3 DEF Nested
  <1> QED
    BY <1>1, <1>2, <1>3, <1>4, <1>5

----------------------------------------------------------------------------
(* The loop                                                                *)

\* Before it examines token t, with bound p and n elements taken.
Loop(d, c, t, p, n) ==
    /\ \A j \in c.at + 1 .. t - 1 : d.tokens[j].end <= p
    /\ \/ p = d.tokens[c.at].start
       \/ c.fn \in ArrayWalkers /\ \E j \in c.at + 1 .. t - 1 : p = d.tokens[j].end
       \/ c.fn \in ObjectWalkers /\ \E m \in Members(d, c.at) : m < t /\ p = d.tokens[m + 1].end
    /\ c.fn \in ObjectWalkers => \A m \in Members(d, c.at) : m < t => d.tokens[m + 1].end <= p
    /\ n = Place(Walked(d, c), t)
    /\ c.fn \in ByNumber => n <= c.nth
    /\ c.fn = "object_get_value" => \A m \in Members(d, c.at) : m < t => d.tokens[m].text # c.key

LEMMA WalkedFinite ==
    ASSUME NEW d \in TokenLists, NEW c \in Calls
    PROVE  /\ c.at \in Nat
           /\ Walked(d, c) \subseteq c.at + 1 .. d.numberOfTokens - 1
           /\ Walked(d, c) \in SUBSET Nat
           /\ IsFiniteSet(Walked(d, c))
  <1>1. c.at \in Nat
    BY DEF Calls
  <1> QED
    BY <1>1, ElementsFinite, ListShape DEF Walked

\* A call starts its loop with nothing taken.
LEMMA LoopStart ==
    ASSUME NEW d \in TokenLists, NEW c \in Calls
    PROVE  Loop(d, c, c.at + 1, d.tokens[c.at].start, 0)
  <1>1. /\ c.at \in Nat
        /\ \A i \in Walked(d, c) \cup Members(d, c.at) : i \in Nat /\ ~(i < c.at + 1)
    BY ElementsFinite, WalkedFinite, ListShape
  <1>2. {i \in Walked(d, c) : i < c.at + 1} = {}
    BY <1>1
  <1>3. Place(Walked(d, c), c.at + 1) = 0
    BY <1>2, FS_EmptySet DEF Place
  <1>4. c.fn \in ByNumber => 0 <= c.nth
    BY DEF Calls
  <1>5. \A j \in c.at + 1 .. (c.at + 1) - 1 : d.tokens[j].end <= d.tokens[c.at].start
    BY <1>1
  <1> QED
    BY <1>1, <1>3, <1>4, <1>5 DEF Loop

\* Whether the token examined is one the walker goes over.
LEMMA LoopPass ==
    ASSUME NEW d \in TokenLists, IsJson(d), NEW c \in Calls, Meant(d, c),
           NEW t \in c.at + 1 .. d.numberOfTokens - 1, NEW p \in Nat, NEW n \in Nat,
           d.tokens[t].start <= d.tokens[c.at].end,
           Loop(d, c, t, p, n)
    PROVE  t \in Walked(d, c) <=> ~(d.tokens[t].start <= p)
  <1>1. c.at \in DOMAIN d.tokens
    BY WalkedFinite, ListShape DEF Meant
  <1>2. CASE c.fn \in ArrayWalkers
    <2>1. \/ p = d.tokens[c.at].start
          \/ \E j \in c.at + 1 .. t - 1 : p = d.tokens[j].end
      BY <1>2 DEF Loop
    <2> QED
      BY <1>1, <1>2, <2>1, ArrayPass DEF Loop, Walked, IsJson
  <1>3. CASE c.fn \in ObjectWalkers
    <2>1. \/ p = d.tokens[c.at].start
          \/ \E m \in Members(d, c.at) : m < t /\ p = d.tokens[m + 1].end
      BY <1>3 DEF Loop
    <2>2. d.tokens[c.at].type = "JSMN_OBJECT"
      BY <1>3 DEF Meant
    <2> QED
      BY <1>1, <1>3, <2>1, <2>2, ObjectPass DEF Loop, Walked
  <1> QED
    BY <1>2, <1>3 DEF Calls

\* What starts within an earlier token ends within it.
LEMMA EndsWithin ==
    ASSUME NEW d \in TokenLists, Nested(d),
           NEW i \in DOMAIN d.tokens, NEW j \in i + 1 .. d.numberOfTokens - 1,
           d.tokens[j].start <= d.tokens[i].end
    PROVE  d.tokens[j].end <= d.tokens[i].end
  <1>1. /\ i \in Nat /\ j \in DOMAIN d.tokens
        /\ d.tokens[i].end \in Nat /\ d.tokens[j].start \in Nat /\ d.tokens[j].end \in Nat
    BY ListShape
  <1> QED
    BY <1>1 DEF Nested

LEMMA LoopSkip ==
    ASSUME NEW d \in TokenLists, IsJson(d), NEW c \in Calls, Meant(d, c),
           NEW t \in c.at + 1 .. d.numberOfTokens - 1, NEW p \in Nat, NEW n \in Nat,
           d.tokens[t].start <= d.tokens[c.at].end, d.tokens[t].start <= p,
           Loop(d, c, t, p, n)
    PROVE  Loop(d, c, t + 1, p, n)
  <1>1. /\ c.at \in Nat /\ t \in Nat /\ d.numberOfTokens \in Nat
        /\ c.at \in DOMAIN d.tokens /\ t \in DOMAIN d.tokens
    BY WalkedFinite, ListShape DEF Meant
  <1>2. t \notin Walked(d, c)
    BY LoopPass
  <1>3. /\ d.tokens[c.at].start \in Nat /\ d.tokens[t].start \in Nat /\ d.tokens[t].end \in Nat
    BY <1>1, ListShape
  <1>4. d.tokens[c.at].start < d.tokens[t].start
    BY <1>1 DEF IsJson, Nested
  <1>5. d.tokens[t].end <= p
    <2>1. CASE c.fn \in ArrayWalkers
      <3>1. PICK j \in c.at + 1 .. t - 1 : p = d.tokens[j].end
        BY <1>3, <1>4, <2>1 DEF Loop
      <3>2. j \in DOMAIN d.tokens /\ t \in j + 1 .. d.numberOfTokens - 1
        BY <1>1, ListShape, SMTT(60)
      <3> QED
        BY <3>1, <3>2, EndsWithin DEF IsJson
    <2>2. CASE c.fn \in ObjectWalkers
      <3>1. PICK m \in Members(d, c.at) : m < t /\ p = d.tokens[m + 1].end
        BY <1>3, <1>4, <2>2 DEF Loop
      <3>2. m \in c.at + 1 .. d.numberOfTokens - 1
        BY <1>1, ElementsFinite
      <3>3. CASE t = m + 1
        BY <1>3, <3>1, <3>3
      <3>4. CASE t # m + 1
        <4>1. m + 1 \in DOMAIN d.tokens /\ t \in (m + 1) + 1 .. d.numberOfTokens - 1
          BY <1>1, <3>1, <3>2, <3>4, ListShape
        <4> QED
          BY <3>1, <4>1, EndsWithin DEF IsJson
      <3> QED
        BY <3>3, <3>4
    <2> QED
      BY <2>1, <2>2 DEF Calls
  <1>6. \A j \in c.at + 1 .. (t + 1) - 1 : d.tokens[j].end <= p
    BY <1>1, <1>5 DEF Loop
  <1>7. Place(Walked(d, c), t + 1) = Place(Walked(d, c), t)
    BY <1>1, <1>2, WalkedFinite, PlaceStep
  <1>8. c.fn \in ObjectWalkers => \A m \in Members(d, c.at) : m < t + 1 => m < t
    <2> SUFFICES ASSUME c.fn \in ObjectWalkers, NEW m \in Members(d, c.at), m < t + 1 PROVE m < t
      OBVIOUS
    <2>1. m # t
      BY <1>2 DEF Walked
    <2>2. m \in Nat
      BY <1>1, ElementsFinite
    <2> QED
      BY <1>1, <2>1, <2>2
  <1>9. \/ p = d.tokens[c.at].start
        \/ c.fn \in ArrayWalkers /\ \E j \in c.at + 1 .. (t + 1) - 1 : p = d.tokens[j].end
        \/ c.fn \in ObjectWalkers /\ \E m \in Members(d, c.at) : m < t + 1 /\ p = d.tokens[m + 1].end
    <2>1. CASE p = d.tokens[c.at].start
      BY <2>1
    <2>2. CASE c.fn \in ArrayWalkers /\ \E j \in c.at + 1 .. t - 1 : p = d.tokens[j].end
      BY <1>1, <2>2
    <2>3. CASE c.fn \in ObjectWalkers /\ \E m \in Members(d, c.at) : m < t /\ p = d.tokens[m + 1].end
      <3>1. PICK m \in Members(d, c.at) : m < t /\ p = d.tokens[m + 1].end
        BY <2>3
      <3>2. m < t + 1
        BY <1>1, <3>1, ElementsFinite
      <3> QED
        BY <2>3, <3>1, <3>2
    <2> QED
      BY <2>1, <2>2, <2>3 DEF Loop
  <1>10. c.fn = "object_get_value" => c.fn \in ObjectWalkers
    OBVIOUS
  <1> QED
    BY <1>6, <1>7, <1>8, <1>9, <1>10 DEF Loop

LEMMA LoopTake ==
    ASSUME NEW d \in TokenLists, IsJson(d), NEW c \in Calls, Meant(d, c),
           NEW t \in c.at + 1 .. d.numberOfTokens - 1, NEW p \in Nat, NEW n \in Nat,
           d.tokens[t].start <= d.tokens[c.at].end, ~(d.tokens[t].start <= p),
           c.fn \in ByNumber => n # c.nth,
           c.fn = "object_get_value" => d.tokens[t].text # c.key,
           Loop(d, c, t, p, n),
           NEW e, e = IF c.fn \in ArrayWalkers THEN d.tokens[t].end ELSE d.tokens[t + 1].end
    PROVE  Loop(d, c, t + 1, e, n + 1)
  <1>1. /\ c.at \in Nat /\ t \in Nat /\ d.numberOfTokens \in Nat
        /\ c.at \in DOMAIN d.tokens /\ t \in DOMAIN d.tokens
        /\ d.tokens[t].start \in Nat /\ d.tokens[t].end \in Nat
        /\ d.tokens[t].start <= d.tokens[t].end
    BY WalkedFinite, ListShape DEF Meant, IsJson, Nested
  <1>2. t \in Walked(d, c)
    BY LoopPass
  <1>3. c.fn \in ObjectWalkers =>
            /\ t \in Members(d, c.at) /\ t + 1 \in DOMAIN d.tokens
            /\ d.tokens[t].end < d.tokens[t + 1].end
    <2> SUFFICES ASSUME c.fn \in ObjectWalkers
                 PROVE  /\ t \in Members(d, c.at) /\ t + 1 \in DOMAIN d.tokens
                        /\ d.tokens[t].end < d.tokens[t + 1].end
      OBVIOUS
    <2>1. t \in Elements(d, c.at) /\ t \in d.names /\ t \in Members(d, c.at)
      BY <1>2 DEF Walked, Members
    <2>2. d.tokens[c.at].type = "JSMN_OBJECT"
      BY DEF Meant
    <2>3. t + 1 \in Elements(d, c.at)
      BY <1>1, <2>1, <2>2 DEF IsJson, Alternates
    <2>4. t + 1 \in DOMAIN d.tokens
      BY <1>1, <2>3, ElementsFinite, ListShape
    <2>5. d.tokens[t].end < d.tokens[t + 1].start
      BY <1>1, <2>3 DEF Elements
    <2>6. d.tokens[t + 1].start <= d.tokens[t + 1].end
      BY <2>4 DEF IsJson, Nested
    <2>7. d.tokens[t + 1].start \in Nat /\ d.tokens[t + 1].end \in Nat
      BY <2>4, ListShape
    <2> QED
      BY <1>1, <2>1, <2>4, <2>5, <2>6, <2>7
  <1>4. e \in Nat /\ p < e /\ d.tokens[t].end <= e
    <2>1. CASE c.fn \in ArrayWalkers
      BY <1>1, <2>1
    <2>2. CASE c.fn \in ObjectWalkers
      <3>1. e = d.tokens[t + 1].end
        BY <2>2
      <3>2. d.tokens[t + 1].end \in Nat
        BY <1>3, <2>2, ListShape
      <3> QED
        BY <1>1, <1>3, <2>2, <3>1, <3>2
    <2> QED
      BY <2>1, <2>2 DEF Calls
  <1>5. \A j \in c.at + 1 .. (t + 1) - 1 : d.tokens[j].end <= e
    <2> TAKE j \in c.at + 1 .. (t + 1) - 1
    <2>1. CASE j = t
      BY <1>4, <2>1
    <2>2. CASE j # t
      <3>1. j \in c.at + 1 .. t - 1
        BY <1>1, <2>2
      <3>2. j \in 0 .. d.numberOfTokens - 1
        BY <1>1, <3>1
      <3>3. d.tokens[j].end \in Nat
        BY <3>2, ListShape
      <3>4. d.tokens[j].end <= p
        BY <3>1 DEF Loop
      <3> QED
        BY <1>4, <3>3, <3>4
    <2> QED
      BY <2>1, <2>2
  <1>6. Place(Walked(d, c), t + 1) = Place(Walked(d, c), t) + 1
    BY <1>1, <1>2, WalkedFinite, PlaceStep
  <1>7. \A m \in Members(d, c.at) : /\ m \in Nat /\ m \in DOMAIN d.tokens
                                    /\ m < t + 1 => m < t \/ m = t
    BY <1>1, ElementsFinite, ListShape, SMTT(60)
  <1>8. \/ e = d.tokens[c.at].start
        \/ c.fn \in ArrayWalkers /\ \E j \in c.at + 1 .. (t + 1) - 1 : e = d.tokens[j].end
        \/ c.fn \in ObjectWalkers /\ \E m \in Members(d, c.at) : m < t + 1 /\ e = d.tokens[m + 1].end
    <2>1. CASE c.fn \in ArrayWalkers
      <3>1. t \in c.at + 1 .. (t + 1) - 1 /\ e = d.tokens[t].end
        BY <1>1, <2>1
      <3> QED
        BY <2>1, <3>1
    <2>2. CASE c.fn \in ObjectWalkers
      <3>1. t < t + 1 /\ e = d.tokens[t + 1].end
        BY <1>1, <2>2
      <3> QED
        BY <1>3, <2>2, <3>1
    <2> QED
      BY <2>1, <2>2 DEF Calls
  <1>9. c.fn \in ObjectWalkers => \A m \in Members(d, c.at) : m < t + 1 => d.tokens[m + 1].end <= e
    <2> SUFFICES ASSUME c.fn \in ObjectWalkers, NEW m \in Members(d, c.at), m < t + 1
                 PROVE  d.tokens[m + 1].end <= e
      OBVIOUS
    <2>1. CASE m = t
      <3>1. e = d.tokens[m + 1].end
        BY <2>1
      <3> QED
        BY <1>4, <3>1
    <2>2. CASE m < t
      <3>1. d.tokens[m + 1].end <= p
        BY <2>2 DEF Loop
      <3>2. m + 1 \in DOMAIN d.tokens
        BY <1>1, <1>7, <2>2, ListShape
      <3>3. d.tokens[m + 1].end \in Nat
        BY <3>2, ListShape
      <3> QED
        BY <1>4, <3>1, <3>3
    <2> QED
      BY <1>7, <2>1, <2>2
  <1>10. c.fn \in ByNumber => n + 1 <= c.nth
    <2>1. c.nth \in Nat
      BY DEF Calls
    <2> QED
      BY <2>1 DEF Loop
  <1>11. c.fn = "object_get_value" =>
            \A m \in Members(d, c.at) : m < t + 1 => d.tokens[m].text # c.key
    BY <1>7 DEF Loop
  <1>12. n + 1 = Place(Walked(d, c), t + 1)
    BY <1>6 DEF Loop
  <1> QED
    BY <1>5, <1>8, <1>9, <1>10, <1>11, <1>12 DEF Loop

Right(d, r) == CountIsRight(d, r) /\ NthIsRight(d, r) /\ ValueIsRight(d, r)

\* What is returned when the loop stops: all elements are gone by.
LEMMA LoopDone ==
    ASSUME NEW d \in TokenLists, IsJson(d), NEW c \in Calls, Meant(d, c),
           NEW t \in c.at + 1 .. d.numberOfTokens, NEW p \in Nat, NEW n \in Nat,
           \/ t >= d.numberOfTokens
           \/ c.fn = "object_get_value" /\ t + 1 >= d.numberOfTokens
           \/ d.tokens[t].start > d.tokens[c.at].end,
           Loop(d, c, t, p, n)
    PROVE  /\ c.fn \in Counters => Right(d, [call |-> c, err |-> "parser_ok", value |-> n])
           /\ c.fn \notin Counters => Right(d, [call |-> c, err |-> "parser_no_data", value |-> 0])
  <1>1. /\ c.at \in Nat /\ t \in Nat /\ d.numberOfTokens \in Nat
        /\ c.at \in DOMAIN d.tokens
    BY WalkedFinite, ListShape DEF Meant
  <1>2. \A i \in Walked(d, c) : i < t
    <2>1. CASE t >= d.numberOfTokens \/ d.tokens[t].start > d.tokens[c.at].end
      <3>1. \A i \in Elements(d, c.at) : i < t
        BY <1>1, <2>1, NoneLeft DEF IsJson
      <3> QED
        BY <3>1 DEF Walked, Members
    <2>2. CASE c.fn = "object_get_value" /\ t + 1 >= d.numberOfTokens
      <3> SUFFICES ASSUME NEW i \in Members(d, c.at) PROVE i < t
        BY <2>2 DEF Walked
      <3>1. d.tokens[c.at].type = "JSMN_OBJECT"
        BY <2>2 DEF Meant
      <3>2. i \in Elements(d, c.at) /\ i \in d.names
        BY DEF Members
      <3>3. i + 1 \in Elements(d, c.at)
        BY <1>1, <3>1, <3>2 DEF IsJson, Alternates
      <3>4. i + 1 <= d.numberOfTokens - 1 /\ i \in Nat
        BY <1>1, <3>2, <3>3, ElementsFinite
      <3> QED
        BY <1>1, <2>2, <3>4
    <2> QED
      BY <2>1, <2>2
  <1>3. {i \in Walked(d, c) : i < t} = Walked(d, c)
    BY <1>2
  <1>4. n = Cardinality(Walked(d, c))
    BY <1>3 DEF Loop, Place
  <1>5. ASSUME c.fn \in Counters
        PROVE  Right(d, [call |-> c, err |-> "parser_ok", value |-> n])
    BY <1>4, <1>5 DEF Right, CountIsRight, NthIsRight, ValueIsRight
  <1>6. ASSUME c.fn \in ByNumber
        PROVE  Right(d, [call |-> c, err |-> "parser_no_data", value |-> 0])
    <2>1. Cardinality(Walked(d, c)) <= c.nth
      BY <1>4, <1>6 DEF Loop
    <2> QED
      BY <1>6, <2>1 DEF Right, CountIsRight, NthIsRight, ValueIsRight
  <1>7. ASSUME c.fn = "object_get_value"
        PROVE  Right(d, [call |-> c, err |-> "parser_no_data", value |-> 0])
    <2>1. \A m \in Members(d, c.at) : d.tokens[m].text # c.key
      BY <1>2, <1>7 DEF Loop, Walked
    <2> QED
      BY <1>7, <2>1 DEF Right, CountIsRight, NthIsRight, ValueIsRight
  <1> QED
    BY <1>5, <1>6, <1>7 DEF Calls

\* What is returned for an element that is wanted.
LEMMA LoopFound ==
    ASSUME NEW d \in TokenLists, IsJson(d), NEW c \in Calls, Meant(d, c),
           NEW t \in c.at + 1 .. d.numberOfTokens - 1, NEW p \in Nat, NEW n \in Nat,
           d.tokens[t].start <= d.tokens[c.at].end, ~(d.tokens[t].start <= p),
           \/ c.fn \in ByNumber /\ n = c.nth
           \/ c.fn = "object_get_value" /\ d.tokens[t].text = c.key,
           Loop(d, c, t, p, n),
           NEW v, v = IF c.fn \in {"object_get_nth_value", "object_get_value"} THEN t + 1 ELSE t
    PROVE  Right(d, [call |-> c, err |-> "parser_ok", value |-> v])
  <1>1. t \in Nat /\ c.at \in Nat
    BY WalkedFinite
  <1>2. t \in Walked(d, c)
    BY LoopPass
  <1>3. CASE c.fn \in ByNumber /\ n = c.nth
    <2>1. (IF c.fn = "object_get_nth_value" THEN v - 1 ELSE v) = t
      BY <1>1, <1>3
    <2>2. Place(Walked(d, c), t) = c.nth
      BY <1>3 DEF Loop
    <2> QED
      BY <1>2, <1>3, <2>1, <2>2 DEF Right, CountIsRight, NthIsRight, ValueIsRight
  <1>4. CASE c.fn = "object_get_value" /\ d.tokens[t].text = c.key
    <2>1. v - 1 = t
      BY <1>1, <1>4
    <2>2. t \in Members(d, c.at)
      BY <1>2, <1>4 DEF Walked
    <2>3. \A m \in Members(d, c.at) : d.tokens[m].text = c.key => t <= m
      BY <1>1, <1>4, ElementsFinite DEF Loop
    <2> QED
      BY <1>4, <2>1, <2>2, <2>3 DEF Right, CountIsRight, NthIsRight, ValueIsRight
  <1> QED
    BY <1>3, <1>4

----------------------------------------------------------------------------
(* The walkers                                                             *)

ScanTypeOK ==
    /\ json \in TokenLists
    /\ \/ call = Idle
       \/ /\ call \in Calls
          /\ call.at < json.numberOfTokens
          /\ token_index \in call.at + 1 .. json.numberOfTokens
    /\ result = NoResult \/ result \in Results
    /\ token_index \in Nat /\ prev_element_end \in Nat /\ element_count \in Nat

ScanInv ==
    call # Idle /\ IsJson(json) /\ Meant(json, call) =>
        Loop(json, call, token_index, prev_element_end, element_count)

LEMMA TokenIs ==
    ASSUME ScanTypeOK, NEW i \in Nat
    PROVE  /\ i < json.numberOfTokens => token(i) = json.tokens[i]
           /\ token(i).start \in Nat /\ token(i).end \in Nat
  <1>0. json \in TokenLists /\ json.numberOfTokens \in Nat
    BY ListShape DEF ScanTypeOK
  <1>1. CASE i < json.numberOfTokens
    <2>1. i \in 0 .. json.numberOfTokens - 1
      BY <1>0, <1>1
    <2>2. json.tokens[i].start \in Nat /\ json.tokens[i].end \in Nat
      BY <1>0, <2>1, ListShape
    <2> QED
      BY <1>1, <2>2 DEF token
  <1>2. CASE ~(i < json.numberOfTokens)
    BY <1>2 DEF token, Unused
  <1> QED
    BY <1>1, <1>2

LEMMA ScanTypeStep ==
    ASSUME ScanTypeOK, [ScanNext]_scanVars
    PROVE  ScanTypeOK'
  <1>0. json.numberOfTokens \in Nat
    BY ListShape DEF ScanTypeOK
  <1>1. ASSUME NEW d \in TokenLists, Load(d) PROVE ScanTypeOK'
    BY <1>1 DEF Load, ScanTypeOK
  <1>2. ASSUME NEW f \in ArrayWalkers \cup ObjectWalkers, NEW i \in Nat, NEW n \in Nat,
               NEW k \in Strings, Call(f, i, n, k)
        PROVE  ScanTypeOK'
    <2> DEFINE c == [fn |-> f, at |-> i, nth |-> n, key |-> k]
    <2>1. c \in Calls /\ c.at = i
      BY DEF Calls
    <2>2. CASE Refused(c) /\ result' = [call |-> c, err |-> "parser_no_data", value |-> 0]
               /\ UNCHANGED <<call, token_index, prev_element_end, element_count>>
      <3>1. result' \in Results
        BY <2>1, <2>2 DEF Results
      <3> QED
        BY <1>2, <2>2, <3>1 DEF Call, ScanTypeOK
    <2>3. CASE /\ ~Refused(c) /\ call' = c /\ result' = NoResult
               /\ token_index' = i + 1 /\ prev_element_end' = token(i).start
               /\ element_count' = 0
      <3>1. i < json.numberOfTokens
        BY <1>0, <2>1, <2>3 DEF Refused
      <3>2. token(i).start \in Nat
        BY TokenIs
      <3>3. token_index' \in call'.at + 1 .. json.numberOfTokens
        BY <1>0, <2>1, <2>3, <3>1
      <3> QED
        BY <1>2, <2>1, <2>3, <3>1, <3>2, <3>3 DEF Call, ScanTypeOK
    <2> QED
      BY <1>2, <2>2, <2>3 DEF Call
  <1>3. CASE Finish
    <2>1. call \in Calls
      BY <1>3 DEF Finish, ScanTypeOK
    <2>2. result' \in Results /\ call' = Idle
      BY <1>3, <2>1 DEF Finish, Return, Results, ScanTypeOK
    <2> QED
      BY <1>3, <2>2 DEF Finish, Return, ScanTypeOK
  <1>4. CASE Skip
    BY <1>0, <1>4 DEF Skip, AtEnd, ScanTypeOK, Calls
  <1>5. CASE Take
    <2>1. ElementEnd \in Nat
      BY TokenIs DEF ElementEnd, ScanTypeOK
    <2> QED
      BY <1>0, <1>5, <2>1 DEF Take, AtEnd, ScanTypeOK, Calls
  <1>6. CASE Found
    <2>1. call \in Calls
      BY <1>6 DEF Found, ScanTypeOK
    <2>2. result' \in Results /\ call' = Idle
      BY <1>6, <2>1 DEF Found, Return, Results, ScanTypeOK
    <2> QED
      BY <1>6, <2>2 DEF Found, Return, ScanTypeOK
  <1>7. CASE UNCHANGED scanVars
    BY <1>7 DEF scanVars, ScanTypeOK
  <1> QED
    BY <1>1, <1>2, <1>3, <1>4, <1>5, <1>6, <1>7 DEF ScanNext, ScanStep

\* A walker stays in the token list and leaves the list alone (json_parser.c:96
\* to :308).
THEOREM ScanTypeCorrect == ScanSpec => []ScanTypeOK
  <1>1. ScanInit => ScanTypeOK
    <2> SUFFICES ASSUME ScanInit PROVE ScanTypeOK
      OBVIOUS
    <2>1. json \in ListsOf(0)
      BY DEF ScanInit, ListsOf
    <2>2. json \in TokenLists
      BY <2>1 DEF TokenLists
    <2> QED
      BY <2>2 DEF ScanInit, ScanTypeOK
  <1>2. ScanTypeOK /\ [ScanNext]_scanVars => ScanTypeOK'
    BY ScanTypeStep
  <1> QED
    BY <1>1, <1>2, PTL DEF ScanSpec

LEMMA ExactStep ==
    ASSUME ScanTypeOK, ScanInv, ScanIsExact, [ScanNext]_scanVars
    PROVE  ScanInv' /\ ScanIsExact'
  <1> DEFINE Inv == ScanInv /\ ScanIsExact
  <1>0. json \in TokenLists /\ json.numberOfTokens \in Nat
    BY ListShape DEF ScanTypeOK
  <1>1. ASSUME NEW d \in TokenLists, Load(d) PROVE Inv'
    BY <1>1 DEF Load, ScanInv, ScanIsExact
  <1>2. ASSUME NEW f \in ArrayWalkers \cup ObjectWalkers, NEW i \in Nat, NEW n \in Nat,
               NEW k \in Strings, Call(f, i, n, k)
        PROVE  Inv'
    <2> DEFINE c == [fn |-> f, at |-> i, nth |-> n, key |-> k]
    <2>1. c \in Calls /\ c.at = i /\ c.fn = f
      BY DEF Calls
    <2>2. CASE /\ Refused(c) /\ result' = [call |-> c, err |-> "parser_no_data", value |-> 0]
               /\ UNCHANGED <<call, token_index, prev_element_end, element_count>>
      <3>1. call' = Idle /\ json' = json /\ result'.call = c
        BY <1>2, <2>2 DEF Call
      <3>2. ~Meant(json, c)
        <4>1. ASSUME c.at < json.numberOfTokens, c.fn = "object_get_value",
                     token(c.at).type # "JSMN_OBJECT"
              PROVE  ~Meant(json, c)
          BY <2>1, <4>1, TokenIs DEF Meant
        <4>2. ASSUME c.at >= json.numberOfTokens PROVE ~Meant(json, c)
          BY <1>0, <2>1, <4>2 DEF Meant
        <4> QED
          BY <1>0, <2>1, <2>2, <4>1, <4>2 DEF Refused
      <3> QED
        BY <3>1, <3>2 DEF ScanInv, ScanIsExact
    <2>3. CASE /\ ~Refused(c) /\ call' = c /\ result' = NoResult
               /\ token_index' = i + 1 /\ prev_element_end' = token(i).start
               /\ element_count' = 0
      <3>1. i < json.numberOfTokens
        BY <1>0, <2>1, <2>3 DEF Refused
      <3>2. token(i).start = json.tokens[c.at].start
        BY <2>1, <3>1, TokenIs
      <3>3. Loop(json, c, c.at + 1, json.tokens[c.at].start, 0)
        BY <1>0, <2>1, LoopStart
      <3>4. json' = json
        BY <1>2 DEF Call
      <3>5. Loop(json', call', token_index', prev_element_end', element_count')
        BY <2>1, <2>3, <3>2, <3>3, <3>4
      <3> QED
        BY <2>3, <3>5 DEF ScanInv, ScanIsExact
    <2> QED
      BY <1>2, <2>2, <2>3 DEF Call
  <1>3. ASSUME call # Idle PROVE /\ call \in Calls /\ call.at \in Nat
                                 /\ token_index \in call.at + 1 .. json.numberOfTokens
                                 /\ token(call.at) = json.tokens[call.at]
    BY <1>0, <1>3, TokenIs DEF ScanTypeOK, Calls
  <1>4. ASSUME call # Idle, ~AtEnd
        PROVE  /\ token_index \in call.at + 1 .. json.numberOfTokens - 1
               /\ token(token_index) = json.tokens[token_index]
               /\ json.tokens[token_index].start <= json.tokens[call.at].end
    <2>1. token_index < json.numberOfTokens /\ token_index \in Nat
      BY <1>0, <1>3, <1>4 DEF AtEnd, ScanTypeOK
    <2>2. token(token_index) = json.tokens[token_index]
      BY <2>1, TokenIs
    <2>3. token(token_index).start \in Nat /\ token(call.at).end \in Nat
      BY <1>3, <1>4, <2>1, TokenIs
    <2>4. ~(token(token_index).start > token(call.at).end)
      BY <1>4 DEF AtEnd
    <2> QED
      BY <1>0, <1>3, <1>4, <2>1, <2>2, <2>3, <2>4
  <1>5. CASE Finish
    <2>1. call # Idle /\ json' = json /\ call' = Idle
      BY <1>5 DEF Finish, Return
    <2>2. ASSUME IsJson(json), Meant(json, call) PROVE Right(json, result')
      <3>1. Loop(json, call, token_index, prev_element_end, element_count)
        BY <2>1, <2>2 DEF ScanInv
      <3>2. \/ token_index >= json.numberOfTokens
            \/ call.fn = "object_get_value" /\ token_index + 1 >= json.numberOfTokens
            \/ json.tokens[token_index].start > json.tokens[call.at].end
        BY <1>0, <1>3, <1>5, <2>1, TokenIs DEF Finish, AtEnd, ScanTypeOK
      <3>3. prev_element_end \in Nat /\ element_count \in Nat
        BY DEF ScanTypeOK
      <3>4. /\ call.fn \in Counters =>
                  Right(json, [call |-> call, err |-> "parser_ok", value |-> element_count])
            /\ call.fn \notin Counters =>
                  Right(json, [call |-> call, err |-> "parser_no_data", value |-> 0])
        BY <1>0, <1>3, <2>1, <2>2, <3>1, <3>2, <3>3, LoopDone
      <3> QED
        BY <1>5, <3>4 DEF Finish, Return
    <2>3. result'.call = call
      BY <1>5 DEF Finish, Return
    <2> QED
      BY <2>1, <2>2, <2>3 DEF ScanInv, ScanIsExact, Right
  <1>6. CASE Skip
    <2>1. /\ call # Idle /\ ~AtEnd /\ Inner /\ token_index' = token_index + 1
          /\ UNCHANGED <<json, call, prev_element_end, element_count, result>>
      BY <1>6 DEF Skip
    <2>2. ASSUME IsJson(json), Meant(json, call)
          PROVE  Loop(json, call, token_index + 1, prev_element_end, element_count)
      <3>1. Loop(json, call, token_index, prev_element_end, element_count)
        BY <2>1, <2>2 DEF ScanInv
      <3>2. json.tokens[token_index].start <= prev_element_end
        BY <1>4, <2>1 DEF Inner
      <3>3. prev_element_end \in Nat /\ element_count \in Nat
        BY DEF ScanTypeOK
      <3> QED
        BY <1>0, <1>3, <1>4, <2>1, <2>2, <3>1, <3>2, <3>3, LoopSkip
    <2> QED
      BY <2>1, <2>2 DEF ScanInv, ScanIsExact
  <1>7. CASE Take
    <2>1. /\ call # Idle /\ ~AtEnd /\ ~Inner /\ ~Wanted
          /\ token_index' = token_index + 1
          /\ prev_element_end' = ElementEnd /\ element_count' = element_count + 1
          /\ UNCHANGED <<json, call, result>>
      BY <1>7 DEF Take
    <2>2. ASSUME IsJson(json), Meant(json, call)
          PROVE  Loop(json, call, token_index + 1, ElementEnd, element_count + 1)
      <3>1. Loop(json, call, token_index, prev_element_end, element_count)
        BY <2>1, <2>2 DEF ScanInv
      <3>2. ~(json.tokens[token_index].start <= prev_element_end)
        BY <1>4, <2>1 DEF Inner
      <3>3. prev_element_end \in Nat /\ element_count \in Nat
        BY DEF ScanTypeOK
      <3>4. /\ call.fn \in ByNumber => element_count # call.nth
            /\ call.fn = "object_get_value" => json.tokens[token_index].text # call.key
        BY <1>4, <2>1 DEF Wanted
      <3>5. ElementEnd = IF call.fn \in ArrayWalkers THEN json.tokens[token_index].end
                         ELSE json.tokens[token_index + 1].end
        <4>1. CASE call.fn \in ArrayWalkers
          BY <1>4, <2>1, <4>1 DEF ElementEnd
        <4>2. CASE call.fn \notin ArrayWalkers
          <5>1. call.fn \in ObjectWalkers
            BY <1>3, <2>1, <4>2 DEF Calls
          <5>2. token_index \in Walked(json, call)
            BY <1>0, <1>3, <1>4, <2>1, <2>2, <3>1, <3>2, <3>3, LoopPass
          <5>3. token_index \in Elements(json, call.at) /\ token_index \in json.names
            BY <4>2, <5>2 DEF Walked, Members
          <5>4. json.tokens[call.at].type = "JSMN_OBJECT" /\ call.at \in DOMAIN json.tokens
            BY <1>0, <1>3, <2>1, <2>2, <5>1, ListShape DEF Meant
          <5>5. token_index + 1 \in Elements(json, call.at)
            BY <2>2, <5>3, <5>4 DEF IsJson, Alternates
          <5>6. token_index + 1 < json.numberOfTokens /\ token_index + 1 \in Nat
            BY <1>0, <1>3, <2>1, <5>5, ElementsFinite
          <5>7. token(token_index + 1) = json.tokens[token_index + 1]
            BY <5>6, TokenIs
          <5> QED
            BY <4>2, <5>7 DEF ElementEnd
        <4> QED
          BY <4>1, <4>2
      <3> QED
        BY <1>0, <1>3, <1>4, <2>1, <2>2, <3>1, <3>2, <3>3, <3>4, <3>5, LoopTake
    <2> QED
      BY <2>1, <2>2 DEF ScanInv, ScanIsExact
  <1>8. CASE Found
    <2>1. call # Idle /\ ~AtEnd /\ ~Inner /\ Wanted /\ json' = json /\ call' = Idle
      BY <1>8 DEF Found, Return
    <2>2. ASSUME IsJson(json), Meant(json, call) PROVE Right(json, result')
      <3>1. Loop(json, call, token_index, prev_element_end, element_count)
        BY <2>1, <2>2 DEF ScanInv
      <3>2. ~(json.tokens[token_index].start <= prev_element_end)
        BY <1>4, <2>1 DEF Inner
      <3>3. prev_element_end \in Nat /\ element_count \in Nat
        BY DEF ScanTypeOK
      <3>4. \/ call.fn \in ByNumber /\ element_count = call.nth
            \/ call.fn = "object_get_value" /\ json.tokens[token_index].text = call.key
        BY <1>4, <2>1 DEF Wanted
      <3> DEFINE v == IF call.fn \in {"object_get_nth_value", "object_get_value"}
                      THEN token_index + 1 ELSE token_index
      <3>5. Right(json, [call |-> call, err |-> "parser_ok", value |-> v])
        BY <1>0, <1>3, <1>4, <2>1, <2>2, <3>1, <3>2, <3>3, <3>4, LoopFound
      <3> QED
        BY <1>8, <3>5 DEF Found, Return
    <2>3. result'.call = call
      BY <1>8 DEF Found, Return
    <2> QED
      BY <2>1, <2>2, <2>3 DEF ScanInv, ScanIsExact, Right
  <1>9. CASE UNCHANGED scanVars
    BY <1>9 DEF scanVars, ScanInv, ScanIsExact
  <1> QED
    BY <1>1, <1>2, <1>5, <1>6, <1>7, <1>8, <1>9 DEF ScanNext, ScanStep

\* In every JSON text, a walker counts and finds exactly the elements of its
\* container (json_parser.c:96 to :308).
THEOREM WalkersAreExact == ScanSpec => []ScanIsExact
  <1> DEFINE Inv == ScanInv /\ ScanIsExact
  <1>1. ScanInit => Inv
    BY DEF ScanInit, ScanInv, ScanIsExact
  <1>2. ScanTypeOK /\ Inv /\ [ScanNext]_scanVars => Inv'
    BY ExactStep
  <1> QED
    BY <1>1, <1>2, ScanTypeCorrect, PTL DEF ScanSpec
=============================================================================
