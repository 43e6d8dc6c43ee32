---------------------------- MODULE TxWalkProofs ----------------------------
(***************************************************************************)
(* What tx_validate accepts is valid, what it rejects gives cause, and the *)
(* walk of what it accepts stays within the tokens and within its limits,  *)
(* for every set of texts.                                                 *)
(*                                                                         *)
(* StackInv describes the open calls of tx_traverse_find: all but the      *)
(* innermost wait for the call below, the levels left go down by one with  *)
(* each object on the way and the depth left with each call, and no call   *)
(* has gone on past the point where either is used up.                     *)
(*                                                                         *)
(* TreeInv says where in the tree of a JSON text the walk stands: each     *)
(* open call is in a container that the walk goes into, the call below it  *)
(* is in the child whose number it holds, the path names what leads there, *)
(* and the items met are those of the field that the walk has behind it.   *)
(* CountInv says what object_get_element_count has counted so far.         *)
(***************************************************************************)
EXTENDS TxWalk, TxValidateProofs

Steps == {"arrive", "counted", "loop", "name", "value", "element", "child"}
Frame == [at : Nat, step : Steps, el_count : Nat, i : Nat, key_len : Nat]

InWalk == {"walk", "found", "absent"}

FramesOK ==
    /\ stack \in Seq(Frame) /\ out_key \in Seq(Strings)
    /\ \A k \in DOMAIN stack : stack[k].at <= json.numberOfTokens
    \* The path holds what each call will go back to.
    /\ \A k \in DOMAIN stack : stack[k].key_len <= Len(out_key)
    /\ \A k \in DOMAIN stack : stack[k].step \notin {"arrive", "counted"} =>
          /\ stack[k].key_len >= 1
          /\ \A j \in DOMAIN stack : j < k => stack[j].key_len <= stack[k].key_len

\* lev[k] levels were left when call k was made.
LevelsOK(lev) ==
    /\ lev[1] = query.level
    /\ \A k \in DOMAIN stack :
          /\ k < Len(stack) => /\ stack[k].step = "child"
                               /\ lev[k + 1] = IF IsObject(json, stack[k].at) THEN lev[k] - 1 ELSE lev[k]
          /\ stack[k].step # "arrive" => lev[k] > 0 /\ k <= MAX_RECURSION_DEPTH
          /\ stack[k].step \in {"name", "value"} => IsObject(json, stack[k].at)
          /\ stack[k].step = "element" => ~IsObject(json, stack[k].at)
    /\ max_level = IF Top.step = "child" /\ IsObject(json, Top.at)
                   THEN lev[Len(stack)] - 1 ELSE lev[Len(stack)]
    /\ max_depth = MAX_RECURSION_DEPTH - (IF Top.step = "child" THEN Len(stack) ELSE Len(stack) - 1)

StackInv ==
    /\ phase \in Validating \cup {"accepted", "rejected"} \cup InWalk
    /\ FramesOK
    /\ max_level \in 0 .. 3 /\ max_depth \in 0 .. MAX_RECURSION_DEPTH
    /\ query \in [root : Nat, level : 0 .. 3, item_index : Nat]
    /\ query.root <= json.numberOfTokens
    /\ current \in Nat /\ current <= query.item_index
    /\ found \in Nat
    /\ phase \notin InWalk => stack = <<>>
    /\ phase \in {"walk", "found"} => out_key # <<>>
    /\ phase = "walk" => stack # <<>> /\ \E lev \in [Nat -> 0 .. 3] : LevelsOK(lev)

----------------------------------------------------------------------------
(* The stack of calls                                                      *)

LEMMA TopFrame ==
    ASSUME FramesOK, stack # <<>>
    PROVE  /\ stack \in Seq(Frame) /\ Len(stack) \in Nat /\ Len(stack) >= 1
           /\ DOMAIN stack = 1 .. Len(stack) /\ Len(stack) \in DOMAIN stack
           /\ Top \in Frame /\ Top = stack[Len(stack)]
           /\ Top.at \in Nat /\ Top.i \in Nat /\ Top.key_len \in Nat /\ Top.step \in Steps
           /\ Len(out_key) \in Nat
  <1>1. stack \in Seq(Frame) /\ out_key \in Seq(Strings)
    BY DEF FramesOK
  <1>2. Len(stack) \in Nat /\ Len(stack) >= 1 /\ DOMAIN stack = 1 .. Len(stack)
    BY <1>1
  <1>3. Top \in Frame
    BY <1>1, <1>2 DEF Top
  <1> QED
    BY <1>1, <1>2, <1>3 DEF Top, Frame

\* The innermost call goes on, perhaps on another path.
LEMMA BecomeKeeps ==
    ASSUME FramesOK, stack # <<>>, NEW f \in Frame, f.at = Top.at,
           Become(f), json' = json, out_key' \in Seq(Strings),
           \A k \in DOMAIN stack : k < Len(stack) => stack[k].key_len <= Len(out_key'),
           f.key_len <= Len(out_key'),
           f.step \notin {"arrive", "counted"} =>
                /\ f.key_len >= 1
                /\ \A j \in DOMAIN stack : j < Len(stack) => stack[j].key_len <= f.key_len
    PROVE  /\ FramesOK' /\ stack' # <<>> /\ Len(stack') = Len(stack)
           /\ DOMAIN stack' = DOMAIN stack
           /\ \A k \in DOMAIN stack : stack'[k] = IF k = Len(stack) THEN f ELSE stack[k]
  <1> DEFINE n == Len(stack)
  <1>1. /\ stack \in Seq(Frame) /\ n \in Nat /\ n >= 1 /\ DOMAIN stack = 1 .. n
        /\ Top = stack[n]
    BY TopFrame
  <1>2. stack' = [stack EXCEPT ![n] = f]
    BY DEF Become
  <1>3. stack' \in Seq(Frame) /\ Len(stack') = n /\ DOMAIN stack' = DOMAIN stack
    BY <1>1, <1>2
  <1>4. \A k \in DOMAIN stack : stack'[k] = IF k = n THEN f ELSE stack[k]
    BY <1>1, <1>2
  <1>5. \A k \in DOMAIN stack : stack'[k].at <= json'.numberOfTokens
    BY <1>1, <1>4 DEF FramesOK
  <1>6. \A k \in DOMAIN stack : stack'[k].key_len <= Len(out_key')
    BY <1>1, <1>4
  <1>7. ASSUME NEW k \in DOMAIN stack, stack'[k].step \notin {"arrive", "counted"}
        PROVE  /\ stack'[k].key_len >= 1
               /\ \A j \in DOMAIN stack : j < k => stack'[j].key_len <= stack'[k].key_len
    <2>1. CASE k = n
      BY <1>1, <1>4, <1>7, <2>1
    <2>2. CASE k # n
      <3>1. stack'[k] = stack[k] /\ k < n
        BY <1>1, <1>4, <2>2
      <3>2. \A j \in DOMAIN stack : j < k => stack'[j] = stack[j]
        BY <1>1, <1>4, <3>1
      <3> QED
        BY <1>7, <3>1, <3>2 DEF FramesOK
    <2> QED
      BY <2>1, <2>2
  <1>8. stack' # <<>>
    BY <1>1, <1>3
  <1> QED
    BY <1>3, <1>4, <1>5, <1>6, <1>7, <1>8 DEF FramesOK

\* The innermost call ends.
LEMMA LeaveKeeps ==
    ASSUME FramesOK, stack # <<>>, stack' = SubSeq(stack, 1, Len(stack) - 1),
           UNCHANGED <<json, out_key>>
    PROVE  /\ FramesOK' /\ Len(stack') = Len(stack) - 1
           /\ DOMAIN stack' = 1 .. Len(stack) - 1
           /\ \A k \in 1 .. Len(stack) - 1 : stack'[k] = stack[k] /\ k \in DOMAIN stack
  <1>1. PICK n : n = Len(stack)
    OBVIOUS
  <1>2. /\ stack \in Seq(Frame) /\ n \in Nat /\ n >= 1 /\ DOMAIN stack = 1 .. n
    BY <1>1, TopFrame
  <1>3. stack' = SubSeq(stack, 1, n - 1)
    BY <1>1
  <1>4. stack' \in Seq(Frame) /\ Len(stack') = n - 1
    BY <1>1, <1>2, <1>3
  <1>5. DOMAIN stack' = 1 .. n - 1
    BY <1>2, <1>4
  <1>6. \A k \in 1 .. n - 1 : k \in 1 .. n
    BY <1>2
  <1>7. \A k \in 1 .. n - 1 : stack'[k] = stack[k]
    BY <1>1, <1>2, <1>3
  <1>8. \A k \in DOMAIN stack' : stack'[k] = stack[k] /\ k \in DOMAIN stack
    BY <1>2, <1>5, <1>6, <1>7
  <1>9. \A k \in DOMAIN stack' : /\ stack'[k].at <= json'.numberOfTokens
                                 /\ stack'[k].key_len <= Len(out_key')
    BY <1>8 DEF FramesOK
  <1>10. \A k \in DOMAIN stack' : stack'[k].step \notin {"arrive", "counted"} =>
          /\ stack'[k].key_len >= 1
          /\ \A j \in DOMAIN stack' : j < k => stack'[j].key_len <= stack'[k].key_len
    BY <1>8 DEF FramesOK
  <1>11. out_key' \in Seq(Strings)
    BY DEF FramesOK
  <1>12. FramesOK'
    BY <1>4, <1>9, <1>10, <1>11 DEF FramesOK
  <1> QED
    BY <1>1, <1>4, <1>5, <1>8, <1>12

AsChild == [Top EXCEPT !.step = "child"]

\* A call is made for an element.
LEMMA DescendKeeps ==
    ASSUME FramesOK, stack # <<>>, Top.step \notin {"arrive", "counted"},
           NEW i \in Nat, i <= json.numberOfTokens, Descend(i),
           UNCHANGED <<json, out_key>>
    PROVE  /\ FramesOK' /\ stack' # <<>> /\ Len(stack') = Len(stack) + 1
           /\ DOMAIN stack' = 1 .. Len(stack) + 1
           /\ stack'[Len(stack) + 1] = Open(i)
           /\ stack'[Len(stack)].step = "child" /\ stack'[Len(stack)].at = Top.at
           /\ \A k \in 1 .. Len(stack) - 1 : stack'[k] = stack[k] /\ k \in DOMAIN stack
  <1>1. PICK n : n = Len(stack)
    OBVIOUS
  <1>2. /\ stack \in Seq(Frame) /\ n \in Nat /\ n >= 1 /\ DOMAIN stack = 1 .. n
        /\ Top = stack[n] /\ Top \in Frame /\ n \in DOMAIN stack
    BY <1>1, TopFrame
  <1>3. PICK f : f = AsChild
    OBVIOUS
  <1>4. f \in Frame /\ f.step = "child" /\ f.at = Top.at /\ f.key_len = Top.key_len
    BY <1>2, <1>3 DEF Frame, Steps, AsChild
  <1>5. PICK g : g = Open(i)
    OBVIOUS
  <1>6. g \in Frame /\ g.at = i /\ g.key_len = 0 /\ g.step = "arrive"
    BY <1>5 DEF Frame, Steps, Open
  <1>7. PICK s : s = [stack EXCEPT ![n] = f]
    OBVIOUS
  <1>8. [stack EXCEPT ![Len(stack)].step = "child"] = s
    BY <1>1, <1>2, <1>3, <1>7 DEF AsChild
  <1>9. stack' = Append(s, g)
    BY <1>5, <1>8, Zenon DEF Descend
  <1>10. s \in Seq(Frame) /\ Len(s) = n
    BY <1>1, <1>2, <1>4, <1>7
  <1>11. \A k \in 1 .. n : s[k] = IF k = n THEN f ELSE stack[k]
    BY <1>2, <1>7
  <1>12. stack' \in Seq(Frame) /\ Len(stack') = n + 1
    BY <1>6, <1>9, <1>10
  <1>13. DOMAIN stack' = 1 .. n + 1 /\ n + 1 \in 1 .. n + 1 /\ n \in 1 .. n
    BY <1>2, <1>12
  <1>14. stack'[n + 1] = g /\ \A k \in 1 .. n : stack'[k] = s[k]
    BY <1>2, <1>6, <1>9, <1>10
  <1>15. \A k \in 1 .. n : stack'[k] = IF k = n THEN f ELSE stack[k]
    BY <1>11, <1>14
  <1>16. \A k \in 1 .. n : stack'[k].key_len = stack[k].key_len /\ stack'[k].at = stack[k].at
    BY <1>2, <1>4, <1>15
  <1>17. \A k \in 1 .. n + 1 : k = n + 1 \/ k \in 1 .. n
    BY <1>2
  <1>18. \A k \in DOMAIN stack' : /\ stack'[k].at <= json'.numberOfTokens
                                  /\ stack'[k].key_len <= Len(out_key')
    <2>1. Len(out_key) \in Nat
      BY TopFrame
    <2>2. \A k \in 1 .. n : stack'[k].at <= json'.numberOfTokens /\ stack'[k].key_len <= Len(out_key')
      BY <1>2, <1>16 DEF FramesOK
    <2>3. stack'[n + 1].at <= json'.numberOfTokens /\ stack'[n + 1].key_len <= Len(out_key')
      BY <1>6, <1>14, <2>1
    <2> QED
      BY <1>13, <1>17, <2>2, <2>3
  <1>19. \A k \in 1 .. n : stack'[k].step \notin {"arrive", "counted"} =>
              stack[k].step \notin {"arrive", "counted"}
    BY <1>2, <1>15
  <1>20. \A k \in 1 .. n : stack'[k].step \notin {"arrive", "counted"} =>
          /\ stack'[k].key_len >= 1
          /\ \A j \in 1 .. n : j < k => stack'[j].key_len <= stack'[k].key_len
    BY <1>2, <1>16, <1>19 DEF FramesOK
  <1>21. stack'[n + 1].step = "arrive" /\ stack'[n].step = "child" /\ stack'[n].at = Top.at
    BY <1>4, <1>6, <1>13, <1>14, <1>15
  <1>22. ASSUME NEW k \in 1 .. n + 1, stack'[k].step \notin {"arrive", "counted"}
         PROVE  /\ stack'[k].key_len >= 1
                /\ \A j \in 1 .. n + 1 : j < k => stack'[j].key_len <= stack'[k].key_len
    <2>1. k \in 1 .. n
      BY <1>17, <1>21, <1>22
    <2>2. \A j \in 1 .. n + 1 : j < k => j \in 1 .. n
      BY <1>2, <2>1
    <2> QED
      BY <1>20, <1>22, <2>1, <2>2
  <1>23. stack' # <<>> /\ out_key' \in Seq(Strings)
    BY <1>2, <1>12 DEF FramesOK
  <1>24. \A k \in 1 .. n - 1 : k \in 1 .. n /\ k # n
    BY <1>2
  <1>25. \A k \in 1 .. n - 1 : stack'[k] = stack[k] /\ k \in DOMAIN stack
    BY <1>2, <1>15, <1>24
  <1>26. FramesOK'
    BY <1>12, <1>13, <1>18, <1>22, <1>23 DEF FramesOK
  <1> QED
    BY <1>1, <1>5, <1>12, <1>13, <1>14, <1>21, <1>23, <1>25, <1>26

----------------------------------------------------------------------------
(* The limits                                                              *)

LEMMA ObjectToken ==
    \A i : token(i).type = "JSMN_OBJECT" <=> IsObject(json, i)
  BY DEF token, Unused, IsObject

\* What the limits say of the innermost call.
LEMMA TopLimits ==
    ASSUME FramesOK, stack # <<>>, NEW lev \in [Nat -> 0 .. 3], LevelsOK(lev)
    PROVE  /\ lev[Len(stack)] \in 0 .. 3 /\ lev[Len(stack) + 1] \in 0 .. 3
           /\ Top.step # "arrive" => lev[Len(stack)] > 0 /\ Len(stack) <= MAX_RECURSION_DEPTH
           /\ Top.step # "child" => /\ max_level = lev[Len(stack)]
                                    /\ max_depth = MAX_RECURSION_DEPTH - (Len(stack) - 1)
           /\ Top.step = "child" => max_depth = MAX_RECURSION_DEPTH - Len(stack)
           /\ Top.step = "child" /\ IsObject(json, Top.at) => max_level = lev[Len(stack)] - 1
           /\ Top.step = "child" /\ ~IsObject(json, Top.at) => max_level = lev[Len(stack)]
           /\ Top.step \in {"name", "value"} => IsObject(json, Top.at)
           /\ Top.step = "element" => ~IsObject(json, Top.at)
  <1>1. Len(stack) \in Nat /\ Len(stack) \in DOMAIN stack /\ Top = stack[Len(stack)]
    BY TopFrame
  <1>2. lev[Len(stack)] \in 0 .. 3 /\ lev[Len(stack) + 1] \in 0 .. 3
    BY <1>1
  <1>3. max_level = IF Top.step = "child" /\ IsObject(json, Top.at)
                    THEN lev[Len(stack)] - 1 ELSE lev[Len(stack)]
    BY DEF LevelsOK
  <1>4. max_depth = MAX_RECURSION_DEPTH - (IF Top.step = "child" THEN Len(stack) ELSE Len(stack) - 1)
    BY DEF LevelsOK
  <1>5. /\ Top.step # "arrive" => lev[Len(stack)] > 0 /\ Len(stack) <= MAX_RECURSION_DEPTH
        /\ Top.step \in {"name", "value"} => IsObject(json, Top.at)
        /\ Top.step = "element" => ~IsObject(json, Top.at)
    BY <1>1 DEF LevelsOK
  <1> QED
    BY <1>2, <1>3, <1>4, <1>5

\* The innermost call goes on.
LEMMA LevelsBecome ==
    ASSUME FramesOK, stack # <<>>, NEW lev \in [Nat -> 0 .. 3], LevelsOK(lev),
           NEW f \in Frame, f.at = Top.at,
           Len(stack') = Len(stack), DOMAIN stack' = DOMAIN stack,
           \A k \in DOMAIN stack : stack'[k] = IF k = Len(stack) THEN f ELSE stack[k],
           UNCHANGED <<json, query>>,
           f.step # "arrive" => lev[Len(stack)] > 0 /\ Len(stack) <= MAX_RECURSION_DEPTH,
           f.step \in {"name", "value"} => IsObject(json, f.at),
           f.step = "element" => ~IsObject(json, f.at),
           f.step # "child",
           max_level' = lev[Len(stack)],
           max_depth' = MAX_RECURSION_DEPTH - (Len(stack) - 1)
    PROVE  LevelsOK(lev)'
  <1>1. PICK n : n = Len(stack)
    OBVIOUS
  <1>2. n \in Nat /\ n >= 1 /\ DOMAIN stack = 1 .. n /\ n \in DOMAIN stack /\ Top = stack[n]
    BY <1>1, TopFrame
  <1>3. Len(stack') = n /\ \A k \in DOMAIN stack : stack'[k] = IF k = n THEN f ELSE stack[k]
    BY <1>1
  <1>4. json' = json
    OBVIOUS
  <1>5. Top' = f
    BY <1>2, <1>3 DEF Top
  <1>6. /\ lev[1] = query'.level
        /\ max_level' = IF Top'.step = "child" /\ IsObject(json, f.at)
                        THEN lev[n] - 1 ELSE lev[n]
        /\ max_depth' = MAX_RECURSION_DEPTH - (IF Top'.step = "child" THEN n ELSE n - 1)
    BY <1>1, <1>5 DEF LevelsOK
  <1>7. ASSUME NEW k \in DOMAIN stack
        PROVE  /\ k < n => /\ stack'[k].step = "child"
                           /\ lev[k + 1] = IF IsObject(json, stack'[k].at) THEN lev[k] - 1 ELSE lev[k]
               /\ stack'[k].step # "arrive" => lev[k] > 0 /\ k <= MAX_RECURSION_DEPTH
               /\ stack'[k].step \in {"name", "value"} => IsObject(json, stack'[k].at)
               /\ stack'[k].step = "element" => ~IsObject(json, stack'[k].at)
    <2>1. CASE k = n
      BY <1>1, <1>2, <1>3, <1>4, <2>1
    <2>2. CASE k # n
      <3>1. stack'[k] = stack[k]
        BY <1>3, <2>2
      <3> QED
        BY <1>1, <1>4, <3>1 DEF LevelsOK
    <2> QED
      BY <2>1, <2>2
  <1> QED
    BY <1>3, <1>5, <1>6, <1>7 DEF LevelsOK

\* A call for an element: one level less below an object.
LEMMA LevelsDescend ==
    ASSUME FramesOK, stack # <<>>, NEW lev \in [Nat -> 0 .. 3], LevelsOK(lev),
           Top.step \notin {"arrive", "child"}, NEW i \in Nat,
           Len(stack') = Len(stack) + 1, DOMAIN stack' = 1 .. Len(stack) + 1,
           stack'[Len(stack) + 1] = Open(i),
           stack'[Len(stack)].step = "child", stack'[Len(stack)].at = Top.at,
           \A k \in 1 .. Len(stack) - 1 : stack'[k] = stack[k] /\ k \in DOMAIN stack,
           UNCHANGED <<json, query>>,
           max_level' = IF IsObject(json, Top.at) THEN max_level - 1 ELSE max_level,
           max_depth' = max_depth - 1
    PROVE  /\ \E l \in [Nat -> 0 .. 3] : LevelsOK(l)'
           /\ max_level' \in 0 .. 3 /\ max_depth' \in 0 .. MAX_RECURSION_DEPTH
  <1>1. PICK n : n = Len(stack)
    OBVIOUS
  <1>2. /\ n \in Nat /\ n >= 1 /\ DOMAIN stack = 1 .. n /\ n \in DOMAIN stack /\ Top = stack[n]
    BY <1>1, TopFrame
  <1>3. /\ lev[n] \in 0 .. 3 /\ lev[n] > 0 /\ n <= MAX_RECURSION_DEPTH
        /\ max_level = lev[n] /\ max_depth = MAX_RECURSION_DEPTH - (n - 1)
    BY <1>1, TopLimits
  <1>4. PICK v : v = max_level'
    OBVIOUS
  <1>5. v \in 0 .. 3 /\ max_depth' = MAX_RECURSION_DEPTH - n
        /\ max_depth' \in 0 .. MAX_RECURSION_DEPTH
    BY <1>2, <1>3, <1>4, WalkAssumption
  <1>6. PICK l : l = [lev EXCEPT ![n + 1] = v]
    OBVIOUS
  <1>7. l \in [Nat -> 0 .. 3]
    BY <1>5, <1>6
  <1>8. l[n + 1] = v /\ \A k \in 1 .. n : l[k] = lev[k]
    BY <1>2, <1>6
  <1>9. json' = json
    OBVIOUS
  <1>10. /\ Len(stack') = n + 1 /\ DOMAIN stack' = 1 .. n + 1 /\ n + 1 \in 1 .. n + 1
         /\ stack'[n].step = "child" /\ stack'[n].at = Top.at
         /\ \A k \in 1 .. n - 1 : stack'[k] = stack[k]
    BY <1>1, <1>2
  <1>11. Top' = Open(i) /\ Top'.step = "arrive"
    BY <1>1, <1>10 DEF Top, Open
  <1>12. stack'[n + 1].step = "arrive"
    BY <1>10, <1>11 DEF Top
  <1>13. l[n + 1] = IF IsObject(json, stack'[n].at) THEN l[n] - 1 ELSE l[n]
    BY <1>2, <1>3, <1>4, <1>8, <1>9, <1>10
  <1>14. ASSUME NEW k \in 1 .. n + 1
         PROVE  /\ k < n + 1 => /\ stack'[k].step = "child"
                                /\ l[k + 1] = IF IsObject(json, stack'[k].at) THEN l[k] - 1 ELSE l[k]
                /\ stack'[k].step # "arrive" => l[k] > 0 /\ k <= MAX_RECURSION_DEPTH
                /\ stack'[k].step \in {"name", "value"} => IsObject(json, stack'[k].at)
                /\ stack'[k].step = "element" => ~IsObject(json, stack'[k].at)
    <2>1. CASE k = n + 1
      BY <1>2, <1>12, <2>1
    <2>2. CASE k = n
      BY <1>2, <1>3, <1>8, <1>10, <1>13, <2>2
    <2>3. CASE k \in 1 .. n - 1
      <3>1. stack'[k] = stack[k] /\ l[k] = lev[k] /\ l[k + 1] = lev[k + 1] /\ k < n /\ k \in DOMAIN stack
        BY <1>2, <1>8, <1>10, <2>3, SMTT(60)
      <3>2. /\ stack[k].step = "child"
            /\ lev[k + 1] = IF IsObject(json, stack[k].at) THEN lev[k] - 1 ELSE lev[k]
            /\ stack[k].step # "arrive" => lev[k] > 0 /\ k <= MAX_RECURSION_DEPTH
        BY <1>1, <3>1 DEF LevelsOK
      <3> QED
        BY <1>9, <3>1, <3>2
    <2> QED
      BY <1>2, <2>1, <2>2, <2>3
  <1>15. l[1] = query'.level
    BY <1>2, <1>8 DEF LevelsOK
  <1>16. /\ Top'.step # "child" /\ max_level' = l[Len(stack')]
         /\ max_depth' = MAX_RECURSION_DEPTH - (Len(stack') - 1)
    BY <1>2, <1>4, <1>5, <1>8, <1>10, <1>11
  <1>17. LevelsOK(l)'
    BY <1>10, <1>14, <1>15, <1>16 DEF LevelsOK
  <1> QED
    BY <1>4, <1>5, <1>7, <1>17

\* A call returns to the one that waits for it.
LEMMA LevelsLeave ==
    ASSUME FramesOK, stack # <<>>, NEW lev \in [Nat -> 0 .. 3], LevelsOK(lev),
           Top.step # "child", Len(stack) # 1,
           Len(stack') = Len(stack) - 1, DOMAIN stack' = 1 .. Len(stack) - 1,
           \A k \in 1 .. Len(stack) - 1 : stack'[k] = stack[k] /\ k \in DOMAIN stack,
           UNCHANGED <<json, query, max_level, max_depth>>
    PROVE  LevelsOK(lev)'
  <1>1. PICK n : n = Len(stack)
    OBVIOUS
  <1>2. /\ n \in Nat /\ n > 1 /\ n - 1 \in DOMAIN stack /\ n - 1 \in 1 .. n - 1 /\ n - 1 < n
    BY <1>1, TopFrame
  <1>3. lev[n] \in 0 .. 3 /\ max_level = lev[n] /\ max_depth = MAX_RECURSION_DEPTH - (n - 1)
    BY <1>1, TopLimits
  <1>4. json' = json
    OBVIOUS
  <1>5. /\ Len(stack') = n - 1 /\ DOMAIN stack' = 1 .. n - 1
        /\ \A k \in 1 .. n - 1 : stack'[k] = stack[k] /\ k \in DOMAIN stack /\ k < n
    BY <1>1, <1>2
  <1>6. Top' = stack[n - 1]
    BY <1>2, <1>5 DEF Top
  <1>7. /\ stack[n - 1].step = "child"
        /\ lev[(n - 1) + 1] = IF IsObject(json, stack[n - 1].at) THEN lev[n - 1] - 1 ELSE lev[n - 1]
    BY <1>1, <1>2 DEF LevelsOK
  <1>8. (n - 1) + 1 = n
    BY <1>2
  <1>9. /\ max_level' = IF Top'.step = "child" /\ IsObject(json, stack[n - 1].at)
                        THEN lev[Len(stack')] - 1 ELSE lev[Len(stack')]
        /\ max_depth' = MAX_RECURSION_DEPTH
                            - (IF Top'.step = "child" THEN Len(stack') ELSE Len(stack') - 1)
    BY <1>3, <1>4, <1>5, <1>6, <1>7, <1>8
  <1>10. ASSUME NEW k \in 1 .. n - 1
         PROVE  /\ k < n - 1 => /\ stack'[k].step = "child"
                                /\ lev[k + 1] = IF IsObject(json, stack'[k].at) THEN lev[k] - 1 ELSE lev[k]
                /\ stack'[k].step # "arrive" => lev[k] > 0 /\ k <= MAX_RECURSION_DEPTH
                /\ stack'[k].step \in {"name", "value"} => IsObject(json, stack'[k].at)
                /\ stack'[k].step = "element" => ~IsObject(json, stack'[k].at)
    <2>1. stack'[k] = stack[k] /\ k \in DOMAIN stack /\ k < n
      BY <1>5
    <2> QED
      BY <1>1, <1>4, <2>1 DEF LevelsOK
  <1>11. lev[1] = query'.level
    BY DEF LevelsOK
  <1> QED
    BY <1>5, <1>6, <1>9, <1>10, <1>11 DEF LevelsOK

----------------------------------------------------------------------------
(* The steps of the walk                                                   *)

LEMMA Walks ==
    ASSUME StackInv, phase = "walk"
    PROVE  /\ FramesOK /\ stack # <<>> /\ out_key \in Seq(Strings) /\ out_key # <<>>
           /\ Len(out_key) \in Nat /\ Len(out_key) >= 1
           /\ max_level \in 0 .. 3 /\ max_depth \in 0 .. MAX_RECURSION_DEPTH
           /\ Len(stack) \in Nat /\ Len(stack) >= 1
  <1>1. FramesOK /\ stack # <<>> /\ out_key # <<>>
    BY DEF StackInv
  <1>2. out_key \in Seq(Strings)
    BY <1>1 DEF FramesOK
  <1>3. Len(out_key) \in Nat /\ Len(out_key) >= 1
    BY <1>1, <1>2
  <1> QED
    BY <1>1, <1>2, <1>3, TopFrame DEF StackInv

\* The innermost call goes on.
LEMMA GoesOn ==
    ASSUME StackInv, phase = "walk", NEW lev \in [Nat -> 0 .. 3], LevelsOK(lev),
           NEW f \in Frame, f.at = Top.at, Become(f), json' = json,
           UNCHANGED <<phase, query, current, found>>,
           out_key' \in Seq(Strings), out_key' # <<>>,
           \A k \in DOMAIN stack : k < Len(stack) => stack[k].key_len <= Len(out_key'),
           f.key_len <= Len(out_key'),
           f.step \notin {"arrive", "counted"} =>
                /\ f.key_len >= 1
                /\ \A j \in DOMAIN stack : j < Len(stack) => stack[j].key_len <= f.key_len,
           f.step # "arrive" => lev[Len(stack)] > 0 /\ Len(stack) <= MAX_RECURSION_DEPTH,
           f.step \in {"name", "value"} => IsObject(json, f.at),
           f.step = "element" => ~IsObject(json, f.at),
           f.step # "child",
           max_level' = lev[Len(stack)],
           max_depth' = MAX_RECURSION_DEPTH - (Len(stack) - 1)
    PROVE  StackInv' /\ phase' \in InWalk
  <1>1. FramesOK /\ stack # <<>> /\ max_level \in 0 .. 3
    BY Walks
  <1>2. /\ FramesOK' /\ stack' # <<>> /\ Len(stack') = Len(stack)
        /\ DOMAIN stack' = DOMAIN stack
        /\ \A k \in DOMAIN stack : stack'[k] = IF k = Len(stack) THEN f ELSE stack[k]
    BY <1>1, BecomeKeeps
  <1>3. LevelsOK(lev)'
    BY <1>1, <1>2, LevelsBecome
  <1>4. Len(stack) \in Nat /\ Len(stack) >= 1 /\ lev[Len(stack)] \in 0 .. 3
    BY <1>1, TopFrame
  <1>5. Len(stack) - 1 <= MAX_RECURSION_DEPTH
    <2>1. CASE Len(stack) = 1
      BY <2>1, WalkAssumption
    <2>2. CASE Len(stack) # 1
      <3>1. PICK k : k = Len(stack) - 1
        OBVIOUS
      <3>2. k \in DOMAIN stack /\ k < Len(stack)
        BY <1>1, <1>4, <2>2, <3>1, TopFrame
      <3>3. stack[k].step = "child" /\ (stack[k].step # "arrive" => k <= MAX_RECURSION_DEPTH)
        BY <3>2 DEF LevelsOK
      <3> QED
        BY <3>1, <3>3
    <2> QED
      BY <2>1, <2>2
  <1>6. max_level' \in 0 .. 3 /\ max_depth' \in 0 .. MAX_RECURSION_DEPTH
    BY <1>4, <1>5, WalkAssumption
  <1>7. phase' = "walk"
    OBVIOUS
  <1>8. \E l \in [Nat -> 0 .. 3] : LevelsOK(l)'
    BY <1>3
  <1>9. /\ query' \in [root : Nat, level : 0 .. 3, item_index : Nat]
        /\ query'.root <= json'.numberOfTokens
        /\ current' \in Nat /\ current' <= query'.item_index /\ found' \in Nat
    BY DEF StackInv
  <1> QED
    BY <1>2, <1>6, <1>7, <1>8, <1>9 DEF StackInv, InWalk

\* The innermost call returns without a result.
LEMMA Leaves ==
    ASSUME StackInv, phase = "walk", Top.step # "child", Leave, json' = json,
           UNCHANGED <<max_level, max_depth, out_key, query, found>>,
           current' \in Nat, current' <= query.item_index
    PROVE  StackInv' /\ phase' \in InWalk
  <1>1. FramesOK /\ stack # <<>> /\ out_key # <<>>
    BY Walks
  <1>2. PICK lev \in [Nat -> 0 .. 3] : LevelsOK(lev)
    BY DEF StackInv
  <1>3. /\ FramesOK' /\ Len(stack') = Len(stack) - 1
        /\ DOMAIN stack' = 1 .. Len(stack) - 1
        /\ \A k \in 1 .. Len(stack) - 1 : stack'[k] = stack[k] /\ k \in DOMAIN stack
    BY <1>1, LeaveKeeps DEF Leave
  <1>4. /\ query' \in [root : Nat, level : 0 .. 3, item_index : Nat]
        /\ query'.root <= json'.numberOfTokens /\ current' <= query'.item_index
        /\ found' \in Nat /\ out_key' # <<>>
        /\ max_level' \in 0 .. 3 /\ max_depth' \in 0 .. MAX_RECURSION_DEPTH
    BY <1>1 DEF StackInv
  <1>5. CASE Len(stack) = 1
    <2>1. phase' = "absent"
      BY <1>5 DEF Leave, GoOn
    <2> QED
      BY <1>3, <1>4, <2>1 DEF StackInv, InWalk
  <1>6. CASE Len(stack) # 1
    <2>1. phase' = "walk"
      BY <1>6 DEF Leave
    <2>2. LevelsOK(lev)'
      BY <1>1, <1>2, <1>3, <1>6, LevelsLeave
    <2>3. \E l \in [Nat -> 0 .. 3] : LevelsOK(l)'
      BY <2>2
    <2>4. stack' # <<>>
      BY <1>1, <1>3, <1>6, TopFrame
    <2> QED
      BY <1>3, <1>4, <2>1, <2>3, <2>4 DEF StackInv, InWalk
  <1> QED
    BY <1>5, <1>6

\* A call is made for an element.
LEMMA Descends ==
    ASSUME StackInv, phase = "walk", Top.step \notin {"arrive", "counted", "child"},
           NEW i \in Nat, i <= json.numberOfTokens, Descend(i), json' = json,
           UNCHANGED <<phase, out_key, query, current, found>>,
           max_level' = IF IsObject(json, Top.at) THEN max_level - 1 ELSE max_level,
           max_depth' = max_depth - 1
    PROVE  StackInv' /\ phase' \in InWalk
  <1>1. FramesOK /\ stack # <<>> /\ out_key # <<>>
    BY Walks
  <1>2. PICK lev \in [Nat -> 0 .. 3] : LevelsOK(lev)
    BY DEF StackInv
  <1>3. /\ FramesOK' /\ stack' # <<>> /\ Len(stack') = Len(stack) + 1
        /\ DOMAIN stack' = 1 .. Len(stack) + 1
        /\ stack'[Len(stack) + 1] = Open(i)
        /\ stack'[Len(stack)].step = "child" /\ stack'[Len(stack)].at = Top.at
        /\ \A k \in 1 .. Len(stack) - 1 : stack'[k] = stack[k] /\ k \in DOMAIN stack
    BY <1>1, DescendKeeps
  <1>4. /\ \E l \in [Nat -> 0 .. 3] : LevelsOK(l)'
        /\ max_level' \in 0 .. 3 /\ max_depth' \in 0 .. MAX_RECURSION_DEPTH
    BY <1>1, <1>2, <1>3, LevelsDescend
  <1>5. /\ query' \in [root : Nat, level : 0 .. 3, item_index : Nat]
        /\ query'.root <= json'.numberOfTokens
        /\ current' \in Nat /\ current' <= query'.item_index /\ found' \in Nat
        /\ out_key' # <<>> /\ phase' = "walk"
    BY <1>1 DEF StackInv
  <1> QED
    BY <1>3, <1>4, <1>5 DEF StackInv, InWalk

\* A search starts with the value of the field.
LEMMA Searches ==
    ASSUME FramesOK, NEW root \in Nat, root <= json.numberOfTokens, NEW name \in Strings,
           NEW level \in 0 .. 3, NEW n \in Nat, Search(root, name, level, n)
    PROVE  StackInv' /\ phase' \in InWalk
  <1>1. /\ stack' = <<Open(root)>> /\ out_key' = <<name>> /\ json' = json
        /\ max_level' = level /\ max_depth' = MAX_RECURSION_DEPTH
        /\ query' = [root |-> root, level |-> level, item_index |-> n]
        /\ current' = 0 /\ found' = 0 /\ phase' = "walk"
    BY DEF Search, GoOn, scanVars
  <1>2. Open(root) \in Frame /\ Open(root).at = root /\ Open(root).key_len = 0
        /\ Open(root).step = "arrive"
    BY DEF Open, Frame, Steps
  <1>3. /\ stack' \in Seq(Frame) /\ DOMAIN stack' = {1} /\ Len(stack') = 1
        /\ stack'[1] = Open(root) /\ stack' # <<>>
    BY <1>1, <1>2
  <1>4. out_key' \in Seq(Strings) /\ Len(out_key') = 1 /\ out_key' # <<>>
    BY <1>1
  <1>5. FramesOK'
    BY <1>1, <1>2, <1>3, <1>4 DEF FramesOK
  <1>6. PICK lev \in [Nat -> 0 .. 3] : lev = [k \in Nat |-> level]
    OBVIOUS
  <1>7. Top'.step = "arrive"
    BY <1>2, <1>3 DEF Top
  <1>8. LevelsOK(lev)'
    <2>1. lev[1] = query'.level
      BY <1>1, <1>6
    <2>2. \A k \in DOMAIN stack' : ~(k < Len(stack')) /\ stack'[k].step = "arrive"
      BY <1>2, <1>3
    <2>3. max_level' = lev[Len(stack')] /\ max_depth' = MAX_RECURSION_DEPTH - (Len(stack') - 1)
      BY <1>1, <1>3, <1>6, WalkAssumption
    <2> QED
      BY <1>7, <2>1, <2>2, <2>3 DEF LevelsOK
  <1>9. \E l \in [Nat -> 0 .. 3] : LevelsOK(l)'
    BY <1>8
  <1>10. /\ query' \in [root : Nat, level : 0 .. 3, item_index : Nat]
         /\ query'.root <= json'.numberOfTokens
         /\ current' \in Nat /\ current' <= query'.item_index /\ found' \in Nat
         /\ max_level' \in 0 .. 3 /\ max_depth' \in 0 .. MAX_RECURSION_DEPTH
    BY <1>1, WalkAssumption
  <1> QED
    BY <1>1, <1>3, <1>4, <1>5, <1>9, <1>10 DEF StackInv, InWalk

LEMMA AtTop ==
    ASSUME ValidateBase, StackInv, NEW s, AtStep(s)
    PROVE  /\ phase = "walk" /\ Top.step = s /\ FramesOK /\ stack # <<>>
           /\ result.value \in Nat /\ result.value <= json.numberOfTokens
           /\ json.numberOfTokens \in Nat
  <1>1. phase = "walk" /\ Top.step = s
    BY DEF AtStep
  <1>2. json.numberOfTokens \in Nat
    BY Calling
  <1>3. result.value \in 0 .. json.numberOfTokens
    BY DEF ValidateBase
  <1> QED
    BY <1>1, <1>2, <1>3, Walks

LEMMA MeetLeafWalks ==
    ASSUME ValidateBase, StackInv, MeetLeaf
    PROVE  ScanMove /\ StackInv' /\ phase' \in InWalk
  <1>1. /\ phase = "walk" /\ Top.step = "arrive" /\ FramesOK /\ stack # <<>>
    BY AtTop DEF MeetLeaf
  <1>2. ScanMove /\ json' = json
    BY MoveByNone DEF MeetLeaf, scanVars
  <1>3. UNCHANGED <<max_level, max_depth, out_key, query>>
    BY DEF MeetLeaf
  <1>4. current \in Nat /\ query.item_index \in Nat /\ current <= query.item_index
    BY DEF StackInv
  <1>5. CASE current = query.item_index
    <2>1. found' = Top.at /\ phase' = "found" /\ UNCHANGED <<stack, current>>
      BY <1>5 DEF MeetLeaf, GoOn
    <2>2. found' \in Nat
      BY <1>1, <2>1, TopFrame
    <2>3. FramesOK'
      BY <1>1, <1>2, <1>3, <2>1 DEF FramesOK
    <2>4. /\ query' \in [root : Nat, level : 0 .. 3, item_index : Nat]
          /\ query'.root <= json'.numberOfTokens
          /\ current' \in Nat /\ current' <= query'.item_index
          /\ max_level' \in 0 .. 3 /\ max_depth' \in 0 .. MAX_RECURSION_DEPTH
          /\ out_key' # <<>>
      BY <1>1, <1>2, <1>3, <2>1 DEF StackInv
    <2> QED
      BY <1>2, <2>1, <2>2, <2>3, <2>4 DEF StackInv, InWalk
  <1>6. CASE current # query.item_index
    <2>1. Leave /\ current' = current + 1 /\ UNCHANGED found
      BY <1>6 DEF MeetLeaf
    <2>2. current' \in Nat /\ current' <= query.item_index
      BY <1>4, <1>6, <2>1
    <2> QED
      BY <1>1, <1>2, <1>3, <2>1, <2>2, Leaves
  <1> QED
    BY <1>5, <1>6

LEMMA CountElementsWalks ==
    ASSUME ValidateBase, StackInv, CountElements
    PROVE  ScanMove /\ StackInv' /\ phase' \in InWalk
  <1>1. /\ phase = "walk" /\ Top.step = "arrive" /\ FramesOK /\ stack # <<>>
    BY AtTop DEF CountElements
  <1>2. Top \in Frame /\ Top.at \in Nat /\ Top.key_len \in Nat /\ Len(stack) \in Nat
    BY <1>1, TopFrame
  <1>3. "object_get_element_count" \in ArrayWalkers \cup ObjectWalkers
    BY DEF ObjectWalkers
  <1>4. ScanMove
    <2>1. 0 \in Nat /\ "" \in Strings
      BY Calling, Zenon
    <2>2. Call("object_get_element_count", Top.at, 0, "")
      BY DEF CountElements
    <2> QED
      BY <1>2, <1>3, <2>1, <2>2, MoveByCall
  <1>5. json' = json
    BY <1>4 DEF ScanMove
  <1>6. PICK f : f = [Top EXCEPT !.step = "counted"]
    OBVIOUS
  <1>7. f \in Frame /\ f.at = Top.at /\ f.key_len = Top.key_len /\ f.step = "counted"
    BY <1>2, <1>6 DEF Frame, Steps
  <1>8. Become(f) /\ UNCHANGED <<phase, max_level, max_depth, out_key, query, current, found>>
    BY <1>6 DEF CountElements
  <1>9. PICK lev \in [Nat -> 0 .. 3] : LevelsOK(lev)
    BY <1>1 DEF StackInv
  <1>10. /\ lev[Len(stack)] \in 0 .. 3 /\ max_level = lev[Len(stack)]
         /\ max_depth = MAX_RECURSION_DEPTH - (Len(stack) - 1)
    BY <1>1, <1>9, TopLimits
  <1>11. max_level > 0 /\ max_depth > 0
    <2>1. ~(max_level <= 0) /\ ~(max_depth <= 0)
      BY DEF CountElements, StopsAt
    <2> QED
      BY <2>1 DEF StackInv
  <1>12. lev[Len(stack)] > 0 /\ Len(stack) <= MAX_RECURSION_DEPTH
    BY <1>2, <1>10, <1>11, WalkAssumption
  <1>13. /\ \A k \in DOMAIN stack : stack[k].key_len <= Len(out_key')
         /\ out_key' \in Seq(Strings) /\ out_key' # <<>>
    BY <1>1, <1>8, Walks DEF FramesOK
  <1>14. f.key_len <= Len(out_key')
    BY <1>1, <1>7, <1>13, TopFrame
  <1> QED
    BY <1>1, <1>4, <1>5, <1>7, <1>8, <1>9, <1>10, <1>12, <1>13, <1>14, GoesOn

LEMMA CountedWalks ==
    ASSUME ValidateBase, StackInv, Counted
    PROVE  ScanMove /\ StackInv' /\ phase' \in InWalk
  <1>1. /\ phase = "walk" /\ Top.step = "counted" /\ FramesOK /\ stack # <<>>
        /\ result.value \in Nat
    BY AtTop DEF Counted
  <1>2. Top \in Frame /\ Len(stack) \in Nat
    BY <1>1, TopFrame
  <1>3. ScanMove /\ json' = json
    BY MoveByNone DEF Counted, scanVars
  <1>4. PICK f : f = [Top EXCEPT !.step = "loop", !.el_count = result.value, !.key_len = Len(out_key)]
    OBVIOUS
  <1>5. Len(out_key) \in Nat /\ Len(out_key) >= 1 /\ out_key \in Seq(Strings) /\ out_key # <<>>
    BY <1>1, Walks
  <1>6. f \in Frame /\ f.at = Top.at /\ f.key_len = Len(out_key) /\ f.step = "loop"
    BY <1>1, <1>2, <1>4, <1>5 DEF Frame, Steps
  <1>7. Become(f) /\ UNCHANGED <<phase, max_level, max_depth, out_key, query, current, found>>
    BY <1>4 DEF Counted
  <1>8. PICK lev \in [Nat -> 0 .. 3] : LevelsOK(lev)
    BY <1>1 DEF StackInv
  <1>9. /\ max_level = lev[Len(stack)] /\ max_depth = MAX_RECURSION_DEPTH - (Len(stack) - 1)
        /\ lev[Len(stack)] > 0 /\ Len(stack) <= MAX_RECURSION_DEPTH
    BY <1>1, <1>8, TopLimits
  <1>10. \A k \in DOMAIN stack : stack[k].key_len <= Len(out_key)
    BY <1>1 DEF FramesOK
  <1>11. f.key_len <= Len(out_key') /\ f.key_len >= 1
    BY <1>5, <1>6, <1>7
  <1> QED
    BY <1>1, <1>3, <1>5, <1>6, <1>7, <1>8, <1>9, <1>10, <1>11, GoesOn

\* A frame that keeps the path the call goes back to.
LEMMA KeepsPath ==
    ASSUME FramesOK, stack # <<>>, Top.step \notin {"arrive", "counted"}, NEW f,
           f.key_len = Top.key_len
    PROVE  /\ f.key_len >= 1 /\ f.key_len <= Len(out_key)
           /\ \A j \in DOMAIN stack : stack[j].key_len <= Len(out_key)
           /\ \A j \in DOMAIN stack : j < Len(stack) => stack[j].key_len <= f.key_len
  BY TopFrame DEF FramesOK

LEMMA NextElementWalks ==
    ASSUME ValidateBase, StackInv, NextElement
    PROVE  ScanMove /\ StackInv' /\ phase' \in InWalk
  <1>1. /\ phase = "walk" /\ Top.step = "loop" /\ FramesOK /\ stack # <<>>
    BY AtTop DEF NextElement
  <1>2. UNCHANGED <<max_level, max_depth, out_key, query, current, found>>
    BY DEF NextElement
  <1>3. CASE Top.i >= Top.el_count
    <2>1. Leave /\ UNCHANGED scanVars
      BY <1>3 DEF NextElement
    <2>2. ScanMove /\ json' = json
      BY <2>1, MoveByNone DEF scanVars
    <2>3. current' \in Nat /\ current' <= query.item_index
      BY <1>2 DEF StackInv
    <2> QED
      BY <1>1, <1>2, <2>1, <2>2, <2>3, Leaves
  <1>4. CASE ~(Top.i >= Top.el_count)
    <2>1. PICK s : s = IF IsObject(json, Top.at) THEN "name" ELSE "element"
      OBVIOUS
    <2>2. PICK w : w = IF IsObject(json, Top.at) THEN "object_get_nth_key" ELSE "array_get_nth_element"
      OBVIOUS
    <2>3. PICK f : f = [Top EXCEPT !.step = s]
      OBVIOUS
    <2>4. Call(w, Top.at, Top.i, "") /\ Become([Top EXCEPT !.step = s]) /\ UNCHANGED <<phase, err>>
      <3>1. token(Top.at).type = "JSMN_OBJECT" <=> IsObject(json, Top.at)
        BY ObjectToken
      <3>2. CASE IsObject(json, Top.at)
        BY <1>4, <2>1, <2>2, <3>1, <3>2 DEF NextElement
      <3>3. CASE ~IsObject(json, Top.at)
        BY <1>4, <2>1, <2>2, <3>1, <3>3 DEF NextElement
      <3> QED
        BY <3>2, <3>3
    <2>5. Top \in Frame /\ Top.at \in Nat /\ Top.i \in Nat
      BY <1>1, TopFrame
    <2>6. w \in ArrayWalkers \cup ObjectWalkers
      BY <2>2 DEF ArrayWalkers, ObjectWalkers
    <2>7. ScanMove
      <3>1. "" \in Strings
        BY Calling, Zenon
      <3> QED
        BY <2>4, <2>5, <2>6, <3>1, MoveByCall
    <2>8. json' = json
      BY <2>7 DEF ScanMove
    <2>9. f \in Frame /\ f.at = Top.at /\ f.key_len = Top.key_len /\ f.step = s /\ s \in {"name", "element"}
      BY <2>1, <2>3, <2>5 DEF Frame, Steps
    <2>10. PICK lev \in [Nat -> 0 .. 3] : LevelsOK(lev)
      BY <1>1 DEF StackInv
    <2>11. /\ max_level = lev[Len(stack)] /\ max_depth = MAX_RECURSION_DEPTH - (Len(stack) - 1)
           /\ lev[Len(stack)] > 0 /\ Len(stack) <= MAX_RECURSION_DEPTH
      BY <1>1, <2>10, TopLimits
    <2>12. out_key \in Seq(Strings) /\ out_key # <<>>
      BY <1>1, Walks
    <2>13. /\ f.key_len >= 1 /\ f.key_len <= Len(out_key)
           /\ \A j \in DOMAIN stack : stack[j].key_len <= Len(out_key)
           /\ \A j \in DOMAIN stack : j < Len(stack) => stack[j].key_len <= f.key_len
      BY <1>1, <2>9, KeepsPath
    <2>14. /\ f.step \in {"name", "value"} => IsObject(json, f.at)
           /\ f.step = "element" => ~IsObject(json, f.at)
      BY <2>1, <2>9
    <2>15. Become(f) /\ phase' = phase
      BY <2>3, <2>4
    <2>16. f.step \notin {"arrive", "counted", "child"}
      BY <2>9
    <2>17. out_key' = out_key /\ max_level' = max_level /\ max_depth' = max_depth
           /\ UNCHANGED <<query, current, found>>
      BY <1>2
    <2>18. StackInv' /\ phase' \in InWalk
      BY <1>1, <2>8, <2>9, <2>10, <2>11, <2>12, <2>13, <2>14, <2>15, <2>16, <2>17, GoesOn
    <2> QED
      BY <2>7, <2>18
  <1> QED
    BY <1>3, <1>4

LEMMA MemberNameWalks ==
    ASSUME ValidateBase, StackInv, MemberName
    PROVE  ScanMove /\ StackInv' /\ phase' \in InWalk
  <1>1. /\ phase = "walk" /\ Top.step = "name" /\ FramesOK /\ stack # <<>>
        /\ result.value \in Nat
    BY AtTop DEF MemberName
  <1>2. UNCHANGED <<max_level, max_depth, query, current, found>>
    BY DEF MemberName
  <1>3. CASE result.err # "parser_ok"
    <2>1. Leave /\ UNCHANGED scanVars /\ UNCHANGED out_key
      BY <1>3 DEF MemberName
    <2>2. ScanMove /\ json' = json
      BY <2>1, MoveByNone DEF scanVars
    <2>3. current' \in Nat /\ current' <= query.item_index
      BY <1>2 DEF StackInv
    <2> QED
      BY <1>1, <1>2, <2>1, <2>2, <2>3, Leaves
  <1>4. CASE result.err = "parser_ok"
    <2>1. PICK f : f = [Top EXCEPT !.step = "value"]
      OBVIOUS
    <2>2. /\ Call("object_get_nth_value", Top.at, Top.i, "") /\ Become(f) /\ UNCHANGED <<phase, err>>
          /\ out_key' = Append(out_key, token(result.value).text)
      BY <1>4, <2>1 DEF MemberName, append_key_item
    <2>3. Top \in Frame /\ Top.at \in Nat /\ Top.i \in Nat
      BY <1>1, TopFrame
    <2>4. "object_get_nth_value" \in ArrayWalkers \cup ObjectWalkers
      BY DEF ObjectWalkers
    <2>5. ScanMove
      <3>1. "" \in Strings
        BY Calling, Zenon
      <3> QED
        BY <2>2, <2>3, <2>4, <3>1, MoveByCall
    <2>6. json' = json
      BY <2>5 DEF ScanMove
    <2>7. f \in Frame /\ f.at = Top.at /\ f.key_len = Top.key_len /\ f.step = "value"
      BY <2>1, <2>3 DEF Frame, Steps
    <2>8. PICK lev \in [Nat -> 0 .. 3] : LevelsOK(lev)
      BY <1>1 DEF StackInv
    <2>9. /\ max_level = lev[Len(stack)] /\ max_depth = MAX_RECURSION_DEPTH - (Len(stack) - 1)
          /\ lev[Len(stack)] > 0 /\ Len(stack) <= MAX_RECURSION_DEPTH /\ IsObject(json, Top.at)
      BY <1>1, <2>8, TopLimits
    <2>10. out_key \in Seq(Strings) /\ out_key # <<>> /\ Len(out_key) \in Nat
      BY <1>1, Walks
    <2>11. token(result.value).text \in Strings
      <3>1. json \in TokenLists
        BY DEF ValidateBase, ScanTypeOK
      <3>2. Unused.text \in Strings
        BY StringsAssumption DEF Unused
      <3> QED
        BY <1>1, <3>1, <3>2, ListShape DEF token
    <2>12. out_key' \in Seq(Strings) /\ out_key' # <<>> /\ Len(out_key') = Len(out_key) + 1
      <3>1. PICK t \in Strings : t = token(result.value).text
        BY <2>11
      <3>2. out_key' = Append(out_key, t)
        BY <2>2, <3>1
      <3> QED
        BY <2>10, <3>2
    <2>13. /\ f.key_len >= 1 /\ f.key_len <= Len(out_key)
           /\ \A j \in DOMAIN stack : stack[j].key_len <= Len(out_key)
           /\ \A j \in DOMAIN stack : j < Len(stack) => stack[j].key_len <= f.key_len
      BY <1>1, <2>7, KeepsPath
    <2>14. \A k \in DOMAIN stack : stack[k].key_len \in Nat
      <3>1. stack \in Seq(Frame)
        BY <1>1 DEF FramesOK
      <3>2. \A k \in DOMAIN stack : stack[k] \in Frame
        BY <3>1
      <3> QED
        BY <3>2 DEF Frame
    <2>15. f.key_len \in Nat
      BY <2>7 DEF Frame
    <2>16. f.key_len <= Len(out_key') /\ \A k \in DOMAIN stack : stack[k].key_len <= Len(out_key')
      BY <2>10, <2>12, <2>13, <2>14, <2>15
    <2>17. phase' = phase /\ max_level' = max_level /\ max_depth' = max_depth
      BY <1>2, <2>2
    <2>18. StackInv' /\ phase' \in InWalk
      BY <1>1, <1>2, <2>2, <2>6, <2>7, <2>8, <2>9, <2>12, <2>13, <2>16, <2>17, GoesOn
    <2> QED
      BY <2>5, <2>18
  <1> QED
    BY <1>3, <1>4

LEMMA MemberValueWalks ==
    ASSUME ValidateBase, StackInv, MemberValue
    PROVE  ScanMove /\ StackInv' /\ phase' \in InWalk
  <1>1. /\ phase = "walk" /\ Top.step = "value" /\ FramesOK /\ stack # <<>>
        /\ result.value \in Nat /\ result.value <= json.numberOfTokens
    BY AtTop DEF MemberValue
  <1>2. ScanMove /\ json' = json
    BY MoveByNone DEF MemberValue, scanVars
  <1>3. PICK lev \in [Nat -> 0 .. 3] : LevelsOK(lev)
    BY <1>1 DEF StackInv
  <1>4. IsObject(json, Top.at)
    BY <1>1, <1>3, TopLimits
  <1>5. /\ Descend(result.value) /\ max_level' = max_level - 1 /\ max_depth' = max_depth - 1
        /\ UNCHANGED <<phase, out_key, query, current, found>>
    BY DEF MemberValue
  <1>6. PICK i : i = result.value
    OBVIOUS
  <1> QED
    BY <1>1, <1>2, <1>4, <1>5, <1>6, Descends

LEMMA ElementWalks ==
    ASSUME ValidateBase, StackInv, Element
    PROVE  ScanMove /\ StackInv' /\ phase' \in InWalk
  <1>1. /\ phase = "walk" /\ Top.step = "element" /\ FramesOK /\ stack # <<>>
        /\ result.value \in Nat /\ result.value <= json.numberOfTokens
    BY AtTop DEF Element
  <1>2. ScanMove /\ json' = json
    BY MoveByNone DEF Element, scanVars
  <1>3. UNCHANGED <<max_level, out_key, query, current, found>>
    BY DEF Element
  <1>4. CASE result.err # "parser_ok"
    <2>1. Leave /\ UNCHANGED max_depth
      BY <1>4 DEF Element
    <2>2. current' \in Nat /\ current' <= query.item_index
      BY <1>3 DEF StackInv
    <2>3. UNCHANGED <<max_level, max_depth, out_key, query, found>>
      BY <1>3, <2>1
    <2>4. phase = "walk" /\ Top.step # "child"
      BY <1>1
    <2>5. StackInv' /\ phase' \in InWalk
      BY <1>2, <2>1, <2>2, <2>3, <2>4, Leaves
    <2> QED
      BY <1>2, <2>5
  <1>5. CASE result.err = "parser_ok"
    <2>1. PICK lev \in [Nat -> 0 .. 3] : LevelsOK(lev)
      BY <1>1 DEF StackInv
    <2>2. ~IsObject(json, Top.at)
      BY <1>1, <2>1, TopLimits
    <2>3. PICK i : i = result.value
      OBVIOUS
    <2>4. Descend(i) /\ max_depth' = max_depth - 1 /\ phase' = phase
      BY <1>5, <2>3 DEF Element
    <2>5. phase = "walk" /\ Top.step \notin {"arrive", "counted", "child"}
      BY <1>1
    <2>6. i \in Nat /\ i <= json.numberOfTokens
      BY <1>1, <2>3
    <2>7. UNCHANGED <<phase, out_key, query, current, found>>
      BY <1>3, <2>4
    <2>8. max_level' = IF IsObject(json, Top.at) THEN max_level - 1 ELSE max_level
      BY <1>3, <2>2
    <2>9. StackInv' /\ phase' \in InWalk
      BY <1>2, <2>4, <2>5, <2>6, <2>7, <2>8, Descends
    <2> QED
      BY <1>2, <2>9
  <1> QED
    BY <1>4, <1>5

LEMMA ResumeWalks ==
    ASSUME ValidateBase, StackInv, Resume
    PROVE  ScanMove /\ StackInv' /\ phase' \in InWalk
  <1>1. /\ phase = "walk" /\ Top.step = "child" /\ FramesOK /\ stack # <<>>
    BY AtTop DEF Resume
  <1>2. Top \in Frame /\ Top.i \in Nat /\ Len(stack) \in Nat /\ Top.key_len \in Nat
    BY <1>1, TopFrame
  <1>3. ScanMove /\ json' = json
    BY MoveByNone DEF Resume, scanVars
  <1>4. PICK f : f = [Top EXCEPT !.step = "loop", !.i = @ + 1]
    OBVIOUS
  <1>5. f \in Frame /\ f.at = Top.at /\ f.key_len = Top.key_len /\ f.step = "loop"
    <2>1. PICK n \in Nat : n = Top.i + 1
      BY <1>2
    <2>2. f = [Top EXCEPT !.step = "loop", !.i = n]
      BY <1>4, <2>1
    <2> QED
      BY <1>2, <2>2 DEF Frame, Steps
  <1>6. Become(f) /\ UNCHANGED <<phase, query, current, found>> /\ max_depth' = max_depth + 1
    <2>1. Become([Top EXCEPT !.step = "loop", !.i = @ + 1])
      BY DEF Resume
    <2>2. UNCHANGED <<phase, query, current, found>> /\ max_depth' = max_depth + 1
      BY DEF Resume
    <2> QED
      BY <1>4, <2>1, <2>2
  <1>7. PICK lev \in [Nat -> 0 .. 3] : LevelsOK(lev)
    BY <1>1 DEF StackInv
  <1>8. /\ lev[Len(stack)] \in 0 .. 3 /\ lev[Len(stack)] > 0 /\ Len(stack) <= MAX_RECURSION_DEPTH
        /\ max_depth = MAX_RECURSION_DEPTH - Len(stack)
        /\ max_level = IF IsObject(json, Top.at) THEN lev[Len(stack)] - 1 ELSE lev[Len(stack)]
    BY <1>1, <1>7, TopLimits
  <1>9. max_depth' = MAX_RECURSION_DEPTH - (Len(stack) - 1)
    BY <1>2, <1>6, <1>8, WalkAssumption
  <1>10. IF IsObject(json, Top.at) THEN max_level' = max_level + 1 /\ out_key' = SubSeq(out_key, 1, Top.key_len)
         ELSE max_level' = max_level /\ out_key' = out_key
    BY ObjectToken DEF Resume, LevelAbove, Restored
  <1>11. max_level' = lev[Len(stack)]
    BY <1>8, <1>10
  <1>12. out_key \in Seq(Strings) /\ out_key # <<>> /\ Len(out_key) \in Nat
    BY <1>1, Walks
  <1>13. /\ f.key_len >= 1 /\ f.key_len <= Len(out_key)
         /\ \A j \in DOMAIN stack : stack[j].key_len <= Len(out_key)
         /\ \A j \in DOMAIN stack : j < Len(stack) => stack[j].key_len <= f.key_len
    BY <1>1, <1>5, KeepsPath
  <1>14. /\ out_key' \in Seq(Strings) /\ Len(out_key') \in {Top.key_len, Len(out_key)}
    <2>1. CASE IsObject(json, Top.at)
      <3>1. PICK n \in Nat : n = Top.key_len /\ n >= 1 /\ n <= Len(out_key)
        BY <1>2, <1>5, <1>13
      <3>2. out_key' = SubSeq(out_key, 1, n)
        BY <1>10, <2>1, <3>1
      <3> QED
        BY <1>12, <3>1, <3>2
    <2>2. CASE ~IsObject(json, Top.at)
      BY <1>10, <1>12, <2>2
    <2> QED
      BY <2>1, <2>2
  <1>15. out_key' # <<>> /\ f.key_len <= Len(out_key')
    BY <1>2, <1>5, <1>12, <1>13, <1>14
  <1>16. \A j \in DOMAIN stack : j < Len(stack) => stack[j].key_len <= Len(out_key')
    BY <1>5, <1>13, <1>14
  <1> QED
    BY <1>1, <1>3, <1>5, <1>6, <1>7, <1>8, <1>9, <1>11, <1>13, <1>14, <1>15, <1>16, GoesOn

LEMMA FirstItemWalks ==
    ASSUME ValidateBase, StackInv, FirstItem
    PROVE  ScanMove /\ StackInv' /\ phase' \in InWalk
  <1>1. ScanMove
    BY MoveByNone DEF FirstItem, Search
  <1>2. PICK k \in Members(json, 0) : \E level \in get_root_max_level(NameOf(k)) :
            Search(k + 1, NameOf(k), level, 0)
    BY DEF FirstItem
  <1>3. PICK level \in get_root_max_level(NameOf(k)) : Search(k + 1, NameOf(k), level, 0)
    BY <1>2
  <1>4. json \in TokenLists
    BY DEF ValidateBase, ScanTypeOK
  <1>5. k \in 0 .. json.numberOfTokens - 1 /\ json.numberOfTokens \in Nat
    BY <1>4, ListShape DEF Members
  <1>6. PICK root \in Nat : root = k + 1 /\ root <= json.numberOfTokens
    BY <1>5
  <1>7. PICK name \in Strings : name = NameOf(k)
    BY <1>4, <1>5, ListShape DEF NameOf
  <1>8. level \in 0 .. 3
    BY <1>3 DEF get_root_max_level
  <1>9. Search(root, name, level, 0)
    BY <1>3, <1>6, <1>7
  <1>10. FramesOK
    BY DEF StackInv
  <1> QED
    BY <1>1, <1>6, <1>7, <1>8, <1>9, <1>10, Searches

LEMMA NextItemWalks ==
    ASSUME ValidateBase, StackInv, NextItem
    PROVE  ScanMove /\ StackInv' /\ phase' \in InWalk
  <1>1. ScanMove
    BY MoveByNone DEF NextItem, Search
  <1>2. PICK root, name, level, n : /\ root = query.root /\ name = out_key[1]
                                    /\ level = query.level /\ n = query.item_index + 1
    OBVIOUS
  <1>3. Search(root, name, level, n)
    BY <1>2 DEF NextItem
  <1>4. FramesOK /\ out_key # <<>>
    BY DEF NextItem, StackInv
  <1>5. name \in Strings
    BY <1>2, <1>4 DEF FramesOK
  <1>6. root \in Nat /\ root <= json.numberOfTokens /\ level \in 0 .. 3 /\ n \in Nat
    BY <1>2 DEF StackInv
  <1>7. FramesOK
    BY <1>4
  <1>8. StackInv' /\ phase' \in InWalk
    BY <1>3, <1>5, <1>6, <1>7, Searches
  <1> QED
    BY <1>1, <1>8

LEMMA WalkStepWalks ==
    ASSUME ValidateBase, StackInv, FirstItem \/ NextItem \/ WalkStep
    PROVE  ScanMove /\ StackInv' /\ phase' \in InWalk
  BY FirstItemWalks, NextItemWalks, MeetLeafWalks, CountElementsWalks, CountedWalks,
     NextElementWalks, MemberNameWalks, MemberValueWalks, ElementWalks, ResumeWalks DEF WalkStep

\* No call is open while the text is validated.
LEMMA ValidateKeepsStack ==
    ASSUME ValidateBase, StackInv, ValidateNext, UNCHANGED walkVars
    PROVE  StackInv'
  <1>0. json.numberOfTokens \in Nat
    BY Calling
  <1>1. UNCHANGED <<stack, max_level, max_depth, out_key, query, current, found>>
    BY DEF walkVars
  <1>2. CASE phase \in InWalk
    <2>1. ScanStep /\ UNCHANGED validateVars
      BY <1>2 DEF InWalk, ValidateNext, ReadCharacter, Parse, CheckText, NoMoreObjects,
         VisitToken, CountMembers, FirstName, NextName, LookUp, LookedUp
    <2>2. json' = json /\ phase' = phase
      BY <2>1, ScanStepBounds DEF ValidateBase, validateVars
    <2>3. FramesOK'
      BY <1>1, <2>2 DEF StackInv, FramesOK
    <2>4. phase = "walk" => \E lev \in [Nat -> 0 .. 3] : LevelsOK(lev)'
      BY <1>1, <2>2 DEF StackInv, LevelsOK, Top
    <2> QED
      BY <1>1, <2>2, <2>3, <2>4 DEF StackInv
  <1>3. CASE phase \notin InWalk
    <2>1. stack = <<>>
      BY <1>3 DEF StackInv
    <2>2. phase' \in Validating \cup {"accepted", "rejected"} /\ phase' \notin InWalk
      <3>1. phase \in Validating \cup {"accepted", "rejected"}
        BY <1>3 DEF StackInv
      <3> QED
        BY <3>1 DEF InWalk, Validating, ValidateNext, ReadCharacter, Parse, CheckText, NoMoreObjects,
           VisitToken, CountMembers, FirstName, NextName, LookUp, LookedUp, NextObject,
           NextMember, Reject, GoOn, validateVars
    <2>3. query'.root <= json'.numberOfTokens
      <3>1. CASE json' = json
        BY <1>1, <3>1 DEF StackInv
      <3>2. CASE json' # json
        <4>1. ReadCharacter \/ Parse
          BY <3>2, CheckingStep DEF ScanMove
        <4>2. phase = "parse"
          BY <4>1 DEF ReadCharacter, Parse
        <4>3. json'.numberOfTokens > 0 /\ json.numberOfTokens = 0
          BY <3>2, <4>1, <4>2, ReadingStep DEF ValidateBase
        <4>4. query.root \in Nat /\ query.root <= json.numberOfTokens
          BY DEF StackInv
        <4>5. query'.root = 0
          BY <1>1, <4>3, <4>4
        <4>6. json'.numberOfTokens \in Nat
          BY <4>1, ReadingStep, ListShape DEF ValidateBase, ScanTypeOK
        <4> QED
          BY <4>5, <4>6
      <3> QED
        BY <3>1, <3>2
    <2>4. FramesOK'
      BY <1>1, <2>1 DEF StackInv, FramesOK
    <2> QED
      BY <1>1, <2>1, <2>2, <2>3, <2>4 DEF StackInv, InWalk
  <1> QED
    BY <1>2, <1>3

----------------------------------------------------------------------------
(* The invariant                                                           *)

WalkInv ==
    /\ ValidateBase /\ PhaseInv /\ RejectedWithCause
    /\ ScanInv /\ ScanIsExact
    /\ StackInv

LEMMA WalkInvInit ==
    ASSUME Init
    PROVE  WalkInv
  <1>1. /\ json = [numberOfTokens |-> 0, tokens |-> [i \in {} |-> Unused], names |-> {}]
        /\ call = Idle /\ result = NoResult
        /\ token_index = 0 /\ prev_element_end = 0 /\ element_count = 0
        /\ text \in Inputs /\ phase = "parse" /\ jsmn = jsmn_init
        /\ obj = 0 /\ elem = 0 /\ count = 0 /\ prevName = 0 /\ field = 1
    BY DEF Init, ValidateInit, ScanInit
  <1>2. ScanTypeOK
    <2>1. json \in ListsOf(0)
      BY <1>1 DEF ListsOf
    <2>2. json \in TokenLists
      BY <2>1 DEF TokenLists
    <2> QED
      BY <1>1, <2>2 DEF ScanTypeOK
  <1>3. Reader(jsmn, jsmn.pos)
    BY <1>1, MaxTokensAssumption DEF jsmn_init, Reader, JsmnStates, TokensTo
  <1>4. jsmn.pos <= Len(text)
    <2>1. text \in Seq(Strings)
      BY <1>1, InputsAssumption
    <2>2. Len(text) \in Nat
      BY <2>1
    <2> QED
      BY <1>1, <2>2 DEF jsmn_init
  <1>5. /\ json.numberOfTokens = 0 /\ DOMAIN json.tokens = {}
    BY <1>1
  <1>6. result.value = 0 /\ field \in DOMAIN required
    BY <1>1 DEF NoResult, required
  <1>7. ValidateBase
    BY <1>1, <1>2, <1>3, <1>4, <1>5, <1>6, MaxTokensAssumption DEF ValidateBase, LeavesApart
  <1>8. PhaseInv
    BY <1>1 DEF PhaseInv, Ordering, InObject, LookingUp
  <1>9. ScanInv /\ ScanIsExact /\ RejectedWithCause
    BY <1>1 DEF ScanInv, ScanIsExact, RejectedWithCause
  <1>10. StackInv
    <2>1. /\ stack = <<>> /\ max_level = 0 /\ max_depth = 0 /\ out_key = <<>>
          /\ query = [root |-> 0, level |-> 0, item_index |-> 0] /\ current = 0 /\ found = 0
      BY DEF Init
    <2>2. FramesOK
      BY <2>1 DEF FramesOK
    <2> QED
      BY <1>1, <1>5, <2>1, <2>2, WalkAssumption DEF StackInv, InWalk, Validating
  <1> QED
    BY <1>7, <1>8, <1>9, <1>10 DEF WalkInv

LEMMA WalkInvStutters ==
    ASSUME WalkInv, UNCHANGED vars
    PROVE  WalkInv' /\ UNCHANGED scanVars
  <1>1. /\ UNCHANGED <<json, call, token_index, prev_element_end, element_count, result>>
        /\ UNCHANGED <<text, phase, err, jsmn, obj, elem, count, prevName, field>>
        /\ UNCHANGED <<stack, max_level, max_depth, out_key, query, current, found>>
    BY DEF vars, scanVars, validateVars, walkVars
  <1>2. UNCHANGED scanVars
    BY <1>1 DEF scanVars
  <1>3. ScanTypeOK' /\ ScanInv' /\ ScanIsExact'
    BY <1>2, ScanTypeStep, ExactStep DEF WalkInv, ValidateBase
  <1>4. ValidateBase'
    <2>1. Reader(jsmn, jsmn.pos)' /\ LeavesApart(json)'
      BY <1>1 DEF WalkInv, ValidateBase
    <2> QED
      BY <1>1, <1>3, <2>1 DEF WalkInv, ValidateBase
  <1>5. PhaseInv'
    <2>1. \A f, i, n, k : Called(f, i, n, k) => Called(f, i, n, k)'
      BY <1>1 DEF Called
    <2> QED
      BY <1>1, <2>1, PhaseUnmoved DEF WalkInv
  <1>6. RejectedWithCause'
    <2>1. CASE phase = "rejected"
      <3>1. PICK e : e = err
        OBVIOUS
      <3>2. json.numberOfTokens > 0 /\ IsJson(json) => Cause(e)
        BY <2>1, <3>1 DEF WalkInv, RejectedWithCause, Cause
      <3>3. Reject(e)
        BY <1>1, <2>1, <3>1 DEF Reject
      <3> QED
        BY <1>1, <3>2, <3>3, RejectedBy
    <2>2. CASE phase # "rejected"
      BY <1>1, <2>2 DEF RejectedWithCause
    <2> QED
      BY <2>1, <2>2
  <1>7. StackInv'
    <2>1. FramesOK'
      BY <1>1 DEF WalkInv, StackInv, FramesOK
    <2>2. phase = "walk" => \E lev \in [Nat -> 0 .. 3] : LevelsOK(lev)'
      BY <1>1 DEF WalkInv, StackInv, LevelsOK, Top
    <2> QED
      BY <1>1, <2>1, <2>2 DEF WalkInv, StackInv
  <1> QED
    BY <1>2, <1>3, <1>4, <1>5, <1>6, <1>7 DEF WalkInv

LEMMA WalkInvStep ==
    ASSUME WalkInv, [Next]_vars
    PROVE  WalkInv' /\ [ScanNext]_scanVars
  <1>1. CASE ValidateNext /\ UNCHANGED walkVars
    <2>1. Known /\ StackInv
      BY DEF WalkInv, Known
    <2>2. [ScanNext]_scanVars /\ ValidateBase'
      <3>1. CASE ReadCharacter \/ Parse
        BY <2>1, <3>1, ReadingStep DEF Known
      <3>2. CASE ~(ReadCharacter \/ Parse)
        BY <1>1, <2>1, <3>2, CheckingStep DEF Known, ScanMove
      <3> QED
        BY <3>1, <3>2
    <2>3. ScanInv' /\ ScanIsExact'
      BY <2>2, ExactStep DEF WalkInv, ValidateBase
    <2>4. PhaseInv'
      BY <1>1, <2>1, PhaseStep
    <2>5. RejectedWithCause'
      BY <1>1, <2>1, RejectionStep DEF WalkInv
    <2>6. StackInv'
      BY <1>1, <2>1, ValidateKeepsStack DEF Known
    <2> QED
      BY <2>2, <2>3, <2>4, <2>5, <2>6 DEF WalkInv
  <1>2. CASE (FirstItem \/ NextItem \/ WalkStep)
             /\ UNCHANGED <<text, jsmn, obj, elem, count, prevName, field>>
    <2>1. ScanMove /\ StackInv' /\ phase' \in InWalk
      BY <1>2, WalkStepWalks DEF WalkInv
    <2>2. [ScanNext]_scanVars
      BY <2>1 DEF ScanMove
    <2>3. ScanInv' /\ ScanIsExact'
      BY <2>2, ExactStep DEF WalkInv, ValidateBase
    <2>4. ValidateBase'
      <3>1. /\ obj' \in 0 .. json.numberOfTokens /\ elem' \in Nat /\ count' \in Nat
            /\ prevName' \in Nat /\ field' \in DOMAIN required
        BY <1>2 DEF WalkInv, ValidateBase
      <3>2. phase' \notin {"parse", "count", "first", "next"}
        BY <2>1 DEF InWalk
      <3>3. ValidateBase /\ UNCHANGED <<text, jsmn>>
        BY <1>2 DEF WalkInv
      <3> QED
        BY <2>1, <3>1, <3>2, <3>3, BaseKept
    <2>5. PhaseInv' /\ RejectedWithCause'
      BY <2>1 DEF InWalk, PhaseInv, Ordering, InObject, LookingUp, RejectedWithCause
    <2> QED
      BY <2>1, <2>2, <2>3, <2>4, <2>5 DEF WalkInv
  <1>3. CASE UNCHANGED vars
    BY <1>3, WalkInvStutters
  <1> QED
    BY <1>1, <1>2, <1>3 DEF Next

\* The inductive invariant of parsing, validating and walking: what each phase
\* has found out about the tokens so far, and that the stack of open calls of
\* tx_traverse_find nests (json_parser.c:54, tx_validate.c:162, tx_parser.c:155).
THEOREM WalkInvariant == Spec => []WalkInv
  <1>1. Init => WalkInv
    BY WalkInvInit
  <1>2. WalkInv /\ [Next]_vars => WalkInv'
    BY WalkInvStep
  <1> QED
    BY <1>1, <1>2, PTL DEF Spec

----------------------------------------------------------------------------
(* The tree of tokens                                                      *)

\* Of two tokens the later starts later, and is inside the other or after it.
LEMMA TwoSpans ==
    ASSUME NEW d \in TokenLists, Nested(d), NEW i \in Nat, NEW j \in Nat,
           i < j, j < d.numberOfTokens
    PROVE  /\ i \in DOMAIN d.tokens /\ j \in DOMAIN d.tokens
           /\ d.tokens[i].start \in Nat /\ d.tokens[i].end \in Nat
           /\ d.tokens[j].start \in Nat /\ d.tokens[j].end \in Nat
           /\ d.tokens[i].start <= d.tokens[i].end /\ d.tokens[j].start <= d.tokens[j].end
           /\ d.tokens[i].start < d.tokens[j].start
           /\ \/ d.tokens[j].end < d.tokens[i].end
              \/ d.tokens[i].end < d.tokens[j].start
  <1>1. d.numberOfTokens \in Nat /\ DOMAIN d.tokens = 0 .. d.numberOfTokens - 1
    BY ListShape
  <1>2. i \in DOMAIN d.tokens /\ j \in DOMAIN d.tokens /\ j \in i + 1 .. d.numberOfTokens - 1
    BY <1>1
  <1> QED
    BY <1>2, ListShape DEF Nested

LEMMA ElementOf ==
    ASSUME NEW d \in TokenLists, Nested(d), NEW c \in Nat, NEW e \in Elements(d, c)
    PROVE  /\ e \in Nat /\ c < e /\ e < d.numberOfTokens /\ c < d.numberOfTokens
           /\ Inside(d, e, c) /\ d.tokens[e].end < d.tokens[c].end
           /\ \A j \in Nat : c < j /\ j < e => d.tokens[j].end < d.tokens[e].start
  <1>1. d.numberOfTokens \in Nat
    BY ListShape
  <1>2. /\ e \in c + 1 .. d.numberOfTokens - 1
        /\ d.tokens[e].start < d.tokens[c].end
        /\ \A j \in c + 1 .. e - 1 : d.tokens[j].end < d.tokens[e].start
    BY DEF Elements
  <1>3. e \in Nat /\ c < e /\ e < d.numberOfTokens /\ c < d.numberOfTokens
    BY <1>1, <1>2
  <1>4. d.tokens[e].end < d.tokens[c].end
    BY <1>2, <1>3, TwoSpans
  <1>5. \A j \in Nat : c < j /\ j < e => j \in c + 1 .. e - 1
    BY <1>3
  <1> QED
    BY <1>2, <1>3, <1>4, <1>5 DEF Inside

\* A token is an element of one container only.
LEMMA OneParent ==
    ASSUME NEW d \in TokenLists, Nested(d), NEW c \in Nat, NEW b \in Nat,
           NEW e \in Elements(d, c), e \in Elements(d, b)
    PROVE  c = b
  <1>1. ASSUME NEW x \in Nat, NEW y \in Nat, e \in Elements(d, x), e \in Elements(d, y), x < y
        PROVE  FALSE
    <2>1. y < e /\ Inside(d, e, y)
      BY <1>1, ElementOf
    <2>2. d.tokens[y].end < d.tokens[e].start
      BY <1>1, <2>1, ElementOf
    <2>3. e \in Nat /\ e < d.numberOfTokens
      BY ElementOf
    <2> QED
      BY <2>1, <2>2, <2>3, TwoSpans DEF Inside
  <1> QED
    BY <1>1

\* What the walk goes into: the values of the members of an object, and the
\* elements of any other container.
Shift(d, c) == IF IsObject(d, c) THEN 1 ELSE 0
Heads(d, c) == IF IsObject(d, c) THEN Members(d, c) ELSE Elements(d, c)
NthChild(d, c, n, e) == e - Shift(d, c) \in Heads(d, c) /\ Place(Heads(d, c), e - Shift(d, c)) = n

LEMMA MemberNamesOf ==
    ASSUME NEW d \in TokenLists, NEW m
    PROVE  m \in MemberNames(d) <=> \E c \in Nat : IsObject(d, c) /\ m \in Members(d, c)
  <1>1. \A c \in Nat : IsObject(d, c) => c \in DOMAIN d.tokens
    BY ListShape DEF IsObject
  <1>2. DOMAIN d.tokens \subseteq Nat
    BY ListShape
  <1> QED
    BY <1>1, <1>2, Zenon DEF MemberNames

LEMMA HeadsOf ==
    ASSUME NEW d \in TokenLists, NEW c \in Nat
    PROVE  /\ Heads(d, c) \in SUBSET Nat /\ IsFiniteSet(Heads(d, c))
           /\ Heads(d, c) \subseteq Elements(d, c)
           /\ Cardinality(Heads(d, c)) \in Nat
  <1>1. Heads(d, c) \subseteq Elements(d, c) /\ IsFiniteSet(Heads(d, c))
    BY ElementsFinite DEF Heads
  <1>2. Elements(d, c) \subseteq Nat
    BY ElementsFinite, ListShape
  <1> QED
    BY <1>1, <1>2, FS_CardinalityType

LEMMA ChildOf ==
    ASSUME NEW d \in TokenLists, IsJson(d), NEW c \in Nat, NEW e \in Int,
           e - Shift(d, c) \in Heads(d, c)
    PROVE  /\ e \in Elements(d, c) /\ e \in Nat
           /\ e \notin MemberNames(d)
           /\ IsObject(d, c) => e - 1 \in Members(d, c)
           /\ ~IsObject(d, c) => e - 1 \notin MemberNames(d)
  <1>0. Nested(d) /\ Alternates(d) /\ DOMAIN d.tokens = 0 .. d.numberOfTokens - 1
        /\ d.numberOfTokens \in Nat
    BY ListShape DEF IsJson
  <1>00. ASSUME NEW b \in Nat, IsObject(d, b), NEW m \in Members(d, b)
         PROVE  m + 1 \in Elements(d, b) \ d.names
    <2>1. b \in DOMAIN d.tokens /\ d.tokens[b].type = "JSMN_OBJECT"
      BY <1>0, <1>00 DEF IsObject
    <2>2. m \in Elements(d, b) /\ m \in d.names
      BY DEF Members
    <2> QED
      BY <1>0, <2>1, <2>2 DEF Alternates
  <1>1. CASE IsObject(d, c)
    <2>1. e - 1 \in Members(d, c)
      BY <1>1 DEF Shift, Heads
    <2>2. (e - 1) + 1 \in Elements(d, c) \ d.names
      BY <1>00, <1>1, <2>1
    <2>3. (e - 1) + 1 = e
      OBVIOUS
    <2>4. e \in Elements(d, c) /\ e \notin d.names
      BY <2>2, <2>3
    <2>5. e \notin MemberNames(d)
      BY <2>4, MemberNamesOf DEF Members
    <2>6. e \in Nat
      BY <1>0, <2>4, ElementOf
    <2> QED
      BY <1>1, <2>1, <2>4, <2>5, <2>6
  <1>2. CASE ~IsObject(d, c)
    <2>1. e - 0 \in Elements(d, c)
      BY <1>2 DEF Shift, Heads
    <2>2. e - 0 = e
      OBVIOUS
    <2>3. e \in Elements(d, c)
      BY <2>1, <2>2
    <2>4. ASSUME NEW b \in Nat, IsObject(d, b), e \in Elements(d, b) PROVE FALSE
      BY <1>0, <1>2, <2>3, <2>4, OneParent
    <2>5. e \notin MemberNames(d)
      BY <2>4, MemberNamesOf DEF Members
    <2>6. ASSUME e - 1 \in MemberNames(d) PROVE FALSE
      <3>1. PICK b \in Nat : IsObject(d, b) /\ e - 1 \in Members(d, b)
        BY <2>6, MemberNamesOf
      <3>2. (e - 1) + 1 \in Elements(d, b)
        BY <1>00, <3>1
      <3>3. e \in Elements(d, b)
        BY <2>2, <3>2
      <3> QED
        BY <2>4, <3>1, <3>3
    <2>7. e \in Nat
      BY <1>0, <2>3, ElementOf
    <2> QED
      BY <1>2, <2>3, <2>5, <2>6, <2>7
  <1> QED
    BY <1>1, <1>2

LEMMA AboveFinite ==
    ASSUME NEW d \in TokenLists, NEW r \in Nat, NEW i \in Nat
    PROVE  /\ IsFiniteSet(Above(d, r, i)) /\ Cardinality(Above(d, r, i)) \in Nat
           /\ IsFiniteSet(ObjectsAbove(d, r, i)) /\ Cardinality(ObjectsAbove(d, r, i)) \in Nat
           /\ \A c \in Above(d, r, i) : c \in Nat /\ r <= c /\ c < i
  <1>1. Above(d, r, i) \subseteq r .. i - 1
    BY DEF Above
  <1>2. ObjectsAbove(d, r, i) \subseteq Above(d, r, i)
    BY DEF ObjectsAbove
  <1>3. IsFiniteSet(r .. i - 1)
    BY FS_Interval
  <1>4. IsFiniteSet(Above(d, r, i)) /\ IsFiniteSet(ObjectsAbove(d, r, i))
    BY <1>1, <1>2, <1>3, FS_Subset
  <1> QED
    BY <1>1, <1>4, FS_CardinalityType

\* A container is above its elements, with all that is above it.
LEMMA AboveChild ==
    ASSUME NEW d \in TokenLists, Nested(d), NEW r \in Nat, NEW c \in Nat, r <= c,
           HasParts(d, c), NEW e \in Elements(d, c)
    PROVE  /\ Above(d, r, e) = Above(d, r, c) \cup {c}
           /\ Cardinality(Above(d, r, e)) = Cardinality(Above(d, r, c)) + 1
           /\ Cardinality(ObjectsAbove(d, r, e)) =
                Cardinality(ObjectsAbove(d, r, c)) + Shift(d, c)
  <1>1. /\ e \in Nat /\ c < e /\ e < d.numberOfTokens /\ c < d.numberOfTokens
        /\ Inside(d, e, c)
        /\ \A j \in Nat : c < j /\ j < e => d.tokens[j].end < d.tokens[e].start
    BY ElementOf
  <1>2. ASSUME NEW x \in Above(d, r, c) PROVE x \in Above(d, r, e)
    <2>1. x \in Nat /\ r <= x /\ x < c /\ HasParts(d, x) /\ Inside(d, c, x)
      BY <1>2 DEF Above
    <2>2. d.tokens[c].end < d.tokens[x].end
      BY <1>1, <2>1, TwoSpans DEF Inside
    <2>3. Inside(d, e, x)
      <3>1. d.tokens[e].start \in Nat /\ d.tokens[c].end \in Nat /\ d.tokens[x].end \in Nat
        BY <1>1, <2>1, TwoSpans
      <3> QED
        BY <1>1, <2>2, <3>1 DEF Inside
    <2>4. x \in r .. e - 1
      BY <1>1, <2>1
    <2> QED
      BY <2>1, <2>3, <2>4 DEF Above
  <1>3. c \in Above(d, r, e)
    BY <1>1 DEF Above
  <1>4. ASSUME NEW x \in Above(d, r, e), x # c PROVE x \in Above(d, r, c)
    <2>1. x \in Nat /\ r <= x /\ x < e /\ HasParts(d, x) /\ Inside(d, e, x)
      BY <1>1, <1>4 DEF Above
    <2>2. ~(c < x)
      BY <1>1, <2>1, TwoSpans DEF Inside
    <2>3. x < c /\ x \in r .. c - 1
      BY <1>4, <2>1, <2>2
    <2>4. Inside(d, c, x)
      <3>1. d.tokens[c].start < d.tokens[e].start
        BY <1>1, TwoSpans
      <3>2. d.tokens[e].start \in Nat /\ d.tokens[c].start \in Nat /\ d.tokens[x].end \in Nat
        BY <1>1, <2>1, TwoSpans
      <3> QED
        BY <2>1, <3>1, <3>2 DEF Inside
    <2> QED
      BY <2>1, <2>3, <2>4 DEF Above
  <1>5. Above(d, r, e) = Above(d, r, c) \cup {c}
    BY <1>2, <1>3, <1>4
  <1>6. c \notin Above(d, r, c)
    BY AboveFinite
  <1>7. /\ IsFiniteSet(Above(d, r, c)) /\ IsFiniteSet(ObjectsAbove(d, r, c))
        /\ Cardinality(ObjectsAbove(d, r, c)) \in Nat
    BY AboveFinite
  <1>8. Cardinality(Above(d, r, e)) = Cardinality(Above(d, r, c)) + 1
    BY <1>5, <1>6, <1>7, FS_AddElement
  <1>9. CASE IsObject(d, c)
    <2>1. ObjectsAbove(d, r, e) = ObjectsAbove(d, r, c) \cup {c} /\ c \notin ObjectsAbove(d, r, c)
      BY <1>5, <1>6, <1>9, Zenon DEF ObjectsAbove
    <2>2. Cardinality(ObjectsAbove(d, r, e)) = Cardinality(ObjectsAbove(d, r, c)) + 1
      BY <1>7, <2>1, FS_AddElement
    <2> QED
      BY <1>5, <1>8, <1>9, <2>2 DEF Shift
  <1>10. CASE ~IsObject(d, c)
    <2>1. ObjectsAbove(d, r, e) = ObjectsAbove(d, r, c)
      BY <1>5, <1>10, Zenon DEF ObjectsAbove
    <2> QED
      BY <1>5, <1>7, <1>8, <1>10, <2>1 DEF Shift
  <1> QED
    BY <1>9, <1>10

\* The walk comes to a value in the field at r when no value above it is shown
\* as it is.
Reached(d, r, level, i) ==
    /\ i \in r .. d.numberOfTokens - 1
    /\ i = r \/ r \in Above(d, r, i)
    /\ i \notin MemberNames(d)
    /\ \A c \in Above(d, r, i) : ~Flat(d, r, level, c)

LEMMA ReachedChild ==
    ASSUME NEW d \in TokenLists, IsJson(d), NEW r \in Nat, NEW level, NEW c \in Nat,
           Reached(d, r, level, c), ~Flat(d, r, level, c),
           NEW e \in Int, e - Shift(d, c) \in Heads(d, c)
    PROVE  Reached(d, r, level, e)
  <1>1. e \in Elements(d, c) /\ e \notin MemberNames(d) /\ Nested(d)
    BY ChildOf DEF IsJson
  <1>2. r <= c /\ HasParts(d, c)
    BY DEF Reached, Flat
  <1>3. Above(d, r, e) = Above(d, r, c) \cup {c}
    BY <1>1, <1>2, AboveChild
  <1>4. e \in Nat /\ c < e /\ e < d.numberOfTokens /\ d.numberOfTokens \in Nat
    BY <1>1, ElementOf, ListShape
  <1>5. e \in r .. d.numberOfTokens - 1
    BY <1>2, <1>4
  <1>6. r \in Above(d, r, e)
    BY <1>3 DEF Reached
  <1> QED
    BY <1>1, <1>3, <1>5, <1>6 DEF Reached

\* What is reached and shown as it is is an item, and every item is reached.
LEMMA ItemIsReached ==
    ASSUME NEW d \in TokenLists, LeavesApart(d), NEW r \in Nat, NEW level, NEW i
    PROVE  /\ Reached(d, r, level, i) /\ Flat(d, r, level, i) => i \in Items(d, r, level)
           /\ i \in Items(d, r, level) =>
                i \in r .. d.numberOfTokens - 1 /\ (i = r \/ Inside(d, i, r)) 
                /\ \A c \in Above(d, r, i) : ~Flat(d, r, level, c)
  BY DEF Reached, Items, Above

LEMMA ItemsFinite ==
    ASSUME NEW d \in TokenLists, NEW r \in Nat, NEW level
    PROVE  /\ Items(d, r, level) \in SUBSET Nat /\ IsFiniteSet(Items(d, r, level))
           /\ Cardinality(Items(d, r, level)) \in Nat
  <1>1. Items(d, r, level) \subseteq r .. d.numberOfTokens - 1
    BY DEF Items
  <1>2. d.numberOfTokens \in Nat
    BY ListShape
  <1>3. r .. d.numberOfTokens - 1 \subseteq Nat
    BY <1>2
  <1>4. IsFiniteSet(Items(d, r, level))
    <2>1. r \in Int /\ d.numberOfTokens - 1 \in Int
      BY <1>2
    <2>2. IsFiniteSet(r .. d.numberOfTokens - 1)
      BY <2>1, FS_Interval, Zenon
    <2> QED
      BY <1>1, <2>2, FS_Subset
  <1> QED
    BY <1>1, <1>3, <1>4, FS_CardinalityType

----------------------------------------------------------------------------
(* Paths of names                                                          *)

\* A number greater than those of a set comes last in it.
LEMMA PlaceAppend ==
    ASSUME NEW S \in SUBSET Nat, IsFiniteSet(S), NEW m \in Nat, \A n \in S : n < m
    PROVE  /\ Cardinality(S) \in Nat
           /\ Cardinality(S \cup {m}) = Cardinality(S) + 1
           /\ Place(S \cup {m}, m) = Cardinality(S)
           /\ \A n \in S : /\ Place(S \cup {m}, n) = Place(S, n)
                           /\ Place(S, n) \in Nat /\ Place(S, n) < Cardinality(S)
  <1>1. m \notin S
    OBVIOUS
  <1>2. Cardinality(S \cup {m}) = Cardinality(S) + 1 /\ Cardinality(S) \in Nat
    BY <1>1, FS_AddElement, FS_CardinalityType
  <1>3. {j \in S \cup {m} : j < m} = S
    <2>1. ~(m < m)
      OBVIOUS
    <2> QED
      BY <2>1, Zenon
  <1>4. ASSUME NEW n \in S
        PROVE  /\ Place(S \cup {m}, n) = Place(S, n)
               /\ Place(S, n) \in Nat /\ Place(S, n) < Cardinality(S)
    <2>1. ~(m < n)
      BY <1>4
    <2>2. {j \in S \cup {m} : j < n} = {j \in S : j < n}
      BY <2>1
    <2>3. n \in Nat /\ n + 1 \in Nat /\ n < n + 1
      OBVIOUS
    <2>4. Place(S, n) \in Nat /\ Place(S, n) + 1 <= Cardinality(S)
      BY <2>3, PlaceGrows
    <2> QED
      BY <1>2, <2>2, <2>4 DEF Place
  <1> QED
    BY <1>2, <1>3, <1>4 DEF Place

LEMMA NamesFinite ==
    ASSUME NEW d \in TokenLists, NEW r \in Nat, NEW i \in Nat
    PROVE  /\ NamesTo(d, r, i) \in SUBSET Nat /\ IsFiniteSet(NamesTo(d, r, i))
           /\ Cardinality(NamesTo(d, r, i)) \in Nat
           /\ \A n \in NamesTo(d, r, i) : n < i /\ r <= n + 1
  <1>1. ASSUME NEW n \in NamesTo(d, r, i) PROVE n \in Nat /\ r <= n + 1 /\ n < i /\ n \in 0 .. i
    <2>1. n \in MemberNames(d) /\ n >= r - 1 /\ n + 1 \in Above(d, r, i) \cup {i}
      BY DEF NamesTo
    <2>2. PICK c \in Nat : IsObject(d, c) /\ n \in Members(d, c)
      BY <2>1, MemberNamesOf
    <2>3. n \in Nat
      BY <2>2, ElementsFinite, ListShape
    <2>4. n + 1 <= i
      <3>1. CASE n + 1 \in Above(d, r, i)
        BY <3>1, AboveFinite
      <3>2. CASE n + 1 = i
        BY <3>2
      <3> QED
        BY <2>1, <3>1, <3>2
    <2> QED
      BY <2>1, <2>3, <2>4
  <1>2. NamesTo(d, r, i) \subseteq 0 .. i /\ IsFiniteSet(0 .. i)
    BY <1>1, FS_Interval
  <1>3. IsFiniteSet(NamesTo(d, r, i))
    BY <1>2, FS_Subset
  <1> QED
    BY <1>1, <1>3, FS_CardinalityType

\* The path to a child is the path to its container, and the name of the child
\* if it is a member.
LEMMA NamesToChild ==
    ASSUME NEW d \in TokenLists, IsJson(d), NEW r \in Nat, NEW c \in Nat, r <= c,
           HasParts(d, c), NEW e \in Int, e - Shift(d, c) \in Heads(d, c)
    PROVE  /\ IsObject(d, c) => /\ NamesTo(d, r, e) = NamesTo(d, r, c) \cup {e - 1}
                                /\ \A n \in NamesTo(d, r, c) : n < e - 1
           /\ ~IsObject(d, c) => NamesTo(d, r, e) = NamesTo(d, r, c)
  <1>1. /\ e \in Elements(d, c) /\ e \in Nat /\ Nested(d)
        /\ IsObject(d, c) => e - 1 \in Members(d, c)
        /\ ~IsObject(d, c) => e - 1 \notin MemberNames(d)
    BY ChildOf DEF IsJson
  <1>2. Above(d, r, e) = Above(d, r, c) \cup {c}
    BY <1>1, AboveChild
  <1>3. c < e
    BY <1>1, ElementOf
  <1>4. \A n \in MemberNames(d) : n \in Nat
    BY MemberNamesOf, ElementsFinite, ListShape
  <1>5. \A n \in MemberNames(d) : n + 1 = e <=> n = e - 1
    BY <1>1, <1>4
  <1>6. \A n : n \in NamesTo(d, r, e) <=>
                  n \in MemberNames(d) /\ n >= r - 1 /\ (n + 1 \in Above(d, r, c) \cup {c} \/ n = e - 1)
    BY <1>2, <1>5 DEF NamesTo
  <1>7. CASE IsObject(d, c)
    <2>1. e - 1 \in MemberNames(d)
      BY <1>1, <1>7, MemberNamesOf
    <2>2. e - 1 >= r - 1
      BY <1>1, <1>3
    <2>3. NamesTo(d, r, e) = NamesTo(d, r, c) \cup {e - 1}
      BY <1>6, <2>1, <2>2 DEF NamesTo
    <2>4. c < e - 1
      BY <1>1, <1>7, ElementsFinite, ListShape
    <2>5. \A n \in NamesTo(d, r, c) : n \in Nat /\ n < c
      BY NamesFinite
    <2>6. \A n \in NamesTo(d, r, c) : n < e - 1
      BY <1>1, <2>4, <2>5
    <2> QED
      BY <1>7, <2>3, <2>6
  <1>8. CASE ~IsObject(d, c)
    <2>1. \A n \in MemberNames(d) : n # e - 1
      BY <1>1, <1>8
    <2>2. NamesTo(d, r, e) = NamesTo(d, r, c)
      BY <1>6, <2>1 DEF NamesTo
    <2> QED
      BY <1>8, <2>2
  <1> QED
    BY <1>7, <1>8

LEMMA PathDown ==
    ASSUME NEW d \in TokenLists, IsJson(d), NEW r \in Nat, NEW c \in Nat, r <= c,
           HasParts(d, c), NEW e \in Int, e - Shift(d, c) \in Heads(d, c), IsObject(d, c),
           NEW path \in Seq(Strings), LeadsTo(path, d, r, c)
    PROVE  LeadsTo(Append(path, d.tokens[e - 1].text), d, r, e)
  <1> DEFINE S == NamesTo(d, r, c)
  <1>1. /\ NamesTo(d, r, e) = S \cup {e - 1} /\ \A n \in S : n < e - 1
        /\ S \in SUBSET Nat /\ IsFiniteSet(S)
    <2>1. NamesTo(d, r, e) = NamesTo(d, r, c) \cup {e - 1} /\ \A n \in NamesTo(d, r, c) : n < e - 1
      BY NamesToChild
    <2>2. NamesTo(d, r, c) \in SUBSET Nat /\ IsFiniteSet(NamesTo(d, r, c))
      BY NamesFinite
    <2> QED
      BY <2>1, <2>2
  <1>2. e - 1 \in Nat /\ d.tokens[e - 1].text \in Strings
    <2>1. e - 1 \in Members(d, c)
      BY ChildOf
    <2>2. e - 1 \in 0 .. d.numberOfTokens - 1 /\ d.numberOfTokens \in Nat
      BY <2>1, ElementsFinite, ListShape
    <2> QED
      BY <2>2, ListShape
  <1>3. PICK m \in Nat : m = e - 1
    BY <1>2
  <1>4. PICK t \in Strings : t = d.tokens[e - 1].text
    BY <1>2
  <1>5. Len(path) = Cardinality(S) /\ \A n \in S : path[Place(S, n) + 1] = d.tokens[n].text
    BY DEF LeadsTo
  <1> HIDE DEF S
  <1>6. /\ Cardinality(S) \in Nat /\ Cardinality(S \cup {m}) = Cardinality(S) + 1
        /\ Place(S \cup {m}, m) = Cardinality(S)
        /\ \A n \in S : /\ Place(S \cup {m}, n) = Place(S, n)
                        /\ Place(S, n) \in Nat /\ Place(S, n) < Cardinality(S)
    BY <1>1, <1>3, PlaceAppend
  <1>7. PICK q : q = Append(path, t)
    OBVIOUS
  <1>8. Len(q) = Len(path) + 1 /\ q[Len(path) + 1] = t
        /\ \A k \in 1 .. Len(path) : q[k] = path[k]
    BY <1>7
  <1>9. ASSUME NEW n \in S \cup {m} PROVE q[Place(S \cup {m}, n) + 1] = d.tokens[n].text
    <2>1. CASE n = m
      BY <1>3, <1>4, <1>5, <1>6, <1>8, <2>1
    <2>2. CASE n \in S
      <3>1. Place(S, n) + 1 \in 1 .. Len(path)
        BY <1>5, <1>6, <2>2
      <3> QED
        BY <1>5, <1>6, <1>8, <2>2, <3>1
    <2> QED
      BY <2>1, <2>2
  <1>10. LeadsTo(q, d, r, e)
    BY <1>1, <1>3, <1>5, <1>6, <1>8, <1>9 DEF LeadsTo
  <1> QED
    BY <1>4, <1>7, <1>10

LEMMA PathUp ==
    ASSUME NEW d \in TokenLists, IsJson(d), NEW r \in Nat, NEW c \in Nat, r <= c,
           HasParts(d, c), NEW e \in Int, e - Shift(d, c) \in Heads(d, c),
           NEW path \in Seq(Strings), LeadsTo(path, d, r, e)
    PROVE  IF IsObject(d, c) THEN LeadsTo(SubSeq(path, 1, Cardinality(NamesTo(d, r, c))), d, r, c)
           ELSE LeadsTo(path, d, r, c)
  <1> DEFINE S == NamesTo(d, r, c)
  <1>1. CASE IsObject(d, c)
    <2>1. /\ NamesTo(d, r, e) = S \cup {e - 1} /\ \A n \in S : n < e - 1
          /\ S \in SUBSET Nat /\ IsFiniteSet(S)
      <3>1. NamesTo(d, r, e) = NamesTo(d, r, c) \cup {e - 1} /\ \A n \in NamesTo(d, r, c) : n < e - 1
        BY <1>1, NamesToChild
      <3>2. NamesTo(d, r, c) \in SUBSET Nat /\ IsFiniteSet(NamesTo(d, r, c))
        BY NamesFinite
      <3> QED
        BY <3>1, <3>2
    <2>2. e - 1 \in Nat
      <3>1. e - 1 \in Members(d, c)
        BY <1>1, ChildOf
      <3> QED
        BY <3>1, ElementsFinite, ListShape
    <2>3. PICK m \in Nat : m = e - 1
      BY <2>2
    <2>4. /\ Len(path) = Cardinality(S \cup {m})
          /\ \A n \in S : path[Place(S \cup {m}, n) + 1] = d.tokens[n].text
      BY <2>1, <2>3 DEF LeadsTo
    <2> HIDE DEF S
    <2>5. /\ Cardinality(S) \in Nat /\ Cardinality(S \cup {m}) = Cardinality(S) + 1
          /\ \A n \in S : /\ Place(S \cup {m}, n) = Place(S, n)
                          /\ Place(S, n) \in Nat /\ Place(S, n) < Cardinality(S)
      BY <2>1, <2>3, PlaceAppend
    <2>6. PICK k \in Nat : k = Cardinality(S)
      BY <2>5
    <2>7. PICK q : q = SubSeq(path, 1, k)
      OBVIOUS
    <2>8. k <= Len(path)
      BY <2>4, <2>5, <2>6
    <2>9. Len(q) = k /\ \A j \in 1 .. k : q[j] = path[j]
      BY <2>7, <2>8
    <2>10. ASSUME NEW n \in S PROVE q[Place(S, n) + 1] = d.tokens[n].text
      <3>1. Place(S, n) + 1 \in 1 .. k
        BY <2>5, <2>6
      <3> QED
        BY <2>4, <2>5, <2>9, <3>1
    <2>11. LeadsTo(q, d, r, c)
      BY <2>6, <2>9, <2>10 DEF LeadsTo, S
    <2> QED
      BY <1>1, <2>6, <2>7, <2>11 DEF S
  <1>2. CASE ~IsObject(d, c)
    BY <1>2, NamesToChild DEF LeadsTo
  <1> QED
    BY <1>1, <1>2

LEMMA Least ==
    ASSUME NEW k \in Nat, NEW S \in SUBSET (0 .. k), S # {}
    PROVE  \E m \in S : \A i \in S : m <= i
  <1> DEFINE T == {k - j : j \in S}
  <1>1. T \subseteq 0 .. k /\ T # {}
    <2>1. \A j \in S : k - j \in 0 .. k
      OBVIOUS
    <2> QED
      BY <2>1
  <1>2. T \in SUBSET Nat /\ IsFiniteSet(T)
    <2>1. IsFiniteSet(0 .. k) /\ \A j \in 0 .. k : j \in Nat
      BY FS_Interval
    <2> HIDE DEF T
    <2>2. IsFiniteSet(T)
      BY <1>1, <2>1, FS_Subset
    <2> QED
      BY <1>1, <2>1, <2>2
  <1>3. PICK t \in T : \A j \in T : j <= t
    <2> HIDE DEF T
    <2> QED
      BY <1>1, <1>2, Greatest
  <1>4. PICK m \in S : t = k - m
    OBVIOUS
  <1>5. ASSUME NEW i \in S PROVE m <= i
    <2>1. k - i <= k - m
      BY <1>3, <1>4
    <2> HIDE DEF T
    <2>2. i \in 0 .. k /\ m \in 0 .. k
      OBVIOUS
    <2>3. k \in Int /\ i \in Int /\ m \in Int
      BY <2>2
    <2>4. \A a, b, c \in Int : a - b <= a - c => c <= b
      OBVIOUS
    <2> QED
      BY <2>1, <2>3, <2>4, Zenon
  <1> QED
    BY <1>5

\* Token x is token e or inside it.
Within(d, e, x) == e <= x /\ d.tokens[x].start <= d.tokens[e].end

\* What starts in a container is an element of it or inside one.
LEMMA InElement ==
    ASSUME NEW d \in TokenLists, Nested(d), NEW c \in Nat, NEW x \in Nat,
           c < x, x < d.numberOfTokens, Within(d, c, x)
    PROVE  \E f \in Elements(d, c) : Within(d, f, x)
  <1> DEFINE S == {j \in c + 1 .. x : d.tokens[x].start <= d.tokens[j].end}
  <1>0. d.numberOfTokens \in Nat
    BY ListShape
  <1>1. S \in SUBSET (0 .. x) /\ x \in S
    BY TwoSpans
  <1>2. PICK f \in S : \A i \in S : f <= i
    <2> HIDE DEF S
    <2> QED
      BY <1>1, Least
  <1>3. f \in Nat /\ c < f /\ f <= x /\ f < d.numberOfTokens /\ d.tokens[x].start <= d.tokens[f].end
    BY <1>0, <1>2
  <1>4. d.tokens[f].start <= d.tokens[x].start
    BY <1>3, TwoSpans
  <1>5. d.tokens[f].start < d.tokens[c].end
    <2>1. /\ d.tokens[c].end \in Nat /\ d.tokens[f].start \in Nat /\ d.tokens[f].end \in Nat
          /\ d.tokens[f].start <= d.tokens[f].end /\ d.tokens[x].start \in Nat
          /\ d.tokens[f].end < d.tokens[c].end \/ d.tokens[c].end < d.tokens[f].start
      BY <1>3, TwoSpans
    <2>2. d.tokens[f].start <= d.tokens[c].end
      BY <1>4, <2>1 DEF Within
    <2> QED
      BY <2>1, <2>2
  <1>6. ASSUME NEW j \in c + 1 .. f - 1 PROVE d.tokens[j].end < d.tokens[f].start
    <2>1. j \in Nat /\ c < j /\ j < f /\ ~(f <= j) /\ j \in c + 1 .. x
      BY <1>3
    <2>2. ~(d.tokens[x].start <= d.tokens[j].end)
      BY <1>2, <2>1
    <2>3. /\ d.tokens[j].end \in Nat /\ d.tokens[f].end \in Nat
          /\ d.tokens[f].end < d.tokens[j].end \/ d.tokens[j].end < d.tokens[f].start
      BY <1>3, <2>1, TwoSpans
    <2>4. d.tokens[x].start \in Nat
      BY TwoSpans
    <2> QED
      BY <1>3, <2>2, <2>3, <2>4
  <1>7. f \in c + 1 .. d.numberOfTokens - 1
    BY <1>0, <1>3
  <1>8. f \in Elements(d, c)
    BY <1>5, <1>6, <1>7 DEF Elements
  <1> QED
    BY <1>3, <1>8 DEF Within

\* A value in a container is a child of it or inside one.
LEMMA InChild ==
    ASSUME NEW d \in TokenLists, IsJson(d), LeavesApart(d), NEW c \in Nat, NEW x \in Nat,
           c < x, x < d.numberOfTokens, Within(d, c, x), x \notin MemberNames(d)
    PROVE  \E e \in Nat : e - Shift(d, c) \in Heads(d, c) /\ Within(d, e, x)
  <1>0. Nested(d) /\ Alternates(d) /\ DOMAIN d.tokens = 0 .. d.numberOfTokens - 1
        /\ d.numberOfTokens \in Nat
    BY ListShape DEF IsJson
  <1>1. PICK f \in Elements(d, c) : Within(d, f, x)
    BY <1>0, InElement
  <1>2. f \in Nat /\ f < d.numberOfTokens /\ c < d.numberOfTokens
    BY <1>0, ElementOf
  <1>3. CASE IsObject(d, c)
    <2>1. f \notin d.names
      <3> SUFFICES ASSUME f \in d.names PROVE FALSE
        OBVIOUS
      <3>1. f \in Members(d, c)
        BY DEF Members
      <3>2. f # x
        BY <1>3, <3>1, MemberNamesOf
      <3>3. f < x
        BY <1>1, <1>2, <3>2 DEF Within
      <3>4. d.tokens[f].end <= d.tokens[x].start
        BY <1>0, <1>2, <3>3 DEF LeavesApart
      <3>5. /\ d.tokens[f].end \in Nat /\ d.tokens[x].start \in Nat /\ d.tokens[x].end \in Nat
            /\ d.tokens[x].start <= d.tokens[x].end
            /\ d.tokens[x].end < d.tokens[f].end \/ d.tokens[f].end < d.tokens[x].start
        BY <1>0, <1>2, <3>3, TwoSpans
      <3>6. d.tokens[x].start <= d.tokens[f].end
        BY <1>1 DEF Within
      <3> QED
        BY <3>4, <3>5, <3>6
    <2>2. f - 1 \in Members(d, c)
      <3>1. c \in DOMAIN d.tokens /\ d.tokens[c].type = "JSMN_OBJECT"
        BY <1>0, <1>2, <1>3 DEF IsObject
      <3> QED
        BY <1>0, <2>1, <3>1 DEF Alternates
    <2> QED
      BY <1>1, <1>2, <1>3, <2>2 DEF Shift, Heads
  <1>4. CASE ~IsObject(d, c)
    <2>1. f - 0 \in Elements(d, c)
      BY <1>2
    <2> QED
      BY <1>1, <1>2, <1>4, <2>1 DEF Shift, Heads
  <1> QED
    BY <1>3, <1>4

\* Children in the order of their numbers.
LEMMA ChildOrder ==
    ASSUME NEW d \in TokenLists, IsJson(d), NEW c \in Nat,
           NEW e \in Nat, NEW n, NthChild(d, c, n, e)
    PROVE  /\ n \in Nat /\ n < Cardinality(Heads(d, c))
           /\ c < e /\ e < d.numberOfTokens /\ d.tokens[e].end < d.tokens[c].end
           /\ \A f \in Nat : \A m : NthChild(d, c, m, f) =>
                 /\ f < e <=> m < n
                 /\ f = e <=> m = n
                 /\ f < e => d.tokens[f].end < d.tokens[e].start
  <1> DEFINE H == Heads(d, c)
             s == Shift(d, c)
  <1>0. Nested(d) /\ s \in Nat
    BY DEF IsJson, Shift
  <1>1. H \in SUBSET Nat /\ IsFiniteSet(H) /\ Cardinality(H) \in Nat
    BY HeadsOf
  <1>2. e - s \in H /\ Place(H, e - s) = n /\ e - s \in Nat
    BY <1>1 DEF NthChild
  <1>3. e \in Elements(d, c)
    BY <1>2, ChildOf
  <1>4. ASSUME NEW f \in Nat, NEW m, NthChild(d, c, m, f)
        PROVE  /\ f < e <=> m < n
               /\ f = e <=> m = n
               /\ f < e => d.tokens[f].end < d.tokens[e].start
    <2>1. f - s \in H /\ Place(H, f - s) = m /\ f - s \in Nat
      BY <1>1, <1>4 DEF NthChild
    <2>2. f \in Elements(d, c)
      BY <2>1, ChildOf
    <2>3. f < e => d.tokens[f].end < d.tokens[e].start
      BY <1>0, <1>3, <2>2, ElementOf
    <2> HIDE DEF H, s
    <2>4. m \in Nat /\ n \in Nat
      BY <1>1, <1>2, <2>1, PlaceStep
    <2>5. CASE f < e
      <3>1. f - s < e - s
        BY <1>0, <2>5
      <3>2. m + 1 <= n
        BY <1>1, <1>2, <2>1, <3>1, PlaceGrows
      <3> QED
        BY <2>3, <2>4, <2>5, <3>2
    <2>6. CASE e < f
      <3>1. e - s < f - s
        BY <1>0, <2>6
      <3>2. n + 1 <= m
        BY <1>1, <1>2, <2>1, <3>1, PlaceGrows
      <3> QED
        BY <2>4, <2>6, <3>2
    <2>7. CASE e = f
      BY <1>2, <2>1, <2>4, <2>7
    <2> QED
      BY <2>5, <2>6, <2>7
  <1>5. n \in Nat /\ n < Cardinality(H)
    <2> HIDE DEF H, s
    <2>1. PICK v \in Nat : v = e - s
      BY <1>2
    <2>2. v < v + 1 /\ v + 1 \in Nat /\ v \in H
      BY <1>2, <2>1
    <2>3. Place(H, v) \in Nat /\ Place(H, v) + 1 <= Cardinality(H)
      BY <1>1, <2>2, PlaceGrows
    <2> QED
      BY <1>1, <1>2, <2>1, <2>3
  <1> QED
    BY <1>0, <1>3, <1>4, <1>5, ElementOf

----------------------------------------------------------------------------
(* Items in the order of the walk                                          *)

\* Those up to the end of token e, and those gone by when the walk has n
\* children of container c behind it.
Upto(d, r, level, e) ==
    {x \in Items(d, r, level) : d.tokens[x].start <= d.tokens[e].end}
Gone(d, r, level, c, n) ==
    {x \in Items(d, r, level) :
        \/ x < c
        \/ \E e \in Nat : /\ e - Shift(d, c) \in Heads(d, c)
                          /\ Place(Heads(d, c), e - Shift(d, c)) < n
                          /\ Within(d, e, x)}

LEMMA ItemsOf ==
    ASSUME NEW d \in TokenLists, Nested(d), NEW r \in Nat, NEW level, NEW x \in Items(d, r, level)
    PROVE  /\ x \in Nat /\ r <= x /\ x < d.numberOfTokens /\ d.numberOfTokens \in Nat
           /\ x \notin MemberNames(d) /\ (x = r \/ Inside(d, x, r))
           /\ d.tokens[x].start \in Nat /\ d.tokens[x].end \in Nat
           /\ d.tokens[x].start <= d.tokens[x].end
           /\ \A c \in Above(d, r, x) : ~Flat(d, r, level, c)
           /\ Flat(d, r, level, x)
  <1>1. d.numberOfTokens \in Nat /\ x \in r .. d.numberOfTokens - 1
    BY ListShape DEF Items
  <1>2. x \in DOMAIN d.tokens
    BY <1>1, ListShape
  <1>3. d.tokens[x].start <= d.tokens[x].end
    BY <1>2 DEF Nested
  <1> QED
    BY <1>1, <1>2, <1>3, ListShape DEF Items

\* An item in a container the walk goes into is in a child of it.
LEMMA ItemInChild ==
    ASSUME NEW d \in TokenLists, IsJson(d), LeavesApart(d), NEW r \in Nat, NEW level,
           NEW c \in Nat, ~Flat(d, r, level, c), NEW x \in Items(d, r, level), Within(d, c, x)
    PROVE  \E e \in Nat : \E n \in Nat :
                /\ NthChild(d, c, n, e) /\ Within(d, e, x)
                /\ e - Shift(d, c) \in Heads(d, c) /\ Place(Heads(d, c), e - Shift(d, c)) = n
  <1>0. Nested(d)
    BY DEF IsJson
  <1>1. x \in Nat /\ x < d.numberOfTokens /\ x \notin MemberNames(d) /\ Flat(d, r, level, x)
    BY <1>0, ItemsOf
  <1>2. c < x
    BY <1>1 DEF Within
  <1>3. PICK e \in Nat : e - Shift(d, c) \in Heads(d, c) /\ Within(d, e, x)
    BY <1>1, <1>2, InChild
  <1>4. PICK n : n = Place(Heads(d, c), e - Shift(d, c))
    OBVIOUS
  <1>5. NthChild(d, c, n, e)
    BY <1>3, <1>4 DEF NthChild
  <1>6. n \in Nat
    BY <1>5, ChildOrder
  <1> QED
    BY <1>3, <1>4, <1>5, <1>6

LEMMA GoneFirst ==
    ASSUME NEW d \in TokenLists, IsJson(d), NEW r \in Nat, NEW level, NEW c \in Nat
    PROVE  Cardinality(Gone(d, r, level, c, 0)) = Place(Items(d, r, level), c)
  <1>1. ASSUME NEW e \in Nat, e - Shift(d, c) \in Heads(d, c)
        PROVE  ~(Place(Heads(d, c), e - Shift(d, c)) < 0)
    <2>1. PICK n : n = Place(Heads(d, c), e - Shift(d, c))
      OBVIOUS
    <2>2. NthChild(d, c, n, e)
      BY <1>1, <2>1 DEF NthChild
    <2> QED
      BY <2>1, <2>2, ChildOrder
  <1>2. Gone(d, r, level, c, 0) = {x \in Items(d, r, level) : x < c}
    BY <1>1, Zenon DEF Gone
  <1> QED
    BY <1>2 DEF Place

LEMMA GoneBefore ==
    ASSUME NEW d \in TokenLists, IsJson(d), LeavesApart(d), NEW r \in Nat, NEW level,
           NEW c \in Nat, ~Flat(d, r, level, c), NEW n, NEW e \in Nat, NthChild(d, c, n, e)
    PROVE  Gone(d, r, level, c, n) = {x \in Items(d, r, level) : x < e}
  <1>0. Nested(d)
    BY DEF IsJson
  <1>1. /\ n \in Nat /\ c < e /\ e < d.numberOfTokens /\ d.tokens[e].end < d.tokens[c].end
        /\ \A f \in Nat : \A m : NthChild(d, c, m, f) =>
              /\ f < e <=> m < n
              /\ f < e => d.tokens[f].end < d.tokens[e].start
    BY ChildOrder, SMTT(60)
  <1>2. ASSUME NEW x \in Gone(d, r, level, c, n) PROVE x \in Items(d, r, level) /\ x < e
    <2>1. x \in Items(d, r, level) /\ x \in Nat /\ x < d.numberOfTokens /\ d.tokens[x].start \in Nat
      BY <1>0, ItemsOf DEF Gone
    <2>2. CASE x < c
      BY <1>1, <2>1, <2>2
    <2>3. CASE ~(x < c)
      <3>1. PICK f \in Nat : /\ f - Shift(d, c) \in Heads(d, c)
                             /\ Place(Heads(d, c), f - Shift(d, c)) < n
                             /\ Within(d, f, x)
        BY <2>3 DEF Gone
      <3>2. PICK m : m = Place(Heads(d, c), f - Shift(d, c))
        OBVIOUS
      <3>3. NthChild(d, c, m, f) /\ m < n
        BY <3>1, <3>2 DEF NthChild
      <3>4. f < e /\ d.tokens[f].end < d.tokens[e].start
        BY <1>1, <3>3
      <3>5. d.tokens[f].end \in Nat /\ d.tokens[e].start \in Nat
        BY <1>0, <1>1, <3>4, TwoSpans
      <3>6. d.tokens[x].start < d.tokens[e].start
        BY <2>1, <3>1, <3>4, <3>5 DEF Within
      <3>7. x # e
        BY <3>6, <3>5
      <3>8. ~(e < x)
        BY <1>0, <2>1, <3>5, <3>6, TwoSpans
      <3> QED
        BY <2>1, <3>7, <3>8
    <2> QED
      BY <2>2, <2>3
  <1>3. ASSUME NEW x \in Items(d, r, level), x < e PROVE x \in Gone(d, r, level, c, n)
    <2>1. x \in Nat /\ x < d.numberOfTokens /\ d.tokens[x].start \in Nat
      BY <1>0, ItemsOf
    <2>2. CASE x < c
      BY <2>2 DEF Gone
    <2>3. CASE ~(x < c)
      <3>1. /\ d.tokens[x].start < d.tokens[e].start /\ d.tokens[e].start <= d.tokens[e].end
            /\ d.tokens[e].start \in Nat /\ d.tokens[e].end \in Nat
        BY <1>0, <1>1, <1>3, <2>1, TwoSpans
      <3>2. d.tokens[c].end \in Nat
        BY <1>0, <1>1, TwoSpans
      <3>3. Within(d, c, x)
        BY <1>1, <2>1, <2>3, <3>1, <3>2 DEF Within
      <3>4. PICK f \in Nat, m \in Nat :
                /\ NthChild(d, c, m, f) /\ Within(d, f, x)
                /\ f - Shift(d, c) \in Heads(d, c) /\ Place(Heads(d, c), f - Shift(d, c)) = m
        BY <3>3, ItemInChild
      <3>5. f < e
        BY <1>3, <2>1, <3>4 DEF Within
      <3>6. m < n
        BY <1>1, <3>4, <3>5
      <3> QED
        BY <3>4, <3>6 DEF Gone
    <2> QED
      BY <2>2, <2>3
  <1> QED
    BY <1>2, <1>3

LEMMA GoneChild ==
    ASSUME NEW d \in TokenLists, IsJson(d), LeavesApart(d), NEW r \in Nat, NEW level,
           NEW c \in Nat, ~Flat(d, r, level, c), NEW n, NEW e \in Nat, NthChild(d, c, n, e)
    PROVE  Gone(d, r, level, c, n + 1) = Upto(d, r, level, e)
  <1>0. Nested(d)
    BY DEF IsJson
  <1>1. /\ n \in Nat /\ c < e /\ e < d.numberOfTokens /\ d.tokens[e].end < d.tokens[c].end
        /\ \A f \in Nat : \A m : NthChild(d, c, m, f) =>
              /\ f < e <=> m < n
              /\ f = e <=> m = n
              /\ f < e => d.tokens[f].end < d.tokens[e].start
    BY ChildOrder
  <1>2. /\ d.tokens[e].start \in Nat /\ d.tokens[e].end \in Nat
        /\ d.tokens[e].start <= d.tokens[e].end
    BY <1>0, <1>1, TwoSpans
  <1>3. ASSUME NEW x \in Gone(d, r, level, c, n + 1) PROVE x \in Upto(d, r, level, e)
    <2>1. x \in Items(d, r, level) /\ x \in Nat /\ x < d.numberOfTokens /\ d.tokens[x].start \in Nat
      BY <1>0, ItemsOf DEF Gone
    <2>2. CASE x < c
      <3>1. x < e
        BY <1>1, <2>1, <2>2
      <3>2. d.tokens[x].start < d.tokens[e].start
        BY <1>0, <1>1, <2>1, <3>1, TwoSpans
      <3> QED
        BY <1>2, <2>1, <3>2 DEF Upto
    <2>3. CASE ~(x < c)
      <3>1. PICK f \in Nat : /\ f - Shift(d, c) \in Heads(d, c)
                             /\ Place(Heads(d, c), f - Shift(d, c)) < n + 1
                             /\ Within(d, f, x)
        BY <2>3 DEF Gone
      <3>2. PICK m : m = Place(Heads(d, c), f - Shift(d, c))
        OBVIOUS
      <3>3. NthChild(d, c, m, f) /\ m < n + 1
        BY <3>1, <3>2 DEF NthChild
      <3>4. m \in Nat
        BY <3>3, ChildOrder
      <3>5. CASE m = n
        BY <1>1, <2>1, <3>1, <3>3, <3>5 DEF Within, Upto
      <3>6. CASE m < n
        <4>1. f < e /\ d.tokens[f].end < d.tokens[e].start
          BY <1>1, <3>3, <3>6
        <4>2. d.tokens[f].end \in Nat
          BY <1>0, <1>1, <4>1, TwoSpans
        <4>3. d.tokens[x].start <= d.tokens[e].end
          BY <1>2, <2>1, <3>1, <4>1, <4>2 DEF Within
        <4> QED
          BY <2>1, <4>3 DEF Upto
      <3> QED
        BY <1>1, <3>3, <3>4, <3>5, <3>6
    <2> QED
      BY <2>2, <2>3
  <1>4. ASSUME NEW x \in Upto(d, r, level, e) PROVE x \in Gone(d, r, level, c, n + 1)
    <2>1. x \in Items(d, r, level) /\ d.tokens[x].start <= d.tokens[e].end /\ x \in Nat
      BY <1>0, ItemsOf DEF Upto
    <2>2. CASE x < e
      <3>1. x \in Gone(d, r, level, c, n)
        BY <2>1, <2>2, GoneBefore
      <3>2. CASE x < c
        BY <2>1, <3>2 DEF Gone
      <3>3. CASE ~(x < c)
        <4>1. PICK f \in Nat : /\ f - Shift(d, c) \in Heads(d, c)
                               /\ Place(Heads(d, c), f - Shift(d, c)) < n
                               /\ Within(d, f, x)
          BY <3>1, <3>3 DEF Gone
        <4>2. PICK m : m = Place(Heads(d, c), f - Shift(d, c))
          OBVIOUS
        <4>3. NthChild(d, c, m, f) /\ m < n
          BY <4>1, <4>2 DEF NthChild
        <4>4. m \in Nat
          BY <4>3, ChildOrder
        <4>5. m < n + 1
          BY <1>1, <4>3, <4>4
        <4> QED
          BY <2>1, <4>1, <4>2, <4>5 DEF Gone
      <3> QED
        BY <3>2, <3>3
    <2>3. CASE ~(x < e)
      <3>1. Within(d, e, x)
        BY <2>1, <2>3 DEF Within
      <3>2. e - Shift(d, c) \in Heads(d, c) /\ Place(Heads(d, c), e - Shift(d, c)) < n + 1
        BY <1>1 DEF NthChild
      <3> QED
        BY <2>1, <3>1, <3>2 DEF Gone
    <2> QED
      BY <2>2, <2>3
  <1> QED
    BY <1>3, <1>4

LEMMA GoneAll ==
    ASSUME NEW d \in TokenLists, IsJson(d), LeavesApart(d), NEW r \in Nat, NEW level,
           NEW c \in Nat, c < d.numberOfTokens, ~Flat(d, r, level, c),
           NEW n \in Int, Cardinality(Heads(d, c)) <= n
    PROVE  Gone(d, r, level, c, n) = Upto(d, r, level, c)
  <1>0. Nested(d) /\ Cardinality(Heads(d, c)) \in Nat
    BY HeadsOf DEF IsJson
  <1>1. c \in DOMAIN d.tokens
    BY ListShape
  <1>2. /\ d.tokens[c].start \in Nat /\ d.tokens[c].end \in Nat
        /\ d.tokens[c].start <= d.tokens[c].end
    BY <1>0, <1>1, ListShape DEF Nested
  <1>3. ASSUME NEW x \in Gone(d, r, level, c, n) PROVE x \in Upto(d, r, level, c)
    <2>1. x \in Items(d, r, level) /\ x \in Nat /\ x < d.numberOfTokens /\ d.tokens[x].start \in Nat
      BY <1>0, ItemsOf DEF Gone
    <2>2. CASE x < c
      <3>2. d.tokens[x].start < d.tokens[c].start
        BY <1>0, <2>1, <2>2, TwoSpans
      <3> QED
        BY <1>2, <2>1, <3>2 DEF Upto
    <2>3. CASE ~(x < c)
      <3>1. PICK f \in Nat : /\ f - Shift(d, c) \in Heads(d, c)
                             /\ Place(Heads(d, c), f - Shift(d, c)) < n
                             /\ Within(d, f, x)
        BY <2>3 DEF Gone
      <3>2. PICK m : m = Place(Heads(d, c), f - Shift(d, c))
        OBVIOUS
      <3>3. NthChild(d, c, m, f)
        BY <3>1, <3>2 DEF NthChild
      <3>4. c < f /\ f < d.numberOfTokens /\ d.tokens[f].end < d.tokens[c].end
        BY <3>3, ChildOrder
      <3>5. d.tokens[f].end \in Nat
        BY <1>0, <3>4, TwoSpans
      <3>6. d.tokens[x].start <= d.tokens[c].end
        BY <1>2, <2>1, <3>1, <3>4, <3>5 DEF Within
      <3> QED
        BY <2>1, <3>6 DEF Upto
    <2> QED
      BY <2>2, <2>3
  <1>4. ASSUME NEW x \in Upto(d, r, level, c) PROVE x \in Gone(d, r, level, c, n)
    <2>1. x \in Items(d, r, level) /\ d.tokens[x].start <= d.tokens[c].end /\ x \in Nat
      BY <1>0, ItemsOf DEF Upto
    <2>2. CASE x < c
      BY <2>1, <2>2 DEF Gone
    <2>3. CASE ~(x < c)
      <3>1. Within(d, c, x)
        BY <2>1, <2>3 DEF Within
      <3>2. PICK f \in Nat, m \in Nat :
                /\ NthChild(d, c, m, f) /\ Within(d, f, x)
                /\ f - Shift(d, c) \in Heads(d, c) /\ Place(Heads(d, c), f - Shift(d, c)) = m
        BY <2>1, <3>1, ItemInChild
      <3>3. m < Cardinality(Heads(d, c))
        BY <3>2, ChildOrder
      <3>4. m < n
        BY <1>0, <3>3
      <3> QED
        BY <2>1, <3>2, <3>4 DEF Gone
    <2> QED
      BY <2>2, <2>3
  <1> QED
    BY <1>3, <1>4

\* Nothing inside an item is an item.
LEMMA UptoItem ==
    ASSUME NEW d \in TokenLists, IsJson(d), LeavesApart(d), NEW r \in Nat, NEW level,
           NEW c \in Items(d, r, level)
    PROVE  Cardinality(Upto(d, r, level, c)) = Place(Items(d, r, level), c) + 1
  <1> DEFINE I == Items(d, r, level)
  <1>0. Nested(d) /\ I \in SUBSET Nat /\ IsFiniteSet(I)
    BY ItemsFinite DEF IsJson
  <1>1. /\ c \in Nat /\ r <= c /\ c < d.numberOfTokens /\ Flat(d, r, level, c)
        /\ d.tokens[c].start \in Nat /\ d.tokens[c].end \in Nat
        /\ d.tokens[c].start <= d.tokens[c].end
    BY <1>0, ItemsOf
  <1>2. ASSUME NEW x \in I, x < c + 1 PROVE x \in Upto(d, r, level, c)
    <2>1. x \in Nat
      BY <1>0
    <2>2. CASE x = c
      BY <1>1, <2>2 DEF Upto
    <2>3. CASE x < c
      <3>1. d.tokens[x].start < d.tokens[c].start /\ d.tokens[x].start \in Nat
        BY <1>0, <1>1, <2>1, <2>3, TwoSpans
      <3> QED
        BY <1>1, <3>1 DEF Upto
    <2> QED
      BY <1>1, <1>2, <2>1, <2>2, <2>3
  <1>3. ASSUME NEW x \in Upto(d, r, level, c), ~(x < c + 1) PROVE FALSE
    <2>1. /\ x \in I /\ d.tokens[x].start <= d.tokens[c].end /\ x \in Nat /\ x < d.numberOfTokens
          /\ \A b \in Above(d, r, x) : ~Flat(d, r, level, b)
      BY <1>0, ItemsOf DEF Upto
    <2>2. c < x
      BY <1>1, <1>3, <2>1
    <2>3. /\ d.tokens[x].start \in Nat /\ d.tokens[x].end \in Nat
          /\ d.tokens[x].start <= d.tokens[x].end
          /\ c \in DOMAIN d.tokens /\ x \in DOMAIN d.tokens
          /\ d.tokens[x].end < d.tokens[c].end \/ d.tokens[c].end < d.tokens[x].start
      BY <1>0, <1>1, <2>1, <2>2, TwoSpans
    <2>4. d.tokens[x].start < d.tokens[c].end
      BY <1>1, <2>1, <2>3
    <2>5. CASE HasParts(d, c)
      <3>1. c \in r .. x - 1
        BY <1>1, <2>1, <2>2
      <3>2. c \in Above(d, r, x)
        BY <2>4, <2>5, <3>1 DEF Above, Inside
      <3> QED
        BY <1>1, <2>1, <3>2
    <2>6. CASE ~HasParts(d, c)
      <3>1. d.tokens[c].end <= d.tokens[x].start
        BY <2>2, <2>3, <2>6 DEF HasParts, Leaf, LeavesApart
      <3> QED
        BY <1>1, <2>3, <2>4, <3>1
    <2> QED
      BY <2>5, <2>6
  <1>4. Upto(d, r, level, c) = {x \in I : x < c + 1}
    <2>1. Upto(d, r, level, c) \subseteq I
      BY DEF Upto
    <2> QED
      BY <1>2, <1>3, <2>1
  <1> HIDE DEF I
  <1>5. Place(I, c + 1) = Place(I, c) + 1
    BY <1>0, <1>1, PlaceStep DEF I
  <1> QED
    BY <1>4, <1>5 DEF Place, I

\* Every item of the field is in its value.
LEMMA UptoRoot ==
    ASSUME NEW d \in TokenLists, Nested(d), NEW r \in Nat, r < d.numberOfTokens, NEW level
    PROVE  Upto(d, r, level, r) = Items(d, r, level)
  <1>1. r \in DOMAIN d.tokens
    BY ListShape
  <1>2. d.tokens[r].start <= d.tokens[r].end /\ d.tokens[r].end \in Nat
    BY <1>1, ListShape DEF Nested
  <1>3. ASSUME NEW x \in Items(d, r, level) PROVE x \in Upto(d, r, level, r)
    <2>1. d.tokens[x].start \in Nat /\ (x = r \/ Inside(d, x, r))
      BY ItemsOf
    <2>2. d.tokens[x].start <= d.tokens[r].end
      BY <1>2, <2>1 DEF Inside
    <2> QED
      BY <2>2 DEF Upto
  <1> QED
    BY <1>3 DEF Upto

----------------------------------------------------------------------------
(* Where the walk is in the tree                                           *)

\* What each open call knows of its container, and which child the call made
\* for it goes into.
FrameOK(d, r, level, f) ==
    /\ Reached(d, r, level, f.at)
    /\ f.step # "arrive" => ~Flat(d, r, level, f.at)
    /\ f.step \notin {"arrive", "counted"} =>
          /\ f.key_len = Cardinality(NamesTo(d, r, f.at))
          /\ ArraysAreCounted(d, r, level) => Cardinality(Heads(d, f.at)) <= f.el_count
Chain(d, r, level, s) ==
    /\ s[1].at = r
    /\ \A k \in 1 .. Len(s) : FrameOK(d, r, level, s[k])
    /\ \A k \in 1 .. Len(s) - 1 :
          s[k].step = "child" /\ NthChild(d, s[k].at, s[k].i, s[k + 1].at)

LEMMA StackOf ==
    ASSUME NEW s \in Seq(Frame), s # <<>>
    PROVE  /\ Len(s) \in Nat /\ Len(s) >= 1 /\ Len(s) \in 1 .. Len(s) /\ 1 \in 1 .. Len(s)
           /\ \A k \in 1 .. Len(s) : /\ s[k] \in Frame /\ s[k].at \in Nat /\ s[k].i \in Nat
                                     /\ s[k].key_len \in Nat /\ s[k].el_count \in Nat
  <1>1. Len(s) \in Nat /\ Len(s) >= 1
    OBVIOUS
  <1>2. \A k \in 1 .. Len(s) : s[k] \in Frame
    OBVIOUS
  <1> QED
    BY <1>1, <1>2, SMTT(60) DEF Frame

LEMMA ChainBecome ==
    ASSUME NEW d, NEW r, NEW level, NEW s \in Seq(Frame), s # <<>>, Chain(d, r, level, s),
           NEW f, f.at = s[Len(s)].at, FrameOK(d, r, level, f),
           NEW t, Len(t) = Len(s),
           \A k \in 1 .. Len(s) : t[k] = IF k = Len(s) THEN f ELSE s[k]
    PROVE  Chain(d, r, level, t) /\ t[Len(t)] = f
  <1>1. PICK n \in Nat : n = Len(s) /\ n >= 1 /\ n \in 1 .. n /\ 1 \in 1 .. n
    BY StackOf
  <1>2. Len(t) = n /\ \A k \in 1 .. n : t[k] = IF k = n THEN f ELSE s[k]
    BY <1>1
  <1>3. \A k \in 1 .. n : FrameOK(d, r, level, t[k]) /\ t[k].at = s[k].at
    BY <1>1, <1>2 DEF Chain
  <1>4. ASSUME NEW k \in 1 .. n - 1
        PROVE  t[k].step = "child" /\ NthChild(d, t[k].at, t[k].i, t[k + 1].at)
    <2>1. k \in 1 .. n /\ k # n /\ k + 1 \in 1 .. n
      BY <1>1
    <2>2. t[k] = s[k] /\ t[k + 1].at = s[k + 1].at
      BY <1>2, <1>3, <2>1
    <2> QED
      BY <1>1, <2>2 DEF Chain
  <1>5. t[1].at = r
    BY <1>1, <1>3 DEF Chain
  <1> QED
    BY <1>1, <1>2, <1>3, <1>4, <1>5 DEF Chain

LEMMA ChainLeave ==
    ASSUME NEW d, NEW r, NEW level, NEW s \in Seq(Frame), s # <<>>, Chain(d, r, level, s),
           Len(s) # 1, NEW t, Len(t) = Len(s) - 1, \A k \in 1 .. Len(s) - 1 : t[k] = s[k]
    PROVE  /\ Chain(d, r, level, t)
           /\ t[Len(t)].step = "child"
           /\ NthChild(d, t[Len(t)].at, t[Len(t)].i, s[Len(s)].at)
  <1>0. PICK m \in Nat : m = Len(s) /\ m >= 1 /\ m # 1
    BY StackOf
  <1>1. PICK n \in Nat : n = Len(s) - 1 /\ n >= 1
    <2>1. m - 1 \in Nat /\ m - 1 >= 1
      BY <1>0
    <2> QED
      BY <1>0, <2>1
  <1>2. /\ n + 1 = Len(s) /\ n \in 1 .. n /\ 1 \in 1 .. n
        /\ \A k \in 1 .. n : k \in 1 .. Len(s) /\ k \in 1 .. Len(s) - 1
    BY <1>0, <1>1
  <1>3. Len(t) = n /\ \A k \in 1 .. n : t[k] = s[k]
    BY <1>1, <1>2
  <1>4. \A k \in 1 .. n : FrameOK(d, r, level, t[k])
    BY <1>2, <1>3 DEF Chain
  <1>5. \A k \in 1 .. n : s[k].step = "child" /\ NthChild(d, s[k].at, s[k].i, s[k + 1].at)
    BY <1>2 DEF Chain
  <1>6. ASSUME NEW k \in 1 .. n - 1
        PROVE  t[k].step = "child" /\ NthChild(d, t[k].at, t[k].i, t[k + 1].at)
    <2>1. k \in 1 .. n /\ k + 1 \in 1 .. n
      BY <1>1
    <2> QED
      BY <1>3, <1>5, <2>1
  <1>7. t[1].at = r
    BY <1>2, <1>3 DEF Chain
  <1>9. t[n].step = "child" /\ NthChild(d, t[n].at, t[n].i, s[n + 1].at)
    BY <1>2, <1>3, <1>5
  <1> QED
    BY <1>2, <1>3, <1>4, <1>6, <1>7, <1>9 DEF Chain

LEMMA ChainDescend ==
    ASSUME NEW d \in TokenLists, IsJson(d), NEW r \in Nat, NEW level, NEW s \in Seq(Frame), s # <<>>,
           Chain(d, r, level, s), s[Len(s)].step \notin {"arrive", "counted"},
           NEW e \in Nat, NthChild(d, s[Len(s)].at, s[Len(s)].i, e),
           NEW t, Len(t) = Len(s) + 1, t[Len(s) + 1] = Open(e),
           t[Len(s)] = [s[Len(s)] EXCEPT !.step = "child"],
           \A k \in 1 .. Len(s) - 1 : t[k] = s[k]
    PROVE  Chain(d, r, level, t)
  <1>1. PICK n \in Nat : n = Len(s) /\ n >= 1 /\ n \in 1 .. n /\ 1 \in 1 .. n
    BY StackOf
  <1>2. PICK f : f = [s[n] EXCEPT !.step = "child"]
    OBVIOUS
  <1>3. /\ f.step = "child" /\ f.at = s[n].at /\ f.i = s[n].i
        /\ f.key_len = s[n].key_len /\ f.el_count = s[n].el_count /\ f.at \in Nat
    <2>1. s[n] \in Frame
      BY <1>1, StackOf
    <2> QED
      BY <1>2, <2>1 DEF Frame, Steps
  <1>4. FrameOK(d, r, level, s[n]) /\ s[n].step \notin {"arrive", "counted"}
    BY <1>1 DEF Chain
  <1>5. FrameOK(d, r, level, f)
    BY <1>3, <1>4 DEF FrameOK
  <1>6. /\ Len(t) = n + 1 /\ t[n + 1].at = e /\ t[n + 1].step = "arrive" /\ t[n] = f
        /\ \A k \in 1 .. n - 1 : t[k] = s[k]
    BY <1>1, <1>2 DEF Open
  <1>7. Reached(d, r, level, e)
    <2>1. Reached(d, r, level, f.at) /\ ~Flat(d, r, level, f.at)
      BY <1>3, <1>5 DEF FrameOK
    <2>2. e - Shift(d, f.at) \in Heads(d, f.at)
      BY <1>1, <1>3 DEF NthChild
    <2> QED
      BY <1>3, <2>1, <2>2, ReachedChild
  <1>8. \A k \in 1 .. n + 1 : k = n + 1 \/ k = n \/ (k \in 1 .. n - 1 /\ k \in 1 .. n)
    BY <1>1
  <1>9. ASSUME NEW k \in 1 .. n + 1 PROVE FrameOK(d, r, level, t[k])
    <2>1. CASE k = n + 1
      BY <1>6, <1>7, <2>1 DEF FrameOK
    <2>2. CASE k = n
      BY <1>5, <1>6, <2>2
    <2>3. CASE k \in 1 .. n - 1 /\ k \in 1 .. n
      BY <1>1, <1>6, <2>3 DEF Chain
    <2> QED
      BY <1>8, <2>1, <2>2, <2>3
  <1>10. \A k \in 1 .. n : t[k].at = s[k].at
    <2>1. \A k \in 1 .. n : k = n \/ k \in 1 .. n - 1
      BY <1>1
    <2> QED
      BY <1>3, <1>6, <2>1
  <1>11. ASSUME NEW k \in 1 .. (n + 1) - 1
         PROVE  t[k].step = "child" /\ NthChild(d, t[k].at, t[k].i, t[k + 1].at)
    <2>1. k \in 1 .. n
      BY <1>1
    <2>2. CASE k = n
      BY <1>1, <1>3, <1>6, <2>2
    <2>3. CASE k # n
      <3>1. k \in 1 .. n - 1 /\ k + 1 \in 1 .. n
        BY <2>1, <2>3
      <3> QED
        BY <1>1, <1>6, <1>10, <3>1 DEF Chain
    <2> QED
      BY <2>2, <2>3
  <1>12. t[1].at = r
    BY <1>1, <1>10 DEF Chain
  <1> QED
    BY <1>6, <1>9, <1>11, <1>12 DEF Chain

\* A search starts at the value of a field.
RootOK(d, r) == IsObject(d, 0) /\ r - 1 \in Members(d, 0)

LEMMA AtRoot ==
    ASSUME NEW d \in TokenLists, IsJson(d), NEW r \in Nat, RootOK(d, r), NEW level
    PROVE  /\ Reached(d, r, level, r) /\ r < d.numberOfTokens
           /\ Above(d, r, r) = {} /\ ObjectsAbove(d, r, r) = {}
           /\ r - 1 \in Nat /\ r - 1 \in MemberNames(d) /\ d.tokens[r - 1].text \in Strings
           /\ LeadsTo(<<d.tokens[r - 1].text>>, d, r, r)
  <1>1. /\ r - Shift(d, 0) \in Heads(d, 0)
        /\ r - 1 \in Members(d, 0)
    BY DEF RootOK, Shift, Heads
  <1>2. r \in Elements(d, 0) /\ r \notin MemberNames(d)
    BY <1>1, ChildOf
  <1>3. r < d.numberOfTokens /\ d.numberOfTokens \in Nat
    BY <1>2, ElementOf, ListShape DEF IsJson
  <1>4. r - 1 \in 1 .. d.numberOfTokens - 1
    BY <1>1, ElementsFinite
  <1>5. r - 1 \in Nat /\ d.tokens[r - 1].text \in Strings
    BY <1>3, <1>4, ListShape
  <1>6. r - 1 \in MemberNames(d)
    <2>1. 0 \in Nat
      OBVIOUS
    <2> QED
      BY <1>1, <2>1, MemberNamesOf DEF RootOK
  <1>7. Above(d, r, r) = {} /\ ObjectsAbove(d, r, r) = {}
    <2>1. Above(d, r, r) = {}
      BY AboveFinite
    <2> QED
      BY <2>1 DEF ObjectsAbove
  <1>8. Reached(d, r, level, r)
    BY <1>2, <1>3, <1>7 DEF Reached
  <1>9. PICK m \in Nat : m = r - 1
    BY <1>5
  <1>10. NamesTo(d, r, r) = {m}
    <2>1. \A n \in MemberNames(d) : n \in Nat
      BY MemberNamesOf, ElementsFinite, ListShape
    <2>2. \A n \in Nat : n + 1 \in {} \cup {r} <=> n = m
      BY <1>9
    <2> QED
      BY <1>6, <1>7, <1>9, <2>1, <2>2 DEF NamesTo
  <1>11. Cardinality({m}) = 1 /\ Place({m}, m) = 0
    <2>1. {j \in {m} : j < m} = {}
      OBVIOUS
    <2> QED
      BY <2>1, FS_Singleton, FS_EmptySet DEF Place
  <1>12. LeadsTo(<<d.tokens[r - 1].text>>, d, r, r)
    BY <1>9, <1>10, <1>11 DEF LeadsTo
  <1> QED
    BY <1>3, <1>5, <1>6, <1>7, <1>8, <1>12

\* Every path in the field begins with its name.
LEMMA FirstOfPath ==
    ASSUME NEW d \in TokenLists, IsJson(d), NEW r \in Nat, RootOK(d, r), NEW level, NEW i,
           Reached(d, r, level, i), NEW path \in Seq(Strings), LeadsTo(path, d, r, i)
    PROVE  path[1] = d.tokens[r - 1].text
  <1>1. i \in Nat
    BY ListShape DEF Reached
  <1>2. PICK m \in Nat : m = r - 1 /\ m \in MemberNames(d)
    BY AtRoot
  <1>3. m \in NamesTo(d, r, i)
    <2>1. m + 1 = r /\ m >= r - 1
      BY <1>2
    <2>2. r \in Above(d, r, i) \cup {i}
      BY DEF Reached
    <2> QED
      BY <1>2, <2>1, <2>2 DEF NamesTo
  <1>4. \A n \in NamesTo(d, r, i) : n \in Nat /\ r <= n + 1
    BY <1>1, NamesFinite
  <1>5. {n \in NamesTo(d, r, i) : n < m} = {}
    BY <1>2, <1>4
  <1>6. Place(NamesTo(d, r, i), m) = 0
    BY <1>5, FS_EmptySet DEF Place
  <1> QED
    BY <1>2, <1>3, <1>6 DEF LeadsTo

\* Levels and depth left, and the path, when the walk is at token e.
Levels(d, r, level, e, lev, dep) ==
    /\ lev = level - Cardinality(ObjectsAbove(d, r, e))
    /\ dep = MAX_RECURSION_DEPTH - Cardinality(Above(d, r, e))
Stands(d, r, level, e, lev, dep, path) ==
    Levels(d, r, level, e, lev, dep) /\ LeadsTo(path, d, r, e)

\* The innermost call: what is left, the path, and the items met, at each step.
TopOK(d, r, level, f, lev, dep, path, cur) ==
    LET counted == ArraysAreCounted(d, r, level) IN
    /\ f.step = "arrive" =>
          /\ Stands(d, r, level, f.at, lev, dep, path) /\ f.i = 0
          /\ counted => cur = Place(Items(d, r, level), f.at)
    /\ f.step \in {"counted", "loop", "name", "element"} =>
          /\ Stands(d, r, level, f.at, lev, dep, path)
          /\ counted => cur = Cardinality(Gone(d, r, level, f.at, f.i))
    /\ f.step = "counted" => f.i = 0
    /\ f.step = "value" =>
          \E e \in Nat : /\ NthChild(d, f.at, f.i, e)
                         /\ Levels(d, r, level, f.at, lev, dep) /\ LeadsTo(path, d, r, e)
                         /\ counted => cur = Cardinality(Gone(d, r, level, f.at, f.i))
    /\ f.step = "child" =>
          \E e \in Nat : /\ NthChild(d, f.at, f.i, e)
                         /\ Stands(d, r, level, e, lev, dep, path)
                         /\ counted => cur = Cardinality(Upto(d, r, level, e))

\* The walker it has called.
CallOK(f) ==
    /\ f.step = "counted" => Called("object_get_element_count", f.at, 0, "")
    /\ f.step = "name" => Called("object_get_nth_key", f.at, f.i, "")
    /\ f.step = "value" => Called("object_get_nth_value", f.at, f.i, "")
    /\ f.step = "element" => Called("array_get_nth_element", f.at, f.i, "")
    /\ f.step \in {"name", "value"} => IsObject(json, f.at)
    /\ f.step = "element" => ~IsObject(json, f.at)

WalkOK(d, r, level, s, lev, dep, path, cur) ==
    Chain(d, r, level, s) /\ TopOK(d, r, level, s[Len(s)], lev, dep, path, cur)
FoundOK(d, r, level, n, path, i) ==
    /\ i \in Items(d, r, level) /\ LeadsTo(path, d, r, i) /\ path[1] = d.tokens[r - 1].text
    /\ ArraysAreCounted(d, r, level) => n = Place(Items(d, r, level), i)
AskedOK(d, r, level, n) ==
    ArraysAreCounted(d, r, level) => n <= Cardinality(Items(d, r, level))

\* Where the walk is in the tree of a JSON text.
TreeInv ==
    phase \in InWalk /\ IsJson(json) =>
        /\ RootOK(json, query.root)
        /\ AskedOK(json, query.root, query.level, query.item_index)
        /\ phase = "walk" =>
              /\ WalkOK(json, query.root, query.level, stack, max_level, max_depth, out_key, current)
              /\ CallOK(Top)
        /\ phase = "found" =>
              FoundOK(json, query.root, query.level, query.item_index, out_key, found)
        /\ phase = "absent" /\ ArraysAreCounted(json, query.root, query.level) =>
              query.item_index = Cardinality(AllItems)

InTree == WalkInv /\ TreeInv /\ IsJson(json)

LEMMA TreeAt ==
    ASSUME InTree, NEW st, AtStep(st)
    PROVE  /\ json \in TokenLists /\ LeavesApart(json) /\ Nested(json) /\ ValidateBase
           /\ query.root \in Nat /\ query.level \in 0 .. 3 /\ RootOK(json, query.root)
           /\ query.item_index \in Nat /\ current \in Nat
           /\ stack \in Seq(Frame) /\ stack # <<>> /\ FramesOK
           /\ Chain(json, query.root, query.level, stack)
           /\ Top = stack[Len(stack)] /\ Top \in Frame /\ Top.step = st
           /\ Top.at \in Nat /\ Top.i \in Nat /\ Top.key_len \in Nat /\ Top.el_count \in Nat
           /\ FrameOK(json, query.root, query.level, Top)
           /\ TopOK(json, query.root, query.level, Top, max_level, max_depth, out_key, current)
           /\ CallOK(Top)
           /\ query.root <= Top.at /\ Top.at < json.numberOfTokens
           /\ out_key \in Seq(Strings) /\ phase = "walk" /\ phase \in InWalk /\ call = Idle
           /\ AskedOK(json, query.root, query.level, query.item_index)
  <1>1. WalkInv /\ TreeInv /\ IsJson(json) /\ phase = "walk" /\ Top.step = st /\ call = Idle
    BY DEF InTree, AtStep
  <1>2. /\ json \in TokenLists /\ LeavesApart(json) /\ Nested(json) /\ ValidateBase
        /\ StackInv
    BY <1>1 DEF WalkInv, ValidateBase, ScanTypeOK, IsJson
  <1>3. FramesOK /\ stack # <<>> /\ out_key \in Seq(Strings)
    BY <1>1, <1>2, Walks
  <1>4. stack \in Seq(Frame) /\ Top = stack[Len(stack)] /\ Top \in Frame /\ Len(stack) \in 1 .. Len(stack)
    BY <1>3, StackOf DEF FramesOK, Top
  <1>5. Top.at \in Nat /\ Top.i \in Nat /\ Top.key_len \in Nat /\ Top.el_count \in Nat
    BY <1>4 DEF Frame
  <1>6. phase \in InWalk
    BY <1>1 DEF InWalk
  <1>7. /\ RootOK(json, query.root)
        /\ WalkOK(json, query.root, query.level, stack, max_level, max_depth, out_key, current)
        /\ CallOK(Top) /\ AskedOK(json, query.root, query.level, query.item_index)
    BY <1>1, <1>6 DEF TreeInv
  <1>8. /\ Chain(json, query.root, query.level, stack)
        /\ TopOK(json, query.root, query.level, Top, max_level, max_depth, out_key, current)
    BY <1>4, <1>7 DEF WalkOK
  <1>9. FrameOK(json, query.root, query.level, Top)
    BY <1>4, <1>8 DEF Chain
  <1>10. query.root \in Nat /\ query.level \in 0 .. 3 /\ query.item_index \in Nat /\ current \in Nat
    BY <1>2 DEF StackInv
  <1>11. query.root <= Top.at /\ Top.at < json.numberOfTokens
    <2>1. Top.at \in query.root .. json.numberOfTokens - 1
      BY <1>9 DEF FrameOK, Reached
    <2> QED
      BY <1>2, <1>5, <1>10, <2>1, ListShape
  <1> QED
    BY <1>1, <1>2, <1>3, <1>4, <1>5, <1>6, <1>7, <1>8, <1>9, <1>10, <1>11

LEMMA TreeKept ==
    ASSUME InTree, phase \in InWalk, phase' = "walk", UNCHANGED <<json, query>>,
           WalkOK(json, query.root, query.level, stack', max_level', max_depth', out_key', current'),
           CallOK(Top)'
    PROVE  TreeInv'
  BY DEF InTree, TreeInv

LEMMA BecomeTree ==
    ASSUME InTree, NEW st, AtStep(st), NEW f \in Frame, f.at = Top.at, Become(f),
           UNCHANGED <<json, query, phase>>,
           FrameOK(json, query.root, query.level, f),
           TopOK(json, query.root, query.level, f, max_level', max_depth', out_key', current'),
           CallOK(f)'
    PROVE  TreeInv'
  <1>1. /\ stack \in Seq(Frame) /\ stack # <<>> /\ Top = stack[Len(stack)]
        /\ Chain(json, query.root, query.level, stack) /\ phase = "walk" /\ phase \in InWalk
    BY TreeAt
  <1>2. PICK n \in Nat : n = Len(stack) /\ n >= 1
    BY <1>1, StackOf
  <1>3. stack' = [stack EXCEPT ![n] = f]
    BY <1>2 DEF Become
  <1>4. Len(stack') = n /\ \A k \in 1 .. n : stack'[k] = IF k = n THEN f ELSE stack[k]
    BY <1>1, <1>2, <1>3
  <1>5. PICK t : t = stack'
    OBVIOUS
  <1>6. Chain(json, query.root, query.level, t) /\ t[Len(t)] = f
    BY <1>1, <1>2, <1>4, <1>5, ChainBecome
  <1>7. WalkOK(json, query.root, query.level, stack', max_level', max_depth', out_key', current')
    BY <1>5, <1>6 DEF WalkOK
  <1>8. CallOK(Top)'
    BY <1>5, <1>6 DEF Top
  <1> QED
    BY <1>1, <1>7, <1>8, TreeKept

LEMMA LeaveTree ==
    ASSUME InTree, NEW st, AtStep(st), Leave, UNCHANGED <<json, query, out_key, max_level, max_depth>>,
           Stands(json, query.root, query.level, Top.at, max_level, max_depth, out_key),
           ArraysAreCounted(json, query.root, query.level) =>
               current' = Cardinality(Upto(json, query.root, query.level, Top.at)),
           current' <= query.item_index
    PROVE  TreeInv'
  <1>1. /\ stack \in Seq(Frame) /\ stack # <<>> /\ Top = stack[Len(stack)]
        /\ Chain(json, query.root, query.level, stack) /\ phase = "walk" /\ phase \in InWalk
        /\ json \in TokenLists /\ Nested(json) /\ query.root \in Nat /\ RootOK(json, query.root)
        /\ Top.at \in Nat /\ query.item_index \in Nat
        /\ AskedOK(json, query.root, query.level, query.item_index)
    BY TreeAt
  <1>2. PICK n \in Nat : n = Len(stack) /\ n >= 1
    BY <1>1, StackOf
  <1>3. CASE n = 1
    <2>1. phase' = "absent"
      BY <1>2, <1>3 DEF Leave, GoOn
    <2>2. Top.at = query.root
      BY <1>1, <1>2, <1>3 DEF Chain
    <2>3. query.root < json.numberOfTokens
      BY <1>1, AtRoot DEF InTree
    <2>4. Upto(json, query.root, query.level, query.root) = Items(json, query.root, query.level)
      BY <1>1, <2>3, UptoRoot
    <2>5. ASSUME ArraysAreCounted(json, query.root, query.level)
          PROVE  query.item_index = Cardinality(Items(json, query.root, query.level))
      <3>1. current' = Cardinality(Items(json, query.root, query.level))
        BY <2>2, <2>4, <2>5
      <3>2. query.item_index <= Cardinality(Items(json, query.root, query.level))
        BY <1>1, <2>5 DEF AskedOK
      <3>3. Cardinality(Items(json, query.root, query.level)) \in Nat
        BY <1>1, ItemsFinite
      <3> QED
        BY <1>1, <3>1, <3>2, <3>3
    <2>6. /\ RootOK(json, query.root)' /\ AskedOK(json, query.root, query.level, query.item_index)'
          /\ (ArraysAreCounted(json, query.root, query.level) => query.item_index = Cardinality(AllItems))'
      BY <1>1, <2>5 DEF AllItems
    <2> QED
      BY <2>1, <2>6 DEF TreeInv
  <1>4. CASE n # 1
    <2>1. phase' = phase /\ stack' = SubSeq(stack, 1, n - 1)
      BY <1>2, <1>4 DEF Leave
    <2>2. Len(stack') = n - 1 /\ \A k \in 1 .. n - 1 : stack'[k] = stack[k]
      BY <1>1, <1>2, <1>4, <2>1
    <2>3. PICK t : t = stack'
      OBVIOUS
    <2>4. /\ Chain(json, query.root, query.level, t) /\ t[Len(t)].step = "child"
          /\ NthChild(json, t[Len(t)].at, t[Len(t)].i, Top.at)
      BY <1>1, <1>2, <1>4, <2>2, <2>3, ChainLeave
    <2>5. TopOK(json, query.root, query.level, t[Len(t)], max_level', max_depth', out_key', current')
      BY <1>1, <2>4 DEF TopOK
    <2>6. WalkOK(json, query.root, query.level, stack', max_level', max_depth', out_key', current')
      BY <2>3, <2>4, <2>5 DEF WalkOK
    <2>7. CallOK(Top)'
      BY <2>3, <2>4 DEF Top, CallOK
    <2> QED
      BY <1>1, <2>1, <2>6, <2>7, TreeKept
  <1> QED
    BY <1>3, <1>4

LEMMA DescendTree ==
    ASSUME InTree, NEW st, AtStep(st), st \notin {"arrive", "counted"}, NEW e \in Nat, Descend(e),
           UNCHANGED <<json, query, phase, out_key>>, NthChild(json, Top.at, Top.i, e),
           Stands(json, query.root, query.level, e, max_level', max_depth', out_key),
           ArraysAreCounted(json, query.root, query.level) =>
               current' = Place(Items(json, query.root, query.level), e)
    PROVE  TreeInv'
  <1>1. /\ stack \in Seq(Frame) /\ stack # <<>> /\ Top = stack[Len(stack)] /\ Top.step = st
        /\ Chain(json, query.root, query.level, stack) /\ phase = "walk" /\ phase \in InWalk
        /\ json \in TokenLists /\ query.root \in Nat /\ Top \in Frame
    BY TreeAt
  <1>2. PICK n \in Nat : n = Len(stack) /\ n >= 1
    BY <1>1, StackOf
  <1>3. PICK f : f = [Top EXCEPT !.step = "child"]
    OBVIOUS
  <1>4. f \in Frame
    BY <1>1, <1>3 DEF Frame, Steps
  <1>5. PICK g : g = Open(e)
    OBVIOUS
  <1>6. g \in Frame /\ g.at = e /\ g.step = "arrive" /\ g.i = 0
    BY <1>5 DEF Open, Frame, Steps
  <1>7. PICK u : u = [stack EXCEPT ![n] = f]
    OBVIOUS
  <1>8. [stack EXCEPT ![Len(stack)].step = "child"] = u
    BY <1>1, <1>2, <1>3, <1>7
  <1>9. stack' = Append(u, g)
    BY <1>5, <1>8, Zenon DEF Descend
  <1>10. u \in Seq(Frame) /\ Len(u) = n /\ u[n] = f /\ \A k \in 1 .. n - 1 : u[k] = stack[k]
    BY <1>1, <1>2, <1>4, <1>7
  <1>11. Len(stack') = n + 1 /\ stack'[n + 1] = g /\ \A k \in 1 .. n : stack'[k] = u[k]
    BY <1>6, <1>9, <1>10
  <1>12. PICK t : t = stack'
    OBVIOUS
  <1>13. /\ Len(t) = Len(stack) + 1 /\ t[Len(stack) + 1] = Open(e)
         /\ t[Len(stack)] = [stack[Len(stack)] EXCEPT !.step = "child"]
         /\ \A k \in 1 .. Len(stack) - 1 : t[k] = stack[k]
    <2>1. n \in 1 .. n /\ \A k \in 1 .. n - 1 : k \in 1 .. n
      BY <1>2
    <2> QED
      BY <1>1, <1>2, <1>3, <1>5, <1>10, <1>11, <1>12, <2>1
  <1>14. Chain(json, query.root, query.level, t)
    BY <1>1, <1>13, ChainDescend DEF InTree
  <1>15. t[Len(t)] = g
    BY <1>2, <1>11, <1>12
  <1>16. TopOK(json, query.root, query.level, g, max_level', max_depth', out_key', current')
    BY <1>6 DEF TopOK
  <1>17. WalkOK(json, query.root, query.level, stack', max_level', max_depth', out_key', current')
    BY <1>12, <1>14, <1>15, <1>16 DEF WalkOK
  <1>18. CallOK(Top)'
    BY <1>6, <1>12, <1>15 DEF Top, CallOK
  <1> QED
    BY <1>1, <1>17, <1>18, TreeKept

----------------------------------------------------------------------------
(* The count of the elements of an array                                   *)

\* Elements before token t, or that start at p or before.
Passed(d, c, t, p) == {f \in Elements(d, c) : f < t \/ d.tokens[f].start <= p}

\* object_get_element_count takes two tokens for one element, but where every
\* element that another follows encloses something it misses none.
CountInv ==
    IsJson(json) =>
        /\ call # Idle /\ call.fn = "object_get_element_count" /\ CountsWell(json, call.at) =>
              Cardinality(Passed(json, call.at, token_index, prev_element_end)) <= element_count
        /\ result # NoResult /\ result.call.fn = "object_get_element_count"
           /\ result.call.at < json.numberOfTokens /\ CountsWell(json, result.call.at) =>
              Cardinality(Elements(json, result.call.at)) <= result.value

LEMMA PassedStart ==
    ASSUME NEW d \in TokenLists, Nested(d), NEW c \in Nat, c < d.numberOfTokens
    PROVE  Cardinality(Passed(d, c, c + 1, d.tokens[c].start)) = 0
  <1>1. ASSUME NEW f \in Elements(d, c), f < c + 1 \/ d.tokens[f].start <= d.tokens[c].start
        PROVE  FALSE
    <2>1. f \in Nat /\ c < f /\ f < d.numberOfTokens
      BY ElementOf
    <2>2. /\ d.tokens[c].start < d.tokens[f].start /\ d.tokens[c].start \in Nat
          /\ d.tokens[f].start \in Nat
      BY <2>1, TwoSpans
    <2> QED
      BY <1>1, <2>1, <2>2
  <1>2. Passed(d, c, c + 1, d.tokens[c].start) = {}
    BY <1>1, Zenon DEF Passed
  <1> QED
    BY <1>2, FS_EmptySet

LEMMA PassedSkip ==
    ASSUME NEW d \in TokenLists, NEW c \in Nat, NEW t \in Nat, NEW p \in Nat,
           d.tokens[t].start <= p
    PROVE  Passed(d, c, t + 1, p) = Passed(d, c, t, p)
  <1>1. \A f \in Elements(d, c) : f \in Nat
    BY ElementsFinite, ListShape
  <1>2. \A f \in Elements(d, c) : (f < t + 1 \/ d.tokens[f].start <= p)
                                    <=> (f < t \/ d.tokens[f].start <= p)
    <2> SUFFICES ASSUME NEW f \in Elements(d, c), f < t + 1, ~(f < t)
                 PROVE  d.tokens[f].start <= p
      BY <1>1
    <2>1. f = t
      BY <1>1
    <2> QED
      BY <2>1
  <1> QED
    BY <1>2, Zenon DEF Passed

LEMMA PassedTake ==
    ASSUME NEW d \in TokenLists, Nested(d), NEW c \in Nat, CountsWell(d, c),
           NEW t \in c + 1 .. d.numberOfTokens - 1, NEW p \in Nat, NEW q \in Nat,
           q = IF t + 1 < d.numberOfTokens THEN d.tokens[t + 1].end ELSE 0
    PROVE  Cardinality(Passed(d, c, t + 1, q)) <= Cardinality(Passed(d, c, t, p)) + 1
  <1>1. d.numberOfTokens \in Nat /\ t \in Nat /\ c < t /\ t < d.numberOfTokens
    BY ListShape
  <1>2. ASSUME NEW f \in Elements(d, c), f < t + 1 \/ d.tokens[f].start <= q
        PROVE  f < t \/ f = t \/ f = t + 1
    <2> SUFFICES ASSUME t + 1 < f PROVE FALSE
      BY <1>1, ElementOf
    <2>1. f \in Nat /\ c < f /\ f < d.numberOfTokens
      BY ElementOf
    <2>2. t + 1 < d.numberOfTokens /\ c < t + 1 /\ t + 1 \in Nat
      BY <1>1, <2>1
    <2>3. d.tokens[t + 1].end < d.tokens[f].start
      BY <2>2, ElementOf
    <2>4. d.tokens[t + 1].end \in Nat /\ d.tokens[f].start \in Nat
      BY <2>1, <2>2, TwoSpans
    <2> QED
      BY <1>1, <1>2, <2>1, <2>2, <2>3, <2>4
  <1>3. ~(t \in Elements(d, c) /\ t + 1 \in Elements(d, c))
    <2> SUFFICES ASSUME t \in Elements(d, c), t + 1 \in Elements(d, c) PROVE FALSE
      OBVIOUS
    <2>1. d.tokens[t + 1].start < d.tokens[t].end
      BY <1>1 DEF CountsWell, Inside
    <2>2. t + 1 < d.numberOfTokens /\ d.tokens[t].end < d.tokens[t + 1].start
      BY <1>1, ElementOf
    <2>3. d.tokens[t].end \in Nat /\ d.tokens[t + 1].start \in Nat
      BY <1>1, <2>2, TwoSpans
    <2> QED
      BY <2>1, <2>2, <2>3
  <1>4. PICK x : x = IF t \in Elements(d, c) THEN t ELSE t + 1
    OBVIOUS
  <1>5. \A f \in Elements(d, c) : f < t + 1 \/ d.tokens[f].start <= q =>
            f = x \/ f < t
    BY <1>2, <1>3, <1>4
  <1>6. Passed(d, c, t + 1, q) \subseteq Passed(d, c, t, p) \cup {x}
    BY <1>5, Zenon DEF Passed
  <1>7. IsFiniteSet(Passed(d, c, t, p))
    <2>1. IsFiniteSet(Elements(d, c))
      BY ElementsFinite
    <2>2. Passed(d, c, t, p) \subseteq Elements(d, c)
      BY Zenon DEF Passed
    <2> QED
      BY <2>1, <2>2, FS_Subset
  <1>8. /\ IsFiniteSet(Passed(d, c, t, p) \cup {x})
        /\ Cardinality(Passed(d, c, t, p)) \in Nat
        /\ Cardinality(Passed(d, c, t, p) \cup {x}) <= Cardinality(Passed(d, c, t, p)) + 1
    <2>1. Cardinality(Passed(d, c, t, p)) \in Nat
      BY <1>7, FS_CardinalityType
    <2>2. /\ IsFiniteSet(Passed(d, c, t, p) \cup {x})
          /\ \/ Cardinality(Passed(d, c, t, p) \cup {x}) = Cardinality(Passed(d, c, t, p))
             \/ Cardinality(Passed(d, c, t, p) \cup {x}) = Cardinality(Passed(d, c, t, p)) + 1
      BY <1>7, FS_AddElement
    <2> QED
      BY <2>1, <2>2
  <1>9. /\ Cardinality(Passed(d, c, t + 1, q)) <= Cardinality(Passed(d, c, t, p) \cup {x})
        /\ Cardinality(Passed(d, c, t + 1, q)) \in Nat
        /\ Cardinality(Passed(d, c, t, p) \cup {x}) \in Nat
    BY <1>6, <1>8, FS_Subset, FS_CardinalityType
  <1> QED
    BY <1>8, <1>9

LEMMA PassedAll ==
    ASSUME NEW d \in TokenLists, Nested(d), NEW c \in DOMAIN d.tokens, NEW t \in Nat, NEW p,
           t >= d.numberOfTokens \/ d.tokens[t].start > d.tokens[c].end
    PROVE  Passed(d, c, t, p) = Elements(d, c)
  <1>1. \A f \in Elements(d, c) : f < t
    BY NoneLeft
  <1> QED
    BY <1>1, Zenon DEF Passed

LEMMA CountStep ==
    ASSUME ScanTypeOK, CountInv, [ScanNext]_scanVars
    PROVE  CountInv'
  <1>0. json \in TokenLists /\ json.numberOfTokens \in Nat /\ DOMAIN json.tokens = 0 .. json.numberOfTokens - 1
    BY ListShape DEF ScanTypeOK
  <1> DEFINE f == "object_get_element_count"
  <1>1. ASSUME NEW d \in TokenLists, Load(d) PROVE CountInv'
    BY <1>1 DEF Load, CountInv
  <1>2. ASSUME NEW fn \in ArrayWalkers \cup ObjectWalkers, NEW i \in Nat, NEW n \in Nat,
               NEW k \in Strings, Call(fn, i, n, k)
        PROVE  CountInv'
    <2>1. PICK c : c = [fn |-> fn, at |-> i, nth |-> n, key |-> k]
      OBVIOUS
    <2>2. c.fn = fn /\ c.at = i /\ json' = json
      BY <1>2, <2>1 DEF Call
    <2>3. CASE Refused(c) /\ result' = [call |-> c, err |-> "parser_no_data", value |-> 0]
               /\ call' = call
      <3>1. call' = Idle /\ result'.call = c
        BY <1>2, <2>3 DEF Call
      <3>2. c.fn = f => ~(c.at < json.numberOfTokens)
        BY <1>0, <2>2, <2>3 DEF Refused
      <3> QED
        BY <2>2, <3>1, <3>2 DEF CountInv
    <2>4. CASE /\ ~Refused(c) /\ call' = c /\ result' = NoResult
               /\ token_index' = i + 1 /\ prev_element_end' = token(i).start
               /\ element_count' = 0
      <3>1. i < json.numberOfTokens
        BY <1>0, <2>2, <2>4 DEF Refused
      <3>2. token(i).start = json.tokens[i].start
        BY <3>1, TokenIs
      <3>3. IsJson(json) => Cardinality(Passed(json, i, token_index', prev_element_end')) <= element_count'
        BY <1>0, <2>4, <3>1, <3>2, PassedStart DEF IsJson
      <3> QED
        BY <2>2, <2>4, <3>3 DEF CountInv
    <2> QED
      BY <1>2, <2>1, <2>3, <2>4 DEF Call
  <1>3. ASSUME call # Idle PROVE /\ call \in Calls /\ call.at \in Nat /\ call.at < json.numberOfTokens
                                 /\ token_index \in call.at + 1 .. json.numberOfTokens
                                 /\ token_index \in Nat /\ element_count \in Nat /\ prev_element_end \in Nat
                                 /\ token(call.at) = json.tokens[call.at]
    BY <1>0, <1>3, TokenIs DEF ScanTypeOK, Calls
  <1>4. ASSUME call # Idle, ~AtEnd
        PROVE  /\ token_index \in call.at + 1 .. json.numberOfTokens - 1
               /\ token(token_index) = json.tokens[token_index]
    <2>1. token_index < json.numberOfTokens /\ token_index \in Nat
      BY <1>0, <1>3, <1>4 DEF AtEnd
    <2> QED
      BY <1>0, <1>3, <1>4, <2>1, TokenIs
  <1>5. CASE Finish
    <2>1. call # Idle /\ AtEnd /\ json' = json /\ call' = Idle /\ result'.call = call
      BY <1>5 DEF Finish, Return
    <2>2. CASE call.fn = f
      <3>1. result'.value = element_count
        BY <1>5, <2>2 DEF Finish, Return, Counters
      <3>2. token_index >= json.numberOfTokens
               \/ json.tokens[token_index].start > json.tokens[call.at].end
        <4>1. token_index >= json.numberOfTokens \/ token(token_index).start > token(call.at).end
          BY <2>1, <2>2 DEF AtEnd
        <4>2. ~(token_index >= json.numberOfTokens) => token(token_index) = json.tokens[token_index]
          BY <1>0, <1>3, <2>1, TokenIs
        <4> QED
          BY <1>3, <2>1, <4>1, <4>2
      <3>3. call.at \in DOMAIN json.tokens
        BY <1>0, <1>3, <2>1
      <3>4. IsJson(json) =>
                Passed(json, call.at, token_index, prev_element_end) = Elements(json, call.at)
        BY <1>0, <1>3, <2>1, <3>2, <3>3, PassedAll DEF IsJson
      <3> QED
        BY <2>1, <2>2, <3>1, <3>4 DEF CountInv
    <2>3. CASE call.fn # f
      BY <2>1, <2>3 DEF CountInv
    <2> QED
      BY <2>2, <2>3
  <1>6. CASE Skip
    <2>1. /\ call # Idle /\ ~AtEnd /\ token(token_index).start <= prev_element_end
          /\ token_index' = token_index + 1
          /\ UNCHANGED <<json, call, prev_element_end, element_count, result>>
      BY <1>6 DEF Skip, Inner
    <2>2. Passed(json, call.at, token_index', prev_element_end) =
                Passed(json, call.at, token_index, prev_element_end)
      BY <1>0, <1>3, <1>4, <2>1, PassedSkip
    <2> QED
      BY <2>1, <2>2 DEF CountInv
  <1>7. CASE Take
    <2>1. /\ call # Idle /\ ~AtEnd /\ prev_element_end' = ElementEnd
          /\ element_count' = element_count + 1 /\ token_index' = token_index + 1
          /\ UNCHANGED <<json, call, result>>
      BY <1>7 DEF Take
    <2>2. CASE call.fn = f
      <3>1. PICK q : q = ElementEnd
        OBVIOUS
      <3>2. q = token(token_index + 1).end
        BY <2>2, <3>1 DEF ElementEnd, ArrayWalkers
      <3>3. q = IF token_index + 1 < json.numberOfTokens THEN json.tokens[token_index + 1].end ELSE 0
        BY <3>2 DEF token, Unused
      <3>4. q \in Nat
        BY <1>3, <2>1, <3>2, TokenIs
      <3>5. IsJson(json) /\ CountsWell(json, call.at) =>
               Cardinality(Passed(json, call.at, token_index + 1, q))
                  <= Cardinality(Passed(json, call.at, token_index, prev_element_end)) + 1
        BY <1>0, <1>3, <1>4, <2>1, <3>3, <3>4, PassedTake DEF IsJson
      <3>6. \A t, p : Cardinality(Passed(json, call.at, t, p)) \in Nat
        <4>1. \A t, p : Passed(json, call.at, t, p) \subseteq Elements(json, call.at)
          BY Zenon DEF Passed
        <4>2. IsFiniteSet(Elements(json, call.at))
          BY <1>0, <1>3, <2>1, ElementsFinite
        <4>3. \A t, p : IsFiniteSet(Passed(json, call.at, t, p))
          BY <4>1, <4>2, FS_Subset
        <4> QED
          BY <4>3, FS_CardinalityType
      <3>7. IsJson(json) /\ CountsWell(json, call.at) =>
               Cardinality(Passed(json, call.at, token_index, prev_element_end)) <= element_count
        BY <2>1, <2>2 DEF CountInv
      <3>8. IsJson(json) /\ CountsWell(json, call.at) =>
               Cardinality(Passed(json, call.at, token_index + 1, q)) <= element_count + 1
        BY <1>3, <2>1, <3>5, <3>6, <3>7
      <3> QED
        BY <2>1, <3>1, <3>8 DEF CountInv
    <2>3. CASE call.fn # f
      BY <2>1, <2>3 DEF CountInv
    <2> QED
      BY <2>2, <2>3
  <1>8. CASE Found
    <2>1. call' = Idle /\ json' = json /\ result'.call = call /\ Wanted
      BY <1>8 DEF Found, Return
    <2>2. call.fn # f
      BY <2>1 DEF Wanted, ByNumber
    <2> QED
      BY <2>1, <2>2 DEF CountInv
  <1>9. CASE UNCHANGED scanVars
    BY <1>9 DEF scanVars, CountInv
  <1> QED
    BY <1>1, <1>2, <1>5, <1>6, <1>7, <1>8, <1>9 DEF ScanNext, ScanStep

----------------------------------------------------------------------------
(* The steps in the tree                                                   *)

\* The walk goes no deeper where values are shown as they are.
LEMMA StopsAtFlat ==
    ASSUME InTree, AtStep("arrive")
    PROVE  StopsAt(Top.at) <=> Flat(json, query.root, query.level, Top.at)
  <1>1. /\ json \in TokenLists /\ query.root \in Nat /\ query.level \in 0 .. 3
        /\ Top.at \in Nat /\ Top.at < json.numberOfTokens /\ Top.step = "arrive"
        /\ TopOK(json, query.root, query.level, Top, max_level, max_depth, out_key, current)
    BY TreeAt
  <1>2. PICK a, b : /\ a = Cardinality(ObjectsAbove(json, query.root, Top.at))
                    /\ b = Cardinality(Above(json, query.root, Top.at))
    OBVIOUS
  <1>3. a \in Nat /\ b \in Nat
    BY <1>1, <1>2, AboveFinite
  <1>4. max_level = query.level - a /\ max_depth = MAX_RECURSION_DEPTH - b
    BY <1>1, <1>2 DEF TopOK, Stands, Levels
  <1>5. /\ max_level <= 0 <=> a >= query.level
        /\ max_depth <= 0 <=> b >= MAX_RECURSION_DEPTH
    BY <1>1, <1>3, <1>4, WalkAssumption
  <1>6. token(Top.at) = json.tokens[Top.at]
    BY <1>1 DEF token
  <1> QED
    BY <1>2, <1>5, <1>6 DEF StopsAt, Flat, HasParts

\* The walk keeps to the items asked for.
LEMMA CurrentKept ==
    ASSUME InTree, FirstItem \/ NextItem \/ WalkStep, query' = query
    PROVE  current' <= query.item_index
  <1>1. StackInv'
    BY WalkStepWalks DEF InTree, WalkInv
  <1> QED
    BY <1>1 DEF StackInv

LEMMA MeetLeafTree ==
    ASSUME InTree, MeetLeaf
    PROVE  TreeInv'
  <1>1. AtStep("arrive") /\ StopsAt(Top.at)
    BY DEF MeetLeaf
  <1>2. /\ json \in TokenLists /\ LeavesApart(json) /\ IsJson(json)
        /\ query.root \in Nat /\ RootOK(json, query.root)
        /\ current \in Nat /\ Top.step = "arrive" /\ out_key \in Seq(Strings)
        /\ FrameOK(json, query.root, query.level, Top)
        /\ TopOK(json, query.root, query.level, Top, max_level, max_depth, out_key, current)
        /\ AskedOK(json, query.root, query.level, query.item_index)
    BY <1>1, TreeAt DEF InTree
  <1>3. UNCHANGED <<json, query, out_key, max_level, max_depth>>
    BY DEF MeetLeaf, scanVars
  <1>4. Flat(json, query.root, query.level, Top.at)
    BY <1>1, StopsAtFlat
  <1>5. Reached(json, query.root, query.level, Top.at)
    BY <1>2 DEF FrameOK
  <1>6. Top.at \in Items(json, query.root, query.level)
    BY <1>2, <1>4, <1>5, ItemIsReached
  <1>7. /\ Stands(json, query.root, query.level, Top.at, max_level, max_depth, out_key)
        /\ ArraysAreCounted(json, query.root, query.level) =>
                current = Place(Items(json, query.root, query.level), Top.at)
    BY <1>2 DEF TopOK
  <1>8. CASE current = query.item_index
    <2>1. phase' = "found" /\ found' = Top.at
      BY <1>8 DEF MeetLeaf, GoOn
    <2>2. LeadsTo(out_key, json, query.root, Top.at)
      BY <1>7 DEF Stands
    <2>3. out_key[1] = json.tokens[query.root - 1].text
      BY <1>2, <1>5, <2>2, FirstOfPath
    <2>4. FoundOK(json, query.root, query.level, query.item_index, out_key, Top.at)
      BY <1>6, <1>7, <1>8, <2>2, <2>3 DEF FoundOK
    <2> QED
      BY <1>2, <1>3, <2>1, <2>4 DEF TreeInv
  <1>9. CASE current # query.item_index
    <2>1. Leave /\ current' = current + 1
      BY <1>9 DEF MeetLeaf
    <2>2. ArraysAreCounted(json, query.root, query.level) =>
               current' = Cardinality(Upto(json, query.root, query.level, Top.at))
      BY <1>2, <1>6, <1>7, <2>1, UptoItem
    <2>3. current' <= query.item_index
      BY <1>3, CurrentKept DEF WalkStep
    <2> QED
      BY <1>1, <1>3, <1>7, <2>1, <2>2, <2>3, LeaveTree
  <1> QED
    BY <1>8, <1>9

LEMMA CountElementsTree ==
    ASSUME InTree, CountElements
    PROVE  TreeInv'
  <1>1. AtStep("arrive") /\ ~StopsAt(Top.at)
    BY DEF CountElements
  <1>2. /\ json \in TokenLists /\ IsJson(json) /\ query.root \in Nat /\ Top \in Frame
        /\ Top.step = "arrive" /\ Top.at \in Nat
        /\ FrameOK(json, query.root, query.level, Top)
        /\ TopOK(json, query.root, query.level, Top, max_level, max_depth, out_key, current)
    BY <1>1, TreeAt DEF InTree
  <1>3. ~Flat(json, query.root, query.level, Top.at)
    BY <1>1, StopsAtFlat
  <1>4. PICK f : f = [Top EXCEPT !.step = "counted"]
    OBVIOUS
  <1>5. f \in Frame /\ f.at = Top.at /\ f.i = Top.i /\ f.step = "counted"
    BY <1>2, <1>4 DEF Frame, Steps
  <1>6. Become(f) /\ UNCHANGED <<phase, query, current, out_key, max_level, max_depth>>
    BY <1>4 DEF CountElements
  <1>7. json' = json
    BY DEF CountElements, Call
  <1>8. FrameOK(json, query.root, query.level, f)
    BY <1>2, <1>3, <1>5 DEF FrameOK
  <1>9. Cardinality(Gone(json, query.root, query.level, Top.at, 0)) =
            Place(Items(json, query.root, query.level), Top.at)
    BY <1>2, GoneFirst
  <1>10. TopOK(json, query.root, query.level, f, max_level', max_depth', out_key', current')
    BY <1>2, <1>5, <1>6, <1>9 DEF TopOK
  <1>11. Called("object_get_element_count", f.at, 0, "")'
    BY <1>5, CalledByCall DEF CountElements
  <1>12. CallOK(f)'
    BY <1>5, <1>11 DEF CallOK
  <1> QED
    BY <1>1, <1>5, <1>6, <1>7, <1>8, <1>10, <1>12, BecomeTree

LEMMA CountedTree ==
    ASSUME InTree, CountInv, Counted
    PROVE  TreeInv'
  <1>1. AtStep("counted")
    BY DEF Counted
  <1>2. /\ json \in TokenLists /\ IsJson(json) /\ query.root \in Nat /\ Top \in Frame
        /\ Top.step = "counted" /\ Top.at \in Nat /\ Top.at < json.numberOfTokens
        /\ query.root <= Top.at /\ call = Idle /\ ScanTypeOK /\ ScanIsExact /\ result.value \in Nat
        /\ out_key \in Seq(Strings)
        /\ FrameOK(json, query.root, query.level, Top)
        /\ TopOK(json, query.root, query.level, Top, max_level, max_depth, out_key, current)
        /\ CallOK(Top)
    BY <1>1, TreeAt, AtTop DEF InTree, WalkInv, ValidateBase
  <1>3. PICK f : f = [Top EXCEPT !.step = "loop", !.el_count = result.value, !.key_len = Len(out_key)]
    OBVIOUS
  <1>4. Len(out_key) \in Nat
    BY <1>2
  <1>5. f \in Frame /\ f.at = Top.at /\ f.i = Top.i /\ f.step = "loop"
        /\ f.el_count = result.value /\ f.key_len = Len(out_key)
    BY <1>2, <1>3, <1>4 DEF Frame, Steps
  <1>6. Become(f) /\ UNCHANGED <<phase, query, current, out_key, max_level, max_depth>>
    BY <1>3 DEF Counted
  <1>7. json' = json
    BY DEF Counted, scanVars
  <1>8. Called("object_get_element_count", Top.at, 0, "")
    BY <1>2 DEF CallOK
  <1>9. /\ Reached(json, query.root, query.level, Top.at)
        /\ ~Flat(json, query.root, query.level, Top.at)
    BY <1>2 DEF FrameOK
  <1>10. ASSUME ArraysAreCounted(json, query.root, query.level)
         PROVE  Cardinality(Heads(json, Top.at)) <= result.value
    <2>1. CASE IsObject(json, Top.at)
      <3>1. Top.at \in Objects
        BY <1>2, <2>1, ListShape DEF Objects, IsObject
      <3>2. result.value = Cardinality(Members(json, Top.at))
        BY <1>2, <1>8, <3>1, CountReturned
      <3> QED
        BY <1>2, <2>1, <3>2 DEF Heads
    <2>2. CASE ~IsObject(json, Top.at)
      <3>1. json.numberOfTokens \in Nat
        BY <1>2, ListShape
      <3>2. Top.at \in query.root .. json.numberOfTokens - 1
        BY <1>2, <3>1
      <3>3. Top.at = query.root \/ Inside(json, Top.at, query.root)
        BY <1>9 DEF Reached, Above
      <3>4. CountsWell(json, Top.at)
        BY <1>9, <1>10, <2>2, <3>2, <3>3 DEF ArraysAreCounted
      <3>5. /\ result # NoResult /\ result.call.fn = "object_get_element_count"
            /\ result.call.at = Top.at
        <4>1. PICK c : c = [fn |-> "object_get_element_count", at |-> Top.at, nth |-> 0, key |-> ""]
          OBVIOUS
        <4>2. c.fn = "object_get_element_count" /\ c.at = Top.at
          BY <4>1
        <4>3. call.fn = "none"
          BY <1>2 DEF Idle
        <4> QED
          BY <1>8, <4>1, <4>2, <4>3 DEF Called
      <3>6. Cardinality(Elements(json, Top.at)) <= result.value
        BY <1>2, <3>4, <3>5 DEF CountInv
      <3> QED
        BY <2>2, <3>6 DEF Heads
    <2> QED
      BY <2>1, <2>2
  <1>11. Len(out_key) = Cardinality(NamesTo(json, query.root, Top.at))
    BY <1>2 DEF TopOK, Stands, LeadsTo
  <1>12. FrameOK(json, query.root, query.level, f)
    BY <1>5, <1>9, <1>10, <1>11 DEF FrameOK
  <1>13. TopOK(json, query.root, query.level, f, max_level', max_depth', out_key', current')
    BY <1>2, <1>5, <1>6 DEF TopOK
  <1>14. CallOK(f)'
    BY <1>5 DEF CallOK
  <1> QED
    BY <1>1, <1>5, <1>6, <1>7, <1>12, <1>13, <1>14, BecomeTree

\* A call that has gone by all children of its container returns.
LEMMA AllGone ==
    ASSUME InTree, NEW st \in {"loop", "name", "element"}, AtStep(st),
           Leave, UNCHANGED <<json, query, out_key, max_level, max_depth, current>>,
           ArraysAreCounted(json, query.root, query.level) =>
                Cardinality(Heads(json, Top.at)) <= Top.i
    PROVE  TreeInv'
  <1>1. /\ json \in TokenLists /\ IsJson(json) /\ LeavesApart(json) /\ query.root \in Nat
        /\ Top.step = st /\ Top.at \in Nat /\ Top.at < json.numberOfTokens /\ Top.i \in Nat
        /\ FrameOK(json, query.root, query.level, Top)
        /\ TopOK(json, query.root, query.level, Top, max_level, max_depth, out_key, current)
    BY TreeAt DEF InTree
  <1>2. ~Flat(json, query.root, query.level, Top.at)
    BY <1>1 DEF FrameOK
  <1>3. /\ Stands(json, query.root, query.level, Top.at, max_level, max_depth, out_key)
        /\ ArraysAreCounted(json, query.root, query.level) =>
              current = Cardinality(Gone(json, query.root, query.level, Top.at, Top.i))
    BY <1>1 DEF TopOK
  <1>4. ASSUME ArraysAreCounted(json, query.root, query.level)
        PROVE  current' = Cardinality(Upto(json, query.root, query.level, Top.at))
    <2>1. Gone(json, query.root, query.level, Top.at, Top.i) = Upto(json, query.root, query.level, Top.at)
      BY <1>1, <1>2, <1>4, GoneAll
    <2> QED
      BY <1>3, <1>4, <2>1
  <1>5. current' <= query.item_index
    BY DEF InTree, WalkInv, StackInv
  <1> QED
    BY <1>3, <1>4, <1>5, LeaveTree

LEMMA NextElementTree ==
    ASSUME InTree, NextElement
    PROVE  TreeInv'
  <1>1. AtStep("loop") /\ UNCHANGED <<max_level, max_depth, out_key, query, current>>
    BY DEF NextElement
  <1>2. /\ json \in TokenLists /\ Top \in Frame /\ Top.step = "loop" /\ Top.at \in Nat
        /\ Top.i \in Nat /\ Top.el_count \in Nat
        /\ FrameOK(json, query.root, query.level, Top)
        /\ TopOK(json, query.root, query.level, Top, max_level, max_depth, out_key, current)
    BY <1>1, TreeAt
  <1>3. CASE Top.i >= Top.el_count
    <2>1. Leave /\ json' = json
      BY <1>3 DEF NextElement, scanVars
    <2>2. Cardinality(Heads(json, Top.at)) \in Nat
      BY <1>2, HeadsOf
    <2>3. ArraysAreCounted(json, query.root, query.level) =>
                Cardinality(Heads(json, Top.at)) <= Top.el_count
      BY <1>2 DEF FrameOK
    <2>4. ArraysAreCounted(json, query.root, query.level) =>
                Cardinality(Heads(json, Top.at)) <= Top.i
      BY <1>2, <1>3, <2>2, <2>3
    <2> QED
      BY <1>1, <2>1, <2>4, AllGone
  <1>4. CASE ~(Top.i >= Top.el_count)
    <2>1. PICK s : s = IF IsObject(json, Top.at) THEN "name" ELSE "element"
      OBVIOUS
    <2>2. PICK w : w = IF IsObject(json, Top.at) THEN "object_get_nth_key" ELSE "array_get_nth_element"
      OBVIOUS
    <2>3. PICK f : f = [Top EXCEPT !.step = s]
      OBVIOUS
    <2>4. Call(w, Top.at, Top.i, "") /\ Become([Top EXCEPT !.step = s]) /\ UNCHANGED phase
      <3>1. token(Top.at).type = "JSMN_OBJECT" <=> IsObject(json, Top.at)
        BY ObjectToken
      <3>2. CASE IsObject(json, Top.at)
        BY <1>4, <2>1, <2>2, <3>1, <3>2 DEF NextElement
      <3>3. CASE ~IsObject(json, Top.at)
        BY <1>4, <2>1, <2>2, <3>1, <3>3 DEF NextElement
      <3> QED
        BY <3>2, <3>3
    <2>5. json' = json
      BY <2>4 DEF Call
    <2>6. /\ f \in Frame /\ f.at = Top.at /\ f.i = Top.i /\ f.step = s /\ s \in {"name", "element"}
          /\ f.key_len = Top.key_len /\ f.el_count = Top.el_count
      BY <1>2, <2>1, <2>3 DEF Frame, Steps
    <2>7. FrameOK(json, query.root, query.level, f)
      BY <1>2, <2>6 DEF FrameOK
    <2>8. TopOK(json, query.root, query.level, f, max_level', max_depth', out_key', current')
      BY <1>1, <1>2, <2>6 DEF TopOK
    <2>9. Called(w, f.at, f.i, "")'
      BY <2>4, <2>6, CalledByCall
    <2>10. CallOK(f)'
      BY <2>1, <2>2, <2>5, <2>6, <2>9 DEF CallOK
    <2>11. Become(f) /\ phase' = phase
      BY <2>3, <2>4
    <2> QED
      BY <1>1, <2>5, <2>6, <2>7, <2>8, <2>10, <2>11, BecomeTree
  <1> QED
    BY <1>3, <1>4

LEMMA ShiftIs ==
    ASSUME NEW d, NEW c
    PROVE  /\ IsObject(d, c) => Shift(d, c) = 1
           /\ ~IsObject(d, c) => Shift(d, c) = 0
  BY DEF Shift

\* Going down to a child, or back from it.
LEMMA LevelsChild ==
    ASSUME NEW d \in TokenLists, IsJson(d), NEW r \in Nat, NEW level \in 0 .. 3,
           NEW c \in Nat, r <= c, HasParts(d, c), NEW e \in Elements(d, c),
           NEW lev \in Int, NEW dep \in Int, NEW up, NEW over,
           up = lev + Shift(d, c), over = dep + 1
    PROVE  Levels(d, r, level, c, up, over) <=> Levels(d, r, level, e, lev, dep)
  <1>1. Nested(d)
    BY DEF IsJson
  <1>2. PICK a, b, x, y, s :
            /\ a = Cardinality(ObjectsAbove(d, r, c)) /\ b = Cardinality(Above(d, r, c))
            /\ x = Cardinality(ObjectsAbove(d, r, e)) /\ y = Cardinality(Above(d, r, e))
            /\ s = Shift(d, c)
    OBVIOUS
  <1>3. y = b + 1 /\ x = a + s
    BY <1>1, <1>2, AboveChild
  <1>4. a \in Nat /\ b \in Nat
    BY <1>2, AboveFinite
  <1>5. s \in {0, 1}
    BY <1>2 DEF Shift
  <1>6. up = lev + s
    BY <1>2
  <1>7. up = level - a <=> lev = level - x
    BY <1>3, <1>4, <1>5, <1>6
  <1>8. over = MAX_RECURSION_DEPTH - b <=> dep = MAX_RECURSION_DEPTH - y
    BY <1>3, <1>4, WalkAssumption
  <1> QED
    BY <1>2, <1>7, <1>8 DEF Levels

LEMMA LimitTypes ==
    ASSUME InTree, NEW st, AtStep(st)
    PROVE  max_level \in Int /\ max_depth \in Int
  BY WalkAssumption DEF InTree, WalkInv, StackInv

\* What a walker by number has returned to the innermost call.
LEMMA TopReturned ==
    ASSUME InTree, NEW st \in {"name", "value", "element"}, AtStep(st)
    PROVE  /\ st # "value" /\ result.err = "parser_ok" =>
                 result.value \in Heads(json, Top.at) /\ Place(Heads(json, Top.at), result.value) = Top.i
           /\ st = "value" /\ result.err = "parser_ok" =>
                 /\ result.value - 1 \in Heads(json, Top.at)
                 /\ Place(Heads(json, Top.at), result.value - 1) = Top.i
           /\ result.err # "parser_ok" => Cardinality(Heads(json, Top.at)) <= Top.i
  <1>1. /\ Top.step = st /\ Top.at \in Nat /\ Top.at < json.numberOfTokens /\ Top.i \in Nat
        /\ call = Idle /\ ScanTypeOK /\ ScanIsExact /\ IsJson(json) /\ CallOK(Top)
    BY TreeAt DEF InTree, WalkInv, ValidateBase
  <1>2. PICK fn : fn = CASE st = "name" -> "object_get_nth_key" [] st = "value" -> "object_get_nth_value"
                         [] OTHER -> "array_get_nth_element"
    OBVIOUS
  <1>3. /\ fn \in ByNumber /\ (fn = "object_get_nth_value" <=> st = "value") /\ fn # "none"
        /\ (fn \in ArrayWalkers <=> st = "element")
    BY <1>2 DEF ByNumber, ArrayWalkers
  <1>4. Called(fn, Top.at, Top.i, "") /\ (st = "element" <=> ~IsObject(json, Top.at))
    BY <1>1, <1>2 DEF CallOK
  <1>5. PICK c : c = [fn |-> fn, at |-> Top.at, nth |-> Top.i, key |-> ""]
    OBVIOUS
  <1>6. c.fn = fn /\ c.at = Top.at /\ c.nth = Top.i
    BY <1>5
  <1>7. result # NoResult /\ result.call = c
    BY <1>1, <1>3, <1>4, <1>5, <1>6 DEF Called, Idle
  <1>8. Meant(json, c)
    <2>1. c.fn \in ObjectWalkers => c.fn \notin ArrayWalkers
      BY <1>3, <1>6 DEF ObjectWalkers, ArrayWalkers
    <2> QED
      BY <1>1, <1>3, <1>4, <1>6, <2>1 DEF Meant, IsObject
  <1>9. Walked(json, c) = Heads(json, Top.at)
    BY <1>3, <1>4, <1>6 DEF Walked, Heads
  <1>10. NthIsRight(json, result)
    BY <1>1, <1>7, <1>8 DEF ScanIsExact
  <1> QED
    BY <1>3, <1>6, <1>7, <1>9, <1>10 DEF NthIsRight

LEMMA MemberNameTree ==
    ASSUME InTree, MemberName
    PROVE  TreeInv'
  <1>1. AtStep("name") /\ UNCHANGED <<max_level, max_depth, query, current>>
    BY DEF MemberName
  <1>2. /\ json \in TokenLists /\ IsJson(json) /\ LeavesApart(json) /\ query.root \in Nat
        /\ Top \in Frame /\ Top.step = "name"
        /\ Top.at \in Nat /\ Top.at < json.numberOfTokens /\ query.root <= Top.at /\ Top.i \in Nat
        /\ call = Idle /\ ScanTypeOK /\ ScanIsExact /\ out_key \in Seq(Strings)
        /\ FrameOK(json, query.root, query.level, Top)
        /\ TopOK(json, query.root, query.level, Top, max_level, max_depth, out_key, current)
        /\ CallOK(Top)
    BY <1>1, TreeAt DEF InTree, WalkInv, ValidateBase
  <1>3. Called("object_get_nth_key", Top.at, Top.i, "") /\ IsObject(json, Top.at)
    BY <1>2 DEF CallOK
  <1>4. PICK v : v = result.value
    OBVIOUS
  <1>5. IF result.err = "parser_ok"
        THEN v \in Heads(json, Top.at) /\ Place(Heads(json, Top.at), v) = Top.i
        ELSE Cardinality(Heads(json, Top.at)) <= Top.i
    BY <1>1, <1>2, <1>4, TopReturned
  <1>6. CASE result.err # "parser_ok"
    <2>1. Leave /\ json' = json /\ out_key' = out_key
      BY <1>6 DEF MemberName, scanVars
    <2> QED
      BY <1>1, <1>5, <1>6, <2>1, AllGone
  <1>7. CASE result.err = "parser_ok"
    <2>1. PICK f : f = [Top EXCEPT !.step = "value"]
      OBVIOUS
    <2>2. /\ f \in Frame /\ f.at = Top.at /\ f.i = Top.i /\ f.step = "value"
          /\ f.key_len = Top.key_len /\ f.el_count = Top.el_count
      BY <1>2, <2>1 DEF Frame, Steps
    <2>3. /\ Become(f) /\ phase' = phase
          /\ Call("object_get_nth_value", Top.at, Top.i, "")
          /\ out_key' = Append(out_key, token(v).text)
      BY <1>4, <1>7, <2>1 DEF MemberName, append_key_item
    <2>4. json' = json
      BY <2>3 DEF Call
    <2>5. FrameOK(json, query.root, query.level, f)
      BY <1>2, <2>2 DEF FrameOK
    <2>6. v \in Heads(json, Top.at) /\ v \in Nat /\ v < json.numberOfTokens
      <3>1. v \in Elements(json, Top.at)
        BY <1>2, <1>5, <1>7, HeadsOf
      <3> QED
        BY <1>2, <1>5, <1>7, <3>1, ElementOf DEF IsJson
    <2>7. PICK e \in Nat : e = v + 1 /\ e - 1 = v /\ e \in Int
      BY <2>6
    <2>8. e - Shift(json, Top.at) = v
      BY <1>3, <2>7 DEF Shift
    <2>9. NthChild(json, Top.at, Top.i, e)
      BY <1>5, <1>7, <2>8 DEF NthChild
    <2>10. token(v).text = json.tokens[e - 1].text
      BY <2>6, <2>7 DEF token
    <2>11. HasParts(json, Top.at)
      BY <1>2 DEF FrameOK, Flat
    <2>12. /\ Stands(json, query.root, query.level, Top.at, max_level, max_depth, out_key)
           /\ ArraysAreCounted(json, query.root, query.level) =>
                 current = Cardinality(Gone(json, query.root, query.level, Top.at, Top.i))
      BY <1>2 DEF TopOK
    <2>13. LeadsTo(out_key', json, query.root, e)
      <3>1. LeadsTo(out_key, json, query.root, Top.at)
        BY <2>12 DEF Stands
      <3>2. LeadsTo(Append(out_key, json.tokens[e - 1].text), json, query.root, e)
        BY <1>2, <1>3, <2>6, <2>7, <2>8, <2>11, <3>1, PathDown
      <3> QED
        BY <2>3, <2>10, <3>2
    <2>14. Levels(json, query.root, query.level, Top.at, max_level', max_depth')
      BY <1>1, <2>12 DEF Stands
    <2>15. TopOK(json, query.root, query.level, f, max_level', max_depth', out_key', current')
      BY <1>1, <2>2, <2>9, <2>12, <2>13, <2>14 DEF TopOK
    <2>16. Called("object_get_nth_value", f.at, f.i, "")'
      BY <2>2, <2>3, CalledByCall
    <2>17. CallOK(f)'
      BY <1>3, <2>2, <2>4, <2>16 DEF CallOK
    <2> QED
      BY <1>1, <2>2, <2>3, <2>4, <2>5, <2>15, <2>17, BecomeTree
  <1> QED
    BY <1>6, <1>7

LEMMA MemberValueTree ==
    ASSUME InTree, MemberValue
    PROVE  TreeInv'
  <1>1. AtStep("value")
    BY DEF MemberValue
  <1>2. /\ json \in TokenLists /\ IsJson(json) /\ LeavesApart(json) /\ query.root \in Nat
        /\ query.level \in 0 .. 3
        /\ Top \in Frame /\ Top.step = "value"
        /\ Top.at \in Nat /\ Top.at < json.numberOfTokens /\ query.root <= Top.at /\ Top.i \in Nat
        /\ call = Idle /\ ScanTypeOK /\ ScanIsExact /\ result.value \in Nat
        /\ FrameOK(json, query.root, query.level, Top)
        /\ TopOK(json, query.root, query.level, Top, max_level, max_depth, out_key, current)
        /\ CallOK(Top)
    BY <1>1, TreeAt, AtTop DEF InTree, WalkInv, ValidateBase
  <1>3. Called("object_get_nth_value", Top.at, Top.i, "") /\ IsObject(json, Top.at)
    BY <1>2 DEF CallOK
  <1>4. PICK v : v = result.value - 1
    OBVIOUS
  <1>5. IF result.err = "parser_ok"
        THEN v \in Heads(json, Top.at) /\ Place(Heads(json, Top.at), v) = Top.i
        ELSE Cardinality(Heads(json, Top.at)) <= Top.i
    BY <1>1, <1>2, <1>4, TopReturned
  <1>6. PICK e \in Nat : /\ NthChild(json, Top.at, Top.i, e)
                         /\ Levels(json, query.root, query.level, Top.at, max_level, max_depth)
                         /\ LeadsTo(out_key, json, query.root, e)
                         /\ ArraysAreCounted(json, query.root, query.level) =>
                               current = Cardinality(Gone(json, query.root, query.level, Top.at, Top.i))
    BY <1>2 DEF TopOK
  <1>7. result.err = "parser_ok"
    <2>1. Top.i < Cardinality(Heads(json, Top.at))
      BY <1>2, <1>6, ChildOrder
    <2>2. Cardinality(Heads(json, Top.at)) \in Nat
      BY <1>2, HeadsOf
    <2> QED
      BY <1>2, <1>5, <2>1, <2>2
  <1>8. NthChild(json, Top.at, Top.i, result.value)
    BY <1>3, <1>4, <1>5, <1>7 DEF NthChild, Shift
  <1>9. result.value = e
    BY <1>2, <1>6, <1>8, ChildOrder
  <1>10. /\ Descend(e) /\ max_level' = max_level - 1 /\ max_depth' = max_depth - 1
         /\ UNCHANGED <<json, query, phase, out_key, current>>
    BY <1>9 DEF MemberValue, scanVars
  <1>11. HasParts(json, Top.at) /\ ~Flat(json, query.root, query.level, Top.at)
    BY <1>2 DEF FrameOK, Flat
  <1>12. e - Shift(json, Top.at) \in Heads(json, Top.at)
    BY <1>6 DEF NthChild
  <1>13. e \in Elements(json, Top.at)
    BY <1>2, <1>12, ChildOf
  <1>14. Levels(json, query.root, query.level, e, max_level', max_depth')
    <2>1. max_level \in Int /\ max_depth \in Int /\ Shift(json, Top.at) = 1
      BY <1>1, <1>3, LimitTypes, ShiftIs
    <2>2. max_level' \in Int /\ max_depth' \in Int /\ max_level = max_level' + Shift(json, Top.at)
          /\ max_depth = max_depth' + 1
      BY <1>10, <2>1
    <2> QED
      BY <1>2, <1>6, <1>11, <1>13, <2>2, LevelsChild
  <1>15. Stands(json, query.root, query.level, e, max_level', max_depth', out_key)
    BY <1>6, <1>14 DEF Stands
  <1>16. Gone(json, query.root, query.level, Top.at, Top.i) =
            {x \in Items(json, query.root, query.level) : x < e}
    BY <1>2, <1>6, <1>11, GoneBefore
  <1>17. ArraysAreCounted(json, query.root, query.level) =>
            current' = Place(Items(json, query.root, query.level), e)
    BY <1>6, <1>10, <1>16 DEF Place
  <1> QED
    BY <1>1, <1>6, <1>10, <1>15, <1>17, DescendTree

LEMMA ElementTree ==
    ASSUME InTree, Element
    PROVE  TreeInv'
  <1>1. AtStep("element") /\ UNCHANGED <<max_level, out_key, query, current>> /\ json' = json
    BY DEF Element, scanVars
  <1>2. /\ json \in TokenLists /\ IsJson(json) /\ LeavesApart(json) /\ query.root \in Nat
        /\ query.level \in 0 .. 3
        /\ Top \in Frame /\ Top.step = "element"
        /\ Top.at \in Nat /\ Top.at < json.numberOfTokens /\ query.root <= Top.at /\ Top.i \in Nat
        /\ call = Idle /\ ScanTypeOK /\ ScanIsExact /\ result.value \in Nat
        /\ FrameOK(json, query.root, query.level, Top)
        /\ TopOK(json, query.root, query.level, Top, max_level, max_depth, out_key, current)
        /\ CallOK(Top)
    BY <1>1, TreeAt, AtTop DEF InTree, WalkInv, ValidateBase
  <1>3. Called("array_get_nth_element", Top.at, Top.i, "") /\ ~IsObject(json, Top.at)
    BY <1>2 DEF CallOK
  <1>4. PICK e \in Nat : e = result.value /\ e \in Int
    BY <1>2
  <1>5. IF result.err = "parser_ok"
        THEN e \in Heads(json, Top.at) /\ Place(Heads(json, Top.at), e) = Top.i
        ELSE Cardinality(Heads(json, Top.at)) <= Top.i
    BY <1>1, <1>2, <1>4, TopReturned
  <1>6. CASE result.err # "parser_ok"
    <2>1. Leave /\ max_depth' = max_depth
      BY <1>6 DEF Element
    <2> QED
      BY <1>1, <1>5, <1>6, <2>1, AllGone
  <1>7. CASE result.err = "parser_ok"
    <2>1. Descend(e) /\ max_depth' = max_depth - 1 /\ phase' = phase
      BY <1>4, <1>7 DEF Element
    <2>2. e - Shift(json, Top.at) = e
      <3>1. Shift(json, Top.at) = 0
        BY <1>3, ShiftIs
      <3> QED
        BY <1>4, <3>1
    <2>3. e - Shift(json, Top.at) \in Heads(json, Top.at) /\ NthChild(json, Top.at, Top.i, e)
      BY <1>5, <1>7, <2>2 DEF NthChild
    <2>4. HasParts(json, Top.at) /\ ~Flat(json, query.root, query.level, Top.at)
      BY <1>2 DEF FrameOK, Flat
    <2>5. /\ Stands(json, query.root, query.level, Top.at, max_level, max_depth, out_key)
          /\ ArraysAreCounted(json, query.root, query.level) =>
                current = Cardinality(Gone(json, query.root, query.level, Top.at, Top.i))
      BY <1>2 DEF TopOK
    <2>6. e \in Elements(json, Top.at)
      BY <1>2, <2>3, ChildOf
    <2>7. Levels(json, query.root, query.level, e, max_level', max_depth')
      <3>1. max_level \in Int /\ max_depth \in Int /\ Shift(json, Top.at) = 0
        BY <1>1, <1>3, LimitTypes, ShiftIs
      <3>2. max_level' \in Int /\ max_depth' \in Int /\ max_level = max_level' + Shift(json, Top.at)
            /\ max_depth = max_depth' + 1
        BY <1>1, <2>1, <3>1
      <3> QED
        BY <1>2, <2>4, <2>5, <2>6, <3>2, LevelsChild DEF Stands
    <2>8. LeadsTo(out_key, json, query.root, e)
      <3>1. PICK d, r, c : d = json /\ r = query.root /\ c = Top.at
        OBVIOUS
      <3>2. /\ d \in TokenLists /\ IsJson(d) /\ r \in Nat /\ c \in Nat /\ r <= c /\ HasParts(d, c)
            /\ e \in Int /\ e - Shift(d, c) \in Heads(d, c) /\ ~IsObject(d, c)
        BY <1>2, <1>3, <1>4, <2>3, <2>4, <3>1
      <3>3. NamesTo(d, r, e) = NamesTo(d, r, c)
        BY <3>2, NamesToChild
      <3> QED
        BY <2>5, <3>1, <3>3 DEF Stands, LeadsTo
    <2>9. Stands(json, query.root, query.level, e, max_level', max_depth', out_key)
      BY <2>7, <2>8 DEF Stands
    <2>10. Gone(json, query.root, query.level, Top.at, Top.i) =
              {x \in Items(json, query.root, query.level) : x < e}
      BY <1>2, <2>3, <2>4, GoneBefore
    <2>11. ArraysAreCounted(json, query.root, query.level) =>
              current' = Place(Items(json, query.root, query.level), e)
      BY <1>1, <2>5, <2>10 DEF Place
    <2> QED
      BY <1>1, <2>1, <2>3, <2>9, <2>11, DescendTree
  <1> QED
    BY <1>6, <1>7

LEMMA ResumeTree ==
    ASSUME InTree, Resume
    PROVE  TreeInv'
  <1>1. AtStep("child") /\ UNCHANGED <<phase, query, current>> /\ json' = json
    BY DEF Resume, scanVars
  <1>2. /\ json \in TokenLists /\ IsJson(json) /\ LeavesApart(json) /\ query.root \in Nat
        /\ query.level \in 0 .. 3 /\ out_key \in Seq(Strings)
        /\ Top \in Frame /\ Top.step = "child"
        /\ Top.at \in Nat /\ query.root <= Top.at /\ Top.i \in Nat
        /\ FrameOK(json, query.root, query.level, Top)
        /\ TopOK(json, query.root, query.level, Top, max_level, max_depth, out_key, current)
    BY <1>1, TreeAt DEF InTree
  <1>3. PICK e \in Nat : /\ NthChild(json, Top.at, Top.i, e)
                         /\ Stands(json, query.root, query.level, e, max_level, max_depth, out_key)
                         /\ ArraysAreCounted(json, query.root, query.level) =>
                               current = Cardinality(Upto(json, query.root, query.level, e))
    BY <1>2 DEF TopOK
  <1>4. PICK f : f = [Top EXCEPT !.step = "loop", !.i = @ + 1]
    OBVIOUS
  <1>5. /\ f \in Frame /\ f.at = Top.at /\ f.i = Top.i + 1 /\ f.step = "loop"
        /\ f.key_len = Top.key_len /\ f.el_count = Top.el_count
    <2>1. PICK n \in Nat : n = Top.i + 1
      BY <1>2
    <2>2. f = [Top EXCEPT !.step = "loop", !.i = n]
      BY <1>4, <2>1
    <2> QED
      BY <1>2, <2>1, <2>2 DEF Frame, Steps
  <1>6. Become(f) /\ max_depth' = max_depth + 1
    BY <1>4 DEF Resume
  <1>7. /\ max_level' = max_level + Shift(json, Top.at)
        /\ out_key' = IF IsObject(json, Top.at) THEN SubSeq(out_key, 1, Top.key_len) ELSE out_key
    <2>1. max_level \in 0 .. 3
      BY DEF InTree, WalkInv, StackInv
    <2> QED
      BY <2>1, ObjectToken DEF Resume, LevelAbove, Restored, Shift
  <1>8. /\ HasParts(json, Top.at) /\ ~Flat(json, query.root, query.level, Top.at)
        /\ Top.key_len = Cardinality(NamesTo(json, query.root, Top.at))
    BY <1>2 DEF FrameOK, Flat
  <1>9. e - Shift(json, Top.at) \in Heads(json, Top.at)
    BY <1>3 DEF NthChild
  <1>10. e \in Elements(json, Top.at)
    BY <1>2, <1>9, ChildOf
  <1>11. Levels(json, query.root, query.level, Top.at, max_level', max_depth')
    <2>1. max_level \in Int /\ max_depth \in Int
      BY <1>1, LimitTypes
    <2>2. Levels(json, query.root, query.level, e, max_level, max_depth)
      BY <1>3 DEF Stands
    <2> QED
      BY <1>2, <1>6, <1>7, <1>8, <1>10, <2>1, <2>2, LevelsChild
  <1>12. LeadsTo(out_key', json, query.root, Top.at)
    <2>1. LeadsTo(out_key, json, query.root, e)
      BY <1>3 DEF Stands
    <2>2. IF IsObject(json, Top.at)
          THEN LeadsTo(SubSeq(out_key, 1, Cardinality(NamesTo(json, query.root, Top.at))),
                       json, query.root, Top.at)
          ELSE LeadsTo(out_key, json, query.root, Top.at)
      BY <1>2, <1>8, <1>9, <2>1, PathUp
    <2> QED
      BY <1>7, <1>8, <2>2
  <1>13. Gone(json, query.root, query.level, Top.at, Top.i + 1) = Upto(json, query.root, query.level, e)
    BY <1>2, <1>3, <1>8, GoneChild
  <1>14. FrameOK(json, query.root, query.level, f)
    BY <1>2, <1>5 DEF FrameOK
  <1>15. TopOK(json, query.root, query.level, f, max_level', max_depth', out_key', current')
    BY <1>1, <1>3, <1>5, <1>11, <1>12, <1>13 DEF TopOK, Stands
  <1>16. CallOK(f)'
    BY <1>5 DEF CallOK
  <1> QED
    BY <1>1, <1>5, <1>6, <1>14, <1>15, <1>16, BecomeTree

LEMMA SearchTree ==
    ASSUME json \in TokenLists, IsJson(json), NEW root \in Nat, RootOK(json, root),
           NEW level \in 0 .. 3, NEW n \in Nat, AskedOK(json, root, level, n),
           NEW name, name = json.tokens[root - 1].text, Search(root, name, level, n)
    PROVE  TreeInv'
  <1>1. /\ stack' = <<Open(root)>> /\ out_key' = <<name>> /\ json' = json
        /\ max_level' = level /\ max_depth' = MAX_RECURSION_DEPTH
        /\ query' = [root |-> root, level |-> level, item_index |-> n]
        /\ current' = 0 /\ phase' = "walk"
    BY DEF Search, GoOn, scanVars
  <1>2. query'.root = root /\ query'.level = level /\ query'.item_index = n
    BY <1>1
  <1>3. PICK f : f = Open(root)
    OBVIOUS
  <1>4. f.at = root /\ f.step = "arrive" /\ f.i = 0
    BY <1>3 DEF Open
  <1>5. PICK s : s = stack'
    OBVIOUS
  <1>6. Len(s) = 1 /\ s[1] = f /\ s[Len(s)] = f
    BY <1>1, <1>3, <1>5
  <1>7. /\ Reached(json, root, level, root)
        /\ Above(json, root, root) = {} /\ ObjectsAbove(json, root, root) = {}
        /\ LeadsTo(<<json.tokens[root - 1].text>>, json, root, root)
    BY AtRoot
  <1>8. FrameOK(json, root, level, f)
    BY <1>4, <1>7 DEF FrameOK
  <1>9. Chain(json, root, level, s)
    <2>1. \A k \in 1 .. 1 : k = 1
      OBVIOUS
    <2>2. \A k \in 1 .. 1 - 1 : FALSE
      OBVIOUS
    <2> QED
      BY <1>4, <1>6, <1>8, <2>1, <2>2 DEF Chain
  <1>10. Levels(json, root, level, root, max_level', max_depth')
    <2>1. Cardinality({}) = 0
      BY FS_EmptySet
    <2>2. Cardinality(ObjectsAbove(json, root, root)) = 0 /\ Cardinality(Above(json, root, root)) = 0
      BY <1>7, <2>1
    <2> QED
      BY <1>1, <2>2, WalkAssumption DEF Levels
  <1>11. Stands(json, root, level, root, max_level', max_depth', out_key')
    BY <1>1, <1>7, <1>10 DEF Stands
  <1>12. Place(Items(json, root, level), root) = 0
    <2>1. \A x \in Items(json, root, level) : ~(x < root)
      <3>1. Nested(json)
        BY DEF IsJson
      <3> QED
        BY <3>1, ItemsOf
    <2>2. {x \in Items(json, root, level) : x < root} = {}
      BY <2>1, Zenon
    <2> QED
      BY <2>2, FS_EmptySet DEF Place
  <1>13. TopOK(json, root, level, f, max_level', max_depth', out_key', current')
    BY <1>1, <1>4, <1>11, <1>12 DEF TopOK
  <1>14. WalkOK(json, root, level, stack', max_level', max_depth', out_key', current')
    BY <1>5, <1>6, <1>9, <1>13 DEF WalkOK
  <1>15. CallOK(Top)'
    BY <1>4, <1>5, <1>6 DEF Top, CallOK
  <1> QED
    BY <1>1, <1>2, <1>14, <1>15 DEF TreeInv

LEMMA FirstItemTree ==
    ASSUME WalkInv, IsJson(json), FirstItem
    PROVE  TreeInv'
  <1>1. PICK k \in Members(json, 0) : \E level \in get_root_max_level(NameOf(k)) :
            Search(k + 1, NameOf(k), level, 0)
    BY DEF FirstItem
  <1>2. PICK level \in get_root_max_level(NameOf(k)) : Search(k + 1, NameOf(k), level, 0)
    BY <1>1
  <1>3. json \in TokenLists /\ ScanTypeOK
    BY DEF WalkInv, ValidateBase, ScanTypeOK
  <1>4. k \in Nat /\ json.numberOfTokens \in Nat
    BY <1>3, ElementsFinite, ListShape DEF Members
  <1>5. PICK root \in Nat : root = k + 1 /\ root - 1 = k
    BY <1>4
  <1>6. level \in 0 .. 3
    BY <1>2 DEF get_root_max_level
  <1>7. 0 \in Objects
    BY AcceptedByPhase DEF WalkInv, Known, FirstItem, AcceptedIsValid
  <1>8. RootOK(json, root)
    BY <1>3, <1>5, <1>7, ObjectAt DEF RootOK, IsObject
  <1>9. AskedOK(json, root, level, 0)
    <2>1. Cardinality(Items(json, root, level)) \in Nat
      BY <1>3, ItemsFinite
    <2> QED
      BY <2>1 DEF AskedOK
  <1>10. PICK name : name = json.tokens[root - 1].text
    OBVIOUS
  <1>11. Search(root, name, level, 0)
    BY <1>2, <1>5, <1>10 DEF NameOf
  <1> QED
    BY <1>3, <1>6, <1>8, <1>9, <1>10, <1>11, SearchTree

LEMMA NextItemTree ==
    ASSUME InTree, NextItem
    PROVE  TreeInv'
  <1>1. phase = "found" /\ phase \in InWalk
    BY DEF NextItem, InWalk
  <1>2. json \in TokenLists /\ IsJson(json)
    BY DEF InTree, WalkInv, ValidateBase, ScanTypeOK
  <1>3. PICK root, level, n : root = query.root /\ level = query.level /\ n = query.item_index
    OBVIOUS
  <1>4. /\ RootOK(json, root) /\ FoundOK(json, root, level, n, out_key, found)
    BY <1>1, <1>2, <1>3 DEF InTree, TreeInv
  <1>5. root \in Nat /\ level \in 0 .. 3 /\ n \in Nat
    BY <1>3 DEF InTree, WalkInv, StackInv
  <1>6. PICK m \in Nat : m = n + 1
    BY <1>5
  <1>7. AskedOK(json, root, level, m)
    <2> SUFFICES ASSUME ArraysAreCounted(json, root, level)
                 PROVE  m <= Cardinality(Items(json, root, level))
      BY DEF AskedOK
    <2>1. Items(json, root, level) \in SUBSET Nat /\ IsFiniteSet(Items(json, root, level))
      BY <1>2, <1>5, ItemsFinite
    <2>2. found \in Items(json, root, level) /\ n = Place(Items(json, root, level), found)
      BY <1>4 DEF FoundOK
    <2>3. PICK w \in Nat : w = found + 1 /\ found < w
      BY <2>1, <2>2
    <2> QED
      BY <1>6, <2>1, <2>2, <2>3, PlaceGrows
  <1>8. PICK name : name = json.tokens[root - 1].text
    OBVIOUS
  <1>9. out_key[1] = name
    BY <1>4, <1>8 DEF FoundOK
  <1>10. Search(root, name, level, m)
    BY <1>3, <1>6, <1>9 DEF NextItem
  <1> QED
    BY <1>2, <1>4, <1>5, <1>6, <1>7, <1>8, <1>10, SearchTree

\* A walker called by the walk runs on.
LEMMA ScanTree ==
    ASSUME InTree, phase \in InWalk, ScanStep, UNCHANGED <<validateVars, walkVars>>
    PROVE  TreeInv'
  <1>1. json' = json
    BY ScanStepBounds DEF InTree, WalkInv, ValidateBase
  <1>2. /\ UNCHANGED <<phase, stack, max_level, max_depth, out_key, query, current, found>>
    BY DEF validateVars, walkVars
  <1>3. phase = "walk" => CallOK(Top)'
    <2>1. ASSUME phase = "walk" PROVE CallOK(Top)
      BY <2>1 DEF InTree, TreeInv
    <2>2. PICK f : f = Top
      OBVIOUS
    <2>3. Top' = f
      BY <1>2, <2>2 DEF Top
    <2>4. \A fn, i, n, k : Called(fn, i, n, k) => Called(fn, i, n, k)'
      BY CalledByStep
    <2>5. CallOK(f) => CallOK(f)'
      BY <1>1, <2>4 DEF CallOK
    <2> QED
      BY <2>1, <2>2, <2>3, <2>5 DEF CallOK
  <1>4. RootOK(json, query.root) /\ AskedOK(json, query.root, query.level, query.item_index)
    BY DEF InTree, TreeInv
  <1>5. phase = "walk" =>
            WalkOK(json, query.root, query.level, stack, max_level, max_depth, out_key, current)
    BY DEF InTree, TreeInv
  <1>6. phase = "found" =>
            FoundOK(json, query.root, query.level, query.item_index, out_key, found)
    BY DEF InTree, TreeInv
  <1>7. phase = "absent" /\ ArraysAreCounted(json, query.root, query.level) =>
            query.item_index = Cardinality(AllItems)
    BY DEF InTree, TreeInv
  <1>8. AllItems' = AllItems
    BY <1>1, <1>2 DEF AllItems
  <1> QED
    BY <1>1, <1>2, <1>3, <1>4, <1>5, <1>6, <1>7, <1>8 DEF TreeInv

\* The walk starts only at a text that is accepted.
LEMMA StaysOut ==
    ASSUME ValidateNext, phase \in Validating \cup {"accepted", "rejected"}
    PROVE  phase' \in Validating \cup {"accepted", "rejected"} /\ phase' \notin InWalk
  BY DEF InWalk, Validating, ValidateNext, ReadCharacter, Parse, CheckText, NoMoreObjects,
     VisitToken, CountMembers, FirstName, NextName, LookUp, LookedUp, NextObject,
     NextMember, Reject, GoOn, validateVars

LEMMA TreeInvStep ==
    ASSUME WalkInv, CountInv, TreeInv, [Next]_vars
    PROVE  CountInv' /\ TreeInv'
  <1>1. CountInv'
    BY WalkInvStep, CountStep DEF WalkInv, ValidateBase
  <1> SUFFICES TreeInv'
    BY <1>1
  <1>2. CASE ValidateNext /\ UNCHANGED walkVars
    <2>1. CASE phase \in InWalk
      <3>1. ScanStep /\ UNCHANGED validateVars
        BY <1>2, <2>1 DEF InWalk, ValidateNext, ReadCharacter, Parse, CheckText, NoMoreObjects,
           VisitToken, CountMembers, FirstName, NextName, LookUp, LookedUp
      <3>2. json' = json
        BY <3>1, ScanStepBounds DEF WalkInv, ValidateBase
      <3>3. CASE IsJson(json)
        BY <1>2, <2>1, <3>1, <3>3, ScanTree DEF InTree
      <3>4. CASE ~IsJson(json)
        BY <3>2, <3>4 DEF TreeInv
      <3> QED
        BY <3>3, <3>4
    <2>2. CASE phase \notin InWalk
      <3>1. phase \in Validating \cup {"accepted", "rejected"}
        BY <2>2 DEF WalkInv, StackInv
      <3>2. phase' \notin InWalk
        BY <1>2, <3>1, StaysOut
      <3> QED
        BY <3>2 DEF TreeInv
    <2> QED
      BY <2>1, <2>2
  <1>3. CASE FirstItem \/ NextItem \/ WalkStep
    <2>1. json' = json
      BY <1>3, WalkStepWalks DEF WalkInv, ScanMove
    <2>2. CASE IsJson(json)
      <3>1. CASE FirstItem
        BY <2>2, <3>1, FirstItemTree
      <3>2. CASE NextItem \/ WalkStep
        <4>1. InTree
          BY <2>2 DEF InTree
        <4> QED
          BY <3>2, <4>1, NextItemTree, MeetLeafTree, CountElementsTree, CountedTree, NextElementTree,
             MemberNameTree, MemberValueTree, ElementTree, ResumeTree DEF WalkStep
      <3> QED
        BY <1>3, <3>1, <3>2
    <2>3. CASE ~IsJson(json)
      BY <2>1, <2>3 DEF TreeInv
    <2> QED
      BY <2>2, <2>3
  <1>4. CASE UNCHANGED vars
    <2>1. /\ UNCHANGED <<json, call, result, phase>>
          /\ UNCHANGED <<stack, max_level, max_depth, out_key, query, current, found>>
      BY <1>4 DEF vars, scanVars, validateVars, walkVars
    <2>2. \A fn, i, n, k : Called(fn, i, n, k)' <=> Called(fn, i, n, k)
      BY <2>1 DEF Called
    <2>3. Top' = Top /\ AllItems' = AllItems
      BY <2>1 DEF Top, AllItems
    <2>4. CallOK(Top)' <=> CallOK(Top)
      BY <2>1, <2>2, <2>3 DEF CallOK
    <2> QED
      BY <2>1, <2>3, <2>4 DEF TreeInv
  <1> QED
    BY <1>2, <1>3, <1>4 DEF Next

LEMMA TreeInvInit ==
    ASSUME Init
    PROVE  CountInv /\ TreeInv
  <1>1. phase = "parse" /\ call = Idle /\ result = NoResult
    BY DEF Init, ValidateInit, ScanInit
  <1> QED
    BY <1>1 DEF CountInv, TreeInv, InWalk

\* Where the walk stands in the tree of a JSON text: which levels and depth are
\* left, which names lead there, and how many items of the field lie behind it
\* (tx_parser.c:155 to :268).
THEOREM TreeInvariant == Spec => [](CountInv /\ TreeInv)
  <1>1. Init => CountInv /\ TreeInv
    BY TreeInvInit
  <1>2. WalkInv /\ CountInv /\ TreeInv /\ [Next]_vars => CountInv' /\ TreeInv'
    BY TreeInvStep
  <1> QED
    BY <1>1, <1>2, WalkInvariant, PTL DEF Spec

\* What tx_traverse_find finds in a JSON text is an item of the field, under the
\* path of names that leads to it, whatever the arrays hold (tx_parser.c:203 to
\* :265).
THEOREM FoundIsItem == Spec => []FoundIsAnItem
  <1>1. TreeInv => FoundIsAnItem
    BY DEF TreeInv, FoundIsAnItem, FoundOK, AllItems, InWalk
  <1> QED
    BY <1>1, TreeInvariant, PTL

\* Asked for one after the other, the items of a field come in their order, each
\* once, and none is left when one is not found (tx_parser.c:203).
THEOREM ItemsInOrder == Spec => []EveryItemMet
  <1>1. TreeInv => EveryItemMet
    BY DEF TreeInv, EveryItemMet, FoundOK, AllItems, InWalk
  <1> QED
    BY <1>1, TreeInvariant, PTL

----------------------------------------------------------------------------
(* What follows                                                            *)

\* Parsing, validating and walking call the walkers of json_parser.c as
\* ScanSpec lets them be called: the lists are well formed, no walker is called
\* while another runs.
THEOREM WalkRefinesScan == Spec => ScanSpec
  <1>1. Init => ScanInit
    BY DEF Init, ValidateInit
  <1>2. WalkInv /\ [Next]_vars => [ScanNext]_scanVars
    BY WalkInvStep
  <1> QED
    BY <1>1, <1>2, WalkInvariant, PTL DEF Spec, ScanSpec

\* Where tx_validate and tx_traverse_find call them, the walkers are exact.
THEOREM ExactInTheWalk == Spec => []ScanIsExact
  <1>1. WalkInv => ScanIsExact
    BY DEF WalkInv
  <1> QED
    BY <1>1, WalkInvariant, PTL

\* A text that tx_validate accepts is one sorted object with the required
\* members, and whitespace only where it does not look (tx_validate.c:162 to
\* :241).
THEOREM AcceptedTextIsValid == Spec => []AcceptedIsValid
  <1>1. WalkInv => AcceptedIsValid
    BY AcceptedByPhase DEF WalkInv, Known
  <1> QED
    BY <1>1, WalkInvariant, PTL

\* A text that tx_validate rejects has the fault that the error names.
THEOREM RejectionHasCause == Spec => []RejectedWithCause
  <1>1. WalkInv => RejectedWithCause
    BY DEF WalkInv
  <1> QED
    BY <1>1, WalkInvariant, PTL

\* The walk never goes past the list of tokens, the level nor the depth, and
\* never counts past the item asked for (tx_parser.c:155 to :268).
THEOREM WalkTypes == Spec => []TypeOK
  <1>1. WalkInv => TypeOK
    <2> SUFFICES ASSUME WalkInv PROVE TypeOK
      OBVIOUS
    <2>1. ValidateBase /\ StackInv
      BY DEF WalkInv
    <2>2. json.numberOfTokens \in Nat /\ MaxTokens \in Nat
      BY <2>1, Calling, MaxTokensAssumption
    <2>3. json \in ListsOf(json.numberOfTokens)
      BY <2>1 DEF ValidateBase, ScanTypeOK, TokenLists, ListsOf
    <2>4. Len(jsmn.toks) <= MaxTokens /\ jsmn.pos \in 0 .. Len(text)
      <3>1. Len(text) \in Nat
        <4>1. text \in Seq(Strings)
          BY <2>1, InputsAssumption DEF ValidateBase
        <4> QED
          BY <4>1
      <3>2. Reader(jsmn, jsmn.pos) /\ jsmn.pos <= Len(text)
        BY <2>1 DEF ValidateBase
      <3>3. jsmn.pos \in Nat
        BY <3>2 DEF Reader, JsmnStates
      <3>4. Len(jsmn.toks) <= MaxTokens
        BY <3>2 DEF Reader, TokensTo
      <3> QED
        BY <3>1, <3>2, <3>3, <3>4
    <2>5. /\ call = Idle \/ call \in Calls
          /\ result = NoResult \/ result \in Results
          /\ token_index \in Nat /\ prev_element_end \in Nat /\ element_count \in Nat
      BY <2>1 DEF ValidateBase, ScanTypeOK
    <2>6. /\ obj \in 0 .. json.numberOfTokens /\ elem \in Nat /\ count \in Nat /\ prevName \in Nat
          /\ field \in DOMAIN required /\ json.numberOfTokens <= MaxTokens
      BY <2>1 DEF ValidateBase
    <2>7. ValidateTypeOK
      BY <2>2, <2>3, <2>4, <2>5, <2>6 DEF ValidateTypeOK
    <2>8. \A k \in DOMAIN stack : stack[k].at \in 0 .. json.numberOfTokens
      <3>1. FramesOK /\ stack \in Seq(Frame)
        BY <2>1 DEF StackInv, FramesOK
      <3>2. \A k \in DOMAIN stack : stack[k] \in Frame
        BY <3>1
      <3>3. \A k \in DOMAIN stack : stack[k].at \in Nat
        BY <3>2 DEF Frame
      <3>4. \A k \in DOMAIN stack : stack[k].at <= json.numberOfTokens
        BY <3>1 DEF FramesOK
      <3> QED
        BY <2>2, <3>3, <3>4
    <2>9. /\ phase \in Validating \cup {"accepted", "rejected", "walk", "found", "absent"}
          /\ max_level \in 0 .. 3 /\ max_depth \in 0 .. MAX_RECURSION_DEPTH
          /\ query.item_index \in Nat /\ current \in Nat /\ current <= query.item_index
          /\ found \in Nat
      BY <2>1 DEF StackInv, InWalk
    <2> QED
      BY <2>7, <2>8, <2>9 DEF TypeOK
  <1> QED
    BY <1>1, WalkInvariant, PTL
=============================================================================
