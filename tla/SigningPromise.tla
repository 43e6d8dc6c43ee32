--------------------------- MODULE SigningPromise ---------------------------
(***************************************************************************)
(* What the app promises the owner of the keys, without commands, chunks,  *)
(* buffers or resets: it asks one question at a time, an approved question *)
(* gives out exactly the grant it asked for, and without a question it     *)
(* gives out only addresses, or the one payment Exchange was approved for. *)
(***************************************************************************)
CONSTANTS
    Offers,      \* the questions the screen may ask
    Grant(_),    \* what approving a question gives out
    Public,      \* what is given out unasked: addresses
    Agreed,      \* the signatures that pay what Exchange asked for
    Nothing      \* no question; nothing given out

VARIABLES
    offer,       \* the question on the screen
    given,       \* what the last reply gave out
    swap,        \* the app was started by Exchange
    spent        \* Exchange's payment was attempted

vars == <<offer, given, swap, spent>>

Init == offer = Nothing /\ given = Nothing /\ swap \in BOOLEAN /\ spent = FALSE

\* A question appears only when none is pending.
Ask == /\ offer = Nothing
       /\ offer' \in Offers
       /\ UNCHANGED <<given, swap, spent>>

Approve == /\ offer # Nothing
           /\ offer' = Nothing
           /\ given' = Grant(offer)
           /\ UNCHANGED <<swap, spent>>

\* The user declines, or the approved operation fails.
Decline == /\ offer # Nothing
           /\ offer' = Nothing
           /\ given' = Nothing
           /\ UNCHANGED <<swap, spent>>

\* A command is answered without a question.
Answer == /\ offer = Nothing
          /\ given' \in Public \cup {Nothing}
          /\ UNCHANGED <<offer, swap, spent>>

\* The payment Exchange asked for is attempted once.
Pay == /\ swap /\ ~spent
       /\ offer = Nothing
       /\ spent' = TRUE
       /\ given' \in Agreed \cup {Nothing, given}
       /\ UNCHANGED <<offer, swap>>

Restart == /\ offer' = Nothing /\ given' = Nothing
           /\ swap' \in BOOLEAN /\ spent' = FALSE

Next == Ask \/ Approve \/ Decline \/ Answer \/ Pay \/ Restart

Spec == Init /\ [][Next]_vars
=============================================================================
