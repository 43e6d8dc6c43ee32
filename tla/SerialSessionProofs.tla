------------------------ MODULE SerialSessionProofs ------------------------
(***************************************************************************)
(* Proofs about ApduSession when the I/O layer holds commands back until   *)
(* the pending answer is given: the user gets what the screen showed, and  *)
(* the session implements SigningPromise.                                  *)
(***************************************************************************)
EXTENDS ApduSessionProofs

\* What a question on the screen relies on in a serial session.  The menu that
\* switches expert mode is not reachable while the question is pending.
SerialInv ==
    /\ PendingCoherent
    /\ view.kind = "txn" /\ view.path \in EthPaths => expert

AgreedSignatures ==
    {s \in Signatures : \E type \in SignTypes :
        [type |-> type, data |-> s.data] \in SwapTxs}
ValidReviews ==
    {v \in Reviews : [type |-> v.type, data |-> v.data] \in ValidTxs}

----------------------------------------------------------------------------
(* A command has one of three outcomes                                     *)

\* It is answered, or leads to the error screen; no question is asked.
Quiet ==
    /\ view = NoView /\ view' \in {NoView, ErrorScreen}
    /\ view' = ErrorScreen => g_tx_state' = IDLE
    /\ reply' = reply \/ reply'.body \in Addresses \cup {Scratch}
    /\ UNCHANGED <<called_from_swap, should_exit>>

\* It puts a question about the globals it leaves on the screen.
Asks ==
    /\ view = NoView /\ view' \in ValidReviews \cup Addresses
    /\ g_tx_state' = REVIEWING /\ ShowsGlobals(view)'
    /\ view'.kind = "address" => io' = view'
    /\ view'.kind = "txn" /\ view'.path \in EthPaths => expert
    /\ UNCHANGED <<reply, expert, called_from_swap, should_exit>>

\* It attempts the payment of a swap.
Pays ==
    /\ view = NoView /\ view' = NoView
    /\ called_from_swap /\ ~should_exit /\ should_exit' = TRUE
    /\ UNCHANGED called_from_swap
    /\ \/ reply' = reply \/ reply'.body = Scratch
       \/ /\ reply'.body \in AgreedSignatures
          /\ reply'.body.path \in EthPaths => expert

LEMMA QuietThrow ==
    ASSUME view = NoView, NEW sw, NEW STATE body, body \in Addresses \cup {Scratch},
           NEW STATE st, Throw(sw, body, st), UNCHANGED <<called_from_swap, should_exit>>
    PROVE  Quiet
  <1>1. view' = NoView
    BY ThrowControl
  <1>2. reply'.body = body
    BY DEF Throw
  <1> QED
    BY <1>1, <1>2, KindOfScreens DEF Quiet

LEMMA QuietReset ==
    ASSUME view = NoView, ResetInHandler, UNCHANGED <<called_from_swap, should_exit>>
    PROVE  Quiet
  BY KindOfScreens DEF ResetInHandler, Quiet

LEMMA QuietReply ==
    ASSUME view = NoView, NEW sw, OnlyReply(sw)
    PROVE  Quiet
  <1>1. Throw(sw, Scratch, g_tx_state) /\ UNCHANGED <<called_from_swap, should_exit>>
    BY DEF OnlyReply, swapVars
  <1> QED
    BY <1>1, QuietThrow

LEMMA SignInitOutcome ==
    ASSUME view = NoView, NEW p \in PathArgs, NEW h \in HrpArgs, SignInit(p, h)
    PROVE  Quiet
  <1>1. CASE Refuse
    BY <1>1, QuietReply DEF Refuse
  <1>2. CASE ~Refuse
    <2>1. /\ UNCHANGED <<called_from_swap, should_exit>>
          /\ \E sw \in StatusWords, st \in {IDLE, RECEIVING} : Throw(sw, Scratch, st)
      BY <1>2, ArgStatuses DEF SignInit, swapVars
    <2> QED
      BY <2>1, QuietThrow
  <1> QED
    BY <1>1, <1>2

LEMMA SignAddOutcome ==
    ASSUME view = NoView, NEW d \in Payloads, SignAdd(d)
    PROVE  Quiet
  <1>1. CASE Refuse \/ ChunkOverflow
    BY <1>1, QuietReply DEF Refuse, ChunkOverflow
  <1>2. CASE ~Refuse /\ ~ChunkOverflow
    <2>1. /\ UNCHANGED <<called_from_swap, should_exit>>
          /\ Throw("ok", Scratch, g_tx_state)
      BY <1>2 DEF SignAdd, swapVars
    <2> QED
      BY <2>1, QuietThrow
  <1> QED
    BY <1>1, <1>2

LEMMA GetAddrOutcome ==
    ASSUME view = NoView, NEW p \in PathArgs, NEW h \in HrpArgs, NEW confirm \in BOOLEAN,
           handleGetAddr(p, h, confirm)
    PROVE  Quiet \/ Asks
  <1>1. CASE Refuse
    BY <1>1, QuietReply DEF Refuse
  <1>2. CASE AddressArgsRefused(p, h)
    <2>1. /\ UNCHANGED <<called_from_swap, should_exit>>
          /\ \E sw \in StatusWords : Throw(sw, Scratch, IDLE)
      BY <1>2, ArgStatuses DEF AddressArgsRefused, swapVars, StatusWords, ErrorCodes
    <2> QED
      BY <2>1, QuietThrow
  <1>3. CASE AddressDerived(p, h, confirm)
    <2> DEFINE address == Address(p, h, checkChainConfig(p, h))
    <2>1. /\ UNCHANGED <<called_from_swap, should_exit, expert>>
          /\ hdPath' = p /\ bech32_hrp' = h /\ encoding' = checkChainConfig(p, h)
          /\ h \in Hrps /\ PathStatus(p) = "ok"
      BY <1>3 DEF AddressDerived, swapVars
    <2>2. address \in Addresses /\ address.kind = "address"
      BY <2>1, PathStatusOk, AddressType, ConfigType, KindOfScreens
    <2>3. CASE \E sw \in {"ok", "execution_error"} :
                 Throw(sw, Scratch, IDLE) \/ Throw(sw, address, IDLE)
      BY <2>1, <2>2, <2>3, QuietThrow
    <2>4. CASE /\ io' = address /\ g_tx_state' = REVIEWING /\ UNCHANGED reply
               /\ Finally(NoStatus, address)
      <3>1. view' = address
        BY <2>4, FinallyControl
      <3>2. ShowsGlobals(view)'
        BY <2>1, <2>2, <3>1 DEF ShowsGlobals
      <3> QED
        BY <2>1, <2>2, <2>4, <3>1, <3>2 DEF Asks
    <2>5. CASE ResetInHandler
      BY <2>1, <2>5, QuietReset
    <2> QED
      BY <1>3, <2>3, <2>4, <2>5 DEF AddressDerived
  <1> QED
    BY <1>1, <1>2, <1>3 DEF handleGetAddr

LEMMA SignLastOutcome ==
    ASSUME TypedInv, TypedInv', view = NoView, NEW type \in TxTypes, NEW d \in Payloads,
           SignLast(type, d)
    PROVE  Quiet \/ Asks \/ Pays
  <1>1. CASE Refuse \/ ChunkOverflow
    BY <1>1, QuietReply DEF Refuse, ChunkOverflow
  <1>2. CASE ~Refuse /\ ~ChunkOverflow
    <2>1. /\ g_tx_state = RECEIVING
          /\ UNCHANGED <<hdPath, bech32_hrp, encoding, called_from_swap, expert>>
          /\ \/ ShowExpertRequired
             \/ ~ExpertRequired /\ (\/ RejectDocument(type) \/ ShowReview(type)
                                    \/ CheckSwap(type) \/ Failsafe(type))
      BY <1>2 DEF SignLast
    <2>2. /\ buffer' \in Seq(Chunks) /\ hdPath \in Paths /\ encoding \in Encodings
      BY <2>1 DEF TypedInv, TypeOK, SessionArgsChecked, RECEIVING, IDLE
    <2>3. CASE ShowExpertRequired
      <3>1. /\ g_tx_state' = IDLE /\ UNCHANGED <<called_from_swap, should_exit>>
            /\ reply' = reply \/ reply'.body = Scratch
            /\ Finally("data_invalid", ErrorScreen)
        BY <2>1, <2>3 DEF ShowExpertRequired
      <3> QED
        BY <3>1, FinallyControl DEF Quiet
    <2>4. CASE RejectDocument(type)
      <3>1. /\ UNCHANGED <<called_from_swap, should_exit>>
            /\ \E sw \in StatusWords : Throw(sw, Scratch, g_tx_state)
        BY <2>1, <2>4 DEF RejectDocument, StatusWords, ErrorCodes
      <3> QED
        BY <3>1, QuietThrow
    <2>5. CASE ~ExpertRequired /\ ShowReview(type)
      <3> DEFINE review == Review(type, buffer', hdPath, encoding)
      <3>1. ~called_from_swap /\ UNCHANGED should_exit /\ Parses(type, buffer')
        BY <2>5 DEF ShowReview
      <3>2. CASE g_tx_state' = REVIEWING /\ UNCHANGED reply /\ Finally(NoStatus, review)
        <4>1. view' = review
          BY <2>1, <3>1, <3>2 DEF Finally, MustExit
        <4>2. /\ view'.kind = "txn" /\ view'.type = type /\ view'.data = buffer'
              /\ view'.path = hdPath /\ view'.enc = encoding
          BY <4>1, KindOfScreens
        <4>3. view' \in ValidReviews
          BY <2>2, <3>1, <4>1, <4>2 DEF ValidReviews, Review, Reviews, Parses
        <4>4. ShowsGlobals(view)'
          BY <2>1, <3>1, <4>2 DEF ShowsGlobals, Parses
        <4> QED
          BY <2>1, <2>5, <3>1, <3>2, <4>2, <4>3, <4>4 DEF Asks, ExpertRequired
      <3>3. CASE ResetInHandler
        BY <2>1, <3>1, <3>3, QuietReset
      <3> QED
        BY <2>5, <3>2, <3>3 DEF ShowReview
    <2>6. CASE ~ExpertRequired /\ CheckSwap(type)
      <3>1. called_from_swap /\ ~should_exit /\ should_exit' = TRUE
        BY <2>6 DEF CheckSwap, SwapTxAllowed
      <3>2. view' = NoView
        BY <2>6, ThrowControl DEF CheckSwap
      <3>3. CASE PaysSwap(type, buffer') /\ app_sign(buffer')
        <4>1. type \in SignTypes
          BY <3>3, TxsAssumption DEF PaysSwap
        <4>2. \/ reply'.body = Scratch
              \/ reply'.body = Signature(buffer', hdPath, encoding)
          BY <3>3 DEF app_sign, crypto_sign
        <4>3. CASE reply'.body = Signature(buffer', hdPath, encoding)
          <5>1. reply'.body \in Signatures
            BY <2>2, <4>3, SignatureType
          <5>2. reply'.body.data = buffer' /\ reply'.body.path = hdPath
            BY <4>3 DEF Signature
          <5>3. reply'.body \in AgreedSignatures
            BY <3>3, <4>1, <5>1, <5>2 DEF AgreedSignatures, PaysSwap
          <5> QED
            BY <2>1, <2>6, <3>1, <3>2, <5>2, <5>3 DEF Pays, ExpertRequired
        <4> QED
          BY <2>1, <3>1, <3>2, <4>2, <4>3 DEF Pays
      <3>4. CASE reply' = reply \/ reply'.body = Scratch
        BY <2>1, <3>1, <3>2, <3>4 DEF Pays
      <3> QED
        BY <2>6, <3>3, <3>4 DEF CheckSwap, Throw
    <2>7. CASE Failsafe(type)
      BY <2>1, <2>7, KindOfScreens DEF Failsafe, Quiet
    <2> QED
      BY <2>1, <2>3, <2>4, <2>5, <2>6, <2>7
  <1> QED
    BY <1>1, <1>2

\* In a serial session a command finds no question on the screen.
LEMMA CommandOutcome ==
    ASSUME Concurrent = FALSE, TypedInv, TypedInv', HostCommand
    PROVE  Quiet \/ Asks \/ Pays
  <1>1. view = NoView
    BY DEF HostCommand, GetVersion, Malformed, SignInit, handleGetAddr, SignAdd, SignLast,
           Deliverable
  <1>2. CASE GetVersion \/ \E sw \in MalformedCodes : Malformed(sw)
    BY <1>1, <1>2, QuietReply DEF GetVersion, Malformed
  <1>3. CASE \E p \in PathArgs, h \in HrpArgs : SignInit(p, h)
    BY <1>1, <1>3, SignInitOutcome
  <1>4. CASE \E p \in PathArgs, h \in HrpArgs, confirm \in BOOLEAN : handleGetAddr(p, h, confirm)
    BY <1>1, <1>4, GetAddrOutcome
  <1>5. CASE \E d \in Payloads : SignAdd(d)
    BY <1>1, <1>5, SignAddOutcome
  <1>6. CASE \E d \in Payloads, type \in TxTypes : SignLast(type, d)
    BY <1>1, <1>6, SignLastOutcome
  <1> QED
    BY <1>2, <1>3, <1>4, <1>5, <1>6 DEF HostCommand

----------------------------------------------------------------------------
(* The serial invariant                                                    *)

LEMMA BodyKinds ==
    /\ \A s \in Signatures : s.kind = "signature"
    /\ \A v \in Addresses : v.kind = "address"
    /\ \A v \in Reviews : v.kind = "txn"
    /\ Scratch.kind = "scratch"
  BY DEF Signatures, Addresses, Reviews, Scratch

LEMMA CommandSerial ==
    ASSUME Quiet \/ Asks \/ Pays
    PROVE  SerialInv'
  <1>1. CASE Quiet
    BY <1>1, KindOfScreens DEF Quiet, SerialInv, PendingCoherent
  <1>2. CASE Asks
    <2>1. view'.kind \in {"txn", "address"}
      BY <1>2, BodyKinds DEF Asks, ValidReviews
    <2> QED
      BY <1>2, <2>1 DEF Asks, SerialInv, PendingCoherent
  <1>3. CASE Pays
    BY <1>3, KindOfScreens DEF Pays, SerialInv, PendingCoherent
  <1> QED
    BY <1>1, <1>2, <1>3

LEMMA NextSerial ==
    ASSUME Concurrent = FALSE, ReviewInv, ReviewInv', SerialInv, [Next]_vars
    PROVE  SerialInv'
  <1>1. CASE HostCommand
    BY <1>1, CommandOutcome, CommandSerial DEF ReviewInv
  <1>2. CASE UserAnswer \/ ToggleExpert \/ Launch
    <2>1. view' = NoView
      BY <1>2 DEF UserAnswer, ApproveTxn, app_reply_address, app_reject, app_reply_error,
                  Answering, ToggleExpert, Launch
    <2> QED
      BY <2>1, KindOfScreens DEF SerialInv, PendingCoherent
  <1>3. CASE UNCHANGED vars
    BY <1>3 DEF vars, txVars, SerialInv, PendingCoherent, ShowsGlobals
  <1> QED
    BY <1>1, <1>2, <1>3 DEF Next

\* The inductive invariant of a session whose commands wait for the answer: the
\* question on the screen is the one its globals answer (handleApdu, actions.h).
THEOREM SerialInvariant ==
    ASSUME Concurrent = FALSE
    PROVE  Spec => [](ReviewInv /\ SerialInv)
  <1>1. Init => SerialInv
    BY KindOfScreens DEF Init, SerialInv, PendingCoherent
  <1>2. ReviewInv /\ ReviewInv' /\ SerialInv /\ [Next]_vars => SerialInv'
    BY NextSerial
  <1> QED
    BY <1>1, <1>2, ReviewInvariant, PTL DEF Spec

\* In a serial session a pending question is about the present globals, and an
\* address on the screen is still in the I/O buffer it is answered from.
THEOREM PendingIsCoherent ==
    ASSUME Concurrent = FALSE
    PROVE  Spec => []PendingCoherent
  BY SerialInvariant, PTL DEF SerialInv

----------------------------------------------------------------------------
(* What the user is shown is what is given out                             *)

\* The one way a user's answer gives out a signature.
LEMMA ApproveGives ==
    ASSUME ReviewInv, SerialInv, UserAnswer, Gives("signature")
    PROVE  /\ ~called_from_swap /\ view.kind = "txn" /\ reply'.body = Grant(view)
           /\ reply'.body.path = view.path
  <1>1. CASE ApproveTxn
    <2>1. /\ view.kind = "txn" /\ view.data = buffer /\ view.path = hdPath
          /\ view.enc = encoding
      BY <1>1 DEF ApproveTxn, Answering, SerialInv, PendingCoherent, ShowsGlobals
    <2>2. reply'.body = Signature(buffer, hdPath, encoding)
      BY <1>1, BodyKinds DEF ApproveTxn, app_sign, crypto_sign, Gives
    <2>3. reply'.body.path = hdPath
      BY <2>2 DEF Signature
    <2> QED
      BY <2>1, <2>2, <2>3 DEF Grant, ReviewInv, SwapInv
  <1>2. CASE app_reply_address
    <2>1. view.kind = "address" /\ io = view /\ reply'.body = io
      BY <1>2 DEF app_reply_address, Answering, SerialInv, PendingCoherent
    <2> QED
      BY <2>1 DEF Gives
  <1>3. CASE app_reject \/ app_reply_error
    BY <1>3, BodyKinds DEF app_reject, app_reply_error, Gives
  <1> QED
    BY <1>1, <1>2, <1>3 DEF UserAnswer

\* Neither the menu nor a launch gives out a signature.
LEMMA OtherGivesNothing ==
    ASSUME ToggleExpert \/ Launch \/ UNCHANGED vars
    PROVE  ~Gives("signature")
  BY BodyKinds DEF ToggleExpert, Launch, vars, Gives

LEMMA CommandGives ==
    ASSUME Quiet \/ Asks \/ Pays, Gives("signature")
    PROVE  /\ called_from_swap /\ reply'.body \in AgreedSignatures
           /\ reply'.body.path \in EthPaths => expert
  BY BodyKinds DEF Quiet, Asks, Pays, Gives

\* A signature is for the document, path and encoding the user approved, or for
\* the payment Exchange had the user approve.
THEOREM SignatureWasShown ==
    ASSUME Concurrent = FALSE
    PROVE  Spec => SignedWasShown
  <1> DEFINE Shown == Gives("signature") =>
         \/ ~called_from_swap /\ view.kind = "txn" /\ reply'.body = Grant(view)
         \/ called_from_swap /\ \E type \in SignTypes :
              [type |-> type, data |-> reply'.body.data] \in SwapTxs
  <1>1. ReviewInv /\ ReviewInv' /\ SerialInv /\ [Next]_vars => Shown
    <2> SUFFICES ASSUME ReviewInv, ReviewInv', SerialInv, [Next]_vars, Gives("signature")
                 PROVE  Shown
      OBVIOUS
    <2>1. CASE HostCommand
      BY <2>1, CommandOutcome, CommandGives DEF ReviewInv, AgreedSignatures
    <2>2. CASE UserAnswer
      BY <2>2, ApproveGives
    <2>3. CASE ToggleExpert \/ Launch \/ UNCHANGED vars
      BY <2>3, OtherGivesNothing
    <2> QED
      BY <2>1, <2>2, <2>3 DEF Next
  <1> QED
    BY <1>1, SerialInvariant, PTL DEF Spec, SignedWasShown

\* An approved address is the address given out.
THEOREM AddressGivenWasShown ==
    ASSUME Concurrent = FALSE
    PROVE  Spec => AddressWasShown
  <1>1. SerialInv => (app_reply_address => reply'.body = Grant(view))
    BY DEF app_reply_address, Answering, SerialInv, PendingCoherent, Grant
  <1> QED
    BY <1>1, SerialInvariant, PTL DEF Spec, AddressWasShown

\* Coin type 60 is signed for in expert mode only.
THEOREM EthSignedByExpertsOnly ==
    ASSUME Concurrent = FALSE
    PROVE  Spec => EthNeedsExpert
  <1> DEFINE Expert == Gives("signature") /\ reply'.body.path \in EthPaths => expert
  <1>1. ReviewInv /\ ReviewInv' /\ SerialInv /\ [Next]_vars => Expert
    <2> SUFFICES ASSUME ReviewInv, ReviewInv', SerialInv, [Next]_vars, Gives("signature"),
                        reply'.body.path \in EthPaths
                 PROVE  expert
      OBVIOUS
    <2>1. CASE HostCommand
      BY <2>1, CommandOutcome, CommandGives DEF ReviewInv
    <2>2. CASE UserAnswer
      BY <2>2, ApproveGives DEF SerialInv
    <2>3. CASE ToggleExpert \/ Launch \/ UNCHANGED vars
      BY <2>3, OtherGivesNothing
    <2> QED
      BY <2>1, <2>2, <2>3 DEF Next
  <1> QED
    BY <1>1, SerialInvariant, PTL DEF Spec, EthNeedsExpert

----------------------------------------------------------------------------
(* The session implements SigningPromise                                   *)

LEMMA NoQuestion == view = NoView \/ view = ErrorScreen => Offered = Scratch
  BY KindOfScreens DEF Offered

LEMMA Question ==
    ASSUME view \in Reviews \cup Addresses
    PROVE  Offered = view /\ Offered # Scratch
  BY BodyKinds DEF Offered

LEMMA CommandKeepsPromise ==
    ASSUME Quiet \/ Asks \/ Pays
    PROVE  [Promise!Next]_(Promise!vars)
  <1>1. CASE Quiet
    <2>1. Offered = Scratch /\ Offered' = Scratch
      BY <1>1, NoQuestion, KindOfScreens DEF Quiet, Offered
    <2>2. Given' = Given \/ Given' \in Addresses \cup {Scratch}
      BY <1>1, BodyKinds DEF Quiet, Given
    <2> QED
      BY <1>1, <2>1, <2>2 DEF Quiet, Promise!Next, Promise!Answer, Promise!vars
  <1>2. CASE Asks
    <2>1. Offered = Scratch /\ Offered' = view'
      BY <1>2, NoQuestion, BodyKinds DEF Asks, Offered, ValidReviews
    <2>2. Given' = Given
      BY <1>2 DEF Asks, Given
    <2> QED
      BY <1>2, <2>1, <2>2 DEF Asks, ValidReviews, Promise!Next, Promise!Ask
  <1>3. CASE Pays
    <2>1. Offered = Scratch /\ Offered' = Scratch
      BY <1>3, NoQuestion, KindOfScreens DEF Pays, Offered
    <2>2. Given' \in AgreedSignatures \cup {Scratch, Given}
      BY <1>3, BodyKinds DEF Pays, Given, AgreedSignatures
    <2> QED
      BY <1>3, <2>1, <2>2 DEF Pays, AgreedSignatures, Promise!Next, Promise!Pay
  <1> QED
    BY <1>1, <1>2, <1>3

LEMMA AnswerKeepsPromise ==
    ASSUME ReviewInv, SerialInv, UserAnswer
    PROVE  [Promise!Next]_(Promise!vars)
  <1>1. Offered' = Scratch /\ UNCHANGED <<called_from_swap, should_exit>>
    BY KindOfScreens
       DEF UserAnswer, ApproveTxn, app_reply_address, app_reject, app_reply_error,
           Answering, Offered, swapVars
  <1>2. Offered = view \/ (Offered = Scratch /\ view.kind \notin {"txn", "address"})
    BY DEF Offered
  <1>3. CASE ApproveTxn \/ app_reply_address
    <2>1. view.kind \in {"txn", "address"} /\ Offered = view /\ Offered # Scratch
      BY <1>3, BodyKinds DEF ApproveTxn, app_reply_address, Answering, Offered
    <2>2. Given' = Grant(view) \/ Given' = Scratch
      <3>1. CASE ApproveTxn
        <4>1. /\ view.kind = "txn" /\ view.data = buffer /\ view.path = hdPath
              /\ view.enc = encoding
          BY <3>1 DEF ApproveTxn, Answering, SerialInv, PendingCoherent, ShowsGlobals
        <4>2. reply'.body = Scratch \/ reply'.body = Signature(buffer, hdPath, encoding)
          BY <3>1 DEF ApproveTxn, app_sign, crypto_sign
        <4>3. Signature(buffer, hdPath, encoding).kind = "signature"
          BY DEF Signature
        <4> QED
          BY <4>1, <4>2, <4>3, BodyKinds DEF Given, Grant
      <3>2. CASE app_reply_address
        <4>1. view.kind = "address" /\ io = view /\ reply'.body = io
          BY <3>2 DEF app_reply_address, Answering, SerialInv, PendingCoherent
        <4> QED
          BY <4>1 DEF Given, Grant
      <3> QED
        BY <1>3, <3>1, <3>2
    <2> QED
      BY <1>1, <2>1, <2>2 DEF Promise!Next, Promise!Approve, Promise!Decline
  <1>4. CASE app_reject \/ app_reply_error
    <2>1. Given' = Scratch
      BY <1>4, BodyKinds DEF app_reject, app_reply_error, Given
    <2> QED
      BY <1>1, <1>2, <2>1 DEF Promise!Next, Promise!Decline, Promise!Answer
  <1> QED
    BY <1>3, <1>4 DEF UserAnswer

\* Approving a question gives out its grant and nothing is given out unasked
\* but addresses and the one payment of a swap.
THEOREM SessionKeepsPromise ==
    ASSUME Concurrent = FALSE
    PROVE  Spec => KeepsPromise
  <1>1. Init => Promise!Init
    BY KindOfScreens, BodyKinds DEF Init, Promise!Init, Offered, Given
  <1>2. ReviewInv /\ ReviewInv' /\ SerialInv /\ [Next]_vars => [Promise!Next]_(Promise!vars)
    <2> SUFFICES ASSUME ReviewInv, ReviewInv', SerialInv, [Next]_vars
                 PROVE  [Promise!Next]_(Promise!vars)
      OBVIOUS
    <2>1. CASE HostCommand
      BY <2>1, CommandOutcome, CommandKeepsPromise DEF ReviewInv
    <2>2. CASE UserAnswer
      BY <2>2, AnswerKeepsPromise
    <2>3. CASE ToggleExpert \/ UNCHANGED vars
      BY <2>3 DEF ToggleExpert, vars, swapVars, Offered, Given, Promise!vars
    <2>4. CASE Launch
      BY <2>4, KindOfScreens, BodyKinds DEF Launch, Offered, Given, Promise!Next, Promise!Restart
    <2> QED
      BY <2>1, <2>2, <2>3, <2>4 DEF Next
  <1> QED
    BY <1>1, <1>2, SerialInvariant, PTL DEF Spec, KeepsPromise, Promise!Spec
=============================================================================
