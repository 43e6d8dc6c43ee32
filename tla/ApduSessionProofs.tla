------------------------- MODULE ApduSessionProofs -------------------------
(* Proofs about ApduSession for every value of its constants.              *)
EXTENDS ApduSession, SequenceTheorems, TLAPS

Bodies == Signatures \cup Addresses \cup {Scratch}

\* A reviewed document has a path to sign with, even after a command that
\* carried none cleared the session.
ReviewHasPath == view.kind = "txn" => hdPath \in Paths

TypedInv == TypeOK /\ SessionArgsChecked /\ ReviewHasPath

----------------------------------------------------------------------------
(* What the shared endings of the handlers do                              *)

\* Finally shows the next screen or, after a reset, none.
LEMMA FinallyEffect ==
    ASSUME TypeOK, NEW sw, NEW STATE nextView, Finally(sw, nextView)
    PROVE  /\ app' \in {"running", "exited", "panicked"}
           /\ result' \in {"unset", "success", "failure"}
           /\ resets' \in Nat
           /\ view' = nextView \/ view' = NoView
  BY BoundsAssumption DEF TypeOK, Finally, ExitResult, IoReset, processVars

\* Throw leaves the session idle unless the handler succeeded or refused.
LEMMA ThrowEffect ==
    ASSUME TypeOK, NEW sw \in StatusWords, NEW STATE body, body \in Bodies,
           NEW STATE st, st \in TxStates, Throw(sw, body, st)
    PROVE  /\ app' \in {"running", "exited", "panicked"}
           /\ result' \in {"unset", "success", "failure"}
           /\ resets' \in Nat
           /\ view' = view \/ view' = NoView
           /\ reply' \in [sw : StatusWords, body : Bodies]
           /\ g_tx_state' = IDLE \/ (g_tx_state' = st /\ sw \in {"ok", "not_allowed"})
           /\ g_tx_state' \in TxStates
  <1>1. Finally(sw, view)
    BY DEF Throw
  <1>2. reply' \in [sw : StatusWords, body : Bodies]
    BY DEF Throw
  <1>3. /\ g_tx_state' = IDLE \/ (g_tx_state' = st /\ sw \in {"ok", "not_allowed"})
        /\ g_tx_state' \in TxStates
    BY DEF Throw, AfterThrow, TxStates
  <1> QED
    BY <1>1, <1>2, <1>3, FinallyEffect

\* A derived address and a signature are well formed.
LEMMA AddressType ==
    ASSUME NEW p \in Paths, NEW h \in Hrps \cup {NoHrp}, NEW e \in Encodings
    PROVE  Address(p, h, e) \in Addresses
  BY DEF Address, Addresses

LEMMA SignatureType ==
    ASSUME NEW d \in Seq(Chunks), NEW p \in Paths, NEW e \in Encodings
    PROVE  Signature(d, p, e) \in Signatures
  BY DEF Signature, Signatures

LEMMA ConfigType ==
    ASSUME NEW p, NEW h
    PROVE  /\ checkChainConfig(p, h) \in Encodings
           /\ checkChainConfig(p, h) # "unsupported" =>
                checkChainConfig(p, h) = IF p \in EthPaths THEN "eth" ELSE "cosmos"
  BY DEF checkChainConfig, Encodings

----------------------------------------------------------------------------
(* Each action keeps TypedInv                                              *)

LEMMA AppendType ==
    ASSUME NEW s \in Seq(Chunks), NEW d \in Payloads
    PROVE  s \o d \in Seq(Chunks)
  <1>1. CASE d = <<>>
    BY <1>1, ConcatEmptySeq
  <1>2. CASE \E c \in Chunks : d = <<c>>
    <2>1. PICK c \in Chunks : d = <<c>>
      BY <1>2
    <2>2. <<c>> \in Seq(Chunks)
      OBVIOUS
    <2> QED
      BY <2>1, <2>2, ConcatProperties
  <1> QED
    BY <1>1, <1>2 DEF Payloads

\* The client's record is a sequence of chunks.
LEMMA SentTyped ==
    ASSUME TypeOK, [Next]_vars
    PROVE  sent' \in Seq(Chunks)
  <1>1. <<>> \in Seq(Chunks) /\ sent \in Seq(Chunks)
    BY DEF TypeOK
  <1>2. CASE sent' \in {<<>>, sent}
    BY <1>1, <1>2
  <1>3. CASE \E d \in Payloads : Sends(d)
    BY <1>1, <1>3, AppendType DEF Sends
  <1>4. CASE HostCommand
    BY <1>2, <1>3, <1>4
       DEF HostCommand, GetVersion, Malformed, SignInit, handleGetAddr, SignAdd, SignLast
  <1>5. CASE UserAnswer
    BY <1>2, <1>5 DEF UserAnswer, ApproveTxn, app_reply_address, app_reject,
                      app_reply_error, Answering
  <1> QED
    BY <1>2, <1>4, <1>5 DEF Next, ToggleExpert, Launch, vars

LEMMA OnlyReplyTyped ==
    ASSUME TypedInv, sent' \in Seq(Chunks), NEW sw \in StatusWords, OnlyReply(sw)
    PROVE  TypedInv'
  <1>1. /\ app' \in {"running", "exited", "panicked"}
        /\ result' \in {"unset", "success", "failure"}
        /\ resets' \in Nat
        /\ view' = view \/ view' = NoView
        /\ reply' \in [sw : StatusWords, body : Bodies]
        /\ g_tx_state' = IDLE \/ g_tx_state' = g_tx_state
        /\ g_tx_state' \in TxStates
    <2>1. TypeOK /\ Scratch \in Bodies /\ g_tx_state \in TxStates
      BY DEF TypedInv, TypeOK, Bodies
    <2>2. Throw(sw, Scratch, g_tx_state)
      BY DEF OnlyReply
    <2> QED
      BY <2>1, <2>2, ThrowEffect
  <1>2. UNCHANGED <<hdPath, bech32_hrp, encoding, buffer, called_from_swap,
                    should_exit, expert, signatures>> /\ io' = Scratch
    BY DEF OnlyReply, txVars, swapVars
  <1>3. TypeOK'
    BY <1>1, <1>2 DEF TypedInv, TypeOK, Bodies
  <1>4. SessionArgsChecked'
    BY <1>1, <1>2 DEF TypedInv, SessionArgsChecked
  <1>5. ReviewHasPath'
    BY <1>1, <1>2 DEF TypedInv, ReviewHasPath, NoView
  <1> QED
    BY <1>3, <1>4, <1>5 DEF TypedInv

\* A path the checks accept is a good one.
LEMMA PathStatusOk ==
    ASSUME NEW p \in PathArgs, PathStatus(p) = "ok"
    PROVE  p \in Paths \ BadPaths
  BY DEF PathStatus, PathArgs

LEMMA StoredPathType ==
    ASSUME TypeOK, NEW p \in PathArgs
    PROVE  /\ StoredPath(p) \in Paths \cup {NoPath}
           /\ hdPath \in Paths => StoredPath(p) \in Paths
  BY DEF TypeOK, StoredPath, PathArgs

LEMMA StoredHrpType ==
    ASSUME TypeOK, NEW h \in HrpArgs
    PROVE  StoredHrp(h) \in Hrps \cup {NoHrp}
  BY HrpsAssumption DEF TypeOK, StoredHrp, HrpArgs

\* The status words of the argument checks.
LEMMA ArgStatuses ==
    ASSUME NEW p \in PathArgs, NEW h \in HrpArgs
    PROVE  /\ PathStatus(p) \in StatusWords /\ PathStatus(p) # "not_allowed"
           /\ InitStatuses(p, h) \subseteq StatusWords \ {"not_allowed"}
           /\ BadHrpCodes \subseteq StatusWords
  BY DEF PathStatus, InitStatuses, ConfigStatus, BadHrpCodes, StatusWords, ErrorCodes

LEMMA SignInitTyped ==
    ASSUME TypedInv, sent' \in Seq(Chunks), NEW p \in PathArgs, NEW h \in HrpArgs, SignInit(p, h)
    PROVE  TypedInv'
  <1>1. CASE Refuse
    BY <1>1, OnlyReplyTyped DEF Refuse, StatusWords
  <1>2. CASE ~Refuse
    <2> DEFINE accepted == PathStatus(p) = "ok"
    <2>1. /\ buffer' = <<>> /\ hdPath' = StoredPath(p) /\ io' = Scratch
          /\ UNCHANGED <<called_from_swap, should_exit, expert, signatures>>
      BY <1>2 DEF SignInit, swapVars
    <2>2. PICK sw \in StatusWords \ {"not_allowed"}, st \in TxStates :
            /\ Throw(sw, Scratch, st)
            /\ sw = "ok" => accepted /\ sw \in InitStatuses(p, h)
      <3>1. CASE accepted
        BY <1>2, <3>1, ArgStatuses DEF SignInit, TxStates
      <3>2. CASE ~accepted
        BY <1>2, <3>2, ArgStatuses DEF SignInit, TxStates
      <3> QED
        BY <3>1, <3>2
    <2>3. /\ bech32_hrp' \in Hrps \cup {NoHrp}
          /\ encoding' \in Encodings
          /\ accepted => encoding' = IF h \in Hrps THEN checkChainConfig(p, h) ELSE "cosmos"
      BY <1>2, StoredHrpType, ConfigType DEF SignInit, TypedInv, TypeOK, Encodings
    <2>4. /\ app' \in {"running", "exited", "panicked"}
          /\ result' \in {"unset", "success", "failure"}
          /\ resets' \in Nat
          /\ view' = view \/ view' = NoView
          /\ reply' \in [sw : StatusWords, body : Bodies]
          /\ g_tx_state' = IDLE \/ sw = "ok"
          /\ g_tx_state' \in TxStates
      <3>1. TypeOK /\ Scratch \in Bodies
        BY DEF TypedInv, Bodies
      <3> QED
        BY <2>2, <3>1, ThrowEffect
    <2>5. hdPath' \in Paths \cup {NoPath} /\ (hdPath \in Paths => hdPath' \in Paths)
      BY <2>1, StoredPathType DEF TypedInv
    <2>6. TypeOK'
      BY <2>1, <2>3, <2>4, <2>5 DEF TypedInv, TypeOK, Bodies
    <2>7. SessionArgsChecked'
      <3>1. SUFFICES ASSUME sw = "ok"
                     PROVE  /\ hdPath' \in Paths \ BadPaths
                            /\ encoding' = IF hdPath' \in EthPaths THEN "eth" ELSE "cosmos"
        BY <2>4 DEF SessionArgsChecked
      <3>2. accepted /\ sw \in InitStatuses(p, h)
        BY <2>2, <3>1
      <3>3. p \in Paths \ BadPaths /\ hdPath' = p
        BY <2>1, <3>2, PathStatusOk, PathsAssumption DEF StoredPath
      <3>4. encoding' = IF h \in Hrps THEN checkChainConfig(p, h) ELSE "cosmos"
        BY <2>3, <3>2
      <3>5. CASE h \in Hrps
        <4>1. ConfigStatus(p, h) = "ok"
          BY <3>1, <3>2, <3>5, HrpsAssumption DEF InitStatuses
        <4> QED
          BY <3>3, <3>4, <3>5, <4>1, ConfigType DEF ConfigStatus
      <3>6. CASE h = NoHrp
        BY <3>1, <3>2, <3>3, <3>4, <3>6, HrpsAssumption DEF InitStatuses
      <3>7. CASE h = BadHrp
        BY <3>1, <3>2, <3>7, HrpsAssumption DEF InitStatuses, BadHrpCodes
      <3> QED
        BY <3>5, <3>6, <3>7 DEF HrpArgs
    <2>8. ReviewHasPath'
      BY <2>4, <2>5 DEF TypedInv, ReviewHasPath, NoView
    <2> QED
      BY <2>6, <2>7, <2>8 DEF TypedInv
  <1> QED
    BY <1>1, <1>2

LEMMA AddressArgsRefusedTyped ==
    ASSUME TypedInv, sent' \in Seq(Chunks), NEW p \in PathArgs, NEW h \in HrpArgs, AddressArgsRefused(p, h)
    PROVE  TypedInv'
  <1>1. /\ UNCHANGED <<buffer, called_from_swap, should_exit, expert, signatures>>
        /\ io' = Scratch /\ bech32_hrp' = StoredHrp(h)
    BY DEF AddressArgsRefused, swapVars
  <1>2. PICK sw \in StatusWords : Throw(sw, Scratch, IDLE)
    <2>1. CASE h \in {NoHrp, BadHrp}
      <3>1. PICK sw \in IF h = NoHrp THEN {"data_invalid"} ELSE BadHrpCodes :
              Throw(sw, Scratch, IDLE)
        BY <2>1 DEF AddressArgsRefused
      <3> QED
        BY <3>1, ArgStatuses DEF StatusWords, ErrorCodes
    <2>2. CASE h \notin {NoHrp, BadHrp}
      BY <2>2, ArgStatuses DEF AddressArgsRefused, StatusWords, ErrorCodes
    <2> QED
      BY <2>1, <2>2
  <1>3. hdPath' = hdPath \/ hdPath' = StoredPath(p)
    BY DEF AddressArgsRefused
  <1>4. encoding' \in Encodings
    BY ConfigType DEF AddressArgsRefused, TypedInv, TypeOK
  <1>5. /\ app' \in {"running", "exited", "panicked"}
        /\ result' \in {"unset", "success", "failure"}
        /\ resets' \in Nat
        /\ view' = view \/ view' = NoView
        /\ reply' \in [sw : StatusWords, body : Bodies]
        /\ g_tx_state' = IDLE
    <2>1. TypeOK /\ Scratch \in Bodies /\ IDLE \in TxStates
      BY DEF TypedInv, Bodies, TxStates
    <2> QED
      BY <1>2, <2>1, ThrowEffect
  <1>6. /\ hdPath' \in Paths \cup {NoPath} /\ (hdPath \in Paths => hdPath' \in Paths)
        /\ bech32_hrp' \in Hrps \cup {NoHrp}
    BY <1>1, <1>3, StoredPathType, StoredHrpType DEF TypedInv, TypeOK
  <1>7. TypeOK'
    BY <1>1, <1>4, <1>5, <1>6 DEF TypedInv, TypeOK, Bodies, TxStates
  <1>8. SessionArgsChecked' /\ ReviewHasPath'
    BY <1>5, <1>6 DEF TypedInv, SessionArgsChecked, ReviewHasPath, NoView
  <1> QED
    BY <1>7, <1>8 DEF TypedInv

LEMMA AddressDerivedTyped ==
    ASSUME TypedInv, sent' \in Seq(Chunks), NEW p \in PathArgs, NEW h \in HrpArgs, NEW confirm \in BOOLEAN,
           AddressDerived(p, h, confirm)
    PROVE  TypedInv'
  <1> DEFINE address == Address(p, h, checkChainConfig(p, h))
  <1>1. /\ h \in Hrps /\ p \in Paths \ BadPaths
        /\ checkChainConfig(p, h) # "unsupported"
    BY PathStatusOk DEF AddressDerived, ConfigStatus
  <1>2. /\ hdPath' = p /\ bech32_hrp' = h /\ encoding' = checkChainConfig(p, h)
        /\ UNCHANGED <<buffer, called_from_swap, should_exit, expert, signatures>>
        /\ io' \in {Scratch, address}
    BY DEF AddressDerived, swapVars
  <1>3. address \in Addresses
    BY <1>1, AddressType, ConfigType
  <1>4. TypeOK
    BY DEF TypedInv
  <1>5. /\ app' \in {"running", "exited", "panicked"}
        /\ result' \in {"unset", "success", "failure"}
        /\ resets' \in Nat
        /\ view' \in {view, address, NoView}
        /\ reply' \in [sw : StatusWords, body : Bodies]
        /\ g_tx_state' \in TxStates
    <2>1. CASE \E sw \in {"ok", "execution_error"} :
                 \/ Throw(sw, Scratch, IDLE)
                 \/ Throw(sw, address, IDLE)
      BY <1>3, <1>4, <2>1, ThrowEffect
         DEF Bodies, TxStates, StatusWords, ErrorCodes
    <2>2. CASE g_tx_state' = REVIEWING /\ UNCHANGED reply /\ Finally(NoStatus, address)
      BY <1>4, <2>2, FinallyEffect DEF TypeOK, TxStates, Bodies
    <2>3. CASE ResetInHandler
      BY <1>4, <2>3, BoundsAssumption DEF TypeOK, TxStates, Bodies, ResetInHandler, IoReset
    <2> QED
      BY <2>1, <2>2, <2>3 DEF AddressDerived
  <1>6. TypeOK'
    BY <1>1, <1>2, <1>3, <1>4, <1>5, ConfigType DEF TypeOK, Bodies
  <1>7. SessionArgsChecked'
    BY <1>1, <1>2, ConfigType DEF SessionArgsChecked
  <1>8. ReviewHasPath'
    BY <1>1, <1>2 DEF ReviewHasPath
  <1> QED
    BY <1>6, <1>7, <1>8 DEF TypedInv

LEMMA GetAddrTyped ==
    ASSUME TypedInv, sent' \in Seq(Chunks), NEW p \in PathArgs, NEW h \in HrpArgs, NEW confirm \in BOOLEAN,
           handleGetAddr(p, h, confirm)
    PROVE  TypedInv'
  <1>1. CASE Refuse
    BY <1>1, OnlyReplyTyped DEF Refuse, StatusWords
  <1>2. CASE AddressArgsRefused(p, h)
    BY <1>2, AddressArgsRefusedTyped
  <1>3. CASE AddressDerived(p, h, confirm)
    BY <1>3, AddressDerivedTyped
  <1> QED
    BY <1>1, <1>2, <1>3 DEF handleGetAddr

LEMMA SignAddTyped ==
    ASSUME TypedInv, sent' \in Seq(Chunks), NEW d \in Payloads, SignAdd(d)
    PROVE  TypedInv'
  <1>1. CASE Refuse
    BY <1>1, OnlyReplyTyped DEF Refuse, StatusWords
  <1>2. CASE ChunkOverflow
    BY <1>2, OnlyReplyTyped DEF ChunkOverflow, StatusWords, ErrorCodes
  <1>3. CASE ~Refuse /\ ~ChunkOverflow
    <2>1. /\ buffer' = buffer \o d
          /\ UNCHANGED <<hdPath, bech32_hrp, encoding, called_from_swap, should_exit,
                         expert, signatures>>
          /\ io' = Scratch
          /\ Throw("ok", Scratch, g_tx_state)
      BY <1>3 DEF SignAdd, swapVars
    <2>2. TypeOK /\ Scratch \in Bodies /\ g_tx_state \in TxStates /\ "ok" \in StatusWords
      BY DEF TypedInv, TypeOK, Bodies, StatusWords
    <2>3. /\ app' \in {"running", "exited", "panicked"}
          /\ result' \in {"unset", "success", "failure"}
          /\ resets' \in Nat
          /\ view' = view \/ view' = NoView
          /\ reply' \in [sw : StatusWords, body : Bodies]
          /\ g_tx_state' = IDLE \/ g_tx_state' = g_tx_state
          /\ g_tx_state' \in TxStates
      BY <2>1, <2>2, ThrowEffect
    <2>4. buffer' \in Seq(Chunks)
      BY <2>1, AppendType DEF TypedInv, TypeOK
    <2>5. TypeOK'
      BY <2>1, <2>2, <2>3, <2>4 DEF TypeOK, Bodies
    <2>6. SessionArgsChecked' /\ ReviewHasPath'
      BY <2>1, <2>3 DEF TypedInv, SessionArgsChecked, ReviewHasPath, NoView
    <2> QED
      BY <2>5, <2>6 DEF TypedInv
  <1> QED
    BY <1>1, <1>2, <1>3

\* app_sign gives out a signature under the present path and encoding.
LEMMA AppSignEffect ==
    ASSUME TypeOK, hdPath \in Paths, NEW STATE data, data \in Seq(Chunks), app_sign(data)
    PROVE  /\ g_tx_state' = IDLE /\ io' = Scratch
           /\ reply' \in [sw : StatusWords, body : Bodies]
           /\ signatures' \in Nat
  <1>1. crypto_sign(data) \in Signatures
    BY SignatureType DEF crypto_sign, TypeOK
  <1> QED
    BY <1>1 DEF app_sign, TypeOK, Bodies, StatusWords, ErrorCodes

\* The four outcomes of a complete document.
LEMMA SignLastTyped ==
    ASSUME TypedInv, sent' \in Seq(Chunks), NEW type \in TxTypes, NEW d \in Payloads, SignLast(type, d)
    PROVE  TypedInv'
  <1>1. CASE Refuse
    BY <1>1, OnlyReplyTyped DEF Refuse, StatusWords
  <1>2. CASE ChunkOverflow
    BY <1>2, OnlyReplyTyped DEF ChunkOverflow, StatusWords, ErrorCodes
  <1>3. CASE ~Refuse /\ ~ChunkOverflow
    <2>1. /\ g_tx_state = RECEIVING
          /\ buffer' = buffer \o d
          /\ UNCHANGED <<hdPath, bech32_hrp, encoding, called_from_swap, expert>>
          /\ \/ ShowExpertRequired \/ RejectDocument(type) \/ ShowReview(type)
             \/ CheckSwap(type) \/ Failsafe(type)
      BY <1>3 DEF SignLast
    <2>2. /\ TypeOK /\ buffer' \in Seq(Chunks)
          /\ hdPath \in Paths /\ SessionArgsChecked'
      BY <2>1, AppendType
         DEF TypedInv, TypeOK, SessionArgsChecked, RECEIVING, IDLE
    <2> SUFFICES
          /\ app' \in {"running", "exited", "panicked"}
          /\ g_tx_state' \in TxStates
          /\ io' \in Addresses \cup {Scratch}
          /\ view' \in Reviews \cup Addresses \cup {NoView, ErrorScreen}
          /\ should_exit' \in BOOLEAN
          /\ result' \in {"unset", "success", "failure"}
          /\ reply' \in [sw : StatusWords, body : Bodies]
          /\ signatures' \in Nat /\ resets' \in Nat
      <3>1. TypeOK'
        BY <2>1, <2>2 DEF TypeOK, Bodies
      <3> QED
        BY <2>1, <2>2, <3>1 DEF TypedInv, ReviewHasPath
    <2>3. CASE ShowExpertRequired
      <3>1. /\ g_tx_state' = IDLE /\ io' = Scratch
            /\ UNCHANGED <<should_exit, signatures>>
            /\ reply' \in {reply, [sw |-> "data_invalid", body |-> Scratch]}
            /\ Finally("data_invalid", ErrorScreen)
        BY <2>3 DEF ShowExpertRequired
      <3>2. /\ app' \in {"running", "exited", "panicked"}
            /\ result' \in {"unset", "success", "failure"}
            /\ resets' \in Nat /\ view' \in {ErrorScreen, NoView}
        BY <2>2, <3>1, FinallyEffect
      <3>3. reply' \in [sw : StatusWords, body : Bodies]
        BY <2>2, <3>1 DEF TypeOK, Bodies, StatusWords, ErrorCodes
      <3> QED
        BY <2>2, <3>1, <3>2, <3>3 DEF TypeOK, TxStates
    <2>4. CASE RejectDocument(type)
      <3>1. /\ io' = Scratch /\ UNCHANGED <<should_exit, signatures>>
            /\ \E sw \in {"execution_error", "data_invalid"} : Throw(sw, Scratch, g_tx_state)
        BY <2>4 DEF RejectDocument
      <3>2. /\ app' \in {"running", "exited", "panicked"}
            /\ result' \in {"unset", "success", "failure"}
            /\ resets' \in Nat /\ view' \in {view, NoView}
            /\ reply' \in [sw : StatusWords, body : Bodies]
            /\ g_tx_state' \in TxStates
        BY <2>2, <3>1, ThrowEffect DEF TypeOK, Bodies, StatusWords, ErrorCodes
      <3> QED
        BY <2>2, <3>1, <3>2 DEF TypeOK
    <2>5. CASE ShowReview(type)
      <3>1. Review(type, buffer', hdPath, encoding) \in Reviews
        BY <2>2 DEF TypeOK, Review, Reviews
      <3>2. io' \in Addresses /\ UNCHANGED <<should_exit, signatures, reply>>
        BY <2>2, <2>5, AddressType DEF ShowReview, TypeOK, ResetInHandler
      <3>3. CASE g_tx_state' = REVIEWING /\ Finally(NoStatus, Review(type, buffer', hdPath, encoding))
        <4> DEFINE review == Review(type, buffer \o d, hdPath, encoding)
        <4>1. Finally(NoStatus, review) /\ review \in Reviews
          BY <2>1, <3>1, <3>3
        <4>2. /\ app' \in {"running", "exited", "panicked"}
              /\ result' \in {"unset", "success", "failure"}
              /\ resets' \in Nat /\ view' \in {review, NoView}
          <5> HIDE DEF review
          <5> QED
            BY <2>2, <4>1, FinallyEffect
        <4> QED
          BY <2>2, <3>2, <3>3, <4>1, <4>2 DEF TypeOK, TxStates, Bodies
      <3>4. CASE ResetInHandler
        BY <2>2, <3>2, <3>4, BoundsAssumption
           DEF TypeOK, TxStates, Bodies, ResetInHandler, IoReset
      <3> QED
        BY <2>5, <3>3, <3>4 DEF ShowReview
    <2>6. CASE CheckSwap(type)
      <3>1. should_exit' = TRUE
        BY <2>6 DEF CheckSwap
      <3>2. CASE /\ io' = Scratch /\ Throw("data_invalid", Scratch, g_tx_state)
                 /\ UNCHANGED signatures
        <4>1. /\ app' \in {"running", "exited", "panicked"}
              /\ result' \in {"unset", "success", "failure"}
              /\ resets' \in Nat /\ view' \in {view, NoView}
              /\ reply' \in [sw : StatusWords, body : Bodies]
              /\ g_tx_state' \in TxStates
          BY <2>2, <3>2, ThrowEffect DEF TypeOK, Bodies, StatusWords, ErrorCodes
        <4> QED
          BY <2>2, <3>1, <3>2, <4>1 DEF TypeOK
      <3>3. CASE app_sign(buffer') \/ (g_tx_state' = IDLE /\ io' = Scratch /\ UNCHANGED <<reply, signatures>>)
        <4>1. /\ g_tx_state' = IDLE /\ io' = Scratch /\ signatures' \in Nat
              /\ reply' \in [sw : StatusWords, body : Bodies]
          <5>1. CASE app_sign(buffer')
            <6>1. app_sign(buffer \o d) /\ buffer \o d \in Seq(Chunks)
              BY <2>1, <2>2, <5>1
            <6> QED
              BY <2>2, <6>1, AppSignEffect
          <5>2. CASE g_tx_state' = IDLE /\ io' = Scratch /\ UNCHANGED <<reply, signatures>>
            BY <2>2, <5>2 DEF TypeOK, Bodies
          <5> QED
            BY <3>3, <5>1, <5>2
        <4>2. CASE app' = "exited" /\ result' = "success" /\ UNCHANGED <<view, resets>>
          BY <2>2, <3>1, <4>1, <4>2 DEF TypeOK, TxStates
        <4>3. CASE IoReset /\ view' = NoView /\ UNCHANGED <<app, result>>
          BY <2>2, <3>1, <4>1, <4>3 DEF TypeOK, TxStates, IoReset
        <4>4. CASE Throw("data_invalid", Scratch, g_tx_state) /\ UNCHANGED signatures
          BY <3>2, <4>1, <4>4
        <4> QED
          BY <2>6, <4>1, <4>2, <4>3, <4>4 DEF CheckSwap
      <3> QED
        BY <2>6, <3>2, <3>3 DEF CheckSwap
    <2>7. CASE Failsafe(type)
      BY <2>2, <2>7 DEF Failsafe, TypeOK, Bodies
    <2> QED
      BY <2>1, <2>3, <2>4, <2>5, <2>6, <2>7
  <1> QED
    BY <1>1, <1>2, <1>3

LEMMA AnswerTyped ==
    ASSUME TypedInv, sent' \in Seq(Chunks), UserAnswer
    PROVE  TypedInv'
  <1>1. /\ view' = NoView /\ view.kind \in {"txn", "address", "error"}
        /\ UNCHANGED <<hdPath, bech32_hrp, encoding, buffer, called_from_swap,
                       should_exit, expert, app, result, resets>>
    BY DEF UserAnswer, ApproveTxn, app_reply_address, app_reject, app_reply_error,
           Answering, txVars, swapVars, processVars
  <1>2. TypeOK
    BY DEF TypedInv
  <1>3. /\ g_tx_state' = IDLE /\ io' \in {io, Scratch}
        /\ reply' \in [sw : StatusWords, body : Bodies] /\ signatures' \in Nat
    <2>1. CASE ApproveTxn
      <3>1. /\ app_sign(buffer) /\ buffer \in Seq(Chunks) /\ hdPath \in Paths
        BY <2>1 DEF ApproveTxn, Answering, TypedInv, TypeOK, ReviewHasPath
      <3> QED
        BY <1>2, <3>1, AppSignEffect
    <2>2. CASE app_reply_address
      BY <1>2, <2>2 DEF app_reply_address, TypeOK, Bodies, StatusWords
    <2>3. CASE app_reject
      BY <1>2, <2>3 DEF app_reject, TypeOK, Bodies, StatusWords
    <2>4. CASE app_reply_error
      BY <1>2, <2>4 DEF app_reply_error, TypeOK, Bodies, StatusWords, ErrorCodes
    <2> QED
      BY <2>1, <2>2, <2>3, <2>4 DEF UserAnswer
  <1>4. TypeOK'
    BY <1>1, <1>2, <1>3 DEF TypeOK, TxStates, Bodies
  <1>5. SessionArgsChecked' /\ ReviewHasPath'
    BY <1>1, <1>3 DEF SessionArgsChecked, ReviewHasPath, NoView
  <1> QED
    BY <1>4, <1>5 DEF TypedInv

LEMMA FreshReply ==
    /\ [sw |-> "ok", body |-> Scratch] \in [sw : StatusWords, body : Bodies]
    /\ NoView.kind = "idle_menu" /\ <<>> \in Seq(Chunks)
  BY DEF StatusWords, Bodies, NoView

LEMMA InitTyped ==
    ASSUME Init
    PROVE  TypedInv
  <1>1. TypeOK
    BY FreshReply DEF Init, TypeOK, Bodies, TxStates, Encodings
  <1>2. SessionArgsChecked /\ ReviewHasPath
    BY FreshReply DEF Init, SessionArgsChecked, ReviewHasPath
  <1> QED
    BY <1>1, <1>2 DEF TypedInv

LEMMA LaunchTyped ==
    ASSUME TypedInv, Launch
    PROVE  TypedInv'
  <1>1. TypeOK'
    BY FreshReply DEF Launch, TypedInv, TypeOK, Bodies, TxStates, Encodings
  <1>2. SessionArgsChecked' /\ ReviewHasPath'
    BY FreshReply DEF Launch, SessionArgsChecked, ReviewHasPath
  <1> QED
    BY <1>1, <1>2 DEF TypedInv

LEMMA NextTyped ==
    ASSUME TypedInv, [Next]_vars
    PROVE  TypedInv'
  <1>0. sent' \in Seq(Chunks)
    BY SentTyped DEF TypedInv
  <1>1. CASE GetVersion \/ \E sw \in MalformedCodes : Malformed(sw)
    BY <1>0, <1>1, OnlyReplyTyped
       DEF GetVersion, Malformed, MalformedCodes, StatusWords, ErrorCodes
  <1>2. CASE \E p \in PathArgs, h \in HrpArgs : SignInit(p, h)
    BY <1>0, <1>2, SignInitTyped
  <1>3. CASE \E p \in PathArgs, h \in HrpArgs, confirm \in BOOLEAN : handleGetAddr(p, h, confirm)
    BY <1>0, <1>3, GetAddrTyped
  <1>4. CASE \E d \in Payloads : SignAdd(d)
    BY <1>0, <1>4, SignAddTyped
  <1>5. CASE \E d \in Payloads, type \in TxTypes : SignLast(type, d)
    BY <1>0, <1>5, SignLastTyped
  <1>6. CASE UserAnswer
    BY <1>0, <1>6, AnswerTyped
  <1>7. CASE ToggleExpert
    BY <1>7 DEF ToggleExpert, TypedInv, TypeOK, SessionArgsChecked, ReviewHasPath, txVars, swapVars
  <1>8. CASE Launch
    BY <1>8, LaunchTyped
  <1>9. CASE UNCHANGED vars
    BY <1>9 DEF vars, txVars, swapVars, TypedInv, TypeOK, SessionArgsChecked, ReviewHasPath
  <1> QED
    BY <1>1, <1>2, <1>3, <1>4, <1>5, <1>6, <1>7, <1>8, <1>9 DEF Next, HostCommand

\* The globals of the session have their types, and outside IDLE the path and
\* the encoding are checked, whether or not commands may arrive during a review.
THEOREM SessionTyped == Spec => []TypedInv
  <1>1. Init => TypedInv
    BY InitTyped
  <1>2. TypedInv /\ [Next]_vars => TypedInv'
    BY NextTyped
  <1> QED
    BY <1>1, <1>2, PTL DEF Spec

\* Every global, the view and the reply keep their types (apdu_handler.c,
\* actions.h, tx.c).
THEOREM TypeCorrect == Spec => []TypeOK
  BY SessionTyped, PTL DEF TypedInv

\* Only a path that passed extractHDPath, under the encoding of its coin type,
\* is ever in force while a document is received or reviewed.
THEOREM ArgsChecked == Spec => []SessionArgsChecked
  BY SessionTyped, PTL DEF TypedInv

----------------------------------------------------------------------------
(* The swap lifecycle and the review                                       *)

\* A swap session signs only when it first checks a document, and from then on
\* it never shows a review while it runs.
SwapInv ==
    /\ signatures <= 1
    /\ ~should_exit => signatures = 0
    /\ should_exit => called_from_swap
    /\ view.kind = "txn" => ~called_from_swap
    /\ app = "running" /\ should_exit => g_tx_state # REVIEWING

ReviewInv == TypedInv /\ SwapInv /\ ReviewingCoherent

\* How a handler's ending changes the process and the screen.
LEMMA FinallyControl ==
    ASSUME NEW sw, NEW STATE nextView, Finally(sw, nextView)
    PROVE  /\ app' \in {app, "exited"}
           /\ view' = nextView \/ (view' = NoView /\ MustExit(sw))
           /\ MustExit(sw) /\ sw = NoStatus => app' = "exited" /\ view' = nextView
  BY DEF Finally, processVars

LEMMA ThrowControl ==
    ASSUME NEW sw, NEW STATE body, NEW STATE st, Throw(sw, body, st)
    PROVE  /\ app' \in {app, "exited"}
           /\ view' = view \/ (view' = NoView /\ called_from_swap /\ should_exit')
           /\ g_tx_state' = IDLE \/ (g_tx_state' = st /\ sw \in {"ok", "not_allowed"})
  <1>1. Finally(sw, view) /\ g_tx_state' = AfterThrow(sw, st)
    BY DEF Throw
  <1> QED
    BY <1>1, FinallyControl DEF AfterThrow, MustExit

\* A step that keeps the swap flags and ends in no review keeps ReviewInv.
LEMMA NoReviewStep ==
    ASSUME ReviewInv, g_tx_state' \in {IDLE, RECEIVING}, view' = view \/ view'.kind # "txn",
           UNCHANGED <<called_from_swap, should_exit, signatures>>
    PROVE  SwapInv' /\ ReviewingCoherent'
  BY DEF ReviewInv, SwapInv, ReviewingCoherent, IDLE, RECEIVING, REVIEWING

LEMMA KindOfScreens ==
    /\ NoView.kind = "idle_menu" /\ ErrorScreen.kind = "error" /\ NoView # ErrorScreen
    /\ \A p, h, e : Address(p, h, e).kind = "address"
    /\ \A t, d, p, e : /\ Review(t, d, p, e).kind = "txn"
                       /\ Review(t, d, p, e).type = t /\ Review(t, d, p, e).data = d
                       /\ Review(t, d, p, e).path = p /\ Review(t, d, p, e).enc = e
  BY DEF NoView, ErrorScreen, Address, Review

LEMMA OnlyReplyReview ==
    ASSUME ReviewInv, app = "running", NEW sw \in StatusWords, OnlyReply(sw)
    PROVE  SwapInv' /\ ReviewingCoherent'
  <1>1. UNCHANGED <<hdPath, bech32_hrp, encoding, buffer, called_from_swap, should_exit,
                    signatures>> /\ Throw(sw, Scratch, g_tx_state)
    BY DEF OnlyReply, txVars, swapVars
  <1>2. /\ app' \in {app, "exited"}
        /\ view' = view \/ (view' = NoView /\ called_from_swap /\ should_exit')
        /\ g_tx_state' \in {IDLE, g_tx_state}
    BY <1>1, ThrowControl
  <1>3. CASE g_tx_state' \in {IDLE, RECEIVING}
    BY <1>1, <1>2, <1>3, NoReviewStep, KindOfScreens
  <1>4. CASE g_tx_state' = REVIEWING /\ g_tx_state = REVIEWING
    <2>1. view' = view /\ ~should_exit
      BY <1>1, <1>2, <1>4 DEF ReviewInv, SwapInv
    <2> QED
      BY <1>1, <1>2, <1>4, <2>1 DEF ReviewInv, SwapInv, ReviewingCoherent, ShowsGlobals
  <1> QED
    BY <1>2, <1>3, <1>4 DEF ReviewInv, TypedInv, TypeOK, TxStates, IDLE, REVIEWING, RECEIVING

LEMMA SignInitReview ==
    ASSUME ReviewInv, NEW p \in PathArgs, NEW h \in HrpArgs, SignInit(p, h)
    PROVE  SwapInv' /\ ReviewingCoherent'
  <1>1. CASE Refuse
    BY <1>1, OnlyReplyReview DEF Refuse, StatusWords, SignInit, Deliverable
  <1>2. CASE ~Refuse
    <2>1. /\ UNCHANGED <<called_from_swap, should_exit, signatures>>
          /\ \E sw \in StatusWords, st \in {IDLE, RECEIVING} : Throw(sw, Scratch, st)
      BY <1>2, ArgStatuses DEF SignInit, swapVars
    <2>2. /\ view' = view \/ view' = NoView
          /\ g_tx_state' \in {IDLE, RECEIVING}
      BY <2>1, ThrowControl
    <2> QED
      BY <2>1, <2>2, NoReviewStep, KindOfScreens
  <1> QED
    BY <1>1, <1>2

LEMMA GetAddrReview ==
    ASSUME ReviewInv, NEW p \in PathArgs, NEW h \in HrpArgs, NEW confirm \in BOOLEAN,
           handleGetAddr(p, h, confirm)
    PROVE  SwapInv' /\ ReviewingCoherent'
  <1>1. CASE Refuse
    BY <1>1, OnlyReplyReview DEF Refuse, StatusWords, handleGetAddr, Deliverable
  <1>2. CASE AddressArgsRefused(p, h)
    <2>1. /\ UNCHANGED <<called_from_swap, should_exit, signatures>>
          /\ \E sw \in StatusWords : Throw(sw, Scratch, IDLE)
      BY <1>2, ArgStatuses DEF AddressArgsRefused, swapVars, StatusWords, ErrorCodes
    <2>2. /\ view' = view \/ view' = NoView
          /\ g_tx_state' = IDLE
      BY <2>1, ThrowControl
    <2> QED
      BY <2>1, <2>2, NoReviewStep, KindOfScreens
  <1>3. CASE AddressDerived(p, h, confirm)
    <2> DEFINE address == Address(p, h, checkChainConfig(p, h))
    <2>1. /\ UNCHANGED <<called_from_swap, should_exit, signatures>>
          /\ hdPath' = p /\ bech32_hrp' = h /\ encoding' = checkChainConfig(p, h)
      BY <1>3 DEF AddressDerived, swapVars
    <2>2. CASE \E sw \in {"ok", "execution_error"} :
                 Throw(sw, Scratch, IDLE) \/ Throw(sw, address, IDLE)
      <3>1. (view' = view \/ view' = NoView) /\ g_tx_state' = IDLE
        BY <2>2, ThrowControl
      <3> QED
        BY <2>1, <3>1, NoReviewStep, KindOfScreens
    <2>3. CASE g_tx_state' = REVIEWING /\ Finally(NoStatus, address)
      <3>1. /\ app' = "exited" \/ ~(called_from_swap /\ should_exit)
            /\ view' = address
        BY <2>1, <2>3, FinallyControl DEF MustExit
      <3>2. view'.kind = "address"
        BY <3>1, KindOfScreens
      <3>3. ReviewingCoherent'
        BY <2>1, <3>1, <3>2 DEF ReviewingCoherent, ShowsGlobals
      <3>4. SwapInv'
        BY <2>1, <3>1, <3>2 DEF ReviewInv, SwapInv
      <3> QED
        BY <3>3, <3>4
    <2>4. CASE ResetInHandler
      BY <2>1, <2>4, NoReviewStep, KindOfScreens DEF ResetInHandler
    <2> QED
      BY <1>3, <2>2, <2>3, <2>4 DEF AddressDerived
  <1> QED
    BY <1>1, <1>2, <1>3 DEF handleGetAddr

LEMMA SignAddReview ==
    ASSUME ReviewInv, NEW d \in Payloads, SignAdd(d)
    PROVE  SwapInv' /\ ReviewingCoherent'
  <1>1. CASE Refuse \/ ChunkOverflow
    BY <1>1, OnlyReplyReview
       DEF Refuse, ChunkOverflow, StatusWords, ErrorCodes, SignAdd, Deliverable
  <1>2. CASE ~Refuse /\ ~ChunkOverflow
    <2>1. /\ UNCHANGED <<called_from_swap, should_exit, signatures>>
          /\ g_tx_state = RECEIVING /\ Throw("ok", Scratch, g_tx_state)
      BY <1>2 DEF SignAdd, swapVars
    <2>2. (view' = view \/ view' = NoView) /\ g_tx_state' \in {IDLE, RECEIVING}
      BY <2>1, ThrowControl
    <2> QED
      BY <2>1, <2>2, NoReviewStep, KindOfScreens
  <1> QED
    BY <1>1, <1>2

LEMMA SignLastReview ==
    ASSUME ReviewInv, NEW type \in TxTypes, NEW d \in Payloads, SignLast(type, d)
    PROVE  SwapInv' /\ ReviewingCoherent'
  <1>1. CASE Refuse \/ ChunkOverflow
    BY <1>1, OnlyReplyReview
       DEF Refuse, ChunkOverflow, StatusWords, ErrorCodes, SignLast, Deliverable
  <1>2. CASE ~Refuse /\ ~ChunkOverflow
    <2>1. /\ g_tx_state = RECEIVING
          /\ UNCHANGED <<hdPath, bech32_hrp, encoding, called_from_swap>>
          /\ \/ ShowExpertRequired \/ RejectDocument(type) \/ ShowReview(type)
             \/ CheckSwap(type) \/ Failsafe(type)
      BY <1>2 DEF SignLast
    <2>2. CASE ShowExpertRequired
      <3>1. /\ UNCHANGED <<should_exit, signatures>> /\ g_tx_state' = IDLE
            /\ Finally("data_invalid", ErrorScreen)
        BY <2>2 DEF ShowExpertRequired
      <3>2. view' = ErrorScreen \/ view' = NoView
        BY <3>1, FinallyControl
      <3> QED
        BY <2>1, <3>1, <3>2, NoReviewStep, KindOfScreens
    <2>3. CASE RejectDocument(type)
      <3>1. /\ UNCHANGED <<should_exit, signatures>>
            /\ \E sw \in StatusWords : Throw(sw, Scratch, g_tx_state)
        BY <2>3 DEF RejectDocument, StatusWords, ErrorCodes
      <3>2. (view' = view \/ view' = NoView) /\ g_tx_state' \in {IDLE, RECEIVING}
        BY <2>1, <3>1, ThrowControl
      <3> QED
        BY <2>1, <3>1, <3>2, NoReviewStep, KindOfScreens
    <2>4. CASE ShowReview(type)
      <3>1. ~called_from_swap /\ UNCHANGED <<should_exit, signatures>>
            /\ Parses(type, buffer')
        BY <2>4 DEF ShowReview
      <3>2. CASE /\ g_tx_state' = REVIEWING
                 /\ Finally(NoStatus, Review(type, buffer', hdPath, encoding))
        <4>1. view' = Review(type, buffer', hdPath, encoding)
          BY <2>1, <3>1, <3>2 DEF Finally, MustExit
        <4>2. /\ view'.kind = "txn" /\ view'.type = type /\ view'.data = buffer'
              /\ view'.path = hdPath /\ view'.enc = encoding
          BY <4>1, KindOfScreens
        <4>3. SwapInv'
          BY <2>1, <3>1, <4>2 DEF ReviewInv, SwapInv
        <4>4. ReviewingCoherent'
          BY <2>1, <3>1, <4>2 DEF ReviewingCoherent, ShowsGlobals, Parses
        <4> QED
          BY <4>3, <4>4
      <3>3. CASE ResetInHandler
        BY <2>1, <3>1, <3>3, NoReviewStep, KindOfScreens DEF ResetInHandler
      <3> QED
        BY <2>4, <3>2, <3>3 DEF ShowReview
    <2>5. CASE CheckSwap(type)
      <3>1. called_from_swap /\ should_exit' = TRUE /\ signatures = 0
        BY <2>5 DEF CheckSwap, SwapTxAllowed, ReviewInv, SwapInv
      <3>2. view' \in {view, NoView}
        BY <2>5, ThrowControl DEF CheckSwap
      <3>3. signatures' \in {0, 1}
        BY <2>5, <3>1 DEF CheckSwap, app_sign
      <3>4. g_tx_state' = IDLE
        BY <2>5, ThrowControl DEF CheckSwap, app_sign
      <3>5. SwapInv'
        BY <2>1, <3>1, <3>2, <3>3, <3>4, KindOfScreens DEF ReviewInv, SwapInv, IDLE, REVIEWING
      <3> QED
        BY <3>4, <3>5 DEF ReviewingCoherent, IDLE, REVIEWING
    <2>6. CASE Failsafe(type)
      BY <2>1, <2>6, NoReviewStep DEF Failsafe
    <2> QED
      BY <2>1, <2>2, <2>3, <2>4, <2>5, <2>6
  <1> QED
    BY <1>1, <1>2

LEMMA AnswerReview ==
    ASSUME ReviewInv, UserAnswer
    PROVE  SwapInv' /\ ReviewingCoherent'
  <1>1. /\ view' = NoView /\ g_tx_state' = IDLE
        /\ UNCHANGED <<called_from_swap, should_exit>>
    BY DEF UserAnswer, ApproveTxn, app_sign, app_reply_address, app_reject,
           app_reply_error, Answering, swapVars
  <1>2. UNCHANGED signatures
    <2>1. CASE ApproveTxn
      <3>1. ~called_from_swap
        BY <2>1 DEF ApproveTxn, Answering, ReviewInv, SwapInv
      <3> QED
        BY <2>1, <3>1 DEF ApproveTxn, app_sign
    <2> QED
      BY <2>1 DEF UserAnswer, app_reply_address, app_reject, app_reply_error
  <1> QED
    BY <1>1, <1>2, NoReviewStep, KindOfScreens

LEMMA NextReview ==
    ASSUME ReviewInv, [Next]_vars
    PROVE  ReviewInv'
  <1>1. SwapInv' /\ ReviewingCoherent'
    <2>1. CASE GetVersion \/ \E sw \in MalformedCodes : Malformed(sw)
      BY <2>1, OnlyReplyReview
         DEF GetVersion, Malformed, MalformedCodes, StatusWords, ErrorCodes, Deliverable
    <2>2. CASE \E p \in PathArgs, h \in HrpArgs : SignInit(p, h)
      BY <2>2, SignInitReview
    <2>3. CASE \E p \in PathArgs, h \in HrpArgs, confirm \in BOOLEAN : handleGetAddr(p, h, confirm)
      BY <2>3, GetAddrReview
    <2>4. CASE \E d \in Payloads : SignAdd(d)
      BY <2>4, SignAddReview
    <2>5. CASE \E d \in Payloads, type \in TxTypes : SignLast(type, d)
      BY <2>5, SignLastReview
    <2>6. CASE UserAnswer
      BY <2>6, AnswerReview
    <2>7. CASE ToggleExpert \/ UNCHANGED vars
      <3>1. UNCHANGED <<app, g_tx_state, hdPath, bech32_hrp, encoding, buffer, view,
                        called_from_swap, should_exit, signatures>>
        BY <2>7 DEF ToggleExpert, vars, txVars, swapVars
      <3> QED
        BY <3>1 DEF ReviewInv, SwapInv, ReviewingCoherent, ShowsGlobals
    <2>8. CASE Launch
      BY <2>8, KindOfScreens DEF Launch, SwapInv, ReviewingCoherent, IDLE, REVIEWING
    <2> QED
      BY <2>1, <2>2, <2>3, <2>4, <2>5, <2>6, <2>7, <2>8 DEF Next, HostCommand
  <1> QED
    BY <1>1, NextTyped DEF ReviewInv

LEMMA ReviewInitially == Init => ReviewInv
  <1>1. Init => SwapInv /\ ReviewingCoherent
    BY KindOfScreens DEF Init, SwapInv, ReviewingCoherent, IDLE, REVIEWING
  <1> QED
    BY <1>1, InitTyped DEF ReviewInv

\* The inductive invariant behind the two theorems that follow: a launch has
\* signed nothing before it checked its document, and only a session that is no
\* swap has documents reviewed (handleSign).
THEOREM ReviewInvariant == Spec => []ReviewInv
  <1>1. Init => ReviewInv
    BY ReviewInitially
  <1>2. ReviewInv /\ [Next]_vars => ReviewInv'
    BY NextReview
  <1> QED
    BY <1>1, <1>2, PTL DEF Spec

\* While the session is REVIEWING the screen asks about what would be signed or
\* returned now, whether or not the I/O layer delivers commands meanwhile.
THEOREM ReviewIsCoherent == Spec => []ReviewingCoherent
  BY ReviewInvariant, PTL DEF ReviewInv

\* One launch by Exchange gives out at most one signature, for any number of
\* I/O resets.
THEOREM SwapSignsAtMostOnce == Spec => []SwapSignsOnce
  <1>1. ReviewInv => SwapSignsOnce
    BY DEF ReviewInv, SwapInv, SwapSignsOnce
  <1> QED
    BY <1>1, ReviewInvariant, PTL
----------------------------------------------------------------------------
(* What a refused or failed command leaves                                 *)

\* A command answers, if at all, that it was refused, which changes nothing it
\* could be resumed from, or with another status word, idle unless it is "ok".
AnswerOrRefusal ==
    \/ reply' = reply
    \/ OnlyReply("not_allowed")
    \/ /\ reply'.sw \in ErrorCodes \cup {"ok"}
       /\ reply'.sw # "ok" => g_tx_state' = IDLE

LEMMA ThrowOutcome ==
    ASSUME NEW sw \in ErrorCodes \cup {"ok"}, NEW STATE body, NEW STATE st,
           Throw(sw, body, st)
    PROVE  AnswerOrRefusal
  <1>1. sw # "not_allowed"
    BY DEF ErrorCodes
  <1>2. reply'.sw = sw /\ g_tx_state' = AfterThrow(sw, st)
    BY DEF Throw
  <1> QED
    BY <1>1, <1>2 DEF AnswerOrRefusal, AfterThrow

LEMMA OnlyReplyOutcome ==
    ASSUME NEW sw \in StatusWords, OnlyReply(sw)
    PROVE  AnswerOrRefusal
  <1>1. CASE sw = "not_allowed"
    BY <1>1 DEF AnswerOrRefusal
  <1>2. CASE sw \in ErrorCodes \cup {"ok"}
    BY <1>2, ThrowOutcome DEF OnlyReply
  <1> QED
    BY <1>1, <1>2 DEF StatusWords

\* The handlers' own status words are never the one of a refusal.
LEMMA HandlerCodes ==
    ASSUME NEW p \in PathArgs, NEW h \in HrpArgs
    PROVE  /\ PathStatus(p) \in ErrorCodes \cup {"ok"}
           /\ InitStatuses(p, h) \subseteq ErrorCodes \cup {"ok"}
           /\ BadHrpCodes \subseteq ErrorCodes
  BY DEF PathStatus, InitStatuses, ConfigStatus, BadHrpCodes, ErrorCodes

LEMMA FixedCodes ==
    {"data_invalid", "execution_error", "exceeds_capacity", "chain_config",
     "sign_verify_error"} \subseteq ErrorCodes
  BY DEF ErrorCodes

LEMMA SignInitOutcomes ==
    ASSUME NEW p \in PathArgs, NEW h \in HrpArgs, SignInit(p, h)
    PROVE  AnswerOrRefusal
  <1>1. CASE Refuse
    BY <1>1, OnlyReplyOutcome DEF Refuse, StatusWords
  <1>2. CASE ~Refuse
    <2>1. \E sw \in ErrorCodes \cup {"ok"}, st \in {IDLE, RECEIVING} : Throw(sw, Scratch, st)
      BY <1>2, HandlerCodes DEF SignInit
    <2> QED
      BY <2>1, ThrowOutcome
  <1> QED
    BY <1>1, <1>2

LEMMA GetAddrOutcomes ==
    ASSUME NEW p \in PathArgs, NEW h \in HrpArgs, NEW confirm \in BOOLEAN,
           handleGetAddr(p, h, confirm)
    PROVE  AnswerOrRefusal
  <1>1. CASE Refuse
    BY <1>1, OnlyReplyOutcome DEF Refuse, StatusWords
  <1>2. CASE AddressArgsRefused(p, h)
    <2>1. \E sw \in ErrorCodes \cup {"ok"} : Throw(sw, Scratch, IDLE)
      BY <1>2, HandlerCodes, FixedCodes DEF AddressArgsRefused
    <2> QED
      BY <2>1, ThrowOutcome
  <1>3. CASE AddressDerived(p, h, confirm)
    <2> DEFINE address == Address(p, h, checkChainConfig(p, h))
    <2>1. \/ reply' = reply
          \/ Throw("execution_error", Scratch, IDLE)
          \/ Throw("ok", address, IDLE)
      BY <1>3 DEF AddressDerived, ResetInHandler
    <2> QED
      BY <2>1, ThrowOutcome, FixedCodes DEF AnswerOrRefusal
  <1> QED
    BY <1>1, <1>2, <1>3 DEF handleGetAddr

LEMMA SignAddOutcomes ==
    ASSUME NEW d \in Payloads, SignAdd(d)
    PROVE  AnswerOrRefusal
  BY OnlyReplyOutcome, ThrowOutcome, FixedCodes
     DEF SignAdd, Refuse, ChunkOverflow, StatusWords

LEMMA SignLastOutcomes ==
    ASSUME NEW type \in TxTypes, NEW d \in Payloads, SignLast(type, d)
    PROVE  AnswerOrRefusal
  <1>1. CASE Refuse \/ ChunkOverflow
    BY <1>1, OnlyReplyOutcome, FixedCodes DEF Refuse, ChunkOverflow, StatusWords
  <1>2. CASE ShowExpertRequired
    BY <1>2, FixedCodes DEF ShowExpertRequired, AnswerOrRefusal
  <1>3. CASE RejectDocument(type)
    BY <1>3, ThrowOutcome, FixedCodes DEF RejectDocument
  <1>4. CASE ShowReview(type) \/ Failsafe(type)
    BY <1>4 DEF ShowReview, ResetInHandler, Failsafe, AnswerOrRefusal
  <1>5. CASE CheckSwap(type)
    <2>1. CASE Throw("data_invalid", Scratch, g_tx_state)
      BY <2>1, ThrowOutcome, FixedCodes
    <2>2. CASE app_sign(buffer')
      BY <2>2, FixedCodes DEF app_sign, AnswerOrRefusal
    <2>3. CASE UNCHANGED reply
      BY <2>3 DEF AnswerOrRefusal
    <2> QED
      BY <1>5, <2>1, <2>2, <2>3 DEF CheckSwap
  <1> QED
    BY <1>1, <1>2, <1>3, <1>4, <1>5 DEF SignLast

LEMMA HostCommandOutcome ==
    ASSUME HostCommand
    PROVE  AnswerOrRefusal
  <1>1. CASE GetVersion \/ \E sw \in MalformedCodes : Malformed(sw)
    BY <1>1, OnlyReplyOutcome
       DEF GetVersion, Malformed, MalformedCodes, StatusWords, ErrorCodes
  <1>2. CASE \E p \in PathArgs, h \in HrpArgs : SignInit(p, h)
    BY <1>2, SignInitOutcomes
  <1>3. CASE \E p \in PathArgs, h \in HrpArgs, confirm \in BOOLEAN : handleGetAddr(p, h, confirm)
    BY <1>3, GetAddrOutcomes
  <1>4. CASE \E d \in Payloads : SignAdd(d)
    BY <1>4, SignAddOutcomes
  <1>5. CASE \E d \in Payloads, type \in TxTypes : SignLast(type, d)
    BY <1>5, SignLastOutcomes
  <1> QED
    BY <1>1, <1>2, <1>3, <1>4, <1>5 DEF HostCommand

\* A refused command that was not cut off changes nothing but the I/O buffer,
\* the reply and the life of a swap that is already over.
LEMMA RefusalKeeps ==
    ASSUME TypeOK, OnlyReply("not_allowed"), resets' = resets
    PROVE  UNCHANGED <<g_tx_state, txVars, view>>
  <1>1. UNCHANGED txVars /\ g_tx_state' = g_tx_state /\ Finally("not_allowed", view)
    BY DEF OnlyReply, Throw, AfterThrow
  <1>2. view' = view
    BY <1>1 DEF Finally, IoReset, TypeOK
  <1> QED
    BY <1>1, <1>2

\* A command refused because another is being processed leaves the upload, the
\* path and the screen as they were (handleApdu, the CATCH of THROW'n codes).
THEOREM RefusalHarmless == Spec => RefusalIsHarmless
  <1> DEFINE Refused == /\ reply' # reply /\ reply'.sw = "not_allowed"
                        /\ ~app_reject /\ resets' = resets
  <1>1. ASSUME TypeOK, [Next]_vars
        PROVE  [Refused => UNCHANGED <<g_tx_state, txVars, view>>]_vars
    <2>1. SUFFICES ASSUME Refused
                   PROVE  UNCHANGED <<g_tx_state, txVars, view>>
      OBVIOUS
    <2>2. CASE HostCommand
      <3>1. "not_allowed" \notin ErrorCodes \cup {"ok"}
        BY DEF ErrorCodes
      <3>2. OnlyReply("not_allowed")
        BY <2>1, <2>2, <3>1, HostCommandOutcome DEF AnswerOrRefusal
      <3> QED
        BY <1>1, <2>1, <3>2, RefusalKeeps
    <2>3. CASE UserAnswer
      BY <2>1, <2>3 DEF UserAnswer, ApproveTxn, app_sign, app_reply_address, app_reply_error
    <2>4. CASE ToggleExpert \/ Launch \/ UNCHANGED vars
      BY <2>1, <2>4 DEF ToggleExpert, Launch, vars
    <2> QED
      BY <1>1, <2>2, <2>3, <2>4 DEF Next
  <1> QED
    BY <1>1, TypeCorrect, PTL DEF Spec, RefusalIsHarmless

\* The buffer holds all that was sent, while more may come and while it is shown.
UploadInv ==
    \/ g_tx_state = RECEIVING
    \/ g_tx_state = REVIEWING /\ view.kind = "txn"
    => buffer = sent

\* A command that only answers drops no chunk that the session goes on without.
LEMMA OnlyReplyUpload ==
    ASSUME UploadInv, NEW sw, OnlyReply(sw),
           sw \in {"ok", "not_allowed"} => UNCHANGED sent
    PROVE  UploadInv'
  <1>1. /\ UNCHANGED buffer
        /\ g_tx_state' = AfterThrow(sw, g_tx_state) /\ Finally(sw, view)
    BY DEF OnlyReply, Throw, txVars
  <1>2. view' = view \/ view' = NoView
    BY <1>1 DEF Finally
  <1> QED
    BY <1>1, <1>2 DEF UploadInv, AfterThrow, NoView, IDLE, RECEIVING, REVIEWING

LEMMA GetAddrUpload ==
    ASSUME UploadInv, NEW p, NEW h, NEW confirm, handleGetAddr(p, h, confirm)
    PROVE  UploadInv'
  <1>1. CASE Refuse
    BY <1>1, OnlyReplyUpload DEF Refuse, handleGetAddr
  <1>2. CASE AddressArgsRefused(p, h)
    BY <1>2 DEF AddressArgsRefused, Throw, AfterThrow, UploadInv, IDLE, RECEIVING, REVIEWING
  <1>3. CASE AddressDerived(p, h, confirm)
    <2>1. \/ g_tx_state' = IDLE
          \/ /\ g_tx_state' = REVIEWING
             /\ Finally(NoStatus, Address(p, h, checkChainConfig(p, h)))
      BY <1>3 DEF AddressDerived, Throw, AfterThrow, ResetInHandler
    <2> QED
      BY <2>1 DEF Finally, Address, NoView, UploadInv, IDLE, RECEIVING, REVIEWING
  <1> QED
    BY <1>1, <1>2, <1>3 DEF handleGetAddr

LEMMA UploadStays ==
    ASSUME UploadInv, [Next]_vars
    PROVE  UploadInv'
  <1>1. CASE GetVersion \/ \E sw \in MalformedCodes : Malformed(sw)
    BY <1>1, OnlyReplyUpload DEF GetVersion, Malformed
  <1>2. ASSUME NEW p \in PathArgs, NEW h \in HrpArgs, SignInit(p, h) PROVE UploadInv'
    BY <1>2, OnlyReplyUpload DEF SignInit, Refuse, UploadInv
  <1>3. CASE \E p \in PathArgs, h \in HrpArgs, confirm \in BOOLEAN : handleGetAddr(p, h, confirm)
    BY <1>3, GetAddrUpload
  <1>4. ASSUME NEW d \in Payloads, Sends(d), g_tx_state # RECEIVING, Refuse PROVE UploadInv'
    BY <1>4, OnlyReplyUpload DEF Sends, Refuse
  <1>5. ASSUME ChunkOverflow PROVE UploadInv'
    BY <1>5, OnlyReplyUpload DEF ChunkOverflow
  <1>6. ASSUME NEW d \in Payloads, Sends(d), g_tx_state = RECEIVING, buffer' = buffer \o d
        PROVE  UploadInv'
    BY <1>6 DEF Sends, UploadInv
  <1>7. CASE \E d \in Payloads : SignAdd(d) \/ \E type \in TxTypes : SignLast(type, d)
    BY <1>4, <1>5, <1>6, <1>7 DEF SignAdd, SignLast
  <1>8. CASE UserAnswer \/ Launch
    BY <1>8 DEF UserAnswer, ApproveTxn, app_sign, app_reply_address, app_reject,
                app_reply_error, Launch, UploadInv, IDLE, RECEIVING, REVIEWING
  <1>9. CASE ToggleExpert \/ UNCHANGED vars
    BY <1>9 DEF ToggleExpert, vars, txVars, UploadInv
  <1> QED
    BY <1>1, <1>2, <1>3, <1>7, <1>8, <1>9 DEF Next, HostCommand

\* Only the approval of a review and a swap's last chunk give a signature.
LEMMA SignedWhole ==
    ASSUME TypeOK, UploadInv, Next, g_tx_state # IDLE, Gives("signature")
    PROVE  reply'.body.data = sent'
  <1>1. reply'.body.kind = "signature" /\ reply' # reply
    BY DEF Gives
  <1>2. Scratch.kind # "signature" /\ \A v \in Addresses : v.kind # "signature"
    BY DEF Scratch, Addresses
  <1>3. ASSUME NEW sw, NEW st, Throw(sw, Scratch, st) PROVE FALSE
    BY <1>1, <1>2, <1>3 DEF Throw
  <1>4. ASSUME NEW STATE data, app_sign(data) PROVE reply'.body.data = data
    BY <1>1, <1>2, <1>4 DEF app_sign, crypto_sign, Signature
  <1>5. CASE HostCommand
    <2>1. ~GetVersion /\ ~\E sw \in MalformedCodes : Malformed(sw)
      BY <1>3 DEF GetVersion, Malformed, OnlyReply
    <2>2. ASSUME NEW p \in PathArgs, NEW h \in HrpArgs, NEW confirm \in BOOLEAN
          PROVE  ~SignInit(p, h) /\ ~handleGetAddr(p, h, confirm)
      BY <1>3 DEF SignInit, handleGetAddr, Refuse, OnlyReply
    <2>3. ASSUME NEW d \in Payloads PROVE ~SignAdd(d)
      BY <1>3 DEF SignAdd, Refuse, ChunkOverflow, OnlyReply
    <2>4. PICK d \in Payloads, type \in TxTypes : SignLast(type, d)
      BY <1>5, <2>1, <2>2, <2>3 DEF HostCommand
    <2>5. /\ g_tx_state = RECEIVING /\ Sends(d) /\ buffer' = buffer \o d
          /\ \/ ShowExpertRequired \/ RejectDocument(type) \/ ShowReview(type)
             \/ CheckSwap(type) \/ Failsafe(type)
      BY <1>3, <2>4 DEF SignLast, Refuse, ChunkOverflow, OnlyReply
    <2>6. buffer' = sent'
      BY <2>5 DEF Sends, UploadInv
    <2>7. ~ShowExpertRequired /\ ~RejectDocument(type) /\ ~ShowReview(type) /\ ~Failsafe(type)
      BY <1>1, <1>2, <1>3
         DEF ShowExpertRequired, RejectDocument, ShowReview, Failsafe, ResetInHandler
    <2>8. app_sign(buffer')
      BY <1>1, <1>3, <2>5, <2>7 DEF CheckSwap
    <2> QED
      BY <1>1, <1>2, <2>6, <2>8 DEF app_sign, crypto_sign, Signature
  <1>6. CASE UserAnswer
    <2>1. ~app_reply_address /\ ~app_reject /\ ~app_reply_error
      BY <1>1, <1>2 DEF app_reply_address, app_reject, app_reply_error, TypeOK
    <2>2. Answering({"txn"}) /\ app_sign(buffer)
      BY <1>6, <2>1 DEF UserAnswer, ApproveTxn
    <2>3. buffer = sent /\ UNCHANGED sent
      BY <2>2 DEF Answering, UploadInv, TypeOK, TxStates
    <2> QED
      BY <1>4, <2>2, <2>3
  <1>7. CASE ToggleExpert \/ Launch
    BY <1>1, <1>2, <1>7 DEF ToggleExpert, Launch
  <1> QED
    BY <1>5, <1>6, <1>7 DEF Next

\* An upload that goes on has all that was sent, a review shows all of it and a
\* signature is for all of it: no document lacks a chunk in its middle.
THEOREM UploadsAreWhole == Spec => UploadWhole
  <1> DEFINE Whole == /\ g_tx_state' = RECEIVING => buffer' = sent'
                      /\ g_tx_state' = REVIEWING /\ view'.kind = "txn" => view'.data = sent'
                      /\ g_tx_state # IDLE /\ Gives("signature") => reply'.body.data = sent'
  <1>1. Init => UploadInv
    BY DEF Init, UploadInv
  <1>2. UploadInv /\ [Next]_vars => UploadInv'
    BY UploadStays
  <1>3. ASSUME TypeOK, UploadInv, UploadInv', ReviewingCoherent', [Next]_vars
        PROVE  [Whole]_vars
    <2>1. SUFFICES ASSUME Next PROVE Whole
      BY <1>3
    <2>2. g_tx_state' = RECEIVING => buffer' = sent'
      BY <1>3 DEF UploadInv
    <2>3. g_tx_state' = REVIEWING /\ view'.kind = "txn" => view'.data = sent'
      BY <1>3 DEF UploadInv, ReviewingCoherent, ShowsGlobals
    <2> QED
      BY <1>3, <2>1, <2>2, <2>3, SignedWhole
  <1> QED
    BY <1>1, <1>2, <1>3, TypeCorrect, ReviewIsCoherent, PTL DEF Spec, UploadWhole

----------------------------------------------------------------------------
(* Going back to Exchange                                                  *)

\* The end of a swap launch.  A running app has told Exchange nothing; it is
\* past the check of the one document only if a reset cut off that reply, and
\* past IDLE again only if a second one cut off the reply of a later command.
ExitInv ==
    /\ resets <= MaxResets
    /\ app = "running" => result = "unset"
    /\ app = "running" /\ should_exit => resets >= 1
    /\ app = "running" /\ should_exit /\ g_tx_state # IDLE => resets >= 2
    /\ app = "panicked" => resets >= 2
    /\ SuccessMeansAgreed

LifeInv == ReviewInv /\ ExitInv

\* The parts of a launch an ending can change: none, or what a reset or an
\* exit does once a swap document was checked.
KeptOrCut ==
    \/ UNCHANGED <<app, result, resets>> /\ ~(called_from_swap /\ should_exit')
    \/ /\ called_from_swap /\ should_exit'
       /\ \/ app' = "exited" /\ result' = "failure" /\ UNCHANGED resets
          \/ UNCHANGED <<app, result>> /\ resets' = resets + 1 /\ resets < MaxResets

LEMMA FinallyLife ==
    ASSUME NEW sw, NEW STATE nextView, sw # NoStatus, Finally(sw, nextView)
    PROVE  KeptOrCut
  BY DEF Finally, KeptOrCut, MustExit, ExitResult, IoReset, processVars

LEMMA ThrowLife ==
    ASSUME NEW sw \in StatusWords, NEW STATE body, NEW STATE st, Throw(sw, body, st)
    PROVE  KeptOrCut
  <1>1. sw # NoStatus
    BY DEF StatusWords, ErrorCodes, NoStatus
  <1> QED
    BY <1>1, FinallyLife DEF Throw

\* A command that leaves should_exit alone and is answered keeps ExitInv.
LEMMA AnsweredLife ==
    ASSUME LifeInv, app = "running", KeptOrCut, should_exit' = should_exit
    PROVE  ExitInv'
  <1>1. resets \in Nat /\ MaxResets \in Nat
    BY BoundsAssumption DEF LifeInv, ReviewInv, TypedInv, TypeOK
  <1>2. CASE UNCHANGED <<app, result, resets>> /\ ~(called_from_swap /\ should_exit)
    BY <1>1, <1>2 DEF LifeInv, ReviewInv, SwapInv, ExitInv, SuccessMeansAgreed
  <1>3. CASE app' = "exited" /\ result' = "failure" /\ UNCHANGED resets
    BY <1>1, <1>3 DEF LifeInv, ExitInv, SuccessMeansAgreed, KeptOrCut
  <1>4. CASE should_exit /\ UNCHANGED <<app, result>> /\ resets' = resets + 1 /\ resets < MaxResets
    BY <1>1, <1>4 DEF LifeInv, ExitInv, SuccessMeansAgreed
  <1> QED
    BY <1>2, <1>3, <1>4 DEF KeptOrCut

LEMMA OnlyReplyLife ==
    ASSUME LifeInv, app = "running", NEW sw \in StatusWords, OnlyReply(sw)
    PROVE  ExitInv'
  <1>1. should_exit' = should_exit /\ KeptOrCut
    BY ThrowLife DEF OnlyReply, swapVars
  <1> QED
    BY <1>1, AnsweredLife

\* A reset while the handler shows a question, which leaves the session idle.
LEMMA ResetLife ==
    ASSUME LifeInv, app = "running", should_exit' = should_exit, ResetInHandler
    PROVE  ExitInv'
  <1>1. resets \in Nat /\ MaxResets \in Nat
    BY BoundsAssumption DEF LifeInv, ReviewInv, TypedInv, TypeOK
  <1>2. /\ UNCHANGED <<app, result>> /\ g_tx_state' = IDLE
        /\ resets' = resets + 1 /\ resets < MaxResets
    BY DEF ResetInHandler, IoReset
  <1> QED
    BY <1>1, <1>2 DEF LifeInv, ExitInv, SuccessMeansAgreed

\* A command that ends with a question on the screen and no status word.
LEMMA QuestionLife ==
    ASSUME LifeInv, app = "running", UNCHANGED <<called_from_swap, should_exit>>,
           NEW STATE nextView, Finally(NoStatus, nextView)
    PROVE  ExitInv'
  <1>1. resets \in Nat /\ MaxResets \in Nat
    BY BoundsAssumption DEF LifeInv, ReviewInv, TypedInv, TypeOK
  <1>2. CASE called_from_swap /\ should_exit
    <2>1. app' = "exited" /\ UNCHANGED resets
      BY <1>2 DEF Finally, MustExit
    <2>2. resets >= 1
      BY <1>2 DEF LifeInv, ExitInv
    <2> QED
      BY <1>1, <2>1, <2>2 DEF LifeInv, ExitInv, SuccessMeansAgreed
  <1>3. CASE ~(called_from_swap /\ should_exit)
    <2>1. UNCHANGED <<app, result, resets>> /\ ~should_exit'
      BY <1>3 DEF Finally, MustExit, processVars, LifeInv, ReviewInv, SwapInv
    <2> QED
      BY <1>1, <2>1 DEF LifeInv, ExitInv, SuccessMeansAgreed
  <1> QED
    BY <1>2, <1>3

LEMMA SignInitLife ==
    ASSUME LifeInv, NEW p \in PathArgs, NEW h \in HrpArgs, SignInit(p, h)
    PROVE  ExitInv'
  <1>1. app = "running"
    BY DEF SignInit, Deliverable
  <1>2. CASE Refuse
    BY <1>1, <1>2, OnlyReplyLife DEF Refuse, StatusWords
  <1>3. CASE ~Refuse
    <2>1. /\ should_exit' = should_exit
          /\ \E sw \in ErrorCodes \cup {"ok"}, st \in {IDLE, RECEIVING} : Throw(sw, Scratch, st)
      BY <1>3, HandlerCodes DEF SignInit, swapVars
    <2>2. KeptOrCut
      BY <2>1, ThrowLife DEF StatusWords
    <2> QED
      BY <1>1, <2>1, <2>2, AnsweredLife
  <1> QED
    BY <1>2, <1>3

LEMMA GetAddrLife ==
    ASSUME LifeInv, NEW p \in PathArgs, NEW h \in HrpArgs, NEW confirm \in BOOLEAN,
           handleGetAddr(p, h, confirm)
    PROVE  ExitInv'
  <1>1. app = "running"
    BY DEF handleGetAddr, Deliverable
  <1>2. CASE Refuse
    BY <1>1, <1>2, OnlyReplyLife DEF Refuse, StatusWords
  <1>3. CASE AddressArgsRefused(p, h)
    <2>1. /\ should_exit' = should_exit
          /\ \E sw \in ErrorCodes \cup {"ok"} : Throw(sw, Scratch, IDLE)
      BY <1>3, HandlerCodes, FixedCodes DEF AddressArgsRefused, swapVars
    <2>2. KeptOrCut
      BY <2>1, ThrowLife DEF StatusWords
    <2> QED
      BY <1>1, <2>1, <2>2, AnsweredLife
  <1>4. CASE AddressDerived(p, h, confirm)
    <2> DEFINE address == Address(p, h, checkChainConfig(p, h))
    <2>1. UNCHANGED <<called_from_swap, should_exit>>
      BY <1>4 DEF AddressDerived, swapVars
    <2>2. CASE Throw("execution_error", Scratch, IDLE) \/ Throw("ok", address, IDLE)
      <3>1. KeptOrCut
        BY <2>2, ThrowLife DEF StatusWords, ErrorCodes
      <3> QED
        BY <1>1, <2>1, <3>1, AnsweredLife
    <2>3. CASE Finally(NoStatus, address)
      BY <1>1, <2>1, <2>3, QuestionLife
    <2>4. CASE ResetInHandler
      BY <1>1, <2>1, <2>4, ResetLife
    <2> QED
      BY <1>4, <2>2, <2>3, <2>4 DEF AddressDerived
  <1> QED
    BY <1>2, <1>3, <1>4 DEF handleGetAddr

LEMMA SignAddLife ==
    ASSUME LifeInv, NEW d \in Payloads, SignAdd(d)
    PROVE  ExitInv'
  <1>1. app = "running"
    BY DEF SignAdd, Deliverable
  <1>2. CASE Refuse \/ ChunkOverflow
    BY <1>1, <1>2, OnlyReplyLife DEF Refuse, ChunkOverflow, StatusWords, ErrorCodes
  <1>3. CASE ~Refuse /\ ~ChunkOverflow
    <2>1. should_exit' = should_exit /\ Throw("ok", Scratch, g_tx_state)
      BY <1>3 DEF SignAdd, swapVars
    <2>2. KeptOrCut
      BY <2>1, ThrowLife DEF StatusWords
    <2> QED
      BY <1>1, <2>1, <2>2, AnsweredLife
  <1> QED
    BY <1>2, <1>3

\* The one document of a swap is checked: success is told only if it pays.
LEMMA CheckSwapLife ==
    ASSUME LifeInv, app = "running", NEW type \in TxTypes,
           CheckSwap(type), called_from_swap' = called_from_swap
    PROVE  ExitInv'
  <1>1. resets \in Nat /\ MaxResets \in Nat
    BY BoundsAssumption DEF LifeInv, ReviewInv, TypedInv, TypeOK
  <1>2. CASE Throw("data_invalid", Scratch, g_tx_state)
    <2>1. KeptOrCut /\ g_tx_state' = IDLE /\ called_from_swap /\ should_exit'
      BY <1>2, ThrowLife DEF StatusWords, ErrorCodes, Throw, AfterThrow, CheckSwap
    <2> QED
      BY <1>1, <2>1 DEF KeptOrCut, LifeInv, ExitInv, SuccessMeansAgreed
  <1>3. CASE PaysSwap(type, buffer') /\ app' = "exited" /\ UNCHANGED resets
    <2>1. \E t \in SignTypes : [type |-> t, data |-> buffer'] \in SwapTxs
      <3>1. [type |-> type, data |-> buffer'] \in [type : SignTypes, data : Seq(Chunks)]
        BY <1>3, TxsAssumption DEF PaysSwap
      <3>2. [type |-> type, data |-> buffer'].type = type
        OBVIOUS
      <3>3. type \in SignTypes
        BY <3>1, <3>2
      <3> QED
        BY <1>3, <3>3 DEF PaysSwap
    <2> QED
      BY <1>1, <1>3, <2>1 DEF LifeInv, ExitInv, SuccessMeansAgreed
  <1>4. CASE g_tx_state' = IDLE /\ IoReset /\ UNCHANGED <<app, result>>
    BY <1>1, <1>4 DEF IoReset, LifeInv, ExitInv, SuccessMeansAgreed
  <1> QED
    BY <1>2, <1>3, <1>4 DEF CheckSwap, app_sign

LEMMA SignLastLife ==
    ASSUME LifeInv, NEW type \in TxTypes, NEW d \in Payloads, SignLast(type, d)
    PROVE  ExitInv'
  <1>1. app = "running"
    BY DEF SignLast, Deliverable
  <1>2. CASE Refuse \/ ChunkOverflow
    BY <1>1, <1>2, OnlyReplyLife DEF Refuse, ChunkOverflow, StatusWords, ErrorCodes
  <1>3. CASE ~Refuse /\ ~ChunkOverflow
    <2>1. g_tx_state = RECEIVING /\ called_from_swap' = called_from_swap
      BY <1>3 DEF SignLast
    <2>2. CASE ShowExpertRequired
      <3>1. should_exit' = should_exit /\ KeptOrCut
        BY <2>2, FinallyLife DEF ShowExpertRequired, NoStatus
      <3> QED
        BY <1>1, <3>1, AnsweredLife
    <2>3. CASE RejectDocument(type)
      <3>1. should_exit' = should_exit /\ KeptOrCut
        BY <2>3, ThrowLife DEF RejectDocument, StatusWords, ErrorCodes
      <3> QED
        BY <1>1, <3>1, AnsweredLife
    <2>4. CASE ShowReview(type)
      <3>1. should_exit' = should_exit
        BY <2>4 DEF ShowReview
      <3>2. CASE Finally(NoStatus, Review(type, buffer', hdPath, encoding))
        <4>1. ~MustExit(NoStatus)
          BY <2>4 DEF ShowReview, MustExit
        <4>2. UNCHANGED <<app, result, resets>>
          BY <3>2, <4>1 DEF Finally, processVars
        <4>3. ~(called_from_swap /\ should_exit')
          BY <2>4 DEF ShowReview
        <4> QED
          BY <1>1, <3>1, <4>2, <4>3, AnsweredLife DEF KeptOrCut
      <3>3. CASE ResetInHandler
        BY <1>1, <3>1, <3>3, ResetLife
      <3> QED
        BY <2>4, <3>2, <3>3 DEF ShowReview
    <2>5. CASE CheckSwap(type)
      BY <1>1, <2>1, <2>5, CheckSwapLife
    <2>6. CASE Failsafe(type)
      <3>1. should_exit /\ app' = "panicked" /\ UNCHANGED <<result, resets>>
        BY <2>6 DEF Failsafe, SwapTxAllowed
      <3>2. resets >= 2
        BY <1>1, <2>1, <3>1 DEF LifeInv, ExitInv, IDLE, RECEIVING
      <3> QED
        BY <1>1, <3>1, <3>2 DEF LifeInv, ExitInv, SuccessMeansAgreed
    <2> QED
      BY <1>3, <2>2, <2>3, <2>4, <2>5, <2>6 DEF SignLast
  <1> QED
    BY <1>2, <1>3

LEMMA NextLife ==
    ASSUME LifeInv, [Next]_vars
    PROVE  LifeInv'
  <1>1. ExitInv'
    <2>1. CASE GetVersion \/ \E sw \in MalformedCodes : Malformed(sw)
      BY <2>1, OnlyReplyLife
         DEF GetVersion, Malformed, MalformedCodes, StatusWords, ErrorCodes, Deliverable
    <2>2. CASE \E p \in PathArgs, h \in HrpArgs : SignInit(p, h)
      BY <2>2, SignInitLife
    <2>3. CASE \E p \in PathArgs, h \in HrpArgs, confirm \in BOOLEAN : handleGetAddr(p, h, confirm)
      BY <2>3, GetAddrLife
    <2>4. CASE \E d \in Payloads : SignAdd(d)
      BY <2>4, SignAddLife
    <2>5. CASE \E d \in Payloads, type \in TxTypes : SignLast(type, d)
      BY <2>5, SignLastLife
    <2>6. CASE UserAnswer
      <3>1. /\ app = "running" /\ UNCHANGED <<app, result, resets, should_exit>>
            /\ g_tx_state' = IDLE
        BY <2>6 DEF UserAnswer, ApproveTxn, app_sign, app_reply_address, app_reject,
                    app_reply_error, Answering, processVars, swapVars
      <3> QED
        BY <3>1 DEF LifeInv, ExitInv, SuccessMeansAgreed
    <2>7. CASE ToggleExpert \/ UNCHANGED vars
      <3>1. UNCHANGED <<app, g_tx_state, buffer, should_exit, result, resets>>
        BY <2>7 DEF ToggleExpert, vars, txVars, swapVars
      <3> QED
        BY <3>1 DEF LifeInv, ExitInv, SuccessMeansAgreed
    <2>8. CASE Launch
      BY <2>8, BoundsAssumption DEF Launch, ExitInv, SuccessMeansAgreed
    <2> QED
      BY <2>1, <2>2, <2>3, <2>4, <2>5, <2>6, <2>7, <2>8 DEF Next, HostCommand
  <1> QED
    BY <1>1, NextReview DEF LifeInv

\* The inductive invariant of a launch by Exchange: should_exit is set only once
\* its document was checked, and what stands in the way of the exit is an I/O
\* reset that cut off a reply (handleSign, FINALLY of handleApdu).
THEOREM LifeInvariant == Spec => []LifeInv
  <1>1. Init => LifeInv
    <2>1. Init => ReviewInv
      BY ReviewInitially
    <2>2. Init => ExitInv
      BY BoundsAssumption DEF Init, ExitInv, SuccessMeansAgreed
    <2> QED
      BY <2>1, <2>2 DEF LifeInv
  <1>2. LifeInv /\ [Next]_vars => LifeInv'
    BY NextLife
  <1> QED
    BY <1>1, <1>2, PTL DEF Spec

\* As long as no reply is cut off, Exchange is told of success only after it
\* sent the app the payment the user agreed on.
THEOREM SuccessWasAgreed == Spec => []SuccessMeansAgreed
  <1>1. LifeInv => SuccessMeansAgreed
    BY DEF LifeInv, ExitInv
  <1> QED
    BY <1>1, LifeInvariant, PTL

\* The failsafe of tx_parse takes two cut-off replies of one launch: the one
\* that ended the check of its document and one of the upload that follows.
FailsafeNeedsTwoResets == app = "panicked" => resets >= 2

\* However many replies are cut off, it never takes fewer than two (tx.c:103).
THEOREM FailsafeAfterTwoResets == Spec => []FailsafeNeedsTwoResets
  <1>1. LifeInv => FailsafeNeedsTwoResets
    BY DEF LifeInv, ExitInv, FailsafeNeedsTwoResets
  <1> QED
    BY <1>1, LifeInvariant, PTL

\* With at most one I/O reset in a launch the failsafe never triggers, as the
\* comment in tx.c says of every launch.
THEOREM FailsafeQuiet ==
    ASSUME MaxResets <= 1
    PROVE  Spec => []FailsafeNeverTriggers
  <1>1. LifeInv => FailsafeNeverTriggers
    BY BoundsAssumption
       DEF LifeInv, ExitInv, FailsafeNeverTriggers, ReviewInv, TypedInv, TypeOK
  <1> QED
    BY <1>1, LifeInvariant, PTL
=============================================================================
