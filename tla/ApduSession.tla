---------------------------- MODULE ApduSession ----------------------------
(***************************************************************************)
(* The command session of the app: the dispatcher handleApdu, the chunked  *)
(* upload of a sign document, the review on the screen and the callbacks   *)
(* that answer it, the one I/O buffer that commands, replies and the own   *)
(* address share, and the lifecycle of the app when Exchange starts it to  *)
(* sign one swap payment.                                                  *)
(*                                                                         *)
(* A sign document is a sequence of chunks; whether it parses and passes   *)
(* parser_validate is membership of ValidTxs, whether it also passes       *)
(* check_swap_conditions is membership of SwapTxs.  A derivation path and  *)
(* a bech32 prefix are members of a set with the classes the handlers      *)
(* distinguish.                                                            *)
(***************************************************************************)
EXTENDS Naturals, Sequences

CONSTANTS
    Chunks,      \* payloads of one upload command
    Capacity,    \* chunks the upload buffer holds
    Paths,       \* derivation paths a command can carry
    EthPaths,    \* those with coin type 60'; the other good ones have 118'
    DeepPaths,   \* those with a component beyond the limit of normal mode
    BadPaths,    \* those with a wrong purpose, coin type or change component
    NoPath,      \* no complete path in the command; also the zeroed hdPath
    Hrps,        \* bech32 prefixes a command can carry
    CosmosHrps,  \* those listed with coin type 118 in chainConfig
    EthHrps,     \* those listed with coin type 60
    NoHrp,       \* no prefix in the command; also the zeroed bech32_hrp
    BadHrp,      \* a prefix whose length byte is wrong or that is cut short
    ValidTxs,    \* documents that parse and validate, with their type
    SwapTxs,     \* documents that pay what Exchange asked for
    Concurrent,  \* external: commands arrive while an answer is pending
    MaxResets    \* bound on the I/O resets of one launch

SignTypes == {"tx_json", "tx_textual"}
TxTypes   == SignTypes \cup {"other"}
Txs       == [type : TxTypes, data : Seq(Chunks)]
Payloads  == {<<>>} \cup {<<c>> : c \in Chunks}

ASSUME PathsAssumption ==
    /\ EthPaths \subseteq Paths /\ DeepPaths \subseteq Paths
    /\ BadPaths \subseteq Paths /\ NoPath \notin Paths
ASSUME HrpsAssumption ==
    /\ CosmosHrps \subseteq Hrps /\ EthHrps \subseteq Hrps
    /\ NoHrp \notin Hrps /\ BadHrp \notin Hrps /\ NoHrp # BadHrp
ASSUME TxsAssumption ==
    /\ ValidTxs \subseteq [type : SignTypes, data : Seq(Chunks)]
    /\ SwapTxs \subseteq ValidTxs
ASSUME BoundsAssumption ==
    /\ Capacity \in Nat /\ MaxResets \in Nat /\ Concurrent \in BOOLEAN

VARIABLES
    app,               \* the process: running, exited or panicked
    g_tx_state,        \* the session state
    hdPath,            \* path of the last command that carried one
    bech32_hrp,        \* prefix of the last command that carried one
    encoding,          \* what checkChainConfig made of the two
    buffer,            \* the uploaded document
    sent,              \* history: what the client has sent of the document
    io,                \* G_io_apdu_buffer: an own address, or anything else
    view,              \* what the screen asks the user
    expert,            \* app_mode_expert()
    called_from_swap,  \* G_swap_state.called_from_swap
    should_exit,       \* G_swap_state.should_exit
    result,            \* what Exchange is told
    reply,             \* the last reply on the wire
    signatures,        \* history: signatures given out since a swap launch
    resets             \* I/O resets since the launch

txVars      == <<hdPath, bech32_hrp, encoding, buffer>>
processVars == <<app, result, resets>>
swapVars    == <<called_from_swap, should_exit>>
vars == <<app, g_tx_state, txVars, sent, io, view, expert, swapVars, result, reply,
          signatures, resets>>

----------------------------------------------------------------------------
(* Data                                                                    *)

IDLE      == "idle"
RECEIVING == "receiving"
REVIEWING == "reviewing"
TxStates  == {IDLE, RECEIVING, REVIEWING}

Encodings == {"cosmos", "eth", "unsupported"}

ErrorCodes == {"cla_not_supported", "wrong_length", "ins_not_supported",
               "invalid_p1p2", "data_invalid", "hrp_wrong_length",
               "coin_value", "path_value", "chain_config", "execution_error",
               "exceeds_capacity", "sign_verify_error"}
StatusWords == ErrorCodes \cup {"ok", "not_allowed"}
NoStatus == "none"   \* sw = 0: the handler returned without throwing

Scratch     == [kind |-> "scratch"]      \* contents no property is about
NoView      == [kind |-> "idle_menu"]
ErrorScreen == [kind |-> "error"]

Address(p, h, e) == [kind |-> "address", path |-> p, hrp |-> h, enc |-> e]
Signature(d, p, e) == [kind |-> "signature", data |-> d, path |-> p, enc |-> e]
Review(t, d, p, e) ==
    [kind |-> "txn", type |-> t, data |-> d, path |-> p, enc |-> e]

Addresses  == [kind : {"address"}, path : Paths, hrp : Hrps \cup {NoHrp},
               enc : Encodings]
Signatures == [kind : {"signature"}, data : Seq(Chunks), path : Paths,
               enc : Encodings]
Reviews    == [kind : {"txn"}, type : TxTypes, data : Seq(Chunks),
               path : Paths, enc : Encodings]

\* What approving a screen must give out.
Grant(v) == IF v.kind = "txn" THEN Signature(v.data, v.path, v.enc) ELSE v

----------------------------------------------------------------------------
(* The dispatcher                                                          *)

\* The I/O layer hands a command to handleApdu; unless it is Concurrent it
\* holds the next one back until the pending answer is given.
Deliverable == app = "running" /\ (Concurrent \/ view = NoView)

\* An I/O reset unwinds to the main loop, which initialises I/O and screen.
IoReset == resets < MaxResets /\ resets' = resets + 1

\* Once a swap document was checked every command ends the app.
MustExitOnError(sw) == called_from_swap /\ should_exit' /\ sw # "ok"   \* a fault
MustExit(sw) == called_from_swap /\ should_exit'

ExitResultOf(sw) == IF sw = "failsafe" THEN "failure" ELSE "success"   \* a fault
ExitResult(sw) == IF sw = NoStatus THEN "success" ELSE "failure"

\* FINALLY of handleApdu: the app replies and goes back to Exchange, unless
\* the reply is cut off by a reset.
Finally(sw, nextView) ==
    IF MustExit(sw)
    THEN \/ /\ app' = "exited"
            /\ result' = ExitResult(sw)
            /\ view' = nextView
            /\ UNCHANGED resets
         \/ /\ sw # NoStatus
            /\ IoReset
            /\ view' = NoView
            /\ UNCHANGED <<app, result>>
    ELSE view' = nextView /\ UNCHANGED processVars

\* CATCH_OTHER: the state a handler leaves when it throws sw having set the
\* session state to st.  Only success and a refused concurrent command keep it.
AfterAnyThrow(sw, st) == IF sw = "ok" THEN st ELSE IDLE   \* a fault
AfterOverflowToo(sw, st) ==   \* a fault: the upload goes on without the chunk
    IF sw \in {"ok", "not_allowed", "exceeds_capacity"} THEN st ELSE IDLE
AfterThrow(sw, st) == IF sw \in {"ok", "not_allowed"} THEN st ELSE IDLE

\* A handler throws sw with body in the I/O buffer.
Throw(sw, body, st) ==
    /\ g_tx_state' = AfterThrow(sw, st)
    /\ reply' = [sw |-> sw, body |-> body]
    /\ Finally(sw, view)

\* A command that ends with sw and writes none of the session's other globals.
OnlyReply(sw) ==
    /\ UNCHANGED <<txVars, swapVars, expert, signatures>>
    /\ io' = Scratch
    /\ Throw(sw, Scratch, g_tx_state)

\* A command the present session state does not allow.
Refuse == OnlyReply("not_allowed")

\* CATCH(EXCEPTION_IO_RESET): a reset while the handler shows a review.
StaleAfterReset ==   \* a fault: the state set for the review stays
    IoReset /\ g_tx_state' = REVIEWING /\ view' = NoView /\ UNCHANGED <<app, result, reply>>
ResetInHandler ==
    /\ IoReset
    /\ g_tx_state' = IDLE
    /\ view' = NoView
    /\ UNCHANGED <<app, result, reply>>

GetVersion == Deliverable /\ OnlyReply("ok") /\ UNCHANGED sent

\* A wrong class or instruction, a short command, a wrong P1 of a sign command.
Malformed(sw) == Deliverable /\ OnlyReply(sw) /\ UNCHANGED sent

MalformedCodes ==
    {"cla_not_supported", "wrong_length", "ins_not_supported", "invalid_p1p2"}

----------------------------------------------------------------------------
(* Reading the path and the prefix of a command                            *)

checkChainConfig(p, h) ==
    IF p \in EthPaths /\ h \in EthHrps THEN "eth"
    ELSE IF p \notin EthPaths /\ h \in CosmosHrps THEN "cosmos"
    ELSE "unsupported"

\* extractHDPath stores what it read before it checks it.
StoredPath(p) == IF p = NoPath THEN hdPath ELSE p
PathStatus(p) ==
    CASE p = NoPath                     -> "wrong_length"
      [] p \in BadPaths                 -> "coin_value"
      [] p \in DeepPaths \ BadPaths /\ ~expert -> "path_value"
      [] OTHER                          -> "ok"

\* extractHRP clears the prefix before it checks the length byte.
StoredHrpUncleared(h) == IF h = NoHrp THEN bech32_hrp ELSE h   \* a fault
StoredHrp(h) == IF h = NoHrp THEN bech32_hrp
                ELSE IF h = BadHrp THEN NoHrp ELSE h
BadHrpCodes == {"hrp_wrong_length", "data_invalid"}

ConfigStatus(p, h) ==
    IF checkChainConfig(p, h) = "unsupported" THEN "chain_config" ELSE "ok"

PathArgs == Paths \cup {NoPath}
HrpArgs  == Hrps \cup {NoHrp, BadHrp}

----------------------------------------------------------------------------
(* INS_GET_ADDR_SECP256K1                                                  *)

\* The command is refused at its prefix, its path or their combination.
AddressArgsRefused(p, h) ==
    /\ UNCHANGED <<buffer, swapVars, expert, signatures>>
    /\ io' = Scratch
    /\ bech32_hrp' = StoredHrp(h)
    /\ IF h \in {NoHrp, BadHrp}
       THEN /\ \E sw \in IF h = NoHrp THEN {"data_invalid"} ELSE BadHrpCodes :
                   Throw(sw, Scratch, IDLE)
            /\ UNCHANGED <<hdPath, encoding>>
       ELSE /\ hdPath' = StoredPath(p)
            /\ IF PathStatus(p) # "ok"
               THEN Throw(PathStatus(p), Scratch, IDLE) /\ UNCHANGED encoding
               ELSE /\ ConfigStatus(p, h) # "ok"
                    /\ encoding' = checkChainConfig(p, h)
                    /\ Throw("chain_config", Scratch, IDLE)

\* The arguments are good: the address is derived into the I/O buffer and
\* returned at once or, with P1 set, shown first.
AddressDerived(p, h, confirm) ==
    LET address == Address(p, h, checkChainConfig(p, h)) IN
    /\ h \in Hrps /\ PathStatus(p) = "ok" /\ ConfigStatus(p, h) = "ok"
    /\ hdPath' = p /\ bech32_hrp' = h /\ encoding' = checkChainConfig(p, h)
    /\ UNCHANGED <<buffer, swapVars, expert, signatures>>
    /\ \/ io' = Scratch /\ Throw("execution_error", Scratch, IDLE)
       \/ ~confirm /\ io' = address /\ Throw("ok", address, IDLE)
       \/ /\ confirm /\ io' = address
          /\ \/ /\ g_tx_state' = REVIEWING
                /\ UNCHANGED reply
                /\ Finally(NoStatus, address)
             \/ ResetInHandler

handleGetAddr(p, h, confirm) ==
    /\ Deliverable
    /\ UNCHANGED sent
    /\ \/ g_tx_state # IDLE /\ Refuse
       \/ g_tx_state = IDLE /\ AddressArgsRefused(p, h)
       \/ g_tx_state = IDLE /\ AddressDerived(p, h, confirm)

----------------------------------------------------------------------------
(* INS_SIGN_SECP256K1                                                      *)

\* extractHDPath_HRP: the status of an INIT whose path was good.
InitStatusesNoCoinCheck(p, h) ==   \* a fault
    IF h = BadHrp THEN BadHrpCodes ELSE IF h = NoHrp THEN {"ok"} ELSE {ConfigStatus(p, h)}
InitStatuses(p, h) ==
    CASE h = BadHrp -> BadHrpCodes
      [] h = NoHrp  -> {IF p \in EthPaths THEN "coin_value" ELSE "ok"}
      [] OTHER      -> {ConfigStatus(p, h)}

\* P1_INIT empties the buffer before it reads the path and the prefix.
SignInit(p, h) ==
    /\ Deliverable
    /\ sent' = IF g_tx_state = IDLE THEN <<>> ELSE sent
    /\ \/ g_tx_state # IDLE /\ Refuse
       \/ /\ g_tx_state = IDLE
          /\ buffer' = <<>>
          /\ hdPath' = StoredPath(p)
          /\ io' = Scratch
          /\ UNCHANGED <<swapVars, expert, signatures>>
          /\ IF PathStatus(p) # "ok"
             THEN Throw(PathStatus(p), Scratch, IDLE) /\ UNCHANGED <<bech32_hrp, encoding>>
             ELSE /\ bech32_hrp' = StoredHrp(h)
                  /\ encoding' = IF h \in Hrps THEN checkChainConfig(p, h) ELSE "cosmos"
                  /\ \E sw \in InitStatuses(p, h) : Throw(sw, Scratch, RECEIVING)

\* tx_append takes the whole payload or nothing.
Fits(d) == Len(buffer) + Len(d) <= Capacity

ChunkOverflow == OnlyReply("exceeds_capacity")

\* History: while an upload is open each payload belongs to the document,
\* whether the handler takes it or not.
Sends(d) == sent' = IF g_tx_state = RECEIVING THEN sent \o d ELSE sent

SignAdd(d) ==
    /\ Deliverable
    /\ Sends(d)
    /\ \/ g_tx_state # RECEIVING /\ Refuse
       \/ g_tx_state = RECEIVING /\ ~Fits(d) /\ ChunkOverflow
       \/ /\ g_tx_state = RECEIVING /\ Fits(d)
          /\ buffer' = buffer \o d
          /\ UNCHANGED <<hdPath, bech32_hrp, encoding, swapVars, expert, signatures>>
          /\ io' = Scratch
          /\ Throw("ok", Scratch, g_tx_state)

\* Coin type 60 outside expert mode: an error screen, answered by the user.
ExpertNeverRequired == FALSE   \* a fault
ExpertRequired == hdPath \in EthPaths /\ ~expert
ShowExpertRequired ==
    /\ ExpertRequired
    /\ g_tx_state' = IDLE
    /\ io' = Scratch
    /\ UNCHANGED <<should_exit, signatures>>
    /\ reply' = IF MustExit("data_invalid")
                THEN [sw |-> "data_invalid", body |-> Scratch] ELSE reply
    /\ Finally("data_invalid", ErrorScreen)

\* tx_parse up to the swap check, and check_swap_conditions.
ParsesAsAnyType(type, data) == \E t \in SignTypes : [type |-> t, data |-> data] \in ValidTxs   \* a fault
Parses(type, data) == [type |-> type, data |-> data] \in ValidTxs
PaysAnything(type, data) == [type |-> type, data |-> data] \in ValidTxs   \* a fault
PaysSwap(type, data) == [type |-> type, data |-> data] \in SwapTxs

\* The address cannot be derived, or tx_parse rejects the document.
RejectDocument(type) ==
    /\ io' = Scratch
    /\ UNCHANGED <<should_exit, signatures>>
    /\ \/ Throw("execution_error", Scratch, g_tx_state)
       \/ /\ ~Parses(type, buffer')
          /\ Throw("data_invalid", Scratch, g_tx_state)

\* A valid document of a normal session goes to the screen.
ShowReview(type) ==
    /\ ~called_from_swap
    /\ Parses(type, buffer')
    /\ io' = Address(hdPath, bech32_hrp, encoding)
    /\ UNCHANGED <<should_exit, signatures>>
    /\ \/ /\ g_tx_state' = REVIEWING
          /\ UNCHANGED reply
          /\ Finally(NoStatus, Review(type, buffer', hdPath, encoding))
       \/ ResetInHandler

\* The signature of what the buffer, path and encoding now hold.
crypto_signPart(data) == Signature(SubSeq(data, 1, 1), hdPath, encoding)   \* a fault
crypto_sign(data) == Signature(data, hdPath, encoding)

app_sign(data) ==
    /\ g_tx_state' = IDLE
    /\ io' = Scratch
    /\ \/ /\ reply' = [sw |-> "sign_verify_error", body |-> Scratch]
          /\ UNCHANGED signatures
       \/ /\ reply' = [sw |-> "ok", body |-> crypto_sign(data)]
          /\ signatures' = IF called_from_swap THEN signatures + 1 ELSE signatures

SwapTxAgain == TRUE   \* a fault
SwapTxAllowed == ~should_exit

\* A swap document is checked once.  It is signed without a review and the app
\* returns to Exchange with success, or the mismatch ends the app in Finally.
CheckSwap(type) ==
    /\ called_from_swap /\ SwapTxAllowed
    /\ should_exit' = TRUE
    /\ \/ /\ Parses(type, buffer') /\ ~PaysSwap(type, buffer')
          /\ io' = Scratch
          /\ Throw("data_invalid", Scratch, g_tx_state)
          /\ UNCHANGED signatures
       \/ /\ PaysSwap(type, buffer')
          /\ app_sign(buffer')
          /\ app' = "exited"
          /\ result' = "success"
          /\ UNCHANGED <<view, resets>>
       \/ /\ PaysSwap(type, buffer')
          /\ IoReset   \* in app_sign's io_exchange, before or after the reply is out
          /\ view' = NoView
          /\ \/ app_sign(buffer')
             \/ g_tx_state' = IDLE /\ io' = Scratch /\ UNCHANGED <<reply, signatures>>
          /\ UNCHANGED <<app, result>>

\* The failsafe of tx_parse: a second document of the same swap.
Failsafe(type) ==
    /\ called_from_swap /\ ~SwapTxAllowed
    /\ Parses(type, buffer')
    /\ app' = "panicked"
    /\ UNCHANGED <<g_tx_state, io, view, should_exit, result, reply, signatures, resets>>

\* P1_LAST appends the last chunk and handles the document.
SignLast(type, d) ==
    /\ Deliverable
    /\ Sends(d)
    /\ \/ g_tx_state # RECEIVING /\ Refuse
       \/ g_tx_state = RECEIVING /\ ~Fits(d) /\ ChunkOverflow
       \/ /\ g_tx_state = RECEIVING /\ Fits(d)
          /\ buffer' = buffer \o d
          /\ UNCHANGED <<hdPath, bech32_hrp, encoding, called_from_swap, expert>>
          /\ \/ ShowExpertRequired
             \/ /\ ~ExpertRequired
                /\ \/ RejectDocument(type)
                   \/ ShowReview(type)
                   \/ CheckSwap(type)
                   \/ Failsafe(type)

----------------------------------------------------------------------------
(* The user, and the launch of the app                                     *)

\* The callbacks of the review run in the main loop's wait for a command.
Answering(kinds) ==
    /\ app = "running"
    /\ view.kind \in kinds
    /\ view' = NoView
    /\ UNCHANGED <<txVars, sent, swapVars, expert, processVars>>

ApproveTxn == Answering({"txn"}) /\ app_sign(buffer)

app_reply_address_cleared ==   \* a fault: the buffer is zeroed as in app_reject
    /\ Answering({"address"})
    /\ g_tx_state' = IDLE
    /\ io' = Scratch
    /\ reply' = [sw |-> "ok", body |-> Scratch]
    /\ UNCHANGED signatures
app_reply_address ==
    /\ Answering({"address"})
    /\ g_tx_state' = IDLE
    /\ reply' = [sw |-> "ok", body |-> io]
    /\ UNCHANGED <<io, signatures>>

app_reject ==
    /\ Answering({"address", "txn"})
    /\ g_tx_state' = IDLE
    /\ io' = Scratch
    /\ reply' = [sw |-> "not_allowed", body |-> Scratch]
    /\ UNCHANGED signatures

app_reply_error ==
    /\ Answering({"error"})
    /\ g_tx_state' = IDLE
    /\ io' = Scratch
    /\ reply' = [sw |-> "data_invalid", body |-> Scratch]
    /\ UNCHANGED signatures

\* External: the idle menu of a normal session switches expert mode.
ToggleExpert ==
    /\ app = "running" /\ view = NoView /\ ~called_from_swap
    /\ expert' = ~expert
    /\ UNCHANGED <<app, g_tx_state, txVars, sent, io, view, swapVars, result, reply,
                   signatures, resets>>

\* The app is started from the dashboard or from Exchange with zeroed globals;
\* the settings are kept in flash.
Init ==
    /\ app = "running" /\ g_tx_state = IDLE
    /\ hdPath = NoPath /\ bech32_hrp = NoHrp /\ encoding = "cosmos"
    /\ buffer = <<>> /\ sent = <<>> /\ io = Scratch /\ view = NoView
    /\ expert \in BOOLEAN /\ called_from_swap \in BOOLEAN
    /\ should_exit = FALSE /\ result = "unset"
    /\ reply = [sw |-> "ok", body |-> Scratch]
    /\ signatures = 0 /\ resets = 0

\* It is started again, after it exited or after a loss of power at any point.
Launch ==
    /\ app' = "running" /\ g_tx_state' = IDLE
    /\ hdPath' = NoPath /\ bech32_hrp' = NoHrp /\ encoding' = "cosmos"
    /\ buffer' = <<>> /\ sent' = <<>> /\ io' = Scratch /\ view' = NoView
    /\ called_from_swap' \in BOOLEAN
    /\ should_exit' = FALSE /\ result' = "unset"
    /\ reply' = [sw |-> "ok", body |-> Scratch]
    /\ signatures' = 0 /\ resets' = 0
    /\ UNCHANGED expert

HostCommand ==
    \/ GetVersion
    \/ \E sw \in MalformedCodes : Malformed(sw)
    \/ \E p \in PathArgs, h \in HrpArgs :
          \/ SignInit(p, h)
          \/ \E confirm \in BOOLEAN : handleGetAddr(p, h, confirm)
    \/ \E d \in Payloads :
          \/ SignAdd(d)
          \/ \E type \in TxTypes : SignLast(type, d)

UserAnswer == ApproveTxn \/ app_reply_address \/ app_reject \/ app_reply_error

Next == HostCommand \/ UserAnswer \/ ToggleExpert \/ Launch

Spec == Init /\ [][Next]_vars

\* The user answers what the screen asks, and Exchange's client keeps talking
\* to the app it started.
FairSpec == Spec /\ WF_vars(UserAnswer) /\ WF_vars(HostCommand)

----------------------------------------------------------------------------
(* Correctness properties                                                  *)

\* The type invariant of the session's globals.
TypeOK ==
    /\ app \in {"running", "exited", "panicked"}
    /\ g_tx_state \in TxStates
    /\ hdPath \in Paths \cup {NoPath}
    /\ bech32_hrp \in Hrps \cup {NoHrp}
    /\ encoding \in Encodings
    /\ buffer \in Seq(Chunks) /\ sent \in Seq(Chunks)
    /\ io \in Addresses \cup {Scratch}
    /\ view \in Reviews \cup Addresses \cup {NoView, ErrorScreen}
    /\ expert \in BOOLEAN /\ called_from_swap \in BOOLEAN /\ should_exit \in BOOLEAN
    /\ result \in {"unset", "success", "failure"}
    /\ reply \in [sw : StatusWords, body : Signatures \cup Addresses \cup {Scratch}]
    /\ signatures \in Nat /\ resets \in Nat

\* Whatever the I/O layer does: outside IDLE the path the signature will use
\* is a checked one and the encoding (the hash, the address format) is the one
\* of its coin type, though both are globals that refused commands also write.
SessionArgsChecked ==
    g_tx_state # IDLE =>
        /\ hdPath \in Paths \ BadPaths
        /\ encoding = IF hdPath \in EthPaths THEN "eth" ELSE "cosmos"

\* The document on the screen is valid and is what the signing globals hold,
\* the address on the screen belongs to them: v may still be approved.
ShowsGlobals(v) ==
    /\ v.kind = "txn" =>
         /\ [type |-> v.type, data |-> v.data] \in ValidTxs
         /\ v.data = buffer /\ v.path = hdPath /\ v.enc = encoding
    /\ v.kind = "address" => v = Address(hdPath, bech32_hrp, encoding)

\* Whatever the I/O layer does: while the session is REVIEWING the screen asks
\* about exactly what app_sign or app_reply_address would use now.
ReviewingCoherent ==
    g_tx_state = REVIEWING => view.kind \in {"txn", "address"} /\ ShowsGlobals(view)

\* When commands wait for the pending answer, so does the session: a question
\* on the screen is always about the present globals, and the address it shows
\* is still in the I/O buffer it is answered from.
PendingCoherent ==
    /\ view.kind \in {"txn", "address"} => g_tx_state = REVIEWING /\ ShowsGlobals(view)
    /\ view.kind = "address" => io = view
    /\ view.kind = "error" => g_tx_state = IDLE

Gives(kind) == reply' # reply /\ reply'.body.kind = kind

\* app_sign reads the buffer, path and encoding long after the user read the
\* screen: a signature is for the document, path and encoding of the review
\* just approved, or for the payment Exchange had the user approve.
SignedWasShown ==
    [][Gives("signature") =>
         \/ ~called_from_swap /\ view.kind = "txn" /\ reply'.body = Grant(view)
         \/ called_from_swap /\ \E type \in SignTypes :
              [type |-> type, data |-> reply'.body.data] \in SwapTxs]_vars

\* app_reply_address answers from the I/O buffer: the address approved is the
\* address given.
AddressWasShown == [][app_reply_address => reply'.body = Grant(view)]_vars

\* Coin type 60 is signed for in expert mode only, though the mode is a menu
\* setting that is read when the last chunk arrives, not when the user approves.
EthNeedsExpert ==
    [][Gives("signature") /\ reply'.body.path \in EthPaths => expert]_vars

\* A command refused because another is being processed leaves the upload, the
\* path and the screen as they were: the in-flight request can complete.
RefusalIsHarmless ==
    [][/\ reply' # reply /\ reply'.sw = "not_allowed"
       /\ ~app_reject /\ resets' = resets
       => UNCHANGED <<g_tx_state, txVars, view>>]_vars

\* Whatever the I/O layer does and whatever the client sends on after an error:
\* an open upload holds every payload sent since its P1_INIT, and what is shown
\* for review, or signed out of an upload or a review, is all of it.  No document
\* lacks a chunk in its middle (process_chunk, handleApdu, app_sign).
UploadWhole ==
    [][/\ g_tx_state' = RECEIVING => buffer' = sent'
       /\ g_tx_state' = REVIEWING /\ view'.kind = "txn" => view'.data = sent'
       /\ g_tx_state # IDLE /\ Gives("signature") => reply'.body.data = sent']_vars

\* One launch by Exchange gives out at most one signature, even if resets cut
\* off the reply after which the app should have exited.
SwapSignsOnce == signatures <= 1

\* A running app never stays in REVIEWING, where every upload is refused.
Reviewing == app = "running" /\ g_tx_state = REVIEWING
ReviewEnds == Reviewing ~> ~Reviewing

\* Once it checked a document the app goes back to Exchange, even if its reply
\* or its exit is interrupted by resets.
SwapPending == app = "running" /\ should_exit
SwapEnds == SwapPending ~> ~SwapPending

----------------------------------------------------------------------------
(* What the session promises, see SigningPromise                           *)

Offered == IF view.kind \in {"txn", "address"} THEN view ELSE Scratch
Given == IF reply.body.kind \in {"signature", "address"} THEN reply.body ELSE Scratch

Promise == INSTANCE SigningPromise WITH
    Offers  <- {v \in Reviews : [type |-> v.type, data |-> v.data] \in ValidTxs}
                 \cup Addresses,
    Grant   <- Grant,
    Public  <- Addresses,
    Agreed  <- {s \in Signatures : \E type \in SignTypes :
                  [type |-> type, data |-> s.data] \in SwapTxs},
    Nothing <- Scratch,
    offer   <- Offered,
    given   <- Given,
    swap    <- called_from_swap,
    spent   <- should_exit

\* The session implements the promise when commands wait for a pending answer.
KeepsPromise == Promise!Spec

----------------------------------------------------------------------------
(* Going back to Exchange                                                  *)

\* As long as no reply is cut off, Exchange is told of success only after it
\* sent the app the payment the user agreed on (CheckSwap, Finally).
SuccessMeansAgreed ==
    resets = 0 /\ result = "success" =>
        \E type \in SignTypes : [type |-> type, data |-> buffer] \in SwapTxs

\* tx.c: the panic quit "should never trigger".
FailsafeNeverTriggers == app # "panicked"
=============================================================================
