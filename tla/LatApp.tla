------------------------------- MODULE LatApp -------------------------------
(***************************************************************************)
(* The application around the parser: the APDU loop and its dispatcher     *)
(* (src/main.c), the command handlers (src_features), the consent screens  *)
(* and their callbacks, the settings, and the loss of the USB connection.  *)
(*                                                                         *)
(* One thread does everything.  It waits for an APDU or a button in        *)
(* io_exchange (phase "WAIT"); a transaction command goes on through the   *)
(* parser ("PARSE") and finalizeParsing ("FINALIZE") before it waits       *)
(* again.  A transaction reaches the device in Pieces pieces, one per      *)
(* APDU; a message in at most Pieces pieces.  What the device hashed,      *)
(* parsed or put on its screen is a sequence of such pieces.               *)
(*                                                                         *)
(* tmpCtx is a union: its members share pathLength and bip32Path (path)    *)
(* and hash; remainingLength lies over the address of tokens[0]; a public  *)
(* key lies over everything, its chain code over tokenSet and              *)
(* currentTokenIndex.  tmpContent is the union of the fields of a          *)
(* transaction and of the SHA-256 of a message.                            *)
(***************************************************************************)
EXTENDS Integers, SequencesExt

CONSTANTS
    Transactions, Messages, Paths, Tokens,
    Creations,    \* the transactions with no destination
    TextsOf,      \* the address, the amount and the fee of a transaction
    PluginTexts,  \* ... that a plugin may have displayed for it instead
    KeyText,      \* the address of a path's key
    ApprovedTexts,  \* what the user approved in the exchange application
    Pieces,       \* APDUs needed for a transaction, at most for a message
    MaxOwed,      \* bound: commands without a reply
    SwapLaunch    \* started by the exchange application, not the dashboard

\* In upper case, as they are compared.  A plugin has no part in the fee.
Texts == [address : Seq(Nat), amount : Seq(Nat), fee : Seq(Nat)]

ASSUME AppAssumption ==
    /\ Creations \subseteq Transactions
    /\ {TextsOf[t] : t \in Transactions} \cup {ApprovedTexts} \subseteq Texts
    /\ \A t \in Transactions :
          PluginTexts[t] \subseteq {texts \in Texts : texts.fee = TextsOf[t].fee}
    /\ KeyText \in [Paths -> Seq(Nat)]
    /\ Pieces \in Nat \ {0}
    /\ MaxOwed \in Nat \ {0}
    /\ SwapLaunch \in BOOLEAN

VARIABLES
    running,                       \* the application has not exited
    phase,                         \* "WAIT", "PARSE" or "FINALIZE"
    inCallback,                    \* ... on behalf of a button, not an APDU
    appState, calledFromSwap, externalPluginIsSet,
    path, hash, remainingLength,   \* tmpCtx
    tokens, tokenSet, currentTokenIndex,
    currentField,                  \* txContext: the next piece, 0 if zeroed
    tmpContent,
    sha3,                          \* what global_sha3 has absorbed
    dataPresent, pluginStatus,
    dataAllowed, contractDetails,  \* N_storage
    screen,                        \* the flow on display
    strings,                       \* what it displays, or what is to be compared
    silentUi,                      \* history: how a transaction got signed in silence
    owed,                          \* commands received minus replies sent
    reply,                         \* the last reply, "NONE" when one is due
    request,                       \* history: what the host last asked to sign
    hostChain,                     \* history: the sequence the host is in
    orderly,                       \* history: the host kept to the protocol
    provisioned                    \* history: the tokens that should be known

control == <<running, phase, inCallback>>
tokenContext == <<tokens, tokenSet, currentTokenIndex, provisioned>>
tmpCtx == <<path, hash, remainingLength, tokenContext>>
session == <<appState, calledFromSwap, externalPluginIsSet, tmpCtx, currentField,
             tmpContent>>
dataContext == <<dataPresent, pluginStatus>>
storage == <<dataAllowed, contractDetails>>
ux == <<screen, strings>>
host == <<request, hostChain, orderly>>
vars == <<control, session, sha3, dataContext, storage, ux, owed, reply, host, silentUi>>

-----------------------------------------------------------------------------
Slots == 0..1  \* MAX_TOKEN

ConsentScreens == {"ADDRESS", "MESSAGE", "DATA", "TX", "PLUGIN"}

\* The piece k of a payload; other things that get hashed or displayed.
Piece(payload, k) == <<payload, k>>
LengthHeader(n) == <<"LENGTH", n>>
Address(p) == <<"ADDRESS", p>>
ContractData == <<"CONTRACT_DATA", 0>>
Destination == <<"DESTINATION", 0>>
ApprovedShown == <<"APPROVED", 0>>

Blank == [s \in Slots |-> "NONE"]
NoneSet == [s \in Slots |-> FALSE]

\* getKnownToken.
Known(token) == \E s \in Slots : tokenSet[s] /\ tokens[s] = token

\* The last two.
LastTwo(seq) == IF Len(seq) <= 2 THEN seq ELSE Tail(seq)

-----------------------------------------------------------------------------
(* Replies and resets.                                                     *)

Send(r) ==
    /\ owed' = owed - 1
    /\ reply' = r

TmpCtxZeroed ==
    /\ path' = "NONE"
    /\ hash' = <<>>
    /\ remainingLength' = 0
    /\ tokens' = Blank
    /\ tokenSet' = NoneSet
    /\ currentTokenIndex' = 0
    /\ provisioned' = <<>>

\* Wrong on purpose: tmpContent is left as it is.
ResetKeepsContent ==
    /\ TmpCtxZeroed
    /\ appState' = "IDLE"
    /\ calledFromSwap' = FALSE
    /\ externalPluginIsSet' = FALSE
    /\ currentField' = 0
    /\ UNCHANGED tmpContent

\* Wrong on purpose: the application stays in swap mode.
ResetKeepsSwap ==
    /\ TmpCtxZeroed
    /\ appState' = "IDLE"
    /\ externalPluginIsSet' = FALSE
    /\ currentField' = 0
    /\ tmpContent' = <<>>
    /\ UNCHANGED calledFromSwap

\* reset_app_context.
ResetAppContext ==
    /\ TmpCtxZeroed
    /\ appState' = "IDLE"
    /\ calledFromSwap' = FALSE
    /\ externalPluginIsSet' = FALSE
    /\ currentField' = 0
    /\ tmpContent' = <<>>

\* A value that reset_app_context has zeroed when unfinished, kept otherwise.
ResetIf(unfinished, zero, kept) == IF unfinished THEN zero ELSE kept

-----------------------------------------------------------------------------
(* The host.  It is orderly while it waits for replies, sends the next     *)
(* piece only in the sequence it started, and provisions tokens and        *)
(* plugins immediately before a transaction.  The exchange application     *)
(* asks for no public key in the middle of a sequence.                     *)

Receive(inOrder) ==
    /\ running
    /\ phase = "WAIT"
    /\ owed < MaxOwed
    /\ orderly' = (orderly /\ owed <= 0 /\ inOrder)

\* A command answered at once.
AnswerCommand(r) ==
    /\ owed' = owed
    /\ reply' = r

\* A command whose reply comes later.
Accept ==
    /\ owed' = owed + 1
    /\ reply' = "NONE"

-----------------------------------------------------------------------------
(* Commands without a user.                                                *)

\* handleApdu, CATCH_OTHER: an unknown class or instruction, and whatever a
\* handler refuses before it did anything that outlives the reset.
RefuseCommand ==
    /\ Receive(TRUE)
    /\ ResetAppContext
    /\ AnswerCommand("ERROR")
    /\ hostChain' = "NONE"
    /\ UNCHANGED <<control, sha3, dataContext, storage, silentUi, ux, request>>

GetAppConfiguration ==
    /\ Receive(TRUE)
    /\ AnswerCommand("OK")
    /\ UNCHANGED <<control, session, sha3, dataContext, storage, silentUi, ux, request,
                   hostChain>>

\* Wrong on purpose: the slot of the previous token is used again.
NextSlotStuck == currentTokenIndex

NextSlot == (currentTokenIndex + 1) % 2

\* A verified descriptor takes the older slot.
ProvideToken(token) ==
    /\ Receive(hostChain = "NONE")
    /\ currentTokenIndex' = NextSlot
    /\ tokens' = [tokens EXCEPT ![NextSlot] = token]
    /\ tokenSet' = [tokenSet EXCEPT ![NextSlot] = TRUE]
    /\ remainingLength' = IF NextSlot = 0 THEN Pieces ELSE remainingLength
    /\ provisioned' = LastTwo(Append(provisioned, token))
    /\ AnswerCommand("PROVISIONED")
    /\ hostChain' = "NONE"
    /\ UNCHANGED <<control, appState, calledFromSwap, externalPluginIsSet, path, hash,
                   currentField, tmpContent, sha3, dataContext, storage, silentUi, ux,
                   request>>

\* A verified plugin that is on the device.
SetExternalPlugin ==
    /\ Receive(hostChain = "NONE")
    /\ externalPluginIsSet' = TRUE
    /\ AnswerCommand("OK")
    /\ hostChain' = "NONE"
    /\ UNCHANGED <<control, appState, calledFromSwap, tmpCtx, currentField, tmpContent,
                   sha3, dataContext, storage, silentUi, ux, request>>

\* The chain code covers tokenSet and currentTokenIndex: any bytes.
GetPublicKey(p, confirm, chaincode) ==
    /\ Receive(calledFromSwap => hostChain = "NONE")
    /\ LET reset == ~calledFromSwap IN
       /\ appState' = ResetIf(reset, "IDLE", appState)
       /\ externalPluginIsSet' = ResetIf(reset, FALSE, externalPluginIsSet)
       /\ currentField' = ResetIf(reset, 0, currentField)
       /\ tmpContent' = ResetIf(reset, <<>>, tmpContent)
       /\ IF chaincode
          THEN tokenSet' \in [Slots -> BOOLEAN] /\ currentTokenIndex' \in Slots
          ELSE /\ tokenSet' = NoneSet
               /\ currentTokenIndex' = ResetIf(reset, 0, currentTokenIndex)
    /\ path' = "PUBLIC_KEY"
    /\ hash' = <<Address(p)>>
    /\ remainingLength' = Pieces
    /\ tokens' = [s \in Slots |-> "PUBLIC_KEY"]
    /\ provisioned' = <<>>
    /\ sha3' = <<Address(p)>>
    /\ hostChain' = "NONE"
    /\ IF confirm
       THEN Accept /\ screen' = "ADDRESS" /\ strings' = <<Address(p)>>
       ELSE AnswerCommand("OK") /\ UNCHANGED ux
    /\ UNCHANGED <<control, calledFromSwap, dataContext, storage, silentUi, request>>

-----------------------------------------------------------------------------
(* Signing a transaction: handleSign, the parser, finalizeParsing.         *)

\* The dispatcher's entry into the parser.
Parse(callback) ==
    /\ phase' = "PARSE"
    /\ inCallback' = callback
    /\ UNCHANGED running

\* A handler or a callback is over.
Wait ==
    /\ phase' = "WAIT"
    /\ inCallback' = FALSE
    /\ UNCHANGED running

\* Wrong on purpose: the context of an unfinished session is kept.
UnfinishedNever == FALSE

\* appState tells that a session is open.
Unfinished == appState # "IDLE"

SignFirst(t, p) ==
    /\ Receive(TRUE)
    /\ Accept
    /\ appState' = "SIGNING_TX"
    /\ calledFromSwap' = ResetIf(Unfinished, FALSE, calledFromSwap)
    /\ externalPluginIsSet' = ResetIf(Unfinished, FALSE, externalPluginIsSet)
    /\ path' = p
    /\ hash' = ResetIf(Unfinished, <<>>, hash)
    /\ remainingLength' = ResetIf(Unfinished, 0, remainingLength)
    /\ tokens' = ResetIf(Unfinished, Blank, tokens)
    /\ tokenSet' = ResetIf(Unfinished, NoneSet, tokenSet)
    /\ currentTokenIndex' = ResetIf(Unfinished, 0, currentTokenIndex)
    /\ provisioned' = ResetIf(Unfinished, <<>>, provisioned)
    /\ dataPresent' = FALSE
    /\ pluginStatus' = "UNAVAILABLE"
    /\ currentField' = 2
    /\ tmpContent' = Append(ResetIf(Unfinished, <<>>, tmpContent), Piece(t, 1))
    /\ sha3' = <<Piece(t, 1)>>
    /\ request' = [payload |-> t, path |-> p]
    /\ hostChain' = "NONE"
    /\ Parse(FALSE)
    /\ UNCHANGED <<storage, silentUi, ux>>

\* The type of the transaction is not supported: dataPresent and pluginStatus
\* have been reset, reset_app_context does the rest.
RefuseType ==
    /\ Receive(TRUE)
    /\ ResetAppContext
    /\ AnswerCommand("ERROR")
    /\ dataPresent' = FALSE
    /\ pluginStatus' = "UNAVAILABLE"
    /\ hostChain' = "NONE"
    /\ UNCHANGED <<control, sha3, storage, silentUi, ux, request>>

\* Wrong on purpose: the parser goes on after the last field.
SignMorePastTheEnd(t) ==
    /\ appState = "SIGNING_TX"
    /\ currentField # 0
    /\ Receive(hostChain = "TX" /\ t = request.payload)
    /\ Accept
    /\ currentField' = currentField + 1
    /\ tmpContent' = Append(tmpContent, Piece(t, currentField))
    /\ sha3' = Append(sha3, Piece(t, currentField))
    /\ hostChain' = "NONE"
    /\ Parse(FALSE)
    /\ UNCHANGED <<appState, calledFromSwap, externalPluginIsSet, tmpCtx, dataContext,
                   storage, silentUi, ux, request>>

\* The next piece of the transaction.
SignMore(t) ==
    /\ appState = "SIGNING_TX"
    /\ currentField # 0
    /\ Receive(hostChain = "TX" /\ t = request.payload)
    /\ Accept
    /\ IF currentField <= Pieces
       THEN /\ currentField' = currentField + 1
            /\ tmpContent' = Append(tmpContent, Piece(t, currentField))
            /\ sha3' = Append(sha3, Piece(t, currentField))
       ELSE UNCHANGED <<currentField, tmpContent, sha3>>
    /\ hostChain' = "NONE"
    /\ Parse(FALSE)
    /\ UNCHANGED <<appState, calledFromSwap, externalPluginIsSet, tmpCtx, dataContext,
                   storage, silentUi, ux, request>>

RefuseMore ==
    /\ appState # "SIGNING_TX" \/ currentField = 0
    /\ Receive(FALSE)
    /\ ResetAppContext
    /\ AnswerCommand("ERROR")
    /\ hostChain' = "NONE"
    /\ UNCHANGED <<control, sha3, dataContext, storage, silentUi, ux, request>>

\* ui_idle.
ShowIdle ==
    /\ screen' = "IDLE"
    /\ strings' = <<>>

\* A callback goes back to the idle flow, a handler leaves the screen alone.
IdleIfCallback ==
    /\ screen' = IF inCallback THEN "IDLE" ELSE screen
    /\ strings' = IF inCallback THEN <<>> ELSE strings

\* The transactions that the parsed pieces are of.  A host that mixes several is
\* taken to have sent one of them.
Received == {tmpContent[i][1] : i \in DOMAIN tmpContent}

\* There is a destination.
CallsContract == ~(Received \subseteq Creations)

\* customProcessor at the start of the data.  With the details displayed no
\* plugin is looked for, nor for the code of a new contract.
MeetData ==
    /\ phase = "PARSE"
    /\ currentField # 0
    /\ ~dataPresent
    /\ dataPresent' = TRUE
    /\ pluginStatus' \in IF contractDetails \/ ~CallsContract
                          THEN {"UNAVAILABLE"} ELSE {"UNAVAILABLE", "OK"}
    /\ UNCHANGED <<control, session, sha3, storage, silentUi, ux, owed, reply, host>>

\* lat_plugin_perform_init: the external plugin is for another contract.
PluginMismatch ==
    /\ phase = "PARSE"
    /\ currentField # 0
    /\ ~dataPresent
    /\ externalPluginIsSet
    /\ ~contractDetails
    /\ CallsContract
    /\ running' = FALSE
    /\ phase' = "WAIT"
    /\ UNCHANGED <<inCallback, session, sha3, dataContext, storage, silentUi, ux, owed,
                   reply, host>>

\* Wrong on purpose: the callback forgets to answer.
ParseProcessingSilent ==
    /\ phase = "PARSE"
    /\ currentField <= Pieces
    /\ IF inCallback THEN UNCHANGED <<owed, reply>> ELSE Send("OK")
    /\ IdleIfCallback
    /\ hostChain' = "TX"
    /\ Wait
    /\ UNCHANGED <<session, sha3, dataContext, storage, silentUi, request, orderly>>

\* USTREAM_PROCESSING: the host may send the next piece.
ParseProcessing ==
    /\ phase = "PARSE"
    /\ currentField <= Pieces
    /\ Send("OK")
    /\ IdleIfCallback
    /\ hostChain' = "TX"
    /\ Wait
    /\ UNCHANGED <<session, sha3, dataContext, storage, silentUi, request, orderly>>

\* USTREAM_FAULT.
ParseFault ==
    /\ phase = "PARSE"
    /\ ResetAppContext
    /\ Send("ERROR")
    /\ IdleIfCallback
    /\ Wait
    /\ UNCHANGED <<sha3, dataContext, storage, silentUi, host>>

\* USTREAM_SUSPENDED: a piece of the data is on display.
ParseSuspended ==
    /\ phase = "PARSE"
    /\ currentField # 0
    /\ dataPresent
    /\ pluginStatus = "UNAVAILABLE"
    /\ contractDetails
    /\ CallsContract
    /\ screen' = "DATA"
    /\ strings' = <<ContractData>>
    /\ Wait
    /\ UNCHANGED <<session, sha3, dataContext, storage, silentUi, owed, reply, host>>

\* USTREAM_FINISHED: after the last field, or when a piece ends before v.
ParseFinished ==
    /\ phase = "PARSE"
    /\ currentField >= Pieces
    /\ phase' = "FINALIZE"
    /\ UNCHANGED <<running, inCallback, session, sha3, dataContext, storage, silentUi, ux,
                   owed, reply, host>>

-----------------------------------------------------------------------------
(* finalizeParsing.  A plugin shows its own screens ("GENERIC"), fills in  *)
(* the amount and the address, or falls back on the display of a           *)
(* transaction without plugin.                                             *)

UiTypes == IF pluginStatus = "OK" THEN {"GENERIC", "AMOUNT_ADDRESS", "FALLBACK"}
                                  ELSE {"FALLBACK"}

GenericUI(ui) == ui # "GENERIC"

DataPresent(ui) == ui = "FALLBACK" /\ dataPresent

\* Wrong on purpose: the setting is not looked at again.
DataAcceptedAlways(ui) == TRUE

DataAccepted(ui) == DataPresent(ui) => dataAllowed

\* The digest that will be signed.  Formatting the destination uses global_sha3.
StoreHash ==
    /\ hash' = sha3
    /\ sha3' = <<Destination>>

\* reportFinalizeError: another chain, a plugin that fails, forbidden data.
FinalizeError ==
    /\ phase = "FINALIZE"
    /\ ResetAppContext
    /\ Send("ERROR")
    /\ ShowIdle
    /\ sha3' \in {sha3, <<Destination>>}
    /\ dataPresent' \in {dataPresent, FALSE}
    /\ Wait
    /\ UNCHANGED <<pluginStatus, storage, silentUi, host>>

\* The user is asked.
FinalizeAsk(ui) ==
    /\ phase = "FINALIZE"
    /\ ui \in UiTypes
    /\ ~calledFromSwap
    /\ DataAccepted(ui)
    /\ StoreHash
    /\ dataPresent' = DataPresent(ui)
    /\ screen' = IF GenericUI(ui) THEN "TX" ELSE "PLUGIN"
    /\ strings' = tmpContent
    /\ Wait
    /\ UNCHANGED <<appState, calledFromSwap, externalPluginIsSet, path, remainingLength,
                   tokenContext, currentField, tmpContent, pluginStatus, storage, silentUi,
                   owed, reply, host>>

\* The texts that finalizeParsing makes of t.
ParsedTexts(t, ui) == IF ui = "AMOUNT_ADDRESS" THEN PluginTexts[t] ELSE {TextsOf[t]}

\* strings.common.fullAddress holds what was approved, or what GET PUBLIC KEY put
\* there.  What other screens leave in its place, digits of the data or words of
\* the settings, is the beginning of no address.
AddressAsApproved(text) ==
    \/ strings = <<ApprovedShown>> /\ IsPrefix(ApprovedTexts.address, text)
    \/ \E p \in Paths : strings = <<Address(p)>> /\ IsPrefix(KeyText[p], text)

\* Wrong on purpose: the amount is not compared.
AsApprovedAnyAmount(t, texts) ==
    /\ t \in Creations \/ AddressAsApproved(texts.address)
    /\ IsPrefix(ApprovedTexts.fee, texts.fee)

\* compareOrCopy, up to the end of the approved text.  The display of a
\* creation has no address to compare.
AsApproved(t, texts) ==
    /\ t \in Creations \/ AddressAsApproved(texts.address)
    /\ IsPrefix(ApprovedTexts.amount, texts.amount)
    /\ IsPrefix(ApprovedTexts.fee, texts.fee)

\* The approval is the one given in the exchange application: sign and exit.
FinalizeSilently(ui) ==
    /\ phase = "FINALIZE"
    /\ ui \in UiTypes
    /\ calledFromSwap
    /\ DataAccepted(ui)
    /\ GenericUI(ui) =>
          \E t \in Received : \E texts \in ParsedTexts(t, ui) : AsApproved(t, texts)
    /\ silentUi' = ui
    /\ StoreHash
    /\ dataPresent' = DataPresent(ui)
    /\ Send("SIGNATURE")
    /\ running' = FALSE
    /\ phase' = "WAIT"
    /\ UNCHANGED <<inCallback, appState, calledFromSwap, externalPluginIsSet, path,
                   remainingLength, tokenContext, currentField, tmpContent, pluginStatus,
                   storage, ux, host>>

\* ERR_SILENT_MODE_CHECK_FAILED is thrown through the handler or the callback:
\* the screen stays, and the application is no longer in swap mode.
FinalizeMismatch(ui) ==
    /\ phase = "FINALIZE"
    /\ ui \in UiTypes
    /\ calledFromSwap
    /\ DataAccepted(ui)
    /\ GenericUI(ui)
    /\ \E t \in Received : \E texts \in ParsedTexts(t, ui) : ~AsApproved(t, texts)
    /\ ResetAppContext
    /\ Send("ERROR")
    /\ sha3' = <<Destination>>
    /\ dataPresent' = DataPresent(ui)
    /\ Wait
    /\ UNCHANGED <<pluginStatus, storage, silentUi, ux, host>>

-----------------------------------------------------------------------------
(* Signing a message.                                                      *)

\* The pieces of m from position from on.
PiecesOf(m, from, n) == [i \in 1..n |-> Piece(m, from + i)]

\* The common end of the two commands: the digests and the remaining length
\* with the new pieces taken, and what was in the place of the hash.
TakePieces(digest, sha2, left, kept) ==
    /\ sha3' = digest
    /\ tmpContent' = sha2
    /\ remainingLength' = left
    /\ IF left = 0
       THEN /\ hash' = digest
            /\ screen' = "MESSAGE"
            /\ strings' = sha2
            /\ Accept
            /\ hostChain' = "NONE"
       ELSE /\ AnswerCommand("OK")
            /\ hostChain' = "MESSAGE"
            /\ hash' = kept
            /\ UNCHANGED ux

\* FIRST announces the length and brings the first n pieces.
MessageFirst(m, p, announced, n) ==
    /\ n <= announced
    /\ Receive(TRUE)
    /\ appState' = "SIGNING_MESSAGE"
    /\ calledFromSwap' = ResetIf(Unfinished, FALSE, calledFromSwap)
    /\ externalPluginIsSet' = ResetIf(Unfinished, FALSE, externalPluginIsSet)
    /\ path' = p
    /\ tokens' = [ResetIf(Unfinished, Blank, tokens) EXCEPT ![0] = "LENGTH"]
    /\ tokenSet' = NoneSet
    /\ currentTokenIndex' = ResetIf(Unfinished, 0, currentTokenIndex)
    /\ provisioned' = <<>>
    /\ currentField' = ResetIf(Unfinished, 0, currentField)
    /\ TakePieces(<<LengthHeader(announced)>> \o PiecesOf(m, 0, n), PiecesOf(m, 0, n),
                  announced - n, ResetIf(Unfinished, <<>>, hash))
    /\ request' = [payload |-> m, path |-> p]
    /\ UNCHANGED <<control, dataContext, storage, silentUi>>

\* The dispatcher forgets the tokens before the handler looks at anything.
MessageMore(m, n) ==
    /\ appState = "SIGNING_MESSAGE"
    /\ n <= remainingLength
    /\ Len(tmpContent) + n <= Pieces
    /\ Receive(hostChain = "MESSAGE" /\ m = request.payload)
    /\ tokens' = [tokens EXCEPT ![0] = "LENGTH"]
    /\ tokenSet' = NoneSet
    /\ provisioned' = <<>>
    /\ TakePieces(sha3 \o PiecesOf(m, Len(tmpContent), n),
                  tmpContent \o PiecesOf(m, Len(tmpContent), n), remainingLength - n,
                  hash)
    /\ UNCHANGED <<control, appState, calledFromSwap, externalPluginIsSet, path,
                   currentTokenIndex, currentField, dataContext, storage, silentUi,
                   request>>

\* No message is being signed, or it is longer than announced.
RefuseMessageMore(n) ==
    /\ appState # "SIGNING_MESSAGE" \/ n > remainingLength
    /\ Receive(appState = "SIGNING_MESSAGE" /\ hostChain = "MESSAGE")
    /\ ResetAppContext
    /\ AnswerCommand("ERROR")
    /\ hostChain' = "NONE"
    /\ UNCHANGED <<control, sha3, dataContext, storage, silentUi, ux, request>>

-----------------------------------------------------------------------------
(* The user.                                                               *)

Press(screens) ==
    /\ running
    /\ phase = "WAIT"
    /\ screen \in screens

\* Every callback but the one that signs a transaction resets first.
Conclude(r) ==
    /\ ResetAppContext
    /\ Send(r)
    /\ ShowIdle
    /\ UNCHANGED <<control, sha3, dataContext, storage, silentUi, host>>

\* io_seproxyhal_touch_tx_ok and _cancel.
TxOk == Press({"TX", "PLUGIN"}) /\ Conclude("SIGNATURE")
TxCancel == Press({"TX", "PLUGIN"}) /\ Conclude("ERROR")

\* io_seproxyhal_touch_signMessage_ok and _cancel.
SignMessageOk == Press({"MESSAGE"}) /\ Conclude("SIGNATURE")
SignMessageCancel == Press({"MESSAGE"}) /\ Conclude("ERROR")

\* io_seproxyhal_touch_address_ok and _cancel.
AddressOk == Press({"ADDRESS"}) /\ Conclude("OK")
AddressCancel == Press({"ADDRESS"}) /\ Conclude("ERROR")

\* io_seproxyhal_touch_data_ok and _cancel.
DataOk ==
    /\ Press({"DATA"})
    /\ Parse(TRUE)
    /\ UNCHANGED <<session, sha3, dataContext, storage, silentUi, ux, owed, reply, host>>

DataCancel == Press({"DATA"}) /\ Conclude("ERROR")

\* The settings flow.
SwitchSetting ==
    /\ Press({"IDLE"})
    /\ \/ dataAllowed' = ~dataAllowed /\ UNCHANGED contractDetails
       \/ contractDetails' = ~contractDetails /\ UNCHANGED dataAllowed
    /\ UNCHANGED <<control, session, sha3, dataContext, ux, owed, reply, host, silentUi>>

-----------------------------------------------------------------------------
(* EXCEPTION_IO_RESET: USB power is lost while io_exchange waits.          *)

\* coin_main restarts the IO and the screen, and keeps the session.  What the
\* host was waiting for is lost.
Restart ==
    /\ ShowIdle
    /\ owed' = 0
    /\ hostChain' = "NONE"
    /\ UNCHANGED <<control, session, sha3, dataContext, storage, silentUi, request,
                   orderly>>

IoReset ==
    /\ running
    /\ phase = "WAIT"
    /\ ~SwapLaunch
    /\ Restart
    /\ UNCHANGED reply

\* In touch_tx_ok, which replies before it resets.
IoResetAfterSignature ==
    /\ Press({"TX", "PLUGIN"})
    /\ ~SwapLaunch
    /\ reply' = "SIGNATURE"
    /\ Restart

\* Nothing restarts the application when it runs as a library.
IoResetInLibrary ==
    /\ running
    /\ phase = "WAIT"
    /\ SwapLaunch
    /\ running' = FALSE
    /\ UNCHANGED <<phase, inCallback, session, sha3, dataContext, storage, silentUi, ux,
                   owed, reply, host>>

-----------------------------------------------------------------------------

Init ==
    /\ running = TRUE
    /\ phase = "WAIT"
    /\ inCallback = FALSE
    /\ appState = "IDLE"
    /\ calledFromSwap = SwapLaunch
    /\ externalPluginIsSet = FALSE
    /\ path = "NONE"
    /\ hash = <<>>
    /\ remainingLength = 0
    /\ tokens = Blank
    /\ tokenSet = NoneSet
    /\ currentTokenIndex = 0
    /\ currentField = 0
    /\ tmpContent = <<>>
    /\ sha3 = <<>>
    /\ dataPresent = FALSE
    /\ pluginStatus = "UNAVAILABLE"
    /\ dataAllowed \in BOOLEAN
    /\ contractDetails \in BOOLEAN
    /\ screen = IF SwapLaunch THEN "NONE" ELSE "IDLE"
    /\ strings = IF SwapLaunch THEN <<ApprovedShown>> ELSE <<>>
    /\ silentUi = "NONE"
    /\ owed = 0
    /\ reply = "NONE"
    /\ request = [payload |-> "NONE", path |-> "NONE"]
    /\ hostChain = "NONE"
    /\ orderly = TRUE
    /\ provisioned = <<>>

Command ==
    \/ RefuseCommand \/ GetAppConfiguration \/ SetExternalPlugin
    \/ \E token \in Tokens : ProvideToken(token)
    \/ \E p \in Paths, confirm, chaincode \in BOOLEAN : GetPublicKey(p, confirm, chaincode)
    \/ \E t \in Transactions, p \in Paths : SignFirst(t, p)
    \/ RefuseType
    \/ \E t \in Transactions : SignMore(t)
    \/ RefuseMore
    \/ \E m \in Messages, p \in Paths, announced, n \in 0..Pieces :
           MessageFirst(m, p, announced, n)
    \/ \E m \in Messages, n \in 0..Pieces : MessageMore(m, n)
    \/ \E n \in 0..Pieces : RefuseMessageMore(n)

Process ==
    \/ MeetData \/ PluginMismatch
    \/ ParseProcessing \/ ParseFault \/ ParseSuspended \/ ParseFinished
    \/ FinalizeError
    \/ \E ui \in UiTypes : FinalizeAsk(ui) \/ FinalizeSilently(ui) \/ FinalizeMismatch(ui)

User ==
    \/ TxOk \/ TxCancel \/ SignMessageOk \/ SignMessageCancel
    \/ AddressOk \/ AddressCancel \/ DataOk \/ DataCancel
    \/ SwitchSetting

Next == Command \/ Process \/ User \/ IoReset \/ IoResetAfterSignature \/ IoResetInLibrary

Spec == Init /\ [][Next]_vars

-----------------------------------------------------------------------------
(* Properties.                                                             *)

Payloads == Transactions \cup Messages

PayloadPiece == Payloads \X (1..Pieces)

Chunk ==
    PayloadPiece \cup ({"LENGTH"} \X (0..Pieces)) \cup ({"ADDRESS"} \X Paths)
        \cup {ContractData, Destination, ApprovedShown}

Screens == ConsentScreens \cup {"NONE", "IDLE"}

TypeOK ==
    /\ running \in BOOLEAN
    /\ phase \in {"WAIT", "PARSE", "FINALIZE"}
    /\ inCallback \in BOOLEAN
    /\ appState \in {"IDLE", "SIGNING_TX", "SIGNING_MESSAGE"}
    /\ calledFromSwap \in BOOLEAN
    /\ externalPluginIsSet \in BOOLEAN
    /\ path \in Paths \cup {"NONE", "PUBLIC_KEY"}
    /\ hash \in Seq(Chunk)
    /\ remainingLength \in 0..Pieces
    /\ tokens \in [Slots -> Tokens \cup {"NONE", "LENGTH", "PUBLIC_KEY"}]
    /\ tokenSet \in [Slots -> BOOLEAN]
    /\ currentTokenIndex \in Slots
    /\ currentField \in 0 .. Pieces + 1
    /\ tmpContent \in Seq(PayloadPiece)
    /\ sha3 \in Seq(Chunk)
    /\ dataPresent \in BOOLEAN
    /\ pluginStatus \in {"UNAVAILABLE", "OK"}
    /\ dataAllowed \in BOOLEAN
    /\ contractDetails \in BOOLEAN
    /\ screen \in Screens
    /\ strings \in Seq(Chunk)
    /\ silentUi \in {"NONE", "GENERIC", "AMOUNT_ADDRESS", "FALLBACK"}
    /\ owed \in Int
    /\ reply \in {"NONE", "OK", "PROVISIONED", "ERROR", "SIGNATURE"}
    /\ request \in [payload : Payloads \cup {"NONE"}, path : Paths \cup {"NONE"}]
    /\ hostChain \in {"NONE", "TX", "MESSAGE"}
    /\ orderly \in BOOLEAN
    /\ provisioned \in Seq(Tokens)

\* The application waits, with an orderly host, and not for the exchange
\* application: a mismatch in swap mode leaves the screen as it is.
Waiting == running /\ phase = "WAIT" /\ orderly /\ ~SwapLaunch

\* Every command gets one reply: while the application waits, a reply is owed
\* exactly when a screen asks the user for it (IO_ASYNCH_REPLY,
\* main.c:333 and 365, and every handler and callback of src_features).
OneReply ==
    Waiting =>
        owed = IF screen \in ConsentScreens THEN 1 ELSE 0

\* The first pieces of a payload.  A transaction may end where v is left out.
BeginningOf(seq, payload) == seq = PiecesOf(payload, 0, Len(seq))

\* What a button is about to sign is what the host asked for and the screen
\* displays, with the key it asked for: the digest covers the pieces that were
\* parsed or displayed and nothing left by another session, although tmpCtx
\* and tmpContent are shared by all commands and survive a lost connection.
SignsWhatIsShown ==
    Waiting =>
        /\ screen \in {"TX", "PLUGIN"} =>
             /\ BeginningOf(strings, request.payload) /\ strings # <<>>
             /\ hash = strings
        /\ screen = "MESSAGE" =>
             /\ BeginningOf(strings, request.payload)
             /\ hash = <<LengthHeader(Len(strings))>> \o strings
        /\ screen \in {"TX", "PLUGIN", "MESSAGE"} => path = request.path

\* Whatever the host sends and whenever the connection is lost, a session
\* starts from a zeroed content: handleSign and handleSignPersonalMessage
\* reset only when appState is not idle (cmd_signTx.c:20, cmd_signMessage.c:28).
CleanWhenIdle == appState = "IDLE" => tmpContent = <<>> /\ currentField = 0

\* Contract data is signed only with the setting on at the time of the consent,
\* although the user may switch it between two pieces (logic_signTx.c:348), and
\* pieces of data are displayed only to a user who wants the details.
ConsentFollowsSettings ==
    Waiting =>
        /\ screen = "TX" /\ dataPresent => dataAllowed
        /\ screen = "DATA" => contractDetails

\* "2 tickers can be temporarily provisioned"
\* (doc/lat_contract_support_embedded.md:85): until the context is wiped the
\* last two verified tokens are found, wherever currentTokenIndex starts.
ProvisionedFound == \A i \in DOMAIN provisioned : Known(provisioned[i])

\* Started by the exchange application, a transaction is signed without a
\* screen only for the host's own request, with the key that was asked for, and
\* with texts that begin as the approved ones: those a plugin gave, if it left
\* the display to the application, else the transaction's own.  Not compared,
\* as in the code (logic_signTx.c:171-183 and 355-389), are the address of a
\* creation, what comes behind the end of an approved text, the nonce, the data,
\* how the fee splits into price and gas, and anything at all when a plugin has
\* screens of its own, which are then not shown either.
SilentOnlyIfApproved ==
    [][running /\ ~running' /\ reply' # reply /\ orderly =>
          /\ path = request.path
          /\ hash' # <<>> /\ BeginningOf(hash', request.payload)
          /\ \/ silentUi' = "GENERIC"
             \/ \E texts \in ParsedTexts(request.payload, silentUi') :
                   /\ \/ request.payload \in Creations
                      \/ IsPrefix(ApprovedTexts.address, texts.address)
                   /\ IsPrefix(ApprovedTexts.amount, texts.amount)
                   /\ IsPrefix(ApprovedTexts.fee, texts.fee)]_vars

\* After an error no transaction is signed without a screen.
ErrorEndsSwap == reply = "ERROR" => ~calledFromSwap
=============================================================================
