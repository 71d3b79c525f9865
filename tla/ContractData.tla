---------------------------- MODULE ContractData ----------------------------
(***************************************************************************)
(* The data of a contract call on its way from the parser to the user:     *)
(* customProcessor gives it word by word to a plugin, or to the screen     *)
(* ("Debug data" on), or lets it go by; finalizeParsing asks the plugin    *)
(* what to display and ux_approve_tx builds the consent screens.           *)
(*                                                                         *)
(* The byte at position p of the data of the n-th transaction is the pair  *)
(* <<n, p>>, so what a plugin or the user was given can be told from what  *)
(* should have been.  dataContext survives reset_app_context: only what is *)
(* written here is new in a transaction.                                   *)
(***************************************************************************)
EXTENDS Plugins

CONSTANTS
    Transactions,     \* records: selector, length, creation, valueZero
    ExternalTargets,  \* what SET EXTERNAL PLUGIN may announce a plugin for
    IndexModulus,     \* fieldIndex is a byte: 256
    Launches,         \* values of called_from_swap at the start
    MaxBlock, MaxTransactions, MaxSwitches  \* bounds

\* A selector fits in the buffer of a word, and fieldIndex tells the words that
\* internal plugins know, and the next, apart.
ASSUME DataAssumption ==
    /\ Transactions \subseteq [selector : STRING, length : Nat,
                               creation : BOOLEAN, valueZero : BOOLEAN]
    /\ SelectorLength <= WordLength
    /\ IndexModulus \in Nat /\ IndexModulus > 2
    /\ Launches \subseteq BOOLEAN
    /\ MaxBlock \in Nat /\ MaxTransactions \in Nat /\ MaxSwitches \in Nat

VARIABLES
    tx, serial,                       \* the transaction, and how many there were
    left, pos,                        \* commandLength, currentFieldPos
    status,
    calledFromSwap, dataAllowed, contractDetails,
    dataPresent,
    pluginName, pluginStatus, fieldIndex, fieldOffset, data,  \* tokenContext
    target,                           \* contract_address and method_selector, ...
    context,                          \* ... over pluginContext: a union
    externalPluginIsSet,
    consent,                          \* what the user is asked
    shown, given,                     \* history: words displayed, words given to a plugin
    initialised,                      \* history: the plugin that got INIT
    switches                          \* history: settings switched, during this data

parser == <<left, pos, status>>
settings == <<dataAllowed, contractDetails, switches>>
plugin == <<pluginName, pluginStatus>>
words == <<fieldIndex, fieldOffset, data>>
tokenContext == <<plugin, words, target, context>>
session == <<calledFromSwap, externalPluginIsSet>>
history == <<shown, given, initialised>>
vars == <<tx, serial, parser, session, settings, dataPresent, tokenContext, consent, history>>

Smaller(m, n) == IF m < n THEN m ELSE n

NoTransaction == [selector |-> "NONE", length |-> 0, creation |-> FALSE, valueZero |-> TRUE]
NoConsent == [ui |-> "NONE"]

\* Words that are in no transaction: zeros, a contract address.
Zero == [i \in 0 .. WordLength - 1 |-> <<0, 0>>]
Overlaid == [i \in 0 .. WordLength - 1 |-> <<0, 1>>]

\* The screen is idle: nothing in progress, or another block is due.
Over == {"IDLE", "FAULT", "REFUSED"}
Waiting == Over \cup {"PROCESSING", "TAIL"}

\* reset_app_context, as far as it reaches here.
Reset == calledFromSwap' = FALSE /\ externalPluginIsSet' = FALSE

-----------------------------------------------------------------------------
(* The host and the settings.                                              *)

\* handleSign with P1_FIRST, up to the header of the data.
FirstBlock(t) ==
    /\ status \in Waiting
    /\ serial < MaxTransactions
    /\ tx' = t
    /\ serial' = serial + 1
    /\ status' = IF t.length = 0 THEN "TAIL" ELSE "PROCESSING"
    /\ left' = 0
    /\ pos' = 0
    /\ dataPresent' = FALSE
    /\ pluginStatus' = "UNAVAILABLE"
    /\ IF status \in Over THEN UNCHANGED session ELSE Reset
    /\ consent' = NoConsent
    /\ shown' = <<>>
    /\ given' = <<>>
    /\ initialised' = "NONE"
    /\ switches' = [switches EXCEPT !.now = 0]
    /\ UNCHANGED <<dataAllowed, contractDetails, pluginName, words, target, context>>

\* The block goes on with n bytes of the data; the header may end it.
Block(n) ==
    /\ status = "PROCESSING"
    /\ n \in 0 .. tx.length - pos
    /\ n = 0 => pos = 0
    /\ left' = n
    /\ status' = "CALL"
    /\ UNCHANGED <<tx, serial, pos, session, settings, dataPresent, tokenContext, consent,
                   history>>

\* The name of the plugin and what it is for are written at once.
SetExternalPlugin(selector) ==
    /\ status \in Waiting
    /\ pluginName' = "EXTERNAL"
    /\ target' = selector
    /\ context' = [context EXCEPT !.address = Overlaid, !.amount = Overlaid]
    /\ externalPluginIsSet' = TRUE
    /\ UNCHANGED <<tx, serial, parser, calledFromSwap, settings, dataPresent, pluginStatus,
                   words, consent, history>>

\* The idle flow is on display while the device waits for a block.
SwitchSettings ==
    /\ status \in Waiting
    /\ switches.ever < MaxSwitches
    /\ switches' = [ever |-> switches.ever + 1, now |-> switches.now + 1]
    /\ \/ dataAllowed' = ~dataAllowed /\ UNCHANGED contractDetails
       \/ contractDetails' = ~contractDetails /\ UNCHANGED dataAllowed
    /\ UNCHANGED <<tx, serial, parser, session, dataPresent, tokenContext, consent, history>>

-----------------------------------------------------------------------------
(* customProcessor.  status "CALL": it is called; "BLOCK": it has dealt    *)
(* with the selector and goes on to line 73.                               *)

Fault ==
    /\ status' = "FAULT"
    /\ Reset
    /\ UNCHANGED <<left, pos>>

\* Wrong on purpose: a field that ends with the block is not seen to end.
AfterwardsBlockFirst(n) ==
    IF left = n THEN "PROCESSING" ELSE IF pos + n = tx.length THEN "TAIL" ELSE "CALL"

\* The parser's loop after n bytes.
Afterwards(n) ==
    IF pos + n = tx.length THEN "TAIL" ELSE IF left = n THEN "PROCESSING" ELSE "CALL"

Take(n) ==
    /\ pos' = pos + n
    /\ left' = left - n

\* Wrong on purpose: nobody takes the bytes.
NotHandledAtAll == Take(0) /\ status' = Afterwards(0)

\* CUSTOM_NOT_HANDLED: processData takes what there is.
NotHandled ==
    LET n == Smaller(left, tx.length - pos)
    IN  Take(n) /\ status' = Afterwards(n)

\* A contract creation, or no room for a selector.
IgnoreData ==
    /\ status = "CALL"
    /\ tx.creation \/ tx.length < SelectorLength
    /\ dataPresent' = TRUE
    /\ NotHandled
    /\ UNCHANGED <<tx, serial, session, settings, tokenContext, consent, history>>

AtSelector ==
    /\ status = "CALL"
    /\ ~tx.creation
    /\ tx.length >= SelectorLength
    /\ pos = 0
    /\ dataPresent' = TRUE
    /\ UNCHANGED <<tx, serial, settings, consent, shown, given>>

SelectorCut ==
    /\ AtSelector
    /\ left < SelectorLength
    /\ Fault
    /\ UNCHANGED <<tokenContext, initialised>>

\* "Debug data" is on: no plugin.
SelectorDisplayed ==
    /\ AtSelector
    /\ left >= SelectorLength
    /\ contractDetails
    /\ pluginStatus' = "UNAVAILABLE"
    /\ status' = "BLOCK"
    /\ UNCHANGED <<left, pos, session, pluginName, words, target, context, initialised>>

\* lat_plugin_perform_init.
PluginSought ==
    /\ AtSelector
    /\ left >= SelectorLength
    /\ ~contractDetails

\* The external plugin is for another contract or selector: os_sched_exit.
WrongTarget ==
    /\ PluginSought
    /\ externalPluginIsSet
    /\ target # tx.selector
    /\ status' = "EXIT"
    /\ UNCHANGED <<left, pos, session, tokenContext, initialised>>

\* In swap mode ERROR is returned, which stops the transaction.
NoPlugin ==
    /\ PluginSought
    /\ ~externalPluginIsSet
    /\ Listing(tx.selector) = {}
    /\ IF calledFromSwap
       THEN pluginStatus' = "ERROR" /\ Fault
       ELSE pluginStatus' = "UNAVAILABLE" /\ status' = "BLOCK" /\ UNCHANGED <<left, pos, session>>
    /\ UNCHANGED <<pluginName, words, target, context, initialised>>

\* Wrong on purpose: fieldIndex is left as it was.
AcceptedKeepsIndex ==
    /\ fieldOffset' = 0
    /\ UNCHANGED fieldIndex
    /\ Take(SelectorLength)
    /\ status' = IF tx.length = SelectorLength THEN "TAIL" ELSE "BLOCK"

\* Lines 65 to 70: the selector is consumed.
Accepted ==
    /\ fieldIndex' = 0
    /\ fieldOffset' = 0
    /\ Take(SelectorLength)
    /\ status' = IF tx.length = SelectorLength THEN "TAIL" ELSE "BLOCK"

\* INIT_CONTRACT; a plugin writes pluginContext, over the target.
InitPlugin ==
    /\ PluginSought
    /\ externalPluginIsSet => target = tx.selector
    /\ externalPluginIsSet \/ Listing(tx.selector) # {}
    /\ pluginName' = IF externalPluginIsSet THEN "EXTERNAL" ELSE InternalPlugin(tx.selector)
    /\ initialised' = pluginName'
    /\ target' = "OVERLAID"
    /\ \E answer \in InitAnswers(pluginName', tx) :
        /\ pluginStatus' = InitReturns(answer)
        /\ context' = IF pluginName' # "EXTERNAL" /\ answer = "OK"
                      THEN [context EXCEPT !.selectorIndex = tx.selector] ELSE context
        /\ CASE pluginStatus' = "ERROR" -> Fault /\ UNCHANGED <<fieldIndex, fieldOffset>>
             [] pluginStatus' = "OK" -> Accepted /\ UNCHANGED session
             [] OTHER -> /\ status' = "BLOCK"
                         /\ UNCHANGED <<left, pos, session, fieldIndex, fieldOffset>>
    /\ UNCHANGED <<data>>

\* Line 73 is reached, with the selector behind or to be dealt with.
AtBlock ==
    /\ \/ status = "BLOCK"
       \/ status = "CALL" /\ pos # 0 /\ ~tx.creation /\ tx.length >= SelectorLength
    /\ UNCHANGED <<tx, serial, settings, dataPresent, pluginName, pluginStatus, target,
                   consent, initialised>>

DataForbidden ==
    /\ AtBlock
    /\ pos = 0
    /\ ~dataAllowed
    /\ Fault
    /\ UNCHANGED <<words, context, shown, given>>

\* Neither a plugin nor the user is to see the data.
DataUnseen ==
    /\ AtBlock
    /\ pos = 0 => dataAllowed
    /\ ~contractDetails
    /\ ~Successful(pluginStatus)
    /\ NotHandled
    /\ UNCHANGED <<session, words, context, shown, given>>

\* Wrong on purpose: a block is always a whole word.
BlockSizeWhole == IF pos = 0 THEN SelectorLength ELSE WordLength

\* What is missing of the selector or of the current word.
BlockSize == IF pos = 0 THEN SelectorLength ELSE WordLength - (fieldOffset % WordLength)

DataSeen ==
    /\ AtBlock
    /\ pos = 0 => dataAllowed
    /\ contractDetails \/ Successful(pluginStatus)

\* Wrong on purpose: the last word is refused.
ShortOrLast == tx.length - pos <= BlockSize

\* Wrong on purpose: an incomplete word is let through.
NeverShort == FALSE

Short == tx.length - pos < BlockSize

\* "Unconsistent data".
Unaligned ==
    /\ DataSeen
    /\ Short
    /\ Fault
    /\ UNCHANGED <<words, context, shown, given>>

CopySize == Smaller(left, BlockSize)

\* copyTxData to tokenContext.data, a buffer of WordLength bytes.
Copied ==
    [i \in DOMAIN data \cup (fieldOffset .. fieldOffset + CopySize - 1) |->
        IF i \in fieldOffset .. fieldOffset + CopySize - 1
        THEN <<serial, pos + i - fieldOffset>> ELSE data[i]]

CopyBlock ==
    /\ DataSeen
    /\ ~Short
    /\ pos = 0 \/ fieldOffset + CopySize <= WordLength
    /\ data' = IF pos = 0 THEN [i \in DOMAIN data |-> IF i < SelectorLength THEN <<serial, i>> ELSE data[i]]
               ELSE Copied

\* The bytes go over fieldIndex and what follows; the model ends there.
Overrun ==
    /\ DataSeen
    /\ ~Short
    /\ pos # 0
    /\ fieldOffset + CopySize > WordLength
    /\ data' = Copied
    /\ status' = "OVERRUN"
    /\ UNCHANGED <<left, pos, session, fieldIndex, fieldOffset, context, shown, given>>

\* The word goes on in the next block.
PartOfBlock ==
    /\ CopyBlock
    /\ CopySize < BlockSize
    /\ Take(CopySize)
    /\ status' = Afterwards(CopySize)
    /\ fieldOffset' = fieldOffset + CopySize
    /\ UNCHANGED <<session, fieldIndex, context, shown, given>>

Word == [i \in 0 .. WordLength - 1 |-> data'[i]]

\* Wrong on purpose: the index does not wrap.
NextIndexUnbounded == fieldIndex + 1

NextIndex == (fieldIndex + 1) % IndexModulus

ParameterOffset == fieldIndex * WordLength + SelectorLength

\* Wrong on purpose: the second parameter is not kept.
KeptFirstOnly(offset) ==
    IF pluginName # "EXTERNAL" /\ offset = First THEN [context EXCEPT !.address = Word]
    ELSE context

\* An internal plugin keeps the two parameters it knows.
Kept(offset) ==
    CASE pluginName = "EXTERNAL" -> context
      [] offset = First -> [context EXCEPT !.address = Word]
      [] offset = Second -> [context EXCEPT !.amount = Word]
      [] OTHER -> context

\* PROVIDE_PARAMETER.
GiveToPlugin ==
    /\ CopyBlock
    /\ CopySize = BlockSize
    /\ Successful(pluginStatus)
    /\ given' = Append(given, [offset |-> ParameterOffset, word |-> Word])
    /\ context' = Kept(ParameterOffset)
    /\ \E answer \in ParameterAnswers(pluginName, ParameterOffset) :
        /\ IF Fails(CallReturns(answer))
           THEN Fault /\ fieldOffset' = fieldOffset + CopySize /\ UNCHANGED fieldIndex
           ELSE /\ Take(CopySize)
                /\ status' = Afterwards(CopySize)
                /\ fieldIndex' = NextIndex
                /\ fieldOffset' = 0
                /\ UNCHANGED session
    /\ UNCHANGED shown

\* ux_confirm_selector_flow or ux_confirm_parameter_flow ("Field n").
Display ==
    /\ CopyBlock
    /\ CopySize = BlockSize
    /\ ~Successful(pluginStatus)
    /\ Take(CopySize)
    /\ status' = "SUSPENDED"
    /\ fieldOffset' = 0
    /\ fieldIndex' = IF pos = 0 THEN 0 ELSE NextIndex
    /\ shown' = Append(shown,
                    IF pos = 0
                    THEN [field |-> "SELECTOR", word |-> [i \in 0 .. SelectorLength - 1 |-> data'[i]]]
                    ELSE [field |-> fieldIndex', word |-> Word])
    /\ UNCHANGED <<session, context, given>>

-----------------------------------------------------------------------------
(* The buttons of these screens.                                           *)

\* touch_data_ok: continueTx.
DataOk ==
    /\ status = "SUSPENDED"
    /\ status' = Afterwards(0)
    /\ UNCHANGED <<tx, serial, left, pos, session, settings, dataPresent, tokenContext, consent,
                   history>>

\* touch_data_cancel, and touch_tx_ok or touch_tx_cancel at the end.
Answered ==
    /\ status \in {"SUSPENDED", "CONSENT"}
    /\ status' = "IDLE"
    /\ Reset
    /\ consent' = NoConsent
    /\ UNCHANGED <<tx, serial, left, pos, settings, dataPresent, tokenContext, history>>

-----------------------------------------------------------------------------
(* finalizeParsing, and the screens it leads to.                           *)

\* Wrong on purpose: the warning is given with the details only.
ApprovalStepsInverted(present, nonce, network) ==
    <<"REVIEW">> \o (IF present /\ contractDetails THEN <<"DATA_PRESENT">> ELSE <<>>)
    \o <<"AMOUNT", "ADDRESS", "FEES", "ACCEPT", "REJECT", "FLOW_END">>

\* Places of ux_approval_tx_flow_.
FlowSteps == 10

\* ux_approve_tx; the nonce and the network are displayed or not.
ApprovalSteps(present, nonce, network) ==
    <<"REVIEW">> \o (IF present /\ ~contractDetails THEN <<"DATA_PRESENT">> ELSE <<>>)
    \o <<"AMOUNT", "ADDRESS">>
    \o (IF nonce THEN <<"NONCE">> ELSE <<>>) \o (IF network THEN <<"NETWORK">> ELSE <<>>)
    \o <<"FEES", "ACCEPT", "REJECT", "FLOW_END">>

Finalizing ==
    /\ status = "TAIL"
    /\ UNCHANGED <<tx, serial, left, pos, settings, tokenContext, shown, given, initialised>>

FinalizeError ==
    /\ status' = "REFUSED"
    /\ Reset
    /\ UNCHANGED <<consent, dataPresent>>

\* from: whose amount and address; token: whose ticker and decimals, "NONE" for
\* the network's, and also those of the network for a token that is not known.
Approve(present, from, token) ==
    IF present /\ ~dataAllowed THEN FinalizeError
    ELSE /\ status' = "CONSENT"
         /\ dataPresent' = present
         /\ \E nonce, network \in BOOLEAN :
                consent' = IF calledFromSwap THEN [ui |-> "SILENT"]
                           ELSE [ui |-> "APPROVAL", from |-> from, token |-> token,
                                 steps |-> ApprovalSteps(present, nonce, network)]
         /\ UNCHANGED session

FinalizeWithoutPlugin ==
    /\ Finalizing
    /\ ~Successful(pluginStatus)
    /\ Approve(dataPresent, "TX", "NONE")

\* plugin_ui_start; additionalScreens is what happens to be there if it was
\* not asked for (line 315).
PluginScreens(n, additional, asked) ==
    /\ status' = "CONSENT"
    /\ dataPresent' = FALSE
    /\ consent' = IF calledFromSwap THEN [ui |-> "SILENT"]
                  ELSE [ui |-> "PLUGIN", maxItems |-> (n + additional) % 256,
                        screens |-> IF asked THEN n + additional ELSE n]
    /\ UNCHANGED session

\* What the answers of the plugin lead to (lines 307 to 345).
Conclude(result, answer, additional, token) ==
    CASE result = "FALLBACK" -> Approve(dataPresent, "TX", "NONE")
      [] result # "FALLBACK" /\ answer.uiType = "GENERIC" ->
            PluginScreens(answer.numScreens, additional, answer.lookup)
      [] result # "FALLBACK" /\ answer.uiType = "AMOUNT_ADDRESS" /\ answer.pointers ->
            Approve(FALSE, "PLUGIN", token)
      [] OTHER -> FinalizeError

FinalizeWithPlugin ==
    /\ Finalizing
    /\ Successful(pluginStatus)
    /\ \E answer \in FinalizeAnswers(pluginName, context.selectorIndex) :
        CASE Fails(CallReturns(answer.result)) -> FinalizeError
          [] ~Fails(CallReturns(answer.result)) /\ ~answer.lookup ->
                \E additional \in ScreenCounts :
                    Conclude(answer.result, answer, additional, "NONE")
          [] OTHER ->
                \E known \in BOOLEAN : \E token \in TokenAnswers(pluginName, known) :
                    IF CallReturns(token.result) = "OK"
                    THEN Conclude(token.result, answer, token.additionalScreens,
                                  IF known THEN "KNOWN" ELSE "UNKNOWN")
                    ELSE FinalizeError

-----------------------------------------------------------------------------

Init ==
    /\ tx = NoTransaction
    /\ serial = 0
    /\ left = 0
    /\ pos = 0
    /\ status = "IDLE"
    /\ calledFromSwap \in Launches
    /\ dataAllowed \in BOOLEAN
    /\ contractDetails \in BOOLEAN
    /\ dataPresent = FALSE
    /\ pluginName = "NONE"
    /\ pluginStatus = "ERROR"
    /\ fieldIndex = 0
    /\ fieldOffset = 0
    /\ data = Zero
    /\ target = "NONE"
    /\ context = [selectorIndex |-> "TRANSFER", address |-> Zero, amount |-> Zero]
    /\ externalPluginIsSet = FALSE
    /\ consent = NoConsent
    /\ shown = <<>>
    /\ given = <<>>
    /\ initialised = "NONE"
    /\ switches = [ever |-> 0, now |-> 0]

CustomProcessor ==
    \/ IgnoreData \/ SelectorCut \/ SelectorDisplayed
    \/ WrongTarget \/ NoPlugin \/ InitPlugin
    \/ DataForbidden \/ DataUnseen \/ Unaligned
    \/ Overrun \/ PartOfBlock \/ GiveToPlugin \/ Display

Next ==
    \/ \E t \in Transactions : FirstBlock(t)
    \/ \E n \in 0..MaxBlock : Block(n)
    \/ \E selector \in ExternalTargets : SetExternalPlugin(selector)
    \/ SwitchSettings
    \/ CustomProcessor
    \/ DataOk \/ Answered
    \/ FinalizeWithoutPlugin \/ FinalizeWithPlugin

Spec == Init /\ [][Next]_vars

\* The processor is ordinary sequential code: once called, it runs.
FairSpec == Spec /\ WF_vars(CustomProcessor)

-----------------------------------------------------------------------------
(* Properties.                                                             *)

TypeOK ==
    /\ tx \in Transactions \cup {NoTransaction}
    /\ serial \in 0..MaxTransactions
    /\ pos \in 0..tx.length
    /\ left \in Nat
    /\ status \in Waiting \cup {"CALL", "BLOCK", "SUSPENDED", "CONSENT", "EXIT", "OVERRUN"}
    /\ calledFromSwap \in BOOLEAN /\ externalPluginIsSet \in BOOLEAN
    /\ dataAllowed \in BOOLEAN /\ contractDetails \in BOOLEAN
    /\ dataPresent \in BOOLEAN
    /\ pluginName \in {"NONE", "PRC20", "PRC721", "EXTERNAL"}
    /\ pluginStatus \in Results
    /\ fieldIndex \in 0 .. IndexModulus - 1
    /\ fieldOffset \in 0..WordLength
    /\ consent.ui \in {"NONE", "APPROVAL", "PLUGIN", "SILENT"}
    /\ consent.ui = "APPROVAL" => Len(consent.steps) <= FlowSteps

\* The byte at each place of word k of the data.
WordOf(k) == [i \in 0 .. WordLength - 1 |-> <<serial, SelectorLength + (k - 1) * WordLength + i>>]

\* However the data is cut, and whatever the user switches meanwhile, a plugin
\* is given whole words of this transaction, all of them in order and with
\* their offset (the word is put together in tokenContext.data, over several
\* blocks and calls, from a fieldOffset no reset touches).
ParametersExact ==
    \A k \in DOMAIN given :
        /\ given[k].offset = ((k - 1) % IndexModulus) * WordLength + SelectorLength
        /\ given[k].word = WordOf(k)

IsCall == ~tx.creation /\ tx.length >= SelectorLength

Bytes(seq) == SelectorLength + Len(seq) * WordLength

\* Screens that do not speak of data (a plugin's own, or an amount and address
\* it provided) are reached only when a plugin was given all of the data, and
\* no other bytes: what the user accepts there was looked at by somebody.  A
\* plugin's own are asked only from one that has them: approve goes to PRC-20,
\* which answers for both, not to PRC-721, which has none.
PluginSawAll ==
    /\ status = "CONSENT" /\ tx.length # 0 /\ ~dataPresent =>
            IsCall /\ Bytes(given) = tx.length
    /\ consent.ui = "PLUGIN" /\ pluginName # "EXTERNAL" =>
            0 .. consent.maxItems - 1 \subseteq ScreensHandled(pluginName)

Warned == \E i \in DOMAIN consent.steps : consent.steps[i] = "DATA_PRESENT"

AllDisplayed == shown # <<>> /\ Bytes(Tail(shown)) = tx.length

\* With "Debug data" unchanged, the user who is asked about a call with data no
\* plugin answers for has either approved all of its words, in order and under
\* their numbers, or is shown "Data Present".
DisplayedOrWarned ==
    status = "CONSENT" /\ consent.ui = "APPROVAL" /\ dataPresent /\ IsCall /\ switches.now = 0 =>
        \/ Warned
        \/ /\ AllDisplayed
           /\ \A k \in DOMAIN Tail(shown) :
                shown[k + 1] = [field |-> k % IndexModulus, word |-> WordOf(k)]

\* A transaction is refused while its data arrives only for a selector cut in
\* two, data that is not whole words, data that is not allowed, or because a
\* plugin was asked: not for the way its words are cut.
RefusedForCause ==
    status = "FAULT" =>
        \/ initialised # "NONE" \/ given # <<>>
        \/ calledFromSwap \/ pluginStatus = "ERROR"
        \/ pos = 0
        \/ (tx.length - SelectorLength) % WordLength # 0
        \/ switches.now # 0

\* With both parameters in the data, what an internal plugin displays is from
\* this transaction, whatever an earlier one left in pluginContext.
OwnParameters ==
    /\ status = "CONSENT"
    /\ consent.ui = "APPROVAL" => consent.from = "PLUGIN"
    /\ consent.ui # "SILENT"
    /\ pluginName # "EXTERNAL"
    /\ Len(given) >= 2
    => context.address = WordOf(1) /\ context.amount = WordOf(2)

\* As long as the user switches nothing while data arrives, no byte is written
\* outside the one word of tokenContext.data.
InBufferUnswitched == switches.now = 0 => DOMAIN data = 0 .. WordLength - 1

\* What the parser assumes of a custom processor.
Field == INSTANCE DataField WITH
    fieldLength <- tx.length,
    fieldPos <- IF status = "BLOCK" THEN 0 ELSE pos,
    left <- IF status = "BLOCK" THEN left + pos ELSE left,
    outcome <- CASE status \in {"CALL", "BLOCK"} -> "RUN"
                 [] status = "TAIL" -> "DONE"
                 [] status \in {"PROCESSING", "SUSPENDED", "FAULT"} -> status
                 [] OTHER -> "NONE"

\* customProcessor keeps to it: it takes some bytes of the field and the block
\* and no others, or faults.
ImplementsDataField == Field!Spec

\* Every call of the processor leads out of the parser's loop.
ProcessorReturns == status \in {"CALL", "BLOCK"} ~> status \notin {"CALL", "BLOCK"}

-----------------------------------------------------------------------------
(* What documents and comments say, and the code does not do.              *)

\* tokenContext.data has room for one word (shared_context.h:42).  A plugin
\* that refuses a word leaves fieldOffset at its end; details switched on in the
\* middle of a later transaction write the next word behind the buffer.
DataInBuffer == DOMAIN data = 0 .. WordLength - 1

\* "Add the number of screens + the number of additional screens to get the
\* total number of screens needed" (logic_signTx.c:312).  Without a token lookup
\* the second number was never set.
ScreensCounted ==
    consent.ui = "PLUGIN" /\ consent.screens < 256 /\ initialised = pluginName =>
        consent.maxItems = consent.screens
=============================================================================
