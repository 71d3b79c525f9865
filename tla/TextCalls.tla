----------------------------- MODULE TextCalls ------------------------------
(***************************************************************************)
(* The texts a user is shown: those of a transaction, those of the library *)
(* calls with the comparison that follows SIGN_TRANSACTION, and those of   *)
(* the PRC-20 plugin's approval.  Each has the strings for itself, so a    *)
(* behaviour belongs to one of them; the variables of the others stay Idle.*)
(***************************************************************************)
EXTENDS Texts

CONSTANTS
    \* TxTexts
    AmountSize, Values, TokenDecimals, Nonces, GasPrices, StartGases,
    NonceSize, ChainBits, KnownChain, ChainIds,
    \* SwapCalls; SwapSize is its AmountSize
    SwapSize, Amounts, Fees, AmountLengths, Configs, Addresses, Spellings, Stacks,
    Derived, MaxPath, MaxTicker, PrintableSize, AddressSize,
    \* Prc20Screens; Allowances are its amounts
    Allowances, MaxInt, Tokens, Destinations, MsgLength, MsgRoom, MaxTransactions

VARIABLES
    job,                                        \* who prepares the texts
    tx, strings, stage, displayBuffer,          \* TxTexts
    call, result, printable,                    \* SwapCalls, and tx, strings, stage
    serial, context, msg, last, screen          \* Prc20Screens, and tx

txTextsVars == <<displayBuffer>>
swapVars == <<call, result, printable>>
screensVars == <<serial, context, msg, last, screen>>
vars == <<job, tx, strings, stage, txTextsVars, swapVars, screensVars>>

TxTexts == INSTANCE TxTexts
SwapCalls == INSTANCE SwapCalls WITH AmountSize <- SwapSize
Screens == INSTANCE Prc20Screens WITH Amounts <- Allowances

ASSUME TextsAssumption ==
    /\ TextAssumption
    /\ TxTexts!TxTextsAssumption
    /\ SwapCalls!SwapAssumption
    /\ Screens!ScreenAssumption

-----------------------------------------------------------------------------
Idle == "IDLE"

IdleSwap == call = Idle /\ result = Idle /\ printable = Idle
IdleScreens ==
    serial = Idle /\ context = Idle /\ msg = Idle /\ last = Idle /\ screen = Idle

Init ==
    \/ /\ job = "TX" /\ TxTexts!Init
       /\ IdleSwap /\ IdleScreens
    \/ /\ job = "LIBRARY" /\ SwapCalls!Init
       /\ displayBuffer = Idle /\ IdleScreens
    \/ /\ job = "PRC20" /\ Screens!Init
       /\ strings = Idle /\ stage = Idle /\ displayBuffer = Idle /\ IdleSwap

PrepareTexts ==
    /\ job = "TX" /\ TxTexts!Next
    /\ UNCHANGED <<job, swapVars, screensVars>>

LibraryCall ==
    /\ job = "LIBRARY" /\ SwapCalls!Next
    /\ UNCHANGED <<job, txTextsVars, screensVars>>

PluginScreen ==
    /\ job = "PRC20" /\ Screens!Next
    /\ UNCHANGED <<job, strings, stage, txTextsVars, swapVars>>

Next == PrepareTexts \/ LibraryCall \/ PluginScreen

Spec == Init /\ [][Next]_vars

-----------------------------------------------------------------------------
(* Properties.                                                             *)

\* finalizeParsing prepares the texts of a transaction one after the other in
\* one buffer: each ends within its buffer, null byte and all, unless the program
\* has overrun it (NonceOverrun, FeeOverrun) or a nonce is cut, and amount, fee and
\* nonce are read back as what is signed wherever they fit.
TextsExact ==
    job = "TX" =>
        /\ TxTexts!TextsInBuffers
        /\ TxTexts!AmountExact
        /\ TxTexts!FeeExact
        /\ TxTexts!NonceExact

\* The exchange application is confirmed only the address of the path, and its
\* amounts are printed as they are, in their coin, if they fit
\* (handle_check_address.c, handle_get_printable_amount.c).
AnswersExact ==
    job = "LIBRARY" => SwapCalls!ConfirmedIsDerived /\ SwapCalls!PrintableExact

\* copy_transaction_parameters writes strings, over which its parameters may
\* lie, only when all of them are good.
RefusedLeavesTexts == job = "LIBRARY" => SwapCalls!RefusedLeavesTexts

\* compareOrCopy: what passes the comparisons in swap mode and is not a creation
\* goes to an address that begins with the approved text, and is not less than the
\* approved amount.  A creation has no address compared, only the amount.
ComparedNeverLess == job = "LIBRARY" => SwapCalls!ComparedNeverLess

\* prc20_plugin_call: whatever an earlier approval left in its context, amount
\* and spender on display are those of this one, in the units of its token.
ApprovalExact == job = "PRC20" => Screens!ApprovedAmountExact /\ Screens!SpenderShown

\* "msgLength : maximum msg length" (latapp_plugins.md:262).  The plugin writes
\* behind it.
MsgFits == job = "PRC20" => Screens!MsgInRoom
=============================================================================
