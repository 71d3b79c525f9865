# TLA+ specifications of the PlatON (LAT) device application

The program is a wallet application for a Ledger device, in C: a host sends it
APDU commands over USB, it parses transactions and messages, shows them on the
screen and signs them when the user accepts. This directory holds TLA+ modules
translated from the source, the TLC configurations that check them on small
instances, and TLAPS proofs of their main invariants for every value of the
constants. Paths below are relative to `src/`.

- [The system](#the-system)
- [Plan](#plan)
- [The modules](#the-modules)
- [What the runs show](#what-the-runs-show)
- [What is proved](#what-is-proved)
- [Where the code and its documentation differ](#where-the-code-and-its-documentation-differ)
- [What is left out, and why](#what-is-left-out-and-why)

## The system

One thread does everything. `app_main` (`src/main.c`) blocks in `io_exchange`,
which returns with an APDU and, while it waits, runs the button callbacks of the
screen on display. Handlers reply at once, or set `IO_ASYNCH_REPLY` and leave the
reply to a callback. There are no locks and no parallelism; what interleaves is
commands, buttons, and the loss of the USB connection, and all of them work on the
same global variables.

### Components, their state and their operations

| component | state | operations | modelled in |
|---|---|---|---|
| RLP headers (`src_common/latUtils.c`) | none | `rlpCanDecode`, `rlpDecodeLength` | `Rlp` |
| streaming parser (`src_common/latUstream.c`) | `txContext_t`: the current field, its length and position, the header buffer, the block; `txContent_t`: the fields | `initTx`, `processTx`, `continueTx`, `parseRLP`, a handler per field | `TxStream` |
| APDU loop, dispatcher, context (`src/main.c`, `src/shared_context.h`) | `appState`, `called_from_swap`, `externalPluginIsSet`, the unions `tmpCtx` and `tmpContent`, `global_sha3` | `handleApdu`, `reset_app_context`, `coin_main` | `LatApp` |
| SIGN (`src_features/signTx`) | `dataContext`, `dataPresent`, `pluginType`, `strings` | `handleSign`, `finalizeParsing`, the consent callbacks, the texts | `LatApp`, `ContractData`, `TxTexts` |
| contract data (`customProcessor` in `logic_signTx.c`) | `fieldIndex`, `fieldOffset`, `data` | selector, words, suspending for the screen | `ContractData` |
| SIGN PERSONAL MESSAGE (`src_features/signMessage`) | `messageSigningContext`, `sha2` | FIRST, MORE, two callbacks; the decimal length | `LatApp`, `MessageHeader` |
| GET PUBLIC KEY (`src_features/getPublicKey`) | `publicKeyContext` | with or without confirmation and chain code | `LatApp` |
| PROVIDE PRC 20 TOKEN (`src_features/providePrc20TokenInformation`) | `tokens`, `tokenSet`, `currentTokenIndex` | provide; `getKnownToken` | `LatApp` |
| SET EXTERNAL PLUGIN (`src_features/setExternalPlugin`) | `externalPluginIsSet`, the plugin context | set | `LatApp`, `ContractData` |
| plugin dispatch (`src/lat_plugin_handler.c`) | `dataContext.tokenContext` | init, provide parameter, finalize, provide token, screens | `Plugins`, `ContractData` |
| plugin screens (`src/lat_plugin_ui.c`) | item counters, the shared strings | next, previous, accept, reject | `PluginUi` |
| PRC-20 and PRC-721 plugins (`src_plugins`) | their own context | the plugin messages; PRC-20's approval screens | `Plugins`, `Prc20Screens` |
| swap library calls (`src/handle_*.c`) | copies of the exchange's parameters | check address, printable amount, sign, `compareOrCopy` | `SwapCalls`, `LatApp` |
| settings and idle flow (`src/ui_flow.c`) | `N_storage` | two switches, and the display of the nonce | `LatApp`, `ContractData` |
| 256-bit arithmetic (`src_common/uint256.c`) | none | sums, products, shifts, division, digits | `Words`, `Uint256`, `DivMod`, `Digits` |
| decimals (`src/utils.c`, `latUtils.c`) | none | `amountToString`, `adjustDecimals`, `uint256_to_decimal` | `Texts`, `Digits`; hexadecimal output is left out |
| addresses (`src_common/bech32.c`) | none | encode, decode | `Bech32` |
| network names (`src/network.c`) | none | ticker and name | `Texts`, `TxTexts` |
| approval flow without a caller, bit stream writer, SDK, tests | | | not modelled (see the end) |

### How they interact

- `handleSign` gives every block of a transaction to the parser; the parser calls
  back `customProcessor` on the contract data; the parser's result decides whether
  the host is asked for more, the user is asked about a piece of data, or
  `finalizeParsing` is entered.
- Handlers, callbacks and the parser share `tmpCtx` (the path, the hash, the
  tokens, a public key) and `tmpContent` (parsed fields, or the SHA-256 of a
  message). Both are unions: what one command leaves is what the next one finds.
- `appState` is what protects them: a FIRST command resets the context when
  `appState` is not idle, a MORE command is refused in the wrong state.
- With `called_from_swap` the application was started by the exchange
  application: the screen is replaced by a comparison with what was approved
  there, and the application exits after one signature.

### Behaviours that are hard to test, and what makes each component correct

`PROJECT.json` lists them at their lines under `hazards`. In short:

- The parser: a host cuts a transaction wherever it likes, in the middle of a
  header, of a field, after a self-encoded byte. Correct means that the cut changes
  nothing: the same fields with the same content, every byte hashed once and in
  order, no write outside a buffer, no endless loop, no request for a byte that
  does not exist.
- The context: a lost connection keeps the session and clears the screen; the
  reply of a signature comes before the reset; a command may arrive while a screen
  waits. Correct means that what a button signs is what the screen displays and
  what the host asked for, that a session starts from zero, that a command gets
  one reply.
- The settings are read when the data arrives and again at the end, and the user
  may switch them in between.
- The tokens: two slots in turn, from an index other commands may have
  overwritten. Correct means that the last two verified tokens are found.
- Swap mode: errors leave it, plugins and creations get round the comparison, which
  looks only as far as the approved texts go. Correct means that nothing is signed
  silently but what the host asked for, with texts that begin as the approved ones,
  and that no such amount is less than the approved one.
- Contract data: a word may arrive in any number of parts, in a context that
  survives the reset. Correct means that whoever is asked to judge the data, plugin
  or user, gets the words of this transaction, whole and in order, and that data
  nobody judged is warned of.
- Plugin screens: one step stands for all items, and fees and items share a
  buffer. Correct means that what is on display is what is current, and that
  nothing can be accepted that was not displayed.
- Texts and numbers: buffers that are just full, words that carry into each other,
  powers of ten that overflow. Correct means that what is displayed reads back as
  what is signed.

## Plan

In order of importance; all steps are done.

1. `Rlp`, `TxFields`, `TxStream`: the parser, and the specification without
   blocks that it implements. Proofs: types, byte accounting, buffers, hash.
2. `LatApp`: the application around it, with its commands, buttons, settings and
   lost connections, in both modes. Proofs: every invariant the runs check.
3. A mutant for every property, and runs for the places where a comment or document
   says something else than the code.
4. `Plugins`, `DataField`, `ContractData`: `customProcessor` with the plugins behind
   it, shown to implement `DataField`, the contract `TxStream` relies on in
   `CustomHandled` and `CustomFault`.
5. `PluginUi`: the plugin's screens. Proofs: all of its safety properties.
6. `Prc20Screens`, `Texts`, `TxTexts`, `SwapCalls`: what is written in the strings
   the user reads, and the comparison that replaces the user in swap mode.
7. `Words`, `Uint256`, `DivMod`, `Digits`, `MessageHeader`, `Bech32`: the functions on
   numbers, on narrow words, against the integers.
8. The other proofs about these modules: both refinements (`TxFields`, `DataField`),
   the invariants of `ContractData`, swap mode, the arithmetic on words of any
   width up to the division, and the loops that print digits.
9. `NumberCalls` and `TextCalls` as modules of their own, and the proofs about them:
   every property of the runs `numbers` and `texts` but `AddressExact` and liveness.

No module with proofs, nor any that it extends or instantiates, has RECURSIVE operators
or uses bit operators. For that reason `|` and `^` are constant operators, `BitOr` of
`Words` and `BitXor` of `Bech32`, to which `MCNumbers` gives the bitwise ones, and the
number that digits stand for (`ValueIn` of `Numerals`) is a recursive function.

## The modules

### `Rlp`: headers and fields

`RlpCanDecode` is `rlpCanDecode` as `parseRLP` uses it, `RlpDecodeLength` and
`RlpIsList` are `rlpDecodeLength`. `FieldsOf` gives the enumeration of the fields
of a type in the order of `latUstream.h`, `Capacity` the size of each buffer, as
constants (`MaxInt256`, `MaxAddress`, `MaxV`). `MalformedField` collects the checks
at the top of the handlers: a list where a string is expected or the reverse, a
length beyond the buffer. The `valid` result of `rlpCanDecode` does not appear: it
is false only for a header of more than five bytes, which `parseRLP` refuses first.

### `TxFields`: the specification without blocks

A transaction is a sequence of bytes, and fields are taken one after the other,
each whole, at an offset that depends on the bytes alone. `Reject` may happen only
for what the transaction holds at that offset. Where the code really is free, the
specification is too: contract data may be refused by a plugin, and a
transaction may end where `v` would start.

### `TxStream`: the parser

One iteration of the loop of `processTxInternal` is one step. When an iteration
decodes a header it also dispatches the field without another look at the length
of the block, and this is a step of its own (`status = "DISPATCH"`).

| TLA+ | code |
|---|---|
| `workBuffer` | the pointer, as the number of bytes consumed |
| `commandLength` | bytes of the block that are left |
| `currentField`, `currentFieldLength`, `currentFieldPos`, `currentFieldIsList`, `processingField`, `rlpBuffer` | the fields of `txContext_t` of the same name (`rlpBufferPos` is the length of `rlpBuffer`) |
| `value`, `length` | the buffers of `txContent_t` with the indices written, and their length fields |
| `hashed` | the positions given to Keccak, in order |
| `fieldAt` | history: the offset of the header of the current field |
| `status` | the result last returned, or where the loop is |
| `FirstBlock`, `MoreBlock` | `handleSign` with P1_FIRST and P1_MORE, up to `processTx`; a further block may be empty |
| `ReadHeader`, `DecodeHeader` | `parseRLP` and its loop, `readTxByte`, the byte put back |
| `RejectField` | the THROWs of the handlers |
| `CopyField`, `SkipField`, `ProcessContent`, ... | `processContent`, `processNonce`, ..., `copyTxData` |
| `CustomHandled`, `CustomFault`, `ContinueTx` | `customProcessor`'s results, `continueTx` |
| `FinishDone`, `FinishBeforeV`, `OutOfBytes` | the three early returns at the top of the loop |

`processType` is not there: `processTx` is always called without `TX_FLAG_TYPE`,
so `RLP_TYPE` is passed over when the outer list is entered. A FIRST with an
unsupported type is in `LatApp` (`RefuseType`). The host of `TxStream` waits for the
answer to a block and sends the next one if it is asked for it; blocks that come while
the parser is suspended, or has ended, are in `LatApp` (`SignMore`, `RefuseMore`).

### `LatApp`: the application

A transaction is a sequence of `Pieces` pieces, one for every APDU, because the
parser has its own module: a step here stands for a whole call of the parser, and
its outcome (more, fault, suspended, finished) is a choice within what the state
allows. `phase` separates the parts of one handler between which the outcome is
chosen; no command, button or lost connection comes in between, as in the code.

| TLA+ | code |
|---|---|
| `phase`, `inCallback`, `running` | where the thread is, and whether a button or an APDU got it there |
| `appState`, `calledFromSwap`, `externalPluginIsSet` | the globals |
| `path`, `hash` | `bip32Path`/`pathLength` and `hash`, which the members of `tmpCtx` share |
| `remainingLength` | of `messageSigningContext`, at the address of `tokens[0]` |
| `tokens`, `tokenSet`, `currentTokenIndex` | of `transactionContext` |
| `tmpContent` | the pieces parsed into `txContent`, or absorbed by `sha2` |
| `sha3` | the pieces absorbed by `global_sha3` |
| `currentField` | 0 when `txContext` is zeroed, else the next piece |
| `screen`, `strings` | the flow on display and its strings; in swap mode, what is to be compared (`ApprovedShown`, or what a screen left in its place) |
| `owed`, `reply` | commands received minus replies sent, the last reply |
| `request`, `hostChain`, `orderly`, `provisioned` | history variables about the host |
| `silentUi` | history: what the last transaction signed without a screen would have been displayed as |

The union matters, so writes through one member change the others: a token in
slot 0 overwrites `remainingLength`, a message overwrites slot 0 (and the
dispatcher clears `tokenSet` before the message handlers, `main.c:218`, `264`), a
public key overwrites path, hash and tokens, and its chain code puts any value
into `tokenSet` and `currentTokenIndex`.

Actions: one for each exit of a handler or callback that changes state
differently. `RefuseCommand` is the dispatcher's `CATCH_OTHER` for every refusal
made before anything that outlives the reset. `IoReset` is `EXCEPTION_IO_RESET`
while the loop waits; `IoResetAfterSignature` the same inside the reply of
`io_seproxyhal_touch_tx_ok`, which replies before it resets; `IoResetInLibrary`
ends a library run, where nothing restarts the loop.

**Swap mode.** What is compared are three texts: the constant `TextsOf` gives the address,
the amount and the fee of a transaction, `PluginTexts` those that a plugin may have put in
their place (it has no part in the fee), `KeyText` what GET PUBLIC KEY leaves in
`fullAddress`, and `ApprovedTexts` what was approved. `AsApproved` is `compareOrCopy`: the
approved text has to be the beginning of the other one, and a creation has no address to
compare. How the texts are formed is in `SwapCalls`. For a host that mixes the pieces of
several transactions, `FinalizeSilently` takes the texts of any one of them (`Received`); no
property speaks of such a host but `TypeOK`, `CleanWhenIdle` and `ErrorEndsSwap`, for
which the choice makes no difference.

**The host.** Any command may arrive at any moment the application waits, in any
order, and the model takes the step. `orderly` remembers whether the host has so far
kept to the protocol: it waits for the reply to a command before it sends the
next, sends MORE only in the sequence it started, provisions tokens and plugins
immediately before a transaction (`doc/latapp.md:144`, `181`), and, being the
exchange application, asks for no public key in the middle of a signature. `OneReply`,
`SignsWhatIsShown`, `ConsentFollowsSettings` and `SilentOnlyIfApproved` speak of an
orderly host; the others speak of any.

### `Plugins`, `DataField`, `ContractData`: the data of a contract call

`Plugins` has the two internal plugins, an external one that answers anything, the
search through the list of selectors, and what `lat_plugin_call` makes of an answer
(`CallReturns`: every undocumented one becomes `UNAVAILABLE`, which is 1 and passes
the callers' test with `!`). `ContractData` walks through `customProcessor`:

| TLA+ | code |
|---|---|
| `left`, `pos` | `commandLength`, `currentFieldPos` |
| `status` | `"CALL"`: `customProcessor` is called; `"BLOCK"`: it is behind line 73; `"SUSPENDED"`, `"FAULT"`, `"PROCESSING"`, `"TAIL"`: what the parser was told |
| `fieldIndex`, `fieldOffset`, `data`, `pluginName`, `pluginStatus` | of `dataContext.tokenContext`, which no reset touches |
| `target`, `context` | the union of the announced address and selector with `pluginContext` |
| `consent` | the flow that `finalizeParsing` and `ux_approve_tx` end in |
| `shown`, `given`, `initialised`, `switches` | history |
| `IgnoreData`, `SelectorCut`, `SelectorDisplayed`, `WrongTarget`, `NoPlugin`, `InitPlugin` | lines 30 to 72, and `lat_plugin_perform_init` |
| `DataForbidden`, `DataUnseen`, `Unaligned` | 73 to 100 |
| `PartOfBlock`, `GiveToPlugin`, `Display` | 101 to 157 |
| `Overrun` | a copy behind `data`: the model ends there |
| `FinalizeWithoutPlugin`, `FinalizeWithPlugin` | `finalizeParsing` up to line 352 |

A byte of the data is the pair of the transaction's number and its place, so a byte
of an earlier transaction, or from elsewhere in this one, is told from the right one.
A refinement mapping takes the module to `DataField`: a call takes some bytes of the
field and the block and no others, "handled" has taken at least one, and it suspends
only when it has taken some.

### `PluginUi`: a plugin's screens

`pluginUiState`, `pluginUiCurrentItem` and `pluginUiMaxItems` are the variables of the
code; `title` and `text` are `strings.tmp.tmp` and `tmp2`, the second under
`strings.common.maxFee`, which the fees are written to. `Enter`, `FormerItem`,
`LeaveLeft` are `display_next_plugin_item(true)`, `Reenter`, `NextItem`, `LeaveRight`
the same with `false`, called by the two invisible steps; `Right`, `Left` and
`Validate` are the buttons. `answered` are the items for which the plugin fills the
strings: for another one they stay as they were, because the answer is not looked at.

### `Texts`, `TxTexts`, `SwapCalls`, `Prc20Screens`: what the user reads

A text is a sequence of characters up to its null byte, and a digit is its own
number, so that `ReadsAs` can read an amount back: the ticker, the digits before
the point, and those behind it, at most as many as there are decimals. `AdjustDecimals`,
`AmountToString` and `ComputeFees` of `Texts` are the functions of these names; a
refusal of `adjustDecimals` leaves in the buffer what it held.

- `TxTexts`: `finalizeParsing` from line 353 on prepares address, amount, nonce, fee
  and network one after the other in one buffer, one action each. `ChainIdThrown`
  is an identifier of more than four bytes. A nonce of just as many digits as the buffer
  has places has its null byte behind it: the model ends there (`NonceOverrun`), as it
  does with a fee that is too long (`FeeOverrun`).
- `SwapCalls`: `HandleCheckAddress`, `HandleGetPrintableAmount`, `CopyParameters` (or
  `CopyRefused`) are the library calls; `SignTx` brings any transaction, `CompareTexts`
  is `compareOrCopy`, in the order address, amount, fee. For a creation `CopyCreation`
  writes "Contract" over the approved address without a comparison; `displayBuffer` then
  still holds something of the stack (`Stacks`) when the amount is written to it.
- `Prc20Screens`: `ProvideToken` is what the plugin keeps of a transaction, and
  `QueryAmount`, `QueryDestination` are its answers to QUERY_CONTRACT_UI, in any order.
  `last` is the last place of the message that was written.

`TextCalls` puts the three together: a behaviour is a transaction, a library call, or
approvals of a plugin (`job`), and the variables of the other two stay `Idle`.

### `Words`, `Uint256`, `DivMod`, `Digits`, `MessageHeader`, `Bech32`: numbers

`Words` holds the functions of `uint256.c` on words of `W` bits instead of 64
(`BitOr` is the `|` of C),
`Uint256` calls them, `DivMod` is the loop of `divmod256` with one action per turn.
`Digits` has the two loops that print a number, with the last place they write to
(`lastPlace`), the null byte's included; `MessageHeader` the two loops of
`cmd_signMessage.c` that write a length, in unsigned integers of `w` bits. `Bech32`
has the regrouping of bits and the checksum, with full-size addresses; between
encoding and decoding, symbols get wrong or the case changes.

`Numerals` is what is common to those that print: the number a reader takes digits for,
the digits a number has by their places, and the laws of powers.

`NumberCalls` puts them together. They share no state, so a behaviour is a call of one of
them (`job`); this is no more than several runs in one. `MCNumbers` and `MCTexts` are
the instances of `NumberCalls` and `TextCalls` for TLC.

## What the runs show

| run | instance | states | checks |
|---|---|---|---|
| `stream` | 26 transactions: 8 legacy, 3 EIP-2930, 15 malformed; every cut | 4,972 | `TypeOK`, `NothingLost`, `HashedOnceInOrder`, `BuffersInBounds`, `AsksOnlyForMissing`, `ImplementsFields`, `ParserReturns` |
| `session` | from the dashboard; one transaction and one message of 2 pieces, 2 paths, 2 tokens | 389,097 | `TypeOK`, `OneReply`, `SignsWhatIsShown`, `CleanWhenIdle`, `ConsentFollowsSettings`, `ProvisionedFound` |
| `swap` | from the exchange application; the approved transaction, with a longer amount; a creation; one to another address | 463,889 | `ErrorEndsSwap`, `SilentOnlyIfApproved` |
| `contractdata` | ten kinds of data, two transactions, every cut, one switch of a setting | 267,827 | `TypeOK`, `ParametersExact`, `PluginSawAll`, `DisplayedOrWarned`, `RefusedForCause`, `OwnParameters`, `InBufferUnswitched`, `ImplementsDataField`, `ProcessorReturns` |
| `pluginui` | 0, 1, 2 or 4 items, of which the plugin knows any of these numbers, or all | 1,933 | `TypeOK`, `ItemOnDisplay`, `AllSeenBeforeAccept`, `WithinItems`, `ReachesEnd` |
| `numbers` | words of 2 bits, limbs of 4, lengths of 4 to 11 bits, addresses of 20 bytes | 139,184 | `ArithmeticExact`, `DivisionExact`, `PrintedExact`, `HeaderExact`, `AddressExact`, `LoopsReturn` |
| `texts` | buffers of 8 or 9 characters, amounts around what fits | 1.2 million | `TextsExact`, `AnswersExact`, `RefusedLeavesTexts`, `ComparedNeverLess`, `ApprovalExact` |
| `nonce`, `nullbyte`, `buffer`, `screens`, `msgfits` | the same instances | | one violated property each, see below |

**Bounds of the parser run.** `MaxBlock = 30` is longer than any transaction of the
instance, so a transaction is cut in every possible way, down to single bytes. The
buffers hold 2 bytes (integers, address) and 1 byte (`v`) instead of 32, 20 and 4;
the code treats them by comparing lengths only, and at these sizes there are
fields that are empty, self-encoded, partly full, full, and too long by one. The
set holds short and long headers, headers longer than five bytes, lists where a
string should be and strings where a list should be, a transaction with and without
`v`, a creation, data with and without a selector, data encoded as a list, and bytes
that end early or go on after the outer list. The proofs are for any transactions, blocks and
buffers.

**Bounds of the application runs.** Two pieces are enough to tell first, middle
and last apart from a single piece (in a message, which may have 0, 1 or 2); two
paths and two tokens to tell a kept value from a mixed-up one; `MaxOwed = 2` lets
a second command arrive while one is unanswered. In `swap`, where properties are about
which transaction is signed, there are one path and three transactions: the first
moves more than was approved, and a plugin can make it a smaller amount or another address;
the second is a creation with the approved amount; the third goes to another address, that
of the key, and a plugin can make it the approved one. There are no tokens: what they name
is in the texts already, and the slots are the subject of `session`. With one
path, that the key is the one asked for is shown by `session` and, for any number of paths,
by the theorem `SilentlyAsApproved`.
Symmetry, in `session` only, is on paths and tokens, on which no definition imposes
an order; no liveness property is checked there.

**Bounds of `contractdata`.** Selectors and words have 2 bytes, so that both can be
cut; `fieldIndex` wraps at 3, so that it does so within the longest data of four
words. The lengths are 0, 1 (less than a selector), 2, 4, 6, 8, 10 and, with a word
cut short, 7. Two transactions let the second find what the first left in
`dataContext`; one switch of a setting is in the middle of data, before it or between
the data and the consent.

**Bounds of `pluginui`.** Four items give a first, a last and two between, and 0 is the
boundary where `pluginUiMaxItems - 1` is negative. Four presses of the left button go
back from the end past the fees into the items and out again; the proofs are for any
number of items and presses.

**Bounds of `numbers`.** With words of 2 bits all 256 numbers of four words are one
operand and the borders of the words the other, so each carry and borrow and each
branch of a shift occurs. Limbs of 4 bits need the carry of a division through three
limbs. Of the widths of the message length, some let the power of ten come out of the
overflow larger than the length, some smaller. Each pair of up to two wrong places
of a text is tried, with one error of the bits or a character that is no symbol.

**Bounds of `texts`.** In the small buffers there are amounts that are shorter than
the decimals, as long, longer, that fill the buffer to its last place, and that do
not fit; products beyond `Modulus`; nonces that fit, that take the null byte's place
in `strings`, that have just as many digits as `displayBuffer` has places, and more. The
model ends with `FeeOverrun` when the fee is longer than its buffer, with `NonceOverrun`
when the nonce fills it. Among the approved addresses are one in upper case, one that is
cut short and an empty one; among the transactions of the host are creations, with nothing,
other characters or a former amount in `displayBuffer`.

`CHECK_DEADLOCK FALSE` where the program or the function ends: the application exits,
a bounded number of transactions is over, a call has returned.

**Fairness.** `ParserReturns` assumes `WF_vars(ParserStep)`, `ProcessorReturns`
`WF_vars(CustomProcessor)` and `LoopsReturn` weak fairness of the function's steps:
sequential code in one thread, which nothing interrupts once it is called. Host and
user get no fairness there. `ReachesEnd` is about a user who goes on to the right or
validates, after finitely many steps back: it shows that the hidden steps do not trap
whoever wants to get to the end.

**What each property says.**

- `ImplementsFields`: `TxStream` implements `TxFields!Spec` under the mapping
  `field <- currentField`, `offset <- fieldAt`, the completed buffers as `value`,
  and `FINISHED`/`FAULT` as the verdict. So the cut changes neither content nor
  verdict. The nonce and the chain identifier are compared by their length only,
  because the code does not keep their content (run `nonce`).
- `NothingLost`, `HashedOnceInOrder`, `BuffersInBounds`, `AsksOnlyForMissing`: the byte
  accounting between blocks, the digest, the buffers, and that the parser asks for
  more only if the field at hand is incomplete in what it was sent.
- `ParserReturns`: no field makes the loop go round for ever.
- `SignsWhatIsShown`: when a consent screen is up, the digest covers exactly the
  displayed pieces, these are the beginning of what the host asked for, and the path
  is the one it asked for.
- `OneReply`: while the application waits, a reply is owed exactly when a screen
  asks the user for it.
- `CleanWhenIdle`: the reason why resetting only unfinished sessions suffices.
- `ConsentFollowsSettings`, `ProvisionedFound`, `ErrorEndsSwap`: data is up for signature
  only with the setting on when the user is asked; the last two tokens are found; an error
  leaves the swap mode.
- `SilentOnlyIfApproved`: what is signed without a screen is the request of the host, under
  its key, and its address, amount and fee begin with the approved texts, whatever other
  screens left in `strings` meanwhile. It says no more than the code compares: not what
  stands behind the approved text ("LAT 1" lets "LAT 10" pass), nor the nonce, the
  data, how the fee splits, nor the address of a creation, nor anything when a plugin
  has screens of its own.
- `ParametersExact`, `InBufferUnswitched`: however the data is cut and whatever the user
  switches, a plugin is given whole words of this transaction, in order, with their
  offset; the one word of `tokenContext.data` is not overrun, unless the settings were
  switched while the data arrived (run `buffer`).
- `PluginSawAll`, `DisplayedOrWarned`, `OwnParameters`: consent screens that do not speak
  of data come up only when a plugin was given all of it; else the user has seen all
  of it or is warned; amount and address on display are of this transaction when the
  data has both. `RefusedForCause`: the data is not refused for the way its words are cut.
- `ImplementsDataField`, `ProcessorReturns`: `customProcessor` keeps to what the
  parser's loop needs to come to an end.
- `ItemOnDisplay`, `AllSeenBeforeAccept`, `WithinItems`, `ReachesEnd`: the texts are those
  of the current item, although the fees are written over them; every item and the
  fees were on the screen before anything is accepted; no item beyond the last is
  asked for, but the first when there is none.
- `ArithmeticExact`, `DivisionExact`, `PrintedExact`, `HeaderExact`, `AddressExact`: the
  functions are those of the integers (modulo 2^256), in their buffers, with every digit
  at its place and so that a reader gets the number back, and addresses
  are read back as they were while no wrong symbol goes unnoticed. `DivisionExact`
  has the loop's invariant as its first part. `PrintedExact` includes the null byte:
  nothing is written behind the buffer but one null byte, and that exactly when the digits
  fill the buffer (which run `nullbyte` shows to happen).
- `TextsExact`, `AnswersExact`, `ApprovalExact`: what is displayed, or given to the
  exchange application, reads back as amount, fee, nonce or address, wherever it fits
  and whatever the buffer held. Each text has its null byte in its buffer, but for a nonce
  that `strncpy` cuts, and one that is refused half-written in `displayBuffer`.
- `RefusedLeavesTexts`, `ComparedNeverLess`: parameters of SIGN_TRANSACTION, which may
  lie over the globals, are copied only when all are good; a transaction that passes
  the comparison is a creation, or its destination begins with the approved text (and is
  the approved address if that text is no shorter), and it moves no less than the approved
  amount.

`TypeOK`, `CleanWhenIdle`, `ProvisionedFound` and `ErrorEndsSwap` hold for
disorderly hosts too. In `ContractData` the host is any.

## What is proved

| module with proofs | about | results |
|---|---|---|
| `TxStream_proofs` | `TxStream`, `TxFields` | every safety property of the run `stream`; the refinement |
| `LatApp_proofs` | `LatApp` | every property of the runs `session` and `swap` |
| `ContractData_proofs` | `ContractData`, `DataField` | every safety property of the run `contractdata`; the refinement |
| `PluginUi_proofs` | `PluginUi` | every safety property of the run `pluginui` |
| `Words_proofs` | `Words`, `DivMod` | order, sum, difference, product, shifts, widths, `or256`; the loop of `divmod256` |
| `Numerals_proofs` | `Numerals` | lemmas on powers, quotients, and digits that are read back |
| `NumberCalls_proofs` | `NumberCalls` | every safety property of the run `numbers` but `AddressExact` |
| `TextCalls_proofs` | `TextCalls` | every property of the run `texts` |

Each starts from the assumptions the modules declare, which TLC evaluates in the runs:

- `CapacityAssumption`: buffer sizes are positive. `StreamAssumption`: transactions
  are non-empty sequences of bytes, blocks are not empty.
- `AppAssumption`: creations are transactions, the texts that are compared are texts, a
  plugin has no part in that of the fee, `Pieces` and `MaxOwed` are positive.
- `DataAssumption`: a selector is no longer than a word (4 and 32 bytes), and the index
  of a parameter starts again after more than 2 (`fieldIndex` is a byte, so after 256).
  `PluginAssumption`: both sizes are positive. `UiAssumption`: the numbers of items are
  bytes.
- `NumbersAssumption`: those of the modules `NumberCalls` is put together from.
  `WordAssumption`: a word has a positive, even number of bits. `PowerLaws` and `OrLaws` of
  `Words`: the provers know no law of powers and no bits, so the former says that powers
  of two up to the width of four words are positive and multiply as they should, the
  latter that `BitOr` stays within a word, changes nothing with 0, adds a bit that is
  not set, and acts on the halves of a number each for itself. `OperandAssumption`,
  `DividendAssumption`: numbers have four words. `DigitsAssumption`: the numbers to print
  have so many limbs. `HeaderAssumption`: the widths are 4 to 32 bits and the buffer
  holds the digits of every number of such a width (`char tmp[11]` for 32 bits).
- `TextsAssumption`: those of the modules of `TextCalls`. `TextAssumption`: the largest
  number has `MaxPlaces` digits (78), and the room of 100 that `computeFees` gives to
  `adjustDecimals` is enough for them and for the decimals. `TxTextsAssumption`,
  `ScreenAssumption`: amounts and nonces are such numbers, tickers and addresses texts.
  `SwapAssumption`: amounts are such numbers, tickers, addresses and what the stack holds
  any texts, and the text of a destination is not empty. Nothing is assumed of the address
  that was approved.
- `PowerLaws` of `Numerals` is a hypothesis of the theorems about digits and texts:
  `b^0 = 1`, `b^1 = b` and `b^(j + k) = b^j * b^k` (`PowersMultiply`) for the bases 2 to
  16 and all exponents, a law of the integers that TLC evaluates for small exponents.

**The parser.** `TypeCorrect`, `NoByteLost`, `InBounds` and `HashCoversConsumed`
state `TypeOK`, `NothingLost`, `BuffersInBounds` and `HashedOnceInOrder` for every
set of transactions, every block length and all buffer sizes. `TypeOK` is not
inductive: `currentFieldPos <= currentFieldLength` after a copy needs the byte
accounting, and a self-encoded byte that is put back needs to be a string of
length one. `IInv` adds `NothingLost` and `HeaderInv`, which says what a half-read
header and a field in progress look like. `InBounds` then needs that the index
at which a handler writes plus what it copies is within the checked length, and
`HashCoversConsumed` that the byte put back is the one counted by `PutBackByte`.

`AsksForMissing` and `ParserImplementsFields` state `AsksOnlyForMissing` and the
refinement of `TxFields`. They rest on a second invariant, `FieldsInv`, which ties what the
parser holds to the uncut transaction: a half-read header is what the transaction holds
from `fieldAt` on (`HeaderRead`); a decoded header is the one that stands there, and the
cursor is as far into its payload as `currentFieldPos` says (`PayloadRead`); the buffer
of the current field holds the beginning of that payload, those of fields to come are
empty (`ValuesRead`, `LengthsRead`). Then each step of a handler is a step of
`TxFields` if it ends a field or refuses one, and a stutter otherwise. `TxStream` calls
the contract code as `CustomHandled` and `CustomFault`, which keep to `DataField`;
that the real processor does is `ProcessorKeepsContract`, below.

**The application.** All its properties are proved: `TypeCorrect`,
`SessionsStartClean`, `SwapEndsWithError`, `TwoTokensFound`, `OneReplyEach`,
`SignedAsShown`, `DataOnlyIfAllowed`, and `SilentlyAsApproved` for the action property of
swap mode. The inductive invariant `IInv` joins them with

- `SlotsInTurn`: the last token lies in the current slot and the one before in
  the other, which is what makes two provisioned tokens found from any index;
- `SwapOnlyIfLaunched`: swap mode never starts in an application started from
  the dashboard;
- `Owing`: one reply is owed while a command is processed, and the screen asks
  for none but the one being handled;
- `Coherent`: in a transaction or message in progress, what has been parsed,
  hashed and sent is the same beginning of the requested payload, with the requested
  path. `SignsWhatIsShown` is not inductive without it, as it speaks of the consent
  screens only, and `Coherent` needs `CleanWhenIdle` for the first piece;
- `ShownInExchange`: in swap mode `strings` holds what the exchange application showed
  until a screen of this application overwrites it, and no address of a key when no screen
  waits. `SilentOnlyIfApproved` needs it because the comparison is with what `strings`
  holds at that moment, and speaks of what was approved.

`Owing`, `Coherent` and `ShownInExchange` are about states that are `Attended`: the host
is orderly, and an application that was started for a swap is still in swap mode. Outside
of these the parts are false, as an error in swap mode leaves a consent screen behind.
`Invariance` is proved by one lemma per group of actions (commands, processing,
user) and conjunct, with `TypeCorrect` first.

**The data of a contract call.** `TypeCorrect`, `GivenExactly`, `SeenByPlugin`,
`NothingHidden`, `OnlyForCause`, `ItsOwnParameters` and `WithinBuffer` state `TypeOK`,
`ParametersExact`, `PluginSawAll`, `DisplayedOrWarned`, `RefusedForCause`, `OwnParameters`
and `InBufferUnswitched` for any transactions, blocks, number of switches, and sizes
of selector and word. At the heart of the invariant is `Reading(n)`: n words are
behind, `fieldIndex` and `fieldOffset` say so, the part of the next one that was received
is in `data`, and there is room for the rest. `PluginReads` has it for a plugin, with the
words it was given, `ScreenReads` for the user, with those displayed; `PluginKeeps`
is what an internal plugin made of them, `Placed` what each `status` means for the
cursors, `Asked` what led to each consent screen. None of the properties is
inductive without them: the properties are about words that are whole and screens that
are up, and a word arrives in several blocks. A plugin reads whole words whatever is
switched; the screen does only with the details on from the start, which is
why `ScreenReads` and the properties that need it speak of settings that stay.

`ProcessorKeepsContract` is the refinement of `DataField`: a step of the processor
takes bytes of the field and of the block only, "handled" only after one was
taken. With `ParserImplementsFields` this closes the circle: the parser relies on what
the processor is proved to do.

**The plugin screens.** `TypeCorrect`, `ItemsInRange`, `RightItemOnDisplay`,
`NothingAcceptedUnseen` and `BackToTheLast` (an action property: from the fees the user
gets back to the last item) hold for any number of items and presses. They follow
from `IInv`, whose two parts of its own are `Where`, which says in which step the
counters are inside the items and at which end they are outside, and `Passed`: every
item before the current one was displayed, all of them once the fees are reached.
`AllSeenBeforeAccept` is not inductive without them, as it speaks of the last step only.

**Numbers.** The run `numbers` has words of 2 bits, the code words of 64;
`OrderOfIntegers`, `SumExact`, `DifferenceExact` and `ShiftsExact` hold for every width `W`.
A lemma about pairs of digits below `m` (`PairOrder`, `PairSum`, `PairDifference`,
`PairLeft`, `PairRight`, `PairAcross`) is proved once and used twice: with
`m = Base` for the words of a `uint128_t`, and with `m = Base * Base` for the halves of a
`uint256_t`. That is why the carry of `add256`, which is seen from a sum that came out
smaller than an operand, is right across all four words, and why the branches of the
shifts agree at the borders.

`mul128` cuts words into halves and adds the columns of their products; what a column
has above its words is above the number, too (`HalfWords`, `ColumnsAdded`, `Product128`).
`mul256` keeps the lower four of the eight words of the product (`Product256`).
`OrOfIntegers` is `or256` for all numbers, word by word and half by half.
`ArithmeticByWords` (`ArithmeticExact`) joins them for whatever function is called.

`DivisionByParts` (`DivisionExact`) is about `divmod256` as a loop. Its invariant `DivInv`:
the bit in `adder` is `2^k`, `copyd` is that multiple of the divisor, what is left is less
than twice `copyd`, every bit of the quotient so far is above `k`, and quotient and rest
make up the dividend; or `adder` was shifted out, and less than the divisor is left.
`NothingLostInTheLoop` does not imply it: without the bits above `k` the `or256` need not be
a sum, and without the bound a turn without a bit could be left. That the alignment at
the start leaves the dividend below twice `copyd` comes from `BitsOf256`: the widths
`bits256` computes enclose the numbers between two powers.

`NumbersPrinted` (`PrintedExact`) is about what the user reads: `tostring256` and
`uint256_to_decimal` return the digits of the number, each at its place, with no zero in
front, and they are read back as the number (`ReadInPlace`); what they refuse has no
room. The digits are within the buffer, and the null byte is, too, unless they fill
it: then it is the one thing written behind it, at its first place
(`OnlyNullByteBehind`). The invariant of the
first loop (`DigitsFound`) has the digits up to those of `base^Len(out)` and what is above
them in `rDiv`. The second divides in place, and its invariant (`LimbsLeft`) says that
the limbs are those of the quotient so far. That a pass over the limbs divides by ten
(`LimbsDivided`) needs every carry to be the remainder of all that is above the limb
(`CarriesAre`, by a least limb for which it is not). What `divmod256` returns is in
`Digits` the quotient of the integers, which is `DivisionExactly`.

`LengthInHeader` (`HeaderExact`) says the same of the length in the header of a message, for
all lengths of up to 32 bits. The first loop may end for two reasons, because the
next power of ten is larger than the length or because it overflows; in both the
length has no more digits (`PowerFoundInv`), and while the test for the overflow
succeeds the power is whole (`ProductWhole`).

**Texts.** Everything about amounts goes through one notion: a text shows a number x with
d decimals by w digits before the point and p behind it (`Shown`) when each digit is the
one x has at that place, and what is not written is zeros. `adjustDecimals` writes such a
text whenever it writes any, in each of its three cases (`ZeroShown`, `FractionShown`,
`WholeShown`, joined in `AdjustedShown`), and a reader takes it for x (`ShownRead`). From this
follow `AmountRead` for `amountToString`, which cuts nothing off when the amount fits, and
`FeesRead` for `computeFees`.

- `TextsRead` (`TextsExact`): `TxInv` says of each text of a transaction that is finished
  that it is in its buffer, with its null byte, and is read as what is signed. The texts
  are prepared in one `displayBuffer`. A nonce of which the last digit would take the place
  of the null byte in `strings`, and one that has no room in `displayBuffer`, need cases of
  their own (`NonceTexts`, `BufferEnds`); for one that just fills `displayBuffer` the theorem
  says nothing behind `NonceOverrun`.
- `ApprovalShown` (`ApprovalExact`): the plugin's context outlives the transaction that
  filled it. `ScreenInv` has the reason why that does no harm (`ContextOfTx`): a screen is up
  only behind a PROVIDE_TOKEN of this transaction with a known token.
- `AnswersRight` (`AnswersExact`): an address is confirmed with `0x` before it or without,
  and in no other spelling (`MarkedAddress`); an amount that fits is read back.
- `RefusedWritesNothing` (`RefusedLeavesTexts`) and `ComparedIsEnough` (`ComparedNeverLess`).
  `compareOrCopy` writes the text it compares back in upper case, so `CompareInv` says
  that what is still to be compared is as approved, and `SameBeginning` that the
  case of the approved address makes no difference. A creation has its approved address
  written over (`CopyCreationStep`), and its amount goes on as any other. The comparison
  looks only at the beginning, and the amount of the transaction may go on behind it.
  `AmountsCompared` shows that it then stands for no smaller number, whatever
  `displayBuffer` held before: where the approved text has a point, it goes on with further
  decimals, and where it has none, with further digits or with the point (`NotLess`); that
  both digits start at the same place is the space behind the approved ticker. If the amount
  of the transaction has no room, text that is not its own stands behind its ticker, which
  may be anything. But the network's ticker is no longer than an approved one, so the room
  that was not enough is no smaller than the one the approved amount had, and the number
  is not less (`RefusedNotLess`).

**Only model-checked.**

- Liveness (`ParserReturns`, `ProcessorReturns`, `ReachesEnd`, `LoopsReturn`): fairness
  and ENABLED are out of the prover's reach.
- `AddressExact`: regrouping bits and the checksum are folds over data with bit
  operators, and that no wrong symbol goes unnoticed is about the distance of the code.
  What these return for every input takes an induction the provers cannot do.

## Where the code and its documentation differ

Five have a run whose property states what is documented and is violated.

- `NonceExact` (run `nonce`): `processNonce` (`latUstream.c:162`) and
  `processChainID` (`:141`) copy to the start of their buffer rather than to
  `currentFieldPos`. A nonce split over two blocks is displayed wrongly; the hash is
  not affected. `doc/latapp.md:61` puts no condition on where a chunk ends.
- `NullByteFits` (run `nullbyte`): `uint256_to_decimal` counts the null byte for the
  number 0 only ("Not enough space to hold "0" and \0", `utils.c:92`). Other digits may fill
  the buffer, and the null byte is then written behind it (`utils.c:119`). `tostring256` does
  the same (`uint256.c:479`), and a nonce of 50 digits reaches it with `displayBuffer`
  (`logic_signTx.c:382`; `NonceOverrun` of `TxTexts`).
- `DataInBuffer` (run `buffer`): `tokenContext.data` has room for one word
  (`shared_context.h:42`). A plugin that refuses a parameter leaves `fieldOffset` at
  the end of the word, and nothing resets it. In a later transaction, details
  switched on in the middle of data that went by unseen copy the next part behind
  the buffer.
- `ScreensCounted` (run `screens`): the number of screens is "the number of screens +
  the number of additional screens" (`logic_signTx.c:312`), but the second one is
  uninitialized when no token is looked up.
- `MsgFits` (run `msgfits`): the PRC-20 plugin gives `amountToString` a room of 100 for
  a message of 40 (`prc20_plugin.c:162`), and a null byte is put at the end of it,
  behind the union `strings`.

The others met while modelling are steps the modules take as the code does; the
properties that come near them name them as exceptions.

- The comment at `latUstream.c:83` keeps the length of the outer list "for sanity
  checks"; nothing reads it (`FinishBeforeV` of `TxStream`).
- `doc/latapp.md:144` has a token provisioned immediately before the transaction;
  after a connection lost in the middle of a signature, the first block of the
  transaction resets the context and wipes it (`IoReset`, then `SignFirst` of `LatApp`).
- With the details on, data of a contract creation or shorter than a selector is
  neither displayed nor warned of (`IgnoreData`, `ApprovalSteps`); nor is data a plugin
  took before the details were switched on and then falls back, although plugins are
  bypassed for that reason (`logic_signTx.c:51`). `DisplayedOrWarned` is about calls
  and about settings that stay.
- A selector that is cut by the end of a block has the transaction refused
  (`SelectorCut`; `doc/latapp.md:61` knows no such condition).
- The internal plugins do not count their parameters: data of a selector alone is
  displayed with amount and address of an earlier transaction (`OwnParameters` asks
  for two words).
- SET EXTERNAL PLUGIN between two blocks renames the plugin in use: what follows
  goes to one that got no INIT_CONTRACT (`doc/latapp_plugins.md:88`).
- An answer other than those documented "will abort the signing process"
  (`doc/latapp_plugins.md:123`, `167`, `264`): it becomes `UNAVAILABLE`, and the test with
  `!` lets it pass (`CallReturns`, `GetItem`). Screens then hold the texts of the step
  before.
- The offset of a parameter starts again after 256 words (`ParameterOffset`).
- The amount of a plugin whose token is unknown is displayed with ticker and decimals
  of the network (`Approve`; `lat_plugin_interface.h:116`).
- A plugin with no screens is asked for its first (`Enter`; `WithinItems` excepts it).
- The result of `adjustDecimals` is ignored: of an amount that does not fit the ticker
  is displayed, and behind it what was in the buffer (`TickerFirst`), or nothing in the
  answer to GET_PRINTABLE_AMOUNT. The fee keeps 256 bits of its product, and the
  chain identifier is printed as a signed number (`PrintedAsInt`).
- The comment at `lat_plugin_handler.c:103` says "Do not handle a plugin if running in swap
  mode"; the condition below it (`called_from_swap && contractAddress != NULL`) gives up
  only if no plugin was found, as `contractAddress` is `NULL` when one was. A plugin with
  screens of its own then takes the transaction out of the comparison (`FinalizeSilently`
  of `LatApp`).
- The comparison in swap mode accepts a text that merely starts with the approved one
  (`Compare`; the comment at `logic_signTx.c:173` is about case): a larger amount, and for an
  approved address that is cut short or empty, which nothing refuses, many addresses. Of a
  creation no address is compared (`CopyCreation`).
- The approved fee is printed behind the coin's name, that of the transaction behind
  the ticker of the network, which ends with a space (`NetworkTicker`): on the network
  of the table the comparison of the fee fails even for the approved transaction.

## What is left out, and why

- Hash functions, signatures, key derivation, the screen stack and the USB transport
  belong to the SDK. They appear as what is hashed, signed, displayed, lost.
  `cx_math_mult` is external, modelled by what it computes.
- What an external plugin keeps in its own context, and its screens: it is another
  application. `Plugins` lets it answer anything.
- Memory behind a buffer: where the code writes there, the model ends (`Overrun` of
  `ContractData`, `NonceOverrun` and `FeeOverrun` of `TxTexts`) or only notes the place
  (`last` of `Prc20Screens`, `lastPlace` of `Digits`).
- Commands while a consent screen waits are in `LatApp` only; `ContractData`,
  `PluginUi` and `Prc20Screens` are about what the screens hold, not about the session.
- A chain identifier that is thrown out of `finalizeParsing` (`ChainIdThrown`) is a
  refusal in `LatApp`; that, after a screen of the data, the same button can then be
  pressed again is not followed.
- `LatApp` takes the texts that are compared in swap mode as they are given; how they are
  formed, and what an amount does that has no room, is in `SwapCalls`.
- In `TxStream` the host sends a block only when it is asked for one. What `cmd_signTx.c:66`
  lets through besides, a block while the parser is suspended or after it has ended, is in
  `LatApp`, where it is a disorderly host's.
- `divmod128`, `tostring128` and `gte128` have the same body as the functions for 256
  bits. `mul128` and the decoder of addresses are called by nothing; they are in the
  model as counterparts of what is.
- Hexadecimal output (`array_hexstr`): a pair of digits for each byte. `u32_from_BE` is
  there with its strict case.
- GET WALLET ID, `NO_CONSENT`, `HAVE_TOKENS_LIST` with its compiled-in tokens,
  `HAVE_STARKWARE`: builds with other options. `poorstream.c` is compiled in the last
  one only.
- `ui_flow_prc20_approval.c`: no code starts this flow.
- Code that no path reaches: status 0x6502, the cancellation after a failed query of
  a plugin's screen, `finalizeParsing` with `direct` (always false). The PRC-721
  plugin never gets the approve selector, because PRC-20 comes first in the list and
  the search ends with the first match.
- A first block that ends with the derivation path: the code then reads a type byte
  beyond the command. `TxStream` starts with at least the type byte.
