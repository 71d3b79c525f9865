------------------------ MODULE ContractData_proofs ------------------------
(***************************************************************************)
(* Proofs about the data of a contract call, for any transactions, any     *)
(* cuts into blocks, any number of switches of the settings, and any sizes *)
(* of a selector and a word.                                               *)
(*                                                                         *)
(* A plugin and the screen read the same way: Reading(n) says that n words *)
(* are behind and where the next one stands.  The invariant ties it to     *)
(* what was given to the plugin and to what was displayed.                 *)
(***************************************************************************)
EXTENDS ContractData, TLAPS

\* From the first block to the answer of the user.
Active == {"PROCESSING", "CALL", "BLOCK", "SUSPENDED", "TAIL", "CONSENT", "OVERRUN"}

Place == Nat \X Nat
AnyWord == [0 .. WordLength - 1 -> Place]
AnySelector == [0 .. SelectorLength - 1 -> Place]
Parameter == [offset : Nat, word : AnyWord]
Screen == [field : Nat, word : AnyWord] \cup [field : {"SELECTOR"}, word : AnySelector]

\* What TypeOK leaves out.
Typed ==
    /\ data \in [DOMAIN data -> Place] /\ DOMAIN data \subseteq Nat
    /\ 0 .. WordLength - 1 \subseteq DOMAIN data
    /\ context \in [selectorIndex : {"TRANSFER", "APPROVE"}, address : AnyWord, amount : AnyWord]
    /\ given \in Seq(Parameter)
    /\ shown \in Seq(Screen)
    /\ initialised \in {"NONE", "PRC20", "EXTERNAL"}
    /\ pluginName # "PRC721"
    /\ switches \in [ever : Nat, now : Nat]

\* n words are behind; the part of the next one that was received is in data,
\* and the transaction has room for the rest.
Reading(n) ==
    /\ fieldOffset < WordLength
    /\ fieldIndex = n % IndexModulus
    /\ pos = SelectorLength + n * WordLength + fieldOffset
    /\ fieldOffset > 0 => tx.length - pos >= WordLength - fieldOffset
    /\ \A i \in 0 .. fieldOffset - 1 :
            data[i] = <<serial, SelectorLength + n * WordLength + i>>

\* Where the processor is.
Placed ==
    /\ status \in Active /\ pos = 0 =>
            given = <<>> /\ shown = <<>> /\ ~Successful(pluginStatus)
    /\ status = "BLOCK" =>
            /\ IsCall /\ dataPresent
            /\ \/ pos = 0 /\ left >= SelectorLength
               \/ pos = SelectorLength /\ Successful(pluginStatus) /\ given = <<>>
    /\ status \in {"PROCESSING", "CALL", "BLOCK"} => pos < tx.length
    /\ status = "CALL" /\ pos # 0 => left > 0
    /\ status \in {"TAIL", "CONSENT"} => pos = tx.length
    /\ status \in Active \ {"CONSENT"} /\ pos # 0 => dataPresent
    /\ status \in Active /\ given # <<>> => Successful(pluginStatus)

\* A plugin that accepted the selector reads until it refuses.
PluginReads ==
    status \in Active /\ Successful(pluginStatus) =>
        /\ IsCall
        /\ status # "OVERRUN"
        /\ initialised # "NONE"
        /\ pluginName # "NONE"
        /\ Reading(Len(given))
        /\ switches.now = 0 => ~contractDetails

\* An internal plugin has kept the parameters it was given, and refuses others.
PluginKeeps ==
    status \in Active /\ Successful(pluginStatus) /\ pluginName # "EXTERNAL" =>
        /\ Len(given) <= 2
        /\ Len(given) >= 1 => context.address = WordOf(1)
        /\ Len(given) >= 2 => context.amount = WordOf(2)

\* With "Debug data" on from the start, the screen reads.
ScreenReads ==
    status \in Active /\ contractDetails /\ switches.now = 0 /\ IsCall /\ pos # 0 =>
        /\ ~Successful(pluginStatus)
        /\ status # "OVERRUN"
        /\ shown # <<>>
        /\ Reading(Len(shown) - 1)
        /\ \A k \in 1 .. Len(shown) - 1 :
                shown[k + 1] = [field |-> k % IndexModulus, word |-> WordOf(k)]

\* What the user is asked, when asked.
Asked ==
    /\ consent.ui # "NONE" => status = "CONSENT"
    /\ status = "CONSENT" /\ ~dataPresent /\ tx.length # 0 => Successful(pluginStatus)
    /\ consent.ui = "PLUGIN" =>
            /\ Successful(pluginStatus)
            /\ pluginName # "EXTERNAL" => consent.maxItems = 2
    /\ consent.ui = "APPROVAL" /\ dataPresent /\ ~contractDetails => Warned

InBuffer == status # "OVERRUN" => DOMAIN data = 0 .. WordLength - 1

IInv ==
    /\ TypeOK /\ Typed
    /\ ParametersExact
    /\ Placed
    /\ PluginReads /\ PluginKeeps /\ ScreenReads
    /\ Asked
    /\ InBuffer
    /\ RefusedForCause
    /\ InBufferUnswitched

USE DEF parser, session, settings, plugin, words, tokenContext, history

-----------------------------------------------------------------------------
(* Quotients and remainders by a constant.                                 *)

LEMMA Division ==
    ASSUME NEW w \in Nat, w > 0, NEW n \in Nat
    PROVE  n = w * (n \div w) + (n % w) /\ n % w \in 0 .. w - 1 /\ n \div w \in Nat
BY SMT

LEMMA SameQuotient ==
    ASSUME NEW w \in Nat, w > 0, NEW a \in Int, NEW b \in Int,
           a * w < b * w + w, b * w < a * w + w
    PROVE  a = b
<1>1. (a - b) * w < w /\ (b - a) * w < w
  BY SMT
<1>2. CASE a > b
  <2>1. a - b >= 1
    BY <1>2
  <2>2. (a - b) * w >= w
    BY <2>1, SMT
  <2> QED BY <2>2, <1>1
<1>3. CASE b > a
  <2>1. b - a >= 1
    BY <1>3
  <2>2. (b - a) * w >= w
    BY <2>1, SMT
  <2> QED BY <2>2, <1>1
<1> QED BY <1>2, <1>3

LEMMA Remainder ==
    ASSUME NEW w \in Nat, w > 0, NEW q \in Nat, NEW r \in 0 .. w - 1
    PROVE  (q * w + r) % w = r
<1> DEFINE a == q * w + r
           k == a \div w
           m == a % w
<1>1. a = k * w + m /\ m \in 0 .. w - 1 /\ k \in Nat
  <2>1. a \in Nat
    BY SMT
  <2> HIDE DEF a
  <2>2. a = w * (a \div w) + (a % w) /\ a % w \in 0 .. w - 1 /\ a \div w \in Nat
    BY <2>1, Division
  <2> QED BY <2>2, SMT
<1>2. a = q * w + r
  OBVIOUS
<1> HIDE DEF a, k, m
<1>3. k * w < q * w + w /\ q * w < k * w + w
  BY <1>1, <1>2, SMT
<1>4. k = q
  BY <1>1, <1>3, SameQuotient
<1>5. m = r
  BY <1>1, <1>2, <1>4, SMT
<1> QED BY <1>5 DEF m, a

LEMMA BetweenMultiples ==
    ASSUME NEW w \in Nat, w > 0, NEW n \in Nat, NEW m \in Nat,
           n * w < m, m < (n + 1) * w
    PROVE  m % w # 0
<1> DEFINE r == m - n * w
<1>1. m = n * w + r /\ r \in 0 .. w - 1 /\ r # 0
  BY SMT
<1> HIDE DEF r
<1> QED BY <1>1, Remainder

\* A byte that is incremented counts modulo its size.
LEMMA NextRemainder ==
    ASSUME NEW w \in Nat, w > 0, NEW n \in Nat
    PROVE  ((n % w) + 1) % w = (n + 1) % w
<1> DEFINE q == n \div w
           r == n % w
<1>1. n = q * w + r /\ r \in 0 .. w - 1 /\ q \in Nat
  BY Division, SMT
<1> HIDE DEF q, r
<1>2. CASE r + 1 < w
  <2>1. n + 1 = q * w + (r + 1) /\ r + 1 \in 0 .. w - 1
    BY <1>1, <1>2, SMT
  <2>2. (n + 1) % w = r + 1
    BY <2>1, <1>1, Remainder
  <2>3. (r + 1) % w = r + 1
    BY <2>1, SMT
  <2> QED BY <2>2, <2>3 DEF r
<1>3. CASE r + 1 = w
  <2>1. n + 1 = (q + 1) * w + 0
    BY <1>1, <1>3, SMT
  <2>2. (n + 1) % w = 0
    BY <2>1, <1>1, Remainder
  <2>3. (r + 1) % w = 0
    BY <1>3, SMT
  <2> QED BY <2>2, <2>3 DEF r
<1> QED BY <1>1, <1>2, <1>3

-----------------------------------------------------------------------------
(* The host and the settings.                                              *)

LEMMA TransactionTyped ==
    ASSUME TypeOK
    PROVE  /\ tx.length \in Nat /\ pos \in Nat /\ pos <= tx.length /\ left \in Nat
           /\ serial \in Nat /\ fieldOffset \in Nat /\ fieldIndex \in Nat
BY DataAssumption, PluginAssumption DEF TypeOK, NoTransaction

LEMMA InitInv == Init => IInv
<1> SUFFICES ASSUME Init PROVE IInv OBVIOUS
<1> USE DataAssumption, PluginAssumption DEF Init, NoTransaction, NoConsent, Over, Waiting
<1>1. TypeOK
  <2>1. calledFromSwap \in BOOLEAN BY Zenon
  <2>2. fieldIndex \in 0 .. IndexModulus - 1 /\ fieldOffset \in 0..WordLength OBVIOUS
  <2>3. consent.ui \in {"NONE", "APPROVAL", "PLUGIN", "SILENT"} /\ consent.ui # "APPROVAL" OBVIOUS
  <2>4. serial \in 0..MaxTransactions /\ left \in Nat /\ pos \in 0..tx.length OBVIOUS
  <2> QED BY <2>1, <2>2, <2>3, <2>4 DEF TypeOK, Results
<1>2. Typed BY DEF Typed, Place, AnyWord, Zero
<1>3. ParametersExact /\ InBuffer /\ InBufferUnswitched
  BY DEF ParametersExact, InBuffer, InBufferUnswitched, Zero
<1>4. Placed /\ PluginReads /\ PluginKeeps /\ ScreenReads
  BY DEF Placed, PluginReads, PluginKeeps, ScreenReads, Active
<1>5. Asked /\ RefusedForCause BY DEF Asked, RefusedForCause
<1> QED BY <1>1, <1>2, <1>3, <1>4, <1>5 DEF IInv

LEMMA FirstBlockInv ==
    ASSUME IInv, NEW t \in Transactions, FirstBlock(t)
    PROVE  IInv'
<1> USE DataAssumption, PluginAssumption DEF IInv, FirstBlock, NoConsent, Over, Waiting
<1>1. TypeOK'
  <2>1. calledFromSwap' \in BOOLEAN /\ externalPluginIsSet' \in BOOLEAN
    BY DEF TypeOK, Reset
  <2>2. tx' \in Transactions /\ serial' \in 0..MaxTransactions /\ pos' \in 0..tx'.length /\ left' \in Nat
    BY DEF TypeOK
  <2> QED BY <2>1, <2>2 DEF TypeOK, Results
<1>2. Typed' BY DEF Typed
<1>3. ParametersExact' /\ InBuffer' /\ InBufferUnswitched'
  BY DEF ParametersExact, InBuffer, InBufferUnswitched
<1>4. Placed' /\ PluginReads' /\ PluginKeeps' /\ ScreenReads'
  BY DEF TypeOK, Placed, PluginReads, PluginKeeps, ScreenReads, Active, Successful
<1>7. Asked' /\ RefusedForCause' BY DEF Asked, RefusedForCause
<1> QED BY <1>1, <1>2, <1>3, <1>4, <1>7

LEMMA BlockInv ==
    ASSUME IInv, NEW n \in 0..MaxBlock, Block(n)
    PROVE  IInv'
<1> USE DataAssumption, PluginAssumption DEF IInv, Block, Over, Waiting
<1>1. TypeOK'
  BY DEF TypeOK, Results
<1>2. Typed' BY DEF Typed
<1>3. ParametersExact' /\ InBuffer' /\ InBufferUnswitched'
  BY DEF ParametersExact, InBuffer, InBufferUnswitched, WordOf
<1>4. Placed'
  BY DEF TypeOK, Placed, Active
<1>5. PluginReads' BY DEF PluginReads, Active, Reading, IsCall, Bytes
<1>6. PluginKeeps' BY DEF PluginKeeps, Active, WordOf
<1>8. ScreenReads' BY DEF ScreenReads, Active, WordOf, Reading, IsCall
<1>7. Asked' /\ RefusedForCause' BY DEF Asked, RefusedForCause
<1> QED BY <1>1, <1>2, <1>3, <1>4, <1>5, <1>6, <1>8, <1>7

LEMMA SetExternalPluginInv ==
    ASSUME IInv, NEW selector \in ExternalTargets, SetExternalPlugin(selector)
    PROVE  IInv'
<1> USE DataAssumption, PluginAssumption DEF IInv, SetExternalPlugin, Over, Waiting
<1>1. TypeOK'
  BY DEF TypeOK, Results
<1>2. Typed'
  <2>1. Overlaid \in AnyWord
    BY DEF Overlaid, AnyWord, Place
  <2> QED BY <2>1 DEF Typed
<1>3. ParametersExact' /\ InBuffer' /\ InBufferUnswitched'
  BY DEF ParametersExact, InBuffer, InBufferUnswitched, WordOf
<1>4. Placed' /\ PluginKeeps'
  BY DEF Placed, Active, IsCall, PluginKeeps
<1>5. PluginReads' /\ ScreenReads'
  BY DEF PluginReads, ScreenReads, Active, Reading, IsCall, Bytes, WordOf
<1>6. Asked' /\ RefusedForCause'
  BY DEF Asked, RefusedForCause, Warned
<1> QED BY <1>1, <1>2, <1>3, <1>4, <1>5, <1>6

LEMMA SwitchSettingsInv ==
    ASSUME IInv, SwitchSettings
    PROVE  IInv'
<1> USE DataAssumption, PluginAssumption DEF IInv, SwitchSettings, Over, Waiting
<1>1. TypeOK'
  <2>1. dataAllowed' \in BOOLEAN /\ contractDetails' \in BOOLEAN
    BY DEF TypeOK
  <2> QED BY <2>1 DEF TypeOK, Results
<1>2. Typed' /\ switches'.now # 0
  BY DEF Typed
<1>3. ParametersExact' /\ InBuffer' /\ InBufferUnswitched'
  BY DEF ParametersExact, InBuffer, InBufferUnswitched, WordOf
<1>4. Placed' /\ PluginKeeps'
  BY DEF Placed, Active, IsCall, PluginKeeps, WordOf
<1>5. PluginReads' /\ ScreenReads'
  BY <1>2 DEF PluginReads, ScreenReads, Active, Reading, IsCall, Bytes, WordOf
<1>6. Asked' /\ RefusedForCause'
  BY <1>2 DEF Asked, RefusedForCause, Warned
<1> QED BY <1>1, <1>2, <1>3, <1>4, <1>5, <1>6

-----------------------------------------------------------------------------
(* The selector.                                                           *)

\* The parser takes what is left of the field or of the block.
LEMMA LeftToParser ==
    ASSUME TypeOK, NotHandled
    PROVE  \E n \in Nat :
             /\ n <= left /\ n <= tx.length - pos
             /\ n = left \/ n = tx.length - pos
             /\ pos' = pos + n /\ left' = left - n /\ status' = Afterwards(n)
<1> DEFINE n == Smaller(left, tx.length - pos)
<1>1. n \in Nat
  BY TransactionTyped DEF Smaller
<1> QED BY <1>1, TransactionTyped DEF NotHandled, Take, Smaller

LEMMA IgnoreDataInv ==
    ASSUME IInv, IgnoreData
    PROVE  IInv'
<1> USE DataAssumption, PluginAssumption DEF IInv, IgnoreData, Over, Waiting
<1>0. PICK n \in Nat :
             /\ n <= left /\ n <= tx.length - pos
             /\ n = left \/ n = tx.length - pos
             /\ pos' = pos + n /\ left' = left - n /\ status' = Afterwards(n)
  BY LeftToParser
<1> USE <1>0, TransactionTyped DEF Afterwards
<1>1. TypeOK'
  BY DEF TypeOK, Results
<1>2. Typed'
  BY DEF Typed
<1>3. ParametersExact' /\ InBuffer' /\ InBufferUnswitched'
  BY DEF ParametersExact, InBuffer, InBufferUnswitched, WordOf
<1>4. Placed'
  BY DEF Placed, Active, PluginReads, IsCall
<1>5. ~IsCall /\ ~IsCall'
  BY DEF IsCall
<1>6. ~Successful(pluginStatus) /\ pluginStatus' = pluginStatus
  <2>1. status \in Active
    BY DEF Active
  <2> QED BY <2>1, <1>5 DEF PluginReads
<1>7. PluginReads' /\ ScreenReads' /\ PluginKeeps'
  BY ONLY <1>5, <1>6 DEF PluginReads, PluginKeeps, ScreenReads
<1>8. Asked' /\ RefusedForCause'
  BY DEF Asked, RefusedForCause
<1> QED BY <1>1, <1>2, <1>3, <1>4, <1>7, <1>8

LEMMA SelectorCutInv ==
    ASSUME IInv, SelectorCut
    PROVE  IInv'
<1> USE DataAssumption, PluginAssumption DEF IInv, SelectorCut, AtSelector, Fault, Reset, Over, Waiting
<1>1. TypeOK'
  BY DEF TypeOK, Results
<1>2. Typed'
  BY DEF Typed
<1>3. ParametersExact' /\ InBuffer' /\ InBufferUnswitched'
  BY DEF ParametersExact, InBuffer, InBufferUnswitched, WordOf
<1>4. Placed' /\ PluginReads' /\ ScreenReads' /\ PluginKeeps'
  BY DEF Placed, PluginReads, PluginKeeps, ScreenReads, Active
<1>6. Asked' /\ RefusedForCause'
  BY DEF Asked, RefusedForCause
<1> QED BY <1>1, <1>2, <1>3, <1>4, <1>6

LEMMA SelectorDisplayedInv ==
    ASSUME IInv, SelectorDisplayed
    PROVE  IInv'
<1> USE DataAssumption, PluginAssumption DEF IInv, SelectorDisplayed, AtSelector, Over, Waiting
<1>1. TypeOK'
  BY DEF TypeOK, Results
<1>2. Typed'
  BY DEF Typed
<1>3. ParametersExact' /\ InBuffer' /\ InBufferUnswitched'
  BY DEF ParametersExact, InBuffer, InBufferUnswitched, WordOf
<1>4. Placed' /\ PluginReads' /\ ScreenReads' /\ PluginKeeps'
  BY DEF Placed, PluginReads, PluginKeeps, ScreenReads, Active, IsCall, Successful
<1>6. Asked' /\ RefusedForCause'
  BY DEF Asked, RefusedForCause
<1> QED BY <1>1, <1>2, <1>3, <1>4, <1>6

LEMMA WrongTargetInv ==
    ASSUME IInv, WrongTarget
    PROVE  IInv'
<1> USE DataAssumption, PluginAssumption DEF IInv, WrongTarget, PluginSought, AtSelector, Over, Waiting
<1>1. TypeOK'
  BY DEF TypeOK, Results
<1>2. Typed'
  BY DEF Typed
<1>3. ParametersExact' /\ InBuffer' /\ InBufferUnswitched'
  BY DEF ParametersExact, InBuffer, InBufferUnswitched, WordOf
<1>4. Placed' /\ PluginReads' /\ ScreenReads' /\ PluginKeeps'
  BY DEF Placed, PluginReads, PluginKeeps, ScreenReads, Active
<1>6. Asked' /\ RefusedForCause'
  BY DEF Asked, RefusedForCause
<1> QED BY <1>1, <1>2, <1>3, <1>4, <1>6

LEMMA NoPluginInv ==
    ASSUME IInv, NoPlugin
    PROVE  IInv'
<1> USE DataAssumption, PluginAssumption DEF IInv, NoPlugin, PluginSought, AtSelector, Fault, Reset, Over, Waiting
<1>1. TypeOK'
  BY DEF TypeOK, Results
<1>2. Typed'
  BY DEF Typed
<1>3. ParametersExact' /\ InBuffer' /\ InBufferUnswitched'
  BY DEF ParametersExact, InBuffer, InBufferUnswitched, WordOf
<1>4. Placed' /\ PluginReads' /\ ScreenReads' /\ PluginKeeps'
  BY DEF Placed, PluginReads, PluginKeeps, ScreenReads, Active, IsCall, Successful
<1>6. Asked' /\ RefusedForCause'
  BY DEF Asked, RefusedForCause
<1> QED BY <1>1, <1>2, <1>3, <1>4, <1>6


\* Both selectors are in the list of the first plugin.
LEMMA FirstListed ==
    ASSUME NEW selector, Listing(selector) # {}
    PROVE  InternalPlugin(selector) = "PRC20" /\ selector \in {"TRANSFER", "APPROVE"}
<1> USE DEF InternalPlugins
<1>1. /\ DOMAIN InternalPlugins = 1..2
      /\ InternalPlugins[1] = [alias |-> "PRC20", selectors |-> {"TRANSFER", "APPROVE"}]
      /\ InternalPlugins[2] = [alias |-> "PRC721", selectors |-> {"APPROVE"}]
  OBVIOUS
<1> HIDE DEF InternalPlugins
<1>2. 1 \in Listing(selector) /\ Listing(selector) \subseteq 1..2
      /\ selector \in {"TRANSFER", "APPROVE"}
  BY <1>1 DEF Listing
<1> DEFINE first == CHOOSE i \in Listing(selector) : \A j \in Listing(selector) : i <= j
<1>3. first = 1
  <2>1. \E i \in Listing(selector) : \A j \in Listing(selector) : i <= j
    BY <1>2
  <2>2. first \in Listing(selector) /\ first <= 1
    BY <2>1, <1>2
  <2> QED BY <2>2, <1>2
<1> QED BY <1>1, <1>2, <1>3 DEF InternalPlugin

LEMMA InitPluginInv ==
    ASSUME IInv, InitPlugin
    PROVE  IInv'
<1> USE DataAssumption, PluginAssumption DEF IInv, PluginSought, AtSelector, Over, Waiting
<1>1. /\ pluginName' \in {"PRC20", "EXTERNAL"} /\ initialised' = pluginName'
      /\ pluginName' # "EXTERNAL" => tx.selector \in {"TRANSFER", "APPROVE"}
  BY FirstListed DEF InitPlugin
<1>2. /\ pluginStatus' \in {"OK", "ERROR", "UNAVAILABLE"}
      /\ context' \in {context, [context EXCEPT !.selectorIndex = tx.selector]}
      /\ pluginName' = "EXTERNAL" => context' = context
  BY DEF InitPlugin, InitReturns
<1>3. /\ PluginSought
      /\ UNCHANGED data
      /\ CASE pluginStatus' = "ERROR" -> Fault /\ UNCHANGED <<fieldIndex, fieldOffset>>
           [] pluginStatus' = "OK" -> Accepted /\ UNCHANGED session
           [] OTHER -> /\ status' = "BLOCK"
                       /\ UNCHANGED <<left, pos, session, fieldIndex, fieldOffset>>
  BY DEF InitPlugin
<1>4. /\ given = <<>> /\ shown = <<>> /\ IsCall /\ pos = 0 /\ left >= SelectorLength
      /\ tx.length >= SelectorLength /\ ~contractDetails
  BY <1>3 DEF Placed, Active, IsCall
<1>5. context' \in [selectorIndex : {"TRANSFER", "APPROVE"}, address : AnyWord, amount : AnyWord]
  BY <1>1, <1>2 DEF Typed
<1>6. Typed' /\ ParametersExact' /\ InBufferUnswitched'
  BY <1>1, <1>3, <1>4, <1>5 DEF Typed, ParametersExact, InBufferUnswitched, WordOf
<1> USE <1>1, <1>3, <1>4, TransactionTyped
<1>7. CASE pluginStatus' = "ERROR"
  <2>1. Fault /\ UNCHANGED <<fieldIndex, fieldOffset>>
    BY <1>7
  <2>2. TypeOK'
    BY <2>1, <1>7 DEF TypeOK, Results, Fault, Reset
  <2>3. /\ Placed' /\ PluginReads' /\ PluginKeeps' /\ ScreenReads'
        /\ Asked' /\ RefusedForCause' /\ InBuffer'
    BY <2>1, <1>7 DEF Fault, Reset, Placed, PluginReads, PluginKeeps, ScreenReads, Active,
                      Asked, RefusedForCause, InBuffer
  <2> QED BY <2>2, <2>3, <1>6
<1>8. CASE pluginStatus' = "OK"
  <2>1. Accepted /\ UNCHANGED session
    BY <1>8
  <2> USE <2>1, <1>8 DEF Accepted, Take
  <2>2. TypeOK'
    BY DEF TypeOK, Results
  <2>3. 0 % IndexModulus = 0
    BY Remainder
  <2>4. PluginReads' /\ PluginKeeps' /\ ScreenReads'
    BY <2>3 DEF PluginReads, PluginKeeps, ScreenReads, Active, Reading, IsCall, Successful
  <2>5. Placed' /\ Asked' /\ RefusedForCause' /\ InBuffer'
    BY DEF Placed, Active, Asked, RefusedForCause, InBuffer, IsCall, Successful
  <2> QED BY <2>2, <2>4, <2>5, <1>6
<1>9. CASE pluginStatus' = "UNAVAILABLE"
  <2>1. status' = "BLOCK" /\ UNCHANGED <<left, pos, session, fieldIndex, fieldOffset>>
    BY <1>9
  <2> USE <2>1, <1>9
  <2>2. TypeOK'
    BY DEF TypeOK, Results
  <2>3. /\ Placed' /\ PluginReads' /\ PluginKeeps' /\ ScreenReads'
        /\ Asked' /\ RefusedForCause' /\ InBuffer'
    BY DEF Placed, PluginReads, PluginKeeps, ScreenReads, Active, Asked, RefusedForCause,
           InBuffer, IsCall, Successful
  <2> QED BY <2>2, <2>3, <1>6
<1> QED BY <1>2, <1>7, <1>8, <1>9

-----------------------------------------------------------------------------
(* The words.                                                              *)

LEMMA DataForbiddenInv ==
    ASSUME IInv, DataForbidden
    PROVE  IInv'
<1> USE DataAssumption, PluginAssumption DEF IInv, DataForbidden, AtBlock, Fault, Reset, Over, Waiting
<1>1. TypeOK'
  BY DEF TypeOK, Results
<1>2. Typed'
  BY DEF Typed
<1>3. ParametersExact' /\ InBuffer' /\ InBufferUnswitched'
  BY DEF ParametersExact, InBuffer, InBufferUnswitched, WordOf
<1>4. Placed' /\ PluginReads' /\ ScreenReads' /\ PluginKeeps'
  BY DEF Placed, PluginReads, PluginKeeps, ScreenReads, Active
<1>6. Asked' /\ RefusedForCause'
  BY DEF Asked, RefusedForCause
<1> QED BY <1>1, <1>2, <1>3, <1>4, <1>6

LEMMA DataUnseenInv ==
    ASSUME IInv, DataUnseen
    PROVE  IInv'
<1> USE DataAssumption, PluginAssumption DEF IInv, DataUnseen, AtBlock, Over, Waiting
<1>0. PICK n \in Nat :
             /\ n <= left /\ n <= tx.length - pos
             /\ n = left \/ n = tx.length - pos
             /\ pos' = pos + n /\ left' = left - n /\ status' = Afterwards(n)
  BY LeftToParser
<1> USE <1>0, TransactionTyped DEF Afterwards
<1>1. TypeOK'
  BY DEF TypeOK, Results
<1>2. Typed'
  BY DEF Typed
<1>3. ParametersExact' /\ InBuffer' /\ InBufferUnswitched'
  BY DEF ParametersExact, InBuffer, InBufferUnswitched, WordOf
<1>4. Placed'
  BY DEF Placed, Active, IsCall
<1>5. PluginReads' /\ ScreenReads' /\ PluginKeeps'
  BY DEF PluginReads, PluginKeeps, ScreenReads, Active, IsCall
<1>6. Asked' /\ RefusedForCause'
  BY DEF Asked, RefusedForCause
<1> QED BY <1>1, <1>2, <1>3, <1>4, <1>5, <1>6


LEMMA Counts ==
    ASSUME Typed
    PROVE  /\ Len(given) \in Nat /\ DOMAIN given = 1 .. Len(given)
           /\ shown # <<>> => Len(shown) - 1 \in Nat
<1>1. given \in Seq(Parameter) /\ shown \in Seq(Screen)
  BY DEF Typed
<1> QED BY <1>1

\* How much of a block goes into the buffer.
LEMMA Sizes ==
    ASSUME TypeOK
    PROVE  /\ BlockSize \in Nat /\ BlockSize > 0
           /\ pos # 0 => BlockSize <= WordLength
           /\ pos = 0 => BlockSize = SelectorLength
           /\ pos # 0 /\ fieldOffset < WordLength => BlockSize = WordLength - fieldOffset
           /\ CopySize \in Nat /\ CopySize <= left /\ CopySize <= BlockSize
           /\ CopySize = left \/ CopySize = BlockSize
<1> USE PluginAssumption, TransactionTyped
<1>1. /\ fieldOffset % WordLength \in 0 .. WordLength - 1
      /\ fieldOffset < WordLength => fieldOffset % WordLength = fieldOffset
  BY SMT
<1>2. /\ BlockSize \in Nat /\ BlockSize > 0
      /\ pos # 0 => BlockSize <= WordLength
      /\ pos = 0 => BlockSize = SelectorLength
      /\ pos # 0 /\ fieldOffset < WordLength => BlockSize = WordLength - fieldOffset
  BY <1>1 DEF BlockSize
<1> HIDE DEF BlockSize
<1> QED BY <1>2 DEF CopySize, Smaller

LEMMA CopiedBytes ==
    ASSUME TypeOK, Typed
    PROVE  /\ Copied \in [DOMAIN Copied -> Place]
           /\ DOMAIN Copied = DOMAIN data \cup (fieldOffset .. fieldOffset + CopySize - 1)
           /\ DOMAIN Copied \subseteq Nat
           /\ fieldOffset + CopySize <= WordLength => DOMAIN Copied = DOMAIN data
           /\ \A i \in fieldOffset .. fieldOffset + CopySize - 1 :
                    Copied[i] = <<serial, pos + i - fieldOffset>>
           /\ \A i \in DOMAIN data : i < fieldOffset => Copied[i] = data[i]
<1> USE PluginAssumption, TransactionTyped, Sizes
<1> DEFINE new == fieldOffset .. fieldOffset + CopySize - 1
<1>1. new \subseteq Nat
  OBVIOUS
<1>2. /\ DOMAIN Copied = DOMAIN data \cup new
      /\ \A i \in new : Copied[i] = <<serial, pos + i - fieldOffset>>
      /\ \A i \in DOMAIN data \ new : Copied[i] = data[i]
  BY DEF Copied
<1>3. \A i \in new : Copied[i] \in Place
  BY <1>2 DEF Place
<1>4. \A i \in DOMAIN data \ new : Copied[i] \in Place
  BY <1>2 DEF Typed
<1>5. Copied = [i \in DOMAIN Copied |-> Copied[i]]
  BY DEF Copied
<1>6. Copied \in [DOMAIN Copied -> Place]
  BY <1>2, <1>3, <1>4, <1>5
<1>7. fieldOffset + CopySize <= WordLength => new \subseteq 0 .. WordLength - 1
  OBVIOUS
<1>8. \A i \in DOMAIN data : i < fieldOffset => i \notin new
  BY DEF Typed
<1> HIDE DEF new
<1> QED BY <1>1, <1>2, <1>6, <1>7, <1>8 DEF Typed, new

\* What is in the buffer stays a word of bytes.
LEMMA BufferTyped ==
    ASSUME TypeOK, Typed, CopyBlock
    PROVE  /\ DOMAIN data' = DOMAIN data
           /\ data' \in [DOMAIN data -> Place]
           /\ [i \in 0 .. SelectorLength - 1 |-> data'[i]] \in AnySelector
           /\ Word \in AnyWord
<1> USE PluginAssumption, DataAssumption, TransactionTyped
<1>1. DOMAIN data' = DOMAIN data /\ data' \in [DOMAIN data -> Place]
  <2>1. CASE pos = 0
    BY <2>1 DEF CopyBlock, Typed, Place
  <2>2. CASE pos # 0
    BY <2>2, CopiedBytes DEF CopyBlock
  <2> QED BY <2>1, <2>2
<1>2. \A i \in 0 .. WordLength - 1 : data'[i] \in Place
  BY <1>1 DEF Typed
<1> QED BY <1>1, <1>2 DEF Word, AnyWord, AnySelector

LEMMA ReadsPart ==
    ASSUME TypeOK, Typed, NEW n \in Nat, Reading(n), pos # 0, PartOfBlock
    PROVE  Reading(n)'
<1> USE PluginAssumption, DataAssumption, TransactionTyped DEF Reading
<1>1. /\ fieldOffset' = fieldOffset + CopySize /\ pos' = pos + CopySize
      /\ tx' = tx /\ serial' = serial /\ fieldIndex' = fieldIndex
      /\ data' = Copied /\ tx.length - pos >= BlockSize /\ CopySize < BlockSize
  BY Sizes DEF PartOfBlock, CopyBlock, DataSeen, AtBlock, Take, Short
<1>2. BlockSize = WordLength - fieldOffset /\ CopySize \in Nat
  BY Sizes
<1>3. \A i \in 0 .. fieldOffset' - 1 : data'[i] = <<serial, SelectorLength + n * WordLength + i>>
  <2>1. SUFFICES ASSUME NEW i \in 0 .. fieldOffset' - 1
                 PROVE  Copied[i] = <<serial, SelectorLength + n * WordLength + i>>
    BY <1>1
  <2>2. CASE i < fieldOffset
    <3>0. i \in 0 .. fieldOffset - 1 /\ i \in 0 .. WordLength - 1
      BY <2>2, <1>1, <1>2
    <3>1. i \in 0 .. fieldOffset - 1 /\ i \in DOMAIN data
      BY <3>0 DEF Typed
    <3>2. Copied[i] = data[i]
      BY <3>1, <2>2, CopiedBytes
    <3> QED BY <3>1, <3>2
  <2>3. CASE i >= fieldOffset
    <3>1. i \in fieldOffset .. fieldOffset + CopySize - 1
      BY <2>3, <1>1, <1>2
    <3>2. Copied[i] = <<serial, pos + i - fieldOffset>>
      BY <3>1, CopiedBytes
    <3> QED BY <3>2
  <2> QED BY <2>2, <2>3
<1> QED BY <1>1, <1>2, <1>3

LEMMA ReadsWhole ==
    ASSUME TypeOK, Typed, NEW n \in Nat, Reading(n), pos # 0, CopyBlock, CopySize = BlockSize
    PROVE  /\ Word = WordOf(n + 1)
           /\ pos + CopySize = SelectorLength + (n + 1) * WordLength
           /\ fieldOffset + CopySize = WordLength
           /\ NextIndex = (n + 1) % IndexModulus
<1> USE PluginAssumption, DataAssumption, TransactionTyped DEF Reading
<1>1. data' = Copied
  BY DEF CopyBlock
<1>2. CopySize = WordLength - fieldOffset /\ CopySize \in Nat
  BY Sizes
<1>3. ASSUME NEW i \in 0 .. WordLength - 1
      PROVE  data'[i] = <<serial, SelectorLength + n * WordLength + i>>
  <2>2. CASE i < fieldOffset
    <3>1. i \in 0 .. fieldOffset - 1 /\ i \in DOMAIN data
      BY <2>2 DEF Typed
    <3>2. Copied[i] = data[i]
      BY <3>1, <2>2, CopiedBytes
    <3> QED BY <3>1, <3>2, <1>1
  <2>3. CASE i >= fieldOffset
    <3>1. i \in fieldOffset .. fieldOffset + CopySize - 1
      BY <2>3, <1>2
    <3>2. Copied[i] = <<serial, pos + i - fieldOffset>>
      BY <3>1, CopiedBytes
    <3> QED BY <3>2, <1>1
  <2> QED BY <2>2, <2>3
<1>4. Word = WordOf(n + 1)
  BY <1>3 DEF Word, WordOf
<1>5. NextIndex = (n + 1) % IndexModulus
  <2>0. IndexModulus \in Nat /\ IndexModulus > 0
    OBVIOUS
  <2>1. ((n % IndexModulus) + 1) % IndexModulus = (n + 1) % IndexModulus
    BY ONLY <2>0, NextRemainder, n \in Nat
  <2> QED BY <2>1 DEF NextIndex
<1> QED BY <1>2, <1>4, <1>5


\* A word is dealt with by a plugin that reads, or by the screen.
LEMMA SeenInside ==
    ASSUME IInv, DataSeen, pos # 0
    PROVE  /\ status \in Active /\ IsCall /\ pos < tx.length /\ dataPresent
           /\ Successful(pluginStatus) => Reading(Len(given)) /\ initialised # "NONE"
           /\ ~Successful(pluginStatus) => contractDetails /\ given = <<>> /\ status = "CALL"
           /\ ~Successful(pluginStatus) /\ switches.now = 0 =>
                    Reading(Len(shown) - 1) /\ shown # <<>>
BY PluginAssumption, TransactionTyped
DEF IInv, DataSeen, AtBlock, Placed, PluginReads, ScreenReads, Active, IsCall

\* At the selector there is nothing before it, and it is whole.
LEMMA SeenFirst ==
    ASSUME IInv, DataSeen, pos = 0
    PROVE  /\ status = "BLOCK" /\ IsCall /\ dataPresent /\ contractDetails
           /\ ~Successful(pluginStatus) /\ given = <<>> /\ shown = <<>>
           /\ CopySize = SelectorLength /\ BlockSize = SelectorLength
<1>1. status = "BLOCK" /\ left >= SelectorLength /\ IsCall /\ dataPresent
      /\ ~Successful(pluginStatus) /\ given = <<>> /\ shown = <<>> /\ contractDetails
  BY PluginAssumption DEF IInv, DataSeen, AtBlock, Placed, Active
<1>2. BlockSize = SelectorLength /\ (CopySize = left \/ CopySize = BlockSize) /\ CopySize <= BlockSize
  BY Sizes DEF IInv
<1> QED BY <1>1, <1>2, PluginAssumption, TransactionTyped DEF IInv

LEMMA UnalignedInv ==
    ASSUME IInv, Unaligned
    PROVE  IInv'
<1> USE DataAssumption, PluginAssumption DEF IInv, Unaligned, DataSeen, AtBlock, Fault, Reset, Over, Waiting
<1>1. TypeOK'
  BY DEF TypeOK, Results
<1>2. Typed'
  BY DEF Typed
<1>3. ParametersExact' /\ InBuffer' /\ InBufferUnswitched'
  BY DEF ParametersExact, InBuffer, InBufferUnswitched, WordOf
<1>4. Placed' /\ PluginReads' /\ ScreenReads' /\ PluginKeeps' /\ Asked'
  BY DEF Placed, PluginReads, PluginKeeps, ScreenReads, Active, Asked
<1>5. RefusedForCause'
  <2>1. SUFFICES ASSUME pos # 0, ~Successful(pluginStatus), switches.now = 0
                 PROVE  (tx.length - SelectorLength) % WordLength # 0
    BY SeenInside DEF RefusedForCause
  <2>2. PICK n \in Nat : n = Len(shown) - 1
    BY <2>1, SeenInside, Counts
  <2>3. Reading(n) /\ pos < tx.length
    BY <2>1, <2>2, SeenInside
  <2>4. tx.length - pos < WordLength - fieldOffset
    BY <2>1, <2>3, Sizes DEF Reading, Short
  <2>5. /\ tx.length - SelectorLength \in Nat
        /\ n * WordLength < tx.length - SelectorLength
        /\ tx.length - SelectorLength < (n + 1) * WordLength
    BY <2>3, <2>4, TransactionTyped DEF Reading
  <2>6. WordLength \in Nat /\ WordLength > 0
    OBVIOUS
  <2> QED BY ONLY <2>5, <2>6, BetweenMultiples
<1> QED BY <1>1, <1>2, <1>3, <1>4, <1>5

LEMMA OverrunInv ==
    ASSUME IInv, Overrun
    PROVE  IInv'
<1> USE DataAssumption, PluginAssumption DEF IInv, Overrun, DataSeen, AtBlock, Over, Waiting
<1>1. ASSUME NEW n \in Nat
      PROVE  ~Reading(n)
  BY Sizes, TransactionTyped DEF Reading
<1>2. ~Successful(pluginStatus) /\ switches.now # 0
  <2>1. given \in Seq(Parameter) /\ shown \in Seq(Screen)
    BY DEF Typed
  <2>2. CASE Successful(pluginStatus)
    BY <2>1, <2>2, <1>1, SeenInside
  <2>3. CASE ~Successful(pluginStatus) /\ switches.now = 0
    <3>1. Reading(Len(shown) - 1) /\ Len(shown) - 1 \in Nat
      BY <2>1, <2>3, SeenInside
    <3> QED BY <3>1, <1>1
  <2> QED BY <2>2, <2>3
<1>3. TypeOK'
  BY DEF TypeOK, Results
<1>4. Typed'
  BY CopiedBytes DEF Typed
<1>5. ParametersExact' /\ InBuffer' /\ InBufferUnswitched'
  BY <1>2 DEF ParametersExact, InBuffer, InBufferUnswitched, WordOf
<1>6. Placed' /\ PluginReads' /\ ScreenReads' /\ PluginKeeps'
  BY <1>2, SeenInside DEF Placed, PluginReads, PluginKeeps, ScreenReads, Active
<1>7. Asked' /\ RefusedForCause'
  BY DEF Asked, RefusedForCause
<1> QED BY <1>3, <1>4, <1>5, <1>6, <1>7

LEMMA PartOfBlockInv ==
    ASSUME IInv, PartOfBlock
    PROVE  IInv'
<1> USE DataAssumption, PluginAssumption, TransactionTyped DEF IInv, Over, Waiting
<1>1. /\ DataSeen /\ CopyBlock /\ CopySize < BlockSize
      /\ pos' = pos + CopySize /\ left' = left - CopySize /\ status' = Afterwards(CopySize)
      /\ fieldOffset' = fieldOffset + CopySize /\ tx.length - pos >= BlockSize
      /\ UNCHANGED <<tx, serial, session, fieldIndex, context, shown, given, settings,
                     dataPresent, pluginName, pluginStatus, target, consent, initialised>>
  BY Sizes DEF PartOfBlock, CopyBlock, DataSeen, AtBlock, Take, Short
<1>2. pos # 0 /\ fieldOffset + CopySize <= WordLength /\ status \in {"CALL", "BLOCK"}
  BY <1>1, SeenFirst DEF CopyBlock, DataSeen, AtBlock
<1>3. CopySize \in Nat /\ CopySize = left /\ BlockSize \in Nat
  BY <1>1, Sizes
<1>4. status' = "PROCESSING" /\ pos' < tx.length
  BY <1>1, <1>3 DEF Afterwards
<1> USE <1>1, <1>2, <1>3, <1>4
<1>5. TypeOK'
  BY DEF TypeOK, Results
<1>6. Typed'
  BY BufferTyped DEF Typed
<1>7. ParametersExact' /\ InBuffer' /\ InBufferUnswitched'
  BY BufferTyped, SeenInside DEF ParametersExact, InBuffer, InBufferUnswitched, WordOf, Active
<1>8. Placed'
  BY SeenInside DEF Placed, Active
<1>9. PluginReads'
  <2>1. SUFFICES ASSUME Successful(pluginStatus) PROVE Reading(Len(given))'
    BY SeenInside DEF PluginReads, Active, IsCall
  <2>2. PICK n \in Nat : n = Len(given)
    BY Counts
  <2>3. Reading(n)'
    BY <2>1, <2>2, SeenInside, ReadsPart
  <2> QED BY <2>2, <2>3
<1>10. PluginKeeps'
  BY SeenInside DEF PluginKeeps, WordOf
<1>11. ScreenReads'
  <2>1. SUFFICES ASSUME contractDetails, switches.now = 0, IsCall
                 PROVE  /\ ~Successful(pluginStatus)
                        /\ shown # <<>>
                        /\ Reading(Len(shown) - 1)'
                        /\ \A k \in 1 .. Len(shown) - 1 :
                              shown[k + 1] = [field |-> k % IndexModulus, word |-> WordOf(k)]
    BY DEF ScreenReads, IsCall, WordOf
  <2>2. /\ ~Successful(pluginStatus) /\ shown # <<>> /\ Reading(Len(shown) - 1)
        /\ \A k \in 1 .. Len(shown) - 1 :
                shown[k + 1] = [field |-> k % IndexModulus, word |-> WordOf(k)]
    BY <2>1, SeenInside DEF ScreenReads
  <2>3. PICK n \in Nat : n = Len(shown) - 1
    BY <2>2, Counts
  <2>4. Reading(n)'
    BY <2>2, <2>3, ReadsPart
  <2> QED BY <2>2, <2>3, <2>4
<1>12. Asked' /\ RefusedForCause'
  BY SeenInside DEF Asked, RefusedForCause, Active
<1> QED BY <1>5, <1>6, <1>7, <1>8, <1>9, <1>10, <1>11, <1>12


\* What an internal plugin does with the n-th word: PRC-20, in fact.
LEMMA InternalAnswers ==
    ASSUME NEW n \in Nat, n <= 2, pluginName = "PRC20", fieldIndex = n % IndexModulus,
           NEW answer \in ParameterAnswers(pluginName, ParameterOffset)
    PROVE  /\ n = 0 => Kept(ParameterOffset) = [context EXCEPT !.address = Word]
           /\ n = 1 => Kept(ParameterOffset) = [context EXCEPT !.amount = Word]
           /\ n = 2 => Fails(CallReturns(answer))
<1> USE PluginAssumption
<1>1. fieldIndex = n
  <2>1. IndexModulus \in Nat /\ IndexModulus > 2
    BY DataAssumption
  <2>2. n % IndexModulus = n
    BY <2>1, SMT
  <2> QED BY <2>2
<1>2. CASE n = 0
  <2>1. ParameterOffset = First
    BY <1>1, <1>2 DEF ParameterOffset, First
  <2> QED BY <2>1, <1>2 DEF Kept, First, Second
<1>3. CASE n = 1
  BY <1>1, <1>3 DEF ParameterOffset, Kept, First, Second
<1>4. CASE n = 2
  <2>1. ParameterOffset \notin {First, Second}
    BY <1>1, <1>4 DEF ParameterOffset, First, Second
  <2>2. answer = "ERROR"
    BY <2>1 DEF ParameterAnswers
  <2> QED BY <2>2, <1>4 DEF CallReturns, Fails
<1> QED BY <1>2, <1>3, <1>4

LEMMA GiveToPluginInv ==
    ASSUME IInv, GiveToPlugin
    PROVE  IInv'
<1> USE DataAssumption, PluginAssumption, TransactionTyped DEF IInv, Over, Waiting
<1>1. /\ DataSeen /\ CopyBlock /\ CopySize = BlockSize /\ Successful(pluginStatus)
      /\ given' = Append(given, [offset |-> ParameterOffset, word |-> Word])
      /\ context' = Kept(ParameterOffset) /\ tx.length - pos >= BlockSize
      /\ UNCHANGED <<tx, serial, shown, settings, dataPresent, pluginName, pluginStatus,
                     target, consent, initialised>>
  BY Sizes DEF GiveToPlugin, CopyBlock, DataSeen, AtBlock, Short
<1>2. PICK n \in Nat : n = Len(given) /\ DOMAIN given = 1..n
  BY Counts
<1>3. /\ pos # 0 /\ status \in {"CALL", "BLOCK"} /\ IsCall /\ dataPresent
      /\ Reading(n) /\ initialised # "NONE" /\ pluginName # "NONE"
      /\ switches.now = 0 => ~contractDetails
  BY <1>1, <1>2, SeenFirst, SeenInside DEF DataSeen, AtBlock, PluginReads
<1>4. /\ Word = WordOf(n + 1) /\ pos + CopySize = SelectorLength + (n + 1) * WordLength
      /\ fieldOffset + CopySize = WordLength /\ NextIndex = (n + 1) % IndexModulus
      /\ CopySize \in Nat /\ CopySize <= left
  BY <1>1, <1>3, ReadsWhole, Sizes
<1>5. PICK answer \in ParameterAnswers(pluginName, ParameterOffset) :
        IF Fails(CallReturns(answer))
        THEN Fault /\ fieldOffset' = fieldOffset + CopySize /\ UNCHANGED fieldIndex
        ELSE /\ Take(CopySize)
             /\ status' = Afterwards(CopySize)
             /\ fieldIndex' = NextIndex
             /\ fieldOffset' = 0
             /\ UNCHANGED session
  BY DEF GiveToPlugin
<1>6. /\ ParameterOffset \in Nat /\ Word \in AnyWord
      /\ DOMAIN data' = DOMAIN data /\ data' \in [DOMAIN data -> Place]
  <2>1. fieldIndex * WordLength \in Nat
    BY SMT
  <2> QED BY <2>1, <1>1, BufferTyped DEF ParameterOffset
<1>7. /\ given' \in Seq(Parameter) /\ Len(given') = n + 1 /\ DOMAIN given' = 1 .. n + 1
      /\ given'[n + 1] = [offset |-> ParameterOffset, word |-> WordOf(n + 1)]
      /\ \A k \in 1..n : given'[k] = given[k]
  <2>1. [offset |-> ParameterOffset, word |-> Word] \in Parameter /\ given \in Seq(Parameter)
    BY <1>6 DEF Parameter, Typed
  <2> QED BY <2>1, <1>1, <1>2, <1>4
<1>8. context' \in [selectorIndex : {"TRANSFER", "APPROVE"}, address : AnyWord, amount : AnyWord]
  BY <1>1, <1>6 DEF Kept, Typed
<1>9. Typed'
  BY <1>1, <1>6, <1>7, <1>8 DEF Typed
<1>10. ParametersExact'
  <2>1. SUFFICES ASSUME NEW k \in 1 .. n + 1
                 PROVE  /\ given'[k].offset = ((k - 1) % IndexModulus) * WordLength + SelectorLength
                        /\ given'[k].word = WordOf(k)
    <3>1. \A k \in 1 .. n + 1 : WordOf(k)' = WordOf(k)
      BY <1>1 DEF WordOf
    <3>2. \A k \in DOMAIN given' :
            /\ given'[k].offset = ((k - 1) % IndexModulus) * WordLength + SelectorLength
            /\ given'[k].word = WordOf(k)'
      BY ONLY <2>1, <1>7, <3>1
    <3> QED BY ONLY <3>2 DEF ParametersExact
  <2>2. CASE k = n + 1
    BY <2>2, <1>3, <1>7 DEF ParameterOffset, Reading
  <2>3. CASE k \in 1..n
    BY <2>3, <1>2, <1>7 DEF ParametersExact, Typed
  <2> QED BY <2>2, <2>3
<1>11. CASE Fails(CallReturns(answer))
  <2>1. Fault /\ fieldOffset' = fieldOffset + CopySize /\ UNCHANGED fieldIndex
    BY <1>5, <1>11
  <2>2. TypeOK'
    <3>1. fieldOffset' \in 0..WordLength
      BY <2>1, <1>4
    <3> QED BY <3>1, <2>1, <1>1 DEF Fault, Reset, TypeOK, Results
  <2> USE <1>1, <1>3, <1>4, <2>1 DEF Fault, Reset
  <2>3. Placed' /\ PluginReads' /\ PluginKeeps' /\ ScreenReads' /\ Asked'
    BY DEF Placed, PluginReads, PluginKeeps, ScreenReads, Active, Asked
  <2>4. RefusedForCause' /\ InBuffer' /\ InBufferUnswitched'
    BY <1>6 DEF RefusedForCause, InBuffer, InBufferUnswitched
  <2> QED BY <2>2, <2>3, <2>4, <1>9, <1>10
<1>12. CASE ~Fails(CallReturns(answer))
  <2>1. /\ Take(CopySize) /\ status' = Afterwards(CopySize) /\ fieldIndex' = NextIndex
        /\ fieldOffset' = 0 /\ UNCHANGED session
    BY <1>5, <1>12
  <2> USE <1>1, <1>3, <1>4, <2>1 DEF Take, Afterwards
  <2>2. TypeOK'
    <3>1. NextIndex \in 0 .. IndexModulus - 1
      BY Remainder, Division
    <3> QED BY <3>1 DEF TypeOK, Results
  <2>3. Reading(n + 1)'
    BY DEF Reading
  <2>4. PluginReads' /\ ScreenReads'
    BY <2>3, <1>7 DEF PluginReads, ScreenReads, IsCall
  <2>5. Placed'
    <3>1. /\ pos' \in Nat /\ pos' > 0 /\ tx'.length \in Nat /\ pos' <= tx'.length /\ left' \in Nat
          /\ status' = IF pos' = tx'.length THEN "TAIL"
                       ELSE IF left' = 0 THEN "PROCESSING" ELSE "CALL"
      <4>1. CopySize \in Nat /\ CopySize <= left /\ CopySize > 0 /\ CopySize <= tx.length - pos
        BY Sizes
      <4>2. tx.length \in Nat /\ pos \in Nat /\ left \in Nat
        BY ONLY IInv, TransactionTyped DEF IInv
      <4>3. /\ pos' = pos + CopySize /\ left' = left - CopySize /\ tx' = tx
            /\ status' = Afterwards(CopySize)
        BY ONLY <2>1, <1>1 DEF Take
      <4> HIDE DEF CopySize
      <4> QED BY ONLY <4>1, <4>2, <4>3 DEF Afterwards
    <3> QED BY ONLY <3>1, <1>1, <1>3 DEF Placed
  <2>8. Asked'
    BY DEF Asked
  <2>6. RefusedForCause' /\ InBuffer' /\ InBufferUnswitched'
    BY <1>6 DEF RefusedForCause, InBuffer, InBufferUnswitched
  <2>7. PluginKeeps'
    <3>1. SUFFICES ASSUME pluginName # "EXTERNAL"
                   PROVE  /\ n + 1 <= 2
                          /\ context'.address = WordOf(1)
                          /\ n + 1 >= 2 => context'.amount = WordOf(2)
      BY <1>7 DEF PluginKeeps, WordOf
    <3>2. /\ n <= 2 /\ pluginName = "PRC20"
          /\ n >= 1 => context.address = WordOf(1)
      BY <3>1, <1>2 DEF PluginKeeps, Typed, TypeOK, Active
    <3>3. /\ n = 0 => context' = [context EXCEPT !.address = Word]
          /\ n = 1 => context' = [context EXCEPT !.amount = Word]
          /\ n # 2
      BY <3>2, <1>12, InternalAnswers DEF Reading
    <3>4. CASE n = 0
      BY <3>3, <3>4, <1>4 DEF Typed
    <3>5. CASE n = 1
      BY <3>2, <3>3, <3>5, <1>4 DEF Typed
    <3>6. n = 0 \/ n = 1
      BY ONLY <3>2, <3>3, n \in Nat
    <3> QED BY <3>4, <3>5, <3>6
  <2> QED BY <2>2, <2>4, <2>5, <2>6, <2>7, <2>8, <1>9, <1>10
<1> QED BY <1>11, <1>12


LEMMA DisplayInv ==
    ASSUME IInv, Display
    PROVE  IInv'
<1> USE DataAssumption, PluginAssumption, TransactionTyped DEF IInv, Over, Waiting
<1>1. /\ DataSeen /\ CopyBlock /\ CopySize = BlockSize /\ ~Successful(pluginStatus)
      /\ pos' = pos + CopySize /\ left' = left - CopySize /\ status' = "SUSPENDED"
      /\ fieldOffset' = 0 /\ fieldIndex' = (IF pos = 0 THEN 0 ELSE NextIndex)
      /\ shown' = Append(shown,
                    IF pos = 0
                    THEN [field |-> "SELECTOR", word |-> [i \in 0 .. SelectorLength - 1 |-> data'[i]]]
                    ELSE [field |-> fieldIndex', word |-> Word])
      /\ UNCHANGED <<tx, serial, given, context, session, settings, dataPresent, pluginName,
                     pluginStatus, target, consent, initialised>>
  BY DEF Display, CopyBlock, DataSeen, AtBlock, Take
<1>2. /\ status \in {"CALL", "BLOCK"} /\ IsCall /\ dataPresent /\ contractDetails /\ given = <<>>
      /\ pos = 0 => shown = <<>> /\ CopySize = SelectorLength
  BY <1>1, SeenFirst, SeenInside DEF DataSeen, AtBlock
<1>3. CopySize \in Nat /\ CopySize > 0 /\ CopySize <= left /\ CopySize <= tx.length - pos
  <2>1. BlockSize \in Nat /\ BlockSize > 0 /\ CopySize \in Nat /\ CopySize <= left
    BY ONLY IInv, Sizes DEF IInv
  <2>2. tx.length \in Nat /\ pos \in Nat
    BY ONLY IInv, TransactionTyped DEF IInv
  <2>3. ~(tx.length - pos < BlockSize) /\ CopySize = BlockSize
    BY ONLY <1>1 DEF CopyBlock, Short
  <2> HIDE DEF CopySize, BlockSize
  <2> QED BY ONLY <2>1, <2>2, <2>3
<1>4. fieldIndex' \in 0 .. IndexModulus - 1
  BY <1>1, Division DEF NextIndex
<1>5. /\ DOMAIN data' = DOMAIN data /\ data' \in [DOMAIN data -> Place]
      /\ [i \in 0 .. SelectorLength - 1 |-> data'[i]] \in AnySelector /\ Word \in AnyWord
  BY <1>1, BufferTyped
<1>6. shown' \in Seq(Screen)
  <2>1. shown \in Seq(Screen)
    BY DEF Typed
  <2>2. CASE pos = 0
    BY <2>1, <2>2, <1>1, <1>5 DEF Screen
  <2>3. CASE pos # 0
    <3>1. [field |-> fieldIndex', word |-> Word] \in Screen
      BY <1>4, <1>5 DEF Screen
    <3> QED BY <2>1, <2>3, <3>1, <1>1
  <2> QED BY <2>2, <2>3
<1>7. TypeOK'
  <2>1. pos' \in 0..tx'.length /\ left' \in Nat
    BY <1>1, <1>3
  <2>2. /\ fieldOffset' = 0 /\ status' = "SUSPENDED"
        /\ UNCHANGED <<tx, serial, session, settings, dataPresent, pluginName, pluginStatus,
                       consent>>
    BY <1>1
  <2> QED BY ONLY <2>1, <2>2, <1>4, IInv, PluginAssumption DEF IInv, TypeOK, Results, Waiting
<1>8. Typed' /\ InBuffer' /\ InBufferUnswitched'
  BY <1>1, <1>2, <1>5, <1>6 DEF Typed, InBuffer, InBufferUnswitched
<1>9. ParametersExact' /\ Placed' /\ PluginReads' /\ PluginKeeps'
  BY <1>1, <1>2, <1>3 DEF ParametersExact, Placed, PluginReads, PluginKeeps, Active
<1>10. Asked' /\ RefusedForCause'
  BY <1>1, <1>2 DEF Asked, RefusedForCause
<1>11. ScreenReads'
  <2>1. SUFFICES ASSUME switches.now = 0
                 PROVE  /\ shown' # <<>>
                        /\ Reading(Len(shown) - 1)'
                        /\ \A k \in 1 .. Len(shown') - 1 :
                              shown'[k + 1] = [field |-> k % IndexModulus, word |-> WordOf(k)]
    BY <1>1 DEF ScreenReads, WordOf
  <2>2. CASE pos = 0
    <3>1. Len(shown') = 1 /\ shown' # <<>>
      BY <2>2, <1>1, <1>2
    <3>2. 0 % IndexModulus = 0
      BY SMT
    <3>3. Reading(0)'
      BY <2>2, <3>2, <1>1, <1>2 DEF Reading
    <3> QED BY <3>1, <3>3
  <2>3. CASE pos # 0
    <3>1. /\ Reading(Len(shown) - 1) /\ shown # <<>>
          /\ \A k \in 1 .. Len(shown) - 1 :
                shown[k + 1] = [field |-> k % IndexModulus, word |-> WordOf(k)]
      BY <2>1, <2>3, <1>1, <1>2, SeenInside DEF ScreenReads, Active
    <3>2. PICK n \in Nat : n = Len(shown) - 1
      BY <3>1, Counts
    <3>3. /\ Word = WordOf(n + 1) /\ NextIndex = (n + 1) % IndexModulus
          /\ pos + CopySize = SelectorLength + (n + 1) * WordLength
      BY <2>3, <3>1, <3>2, <1>1, ReadsWhole
    <3>4. Reading(n + 1)'
      BY ONLY <2>3, <3>3, <1>1, PluginAssumption DEF Reading
    <3>5. shown' = Append(shown, [field |-> (n + 1) % IndexModulus, word |-> WordOf(n + 1)])
      BY <2>3, <3>3, <1>1
    <3>6. /\ Len(shown') = n + 2 /\ shown' # <<>>
          /\ shown'[n + 2] = [field |-> (n + 1) % IndexModulus, word |-> WordOf(n + 1)]
          /\ \A k \in 1 .. n + 1 : shown'[k] = shown[k]
      <4>1. shown \in Seq(Screen) /\ Len(shown) = n + 1
        BY <3>2 DEF Typed
      <4> QED BY ONLY <4>1, <3>5, n \in Nat
    <3>7. ASSUME NEW k \in 1 .. n + 1
          PROVE  shown'[k + 1] = [field |-> k % IndexModulus, word |-> WordOf(k)]
      <4>1. CASE k = n + 1
        BY <4>1, <3>6
      <4>2. CASE k \in 1..n
        BY <4>2, <3>1, <3>2, <3>6
      <4> QED BY <4>1, <4>2
    <3> QED BY <3>4, <3>6, <3>7
  <2> QED BY <2>2, <2>3
<1> QED BY <1>7, <1>8, <1>9, <1>10, <1>11

-----------------------------------------------------------------------------
(* The buttons, and the end of the transaction.                            *)

LEMMA DataOkInv ==
    ASSUME IInv, DataOk
    PROVE  IInv'
<1> USE DataAssumption, PluginAssumption, TransactionTyped
    DEF IInv, DataOk, Afterwards, Over, Waiting
<1>1. TypeOK'
  BY DEF TypeOK, Results
<1>2. Typed'
  BY DEF Typed
<1>3. ParametersExact' /\ InBuffer' /\ InBufferUnswitched'
  BY DEF ParametersExact, InBuffer, InBufferUnswitched, WordOf
<1>4. Placed'
  BY DEF Placed, Active
<1>5. PluginReads' /\ PluginKeeps' /\ ScreenReads'
  BY DEF PluginReads, PluginKeeps, ScreenReads, Active, Reading, IsCall, WordOf
<1>6. Asked' /\ RefusedForCause'
  BY DEF Asked, RefusedForCause
<1> QED BY <1>1, <1>2, <1>3, <1>4, <1>5, <1>6

LEMMA AnsweredInv ==
    ASSUME IInv, Answered
    PROVE  IInv'
<1> USE DataAssumption, PluginAssumption DEF IInv, Answered, Reset, NoConsent, Over, Waiting
<1>1. TypeOK'
  BY DEF TypeOK, Results
<1>2. Typed'
  BY DEF Typed
<1>3. ParametersExact' /\ InBuffer' /\ InBufferUnswitched'
  BY DEF ParametersExact, InBuffer, InBufferUnswitched, WordOf
<1>4. Placed' /\ PluginReads' /\ PluginKeeps' /\ ScreenReads'
  BY DEF Placed, PluginReads, PluginKeeps, ScreenReads, Active
<1>5. Asked' /\ RefusedForCause'
  BY DEF Asked, RefusedForCause
<1> QED BY <1>1, <1>2, <1>3, <1>4, <1>5

\* The flow fits in its array, and "Data Present" is its second step.
LEMMA FlowFits ==
    ASSUME NEW present \in BOOLEAN, NEW nonce \in BOOLEAN, NEW network \in BOOLEAN
    PROVE  LET steps == ApprovalSteps(present, nonce, network)
           IN  /\ Len(steps) <= FlowSteps
               /\ present /\ ~contractDetails =>
                        2 \in DOMAIN steps /\ steps[2] = "DATA_PRESENT"
BY DEF ApprovalSteps, FlowSteps


LEMMA FinalizeErrorInv ==
    ASSUME IInv, Finalizing, FinalizeError
    PROVE  IInv'
<1> USE DataAssumption, PluginAssumption
    DEF IInv, Finalizing, FinalizeError, Reset, Over, Waiting
<1>1. TypeOK'
  BY DEF TypeOK, Results
<1>2. Typed'
  BY DEF Typed
<1>3. ParametersExact' /\ InBuffer' /\ InBufferUnswitched'
  BY DEF ParametersExact, InBuffer, InBufferUnswitched, WordOf
<1>4. Placed' /\ PluginReads' /\ PluginKeeps' /\ ScreenReads'
  BY DEF Placed, PluginReads, PluginKeeps, ScreenReads, Active
<1>5. Asked' /\ RefusedForCause'
  BY DEF Asked, RefusedForCause
<1> QED BY <1>1, <1>2, <1>3, <1>4, <1>5

\* What the screens do not touch, when the user is asked.
LEMMA AskingInv ==
    ASSUME IInv, Finalizing, status' = "CONSENT", UNCHANGED session, dataPresent' \in BOOLEAN,
           consent'.ui \in {"APPROVAL", "PLUGIN", "SILENT"},
           consent'.ui = "APPROVAL" => Len(consent'.steps) <= FlowSteps,
           Asked'
    PROVE  IInv'
<1> USE DataAssumption, PluginAssumption DEF IInv, Finalizing, Over, Waiting
<1>1. TypeOK'
  BY DEF TypeOK, Results
<1>2. Typed'
  BY DEF Typed
<1>3. ParametersExact' /\ InBuffer' /\ InBufferUnswitched'
  BY DEF ParametersExact, InBuffer, InBufferUnswitched, WordOf
<1>4. Placed'
  BY DEF Placed, Active
<1>5. PluginReads' /\ PluginKeeps' /\ ScreenReads'
  BY DEF PluginReads, PluginKeeps, ScreenReads, Active, Reading, IsCall, WordOf
<1>6. RefusedForCause'
  BY DEF RefusedForCause
<1> QED BY <1>1, <1>2, <1>3, <1>4, <1>5, <1>6

LEMMA ApproveInv ==
    ASSUME IInv, Finalizing, NEW present \in BOOLEAN, NEW from, NEW token,
           Approve(present, from, token),
           present \/ tx.length = 0 \/ Successful(pluginStatus)
    PROVE  IInv'
<1>1. CASE present /\ ~dataAllowed
  BY <1>1, FinalizeErrorInv DEF Approve
<1>2. CASE ~(present /\ ~dataAllowed)
  <2>1. /\ status' = "CONSENT" /\ dataPresent' = present /\ UNCHANGED session
        /\ UNCHANGED <<tx, pluginStatus, pluginName, contractDetails>>
    BY <1>2 DEF Approve, Finalizing
  <2>2. PICK nonce \in BOOLEAN, network \in BOOLEAN :
                consent' = IF calledFromSwap THEN [ui |-> "SILENT"]
                           ELSE [ui |-> "APPROVAL", from |-> from, token |-> token,
                                 steps |-> ApprovalSteps(present, nonce, network)]
    BY <1>2 DEF Approve
  <2>3. CASE calledFromSwap
    BY <2>1, <2>2, <2>3, AskingInv DEF Asked, Successful
  <2>4. CASE ~calledFromSwap
    <3>1. consent'.ui = "APPROVAL" /\ consent'.steps = ApprovalSteps(present, nonce, network)
      BY <2>2, <2>4
    <3>2. /\ Len(consent'.steps) <= FlowSteps
          /\ present /\ ~contractDetails =>
                2 \in DOMAIN consent'.steps /\ consent'.steps[2] = "DATA_PRESENT"
      BY <3>1, FlowFits
    <3>3. Asked'
      BY <2>1, <3>1, <3>2 DEF Asked, Warned
    <3> QED BY <2>1, <3>1, <3>2, <3>3, AskingInv
  <2> QED BY <2>3, <2>4
<1> QED BY <1>1, <1>2

LEMMA PluginScreensInv ==
    ASSUME IInv, Finalizing, Successful(pluginStatus),
           NEW n \in Nat, NEW additional \in Nat, NEW asked,
           pluginName # "EXTERNAL" => n = 2 /\ additional = 0,
           PluginScreens(n, additional, asked)
    PROVE  IInv'
<1>1. /\ status' = "CONSENT" /\ dataPresent' = FALSE /\ UNCHANGED session
      /\ UNCHANGED <<tx, pluginStatus, pluginName, contractDetails>>
  BY DEF PluginScreens, Finalizing
<1>2. /\ consent'.ui \in {"SILENT", "PLUGIN"}
      /\ consent'.ui = "PLUGIN" => consent'.maxItems = (n + additional) % 256
  BY DEF PluginScreens
<1>3. pluginName # "EXTERNAL" => (n + additional) % 256 = 2
  BY SMT
<1>4. Asked'
  BY <1>1, <1>2, <1>3 DEF Asked
<1> QED BY <1>1, <1>2, <1>4, AskingInv

LEMMA FinalizeWithoutPluginInv ==
    ASSUME IInv, FinalizeWithoutPlugin
    PROVE  IInv'
<1>1. Finalizing /\ Approve(dataPresent, "TX", "NONE")
  BY DEF FinalizeWithoutPlugin
<1>2. PICK present \in BOOLEAN : present = dataPresent
  BY DEF IInv, TypeOK
<1>3. Approve(present, "TX", "NONE")
  BY <1>1, <1>2
<1>4. present \/ tx.length = 0
  BY <1>1, <1>2 DEF Finalizing, IInv, Placed, Active
<1> QED BY <1>1, <1>3, <1>4, ApproveInv

\* Whatever the plugin concludes.
LEMMA ConcludeInv ==
    ASSUME IInv, Finalizing, Successful(pluginStatus),
           NEW result, NEW answer, NEW additional \in Nat, NEW token,
           answer.numScreens \in Nat,
           pluginName # "EXTERNAL" /\ answer.uiType = "GENERIC" =>
                answer.numScreens = 2 /\ additional = 0,
           Conclude(result, answer, additional, token)
    PROVE  IInv'
<1>1. PICK present \in BOOLEAN : present = dataPresent
  BY DEF IInv, TypeOK
<1>2. CASE Approve(dataPresent, "TX", "NONE")
  <2>1. Approve(present, "TX", "NONE")
    BY <1>1, <1>2
  <2> QED BY <2>1, ApproveInv
<1>3. CASE answer.uiType = "GENERIC" /\ PluginScreens(answer.numScreens, additional, answer.lookup)
  BY <1>3, PluginScreensInv
<1>4. CASE Approve(FALSE, "PLUGIN", token)
  BY <1>4, ApproveInv
<1>5. CASE FinalizeError
  BY <1>5, FinalizeErrorInv
<1> QED BY <1>2, <1>3, <1>4, <1>5 DEF Conclude

LEMMA FinalizeWithPluginInv ==
    ASSUME IInv, FinalizeWithPlugin
    PROVE  IInv'
<1>1. Finalizing /\ Successful(pluginStatus)
  BY DEF FinalizeWithPlugin
<1>2. PICK answer \in FinalizeAnswers(pluginName, context.selectorIndex) :
        CASE Fails(CallReturns(answer.result)) -> FinalizeError
          [] ~Fails(CallReturns(answer.result)) /\ ~answer.lookup ->
                \E additional \in ScreenCounts :
                    Conclude(answer.result, answer, additional, "NONE")
          [] OTHER ->
                \E known \in BOOLEAN : \E token \in TokenAnswers(pluginName, known) :
                    IF CallReturns(token.result) = "OK"
                    THEN Conclude(token.result, answer, token.additionalScreens,
                                  IF known THEN "KNOWN" ELSE "UNKNOWN")
                    ELSE FinalizeError
  BY DEF FinalizeWithPlugin
<1>3. pluginName = "PRC20" \/ pluginName = "EXTERNAL"
  BY <1>1 DEF IInv, TypeOK, Typed, PluginReads, Active, Finalizing
<1>4. /\ answer.numScreens \in Nat
      /\ pluginName # "EXTERNAL" => answer.lookup
      /\ pluginName # "EXTERNAL" /\ answer.uiType = "GENERIC" => answer.numScreens = 2
  <2>1. context.selectorIndex \in {"TRANSFER", "APPROVE"}
    BY DEF IInv, Typed
  <2>2. CASE pluginName = "EXTERNAL"
    BY <2>2, PluginAssumption DEF FinalizeAnswers
  <2>3. CASE pluginName = "PRC20"
    BY <2>1, <2>3 DEF FinalizeAnswers
  <2> QED BY <1>3, <2>2, <2>3
<1>5. CASE FinalizeError
  BY <1>1, <1>5, FinalizeErrorInv
<1>6. CASE ~answer.lookup /\ \E additional \in ScreenCounts :
                Conclude(answer.result, answer, additional, "NONE")
  <2>1. PICK additional \in ScreenCounts : Conclude(answer.result, answer, additional, "NONE")
    BY <1>6
  <2> QED BY <1>1, <1>4, <1>6, <2>1, PluginAssumption, ConcludeInv
<1>7. ASSUME NEW known \in BOOLEAN, NEW token \in TokenAnswers(pluginName, known),
             NEW outcome, Conclude(token.result, answer, token.additionalScreens, outcome)
      PROVE  IInv'
  <2>1. /\ token.additionalScreens \in Nat
        /\ pluginName # "EXTERNAL" => token.additionalScreens = 0
    BY <1>3, PluginAssumption DEF TokenAnswers
  <2> QED BY <1>1, <1>4, <1>7, <2>1, ConcludeInv
<1> QED BY <1>2, <1>5, <1>6, <1>7

-----------------------------------------------------------------------------
(* The theorems.                                                           *)

LEMMA CustomProcessorInv ==
    ASSUME IInv, CustomProcessor
    PROVE  IInv'
BY IgnoreDataInv, SelectorCutInv, SelectorDisplayedInv, WrongTargetInv, NoPluginInv,
   InitPluginInv, DataForbiddenInv, DataUnseenInv, UnalignedInv, OverrunInv, PartOfBlockInv,
   GiveToPluginInv, DisplayInv
DEF CustomProcessor

LEMMA StutterInv ==
    ASSUME IInv, UNCHANGED vars
    PROVE  IInv'
<1> USE DEF IInv, vars
<1>1. TypeOK' /\ Typed'
  BY DEF TypeOK, Typed
<1>2. ParametersExact' /\ InBuffer' /\ InBufferUnswitched' /\ Placed'
  BY DEF ParametersExact, InBuffer, InBufferUnswitched, WordOf, Placed, IsCall
<1>3. PluginReads' /\ PluginKeeps' /\ ScreenReads'
  BY DEF PluginReads, PluginKeeps, ScreenReads, Reading, IsCall, WordOf
<1>4. Asked' /\ RefusedForCause'
  BY DEF Asked, RefusedForCause, Warned
<1> QED BY <1>1, <1>2, <1>3, <1>4

LEMMA StepInv == IInv /\ [Next]_vars => IInv'
<1> SUFFICES ASSUME IInv, [Next]_vars PROVE IInv'
  OBVIOUS
<1>1. CASE Next
  BY <1>1, FirstBlockInv, BlockInv, SetExternalPluginInv, SwitchSettingsInv,
     CustomProcessorInv, DataOkInv, AnsweredInv, FinalizeWithoutPluginInv,
     FinalizeWithPluginInv
  DEF Next
<1>2. CASE UNCHANGED vars
  BY <1>2, StutterInv
<1> QED BY <1>1, <1>2

\* The invariant: where the processor is, what it has read, and what was kept,
\* given and displayed of it.
THEOREM Invariance == Spec => []IInv
BY InitInv, StepInv, PTL DEF Spec


\* The processor's variables keep their types: no byte is taken from outside of
\* the data, and the flow of the consent screens fits in its array.
THEOREM TypeCorrect == Spec => []TypeOK
<1>1. IInv => TypeOK
  BY DEF IInv
<1> QED BY <1>1, Invariance, PTL

\* A plugin is given the words of this transaction, in order and with their
\* offsets, however the data is cut.
THEOREM GivenExactly == Spec => []ParametersExact
<1>1. IInv => ParametersExact
  BY DEF IInv
<1> QED BY <1>1, Invariance, PTL

\* Behind screens that do not speak of data there is a plugin that saw it all.
THEOREM SeenByPlugin == Spec => []PluginSawAll
<1>1. IInv => PluginSawAll
  <2> SUFFICES ASSUME IInv PROVE PluginSawAll
    OBVIOUS
  <2> USE PluginAssumption, TransactionTyped DEF IInv
  <2>1. ASSUME status = "CONSENT", tx.length # 0, ~dataPresent
        PROVE  IsCall /\ Bytes(given) = tx.length
    <3>1. pos = tx.length /\ IsCall /\ Reading(Len(given))
      BY <2>1 DEF Asked, Placed, PluginReads, Active
    <3> QED BY <3>1 DEF Reading, Bytes
  <2>2. ASSUME consent.ui = "PLUGIN", pluginName # "EXTERNAL"
        PROVE  0 .. consent.maxItems - 1 \subseteq ScreensHandled(pluginName)
    <3>1. pluginName = "PRC20" /\ consent.maxItems = 2
      BY <2>2 DEF Asked, TypeOK, Typed, PluginReads, Active
    <3> QED BY <3>1 DEF ScreensHandled
  <2> QED BY <2>1, <2>2 DEF PluginSawAll
<1> QED BY <1>1, Invariance, PTL

\* With the settings left alone, data that no plugin answers for was displayed
\* word by word, or the user is warned of it.
THEOREM NothingHidden == Spec => []DisplayedOrWarned
<1>1. IInv => DisplayedOrWarned
  <2> SUFFICES ASSUME IInv, status = "CONSENT", consent.ui = "APPROVAL", dataPresent, IsCall,
                      switches.now = 0, contractDetails
               PROVE  /\ AllDisplayed
                      /\ \A k \in DOMAIN Tail(shown) :
                            shown[k + 1] = [field |-> k % IndexModulus, word |-> WordOf(k)]
    BY DEF DisplayedOrWarned, IInv, Asked
  <2> USE PluginAssumption, TransactionTyped DEF IInv
  <2>1. pos = tx.length /\ pos # 0
    BY DEF Placed, IsCall
  <2>2. /\ shown # <<>> /\ Reading(Len(shown) - 1)
        /\ \A k \in 1 .. Len(shown) - 1 :
                shown[k + 1] = [field |-> k % IndexModulus, word |-> WordOf(k)]
    BY <2>1 DEF ScreenReads, Active
  <2>3. Len(Tail(shown)) = Len(shown) - 1 /\ DOMAIN Tail(shown) = 1 .. Len(shown) - 1
    BY <2>2 DEF Typed
  <2>4. Bytes(Tail(shown)) = tx.length
    BY <2>1, <2>2, <2>3, Counts DEF Reading, Bytes
  <2> QED BY <2>2, <2>3, <2>4 DEF AllDisplayed
<1> QED BY <1>1, Invariance, PTL

\* No transaction is refused for the way its words are cut into blocks.
THEOREM OnlyForCause == Spec => []RefusedForCause
<1>1. IInv => RefusedForCause
  BY DEF IInv
<1> QED BY <1>1, Invariance, PTL

\* What an internal plugin displays is from this transaction.
THEOREM ItsOwnParameters == Spec => []OwnParameters
<1>1. IInv => OwnParameters
  <2> SUFFICES ASSUME IInv, status = "CONSENT", pluginName # "EXTERNAL", Len(given) >= 2
               PROVE  context.address = WordOf(1) /\ context.amount = WordOf(2)
    BY DEF OwnParameters
  <2>1. given # <<>>
    OBVIOUS
  <2>2. Successful(pluginStatus)
    BY <2>1 DEF IInv, Placed, Active
  <2> QED BY <2>2, Counts DEF IInv, PluginKeeps, Active
<1> QED BY <1>1, Invariance, PTL

\* Without a switch of the settings, nothing is written outside of the buffer.
THEOREM WithinBuffer == Spec => []InBufferUnswitched
<1>1. IInv => InBufferUnswitched
  BY DEF IInv
<1> QED BY <1>1, Invariance, PTL


-----------------------------------------------------------------------------
(* customProcessor implements DataField: every step is one of its steps,   *)
(* or none.  The selector that a plugin accepted is taken together with    *)
(* what follows it in the same call.                                       *)

FieldPos == IF status = "BLOCK" THEN 0 ELSE pos
FieldLeft == IF status = "BLOCK" THEN left + pos ELSE left
Outcome ==
    CASE status \in {"CALL", "BLOCK"} -> "RUN"
      [] status = "TAIL" -> "DONE"
      [] status \in {"PROCESSING", "SUSPENDED", "FAULT"} -> status
      [] OTHER -> "NONE"

FieldStep == [Field!Next]_Field!vars

\* Bytes that are taken at a call, and where they are counted from.
LEMMA FieldTakes ==
    ASSUME IInv, status \in {"CALL", "BLOCK"}, tx' = tx,
           NEW n \in Nat, n <= FieldLeft, n <= tx.length - FieldPos,
           pos' = FieldPos + n, left' = FieldLeft - n,
           \/ status' = "FAULT"
           \/ n > 0 /\ status' = "SUSPENDED"
           \/ /\ n > 0 \/ n = FieldLeft \/ n = tx.length - FieldPos
              /\ status' = IF pos' = tx.length THEN "TAIL"
                           ELSE IF left' = 0 THEN "PROCESSING" ELSE "CALL"
    PROVE  FieldStep
<1> USE TransactionTyped DEF IInv, FieldPos, FieldLeft
<1>1. n \in 0..Field!Takeable /\ Field!Takeable \in Nat
  BY DEF Field!Takeable
<1>2. Field!Take(n)
  BY DEF Field!Take
<1>3. CASE status' = "FAULT"
  BY <1>1, <1>2, <1>3 DEF Field!Fault, Field!Next, FieldStep
<1>4. CASE n > 0 /\ status' = "SUSPENDED"
  BY <1>1, <1>2, <1>4 DEF Field!Suspended, Field!Next, FieldStep
<1>5. CASE /\ n > 0 \/ n = FieldLeft \/ n = tx.length - FieldPos
           /\ status' = IF pos' = tx.length THEN "TAIL"
                        ELSE IF left' = 0 THEN "PROCESSING" ELSE "CALL"
  <2>1. (IF status' = "BLOCK" THEN 0 ELSE pos') = pos'
    BY <1>5
  <2>2. CASE n > 0
    BY <1>1, <1>2, <1>5, <2>2 DEF Field!Handled, Field!Afterwards, Field!Next, FieldStep
  <2>3. CASE n = FieldLeft \/ n = tx.length - FieldPos
    <3>1. n = Field!Takeable
      BY <2>3 DEF Field!Takeable
    <3> QED BY <3>1, <1>2, <1>5 DEF Field!NotHandled, Field!Afterwards, Field!Next, FieldStep
  <2> QED BY <1>5, <2>2, <2>3
<1> QED BY <1>3, <1>4, <1>5


\* Nothing the parser sees changes.
LEMMA FieldRests ==
    ASSUME UNCHANGED <<tx, FieldPos, FieldLeft, Outcome>>
    PROVE  FieldStep
BY DEF FieldStep, Field!vars, FieldPos, FieldLeft, Outcome

\* The field is over.
LEMMA FieldOver ==
    ASSUME UNCHANGED <<tx, FieldPos, FieldLeft>>,
           status' \in {"IDLE", "REFUSED", "CONSENT", "EXIT", "OVERRUN"}
    PROVE  FieldStep
BY DEF FieldStep, Field!Next, Field!Leave, FieldPos, FieldLeft

\* The host, the settings and the buttons.
LEMMA FieldOutside ==
    ASSUME IInv,
           \/ \E t \in Transactions : FirstBlock(t)
           \/ \E n \in 0..MaxBlock : Block(n)
           \/ \E selector \in ExternalTargets : SetExternalPlugin(selector)
           \/ SwitchSettings \/ DataOk \/ Answered
           \/ FinalizeWithoutPlugin \/ FinalizeWithPlugin
    PROVE  FieldStep
<1> USE DEF Over, Waiting
<1>1. ASSUME NEW t \in Transactions, FirstBlock(t)
      PROVE  FieldStep
  BY <1>1, DataAssumption DEF FirstBlock, Field!Start, Field!Next, FieldStep
<1>2. ASSUME NEW n \in 0..MaxBlock, Block(n)
      PROVE  FieldStep
  BY <1>2 DEF Block, Field!Deliver, Field!Next, FieldStep
<1>3. ASSUME NEW selector \in ExternalTargets, SetExternalPlugin(selector)
      PROVE  FieldStep
  BY <1>3, FieldRests DEF SetExternalPlugin, FieldPos, FieldLeft, Outcome
<1>4. CASE SwitchSettings
  BY <1>4, FieldRests DEF SwitchSettings, FieldPos, FieldLeft, Outcome
<1>5. CASE DataOk
  BY <1>5, TransactionTyped
  DEF IInv, DataOk, Afterwards, Field!Afterwards, Field!Resume, Field!Next, FieldStep
<1>6. CASE Answered
  BY <1>6, FieldOver DEF Answered, FieldPos, FieldLeft
<1>7. CASE FinalizeWithoutPlugin \/ FinalizeWithPlugin
  <2>1. Finalizing
    BY <1>7 DEF FinalizeWithoutPlugin, FinalizeWithPlugin
  <2>2. status' \in {"REFUSED", "CONSENT"}
    BY <1>7 DEF FinalizeWithoutPlugin, FinalizeWithPlugin, Conclude, Approve, PluginScreens,
                FinalizeError
  <2> QED BY <2>1, <2>2, FieldOver DEF Finalizing, FieldPos, FieldLeft
<1> QED BY <1>1, <1>2, <1>3, <1>4, <1>5, <1>6, <1>7

\* At the selector.
LEMMA FieldSelector ==
    ASSUME IInv,
           \/ IgnoreData \/ SelectorCut \/ SelectorDisplayed
           \/ WrongTarget \/ NoPlugin \/ InitPlugin
    PROVE  FieldStep
<1> USE PluginAssumption, TransactionTyped DEF IInv, FieldPos, FieldLeft
<1>1. CASE IgnoreData
  <2>1. PICK n \in Nat :
             /\ n <= left /\ n <= tx.length - pos
             /\ n = left \/ n = tx.length - pos
             /\ pos' = pos + n /\ left' = left - n /\ status' = Afterwards(n)
    BY <1>1, LeftToParser DEF IgnoreData
  <2> QED BY <1>1, <2>1, FieldTakes DEF IgnoreData, Afterwards
<1>2. CASE SelectorCut
  BY <1>2, FieldTakes DEF SelectorCut, AtSelector, Fault
<1>3. CASE SelectorDisplayed
  BY <1>3, FieldRests DEF SelectorDisplayed, AtSelector, Outcome
<1>4. CASE WrongTarget
  BY <1>4, FieldOver DEF WrongTarget, PluginSought, AtSelector
<1>5. CASE NoPlugin
  <2>1. AtSelector /\ (Fault \/ (status' = "BLOCK" /\ UNCHANGED <<left, pos>>))
    BY <1>5 DEF NoPlugin, PluginSought
  <2>2. CASE Fault
    BY <2>1, <2>2, FieldTakes DEF AtSelector, Fault
  <2>3. CASE status' = "BLOCK" /\ UNCHANGED <<left, pos>>
    BY <2>1, <2>3, FieldRests DEF AtSelector, Outcome
  <2> QED BY <2>1, <2>2, <2>3
<1>6. CASE InitPlugin
  <2>1. /\ AtSelector /\ left >= SelectorLength
        /\ Fault \/ Accepted \/ (status' = "BLOCK" /\ UNCHANGED <<left, pos>>)
    BY <1>6 DEF InitPlugin, PluginSought
  <2>2. CASE Fault
    BY <2>1, <2>2, FieldTakes DEF AtSelector, Fault
  <2>3. CASE status' = "BLOCK" /\ UNCHANGED <<left, pos>>
    BY <2>1, <2>3, FieldRests DEF AtSelector, Outcome
  <2>4. CASE Accepted /\ tx.length = SelectorLength
    BY <2>1, <2>4, FieldTakes DEF AtSelector, Accepted, Take
  <2>5. CASE Accepted /\ tx.length # SelectorLength
    BY <2>1, <2>5, FieldRests DEF AtSelector, Accepted, Take, Outcome
  <2> QED BY <2>1, <2>2, <2>3, <2>4, <2>5
<1> QED BY <1>1, <1>2, <1>3, <1>4, <1>5, <1>6


\* Inside the data.
LEMMA FieldWords ==
    ASSUME IInv,
           \/ DataForbidden \/ DataUnseen \/ Unaligned
           \/ Overrun \/ PartOfBlock \/ GiveToPlugin \/ Display
    PROVE  FieldStep
<1> USE PluginAssumption, TransactionTyped DEF IInv, FieldPos, FieldLeft
<1>1. /\ status \in {"CALL", "BLOCK"} /\ tx' = tx /\ pos < tx.length
      /\ status = "BLOCK" => pos = 0 \/ Successful(pluginStatus)
      /\ status = "CALL" => pos # 0 /\ left > 0
  BY DEF DataForbidden, DataUnseen, Unaligned, Overrun, PartOfBlock, GiveToPlugin, Display,
         CopyBlock, DataSeen, AtBlock, Placed
<1> DEFINE behind == IF status = "BLOCK" THEN pos ELSE 0
<1>2. /\ behind \in Nat /\ FieldPos + behind = pos /\ FieldLeft - behind = left
      /\ behind <= FieldLeft /\ behind <= tx.length - FieldPos
  BY <1>1
<1>3. CASE DataForbidden \/ Unaligned
  <2>1. Fault
    BY <1>3 DEF DataForbidden, Unaligned
  <2> QED BY <1>1, <1>2, <2>1, FieldTakes DEF Fault
<1>4. CASE DataUnseen
  <2>1. PICK n \in Nat :
             /\ n <= left /\ n <= tx.length - pos
             /\ n = left \/ n = tx.length - pos
             /\ pos' = pos + n /\ left' = left - n /\ status' = Afterwards(n)
    BY <1>4, LeftToParser DEF DataUnseen
  <2>2. FieldPos = pos /\ FieldLeft = left
    BY <1>1, <1>4 DEF DataUnseen
  <2> QED BY <1>1, <2>1, <2>2, FieldTakes DEF Afterwards
<1>5. CASE Overrun
  <2>1. ~Successful(pluginStatus)
    <3>1. DataSeen /\ pos # 0 /\ fieldOffset + CopySize > WordLength
      BY <1>5 DEF Overrun
    <3>2. ASSUME Successful(pluginStatus) PROVE FALSE
      <4>1. fieldOffset < WordLength
        BY <3>1, <3>2, SeenInside DEF Reading
      <4> QED BY <3>1, <4>1, Sizes
    <3> QED BY <3>2
  <2>2. status = "CALL" /\ status' = "OVERRUN" /\ UNCHANGED <<pos, left>>
    BY <1>1, <1>5, <2>1 DEF Overrun
  <2> QED BY <1>1, <2>2, FieldOver
<1>6. ASSUME CopyBlock, Take(CopySize),
             \/ status' = Afterwards(CopySize) /\ (status = "BLOCK" => pos # 0)
             \/ status' = "SUSPENDED" /\ CopySize > 0
      PROVE  FieldStep
  <2>1. /\ CopySize \in Nat /\ CopySize <= left /\ CopySize <= tx.length - pos
        /\ CopySize = left \/ CopySize > 0
    <3>1. tx.length - pos >= BlockSize
      BY <1>6, Sizes DEF CopyBlock, Short
    <3> QED BY <3>1, Sizes
  <2>2. PICK n \in Nat : n = behind + CopySize
    BY <1>2, <2>1
  <2>3. n <= FieldLeft /\ n <= tx.length - FieldPos
    BY <1>2, <2>1, <2>2
  <2>4. pos' = FieldPos + n /\ left' = FieldLeft - n
    BY <1>2, <1>6, <2>1, <2>2 DEF Take
  <2>5. n > 0
    BY <1>1, <1>6, <2>1, <2>2
  <2>6. CASE status' = "SUSPENDED"
    BY <1>1, <2>3, <2>4, <2>5, <2>6, FieldTakes
  <2>7. CASE status' = Afterwards(CopySize)
    <3>1. status' = IF pos' = tx.length THEN "TAIL" ELSE IF left' = 0 THEN "PROCESSING" ELSE "CALL"
      BY <1>6, <2>1, <2>7 DEF Take, Afterwards
    <3> QED BY <1>1, <2>3, <2>4, <2>5, <3>1, FieldTakes
  <2> QED BY <1>6, <2>6, <2>7
<1>7. CASE PartOfBlock
  <2>1. pos # 0
    BY <1>7, SeenFirst DEF PartOfBlock, CopyBlock
  <2> QED BY <1>6, <1>7, <2>1 DEF PartOfBlock
<1>8. CASE GiveToPlugin
  <2>1. pos # 0
    BY <1>8, SeenFirst DEF GiveToPlugin, CopyBlock
  <2>2. CASE Fault
    BY <1>1, <1>2, <2>2, FieldTakes DEF Fault
  <2>3. CASE Take(CopySize) /\ status' = Afterwards(CopySize)
    BY <1>6, <1>8, <2>1, <2>3 DEF GiveToPlugin
  <2> QED BY <1>8, <2>2, <2>3 DEF GiveToPlugin
<1>9. CASE Display
  <2>1. CopyBlock /\ Take(CopySize) /\ status' = "SUSPENDED" /\ CopySize > 0
    BY <1>9, Sizes DEF Display
  <2> QED BY <1>6, <2>1
<1> QED BY <1>3, <1>4, <1>5, <1>7, <1>8, <1>9

\* What the parser assumes of a custom processor, of this one: it takes bytes
\* of the field and of the block only, it never returns "handled" without
\* having taken one, and it suspends the parser only when it has taken some.
THEOREM ProcessorKeepsContract == Spec => ImplementsDataField
<1>1. Init => Field!Init
  BY DEF Init, NoTransaction, Field!Init
<1>2. IInv /\ [Next]_vars => FieldStep
  <2> SUFFICES ASSUME IInv, [Next]_vars PROVE FieldStep
    OBVIOUS
  <2>1. CASE Next
    BY <2>1, FieldOutside, FieldSelector, FieldWords DEF Next, CustomProcessor
  <2>2. CASE UNCHANGED vars
    BY <2>2, FieldRests DEF vars, FieldPos, FieldLeft, Outcome
  <2> QED BY <2>1, <2>2
<1>3. IInv /\ [Next]_vars => [Field!Next]_Field!vars
  BY <1>2 DEF FieldStep
<1> QED BY <1>1, <1>3, Invariance, PTL DEF Spec, Field!Spec, ImplementsDataField

=============================================================================
