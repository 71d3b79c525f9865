---------------------------- MODULE LatApp_proofs ----------------------------
(***************************************************************************)
(* The invariants of LatApp, for every value of its constants.             *)
(***************************************************************************)
EXTENDS LatApp, SequenceTheorems, TLAPS

-----------------------------------------------------------------------------
(* The inductive invariant.                                                *)

\* The slots are filled in turn: the last token is in the current one.
SlotsInTurn ==
    /\ Len(provisioned) <= 2
    /\ provisioned # <<>> =>
         /\ tokenSet[currentTokenIndex]
         /\ tokens[currentTokenIndex] = provisioned[Len(provisioned)]
    /\ Len(provisioned) = 2 =>
         /\ tokenSet[NextSlot]
         /\ tokens[NextSlot] = provisioned[1]

SwapOnlyIfLaunched == calledFromSwap => SwapLaunch

\* The host is orderly, and nothing has ended the mode the application was
\* started in: in swap mode an error may leave a consent screen behind.
Attended == running /\ orderly /\ (SwapLaunch => calledFromSwap)

\* While a command is processed its reply is owed; no screen asks for one,
\* except the one whose button is being handled.
Owing ==
    Attended =>
        /\ phase = "WAIT" => owed = IF screen \in ConsentScreens THEN 1 ELSE 0
        /\ phase # "WAIT" => owed = 1 /\ (inCallback \/ screen \notin ConsentScreens)

\* What has been parsed is what has been hashed and what the host sent.
TxCoherent ==
    /\ appState = "SIGNING_TX"
    /\ path = request.path
    /\ currentField = Len(tmpContent) + 1
    /\ currentField # 1
    /\ sha3 = tmpContent
    /\ BeginningOf(tmpContent, request.payload)

MessageCoherent ==
    /\ appState = "SIGNING_MESSAGE"
    /\ path = request.path
    /\ sha3 = <<LengthHeader(Len(tmpContent) + remainingLength)>> \o tmpContent
    /\ BeginningOf(tmpContent, request.payload)

Coherent ==
    Attended =>
        /\ phase # "WAIT" \/ screen = "DATA" \/ hostChain = "TX" => TxCoherent
        /\ hostChain = "MESSAGE" => MessageCoherent
        /\ hostChain # "NONE" => phase = "WAIT" /\ screen \notin ConsentScreens

\* In swap mode, strings holds what the exchange application showed until a
\* screen of this application overwrites it, and what is left there when no
\* button can be pressed any more is never a part of a transaction.
ShownInExchange ==
    Attended /\ calledFromSwap =>
        \/ strings \in {<<ApprovedShown>>, <<ContractData>>, <<>>}
        \/ phase = "WAIT" /\ screen \in ConsentScreens \ {"DATA"}

IInv ==
    /\ TypeOK
    /\ CleanWhenIdle
    /\ SlotsInTurn
    /\ ErrorEndsSwap
    /\ SwapOnlyIfLaunched
    /\ Owing
    /\ Coherent
    /\ SignsWhatIsShown
    /\ ConsentFollowsSettings
    /\ ShownInExchange

-----------------------------------------------------------------------------
(* Sequences of pieces.                                                    *)

\* The empty sequence, one more element, one sequence after another.
LEMMA SequencesOf ==
    ASSUME NEW S
    PROVE  /\ <<>> \in Seq(S)
           /\ \A x \in S : <<x>> \in Seq(S)
           /\ \A s \in Seq(S), x \in S : Append(s, x) \in Seq(S)
           /\ \A s, u \in Seq(S) : s \o u \in Seq(S)
BY EmptySeq, AppendProperties, ConcatProperties

\* Whatever is made of pieces is made of chunks.
LEMMA PiecesAreChunks == Seq(PayloadPiece) \subseteq Seq(Chunk)
<1> SUFFICES ASSUME NEW s \in Seq(PayloadPiece) PROVE s \in Seq(Chunk)
    OBVIOUS
<1>1. \A i \in 1..Len(s) : s[i] \in Chunk
    BY ElementOfSeq DEF Chunk
<1> QED
    BY <1>1, SeqDef, LenProperties

\* A run of pieces within the bound.
LEMMA RunOfPieces ==
    ASSUME NEW payload \in Payloads, NEW from \in Nat, NEW n \in Nat, from + n <= Pieces,
           AppAssumption
    PROVE  PiecesOf(payload, from, n) \in Seq(PayloadPiece)
<1>1. \A i \in 1..n : Piece(payload, from + i) \in PayloadPiece
    BY DEF Piece, PayloadPiece, AppAssumption
<1> QED
    BY <1>1, SeqDef DEF PiecesOf

-----------------------------------------------------------------------------
(* Types.                                                                  *)

USE DEF Slots, Blank, NoneSet, ConsentScreens, Screens, ResetIf

\* TypeOK in groups that actions leave alone as a whole.
ControlType == running \in BOOLEAN /\ phase \in {"WAIT", "PARSE", "FINALIZE"}
                 /\ inCallback \in BOOLEAN

TmpCtxType ==
    /\ path \in Paths \cup {"NONE", "PUBLIC_KEY"}
    /\ hash \in Seq(Chunk)
    /\ remainingLength \in 0..Pieces
    /\ tokens \in [Slots -> Tokens \cup {"NONE", "LENGTH", "PUBLIC_KEY"}]
    /\ tokenSet \in [Slots -> BOOLEAN]
    /\ currentTokenIndex \in Slots
    /\ provisioned \in Seq(Tokens)

SessionType ==
    /\ appState \in {"IDLE", "SIGNING_TX", "SIGNING_MESSAGE"}
    /\ calledFromSwap \in BOOLEAN
    /\ externalPluginIsSet \in BOOLEAN
    /\ currentField \in 0 .. Pieces + 1
    /\ tmpContent \in Seq(PayloadPiece)

DataType == dataPresent \in BOOLEAN /\ pluginStatus \in {"UNAVAILABLE", "OK"}

StorageType ==
    /\ dataAllowed \in BOOLEAN
    /\ contractDetails \in BOOLEAN
    /\ silentUi \in {"NONE", "GENERIC", "AMOUNT_ADDRESS", "FALLBACK"}

UxType == screen \in Screens /\ strings \in Seq(Chunk)

ReplyType ==
    /\ owed \in Int
    /\ reply \in {"NONE", "OK", "PROVISIONED", "ERROR", "SIGNATURE"}

HostType ==
    /\ request \in [payload : Payloads \cup {"NONE"}, path : Paths \cup {"NONE"}]
    /\ hostChain \in {"NONE", "TX", "MESSAGE"}
    /\ orderly \in BOOLEAN

\* The type invariant in parts, one for each group of variables.
LEMMA TypeGroups ==
    /\ TypeOK => /\ ControlType /\ TmpCtxType /\ SessionType /\ sha3 \in Seq(Chunk)
                 /\ DataType /\ StorageType /\ UxType /\ ReplyType /\ HostType
    /\ /\ ControlType' /\ TmpCtxType' /\ SessionType' /\ sha3' \in Seq(Chunk)
       /\ DataType' /\ StorageType' /\ UxType' /\ ReplyType' /\ HostType'
       => TypeOK'
BY Zenon DEF TypeOK, ControlType, TmpCtxType, SessionType, DataType, StorageType, UxType,
     ReplyType, HostType

\* What an action leaves alone keeps its type.
LEMMA Untouched ==
    /\ ControlType /\ UNCHANGED control => ControlType'
    /\ TmpCtxType /\ UNCHANGED tmpCtx => TmpCtxType'
    /\ SessionType /\ UNCHANGED <<appState, calledFromSwap, externalPluginIsSet,
                                  currentField, tmpContent>> => SessionType'
    /\ DataType /\ UNCHANGED dataContext => DataType'
    /\ StorageType /\ UNCHANGED <<storage, silentUi>> => StorageType'
    /\ UxType /\ UNCHANGED ux => UxType'
    /\ ReplyType /\ UNCHANGED <<owed, reply>> => ReplyType'
    /\ HostType /\ UNCHANGED host => HostType'
<1>1. ControlType /\ UNCHANGED control => ControlType'
    BY DEF ControlType, control
<1>2. TmpCtxType /\ UNCHANGED tmpCtx => TmpCtxType'
    BY DEF TmpCtxType, tmpCtx, tokenContext
<1>3. SessionType /\ UNCHANGED <<appState, calledFromSwap, externalPluginIsSet,
                                currentField, tmpContent>> => SessionType'
    BY DEF SessionType
<1>4. DataType /\ UNCHANGED dataContext => DataType'
    BY DEF DataType, dataContext
<1>5. StorageType /\ UNCHANGED <<storage, silentUi>> => StorageType'
    BY DEF StorageType, storage
<1>6. UxType /\ UNCHANGED ux => UxType'
    BY DEF UxType, ux
<1>7. ReplyType /\ UNCHANGED <<owed, reply>> => ReplyType'
    BY DEF ReplyType
<1>8. HostType /\ UNCHANGED host => HostType'
    BY DEF HostType, host
<1> QED
    BY <1>1, <1>2, <1>3, <1>4, <1>5, <1>6, <1>7, <1>8

\* The initial state is well typed.
LEMMA TypeInit == AppAssumption /\ Init => TypeOK
<1> SUFFICES ASSUME AppAssumption, Init PROVE TypeOK
    OBVIOUS
<1>1. ApprovedShown \in Chunk
    BY DEF Chunk
<1>2. strings \in Seq(Chunk)
    BY <1>1, SequencesOf DEF Init
<1>3. hash \in Seq(Chunk) /\ sha3 \in Seq(Chunk) /\ tmpContent \in Seq(PayloadPiece)
      /\ provisioned \in Seq(Tokens)
    BY SequencesOf DEF Init
<1>4. remainingLength \in 0..Pieces /\ currentField \in 0 .. Pieces + 1 /\ owed \in Int
      /\ currentTokenIndex \in Slots
    BY DEF Init, AppAssumption
<1>5. request \in [payload : Payloads \cup {"NONE"}, path : Paths \cup {"NONE"}]
    BY DEF Init
<1>6. /\ tokens \in [Slots -> Tokens \cup {"NONE", "LENGTH", "PUBLIC_KEY"}]
      /\ tokenSet \in [Slots -> BOOLEAN]
    BY Zenon DEF Init
<1>7. /\ running \in BOOLEAN /\ inCallback \in BOOLEAN /\ calledFromSwap \in BOOLEAN
      /\ externalPluginIsSet \in BOOLEAN /\ dataPresent \in BOOLEAN
      /\ dataAllowed \in BOOLEAN /\ contractDetails \in BOOLEAN /\ orderly \in BOOLEAN
    BY Zenon DEF Init, AppAssumption
<1>8. /\ phase \in {"WAIT", "PARSE", "FINALIZE"}
      /\ appState \in {"IDLE", "SIGNING_TX", "SIGNING_MESSAGE"}
      /\ path \in Paths \cup {"NONE", "PUBLIC_KEY"}
      /\ pluginStatus \in {"UNAVAILABLE", "OK"}
      /\ screen \in Screens
      /\ reply \in {"NONE", "OK", "PROVISIONED", "ERROR", "SIGNATURE"}
      /\ hostChain \in {"NONE", "TX", "MESSAGE"}
      /\ silentUi \in {"NONE", "GENERIC", "AMOUNT_ADDRESS", "FALLBACK"}
    BY DEF Init
<1> QED
    BY <1>2, <1>3, <1>4, <1>5, <1>6, <1>7, <1>8, Zenon DEF TypeOK

\* reset_app_context leaves a well-typed session.
LEMMA ResetType == AppAssumption /\ ResetAppContext => TmpCtxType' /\ SessionType'
<1> SUFFICES ASSUME AppAssumption, ResetAppContext PROVE TmpCtxType' /\ SessionType'
    OBVIOUS
<1>1. hash' \in Seq(Chunk) /\ tmpContent' \in Seq(PayloadPiece) /\ provisioned' \in Seq(Tokens)
    BY SequencesOf DEF ResetAppContext, TmpCtxZeroed
<1>2. /\ remainingLength' \in 0..Pieces /\ currentTokenIndex' \in Slots
      /\ currentField' \in 0 .. Pieces + 1
    BY DEF ResetAppContext, TmpCtxZeroed, AppAssumption
<1> QED
    BY <1>1, <1>2 DEF ResetAppContext, TmpCtxZeroed, TmpCtxType, SessionType

\* Whatever is replied, or not yet, is a reply.
LEMMA ReplyTypes ==
    ASSUME ReplyType
    PROVE  /\ \A r \in {"OK", "PROVISIONED", "ERROR", "SIGNATURE"} :
                Send(r) \/ AnswerCommand(r) => ReplyType'
           /\ Accept => ReplyType'
BY DEF ReplyType, Send, AnswerCommand, Accept

\* The variables of the host after a command.
LEMMA HostTypes ==
    ASSUME HostType, NEW inOrder \in BOOLEAN, Receive(inOrder),
           hostChain' \in {"NONE", "TX", "MESSAGE"},
           \/ request' = request
           \/ request' \in [payload : Payloads, path : Paths]
    PROVE  HostType'
<1>1. orderly' \in BOOLEAN
    BY Zenon DEF Receive, HostType
<1> QED
    BY <1>1, Zenon DEF HostType

\* The commands that wipe the context and answer.
LEMMA RefusalType ==
    ASSUME AppAssumption, TypeOK, RefuseCommand \/ RefuseType \/ RefuseMore \/
           \E n \in 0..Pieces : RefuseMessageMore(n)
    PROVE  TypeOK'
<1>1. /\ ResetAppContext /\ AnswerCommand("ERROR") /\ hostChain' = "NONE"
      /\ UNCHANGED <<control, sha3, storage, silentUi, ux, request>>
    BY DEF RefuseCommand, RefuseType, RefuseMore, RefuseMessageMore, dataContext
<1>2. PICK inOrder \in BOOLEAN : Receive(inOrder)
    BY Zenon DEF RefuseCommand, RefuseType, RefuseMore, RefuseMessageMore
<1>3. HostType' /\ ReplyType'
    BY <1>1, <1>2, HostTypes, ReplyTypes, TypeGroups
<1>4. DataType'
    BY TypeGroups
       DEF RefuseCommand, RefuseType, RefuseMore, RefuseMessageMore, dataContext, DataType
<1> QED
    BY <1>1, <1>3, <1>4, TypeGroups, Untouched, ResetType

\* The commands that provision a token or a plugin keep the types.
LEMMA ProvisionType ==
    ASSUME AppAssumption, TypeOK,
           GetAppConfiguration \/ SetExternalPlugin \/ \E token \in Tokens : ProvideToken(token)
    PROVE  TypeOK'
<1>1. CASE GetAppConfiguration
    <2>1. HostType' /\ ReplyType'
        BY <1>1, HostTypes, ReplyTypes, TypeGroups DEF GetAppConfiguration, HostType
    <2> QED
        BY <1>1, <2>1, TypeGroups, Untouched DEF GetAppConfiguration, session
<1>2. CASE SetExternalPlugin
    <2>1. HostType' /\ ReplyType'
        BY <1>2, HostTypes, ReplyTypes, TypeGroups DEF SetExternalPlugin
    <2>2. SessionType'
        BY <1>2, TypeGroups DEF SetExternalPlugin, SessionType
    <2> QED
        BY <1>2, <2>1, <2>2, TypeGroups, Untouched DEF SetExternalPlugin
<1>3. ASSUME NEW token \in Tokens, ProvideToken(token)
      PROVE  TypeOK'
    <2>1. HostType' /\ ReplyType'
        BY <1>3, HostTypes, ReplyTypes, TypeGroups DEF ProvideToken
    <2>2. NextSlot \in Slots
        BY TypeGroups DEF NextSlot, TmpCtxType
    <2>3. currentTokenIndex' \in Slots /\ remainingLength' \in 0..Pieces
        BY <1>3, <2>2, TypeGroups DEF ProvideToken, TmpCtxType, AppAssumption
    <2>4. provisioned' \in Seq(Tokens)
        <3>1. Append(provisioned, token) \in Seq(Tokens)
            BY TypeGroups, SequencesOf DEF TmpCtxType
        <3>2. Len(Append(provisioned, token)) > 2 => Tail(Append(provisioned, token)) \in Seq(Tokens)
            BY <3>1, LenProperties, HeadTailProperties
        <3> QED
            BY <1>3, <3>1, <3>2, LenProperties DEF ProvideToken, LastTwo
    <2>5. TmpCtxType'
        BY <1>3, <2>2, <2>3, <2>4, TypeGroups DEF ProvideToken, TmpCtxType
    <2> QED
        BY <1>3, <2>1, <2>5, TypeGroups, Untouched DEF ProvideToken
<1> QED
    BY <1>1, <1>2, <1>3

\* GET PUBLIC KEY keeps the types, with any chain code over the token slots.
LEMMA PublicKeyType ==
    ASSUME AppAssumption, TypeOK, NEW p \in Paths, NEW confirm \in BOOLEAN,
           NEW chaincode \in BOOLEAN, GetPublicKey(p, confirm, chaincode)
    PROVE  TypeOK'
<1>1. PICK inOrder \in BOOLEAN : Receive(inOrder)
    BY Zenon DEF GetPublicKey
<1>2. HostType' /\ ReplyType'
    BY <1>1, HostTypes, ReplyTypes, TypeGroups DEF GetPublicKey
<1>3. <<Address(p)>> \in Seq(Chunk)
    BY SequencesOf DEF Address, Chunk
<1>4. UxType'
    BY <1>3, TypeGroups, Untouched DEF GetPublicKey, UxType
<1>5. SessionType'
    <2>1. currentField' \in 0 .. Pieces + 1
        <3>1. 0 \in 0 .. Pieces + 1 /\ currentField \in 0 .. Pieces + 1
            BY TypeGroups DEF SessionType, AppAssumption
        <3> QED
            BY <3>1, Zenon DEF GetPublicKey
    <2>2. tmpContent' \in Seq(PayloadPiece)
        BY TypeGroups, SequencesOf DEF GetPublicKey, SessionType
    <2> QED
        BY <2>1, <2>2, TypeGroups DEF GetPublicKey, SessionType
<1>6. TmpCtxType'
    <2>1. currentTokenIndex' \in Slots
        BY TypeGroups DEF GetPublicKey, TmpCtxType
    <2>2. tokenSet' \in [Slots -> BOOLEAN]
        <3>1. NoneSet \in [Slots -> BOOLEAN]
            BY Zenon
        <3> QED
            BY <3>1, Zenon DEF GetPublicKey
    <2>3. remainingLength' \in 0..Pieces
        BY DEF GetPublicKey, AppAssumption
    <2> QED
        BY <1>3, <2>1, <2>2, <2>3, SequencesOf DEF GetPublicKey, TmpCtxType
<1> QED
    BY <1>2, <1>3, <1>4, <1>5, <1>6, TypeGroups, Untouched DEF GetPublicKey

\* The control variables keep their types when a handler starts or ends.
LEMMA WaitType ==
    ASSUME ControlType
    PROVE  Wait \/ Parse(TRUE) \/ Parse(FALSE) => ControlType'
BY DEF ControlType, Wait, Parse

\* The commands that bring a piece of a transaction keep the types.
LEMMA SignType ==
    ASSUME AppAssumption, TypeOK, NEW t \in Transactions,
           SignMore(t) \/ \E p \in Paths : SignFirst(t, p)
    PROVE  TypeOK'
<1>1. \A k \in 1..Pieces : Piece(t, k) \in PayloadPiece /\ Piece(t, k) \in Chunk
    BY DEF Piece, PayloadPiece, Payloads, Chunk
<1>2. CASE SignMore(t)
    <2>1. HostType' /\ ReplyType' /\ ControlType'
        BY <1>2, HostTypes, ReplyTypes, WaitType, TypeGroups DEF SignMore
    <2>2. CASE currentField <= Pieces
        <3>1. currentField \in 1..Pieces
            BY <1>2, <2>2, TypeGroups DEF SignMore, SessionType, AppAssumption
        <3>2. /\ currentField' = currentField + 1
              /\ tmpContent' = Append(tmpContent, Piece(t, currentField))
              /\ sha3' = Append(sha3, Piece(t, currentField))
            BY <1>2, <2>2 DEF SignMore
        <3>3. tmpContent' \in Seq(PayloadPiece) /\ sha3' \in Seq(Chunk)
            BY <1>1, <3>1, <3>2, SequencesOf, TypeGroups DEF SessionType
        <3>4. currentField' \in 0 .. Pieces + 1
            BY <3>1, <3>2 DEF AppAssumption
        <3>5. SessionType'
            BY <1>2, <3>3, <3>4, TypeGroups DEF SessionType, SignMore
        <3> QED
            BY <1>2, <2>1, <3>3, <3>5, TypeGroups, Untouched DEF SignMore
    <2>3. CASE ~(currentField <= Pieces)
        <3>1. UNCHANGED <<currentField, tmpContent, sha3>>
            BY <1>2, <2>3 DEF SignMore
        <3> QED
            BY <1>2, <2>1, <3>1, TypeGroups, Untouched DEF SignMore
    <2> QED
        BY <2>2, <2>3
<1>3. ASSUME NEW p \in Paths, SignFirst(t, p)
      PROVE  TypeOK'
    <2>1. HostType' /\ ReplyType' /\ ControlType'
        BY <1>3, HostTypes, ReplyTypes, WaitType, TypeGroups DEF SignFirst, Payloads
    <2>2. 1 \in 1..Pieces
        BY DEF AppAssumption
    <2>3. currentField' \in 0 .. Pieces + 1
        BY <1>3 DEF SignFirst, AppAssumption
    <2>4. tmpContent' \in Seq(PayloadPiece) /\ sha3' \in Seq(Chunk)
        BY <1>1, <1>3, <2>2, SequencesOf, TypeGroups DEF SignFirst, SessionType
    <2>5. SessionType'
        BY <1>3, <2>3, <2>4, TypeGroups DEF SessionType, SignFirst
    <2>6. TmpCtxType'
        <3>1. remainingLength' \in 0..Pieces /\ currentTokenIndex' \in Slots
            BY <1>3, TypeGroups DEF SignFirst, TmpCtxType, AppAssumption
        <3>2. hash' \in Seq(Chunk) /\ provisioned' \in Seq(Tokens)
            BY <1>3, SequencesOf, TypeGroups DEF SignFirst, TmpCtxType
        <3>3. path' \in Paths /\ tokens' \in {Blank, tokens} /\ tokenSet' \in {NoneSet, tokenSet}
            BY <1>3 DEF SignFirst
        <3>4. /\ tokens' \in [Slots -> Tokens \cup {"NONE", "LENGTH", "PUBLIC_KEY"}]
              /\ tokenSet' \in [Slots -> BOOLEAN]
            BY <3>3, TypeGroups, Zenon DEF TmpCtxType
        <3> QED
            BY <3>1, <3>2, <3>3, <3>4 DEF TmpCtxType
    <2>7. DataType'
        BY <1>3 DEF SignFirst, DataType
    <2> QED
        BY <1>3, <2>1, <2>4, <2>5, <2>6, <2>7, TypeGroups, Untouched DEF SignFirst
<1> QED
    BY <1>2, <1>3

\* The parser, and what follows it.
LEMMA ParserType ==
    ASSUME AppAssumption, TypeOK,
           \/ MeetData \/ PluginMismatch
           \/ ParseProcessing \/ ParseFault \/ ParseSuspended \/ ParseFinished
    PROVE  TypeOK'
<1>1. CASE MeetData
    <2>1. DataType'
        BY <1>1 DEF MeetData, DataType
    <2> QED
        BY <1>1, <2>1, TypeGroups, Untouched DEF MeetData, session
<1>2. CASE PluginMismatch
    <2>1. ControlType'
        BY <1>2, TypeGroups DEF PluginMismatch, ControlType
    <2> QED
        BY <1>2, <2>1, TypeGroups, Untouched DEF PluginMismatch, session
<1>3. <<>> \in Seq(Chunk)
    BY SequencesOf
<1>4. CASE ParseProcessing
    <2>1. ControlType' /\ ReplyType'
        BY <1>4, WaitType, ReplyTypes, TypeGroups DEF ParseProcessing
    <2>2. UxType' /\ HostType'
        BY <1>3, <1>4, TypeGroups DEF ParseProcessing, IdleIfCallback, UxType, HostType
    <2> QED
        BY <1>4, <2>1, <2>2, TypeGroups, Untouched DEF ParseProcessing, session
<1>5. CASE ParseFault
    <2>1. ControlType' /\ ReplyType'
        BY <1>5, WaitType, ReplyTypes, TypeGroups DEF ParseFault
    <2>2. UxType'
        BY <1>3, <1>5, TypeGroups DEF ParseFault, IdleIfCallback, UxType
    <2> QED
        BY <1>5, <2>1, <2>2, TypeGroups, Untouched, ResetType DEF ParseFault
<1>6. CASE ParseSuspended
    <2>1. ControlType'
        BY <1>6, WaitType, TypeGroups DEF ParseSuspended
    <2>2. UxType'
        <3>1. <<ContractData>> \in Seq(Chunk)
            BY SequencesOf DEF Chunk
        <3> QED
            BY <1>6, <3>1, TypeGroups DEF ParseSuspended, UxType
    <2> QED
        BY <1>6, <2>1, <2>2, TypeGroups, Untouched DEF ParseSuspended, session
<1>7. CASE ParseFinished
    <2>1. ControlType'
        BY <1>7, TypeGroups DEF ParseFinished, ControlType
    <2> QED
        BY <1>7, <2>1, TypeGroups, Untouched DEF ParseFinished, session
<1> QED
    BY <1>1, <1>2, <1>4, <1>5, <1>6, <1>7

\* finalizeParsing keeps the types, however it ends.
LEMMA FinalizeType ==
    ASSUME AppAssumption, TypeOK,
           FinalizeError \/ \E ui \in UiTypes : FinalizeAsk(ui) \/ FinalizeSilently(ui)
                                            \/ FinalizeMismatch(ui)
    PROVE  TypeOK'
<1>1. <<Destination>> \in Seq(Chunk) /\ <<>> \in Seq(Chunk)
    BY SequencesOf DEF Chunk
<1>2. CASE FinalizeError
    <2>1. ControlType' /\ ReplyType'
        BY <1>2, WaitType, ReplyTypes, TypeGroups DEF FinalizeError
    <2>2. UxType' /\ sha3' \in Seq(Chunk)
        BY <1>1, <1>2, TypeGroups DEF FinalizeError, ShowIdle, UxType
    <2>3. DataType'
        BY <1>2, TypeGroups DEF FinalizeError, DataType
    <2> QED
        BY <1>2, <2>1, <2>2, <2>3, TypeGroups, Untouched, ResetType DEF FinalizeError
<1>3. \A ui \in UiTypes : DataPresent(ui) \in BOOLEAN
    BY TypeGroups DEF DataPresent, DataType
<1>4. ASSUME StoreHash, UNCHANGED <<path, remainingLength, tokenContext>>
      PROVE  TmpCtxType' /\ sha3' \in Seq(Chunk)
    BY <1>1, <1>4, TypeGroups DEF StoreHash, TmpCtxType, tokenContext
<1>5. ASSUME NEW ui \in UiTypes, FinalizeAsk(ui)
      PROVE  TypeOK'
    <2>1. ControlType'
        BY <1>5, WaitType, TypeGroups DEF FinalizeAsk
    <2>2. UxType'
        BY <1>5, PiecesAreChunks, TypeGroups DEF FinalizeAsk, UxType, SessionType
    <2>3. DataType'
        BY <1>3, <1>5, TypeGroups DEF FinalizeAsk, DataType
    <2>4. TmpCtxType' /\ sha3' \in Seq(Chunk)
        BY <1>4, <1>5 DEF FinalizeAsk
    <2> QED
        BY <1>5, <2>1, <2>2, <2>3, <2>4, TypeGroups, Untouched DEF FinalizeAsk
<1>6. ASSUME NEW ui \in UiTypes, FinalizeSilently(ui)
      PROVE  TypeOK'
    <2>1. ControlType' /\ ReplyType'
        BY <1>6, ReplyTypes, TypeGroups DEF FinalizeSilently, ControlType
    <2>3. DataType'
        BY <1>3, <1>6, TypeGroups DEF FinalizeSilently, DataType
    <2>4. TmpCtxType' /\ sha3' \in Seq(Chunk)
        BY <1>4, <1>6 DEF FinalizeSilently
    <2>5. StorageType'
        BY <1>6, TypeGroups DEF FinalizeSilently, StorageType, storage, UiTypes
    <2> QED
        BY <1>6, <2>1, <2>3, <2>4, <2>5, TypeGroups, Untouched DEF FinalizeSilently
<1>7. ASSUME NEW ui \in UiTypes, FinalizeMismatch(ui)
      PROVE  TypeOK'
    <2>1. ControlType' /\ ReplyType'
        BY <1>7, WaitType, ReplyTypes, TypeGroups DEF FinalizeMismatch
    <2>2. DataType'
        BY <1>3, <1>7, TypeGroups DEF FinalizeMismatch, DataType
    <2>3. sha3' \in Seq(Chunk)
        BY <1>1, <1>7 DEF FinalizeMismatch
    <2> QED
        BY <1>7, <2>1, <2>2, <2>3, TypeGroups, Untouched, ResetType DEF FinalizeMismatch
<1> QED
    BY <1>2, <1>5, <1>6, <1>7

\* The pieces of a message that are taken are chunks.
LEMMA TakePiecesType ==
    ASSUME AppAssumption, UxType, ReplyType,
           NEW digest \in Seq(Chunk), NEW sha2 \in Seq(PayloadPiece), NEW left \in 0..Pieces,
           NEW kept \in Seq(Chunk), TakePieces(digest, sha2, left, kept)
    PROVE  /\ UxType' /\ ReplyType' /\ hostChain' \in {"NONE", "MESSAGE"}
           /\ sha3' \in Seq(Chunk) /\ tmpContent' \in Seq(PayloadPiece)
           /\ remainingLength' \in 0..Pieces /\ hash' \in Seq(Chunk)
<1>1. sha3' \in Seq(Chunk) /\ tmpContent' \in Seq(PayloadPiece) /\ remainingLength' \in 0..Pieces
    BY DEF TakePieces
<1>2. CASE left = 0
    <2>1. UxType'
        BY <1>2, PiecesAreChunks DEF TakePieces, UxType
    <2> QED
        BY <1>1, <1>2, <2>1, ReplyTypes DEF TakePieces
<1>3. CASE left # 0
    <2>1. UxType'
        BY <1>3, Untouched DEF TakePieces
    <2> QED
        BY <1>1, <1>3, <2>1, ReplyTypes DEF TakePieces
<1> QED
    BY <1>2, <1>3

\* The commands that bring pieces of a message keep the types.
LEMMA MessageType ==
    ASSUME AppAssumption, TypeOK, NEW m \in Messages, NEW n \in 0..Pieces,
           \/ MessageMore(m, n)
           \/ \E p \in Paths, announced \in 0..Pieces : MessageFirst(m, p, announced, n)
    PROVE  TypeOK'
<1>1. PICK inOrder \in BOOLEAN : Receive(inOrder)
    BY Zenon DEF MessageMore, MessageFirst
<1>2. CASE MessageMore(m, n)
    <2> DEFINE new == PiecesOf(m, Len(tmpContent), n)
    <2>1. n <= remainingLength /\ Len(tmpContent) + n <= Pieces
          /\ TakePieces(sha3 \o new, tmpContent \o new, remainingLength - n, hash)
        BY <1>2 DEF MessageMore
    <2>2. new \in Seq(PayloadPiece)
        BY <2>1, RunOfPieces, LenProperties, TypeGroups DEF SessionType, Payloads
    <2>3. remainingLength - n \in 0..Pieces
        BY <2>1, TypeGroups DEF TmpCtxType, AppAssumption
    <2>4. sha3 \o new \in Seq(Chunk) /\ tmpContent \o new \in Seq(PayloadPiece)
        BY <2>2, SequencesOf, PiecesAreChunks, TypeGroups DEF SessionType
    <2>5. /\ UxType' /\ ReplyType' /\ hostChain' \in {"NONE", "MESSAGE"}
          /\ sha3' \in Seq(Chunk) /\ tmpContent' \in Seq(PayloadPiece)
          /\ remainingLength' \in 0..Pieces /\ hash' \in Seq(Chunk)
        <3> HIDE DEF new
        <3> QED
            BY <2>1, <2>3, <2>4, TakePiecesType, TypeGroups DEF TmpCtxType
    <2>6. HostType'
        BY <1>1, <1>2, <2>5, HostTypes, TypeGroups DEF MessageMore
    <2>7. SessionType'
        BY <1>2, <2>5, TypeGroups DEF MessageMore, SessionType
    <2>8. TmpCtxType'
        BY <1>2, <2>5, SequencesOf, TypeGroups DEF MessageMore, TmpCtxType
    <2> QED
        BY <1>2, <2>5, <2>6, <2>7, <2>8, TypeGroups, Untouched DEF MessageMore
<1>3. ASSUME NEW p \in Paths, NEW announced \in 0..Pieces, MessageFirst(m, p, announced, n)
      PROVE  TypeOK'
    <2> DEFINE new == PiecesOf(m, 0, n)
               kept == ResetIf(Unfinished, <<>>, hash)
    <2>1. n <= announced
          /\ TakePieces(<<LengthHeader(announced)>> \o new, new, announced - n, kept)
        BY <1>3 DEF MessageFirst
    <2>2. new \in Seq(PayloadPiece)
        <3>1. n \in Nat /\ 0 \in Nat /\ 0 + n <= Pieces /\ m \in Payloads
            BY DEF AppAssumption, Payloads
        <3> QED
            BY <3>1, RunOfPieces
    <2>3. announced - n \in 0..Pieces
        BY <2>1 DEF AppAssumption
    <2>4. <<LengthHeader(announced)>> \o new \in Seq(Chunk)
        <3>1. <<LengthHeader(announced)>> \in Seq(Chunk)
            BY SequencesOf DEF LengthHeader, Chunk
        <3> QED
            BY <2>2, <3>1, SequencesOf, PiecesAreChunks
    <2>5. kept \in Seq(Chunk)
        BY SequencesOf, TypeGroups DEF TmpCtxType
    <2>6. /\ UxType' /\ ReplyType' /\ hostChain' \in {"NONE", "MESSAGE"}
          /\ sha3' \in Seq(Chunk) /\ tmpContent' \in Seq(PayloadPiece)
          /\ remainingLength' \in 0..Pieces /\ hash' \in Seq(Chunk)
        <3> HIDE DEF new, kept
        <3> QED
            BY <2>1, <2>2, <2>3, <2>4, <2>5, TakePiecesType, TypeGroups
    <2>7. HostType'
        BY <1>1, <1>3, <2>6, HostTypes, TypeGroups DEF MessageFirst, Payloads
    <2>8. SessionType'
        <3>1. 0 \in 0 .. Pieces + 1
            BY DEF AppAssumption
        <3> QED
            BY <1>3, <2>6, <3>1, TypeGroups, Zenon DEF MessageFirst, SessionType
    <2>9. TmpCtxType'
        <3>1. currentTokenIndex' \in Slots
            BY <1>3, TypeGroups DEF MessageFirst, TmpCtxType
        <3>2. tokens' \in [Slots -> Tokens \cup {"NONE", "LENGTH", "PUBLIC_KEY"}]
            BY <1>3, TypeGroups DEF MessageFirst, TmpCtxType
        <3> QED
            BY <1>3, <2>6, <3>1, <3>2, SequencesOf DEF MessageFirst, TmpCtxType
    <2> QED
        BY <1>3, <2>6, <2>7, <2>8, <2>9, TypeGroups, Untouched DEF MessageFirst
<1> QED
    BY <1>2, <1>3

\* The buttons and the lost connection keep the types.
LEMMA UserType ==
    ASSUME AppAssumption, TypeOK, User \/ IoReset \/ IoResetAfterSignature \/ IoResetInLibrary
    PROVE  TypeOK'
<1>1. ShowIdle => UxType'
    BY SequencesOf DEF ShowIdle, UxType
<1>2. \A r \in {"OK", "ERROR", "SIGNATURE"} : Conclude(r) => TypeOK'
    BY <1>1, TypeGroups, Untouched, ResetType, ReplyTypes DEF Conclude
<1>3. CASE \/ TxOk \/ TxCancel \/ SignMessageOk \/ SignMessageCancel
           \/ AddressOk \/ AddressCancel \/ DataCancel
    BY <1>2, <1>3 DEF TxOk, TxCancel, SignMessageOk, SignMessageCancel, AddressOk,
       AddressCancel, DataCancel
<1>4. CASE DataOk
    BY <1>4, TypeGroups, Untouched, WaitType DEF DataOk, session
<1>5. CASE SwitchSetting
    <2>1. StorageType'
        BY <1>5, TypeGroups, Zenon DEF SwitchSetting, StorageType
    <2> QED
        BY <1>5, <2>1, TypeGroups, Untouched DEF SwitchSetting, session
<1>6. CASE IoReset \/ IoResetAfterSignature
    <2>1. Restart /\ (reply' = reply \/ reply' = "SIGNATURE")
        BY <1>6 DEF IoReset, IoResetAfterSignature
    <2>2. ReplyType' /\ HostType'
        BY <2>1, TypeGroups DEF Restart, ReplyType, HostType
    <2> QED
        BY <1>1, <2>1, <2>2, TypeGroups, Untouched DEF Restart, session
<1>7. CASE IoResetInLibrary
    <2>1. ControlType'
        BY <1>7, TypeGroups DEF IoResetInLibrary, ControlType
    <2> QED
        BY <1>7, <2>1, TypeGroups, Untouched DEF IoResetInLibrary, session
<1> QED
    BY <1>3, <1>4, <1>5, <1>6, <1>7 DEF User

\* Every step keeps the types.
LEMMA TypeStep == AppAssumption /\ TypeOK /\ [Next]_vars => TypeOK'
<1> SUFFICES ASSUME AppAssumption, TypeOK, [Next]_vars PROVE TypeOK'
    OBVIOUS
<1>1. CASE UNCHANGED vars
    BY <1>1, TypeGroups, Untouched DEF vars, session
<1>2. CASE Command
    BY <1>2, RefusalType, ProvisionType, PublicKeyType, SignType, MessageType DEF Command
<1>3. CASE Process
    BY <1>3, ParserType, FinalizeType DEF Process
<1>4. CASE User \/ IoReset \/ IoResetAfterSignature \/ IoResetInLibrary
    BY <1>4, UserType
<1> QED
    BY <1>1, <1>2, <1>3, <1>4 DEF Next

\* Whatever the host sends and the user presses, the variables keep their
\* types: the field number, the remaining length and the pieces parsed stay
\* within what a payload holds.
THEOREM TypeCorrect == Spec => []TypeOK
<1>1. Init => TypeOK
    BY TypeInit, AppAssumption
<1>2. TypeOK /\ [Next]_vars => TypeOK'
    BY TypeStep, AppAssumption
<1> QED
    BY <1>1, <1>2, PTL DEF Spec

-----------------------------------------------------------------------------
(* A session starts from a zeroed content.                                 *)

\* A step that ends with appState idle ends with a zeroed content.
LEMMA CleanStep == CleanWhenIdle /\ [Next]_vars => CleanWhenIdle'
<1> SUFFICES ASSUME CleanWhenIdle, [Next]_vars PROVE CleanWhenIdle'
    OBVIOUS
<1>1. ResetAppContext => CleanWhenIdle'
    BY DEF ResetAppContext, CleanWhenIdle
<1>2. UNCHANGED <<appState, currentField, tmpContent>> => CleanWhenIdle'
    BY DEF CleanWhenIdle
<1>3. appState' # "IDLE" => CleanWhenIdle'
    BY DEF CleanWhenIdle
<1>4. CASE UNCHANGED vars
    BY <1>2, <1>4 DEF vars, session
<1>5. CASE Command
    <2>1. CASE RefuseCommand \/ RefuseType \/ RefuseMore \/ \E n \in 0..Pieces : RefuseMessageMore(n)
        BY <1>1, <2>1 DEF RefuseCommand, RefuseType, RefuseMore, RefuseMessageMore
    <2>2. CASE GetAppConfiguration \/ SetExternalPlugin \/ \E token \in Tokens : ProvideToken(token)
        BY <1>2, <2>2 DEF GetAppConfiguration, SetExternalPlugin, ProvideToken, session
    <2>3. ASSUME NEW p \in Paths, NEW confirm \in BOOLEAN, NEW chaincode \in BOOLEAN,
                 GetPublicKey(p, confirm, chaincode)
          PROVE  CleanWhenIdle'
        <3>1. \/ currentField' = 0 /\ tmpContent' = <<>>
              \/ UNCHANGED <<appState, currentField, tmpContent>>
            BY <2>3 DEF GetPublicKey
        <3> QED
            BY <1>2, <3>1 DEF CleanWhenIdle
    <2>4. CASE \/ \E t \in Transactions, p \in Paths : SignFirst(t, p)
               \/ \E t \in Transactions : SignMore(t)
        BY <1>3, <2>4 DEF SignFirst, SignMore
    <2>5. CASE \/ \E m \in Messages, p \in Paths, announced, n \in 0..Pieces :
                      MessageFirst(m, p, announced, n)
               \/ \E m \in Messages, n \in 0..Pieces : MessageMore(m, n)
        BY <1>3, <2>5 DEF MessageFirst, MessageMore
    <2> QED
        BY <1>5, <2>1, <2>2, <2>3, <2>4, <2>5 DEF Command
<1>6. CASE Process
    <2>1. CASE ParseFault \/ FinalizeError \/ \E ui \in UiTypes : FinalizeMismatch(ui)
        BY <1>1, <2>1 DEF ParseFault, FinalizeError, FinalizeMismatch
    <2>2. CASE \/ MeetData \/ PluginMismatch \/ ParseProcessing \/ ParseSuspended \/ ParseFinished
               \/ \E ui \in UiTypes : FinalizeAsk(ui) \/ FinalizeSilently(ui)
        BY <1>2, <2>2 DEF MeetData, PluginMismatch, ParseProcessing, ParseSuspended,
           ParseFinished, FinalizeAsk, FinalizeSilently, session
    <2> QED
        BY <1>6, <2>1, <2>2 DEF Process
<1>7. CASE User
    <2>1. CASE \/ TxOk \/ TxCancel \/ SignMessageOk \/ SignMessageCancel
               \/ AddressOk \/ AddressCancel \/ DataCancel
        BY <1>1, <2>1 DEF TxOk, TxCancel, SignMessageOk, SignMessageCancel, AddressOk,
           AddressCancel, DataCancel, Conclude
    <2>2. CASE DataOk \/ SwitchSetting
        BY <1>2, <2>2 DEF DataOk, SwitchSetting, session
    <2> QED
        BY <1>7, <2>1, <2>2 DEF User
<1>8. CASE IoReset \/ IoResetAfterSignature \/ IoResetInLibrary
    BY <1>2, <1>8 DEF IoReset, IoResetAfterSignature, IoResetInLibrary, Restart, session
<1> QED
    BY <1>4, <1>5, <1>6, <1>7, <1>8 DEF Next

\* The handlers wipe what a former session left only when appState is not
\* idle; that is enough, for any command in any order, and for a connection
\* lost at any time: with appState idle there is nothing to wipe.
THEOREM SessionsStartClean == Spec => []CleanWhenIdle
<1>1. Init => CleanWhenIdle
    BY DEF Init, CleanWhenIdle
<1> QED
    BY <1>1, CleanStep, PTL DEF Spec

-----------------------------------------------------------------------------
(* The swap mode does not survive an error.                                *)

\* A step that replies with an error ends with the swap mode off.
LEMMA SwapStep == ErrorEndsSwap /\ [Next]_vars => ErrorEndsSwap'
<1> SUFFICES ASSUME ErrorEndsSwap, [Next]_vars PROVE ErrorEndsSwap'
    OBVIOUS
<1>1. ResetAppContext => ErrorEndsSwap'
    BY DEF ResetAppContext, ErrorEndsSwap
<1>2. UNCHANGED <<calledFromSwap, reply>> => ErrorEndsSwap'
    BY DEF ErrorEndsSwap
<1>3. reply' # "ERROR" => ErrorEndsSwap'
    BY DEF ErrorEndsSwap
<1>4. CASE UNCHANGED vars
    BY <1>2, <1>4 DEF vars, session
<1>5. CASE Command
    <2>1. CASE RefuseCommand \/ RefuseType \/ RefuseMore \/ \E n \in 0..Pieces : RefuseMessageMore(n)
        BY <1>1, <2>1 DEF RefuseCommand, RefuseType, RefuseMore, RefuseMessageMore
    <2>2. CASE \/ GetAppConfiguration \/ SetExternalPlugin
               \/ \E token \in Tokens : ProvideToken(token)
        BY <1>3, <2>2 DEF GetAppConfiguration, SetExternalPlugin, ProvideToken, AnswerCommand
    <2>3. CASE \E p \in Paths, confirm, chaincode \in BOOLEAN : GetPublicKey(p, confirm, chaincode)
        BY <1>3, <2>3 DEF GetPublicKey, AnswerCommand, Accept
    <2>4. CASE \/ \E t \in Transactions, p \in Paths : SignFirst(t, p)
               \/ \E t \in Transactions : SignMore(t)
        BY <1>3, <2>4 DEF SignFirst, SignMore, Accept
    <2>5. CASE \/ \E m \in Messages, p \in Paths, announced, n \in 0..Pieces :
                      MessageFirst(m, p, announced, n)
               \/ \E m \in Messages, n \in 0..Pieces : MessageMore(m, n)
        <3>1. \A digest, sha2, left, kept : TakePieces(digest, sha2, left, kept) => reply' # "ERROR"
            BY DEF TakePieces, Accept, AnswerCommand
        <3> QED
            BY <1>3, <2>5, <3>1 DEF MessageFirst, MessageMore
    <2> QED
        BY <1>5, <2>1, <2>2, <2>3, <2>4, <2>5 DEF Command
<1>6. CASE Process
    <2>1. CASE ParseFault \/ FinalizeError \/ \E ui \in UiTypes : FinalizeMismatch(ui)
        BY <1>1, <2>1 DEF ParseFault, FinalizeError, FinalizeMismatch
    <2>2. CASE \/ MeetData \/ PluginMismatch \/ ParseSuspended \/ ParseFinished
               \/ \E ui \in UiTypes : FinalizeAsk(ui)
        BY <1>2, <2>2 DEF MeetData, PluginMismatch, ParseSuspended, ParseFinished, FinalizeAsk,
           session
    <2>3. CASE ParseProcessing \/ \E ui \in UiTypes : FinalizeSilently(ui)
        BY <1>3, <2>3 DEF ParseProcessing, FinalizeSilently, Send
    <2> QED
        BY <1>6, <2>1, <2>2, <2>3 DEF Process
<1>7. CASE User
    <2>1. CASE \/ TxOk \/ TxCancel \/ SignMessageOk \/ SignMessageCancel
               \/ AddressOk \/ AddressCancel \/ DataCancel
        BY <1>1, <2>1 DEF TxOk, TxCancel, SignMessageOk, SignMessageCancel, AddressOk,
           AddressCancel, DataCancel, Conclude
    <2>2. CASE DataOk \/ SwitchSetting
        BY <1>2, <2>2 DEF DataOk, SwitchSetting, session
    <2> QED
        BY <1>7, <2>1, <2>2 DEF User
<1>8. CASE IoReset \/ IoResetAfterSignature \/ IoResetInLibrary
    BY <1>2, <1>3, <1>8 DEF IoReset, IoResetAfterSignature, IoResetInLibrary, Restart, session
<1> QED
    BY <1>4, <1>5, <1>6, <1>7, <1>8 DEF Next

\* Once a command of the exchange application has failed, no transaction is
\* signed without a screen: every error path resets the context.
THEOREM SwapEndsWithError == Spec => []ErrorEndsSwap
<1>1. Init => ErrorEndsSwap
    BY DEF Init, ErrorEndsSwap
<1> QED
    BY <1>1, SwapStep, PTL DEF Spec

-----------------------------------------------------------------------------
(* Provisioned tokens.                                                     *)

\* What has a length is not empty.
LEMMA NotEmpty == \A s : Len(s) # 0 => s # <<>>
<1> SUFFICES ASSUME NEW s, s = <<>> PROVE Len(s) = 0
    BY Zenon
<1> QED
    OBVIOUS

\* The last two of a sequence of at most two and one more element.
LEMMA LastTwoOf ==
    ASSUME NEW S, NEW s \in Seq(S), NEW x \in S, Len(s) <= 2
    PROVE  LET new == LastTwo(Append(s, x))
           IN  /\ Len(new) <= 2 /\ new # <<>> /\ new[Len(new)] = x
               /\ Len(new) = 2 => s # <<>> /\ new[1] = s[Len(s)]
<1> DEFINE longer == Append(s, x)
           new == LastTwo(longer)
<1>1. Len(s) = 0 \/ Len(s) = 1 \/ Len(s) = 2
    <2>1. Len(s) \in Nat
        BY LenProperties
    <2>2. \A n \in Nat : n <= 2 => n = 0 \/ n = 1 \/ n = 2
        OBVIOUS
    <2> QED
        BY <2>1, <2>2
<1>2. /\ longer \in Seq(S) /\ Len(longer) = Len(s) + 1 /\ longer[Len(s) + 1] = x
      /\ \A i \in 1 .. Len(s) : longer[i] = s[i]
    BY AppendProperties
<1> HIDE DEF longer
<1>3. CASE Len(s) = 0
    <2>1. Len(longer) = 1 /\ longer[1] = x
        BY <1>2, <1>3
    <2>2. longer # <<>>
        BY <2>1
    <2>3. new = longer
        BY <2>1 DEF LastTwo
    <2> HIDE DEF new
    <2> QED
        BY <2>1, <2>2, <2>3 DEF new, longer
<1>4. CASE Len(s) = 1
    <2>1. Len(longer) = 2 /\ longer[2] = x /\ longer[1] = s[1]
        BY <1>2, <1>4
    <2>2. longer # <<>> /\ s # <<>>
        BY <2>1, <1>4
    <2>3. new = longer
        BY <2>1 DEF LastTwo
    <2> QED
        BY <1>4, <2>1, <2>2, <2>3 DEF longer
<1>5. CASE Len(s) = 2
    <2>1. Len(longer) = 3 /\ longer[3] = x /\ longer[2] = s[2]
        BY <1>2, <1>5
    <2>2. longer # <<>> /\ s # <<>>
        <3>1. Len(longer) # 0 /\ Len(s) # 0
            BY <2>1, <1>5
        <3> QED
            BY <3>1, NotEmpty, Zenon
    <2>3. /\ Tail(longer) \in Seq(S) /\ Len(Tail(longer)) = Len(longer) - 1
          /\ \A i \in 1 .. Len(Tail(longer)) : Tail(longer)[i] = longer[i + 1]
        BY <1>2, <2>2, HeadTailProperties
    <2>4. new = Tail(longer)
        BY <2>1 DEF LastTwo
    <2>5. Len(new) = Len(longer) - 1 /\ \A i \in 1 .. Len(new) : new[i] = longer[i + 1]
        BY <2>3, <2>4
    <2> HIDE DEF new
    <2>6. Len(new) = 2
        BY <2>1, <2>5
    <2>7. new[1] = longer[2] /\ new[2] = longer[3]
        <3>1. \A i \in 1..2 : new[i] = longer[i + 1]
            BY <2>5, <2>6
        <3>2. 1 \in 1..2 /\ 2 \in 1..2 /\ 1 + 1 = 2 /\ 2 + 1 = 3
            OBVIOUS
        <3> QED
            BY <3>1, <3>2
    <2>8. new # <<>>
        <3>1. Len(new) # 0
            BY <2>6
        <3> QED
            BY <3>1, NotEmpty, Zenon
    <2> QED
        BY <1>5, <2>1, <2>2, <2>6, <2>7, <2>8 DEF new, longer
<1> QED
    BY <1>1, <1>3, <1>4, <1>5

\* A token provisioned in the next slot leaves the former one in its own.
LEMMA ProvideInTurn ==
    ASSUME TypeOK, SlotsInTurn, NEW token \in Tokens, ProvideToken(token)
    PROVE  SlotsInTurn'
<1>1. /\ currentTokenIndex \in {0, 1}
      /\ tokens \in [Slots -> Tokens \cup {"NONE", "LENGTH", "PUBLIC_KEY"}]
      /\ tokenSet \in [Slots -> BOOLEAN]
    BY TypeGroups DEF TmpCtxType
<1>2. provisioned \in Seq(Tokens) /\ Len(provisioned) <= 2
    BY TypeGroups DEF TmpCtxType, SlotsInTurn
<1>3. currentTokenIndex' = NextSlot /\ NextSlot' = currentTokenIndex
      /\ NextSlot \in {0, 1} /\ NextSlot # currentTokenIndex
    BY <1>1 DEF ProvideToken, NextSlot
<1>4. /\ tokenSet'[NextSlot] /\ tokens'[NextSlot] = token
      /\ tokenSet'[currentTokenIndex] = tokenSet[currentTokenIndex]
      /\ tokens'[currentTokenIndex] = tokens[currentTokenIndex]
    <2>1. /\ tokens' = [tokens EXCEPT ![NextSlot] = token]
          /\ tokenSet' = [tokenSet EXCEPT ![NextSlot] = TRUE]
        BY DEF ProvideToken
    <2>2. NextSlot \in Slots /\ currentTokenIndex \in Slots
        BY <1>1, <1>3
    <2> QED
        BY <1>1, <1>3, <2>1, <2>2, Zenon
<1>5. /\ Len(provisioned') <= 2
      /\ provisioned' # <<>>
      /\ provisioned'[Len(provisioned')] = token
      /\ Len(provisioned') = 2 =>
            provisioned # <<>> /\ provisioned'[1] = provisioned[Len(provisioned)]
    <2>1. provisioned' = LastTwo(Append(provisioned, token))
        BY DEF ProvideToken
    <2> QED
        BY <1>2, <2>1, LastTwoOf
<1>6. provisioned # <<>> => tokenSet[currentTokenIndex]
                            /\ tokens[currentTokenIndex] = provisioned[Len(provisioned)]
    BY DEF SlotsInTurn
<1> QED
    BY <1>3, <1>4, <1>5, <1>6, Zenon DEF SlotsInTurn

\* Every step keeps the slots filled in turn, or wipes them.
LEMMA SlotsStep == TypeOK /\ SlotsInTurn /\ [Next]_vars => SlotsInTurn'
<1> SUFFICES ASSUME TypeOK, SlotsInTurn, [Next]_vars PROVE SlotsInTurn'
    OBVIOUS
<1>1. provisioned' = <<>> => SlotsInTurn'
    BY DEF SlotsInTurn
<1>2. UNCHANGED tokenContext => SlotsInTurn'
    BY DEF SlotsInTurn, NextSlot, tokenContext
<1>3. ResetAppContext => SlotsInTurn'
    BY <1>1 DEF ResetAppContext, TmpCtxZeroed
<1>4. CASE UNCHANGED vars
    BY <1>2, <1>4 DEF vars, session, tmpCtx
<1>5. CASE Command
    <2>1. CASE RefuseCommand \/ RefuseType \/ RefuseMore \/ \E n \in 0..Pieces : RefuseMessageMore(n)
        BY <1>3, <2>1 DEF RefuseCommand, RefuseType, RefuseMore, RefuseMessageMore
    <2>2. CASE GetAppConfiguration \/ SetExternalPlugin
        BY <1>2, <2>2 DEF GetAppConfiguration, SetExternalPlugin, session, tmpCtx
    <2>3. CASE \E token \in Tokens : ProvideToken(token)
        BY <2>3, ProvideInTurn
    <2>4. CASE \E p \in Paths, confirm, chaincode \in BOOLEAN : GetPublicKey(p, confirm, chaincode)
        BY <1>1, <2>4 DEF GetPublicKey
    <2>5. CASE \E t \in Transactions, p \in Paths : SignFirst(t, p)
        <3>1. provisioned' = <<>> \/ UNCHANGED tokenContext
            BY <2>5 DEF SignFirst, tokenContext
        <3> QED
            BY <1>1, <1>2, <3>1
    <2>6. CASE \E t \in Transactions : SignMore(t)
        BY <1>2, <2>6 DEF SignMore, tmpCtx
    <2>7. CASE \/ \E m \in Messages, p \in Paths, announced, n \in 0..Pieces :
                      MessageFirst(m, p, announced, n)
               \/ \E m \in Messages, n \in 0..Pieces : MessageMore(m, n)
        BY <1>1, <2>7 DEF MessageFirst, MessageMore
    <2> QED
        BY <1>5, <2>1, <2>2, <2>3, <2>4, <2>5, <2>6, <2>7 DEF Command
<1>6. CASE Process
    <2>1. CASE ParseFault \/ FinalizeError \/ \E ui \in UiTypes : FinalizeMismatch(ui)
        BY <1>3, <2>1 DEF ParseFault, FinalizeError, FinalizeMismatch
    <2>2. CASE \/ MeetData \/ PluginMismatch \/ ParseProcessing \/ ParseSuspended \/ ParseFinished
               \/ \E ui \in UiTypes : FinalizeAsk(ui) \/ FinalizeSilently(ui)
        BY <1>2, <2>2 DEF MeetData, PluginMismatch, ParseProcessing, ParseSuspended,
           ParseFinished, FinalizeAsk, FinalizeSilently, session, tmpCtx
    <2> QED
        BY <1>6, <2>1, <2>2 DEF Process
<1>7. CASE User
    <2>1. CASE \/ TxOk \/ TxCancel \/ SignMessageOk \/ SignMessageCancel
               \/ AddressOk \/ AddressCancel \/ DataCancel
        BY <1>3, <2>1 DEF TxOk, TxCancel, SignMessageOk, SignMessageCancel, AddressOk,
           AddressCancel, DataCancel, Conclude
    <2>2. CASE DataOk \/ SwitchSetting
        BY <1>2, <2>2 DEF DataOk, SwitchSetting, session, tmpCtx
    <2> QED
        BY <1>7, <2>1, <2>2 DEF User
<1>8. CASE IoReset \/ IoResetAfterSignature \/ IoResetInLibrary
    BY <1>2, <1>8 DEF IoReset, IoResetAfterSignature, IoResetInLibrary, Restart, session, tmpCtx
<1> QED
    BY <1>4, <1>5, <1>6, <1>7, <1>8 DEF Next

\* Until the context is wiped the last two verified tokens are found, whatever
\* slot the index points to when the first of them arrives.
THEOREM TwoTokensFound == Spec => []ProvisionedFound
<1>1. Init => SlotsInTurn
    BY DEF Init, SlotsInTurn
<1>2. TypeOK /\ SlotsInTurn => ProvisionedFound
    <2> SUFFICES ASSUME TypeOK, SlotsInTurn, NEW i \in DOMAIN provisioned
                 PROVE  Known(provisioned[i])
        BY DEF ProvisionedFound
    <2>1. provisioned \in Seq(Tokens) /\ currentTokenIndex \in Slots
        BY TypeGroups DEF TmpCtxType
    <2>2. NextSlot \in Slots
        BY <2>1 DEF NextSlot
    <2>3. i \in 1 .. Len(provisioned) /\ Len(provisioned) \in Nat /\ provisioned # <<>>
        BY <2>1, LenProperties
    <2>4. Len(provisioned) <= 2
        BY Zenon DEF SlotsInTurn
    <2>5. i = Len(provisioned) \/ (i = 1 /\ Len(provisioned) = 2)
        <3>1. PICK n \in Nat : n = Len(provisioned)
            BY <2>3
        <3>2. i \in 1..n /\ n <= 2
            BY <2>3, <2>4, <3>1
        <3>3. i = n \/ (i = 1 /\ n = 2)
            BY <3>2
        <3> QED
            BY <3>1, <3>3
    <2> QED
        BY <2>1, <2>2, <2>3, <2>5, Zenon DEF SlotsInTurn, Known
<1> QED
    BY <1>1, <1>2, SlotsStep, TypeCorrect, PTL DEF Spec

-----------------------------------------------------------------------------
(* One reply to a command.                                                 *)

\* No step enters the swap mode.
LEMMA SwapNotEntered == [Next]_vars => (calledFromSwap' => calledFromSwap)
<1>1. ResetAppContext => ~calledFromSwap'
    BY DEF ResetAppContext
<1>2. \A kept, reset : ResetIf(reset, FALSE, kept) => kept
    OBVIOUS
<1>3. Command => (calledFromSwap' => calledFromSwap)
    BY <1>1, <1>2 DEF Command, RefuseCommand, RefuseType, RefuseMore, RefuseMessageMore,
       GetAppConfiguration, SetExternalPlugin, ProvideToken, GetPublicKey, SignFirst,
       SignMore, MessageFirst, MessageMore, session
<1>4. Process => (calledFromSwap' => calledFromSwap)
    BY <1>1 DEF Process, MeetData, PluginMismatch, ParseProcessing, ParseFault,
       ParseSuspended, ParseFinished, FinalizeError, FinalizeAsk, FinalizeSilently,
       FinalizeMismatch, session
<1>5. User => (calledFromSwap' => calledFromSwap)
    BY <1>1 DEF User, TxOk, TxCancel, SignMessageOk, SignMessageCancel, AddressOk,
       AddressCancel, DataOk, DataCancel, SwitchSetting, Conclude, session
<1>6. IoReset \/ IoResetAfterSignature \/ IoResetInLibrary =>
          (calledFromSwap' => calledFromSwap)
    BY DEF IoReset, IoResetAfterSignature, IoResetInLibrary, Restart, session
<1> QED
    BY <1>3, <1>4, <1>5, <1>6 DEF Next, vars, session

\* So it is only ever in it when the exchange application launched it.
LEMMA LaunchStep == SwapOnlyIfLaunched /\ [Next]_vars => SwapOnlyIfLaunched'
BY SwapNotEntered DEF SwapOnlyIfLaunched

\* What is attended after a step was attended before it.
LEMMA AttendedBefore ==
    ASSUME Command \/ Process \/ User \/ IoReset \/ IoResetAfterSignature
               \/ IoResetInLibrary \/ UNCHANGED vars,
           running, orderly, Attended'
    PROVE  Attended
BY SwapNotEntered DEF Attended, Next

\* An orderly host sends a command while nothing is owed and no screen asks.
LEMMA OrderlyCommand ==
    ASSUME Command, Owing, NEW inOrder, Receive(inOrder), Attended'
    PROVE  /\ Attended /\ inOrder /\ phase = "WAIT"
           /\ owed = 0 /\ screen \notin ConsentScreens
<1>1. Attended /\ inOrder /\ phase = "WAIT"
    <2>1. running /\ orderly /\ inOrder /\ phase = "WAIT"
        BY Zenon DEF Attended, Receive
    <2> QED
        BY <2>1, AttendedBefore, Zenon
<1>2. owed <= 0
    <2>1. orderly' = (orderly /\ owed <= 0 /\ inOrder) /\ orderly'
        BY Zenon DEF Receive, Attended
    <2> QED
        BY <2>1, Zenon
<1>3. owed = IF screen \in ConsentScreens THEN 1 ELSE 0
    BY <1>1, Zenon DEF Owing
<1>4. screen \notin ConsentScreens
    BY <1>2, <1>3
<1>5. owed = 0
    BY <1>3, <1>4
<1> QED
    BY <1>1, <1>4, <1>5, Zenon

\* The three ways to satisfy Owing: at rest, asking the user, processing.
LEMMA OwingCases ==
    /\ phase' = "WAIT" /\ owed' = 0 /\ screen' \notin ConsentScreens => Owing'
    /\ phase' = "WAIT" /\ owed' = 1 /\ screen' \in ConsentScreens => Owing'
    /\ phase' # "WAIT" /\ owed' = 1 /\ (inCallback' \/ screen' \notin ConsentScreens) => Owing'
    /\ ~Attended' => Owing'
BY DEF Owing

\* A reply to an attended command leaves nothing owed.
LEMMA Settled ==
    ASSUME NEW r, Send(r), owed = 1
    PROVE  owed' = 0
BY DEF Send

\* A command of an attended application leaves what it owes on screen or answered.
LEMMA OwingCommand == Owing /\ Command => Owing'
<1> SUFFICES ASSUME Owing, Command, Attended' PROVE Owing'
    BY OwingCases
<1>1. ASSUME NEW inOrder, Receive(inOrder), NEW r, AnswerCommand(r), UNCHANGED control,
             screen' = screen
      PROVE  Owing'
    <2>1. phase = "WAIT" /\ owed = 0 /\ screen \notin ConsentScreens
        BY <1>1, OrderlyCommand DEF control
    <2> QED
        BY <1>1, <2>1, OwingCases DEF AnswerCommand, control
<1>2. ASSUME NEW inOrder, Receive(inOrder), Accept, UNCHANGED control,
             screen' \in ConsentScreens
      PROVE  Owing'
    <2>1. phase = "WAIT" /\ owed = 0
        BY <1>2, OrderlyCommand DEF control
    <2>2. owed' = 1
        BY <1>2, <2>1 DEF Accept
    <2> QED
        BY <1>2, <2>1, <2>2, OwingCases DEF control
<1>3. ASSUME NEW inOrder, Receive(inOrder), Accept, Parse(FALSE), screen' = screen
      PROVE  Owing'
    <2>1. owed = 0 /\ screen \notin ConsentScreens /\ phase' # "WAIT"
        BY <1>3, OrderlyCommand DEF Parse
    <2>2. owed' = 1
        BY <1>3, <2>1 DEF Accept
    <2> QED
        BY <1>3, <2>1, <2>2, OwingCases
<1>4. CASE \/ RefuseCommand \/ RefuseType \/ RefuseMore
           \/ \E n \in 0..Pieces : RefuseMessageMore(n)
    BY <1>1, <1>4 DEF RefuseCommand, RefuseType, RefuseMore, RefuseMessageMore, ux
<1>5. CASE \/ GetAppConfiguration \/ SetExternalPlugin
           \/ \E token \in Tokens : ProvideToken(token)
    BY <1>1, <1>5 DEF GetAppConfiguration, SetExternalPlugin, ProvideToken, ux
<1>6. ASSUME NEW p \in Paths, NEW confirm \in BOOLEAN, NEW chaincode \in BOOLEAN,
             GetPublicKey(p, confirm, chaincode)
      PROVE  Owing'
    <2>1. PICK inOrder : Receive(inOrder)
        BY <1>6, Zenon DEF GetPublicKey
    <2>2. /\ UNCHANGED control
          /\ \/ Accept /\ screen' = "ADDRESS"
             \/ AnswerCommand("OK") /\ screen' = screen
        BY <1>6 DEF GetPublicKey, ux
    <2> QED
        BY <1>1, <1>2, <2>1, <2>2
<1>7. CASE \/ \E t \in Transactions, p \in Paths : SignFirst(t, p)
           \/ \E t \in Transactions : SignMore(t)
    BY <1>3, <1>7 DEF SignFirst, SignMore, ux
<1>8. CASE \/ \E m \in Messages, p \in Paths, announced, n \in 0..Pieces :
                  MessageFirst(m, p, announced, n)
           \/ \E m \in Messages, n \in 0..Pieces : MessageMore(m, n)
    <2>1. PICK inOrder : Receive(inOrder)
        BY <1>8, Zenon DEF MessageFirst, MessageMore
    <2>2. PICK digest, sha2, left, kept : TakePieces(digest, sha2, left, kept)
        BY <1>8, Zenon DEF MessageFirst, MessageMore
    <2>3. UNCHANGED control
        BY <1>8 DEF MessageFirst, MessageMore
    <2>4. \/ Accept /\ screen' = "MESSAGE"
          \/ AnswerCommand("OK") /\ screen' = screen
        BY <2>2 DEF TakePieces, ux
    <2> QED
        BY <1>1, <1>2, <2>1, <2>3, <2>4
<1> QED
    BY <1>4, <1>5, <1>6, <1>7, <1>8 DEF Command

\* The parser and finalizeParsing answer, ask, or go on.
LEMMA OwingProcess == SwapOnlyIfLaunched /\ Owing /\ Process => Owing'
<1> SUFFICES ASSUME SwapOnlyIfLaunched, Owing, Process, Attended' PROVE Owing'
    BY OwingCases
<1>0. running' = running /\ orderly' = orderly => Attended
    BY AttendedBefore DEF Attended
<1>1. PluginMismatch \/ (\E ui \in UiTypes : FinalizeSilently(ui) \/ FinalizeMismatch(ui))
      => ~Attended'
    BY DEF PluginMismatch, FinalizeSilently, FinalizeMismatch, SwapOnlyIfLaunched, Attended,
       ResetAppContext
<1>2. CASE MeetData \/ ParseFinished
    <2>1. UNCHANGED <<running, inCallback, screen, owed, orderly>> /\ phase # "WAIT" /\ phase' # "WAIT"
        BY <1>2 DEF MeetData, ParseFinished, control, ux, host
    <2>2. owed = 1 /\ (inCallback \/ screen \notin ConsentScreens)
        BY <2>1, <1>0 DEF Owing
    <2> QED
        BY <2>1, <2>2, OwingCases
<1>3. CASE ParseProcessing \/ ParseFault
    <2>1. running' = running /\ orderly' = orderly /\ phase # "WAIT" /\ phase' = "WAIT" /\ IdleIfCallback
        BY <1>3 DEF ParseProcessing, ParseFault, Wait, host
    <2>2. owed = 1 /\ (inCallback \/ screen \notin ConsentScreens)
        BY <2>1, <1>0 DEF Owing
    <2>3. PICK r : Send(r)
        BY <1>3, Zenon DEF ParseProcessing, ParseFault
    <2>4. owed' = 0
        BY <2>2, <2>3, Settled
    <2>5. screen' \notin ConsentScreens
        BY <2>1, <2>2 DEF IdleIfCallback
    <2> QED
        BY <2>1, <2>4, <2>5, OwingCases
<1>4. CASE FinalizeError
    <2>1. running' = running /\ orderly' = orderly /\ phase # "WAIT" /\ phase' = "WAIT" /\ screen' = "IDLE"
        BY <1>4 DEF FinalizeError, Wait, ShowIdle, host
    <2>2. owed = 1
        BY <2>1, <1>0 DEF Owing
    <2>3. owed' = 0
        BY <1>4, <2>2, Settled DEF FinalizeError
    <2> QED
        BY <2>1, <2>3, OwingCases
<1>5. CASE ParseSuspended \/ \E ui \in UiTypes : FinalizeAsk(ui)
    <2>1. /\ running' = running /\ orderly' = orderly /\ owed' = owed
          /\ phase # "WAIT" /\ phase' = "WAIT" /\ screen' \in ConsentScreens
        BY <1>5 DEF ParseSuspended, FinalizeAsk, Wait, host
    <2>2. owed = 1
        BY <2>1, <1>0 DEF Owing
    <2> QED
        BY <2>1, <2>2, OwingCases
<1> QED
    BY <1>1, <1>2, <1>3, <1>4, <1>5 DEF Process

\* A button answers the command its screen was shown for, or goes on with it.
LEMMA OwingUser ==
    Owing /\ (User \/ IoReset \/ IoResetAfterSignature \/ IoResetInLibrary) => Owing'
<1> SUFFICES ASSUME Owing, User \/ IoReset \/ IoResetAfterSignature \/ IoResetInLibrary, Attended'
             PROVE  Owing'
    BY OwingCases
<1>0. running' = running /\ orderly' = orderly => Attended
    BY AttendedBefore DEF Attended
<1>1. CASE \/ TxOk \/ TxCancel \/ SignMessageOk \/ SignMessageCancel
           \/ AddressOk \/ AddressCancel \/ DataCancel
    <2>1. Press(ConsentScreens)
        BY <1>1 DEF TxOk, TxCancel, SignMessageOk, SignMessageCancel, AddressOk,
           AddressCancel, DataCancel, Press
    <2>2. PICK r : Conclude(r)
        BY <1>1, Zenon DEF TxOk, TxCancel, SignMessageOk, SignMessageCancel, AddressOk,
           AddressCancel, DataCancel
    <2>3. running' = running /\ orderly' = orderly /\ phase' = "WAIT" /\ screen' = "IDLE" /\ Send(r)
        BY <2>1, <2>2 DEF Conclude, ShowIdle, Press, control, host
    <2>4. owed = 1
        BY <2>1, <2>3, <1>0 DEF Owing, Press
    <2>5. owed' = 0
        BY <2>3, <2>4, Settled
    <2> QED
        BY <2>3, <2>5, OwingCases
<1>2. CASE DataOk
    <2>1. /\ running' = running /\ orderly' = orderly /\ owed' = owed /\ phase = "WAIT"
          /\ phase' # "WAIT" /\ inCallback' /\ screen \in ConsentScreens
        BY <1>2 DEF DataOk, Parse, Press, host
    <2>2. owed = 1
        BY <2>1, <1>0 DEF Owing
    <2> QED
        BY <2>1, <2>2, OwingCases
<1>3. CASE SwitchSetting
    <2>1. /\ running' = running /\ orderly' = orderly /\ owed' = owed /\ screen' = screen
          /\ phase = "WAIT" /\ phase' = "WAIT" /\ screen \notin ConsentScreens
        BY <1>3 DEF SwitchSetting, Press, control, host, ux
    <2>2. owed = 0
        BY <2>1, <1>0 DEF Owing
    <2> QED
        BY <2>1, <2>2, OwingCases
<1>4. CASE IoReset \/ IoResetAfterSignature
    <2>1. phase' = "WAIT" /\ owed' = 0 /\ screen' = "IDLE"
        BY <1>4 DEF IoReset, IoResetAfterSignature, Restart, ShowIdle, Press, control
    <2> QED
        BY <2>1, OwingCases
<1>5. CASE IoResetInLibrary
    BY <1>5, OwingCases DEF IoResetInLibrary, Attended
<1> QED
    BY <1>1, <1>2, <1>3, <1>4, <1>5 DEF User

\* Every step keeps what is owed.
LEMMA OwingStep == SwapOnlyIfLaunched /\ Owing /\ [Next]_vars => Owing'
<1>1. Owing /\ UNCHANGED vars => Owing'
    BY DEF Owing, Attended, vars, control, session, ux, host
<1> QED
    BY <1>1, OwingCommand, OwingProcess, OwingUser DEF Next

\* With a host that waits for its replies, and however the connection is lost,
\* a reply is owed exactly while a screen asks the user for it: no handler or
\* callback forgets its reply or sends a second one.
THEOREM OneReplyEach == Spec => []OneReply
<1>1. Init => SwapOnlyIfLaunched /\ Owing
    BY DEF Init, SwapOnlyIfLaunched, Owing, Attended
<1>2. Owing => OneReply
    BY DEF Owing, OneReply, Waiting, Attended
<1> QED
    BY <1>1, <1>2, LaunchStep, OwingStep, PTL DEF Spec

-----------------------------------------------------------------------------
(* What is hashed, parsed and displayed is the beginning of one payload.   *)

\* A run of pieces is a sequence of its length, one piece after another.
LEMMA RunOf ==
    ASSUME NEW payload, NEW from \in Nat, NEW n \in Nat
    PROVE  /\ PiecesOf(payload, from, n) \in Seq({payload} \X Nat)
           /\ Len(PiecesOf(payload, from, n)) = n
           /\ \A i \in 1..n : PiecesOf(payload, from, n)[i] = Piece(payload, from + i)
<1>1. \A i \in 1..n : Piece(payload, from + i) \in {payload} \X Nat
    BY DEF Piece
<1>2. PiecesOf(payload, from, n) \in [1..n -> {payload} \X Nat]
    BY <1>1 DEF PiecesOf
<1>3. PiecesOf(payload, from, n) \in Seq({payload} \X Nat)
    BY <1>2, SeqDef
<1>4. DOMAIN PiecesOf(payload, from, n) = 1..n
    BY DEF PiecesOf
<1>5. Len(PiecesOf(payload, from, n)) = n
    BY <1>3, <1>4, LenProperties
<1> QED
    BY <1>3, <1>5 DEF PiecesOf

\* The first pieces of a payload are that many, in order.
LEMMA FirstPieces ==
    ASSUME NEW payload, NEW n \in Nat
    PROVE  /\ PiecesOf(payload, 0, n) \in Seq({payload} \X Nat)
           /\ Len(PiecesOf(payload, 0, n)) = n
           /\ \A i \in 1..n : PiecesOf(payload, 0, n)[i] = Piece(payload, i)
<1>1. \A i \in 1..n : 0 + i = i
    OBVIOUS
<1>2. \A i \in 1..n : PiecesOf(payload, 0, n)[i] = Piece(payload, i)
    BY <1>1 DEF PiecesOf
<1> QED
    BY <1>2, RunOf

\* A beginning and the next piece make a beginning.
LEMMA OneMorePiece ==
    ASSUME NEW payload, NEW n \in Nat
    PROVE  PiecesOf(payload, 0, n + 1) = Append(PiecesOf(payload, 0, n), Piece(payload, n + 1))
<1> DEFINE S == {payload} \X Nat
           a == PiecesOf(payload, 0, n)
           b == PiecesOf(payload, 0, n + 1)
           x == Piece(payload, n + 1)
<1>0. n + 1 \in Nat
    OBVIOUS
<1>1. /\ a \in Seq(S) /\ Len(a) = n /\ \A i \in 1..n : a[i] = Piece(payload, i)
      /\ b \in Seq(S) /\ Len(b) = n + 1 /\ \A i \in 1 .. n + 1 : b[i] = Piece(payload, i)
    BY <1>0, FirstPieces, Zenon
<1>2. x \in S
    BY DEF Piece
<1>3. /\ Append(a, x) \in Seq(S) /\ Len(Append(a, x)) = n + 1
      /\ \A i \in 1..n : Append(a, x)[i] = a[i]
      /\ Append(a, x)[n + 1] = x
    BY <1>1, <1>2, AppendProperties
<1>4. \A i \in 1 .. n + 1 : b[i] = Append(a, x)[i]
    BY <1>1, <1>3
<1> QED
    BY <1>1, <1>3, <1>4, SeqEqual

\* A beginning and the run that follows it make a beginning.
LEMMA RunsJoined ==
    ASSUME NEW payload, NEW k \in Nat, NEW n \in Nat
    PROVE  PiecesOf(payload, 0, k) \o PiecesOf(payload, k, n) = PiecesOf(payload, 0, k + n)
<1> DEFINE S == {payload} \X Nat
           a == PiecesOf(payload, 0, k)
           b == PiecesOf(payload, k, n)
           c == PiecesOf(payload, 0, k + n)
<1>0. k + n \in Nat
    OBVIOUS
<1>1. /\ a \in Seq(S) /\ Len(a) = k /\ \A i \in 1..k : a[i] = Piece(payload, i)
      /\ b \in Seq(S) /\ Len(b) = n /\ \A i \in 1..n : b[i] = Piece(payload, k + i)
      /\ c \in Seq(S) /\ Len(c) = k + n /\ \A i \in 1 .. k + n : c[i] = Piece(payload, i)
    BY <1>0, FirstPieces, RunOf, Zenon
<1> HIDE DEF a, b, c, S
<1>2. /\ a \o b \in Seq(S) /\ Len(a \o b) = k + n
      /\ \A i \in 1 .. k + n : (a \o b)[i] = IF i <= k THEN a[i] ELSE b[i - k]
    BY <1>1, ConcatProperties
<1>3. \A i \in 1 .. k + n : (a \o b)[i] = c[i]
    <2> SUFFICES ASSUME NEW i \in 1 .. k + n PROVE (a \o b)[i] = Piece(payload, i)
        BY <1>1
    <2>1. CASE i <= k
        BY <1>1, <1>2, <2>1
    <2>2. CASE ~(i <= k)
        <3>1. i - k \in 1..n /\ k + (i - k) = i
            BY <2>2
        <3>2. b[i - k] = Piece(payload, i)
            BY <1>1, <3>1
        <3> QED
            BY <1>2, <2>2, <3>2
    <2> QED
        BY <2>1, <2>2
<1> QED
    BY <1>1, <1>2, <1>3, SeqEqual DEF a, b, c

\* What a session signs: the content, as far as it has been received.
signing == <<appState, path, request, currentField, tmpContent, sha3>>

\* The ways to satisfy Coherent: no session open to the host, a transaction,
\* a message.
LEMMA CoherentCases ==
    /\ phase' = "WAIT" /\ hostChain' = "NONE" /\ screen' # "DATA" => Coherent'
    /\ TxCoherent' /\ hostChain' = "NONE" => Coherent'
    /\ TxCoherent' /\ hostChain' = "TX" /\ phase' = "WAIT" /\ screen' \notin ConsentScreens
       => Coherent'
    /\ MessageCoherent' /\ hostChain' = "MESSAGE" /\ phase' = "WAIT"
       /\ screen' \notin ConsentScreens => Coherent'
    /\ ~Attended' => Coherent'
BY DEF Coherent

\* What does not touch the signing variables keeps them coherent.
LEMMA SigningKept == TxCoherent /\ UNCHANGED signing => TxCoherent'
BY DEF TxCoherent, signing, BeginningOf, PiecesOf

\* The first block of a transaction.
LEMMA TxBegins ==
    ASSUME CleanWhenIdle, NEW t, NEW p, SignFirst(t, p)
    PROVE  TxCoherent'
<1>1. tmpContent' = <<Piece(t, 1)>>
    <2>1. ~Unfinished => tmpContent = <<>>
        BY DEF Unfinished, CleanWhenIdle
    <2>2. tmpContent' = Append(<<>>, Piece(t, 1))
        BY <2>1 DEF SignFirst
    <2> QED
        BY <2>2
<1>2. PiecesOf(t, 0, 0) = <<>>
    BY DEF PiecesOf
<1>3. PiecesOf(t, 0, 1) = <<Piece(t, 1)>>
    <2>1. 0 + 1 = 1
        OBVIOUS
    <2>2. PiecesOf(t, 0, 1) = Append(PiecesOf(t, 0, 0), Piece(t, 1))
        BY <2>1, OneMorePiece
    <2> QED
        BY <1>2, <2>2
<1>4. Len(tmpContent') = 1
    BY <1>1
<1>5. currentField' = Len(tmpContent') + 1 /\ currentField' # 1
    BY <1>4 DEF SignFirst
<1>6. request'.payload = t /\ request'.path = p /\ path' = p /\ appState' = "SIGNING_TX"
      /\ sha3' = <<Piece(t, 1)>>
    BY DEF SignFirst
<1> QED
    BY <1>1, <1>3, <1>4, <1>5, <1>6, Zenon DEF TxCoherent, BeginningOf

\* The next block.
LEMMA TxContinues ==
    ASSUME TypeOK, TxCoherent, NEW t, t = request.payload, SignMore(t)
    PROVE  TxCoherent'
<1>1. CASE ~(currentField <= Pieces)
    <2>1. UNCHANGED signing
        BY <1>1 DEF SignMore, signing, tmpCtx
    <2> QED
        BY <2>1, SigningKept
<1>2. CASE currentField <= Pieces
    <2> DEFINE n == Len(tmpContent)
    <2>1. n \in Nat /\ tmpContent \in Seq(PayloadPiece)
        BY TypeGroups, LenProperties DEF SessionType
    <2>2. currentField = n + 1 /\ tmpContent = PiecesOf(t, 0, n) /\ sha3 = tmpContent
        BY DEF TxCoherent, BeginningOf
    <2>3. /\ currentField' = currentField + 1
          /\ tmpContent' = Append(tmpContent, Piece(t, currentField))
          /\ sha3' = Append(sha3, Piece(t, currentField))
          /\ UNCHANGED <<appState, path, request>>
        BY <1>2 DEF SignMore, tmpCtx
    <2> HIDE DEF n
    <2>4. tmpContent' = PiecesOf(t, 0, n + 1) /\ sha3' = tmpContent'
        BY <2>1, <2>2, <2>3, OneMorePiece
    <2>5. Len(tmpContent') = n + 1
        <3>1. n + 1 \in Nat
            BY <2>1
        <3> QED
            BY <2>4, <3>1, FirstPieces
    <2>6. currentField' = Len(tmpContent') + 1 /\ currentField' # 1
        BY <2>1, <2>2, <2>3, <2>5
    <2> QED
        BY <2>3, <2>4, <2>5, <2>6, Zenon DEF TxCoherent, BeginningOf
<1> QED
    BY <1>1, <1>2

\* The first block of a message.
LEMMA MessageBegins ==
    ASSUME NEW m, NEW p, NEW announced \in Nat, NEW n \in Nat, MessageFirst(m, p, announced, n)
    PROVE  MessageCoherent'
<1>1. /\ appState' = "SIGNING_MESSAGE" /\ path' = p /\ request'.payload = m /\ request'.path = p
      /\ tmpContent' = PiecesOf(m, 0, n)
      /\ sha3' = <<LengthHeader(announced)>> \o PiecesOf(m, 0, n)
      /\ remainingLength' = announced - n
    BY DEF MessageFirst, TakePieces
<1>2. Len(tmpContent') = n
    BY <1>1, FirstPieces
<1>3. n + (announced - n) = announced
    OBVIOUS
<1>4. sha3' = <<LengthHeader(Len(tmpContent') + remainingLength')>> \o tmpContent'
    BY <1>1, <1>2, <1>3, Zenon
<1> QED
    BY <1>1, <1>2, <1>4, Zenon DEF MessageCoherent, BeginningOf

\* The next block: the announced length does not change.
LEMMA MessageContinues ==
    ASSUME TypeOK, MessageCoherent, NEW m, m = request.payload, NEW n \in Nat,
           MessageMore(m, n)
    PROVE  MessageCoherent'
<1> DEFINE k == Len(tmpContent)
           new == PiecesOf(m, k, n)
           header == LengthHeader(k + remainingLength)
           S == Chunk \cup ({m} \X Nat) \cup {header}
<1>1. k \in Nat /\ remainingLength \in Nat
    BY TypeGroups, LenProperties DEF SessionType, TmpCtxType
<1>2. tmpContent = PiecesOf(m, 0, k) /\ sha3 = <<header>> \o tmpContent
    BY DEF MessageCoherent, BeginningOf
<1>3. /\ appState' = appState /\ path' = path /\ request' = request
      /\ tmpContent' = tmpContent \o new /\ sha3' = sha3 \o new
      /\ remainingLength' = remainingLength - n
    BY DEF MessageMore, TakePieces
<1> HIDE DEF k
<1>4. k + n \in Nat /\ k + n + (remainingLength - n) = k + remainingLength
    BY <1>1
<1>5. tmpContent' = PiecesOf(m, 0, k + n)
    BY <1>1, <1>2, <1>3, RunsJoined
<1>6. Len(tmpContent') = k + n
    BY <1>4, <1>5, FirstPieces
<1>7. sha3' = <<header>> \o tmpContent'
    <2>1. tmpContent \in Seq({m} \X Nat) /\ new \in Seq({m} \X Nat)
        BY <1>1, <1>2, FirstPieces, RunOf
    <2>2. Seq({m} \X Nat) \subseteq Seq(S)
        BY SeqMonotonic
    <2>3. <<header>> \in Seq(S)
        BY SequencesOf
    <2> HIDE DEF header, new, S
    <2>4. (<<header>> \o tmpContent) \o new = <<header>> \o (tmpContent \o new)
        BY <2>1, <2>2, <2>3, ConcatAssociative
    <2> QED
        BY <1>2, <1>3, <2>4
<1>8. sha3' = <<LengthHeader(Len(tmpContent') + remainingLength')>> \o tmpContent'
    BY <1>3, <1>4, <1>6, <1>7, Zenon
<1>9. appState = "SIGNING_MESSAGE" /\ path = request.path
    BY DEF MessageCoherent
<1> QED
    BY <1>3, <1>5, <1>6, <1>8, <1>9, Zenon DEF MessageCoherent, BeginningOf

\* A command leaves what is parsed, hashed and asked for coherent.
LEMMA CoherentCommand ==
    AppAssumption /\ TypeOK /\ CleanWhenIdle /\ Owing /\ Coherent /\ Command => Coherent'
<1> SUFFICES ASSUME AppAssumption, TypeOK, CleanWhenIdle, Owing, Coherent, Command, Attended'
             PROVE  Coherent'
    BY CoherentCases
<1>1. ASSUME NEW inOrder, Receive(inOrder), UNCHANGED control, hostChain' = "NONE",
             screen' \in {screen, "ADDRESS", "MESSAGE"}
      PROVE  Coherent'
    <2>1. phase = "WAIT" /\ screen \notin ConsentScreens
        BY <1>1, OrderlyCommand DEF control
    <2> QED
        BY <1>1, <2>1, CoherentCases DEF control
<1>2. CASE \/ RefuseCommand \/ RefuseType \/ RefuseMore
           \/ \E n \in 0..Pieces : RefuseMessageMore(n)
    BY <1>1, <1>2 DEF RefuseCommand, RefuseType, RefuseMore, RefuseMessageMore, ux
<1>3. CASE SetExternalPlugin \/ \E token \in Tokens : ProvideToken(token)
    BY <1>1, <1>3 DEF SetExternalPlugin, ProvideToken, ux
<1>4. CASE \E p \in Paths, confirm, chaincode \in BOOLEAN : GetPublicKey(p, confirm, chaincode)
    <2>1. PICK inOrder : Receive(inOrder)
        BY <1>4, Zenon DEF GetPublicKey
    <2>2. UNCHANGED control /\ hostChain' = "NONE" /\ screen' \in {screen, "ADDRESS"}
        BY <1>4 DEF GetPublicKey, ux
    <2> QED
        BY <1>1, <2>1, <2>2
<1>5. CASE GetAppConfiguration
    <2>1. Attended
        BY <1>5, OrderlyCommand DEF GetAppConfiguration, control
    <2>2. UNCHANGED <<phase, screen, hostChain, signing, remainingLength>>
        BY <1>5 DEF GetAppConfiguration, control, ux, session, tmpCtx, signing
    <2> QED
        BY <2>1, <2>2
           DEF Coherent, TxCoherent, MessageCoherent, BeginningOf, PiecesOf, signing
<1>6. ASSUME NEW t \in Transactions, NEW p \in Paths, SignFirst(t, p)
      PROVE  Coherent'
    BY <1>6, TxBegins, CoherentCases DEF SignFirst
<1>7. ASSUME NEW t \in Transactions, SignMore(t)
      PROVE  Coherent'
    <2>1. Attended /\ hostChain = "TX" /\ t = request.payload
        BY <1>7, OrderlyCommand DEF SignMore, Parse
    <2>2. TxCoherent
        BY <2>1 DEF Coherent
    <2> QED
        BY <1>7, <2>1, <2>2, TxContinues, CoherentCases DEF SignMore
<1>8. ASSUME NEW digest, NEW sha2, NEW left, NEW kept, TakePieces(digest, sha2, left, kept),
             NEW inOrder, Receive(inOrder), UNCHANGED control, MessageCoherent'
      PROVE  Coherent'
    <2>1. phase = "WAIT" /\ screen \notin ConsentScreens
        BY <1>8, OrderlyCommand DEF control
    <2>2. CASE left = 0
        BY <1>1, <1>8, <2>2 DEF TakePieces
    <2>3. CASE left # 0
        BY <1>8, <2>1, <2>3, CoherentCases DEF TakePieces, ux, control
    <2> QED
        BY <2>2, <2>3
<1>9. ASSUME NEW m \in Messages, NEW p \in Paths, NEW announced \in 0..Pieces,
             NEW n \in 0..Pieces, MessageFirst(m, p, announced, n)
      PROVE  Coherent'
    <2>1. announced \in Nat /\ n \in Nat
        BY DEF AppAssumption
    <2>2. MessageCoherent'
        BY <1>9, <2>1, MessageBegins
    <2> QED
        BY <1>8, <1>9, <2>2 DEF MessageFirst
<1>10. ASSUME NEW m \in Messages, NEW n \in 0..Pieces, MessageMore(m, n)
       PROVE  Coherent'
    <2>1. Attended /\ hostChain = "MESSAGE" /\ m = request.payload
        BY <1>10, OrderlyCommand DEF MessageMore, control
    <2>2. MessageCoherent
        BY <2>1 DEF Coherent
    <2>3. n \in Nat
        BY DEF AppAssumption
    <2>4. MessageCoherent'
        BY <1>10, <2>1, <2>2, <2>3, MessageContinues
    <2> QED
        BY <1>8, <1>10, <2>4 DEF MessageMore
<1> QED
    BY <1>2, <1>3, <1>4, <1>5, <1>6, <1>7, <1>9, <1>10 DEF Command

\* The parser and finalizeParsing leave it coherent.
LEMMA CoherentProcess ==
    SwapOnlyIfLaunched /\ Owing /\ Coherent /\ Process => Coherent'
<1> SUFFICES ASSUME SwapOnlyIfLaunched, Owing, Coherent, Process, Attended' PROVE Coherent'
    BY CoherentCases
<1>1. PluginMismatch \/ (\E ui \in UiTypes : FinalizeSilently(ui) \/ FinalizeMismatch(ui))
      => ~Attended'
    BY DEF PluginMismatch, FinalizeSilently, FinalizeMismatch, SwapOnlyIfLaunched, Attended,
       ResetAppContext
<1>2. phase # "WAIT"
    BY DEF Process, MeetData, PluginMismatch, ParseProcessing, ParseFault, ParseSuspended,
       ParseFinished, FinalizeError, FinalizeAsk, FinalizeSilently, FinalizeMismatch
<1>3. CASE ~PluginMismatch /\ ~(\E ui \in UiTypes : FinalizeSilently(ui) \/ FinalizeMismatch(ui))
    <2>1. Attended
        <3>1. running' = running /\ orderly' = orderly
            BY <1>3 DEF Process, MeetData, ParseProcessing, ParseFault, ParseSuspended,
               ParseFinished, FinalizeError, FinalizeAsk, Wait, control, host
        <3> QED
            BY <3>1, AttendedBefore DEF Attended
    <2>2. TxCoherent /\ hostChain = "NONE" /\ (inCallback \/ screen \notin ConsentScreens)
        <3>1. TxCoherent
            BY <1>2, <2>1 DEF Coherent
        <3>2. hostChain = "NONE"
            BY <1>2, <2>1 DEF Coherent
        <3>3. inCallback \/ screen \notin ConsentScreens
            BY <1>2, <2>1, Zenon DEF Owing
        <3> QED
            BY <3>1, <3>2, <3>3
    <2>3. CASE ParseFault \/ FinalizeError \/ \E ui \in UiTypes : FinalizeAsk(ui)
        <3>1. phase' = "WAIT" /\ hostChain' = "NONE" /\ screen' # "DATA"
            BY <2>2, <2>3 DEF ParseFault, FinalizeError, FinalizeAsk, Wait, IdleIfCallback,
               ShowIdle, host
        <3> QED
            BY <3>1, CoherentCases
    <2>4. CASE MeetData \/ ParseProcessing \/ ParseSuspended \/ ParseFinished
        <3>1. UNCHANGED signing
            BY <2>4 DEF MeetData, ParseProcessing, ParseSuspended, ParseFinished, signing,
               session, tmpCtx, host
        <3>2. TxCoherent'
            BY <2>2, <3>1, SigningKept
        <3>3. \/ hostChain' = "NONE"
              \/ hostChain' = "TX" /\ phase' = "WAIT" /\ screen' \notin ConsentScreens
            BY <2>2, <2>4 DEF MeetData, ParseProcessing, ParseSuspended, ParseFinished, Wait,
               IdleIfCallback, host
        <3> QED
            BY <3>2, <3>3, CoherentCases
    <2> QED
        BY <1>3, <2>3, <2>4 DEF Process
<1> QED
    BY <1>1, <1>3

\* The buttons and the lost connection leave it coherent.
LEMMA CoherentUser ==
    Coherent /\ (User \/ IoReset \/ IoResetAfterSignature \/ IoResetInLibrary) => Coherent'
<1> SUFFICES ASSUME Coherent, User \/ IoReset \/ IoResetAfterSignature \/ IoResetInLibrary,
                    Attended'
             PROVE  Coherent'
    BY CoherentCases
<1>0. running' = running /\ orderly' = orderly => Attended
    BY AttendedBefore DEF Attended
<1>1. CASE \/ TxOk \/ TxCancel \/ SignMessageOk \/ SignMessageCancel
           \/ AddressOk \/ AddressCancel \/ DataCancel
    <2>1. Press(ConsentScreens)
        BY <1>1 DEF TxOk, TxCancel, SignMessageOk, SignMessageCancel, AddressOk,
           AddressCancel, DataCancel, Press
    <2>2. UNCHANGED <<running, orderly, hostChain>> /\ phase' = "WAIT" /\ screen' = "IDLE"
        BY <1>1, <2>1 DEF TxOk, TxCancel, SignMessageOk, SignMessageCancel, AddressOk,
           AddressCancel, DataCancel, Conclude, ShowIdle, Press, control, host
    <2>3. hostChain = "NONE"
        BY <1>0, <2>1, <2>2 DEF Coherent, Press
    <2> QED
        BY <2>2, <2>3, CoherentCases
<1>2. CASE DataOk
    <2>1. screen = "DATA" /\ Attended /\ UNCHANGED <<signing, hostChain>>
        BY <1>0, <1>2 DEF DataOk, Parse, Press, host, session, tmpCtx, signing
    <2>2. TxCoherent /\ hostChain = "NONE"
        BY <2>1 DEF Coherent
    <2> QED
        BY <2>1, <2>2, SigningKept, CoherentCases
<1>3. CASE SwitchSetting
    <2>1. Attended /\ UNCHANGED <<phase, screen, hostChain, signing, remainingLength>>
        BY <1>0, <1>3 DEF SwitchSetting, control, ux, host, session, tmpCtx, signing
    <2> QED
        BY <2>1 DEF Coherent, TxCoherent, MessageCoherent, BeginningOf, PiecesOf, signing
<1>4. CASE IoReset \/ IoResetAfterSignature
    BY <1>4, CoherentCases DEF IoReset, IoResetAfterSignature, Restart, ShowIdle, Press, control
<1>5. CASE IoResetInLibrary
    BY <1>5, CoherentCases DEF IoResetInLibrary, Attended
<1> QED
    BY <1>1, <1>2, <1>3, <1>4, <1>5 DEF User

\* Every step leaves it coherent.
LEMMA CoherentStep ==
    /\ AppAssumption /\ TypeOK /\ CleanWhenIdle /\ SwapOnlyIfLaunched /\ Owing /\ Coherent
    /\ [Next]_vars
    => Coherent'
<1>1. Coherent /\ UNCHANGED vars => Coherent'
    BY DEF Coherent, Attended, TxCoherent, MessageCoherent, BeginningOf, PiecesOf, vars,
       control, ux, host, session, tmpCtx
<1> QED
    BY <1>1, CoherentCommand, CoherentProcess, CoherentUser DEF Next

Shown == SignsWhatIsShown /\ ConsentFollowsSettings

\* Nothing to compare: nobody attends, or no screen signs or displays data.
LEMMA ShownCases ==
    /\ ~Waiting' => Shown'
    /\ screen' \notin {"TX", "PLUGIN", "MESSAGE", "DATA"} => Shown'
BY DEF Shown, SignsWhatIsShown, ConsentFollowsSettings

\* A message on display is the one that was hashed, with its length in front.
LEMMA MessageShown ==
    ASSUME TypeOK', MessageCoherent', NEW digest, NEW sha2, NEW kept, NEW left, left = 0,
           TakePieces(digest, sha2, left, kept)
    PROVE  Shown'
<1>1. /\ screen' = "MESSAGE" /\ hash' = sha3' /\ strings' = tmpContent' /\ remainingLength' = 0
    BY DEF TakePieces
<1>2. Len(tmpContent') + remainingLength' = Len(tmpContent')
    <2>1. tmpContent' \in Seq(PayloadPiece)
        BY DEF TypeOK
    <2>2. Len(tmpContent') \in Nat
        BY <2>1, LenProperties
    <2> QED
        BY <1>1, <2>2
<1>3. sha3' = <<LengthHeader(Len(tmpContent'))>> \o tmpContent'
    BY <1>2, Zenon DEF MessageCoherent
<1>4. BeginningOf(strings, request.payload)' /\ path' = request'.path
    BY <1>1 DEF MessageCoherent, BeginningOf
<1> QED
    BY <1>1, <1>3, <1>4 DEF Shown, SignsWhatIsShown, ConsentFollowsSettings

\* A command that puts a screen up puts up what will be signed.
LEMMA ShownCommand ==
    ASSUME AppAssumption, TypeOK, TypeOK', Owing, Coherent, Command
    PROVE  Shown'
<1> SUFFICES ASSUME Waiting' PROVE Shown'
    BY ShownCases
<1>1. Attended'
    BY DEF Waiting, Attended
<1>2. ASSUME NEW inOrder, Receive(inOrder), UNCHANGED control, screen' \in {screen, "ADDRESS"}
      PROVE  Shown'
    <2>1. screen \notin ConsentScreens
        BY <1>1, <1>2, OrderlyCommand DEF control
    <2> QED
        BY <1>2, <2>1, ShownCases
<1>3. CASE \/ RefuseCommand \/ RefuseType \/ RefuseMore
           \/ \E n \in 0..Pieces : RefuseMessageMore(n)
    BY <1>2, <1>3 DEF RefuseCommand, RefuseType, RefuseMore, RefuseMessageMore, ux
<1>4. CASE \/ GetAppConfiguration \/ SetExternalPlugin
           \/ \E token \in Tokens : ProvideToken(token)
    BY <1>2, <1>4 DEF GetAppConfiguration, SetExternalPlugin, ProvideToken, ux
<1>5. CASE \E p \in Paths, confirm, chaincode \in BOOLEAN : GetPublicKey(p, confirm, chaincode)
    <2>1. PICK inOrder : Receive(inOrder)
        BY <1>5, Zenon DEF GetPublicKey
    <2>2. UNCHANGED control /\ screen' \in {screen, "ADDRESS"}
        BY <1>5 DEF GetPublicKey, ux
    <2> QED
        BY <1>2, <2>1, <2>2
<1>6. CASE \/ \E t \in Transactions, p \in Paths : SignFirst(t, p)
           \/ \E t \in Transactions : SignMore(t)
    BY <1>6, ShownCases DEF SignFirst, SignMore, Parse, Waiting
<1>7. ASSUME NEW digest, NEW sha2, NEW left, NEW kept, TakePieces(digest, sha2, left, kept),
             NEW inOrder, Receive(inOrder), UNCHANGED control, MessageCoherent'
      PROVE  Shown'
    <2>1. CASE left = 0
        BY <1>7, <2>1, MessageShown
    <2>2. CASE left # 0
        BY <1>2, <1>7, <2>2 DEF TakePieces, ux
    <2> QED
        BY <2>1, <2>2
<1>8. ASSUME NEW m \in Messages, NEW p \in Paths, NEW announced \in 0..Pieces,
             NEW n \in 0..Pieces, MessageFirst(m, p, announced, n)
      PROVE  Shown'
    <2>1. announced \in Nat /\ n \in Nat
        BY DEF AppAssumption
    <2>2. MessageCoherent'
        BY <1>8, <2>1, MessageBegins
    <2> QED
        BY <1>7, <1>8, <2>2 DEF MessageFirst
<1>9. ASSUME NEW m \in Messages, NEW n \in 0..Pieces, MessageMore(m, n)
      PROVE  Shown'
    <2>1. Attended /\ hostChain = "MESSAGE" /\ m = request.payload
        BY <1>1, <1>9, OrderlyCommand DEF MessageMore, control
    <2>2. MessageCoherent
        BY <2>1 DEF Coherent
    <2>3. n \in Nat
        BY DEF AppAssumption
    <2>4. MessageCoherent'
        BY <1>9, <2>1, <2>2, <2>3, MessageContinues
    <2> QED
        BY <1>7, <1>9, <2>4 DEF MessageMore
<1> QED
    BY <1>3, <1>4, <1>5, <1>6, <1>8, <1>9 DEF Command

\* The user is asked to sign what was parsed and hashed, with the setting on.
LEMMA ShownAsk ==
    ASSUME TypeOK, Owing, Coherent, NEW ui \in UiTypes, FinalizeAsk(ui), Waiting'
    PROVE  Shown'
<1>1. Attended /\ phase # "WAIT"
    BY DEF FinalizeAsk, Wait, Waiting, Attended, host
<1>2. TxCoherent
    BY <1>1 DEF Coherent
<1>3. /\ strings' = tmpContent /\ hash' = sha3 /\ path' = path /\ request' = request
      /\ screen' \in {"TX", "PLUGIN"} /\ dataPresent' = DataPresent(ui)
      /\ dataAllowed' = dataAllowed /\ DataAccepted(ui)
    BY DEF FinalizeAsk, StoreHash, host, storage
<1>4. tmpContent # <<>>
    <2>1. Len(tmpContent) # 0
        <3>1. tmpContent \in Seq(PayloadPiece)
            BY TypeGroups DEF SessionType
        <3>2. Len(tmpContent) \in Nat
            BY <3>1, LenProperties
        <3>3. currentField = Len(tmpContent) + 1 /\ currentField # 1
            BY <1>2, Zenon DEF TxCoherent
        <3> QED
            BY <3>2, <3>3
    <2> QED
        BY <2>1
<1>5. BeginningOf(strings, request.payload)' /\ strings' # <<>> /\ hash' = strings'
      /\ path' = request'.path
    BY <1>2, <1>3, <1>4 DEF TxCoherent, BeginningOf
<1>6. dataPresent' => dataAllowed'
    BY <1>3 DEF DataAccepted
<1> QED
    BY <1>3, <1>5, <1>6 DEF Shown, SignsWhatIsShown, ConsentFollowsSettings

\* So does finalizeParsing, from the digest and the content.
LEMMA ShownProcess ==
    ASSUME TypeOK, SwapOnlyIfLaunched, Owing, Coherent, Process
    PROVE  Shown'
<1> SUFFICES ASSUME Waiting' PROVE Shown'
    BY ShownCases
<1>1. CASE MeetData \/ ParseFinished
    BY <1>1, ShownCases DEF MeetData, ParseFinished, control, Waiting
<1>2. CASE PluginMismatch \/ \E ui \in UiTypes : FinalizeSilently(ui) \/ FinalizeMismatch(ui)
    BY <1>2, ShownCases DEF PluginMismatch, FinalizeSilently, FinalizeMismatch,
       SwapOnlyIfLaunched, Waiting
<1>3. CASE ParseProcessing \/ ParseFault
    <2>1. Attended /\ phase # "WAIT" /\ IdleIfCallback
        BY <1>3 DEF ParseProcessing, ParseFault, Wait, Waiting, Attended, host
    <2>2. inCallback \/ screen \notin ConsentScreens
        BY <2>1, Zenon DEF Owing
    <2>3. screen' \notin ConsentScreens
        BY <2>1, <2>2 DEF IdleIfCallback
    <2> QED
        BY <2>3, ShownCases
<1>4. CASE ParseSuspended
    BY <1>4 DEF ParseSuspended, Shown, SignsWhatIsShown, ConsentFollowsSettings, storage
<1>5. CASE FinalizeError
    BY <1>5, ShownCases DEF FinalizeError, ShowIdle
<1>6. CASE \E ui \in UiTypes : FinalizeAsk(ui)
    BY <1>6, ShownAsk
<1> QED
    BY <1>1, <1>2, <1>3, <1>4, <1>5, <1>6 DEF Process

\* The buttons put up no consent screen, and change no setting under one.
LEMMA ShownUser ==
    ASSUME User \/ IoReset \/ IoResetAfterSignature \/ IoResetInLibrary
    PROVE  Shown'
<1>1. CASE \/ TxOk \/ TxCancel \/ SignMessageOk \/ SignMessageCancel
           \/ AddressOk \/ AddressCancel \/ DataCancel
    BY <1>1, ShownCases DEF TxOk, TxCancel, SignMessageOk, SignMessageCancel, AddressOk,
       AddressCancel, DataCancel, Conclude, ShowIdle
<1>2. CASE DataOk
    BY <1>2, ShownCases DEF DataOk, Parse, Waiting
<1>3. CASE SwitchSetting
    BY <1>3, ShownCases DEF SwitchSetting, Press, ux
<1>4. CASE IoReset \/ IoResetAfterSignature
    BY <1>4, ShownCases DEF IoReset, IoResetAfterSignature, Restart, ShowIdle
<1>5. CASE IoResetInLibrary
    BY <1>5, ShownCases DEF IoResetInLibrary, Waiting
<1> QED
    BY <1>1, <1>2, <1>3, <1>4, <1>5 DEF User

\* Every step keeps the display and the digest together.
LEMMA ShownStep ==
    ASSUME AppAssumption, TypeOK, TypeOK', SwapOnlyIfLaunched, Owing, Coherent, Shown,
           [Next]_vars
    PROVE  Shown'
<1>1. CASE UNCHANGED vars
    <2>1. UNCHANGED <<running, phase, screen, strings, request, orderly, hash, path,
                      dataPresent, dataAllowed, contractDetails>>
        BY <1>1 DEF vars, control, ux, host, session, tmpCtx, dataContext, storage
    <2> QED
        BY <2>1 DEF Shown, SignsWhatIsShown, ConsentFollowsSettings, Waiting, BeginningOf,
           PiecesOf
<1> QED
    BY <1>1, ShownCommand, ShownProcess, ShownUser DEF Next

-----------------------------------------------------------------------------
(* The approval given in the exchange application.                         *)

\* The ways to satisfy ShownInExchange.
LEMMA ExchangeCases ==
    /\ strings' \in {<<ApprovedShown>>, <<ContractData>>, <<>>} => ShownInExchange'
    /\ phase' = "WAIT" /\ screen' \in ConsentScreens \ {"DATA"} => ShownInExchange'
    /\ ~Attended' \/ ~calledFromSwap' => ShownInExchange'
BY DEF ShownInExchange

\* A command leaves the strings alone or puts up a screen that asks.
LEMMA ExchangeCommand ==
    ASSUME Owing, ShownInExchange, Command
    PROVE  ShownInExchange'
<1> SUFFICES ASSUME Attended', calledFromSwap' PROVE ShownInExchange'
    BY ExchangeCases
<1>1. calledFromSwap
    BY SwapNotEntered DEF Next
<1>2. ASSUME NEW inOrder, Receive(inOrder), UNCHANGED ux
      PROVE  ShownInExchange'
    <2>1. Attended /\ screen \notin ConsentScreens
        BY <1>2, OrderlyCommand
    <2> QED
        BY <1>1, <1>2, <2>1, ExchangeCases DEF ShownInExchange, ux
<1>3. ASSUME NEW inOrder, Receive(inOrder), UNCHANGED control, screen' \in {"ADDRESS", "MESSAGE"}
      PROVE  ShownInExchange'
    BY <1>3, ExchangeCases DEF Receive, control
<1>4. CASE \E p \in Paths, confirm, chaincode \in BOOLEAN : GetPublicKey(p, confirm, chaincode)
    BY <1>2, <1>3, <1>4 DEF GetPublicKey
<1>5. CASE \/ \E m \in Messages, p \in Paths, announced, n \in 0..Pieces :
                  MessageFirst(m, p, announced, n)
           \/ \E m \in Messages, n \in 0..Pieces : MessageMore(m, n)
    BY <1>2, <1>3, <1>5 DEF MessageFirst, MessageMore, TakePieces
<1>6. CASE ~(\E p \in Paths, confirm, chaincode \in BOOLEAN : GetPublicKey(p, confirm, chaincode))
           /\ ~(\E m \in Messages, p \in Paths, announced, n \in 0..Pieces :
                    MessageFirst(m, p, announced, n))
           /\ ~(\E m \in Messages, n \in 0..Pieces : MessageMore(m, n))
    BY <1>2, <1>6 DEF Command, RefuseCommand, GetAppConfiguration, SetExternalPlugin,
       ProvideToken, SignFirst, RefuseType, SignMore, RefuseMore, RefuseMessageMore, ux
<1> QED
    BY <1>4, <1>5, <1>6

\* The parser displays pieces of data; whatever ends a transaction ends the
\* swap mode with it.
LEMMA ExchangeProcess ==
    ASSUME SwapOnlyIfLaunched, ShownInExchange, Process
    PROVE  ShownInExchange'
<1> SUFFICES ASSUME Attended', calledFromSwap' PROVE ShownInExchange'
    BY ExchangeCases
<1>1. calledFromSwap
    BY SwapNotEntered DEF Next
<1>2. CASE PluginMismatch \/ ParseFault \/ FinalizeError
           \/ \E ui \in UiTypes : FinalizeAsk(ui) \/ FinalizeSilently(ui) \/ FinalizeMismatch(ui)
    BY <1>1, <1>2 DEF PluginMismatch, ParseFault, FinalizeError, FinalizeAsk, FinalizeSilently,
       FinalizeMismatch, ResetAppContext, Attended
<1>3. CASE MeetData \/ ParseProcessing \/ ParseFinished
    <2>1. running' = running /\ orderly' = orderly /\ phase # "WAIT" /\ strings' \in {strings, <<>>}
        BY <1>3 DEF MeetData, ParseProcessing, ParseFinished, Wait, IdleIfCallback, control, host, ux
    <2>2. Attended
        BY <2>1, AttendedBefore DEF Attended
    <2> QED
        BY <1>1, <2>1, <2>2, ExchangeCases DEF ShownInExchange
<1>4. CASE ParseSuspended
    BY <1>4, ExchangeCases DEF ParseSuspended
<1> QED
    BY <1>2, <1>3, <1>4 DEF Process

\* A button that answers ends the swap mode; the others leave no string of the
\* host behind.
LEMMA ExchangeUser ==
    ASSUME ShownInExchange, User \/ IoReset \/ IoResetAfterSignature \/ IoResetInLibrary
    PROVE  ShownInExchange'
<1> SUFFICES ASSUME Attended', calledFromSwap' PROVE ShownInExchange'
    BY ExchangeCases
<1>1. calledFromSwap
    BY SwapNotEntered DEF Next
<1>2. CASE \/ TxOk \/ TxCancel \/ SignMessageOk \/ SignMessageCancel
           \/ AddressOk \/ AddressCancel \/ DataCancel
    BY <1>2 DEF TxOk, TxCancel, SignMessageOk, SignMessageCancel, AddressOk, AddressCancel,
       DataCancel, Conclude, ResetAppContext
<1>3. CASE DataOk \/ SwitchSetting
    <2>1. /\ running' = running /\ orderly' = orderly /\ strings' = strings
          /\ screen \in {"DATA", "IDLE"}
        BY <1>3 DEF DataOk, SwitchSetting, Parse, Press, control, host, ux
    <2>2. Attended
        BY <1>3, <2>1, AttendedBefore DEF Attended, User
    <2> QED
        BY <1>1, <2>1, <2>2, ExchangeCases DEF ShownInExchange
<1>4. CASE IoReset \/ IoResetAfterSignature
    BY <1>4, ExchangeCases DEF IoReset, IoResetAfterSignature, Restart, ShowIdle
<1>5. CASE IoResetInLibrary
    BY <1>5 DEF IoResetInLibrary, Attended
<1> QED
    BY <1>2, <1>3, <1>4, <1>5 DEF User

\* Every step keeps what was shown in the exchange application apart.
LEMMA ExchangeStep ==
    ASSUME SwapOnlyIfLaunched, Owing, ShownInExchange, [Next]_vars
    PROVE  ShownInExchange'
<1>1. UNCHANGED vars => ShownInExchange'
    BY DEF ShownInExchange, Attended, vars, control, session, ux, host
<1> QED
    BY <1>1, ExchangeCommand, ExchangeProcess, ExchangeUser DEF Next

\* What finalizeParsing finds after an orderly host: at least one piece, and
\* pieces of nothing but what the host asked to sign.
LEMMA ContentOf ==
    ASSUME AppAssumption, TypeOK, TxCoherent
    PROVE  tmpContent # <<>> /\ Received = {request.payload}
<1>1. tmpContent \in Seq(PayloadPiece)
    BY TypeGroups DEF SessionType
<1>2. Len(tmpContent) \in Nat /\ DOMAIN tmpContent = 1 .. Len(tmpContent)
    BY <1>1, LenProperties
<1>3. Len(tmpContent) # 0
    BY <1>2 DEF TxCoherent
<1>4. tmpContent = PiecesOf(request.payload, 0, Len(tmpContent))
    BY Zenon DEF TxCoherent, BeginningOf
<1>5. \A i \in DOMAIN tmpContent : tmpContent[i] = Piece(request.payload, 0 + i)
    BY <1>2, <1>4, Zenon DEF PiecesOf
<1>6. \A i \in DOMAIN tmpContent : tmpContent[i][1] = request.payload
    BY <1>5 DEF Piece
<1>7. 1 \in DOMAIN tmpContent
    BY <1>2, <1>3
<1> QED
    BY <1>3, <1>6, <1>7 DEF Received

-----------------------------------------------------------------------------
(* All together.                                                           *)

\* IInv is inductive, so it holds in every reachable state: the sessions, the
\* replies and the consent screens keep consistent whatever happens.
THEOREM Invariance == Spec => []IInv
<1>1. Init => IInv
    <2> SUFFICES ASSUME Init PROVE IInv
        OBVIOUS
    <2>1. TypeOK
        BY TypeInit, AppAssumption
    <2>2. CleanWhenIdle /\ SlotsInTurn /\ ErrorEndsSwap /\ SwapOnlyIfLaunched
        BY DEF Init, CleanWhenIdle, SlotsInTurn, ErrorEndsSwap, SwapOnlyIfLaunched
    <2>3. Owing /\ Coherent
        BY DEF Init, Owing, Coherent, Attended
    <2>4. SignsWhatIsShown /\ ConsentFollowsSettings
        BY DEF Init, SignsWhatIsShown, ConsentFollowsSettings, Waiting
    <2>5. ShownInExchange
        BY DEF Init, ShownInExchange
    <2> QED
        BY <2>1, <2>2, <2>3, <2>4, <2>5 DEF IInv
<1>2. IInv /\ [Next]_vars => IInv'
    <2> SUFFICES ASSUME IInv, [Next]_vars PROVE IInv'
        OBVIOUS
    <2>1. TypeOK'
        BY TypeStep, AppAssumption DEF IInv
    <2>2. CleanWhenIdle' /\ ErrorEndsSwap' /\ SwapOnlyIfLaunched' /\ Owing'
        BY CleanStep, SwapStep, LaunchStep, OwingStep DEF IInv
    <2>3. SlotsInTurn' /\ Coherent'
        BY SlotsStep, CoherentStep, AppAssumption DEF IInv
    <2>4. SignsWhatIsShown' /\ ConsentFollowsSettings'
        BY <2>1, ShownStep, AppAssumption DEF IInv, Shown
    <2>5. ShownInExchange'
        BY ExchangeStep DEF IInv
    <2> QED
        BY <2>1, <2>2, <2>3, <2>4, <2>5 DEF IInv
<1> QED
    BY <1>1, <1>2, PTL DEF Spec

\* A button signs what the host asked for and the screen displays, with the key
\* it asked for, and nothing that another session left in the shared buffers.
THEOREM SignedAsShown == Spec => []SignsWhatIsShown
<1>1. IInv => SignsWhatIsShown
    BY DEF IInv
<1> QED
    BY <1>1, Invariance, PTL

\* Contract data is offered for signature only with the setting on when the
\* transaction is shown, whatever was switched while it was being received.
THEOREM DataOnlyIfAllowed == Spec => []ConsentFollowsSettings
<1>1. IInv => ConsentFollowsSettings
    BY DEF IInv
<1> QED
    BY <1>1, Invariance, PTL

\* Started by the exchange application, with an orderly host, a transaction is
\* signed without a screen only if its address, its amount and its fee begin as
\* the texts that were approved there (a creation has no address), or if a plugin
\* has screens of its own; what is signed is what the host asked for, with the
\* key that was asked for.
THEOREM SilentlyAsApproved == Spec => SilentOnlyIfApproved
<1> DEFINE SameBeginning(texts) ==
        /\ \/ request.payload \in Creations
           \/ IsPrefix(ApprovedTexts.address, texts.address)
        /\ IsPrefix(ApprovedTexts.amount, texts.amount)
        /\ IsPrefix(ApprovedTexts.fee, texts.fee)
<1>1. ASSUME IInv, [Next]_vars, running, ~running', reply' # reply, orderly
      PROVE  /\ path = request.path
             /\ hash' # <<>> /\ BeginningOf(hash', request.payload)
             /\ \/ silentUi' = "GENERIC"
                \/ \E texts \in ParsedTexts(request.payload, silentUi') :
                      SameBeginning(texts)
    <2>1. PICK ui \in UiTypes : FinalizeSilently(ui)
        <3>1. Command => running' = running
            BY <1>1 DEF Command, RefuseCommand, GetAppConfiguration, SetExternalPlugin,
               ProvideToken, GetPublicKey, SignFirst, RefuseType, SignMore, RefuseMore,
               MessageFirst, MessageMore, RefuseMessageMore, Parse, control
        <3>2. User \/ IoReset \/ IoResetAfterSignature => running' = running
            BY DEF User, TxOk, TxCancel, SignMessageOk, SignMessageCancel, AddressOk,
               AddressCancel, DataOk, DataCancel, SwitchSetting, Conclude, Parse, IoReset,
               IoResetAfterSignature, Restart, control
        <3>3. Process => running' = running \/ reply' = reply
                             \/ \E ui \in UiTypes : FinalizeSilently(ui)
            BY DEF Process, MeetData, PluginMismatch, ParseProcessing, ParseFault,
               ParseSuspended, ParseFinished, FinalizeError, FinalizeAsk, FinalizeMismatch,
               Wait, control
        <3>4. IoResetInLibrary \/ UNCHANGED vars => reply' = reply
            BY DEF IoResetInLibrary, vars
        <3> QED
            BY <1>1, <3>1, <3>2, <3>3, <3>4 DEF Next
    <2>2. /\ phase = "FINALIZE" /\ calledFromSwap /\ hash' = sha3 /\ silentUi' = ui
          /\ GenericUI(ui) =>
                \E t \in Received : \E texts \in ParsedTexts(t, ui) : AsApproved(t, texts)
        BY <2>1 DEF FinalizeSilently, StoreHash
    <2>3. Attended
        BY <1>1, <2>2 DEF Attended
    <2>4. TxCoherent
        BY <1>1, <2>2, <2>3 DEF IInv, Coherent
    <2>5. strings \in {<<ApprovedShown>>, <<ContractData>>, <<>>}
        BY <1>1, <2>2, <2>3 DEF IInv, ShownInExchange
    <2>6. tmpContent # <<>> /\ Received = {request.payload}
        BY <1>1, <2>4, ContentOf, AppAssumption DEF IInv
    <2>7. path = request.path /\ hash' = tmpContent
          /\ BeginningOf(tmpContent, request.payload)
        BY <2>2, <2>4 DEF TxCoherent
    <2>8. hash' # <<>> /\ BeginningOf(hash', request.payload)
        BY <2>6, <2>7, Zenon DEF BeginningOf
    <2>9. ASSUME ui # "GENERIC"
          PROVE  \E texts \in ParsedTexts(request.payload, silentUi') : SameBeginning(texts)
        <3>1. PICK texts \in ParsedTexts(request.payload, ui) :
                       AsApproved(request.payload, texts)
            BY <2>2, <2>6, <2>9 DEF GenericUI
        <3>2. \A p \in Paths : strings # <<Address(p)>>
            BY <2>5 DEF Address, ApprovedShown, ContractData
        <3>3. SameBeginning(texts)
            BY <3>1, <3>2, Zenon DEF AsApproved, AddressAsApproved
        <3> QED
            BY <2>2, <3>1, <3>3
    <2> QED
        BY <2>2, <2>7, <2>8, <2>9
<1>2. IInv /\ [Next]_vars =>
          [running /\ ~running' /\ reply' # reply /\ orderly =>
              /\ path = request.path
              /\ hash' # <<>> /\ BeginningOf(hash', request.payload)
              /\ \/ silentUi' = "GENERIC"
                 \/ \E texts \in ParsedTexts(request.payload, silentUi') :
                       SameBeginning(texts)]_vars
    BY <1>1, Zenon
<1> QED
    BY <1>2, Invariance, PTL DEF Spec, SilentOnlyIfApproved
=============================================================================
