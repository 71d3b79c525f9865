----------------------------- MODULE MCTxStream -----------------------------
(***************************************************************************)
(* TLC instance of TxStream.  The buffers are scaled down (two bytes for   *)
(* an integer, two for an address, one for v), so transactions of about    *)
(* fifteen bytes fill and overfill them.  Each transaction varies one      *)
(* thing: the width of a field, its kind, the header, the end.             *)
(***************************************************************************)
EXTENDS TxStream, SequencesExt

Str(payload) == <<128 + Len(payload)>> \o payload
LongStr(payload) == <<184, Len(payload)>> \o payload
Lst(payload) == <<192 + Len(payload)>> \o payload
LongLst(payload) == <<249, 0, Len(payload)>> \o payload

Pair == Str(<<11, 200>>)   \* fills an integer
Triple == Str(<<1, 2, 3>>) \* overfills it
Single == <<7>>            \* self-encoded
Zero == Str(<<>>)

\* The fields before DATA, and after it.
UpToValue(nonce, gasprice, to) == nonce \o gasprice \o Single \o to \o Single
Tail155 == Single \o Zero \o Zero

Selector == Str(<<169, 5, 156, 187>>)

LegacyTransactions ==
    { Lst(UpToValue(Single, Pair, Pair) \o Zero \o Tail155),
      Lst(UpToValue(Pair, Single, Pair) \o Single \o Tail155),
      LongLst(UpToValue(Zero, Pair, Pair) \o Selector \o Tail155),
      \* a contract creation
      Lst(UpToValue(Single, Pair, Zero) \o Selector \o Tail155),
      \* no v, r, s
      Lst(UpToValue(Single, Pair, Pair) \o Str(<<1, 2>>)),
      \* bytes after the list
      Lst(UpToValue(Single, Single, Single) \o Zero \o Tail155) \o <<0, 1>>,
      \* lengths written on more bytes than needed
      <<248, 14>> \o LongStr(<<5>>) \o LongStr(<<6, 7>>) \o <<185, 0, 1, 9>>
          \o <<187, 0, 0, 0, 0>>,
      <<248, 30>> \o UpToValue(Single, LongStr(<<6, 7>>), Pair) \o <<186, 0, 0, 2, 1, 1>>
          \o Tail155 }

EIP2930Transactions ==
    { <<1>> \o Lst(Pair \o UpToValue(Single, Pair, Pair) \o Zero \o Lst(<<>>) \o Tail155),
      <<1>> \o Lst(Single \o UpToValue(Zero, Single, Pair) \o Selector \o Lst(<<1, 2>>)
                     \o Tail155),
      <<1>> \o Lst(Single \o UpToValue(Zero, Single, Pair) \o Zero \o Lst(<<>>)) }

MalformedTransactions ==
    { \* not a list
      Str(<<1, 2>>),
      \* headers of more than 32 bits of length
      Lst(<<189, 0, 0, 0, 0, 0, 1>>), <<252, 0, 0, 0, 0, 0, 0>>,
      \* fields too long
      Lst(Triple), Lst(UpToValue(Single, Triple, Pair)), Lst(UpToValue(Single, Pair, Triple)),
      Lst(UpToValue(Single, Pair, Pair) \o Zero \o Pair \o Zero \o Zero),
      <<1>> \o Lst(Triple),
      \* lists for strings, a string for a list
      Lst(Lst(<<>>)), Lst(UpToValue(Single, Pair, Lst(<<1>>))),
      Lst(UpToValue(Single, Pair, Pair) \o Lst(<<1>>) \o Tail155),
      Lst(UpToValue(Single, Pair, Pair) \o Lst(<<1, 2, 3, 4>>) \o Tail155),
      <<1>> \o Lst(Single \o UpToValue(Zero, Single, Pair) \o Zero \o Zero \o Tail155),
      \* cut short
      Lst(UpToValue(Single, Pair, Pair) \o Selector), Lst(<<130, 1>>) }

MCTransactions == LegacyTransactions \cup EIP2930Transactions \cup MalformedTransactions
=============================================================================
