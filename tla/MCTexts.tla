------------------------------- MODULE MCTexts -------------------------------
(***************************************************************************)
(* TLC instance of TextCalls.                                              *)
(***************************************************************************)
EXTENDS TextCalls

\* In a buffer of 8 with a ticker of 2 up to 3 digits fit, or 2 decimals.  Of the
\* nonces 100 is the first that needs the place of the null byte, and the
\* last but one has no room for its null byte in displayBuffer, the last not even
\* for its digits.  16 has a bit too many for an identifier.
MCValues == {0, 1, 5, 10, 99, 100, 105, 150, 999, 1000, 1234, 20000, 123456}
MCNonces == {0, 7, 10, 99, 100, 1230, 12345678, 123456789}

\* In printable_amount 3 digits fit behind "LAT ", in fullAmount 4.  Of the two
\* addresses one is also given in upper case, marked, too long, cut, and not at
\* all.  They end with a digit, which stays behind "LAT " when an amount has no
\* room; of a creation the stack leaves "LAT 1" of an earlier one.
MCAmounts == {0, 1, 10, 12, 100, 123, 1200, 12345, 1234567}
MCConfigs ==
    [length : {0, 2, 3, 4}, ticker : {<<Coin>>}, decimals : {2}]
    \cup [length : {1, 3, 5}, ticker : {<<>>, <<13>>, <<Coin, Coin, Coin>>},
          decimals : {0, 2}]
MCAddresses == {<<51, 52, 1>>, <<51, 53, 1>>}
MCSpellings ==
    {<<51, 52, 1>>, <<19, 20, 1>>, <<51, 53, 1>>, <<0, 62, 51, 52, 1>>, <<51, 52, 1, 54>>,
     <<51>>, <<>>}
MCStacks == {<<>>, <<Coin, Space, 1>>, <<70, 70, 70>>}
MCDerived == [account \in 1..2 |-> <<51, 51 + account, 1>>]

\* With 6 decimals and a room of 10 an amount just has no place.  An address is
\* as much longer than the message as "0xlat1..." is.
MCAllowances == {0, 1, 20, 100, 5000, 40000, 65534, 65535}
MCTokens ==
    [one |-> [ticker |-> <<60, 11>>, decimals |-> 2],
     two |-> [ticker |-> <<61, 11>>, decimals |-> 0],
     long |-> [ticker |-> <<62, 63, 11>>, decimals |-> 6]]
MCDestinations == << <<64, 64, 64, 64, 64>>, <<64, 65, 66, 67, 68>> >>

\* The laws of powers that the proofs take for granted.
ASSUME PowersAssumption == \A j, k \in 0..4 : PowersMultiply(10, j, k)
=============================================================================
