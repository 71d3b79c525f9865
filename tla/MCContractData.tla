--------------------------- MODULE MCContractData ---------------------------
(***************************************************************************)
(* TLC instance of ContractData: selectors of two bytes, words of two too. *)
(* The lengths are those at the boundaries: no data, less than a selector, *)
(* a selector alone, one to four words, a word cut short.                  *)
(***************************************************************************)
EXTENDS ContractData

Call(selector, length) ==
    [selector |-> selector, length |-> length, creation |-> FALSE, valueZero |-> TRUE]

MCTransactions ==
    {Call("TRANSFER", n) : n \in {2, 6, 8}} \cup {Call("APPROVE", 6)}
    \cup {Call("OTHER", n) : n \in {0, 1, 7, 10}}
    \cup {[Call("TRANSFER", 4) EXCEPT !.valueZero = FALSE], [Call("OTHER", 4) EXCEPT !.creation = TRUE]}
=============================================================================
