------------------------------ MODULE MCLatApp ------------------------------
(***************************************************************************)
(* TLC instances of LatApp.  The payloads, paths and tokens are only       *)
(* compared with each other, so they are interchangeable; so are the texts *)
(* of the keys.                                                            *)
(***************************************************************************)
EXTENDS LatApp, TLC

CONSTANTS t1, t2, t3, m1, p1, p2, k1, k2

Symmetry == Permutations(Paths) \cup Permutations(Tokens)

MCApproved == [address |-> <<1, 2>>, amount |-> <<5>>, fee |-> <<7>>]

\* What goes on behind the approved amount, the same for a creation, and another
\* address with the approved amount.
MCTextsOf ==
    [t \in Transactions |->
        CASE t = t1 -> [MCApproved EXCEPT !.amount = <<5, 0>>]
          [] t = t2 -> [MCApproved EXCEPT !.address = <<>>]
          [] t = t3 -> [MCApproved EXCEPT !.address = <<1, 3>>]]

\* A plugin turns the third into what was approved, the first into a smaller
\* amount for one address and the same for another.
MCPluginTexts ==
    [t \in Transactions |->
        CASE t = t1 -> {[MCApproved EXCEPT !.amount = <<4>>],
                        [MCApproved EXCEPT !.address = <<2>>]}
          [] t = t2 -> {}
          [] t = t3 -> {MCApproved}]

MCKeyText == [p \in Paths |-> <<1, 3>>]
=============================================================================
