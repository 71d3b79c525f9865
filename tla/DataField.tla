----------------------------- MODULE DataField -----------------------------
(***************************************************************************)
(* What the parser relies on when it hands the data field to a custom      *)
(* processor (processTxInternal, latUstream.c:460-495): a call takes some  *)
(* bytes of the field and of the block and no others, it never returns     *)
(* "handled" without having taken one (the parser would call it for ever), *)
(* and it suspends the parser only when it has taken some.  TxStream makes *)
(* the same assumption in CustomHandled and CustomFault.                   *)
(***************************************************************************)
EXTENDS Integers

VARIABLES
    fieldLength, fieldPos,
    left,     \* of the block
    outcome   \* "NONE", "PROCESSING", "RUN", "SUSPENDED", "DONE" or "FAULT"

vars == <<fieldLength, fieldPos, left, outcome>>

Takeable == IF left < fieldLength - fieldPos THEN left ELSE fieldLength - fieldPos

\* The parser's loop after n bytes were taken.
Afterwards(n) ==
    IF fieldPos + n = fieldLength THEN "DONE" ELSE IF left = n THEN "PROCESSING" ELSE "RUN"

Init ==
    /\ fieldLength = 0
    /\ fieldPos = 0
    /\ left = 0
    /\ outcome = "NONE"

\* A field starts; whatever was in progress is abandoned.
Start ==
    /\ fieldLength' \in Nat
    /\ fieldPos' = 0
    /\ left' = 0
    /\ outcome' = IF fieldLength' = 0 THEN "DONE" ELSE "PROCESSING"

\* A block, or the part of it from the field on: none if it ends there.
Deliver ==
    /\ outcome = "PROCESSING"
    /\ left' \in Nat
    /\ left' = 0 => fieldPos = 0
    /\ outcome' = "RUN"
    /\ UNCHANGED <<fieldLength, fieldPos>>

Take(n) ==
    /\ outcome = "RUN"
    /\ fieldPos' = fieldPos + n
    /\ left' = left - n
    /\ UNCHANGED fieldLength

Handled == \E n \in 1..Takeable : Take(n) /\ outcome' = Afterwards(n)

Suspended == \E n \in 1..Takeable : Take(n) /\ outcome' = "SUSPENDED"

\* Left to the parser, which takes all it can.
NotHandled == Take(Takeable) /\ outcome' = Afterwards(Takeable)

\* The user confirms what is displayed, and the loop goes on.
Resume ==
    /\ outcome = "SUSPENDED"
    /\ outcome' = Afterwards(0)
    /\ UNCHANGED <<fieldLength, fieldPos, left>>

\* Some bytes may have been taken.
Fault == \E n \in 0..Takeable : Take(n) /\ outcome' = "FAULT"

\* Refused, signed or rejected: the field is over.
Leave ==
    /\ outcome' = "NONE"
    /\ UNCHANGED <<fieldLength, fieldPos, left>>

Next ==
    \/ Start \/ Deliver \/ Handled \/ Suspended \/ NotHandled
    \/ Resume \/ Fault \/ Leave

Spec == Init /\ [][Next]_vars
=============================================================================
