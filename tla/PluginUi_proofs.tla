--------------------------- MODULE PluginUi_proofs ---------------------------
(***************************************************************************)
(* Proofs about the screens of a plugin, for any numbers of items and any  *)
(* number of steps back.                                                   *)
(***************************************************************************)
EXTENDS PluginUi, TLAPS

\* The step on display and the counters belong together.
Where ==
    /\ pluginUiState = "INSIDE" <=> step = "DISPLAY"
    /\ step \in {"INTRO", "ID"} => pluginUiCurrentItem = 0
    /\ step \in {"FEES", "OK", "CANCEL"} => LastItem

\* What the user must have passed to be where they are.
Passed ==
    /\ step # "INTRO" => Text("ID") \in seen
    /\ step \in {"DISPLAY", "FEES", "OK", "CANCEL"} =>
            \A i \in 0..pluginUiCurrentItem : Item(i) \in seen
    /\ step \in {"FEES", "OK", "CANCEL"} => Text("FEES") \in seen

IInv ==
    /\ TypeOK
    /\ pluginUiMaxItems \in Items
    /\ WithinItems
    /\ ItemOnDisplay
    /\ Where
    /\ Passed
    /\ AllSeenBeforeAccept

-----------------------------------------------------------------------------

\* The flow starts in the invariant.
LEMMA InitInv == Init => IInv
BY UiAssumption, SMT
DEF Init, IInv, TypeOK, Items, WithinItems, ItemOnDisplay, Where, Passed,
    AllSeenBeforeAccept, LastItem, Item, Text

\* The steps among the items keep it: display_next_plugin_item, both ways.
LEMMA ItemsInv ==
    ASSUME IInv, UNCHANGED <<fixed, reply>>, lefts' \in 0..MaxLefts,
           \/ step = "ID" /\ Before
           \/ step = "DISPLAY" /\ (Before \/ After)
           \/ step = "FEES" /\ After
    PROVE  IInv'
<1> USE DEF IInv, TypeOK, Items, fixed, Show, counters, strings
<1>1. CASE step = "ID" /\ Enter
  BY <1>1 DEF Enter, GetItem, WithinItems, ItemOnDisplay, Where, Passed,
              AllSeenBeforeAccept, LastItem, Item, Text
<1>2. CASE step = "DISPLAY" /\ FormerItem
  BY <1>2 DEF FormerItem, GetItem, WithinItems, ItemOnDisplay, Where, Passed,
              AllSeenBeforeAccept, LastItem, Item, Text
<1>3. CASE step = "DISPLAY" /\ LeaveLeft
  BY <1>3 DEF LeaveLeft, ShowId, WithinItems, ItemOnDisplay, Where, Passed,
              AllSeenBeforeAccept, LastItem, Item, Text
<1>4. CASE step = "FEES" /\ Reenter
  BY <1>4 DEF Reenter, GetItem, WithinItems, ItemOnDisplay, Where, Passed,
              AllSeenBeforeAccept, LastItem, Item, Text
<1>5. CASE step = "DISPLAY" /\ NextItem
  BY <1>5 DEF NextItem, GetItem, WithinItems, ItemOnDisplay, Where, Passed,
              AllSeenBeforeAccept, LastItem, Item, Text
<1>6. CASE step = "DISPLAY" /\ LeaveRight
  BY <1>6 DEF LeaveRight, ShowFees, WithinItems, ItemOnDisplay, Where, Passed,
              AllSeenBeforeAccept, LastItem, Item, Text
<1> QED
  BY <1>1, <1>2, <1>3, <1>4, <1>5, <1>6
  DEF Before, After, Enter, FormerItem, LeaveLeft, Reenter, NextItem,
      LeaveRight, Where

\* The steps outside of the items keep it.
LEMMA OutsideInv ==
    ASSUME IInv, UNCHANGED <<fixed, reply, counters>>, lefts' \in 0..MaxLefts,
           \/ step = "INTRO" /\ ShowId
           \/ step = "OK" /\ ShowFees
           \/ Goto("FEES", "OK") \/ Goto("OK", "CANCEL")
           \/ Goto("ID", "INTRO") \/ Goto("CANCEL", "OK")
    PROVE  IInv'
BY DEF IInv, TypeOK, Items, fixed, counters, strings, Show, ShowId, ShowFees, Goto,
       WithinItems, ItemOnDisplay, Where, Passed, AllSeenBeforeAccept, LastItem,
       Item, Text

\* Accepting is possible only where everything has been passed.
LEMMA ValidateInv == IInv /\ Validate => IInv'
BY DEF IInv, TypeOK, Items, fixed, counters, strings, Validate, WithinItems,
       ItemOnDisplay, Where, Passed, AllSeenBeforeAccept, LastItem, Item, Text

\* A step that changes nothing.
LEMMA StutterInv == IInv /\ UNCHANGED vars => IInv'
BY DEF IInv, TypeOK, Items, vars, fixed, counters, strings, WithinItems,
       ItemOnDisplay, Where, Passed, AllSeenBeforeAccept, LastItem, Item, Text

\* The inductive invariant: what is on display, what was passed and where the
\* counters are, for every number of items (display_next_plugin_item).
THEOREM Invariance == Spec => []IInv
<1>1. Init => IInv
  BY InitInv
<1>2. IInv /\ [Next]_vars => IInv'
  <2> SUFFICES ASSUME IInv, [Next]_vars PROVE IInv'
    OBVIOUS
  <2>1. CASE Right
    <3>1. UNCHANGED <<fixed, reply>> /\ lefts' \in 0..MaxLefts
      BY <2>1 DEF Right, IInv, TypeOK
    <3>2. CASE (step = "ID" /\ Before) \/ (step = "DISPLAY" /\ After)
      BY <3>1, <3>2, ItemsInv
    <3>3. CASE \/ step = "INTRO" /\ ShowId /\ UNCHANGED counters
               \/ Goto("FEES", "OK") \/ Goto("OK", "CANCEL")
      <4>1. UNCHANGED <<fixed, reply, counters>>
        BY <3>1, <3>3 DEF Goto
      <4> QED
        BY <3>1, <3>3, <4>1, OutsideInv
    <3>4. \/ (step = "ID" /\ Before) \/ (step = "DISPLAY" /\ After)
          \/ step = "INTRO" /\ ShowId /\ UNCHANGED counters
          \/ Goto("FEES", "OK") \/ Goto("OK", "CANCEL")
      BY <2>1 DEF Right
    <3> QED
      BY <3>2, <3>3, <3>4
  <2>2. CASE Left
    <3>1. UNCHANGED <<fixed, reply>> /\ lefts' \in 0..MaxLefts
      BY <2>2, UiAssumption DEF Left, IInv, TypeOK
    <3>2. CASE (step = "DISPLAY" /\ Before) \/ (step = "FEES" /\ After)
      BY <3>1, <3>2, ItemsInv
    <3>3. CASE \/ step = "OK" /\ ShowFees /\ UNCHANGED counters
               \/ Goto("ID", "INTRO") \/ Goto("CANCEL", "OK")
      <4>1. UNCHANGED <<fixed, reply, counters>>
        BY <3>1, <3>3 DEF Goto
      <4> QED
        BY <3>1, <3>3, <4>1, OutsideInv
    <3>4. \/ (step = "DISPLAY" /\ Before) \/ (step = "FEES" /\ After)
          \/ step = "OK" /\ ShowFees /\ UNCHANGED counters
          \/ Goto("ID", "INTRO") \/ Goto("CANCEL", "OK")
      BY <2>2 DEF Left
    <3> QED
      BY <3>2, <3>3, <3>4
  <2>3. CASE Validate
    BY <2>3, ValidateInv
  <2>4. CASE UNCHANGED vars
    BY <2>4, StutterInv
  <2> QED
    BY <2>1, <2>2, <2>3, <2>4 DEF Next
<1> QED
  BY <1>1, <1>2, PTL DEF Spec

\* The item is a byte that never leaves its range, forwards or backwards.
THEOREM TypeCorrect == Spec => []TypeOK
BY Invariance, PTL DEF IInv

\* The plugin is never asked for an item beyond its last.
THEOREM ItemsInRange == Spec => []WithinItems
BY Invariance, PTL DEF IInv

\* The texts on display are those of the current item, if the plugin knows it.
THEOREM RightItemOnDisplay == Spec => []ItemOnDisplay
BY Invariance, PTL DEF IInv

\* Nothing is accepted that was not on the screen.
THEOREM NothingAcceptedUnseen == Spec => []AllSeenBeforeAccept
BY Invariance, PTL DEF IInv

\* From the fees the user gets back to the last item.
THEOREM BackToTheLast == Spec => BackToLast
<1>1. IInv /\ [Next]_vars => [step = "FEES" /\ step' = "DISPLAY" => LastItem']_vars
  BY DEF IInv, Where, Next, Right, Left, Validate, Before, After, Enter, FormerItem,
         LeaveLeft, Reenter, NextItem, LeaveRight, ShowId, ShowFees, Show, Goto,
         LastItem, fixed, counters, vars
<1> QED
  BY <1>1, Invariance, PTL DEF Spec, BackToLast
=============================================================================
