------------------------------ MODULE PluginUi ------------------------------
(***************************************************************************)
(* The screens of a plugin (lat_plugin_ui.c).  One step of the flow stands *)
(* for all the items of the plugin: the invisible steps before and after   *)
(* it fill the strings with the next or the former item and go back to it, *)
(* or leave.  strings.common.maxFee, which the fees are written to, lies   *)
(* over strings.tmp, which holds the item.  ux_flow_next and ux_flow_prev  *)
(* are the SDK's: the neighbouring step is displayed, its callback first.  *)
(* The host waits for the reply, so nothing else uses the strings.         *)
(***************************************************************************)
EXTENDS Integers

CONSTANTS
    ItemCounts,  \* values of pluginUiMaxItems, a byte
    MaxLefts     \* bound: presses of the left button

ASSUME UiAssumption == ItemCounts \subseteq 0..255 /\ MaxLefts \in Nat

VARIABLES
    step,         \* of ux_plugin_approval_flow, or "DONE"
    pluginUiState, pluginUiCurrentItem,
    pluginUiMaxItems,
    answered,     \* items for which the plugin fills the strings
    title, text,  \* strings.tmp.tmp and strings.tmp.tmp2
    seen,         \* history: what was displayed
    reply,        \* "NONE", "OK" or "CANCEL"
    lefts

counters == <<pluginUiState, pluginUiCurrentItem>>
strings == <<title, text>>
fixed == <<pluginUiMaxItems, answered>>
vars == <<step, counters, fixed, strings, seen, reply, lefts>>

Items == 0..255

\* What a line of text is about: an item, or something else with no number.
Item(i) == <<"ITEM", i>>
Text(of) == <<of, 0>>

\* plugin_ui_get_item; nothing is written for an item that the plugin does not
\* know.  The call returns UNAVAILABLE or OK whatever the plugin answers
\* (lat_plugin_handler.c:282), never ERROR, so it never cancels.
GetItem(i) ==
    IF i \in answered
    THEN title' = Item(i) /\ text' = Item(i)
    ELSE UNCHANGED strings

Show(s) ==
    /\ step' = s
    /\ seen' = seen \cup
           {IF s = "DISPLAY" THEN Item(pluginUiCurrentItem') ELSE Text(s)}

\* ux_plugin_approval_id_step, with plugin_ui_get_id.
ShowId == Show("ID") /\ title' = Text("NAME") /\ text' = Text("VERSION")

\* The fees step, with plugin_ui_compute_fees.
ShowFees == Show("FEES") /\ text' = Text("FEES") /\ UNCHANGED title

-----------------------------------------------------------------------------
(* display_next_plugin_item(true): the step before the items.              *)

Enter ==
    /\ pluginUiState = "OUTSIDE"
    /\ pluginUiState' = "INSIDE"
    /\ pluginUiCurrentItem' = 0
    /\ GetItem(0)
    /\ Show("DISPLAY")

\* Wrong on purpose: the strings are not filled again.
FormerItemUnfilled ==
    /\ pluginUiState = "INSIDE"
    /\ pluginUiCurrentItem > 0
    /\ pluginUiCurrentItem' = pluginUiCurrentItem - 1
    /\ Show("DISPLAY")
    /\ UNCHANGED <<pluginUiState, strings>>

\* Wrong on purpose: there is an item before the first.
FormerItemAlways ==
    /\ pluginUiState = "INSIDE"
    /\ pluginUiCurrentItem' = pluginUiCurrentItem - 1
    /\ GetItem(pluginUiCurrentItem')
    /\ Show("DISPLAY")
    /\ UNCHANGED pluginUiState

FormerItem ==
    /\ pluginUiState = "INSIDE"
    /\ pluginUiCurrentItem > 0
    /\ pluginUiCurrentItem' = pluginUiCurrentItem - 1
    /\ GetItem(pluginUiCurrentItem')
    /\ Show("DISPLAY")
    /\ UNCHANGED pluginUiState

LeaveLeft ==
    /\ pluginUiState = "INSIDE"
    /\ pluginUiCurrentItem = 0
    /\ pluginUiState' = "OUTSIDE"
    /\ pluginUiCurrentItem' = 0
    /\ ShowId

Before == Enter \/ FormerItem \/ LeaveLeft

-----------------------------------------------------------------------------
(* display_next_plugin_item(false): the step after the items.              *)

\* From the fees back to the item that was left.
Reenter ==
    /\ pluginUiState = "OUTSIDE"
    /\ pluginUiState' = "INSIDE"
    /\ GetItem(pluginUiCurrentItem)
    /\ UNCHANGED pluginUiCurrentItem
    /\ Show("DISPLAY")

\* Wrong on purpose: one item too few.
LastItemEarly == pluginUiCurrentItem + 1 >= pluginUiMaxItems - 1

\* Wrong on purpose: an unsigned comparison, with 0 items there is no last.
LastItemUnsigned == pluginUiCurrentItem >= (pluginUiMaxItems - 1) % 256

\* The comparison is one of ints, also with pluginUiMaxItems = 0.
LastItem == pluginUiCurrentItem >= pluginUiMaxItems - 1

\* Wrong on purpose: the strings are filled again, with the same item.
NextItemStays ==
    /\ pluginUiState = "INSIDE"
    /\ ~LastItem
    /\ UNCHANGED counters
    /\ GetItem(pluginUiCurrentItem)
    /\ Show("DISPLAY")

NextItem ==
    /\ pluginUiState = "INSIDE"
    /\ ~LastItem
    /\ pluginUiCurrentItem' = pluginUiCurrentItem + 1
    /\ GetItem(pluginUiCurrentItem')
    /\ Show("DISPLAY")
    /\ UNCHANGED pluginUiState

LeaveRight ==
    /\ pluginUiState = "INSIDE"
    /\ LastItem
    /\ pluginUiState' = "OUTSIDE"
    /\ UNCHANGED pluginUiCurrentItem
    /\ ShowFees

After == Reenter \/ NextItem \/ LeaveRight

-----------------------------------------------------------------------------
(* The buttons.                                                            *)

Goto(from, to) ==
    /\ step = from
    /\ Show(to)
    /\ UNCHANGED <<counters, strings>>

Right ==
    /\ \/ step = "INTRO" /\ ShowId /\ UNCHANGED counters
       \/ step = "ID" /\ Before
       \/ step = "DISPLAY" /\ After
       \/ Goto("FEES", "OK")
       \/ Goto("OK", "CANCEL")
    /\ UNCHANGED <<fixed, reply, lefts>>

Left ==
    /\ lefts < MaxLefts
    /\ lefts' = lefts + 1
    /\ \/ Goto("ID", "INTRO")
       \/ step = "DISPLAY" /\ Before
       \/ step = "FEES" /\ After
       \/ step = "OK" /\ ShowFees /\ UNCHANGED counters
       \/ Goto("CANCEL", "OK")
    /\ UNCHANGED <<fixed, reply>>

\* touch_tx_ok and touch_tx_cancel.
Validate ==
    /\ step \in {"OK", "CANCEL"}
    /\ reply' = step
    /\ step' = "DONE"
    /\ UNCHANGED <<counters, fixed, strings, seen, lefts>>

\* plugin_ui_start.
Init ==
    /\ step = "INTRO"
    /\ pluginUiState = "OUTSIDE"
    /\ pluginUiCurrentItem = 0
    /\ pluginUiMaxItems \in ItemCounts
    /\ answered \in {Items} \cup {0 .. n - 1 : n \in ItemCounts}
    /\ title = Text("LEFT_OVER")
    /\ text = Text("LEFT_OVER")
    /\ seen = {Text("INTRO")}
    /\ reply = "NONE"
    /\ lefts = 0

Next == Right \/ Left \/ Validate

Spec == Init /\ [][Next]_vars

\* A user who wants to get to the end: there are only so many steps back.
FairSpec == Spec /\ WF_vars(Right \/ Validate)

-----------------------------------------------------------------------------
(* Properties.                                                             *)

TypeOK ==
    /\ step \in {"INTRO", "ID", "DISPLAY", "FEES", "OK", "CANCEL", "DONE"}
    /\ pluginUiState \in {"INSIDE", "OUTSIDE"}
    /\ pluginUiCurrentItem \in Items
    /\ reply \in {"NONE", "OK", "CANCEL"}
    /\ lefts \in 0..MaxLefts

\* However the user goes back and forth, and although the fees are written over
\* the text of the item, the title and the text on display are those of the
\* current item, if the plugin knows it.
ItemOnDisplay ==
    step = "DISPLAY" /\ pluginUiCurrentItem \in answered =>
        title = Item(pluginUiCurrentItem) /\ text = title

\* Nothing can be accepted before every item and the fees were on the screen.
AllSeenBeforeAccept ==
    reply = "OK" =>
        {Text("ID"), Text("FEES")} \cup {Item(i) : i \in 0 .. pluginUiMaxItems - 1}
            \subseteq seen

\* No item is asked for beyond the last, except the first when there is none.
WithinItems == pluginUiCurrentItem < pluginUiMaxItems \/ pluginUiCurrentItem = 0

\* Back from the fees, the user sees the item that was seen last.
BackToLast ==
    [][step = "FEES" /\ step' = "DISPLAY" => LastItem']_vars

\* The user gets to the end: the hidden steps never trap the flow.
ReachesEnd == <>(step = "DONE")
=============================================================================
