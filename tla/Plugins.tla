------------------------------ MODULE Plugins ------------------------------
(***************************************************************************)
(* The plugins and the way to them: the dispatcher (lat_plugin_handler.c), *)
(* the list of internal plugins (lat_plugin_internal.c), the PRC-20 and    *)
(* PRC-721 plugins, and an external plugin, an application of its own that *)
(* answers what it likes.  An answer is a choice among the results the     *)
(* plugin can give; what a call returns is computed from it.               *)
(***************************************************************************)
EXTENDS Integers, Sequences

CONSTANTS
    SelectorLength, WordLength,  \* 4 and 32 bytes
    ScreenCounts                 \* numbers of screens an external plugin may ask for

ASSUME PluginAssumption ==
    /\ SelectorLength \in Nat \ {0}
    /\ WordLength \in Nat \ {0}
    /\ ScreenCounts \subseteq Nat

Results == {"ERROR", "UNAVAILABLE", "OK", "OK_ALIAS", "FALLBACK"}

\* status >= LAT_PLUGIN_RESULT_SUCCESSFUL.
Successful(status) == status \in {"OK", "OK_ALIAS", "FALLBACK"}

-----------------------------------------------------------------------------
(* The dispatcher.                                                         *)

\* Two plugins list the selector of approve.
InternalPlugins ==
    << [alias |-> "PRC20", selectors |-> {"TRANSFER", "APPROVE"}],
       [alias |-> "PRC721", selectors |-> {"APPROVE"}] >>

Listing(selector) ==
    {i \in DOMAIN InternalPlugins : selector \in InternalPlugins[i].selectors}

\* The search stops at the first match.
InternalPlugin(selector) ==
    InternalPlugins[CHOOSE i \in Listing(selector) : \A j \in Listing(selector) : i <= j].alias

\* What lat_plugin_call returns for INIT_CONTRACT, ...
InitReturns(answer) ==
    IF answer \in {"OK", "ERROR"} THEN answer ELSE "UNAVAILABLE"

\* ... and for PROVIDE_PARAMETER, FINALIZE and PROVIDE_TOKEN.
CallReturns(answer) ==
    CASE answer \in {"OK", "FALLBACK"} -> "OK"
      [] answer = "ERROR" -> "ERROR"
      [] OTHER -> "UNAVAILABLE"

\* !lat_plugin_call(...): UNAVAILABLE is 1.
Fails(return) == return = "ERROR"

-----------------------------------------------------------------------------
(* What each plugin answers.                                               *)

InitAnswers(alias, tx) ==
    CASE alias = "EXTERNAL" -> Results
      [] ~tx.valueZero -> {"ERROR"}
      [] alias = "PRC20" -> {"OK"}
      [] alias = "PRC721" -> IF tx.length = SelectorLength + 2 * WordLength
                             THEN {"OK"} ELSE {"UNAVAILABLE"}

\* Offsets of the two parameters internal plugins know.
First == SelectorLength
Second == SelectorLength + WordLength

ParameterAnswers(alias, offset) ==
    CASE alias = "EXTERNAL" -> Results
      [] offset \in {First, Second} -> {"OK"}
      [] alias = "PRC20" -> {"ERROR"}
      [] alias = "PRC721" -> {"UNAVAILABLE"}

\* lookup: a token is asked for; pointers: amount and address are set.
FinalizeAnswers(alias, selectorIndex) ==
    CASE alias = "EXTERNAL" ->
            [result : Results, uiType : {"AMOUNT_ADDRESS", "GENERIC", "NONE"},
             numScreens : ScreenCounts, lookup : BOOLEAN, pointers : BOOLEAN]
      [] alias = "PRC20" /\ selectorIndex = "TRANSFER" ->
            {[result |-> "OK", uiType |-> "AMOUNT_ADDRESS", numScreens |-> 0,
              lookup |-> TRUE, pointers |-> TRUE]}
      [] alias = "PRC20" /\ selectorIndex = "APPROVE" ->
            {[result |-> "OK", uiType |-> "GENERIC", numScreens |-> 2,
              lookup |-> TRUE, pointers |-> FALSE]}
      [] alias = "PRC721" ->
            {[result |-> "OK", uiType |-> "GENERIC", numScreens |-> 3,
              lookup |-> TRUE, pointers |-> FALSE]}

\* known: the token of the called contract was provisioned.
TokenAnswers(alias, known) ==
    CASE alias = "EXTERNAL" -> [result : Results, additionalScreens : ScreenCounts]
      [] alias = "PRC20" -> {[result |-> IF known THEN "OK" ELSE "FALLBACK",
                              additionalScreens |-> 0]}
      [] alias = "PRC721" -> {[result |-> "OK", additionalScreens |-> 0]}

\* Screens for which QUERY_CONTRACT_UI fills the strings.
ScreensHandled(alias) ==
    CASE alias = "PRC20" -> 0..1
      [] alias = "PRC721" -> {}
      [] OTHER -> Nat
=============================================================================
