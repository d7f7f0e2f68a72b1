----------------------------- MODULE WidgetEvents -----------------------------
(***************************************************************************)
(* What a window of the widget toolkit does with the pointer and the keys: *)
(* which widgets it marks as selected, whose callback a click runs, which  *)
(* input has the keys, and what a context menu takes away from all these.  *)
(* A window is used by the goroutine of the user interface only, one event *)
(* after the other.  Widgets do not overlap.                               *)
(***************************************************************************)
EXTENDS Integers, Sequences, SequencesExt, ListChoice

CONSTANTS Buttons, Trees, Inputs, \* sequences: the order of registration
          MenuEntries,            \* the entries of a context menu
          MaxLength               \* characters of an input

\* A widget is registered once, as one of a kind.
ASSUME WidgetsAssumption ==
    /\ \A list \in {Buttons, Trees, Inputs} : list \in Seq(ToSet(list)) /\ IsInjective(list)
    /\ ToSet(Buttons) \cap ToSet(Trees) = {}
    /\ (ToSet(Buttons) \cup ToSet(Trees)) \cap ToSet(Inputs) = {}
    /\ MaxLength \in Nat

Nothing == "nothing"
Beneath == "beneath"   \* a point of the menu that is on no entry
Unsure == "unsure"

VARIABLES widgets,    \* the widgets of each kind, in order
          selected,      \* the widgets with selected set
          focused,       \* the inputs with active set
          activeInput,
          textOf, caret, \* length of an input's value; its cursorPosition
          menu, entry,   \* whether the menu is an overlay; its selectedEntry
          looked,        \* what the pointer was on when the widgets were last looked at
          ran            \* the callbacks the last event ran

widgetVars == <<widgets, selected, focused, activeInput, textOf, caret, menu, entry, looked, ran>>

Lists == [button |-> Buttons, tree |-> Trees, input |-> Inputs]
Members(list) == {list[i] : i \in DOMAIN list}
OfKind(kind) == Members(widgets[kind])
AllWidgets == UNION {Members(Lists[k]) : k \in DOMAIN Lists}

WidgetsInit ==
    /\ widgets = Lists /\ selected = {} /\ focused = {} /\ activeInput = Nothing
    /\ textOf = [i \in Members(Inputs) |-> 0] /\ caret = [i \in Members(Inputs) |-> 0]
    /\ menu = FALSE /\ entry = Nothing /\ looked = Nothing /\ ran = <<>>

-----------------------------------------------------------------------------
\* Faulty form of the next definition: the others keep their mark.
LooksUntilHit(list, place) == {w \in Members(list) : w = place \/ w \in selected}

(* ProcessButtons, ProcessTrees and ProcessInputs stop at the first widget *)
(* the pointer is on: those after it keep the mark they have.              *)
StillSelected(list, place) ==
    LET hit == SelectInSeq(list, LAMBDA w : w = place) IN
    {list[i] : i \in {j \in DOMAIN list : hit # 0 /\ (j = hit \/ (j > hit /\ list[j] \in selected))}}

(* The entry of the menu under the pointer is selected; on the rest of the *)
(* menu the selection stays, and elsewhere it goes.                        *)
MenuSelection(place) ==
    IF place \in MenuEntries THEN place ELSE IF place = Beneath THEN entry ELSE Nothing

(* An open menu keeps the pointer from the widgets.                        *)
ProcessPointerPosition == \E place \in AllWidgets \cup MenuEntries \cup {Nothing, Beneath} :
    /\ place \in MenuEntries \cup {Beneath} => menu
    /\ IF menu
       THEN entry' = MenuSelection(place) /\ UNCHANGED <<selected, looked>>
       ELSE /\ selected' = UNION {StillSelected(widgets[k], place) : k \in DOMAIN widgets}
            /\ looked' = place /\ UNCHANGED entry
    /\ UNCHANGED <<widgets, focused, activeInput, textOf, caret, menu>>
    /\ ran' = <<>>

\* The first selected widget of a list, as a sequence of at most one.
FirstSelected(list) ==
    LET i == SelectInSeq(list, LAMBDA w : w \in selected) IN IF i = 0 THEN <<>> ELSE <<list[i]>>

(* The inputs before the selected one lose the keys, those after it keep   *)
(* their active mark.                                                      *)
ProcessInputActivation ==
    LET list == widgets.input
        i == SelectInSeq(list, LAMBDA w : w \in selected)
        passed == {list[j] : j \in {k \in DOMAIN list : i = 0 \/ k < i}} IN
    /\ focused' = (focused \ passed) \cup (IF i = 0 THEN {} ELSE {list[i]})
    /\ activeInput' = IF i # 0 THEN list[i] ELSE IF focused \cap passed # {} THEN Nothing ELSE activeInput

(* A click with a menu open runs the selected entry, and the menu goes;    *)
(* the widgets do not learn of it.  A tree looks for a node where the      *)
(* pointer is now, and there may be none.                                  *)
ProcessPointerClick == \E onNode \in BOOLEAN :
    /\ IF menu
       THEN /\ ran' = IF entry = Nothing THEN <<>> ELSE <<entry>>
            /\ menu' = FALSE /\ entry' = Nothing
            /\ UNCHANGED <<focused, activeInput>>
       ELSE /\ ran' = FirstSelected(widgets.button)
                      \o IF onNode THEN FirstSelected(widgets.tree) ELSE <<>>
            /\ ProcessInputActivation /\ UNCHANGED <<menu, entry>>
    /\ UNCHANGED <<widgets, selected, textOf, caret, looked>>

(* A listener of the right button, or the program, opens the menu.         *)
OpenMenu ==
    /\ ~menu
    /\ menu' = TRUE /\ entry' = Nothing
    /\ UNCHANGED <<widgets, selected, focused, activeInput, textOf, caret, looked>>
    /\ ran' = <<>>

(* A bar that is rebuilt registers a new button in the place of an old one,*)
(* as the last of all and not selected.                                    *)
ReplaceButton == \E b \in OfKind("button") :
    /\ widgets' = [widgets EXCEPT !.button = Append(Chosen(@, OfKind("button") \ {b}), b)]
    /\ selected' = selected \ {b} /\ looked' = Unsure
    /\ UNCHANGED <<focused, activeInput, textOf, caret, menu, entry>>
    /\ ran' = <<>>

-----------------------------------------------------------------------------
\* Control-L: SetFocused marks the input; the window does not know it.
SetFocused == \E i \in OfKind("input") :
    /\ focused' = focused \cup {i} /\ selected' = selected \cup {i}
    /\ UNCHANGED <<widgets, activeInput, textOf, caret, menu, entry, looked>>
    /\ ran' = <<>>

(* The callback of an input may set its value, as the address bar does.    *)
ProcessReturnKey ==
    /\ activeInput \in focused
    /\ focused' = focused \ {activeInput} /\ activeInput' = Nothing /\ ran' = <<activeInput>>
    /\ UNCHANGED <<widgets, selected, textOf, caret, menu, entry, looked>>

ProcessArrowKeys == \E step \in {-1, 1} :
    /\ activeInput \in focused
    /\ IF step = -1 THEN caret[activeInput] + textOf[activeInput] > 0 ELSE caret[activeInput] < 0
    /\ caret' = [caret EXCEPT ![activeInput] = @ + step]
    /\ UNCHANGED <<widgets, selected, focused, activeInput, textOf, menu, entry, looked>>
    /\ ran' = <<>>

(* The caret counts from the end of the value; it is clamped to it.        *)
SetValue == \E i \in OfKind("input"), n \in 0..MaxLength :
    /\ textOf' = [textOf EXCEPT ![i] = n]
    /\ caret' = [caret EXCEPT ![i] = IF @ < -n THEN -n ELSE IF @ > 0 THEN 0 ELSE @]
    /\ UNCHANGED <<widgets, selected, focused, activeInput, menu, entry, looked>>
    /\ ran' = <<>>

\* Drawing an input that is not active puts its caret at the end.
DrawInput == \E i \in OfKind("input") \ focused :
    /\ caret' = [caret EXCEPT ![i] = 0]
    /\ UNCHANGED <<widgets, selected, focused, activeInput, textOf, menu, entry, looked>>
    /\ ran' = <<>>

WidgetsNext ==
    \/ ProcessPointerPosition \/ ProcessPointerClick \/ OpenMenu \/ ReplaceButton
    \/ SetFocused \/ ProcessReturnKey \/ ProcessArrowKeys \/ SetValue \/ DrawInput

-----------------------------------------------------------------------------
WidgetsTypeOK ==
    /\ selected \cup focused \subseteq AllWidgets
    /\ activeInput \in Members(Inputs) \cup {Nothing} /\ entry \in MenuEntries \cup {Nothing}
    /\ menu \in BOOLEAN /\ looked \in AllWidgets \cup {Nothing, Unsure}

(* A click runs at most one callback, and only that of the widget that was *)
(* under the pointer when the window last looked, although several may be  *)
(* marked; when a button was replaced since, it may be another.  A menu    *)
(* with a selected entry is open.  The input that has the keys is marked   *)
(* as active, and its caret is within its value.                           *)
ClicksHitTheirTarget ==
    /\ looked # Unsure => \A kind \in {"button", "tree"} :
           LET first == FirstSelected(widgets[kind]) IN first # <<>> => first = <<looked>>
    /\ looked # Unsure => Len(ran) <= 1 /\ Members(ran) \subseteq {looked} \cup MenuEntries \cup Members(Inputs)
    /\ entry # Nothing => menu
    /\ activeInput # Nothing => activeInput \in focused
    /\ \A i \in DOMAIN textOf : caret[i] \in -textOf[i]..0
=============================================================================
