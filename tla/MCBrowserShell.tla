---------------------------- MODULE MCBrowserShell ----------------------------
(***************************************************************************)
(* The shell, and what surrounds it: the lists of the user, the suspender  *)
(* of tabs, the widgets and the windows of the application.  They share no *)
(* state with one another in the code that runs, so that an initial choice *)
(* says which of them moves, and the states add up and are not multiplied. *)
(***************************************************************************)
EXTENDS BrowserShell, UserLists, TabSuspension, WidgetEvents, WindowApp

SomeButtons == <<"back", "reload">>
SomeTrees == <<"tree">>
SomeInputs == <<"address", "search">>

VARIABLE part

Parts == {"shell", "lists", "suspension", "widgets", "windows"}

Still(p) ==
    /\ UNCHANGED part
    /\ IF p = "shell" THEN TRUE ELSE UNCHANGED vars
    /\ IF p = "lists" THEN TRUE ELSE UNCHANGED listVars
    /\ IF p = "suspension" THEN TRUE ELSE UNCHANGED suspensionVars
    /\ IF p = "widgets" THEN TRUE ELSE UNCHANGED widgetVars
    /\ IF p = "windows" THEN TRUE ELSE UNCHANGED appVars

(* A part that stays as it is starts in one state only.                    *)
PartsInit ==
    /\ part \in Parts
    /\ Init /\ ListsInit /\ SuspensionInit /\ WidgetsInit /\ AppInit
    /\ part = "suspension" \/ (protect /\ limit = CHOOSE n \in Limits : TRUE)

PartsNext ==
    \/ part = "shell" /\ Next /\ Still("shell")
    \/ part = "lists" /\ ListsNext /\ Still("lists")
    \/ part = "suspension" /\ SuspensionNext /\ Still("suspension")
    \/ part = "widgets" /\ WidgetsNext /\ Still("widgets")
    \/ part = "windows" /\ AppNext /\ Still("windows")

PartsSpec ==
    PartsInit /\ [][PartsNext]_<<part, vars, listVars, suspensionVars, widgetVars, appVars>>

(* What is kept twice says the same twice: a bookmark in the list and in   *)
(* its folder, a tab's suspension, a widget's mark and the pointer, and    *)
(* the active window with those that draw it or listen to it.              *)
SurroundingsAgree ==
    /\ part = "lists" => ListsTypeOK /\ ListsAgree
    /\ part = "suspension" => SuspensionTypeOK /\ SuspensionIsKnown
    /\ part = "widgets" => WidgetsTypeOK /\ ClicksHitTheirTarget
    /\ part = "windows" => AppTypeOK /\ OneWindowIsActive
=============================================================================
