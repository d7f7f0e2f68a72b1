------------------------------- MODULE WindowApp -------------------------------
(***************************************************************************)
(* The windows of the application: which are managed, which one is active, *)
(* what those that listen have been told of it, and which one the driver   *)
(* draws.  All of it runs on the goroutine of the user interface.          *)
(***************************************************************************)
EXTENDS Naturals, Sequences, SequencesExt, ListChoice

CONSTANTS Panes, NoPane

ASSUME PanesAssumption == NoPane \notin Panes

VARIABLES managed,                     \* App.windows
          activePane, tabbedMode,      \* App
          activity,                    \* active and activeSet of each window
          shown,                       \* the visible windows
          lastTold,                       \* what the listener of a window was told last
          driverPanes                  \* ebitenApp.windows, <<>> before Run

appVars == <<managed, activePane, tabbedMode, activity, shown, lastTold, driverPanes>>

InList(list) == {list[i] : i \in DOMAIN list}

\* A window that was never told is active.
ActiveIn(a, w) == a[w] # "inactive"

AppInit ==
    /\ managed = <<>> /\ activePane = NoPane /\ tabbedMode = FALSE /\ driverPanes = <<>>
    /\ activity = [w \in Panes |-> "unset"] /\ shown = Panes
    /\ lastTold = [w \in Panes |-> "nothing"]

(* setActive on some windows: listeners hear of a change only.             *)
BecomeActive(change) ==
    /\ activity' = [w \in Panes |-> IF w \in DOMAIN change THEN change[w] ELSE activity[w]]
    /\ lastTold' = [w \in Panes |->
                    IF lastTold[w] # "nothing" /\ w \in DOMAIN change
                       /\ ActiveIn(activity, w) # ActiveIn(change, w)
                    THEN change[w] ELSE lastTold[w]]

\* Activating one of the windows of a list makes the others inactive.
OnlyActive(list, w) == [v \in InList(list) |-> IF v = w THEN "active" ELSE "inactive"]

AddWindow == \E w \in Panes \ InList(managed) :
    /\ managed' = Append(managed, w)
    /\ IF tabbedMode THEN BecomeActive([v \in {w} |-> "inactive"]) ELSE UNCHANGED <<activity, lastTold>>
    /\ UNCHANGED <<activePane, tabbedMode, shown, driverPanes>>

ActivateWindow == \E w \in InList(managed) :
    /\ tabbedMode' = TRUE /\ activePane' = w
    /\ BecomeActive(OnlyActive(managed, w))
    /\ UNCHANGED <<managed, shown, driverPanes>>

\* Faulty form of the next definition: the window keeps what it is.
StaysActive(w, rest) ==
    IF activePane = w /\ rest # <<>> THEN OnlyActive(rest, rest[1]) ELSE [v \in {} |-> "inactive"]

(* The window becomes inactive, and the first of the rest takes its place. *)
Leaves(w, rest) ==
    [v \in {w} \cup (IF activePane = w /\ rest # <<>> THEN InList(rest) ELSE {}) |->
        IF activePane = w /\ rest # <<>> /\ v = rest[1] THEN "active" ELSE "inactive"]

(* A window is destroyed; the driver that runs keeps it in its list.       *)
DestroyWindow == \E w \in Panes :
    LET rest == Chosen(managed, Panes \ {w}) IN
    /\ managed' = rest
    /\ activePane' = IF activePane # w THEN activePane ELSE IF rest = <<>> THEN NoPane ELSE rest[1]
    /\ BecomeActive(Leaves(w, rest))
    /\ UNCHANGED <<tabbedMode, shown, driverPanes>>

ShowOrHide == \E w \in Panes :
    /\ shown' = IF w \in shown THEN shown \ {w} ELSE shown \cup {w}
    /\ UNCHANGED <<managed, activePane, tabbedMode, activity, lastTold, driverPanes>>

\* The new listener is told at once.
AttachActiveChangeListener == \E w \in Panes :
    /\ lastTold' = [lastTold EXCEPT ![w] = IF ActiveIn(activity, w) THEN "active" ELSE "inactive"]
    /\ UNCHANGED <<managed, activePane, tabbedMode, activity, shown, driverPanes>>

(* The driver copies the list when it starts, or makes a window if it is   *)
(* empty; later ones it never learns of.                                   *)
Run ==
    /\ driverPanes = <<>> /\ managed # <<>>
    /\ driverPanes' = managed
    /\ UNCHANGED <<managed, activePane, tabbedMode, activity, shown, lastTold>>

AppNext ==
    \/ AddWindow \/ ActivateWindow \/ DestroyWindow
    \/ ShowOrHide \/ AttachActiveChangeListener \/ Run

\* The first visible window that is active, or the first visible one.
activeVisibleWindow ==
    LET active == SelectInSeq(driverPanes, LAMBDA w : w \in shown /\ ActiveIn(activity, w))
        visible == SelectInSeq(driverPanes, LAMBDA w : w \in shown) IN
    IF active # 0 THEN driverPanes[active] ELSE IF visible # 0 THEN driverPanes[visible] ELSE NoPane

-----------------------------------------------------------------------------
AppTypeOK ==
    /\ InList(managed) \subseteq Panes /\ activePane \in Panes \cup {NoPane}
    /\ \A w \in Panes : activity[w] \in {"unset", "active", "inactive"}

(* One window is active at most once there is a choice of windows, and it  *)
(* is one that the application still has; who listens knows whether its    *)
(* window is active; and the driver draws the active window if it knows it *)
(* and it is visible, whatever was added and destroyed since it started.   *)
OneWindowIsActive ==
    /\ activePane # NoPane => tabbedMode /\ activePane \in InList(managed) /\ ActiveIn(activity, activePane)
    /\ tabbedMode => \A w \in InList(managed) \ {activePane} : ~ActiveIn(activity, w)
    /\ IsInjective(managed)
    /\ \A w \in Panes : lastTold[w] # "nothing" => (lastTold[w] = "active" <=> ActiveIn(activity, w))
    /\ activePane \in InList(driverPanes) \cap shown => activeVisibleWindow = activePane
=============================================================================
