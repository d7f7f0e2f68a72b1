----------------------------- MODULE BrowserShell -----------------------------
(***************************************************************************)
(* The shell around the tabs (browser/shell/shell.go, session.go and the   *)
(* tab operations of extension_ops.go): the window of each tab, the record *)
(* of injected content scripts and the session file.  Everything runs on   *)
(* the UI loop; each action is one event with all the listeners it calls.  *)
(*                                                                         *)
(* The session file is replaced by a rename: it is the old or the new one. *)
(***************************************************************************)
EXTENDS TabManager

CONSTANT Homepage

ASSUME HomepageAssumption == Homepage \in Pages /\ MaxTabs >= 1

VARIABLES
    windows,    \* the keys of tabWindowContexts
    injected,   \* the keys of injectedScripts
    session     \* the session file: the URLs of the tabs and the active ID

shellVars == <<windows, injected, session>>
vars == <<tabVars, shellVars>>

Sessions == [urls : Seq(URLs), active : TabIDs \cup {NoTab}]
NoSession == [urls |-> <<>>, active |-> NoTab]   \* as good as no file

TypeOK ==
    /\ TabsTypeOK
    /\ windows \subseteq TabIDs /\ injected \subseteq TabIDs
    /\ session \in Sessions

-----------------------------------------------------------------------------
\* Faulty form of the next definition: the default tab is always added.
RestoredAndDefault(s) ==
    IF Len(s.urls) < MaxTabs THEN Append(s.urls, Homepage) ELSE s.urls

(* A new shell has the tabs of the session in order, under new IDs, or     *)
(* else a tab with the homepage.                                           *)
Restored(s) == IF s.urls = <<>> THEN <<Homepage>> ELSE s.urls

(* The tab with the saved ID is activated if there is one; otherwise the   *)
(* last one added stays active.                                            *)
RestoredActive(s) ==
    IF s.active \in DOMAIN s.urls THEN s.active ELSE Len(Restored(s))

RestoredURL(s) ==
    [t \in TabIDs |-> IF t \in DOMAIN Restored(s) THEN Restored(s)[t] ELSE Blank]

Init ==
    /\ session = NoSession
    /\ nextID = Len(Restored(session)) + 1
    /\ tabs = [i \in DOMAIN Restored(session) |-> i]
    /\ active = RestoredActive(session)
    /\ isActive = [t \in TabIDs |-> t = active]
    /\ url = RestoredURL(session)
    /\ back = [t \in TabIDs |-> <<>>] /\ forward = back
    /\ closedStack = <<>>
    /\ windows = {} /\ injected = {}

(* The session that SessionManager.Save writes.                            *)
Saved == [urls |-> [i \in DOMAIN tabs |-> url[tabs[i]]], active |-> active]

(* Close writes the session, if it can; a crash does not.                  *)
Restart ==
    /\ session' \in {Saved, session}
    /\ nextID' = Len(Restored(session')) + 1
    /\ tabs' = [i \in DOMAIN Restored(session') |-> i]
    /\ active' = RestoredActive(session')
    /\ isActive' = [t \in TabIDs |-> t = active']
    /\ url' = RestoredURL(session')
    /\ back' = [t \in TabIDs |-> <<>>] /\ forward' = back'
    /\ closedStack' = <<>>
    /\ windows' = {} /\ injected' = {}

\* Faulty form of the next definition: the record of closed tabs is kept.
CleanedNever(scripts) == scripts

(* The listener of buildUI drops the records of tabs that are closed.      *)
Cleaned(scripts) == {t \in scripts : \E i \in DOMAIN tabs' : tabs'[i] = t}

Quietly(operation) ==
    /\ operation
    /\ injected' = Cleaned(injected)
    /\ UNCHANGED <<windows, session>>

-----------------------------------------------------------------------------
(* Control-T and the menu open the homepage, the tab bar a blank tab, an   *)
(* extension or the new-tab page any URL.                                  *)
NewTab == \E u \in URLs : Quietly(Add(u))

(* chrome.tabs.create with active: false: the new tab is added, then the   *)
(* one before it in the bar is activated.                                  *)
CreateInactiveTab ==
    \E u \in URLs :
        /\ tabs # <<>> /\ nextID <= MaxTabs
        /\ nextID' = nextID + 1
        /\ tabs' = Append(tabs, nextID)
        /\ active' = Last(tabs)
        /\ isActive' = HandOver(isActive, active, Last(tabs))
        /\ url' = [url EXCEPT ![nextID] = u]
        /\ injected' = Cleaned(injected)
        /\ UNCHANGED <<closedStack, navs, windows, session>>

RemoveTab(t) == Quietly(Close(t))

(* No part of the shell re-opens tabs yet; it exports its tab manager.     *)
ReopenTab == Quietly(RestoreClosed)

ActivateTab(t) == Quietly(Activate(t))

(* chrome.tabs.update: a URL is set and not loaded, the tab is activated.  *)
UpdateTab(t) ==
    /\ IsOpen(t)
    /\ \E u \in Pages : url' \in {url, [url EXCEPT ![t] = u]}
    /\ \/ active' = t /\ isActive' = HandOver(isActive, active, t)
       \/ UNCHANGED <<active, isActive>>
    /\ UNCHANGED <<nextID, tabs, closedStack, navs, windows, session>>
    /\ injected' = Cleaned(injected)

(* Control-W                                                               *)
CloseActiveWindow ==
    /\ active \in windows
    /\ windows' = windows \ {active}
    /\ UNCHANGED <<tabVars, injected, session>>

(* The address bar, the home button and the sidebars.  The callback of     *)
(* Navigate makes an entry for the tab's scripts, even if it has none or   *)
(* one fails, and a window, even if the page cannot be loaded.             *)
NavigateActive ==
    /\ active # NoTab
    /\ \E u \in Pages : Navigate(active, u)
    /\ windows' = windows \cup {active}
    /\ injected' = Cleaned(injected \cup {active})
    /\ UNCHANGED session

GoBack == active # NoTab /\ Quietly(Back(active))

GoForward == active # NoTab /\ Quietly(Forward(active))

Next ==
    \/ NewTab \/ CreateInactiveTab \/ ReopenTab
    \/ \E t \in TabIDs : RemoveTab(t) \/ ActivateTab(t) \/ UpdateTab(t)
    \/ NavigateActive \/ GoBack \/ GoForward
    \/ CloseActiveWindow
    \/ Restart

Spec == Init /\ [][Next]_vars

-----------------------------------------------------------------------------
(* A tab that leaves the bar loses its record of injected scripts, so that *)
(* one that is opened again gets its content scripts again: every record   *)
(* is that of an open tab.  Of windows this would be false, since a tab    *)
(* that an extension closes keeps its window and finds it again.           *)
InjectedTracksOpenTabs == \A t \in injected : IsOpen(t)

(* The next process shows the pages of the last session that was saved, in *)
(* their order and no others, and one of them is active.                   *)
SessionKeepsTabs ==
    [][Restart /\ session'.urls # <<>>
         => /\ [i \in DOMAIN tabs' |-> url'[tabs'[i]]] = session'.urls
            /\ Contains(tabs', active')]_vars

(* "Restore active tab" (session.go:125): a shell that is closed, saved    *)
(* and started again shows the tab it showed.                              *)
SessionKeepsActiveTab ==
    [][Restart /\ tabs # <<>> /\ session' = Saved
         => \E i \in DOMAIN tabs : tabs[i] = active /\ tabs'[i] = active']_vars
=============================================================================
