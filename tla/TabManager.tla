------------------------------ MODULE TabManager ------------------------------
(***************************************************************************)
(* The tabs of the shell (browser/shell/tab.go).  All of it runs on the UI *)
(* loop, one operation per step; listeners are called at the end of each   *)
(* operation.  A tab is named by its ID, which no later tab of the same    *)
(* process gets again, so a *Tab and its ID are one.  Title, favicon and   *)
(* container of a tab are data that no property here reads.                *)
(*                                                                         *)
(* An absent tabNav and an empty one read the same and are not told apart. *)
(***************************************************************************)
EXTENDS Integers, Sequences, SequencesExt, FiniteSetsExt

CONSTANTS Pages,       \* non-empty URLs
          Blank,       \* the empty URL of a fresh tab
          NoTab,       \* no active tab
          MaxClosed,   \* maxClosed, 25 in NewTabManager
          MaxTabs,     \* bound on the tabs opened in one process
          MaxHistory   \* bound on the entries of all back and forward lists

ASSUME TabAssumption ==
    /\ MaxClosed \in Nat /\ MaxTabs \in Nat /\ MaxHistory \in Nat
    /\ Blank \notin Pages
    /\ NoTab \notin 1 .. MaxTabs

VARIABLES
    nextID,
    tabs,          \* the open tabs in display order
    active,
    isActive,      \* tab -> Tab.IsActive
    url,           \* tab -> Tab.URL
    closedStack,   \* most-recently-closed is last
    back, forward  \* navs: tab -> the entries of its tabNav

navs == <<back, forward>>
tabVars == <<nextID, tabs, active, isActive, url, closedStack, navs>>

TabIDs == 1 .. MaxTabs
URLs == Pages \cup {Blank}
IsOpen(t) == \E i \in DOMAIN tabs : tabs[i] = t

TabsTypeOK ==
    /\ nextID \in 1 .. MaxTabs + 1
    /\ tabs \in Seq(TabIDs)
    /\ closedStack \in Seq(TabIDs) /\ Len(closedStack) <= MaxClosed
    /\ active \in TabIDs \cup {NoTab}
    /\ isActive \in [TabIDs -> BOOLEAN]
    /\ url \in [TabIDs -> URLs]
    /\ back \in [TabIDs -> Seq(URLs)] /\ forward \in [TabIDs -> Seq(URLs)]

NewTabManager ==
    /\ nextID = 1
    /\ tabs = <<>> /\ active = NoTab /\ closedStack = <<>>
    /\ isActive = [t \in TabIDs |-> FALSE]
    /\ url = [t \in TabIDs |-> Blank]
    /\ back = [t \in TabIDs |-> <<>>] /\ forward = back

-----------------------------------------------------------------------------
(* The flags after the active tab hands over to t (NoTab: to none).        *)
HandOver(flags, from, t) ==
    [u \in TabIDs |-> IF u = t THEN TRUE ELSE IF u = from THEN FALSE ELSE flags[u]]

\* Faulty form of the next definition: the number of tabs is the next ID.
AddNumberedByCount(u) ==
    LET t == Len(tabs) + 1 IN
    /\ t <= MaxTabs
    /\ nextID' = t + 1
    /\ tabs' = Append(tabs, t)
    /\ active' = t
    /\ isActive' = HandOver(isActive, active, t)
    /\ url' = [url EXCEPT ![t] = u]
    /\ UNCHANGED <<closedStack, navs>>

\* Faulty form of the next definition: the old active tab keeps its flag.
AddKeepingFlag(u) ==
    /\ nextID <= MaxTabs
    /\ tabs' = Append(tabs, nextID) /\ active' = nextID /\ nextID' = nextID + 1
    /\ isActive' = [isActive EXCEPT ![nextID] = TRUE]
    /\ url' = [url EXCEPT ![nextID] = u]
    /\ UNCHANGED <<closedStack, navs>>

Add(u) ==
    /\ nextID <= MaxTabs
    /\ nextID' = nextID + 1
    /\ tabs' = Append(tabs, nextID)
    /\ active' = nextID
    /\ isActive' = HandOver(isActive, active, nextID)
    /\ url' = [url EXCEPT ![nextID] = u]
    /\ UNCHANGED <<closedStack, navs>>

(* The tab that takes the place of the one closed at i, or the last one.   *)
Neighbour(rest, i) ==
    IF rest = <<>> THEN NoTab
    ELSE IF i > Len(rest) THEN Last(rest) ELSE rest[i]

\* Faulty form of the next definition: the stack is not cut.
RememberedAll(s) == s

Remembered(s) == IF Len(s) > MaxClosed THEN Tail(s) ELSE s

(* A tab that is closed while active keeps its flag, off the list.         *)
Close(t) ==
    \E i \in DOMAIN tabs :
        /\ tabs[i] = t
        /\ LET rest == RemoveAt(tabs, i)
               next == IF active = t THEN Neighbour(rest, i) ELSE active
           IN /\ tabs' = rest
              /\ active' = next
              /\ isActive' = [u \in TabIDs |-> isActive[u] \/ u = next]
        /\ back' = [back EXCEPT ![t] = <<>>]
        /\ forward' = [forward EXCEPT ![t] = <<>>]
        /\ closedStack' = Remembered(Append(closedStack, t))
        /\ UNCHANGED <<nextID, url>>

Activate(t) ==
    /\ IsOpen(t) /\ active # t
    /\ isActive' = HandOver(isActive, active, t)
    /\ active' = t
    /\ UNCHANGED <<nextID, tabs, url, closedStack, navs>>

(* No part of the shell moves or re-opens tabs yet; both are exported.     *)
MoveTab(from, to) ==
    /\ from \in DOMAIN tabs /\ to \in DOMAIN tabs /\ from # to
    /\ tabs' = InsertAt(RemoveAt(tabs, from), to, tabs[from])
    /\ UNCHANGED <<nextID, active, isActive, url, closedStack, navs>>

\* Faulty form of the next definition: the tab stays on the stack.
RestoreClosedKeeping ==
    /\ closedStack # <<>>
    /\ LET t == Last(closedStack) IN
          /\ tabs' = Append(tabs, t) /\ active' = t
          /\ isActive' = HandOver(isActive, active, t)
    /\ UNCHANGED <<nextID, url, closedStack, navs>>

RestoreClosed ==
    /\ closedStack # <<>>
    /\ LET t == Last(closedStack) IN
          /\ tabs' = Append(tabs, t)
          /\ active' = t
          /\ isActive' = HandOver(isActive, active, t)
    /\ closedStack' = Front(closedStack)
    /\ UNCHANGED <<nextID, url, navs>>

-----------------------------------------------------------------------------
SetURL(t, u) ==
    /\ IsOpen(t)
    /\ url' = [url EXCEPT ![t] = u]
    /\ UNCHANGED <<nextID, tabs, active, isActive, closedStack, navs>>

(* MaxHistory leaves room for one more entry of t, were forward[t] empty.  *)
HasRoom(t) ==
    Len(back[t]) + MapThenSumSet(LAMBDA o : Len(back[o]) + Len(forward[o]),
                                 TabIDs \ {t}) < MaxHistory

\* Faulty form of the next definition: the entries ahead are kept.
NavigateKeepingForward(t, u) ==
    /\ IsOpen(t) /\ u \notin {Blank, url[t]}
    /\ HasRoom(t)
    /\ back' = IF url[t] = Blank THEN back
               ELSE [back EXCEPT ![t] = Append(@, url[t])]
    /\ url' = [url EXCEPT ![t] = u]
    /\ UNCHANGED <<nextID, tabs, active, isActive, closedStack, forward>>

(* What Navigate does to the tab; its callback is the shell's.             *)
Navigate(t, u) ==
    /\ IsOpen(t) /\ u \notin {Blank, url[t]}
    /\ HasRoom(t)
    /\ back' = IF url[t] = Blank THEN back
               ELSE [back EXCEPT ![t] = Append(@, url[t])]
    /\ forward' = [forward EXCEPT ![t] = <<>>]
    /\ url' = [url EXCEPT ![t] = u]
    /\ UNCHANGED <<nextID, tabs, active, isActive, closedStack>>

Back(t) ==
    /\ IsOpen(t) /\ back[t] # <<>>
    /\ url' = [url EXCEPT ![t] = Last(back[t])]
    /\ back' = [back EXCEPT ![t] = Front(@)]
    /\ forward' = [forward EXCEPT ![t] = Append(@, url[t])]
    /\ UNCHANGED <<nextID, tabs, active, isActive, closedStack>>

Forward(t) ==
    /\ IsOpen(t) /\ forward[t] # <<>>
    /\ url' = [url EXCEPT ![t] = Last(forward[t])]
    /\ forward' = [forward EXCEPT ![t] = Front(@)]
    /\ back' = [back EXCEPT ![t] = Append(@, url[t])]
    /\ UNCHANGED <<nextID, tabs, active, isActive, closedStack>>

TabNext ==
    \/ \E u \in URLs : Add(u)
    \/ \E t \in TabIDs :
          \/ Close(t) \/ Activate(t) \/ Back(t) \/ Forward(t)
          \/ \E u \in Pages : SetURL(t, u) \/ Navigate(t, u)
    \/ \E from, to \in DOMAIN tabs : MoveTab(from, to)
    \/ RestoreClosed

TabSpec == NewTabManager /\ [][TabNext]_tabVars

-----------------------------------------------------------------------------
(* At every step exactly one open tab is the active one, unless none is    *)
(* open, and the flags that the tab bar and extensions read say the same.  *)
OneActiveTab ==
    /\ (active = NoTab) <=> (tabs = <<>>)
    /\ active # NoTab => IsOpen(active)
    /\ \A t \in TabIDs : IsOpen(t) => (isActive[t] <=> t = active)

(* No sequence of opening, closing, moving and re-opening puts a tab into  *)
(* the bar twice, on the closed stack twice or into both, so that GetTab   *)
(* and Close by ID mean one tab.                                           *)
NoTabInTwoPlaces == IsInjective(tabs \o closedStack)

(* Back, forward, visits and extension updates, in any order and on any    *)
(* tab, walk one line of pages per tab.                                    *)
HistoryOf(t) ==
    IF IsOpen(t)
    THEN [line |-> Append(back[t], url[t]) \o Reverse(forward[t]),
          place |-> Len(back[t]) + 1]
    ELSE [line |-> <<>>, place |-> 0]
Expected == INSTANCE BrowsingHistory
    WITH Tabs <- TabIDs, NoPage <- Blank,
         history <- [t \in TabIDs |-> HistoryOf(t)]
ImplementsBrowsingHistory == Expected!HistorySpec
=============================================================================
