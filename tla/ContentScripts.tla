---------------------------- MODULE ContentScripts ----------------------------
(***************************************************************************)
(* Content scripts: the ContentScriptLoader with its two copies of what is *)
(* registered, the second loader that holds the style sheets extensions    *)
(* insert, and the shell's injection into tabs, with the record of what    *)
(* was injected and the sandboxes in which it ran.                         *)
(*                                                                         *)
(* Everything is called from the UI goroutine.  A URL pattern is the set   *)
(* of URLs it matches.                                                     *)
(***************************************************************************)
EXTENDS Naturals, Sequences, FiniteSets, SequencesExt, ListChoice

CONSTANTS Authors,   \* ids of extensions
          Views,     \* tabs
          Addresses, \* URLs
          Manifest,  \* what the manifest of an extension registers
          Sheets,    \* style sheets
          MaxSheets  \* bound on the sheets an extension has inserted

Phases == <<"document_start", "document_end", "document_idle">>

ASSUME ScriptsAssumption ==
    /\ MaxSheets \in Nat
    /\ \A e \in Authors :
           /\ Manifest[e] \in Seq(ToSet(Manifest[e]))
           /\ \A i \in DOMAIN Manifest[e] : Manifest[e][i].ExtID = e

VARIABLES
    hosted,      \* the extensions that are installed
    active,      \* those whose Enabled field is set
    registry,    \* Manager.contentLoader
    sheets,      \* DynamicScripting.loader
    injectedCSS, \* the field of this name
    page,        \* the URL of a tab, or Closed
    injected,    \* injectedScripts of a tab: ids
    begun,       \* ids of scripts that began to run in the sandbox of the tab
    again,       \* those that began a second time
    excused      \* history: those that failed, or whose tab has been closed

scriptVars == <<hosted, active, registry, sheets, injectedCSS, page, injected,
                begun, again, excused>>
perTab == <<injected, begun, again, excused>>

Closed == "closed"

(* A loader: the list of all scripts and the lists of each extension.      *)
NewLoader == [scripts |-> <<>>, byExtID |-> [e \in Authors |-> <<>>]]

Registered(l, s) ==
    [scripts |-> Append(l.scripts, s), byExtID |-> [l.byExtID EXCEPT ![s.ExtID] = Append(@, s)]]

RegisterFromManifest(l, e) ==
    [scripts |-> l.scripts \o Manifest[e], byExtID |-> [l.byExtID EXCEPT ![e] = @ \o Manifest[e]]]

RemoveForExtension(l, e) ==
    [scripts |-> Chosen(l.scripts, {s \in ToSet(l.scripts) : s.ExtID # e}),
     byExtID |-> [l.byExtID EXCEPT ![e] = <<>>]]

\* Faulty form of the next definition: the lists of the extensions keep it.
RemoveFromListOnly(l, id) ==
    LET at == SelectInSeq(l.scripts, LAMBDA s : s.ID = id) IN
    IF at = 0 THEN l ELSE [l EXCEPT !.scripts = RemoveAt(@, at)]

(* Of several scripts with one id the first leaves the list of all, and    *)
(* every one of that extension leaves the extension's own list.            *)
RemoveScript(l, id) ==
    LET at == SelectInSeq(l.scripts, LAMBDA s : s.ID = id) IN
    IF at = 0 THEN l
    ELSE [scripts |-> RemoveAt(l.scripts, at),
          byExtID |-> [l.byExtID EXCEPT ![l.scripts[at].ExtID] =
                          Chosen(@, {s \in ToSet(@) : s.ID # id})]]

\* One after the other.
RemoveScripts(l, ids) ==
    LET upTo[n \in 0..Len(ids)] ==
            IF n = 0 THEN l ELSE RemoveScript(upTo[n - 1], ids[n])
    IN upTo[Len(ids)]

matchesURL(s, url) ==
    /\ s.IncludeGlobs # {} => \E g \in s.IncludeGlobs : url \in g
    /\ \A g \in s.ExcludeGlobs : url \notin g
    /\ \E m \in s.Matches : url \in m
    /\ \A m \in s.ExcludeMatches : url \notin m

(* Sorted by the phase they run in, which keeps the order within a phase.  *)
MatchingForExtension(l, e, url) ==
    LET matching == {s \in ToSet(l.byExtID[e]) : matchesURL(s, url)}
        At(phase) == Chosen(l.byExtID[e], {s \in matching : s.RunAt = phase})
    IN At(Phases[1]) \o At(Phases[2]) \o At(Phases[3])

ScriptsInit ==
    /\ hosted = {} /\ active = {}
    /\ registry = NewLoader /\ sheets = NewLoader /\ injectedCSS = [e \in Authors |-> <<>>]
    /\ page = [t \in Views |-> Closed]
    /\ injected = [t \in Views |-> {}] /\ begun = [t \in Views |-> {}]
    /\ again = [t \in Views |-> {}] /\ excused = [t \in Views |-> {}]

-----------------------------------------------------------------------------
(* The extension is discovered or installed, switched, removed.            *)
Hosted == \E e \in Authors \ hosted :
    /\ hosted' = hosted \cup {e} /\ active' = active \cup {e}
    /\ registry' = RegisterFromManifest(registry, e)
    /\ UNCHANGED <<sheets, injectedCSS, page, perTab>>

Toggled == \E e \in hosted :
    /\ active' = IF e \in active THEN active \ {e} ELSE active \cup {e}
    /\ UNCHANGED <<hosted, registry, sheets, injectedCSS, page, perTab>>

(* Neither the style sheets nor the records of the tabs are touched.       *)
Removed == \E e \in hosted :
    /\ hosted' = hosted \ {e} /\ active' = active \ {e}
    /\ registry' = RemoveForExtension(registry, e)
    /\ UNCHANGED <<sheets, injectedCSS, page, perTab>>

(* chrome.scripting.unregisterContentScripts takes an id out of the loader *)
(* whosever it is; registerContentScripts adds to a registry from which    *)
(* nothing is injected.                                                    *)
UnregisterContentScripts == \E s \in ToSet(registry.scripts) :
    /\ active # {}
    /\ registry' = RemoveScript(registry, s.ID)
    /\ UNCHANGED <<hosted, active, sheets, injectedCSS, page, perTab>>

(* A style sheet is registered under a hash of its text, so that the same  *)
(* text has the same id twice.                                             *)
InjectCSS == \E e \in active, css \in Sheets :
    /\ Len(injectedCSS[e]) < MaxSheets
    /\ sheets' = Registered(sheets, [ID |-> <<e, css>>, ExtID |-> e])
    /\ injectedCSS' = [injectedCSS EXCEPT ![e] = Append(@, <<e, css>>)]
    /\ UNCHANGED <<hosted, active, registry, page, perTab>>

RemoveCSS == \E e \in active :
    /\ sheets' = RemoveScripts(sheets, injectedCSS[e])
    /\ injectedCSS' = [injectedCSS EXCEPT ![e] = <<>>]
    /\ UNCHANGED <<hosted, active, registry, page, perTab>>

-----------------------------------------------------------------------------
(* injectContentScripts goes through the enabled extensions in the random  *)
(* order of a Go map.  The content security policy is only logged.         *)
Matching(order, url) ==
    FlattenSeq([i \in DOMAIN order |->
        LET m == MatchingForExtension(registry, order[i], url) IN [j \in DOMAIN m |-> m[j].ID]])

First(ids, n) == {ids[i] : i \in DOMAIN ids \cap (1..n)}

(* An id that has been injected is passed over; it comes to an end, or to  *)
(* a script that is new to the tab and fails in one of its files.          *)
Stops(t, ids) ==
    {n \in 0..Len(ids) : n = Len(ids) \/ ids[n + 1] \notin injected[t] \cup First(ids, n)}

\* Faulty form of the next definition: a script is recorded before it runs.
InjectRecordedFirst(t, ids, n) ==
    LET done == First(ids, n) \ injected[t]
        ran == First(ids, n - 1) \ injected[t] IN
    /\ injected' = [injected EXCEPT ![t] = @ \cup done]
    /\ begun' = [begun EXCEPT ![t] = @ \cup ran]
    /\ again' = [again EXCEPT ![t] = @ \cup (ran \cap begun[t])]
    /\ excused' = [excused EXCEPT ![t] = @ \cup (done \ ran)]

(* What is new of the first n scripts runs, and the next one, if there is  *)
(* one, fails, and with it the scripts of all extensions after it.         *)
Inject(t, ids, n) ==
    LET done == First(ids, n) \ injected[t]
        ran == First(ids, n + 1) \ injected[t] IN
    /\ injected' = [injected EXCEPT ![t] = @ \cup done]
    /\ begun' = [begun EXCEPT ![t] = @ \cup ran]
    /\ again' = [again EXCEPT ![t] = @ \cup (ran \cap begun[t])]
    /\ excused' = [excused EXCEPT ![t] = @ \cup (ran \ done)]

(* TabManager.Navigate with the shell's callback. *)
Navigate == \E t \in Views, url \in Addresses, order \in SetToSeqs(active) :
    LET ids == Matching(order, url) IN
    /\ page[t] \notin {Closed, url}
    /\ page' = [page EXCEPT ![t] = url]
    /\ \E n \in Stops(t, ids) : Inject(t, ids, n)
    /\ UNCHANGED <<hosted, active, registry, sheets, injectedCSS>>

(* Add, Back, Forward, SetURL and RestoreClosed change the URL of a tab    *)
(* and inject nothing.                                                     *)
ShowPage == \E t \in Views, url \in Addresses :
    /\ page[t] # url
    /\ page' = [page EXCEPT ![t] = url]
    /\ UNCHANGED <<hosted, active, registry, sheets, injectedCSS, perTab>>

(* The record goes and the sandboxes stay, for the tab that is opened      *)
(* again under its ID.                                                     *)
CloseView == \E t \in Views :
    /\ page[t] # Closed
    /\ page' = [page EXCEPT ![t] = Closed]
    /\ injected' = [injected EXCEPT ![t] = {}]
    /\ excused' = [excused EXCEPT ![t] = @ \cup begun[t]]
    /\ UNCHANGED <<hosted, active, registry, sheets, injectedCSS, begun, again>>

ScriptsNext ==
    \/ Hosted \/ Toggled \/ Removed
    \/ UnregisterContentScripts \/ InjectCSS \/ RemoveCSS
    \/ Navigate \/ ShowPage \/ CloseView

ScriptsSpec == ScriptsInit /\ [][ScriptsNext]_scriptVars

-----------------------------------------------------------------------------
Ids(ss) == {s.ID : s \in ToSet(ss)}

ScriptsTypeOK ==
    /\ active \subseteq hosted /\ hosted \subseteq Authors
    /\ \A e \in Authors : \A s \in ToSet(registry.byExtID[e]) \cup ToSet(sheets.byExtID[e]) :
           s.ExtID = e
    /\ \A t \in Views : page[t] \in Addresses \cup {Closed}
    /\ \A t \in Views : again[t] \cup injected[t] \subseteq begun[t]

(* Pages get the scripts of the extensions that are installed, and no      *)
(* script twice: what an extension's own list says is also in the list of  *)
(* all, only installed extensions have scripts, the style sheets are those *)
(* an extension can take back; what is recorded as injected did run, and a *)
(* script begins a second time in a tab's sandbox only if it failed or the *)
(* tab has been closed in between.                                         *)
ScriptsRunOnce ==
    /\ \A e \in Authors :
           /\ Ids(registry.byExtID[e]) \subseteq Ids(registry.scripts)
           /\ e \notin hosted => e \notin {s.ExtID : s \in ToSet(registry.scripts)}
           /\ Ids(sheets.byExtID[e]) = ToSet(injectedCSS[e])
    /\ Ids(sheets.scripts) = UNION {ToSet(injectedCSS[e]) : e \in Authors}
    /\ \A t \in Views : injected[t] \subseteq begun[t] /\ again[t] \subseteq excused[t]
=============================================================================
