--------------------------- MODULE ExtensionManager ---------------------------
(***************************************************************************)
(* The extension Manager of browser/extensions: discovery, installation    *)
(* and update of packages, the lifecycle with its start and stop hooks,    *)
(* lazy start, hot reload and removal.                                     *)
(*                                                                         *)
(* The shell calls the manager from the UI goroutine, and every method     *)
(* holds m.mu or lifecycle.mu where it changes state, so one call is one   *)
(* action; only the lazy loader shows a state of its own while it loads.   *)
(* A version stands for a whole manifest.  Virtual machines are numbered   *)
(* in the order they are made, and 0 is nil.                               *)
(***************************************************************************)
EXTENDS Integers, Sequences, FiniteSets, FiniteSetsExt

CONSTANTS Exts,       \* extension ids
          Versions,   \* the versions of manifests and packages
          MaxEdits,   \* bound on the writes to extension directories
          MaxStarts   \* bound on the virtual machines made

ASSUME ManagerAssumption ==
    /\ IsFiniteSet(Exts) /\ Versions \subseteq Nat \ {0}
    /\ MaxEdits \in Nat /\ MaxStarts \in Nat

VARIABLES
    disk,        \* the directory's manifest: a version, Absent or Broken
    mtime,       \* latest modification time in the directory
    discovered,  \* discovery.loaded
    object,      \* extensions: the version and the Enabled field of an entry
    lifecycle,   \* lifecycle.enabled and lifecycle.states
    engine,      \* what the hooks made for an extension
    loader,      \* contentLoader: versions whose scripts are registered
    lazy,        \* lazyLoader.states
    watching,    \* hotReloader.watching: lastMod, or Unwatched
    starts       \* number of virtual machines made

stored == <<disk, mtime, discovered>>
tools == <<lazy, watching>>
managerVars == <<stored, object, lifecycle, engine, loader, tools, starts>>

clock == Max({mtime[e] : e \in Exts})   \* the time of the last write

Absent == 0
Broken == -1
Unwatched == -1
NotInstalled == [version |-> 0, flag |-> FALSE]
Installed == {e \in Exts : object[e] # NotInstalled}

(* vm: BackgroundVM of the object; api: the machine of chromeAPIs[id];     *)
(* worker: that of serviceWorkers[id]; sandbox: sandboxes[id]; routed and  *)
(* dynamic: the sandbox the router and the scripting manager know;         *)
(* handlers: machines whose listeners the router calls.                    *)
NoEngine == [vm |-> 0, api |-> 0, worker |-> 0, sandbox |-> "none",
             routed |-> "none", dynamic |-> "none", handlers |-> {}]

Off == [on |-> FALSE, state |-> "Disabled"]
On == [on |-> TRUE, state |-> "Enabled"]

ManagerInit ==
    /\ disk = [e \in Exts |-> Absent] /\ mtime = [e \in Exts |-> 0]
    /\ discovered = {} /\ object = [e \in Exts |-> NotInstalled]
    /\ lifecycle = [e \in Exts |-> Off] /\ engine = [e \in Exts |-> NoEngine]
    /\ loader = [e \in Exts |-> <<>>]
    /\ lazy = [e \in Exts |-> "Unregistered"] /\ watching = [e \in Exts |-> Unwatched]
    /\ starts = 0

-----------------------------------------------------------------------------
(* The hooks.  A background script or a worker may fail to load.           *)
Outcomes == {"script fails", "runs", "worker fails", "worker runs"}
Fails(g, outcome) == g.api = 0 /\ outcome \in {"script fails", "worker fails"}

(* A start that fails half way takes nothing back. *)
onExtensionStart(g, outcome, listens) ==
    IF g.api # 0 THEN g
    ELSE [vm |-> starts + 1, api |-> starts + 1,
          worker |-> IF outcome \in {"worker fails", "worker runs"} THEN starts + 1 ELSE g.worker,
          sandbox |-> "open", routed |-> "open", dynamic |-> "open",
          handlers |-> IF listens THEN g.handlers \cup {starts + 1} ELSE g.handlers]

\* Faulty form of the next definition: the router keeps the sandbox.
StopKeepingRoute(g) ==
    [g EXCEPT !.api = 0, !.worker = 0, !.vm = IF g.api # 0 THEN 0 ELSE @]

(* Listeners stay with the router, and the sandbox with the scripting      *)
(* manager.                                                                *)
onExtensionStop(g) ==
    [g EXCEPT !.api = 0, !.worker = 0, !.routed = "none",
              !.vm = IF g.api # 0 THEN 0 ELSE @]

Started(g, h) == IF h.api # g.api /\ h.api > starts THEN starts' = h.api ELSE UNCHANGED starts

\* Faulty form of the next definition: the extension's own flag is forgotten.
SetLifecycleOnly(e, l, flag) ==
    /\ lifecycle' = [lifecycle EXCEPT ![e] = l]
    /\ UNCHANGED object

SetFlags(e, l, flag) ==
    /\ lifecycle' = [lifecycle EXCEPT ![e] = l]
    /\ object' = [object EXCEPT ![e].flag = flag]

Keep(e, g) == engine' = [engine EXCEPT ![e] = g] /\ Started(engine[e], g)

-----------------------------------------------------------------------------
(* LifecycleManager *)
EnableEffect(e, g, outcome, listens) ==
    LET h == onExtensionStart(g, outcome, listens) IN
    IF lifecycle[e].on
    THEN /\ Keep(e, IF g.vm = 0 THEN h ELSE g)
         /\ UNCHANGED <<lifecycle, object>>
    ELSE /\ Keep(e, h)
         /\ IF Fails(g, outcome) THEN UNCHANGED <<lifecycle, object>>
                                 ELSE SetFlags(e, On, TRUE)

Enable == \E e \in Installed, outcome \in Outcomes, listens \in BOOLEAN :
    /\ starts < MaxStarts
    /\ EnableEffect(e, engine[e], outcome, listens)
    /\ UNCHANGED <<stored, loader, tools>>

Disable == \E e \in Installed :
    /\ lifecycle[e].on
    /\ Keep(e, onExtensionStop(engine[e]))
    /\ SetFlags(e, Off, FALSE)
    /\ UNCHANGED <<stored, loader, tools>>

(* Reload does not look at the flags, nor change them. *)
Reload == \E e \in Installed, outcome \in Outcomes, listens \in BOOLEAN :
    /\ starts < MaxStarts
    /\ Keep(e, onExtensionStart(onExtensionStop(engine[e]), outcome, listens))
    /\ lifecycle' = IF outcome \in {"script fails", "worker fails"} THEN lifecycle
                    ELSE [lifecycle EXCEPT ![e].state = "Enabled"]
    /\ UNCHANGED <<stored, object, loader, tools>>

(* The sandbox is closed first.  An extension that is not enabled is not   *)
(* stopped, whether it runs or not.  Stopping cannot fail.                 *)
Uninstall == \E e \in Installed :
    /\ LET g == engine[e]
           Shut(s) == IF s = "open" THEN "closed" ELSE s
           h == [g EXCEPT !.sandbox = "none", !.routed = Shut(@), !.dynamic = Shut(@)]
       IN Keep(e, IF lifecycle[e].on THEN onExtensionStop(h) ELSE h)
    /\ object' = [object EXCEPT ![e] = NotInstalled]
    /\ lifecycle' = [lifecycle EXCEPT ![e] = Off]
    /\ loader' = [loader EXCEPT ![e] = <<>>]
    /\ disk' = [disk EXCEPT ![e] = Absent]
    /\ UNCHANGED <<mtime, discovered, tools>>

-----------------------------------------------------------------------------
(* Registration: a new object, enabled and not started. *)
Entry(v) == [version |-> v, flag |-> TRUE]

WithScripts(e, v) == loader' = [loader EXCEPT ![e] = Append(@, v)]

(* An id that was found once is never found again. *)
Scan ==
    LET found == {e \in Exts \ discovered : disk[e] \in Versions}
        new == found \ Installed IN
    /\ found # {}
    /\ discovered' = discovered \cup found
    /\ object' = [e \in Exts |-> IF e \in new THEN Entry(disk[e]) ELSE object[e]]
    /\ lifecycle' = [e \in Exts |-> IF e \in new THEN On ELSE lifecycle[e]]
    /\ engine' = [e \in Exts |-> IF e \in new THEN [engine[e] EXCEPT !.vm = 0] ELSE engine[e]]
    /\ loader' = [e \in Exts |-> IF e \in new THEN Append(loader[e], disk[e]) ELSE loader[e]]
    /\ UNCHANGED <<disk, mtime, tools, starts>>

Extracted(e, manifest) ==
    /\ clock < MaxEdits
    /\ disk' = [disk EXCEPT ![e] = manifest]
    /\ mtime' = [mtime EXCEPT ![e] = clock + 1]
    /\ UNCHANGED discovered

(* The package is extracted over what is in the directory; if that fails,  *)
(* or the manifest in it cannot be read, the files stay.  Then the new     *)
(* object is registered, and stopped or started: a start that fails leaves *)
(* the extension installed.                                                *)
InstallPackage(e, v, enable, outcome, listens) ==
    LET g == [engine[e] EXCEPT !.vm = 0] IN
    /\ e \notin Installed
    /\ Extracted(e, v)
    /\ WithScripts(e, v)
    /\ object' = [object EXCEPT ![e] = [version |-> v, flag |-> enable]]
    /\ lifecycle' = [lifecycle EXCEPT ![e] = IF enable THEN On ELSE Off]
    /\ Keep(e, IF enable THEN onExtensionStart(g, outcome, listens) ELSE onExtensionStop(g))
    /\ UNCHANGED tools

Install == \E e \in Exts, v \in Versions, enable, listens \in BOOLEAN, outcome \in Outcomes :
    /\ starts < MaxStarts
    /\ InstallPackage(e, v, enable, outcome, listens)

ExtractFails == \E e \in Exts :
    /\ e \notin Installed
    /\ Extracted(e, Broken)
    /\ UNCHANGED <<object, lifecycle, engine, loader, tools, starts>>

(* A newer package of an installed extension is installed like any other:  *)
(* under the id its manifest's name gives, which must not be installed, so *)
(* the package of the extension itself is always refused.                  *)
DownloadAndUpdate == \E of \in Installed, id \in Exts, v \in Versions, listens \in BOOLEAN,
                       outcome \in Outcomes :
    /\ starts < MaxStarts /\ v > object[of].version
    /\ InstallPackage(id, v, object[of].flag, outcome, listens)

-----------------------------------------------------------------------------
(* Lazy start *)
EnableLazy == \E e \in Installed :
    /\ SetFlags(e, On, TRUE)
    /\ lazy' = [lazy EXCEPT ![e] = "NotLoaded"]
    /\ UNCHANGED <<stored, engine, loader, watching, starts>>

Unload == \E e \in Exts :
    /\ lazy[e] = "Loaded"
    /\ lazy' = [lazy EXCEPT ![e] = "NotLoaded"]
    /\ UNCHANGED <<stored, object, lifecycle, engine, loader, watching, starts>>

(* LoadIfNeeded.  A second caller that finds it loading waits and changes  *)
(* nothing.                                                                *)
LoadBegins == \E e \in Exts :
    /\ lazy[e] = "NotLoaded"
    /\ lazy' = [lazy EXCEPT ![e] = "Loading"]
    /\ UNCHANGED <<stored, object, lifecycle, engine, loader, watching, starts>>

LoadEnds == \E e \in Exts, outcome \in Outcomes, listens \in BOOLEAN :
    /\ lazy[e] = "Loading" /\ starts < MaxStarts
    /\ IF e \in Installed
       THEN /\ EnableEffect(e, engine[e], outcome, listens)
            /\ lazy' = [lazy EXCEPT ![e] =
                   IF Fails(engine[e], outcome) /\ (lifecycle[e].on => engine[e].vm = 0)
                   THEN "NotLoaded" ELSE "Loaded"]
       ELSE /\ lazy' = [lazy EXCEPT ![e] = "NotLoaded"]
            /\ UNCHANGED <<object, lifecycle, engine, starts>>
    /\ UNCHANGED <<stored, loader, watching>>

-----------------------------------------------------------------------------
(* Hot reload *)
WatchExtension == \E e \in Installed :
    /\ watching[e] = Unwatched /\ disk[e] # Absent
    /\ watching' = [watching EXCEPT ![e] = mtime[e]]
    /\ UNCHANGED <<stored, object, lifecycle, engine, loader, lazy, starts>>

UnwatchExtension == \E e \in Exts :
    /\ watching[e] # Unwatched
    /\ watching' = [watching EXCEPT ![e] = Unwatched]
    /\ UNCHANGED <<stored, object, lifecycle, engine, loader, lazy, starts>>

(* HotReloader.Check of one directory that changed, with reloadExtension:  *)
(* stop it if it is enabled, read the manifest, start it; a step that      *)
(* fails leaves it stopped and will be tried again.  An extension that was *)
(* disabled is enabled.                                                    *)
Check == \E e \in Exts, outcome \in Outcomes, listens \in BOOLEAN :
    /\ watching[e] # Unwatched /\ disk[e] # Absent /\ mtime[e] > watching[e]
    /\ e \in Installed /\ starts < MaxStarts
    /\ LET g == IF lifecycle[e].on THEN onExtensionStop(engine[e]) ELSE engine[e]
           read == disk[e] \in Versions
           ok == read /\ ~Fails(g, outcome) IN
       /\ Keep(e, IF read THEN onExtensionStart(g, outcome, listens) ELSE g)
       /\ lifecycle' = [lifecycle EXCEPT ![e] =
              IF ok THEN On ELSE IF lifecycle[e].on THEN Off ELSE @]
       /\ object' = [object EXCEPT ![e] =
              [version |-> IF read THEN disk[e] ELSE @.version, flag |-> ok]]
       /\ watching' = IF ok THEN [watching EXCEPT ![e] = mtime[e]] ELSE watching
    /\ UNCHANGED <<stored, loader, lazy>>

(* The user writes to a watched directory. *)
WriteFiles == \E e \in Exts, manifest \in Versions \cup {Broken} :
    /\ Extracted(e, manifest)
    /\ UNCHANGED <<object, lifecycle, engine, loader, tools, starts>>

ManagerNext ==
    \/ Enable \/ Disable \/ Reload \/ Uninstall
    \/ Scan \/ Install \/ ExtractFails \/ DownloadAndUpdate
    \/ EnableLazy \/ Unload \/ LoadBegins \/ LoadEnds
    \/ WatchExtension \/ UnwatchExtension \/ Check
    \/ WriteFiles

ManagerSpec == ManagerInit /\ [][ManagerNext]_managerVars

-----------------------------------------------------------------------------
ManagerTypeOK ==
    /\ \A e \in Exts : disk[e] \in Versions \cup {Absent, Broken} /\ mtime[e] \in 0..MaxEdits
    /\ discovered \subseteq Exts
    /\ \A e \in Exts : object[e] = NotInstalled \/ object[e].version \in Versions
    /\ \A e \in Exts : lifecycle[e].on \in BOOLEAN /\ lifecycle[e].state \in {"Disabled", "Enabled"}
    /\ \A e \in Exts : {engine[e].vm, engine[e].api, engine[e].worker} \subseteq 0..starts
    /\ \A e \in Exts : \A i \in DOMAIN loader[e] : loader[e][i] \in Versions
    /\ starts \in 0..MaxStarts
    /\ \A e \in Exts : lazy[e] \in {"Unregistered", "NotLoaded", "Loading", "Loaded"}

(* What an extension consists of while it runs belongs together, after     *)
(* failed starts, reloads of disabled extensions, removals and new         *)
(* installations under the same id: its object and its service worker use  *)
(* the machine the chrome.* API is bound to, and messages are routed to    *)
(* its sandbox only while there is one.                                    *)
EngineIsWhole ==
    \A e \in Exts : LET g == engine[e] IN
        /\ g.vm \in {0, g.api} /\ g.worker \in {0, g.api}
        /\ g.routed # "none" => g.api # 0

(* The manager's two records of what is enabled agree, and pages get the   *)
(* content scripts of an extension once while it is installed and not at   *)
(* all after it was removed.                                               *)
RecordsAgree ==
    \A e \in Exts :
        /\ e \in Installed => object[e].flag = lifecycle[e].on
        /\ lifecycle[e].on => e \in Installed /\ lifecycle[e].state = "Enabled"
        /\ Len(loader[e]) = IF e \in Installed THEN 1 ELSE 0
=============================================================================
