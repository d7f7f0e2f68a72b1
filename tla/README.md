# Verification of thdwb

TLA+ models, TLC configurations and TLAPS proofs for the thdwb web browser.
Paths below are relative to the repository; `wc.go` stands for
`hotdog/window_context.go` and `js.go` for `hotdog/js_bindings.go`.

Run from this directory:

    tlc -workers 2 -config WindowScripts.cfg WindowScripts.tla
    tlapm ReentrantMutexProofs.tla

`PROJECT.json` lists the runs, the theorems, the hazards the properties are aimed
at and, for every definition, the source lines it stands for. A definition under
the comment "Faulty form of the next definition" is not part of any
specification: it is the next definition with one plausible bug, kept to show
that a property would notice that bug.

## 1. Inventory

### Parts, their state and how they interact

| Part | State | Operations | Talks to |
|---|---|---|---|
| Window runtime lock (`hotdog/wc.go:24-100`) | owner goroutine, depth, waiters | lock, tryLock, unlock | every path that runs page scripts |
| Window (`hotdog/wc.go`) | active, destroyed, runtime, document, listeners, frame queue with its timer, observers | LoadHTML, RunJS, SetActive, ScheduleAnimationFrame, Emit*Event, Destroy | timers and network goroutines call back into its queue |
| JavaScript bindings (`hotdog/js.go`) | per-object closures: listeners, one state machine per XMLHttpRequest | DOM calls, fetch, XMLHttpRequest, postMessage, storage | window, DOM, storage, `sauce` |
| DOM (`hotdog/node.go`) | tree of nodes with five link fields each | append, insert, replace, remove, clone, innerHTML | window (wrappers, reflow queue) |
| Web storage (`hotdog/storage.go`) | one map for all windows and its file; one session map per window | set, remove, clear, move between containers | tabs, containers |
| Tabs (`browser/shell/tab.go`, `session.go`, `suspension`) | open tabs, active tab, closed stack, back and forward lists, saved session, suspended tabs | add, close, activate, move, navigate, suspend, restore | shell windows, address bar, extensions |
| Shell (`browser/shell/shell.go`) | map from tabs to windows | load, close, keyboard commands | everything above |
| User lists (`browser/shell/bookmarks.go`, `history.go`, `addressbar.go`) | bookmarks and folders, visits, suggestions, side bars | toggle, add, remove, submit, suggest | toolbar, extensions |
| Extension manager (`browser/extensions/manager.go`, `lifecycle.go`, ...) | registry, lifecycle states, sandboxes, routes, lazy and hot loading | install, enable, disable, reload, remove, update | shell, hooks |
| chrome.* (`browser/extensions/chrome_api.go`, `shell/extension_ops.go`) | tables of listeners; alarms, permissions, menus, notifications, downloads, cookies, containers | about 130 methods with callbacks | shell, manager, network |
| Extension storage, content scripts (`storage.go`, `content_script_loader.go`) | partitions and files; registrations and what was injected | get, set, clear; register, inject, remove | chrome.*, tabs |
| Extension processes (`extensions/multiprocess`) | process state, pending IPC requests | start, stop, send | child processes over pipes |
| Network (`sauce`) | caches, cookie jars, HSTS set, certificate pins, observers | fetch, CORS requests, pins | bindings, chrome.* |
| Widgets (`mustard`) | widgets of a window with selection and focus; windows of the program | pointer, keys, menus; add, activate, destroy | shell |
| CSS (`mayo`), layout (`bun`), parsing (`ketchup`), drawing (`gg`) | trees of data and pixels | pure transformations | shell |
| Gallery, updates (`browser/gallery`, `browser/autoupdate`) | catalog, download directories; last check | list, scan, install; check, download | installer of extensions, network |
| Logs (`telemetry`, `errors`, `extensions/crash`) | bounded logs, pending metrics | record, submit, recover | shell |

One UI goroutine runs the shell. Goroutines besides it are started by
`time.AfterFunc` (the frame queue), by every `fetch` and `XMLHttpRequest.send`,
by service workers and by extension processes. All of them meet in the window:
its runtime lock, its frame queue and its event registries.

### What is hard, and what makes each part correct

* *Runtime lock.* Goja runtimes are not thread-safe, and scripts call back into
  Go code that takes the lock again. Correct means: exclusive, counted, no lost
  wakeup.
* *Frame queue.* Timers fire while the window is paused, navigated or destroyed;
  a stopped timer may already have started its goroutine. Correct means: each
  callback runs at most once, in order, eventually, in bounded frames, and never
  after Destroy.
* *Navigation.* Answers of the old document's requests arrive in the new
  document.
* *DOM.* The tree is stored five times over and kept consistent by hand; a loop
  is fatal for the process.
* *Storage.* A save can fail or be cut off; some operations undo their change in
  memory and some do not; tabs move between containers while their pages run.
* *Tabs and windows.* Two maps that must agree are changed by different commands.
* *Extension IPC.* Timeouts, late answers, end of file and Close all end the same
  request.
* *Extension lifecycle and events.* Hooks and listeners run with mutexes held;
  two maps say what is enabled; scripts of one extension are entered from several
  goroutines; calls look for their callback by position.
* *Alarms, downloads, XMLHttpRequests, update downloads.* A goroutine finishes
  work on a record, a file or an object that somebody else has changed meanwhile.
* *Pins, cookies, containers, partitions of extensions.* Persisted sets, some of
  which are rolled back when a save fails and some not.
* *Caches, HSTS, redirects.* Shared by all windows and filled by overlapping
  fetches.

The full list, with the lines, is under "hazards" in `PROJECT.json`.

## 2. Modules and plan

Written, in this order:

| Module | Stands for | Uses |
|---|---|---|
| `OwnerLock` | abstract reentrant lock | |
| `ReentrantMutex` | the mutex with its condition variable | implements `OwnerLock` |
| `ReentrantMutexProofs` | its theorems | |
| `WindowScripts` | one window's frames, scripts, navigation, pause, Destroy | the runtime as an `OwnerLock` |
| `WindowScriptsProofs` | its theorems | |
| `OrderedForest` | abstract forest of ordered trees | |
| `DomTree` | the linked tree and the script calls on it | implements `OrderedForest` |
| `DomTreeProofs` | its theorems, with the refinement of `OrderedForest` | |
| `RecoverableStore` | abstract saved store | |
| `WebStorage` | localStorage, its file, tabs and windows | implements `RecoverableStore` |
| `WebStorageProofs` | its theorems | |
| `BrowsingHistory` | abstract line of visited pages with a place in it | |
| `TabManager` | the tab bar, the closed stack, back and forward lists | implements `BrowsingHistory` |
| `BrowserShell` | tabs with their windows, script records and session file; restarts | extends `TabManager` |
| `BrowserShellProofs` | theorems about the tab manager, the shell and what stands beside it | extends `MCBrowserShell` |
| `ListChoice` | the loop that copies what it keeps of a list | used by the next three rows, `ContentScripts` and `CookieRules` |
| `TabSuspension` | the suspender with the tab bar it is given | beside `BrowserShell` |
| `UserLists` | bookmarks, visits, suggestions | beside `BrowserShell` |
| `WidgetEvents`, `WindowApp` | pointer, keys and menus in a window; the windows of the program | beside `BrowserShell` |
| `ExtensionManager` | discovery, lifecycle, lazy and hot loading, installation, updates | |
| `IPCConnection` | requests to a child process, time-outs, Close | |
| `ExtensionStorage` | partitions, their files, containers, sync | |
| `ExtensionAlarms` | alarms, timers and the goroutines of due timers | |
| `ContentScripts` | registration, matching, injection, style sheets | |
| `ExtensionsProofs` | theorems about the five modules above and their sum | extends `MCExtensions` |
| `ChromeCalls` | arguments, callback, event and result of each method | |
| `ExtensionEvents` | listeners, router, observer, permission mutex | |
| `ExtensionRecords` | context menus, permissions, notifications | |
| `Downloads` | chrome.downloads and its goroutines | |
| `Containers` | containers, their file, cookies moved between them | |
| `CertificatePins` | the pin store, its file, the handshake | |
| `CookieRules` | which Set-Cookie lines are kept, which cookies a request takes | |
| `NetworkClient` | upgrade, cache, redirects, HSTS | |
| `WindowMessages` | postMessage between windows on several goroutines | runtimes as `OwnerLock`s |
| `XMLHttpRequests` | one request object with its goroutines and frame queue | |
| `Gallery` | catalog, scanner, installation | |
| `ProgramUpdates` | judgement of a manifest, download and check | |
| `Telemetry`, `FaultLogs` | metrics and their submission; crashes, recovery, errors | |
| `ServicesProofs` | theorems about every part of `MCServices` but `CookieRules` and `Gallery` | extends `MCServices` |
| `ServicesTypesProofs` | theorems about these two, and the types of all parts | extends `ServicesProofs` |

`MCExtensions`, `MCServices` and `MCBrowserShell` put components that share no
state into one run as a sum: a variable `part`, chosen in the initial state, says
which component moves, and the others stay in their first state. Each component
is thus explored completely by itself, and the numbers of states add up. Their
invariants are conjunctions `part = "x" => InvariantOfX`, and each conjunct is a
named definition of its module, with a comment of its own.

What is left, most useful first: the observers and the copy of handlers of
`EmitEvent` in `WindowScripts`; the life of a machine after its extension was
removed beyond its storage; settings; the batch of DOM mutations
(`browser/render`) once something fills it.

## 3. How the models correspond to the code

**ReentrantMutex.** `owner` and `depth` are the fields of those names, written
only inside `m.mu`, hence one action per critical section. `cond.Wait` parks and
releases `m.mu` atomically; `pc` says whether a goroutine runs, is parked or was
woken and has not yet tested the loop condition. A barging `lock` may come
between. `held` is history: the acquisitions a goroutine has not released. An
`unlock` by a goroutine that is not the owner is ignored, as in the code.

**WindowScripts.** Each section under `animationFrameMu` is one action. `pump`
holds the timers and the goroutines they started: armed, fired (before the
snapshot), drained (with a snapshot, waiting for the runtime), running, calling a
callback, re-arming. `timer` is the window's handle, and as in the code a fired
goroutine clears it even if it meanwhile points at a newer timer. The UI
goroutine executes LoadHTML, Destroy and scripts in the steps at which other
goroutines can see intermediate states. A closure is abstracted to the document
that created it, which is what `NoStaleCallback` needs. `retired`, `id`, `doc`
and `limit` are history. A request's answer queues exactly one callback, the one
that settles it.

**DomTree.** `tree` has the fields Parent, Children, FirstChild, PrevSibling and
NextSibling. Helpers are functions from trees to trees, so that a call that
unlinks and then fails is the composition the code executes. A loop over Children
that stops at a node is the `Place` of that node; the walk up the Parent links is
`Ancestry`, the least set that holds a node and the parent of each of its members;
a clone is the subtree of the original with its nodes replaced by fresh ones, by
position in a listing (`WithCopies`). `appendChild` with
an ancestor, `insertBefore` with a reference that is no child, and a clone of a
subtree follow the code, including their partial effects. Markup for
`setInnerHTML` is abstracted to at most two new elements, nested or not.

**WebStorage.** Every operation of the manager runs under its mutex and ends with
`persistLocked`, whose rename makes the new file visible at once; so an
operation either changes memory and file together (`Saved`), or reports an error
with memory put back (`RolledBack`) or not (`KeptInMemory`), as the operation's
code does. `Restart` covers a crash at any point. `page[t]` is the origin a tab's
JavaScript runtime was set up for; a tab's URL may have moved on (UpdateTab, a
failed load, a redirect). An absent and an empty partition read the same and are
one value. Moves happen between different containers, which is what UpdateTab's
guard ensures; the whole-container operations stand for the embedder's calls.

**TabManager.** One action per method of `tab.go`; all of them run on the UI loop.
A tab is named by its ID, which the process never gives out twice, so the pointer
and the ID are one. Title, favicon and container are data no property reads, and
an absent `tabNav` is an empty one. The tab that is closed keeps its `IsActive`
flag, as in the code. `MoveTab`, `RestoreClosed` and `Close` of any tab are
modelled although the shell calls only some of them: they are exported.

**BrowserShell.** One UI event per action, with every listener it runs: a key, a
click, a call of chrome.tabs; `ReopenTab` is the tab manager's `RestoreClosed`, which
the shell exports with its manager and calls nowhere itself. `windows` and `injected`
are the keys of `tabWindowContexts` and `injectedScripts`; the listener that `buildUI`
installs prunes the second on every event, and nothing prunes the first: `closeTab` is
called by Control-W only, so a tab that an extension closes keeps its window, and finds
it again when it is re-opened. No property asks otherwise, since the code would break
it at the first such call. `InjectedTracksOpenTabs` speaks of the script records alone:
a record that stayed behind would keep a re-opened tab from getting its content
scripts. Navigate makes its entries whether or not the page loads. Control-W
destroys the window of the active tab and leaves the tab. `Restart` is a Close
that saves, a Close or a crash that does not, then Init with the session that was
read: the tabs come back under new IDs from 1, and the saved active ID is looked
up among them. The file is written under another name and renamed, so a reader
sees the old or the new session.

**TabSuspension.** The suspender and the tab bar run on different calls and only
the bar knows what is closed, activated or re-opened; nothing in the shell tells
the suspender. `roomiest` is history. `ProtectPinnedTabs` has no effect, as
`isPinned` is constantly false. A tab that never had activity recorded is never
swept.

**UserLists.** Folder 0, which every bookmark names, never exists, so each
bookmark brings a folder of its own with the next ID, and its number stays in that
folder when the bookmark is removed; the invariant says what holds all the same.
The side bars are built once, while the lists are empty.

**WidgetEvents, WindowApp.** One event of the driver is one action; widgets are
lists in the order of registration. `looked` remembers which widget was under the
pointer when the window last looked, or that this cannot be known because a button
was replaced. The driver copies the list of windows when it starts.

**ExtensionManager.** One call of the manager is one action, with its hooks and
every early return; a version stands for a manifest, virtual machines are
numbered. `engine` holds what the start hook makes (machine, API entry, route,
worker), part by part, so that a failing step leaves what came before it.

**IPCConnection.** Each section under `ipc.mu` is an action. The child may answer
late, twice, without being asked, or never; `ExtensionProcess.Start` cannot
succeed at this commit (it sets `Stdout` before it calls `StdoutPipe`), so the
connection is modelled and the life of the process is not.

**ExtensionStorage, ExtensionAlarms, ContentScripts.** A save of a partition can be
refused, succeed, or be cut short with the file truncated. `Uninstall` removes the
file of an extension's own partition but neither stops its machine nor takes the
partition from its chrome.storage: `old` is what the machines of removed extensions
hold, each of which may go on to set, remove and clear (`OldMachineWrites`) and thereby
bring the file back, and `foreign` records that such a machine wrote last. What they
write is all that `StorageIsOnDisk` excuses beside failed saves: the file then holds
exactly what one of them has, and only until the partition in use is saved. An alarm's goroutine
runs its listeners without a lock and then removes whatever the table has under
its name. Registrations are kept twice, in the loader's list and by ID; the record
of injected scripts and the sandboxes of tabs are separate, and a sandbox outlives
its tab.

**ChromeCalls.** Tables give each method of chrome.* its shape: the fewest
arguments, where the callback is looked for, which event fires and when, and how an
error is told. A machine with a stack runs calls and those that their listeners and
callbacks make. What a method does to state is in the other modules. The module maps
about 2600 lines of `chrome_api.go` onto these tables: they say of each method how its
callback and its events come about and nothing else, so that the share of the source
which `map` counts says here what was abstracted and not how much detail is modelled.
Many methods hand their answer to the callback as `this` and not as an argument
(`chrome_api.go:934`), as does the listener of messages (`chrome_api.go:799`); the model
asks whether the callback is told, not what it sees.

**ExtensionEvents, ExtensionRecords, Downloads.** A listener is a script that may
call the API again on the goroutine that called it. The router's and the
permissions' mutex are held meanwhile, so `Blocks` leaves a goroutine waiting for
ever; the models have this outcome and the properties speak of what still holds.
Menu items are found under the key they were created with; the event of a
notification is fired after its table is unlocked. The goroutine of a download
reads its number from the shared counter after the lock is released; downloads of
two calls that overlap are `mixedUp` and excepted from `DownloadsAreTrue`.

**Containers, CertificatePins.** Cookies are numbered as they are set and have one
identity, so one partition holds one. The jar that chrome.cookies uses and the jar
of a window are different stores. A pin store that cannot be read stays `failed`
and refuses every connection; a change that cannot be written is taken back.

**CookieRules, NetworkClient.** A host is a sequence of labels, a path a sequence of
characters; `CookiesAreMeant` compares the code's jar with a definition of what a
server may count on, made from the lines it sent. A fetch is the upgrade to https,
the cache, one round trip per redirect, and the entry in the cache; two windows
fetching one URL both download it.

**WindowMessages, XMLHttpRequests.** A goroutine holds the runtimes of the windows on
its call stack; a message runs on the sender's goroutine when the target's runtime
is free, and otherwise from the target's frame queue, from which a navigation or
Destroy drops it. `owed` has what a window is still to run: every message posted to it
while it runs, until it is paused (when only what is in its queue stays owed),
navigated away from (when what is in its queue is not owed any more) or destroyed. The
property demands that what is owed is on its way, queued or heard. It demands no order:
a message that was queued and a later one delivered at once may change places. That a
queue is served in the end is `FrameIsServed` of the window. `late` marks a message that
a page loaded later would hear. A
request is the number of its `open`; `disturbed` is set when `open` comes while a
request is in flight or a pause falls inside a frame, for which the code makes no
promise.

**Gallery, ProgramUpdates, Telemetry, FaultLogs.** Archives and bodies are their own
sums; where two entries of an archive have one name, the later one's file lasts. The
order of listings with equal downloads is any, as it comes from a Go map. The scan
directory is never emptied. `extractXPI` joins the name of an entry to that directory
unchecked (`gallery.go:298`), so an entry `leads` into it, into the directory of
another listing, beside it onto a package that waits for its own installation, or
away. The installer refuses such a package (`xpi.go:283`), but what it wrote stays. A
package with an entry onto itself ends its own unpacking. A program's download truncates
the file that has the release's name and leaves a partial one on errors. A submission
copies the metrics, gives up the lock for the request and then empties the list, with
what was recorded meanwhile. A recovery restarts an extension outside the lock and then
marks the newest crash of it. `alone` marks the operations that no other one of their
kind overlapped, and of installations also that nothing else was written onto their
package or directory meanwhile, as the code gives the others no guarantee.

**What is excused.** Some races the code loses by itself. The models contain them, and
a variable of history keeps the property from asking what the code does not give:
`disturbed` (a request opened again in flight), `mixedUp` (two downloads of one number),
`alone` (two installations or downloads onto the same file), `astray` (an alarm set again
while its goroutine runs), `excused` (scripts of a tab that was closed), `atRisk` and
`foreign` (a save that failed, a machine of a removed extension), `shared` (several
goroutines in one machine). The properties say nothing of these cases; what they say is
that nothing else goes wrong, and that the trouble ends where the code ends it. The
hazards in `PROJECT.json` name, each in its note, what is excused.

### Where the code surprises

While modelling we met behaviour that a reader of the code should know of. The
models contain it; no run is devoted to it.

* A reload by the hot reloader enables a disabled extension, and content scripts
  are not registered again, although `manager.go:552-553` says so; a failed start
  leaves its API entry, so that the next start appears to succeed.
* `DownloadAndUpdate` never replaces the extension it updates.
* The storage file of an uninstalled extension comes back when a timer or listener of
  its machine, which nobody stops, writes once more (`manager.go:825`).
* A tab that chrome.tabs.remove closes keeps its window for as long as the process
  runs, although `shell.go:521-523` says that `closeTab` releases it.
* The gallery unpacks entries whose names lead out of its directory, also onto the
  package of another listing.
* `registerContentScripts` fills a list that nothing injects from;
  `unregisterContentScripts` removes scripts of any extension.
* Several goroutines enter the one machine of an extension.
* Context menus are stored under the item's ID, while the field's comment
  (`extension_ops.go:32`) says by extension; one extension's `removeAll` removes the
  items of all, and an updated item loses its ID.
* Permissions outlive an uninstalled extension, and an extension that is no
  longer in the manager is granted what it asks for.
* `chrome.tabs.create({active: false})` answers with the tab that was active
  before; a method called without arguments reads argument -1 and panics where
  its callback is the last argument.
* An alarm's delay in milliseconds is used as nanoseconds, and a period is never
  scheduled again.
* The observer of web requests calls all callbacks of an extension once per entry,
  so that k listeners hear k*k times; patterns are ignored.
* `chrome.cookies.remove` never sets the domain and removes nothing.
* A cookie with Max-Age and no Expires never expires in the extension jar.
* Any http address of another host is upgraded, whatever HSTS says; the resource
  cache keeps answers of any status.
* A bookmark's item stays in its folder after the bookmark is gone.
* A suspended tab that is closed keeps its place under `MaxSuspendedTabs`.
* `extractXPI` turns the entry of a directory into a file, so an archive with such
  entries and files under them cannot be installed from the gallery.
* `isNewerVersion` takes 1.0.0 for newer than 1.0; `lastCheck` is set only when an
  update is offered.
* `SafeRun` tells its caller of no error after a panic, although its comment
  (`recovery.go:131`) says that panics are converted into errors.
* The opt-in to telemetry is written to a file that nothing reads.

## 4. Runs

| Run | Instance | Shows |
|---|---|---|
| `mutex` | 4 goroutines, 3 nested acquisitions | exclusive, counted, no lost wakeup, a free mutex is taken, implements `OwnerLock` |
| `window` | 3 timer slots, 2 frame ids, 1 navigation, 4 commands | at most once, in order and in frames that are bounded, nothing stranded, quiet after Destroy, frames are served, Destroy ends |
| `window_stale` | 2 slots, 2 commands | violates the comment at `wc.go:356-360`: a late answer runs in the next document |
| `dom` | 5 nodes | five encodings agree, no loop, every call is a move, a replacement or a building of subtrees |
| `dom_rejected` | 3 nodes | violates `dom_cycle_test.go:78` at the level of page scripts: a rejected append detaches |
| `storage` | 2 tabs, 2 containers, 2 origins, 1 key, 2 values | memory and file agree up to reported failures, implements `RecoverableStore`, moves keep keys |
| `storage_containers` | the same with 1 value | violates `wc.go:184-187`: windows of different containers share a partition |
| `tabs` | 3 tabs, 2 closed, 2 history entries, 2 pages | one active tab, no tab in two places, implements `BrowsingHistory` |
| `shell` | 2 tabs, 1 closed, 1 history entry, 2 pages; 4 list IDs; 3 tabs to suspend; 3 windows | script records are those of the open tabs, so that a re-opened tab gets its scripts again; a restart brings the saved pages back in order; lists, suspension, clicks and the active window agree with what they stand for |
| `extensions` | 2 extensions, 2 versions; 3 calls, 3 answers; 2 partitions, 1 machine of a removed extension; 2 alarms, 3 timers; 2 authors of scripts | halves of a running extension never remain, the registries agree, a call gets its own answer or an error, what was saved is on disk unless a save failed or a removed extension's machine wrote, an alarm can be cleared, a script runs once per page |
| `services` | two of most things that compete, see `MCServices.cfg` | stores agree with their files, a cookie, a record or a cached resource is kept once and can be taken back, downloads, requests, fetches, updates, submissions and recoveries that end have the result they were to have, no message that is owed to a window goes missing, listeners are those that were registered, a call that ends has told its callback once, cookies and packages are taken as they were meant |
| `shell_session` | 3 tabs | violates `session.go:125`: a restart may show another tab than the one saved as active |

Bounds. Four goroutines are the least with a holder, a woken waiter, one that
parks again and one that barges in. Three timer slots allow an old goroutine, a
newer drain and an armed timer at once, which takes two SetActive commands and
leaves two more for a script, a navigation or Destroy; two frame ids make order
visible, and one navigation makes an old and a new document. Five nodes hold two
parents and three siblings, or a chain with room to close a loop. Two containers
and two origins give every move a bystander on both sides; a second value makes
an overwriting merge visible. Three tabs make a neighbour on either side and an
order to move in; a closed stack of two overflows when the third is closed; two
entries of history let two tabs hold one each. The shell has two tabs because its
session file multiplies the states, and three in the run that shows what becomes
of the active one: IDs and places differ once an earlier tab was closed.
In the sums, two goroutines and two objects that compete are the least in which a
step of one falls between two of the other, and the bounds on operations
(`MaxOpens`, `MaxSends`, `MaxMessages`, `MaxDownloads`, `MaxListeners`, `MaxCalls`,
`MaxFetches`, `MaxNotes`, `MaxMetrics`, `MaxFaults`, ...) leave each at least one
operation after the first conflict. `MaxCached = 1` makes the second answer an
eviction; three timers let an alarm be set twice and be cleared; three calls with
three answers let one answer be late, one doubled and one out of turn; the
packages of the gallery are a sound one, one with a directory and remote code, and one
that writes onto the package and into the directory of the other listing, which takes
two listings and two names. `MaxOld = 1` gives a removed extension one machine that
writes on, beside the one of the extension that is installed again. `MCServices.cfg` gives
windows and extensions, and the goroutines of all parts, the same model values, so
that one symmetry set serves every part; no part compares a value with one of
another part. `MaxTabs` bounds the IDs of one process, of which the code has 2^63.
`MaxFrames`, `MaxDocuments`, `MaxCommands`,
`MaxDepth` and `NodeBudget` only cap counters; a run of `WindowScripts` or
`DomTree` ends when they are used up, so these two configurations do not check
for deadlock.

Fairness. In the mutex a woken goroutine is scheduled; nothing is assumed about
when a holder unlocks. In the window a timer fires, its goroutine proceeds
through its steps, a running script returns and the UI goroutine finishes the
command it began; the user need not issue commands, and no request need be
answered. These are the guarantees of the Go scheduler and timers, plus the
assumption that page scripts end, without which no property of a single-threaded
runtime could hold. The components of the sums are checked for safety only; that a
pending request, download or submission ends depends on the network.

## 5. Proofs

`ReentrantMutexProofs` proves, for every set of goroutines and every nesting
bound, type correctness, exclusion, the count and the absence of lost wakeups as
consequences of one inductive invariant (`Invariance`): none of them is inductive
alone, since exclusion needs that the owner's count is `depth` and that everybody
else's is zero, and the wakeups need that a goroutine is parked only behind an
owner. `Refinement` maps each step to a step or stutter of `OwnerLock`. The
assumptions are that `Free` is no goroutine and the bound is positive.

`WebStorageProofs` proves, for any sets of tabs, containers, origins, keys and
values: `AgreesWithFile` (every operation leaves memory and file equal or sets
the history flag; inductive as it stands), type correctness, `Refinement` (a
script's write is a `Write` to one partition; `TransferIsMove` shows that a
transfer is a `Moved` with an injective assignment of targets) and `MovesKeep`.
The assumptions are that the default container is one and that the marker values
are none of the ordinary ones.

`BrowserShellProofs` begins with the tab manager: it proves, for every limit of the
closed stack and every number of tabs, pages and history entries, type correctness,
`OneActiveTab` and `NoTabInTwoPlaces`. The invariant `TabsInv` joins them with two
facts: the bar and the closed stack hold each tab once between them, and every ID they
hold was given out before. `OneActiveTab` needs the first, because closing a tab clears
no flag and re-opening one appends a tab whose flag may still be set; the first needs
the second, because a new tab takes the next ID. `InsertAt` and `RemoveAt` of the
community modules have lemmas of their own, element by element; `MoveTabInv` uses them
to give each tab of the new bar its old index. `WalksOneLine` is the refinement of
`BrowsingHistory`. Its invariant `LinesInv` says that a tab which is closed, or still on
its empty page, has nothing behind or ahead of it, and that the empty page is in no
list: this is why a visit may forget the empty page, and why a tab that is re-opened
starts a line of one page. Lemmas about lists say what each operation makes of a line,
page by page (`LineAfterBack`, `LineAfterVisit`, ...). The assumptions are that the
bounds are naturals, `NoTab` is no ID and `Blank` no page.

`WindowScriptsProofs` proves, for every number of timers, frames, documents and
commands, type correctness, the order of callbacks, that no frame is stranded, that
a destroyed window is quiet, and the action property that a callback which ran is
never run again. The invariant `IInv` has six parts besides the types.
`HolderIsKnown` ties the runtime's holder to the steps of the goroutines, so that
one callback runs at a time. `TimerIsPending` says that the window's handle is of a
timer that has still to look at the queue; without it, "no timer, so arm one"
would not follow. `SnapshotsAreComplete` is what the order rests on: a goroutine
with a snapshot has in it, ascending, every queued identifier up to the counter's
value when it was taken, and what it calls is below all of these. `DestroyedStaysQuiet`
carries the steps of Destroy between its sections, `RetiredHaveLeft` keeps what ran
or was cancelled out of the queue. A snapshot is a sorted enumeration of a set; that
one exists, and that it is the one the model chooses, is proved by induction, told
as the least element of a set of naturals.

`DomTreeProofs` proves, for any number of nodes, that the encodings of the tree agree,
that walks along the Parent links end, and that every script call implements
`OrderedForest`. The argument goes from lists (what an insertion, a removal or a
replacement does to a chain of siblings), to trees (what one pointer update does to
`Links`), to calls (which updates a call performs, in which order and with which early
returns). Acyclicity is stated without paths: `NoRing` says that no non-empty set of
nodes holds the parents of all its members. `Acyclic` speaks of the least set closed
under Parent; the ancestors of a node on a loop would be such a ring. The third part of
`Good` is that nodes not yet made are linked to nothing, which a clone needs. In the
refinement a call is a `Build`, a `Move` or a `Replace` of the abstract forest, or a
stutter; an appended node that was elsewhere is one `Move`, although the code unlinks it
first.

The module then extends these proofs to the whole shell with its restarts. `ShellInv`
adds to `TabsInv` that windows, script records and the session file stay inside the IDs
(`OutsideTheTabs`; the session has at most as many URLs as there are IDs, or a restart
would run out of them), that no active flag waits for a tab that is not made yet
(`FlagsGivenOut`, needed since `CreateInactiveTab` leaves the flag as it finds it), and
that an ID still to be given out has neither window nor record (`FreshIDsAreClean`), and
the promise itself, `InjectedTracksOpenTabs`. From it follow, in every state,
that promise (`ScriptRecordsFollowTabs`), the single active tab, and the action property that a
restart brings the saved pages back in order; the tabs that a restart adds one after the
other are counted by induction over how many are there.

The same module proves `SurroundingsAgree`, of what stands around the tabs. Each of
the four parts has an invariant. `SuspensionInv`: tabs are numbered in the order
they were made, are in the bar or shut but never twice, and the table grew no
larger than the roomiest limit; that a sweep fills the table only up to the limit
is an argument about the last tab it took. `ListsInv`: bookmarks and folders have
IDs below the next one, none is 0, each bookmark's number is in the folder that came
with it, and what a file would bring back is good in the same sense. `WidgetsInv`
says for every event what the widgets know of it: which is under the pointer, was
clicked, has the keys, where a caret stands. `AppInv`: the managed windows are
distinct, at most one is active, and listeners know the state they were told of.
What a loop over a list keeps (`Chosen`) is a value defined by recursion over data.
That such a function exists and what it returns is proved by an induction over the
naturals told as the least element of the set of counterexamples
(`LeastElement`, `AllUpTo`, `DefinedUpTo`, `ChosenProperties`): the kept elements
are those in the set, once each if they were, and in their order.

`ExtensionsProofs` proves the main invariants of five modules: an alarm can be
cleared as long as its timer is armed; what `ExtensionStorage` holds is on disk but
for failed saves and for what the machine of a removed extension wrote, which is then
exactly what that machine holds; a running engine is whole and the manager's maps agree; and
a call over the connection gets the answer to its own number or an error. The last
needs `NumbersAreNew` (no two waiting calls have one number, and no
answer carries a number that was not given out) and `ChannelsAreSettled` (a channel
holds something only for a call that was taken from the table). Assumptions: there is
an alarm name, the marker values of storage are no contents, bounds are naturals.
For content scripts `ScriptsInv` says that what an extension's own list has is in the
list of all as that extension's (`RegistryAgrees`), and that the sheets of an
extension in the list of all are, in order, the record it can take them back by
(`SheetsAgree`). The order matters: `RemoveScript` deletes the first entry of the list
of all with the id but every entry of the own list, so a sheet inserted twice
leaves the two lists disagreeing until the second round of `RemoveCSS`; `IsCopy`, with
the position up to which the record has been worked off, carries the proof
through that loop. A script that began and is not recorded has an excuse
(`SandboxesAreKnown`). `ExtensionsTypeCorrect` joins the five invariants with the types
of what they do not mention (`DirectoriesInv`, `SyncInv`) for the whole of `MCExtensions`:
`StepsOfExtensions` shows that a step of the sum is a step or a stutter of every part.

`ServicesProofs` proves, for all of `MCServices` and every value of its constants,
`StoresAreOnDisk`, `OnePlaceEach`, `ResultsAreTrue` and `NothingSaidIsLost`. Each part has its own
invariant, and `StepsOfParts` shows that a step of the sum is a step or a stutter of
every part. For cookies the two jars are joined into one table of spots; the invariant
says that a cookie which is not gone has one spot, of its own site, and three lemmas
about such tables (a value is put, dropped, shifted) cover all operations. A pin store
that was not opened is empty and so is what a missing file stands for, which is why
opening leaves memory and file equal. For context menus a key has one item and the ID is
a function of the key. For notifications, the events fired, those callers have still to
fire and the notification shown are together no more than were created; this needs the
callers to be finitely many. For messages between windows `MessagesInv` says that a
message for a window is in one place: with one call that brings it there, in the
window's queue, or heard. Queued messages belong to the page shown (`QueuesAreNew`), and
what a drain delivers is of the page its runtime is bound to or a later one
(`NotOvertaken`): binding a page waits for the runtime, which the drain holds. `OwedInv`
follows each owed message from the call that posts it to the queue or to the listener: a
window that does not run is owed only what is in its queue (`PausedAreOwedLess`), so that
a call which finds it paused drops nothing owed; one that is gone is owed nothing
(`GoneAreOwedNothing`); and a drain or a delivery has nothing to post
(`OnlyScriptsPost`), so that it returns without taking a message along. For
events `EventsInv` has one holder for each mutex; a goroutine between its changes of the
two tables of request listeners has called nothing since the first; and two goroutines
are in one extension only if it is marked as shared. The tables then agree, because an
addition writes the entries first and a removal cuts them first. For the calls of
chrome.* the invariant is an account for each of the nested calls, and that all but the
innermost run a listener or a callback.

What `ResultsAreTrue` needs beyond itself: that a download's goroutine works for its own
download unless two calls were mixed up (`TargetsAreOwn`), and a copy of a record that
says complete is of a file that was fetched; that whoever is at work on a request, and
every answer that waits, has read the request that is set up (`SendsAreCurrent`); how
much of a file a release has written that was alone since it began (`AloneIsWritten`);
that a metric is pending, in a batch or excused, and a metric in two batches is excused
(`NothingForgotten`, `OverlapsExcused`); and that a recovery no crash disturbed knows of
every crash there is (`KnowsCrashes`). An offered version is ahead of the one that runs
in the order in which the first part decides, which `NewerIsAhead` derives from the
comparison in the code. Of the caches, `NetworkInv` says that the order lists the keys,
each once, which makes their number that of the list; of each fetch, that from the
upgrade on its address is a local one or encrypted. The assumptions: `localhost` and
`127.0.0.1` are no remote hosts, versions are lists of integers (`Sscanf` with `%d`
takes a sign), and the updaters are finitely many, so that a file name is left for the
next. The proof found that `Ahead` was undefined for versions of which one has two parts
more than the other, which no manifest of the run has; it now compares parts only as far
as both lists go.

`ServicesTypesProofs` proves `TakenAsMeant` and, for all of `MCServices`, the types.
`CookiesInv` says that the jar of an origin has, of what is not over, the current
cookies of the lines that the origin sent: for each identity the last line, unless that
ended the cookie. A line removes from a list what has its identity and appends, which
changes the current cookies in the same way; when time passes, what was sent and what is
kept grow old alike. That `pathMatches` decides what the property calls `Below` (with or
without a slash at the end of the cookie's path) is a lemma about prefixes. `GalleryInv`
says that of two installations of one listing that overlap neither is alone
(`AloneInListing`), what is in the file, the directory and the verdict at each stage of
an installation that is (`JobIsRight`), and that the categories hold the listings
(`IndexIsRebuilt`). Its central lemmas are about unpacking. Wherever the entries lead,
what was laid is an unpacking of the package (`EntriesAreLaid`, `ExtractionSteps`); if
every entry leads into the directory (`StaysInside`), that directory has, after the
last one, every file that lasts, by induction over the entries (`UnpackedFiles`). A
package that does not stay inside may be scanned without some of its files, and is
refused at the end. Another installation's file or directory that changed takes its
`alone` away (`Beside`), and what is left is not disturbed (`InstallationKeeps`). The
assumptions:
hosts and paths are lists, paths begin with a slash, a line arrives in time or as
`past`, never as `over`, and archives are lists of entries.

The types need more than themselves. That a goroutine's call names a message that was
sent follows from the account of places in `MessagesInv`, and so does that what is owed
was sent (`OwedWereSent`); that a cookie in a jar was
set, from its one spot. So `TypesInv` joins the invariants of all parts and adds what
none of them needed: downloads, requests and messages that were given out
(`DownloadsGiven`, `RequestsGiven`, `MessagesGiven`), the lengths of the two tables of
listeners (`EventsGiven`), the depth of nested calls (`NotTooDeep`), the hosts of HSTS
policies, the keys of records and the consent to telemetry (`PoliciesKnown`,
`RecordsGiven`, `OptInKnown`) and the length of logs (`LogsAreBounded`).

`ResultsAreTrue` and `NothingSaidIsLost` are safety: they say what is true of what has
ended and where what was said is, not that it ends or is heard.

Every invariant, every refinement and every action property of the passing runs is
thus proved. Model-checked only are the liveness properties (`FreeMutexIsTaken`,
`FrameIsServed`, `DestroyEnds`): liveness under fairness is out of the proof system's
reach. An operator of the community modules that is recursive or takes a predicate is
out of the provers' reach where it stands; where a loop is told by `ListChoice`, or by
a function on the indices of a list, it is not.

## 6. What is not modelled

`PROJECT.json` gives the state of each component. Left out for good: parsing,
styles, layout and drawing (pure functions of large data), third-party code,
wrappers of the operating system, build scripts, and parts that nothing in the
program uses (`browser/webdriver`, `sauce/optimize`, `mustard.TabBar`) or that the
shell creates and never feeds (`browser/render`, `browser/debug`).

Left out inside the modelled parts:

* window: `EmitEvent`'s copy of the handlers, observers, LoadURL, the layout cache,
  a second Destroy of one window, which the shell never issues;
* DOM: origin checks (the code's check always passes for nodes of one window),
  dirty flags and the reflow queue (nothing drains it at this commit), the cache of
  wrappers;
* storage: sessionStorage, the legacy map that bypasses persistence;
* tabs: what a window shows after Back and Forward (the shell does not load the
  page, and no property speaks of it);
* lists: settings; Save and Load of the lists have no callers but tests;
* extensions: the life of a child process, ports, the signature of a package, what
  a sandbox offers its script, translations (no locale is ever loaded);
* chrome.*: conversion of arguments, explicit `undefined`, and the namespaces whose
  operations the API object never gets (bookmarks, history, action);
* network: headers and bodies, `includeSubdomains`, CORS beyond the preflight of an
  XMLHttpRequest;
* gallery: search, the curated catalog, the patterns of the scanner's rules.
