------------------------------ MODULE WebStorage ------------------------------
(***************************************************************************)
(* localStorage (hotdog/storage.go) under the tabs that use it             *)
(* (browser/shell).  One OriginStorageManager serves every window: a map   *)
(* from partitions (container, origin) to entries, guarded by manager.mu,  *)
(* so each operation is one step, and written to a file after each change. *)
(* The file is replaced by a rename, hence a save happens or does not, and *)
(* a crash in the middle of an operation is a crash before or after it.    *)
(*                                                                         *)
(* A partition that is absent and one that is present and empty read the   *)
(* same, and are not told apart here: getItem, which may create an empty   *)
(* one, is no step.                                                        *)
(***************************************************************************)
EXTENDS Naturals, FiniteSets

CONSTANTS Tabs, Containers, Origins, Keys, Values,
          Default,   \* DefaultContainerID, the empty container name
          Missing,   \* no value under a key
          NoPage     \* the tab has no window

ASSUME StorageAssumption ==
    /\ Default \in Containers
    /\ Missing \notin Values
    /\ NoPage \notin Origins

VARIABLES
    local,      \* manager.storages: partition -> key -> value
    disk,       \* the file at manager.path
    unsaved,    \* whether an operation that reported failure to save has
                \* changed local since the last save (history, not code)
    container,  \* tab.ContainerID
    url,        \* the origin of tab.URL
    page        \* the origin the tab's JS runtime was set up for

manager == <<local, disk, unsaved>>
tabs == <<container, url, page>>
vars == <<manager, tabs>>

Partitions == Containers \X Origins
Entries == [Keys -> Values \cup {Missing}]
NoEntries == [k \in Keys |-> Missing]

TypeOK ==
    /\ local \in [Partitions -> Entries] /\ disk \in [Partitions -> Entries]
    /\ unsaved \in BOOLEAN
    /\ container \in [Tabs -> Containers]
    /\ url \in [Tabs -> Origins]
    /\ page \in [Tabs -> Origins \cup {NoPage}]

Init ==
    /\ local = [p \in Partitions |-> NoEntries] /\ disk = local
    /\ unsaved = FALSE
    /\ container \in [Tabs -> Containers]
    /\ url \in [Tabs -> Origins]
    /\ page = [t \in Tabs |-> NoPage]

-----------------------------------------------------------------------------
(* persistLocked: the rename makes the new map durable, or an error before *)
(* it leaves the old file.                                                 *)
Saved(m) == local' = m /\ disk' = m /\ unsaved' = FALSE
RolledBack == UNCHANGED manager
KeptInMemory(m) ==
    local' = m /\ UNCHANGED disk /\ unsaved' = IF m = local THEN unsaved ELSE TRUE

\* Faulty form of the next definition: memory is not put back.
SetItemKeepingRefused(p, k, v) ==
    LET m == [local EXCEPT ![p][k] = v] IN
    Saved(m) \/ (local' = m /\ UNCHANGED <<disk, unsaved>>)

(* setItem and removeItem change one entry, clear drops a partition; all   *)
(* three put memory back when the save fails.                              *)
SetItem(p, k, v) ==
    Saved([local EXCEPT ![p][k] = v]) \/ RolledBack

RemoveItem(p, k) ==
    /\ local[p][k] # Missing
    /\ Saved([local EXCEPT ![p][k] = Missing]) \/ RolledBack

\* Faulty form of the next definition: the change is not saved.
ClearOriginUnsaved(p) ==
    local' = [local EXCEPT ![p] = NoEntries] /\ UNCHANGED <<disk, unsaved>>

ClearOrigin(p) == Saved([local EXCEPT ![p] = NoEntries]) \/ RolledBack

(* The operations on whole partitions do not put memory back.              *)
Emptied(P) == [p \in Partitions |-> IF p \in P THEN NoEntries ELSE local[p]]

ClearContainer(c) ==
    LET m == Emptied({c} \X Origins) IN Saved(m) \/ KeptInMemory(m)

Merged(over, under) ==
    [k \in Keys |-> IF over[k] # Missing THEN over[k] ELSE under[k]]

\* Faulty form of the next definition: the source is deleted before it is merged.
TransferredTooLate(from, to, O) ==
    [p \in Partitions |->
        IF p[1] = from /\ p[2] \in O THEN NoEntries ELSE local[p]]

Transferred(from, to, O) ==
    [p \in Partitions |->
        IF p[2] \notin O \/ local[<<from, p[2]>>] = NoEntries
        THEN local[p]
        ELSE CASE p[1] = from -> NoEntries
               [] p[1] = to -> Merged(local[<<from, p[2]>>], local[p])
               [] OTHER -> local[p]]

TransferOrigin(from, to, o) ==
    IF local[<<from, o>>] = NoEntries
    THEN UNCHANGED manager
    ELSE LET m == Transferred(from, to, {o}) IN Saved(m) \/ KeptInMemory(m)

TransferContainer(from, to) ==
    LET m == Transferred(from, to, Origins) IN Saved(m) \/ KeptInMemory(m)

-----------------------------------------------------------------------------
(* Windows.  GetContainerID answers the window's ContainerID, which        *)
(* NewWindowContext leaves empty and nothing assigns.                      *)
WindowContainer(t) == Default

(* The partition the localStorage object of the tab's page is bound to.    *)
PagePartition(t) == <<WindowContainer(t), page[t]>>
Live(t) == page[t] # NoPage

(* A navigation sets the tab's URL and loads it; the runtime's storage     *)
(* objects are made for the origin the answer came from, which redirects   *)
(* may have changed.  A page that cannot be loaded leaves the old one.     *)
loadTabContent(t) ==
    /\ \E o \in Origins : url' = [url EXCEPT ![t] = o]
    /\ \E o \in Origins : page' \in {page, [page EXCEPT ![t] = o]}
    /\ UNCHANGED <<manager, container>>

\* Faulty form of the next definition: the URL of the tab is lost.
closeTabBlankingURL(t) ==
    /\ Live(t)
    /\ page' = [page EXCEPT ![t] = NoPage]
    /\ url' = [url EXCEPT ![t] = NoPage]
    /\ UNCHANGED <<manager, container>>

closeTab(t) ==
    /\ Live(t)
    /\ page' = [page EXCEPT ![t] = NoPage]
    /\ UNCHANGED <<manager, url, container>>

ScriptSets(t) ==
    /\ Live(t)
    /\ \E k \in Keys, v \in Values : SetItem(PagePartition(t), k, v)
    /\ UNCHANGED tabs

ScriptRemoves(t) ==
    /\ Live(t)
    /\ \E k \in Keys : RemoveItem(PagePartition(t), k)
    /\ UNCHANGED tabs

ScriptClears(t) ==
    /\ Live(t)
    /\ ClearOrigin(PagePartition(t))
    /\ UNCHANGED tabs

(* UpdateTab sets the URL without loading it, then moves the entries of    *)
(* the URL's origin, and the tab, to another container; the tab moves      *)
(* whether or not the entries could be saved.                              *)
UpdateTab(t) ==
    \E o \in Origins, c \in Containers :
        /\ url' = [url EXCEPT ![t] = o]
        /\ \/ /\ c \notin {Default, container[t]}
              /\ TransferOrigin(container[t], c, o)
           \/ c = container[t] /\ UNCHANGED manager
        /\ container' = [container EXCEPT ![t] = c]
        /\ UNCHANGED page

(* What an embedder may ask for whole containers: TransferAllStorage and   *)
(* ClearContainer.                                                         *)
EmbedderTransfers ==
    /\ \E from, to \in Containers : from # to /\ TransferContainer(from, to)
    /\ UNCHANGED tabs

EmbedderClears == (\E c \in Containers : ClearContainer(c)) /\ UNCHANGED tabs

(* The process ends, however it does, and the next one loads the file.     *)
Restart ==
    /\ local' = disk
    /\ unsaved' = FALSE
    /\ page' = [t \in Tabs |-> NoPage]
    /\ UNCHANGED <<disk, container, url>>

Next ==
    \/ \E t \in Tabs :
          \/ loadTabContent(t) \/ closeTab(t) \/ UpdateTab(t)
          \/ ScriptSets(t) \/ ScriptRemoves(t) \/ ScriptClears(t)
    \/ EmbedderTransfers \/ EmbedderClears
    \/ Restart

Spec == Init /\ [][Next]_vars

-----------------------------------------------------------------------------
(* Memory and file agree, but for an operation on whole partitions whose   *)
(* caller was told that it could not be saved: no refused page write, in   *)
(* any order with the others, leaves an entry that the file lacks, and the *)
(* first save after a failed move brings the file up to date.              *)
InSync == ~unsaved => local = disk

(* The store is the recoverable one: page writes are all or nothing in one *)
(* partition, moves never drop an entry, a restart finds the last save.    *)
Promised == INSTANCE RecoverableStore WITH mem <- local
ImplementsRecoverableStore == Promised!StoreSpec

(* Whatever moves or fails, an origin keeps every key it has in some       *)
(* container until a script removes it or a container is cleared; a move   *)
(* that merges partitions may only drop a value for another one.           *)
Kept(m, o, k) == \E c \in Containers : m[<<c, o>>][k] # Missing
MovesKeepKeys ==
    [][container' # container =>
         \A o \in Origins, k \in Keys : Kept(local, o, k) => Kept(local', o, k)]_vars

(* Tabs of different containers do not share a partition: the container is *)
(* an "origin isolation group" (window_context.go:184-187).                *)
ContainersIsolatePages ==
    \A t, u \in Tabs :
        Live(t) /\ Live(u) /\ container[t] # container[u]
            => PagePartition(t) # PagePartition(u)
=============================================================================
