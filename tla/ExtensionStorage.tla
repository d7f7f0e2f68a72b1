--------------------------- MODULE ExtensionStorage ---------------------------
(***************************************************************************)
(* chrome.storage of one extension: its own StoragePartition, the          *)
(* partitions of its containers, which come into being when they are first *)
(* used, and the StorageSyncManager.                                       *)
(*                                                                         *)
(* Every operation of a partition holds sp.mu and writes the whole         *)
(* partition with os.WriteFile, which truncates first: a save is refused   *)
(* before the file is touched, succeeds, or is cut short by a full disk or *)
(* by the end of the process.  The API ignores what a save returns.        *)
(*                                                                         *)
(* Uninstall drops the manager's references to the JavaScript machine of   *)
(* an extension; it neither stops it nor takes the partition from the      *)
(* closures of its chrome.storage, so that its timers and listeners may    *)
(* still write the file that Uninstall removed.                            *)
(***************************************************************************)
EXTENDS Naturals, Sequences, FiniteSets

CONSTANTS Own,         \* the partition of the extension itself
          Boxes,       \* containers
          Areas,       \* the storage areas, in the order ClearContainer uses
          Keys,        \* keys, each with one value
          MaxClosures, \* bound on the callbacks given to the provider
          MaxOld       \* bound on what machines of removed extensions keep

VARIABLES
    present,    \* the extension is installed
    memory,     \* the areas of a partition, or NotLoaded
    file,       \* the partition's file: its areas, NoFile or CutShort
    dirty,      \* the field of this name
    atRisk,     \* history: partitions whose last save or removal failed
    old,        \* what partitions hold that machines of removed extensions keep
    foreign,    \* history: such a machine was the last to write Own's file
    registered, \* StorageSyncManager.extensions has the extension
    callback,   \* changeCB has a callback for it
    closures,   \* closures the provider holds: registered ones and older ones
    syncFile    \* the file in the sync folder: "none", "good" or "broken"

syncing == <<registered, callback, closures, syncFile>>
storageVars == <<present, memory, file, dirty, atRisk, old, foreign>>

Partitions == {Own} \cup Boxes
AreaNames == {Areas[i] : i \in DOMAIN Areas}
Empty == [a \in AreaNames |-> {}]
Contents == [AreaNames -> SUBSET Keys]
NotLoaded == [a \in {} |-> {}]
NoFile == <<"no file">>
CutShort == <<"broken">>

ASSUME ExtensionStorageAssumption ==
    /\ Own \notin Boxes /\ IsFiniteSet(Boxes) /\ Len(Areas) \in Nat \ {0} /\ {MaxClosures, MaxOld} \subseteq Nat
    /\ {NotLoaded, NoFile, CutShort} \cap Contents = {}

StorageInit ==
    /\ present = TRUE
    /\ memory = [p \in Partitions |-> IF p = Own THEN Empty ELSE NotLoaded]
    /\ file = [p \in Partitions |-> NoFile] /\ dirty = {} /\ atRisk = {}
    /\ old = {} /\ foreign = FALSE

(* load: what cannot be decoded is an empty partition. *)
Loaded(p) == IF file[p] \in {NoFile, CutShort} THEN Empty ELSE file[p]

partitionFor(p) == IF memory[p] = NotLoaded THEN Loaded(p) ELSE memory[p]

-----------------------------------------------------------------------------
Saves == {"saved", "refused", "cut"}

persist(p, m, outcome) ==
    /\ file' = [file EXCEPT ![p] = CASE outcome = "saved" -> m
                                     [] outcome = "cut" -> CutShort
                                     [] outcome = "refused" -> @]
    /\ atRisk' = IF outcome = "saved" THEN atRisk \ {p} ELSE atRisk \cup {p}

(* A save by the partition in use.                                         *)
Saved(p, m, outcome) ==
    /\ persist(p, m, outcome)
    /\ foreign' = (foreign /\ ~(p = Own /\ outcome = "saved"))

\* Faulty form of the next definition: the change waits for SyncToDisk.
ChangedUnsaved(p, m, outcome) ==
    /\ memory' = [memory EXCEPT ![p] = m]
    /\ dirty' = dirty \cup {p}
    /\ UNCHANGED <<file, atRisk, foreign>>

Changed(p, m, outcome) ==
    /\ memory' = [memory EXCEPT ![p] = m]
    /\ dirty' = dirty \cup {p}
    /\ Saved(p, m, outcome)

Change(p, m, outcome) ==
    /\ present
    /\ Changed(p, m, outcome)
    /\ UNCHANGED <<present, old>>

(* chrome.storage.<area>.set: one Set, and one save, for each item.        *)
SetKey == \E p \in Partitions, a \in AreaNames, k \in Keys, outcome \in Saves :
    Change(p, [partitionFor(p) EXCEPT ![a] = @ \cup {k}], outcome)

RemoveKey == \E p \in Partitions, a \in AreaNames, k \in Keys, outcome \in Saves :
    Change(p, [partitionFor(p) EXCEPT ![a] = @ \ {k}], outcome)

ClearArea == \E p \in Partitions, a \in AreaNames, outcome \in Saves :
    Change(p, [partitionFor(p) EXCEPT ![a] = {}], outcome)

(* Reading creates the partition of a container. *)
GetKey == \E p \in Boxes :
    /\ present /\ memory[p] = NotLoaded
    /\ memory' = [memory EXCEPT ![p] = Loaded(p)]
    /\ UNCHANGED <<present, file, dirty, atRisk, old, foreign>>

(* The flag is cleared before the save. *)
SyncToDisk == \E p \in dirty, outcome \in Saves :
    /\ present /\ memory[p] # NotLoaded
    /\ dirty' = dirty \ {p}
    /\ Saved(p, memory[p], outcome)
    /\ UNCHANGED <<present, memory, old>>

(* ClearContainer takes the partition out of the table and clears its      *)
(* areas one by one, until a save fails.  A container without a partition  *)
(* object is left alone, and so is its file.                               *)
ClearContainer == \E p \in Boxes, i \in 0..Len(Areas), outcome \in Saves :
    LET Cleared(n) == [a \in AreaNames |->
                          IF \E j \in 1..n : Areas[j] = a THEN {} ELSE memory[p][a]] IN
    /\ present /\ memory[p] # NotLoaded
    /\ outcome = "saved" <=> i = Len(Areas)
    /\ memory' = [memory EXCEPT ![p] = NotLoaded]
    /\ dirty' = dirty \ {p}
    /\ file' = [file EXCEPT ![p] = IF outcome = "cut" THEN CutShort
                                   ELSE IF i > 0 THEN Cleared(i) ELSE @]
    /\ atRisk' = IF outcome = "saved" THEN atRisk \ {p} ELSE atRisk \cup {p}
    /\ UNCHANGED <<present, old, foreign>>

-----------------------------------------------------------------------------
(* Scan and registerExtension make a partition of what the file holds.     *)
RegisterStorage ==
    /\ memory' = [p \in Partitions |-> IF p = Own THEN Loaded(Own) ELSE NotLoaded]
    /\ foreign' = FALSE

(* The process ends, and no machine of it writes any more.                 *)
RestartStorage ==
    /\ IF present THEN RegisterStorage ELSE UNCHANGED <<memory, foreign>>
    /\ dirty' = {} /\ old' = {}
    /\ UNCHANGED <<present, file, atRisk>>

InstallAgain ==
    /\ ~present /\ present' = TRUE
    /\ RegisterStorage
    /\ UNCHANGED <<file, dirty, atRisk, old>>

(* Uninstall removes the file of the extension's own partition; basePath,  *)
(* which it removes too, is a prefix of the container files and the name   *)
(* of none, so these stay.  That the removal failed is not noticed.        *)
RemoveExtension == \E removed \in BOOLEAN :
    /\ present /\ present' = FALSE
    /\ memory' = [p \in Partitions |-> NotLoaded] /\ dirty' = {}
    /\ file' = [file EXCEPT ![Own] = IF removed THEN NoFile ELSE @]
    /\ atRisk' = IF removed THEN atRisk \ {Own} ELSE atRisk \cup {Own}
    /\ old' = old \cup {memory[Own]} /\ Cardinality(old') <= MaxOld
    /\ foreign' = (foreign /\ ~removed)

(* What a partition holds after one set, remove or clear.                  *)
OneCall(m) ==
    {[m EXCEPT ![a] = {}] : a \in AreaNames}
        \cup {[m EXCEPT ![a] = @ \cup {k}] : a \in AreaNames, k \in Keys}
        \cup {[m EXCEPT ![a] = @ \ {k}] : a \in AreaNames, k \in Keys}

(* chrome.storage in a machine of a removed extension.  Several may keep   *)
(* partitions that hold the same.                                          *)
OldMachineWrites == \E m \in old, outcome \in Saves : \E n \in OneCall(m) :
    /\ old' \in {old \cup {n}, (old \ {m}) \cup {n}} /\ Cardinality(old') <= MaxOld
    /\ persist(Own, n, outcome)
    /\ foreign' = (foreign \/ outcome # "refused")
    /\ UNCHANGED <<present, memory, dirty>>

StorageNext ==
    \/ SetKey \/ RemoveKey \/ ClearArea \/ GetKey \/ SyncToDisk \/ ClearContainer
    \/ RestartStorage \/ RemoveExtension \/ InstallAgain \/ OldMachineWrites

StorageSpec == StorageInit /\ [][StorageNext]_storageVars

-----------------------------------------------------------------------------
(* StorageSyncManager.  It shares no state with the partitions: extensions *)
(* write the sync file themselves.                                         *)
SyncInit == registered = FALSE /\ callback = FALSE /\ closures = 0 /\ syncFile = "none"

RegisterExtension ==
    /\ ~registered /\ registered' = TRUE
    /\ UNCHANGED <<callback, closures, syncFile>>

UnregisterExtension ==
    /\ registered /\ registered' = FALSE /\ callback' = FALSE
    /\ UNCHANGED <<closures, syncFile>>

(* The callback is stored before the provider is asked, and stays if it    *)
(* refuses; the provider may keep the closures of earlier registrations.   *)
SetChangeCallback == \E accepted \in BOOLEAN :
    /\ registered /\ closures < MaxClosures
    /\ callback' = TRUE
    /\ closures' = IF accepted THEN closures + 1 ELSE closures
    /\ UNCHANGED <<registered, syncFile>>

WriteSyncData == \E outcome \in {"saved", "cut"} :
    /\ registered
    /\ syncFile' = IF outcome = "saved" THEN "good" ELSE "broken"
    /\ UNCHANGED <<registered, callback, closures>>

SyncNext == RegisterExtension \/ UnregisterExtension \/ SetChangeCallback \/ WriteSyncData

-----------------------------------------------------------------------------
StorageTypeOK ==
    /\ {present, registered, callback, foreign} \subseteq BOOLEAN
    /\ old \subseteq Contents
    /\ \A p \in Partitions : memory[p] \in Contents \cup {NotLoaded}
    /\ \A p \in Partitions : file[p] \in Contents \cup {NoFile, CutShort}
    /\ dirty \subseteq Partitions /\ atRisk \subseteq Partitions
    /\ closures \in 0..MaxClosures /\ syncFile \in {"none", "good", "broken"}

(* What an extension has stored is what the next start finds: a partition  *)
(* in use and its file agree, and no file is broken, unless the last save  *)
(* or removal of that partition failed.  An extension that was removed     *)
(* leaves no file of its own partition to the next one of its name.  Both  *)
(* hold only until a machine of a removed extension writes the file; then  *)
(* it holds what that machine has, until the partition in use is saved.    *)
StorageIsOnDisk ==
    /\ \A p \in Partitions \ atRisk :
           /\ file[p] # CutShort
           /\ memory[p] # NotLoaded => \/ memory[p] = Loaded(p)
                                       \/ p = Own /\ foreign /\ Loaded(p) \in old
    /\ ~present /\ Own \notin atRisk /\ ~foreign => file[Own] = NoFile
=============================================================================
