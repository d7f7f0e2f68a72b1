--------------------------- MODULE WebStorageProofs ---------------------------
(***************************************************************************)
(* What WebStorage's runs check on two tabs, proved for every set of tabs, *)
(* containers, origins, keys and values.  TypeOK is inductive, and InSync  *)
(* is: a step either saves, or leaves the manager alone, or sets unsaved   *)
(* when it leaves memory ahead of the file, or loads the file.             *)
(***************************************************************************)
EXTENDS WebStorage, TLAPS

USE DEF vars, manager, tabs

(* The page operations, the moves and the whole-container operations leave *)
(* the manager in one of four ways.                                        *)
ManagerStep ==
    \/ UNCHANGED manager
    \/ \E m : Saved(m)
    \/ \E m : KeptInMemory(m)
    \/ local' = disk /\ UNCHANGED disk /\ unsaved' = FALSE

(* Every step of the system is one of the manager's.                       *)
LEMMA StepsOfManager == ASSUME [Next]_vars PROVE ManagerStep
<1>1. CASE UNCHANGED vars
  BY <1>1 DEF ManagerStep
<1>2. ASSUME NEW t \in Tabs, loadTabContent(t) \/ closeTab(t) PROVE ManagerStep
  BY <1>2 DEF loadTabContent, closeTab, ManagerStep
<1>3. ASSUME NEW t \in Tabs, UpdateTab(t) PROVE ManagerStep
  BY <1>3 DEF UpdateTab, TransferOrigin, ManagerStep
<1>4. ASSUME NEW t \in Tabs, ScriptSets(t) \/ ScriptRemoves(t) \/ ScriptClears(t)
      PROVE  ManagerStep
  BY <1>4 DEF ScriptSets, ScriptRemoves, ScriptClears, SetItem, RemoveItem,
              ClearOrigin, RolledBack, ManagerStep
<1>5. CASE EmbedderTransfers \/ EmbedderClears
  BY <1>5 DEF EmbedderTransfers, EmbedderClears, TransferContainer,
              ClearContainer, ManagerStep
<1>6. CASE Restart
  BY <1>6 DEF Restart, ManagerStep
<1> QED
  BY <1>1, <1>2, <1>3, <1>4, <1>5, <1>6 DEF Next

(* Memory and file agree unless a caller was told that they do not: page   *)
(* writes roll back, whatever other tabs' moves failed before or after.    *)
THEOREM AgreesWithFile == Spec => []InSync
<1>1. Init => InSync
  BY DEF Init, InSync
<1>2. InSync /\ [Next]_vars => InSync'
  <2> SUFFICES ASSUME InSync, [Next]_vars PROVE InSync'
    OBVIOUS
  <2>1. ManagerStep
    BY StepsOfManager
  <2>2. CASE \E m : KeptInMemory(m)
    <3>1. PICK m : KeptInMemory(m)
      BY <2>2
    <3>2. CASE m = local
      BY <3>1, <3>2 DEF KeptInMemory, InSync
    <3>3. CASE m # local
      BY <3>1, <3>3 DEF KeptInMemory, InSync
    <3> QED
      BY <3>2, <3>3
  <2> QED
    BY <2>1, <2>2 DEF ManagerStep, Saved, InSync
<1> QED
  BY <1>1, <1>2, PTL DEF Spec

-----------------------------------------------------------------------------
LEMMA MergedType ==
    ASSUME NEW over \in Entries, NEW under \in Entries
    PROVE  Merged(over, under) \in Entries
BY DEF Merged, Entries

LEMMA NoEntriesType == NoEntries \in Entries
BY DEF NoEntries, Entries

LEMMA TransferredType ==
    ASSUME local \in [Partitions -> Entries],
           NEW from \in Containers, NEW to \in Containers, NEW O \in SUBSET Origins
    PROVE  Transferred(from, to, O) \in [Partitions -> Entries]
<1> SUFFICES ASSUME NEW p \in Partitions
             PROVE  Transferred(from, to, O)[p] \in Entries
  BY DEF Transferred
<1>1. <<from, p[2]>> \in Partitions
  BY DEF Partitions
<1>2. /\ local[p] \in Entries
      /\ Merged(local[<<from, p[2]>>], local[p]) \in Entries
  BY <1>1, MergedType
<1> QED
  BY <1>2, NoEntriesType DEF Transferred

LEMMA EmptiedType ==
    ASSUME local \in [Partitions -> Entries], NEW P
    PROVE  Emptied(P) \in [Partitions -> Entries]
BY NoEntriesType DEF Emptied

LEMMA EntrySetType ==
    ASSUME local \in [Partitions -> Entries],
           NEW p \in Partitions, NEW k \in Keys, NEW v \in Values \cup {Missing}
    PROVE  [local EXCEPT ![p][k] = v] \in [Partitions -> Entries]
<1>1. local[p] \in Entries
  OBVIOUS
<1>2. [local[p] EXCEPT ![k] = v] \in Entries
  BY <1>1 DEF Entries
<1> QED
  BY <1>2

(* The four ways keep the types, when what is saved or kept is well-typed. *)
WellTyped == [Partitions -> Entries]

TypedStep ==
    \/ UNCHANGED manager
    \/ \E m \in WellTyped : Saved(m)
    \/ \E m \in WellTyped : KeptInMemory(m)
    \/ local' = disk /\ UNCHANGED disk /\ unsaved' = FALSE

LEMMA LivePartition ==
    ASSUME TypeOK, NEW t \in Tabs, Live(t)
    PROVE  PagePartition(t) \in Partitions
BY StorageAssumption
   DEF TypeOK, Live, PagePartition, WindowContainer, Partitions

LEMMA StepsAreTyped == ASSUME TypeOK, [Next]_vars PROVE TypedStep
<1> USE DEF WellTyped
<1>0. local \in [Partitions -> Entries]
  BY DEF TypeOK
<1>1. CASE UNCHANGED vars
  BY <1>1 DEF TypedStep
<1>2. ASSUME NEW t \in Tabs, loadTabContent(t) \/ closeTab(t) PROVE TypedStep
  BY <1>2 DEF loadTabContent, closeTab, TypedStep
<1>3. ASSUME NEW t \in Tabs, UpdateTab(t) PROVE TypedStep
  <2>1. PICK o \in Origins, c \in Containers :
           TransferOrigin(container[t], c, o) \/ UNCHANGED manager
    BY <1>3 DEF UpdateTab
  <2>2. Transferred(container[t], c, {o}) \in WellTyped
    BY <1>0, TransferredType DEF TypeOK
  <2> QED
    BY <2>1, <2>2 DEF TransferOrigin, TypedStep
<1>4. ASSUME NEW t \in Tabs, ScriptSets(t) PROVE TypedStep
  <2>1. PICK k \in Keys, v \in Values : SetItem(PagePartition(t), k, v)
    BY <1>4 DEF ScriptSets
  <2>2. [local EXCEPT ![PagePartition(t)][k] = v] \in WellTyped
    BY <1>0, <1>4, LivePartition, EntrySetType DEF ScriptSets
  <2> QED
    BY <2>1, <2>2 DEF SetItem, RolledBack, TypedStep
<1>5. ASSUME NEW t \in Tabs, ScriptRemoves(t) PROVE TypedStep
  <2>1. PICK k \in Keys : RemoveItem(PagePartition(t), k)
    BY <1>5 DEF ScriptRemoves
  <2>2. [local EXCEPT ![PagePartition(t)][k] = Missing] \in WellTyped
    BY <1>0, <1>5, LivePartition, EntrySetType DEF ScriptRemoves
  <2> QED
    BY <2>1, <2>2 DEF RemoveItem, RolledBack, TypedStep
<1>6. ASSUME NEW t \in Tabs, ScriptClears(t) PROVE TypedStep
  <2>1. [local EXCEPT ![PagePartition(t)] = NoEntries] \in WellTyped
    BY <1>0, NoEntriesType
  <2> QED
    BY <1>6, <2>1 DEF ScriptClears, ClearOrigin, RolledBack, TypedStep
<1>7. CASE EmbedderTransfers
  <2>1. PICK from \in Containers, to \in Containers : TransferContainer(from, to)
    BY <1>7 DEF EmbedderTransfers
  <2>2. Transferred(from, to, Origins) \in WellTyped
    BY <1>0, TransferredType
  <2> QED
    BY <2>1, <2>2 DEF TransferContainer, TypedStep
<1>8. CASE EmbedderClears
  <2>1. PICK c \in Containers : ClearContainer(c)
    BY <1>8 DEF EmbedderClears
  <2>2. Emptied({c} \X Origins) \in WellTyped
    BY <1>0, EmptiedType
  <2> QED
    BY <2>1, <2>2 DEF ClearContainer, TypedStep
<1>9. CASE Restart
  BY <1>9 DEF Restart, TypedStep
<1> QED
  BY <1>1, <1>2, <1>3, <1>4, <1>5, <1>6, <1>7, <1>8, <1>9 DEF Next

(* The tabs' fields keep their types.                                      *)
TabsTyped ==
    /\ container \in [Tabs -> Containers]
    /\ url \in [Tabs -> Origins]
    /\ page \in [Tabs -> Origins \cup {NoPage}]

LEMMA TabsStayTyped == ASSUME TypeOK, [Next]_vars PROVE TabsTyped'
<1> USE DEF TypeOK, TabsTyped
<1>1. CASE UNCHANGED tabs
  BY <1>1
<1>2. ASSUME NEW t \in Tabs, loadTabContent(t) PROVE TabsTyped'
  BY <1>2 DEF loadTabContent
<1>3. ASSUME NEW t \in Tabs, closeTab(t) PROVE TabsTyped'
  BY <1>3 DEF closeTab
<1>4. ASSUME NEW t \in Tabs, UpdateTab(t) PROVE TabsTyped'
  BY <1>4 DEF UpdateTab
<1>5. CASE Restart
  BY <1>5 DEF Restart
<1> QED
  BY <1>1, <1>2, <1>3, <1>4, <1>5
     DEF Next, ScriptSets, ScriptRemoves, ScriptClears, EmbedderTransfers,
         EmbedderClears

(* Every state the manager and its tabs reach is well-typed.               *)
THEOREM TypeCorrect == Spec => []TypeOK
<1>1. Init => TypeOK
  <2> SUFFICES ASSUME Init PROVE TypeOK
    OBVIOUS
  <2>1. local \in [Partitions -> Entries]
    BY NoEntriesType DEF Init
  <2> QED
    BY <2>1 DEF Init, TypeOK
<1>2. TypeOK /\ [Next]_vars => TypeOK'
  <2> SUFFICES ASSUME TypeOK, [Next]_vars PROVE TypeOK'
    OBVIOUS
  <2>1. TypedStep
    BY StepsAreTyped
  <2>2. TabsTyped'
    BY TabsStayTyped
  <2>3. /\ local' \in [Partitions -> Entries]
        /\ disk' \in [Partitions -> Entries]
    BY <2>1 DEF TypedStep, WellTyped, Saved, KeptInMemory, TypeOK
  <2>4. unsaved' \in BOOLEAN
    BY <2>1 DEF TypedStep, Saved, KeptInMemory, TypeOK
  <2> QED
    BY <2>2, <2>3, <2>4 DEF TypeOK, TabsTyped
<1> QED
  BY <1>1, <1>2, PTL DEF Spec

-----------------------------------------------------------------------------
(* A transfer is the abstract move of the origins' non-empty partitions.   *)
Sources(from, O) ==
    {p \in Partitions : p[1] = from /\ p[2] \in O /\ local[p] # NoEntries}

Into(from, to, O) == [p \in Sources(from, O) |-> <<to, p[2]>>]

LEMMA IntoIsTarget ==
    ASSUME NEW from \in Containers, NEW to \in Containers, from # to,
           NEW O \in SUBSET Origins
    PROVE  Into(from, to, O) \in Promised!Targets(Sources(from, O))
<1> DEFINE P == Sources(from, O)
           f == Into(from, to, O)
<1>1. f \in [P -> Partitions \ P]
  BY DEF Into, Sources, Partitions
<1>2. ASSUME NEW p \in P, NEW q \in P, f[p] = f[q] PROVE p = q
  BY <1>2 DEF Into, Sources, Partitions
<1> QED
  BY <1>1, <1>2 DEF Promised!Targets

LEMMA TransferIsMove ==
    ASSUME local \in [Partitions -> Entries],
           NEW from \in Containers, NEW to \in Containers, from # to,
           NEW O \in SUBSET Origins
    PROVE  Transferred(from, to, O)
             = Promised!Moved(Sources(from, O), Into(from, to, O))
<1> DEFINE P == Sources(from, O)
           f == Into(from, to, O)
           M == Promised!Moved(P, f)
<1> SUFFICES ASSUME NEW q \in Partitions
             PROVE  Transferred(from, to, O)[q] = M[q]
  BY DEF Transferred, Promised!Moved
<1> DEFINE src == <<from, q[2]>>
<1>0. src \in Partitions
  BY DEF Partitions
<1>1. CASE q \in P
  <2>1. M[q] = NoEntries
    BY <1>1 DEF Promised!Moved
  <2>2. q = src
    BY <1>1 DEF Sources, Partitions
  <2>3. Transferred(from, to, O)[q] = NoEntries
    BY <1>1, <2>2 DEF Sources, Transferred
  <2> QED
    BY <2>1, <2>3
<1>2. CASE q[1] = to /\ src \in P
  <2>1. q \notin P
    BY <1>2 DEF Sources
  <2>2. f[src] = q
    BY <1>2 DEF Into, Partitions
  <2>3. \A p \in P : f[p] = q => p = src
    BY DEF Into, Sources, Partitions
  <2>4. (CHOOSE p \in P : f[p] = q) = src
    BY <1>2, <2>2, <2>3
  <2>5. \E p \in P : f[p] = q
    BY <1>2, <2>2
  <2>6. M[q] = Merged(local[src], local[q])
    BY <2>1, <2>4, <2>5 DEF Promised!Moved
  <2>7. Transferred(from, to, O)[q] = Merged(local[src], local[q])
    BY <1>2 DEF Sources, Transferred
  <2> QED
    BY <2>6, <2>7
<1>3. CASE q \notin P /\ ~(q[1] = to /\ src \in P)
  <2>1. \A p \in P : f[p] # q
    BY <1>3 DEF Into, Sources, Partitions
  <2>2. M[q] = local[q]
    BY <1>3, <2>1 DEF Promised!Moved
  <2>3. q = <<q[1], q[2]>>
    BY DEF Partitions
  <2>4. Transferred(from, to, O)[q] = local[q]
    BY <1>0, <1>3, <2>3 DEF Sources, Transferred
  <2> QED
    BY <2>2, <2>4
<1> QED
  BY <1>1, <1>2, <1>3

LEMMA SourcesArePartitions == ASSUME NEW from, NEW O
                              PROVE  Sources(from, O) \in SUBSET Partitions
BY DEF Sources

LEMMA TransferIsRearrange ==
    ASSUME local \in [Partitions -> Entries],
           NEW from \in Containers, NEW to \in Containers, from # to,
           NEW O \in SUBSET Origins,
           LET m == Transferred(from, to, O) IN Saved(m) \/ KeptInMemory(m)
    PROVE  Promised!Rearrange
<1>1. local' = Transferred(from, to, O) /\ disk' \in {local', disk}
  BY DEF Saved, KeptInMemory
<1>2. local' = Promised!Moved(Sources(from, O), Into(from, to, O))
  BY <1>1, TransferIsMove
<1> QED
  BY <1>1, <1>2, IntoIsTarget, SourcesArePartitions
     DEF Promised!Rearrange, Promised!SavedOrNot

(* A page write that is not refused is a write of one partition.           *)
LEMMA PageWrite ==
    ASSUME NEW p \in Partitions, NEW m,
           \A q \in Partitions \ {p} : m[q] = local[q], Saved(m)
    PROVE  Promised!StoreNext
<1>1. Promised!Write(p)
  BY DEF Saved, Promised!Write
<1> QED
  BY <1>1 DEF Promised!StoreNext

(* Whatever tabs do, the manager is a recoverable store: accepted writes   *)
(* are durable, refused ones leave no trace, moves never drop an entry.    *)
THEOREM Refinement == Spec => ImplementsRecoverableStore
<1>1. Init => Promised!StoreInit
  BY DEF Init, Promised!StoreInit
<1>2. ASSUME TypeOK, [Next]_vars
      PROVE  [Promised!StoreNext]_<<local, disk>>
  <2>0. local \in [Partitions -> Entries]
    BY <1>2 DEF TypeOK
  <2>1. CASE UNCHANGED manager
    BY <2>1
  <2>2. ASSUME NEW t \in Tabs, loadTabContent(t) \/ closeTab(t)
        PROVE  UNCHANGED manager
    BY <2>2 DEF loadTabContent, closeTab
  <2>3. ASSUME NEW t \in Tabs, UpdateTab(t)
        PROVE  Promised!StoreNext \/ UNCHANGED manager
    <3>1. PICK o \in Origins, c \in Containers :
             \/ c # container[t] /\ TransferOrigin(container[t], c, o)
             \/ UNCHANGED manager
      BY <2>3 DEF UpdateTab
    <3>2. container[t] \in Containers /\ {o} \in SUBSET Origins
      BY <1>2 DEF TypeOK
    <3> QED
      BY <3>1, <3>2, <2>0, TransferIsRearrange
         DEF TransferOrigin, Promised!StoreNext
  <2>4. ASSUME NEW t \in Tabs, ScriptSets(t)
        PROVE  Promised!StoreNext \/ UNCHANGED manager
    <3>1. PICK k \in Keys, v \in Values : SetItem(PagePartition(t), k, v)
      BY <2>4 DEF ScriptSets
    <3>2. PagePartition(t) \in Partitions
      BY <1>2, <2>4, LivePartition DEF ScriptSets
    <3> QED
      BY <3>1, <3>2, <2>0, PageWrite DEF SetItem, RolledBack
  <2>5. ASSUME NEW t \in Tabs, ScriptRemoves(t)
        PROVE  Promised!StoreNext \/ UNCHANGED manager
    <3>1. PICK k \in Keys : RemoveItem(PagePartition(t), k)
      BY <2>5 DEF ScriptRemoves
    <3>2. PagePartition(t) \in Partitions
      BY <1>2, <2>5, LivePartition DEF ScriptRemoves
    <3> QED
      BY <3>1, <3>2, <2>0, PageWrite DEF RemoveItem, RolledBack
  <2>6. ASSUME NEW t \in Tabs, ScriptClears(t)
        PROVE  Promised!StoreNext \/ UNCHANGED manager
    <3>1. PagePartition(t) \in Partitions
      BY <1>2, <2>6, LivePartition DEF ScriptClears
    <3> QED
      BY <2>6, <3>1, <2>0, PageWrite DEF ScriptClears, ClearOrigin, RolledBack
  <2>7. CASE EmbedderTransfers
    <3>1. PICK from \in Containers, to \in Containers :
             from # to /\ TransferContainer(from, to)
      BY <2>7 DEF EmbedderTransfers
    <3> QED
      BY <3>1, <2>0, TransferIsRearrange
         DEF TransferContainer, Promised!StoreNext
  <2>8. CASE EmbedderClears
    <3>1. PICK c \in Containers : ClearContainer(c)
      BY <2>8 DEF EmbedderClears
    <3>2. {c} \X Origins \in SUBSET Partitions
      BY DEF Partitions
    <3>3. Emptied({c} \X Origins) = Promised!Emptied({c} \X Origins)
      BY DEF Emptied, Promised!Emptied
    <3> QED
      BY <3>1, <3>2, <3>3
         DEF ClearContainer, Saved, KeptInMemory, Promised!StoreNext,
             Promised!Rearrange, Promised!SavedOrNot
  <2>9. CASE Restart
    BY <2>9 DEF Restart, Promised!Recover, Promised!StoreNext
  <2> QED
    BY <1>2, <2>1, <2>2, <2>3, <2>4, <2>5, <2>6, <2>7, <2>8, <2>9 DEF Next
<1> QED
  BY <1>1, <1>2, TypeCorrect, PTL
     DEF Spec, ImplementsRecoverableStore, Promised!StoreSpec

-----------------------------------------------------------------------------
(* A transfer keeps each key of each origin under some container.          *)
LEMMA TransferKeeps ==
    ASSUME local \in [Partitions -> Entries],
           NEW from \in Containers, NEW to \in Containers, from # to,
           NEW O \in SUBSET Origins,
           NEW o \in Origins, NEW k \in Keys, Kept(local, o, k)
    PROVE  Kept(Transferred(from, to, O), o, k)
<1> DEFINE m == Transferred(from, to, O)
           src == <<from, o>>
           dst == <<to, o>>
<1>1. PICK c \in Containers : local[<<c, o>>][k] # Missing
  BY DEF Kept
<1>2. src \in Partitions /\ dst \in Partitions /\ <<c, o>> \in Partitions
  BY DEF Partitions
<1>3. CASE o \in O /\ local[src] # NoEntries /\ c \in {from, to}
  <2>1. m[dst] = Merged(local[src], local[dst])
    BY <1>2, <1>3 DEF Transferred
  <2>2. m[dst][k] # Missing
    BY <1>1, <1>3, <2>1 DEF Merged
  <2> QED
    BY <2>2 DEF Kept
<1>4. CASE ~(o \in O /\ local[src] # NoEntries /\ c \in {from, to})
  <2>1. m[<<c, o>>] = local[<<c, o>>]
    BY <1>2, <1>4 DEF Transferred
  <2> QED
    BY <1>1, <2>1 DEF Kept
<1> QED
  BY <1>3, <1>4

(* A tab's move to another container never drops a key of an origin, even  *)
(* when the move cannot be saved.                                          *)
THEOREM MovesKeep == Spec => MovesKeepKeys
<1>1. ASSUME TypeOK, [Next]_vars,
             container' # container,
             NEW o \in Origins, NEW k \in Keys, Kept(local, o, k)
      PROVE  Kept(local', o, k)
  <2>1. PICK t \in Tabs : UpdateTab(t)
    BY <1>1 DEF Next, loadTabContent, closeTab, ScriptSets, ScriptRemoves,
                ScriptClears, EmbedderTransfers, EmbedderClears, Restart
  <2>2. PICK u \in Origins, c \in Containers :
           \/ c # container[t] /\ TransferOrigin(container[t], c, u)
           \/ UNCHANGED manager
    BY <2>1 DEF UpdateTab
  <2>3. CASE local' = local
    BY <1>1, <2>3
  <2>4. CASE local' # local
    <3>1. c # container[t] /\ local' = Transferred(container[t], c, {u})
      BY <2>2, <2>4 DEF TransferOrigin, Saved, KeptInMemory
    <3>2. container[t] \in Containers /\ local \in [Partitions -> Entries]
      BY <1>1 DEF TypeOK
    <3>3. Kept(Transferred(container[t], c, {u}), o, k)
      BY <1>1, <3>1, <3>2, TransferKeeps
    <3> QED
      BY <3>1, <3>3
  <2> QED
    BY <2>3, <2>4
<1>2. TypeOK /\ [Next]_vars
        => [container' # container =>
              \A o \in Origins, k \in Keys : Kept(local, o, k) => Kept(local', o, k)]_vars
  BY <1>1
<1> QED
  BY <1>2, TypeCorrect, PTL DEF Spec, MovesKeepKeys
=============================================================================
