--------------------------- MODULE RecoverableStore ---------------------------
(***************************************************************************)
(* What the users of a saved store may rely on.  An entry is written in    *)
(* one partition at a time and is on disk once the write is accepted; a    *)
(* refused write leaves nothing behind.  Moving or emptying whole          *)
(* partitions never loses an entry it was not asked to drop, though it may *)
(* stay in memory only.  A restart finds the disk.                         *)
(***************************************************************************)
CONSTANTS Partitions, NoEntries, Merged(_, _)

VARIABLES mem, disk   \* partition -> its entries, in memory and on disk

StoreInit == mem = disk

(* Accepted: one partition changes, and the disk has all that memory has.  *)
Write(p) ==
    /\ \A q \in Partitions \ {p} : mem'[q] = mem[q]
    /\ disk' = mem'

(* The entries of each partition in P leave for another, one that to does  *)
(* not empty, and win there over the ones it has.                          *)
Moved(P, to) ==
    [q \in Partitions |->
        IF q \in P THEN NoEntries
        ELSE IF \E p \in P : to[p] = q
             THEN Merged(mem[CHOOSE p \in P : to[p] = q], mem[q])
             ELSE mem[q]]

Targets(P) ==
    {to \in [P -> Partitions \ P] : \A p, q \in P : to[p] = to[q] => p = q}

Emptied(P) == [p \in Partitions |-> IF p \in P THEN NoEntries ELSE mem[p]]

SavedOrNot == disk' \in {mem', disk}

Rearrange ==
    /\ \E P \in SUBSET Partitions :
          mem' = Emptied(P) \/ \E to \in Targets(P) : mem' = Moved(P, to)
    /\ SavedOrNot

Recover == mem' = disk /\ disk' = disk

StoreNext == (\E p \in Partitions : Write(p)) \/ Rearrange \/ Recover

StoreSpec == StoreInit /\ [][StoreNext]_<<mem, disk>>
=============================================================================
