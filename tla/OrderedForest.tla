---------------------------- MODULE OrderedForest ----------------------------
(***************************************************************************)
(* What page scripts may rely on when they mutate the DOM: the nodes form  *)
(* a forest of ordered trees, and one call moves, removes, replaces or     *)
(* builds whole subtrees, leaving the order of everything else alone.      *)
(***************************************************************************)
EXTENDS Naturals, Sequences, SequencesExt

CONSTANT Nodes

VARIABLE kids   \* the child list of each node

ForestInit == kids \in [Nodes -> Seq(Nodes)]

Children(n) == ToSet(kids[n])

Without(s, c) ==
    IF Contains(s, c) THEN RemoveAt(s, CHOOSE i \in 1..Len(s) : s[i] = c) ELSE s

Pruned(c) == [n \in Nodes |-> Without(kids[n], c)]

OneParent(c) == \A m, n \in Nodes : c \in Children(m) /\ c \in Children(n) => m = n

(* c's parent is in c's own subtree when no set of nodes closed below c's  *)
(* children can do without c.                                              *)
InOwnSubtree(c) ==
    \A S \in SUBSET Nodes :
        Children(c) \subseteq S /\ (\A m \in S : Children(m) \subseteq S) => c \in S

(* c, with its subtree, leaves its parent, and may join a child list. *)
Move(c) ==
    /\ Pruned(c)' = Pruned(c)
    /\ OneParent(c)'
    /\ \A n \in Nodes : Len(kids'[n]) <= Len(Pruned(c)[n]) + 1
    /\ ~InOwnSubtree(c)'

(* c, with its subtree, takes the place of old. *)
Replace(c, old) ==
    /\ c # old
    /\ kids' = [n \in Nodes |-> ReplaceAll(Pruned(c)[n], old, c)]
    /\ ~InOwnSubtree(c)'

(* The children of n are given up for nodes that were in no tree, which    *)
(* may have children of their own.  (With n such a node, a tree is built.) *)
Unused(m) == kids[m] = <<>> /\ \A n \in Nodes : m \notin Children(n)

Build(n) ==
    LET new == {m \in Nodes : Unused(m) /\ \E p \in Nodes : m \in Children(p)'} IN
    /\ \A m \in Nodes \ (new \cup {n}) : kids'[m] = kids[m]
    /\ \A m \in new \cup {n} : Children(m)' \subseteq new \ {n}
    /\ \A m \in new : OneParent(m)' /\ ~InOwnSubtree(m)'

ForestNext ==
    \/ \E c \in Nodes : Move(c)
    \/ \E c, old \in Nodes : Replace(c, old)
    \/ \E n \in Nodes : Build(n)

ForestSpec == ForestInit /\ [][ForestNext]_kids
=============================================================================
