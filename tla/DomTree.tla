------------------------------- MODULE DomTree -------------------------------
(***************************************************************************)
(* The node tree of hotdog/node.go under the mutations page scripts call   *)
(* through hotdog/js_bindings.go.  The code keeps the same tree three      *)
(* times: Parent, the Children slice, and the FirstChild, PrevSibling and  *)
(* NextSibling links; every mutation updates all of them by hand.          *)
(*                                                                         *)
(* Scripts hold on to nodes that left the document, so calls on detached   *)
(* nodes are as legal as calls on attached ones.  All nodes are elements   *)
(* of one window.  The dirty flags and the reflow queue, which nothing     *)
(* reads at this commit, and the cache of JS wrappers are left out.        *)
(***************************************************************************)
EXTENDS Naturals, Sequences, FiniteSets, SequencesExt

CONSTANTS NodeBudget,   \* bound on the nodes that exist in a run
          Nil           \* no node

ASSUME DomAssumption == NodeBudget \in Nat \ {0} /\ Nil \notin 1..NodeBudget

Nodes == 1..NodeBudget
Root == 1               \* the document's root element

VARIABLES tree,   \* the pointer fields of every node
          made    \* nodes 1..made have been created

vars == <<tree, made>>

NodeOrNil == Nodes \cup {Nil}

Unlinked == [n \in Nodes |-> Nil]

Init ==
    /\ made = 1
    /\ tree = [parent |-> Unlinked, kids |-> [n \in Nodes |-> <<>>],
               first |-> Unlinked, prev |-> Unlinked, next |-> Unlinked]

-----------------------------------------------------------------------------
(* Tree walks.                                                             *)

(* What the loop "for a := node; a != nil; a = a.Parent" visits: the least *)
(* set with n and, with each of its nodes, the parent.                     *)
Ancestry(t, n) ==
    {a \in Nodes : \A S \in SUBSET Nodes :
        n \in S /\ (\A m \in S : t.parent[m] # Nil => t.parent[m] \in S) => a \in S}

WouldCreateCycle(t, n, c) == c \in Ancestry(t, n)

-----------------------------------------------------------------------------
(* The pointer updates, as functions from a tree to a tree.  Set skips the *)
(* assignment through a nil pointer, as the code's nil tests do.  A loop   *)
(* over the Children slice stops at the Place of the node it looks for.    *)
Set(f, n, v) == IF n = Nil THEN f ELSE [f EXCEPT ![n] = v]

HeadOrNil(s) == IF s = <<>> THEN Nil ELSE s[1]

Place(s, c) == CHOOSE i \in 1..Len(s) : s[i] = c

\* Faulty form of the next definition: the next sibling keeps its back link.
RemoveForgettingBackLink(t, n, c) ==
    IF ~Contains(t.kids[n], c) THEN t
    ELSE [parent |-> [t.parent EXCEPT ![c] = Nil],
          kids |-> [t.kids EXCEPT ![n] = RemoveAt(t.kids[n], Place(t.kids[n], c))],
          first |-> IF t.first[n] = c THEN [t.first EXCEPT ![n] = t.next[c]] ELSE t.first,
          prev |-> [t.prev EXCEPT ![c] = Nil],
          next |-> [Set(t.next, t.prev[c], t.next[c]) EXCEPT ![c] = Nil]]

removeChildNode(t, n, c) ==
    IF ~Contains(t.kids[n], c) THEN t
    ELSE [parent |-> [t.parent EXCEPT ![c] = Nil],
          kids |-> [t.kids EXCEPT ![n] = RemoveAt(t.kids[n], Place(t.kids[n], c))],
          first |-> IF t.first[n] = c THEN [t.first EXCEPT ![n] = t.next[c]] ELSE t.first,
          prev |-> [Set(t.prev, t.next[c], t.prev[c]) EXCEPT ![c] = Nil],
          next |-> [Set(t.next, t.prev[c], t.next[c]) EXCEPT ![c] = Nil]]

LeaveParent(t, c) == IF t.parent[c] = Nil THEN t ELSE removeChildNode(t, t.parent[c], c)

AppendUnchecked(t, n, c) ==
    LET last == IF t.kids[n] = <<>> THEN Nil ELSE Last(t.kids[n]) IN
    [parent |-> [t.parent EXCEPT ![c] = n],
     kids |-> [t.kids EXCEPT ![n] = Append(t.kids[n], c)],
     first |-> IF last = Nil THEN [t.first EXCEPT ![n] = c] ELSE t.first,
     prev |-> IF last = Nil THEN t.prev ELSE [t.prev EXCEPT ![c] = last],
     next |-> Set(t.next, last, c)]

(* A cycle is rejected without an error. *)
appendChildNode(t, n, c) ==
    IF WouldCreateCycle(t, n, c) THEN t ELSE AppendUnchecked(t, n, c)

(* c goes in front of ref; nothing is linked when ref is no child of n. *)
LinkBefore(t, n, c, ref) ==
    IF ~Contains(t.kids[n], ref) THEN t
    ELSE [parent |-> [t.parent EXCEPT ![c] = n],
          kids |-> [t.kids EXCEPT ![n] = InsertAt(t.kids[n], Place(t.kids[n], ref), c)],
          first |-> IF t.first[n] = ref THEN [t.first EXCEPT ![n] = c] ELSE t.first,
          prev |-> [t.prev EXCEPT ![c] = t.prev[ref], ![ref] = c],
          next |-> [(IF t.first[n] = ref THEN t.next ELSE Set(t.next, t.prev[ref], c))
                       EXCEPT ![c] = ref]]

(* c takes the place of old; nothing is linked when old is no child of n. *)
LinkInPlace(t, n, c, old) ==
    IF ~Contains(t.kids[n], old) THEN t
    ELSE [parent |-> [t.parent EXCEPT ![c] = n, ![old] = Nil],
          kids |-> [t.kids EXCEPT ![n] = ReplaceAt(t.kids[n], Place(t.kids[n], old), c)],
          first |-> IF t.first[n] = old THEN [t.first EXCEPT ![n] = c] ELSE t.first,
          prev |-> [Set(t.prev, t.next[old], c) EXCEPT ![c] = t.prev[old], ![old] = Nil],
          next |-> [Set(t.next, t.prev[old], c) EXCEPT ![c] = t.next[old], ![old] = Nil]]

DropChildren(t, n) ==
    LET dropped == ToSet(t.kids[n])
        Cleared(f) == [m \in Nodes |-> IF m \in dropped THEN Nil ELSE f[m]]
    IN [parent |-> Cleared(t.parent), prev |-> Cleared(t.prev), next |-> Cleared(t.next),
        kids |-> [t.kids EXCEPT ![n] = <<>>], first |-> [t.first EXCEPT ![n] = Nil]]

-----------------------------------------------------------------------------
(* The calls of page scripts.                                              *)
Created == 1..made

createElement ==
    /\ made < NodeBudget
    /\ made' = made + 1
    /\ UNCHANGED tree

\* Faulty form of the next definition: the child stays in its old parent.
AppendWithoutLeaving(n, c) ==
    /\ tree' = appendChildNode(tree, n, c)
    /\ UNCHANGED made

appendChild(n, c) ==
    /\ tree' = appendChildNode(LeaveParent(tree, c), n, c)
    /\ UNCHANGED made

removeChild(n, c) ==
    /\ tree' = removeChildNode(tree, n, c)
    /\ UNCHANGED made

\* Faulty form of the next definition: the ancestor test is left out.
InsertAnywhere(n, c, ref) ==
    /\ tree' = LET t == LeaveParent(tree, c) IN
               IF ref = Nil THEN AppendUnchecked(t, n, c) ELSE LinkBefore(t, n, c, ref)
    /\ UNCHANGED made

(* An ancestor of n is refused first.  Then c leaves its parent, and only  *)
(* then the reference is looked for among the children of n.               *)
insertBefore(n, c, ref) ==
    /\ ~WouldCreateCycle(tree, n, c)
    /\ tree' = LET t == LeaveParent(tree, c) IN
               IF ref = Nil THEN appendChildNode(t, n, c) ELSE LinkBefore(t, n, c, ref)
    /\ UNCHANGED made

replaceChild(n, c, old) ==
    /\ Contains(tree.kids[n], old)
    /\ ~WouldCreateCycle(tree, n, c)
    /\ tree' = LinkInPlace(LeaveParent(tree, c), n, c, old)
    /\ UNCHANGED made

(* A rejected insertBefore or replaceChild throws and changes nothing. *)
CallThrows ==
    /\ \E n, c \in Created : WouldCreateCycle(tree, n, c)
    /\ UNCHANGED vars

(* The markup is abstracted to at most two elements, side by side or       *)
(* nested; the parser links nested elements before they join n.            *)
setInnerHTML(n) ==
    \E size \in 0..2, nested \in BOOLEAN :
        /\ made + size <= NodeBudget
        /\ made' = made + size
        /\ LET a == made + 1  b == made + 2  t == DropChildren(tree, n) IN
           tree' = IF size = 0 THEN t
                   ELSE IF size = 1 THEN appendChildNode(t, n, a)
                   ELSE IF nested THEN appendChildNode(appendChildNode(t, a, b), n, a)
                   ELSE appendChildNode(appendChildNode(t, n, a), n, b)

setTextContent(n) ==
    /\ made < NodeBudget
    /\ made' = made + 1
    /\ tree' = appendChildNode(DropChildren(tree, n), n, made + 1)

Subtree(t, n) == {m \in Nodes : n \in Ancestry(t, m)}

(* The tree with a copy of each node in the range of original.  The copies *)
(* are linked child by child below the copy of their parent.               *)
WithCopies(t, n, deep, original) ==
    LET Copy(m) == IF m = Nil THEN Nil ELSE CHOOSE k \in DOMAIN original : original[k] = m
        linked == {k \in DOMAIN original : deep /\ original[k] # n}
        Copied(f, copies) == [k \in Nodes |-> IF k \in copies THEN Copy(f[original[k]]) ELSE f[k]]
    IN [parent |-> Copied(t.parent, linked), prev |-> Copied(t.prev, linked),
        next |-> Copied(t.next, linked),
        first |-> Copied(t.first, {k \in DOMAIN original : deep}),
        kids |-> [k \in Nodes |->
            IF k \in DOMAIN original /\ deep
            THEN [i \in 1..Len(t.kids[original[k]]) |-> Copy(t.kids[original[k]][i])]
            ELSE t.kids[k]]]

cloneNode(n, deep) ==
    LET originals == IF deep THEN Subtree(tree, n) ELSE {n}
        copies == (made + 1)..(made + Cardinality(originals))
    IN /\ made + Cardinality(originals) <= NodeBudget
       /\ made' = made + Cardinality(originals)
       /\ tree' = WithCopies(tree, n, deep, [k \in copies |-> SetToSeq(originals)[k - made]])

Next ==
    \/ createElement
    \/ \E n, c \in Created :
         \/ appendChild(n, c)
         \/ removeChild(n, c)
         \/ \E ref \in Created \cup {Nil} : insertBefore(n, c, ref)
         \/ \E old \in Created : replaceChild(n, c, old)
    \/ CallThrows
    \/ \E n \in Created :
         \/ setInnerHTML(n)
         \/ setTextContent(n)
         \/ \E deep \in BOOLEAN : cloneNode(n, deep)

Spec == Init /\ [][Next]_vars

-----------------------------------------------------------------------------
TypeOK ==
    /\ made \in 1..NodeBudget
    /\ \A n \in Nodes : tree.parent[n] # Nil => n \in Created
    /\ tree.kids \in [Nodes -> Seq(Nodes)]
    /\ \A f \in {tree.parent, tree.first, tree.prev, tree.next} : f \in [Nodes -> NodeOrNil]

(* Links lead to nodes that exist, and the encodings of the tree agree: a  *)
(* node's Parent is the only node that lists it, once, and the sibling     *)
(* links follow the Children slice.                                        *)
LinksAgree ==
    /\ TypeOK
    /\ \A n \in Nodes :
        LET s == tree.kids[n] IN
        /\ IsInjective(s)
        /\ \A c \in Nodes : tree.parent[c] = n <=> c \in ToSet(s)
        /\ tree.first[n] = HeadOrNil(s)
        /\ \A i \in 1..Len(s) :
             /\ tree.prev[s[i]] = IF i = 1 THEN Nil ELSE s[i - 1]
             /\ tree.next[s[i]] = IF i = Len(s) THEN Nil ELSE s[i + 1]
        /\ tree.parent[n] = Nil => tree.prev[n] = Nil /\ tree.next[n] = Nil

(* The Parent chain of every node ends, so that MarkDirty and every other  *)
(* walk up or down the tree terminates: a loop overflows the Go stack,     *)
(* which kills the process.                                                *)
Acyclic ==
    \A n \in Nodes : \A a \in Ancestry(tree, n) :
        tree.parent[a] # Nil => n # tree.parent[a]

Forest == INSTANCE OrderedForest WITH kids <- tree.kids

(* Every call moves, removes, replaces or creates whole subtrees, never    *)
(* builds a loop, and leaves the order of all other nodes alone; a call    *)
(* that fails half way is one of these too.                                *)
ImplementsOrderedForest == Forest!ForestSpec

(* "rejected append must not reparent": a call of appendChild with an      *)
(* ancestor of the parent leaves the ancestor where it is.                 *)
RejectedAppendKeepsParent ==
    [][\A n, c \in Created :
         WouldCreateCycle(tree, n, c) /\ appendChild(n, c) => UNCHANGED tree]_vars
=============================================================================
