---------------------------- MODULE DomTreeProofs ----------------------------
(***************************************************************************)
(* The mutations of the DOM tree keep its three encodings in agreement and *)
(* free of rings, and move whole subtrees, for any number of nodes.        *)
(*                                                                         *)
(* The argument goes from lists to trees to calls: what an insertion, a    *)
(* removal or a replacement does to one chain of siblings; what one update *)
(* of the pointers does to the tree; which calls perform which updates, in *)
(* which order.  Rings are ruled out by a set with no outermost node, so   *)
(* that no induction over paths is needed.                                 *)
(***************************************************************************)
EXTENDS DomTree, FiniteSetTheorems, SequenceTheorems, TLAPS

(* The list s names no node twice, and it names c.                         *)
Distinct(s) == \A i, j \in 1..Len(s) : s[i] = s[j] => i = j
Within(c, s) == \E i \in 1..Len(s) : s[i] = c

(* The sibling links follow the list s.                                    *)
Chained(s, prev, next) ==
    \A i \in 1..Len(s) : /\ prev[s[i]] = IF i = 1 THEN Nil ELSE s[i - 1]
                         /\ next[s[i]] = IF i = Len(s) THEN Nil ELSE s[i + 1]

(* The list s is that of the children of n.                                *)
ListOf(t, n, s) ==
    /\ Distinct(s)
    /\ \A c \in Nodes : t.parent[c] = n <=> Within(c, s)
    /\ t.first[n] = IF Len(s) = 0 THEN Nil ELSE s[1]
    /\ Chained(s, t.prev, t.next)

(* The fields of every node hold nodes, or nothing.                        *)
Typed(t) ==
    /\ t.parent \in [Nodes -> NodeOrNil] /\ t.first \in [Nodes -> NodeOrNil]
    /\ t.prev \in [Nodes -> NodeOrNil] /\ t.next \in [Nodes -> NodeOrNil]
    /\ t.kids \in [Nodes -> Seq(Nodes)]

(* A node without a parent has no siblings.                                *)
Detached(t, c) == t.parent[c] = Nil => t.prev[c] = Nil /\ t.next[c] = Nil

(* The encodings of the tree agree.                                       *)
Links(t) ==
    /\ Typed(t)
    /\ \A n \in Nodes : ListOf(t, n, t.kids[n])
    /\ \A n \in Nodes : Detached(t, n)

-----------------------------------------------------------------------------
(* What the operations on lists do, element by element.                    *)

(* RemoveAt shifts what is behind the removed element by one.              *)
LEMMA RemoveAtProperties ==
    ASSUME NEW S, NEW s \in Seq(S), NEW i \in 1 .. Len(s)
    PROVE  /\ RemoveAt(s, i) \in Seq(S)
           /\ Len(RemoveAt(s, i)) = Len(s) - 1
           /\ \A k \in 1 .. Len(s) - 1 :
                 RemoveAt(s, i)[k] = IF k < i THEN s[k] ELSE s[k + 1]
<1> DEFINE before == SubSeq(s, 1, i - 1)
           after == SubSeq(s, i + 1, Len(s))
           r == RemoveAt(s, i)
<1>1. /\ before \in Seq(S) /\ Len(before) = i - 1
      /\ \A k \in 1 .. i - 1 : before[k] = s[k]
  BY SubSeqProperties
<1>2. /\ after \in Seq(S) /\ Len(after) = Len(s) - i
      /\ \A k \in 1 .. Len(s) - i : after[k] = s[i + k]
  BY SubSeqProperties
<1>3. /\ r \in Seq(S) /\ Len(r) = Len(before) + Len(after)
      /\ \A k \in 1 .. Len(before) + Len(after) :
            r[k] = IF k <= Len(before) THEN before[k] ELSE after[k - Len(before)]
  BY <1>1, <1>2, ConcatProperties DEF RemoveAt
<1>4. Len(s) \in Nat /\ i \in Int
  BY LenProperties
<1> HIDE DEF before, after, r
<1>5. Len(r) = Len(s) - 1
  BY <1>1, <1>2, <1>3, <1>4
<1>6. ASSUME NEW k \in 1 .. Len(s) - 1
      PROVE  r[k] = IF k < i THEN s[k] ELSE s[k + 1]
  <2> k \in 1 .. Len(before) + Len(after)
    BY <1>1, <1>2, <1>4
  <2>r. r[k] = IF k <= Len(before) THEN before[k] ELSE after[k - Len(before)]
    BY <1>3
  <2>1. CASE k < i
    BY <2>1, <2>r, <1>1, <1>4
  <2>2. CASE ~(k < i)
    <3>1. k - (i - 1) \in 1 .. Len(s) - i /\ i + (k - (i - 1)) = k + 1
      BY <2>2, <1>4
    <3>2. r[k] = after[k - (i - 1)]
      BY <2>2, <2>r, <1>1, <1>4
    <3> QED  BY <2>2, <3>1, <3>2, <1>2
  <2> QED  BY <2>1, <2>2
<1> QED  BY <1>3, <1>5, <1>6 DEF r

(* The elements of s around one inserted at i.                             *)
InsertAtElements(s, i, e) ==
    /\ InsertAt(s, i, e)[i] = e
    /\ \A k \in 1 .. Len(s) + 1 :
          /\ k < i => InsertAt(s, i, e)[k] = s[k]
          /\ k > i => InsertAt(s, i, e)[k] = s[k - 1]

(* InsertAt shifts what is behind the inserted element by one.             *)
LEMMA InsertAtProperties ==
    ASSUME NEW S, NEW s \in Seq(S), NEW i \in 1 .. Len(s) + 1, NEW e \in S
    PROVE  /\ InsertAt(s, i, e) \in Seq(S)
           /\ Len(InsertAt(s, i, e)) = Len(s) + 1
           /\ InsertAtElements(s, i, e)
<1> DEFINE before == SubSeq(s, 1, i - 1)
           after == SubSeq(s, i, Len(s))
           front == before \o <<e>>
           r == InsertAt(s, i, e)
<1>1. /\ before \in Seq(S) /\ Len(before) = i - 1
      /\ \A k \in 1 .. i - 1 : before[k] = s[k]
  BY SubSeqProperties
<1>2. /\ after \in Seq(S) /\ Len(after) = Len(s) - i + 1
      /\ \A k \in 1 .. Len(s) - i + 1 : after[k] = s[i - 1 + k]
  BY SubSeqProperties
<1>3. /\ front \in Seq(S) /\ Len(front) = i
      /\ \A k \in 1 .. i : front[k] = IF k < i THEN s[k] ELSE e
  BY <1>1, ConcatProperties
<1>4. /\ r \in Seq(S) /\ Len(r) = Len(front) + Len(after)
      /\ \A k \in 1 .. Len(front) + Len(after) :
            r[k] = IF k <= Len(front) THEN front[k] ELSE after[k - Len(front)]
  BY <1>2, <1>3, ConcatProperties DEF InsertAt
<1>5. Len(s) \in Nat /\ i \in Int
  BY LenProperties
<1> HIDE DEF before, after, front, r
<1>6. Len(r) = Len(s) + 1
  BY <1>2, <1>3, <1>4, <1>5
<1>7. /\ \A k \in 1 .. i - 1 : r[k] = s[k]
      /\ r[i] = e
  BY <1>2, <1>3, <1>4, <1>5
<1>8. ASSUME NEW k \in i + 1 .. Len(s) + 1
      PROVE  r[k] = s[k - 1]
  <2>1. k - i \in 1 .. Len(s) - i + 1 /\ i - 1 + (k - i) = k - 1
    BY <1>5
  <2>2. r[k] = after[k - i]
    BY <1>2, <1>3, <1>4, <1>5
  <2> QED  BY <2>1, <2>2, <1>2, <1>5
<1>9. \A k \in 1 .. Len(s) + 1 : (k < i => r[k] = s[k]) /\ (k > i => r[k] = s[k - 1])
  BY <1>5, <1>7, <1>8
<1> QED  BY <1>4, <1>6, <1>7, <1>9 DEF InsertAtElements, r

(* Last and Front split a list that is not empty.                          *)
LEMMA LastFrontProperties ==
    ASSUME NEW S, NEW s \in Seq(S), s # <<>>
    PROVE  /\ Last(s) \in S /\ Last(s) = s[Len(s)] /\ Len(s) >= 1
           /\ Front(s) \in Seq(S) /\ Len(Front(s)) = Len(s) - 1
           /\ \A k \in 1 .. Len(s) - 1 : Front(s)[k] = s[k]
<1>1. Len(s) \in Nat /\ Len(s) >= 1
  BY EmptySeq, SeqEqual
<1>2. \A k \in 1 .. Len(s) : s[k] \in S
  BY ElementOfSeq
<1>3. PICK n \in Nat : n = Len(s) - 1
  BY <1>1
<1> DEFINE f == SubSeq(s, 1, n)
<1>4. f \in Seq(S) /\ Len(f) = n /\ \A k \in 1 .. n : f[k] = s[k]
  <2>1. 1 \in Int /\ n \in Int /\ \A i \in 1 .. n : s[i] \in S
    BY <1>1, <1>2, <1>3
  <2>2. f \in Seq(S)
    BY <2>1, SubSeqProperties
  <2>3. Len(f) = n
    BY <2>1, SubSeqProperties
  <2>4. \A k \in 1 .. n : f[k] = s[k]
    BY <2>1, SubSeqProperties
  <2> QED  BY <2>2, <2>3, <2>4
<1> HIDE DEF f
<1>5. Front(s) = f
  BY <1>3 DEF Front, f
<1> QED  BY <1>1, <1>2, <1>3, <1>4, <1>5 DEF Last

(* Domain and elements of a list; only the empty list has length 0.        *)
LEMMA ListProperties ==
    ASSUME NEW S, NEW s \in Seq(S)
    PROVE  /\ DOMAIN s = 1 .. Len(s) /\ Len(s) \in Nat
           /\ \A i \in 1 .. Len(s) : s[i] \in S
           /\ s = <<>> <=> Len(s) = 0
  BY LenProperties, ElementOfSeq, EmptySeq

-----------------------------------------------------------------------------
(* The absence of a node is none of the nodes.                             *)
LEMMA NilIsNoNode == Nil \notin Nodes
  BY DomAssumption DEF DomAssumption, Nodes

(* A list of children in which c occurs.                                   *)
LEMMA PlaceProperties ==
    ASSUME NEW s \in Seq(Nodes), NEW c, Contains(s, c)
    PROVE  Place(s, c) \in 1..Len(s) /\ s[Place(s, c)] = c
  BY DEF Contains, Place

(* A list that a change does not touch stays that of its parent.           *)
LEMMA OtherList ==
    ASSUME NEW t, NEW r, NEW m \in Nodes, NEW s \in Seq(Nodes), ListOf(t, m, s),
           \A d \in Nodes : r.parent[d] = m <=> t.parent[d] = m,
           \A d \in Nodes : t.parent[d] = m => r.prev[d] = t.prev[d] /\ r.next[d] = t.next[d],
           r.first[m] = t.first[m]
    PROVE  ListOf(r, m, s)
<1>1. ASSUME NEW i \in 1..Len(s)
      PROVE  s[i] \in Nodes /\ r.prev[s[i]] = t.prev[s[i]] /\ r.next[s[i]] = t.next[s[i]]
  BY ListProperties DEF ListOf, Within
<1>2. Chained(s, r.prev, r.next)
  BY <1>1 DEF ListOf, Chained
<1> QED  BY <1>2 DEF ListOf

(* A list without its element at k.                                        *)
LEMMA ListWithout ==
    ASSUME NEW s \in Seq(Nodes), NEW k \in 1..Len(s), Distinct(s)
    PROVE  /\ Distinct(RemoveAt(s, k))
           /\ \A d : Within(d, RemoveAt(s, k)) <=> Within(d, s) /\ d # s[k]
<1>1. PICK L \in Nat : L = Len(s) /\ k \in 1..L /\ \A i \in 1..L : s[i] \in Nodes
  BY ListProperties
<1>2. PICK q : /\ q = RemoveAt(s, k) /\ Len(q) = L - 1
               /\ \A i \in 1..L - 1 : q[i] = IF i < k THEN s[i] ELSE s[i + 1]
  BY <1>1, RemoveAtProperties
<1>3. \A i, j \in 1..L : s[i] = s[j] => i = j
  BY <1>1 DEF Distinct
<1>4. Distinct(q)
  <2> SUFFICES ASSUME NEW i \in 1..L - 1, NEW j \in 1..L - 1, q[i] = q[j] PROVE i = j
    BY <1>2 DEF Distinct
  <2> QED  BY <1>1, <1>2, <1>3
<1>5. ASSUME NEW d
      PROVE  Within(d, q) <=> Within(d, s) /\ d # s[k]
  <2>1. ASSUME NEW i \in 1..L - 1, q[i] = d
        PROVE  Within(d, s) /\ d # s[k]
    BY <1>1, <1>2, <1>3, <2>1 DEF Within
  <2>2. ASSUME NEW i \in 1..L, s[i] = d, i # k
        PROVE  Within(d, q)
    <3>1. CASE i < k
      <4>1. i \in 1..L - 1 /\ q[i] = s[i]
        BY <1>1, <1>2, <3>1
      <4> QED  BY <1>2, <2>2, <4>1 DEF Within
    <3>2. CASE i > k
      <4>1. i - 1 \in 1..L - 1 /\ q[i - 1] = s[i]
        BY <1>1, <1>2, <3>2
      <4> QED  BY <1>2, <2>2, <4>1 DEF Within
    <3> QED  BY <1>1, <2>2, <3>1, <3>2
  <2> QED  BY <1>1, <1>2, <2>1, <2>2 DEF Within
<1> QED  BY <1>2, <1>4, <1>5

(* The chain of a list without its element at k.                           *)
LEMMA ChainWithout ==
    ASSUME NEW s \in Seq(Nodes), NEW k \in 1..Len(s), Distinct(s),
           NEW prev, NEW next, Chained(s, prev, next),
           NEW prev2, NEW next2,
           \A m \in Nodes \ {s[k]} :
              /\ prev2[m] = IF m = next[s[k]] THEN prev[s[k]] ELSE prev[m]
              /\ next2[m] = IF m = prev[s[k]] THEN next[s[k]] ELSE next[m]
    PROVE  Chained(RemoveAt(s, k), prev2, next2)
<1>1. PICK L \in Nat : L = Len(s) /\ k \in 1..L /\ \A i \in 1..L : s[i] \in Nodes
  BY ListProperties
<1>2. PICK q : /\ q = RemoveAt(s, k) /\ Len(q) = L - 1
               /\ \A i \in 1..L - 1 : q[i] = IF i < k THEN s[i] ELSE s[i + 1]
  BY <1>1, RemoveAtProperties
<1>3. \A i, j \in 1..L : s[i] = s[j] => i = j
  BY <1>1 DEF Distinct
<1>4. \A i \in 1..L : /\ prev[s[i]] = IF i = 1 THEN Nil ELSE s[i - 1]
                      /\ next[s[i]] = IF i = L THEN Nil ELSE s[i + 1]
  BY <1>1 DEF Chained
<1>n. Nil \notin Nodes
  BY NilIsNoNode
<1>5. ASSUME NEW i \in 1..L - 1
      PROVE  /\ prev2[q[i]] = IF i = 1 THEN Nil ELSE q[i - 1]
             /\ next2[q[i]] = IF i = L - 1 THEN Nil ELSE q[i + 1]
  <2>1. CASE i < k
    <3>1. q[i] = s[i] /\ s[i] \in Nodes \ {s[k]} /\ i \in 1..L /\ i # L
      BY <1>1, <1>2, <1>3, <2>1
    <3>2. s[i] # next[s[k]] /\ (s[i] = prev[s[k]] <=> i = k - 1)
      BY <1>1, <1>3, <1>4, <1>n, <2>1, <3>1
    <3>3. i # 1 => i - 1 \in 1..L - 1 /\ q[i - 1] = s[i - 1]
      BY <1>1, <1>2, <2>1
    <3>4. i # L - 1 => i + 1 \in 1..L - 1 /\ q[i + 1] = IF i = k - 1 THEN s[k + 1] ELSE s[i + 1]
      BY <1>1, <1>2, <2>1
    <3>5. i = L - 1 => k = L /\ i = k - 1
      BY <1>1, <2>1
    <3>6. prev2[q[i]] = prev[s[i]] /\ next2[q[i]] = IF i = k - 1 THEN next[s[k]] ELSE next[s[i]]
      BY <3>1, <3>2
    <3>7. i = k - 1 => next[s[k]] = IF k = L THEN Nil ELSE s[k + 1]
      BY <1>1, <1>4
    <3> QED  BY <1>1, <1>4, <3>1, <3>3, <3>4, <3>5, <3>6, <3>7
  <2>2. CASE i >= k
    <3>1. q[i] = s[i + 1] /\ s[i + 1] \in Nodes \ {s[k]} /\ i + 1 \in 1..L /\ i + 1 # 1
      BY <1>1, <1>2, <1>3, <2>2
    <3>2. s[i + 1] # prev[s[k]] /\ (s[i + 1] = next[s[k]] <=> i = k)
      <4>1. k \in 1..L - 1 /\ k + 1 \in 1..L /\ next[s[k]] = s[k + 1]
        BY <1>1, <1>4, <2>2
      <4>2. s[i + 1] = s[k + 1] <=> i = k
        BY <1>1, <1>3, <2>2, <3>1, <4>1
      <4>3. k # 1 => k - 1 \in 1..L /\ s[k - 1] # s[i + 1]
        BY <1>1, <1>3, <2>2, <3>1
      <4> QED  BY <1>4, <1>n, <3>1, <4>1, <4>2, <4>3
    <3>3. i # 1 => q[i - 1] = IF i = k THEN s[k - 1] ELSE s[i]
      BY <1>1, <1>2, <2>2
    <3>4. i # L - 1 => i + 1 \in 1..L - 1 /\ q[i + 1] = s[i + 2]
      BY <1>1, <1>2, <2>2
    <3>5. next2[q[i]] = next[s[i + 1]] /\ prev2[q[i]] = IF i = k THEN prev[s[k]] ELSE prev[s[i + 1]]
      BY <3>1, <3>2
    <3>6. prev[s[k]] = IF k = 1 THEN Nil ELSE s[k - 1]
      BY <1>1, <1>4
    <3>7. /\ prev[s[i + 1]] = s[i]
          /\ next[s[i + 1]] = IF i = L - 1 THEN Nil ELSE s[i + 2]
      BY <1>1, <1>4, <3>1
    <3> QED  BY <1>1, <2>2, <3>3, <3>4, <3>5, <3>6, <3>7
  <2> QED  BY <1>1, <2>1, <2>2
<1>6. Chained(q, prev2, next2)
  BY <1>2, <1>5 DEF Chained
<1> QED  BY <1>2, <1>6

(* Taking a child out keeps the encodings of a tree in agreement.          *)
LEMMA RemoveLinks ==
    ASSUME NEW t, Links(t), NEW n \in Nodes, NEW c \in Nodes, Contains(t.kids[n], c)
    PROVE  /\ Links(removeChildNode(t, n, c))
           /\ removeChildNode(t, n, c).parent = [t.parent EXCEPT ![c] = Nil]
<1> DEFINE r == removeChildNode(t, n, c)
<1>n. Nil \notin Nodes
  BY NilIsNoNode
<1>1. PICK s \in Seq(Nodes) : s = t.kids[n]
  BY DEF Links, Typed
<1>2. PICK k \in 1..Len(s) : k = Place(s, c) /\ s[k] = c
  BY <1>1, PlaceProperties
<1>3. PICK q \in Seq(Nodes) : /\ q = RemoveAt(s, k) /\ Len(q) = Len(s) - 1
                              /\ \A i \in 1..Len(s) - 1 : q[i] = IF i < k THEN s[i] ELSE s[i + 1]
  BY <1>2, RemoveAtProperties
<1>4. /\ t.parent \in [Nodes -> NodeOrNil] /\ t.first \in [Nodes -> NodeOrNil]
      /\ t.prev \in [Nodes -> NodeOrNil] /\ t.next \in [Nodes -> NodeOrNil]
      /\ t.kids \in [Nodes -> Seq(Nodes)] /\ ListOf(t, n, s)
  BY <1>1 DEF Links, Typed
<1>5. PICK p \in NodeOrNil : p = t.prev[c]
  BY <1>4
<1>6. PICK x \in NodeOrNil : x = t.next[c]
  BY <1>4
<1>7. /\ \A i \in 1..Len(s) : s[i] \in Nodes /\ t.parent[s[i]] = n
      /\ Len(s) \in Nat
  BY <1>1, <1>4, ListProperties DEF ListOf, Within
<1>8. /\ p = IF k = 1 THEN Nil ELSE s[k - 1]
      /\ x = IF k = Len(s) THEN Nil ELSE s[k + 1]
  BY <1>2, <1>4, <1>5, <1>6 DEF ListOf, Chained
<1>9. /\ t.parent[c] = n /\ p # c /\ x # c
      /\ p \in Nodes => t.parent[p] = n
      /\ x \in Nodes => t.parent[x] = n
  <2>1. k - 1 # k /\ k + 1 # k /\ (k # 1 => k - 1 \in 1..Len(s)) /\ (k # Len(s) => k + 1 \in 1..Len(s))
    BY <1>2, <1>7
  <2> QED  BY <1>2, <1>4, <1>7, <1>8, <1>n, <2>1 DEF ListOf, Distinct
<1>10. /\ r.parent = [t.parent EXCEPT ![c] = Nil]
       /\ r.kids = [t.kids EXCEPT ![n] = q]
       /\ r.first = IF t.first[n] = c THEN [t.first EXCEPT ![n] = x] ELSE t.first
       /\ r.prev = [Set(t.prev, x, p) EXCEPT ![c] = Nil]
       /\ r.next = [Set(t.next, p, x) EXCEPT ![c] = Nil]
  BY <1>1, <1>2, <1>3, <1>5, <1>6 DEF removeChildNode
<1> HIDE DEF r
<1>11. Set(t.prev, x, p) \in [Nodes -> NodeOrNil] /\ Set(t.next, p, x) \in [Nodes -> NodeOrNil]
  BY <1>4, <1>5, <1>6 DEF Set, NodeOrNil
<1>12. Typed(r)
  BY <1>3, <1>4, <1>10, <1>11 DEF Typed, NodeOrNil
<1>13. ASSUME NEW m \in Nodes
       PROVE  /\ r.prev[m] = IF m = c THEN Nil ELSE IF m = x THEN p ELSE t.prev[m]
              /\ r.next[m] = IF m = c THEN Nil ELSE IF m = p THEN x ELSE t.next[m]
              /\ r.parent[m] = IF m = c THEN Nil ELSE t.parent[m]
              /\ r.kids[m] = IF m = n THEN q ELSE t.kids[m]
              /\ m # n => r.first[m] = t.first[m]
  <2>1. /\ Set(t.prev, x, p)[m] = IF m = x THEN p ELSE t.prev[m]
        /\ Set(t.next, p, x)[m] = IF m = p THEN x ELSE t.next[m]
    BY <1>4, <1>n DEF Set
  <2> QED  BY <1>4, <1>10, <1>11, <2>1
<1>14. ASSUME NEW m \in Nodes, m # n
       PROVE  ListOf(r, m, r.kids[m])
  <2>1. t.kids[m] \in Seq(Nodes) /\ ListOf(t, m, t.kids[m]) /\ r.kids[m] = t.kids[m]
    BY <1>4, <1>13, <1>14 DEF Links
  <2>2. \A d \in Nodes : r.parent[d] = m <=> t.parent[d] = m
    BY <1>9, <1>13, <1>14, <1>n
  <2>3. \A d \in Nodes : t.parent[d] = m => r.prev[d] = t.prev[d] /\ r.next[d] = t.next[d]
    BY <1>9, <1>13, <1>14
  <2>4. r.first[m] = t.first[m]
    BY <1>13, <1>14
  <2>5. ListOf(r, m, t.kids[m])
    BY <2>1, <2>2, <2>3, <2>4, OtherList
  <2> QED  BY <2>1, <2>5
<1>15. ListOf(r, n, q)
  <2>1. \A m \in Nodes \ {s[k]} :
           /\ r.prev[m] = IF m = t.next[s[k]] THEN t.prev[s[k]] ELSE t.prev[m]
           /\ r.next[m] = IF m = t.prev[s[k]] THEN t.next[s[k]] ELSE t.next[m]
    BY <1>2, <1>5, <1>6, <1>13
  <2>2. Distinct(s) /\ Chained(s, t.prev, t.next) /\ \A d \in Nodes : t.parent[d] = n <=> Within(d, s)
    BY <1>4 DEF ListOf
  <2>3. /\ Chained(q, r.prev, r.next) /\ Distinct(q)
        /\ \A d : Within(d, q) <=> Within(d, s) /\ d # c
    <3> DEFINE prev == t.prev
               next == t.next
               prev2 == r.prev
               next2 == r.next
    <3>1. \A m \in Nodes \ {s[k]} :
             /\ prev2[m] = IF m = next[s[k]] THEN prev[s[k]] ELSE prev[m]
             /\ next2[m] = IF m = prev[s[k]] THEN next[s[k]] ELSE next[m]
      BY <2>1
    <3>2. Chained(s, prev, next)
      BY <2>2
    <3> HIDE DEF prev, next, prev2, next2
    <3>3. /\ Chained(q, prev2, next2) /\ Distinct(q)
          /\ \A d : Within(d, q) <=> Within(d, s) /\ d # s[k]
      <4>1. s \in Seq(Nodes) /\ k \in 1..Len(s) /\ Distinct(s)
        BY <1>1, <1>2, <2>2
      <4>2. Chained(RemoveAt(s, k), prev2, next2)
        BY <4>1, <3>1, <3>2, ChainWithout
      <4>3. /\ Distinct(RemoveAt(s, k))
            /\ \A d : Within(d, RemoveAt(s, k)) <=> Within(d, s) /\ d # s[k]
        BY <4>1, ListWithout
      <4> QED  BY <4>2, <4>3, <1>3
    <3> QED  BY <1>2, <3>3 DEF prev2, next2
  <2>4. \A d \in Nodes : r.parent[d] = n <=> Within(d, q)
    BY <1>13, <1>n, <2>2, <2>3
  <2>5. r.first[n] = IF Len(q) = 0 THEN Nil ELSE q[1]
    <3>1. t.first[n] = s[1] /\ (s[1] = c <=> k = 1)
      <4>1. 1 \in 1..Len(s) /\ s[k] = c
        BY <1>2
      <4>2. t.first[n] = s[1]
        BY <1>2, <1>4, <1>7, <4>1 DEF ListOf
      <4>3. s[1] = c => k = 1
        BY <2>2, <4>1 DEF Distinct
      <4> QED  BY <4>1, <4>2, <4>3
    <3>2. r.first[n] = IF k = 1 THEN x ELSE s[1]
      BY <1>4, <1>10, <3>1
    <3> QED  BY <1>2, <1>3, <1>7, <1>8, <3>2
  <2> QED  BY <2>3, <2>4, <2>5 DEF ListOf
<1>16. ASSUME NEW m \in Nodes
       PROVE  Detached(r, m)
  BY <1>9, <1>13, <1>n DEF Links, Detached
<1>17. \A m \in Nodes : ListOf(r, m, r.kids[m])
  BY <1>13, <1>14, <1>15
<1> QED  BY <1>10, <1>12, <1>16, <1>17 DEF Links, r

(* The list q is s with c inserted at k.                                   *)
Inserted(q, s, k, c) ==
    /\ q \in Seq(Nodes) /\ Len(q) = Len(s) + 1 /\ q[k] = c
    /\ \A i \in 1..Len(s) + 1 : (i < k => q[i] = s[i]) /\ (i > k => q[i] = s[i - 1])

(* A list with one more element.                                           *)
LEMMA ListWith ==
    ASSUME NEW s \in Seq(Nodes), NEW k \in 1..Len(s) + 1, NEW c \in Nodes, NEW q,
           Inserted(q, s, k, c), Distinct(s), ~Within(c, s)
    PROVE  /\ Distinct(q)
           /\ \A d : Within(d, q) <=> Within(d, s) \/ d = c
<1>1. PICK L \in Nat : L = Len(s) /\ k \in 1..L + 1 /\ \A i \in 1..L : s[i] \in Nodes
  BY ListProperties
<1>2. /\ Len(q) = L + 1 /\ q[k] = c
      /\ \A i \in 1..L + 1 : (i < k => q[i] = s[i]) /\ (i > k => q[i] = s[i - 1])
  BY <1>1 DEF Inserted
<1>3. /\ \A i, j \in 1..L : s[i] = s[j] => i = j
      /\ \A i \in 1..L : s[i] # c
  BY <1>1 DEF Distinct, Within
<1>4. Distinct(q)
  <2> SUFFICES ASSUME NEW i \in 1..L + 1, NEW j \in 1..L + 1, q[i] = q[j] PROVE i = j
    BY <1>2 DEF Distinct
  <2>1. \A h \in 1..L + 1 : \/ h = k /\ q[h] = c
                            \/ h < k /\ h \in 1..L /\ q[h] = s[h]
                            \/ h > k /\ h - 1 \in 1..L /\ q[h] = s[h - 1]
    BY <1>1, <1>2
  <2> QED  BY <1>1, <1>3, <2>1
<1>5. ASSUME NEW d
      PROVE  Within(d, q) <=> Within(d, s) \/ d = c
  <2>1. ASSUME NEW i \in 1..L + 1, q[i] = d
        PROVE  Within(d, s) \/ d = c
    <3>1. CASE i < k
      <4>1. i \in 1..L /\ s[i] = d
        BY <1>1, <1>2, <2>1, <3>1
      <4> QED  BY <1>1, <4>1 DEF Within
    <3>2. CASE i > k
      <4>1. i - 1 \in 1..L /\ s[i - 1] = d
        BY <1>1, <1>2, <2>1, <3>2
      <4> QED  BY <1>1, <4>1 DEF Within
    <3> QED  BY <1>1, <1>2, <2>1, <3>1, <3>2
  <2>2. ASSUME NEW i \in 1..L, s[i] = d
        PROVE  \E j \in 1..L + 1 : q[j] = d
    <3>1. CASE i < k
      <4>1. i \in 1..L + 1 /\ q[i] = s[i]
        BY <1>1, <1>2, <3>1
      <4> QED  BY <2>2, <4>1
    <3>2. CASE i >= k
      <4>1. i + 1 \in 1..L + 1 /\ q[i + 1] = s[i]
        BY <1>1, <1>2, <3>2
      <4> QED  BY <2>2, <4>1
    <3> QED  BY <1>1, <3>1, <3>2
  <2> QED  BY <1>1, <1>2, <2>1, <2>2 DEF Within
<1> QED  BY <1>4, <1>5

(* The links after c was inserted at k.                                    *)
Spliced(s, k, c, prev, next, prev2, next2) ==
    /\ prev2[c] = IF k = 1 THEN Nil ELSE s[k - 1]
    /\ next2[c] = IF k = Len(s) + 1 THEN Nil ELSE s[k]
    /\ \A m \in Nodes \ {c} :
          /\ prev2[m] = IF k <= Len(s) /\ m = s[k] THEN c ELSE prev[m]
          /\ next2[m] = IF k > 1 /\ m = s[k - 1] THEN c ELSE next[m]

(* The chain of a list with one more element.                              *)
LEMMA ChainWith ==
    ASSUME NEW s \in Seq(Nodes), NEW k \in 1..Len(s) + 1, NEW c \in Nodes, NEW q,
           Inserted(q, s, k, c), Distinct(s), ~Within(c, s),
           NEW prev, NEW next, Chained(s, prev, next),
           NEW prev2, NEW next2, Spliced(s, k, c, prev, next, prev2, next2)
    PROVE  Chained(q, prev2, next2)
<1>1. PICK L \in Nat : L = Len(s) /\ k \in 1..L + 1 /\ \A i \in 1..L : s[i] \in Nodes
  BY ListProperties
<1>s. /\ prev2[c] = IF k = 1 THEN Nil ELSE s[k - 1]
      /\ next2[c] = IF k = L + 1 THEN Nil ELSE s[k]
      /\ \A m \in Nodes \ {c} :
            /\ prev2[m] = IF k <= L /\ m = s[k] THEN c ELSE prev[m]
            /\ next2[m] = IF k > 1 /\ m = s[k - 1] THEN c ELSE next[m]
  BY <1>1 DEF Spliced
<1>2. /\ Len(q) = L + 1 /\ q[k] = c
      /\ \A i \in 1..L + 1 : (i < k => q[i] = s[i]) /\ (i > k => q[i] = s[i - 1])
  BY <1>1 DEF Inserted
<1>3. /\ \A i, j \in 1..L : s[i] = s[j] => i = j
      /\ \A i \in 1..L : s[i] \in Nodes \ {c}
  BY <1>1 DEF Distinct, Within
<1>4. \A i \in 1..L : /\ prev[s[i]] = IF i = 1 THEN Nil ELSE s[i - 1]
                      /\ next[s[i]] = IF i = L THEN Nil ELSE s[i + 1]
  BY <1>1 DEF Chained
<1>5. ASSUME NEW i \in 1..L + 1
      PROVE  /\ prev2[q[i]] = IF i = 1 THEN Nil ELSE q[i - 1]
             /\ next2[q[i]] = IF i = L + 1 THEN Nil ELSE q[i + 1]
  <2>1. CASE i < k
    <3>1. q[i] = s[i] /\ i \in 1..L
      BY <1>1, <1>2, <2>1
    <3>2. prev2[s[i]] = prev[s[i]] /\ next2[s[i]] = IF i = k - 1 THEN c ELSE next[s[i]]
      BY <1>1, <1>3, <1>s, <2>1, <3>1
    <3>3. i # 1 => q[i - 1] = s[i - 1]
      BY <1>1, <1>2, <2>1
    <3>4. i # L + 1 /\ q[i + 1] = IF i = k - 1 THEN c ELSE s[i + 1]
      BY <1>1, <1>2, <2>1
    <3>5. i # k - 1 => i # L
      BY <1>1, <2>1
    <3> QED  BY <1>4, <3>1, <3>2, <3>3, <3>4, <3>5
  <2>2. CASE i = k
    <3>1. i # 1 => q[i - 1] = s[i - 1]
      BY <1>1, <1>2, <2>2
    <3>2. i # L + 1 => q[i + 1] = s[i]
      <4> SUFFICES ASSUME i # L + 1 PROVE q[i + 1] = s[i]
        OBVIOUS
      <4>1. PICK j \in 1..L + 1 : j = i + 1 /\ j > k /\ j - 1 = i
        BY <1>1, <2>2
      <4>2. q[j] = s[j - 1]
        BY <1>2, <4>1
      <4> QED  BY <4>1, <4>2
    <3> QED  BY <1>1, <1>2, <1>s, <2>2, <3>1, <3>2
  <2>3. CASE i > k
    <3>1. q[i] = s[i - 1] /\ i - 1 \in 1..L /\ i # 1
      BY <1>1, <1>2, <2>3
    <3>2. next2[s[i - 1]] = next[s[i - 1]] /\ prev2[s[i - 1]] = IF i = k + 1 THEN c ELSE prev[s[i - 1]]
      BY <1>1, <1>3, <1>s, <2>3, <3>1
    <3>3. q[i - 1] = IF i = k + 1 THEN c ELSE s[i - 2]
      BY <1>1, <1>2, <2>3
    <3>4. i # L + 1 => q[i + 1] = s[i]
      <4> SUFFICES ASSUME i # L + 1 PROVE q[i + 1] = s[i]
        OBVIOUS
      <4>1. PICK j \in 1..L + 1 : j = i + 1 /\ j > k /\ j - 1 = i
        BY <1>1, <2>3
      <4>2. q[j] = s[j - 1]
        BY <1>2, <4>1
      <4> QED  BY <4>1, <4>2
    <3>5. /\ i # k + 1 => i - 1 # 1 /\ (i - 1) - 1 = i - 2
          /\ (i - 1) + 1 = i /\ (i - 1 = L <=> i = L + 1)
      BY <1>1, <2>3
    <3> QED  BY <1>4, <3>1, <3>2, <3>3, <3>4, <3>5
  <2> QED  BY <1>1, <2>1, <2>2, <2>3
<1> QED  BY <1>2, <1>5 DEF Chained

(* The elements of a list with c instead of the element at k.              *)
LEMMA ListInPlace ==
    ASSUME NEW s \in Seq(Nodes), NEW k \in 1..Len(s), NEW c \in Nodes,
           Distinct(s), ~Within(c, s)
    PROVE  /\ ReplaceAt(s, k, c) \in Seq(Nodes) /\ Len(ReplaceAt(s, k, c)) = Len(s)
           /\ \A i \in 1..Len(s) : ReplaceAt(s, k, c)[i] = IF i = k THEN c ELSE s[i]
           /\ Distinct(ReplaceAt(s, k, c))
           /\ \A d : Within(d, ReplaceAt(s, k, c)) <=> d = c \/ (Within(d, s) /\ d # s[k])
<1>1. PICK L \in Nat : L = Len(s) /\ k \in 1..L /\ DOMAIN s = 1..L /\ \A i \in 1..L : s[i] \in Nodes
  BY ListProperties
<1>2. PICK q \in [1..L -> Nodes] : /\ q = ReplaceAt(s, k, c)
                                   /\ \A i \in 1..L : q[i] = IF i = k THEN c ELSE s[i]
  <2>1. s \in [1..L -> Nodes] /\ k \in 1..L /\ c \in Nodes
    BY <1>1
  <2>2. /\ [s EXCEPT ![k] = c] \in [1..L -> Nodes]
        /\ \A i \in 1..L : [s EXCEPT ![k] = c][i] = IF i = k THEN c ELSE s[i]
    BY <2>1
  <2> QED  BY <2>2 DEF ReplaceAt
<1>3. q \in Seq(Nodes) /\ Len(q) = L
  BY <1>1, <1>2
<1>4. /\ \A i, j \in 1..L : s[i] = s[j] => i = j
      /\ \A i \in 1..L : s[i] # c
  BY <1>1 DEF Distinct, Within
<1>5. Distinct(q)
  BY <1>2, <1>3, <1>4 DEF Distinct
<1>6. \A d : Within(d, q) <=> d = c \/ (Within(d, s) /\ d # s[k])
  BY <1>1, <1>2, <1>3, <1>4 DEF Within
<1> QED  BY <1>1, <1>2, <1>3, <1>5, <1>6

(* The links after c took the place of x.                                  *)
Swapped(x, c, prev, next, prev2, next2) ==
    /\ prev2[c] = prev[x] /\ next2[c] = next[x]
    /\ \A m \in Nodes \ {c, x} : /\ prev2[m] = IF m = next[x] THEN c ELSE prev[m]
                                 /\ next2[m] = IF m = prev[x] THEN c ELSE next[m]

(* The chain of a list with c instead of the element at k.                 *)
LEMMA ChainInPlace ==
    ASSUME NEW s \in Seq(Nodes), NEW k \in 1..Len(s), NEW c \in Nodes,
           Distinct(s), ~Within(c, s),
           NEW prev, NEW next, Chained(s, prev, next),
           NEW prev2, NEW next2, Swapped(s[k], c, prev, next, prev2, next2)
    PROVE  Chained(ReplaceAt(s, k, c), prev2, next2)
<1>1. PICK L \in Nat : L = Len(s) /\ k \in 1..L /\ \A i \in 1..L : s[i] \in Nodes
  BY ListProperties
<1>2. PICK q : /\ q = ReplaceAt(s, k, c) /\ Len(q) = L
               /\ \A i \in 1..L : q[i] = IF i = k THEN c ELSE s[i]
  BY <1>1, ListInPlace
<1>3. /\ \A i, j \in 1..L : s[i] = s[j] => i = j
      /\ \A i \in 1..L : s[i] # c
  BY <1>1 DEF Distinct, Within
<1>4. \A i \in 1..L : /\ prev[s[i]] = IF i = 1 THEN Nil ELSE s[i - 1]
                      /\ next[s[i]] = IF i = L THEN Nil ELSE s[i + 1]
  BY <1>1 DEF Chained
<1>s. /\ prev2[c] = prev[s[k]] /\ next2[c] = next[s[k]]
      /\ \A m \in Nodes \ {c, s[k]} : /\ prev2[m] = IF m = next[s[k]] THEN c ELSE prev[m]
                                      /\ next2[m] = IF m = prev[s[k]] THEN c ELSE next[m]
  BY DEF Swapped
<1>n. Nil \notin Nodes
  BY NilIsNoNode
<1>5. ASSUME NEW i \in 1..L
      PROVE  /\ prev2[q[i]] = IF i = 1 THEN Nil ELSE q[i - 1]
             /\ next2[q[i]] = IF i = L THEN Nil ELSE q[i + 1]
  <2>1. CASE i = k
    <3>1. /\ i # 1 => q[i - 1] = s[i - 1]
          /\ i # L => q[i + 1] = s[i + 1]
      BY <1>1, <1>2, <2>1
    <3> QED  BY <1>1, <1>2, <1>4, <1>s, <2>1, <3>1
  <2>2. CASE i # k
    <3>1. q[i] = s[i] /\ s[i] \in Nodes \ {c, s[k]}
      BY <1>1, <1>2, <1>3, <2>2
    <3>2. /\ s[i] = next[s[k]] <=> i = k + 1
          /\ s[i] = prev[s[k]] <=> i = k - 1
      <4>1. k # L => k + 1 \in 1..L /\ next[s[k]] = s[k + 1]
        BY <1>1, <1>4
      <4>2. k # 1 => k - 1 \in 1..L /\ prev[s[k]] = s[k - 1]
        BY <1>1, <1>4
      <4>3. (k = L => next[s[k]] = Nil) /\ (k = 1 => prev[s[k]] = Nil)
        BY <1>1, <1>4
      <4> QED  BY <1>1, <1>3, <1>n, <3>1, <4>1, <4>2, <4>3
    <3>3. i # 1 => q[i - 1] = IF i = k + 1 THEN c ELSE s[i - 1]
      BY <1>1, <1>2, <2>2
    <3>4. i # L => q[i + 1] = IF i = k - 1 THEN c ELSE s[i + 1]
      BY <1>1, <1>2, <2>2
    <3>5. (i = k + 1 => i # 1) /\ (i = k - 1 => i # L)
      BY <1>1
    <3>6. prev2[q[i]] = IF i = k + 1 THEN c ELSE IF i = 1 THEN Nil ELSE s[i - 1]
      BY <1>4, <1>s, <3>1, <3>2
    <3>7. next2[q[i]] = IF i = k - 1 THEN c ELSE IF i = L THEN Nil ELSE s[i + 1]
      BY <1>4, <1>s, <3>1, <3>2
    <3> QED  BY <3>3, <3>4, <3>5, <3>6, <3>7
  <2> QED  BY <2>1, <2>2
<1> QED  BY <1>2, <1>5 DEF Chained

-----------------------------------------------------------------------------
(* What the proofs about single changes need of a tree.                    *)
LEMMA LinksProperties ==
    ASSUME NEW t, Links(t), NEW n \in Nodes
    PROVE  /\ t.parent \in [Nodes -> NodeOrNil] /\ t.first \in [Nodes -> NodeOrNil]
           /\ t.prev \in [Nodes -> NodeOrNil] /\ t.next \in [Nodes -> NodeOrNil]
           /\ t.kids \in [Nodes -> Seq(Nodes)] /\ Len(t.kids[n]) \in Nat
           /\ Distinct(t.kids[n]) /\ Chained(t.kids[n], t.prev, t.next)
           /\ \A c \in Nodes : t.parent[c] = n <=> Within(c, t.kids[n])
           /\ t.first[n] = IF Len(t.kids[n]) = 0 THEN Nil ELSE t.kids[n][1]
           /\ \A i \in 1..Len(t.kids[n]) : t.kids[n][i] \in Nodes /\ t.parent[t.kids[n][i]] = n
<1>1. /\ t.parent \in [Nodes -> NodeOrNil] /\ t.first \in [Nodes -> NodeOrNil]
      /\ t.prev \in [Nodes -> NodeOrNil] /\ t.next \in [Nodes -> NodeOrNil]
      /\ t.kids \in [Nodes -> Seq(Nodes)] /\ ListOf(t, n, t.kids[n])
  BY DEF Links, Typed
<1>2. \A i \in 1..Len(t.kids[n]) : t.kids[n][i] \in Nodes
  BY <1>1, ListProperties
<1> QED  BY <1>1, <1>2, ListProperties DEF ListOf, Within

(* From the tree t to the tree r only the children of n change.            *)
SameElsewhere(t, r, n) ==
    /\ \A m \in Nodes \ {n} : r.first[m] = t.first[m]
    /\ \A d \in Nodes, m \in Nodes \ {n} : r.parent[d] = m <=> t.parent[d] = m
    /\ \A d \in Nodes : t.parent[d] \notin {n, Nil} => r.prev[d] = t.prev[d] /\ r.next[d] = t.next[d]
    /\ \A d \in Nodes : Detached(r, d)

(* A change of the links of one list leaves a tree whose encodings agree   *)
(* when they agree for that list and nothing else changes.                 *)
LEMMA OneList ==
    ASSUME NEW t, Links(t), NEW r, Typed(r), NEW n \in Nodes, NEW q,
           r.kids = [t.kids EXCEPT ![n] = q], ListOf(r, n, q), SameElsewhere(t, r, n)
    PROVE  Links(r)
<1>s. /\ \A m \in Nodes \ {n} : r.first[m] = t.first[m]
      /\ \A d \in Nodes, m \in Nodes \ {n} : r.parent[d] = m <=> t.parent[d] = m
      /\ \A d \in Nodes : t.parent[d] \notin {n, Nil} => r.prev[d] = t.prev[d] /\ r.next[d] = t.next[d]
      /\ \A d \in Nodes : Detached(r, d)
  BY DEF SameElsewhere
<1>1. ASSUME NEW m \in Nodes \ {n}
      PROVE  ListOf(r, m, r.kids[m])
  <2>1. /\ t.kids[m] \in Seq(Nodes) /\ ListOf(t, m, t.kids[m]) /\ r.kids[m] = t.kids[m]
        /\ m # Nil
    BY NilIsNoNode DEF Links, Typed
  <2>2. \A d \in Nodes : t.parent[d] = m => r.prev[d] = t.prev[d] /\ r.next[d] = t.next[d]
    BY <1>s, <2>1
  <2>3. ListOf(r, m, t.kids[m])
    BY <1>s, <2>1, <2>2, OtherList
  <2> QED  BY <2>1, <2>3
<1>2. r.kids[n] = q
  BY DEF Links, Typed
<1> QED  BY <1>1, <1>2, <1>s DEF Links

(* The child lists of t, with q for that of n.                             *)
ListsWith(t, n, q) == [t.kids EXCEPT ![n] = q]

(* Appending a node that is in no list.                                    *)
LEMMA AppendLinks ==
    ASSUME NEW t, Links(t), NEW n \in Nodes, NEW c \in Nodes, t.parent[c] = Nil
    PROVE  /\ Links(AppendUnchecked(t, n, c))
           /\ AppendUnchecked(t, n, c).parent = [t.parent EXCEPT ![c] = n]
           /\ AppendUnchecked(t, n, c).kids = [t.kids EXCEPT ![n] = Append(t.kids[n], c)]
<1> DEFINE r == AppendUnchecked(t, n, c)
<1>n. Nil \notin Nodes
  BY NilIsNoNode
<1>1. PICK s \in Seq(Nodes) : s = t.kids[n]
  BY LinksProperties
<1>2. PICK L \in Nat : L = Len(s)
  BY ListProperties
<1>3. /\ t.parent \in [Nodes -> NodeOrNil] /\ t.first \in [Nodes -> NodeOrNil]
      /\ t.prev \in [Nodes -> NodeOrNil] /\ t.next \in [Nodes -> NodeOrNil]
      /\ t.kids \in [Nodes -> Seq(Nodes)]
      /\ Distinct(s) /\ Chained(s, t.prev, t.next)
      /\ \A d \in Nodes : t.parent[d] = n <=> Within(d, s)
      /\ t.first[n] = IF L = 0 THEN Nil ELSE s[1]
      /\ \A i \in 1..L : s[i] \in Nodes /\ t.parent[s[i]] = n
  BY <1>1, <1>2, LinksProperties
<1>4. PICK q \in Seq(Nodes) : /\ q = Append(s, c) /\ Len(q) = L + 1
                              /\ \A i \in 1..L + 1 : q[i] = IF i = L + 1 THEN c ELSE s[i]
  <2>1. Append(s, c) \in Seq(Nodes) /\ Len(Append(s, c)) = L + 1
    BY <1>1, <1>2, AppendProperties
  <2>2. \A i \in 1..L + 1 : Append(s, c)[i] = IF i = L + 1 THEN c ELSE s[i]
    BY <1>1, <1>2, AppendProperties
  <2> QED  BY <2>1, <2>2
<1>k. PICK k \in Nat : k = L + 1 /\ k \in 1..Len(s) + 1 /\ k - 1 = L
  BY <1>2
<1>5. PICK p \in NodeOrNil : p = IF L = 0 THEN Nil ELSE s[L]
  BY <1>2, <1>3 DEF NodeOrNil
<1>6. /\ s = <<>> <=> L = 0
      /\ ~Within(c, s) /\ p # c /\ (p # Nil <=> L # 0)
      /\ p # Nil => p \in Nodes /\ t.parent[p] = n
      /\ t.prev[c] = Nil /\ t.next[c] = Nil
  BY <1>2, <1>3, <1>5, <1>n, ListProperties DEF Links, Detached
<1>7. /\ r.parent = [t.parent EXCEPT ![c] = n]
      /\ r.kids = [t.kids EXCEPT ![n] = q]
      /\ r.first = IF p = Nil THEN [t.first EXCEPT ![n] = c] ELSE t.first
      /\ r.prev = IF p = Nil THEN t.prev ELSE [t.prev EXCEPT ![c] = p]
      /\ r.next = Set(t.next, p, c)
  BY <1>1, <1>2, <1>4, <1>5, <1>6 DEF AppendUnchecked, Last
<1> HIDE DEF r
<1>8. Typed(r)
  BY <1>3, <1>4, <1>5, <1>6, <1>7 DEF Typed, Set, NodeOrNil
<1>9. ASSUME NEW d \in Nodes
      PROVE  /\ r.prev[d] = IF d = c THEN p ELSE t.prev[d]
             /\ r.next[d] = IF d = p THEN c ELSE t.next[d]
             /\ r.parent[d] = IF d = c THEN n ELSE t.parent[d]
  BY <1>3, <1>6, <1>7, <1>n DEF Set
<1>10. ListOf(r, n, q)
  <2>1. Inserted(q, s, k, c)
    BY <1>2, <1>4, <1>k DEF Inserted
  <2>2. /\ Distinct(q) /\ \A d : Within(d, q) <=> Within(d, s) \/ d = c
    <3>1. k \in 1..Len(s) + 1 /\ Distinct(s) /\ ~Within(c, s)
      BY <1>3, <1>6, <1>k
    <3> QED  BY <2>1, <3>1, ListWith
  <2>3. Chained(q, r.prev, r.next)
    <3> DEFINE prev == t.prev
               next == t.next
               prev2 == r.prev
               next2 == r.next
    <3>1. Spliced(s, k, c, prev, next, prev2, next2)
      BY <1>2, <1>5, <1>6, <1>9, <1>k, <1>n DEF Spliced
    <3>2. Chained(s, prev, next)
      BY <1>3
    <3> HIDE DEF prev, next, prev2, next2
    <3>3. Chained(q, prev2, next2)
      BY <1>1, <1>3, <1>6, <1>k, <2>1, <3>1, <3>2, ChainWith
    <3> QED  BY <3>3 DEF prev2, next2
  <2>4. \A d \in Nodes : r.parent[d] = n <=> Within(d, q)
    BY <1>3, <1>9, <2>2
  <2>5. r.first[n] = IF Len(q) = 0 THEN Nil ELSE q[1]
    BY <1>2, <1>3, <1>4, <1>6, <1>7
  <2> QED  BY <2>2, <2>3, <2>4, <2>5 DEF ListOf
<1>11. SameElsewhere(t, r, n)
  <2>1. \A m \in Nodes \ {n} : r.first[m] = t.first[m]
    BY <1>3, <1>7
  <2>2. \A d \in Nodes, m \in Nodes \ {n} : r.parent[d] = m <=> t.parent[d] = m
    BY <1>9, <1>n
  <2>3. \A d \in Nodes : t.parent[d] \notin {n, Nil} => r.prev[d] = t.prev[d] /\ r.next[d] = t.next[d]
    <3> SUFFICES ASSUME NEW d \in Nodes, t.parent[d] \notin {n, Nil}
                 PROVE  r.prev[d] = t.prev[d] /\ r.next[d] = t.next[d]
      OBVIOUS
    <3>1. d # c /\ d # p
      BY <1>6, <1>n
    <3> QED  BY <1>9, <3>1
  <2>4. \A d \in Nodes : Detached(r, d)
    BY <1>6, <1>9, <1>n DEF Detached, Links
  <2> QED  BY <2>1, <2>2, <2>3, <2>4 DEF SameElsewhere
<1>12. Links(r)
  BY <1>7, <1>8, <1>10, <1>11, <1>4, OneList
<1> QED  BY <1>1, <1>4, <1>7, <1>12 DEF r

(* Linking a node that is in no list in front of a child of n.             *)
LEMMA BeforeLinks ==
    ASSUME NEW t, Links(t), NEW n \in Nodes, NEW c \in Nodes, NEW ref \in Nodes,
           t.parent[c] = Nil, Contains(t.kids[n], ref)
    PROVE  /\ Links(LinkBefore(t, n, c, ref))
           /\ LinkBefore(t, n, c, ref).parent = [t.parent EXCEPT ![c] = n]
<1> DEFINE r == LinkBefore(t, n, c, ref)
<1>n. Nil \notin Nodes
  BY NilIsNoNode
<1>1. PICK s \in Seq(Nodes) : s = t.kids[n]
  BY LinksProperties
<1>2. PICK L \in Nat : L = Len(s)
  BY ListProperties
<1>k. PICK k \in 1..L : k = Place(s, ref) /\ s[k] = ref /\ k \in 1..Len(s)
  BY <1>1, <1>2, PlaceProperties
<1>3. /\ t.parent \in [Nodes -> NodeOrNil] /\ t.first \in [Nodes -> NodeOrNil]
      /\ t.prev \in [Nodes -> NodeOrNil] /\ t.next \in [Nodes -> NodeOrNil]
      /\ t.kids \in [Nodes -> Seq(Nodes)]
      /\ Distinct(s) /\ Chained(s, t.prev, t.next)
      /\ \A d \in Nodes : t.parent[d] = n <=> Within(d, s)
      /\ t.first[n] = IF L = 0 THEN Nil ELSE s[1]
      /\ \A i \in 1..L : s[i] \in Nodes /\ t.parent[s[i]] = n
  BY <1>1, <1>2, LinksProperties
<1>4. PICK q \in Seq(Nodes) : /\ q = InsertAt(s, k, c) /\ Len(q) = L + 1 /\ q[k] = c
                              /\ \A i \in 1..L + 1 : /\ i < k => q[i] = s[i]
                                                     /\ i > k => q[i] = s[i - 1]
  <2>1. s \in Seq(Nodes) /\ k \in 1..Len(s) + 1
    BY <1>1, <1>2, <1>k
  <2>2. InsertAt(s, k, c) \in Seq(Nodes) /\ Len(InsertAt(s, k, c)) = L + 1 /\ InsertAtElements(s, k, c)
    BY <1>2, <2>1, InsertAtProperties
  <2> QED  BY <1>2, <2>2 DEF InsertAtElements
<1>5. PICK p \in NodeOrNil : p = t.prev[ref] /\ p = IF k = 1 THEN Nil ELSE s[k - 1]
  BY <1>2, <1>3, <1>k DEF Chained
<1>6. /\ ~Within(c, s) /\ p # c /\ ref # c /\ p # ref
      /\ (p = Nil <=> k = 1) /\ (t.first[n] = ref <=> k = 1)
      /\ p # Nil => p \in Nodes /\ t.parent[p] = n
      /\ t.parent[ref] = n
  <2>1. k # 1 => k - 1 \in 1..L /\ s[k - 1] # s[k]
    BY <1>2, <1>3, <1>k DEF Distinct
  <2>2. s[1] = s[k] <=> k = 1
    <3>1. 1 \in 1..Len(s) /\ k \in 1..Len(s)
      BY <1>2, <1>k
    <3> QED  BY <1>3, <3>1 DEF Distinct
  <2>3. ~Within(c, s)
    BY <1>3, <1>n
  <2> QED  BY <1>2, <1>3, <1>5, <1>k, <1>n, <2>1, <2>2, <2>3
<1>7. /\ r.parent = [t.parent EXCEPT ![c] = n]
      /\ r.kids = [t.kids EXCEPT ![n] = q]
      /\ r.first = IF k = 1 THEN [t.first EXCEPT ![n] = c] ELSE t.first
      /\ r.prev = [t.prev EXCEPT ![c] = p, ![ref] = c]
      /\ r.next = [(IF k = 1 THEN t.next ELSE Set(t.next, p, c)) EXCEPT ![c] = ref]
  BY <1>1, <1>4, <1>5, <1>6, <1>k DEF LinkBefore
<1> HIDE DEF r
<1>s. Set(t.next, p, c) \in [Nodes -> NodeOrNil]
  BY <1>3, <1>5 DEF Set, NodeOrNil
<1>8. Typed(r)
  <2>1. r.parent \in [Nodes -> NodeOrNil] /\ r.first \in [Nodes -> NodeOrNil] /\ r.kids \in [Nodes -> Seq(Nodes)]
    <3>1. r.parent \in [Nodes -> NodeOrNil]
      BY <1>3, <1>7 DEF NodeOrNil
    <3>2. r.first \in [Nodes -> NodeOrNil]
      BY <1>3, <1>7 DEF NodeOrNil
    <3>3. r.kids \in [Nodes -> Seq(Nodes)]
      BY <1>3, <1>4, <1>7
    <3> QED  BY <3>1, <3>2, <3>3
  <2>2. r.prev \in [Nodes -> NodeOrNil] /\ r.next \in [Nodes -> NodeOrNil]
    <3>1. PICK nx \in [Nodes -> NodeOrNil] : nx = IF k = 1 THEN t.next ELSE Set(t.next, p, c)
      BY <1>3, <1>s
    <3>2. r.next = [nx EXCEPT ![c] = ref] /\ c \in NodeOrNil /\ ref \in NodeOrNil
      BY <1>7, <3>1 DEF NodeOrNil
    <3>3. r.next \in [Nodes -> NodeOrNil]
      BY <3>1, <3>2
    <3>4. PICK pv \in [Nodes -> NodeOrNil] : pv = [t.prev EXCEPT ![c] = p]
      BY <1>3, <1>5
    <3>5. r.prev = [pv EXCEPT ![ref] = c]
      BY <1>7, <3>4
    <3> QED  BY <3>2, <3>3, <3>4, <3>5
  <2> QED  BY <2>1, <2>2 DEF Typed
<1>9. ASSUME NEW d \in Nodes
      PROVE  /\ r.prev[d] = IF d = c THEN p ELSE IF d = ref THEN c ELSE t.prev[d]
             /\ r.next[d] = IF d = c THEN ref ELSE IF d = p THEN c ELSE t.next[d]
             /\ r.parent[d] = IF d = c THEN n ELSE t.parent[d]
  <2>1. k # 1 => Set(t.next, p, c)[d] = IF d = p THEN c ELSE t.next[d]
    BY <1>3, <1>6 DEF Set
  <2>2. k = 1 => d # p
    BY <1>6, <1>n
  <2> QED  BY <1>3, <1>6, <1>7, <1>s, <2>1, <2>2
<1>10. ListOf(r, n, q)
  <2>0. k \in 1..Len(s) + 1
    BY <1>2, <1>k
  <2>1. Inserted(q, s, k, c)
    BY <1>2, <1>4 DEF Inserted
  <2>2. /\ Distinct(q) /\ \A d : Within(d, q) <=> Within(d, s) \/ d = c
    BY <1>1, <1>3, <1>6, <2>0, <2>1, ListWith
  <2>3. Chained(q, r.prev, r.next)
    <3> DEFINE prev == t.prev
               next == t.next
               prev2 == r.prev
               next2 == r.next
    <3>1. Spliced(s, k, c, prev, next, prev2, next2)
      <4>1. /\ prev2[c] = IF k = 1 THEN Nil ELSE s[k - 1]
            /\ next2[c] = IF k = Len(s) + 1 THEN Nil ELSE s[k]
        BY <1>2, <1>5, <1>9, <1>k
      <4>2. \A m \in Nodes \ {c} :
               /\ prev2[m] = IF k <= Len(s) /\ m = s[k] THEN c ELSE prev[m]
               /\ next2[m] = IF k > 1 /\ m = s[k - 1] THEN c ELSE next[m]
        BY <1>2, <1>5, <1>9, <1>k, <1>n
      <4> QED  BY <4>1, <4>2 DEF Spliced
    <3>2. Chained(s, prev, next)
      BY <1>3
    <3> HIDE DEF prev, next, prev2, next2
    <3>3. Chained(q, prev2, next2)
      BY <1>1, <1>3, <1>6, <2>0, <2>1, <3>1, <3>2, ChainWith
    <3> QED  BY <3>3 DEF prev2, next2
  <2>4. \A d \in Nodes : r.parent[d] = n <=> Within(d, q)
    BY <1>3, <1>9, <2>2
  <2>5. r.first[n] = IF Len(q) = 0 THEN Nil ELSE q[1]
    BY <1>2, <1>3, <1>4, <1>k, <1>7
  <2> QED  BY <2>2, <2>3, <2>4, <2>5 DEF ListOf
<1>11. SameElsewhere(t, r, n)
  <2>1. \A m \in Nodes \ {n} : r.first[m] = t.first[m]
    BY <1>3, <1>7
  <2>2. \A d \in Nodes, m \in Nodes \ {n} : r.parent[d] = m <=> t.parent[d] = m
    BY <1>9, <1>n
  <2>3. \A d \in Nodes : t.parent[d] \notin {n, Nil} => r.prev[d] = t.prev[d] /\ r.next[d] = t.next[d]
    <3> SUFFICES ASSUME NEW d \in Nodes, t.parent[d] \notin {n, Nil}
                 PROVE  r.prev[d] = t.prev[d] /\ r.next[d] = t.next[d]
      OBVIOUS
    <3>1. d # c /\ d # p /\ d # ref
      BY <1>6, <1>n
    <3> QED  BY <1>9, <3>1
  <2>4. \A d \in Nodes : Detached(r, d)
    BY <1>6, <1>9, <1>n DEF Detached, Links
  <2> QED  BY <2>1, <2>2, <2>3, <2>4 DEF SameElsewhere
<1>12. Links(r)
  BY <1>7, <1>8, <1>10, <1>11, <1>4, OneList
<1> QED  BY <1>1, <1>4, <1>7, <1>12 DEF r

ParentsSwapped(t, n, c, old) == [t.parent EXCEPT ![c] = n, ![old] = Nil]

(* Linking a node that is in no list instead of a child of n.              *)
LEMMA InPlaceLinks ==
    ASSUME NEW t, Links(t), NEW n \in Nodes, NEW c \in Nodes, NEW old \in Nodes,
           t.parent[c] = Nil, Contains(t.kids[n], old)
    PROVE  /\ Links(LinkInPlace(t, n, c, old))
           /\ LinkInPlace(t, n, c, old).parent = ParentsSwapped(t, n, c, old)
<1> DEFINE r == LinkInPlace(t, n, c, old)
<1>n. Nil \notin Nodes
  BY NilIsNoNode
<1>1. PICK s \in Seq(Nodes) : s = t.kids[n]
  BY LinksProperties
<1>2. PICK L \in Nat : L = Len(s)
  BY ListProperties
<1>k. PICK k \in 1..L : k = Place(s, old) /\ s[k] = old /\ k \in 1..Len(s)
  BY <1>1, <1>2, PlaceProperties
<1>3. /\ t.parent \in [Nodes -> NodeOrNil] /\ t.first \in [Nodes -> NodeOrNil]
      /\ t.prev \in [Nodes -> NodeOrNil] /\ t.next \in [Nodes -> NodeOrNil]
      /\ t.kids \in [Nodes -> Seq(Nodes)]
      /\ Distinct(s) /\ Chained(s, t.prev, t.next)
      /\ \A d \in Nodes : t.parent[d] = n <=> Within(d, s)
      /\ t.first[n] = IF L = 0 THEN Nil ELSE s[1]
      /\ \A i \in 1..L : s[i] \in Nodes /\ t.parent[s[i]] = n
  BY <1>1, <1>2, LinksProperties
<1>w. ~Within(c, s)
  BY <1>3, <1>n
<1>4. PICK q \in Seq(Nodes) :
         /\ q = ReplaceAt(s, k, c) /\ Len(q) = L
         /\ \A i \in 1..L : q[i] = IF i = k THEN c ELSE s[i]
         /\ Distinct(q) /\ \A d : Within(d, q) <=> d = c \/ (Within(d, s) /\ d # old)
  <2>1. Len(s) = L /\ Distinct(s) /\ s[k] = old
    BY <1>2, <1>3, <1>k
  <2>2. PICK q : q = ReplaceAt(s, k, c)
    OBVIOUS
  <2>3. /\ q \in Seq(Nodes) /\ Len(q) = Len(s)
        /\ \A i \in 1..Len(s) : q[i] = IF i = k THEN c ELSE s[i]
        /\ Distinct(q) /\ \A d : Within(d, q) <=> d = c \/ (Within(d, s) /\ d # s[k])
    BY <1>2, <1>k, <1>w, <2>1, <2>2, ListInPlace
  <2> QED  BY <2>1, <2>2, <2>3
<1>5. PICK p \in NodeOrNil : p = t.prev[old] /\ p = IF k = 1 THEN Nil ELSE s[k - 1]
  BY <1>2, <1>3, <1>k DEF Chained
<1>x. PICK x \in NodeOrNil : x = t.next[old] /\ x = IF k = L THEN Nil ELSE s[k + 1]
  BY <1>2, <1>3, <1>k DEF Chained
<1>6. /\ p # c /\ old # c /\ p # old /\ x # c /\ x # old
      /\ t.first[n] = old <=> k = 1
      /\ p # Nil => p \in Nodes /\ t.parent[p] = n
      /\ x # Nil => x \in Nodes /\ t.parent[x] = n
      /\ t.parent[old] = n
  <2>1. k # 1 => k - 1 \in 1..L /\ s[k - 1] # s[k]
    BY <1>2, <1>3, <1>k DEF Distinct
  <2>2. k # L => k + 1 \in 1..L /\ s[k + 1] # s[k]
    BY <1>2, <1>3, <1>k DEF Distinct
  <2>3. s[1] = s[k] <=> k = 1
    <3>1. 1 \in 1..Len(s) /\ k \in 1..Len(s)
      BY <1>2, <1>k
    <3> QED  BY <1>3, <3>1 DEF Distinct
  <2> QED  BY <1>2, <1>3, <1>5, <1>x, <1>k, <1>n, <2>1, <2>2, <2>3
<1>7. /\ r.parent = [t.parent EXCEPT ![c] = n, ![old] = Nil]
      /\ r.kids = [t.kids EXCEPT ![n] = q]
      /\ r.first = IF k = 1 THEN [t.first EXCEPT ![n] = c] ELSE t.first
      /\ r.prev = [Set(t.prev, x, c) EXCEPT ![c] = p, ![old] = Nil]
      /\ r.next = [Set(t.next, p, c) EXCEPT ![c] = x, ![old] = Nil]
  BY <1>1, <1>4, <1>5, <1>x, <1>6, <1>k DEF LinkInPlace
<1> HIDE DEF r
<1>s. /\ Set(t.prev, x, c) \in [Nodes -> NodeOrNil] /\ Set(t.next, p, c) \in [Nodes -> NodeOrNil]
      /\ \A d \in Nodes : /\ Set(t.prev, x, c)[d] = IF d = x THEN c ELSE t.prev[d]
                          /\ Set(t.next, p, c)[d] = IF d = p THEN c ELSE t.next[d]
  BY <1>3, <1>5, <1>x, <1>n DEF Set, NodeOrNil
<1>t. ASSUME NEW f \in [Nodes -> NodeOrNil], NEW v \in NodeOrNil
      PROVE  /\ [f EXCEPT ![c] = v, ![old] = Nil] \in [Nodes -> NodeOrNil]
             /\ \A d \in Nodes : [f EXCEPT ![c] = v, ![old] = Nil][d] =
                                    IF d = c THEN v ELSE IF d = old THEN Nil ELSE f[d]
  <2>1. [f EXCEPT ![c] = v] \in [Nodes -> NodeOrNil] /\ Nil \in NodeOrNil
    BY DEF NodeOrNil
  <2> QED  BY <1>6, <2>1
<1>8. Typed(r)
  <2>1. r.first \in [Nodes -> NodeOrNil] /\ r.kids \in [Nodes -> Seq(Nodes)]
    BY <1>3, <1>4, <1>7 DEF NodeOrNil
  <2>2. r.prev \in [Nodes -> NodeOrNil] /\ r.next \in [Nodes -> NodeOrNil]
    <3>1. PICK pv \in [Nodes -> NodeOrNil] : pv = Set(t.prev, x, c)
      BY <1>s
    <3>2. PICK nx \in [Nodes -> NodeOrNil] : nx = Set(t.next, p, c)
      BY <1>s
    <3>3. r.prev = [pv EXCEPT ![c] = p, ![old] = Nil] /\ r.next = [nx EXCEPT ![c] = x, ![old] = Nil]
      BY <1>7, <3>1, <3>2
    <3>4. [pv EXCEPT ![c] = p, ![old] = Nil] \in [Nodes -> NodeOrNil]
      BY <1>t, <1>5, <3>1
    <3>5. [nx EXCEPT ![c] = x, ![old] = Nil] \in [Nodes -> NodeOrNil]
      BY <1>t, <1>x, <3>2
    <3> QED  BY <3>3, <3>4, <3>5
  <2>3. r.parent \in [Nodes -> NodeOrNil]
    <3>1. PICK f \in [Nodes -> NodeOrNil] : f = t.parent
      BY <1>3
    <3>2. [f EXCEPT ![c] = n, ![old] = Nil] \in [Nodes -> NodeOrNil]
      BY <1>t, <3>1 DEF NodeOrNil
    <3> QED  BY <1>7, <3>1, <3>2
  <2> QED  BY <2>1, <2>2, <2>3 DEF Typed
<1>9. ASSUME NEW d \in Nodes
      PROVE  /\ r.prev[d] = IF d = c THEN p ELSE IF d = old THEN Nil
                            ELSE IF d = x THEN c ELSE t.prev[d]
             /\ r.next[d] = IF d = c THEN x ELSE IF d = old THEN Nil
                            ELSE IF d = p THEN c ELSE t.next[d]
             /\ r.parent[d] = IF d = c THEN n ELSE IF d = old THEN Nil ELSE t.parent[d]
  <2>1. n \in NodeOrNil
    BY DEF NodeOrNil
  <2> QED  BY <1>3, <1>5, <1>x, <1>7, <1>s, <1>t, <2>1
<1>10. ListOf(r, n, q)
  <2>3. Chained(q, r.prev, r.next)
    <3> DEFINE prev == t.prev
               next == t.next
               prev2 == r.prev
               next2 == r.next
    <3>1. Swapped(old, c, prev, next, prev2, next2)
      <4>1. prev2[c] = prev[old] /\ next2[c] = next[old]
        BY <1>5, <1>x, <1>9
      <4>2. \A m \in Nodes \ {c, old} : /\ prev2[m] = IF m = next[old] THEN c ELSE prev[m]
                                       /\ next2[m] = IF m = prev[old] THEN c ELSE next[m]
        BY <1>5, <1>x, <1>9
      <4> QED  BY <4>1, <4>2 DEF Swapped
    <3>2. Chained(s, prev, next)
      BY <1>3
    <3> HIDE DEF prev, next, prev2, next2
    <3>3. Chained(ReplaceAt(s, k, c), prev2, next2)
      BY <1>3, <1>k, <1>w, <3>1, <3>2, ChainInPlace
    <3> QED  BY <3>3, <1>4 DEF prev2, next2
  <2>4. \A d \in Nodes : r.parent[d] = n <=> Within(d, q)
    BY <1>3, <1>4, <1>6, <1>9, <1>n
  <2>5. r.first[n] = IF Len(q) = 0 THEN Nil ELSE q[1]
    <3>1. 1 \in 1..L /\ Len(q) # 0 /\ q[1] = IF k = 1 THEN c ELSE s[1]
      BY <1>2, <1>4, <1>k
    <3>2. t.first[n] = s[1]
      BY <1>2, <1>3, <3>1
    <3>3. r.first[n] = IF k = 1 THEN c ELSE t.first[n]
      BY <1>3, <1>7
    <3> QED  BY <3>1, <3>2, <3>3
  <2> QED  BY <1>4, <2>3, <2>4, <2>5 DEF ListOf
<1>11. SameElsewhere(t, r, n)
  <2>1. \A m \in Nodes \ {n} : r.first[m] = t.first[m]
    BY <1>3, <1>7
  <2>2. \A d \in Nodes, m \in Nodes \ {n} : r.parent[d] = m <=> t.parent[d] = m
    BY <1>6, <1>9, <1>n
  <2>3. \A d \in Nodes : t.parent[d] \notin {n, Nil} => r.prev[d] = t.prev[d] /\ r.next[d] = t.next[d]
    <3> SUFFICES ASSUME NEW d \in Nodes, t.parent[d] \notin {n, Nil}
                 PROVE  r.prev[d] = t.prev[d] /\ r.next[d] = t.next[d]
      OBVIOUS
    <3>1. d # c /\ d # p /\ d # x /\ d # old
      BY <1>6, <1>n
    <3> QED  BY <1>9, <3>1
  <2>4. \A d \in Nodes : Detached(r, d)
    BY <1>6, <1>9, <1>n DEF Detached, Links
  <2> QED  BY <2>1, <2>2, <2>3, <2>4 DEF SameElsewhere
<1>12. Links(r)
  BY <1>4, <1>7, <1>8, <1>10, <1>11, OneList
<1> QED  BY <1>1, <1>4, <1>7, <1>12 DEF r, ParentsSwapped

(* Giving up the children of a node.                                       *)
LEMMA DropLinks ==
    ASSUME NEW t, Links(t), NEW n \in Nodes
    PROVE  /\ Links(DropChildren(t, n))
           /\ \A d \in Nodes : DropChildren(t, n).parent[d] =
                                  IF t.parent[d] = n THEN Nil ELSE t.parent[d]
           /\ DropChildren(t, n).kids = [t.kids EXCEPT ![n] = <<>>]
<1> DEFINE r == DropChildren(t, n)
<1>n. Nil \notin Nodes
  BY NilIsNoNode
<1>1. PICK s \in Seq(Nodes) : s = t.kids[n]
  BY LinksProperties
<1>3. /\ t.parent \in [Nodes -> NodeOrNil] /\ t.first \in [Nodes -> NodeOrNil]
      /\ t.prev \in [Nodes -> NodeOrNil] /\ t.next \in [Nodes -> NodeOrNil]
      /\ t.kids \in [Nodes -> Seq(Nodes)]
      /\ \A d \in Nodes : t.parent[d] = n <=> Within(d, s)
  BY <1>1, LinksProperties
<1>4. \A d \in Nodes : d \in ToSet(s) <=> t.parent[d] = n
  <2>1. DOMAIN s = 1..Len(s)
    BY <1>1, ListProperties
  <2> QED  BY <1>3, <2>1 DEF ToSet, Within
<1>7. /\ r.parent = [m \in Nodes |-> IF m \in ToSet(s) THEN Nil ELSE t.parent[m]]
      /\ r.prev = [m \in Nodes |-> IF m \in ToSet(s) THEN Nil ELSE t.prev[m]]
      /\ r.next = [m \in Nodes |-> IF m \in ToSet(s) THEN Nil ELSE t.next[m]]
      /\ r.kids = [t.kids EXCEPT ![n] = <<>>]
      /\ r.first = [t.first EXCEPT ![n] = Nil]
  BY <1>1 DEF DropChildren
<1> HIDE DEF r
<1>8. Typed(r)
  BY <1>3, <1>7, EmptySeq DEF Typed, NodeOrNil
<1>9. ASSUME NEW d \in Nodes
      PROVE  /\ r.parent[d] = IF t.parent[d] = n THEN Nil ELSE t.parent[d]
             /\ r.prev[d] = IF t.parent[d] = n THEN Nil ELSE t.prev[d]
             /\ r.next[d] = IF t.parent[d] = n THEN Nil ELSE t.next[d]
  BY <1>4, <1>7
<1>10. ListOf(r, n, <<>>)
  <2>1. Len(<<>>) = 0
    BY EmptySeq
  <2>2. r.first[n] = Nil /\ \A d \in Nodes : r.parent[d] # n
    BY <1>3, <1>7, <1>9, <1>n
  <2> QED  BY <2>1, <2>2 DEF ListOf, Distinct, Within, Chained
<1>11. SameElsewhere(t, r, n)
  BY <1>3, <1>7, <1>9, <1>n DEF SameElsewhere, Detached, Links
<1>12. Links(r)
  BY <1>7, <1>8, <1>10, <1>11, OneList
<1> QED  BY <1>7, <1>9, <1>12 DEF r

-----------------------------------------------------------------------------
(* Ancestors and rings.                                                    *)

(* No set of nodes in which every node has its parent.                     *)
NoRing(t) ==
    \A S \in SUBSET Nodes : S # {} => \E n \in S : t.parent[n] \notin S

(* A set that holds the parent of each of its nodes.                       *)
Upward(t, S) == \A m \in S : t.parent[m] # Nil => t.parent[m] \in S

(* The set of a node and its ancestors, and its leastness.                 *)
LEMMA AncestryProperties ==
    ASSUME NEW t, t.parent \in [Nodes -> NodeOrNil], NEW n \in Nodes
    PROVE  /\ Ancestry(t, n) \subseteq Nodes /\ n \in Ancestry(t, n)
           /\ Upward(t, Ancestry(t, n))
           /\ \A S \in SUBSET Nodes : n \in S /\ Upward(t, S) => Ancestry(t, n) \subseteq S
<1>1. ASSUME NEW m \in Ancestry(t, n), t.parent[m] # Nil
      PROVE  t.parent[m] \in Ancestry(t, n)
  <2>1. m \in Nodes /\ t.parent[m] \in Nodes
    BY <1>1 DEF Ancestry, NodeOrNil
  <2>2. ASSUME NEW S \in SUBSET Nodes, n \in S, \A d \in S : t.parent[d] # Nil => t.parent[d] \in S
        PROVE  t.parent[m] \in S
    BY <1>1, <2>2 DEF Ancestry
  <2> QED  BY <2>1, <2>2 DEF Ancestry
<1> QED  BY <1>1 DEF Ancestry, Upward

(* An ancestor's ancestors, and the ancestors above a node.                *)
LEMMA AncestryAbove ==
    ASSUME NEW t, t.parent \in [Nodes -> NodeOrNil], NEW n \in Nodes
    PROVE  /\ t.parent[n] = Nil => Ancestry(t, n) = {n}
           /\ t.parent[n] # Nil => /\ t.parent[n] \in Nodes
                                   /\ Ancestry(t, n) = {n} \cup Ancestry(t, t.parent[n])
<1> DEFINE p == t.parent[n]
<1>1. n \in Ancestry(t, n) /\ Ancestry(t, n) \subseteq Nodes /\ Upward(t, Ancestry(t, n))
  BY AncestryProperties
<1>2. CASE p = Nil
  <2>1. Upward(t, {n})
    BY <1>2 DEF Upward
  <2> QED  BY <1>1, <1>2, <2>1, AncestryProperties
<1>3. CASE p # Nil
  <2>1. p \in Nodes
    BY <1>3 DEF NodeOrNil
  <2>2. /\ p \in Ancestry(t, p) /\ Ancestry(t, p) \subseteq Nodes /\ Upward(t, Ancestry(t, p))
    BY <2>1, AncestryProperties
  <2>3. Upward(t, {n} \cup Ancestry(t, p))
    BY <2>2 DEF Upward
  <2>4. Ancestry(t, n) \subseteq {n} \cup Ancestry(t, p)
    BY <2>2, <2>3, AncestryProperties
  <2>5. p \in Ancestry(t, n)
    BY <1>1, <1>3 DEF Upward
  <2>6. Ancestry(t, p) \subseteq Ancestry(t, n)
    BY <1>1, <2>1, <2>5, AncestryProperties
  <2> QED  BY <1>1, <1>3, <2>1, <2>4, <2>6
<1> QED  BY <1>2, <1>3

(* A tree without a ring has no node among the ancestors of its parent.    *)
LEMMA NoRingAcyclic ==
    ASSUME NEW t, t.parent \in [Nodes -> NodeOrNil], NoRing(t),
           NEW n \in Nodes, NEW a \in Ancestry(t, n)
    PROVE  t.parent[a] # n
<1> SUFFICES ASSUME t.parent[a] = n PROVE FALSE
  OBVIOUS
<1>1. Ancestry(t, n) \subseteq Nodes /\ n \in Ancestry(t, n) /\ Upward(t, Ancestry(t, n)) /\ Nil \notin Nodes
  BY AncestryProperties, NilIsNoNode
<1> DEFINE S == {x \in Ancestry(t, n) : a \in Ancestry(t, x)}
<1>2. n \in S /\ S \in SUBSET Nodes
  BY <1>1
<1>3. ASSUME NEW x \in S
      PROVE  t.parent[x] \in S
  <2>1. CASE x = a
    BY <1>2, <2>1
  <2>2. CASE x # a
    <3>1. x \in Nodes /\ a \in Ancestry(t, x)
      BY <1>1
    <3>2. t.parent[x] # Nil /\ a \in Ancestry(t, t.parent[x])
      BY <2>2, <3>1, AncestryAbove
    <3> QED  BY <1>1, <3>2 DEF Upward
  <2> QED  BY <2>1, <2>2
<1> HIDE DEF S
<1> QED  BY <1>2, <1>3 DEF NoRing

(* Taking parents away makes no ring and no ancestor.                      *)
LEMMA FewerParents ==
    ASSUME NEW t, NEW r, t.parent \in [Nodes -> NodeOrNil], r.parent \in [Nodes -> NodeOrNil],
           \A d \in Nodes : r.parent[d] \in {t.parent[d], Nil}
    PROVE  /\ NoRing(t) => NoRing(r)
           /\ \A n \in Nodes : Ancestry(r, n) \subseteq Ancestry(t, n)
<1>1. ASSUME NoRing(t), NEW S \in SUBSET Nodes, S # {}
      PROVE  \E n \in S : r.parent[n] \notin S
  <2>1. PICK n \in S : t.parent[n] \notin S
    BY <1>1 DEF NoRing
  <2> QED  BY <2>1, NilIsNoNode
<1>2. ASSUME NEW n \in Nodes
      PROVE  Ancestry(r, n) \subseteq Ancestry(t, n)
  <2>1. Ancestry(t, n) \in SUBSET Nodes /\ n \in Ancestry(t, n) /\ Upward(t, Ancestry(t, n))
    BY AncestryProperties
  <2>2. Upward(r, Ancestry(t, n))
    BY <2>1 DEF Upward
  <2> QED  BY <2>1, <2>2, AncestryProperties
<1> QED  BY <1>1, <1>2 DEF NoRing

(* Neither does giving a node a parent that is not below it.               *)
LEMMA NewParent ==
    ASSUME NEW t, NEW r, t.parent \in [Nodes -> NodeOrNil],
           NEW n \in Nodes, NEW c \in Nodes, c \notin Ancestry(t, n), NoRing(t),
           r.parent = [t.parent EXCEPT ![c] = n]
    PROVE  NoRing(r)
<1> SUFFICES ASSUME NEW S \in SUBSET Nodes, S # {}, \A x \in S : r.parent[x] \in S
             PROVE  FALSE
  BY DEF NoRing
<1>1. Ancestry(t, n) \in SUBSET Nodes /\ n \in Ancestry(t, n) /\ Upward(t, Ancestry(t, n)) /\ Nil \notin Nodes
  BY AncestryProperties, NilIsNoNode
<1>2. \A x \in Nodes : r.parent[x] = IF x = c THEN n ELSE t.parent[x]
  OBVIOUS
<1>3. CASE c \notin S
  BY <1>2, <1>3 DEF NoRing
<1>4. CASE c \in S
  <2> DEFINE R == S \cap Ancestry(t, n)
  <2>1. n \in R /\ R \in SUBSET Nodes
    BY <1>1, <1>2, <1>4
  <2>2. ASSUME NEW x \in R
        PROVE  t.parent[x] \in R
    BY <1>1, <1>2 DEF Upward
  <2> HIDE DEF R
  <2> QED  BY <2>1, <2>2 DEF NoRing
<1> QED  BY <1>3, <1>4

(* The parents of a node's subtree are in it, and so are the children.     *)
LEMMA SubtreeProperties ==
    ASSUME NEW t, t.parent \in [Nodes -> NodeOrNil], NoRing(t), NEW n \in Nodes
    PROVE  /\ n \in Subtree(t, n) /\ Subtree(t, n) \subseteq Nodes
           /\ \A m \in Subtree(t, n) : m # n => t.parent[m] \in Subtree(t, n)
           /\ \A d \in Nodes : t.parent[d] \in Subtree(t, n) => d \in Subtree(t, n) /\ d # n
<1>1. n \in Subtree(t, n) /\ Subtree(t, n) \subseteq Nodes
  BY AncestryProperties DEF Subtree
<1>2. ASSUME NEW m \in Subtree(t, n), m # n
      PROVE  t.parent[m] \in Subtree(t, n)
  <2>1. m \in Nodes /\ n \in Ancestry(t, m)
    BY DEF Subtree
  <2>2. t.parent[m] \in Nodes /\ n \in Ancestry(t, t.parent[m])
    BY <1>2, <2>1, AncestryAbove
  <2> QED  BY <2>2 DEF Subtree
<1>3. ASSUME NEW d \in Nodes, t.parent[d] \in Subtree(t, n)
      PROVE  d \in Subtree(t, n) /\ d # n
  <2>1. t.parent[d] \in Nodes /\ n \in Ancestry(t, t.parent[d]) /\ t.parent[d] # Nil
    BY <1>3, NilIsNoNode DEF Subtree
  <2>2. d \in Subtree(t, n)
    BY <2>1, AncestryAbove DEF Subtree
  <2>3. d # n
    BY <2>1, NoRingAcyclic
  <2> QED  BY <2>2, <2>3
<1> QED  BY <1>1, <1>2, <1>3

(* What the copies of a subtree are made of.                               *)
CopiesFit(t, n, deep, o, C) ==
    /\ C \subseteq Nodes /\ o \in [C -> Nodes]
    /\ \A j, k \in C : o[j] = o[k] => j = k
    /\ \A k \in C : t.parent[k] = Nil /\ t.kids[k] = <<>>
    /\ \A m \in Nodes : (\E k \in C : o[k] = m) <=> m \in IF deep THEN Subtree(t, n) ELSE {n}

(* Copying one node or a subtree keeps the encodings of a tree in          *)
(* agreement and makes no ring.                                            *)
LEMMA CopiesLinks ==
    ASSUME NEW t, Links(t), NoRing(t), NEW n \in Nodes, NEW deep \in BOOLEAN, NEW o, NEW C,
           CopiesFit(t, n, deep, o, C)
    PROVE  /\ Links(WithCopies(t, n, deep, o)) /\ NoRing(WithCopies(t, n, deep, o))
           /\ \A d \in Nodes \ C : /\ WithCopies(t, n, deep, o).parent[d] = t.parent[d]
                                   /\ WithCopies(t, n, deep, o).kids[d] = t.kids[d]
           /\ \A d \in C : WithCopies(t, n, deep, o).parent[d] \in C \cup {Nil}
<1> DEFINE r == WithCopies(t, n, deep, o)
           Copy(m) == IF m = Nil THEN Nil ELSE CHOOSE k \in C : o[k] = m
           linked == {k \in C : deep /\ o[k] # n}
<1>n. Nil \notin Nodes
  BY NilIsNoNode
<1>1. /\ t.parent \in [Nodes -> NodeOrNil] /\ t.first \in [Nodes -> NodeOrNil]
      /\ t.prev \in [Nodes -> NodeOrNil] /\ t.next \in [Nodes -> NodeOrNil]
      /\ t.kids \in [Nodes -> Seq(Nodes)]
  BY DEF Links, Typed
<1>2. /\ C \subseteq Nodes /\ o \in [C -> Nodes]
      /\ \A j, k \in C : o[j] = o[k] => j = k
      /\ \A k \in C : t.parent[k] = Nil /\ t.kids[k] = <<>>
      /\ \A m \in Nodes : (\E k \in C : o[k] = m) <=> m \in IF deep THEN Subtree(t, n) ELSE {n}
  BY DEF CopiesFit
<1>3. DOMAIN o = C
  BY <1>2
<1>4. /\ r.parent = [k \in Nodes |-> IF k \in linked THEN Copy(t.parent[o[k]]) ELSE t.parent[k]]
      /\ r.prev = [k \in Nodes |-> IF k \in linked THEN Copy(t.prev[o[k]]) ELSE t.prev[k]]
      /\ r.next = [k \in Nodes |-> IF k \in linked THEN Copy(t.next[o[k]]) ELSE t.next[k]]
      /\ r.first = [k \in Nodes |-> IF k \in C /\ deep THEN Copy(t.first[o[k]]) ELSE t.first[k]]
      /\ r.kids = [k \in Nodes |-> IF k \in C /\ deep
                                   THEN [i \in 1..Len(t.kids[o[k]]) |-> Copy(t.kids[o[k]][i])]
                                   ELSE t.kids[k]]
  BY <1>3 DEF WithCopies
<1>5. CASE ~deep
  <2>1. /\ r.parent = t.parent /\ r.prev = t.prev /\ r.next = t.next /\ r.first = t.first
        /\ r.kids = t.kids
    BY <1>1, <1>4, <1>5
  <2> HIDE DEF r
  <2>2. Links(r)
    <3>1. Typed(r) /\ \A d \in Nodes : Detached(r, d)
      BY <2>1 DEF Links, Typed, Detached
    <3>2. \A d \in Nodes : ListOf(r, d, r.kids[d])
      BY <2>1 DEF Links, ListOf
    <3> QED  BY <3>1, <3>2 DEF Links
  <2>3. NoRing(r)
    BY <2>1 DEF NoRing
  <2> QED  BY <1>2, <2>1, <2>2, <2>3 DEF r
<1>6. CASE deep
  <2> DEFINE T == Subtree(t, n)
  <2>1. /\ n \in T /\ T \subseteq Nodes
        /\ \A m \in T : m # n => t.parent[m] \in T
        /\ \A d \in Nodes : t.parent[d] \in T => d \in T /\ d # n
    BY <1>1, SubtreeProperties
  <2>2. PICK c \in [T -> C] : (\A m \in T : o[c[m]] = m /\ Copy(m) = c[m])
    <3>1. \A m \in T : (CHOOSE k \in C : o[k] = m) \in C /\ o[CHOOSE k \in C : o[k] = m] = m
      BY <1>2, <1>6, <2>1
    <3>2. [m \in T |-> CHOOSE k \in C : o[k] = m] \in [T -> C]
      BY <3>1
    <3>3. \A m \in T : Copy(m) = CHOOSE k \in C : o[k] = m
      BY <1>n, <2>1
    <3>4. PICK c : c = [m \in T |-> CHOOSE k \in C : o[k] = m]
      OBVIOUS
    <3>5. \A m \in T : o[c[m]] = m /\ Copy(m) = c[m]
      BY <3>1, <3>3, <3>4
    <3> HIDE DEF Copy, T
    <3> QED  BY <3>2, <3>4, <3>5
  <2>c. /\ \A m \in T : c[m] \in C /\ c[m] \in Nodes /\ c[m] # Nil /\ m \in Nodes /\ m # Nil
        /\ \A x \in Nodes \ C : x \notin C
    BY <1>2, <1>n, <2>1, <2>2
  <2>3. /\ \A k \in C : o[k] \in T /\ c[o[k]] = k
        /\ Copy(Nil) = Nil
    BY <1>2, <1>6, <2>1, <2>2
  <2>4. ASSUME NEW p \in T
        PROVE  /\ \A d \in Nodes : t.parent[d] = p => d \in T \ {n}
               /\ \A i \in 1..Len(t.kids[p]) : t.kids[p][i] \in T \ {n}
               /\ t.first[p] \in T \cup {Nil}
    <3>1. \A i \in 1..Len(t.kids[p]) : t.kids[p][i] \in Nodes /\ t.parent[t.kids[p][i]] = p
      BY <2>1, LinksProperties
    <3>2. t.first[p] = IF Len(t.kids[p]) = 0 THEN Nil ELSE t.kids[p][1]
      BY <2>1, LinksProperties
    <3>3. Len(t.kids[p]) \in Nat
      BY <2>1, LinksProperties
    <3> QED  BY <2>1, <3>1, <3>2, <3>3
  <2>5. ASSUME NEW m \in T, m # n
        PROVE  t.prev[m] \in T \cup {Nil} /\ t.next[m] \in T \cup {Nil} /\ t.parent[m] \in T
    <3>1. t.parent[m] \in T /\ m \in Nodes
      BY <2>1, <2>5
    <3>2. PICK p \in T : p = t.parent[m]
      BY <3>1
    <3>3. PICK i \in 1..Len(t.kids[p]) : t.kids[p][i] = m
      BY <2>1, <3>1, <3>2, LinksProperties DEF Within
    <3>4. /\ t.prev[m] = IF i = 1 THEN Nil ELSE t.kids[p][i - 1]
          /\ t.next[m] = IF i = Len(t.kids[p]) THEN Nil ELSE t.kids[p][i + 1]
          /\ Len(t.kids[p]) \in Nat
      BY <2>1, <3>3, LinksProperties DEF Chained
    <3> QED  BY <2>4, <3>1, <3>2, <3>3, <3>4
  <2> DEFINE Kids(k) == t.kids[o[k]]
             K(k) == [i \in 1..Len(t.kids[o[k]]) |-> c[t.kids[o[k]][i]]]
  <2>6. ASSUME NEW k \in C
        PROVE  /\ r.parent[k] = IF o[k] = n THEN Nil ELSE c[t.parent[o[k]]]
               /\ r.prev[k] = IF o[k] = n THEN t.prev[k]
                              ELSE IF t.prev[o[k]] = Nil THEN Nil ELSE c[t.prev[o[k]]]
               /\ r.next[k] = IF o[k] = n THEN t.next[k]
                              ELSE IF t.next[o[k]] = Nil THEN Nil ELSE c[t.next[o[k]]]
               /\ r.first[k] = IF t.first[o[k]] = Nil THEN Nil ELSE c[t.first[o[k]]]
               /\ r.kids[k] = K(k)
    <3>1. k \in Nodes /\ o[k] \in T /\ (k \in linked <=> o[k] # n)
      BY <1>2, <1>6, <2>3
    <3> HIDE DEF linked, T, r
    <3>2. r.parent[k] = IF o[k] = n THEN Nil ELSE c[t.parent[o[k]]]
      BY <1>2, <1>4, <2>2, <2>5, <3>1
    <3>3. r.prev[k] = IF o[k] = n THEN t.prev[k]
                              ELSE IF t.prev[o[k]] = Nil THEN Nil ELSE c[t.prev[o[k]]]
      BY <1>2, <1>4, <2>2, <2>3, <2>5, <3>1
    <3>4. r.next[k] = IF o[k] = n THEN t.next[k]
                              ELSE IF t.next[o[k]] = Nil THEN Nil ELSE c[t.next[o[k]]]
      BY <1>2, <1>4, <2>2, <2>3, <2>5, <3>1
    <3>5. r.first[k] = IF t.first[o[k]] = Nil THEN Nil ELSE c[t.first[o[k]]]
      BY <1>2, <1>4, <1>6, <2>2, <2>3, <2>4, <3>1
    <3>6. r.kids[k] = K(k)
      <4>1. r.kids[k] = [i \in 1..Len(t.kids[o[k]]) |-> Copy(t.kids[o[k]][i])]
        BY <1>4, <1>6, <3>1
      <4>2. \A i \in 1..Len(t.kids[o[k]]) : Copy(t.kids[o[k]][i]) = c[t.kids[o[k]][i]]
        <5> SUFFICES ASSUME NEW i \in 1..Len(t.kids[o[k]])
                     PROVE  Copy(t.kids[o[k]][i]) = c[t.kids[o[k]][i]]
          OBVIOUS
        <5>1. PICK p \in T : p = o[k]
          BY <3>1
        <5>2. t.kids[p][i] \in T
          BY <2>4, <5>1
        <5>3. PICK x \in T : x = t.kids[o[k]][i]
          BY <5>1, <5>2
        <5>4. Copy(x) = c[x]
          BY <2>2
        <5> HIDE DEF Copy
        <5> QED  BY <5>3, <5>4
      <4> HIDE DEF Copy
      <4> QED  BY <4>1, <4>2
    <3> QED  BY <3>2, <3>3, <3>4, <3>5, <3>6
  <2>7. ASSUME NEW d \in Nodes \ C
        PROVE  /\ r.parent[d] = t.parent[d] /\ r.prev[d] = t.prev[d] /\ r.next[d] = t.next[d]
               /\ r.first[d] = t.first[d] /\ r.kids[d] = t.kids[d]
    BY <1>4
  <2> HIDE DEF r, T, Copy, linked
  <2>8. ASSUME NEW k \in C
        PROVE  /\ K(k) \in Seq(Nodes) /\ Len(K(k)) = Len(Kids(k)) /\ Len(Kids(k)) \in Nat
               /\ \A i \in 1..Len(Kids(k)) : K(k)[i] = c[Kids(k)[i]] /\ Kids(k)[i] \in T \ {n}
    <3>1. \A i \in 1..Len(Kids(k)) : Kids(k)[i] \in T \ {n}
      BY <2>3, <2>4
    <3>2. Len(Kids(k)) \in Nat /\ \A i \in 1..Len(Kids(k)) : c[Kids(k)[i]] \in Nodes
      <4>1. Len(Kids(k)) \in Nat
        BY <1>2, <2>1, <2>2, <2>3, LinksProperties
      <4>2. \A i \in 1..Len(Kids(k)) : c[Kids(k)[i]] \in Nodes
        BY <1>2, <2>1, <2>2, <3>1
      <4> QED  BY <4>1, <4>2
    <3> DEFINE L == Len(Kids(k))
    <3>3. K(k) \in [1..L -> Nodes]
      BY <3>2
    <3> HIDE DEF L
    <3>4. L \in Nat
      BY <3>2 DEF L
    <3>5. K(k) \in Seq(Nodes) /\ Len(K(k)) = L
      BY <3>3, <3>4
    <3> QED  BY <3>1, <3>2, <3>5 DEF L
  <2>p. ASSUME NEW k \in C
        PROVE  /\ o[k] = n => r.parent[k] = Nil
               /\ o[k] # n => /\ t.parent[o[k]] \in T /\ r.parent[k] = c[t.parent[o[k]]]
                              /\ r.parent[k] \in C /\ r.parent[k] # Nil
    <3>1. o[k] \in T /\ (o[k] # n => t.parent[o[k]] \in T)
      BY <2>3, <2>5
    <3>2. r.parent[k] = IF o[k] = n THEN Nil ELSE c[t.parent[o[k]]]
      BY <2>6
    <3> QED  BY <2>c, <3>1, <3>2
  <2>9. Typed(r)
    <3>1. \A d \in Nodes : /\ r.parent[d] \in NodeOrNil /\ r.prev[d] \in NodeOrNil
                           /\ r.next[d] \in NodeOrNil /\ r.first[d] \in NodeOrNil
                           /\ r.kids[d] \in Seq(Nodes)
      <4> SUFFICES ASSUME NEW d \in Nodes
                   PROVE  /\ r.parent[d] \in NodeOrNil /\ r.prev[d] \in NodeOrNil
                          /\ r.next[d] \in NodeOrNil /\ r.first[d] \in NodeOrNil
                          /\ r.kids[d] \in Seq(Nodes)
        OBVIOUS
      <4>1. CASE d \notin C
        BY <1>1, <2>7, <4>1
      <4>2. CASE d \in C
        <5>1. o[d] \in T /\ (o[d] # n => t.parent[o[d]] \in T)
          BY <2>3, <2>5, <4>2
        <5>2. \A m \in T : c[m] \in NodeOrNil
          BY <1>2, <2>2 DEF NodeOrNil
        <5>3. Nil \in NodeOrNil
          BY DEF NodeOrNil
        <5>4. r.parent[d] \in NodeOrNil
          BY <2>6, <4>2, <5>1, <5>2, <5>3
        <5>5. r.prev[d] \in NodeOrNil
          <6>1. o[d] # n => t.prev[o[d]] \in T \cup {Nil}
            BY <2>5, <5>1
          <6>2. t.prev[d] \in NodeOrNil
            BY <1>1
          <6> QED  BY <2>6, <4>2, <5>2, <5>3, <6>1, <6>2
        <5>8. r.next[d] \in NodeOrNil
          <6>1. o[d] # n => t.next[o[d]] \in T \cup {Nil}
            BY <2>5, <5>1
          <6>2. t.next[d] \in NodeOrNil
            BY <1>1
          <6> QED  BY <2>6, <4>2, <5>2, <5>3, <6>1, <6>2
        <5>6. r.first[d] \in NodeOrNil
          <6>1. t.first[o[d]] \in T \cup {Nil}
            BY <2>4, <5>1
          <6>2. r.first[d] = IF t.first[o[d]] = Nil THEN Nil ELSE c[t.first[o[d]]]
            BY <2>6, <4>2
          <6> QED  BY <5>2, <5>3, <6>1, <6>2
        <5>7. r.kids[d] \in Seq(Nodes)
          <6>1. r.kids[d] = K(d)
            BY <2>6, <4>2
          <6>2. K(d) \in Seq(Nodes)
            BY <2>8, <4>2
          <6> HIDE DEF K
          <6> QED  BY <6>1, <6>2
        <5> QED  BY <5>4, <5>5, <5>6, <5>7, <5>8
      <4> QED  BY <4>1, <4>2
    <3>2. /\ r.parent = [d \in Nodes |-> r.parent[d]] /\ r.prev = [d \in Nodes |-> r.prev[d]]
          /\ r.next = [d \in Nodes |-> r.next[d]] /\ r.first = [d \in Nodes |-> r.first[d]]
          /\ r.kids = [d \in Nodes |-> r.kids[d]]
      BY <1>4
    <3> QED  BY <3>1, <3>2 DEF Typed
  <2>10. ASSUME NEW m \in Nodes \ C
         PROVE  ListOf(r, m, r.kids[m])
    <3>1. t.kids[m] \in Seq(Nodes) /\ ListOf(t, m, t.kids[m])
      BY <1>1 DEF Links
    <3>2. \A d \in Nodes : r.parent[d] = m <=> t.parent[d] = m
      <4> SUFFICES ASSUME NEW d \in Nodes PROVE r.parent[d] = m <=> t.parent[d] = m
        OBVIOUS
      <4>1. CASE d \in C
        <5>1. r.parent[d] \in C \cup {Nil}
          BY <2>p, <4>1
        <5> QED  BY <1>2, <1>n, <4>1, <5>1
      <4> QED  BY <2>7, <4>1
    <3>3. \A d \in Nodes : t.parent[d] = m => r.prev[d] = t.prev[d] /\ r.next[d] = t.next[d]
      BY <1>2, <1>n, <2>7
    <3>4. ListOf(r, m, t.kids[m])
      BY <2>7, <3>1, <3>2, <3>3, OtherList
    <3> QED  BY <2>7, <3>4
  <2>11. ASSUME NEW k \in C
         PROVE  ListOf(r, k, r.kids[k])
    <3>1. PICK s \in Seq(Nodes) : s = t.kids[o[k]]
      BY <1>1, <1>2
    <3>2. PICK q \in Seq(Nodes) :
             /\ q = r.kids[k] /\ Len(q) = Len(s) /\ Len(s) \in Nat
             /\ \A i \in 1..Len(s) : q[i] = c[s[i]] /\ s[i] \in T \ {n}
      <4>1. r.kids[k] = K(k)
        BY <2>6
      <4>2. /\ K(k) \in Seq(Nodes) /\ Len(K(k)) = Len(s) /\ Len(s) \in Nat
            /\ \A i \in 1..Len(s) : K(k)[i] = c[s[i]] /\ s[i] \in T \ {n}
        BY <2>8, <3>1
      <4> HIDE DEF K
      <4> QED  BY <4>1, <4>2
    <3>3. /\ Distinct(s) /\ Chained(s, t.prev, t.next)
          /\ \A d \in Nodes : t.parent[d] = o[k] <=> Within(d, s)
          /\ t.first[o[k]] = IF Len(s) = 0 THEN Nil ELSE s[1]
      BY <1>2, <3>1, LinksProperties
    <3>4. Distinct(q)
      <4>1. \A i, j \in 1..Len(s) : q[i] = q[j] => s[i] = s[j]
        BY <2>2, <3>2
      <4> QED  BY <3>2, <3>3, <4>1 DEF Distinct
    <3>5. ASSUME NEW d \in Nodes
          PROVE  r.parent[d] = k <=> Within(d, q)
      <4>1. ASSUME r.parent[d] = k PROVE Within(d, q)
        <5>1. d \in C /\ o[d] # n /\ k = c[t.parent[o[d]]] /\ t.parent[o[d]] \in T
          <6>1. d \notin C => t.parent[d] = k
            BY <2>7, <4>1
          <6>2. t.parent[d] # k
            <7>1. ListOf(t, k, t.kids[k]) /\ t.kids[k] = <<>>
              BY <1>2 DEF Links
            <7> QED  BY <7>1, EmptySeq DEF ListOf, Within
          <6>3. d \in C /\ o[d] # n
            BY <1>2, <1>n, <2>6, <4>1, <6>1, <6>2
          <6> QED  BY <2>3, <2>5, <2>6, <4>1, <6>3
        <5>2. t.parent[o[d]] = o[k] /\ o[d] \in Nodes
          BY <1>2, <2>2, <5>1
        <5>3. PICK i \in 1..Len(s) : s[i] = o[d]
          BY <3>3, <5>2 DEF Within
        <5>4. q[i] = d
          BY <2>3, <3>2, <5>1, <5>3
        <5> QED  BY <3>2, <5>4 DEF Within
      <4>2. ASSUME NEW i \in 1..Len(s), q[i] = d PROVE r.parent[d] = k
        <5>1. d \in C /\ o[d] = s[i] /\ s[i] \in T \ {n}
          BY <2>2, <3>2, <4>2
        <5>2. t.parent[s[i]] = o[k]
          BY <1>2, <3>1, LinksProperties
        <5>3. r.parent[d] = c[o[k]]
          BY <2>p, <5>1, <5>2
        <5> QED  BY <2>3, <5>3
      <4> QED  BY <3>2, <4>1, <4>2 DEF Within
    <3>6. r.first[k] = IF Len(q) = 0 THEN Nil ELSE q[1]
      <4>1. Len(s) # 0 => q[1] = c[s[1]] /\ s[1] # Nil
        BY <2>c, <3>2
      <4>2. r.first[k] = IF t.first[o[k]] = Nil THEN Nil ELSE c[t.first[o[k]]]
        BY <2>6
      <4>3. t.first[o[k]] = IF Len(s) = 0 THEN Nil ELSE s[1]
        BY <3>3
      <4> QED  BY <3>2, <4>1, <4>2, <4>3
    <3>7. ASSUME NEW i \in 1..Len(q)
          PROVE  /\ r.prev[q[i]] = IF i = 1 THEN Nil ELSE q[i - 1]
                 /\ r.next[q[i]] = IF i = Len(q) THEN Nil ELSE q[i + 1]
      <4>1. q[i] \in C /\ o[q[i]] = s[i] /\ s[i] \in T \ {n}
        BY <2>2, <3>2
      <4>2. /\ t.prev[s[i]] = IF i = 1 THEN Nil ELSE s[i - 1]
            /\ t.next[s[i]] = IF i = Len(s) THEN Nil ELSE s[i + 1]
        BY <3>2, <3>3 DEF Chained
      <4>3. /\ i # 1 => s[i - 1] # Nil /\ q[i - 1] = c[s[i - 1]]
            /\ i # Len(s) => s[i + 1] # Nil /\ q[i + 1] = c[s[i + 1]]
        BY <1>n, <2>1, <3>2
      <4>4. /\ r.prev[q[i]] = IF t.prev[s[i]] = Nil THEN Nil ELSE c[t.prev[s[i]]]
            /\ r.next[q[i]] = IF t.next[s[i]] = Nil THEN Nil ELSE c[t.next[s[i]]]
        <5>1. PICK x \in C : x = q[i] /\ o[x] = s[i] /\ o[x] # n
          BY <4>1
        <5>2. /\ r.prev[x] = IF t.prev[o[x]] = Nil THEN Nil ELSE c[t.prev[o[x]]]
              /\ r.next[x] = IF t.next[o[x]] = Nil THEN Nil ELSE c[t.next[o[x]]]
          BY <2>6, <5>1
        <5> QED  BY <5>1, <5>2
      <4> QED  BY <3>2, <4>2, <4>3, <4>4
    <3> QED  BY <3>2, <3>4, <3>5, <3>6, <3>7 DEF ListOf, Chained
  <2>12. ASSUME NEW d \in Nodes
         PROVE  Detached(r, d)
    <3>1. CASE d \in C /\ o[d] # n
      <4>1. r.parent[d] # Nil
        BY <2>p, <3>1
      <4> QED  BY <4>1 DEF Detached
    <3>2. CASE d \in C /\ o[d] = n
      BY <1>2, <2>6, <3>2 DEF Detached, Links
    <3>3. CASE d \notin C
      BY <2>7, <3>3 DEF Detached, Links
    <3> QED  BY <3>1, <3>2, <3>3
  <2>13. Links(r)
    BY <2>9, <2>10, <2>11, <2>12 DEF Links
  <2>14. NoRing(r)
    <3> SUFFICES ASSUME NEW S \in SUBSET Nodes, S # {}, \A x \in S : r.parent[x] \in S
                 PROVE  FALSE
      BY DEF NoRing
    <3>1. \A k \in S \cap C : o[k] # n /\ r.parent[k] = c[t.parent[o[k]]] /\ t.parent[o[k]] \in T
      BY <1>n, <2>p
    <3>2. CASE S \subseteq C
      <4> DEFINE R == {o[k] : k \in S}
      <4>1. R \in SUBSET Nodes /\ R # {}
        BY <1>2, <3>2
      <4>2. ASSUME NEW x \in R PROVE t.parent[x] \in R
        <5>1. PICK k \in S : x = o[k]
          OBVIOUS
        <5>2. t.parent[x] = o[r.parent[k]] /\ r.parent[k] \in S
          BY <2>2, <3>1, <3>2, <5>1
        <5> QED  BY <5>2
      <4> HIDE DEF R
      <4> QED  BY <4>1, <4>2 DEF NoRing
    <3>3. CASE ~(S \subseteq C)
      <4> DEFINE R == S \ C
      <4>1. R \in SUBSET Nodes /\ R # {}
        BY <3>3
      <4>2. ASSUME NEW x \in R PROVE t.parent[x] \in R
        <5>1. t.parent[x] \in S /\ x \in Nodes
          BY <2>7
        <5>2. ASSUME t.parent[x] \in C PROVE FALSE
          <6>1. ListOf(t, t.parent[x], t.kids[t.parent[x]]) /\ t.kids[t.parent[x]] = <<>>
            BY <1>2, <5>2 DEF Links
          <6> QED  BY <5>1, <6>1, EmptySeq DEF ListOf, Within
        <5> QED  BY <5>1, <5>2
      <4> HIDE DEF R
      <4> QED  BY <4>1, <4>2 DEF NoRing
    <3> QED  BY <3>2, <3>3
  <2>15. \A d \in C : r.parent[d] \in C \cup {Nil}
    BY <2>p
  <2> QED  BY <2>7, <2>13, <2>14, <2>15 DEF r
<1> QED  BY <1>5, <1>6

-----------------------------------------------------------------------------
(* The nodes 1..k: those that have been created.                           *)

(* Only the first k nodes are linked.                                      *)
Fresh(t, k) == \A d \in Nodes : t.parent[d] # Nil => d \in 1..k /\ t.parent[d] \in 1..k

(* What every call keeps true of the tree.                                 *)
Good(t, k) == Links(t) /\ NoRing(t) /\ Fresh(t, k)

(* A node not created yet is alone.                                        *)
LEMMA FreshNode ==
    ASSUME NEW t, NEW k, Good(t, k), NEW a \in Nodes, a \notin 1..k
    PROVE  /\ t.parent[a] = Nil /\ t.kids[a] = <<>>
           /\ \A m \in Nodes \ {a} : a \notin Ancestry(t, m)
<1>1. t.parent[a] = Nil
  BY DEF Good, Fresh
<1>2. \A d \in Nodes : t.parent[d] # a
  BY NilIsNoNode DEF Good, Fresh
<1>3. t.kids[a] = <<>>
  <2>1. t.kids[a] \in Seq(Nodes) /\ Len(t.kids[a]) \in Nat
        /\ \A i \in 1..Len(t.kids[a]) : t.kids[a][i] \in Nodes /\ t.parent[t.kids[a][i]] = a
    BY LinksProperties DEF Good
  <2>2. Len(t.kids[a]) = 0
    BY <1>2, <2>1
  <2> QED  BY <2>1, <2>2, ListProperties
<1>4. ASSUME NEW m \in Nodes \ {a}
      PROVE  a \notin Ancestry(t, m)
  <2>1. t.parent \in [Nodes -> NodeOrNil]
    BY DEF Good, Links, Typed
  <2>2. Upward(t, Nodes \ {a})
    BY <1>2, <2>1 DEF Upward, NodeOrNil
  <2>3. Nodes \ {a} \in SUBSET Nodes
    OBVIOUS
  <2> QED  BY <2>1, <2>2, <2>3, AncestryProperties
<1> QED  BY <1>1, <1>3, <1>4

(* More nodes may be created than are linked.                              *)
LEMMA FreshGrows ==
    ASSUME NEW t, NEW k \in Nat, NEW j \in Nat, k <= j, Good(t, k)
    PROVE  Good(t, j)
  BY DEF Good, Fresh

(* Whether a node is listed is told by its Parent.                         *)
LEMMA ListedChild ==
    ASSUME NEW t, Links(t), NEW n \in Nodes, NEW c \in Nodes
    PROVE  Contains(t.kids[n], c) <=> t.parent[c] = n
<1>1. t.kids[n] \in Seq(Nodes) /\ (t.parent[c] = n <=> Within(c, t.kids[n]))
  BY LinksProperties
<1> QED  BY <1>1 DEF Within, Contains

(* Taking a child out.                                                     *)
LEMMA RemoveGood ==
    ASSUME NEW t, NEW k, Good(t, k), NEW n \in Nodes, NEW c \in Nodes
    PROVE  Good(removeChildNode(t, n, c), k)
<1> DEFINE r == removeChildNode(t, n, c)
<1>1. CASE ~Contains(t.kids[n], c)
  BY <1>1 DEF removeChildNode
<1>2. CASE Contains(t.kids[n], c)
  <2>1. Links(r) /\ r.parent = [t.parent EXCEPT ![c] = Nil]
    BY <1>2, RemoveLinks DEF Good
  <2> HIDE DEF r
  <2>2. t.parent \in [Nodes -> NodeOrNil] /\ r.parent \in [Nodes -> NodeOrNil]
    BY <2>1 DEF Good, Links, Typed
  <2>3. \A d \in Nodes : r.parent[d] \in {t.parent[d], Nil}
    BY <2>1, <2>2
  <2>4. NoRing(r)
    BY <2>2, <2>3, FewerParents DEF Good
  <2>5. Fresh(r, k)
    BY <2>3 DEF Good, Fresh
  <2> QED  BY <2>1, <2>4, <2>5 DEF Good, r
<1> QED  BY <1>1, <1>2

(* A node that leaves its parent, if it has one.                           *)
LEMMA LeaveGood ==
    ASSUME NEW t, NEW k, Good(t, k), NEW c \in Nodes
    PROVE  /\ Good(LeaveParent(t, c), k)
           /\ LeaveParent(t, c).parent = [t.parent EXCEPT ![c] = Nil]
           /\ LeaveParent(t, c).parent[c] = Nil
<1>1. t.parent \in [Nodes -> NodeOrNil] /\ Links(t)
  BY DEF Good, Links, Typed
<1>2. CASE t.parent[c] = Nil
  <2>1. [t.parent EXCEPT ![c] = Nil] = t.parent
    BY <1>1, <1>2
  <2> QED  BY <1>2, <2>1 DEF LeaveParent
<1>3. CASE t.parent[c] # Nil
  <2>1. PICK p \in Nodes : p = t.parent[c]
    BY <1>1, <1>3 DEF NodeOrNil
  <2>2. Contains(t.kids[p], c)
    BY <1>1, <2>1, ListedChild
  <2>3. removeChildNode(t, p, c).parent = [t.parent EXCEPT ![c] = Nil]
    BY <1>1, <2>2, RemoveLinks
  <2>4. Good(removeChildNode(t, p, c), k)
    BY RemoveGood
  <2> QED  BY <1>1, <1>3, <2>1, <2>3, <2>4 DEF LeaveParent
<1> QED  BY <1>2, <1>3

(* Joining a parent that is not below the node.                            *)
LEMMA JoinGood ==
    ASSUME NEW t, NEW k, Good(t, k), NEW r, Links(r), NEW n \in Nodes, NEW c \in Nodes,
           n \in 1..k, c \in 1..k, c \notin Ancestry(t, n),
           r.parent = [t.parent EXCEPT ![c] = n]
    PROVE  Good(r, k)
<1>1. t.parent \in [Nodes -> NodeOrNil]
  BY DEF Good, Links, Typed
<1>2. NoRing(r)
  BY <1>1, NewParent DEF Good
<1>3. Fresh(r, k)
  BY <1>1 DEF Good, Fresh
<1> QED  BY <1>2, <1>3 DEF Good

(* Appending a node without a parent.                                      *)
LEMMA AppendGood ==
    ASSUME NEW t, NEW k, Good(t, k), NEW n \in Nodes, NEW c \in Nodes,
           n \in 1..k, c \in 1..k, t.parent[c] = Nil
    PROVE  Good(appendChildNode(t, n, c), k)
<1>1. CASE WouldCreateCycle(t, n, c)
  BY <1>1 DEF appendChildNode
<1>2. CASE ~WouldCreateCycle(t, n, c)
  <2>1. /\ Links(AppendUnchecked(t, n, c))
        /\ AppendUnchecked(t, n, c).parent = [t.parent EXCEPT ![c] = n]
    BY AppendLinks DEF Good
  <2> QED  BY <1>2, <2>1, JoinGood DEF appendChildNode, WouldCreateCycle
<1> QED  BY <1>1, <1>2

(* Linking a node without a parent in front of another.                    *)
LEMMA BeforeGood ==
    ASSUME NEW t, NEW k, Good(t, k), NEW n \in Nodes, NEW c \in Nodes, NEW ref \in Nodes,
           n \in 1..k, c \in 1..k, t.parent[c] = Nil, c \notin Ancestry(t, n)
    PROVE  Good(LinkBefore(t, n, c, ref), k)
<1>1. CASE ~Contains(t.kids[n], ref)
  BY <1>1 DEF LinkBefore
<1>2. CASE Contains(t.kids[n], ref)
  <2>1. /\ Links(LinkBefore(t, n, c, ref))
        /\ LinkBefore(t, n, c, ref).parent = [t.parent EXCEPT ![c] = n]
    <3>1. Links(t)
      BY DEF Good
    <3> QED  BY <1>2, <3>1, BeforeLinks
  <2> QED  BY <2>1, JoinGood
<1> QED  BY <1>1, <1>2

(* Linking a node without a parent in the place of another.                *)
LEMMA InPlaceGood ==
    ASSUME NEW t, NEW k, Good(t, k), NEW n \in Nodes, NEW c \in Nodes, NEW old \in Nodes,
           n \in 1..k, c \in 1..k, t.parent[c] = Nil, c \notin Ancestry(t, n)
    PROVE  Good(LinkInPlace(t, n, c, old), k)
<1> DEFINE r == LinkInPlace(t, n, c, old)
<1>1. CASE ~Contains(t.kids[n], old)
  BY <1>1 DEF LinkInPlace
<1>2. CASE Contains(t.kids[n], old)
  <2>1. Links(r) /\ r.parent = [t.parent EXCEPT ![c] = n, ![old] = Nil]
    <3>1. Links(t)
      BY DEF Good
    <3>2. Links(LinkInPlace(t, n, c, old)) /\ LinkInPlace(t, n, c, old).parent = ParentsSwapped(t, n, c, old)
      BY <1>2, <3>1, InPlaceLinks
    <3> QED  BY <3>2 DEF ParentsSwapped
  <2> HIDE DEF r
  <2>2. t.parent \in [Nodes -> NodeOrNil] /\ r.parent \in [Nodes -> NodeOrNil]
    BY <2>1 DEF Good, Links, Typed
  <2>3. PICK x : x = [parent |-> [t.parent EXCEPT ![c] = n]]
    OBVIOUS
  <2>4. x.parent = [t.parent EXCEPT ![c] = n] /\ x.parent \in [Nodes -> NodeOrNil]
    BY <2>2, <2>3 DEF NodeOrNil
  <2>5. NoRing(x)
    BY <2>2, <2>4, NewParent DEF Good
  <2>6. \A d \in Nodes : r.parent[d] \in {x.parent[d], Nil}
    BY <2>1, <2>2, <2>4
  <2>7. NoRing(r)
    BY <2>2, <2>4, <2>5, <2>6, FewerParents
  <2>8. \A d \in Nodes : r.parent[d] # Nil => r.parent[d] = t.parent[d] \/ (d = c /\ r.parent[d] = n)
    BY <2>1, <2>2
  <2>9. Fresh(r, k)
    BY <2>8 DEF Good, Fresh
  <2> QED  BY <2>1, <2>7, <2>9 DEF Good, r
<1> QED  BY <1>1, <1>2

(* Giving up the children of a node.                                       *)
LEMMA DropGood ==
    ASSUME NEW t, NEW k, Good(t, k), NEW n \in Nodes
    PROVE  Good(DropChildren(t, n), k)
<1> DEFINE r == DropChildren(t, n)
<1>1. Links(r) /\ \A d \in Nodes : r.parent[d] = IF t.parent[d] = n THEN Nil ELSE t.parent[d]
  BY DropLinks DEF Good
<1> HIDE DEF r
<1>2. t.parent \in [Nodes -> NodeOrNil] /\ r.parent \in [Nodes -> NodeOrNil]
  BY <1>1 DEF Good, Links, Typed
<1>3. NoRing(r)
  BY <1>1, <1>2, FewerParents DEF Good
<1>4. Fresh(r, k)
  BY <1>1 DEF Good, Fresh
<1> QED  BY <1>1, <1>3, <1>4 DEF Good, r

(* A list of the elements of a finite set names each of them once.         *)
LEMMA SeqOfSet ==
    ASSUME NEW S, IsFiniteSet(S)
    PROVE  /\ Cardinality(S) \in Nat
           /\ SetToSeq(S) \in [1..Cardinality(S) -> S]
           /\ \A i, j \in 1..Cardinality(S) : SetToSeq(S)[i] = SetToSeq(S)[j] => i = j
           /\ \A x \in S : \E i \in 1..Cardinality(S) : SetToSeq(S)[i] = x
<1> DEFINE n == Cardinality(S)
<1>1. n \in Nat /\ ExistsBijection(1..n, S)
  BY FS_CardinalityType
<1>2. \E f \in [1..n -> S] : IsInjective(f)
  <2>1. PICK f : f \in Bijection(1..n, S)
    BY <1>1 DEF ExistsBijection
  <2>2. f \in [1..n -> S] /\ IsInjective(f)
    BY <2>1 DEF Bijection, Injection, IsInjective
  <2> QED  BY <2>2
<1>3. PICK f \in [1..n -> S] : f = SetToSeq(S) /\ IsInjective(f)
  BY <1>2 DEF SetToSeq
<1>4. \A i, j \in 1..n : f[i] = f[j] => i = j
  BY <1>3 DEF IsInjective
<1>5. \A x \in S : \E i \in 1..n : f[i] = x
  <2> DEFINE T == {f[i] : i \in 1..n}
  <2>1. T \in SUBSET S
    OBVIOUS
  <2>2. f \in [1..n -> T]
    OBVIOUS
  <2>3. f \in Bijection(1..n, T)
    BY <1>4, <2>2 DEF Bijection, Injection, Surjection, IsInjective
  <2>4. IsFiniteSet(1..n) /\ Cardinality(1..n) = n
    BY <1>1, FS_Interval
  <2> HIDE DEF T
  <2>5. Cardinality(T) = n
    BY <2>3, <2>4, FS_Bijection DEF ExistsBijection
  <2>6. S = T
    BY <2>1, <2>5, FS_Subset
  <2> QED  BY <2>6 DEF T
<1> QED  BY <1>1, <1>3, <1>4, <1>5

(* A copy of one node or of a subtree, on nodes not created yet.           *)
LEMMA CopiesGood ==
    ASSUME NEW t, NEW k \in Nat, Good(t, k), NEW n \in Nodes, NEW deep \in BOOLEAN, NEW o, NEW j \in Nat,
           n \in 1..k, k + j <= NodeBudget, CopiesFit(t, n, deep, o, (k + 1)..(k + j))
    PROVE  Good(WithCopies(t, n, deep, o), k + j)
<1> DEFINE C == (k + 1)..(k + j)
           r == WithCopies(t, n, deep, o)
<1>1. /\ Links(r) /\ NoRing(r)
      /\ \A d \in Nodes \ C : r.parent[d] = t.parent[d]
      /\ \A d \in C : r.parent[d] \in C \cup {Nil}
  <2>1. Links(t) /\ NoRing(t)
    BY DEF Good
  <2>2. PICK D : D = C
    OBVIOUS
  <2>3. CopiesFit(t, n, deep, o, D)
    BY <2>2
  <2> HIDE DEF C
  <2> QED  BY <2>1, <2>2, <2>3, CopiesLinks
<1> HIDE DEF r
<1>2. Fresh(r, k + j)
  <2> SUFFICES ASSUME NEW d \in Nodes, r.parent[d] # Nil
               PROVE  d \in 1..k + j /\ r.parent[d] \in 1..k + j
    BY DEF Fresh
  <2>1. CASE d \in C
    <3>1. r.parent[d] \in C
      BY <1>1, <2>1
    <3> QED  BY <2>1, <3>1
  <2>2. CASE d \notin C
    <3>1. r.parent[d] = t.parent[d]
      BY <1>1, <2>2
    <3>2. d \in 1..k /\ t.parent[d] \in 1..k
      BY <3>1 DEF Good, Fresh
    <3> QED  BY <3>1, <3>2
  <2> QED  BY <2>1, <2>2
<1> QED  BY <1>1, <1>2 DEF Good, r

(* What cloneNode copies to.                                               *)
LEMMA ClonesFit ==
    ASSUME NEW t, NEW k \in Nat, Good(t, k), NEW n \in Nodes, NEW deep \in BOOLEAN, NEW O,
           O = IF deep THEN Subtree(t, n) ELSE {n}, k + Cardinality(O) <= NodeBudget
    PROVE  /\ Cardinality(O) \in Nat
           /\ CopiesFit(t, n, deep, [m \in (k + 1)..(k + Cardinality(O)) |-> SetToSeq(O)[m - k]],
                        (k + 1)..(k + Cardinality(O)))
<1>1. t.parent \in [Nodes -> NodeOrNil] /\ NoRing(t) /\ NodeBudget \in Nat
  BY DomAssumption DEF Good, Links, Typed, DomAssumption
<1>2. O \in SUBSET Nodes
  BY <1>1, SubtreeProperties
<1>3. IsFiniteSet(O)
  BY <1>1, <1>2, FS_Interval, FS_Subset DEF Nodes
<1>4. PICK j \in Nat : j = Cardinality(O)
  BY <1>3, SeqOfSet
<1>5. PICK f \in [1..j -> O] : /\ f = SetToSeq(O)
                               /\ \A i, m \in 1..j : f[i] = f[m] => i = m
                               /\ \A x \in O : \E i \in 1..j : f[i] = x
  <2>1. /\ SetToSeq(O) \in [1..j -> O]
        /\ \A i, m \in 1..j : SetToSeq(O)[i] = SetToSeq(O)[m] => i = m
        /\ \A x \in O : \E i \in 1..j : SetToSeq(O)[i] = x
    BY <1>3, <1>4, SeqOfSet
  <2>2. PICK f : f = SetToSeq(O)
    OBVIOUS
  <2> QED  BY <2>1, <2>2
<1> DEFINE C == (k + 1)..(k + j)
           o == [m \in C |-> f[m - k]]
<1>6. C \subseteq Nodes
  BY <1>1, <1>4 DEF Nodes
<1>7. \A m \in C : m - k \in 1..j /\ m \notin 1..k
  OBVIOUS
<1>8. o \in [C -> Nodes]
  BY <1>2, <1>5, <1>7
<1>9. \A m, l \in C : o[m] = o[l] => m = l
  <2> SUFFICES ASSUME NEW m \in C, NEW l \in C, f[m - k] = f[l - k] PROVE m = l
    OBVIOUS
  <2>1. m - k = l - k
    BY <1>5, <1>7
  <2> QED  BY <2>1
<1>10. \A m \in C : t.parent[m] = Nil /\ t.kids[m] = <<>>
  BY <1>6, <1>7, FreshNode
<1>11. ASSUME NEW m \in Nodes
       PROVE  (\E l \in C : o[l] = m) <=> m \in O
  <2>1. ASSUME NEW l \in C, o[l] = m PROVE m \in O
    BY <1>5, <1>7, <2>1
  <2>2. ASSUME m \in O PROVE \E l \in C : o[l] = m
    <3>1. PICK i \in 1..j : f[i] = m
      BY <1>5, <2>2
    <3>2. k + i \in C /\ (k + i) - k = i
      OBVIOUS
    <3>3. o[k + i] = m
      BY <3>1, <3>2
    <3> QED  BY <3>2, <3>3
  <2> QED  BY <2>1, <2>2
<1>12. o = [m \in C |-> SetToSeq(O)[m - k]]
  BY <1>5
<1> HIDE DEF o, C
<1>13. CopiesFit(t, n, deep, o, C)
  BY <1>6, <1>8, <1>9, <1>10, <1>11 DEF CopiesFit
<1> QED  BY <1>4, <1>12, <1>13 DEF C

-----------------------------------------------------------------------------
(* The inductive invariant.                                                *)
DomInv ==
    /\ made \in 1..NodeBudget
    /\ Good(tree, made)

(* Nodes that have been created are nodes.                                 *)
LEMMA CreatedAreNodes ==
    ASSUME DomInv
    PROVE  /\ Created \subseteq Nodes /\ made \in Nat /\ NodeBudget \in Nat
           /\ Links(tree) /\ NoRing(tree) /\ tree.parent \in [Nodes -> NodeOrNil]
<1>1. made \in 1..NodeBudget /\ NodeBudget \in Nat
  BY DomAssumption DEF DomInv, DomAssumption
<1> QED  BY <1>1 DEF DomInv, Good, Links, Typed, Created, Nodes

(* The invariant holds of the document's root alone.                       *)
LEMMA InitGood == Init => DomInv
<1> SUFFICES ASSUME Init PROVE DomInv
  OBVIOUS
<1>1. /\ made = 1 /\ tree.parent = Unlinked /\ tree.first = Unlinked
      /\ tree.prev = Unlinked /\ tree.next = Unlinked
      /\ tree.kids = [n \in Nodes |-> <<>>]
  BY DEF Init
<1>2. /\ Unlinked \in [Nodes -> NodeOrNil] /\ \A n \in Nodes : Unlinked[n] = Nil
      /\ Nil \notin Nodes
  BY NilIsNoNode DEF Unlinked, NodeOrNil
<1>3. <<>> \in Seq(Nodes) /\ Len(<<>>) = 0
  OBVIOUS
<1>4. Typed(tree)
  BY <1>1, <1>2, <1>3 DEF Typed
<1>5. ASSUME NEW n \in Nodes
      PROVE  ListOf(tree, n, tree.kids[n]) /\ Detached(tree, n)
  <2>1. tree.kids[n] = <<>> /\ 1..0 = {}
    BY <1>1
  <2>2. Chained(tree.kids[n], tree.prev, tree.next) /\ Distinct(tree.kids[n])
        /\ \A c : ~Within(c, tree.kids[n])
    BY <1>3, <2>1 DEF Chained, Distinct, Within
  <2> QED  BY <1>1, <1>2, <1>3, <2>1, <2>2 DEF ListOf, Detached
<1>6. NoRing(tree)
  BY <1>1, <1>2 DEF NoRing
<1>7. Fresh(tree, made)
  BY <1>1, <1>2 DEF Fresh
<1>8. made \in 1..NodeBudget
  BY <1>1, DomAssumption DEF DomAssumption
<1> QED  BY <1>4, <1>5, <1>6, <1>7, <1>8 DEF DomInv, Good, Links

(* Appending changes the Parent of the new child alone.                    *)
LEMMA AppendParents ==
    ASSUME NEW t, t.parent \in [Nodes -> NodeOrNil], NEW n \in Nodes, NEW c \in Nodes,
           NEW d \in Nodes \ {c}
    PROVE  appendChildNode(t, n, c).parent[d] = t.parent[d]
  BY DEF appendChildNode, AppendUnchecked

(* Building one or two new nodes below n.                                  *)
LEMMA BuildGood ==
    ASSUME NEW t, NEW k \in Nat, Good(t, k), NEW n \in Nodes, n \in 1..k,
           NEW a \in Nodes, a = k + 1
    PROVE  /\ Good(appendChildNode(t, n, a), k + 1)
           /\ \A b \in Nodes : b = k + 2 =>
                /\ Good(appendChildNode(appendChildNode(t, a, b), n, a), k + 2)
                /\ Good(appendChildNode(appendChildNode(t, n, a), n, b), k + 2)
<1>1. Good(t, k + 1) /\ n \in 1..k + 1 /\ a \in 1..k + 1 /\ t.parent[a] = Nil
  BY FreshGrows, FreshNode
<1>2. Good(appendChildNode(t, n, a), k + 1)
  BY <1>1, AppendGood
<1>3. ASSUME NEW b \in Nodes, b = k + 2
      PROVE  /\ Good(appendChildNode(appendChildNode(t, a, b), n, a), k + 2)
             /\ Good(appendChildNode(appendChildNode(t, n, a), n, b), k + 2)
  <2>1. /\ n \in 1..k + 2 /\ a \in 1..k + 2 /\ b \in 1..k + 2 /\ b \notin 1..k + 1 /\ b # a
        /\ k + 1 \in Nat /\ k + 2 \in Nat /\ k + 1 <= k + 2 /\ k <= k + 2
    BY <1>3
  <2>2. Good(t, k + 2) /\ t.parent[b] = Nil /\ t.parent \in [Nodes -> NodeOrNil]
    <3>1. Good(t, k + 2)
      BY <2>1, FreshGrows
    <3>2. t.parent[b] = Nil
      BY <1>1, <2>1, FreshNode
    <3>3. t.parent \in [Nodes -> NodeOrNil]
      BY DEF Good, Links, Typed
    <3> QED  BY <3>1, <3>2, <3>3
  <2>3. PICK u : u = appendChildNode(t, a, b)
    OBVIOUS
  <2>4. Good(u, k + 2) /\ u.parent[a] = Nil
    BY <1>1, <2>1, <2>2, <2>3, AppendGood, AppendParents
  <2>5. PICK v : v = appendChildNode(t, n, a)
    OBVIOUS
  <2>6. Good(v, k + 2) /\ v.parent[b] = Nil
    BY <1>2, <2>1, <2>2, <2>5, FreshGrows, AppendParents
  <2>7. Good(appendChildNode(u, n, a), k + 2) /\ Good(appendChildNode(v, n, b), k + 2)
    BY <2>1, <2>4, <2>6, AppendGood
  <2> QED  BY <2>3, <2>5, <2>7
<1> QED  BY <1>2, <1>3

(* Each call keeps the invariant.                                          *)
LEMMA CallsAreGood == DomInv /\ [Next]_vars => DomInv'
<1> SUFFICES ASSUME DomInv, [Next]_vars PROVE DomInv'
  OBVIOUS
<1>c. /\ Created \subseteq Nodes /\ made \in Nat /\ NodeBudget \in Nat
      /\ Links(tree) /\ NoRing(tree) /\ tree.parent \in [Nodes -> NodeOrNil]
  BY CreatedAreNodes
<1>g. Good(tree, made) /\ made \in 1..NodeBudget /\ Created = 1..made
  BY DEF DomInv, Created
<1>1. CASE createElement
  <2>1. made' = made + 1 /\ made' \in 1..NodeBudget /\ tree' = tree
    BY <1>1, <1>c, <1>g DEF createElement
  <2> QED  BY <1>c, <1>g, <2>1, FreshGrows DEF DomInv
<1>2. ASSUME NEW n \in Created, NEW c \in Created, appendChild(n, c)
      PROVE  DomInv'
  <2>1. PICK t : t = LeaveParent(tree, c)
    OBVIOUS
  <2>2. Good(t, made) /\ t.parent[c] = Nil
    BY <1>c, <1>g, <2>1, LeaveGood
  <2>3. Good(appendChildNode(t, n, c), made)
    BY <1>c, <1>g, <2>2, AppendGood
  <2>4. tree' = appendChildNode(t, n, c) /\ made' = made
    BY <1>2, <2>1 DEF appendChild
  <2> QED  BY <1>g, <2>3, <2>4 DEF DomInv
<1>3. ASSUME NEW n \in Created, NEW c \in Created, removeChild(n, c)
      PROVE  DomInv'
  <2>1. Good(removeChildNode(tree, n, c), made)
    BY <1>c, <1>g, RemoveGood
  <2> QED  BY <1>3, <1>g, <2>1 DEF DomInv, removeChild
<1>4. ASSUME NEW n \in Created, NEW c \in Created, NEW ref \in Created \cup {Nil},
             insertBefore(n, c, ref)
      PROVE  DomInv'
  <2>1. PICK t : t = LeaveParent(tree, c)
    OBVIOUS
  <2>2. Good(t, made) /\ t.parent[c] = Nil /\ t.parent = [tree.parent EXCEPT ![c] = Nil]
    BY <1>c, <1>g, <2>1, LeaveGood
  <2>3. tree' = IF ref = Nil THEN appendChildNode(t, n, c) ELSE LinkBefore(t, n, c, ref)
    BY <1>4, <2>1 DEF insertBefore
  <2>4. c \notin Ancestry(tree, n) /\ made' = made
    BY <1>4 DEF insertBefore, WouldCreateCycle
  <2>5. t.parent \in [Nodes -> NodeOrNil] /\ \A d \in Nodes : t.parent[d] \in {tree.parent[d], Nil}
    BY <1>c, <2>2 DEF Good, Links, Typed
  <2>6. c \notin Ancestry(t, n)
    BY <1>c, <2>4, <2>5, FewerParents
  <2>7. Good(appendChildNode(t, n, c), made)
    BY <1>c, <1>g, <2>2, AppendGood
  <2>8. ref # Nil => Good(LinkBefore(t, n, c, ref), made)
    BY <1>c, <1>g, <2>2, <2>6, BeforeGood
  <2> QED  BY <1>g, <2>3, <2>4, <2>7, <2>8 DEF DomInv
<1>5. ASSUME NEW n \in Created, NEW c \in Created, NEW old \in Created, replaceChild(n, c, old)
      PROVE  DomInv'
  <2>1. PICK t : t = LeaveParent(tree, c)
    OBVIOUS
  <2>2. Good(t, made) /\ t.parent[c] = Nil /\ t.parent = [tree.parent EXCEPT ![c] = Nil]
    BY <1>c, <1>g, <2>1, LeaveGood
  <2>3. tree' = LinkInPlace(t, n, c, old) /\ made' = made /\ c \notin Ancestry(tree, n)
    BY <1>5, <2>1 DEF replaceChild, WouldCreateCycle
  <2>4. t.parent \in [Nodes -> NodeOrNil] /\ \A d \in Nodes : t.parent[d] \in {tree.parent[d], Nil}
    BY <1>c, <2>2 DEF Good, Links, Typed
  <2>5. c \notin Ancestry(t, n)
    BY <1>c, <2>3, <2>4, FewerParents
  <2>6. Good(LinkInPlace(t, n, c, old), made)
    BY <1>c, <1>g, <2>2, <2>5, InPlaceGood
  <2> QED  BY <1>g, <2>3, <2>6 DEF DomInv
<1>6. CASE CallThrows
  BY <1>6 DEF CallThrows, DomInv, vars
<1>7. ASSUME NEW n \in Created, setInnerHTML(n)
      PROVE  DomInv'
  <2>1. PICK t : t = DropChildren(tree, n)
    OBVIOUS
  <2>2. Good(t, made) /\ n \in Nodes /\ n \in 1..made
    BY <1>c, <1>g, <2>1, DropGood
  <2>3. PICK size \in 0..2, nested \in BOOLEAN :
           /\ made + size <= NodeBudget
           /\ made' = made + size
           /\ tree' = IF size = 0 THEN t
                      ELSE IF size = 1 THEN appendChildNode(t, n, made + 1)
                      ELSE IF nested THEN appendChildNode(appendChildNode(t, made + 1, made + 2), n, made + 1)
                      ELSE appendChildNode(appendChildNode(t, n, made + 1), n, made + 2)
    BY <1>7, <2>1 DEF setInnerHTML
  <2>4. made' \in 1..NodeBudget
    BY <1>c, <1>g, <2>3
  <2>5. CASE size = 0
    BY <1>c, <2>2, <2>3, <2>4, <2>5 DEF DomInv
  <2>6. CASE size = 1
    <3>1. made + 1 \in Nodes
      BY <1>c, <2>3, <2>6 DEF Nodes
    <3>2. Good(appendChildNode(t, n, made + 1), made + 1)
      BY <1>c, <2>2, <3>1, BuildGood
    <3> QED  BY <2>3, <2>4, <2>6, <3>2 DEF DomInv
  <2>7. CASE size = 2
    <3>1. made + 1 \in Nodes /\ made + 2 \in Nodes
      BY <1>c, <2>3, <2>7 DEF Nodes
    <3>2. /\ Good(appendChildNode(appendChildNode(t, made + 1, made + 2), n, made + 1), made + 2)
          /\ Good(appendChildNode(appendChildNode(t, n, made + 1), n, made + 2), made + 2)
      BY <1>c, <2>2, <3>1, BuildGood
    <3> QED  BY <2>3, <2>4, <2>7, <3>2 DEF DomInv
  <2> QED  BY <2>5, <2>6, <2>7
<1>8. ASSUME NEW n \in Created, setTextContent(n)
      PROVE  DomInv'
  <2>1. PICK t : t = DropChildren(tree, n)
    OBVIOUS
  <2>2. Good(t, made) /\ n \in Nodes /\ n \in 1..made
    BY <1>c, <1>g, <2>1, DropGood
  <2>3. made + 1 \in Nodes /\ made' = made + 1 /\ made' \in 1..NodeBudget
        /\ tree' = appendChildNode(t, n, made + 1)
    BY <1>8, <1>c, <1>g, <2>1 DEF setTextContent, Nodes
  <2>4. Good(appendChildNode(t, n, made + 1), made + 1)
    BY <1>c, <2>2, <2>3, BuildGood
  <2> QED  BY <2>3, <2>4 DEF DomInv
<1>9. ASSUME NEW n \in Created, NEW deep \in BOOLEAN, cloneNode(n, deep)
      PROVE  DomInv'
  <2>1. PICK O : O = IF deep THEN Subtree(tree, n) ELSE {n}
    OBVIOUS
  <2>2. PICK o : o = [m \in (made + 1)..(made + Cardinality(O)) |-> SetToSeq(O)[m - made]]
    OBVIOUS
  <2>3. /\ made + Cardinality(O) <= NodeBudget /\ made' = made + Cardinality(O)
        /\ tree' = WithCopies(tree, n, deep, o)
    BY <1>9, <2>1, <2>2 DEF cloneNode
  <2>4. n \in Nodes /\ n \in 1..made
    BY <1>c, <1>g
  <2>5. /\ Cardinality(O) \in Nat
        /\ CopiesFit(tree, n, deep, o, (made + 1)..(made + Cardinality(O)))
    BY <1>c, <1>g, <2>1, <2>2, <2>3, <2>4, ClonesFit
  <2>6. Good(WithCopies(tree, n, deep, o), made + Cardinality(O))
    BY <1>c, <1>g, <2>3, <2>4, <2>5, CopiesGood
  <2>7. made' \in 1..NodeBudget
    BY <1>c, <1>g, <2>3, <2>5
  <2> QED  BY <2>3, <2>6, <2>7 DEF DomInv
<1>10. CASE UNCHANGED vars
  BY <1>10 DEF DomInv, vars
<1> QED  BY <1>1, <1>2, <1>3, <1>4, <1>5, <1>6, <1>7, <1>8, <1>9, <1>10 DEF Next

-----------------------------------------------------------------------------
(* The invariant holds of every state.                                     *)
THEOREM DomInvariant == Spec => []DomInv
  BY InitGood, CallsAreGood, PTL DEF Spec

(* The invariant gives the agreement of the three encodings.               *)
LEMMA LinksAgreeFollows == DomInv => LinksAgree
<1> SUFFICES ASSUME DomInv PROVE LinksAgree
  OBVIOUS
<1>1. Links(tree) /\ Fresh(tree, made) /\ Typed(tree) /\ made \in 1..NodeBudget
  BY DEF DomInv, Good, Links
<1>2. TypeOK
  <2>1. /\ tree.parent \in [Nodes -> NodeOrNil] /\ tree.first \in [Nodes -> NodeOrNil]
        /\ tree.prev \in [Nodes -> NodeOrNil] /\ tree.next \in [Nodes -> NodeOrNil]
        /\ tree.kids \in [Nodes -> Seq(Nodes)]
    BY <1>1 DEF Typed
  <2>2. \A n \in Nodes : tree.parent[n] # Nil => n \in Created
    BY <1>1 DEF Fresh, Created
  <2> QED  BY <1>1, <2>1, <2>2 DEF TypeOK
<1>3. ASSUME NEW n \in Nodes, NEW s, s = tree.kids[n]
      PROVE  /\ IsInjective(s)
             /\ \A c \in Nodes : tree.parent[c] = n <=> c \in ToSet(s)
             /\ tree.first[n] = HeadOrNil(s)
             /\ \A i \in 1..Len(s) :
                  /\ tree.prev[s[i]] = IF i = 1 THEN Nil ELSE s[i - 1]
                  /\ tree.next[s[i]] = IF i = Len(s) THEN Nil ELSE s[i + 1]
             /\ tree.parent[n] = Nil => tree.prev[n] = Nil /\ tree.next[n] = Nil
  <2>1. s \in Seq(Nodes) /\ ListOf(tree, n, s) /\ Detached(tree, n)
    BY <1>1, <1>3 DEF Links, Typed
  <2>2. DOMAIN s = 1..Len(s) /\ (s = <<>> <=> Len(s) = 0)
    BY <2>1, ListProperties
  <2>3. IsInjective(s)
    BY <2>1, <2>2 DEF ListOf, Distinct, IsInjective
  <2>4. \A c \in Nodes : tree.parent[c] = n <=> c \in ToSet(s)
    BY <2>1, <2>2 DEF ListOf, Within, ToSet
  <2>5. tree.first[n] = HeadOrNil(s)
    BY <2>1, <2>2 DEF ListOf, HeadOrNil
  <2> QED  BY <2>1, <2>3, <2>4, <2>5 DEF ListOf, Chained, Detached
<1> QED  BY <1>2, <1>3 DEF LinksAgree

(* Parent, the Children slices and the sibling links agree after every     *)
(* call, for any number of nodes.                                          *)
THEOREM EncodingsAgree == Spec => []LinksAgree
  BY DomInvariant, LinksAgreeFollows, PTL

(* No sequence of calls closes a ring of parents, so that every walk up    *)
(* the tree ends.                                                          *)
THEOREM WalksEnd == Spec => []Acyclic
<1>1. DomInv => Acyclic
  <2> SUFFICES ASSUME DomInv, NEW n \in Nodes, NEW a \in Ancestry(tree, n)
               PROVE  n # tree.parent[a]
    BY DEF Acyclic
  <2>1. tree.parent \in [Nodes -> NodeOrNil] /\ NoRing(tree)
    BY CreatedAreNodes
  <2> QED  BY <2>1, NoRingAcyclic
<1> QED  BY <1>1, DomInvariant, PTL

-----------------------------------------------------------------------------
(* The calls as moves of whole subtrees.                                   *)

(* The list s without c.                                                   *)
Without(s, c) == IF Contains(s, c) THEN RemoveAt(s, Place(s, c)) ELSE s

(* The child lists of t without c.                                         *)
PrunedKids(t, c) == [n \in Nodes |-> Without(t.kids[n], c)]

(* A set that holds the children of c and of its own nodes.                *)
Below(t, c, S) ==
    ToSet(t.kids[c]) \subseteq S /\ \A m \in S : ToSet(t.kids[m]) \subseteq S

(* The children of a node are those that have it as Parent.                *)
LEMMA ChildrenByParent ==
    ASSUME NEW t, Links(t), NEW n \in Nodes
    PROVE  /\ ToSet(t.kids[n]) \subseteq Nodes
           /\ \A d \in Nodes : d \in ToSet(t.kids[n]) <=> t.parent[d] = n
           /\ t.kids[n] \in Seq(Nodes)
<1>1. t.kids[n] \in Seq(Nodes) /\ \A c \in Nodes : t.parent[c] = n <=> Within(c, t.kids[n])
  BY LinksProperties
<1>2. DOMAIN t.kids[n] = 1..Len(t.kids[n]) /\ \A i \in 1..Len(t.kids[n]) : t.kids[n][i] \in Nodes
  BY <1>1, ListProperties
<1> QED  BY <1>1, <1>2 DEF ToSet, Within

(* No node is below itself.                                                *)
LEMMA NotBelowItself ==
    ASSUME NEW t, Links(t), NoRing(t), NEW c \in Nodes
    PROVE  \E S \in SUBSET Nodes : Below(t, c, S) /\ c \notin S
<1> DEFINE S == Subtree(t, c) \ {c}
<1>1. t.parent \in [Nodes -> NodeOrNil]
  BY LinksProperties
<1>2. /\ c \in Subtree(t, c) /\ Subtree(t, c) \subseteq Nodes
      /\ \A d \in Nodes : t.parent[d] \in Subtree(t, c) => d \in Subtree(t, c) /\ d # c
  BY <1>1, SubtreeProperties
<1>3. \A m \in Subtree(t, c) : ToSet(t.kids[m]) \subseteq S
  <2> SUFFICES ASSUME NEW m \in Subtree(t, c), NEW d \in ToSet(t.kids[m]) PROVE d \in S
    OBVIOUS
  <2>1. d \in Nodes /\ t.parent[d] = m
    BY <1>2, ChildrenByParent
  <2> QED  BY <1>2, <2>1
<1> QED  BY <1>2, <1>3 DEF Below

(* Leaving the parent takes a node out of the one list that has it.        *)
LEMMA LeaveKids ==
    ASSUME NEW t, Links(t), NEW c \in Nodes
    PROVE  LeaveParent(t, c).kids = PrunedKids(t, c)
<1>1. t.parent \in [Nodes -> NodeOrNil] /\ t.kids \in [Nodes -> Seq(Nodes)]
  BY LinksProperties
<1>2. \A m \in Nodes : Contains(t.kids[m], c) <=> t.parent[c] = m
  BY ListedChild
<1>3. CASE t.parent[c] = Nil
  <2>1. \A m \in Nodes : Without(t.kids[m], c) = t.kids[m]
    BY <1>2, <1>3, NilIsNoNode DEF Without
  <2> QED  BY <1>1, <1>3, <2>1 DEF LeaveParent, PrunedKids
<1>4. CASE t.parent[c] # Nil
  <2>1. PICK p \in Nodes : p = t.parent[c]
    BY <1>1, <1>4 DEF NodeOrNil
  <2>2. LeaveParent(t, c).kids = [t.kids EXCEPT ![p] = RemoveAt(t.kids[p], Place(t.kids[p], c))]
    BY <1>2, <1>4, <2>1 DEF LeaveParent, removeChildNode
  <2>3. \A m \in Nodes : Without(t.kids[m], c) =
           IF m = p THEN RemoveAt(t.kids[p], Place(t.kids[p], c)) ELSE t.kids[m]
    BY <1>2, <2>1 DEF Without
  <2> QED  BY <1>1, <2>2, <2>3 DEF PrunedKids
<1> QED  BY <1>3, <1>4

(* Nothing to prune of a node that is in no list.                          *)
LEMMA PrunedAlone ==
    ASSUME NEW t, Links(t), NEW c \in Nodes, t.parent[c] = Nil
    PROVE  PrunedKids(t, c) = t.kids
<1>1. t.kids \in [Nodes -> Seq(Nodes)]
  BY LinksProperties
<1>2. \A m \in Nodes : ~Contains(t.kids[m], c)
  BY ListedChild, NilIsNoNode
<1> QED  BY <1>1, <1>2 DEF PrunedKids, Without

(* Pruning undoes an insertion.                                            *)
LEMMA PrunedInserted ==
    ASSUME NEW t, Links(t), NEW c \in Nodes, t.parent[c] = Nil, NEW n \in Nodes, NEW q,
           NEW i \in 1..Len(t.kids[n]) + 1, Inserted(q, t.kids[n], i, c),
           NEW r, r.kids = [t.kids EXCEPT ![n] = q]
    PROVE  PrunedKids(r, c) = t.kids /\ Len(q) = Len(t.kids[n]) + 1
<1>1. t.kids \in [Nodes -> Seq(Nodes)]
  BY LinksProperties
<1>2. \A m \in Nodes : ~Contains(t.kids[m], c)
  BY ListedChild, NilIsNoNode
<1>3. PICK s \in Seq(Nodes) : s = t.kids[n]
  BY <1>1
<1>4. PICK L \in Nat : L = Len(s) /\ i \in 1..L + 1
  BY <1>3, ListProperties
<1>5. /\ q \in Seq(Nodes) /\ Len(q) = L + 1 /\ q[i] = c
      /\ \A j \in 1..L + 1 : (j < i => q[j] = s[j]) /\ (j > i => q[j] = s[j - 1])
  BY <1>3, <1>4 DEF Inserted
<1>6. \A j \in 1..L : s[j] # c
  BY <1>2, <1>3, <1>4 DEF Contains
<1>7. \A j \in 1..L + 1 : q[j] = c => j = i
  <2> SUFFICES ASSUME NEW j \in 1..L + 1, q[j] = c, j # i PROVE FALSE
    OBVIOUS
  <2>1. CASE j < i
    BY <1>4, <1>5, <1>6, <2>1
  <2>2. CASE j > i
    <3>1. j - 1 \in 1..L /\ q[j] = s[j - 1]
      BY <1>4, <1>5, <2>2
    <3> QED  BY <1>6, <3>1
  <2> QED  BY <1>4, <2>1, <2>2
<1>8. Contains(q, c)
  BY <1>4, <1>5 DEF Contains
<1>9. Place(q, c) = i
  BY <1>4, <1>5, <1>7, <1>8, PlaceProperties
<1>10. /\ RemoveAt(q, i) \in Seq(Nodes) /\ Len(RemoveAt(q, i)) = L
       /\ \A j \in 1..L : RemoveAt(q, i)[j] = IF j < i THEN q[j] ELSE q[j + 1]
  <2>1. i \in 1..Len(q) /\ Len(q) - 1 = L
    BY <1>4, <1>5
  <2>2. /\ RemoveAt(q, i) \in Seq(Nodes) /\ Len(RemoveAt(q, i)) = Len(q) - 1
        /\ \A j \in 1..Len(q) - 1 : RemoveAt(q, i)[j] = IF j < i THEN q[j] ELSE q[j + 1]
    <3>1. q \in Seq(Nodes) /\ i \in 1..Len(q)
      BY <1>5, <2>1
    <3> QED  BY <3>1, RemoveAtProperties
  <2> QED  BY <2>1, <2>2
<1>11. \A j \in 1..L : RemoveAt(q, i)[j] = s[j]
  <2> SUFFICES ASSUME NEW j \in 1..L PROVE RemoveAt(q, i)[j] = s[j]
    OBVIOUS
  <2>1. CASE j < i
    BY <1>4, <1>5, <1>10, <2>1
  <2>2. CASE ~(j < i)
    <3>1. PICK h \in 1..L + 1 : h = j + 1
      OBVIOUS
    <3>2. h > i /\ h - 1 = j
      BY <1>4, <2>2, <3>1
    <3> QED  BY <1>5, <1>10, <2>2, <3>1, <3>2
  <2> QED  BY <2>1, <2>2
<1>12. RemoveAt(q, i) = s
  BY <1>3, <1>4, <1>10, <1>11, SeqEqual
<1>13. Without(q, c) = s
  BY <1>8, <1>9, <1>12 DEF Without
<1>14. ASSUME NEW m \in Nodes
       PROVE  Without(r.kids[m], c) = t.kids[m]
  <2>1. CASE m = n
    BY <1>1, <1>3, <1>13, <2>1
  <2>2. CASE m # n
    BY <1>1, <1>2, <2>2 DEF Without
  <2> QED  BY <2>1, <2>2
<1>15. PrunedKids(r, c) = t.kids
  BY <1>1, <1>14 DEF PrunedKids
<1> QED  BY <1>3, <1>4, <1>5, <1>15

(* The tree that a step leads to is a forest as well.                      *)
LEMMA PlacesAfterStep ==
    ASSUME Links(tree'), NoRing(tree'), NEW c \in Nodes
    PROVE  Forest!OneParent(c)' /\ ~Forest!InOwnSubtree(c)'
<1>1. \A m \in Nodes : c \in ToSet(tree'.kids[m]) => tree'.parent[c] = m
  BY ChildrenByParent
<1>2. Forest!OneParent(c)'
  BY <1>1 DEF Forest!OneParent, Forest!Children, Forest!ToSet, ToSet
<1>3. PICK S \in SUBSET Nodes : Below(tree', c, S) /\ c \notin S
  BY NotBelowItself
<1>4. ~Forest!InOwnSubtree(c)'
  BY <1>3 DEF Below, Forest!InOwnSubtree, Forest!Children, Forest!ToSet, ToSet
<1> QED  BY <1>2, <1>4

(* What is pruned is the same in both modules.                             *)
LEMMA ForestPruned ==
    ASSUME NEW c
    PROVE  Forest!Pruned(c) = PrunedKids(tree, c) /\ Forest!Pruned(c)' = PrunedKids(tree', c)
  BY DEF Forest!Pruned, Forest!Without, Forest!Contains, Forest!RemoveAt,
         PrunedKids, Without, Place, Contains, RemoveAt

(* A step that prunes and inserts a node moves it.                         *)
LEMMA MoveStep ==
    ASSUME Links(tree'), NoRing(tree'), NEW c \in Nodes,
           PrunedKids(tree', c) = PrunedKids(tree, c),
           \A n \in Nodes : Len(tree'.kids[n]) <= Len(PrunedKids(tree, c)[n]) + 1
    PROVE  Forest!Move(c)
<1>1. Forest!OneParent(c)' /\ ~Forest!InOwnSubtree(c)'
  BY PlacesAfterStep
<1>2. Forest!Pruned(c) = PrunedKids(tree, c) /\ Forest!Pruned(c)' = PrunedKids(tree', c)
  BY ForestPruned
<1>3. \A n \in Nodes : Len(tree.kids[n])' <= Len(Forest!Pruned(c)[n]) + 1
  BY <1>2
<1> QED  BY <1>1, <1>2, <1>3 DEF Forest!Move

(* A node that left its parent has moved.                                  *)
LEMMA PruneStep ==
    ASSUME Links(tree), Links(tree'), NoRing(tree'), NEW c \in Nodes,
           tree'.parent[c] = Nil, tree'.kids = PrunedKids(tree, c)
    PROVE  Forest!Move(c)
<1>1. PrunedKids(tree', c) = PrunedKids(tree, c)
  BY PrunedAlone
<1>2. \A n \in Nodes : Len(tree'.kids[n]) \in Nat
  BY LinksProperties
<1>3. \A n \in Nodes : Len(tree'.kids[n]) <= Len(PrunedKids(tree, c)[n]) + 1
  BY <1>2
<1> QED  BY <1>1, <1>3, MoveStep

(* A node that left its parent and was inserted in a list has moved.       *)
LEMMA InsertStep ==
    ASSUME Links(tree), Links(tree'), NoRing(tree'), NEW c \in Nodes, NEW n \in Nodes,
           NEW u, Links(u), u.parent[c] = Nil, u.kids = PrunedKids(tree, c),
           NEW q, NEW i \in 1..Len(u.kids[n]) + 1, Inserted(q, u.kids[n], i, c),
           tree'.kids = [u.kids EXCEPT ![n] = q]
    PROVE  Forest!Move(c)
<1>1. PrunedKids(tree', c) = u.kids /\ Len(q) = Len(u.kids[n]) + 1
  <2>1. PICK r : r = tree'
    OBVIOUS
  <2>2. r.kids = [u.kids EXCEPT ![n] = q]
    BY <2>1
  <2>3. PrunedKids(r, c) = u.kids /\ Len(q) = Len(u.kids[n]) + 1
    BY <2>2, PrunedInserted
  <2> QED  BY <2>1, <2>3
<1>2. \A m \in Nodes : Len(u.kids[m]) \in Nat /\ u.kids \in [Nodes -> Seq(Nodes)]
  BY LinksProperties
<1>3. ASSUME NEW m \in Nodes
      PROVE  Len(tree'.kids[m]) <= Len(PrunedKids(tree, c)[m]) + 1
  <2>1. CASE m = n
    BY <1>1, <1>2, <2>1
  <2>2. CASE m # n
    <3>1. tree'.kids[m] = u.kids[m]
      BY <1>2, <2>2
    <3> QED  BY <1>2, <3>1
  <2> QED  BY <2>1, <2>2
<1> QED  BY <1>1, <1>3, MoveStep

(* Inserting and appending, element by element.                            *)
LEMMA InsertedHere ==
    ASSUME NEW s \in Seq(Nodes), NEW c \in Nodes
    PROVE  /\ Len(s) + 1 \in 1..Len(s) + 1 /\ Inserted(Append(s, c), s, Len(s) + 1, c)
           /\ \A i \in 1..Len(s) : i \in 1..Len(s) + 1 /\ Inserted(InsertAt(s, i, c), s, i, c)
<1>1. PICK L \in Nat : L = Len(s)
  BY ListProperties
<1>2. Inserted(Append(s, c), s, L + 1, c)
  BY <1>1, AppendProperties DEF Inserted
<1>3. ASSUME NEW i \in 1..L
      PROVE  i \in 1..Len(s) + 1 /\ Inserted(InsertAt(s, i, c), s, i, c)
  <2>1. i \in 1..Len(s) + 1
    BY <1>1
  <2> QED  BY <2>1, InsertAtProperties DEF Inserted, InsertAtElements
<1> QED  BY <1>1, <1>2, <1>3

(* The lists after appendChildNode.                                        *)
ParentsWith(t, c, n) == [t.parent EXCEPT ![c] = n]

LEMMA AppendKids ==
    ASSUME NEW t, Links(t), NEW n \in Nodes, NEW c \in Nodes
    PROVE  /\ WouldCreateCycle(t, n, c) => appendChildNode(t, n, c) = t
           /\ ~WouldCreateCycle(t, n, c) =>
                 /\ appendChildNode(t, n, c).parent = ParentsWith(t, c, n)
                 /\ appendChildNode(t, n, c).kids = ListsWith(t, n, Append(t.kids[n], c))
  BY DEF appendChildNode, AppendUnchecked, ListsWith, ParentsWith

(* appendChildNode of a node that has just left its parent.                *)
LEMMA AppendStep ==
    ASSUME Links(tree), Links(tree'), NoRing(tree'), NEW c \in Nodes, NEW n \in Nodes,
           NEW u, Links(u), u.parent[c] = Nil, u.kids = PrunedKids(tree, c),
           tree' = appendChildNode(u, n, c)
    PROVE  Forest!Move(c)
<1>1. CASE WouldCreateCycle(u, n, c)
  <2>1. tree' = u
    BY <1>1, AppendKids
  <2> QED  BY <2>1, PruneStep
<1>2. CASE ~WouldCreateCycle(u, n, c)
  <2>1. PICK s \in Seq(Nodes) : s = u.kids[n]
    BY LinksProperties
  <2>2. PICK q : q = Append(s, c)
    OBVIOUS
  <2>3. tree'.kids = [u.kids EXCEPT ![n] = q]
    <3>1. /\ appendChildNode(u, n, c).parent = ParentsWith(u, c, n)
          /\ appendChildNode(u, n, c).kids = ListsWith(u, n, Append(u.kids[n], c))
      BY <1>2, AppendKids
    <3> QED  BY <2>1, <2>2, <3>1 DEF ListsWith
  <2>4. PICK i \in 1..Len(s) + 1 : Inserted(q, s, i, c)
    BY <2>2, InsertedHere
  <2> QED  BY <2>1, <2>3, <2>4, InsertStep
<1> QED  BY <1>1, <1>2

(* LinkBefore of a node that has just left its parent.                     *)
LEMMA BeforeStep ==
    ASSUME Links(tree), Links(tree'), NoRing(tree'),
           NEW c \in Nodes, NEW n \in Nodes, NEW ref \in Nodes,
           NEW u, Links(u), u.parent[c] = Nil, u.kids = PrunedKids(tree, c),
           tree' = LinkBefore(u, n, c, ref)
    PROVE  Forest!Move(c)
<1>1. CASE ~Contains(u.kids[n], ref)
  <2>1. tree' = u
    BY <1>1 DEF LinkBefore
  <2> QED  BY <2>1, PruneStep
<1>2. CASE Contains(u.kids[n], ref)
  <2>1. PICK s \in Seq(Nodes) : s = u.kids[n]
    BY LinksProperties
  <2>2. PICK i \in 1..Len(s) : i = Place(s, ref)
    BY <1>2, <2>1, PlaceProperties
  <2>3. PICK q : q = InsertAt(s, i, c)
    OBVIOUS
  <2>4. tree'.kids = [u.kids EXCEPT ![n] = q]
    <3>1. LinkBefore(u, n, c, ref).kids =
             ListsWith(u, n, InsertAt(u.kids[n], Place(u.kids[n], ref), c))
      BY <1>2 DEF LinkBefore, ListsWith
    <3> QED  BY <2>1, <2>2, <2>3, <3>1 DEF ListsWith
  <2>5. i \in 1..Len(s) + 1 /\ Inserted(q, s, i, c)
    BY <2>3, InsertedHere
  <2> QED  BY <2>1, <2>4, <2>5, InsertStep
<1> QED  BY <1>1, <1>2

(* Replacing the only occurrence of an element.                            *)
LEMMA ReplacedOnce ==
    ASSUME NEW s \in Seq(Nodes), Distinct(s), NEW old, NEW c \in Nodes
    PROVE  /\ ~Contains(s, old) => ReplaceAll(s, old, c) = s
           /\ \A i \in 1..Len(s) : s[i] = old => ReplaceAll(s, old, c) = ReplaceAt(s, i, c)
<1>1. PICK L \in Nat : L = Len(s) /\ DOMAIN s = 1..L /\ \A i \in 1..L : s[i] \in Nodes
  BY ListProperties
<1> DEFINE r == [i \in 1..L |-> IF s[i] = old THEN c ELSE s[i]]
<1>2. r \in [1..L -> Nodes]
  BY <1>1
<1>3. r \in Seq(Nodes) /\ Len(r) = L /\ ReplaceAll(s, old, c) = r
  BY <1>1, <1>2 DEF ReplaceAll
<1>4. ASSUME ~Contains(s, old) PROVE r = s
  <2>1. \A i \in 1..L : r[i] = s[i]
    BY <1>1, <1>4 DEF Contains
  <2> HIDE DEF r
  <2> QED  BY <1>1, <1>3, <2>1, SeqEqual
<1>5. ASSUME NEW i \in 1..L, s[i] = old PROVE r = ReplaceAt(s, i, c)
  <2>1. \A j \in 1..L : r[j] = IF j = i THEN c ELSE s[j]
    BY <1>1, <1>5 DEF Distinct
  <2>2. [s EXCEPT ![i] = c] = [j \in 1..L |-> IF j = i THEN c ELSE s[j]]
    BY <1>1
  <2> QED  BY <2>1, <2>2 DEF ReplaceAt
<1> QED  BY <1>1, <1>3, <1>4, <1>5

(* LinkInPlace of a node that has just left its parent.                    *)
LEMMA InPlaceStep ==
    ASSUME Links(tree), Links(tree'), NoRing(tree'),
           NEW c \in Nodes, NEW n \in Nodes, NEW old \in Nodes,
           NEW u, Links(u), u.parent[c] = Nil, u.kids = PrunedKids(tree, c),
           tree' = LinkInPlace(u, n, c, old)
    PROVE  Forest!Move(c) \/ Forest!Replace(c, old)
<1>1. CASE ~Contains(u.kids[n], old)
  <2>1. tree' = u
    BY <1>1 DEF LinkInPlace
  <2> QED  BY <2>1, PruneStep
<1>2. CASE Contains(u.kids[n], old)
  <2>1. u.kids \in [Nodes -> Seq(Nodes)] /\ \A m \in Nodes : Distinct(u.kids[m])
    BY LinksProperties
  <2>2. \A m \in Nodes : Contains(u.kids[m], old) <=> m = n
    BY <1>2, ListedChild
  <2>3. c # old
    <3>1. u.parent[old] = n /\ n # Nil
      BY <1>2, ListedChild, NilIsNoNode
    <3> QED  BY <3>1
  <2>4. PICK i \in 1..Len(u.kids[n]) : /\ u.kids[n][i] = old
                                       /\ tree'.kids = [u.kids EXCEPT ![n] = ReplaceAt(u.kids[n], i, c)]
    <3>1. LinkInPlace(u, n, c, old).kids =
             ListsWith(u, n, ReplaceAt(u.kids[n], Place(u.kids[n], old), c))
      BY <1>2 DEF LinkInPlace, ListsWith
    <3>2. PICK i : i = Place(u.kids[n], old)
      OBVIOUS
    <3>3. i \in 1..Len(u.kids[n]) /\ u.kids[n][i] = old
      BY <1>2, <2>1, <3>2, PlaceProperties
    <3> QED  BY <3>1, <3>2, <3>3 DEF ListsWith
  <2>5. \A m \in Nodes : ReplaceAll(u.kids[m], old, c) =
                            IF m = n THEN ReplaceAt(u.kids[n], i, c) ELSE u.kids[m]
    BY <2>1, <2>2, <2>4, ReplacedOnce
  <2>6. tree'.kids = [m \in Nodes |-> ReplaceAll(u.kids[m], old, c)]
    BY <2>1, <2>4, <2>5
  <2>7. ~Forest!InOwnSubtree(c)'
    BY PlacesAfterStep
  <2>8. Forest!Pruned(c) = u.kids
    BY ForestPruned
  <2> QED  BY <2>3, <2>6, <2>7, <2>8 DEF Forest!Replace, Forest!ReplaceAll, ReplaceAll
<1> QED  BY <1>1, <1>2

(* A step that gives n and the nodes of N, which were alone, children      *)
(* among N builds a tree below n.                                          *)
LEMMA BuildStep ==
    ASSUME Links(tree), Links(tree'), NoRing(tree'), NEW n \in Nodes, NEW N \in SUBSET Nodes,
           \A d \in N : /\ tree.parent[d] = Nil /\ tree.kids[d] = <<>>
                        /\ tree'.parent[d] \in N \cup {n},
           n \notin N,
           \A d \in Nodes \ N : /\ tree'.parent[d] \in {tree.parent[d], Nil}
                                /\ tree'.parent[d] \notin N \cup {n},
           \A m \in Nodes \ (N \cup {n}) : tree'.kids[m] = tree.kids[m]
    PROVE  Forest!Build(n)
<1>1. \A m, d \in Nodes : d \in ToSet(tree.kids[m]) <=> tree.parent[d] = m
  BY ChildrenByParent
<1>2. \A m, d \in Nodes : d \in ToSet(tree'.kids[m]) <=> tree'.parent[d] = m
  BY ChildrenByParent
<1>3. \A m \in Nodes : ToSet(tree'.kids[m]) \subseteq Nodes
  BY ChildrenByParent
<1>n. Nil \notin Nodes
  BY NilIsNoNode
<1>4. /\ \A m \in Nodes : Forest!Children(m) = ToSet(tree.kids[m])
      /\ \A m \in Nodes : Forest!Children(m)' = ToSet(tree'.kids[m])
  BY DEF Forest!Children, Forest!ToSet, ToSet
<1>5. ASSUME NEW m \in Nodes
      PROVE  m \in N <=> Forest!Unused(m) /\ \E p \in Nodes : m \in Forest!Children(p)'
  <2>1. Forest!Unused(m) <=> tree.kids[m] = <<>> /\ tree.parent[m] = Nil
    <3>1. Forest!Unused(m) <=> tree.kids[m] = <<>> /\ \A p \in Nodes : tree.parent[m] # p
      BY <1>1, <1>4 DEF Forest!Unused
    <3>2. tree.parent[m] \in Nodes \cup {Nil}
      BY LinksProperties DEF NodeOrNil
    <3> QED  BY <1>n, <3>1, <3>2
  <2>2. (\E p \in Nodes : m \in Forest!Children(p)') <=> \E p \in Nodes : tree'.parent[m] = p
    BY <1>2, <1>4
  <2>3. CASE m \in N
    BY <2>1, <2>2, <2>3
  <2>4. CASE m \notin N
    BY <1>n, <2>1, <2>2, <2>4
  <2> QED  BY <2>3, <2>4
<1>6. PICK new : new = {m \in Nodes : Forest!Unused(m) /\ \E p \in Nodes : m \in Forest!Children(p)'}
  OBVIOUS
<1>7. new = N
  BY <1>5, <1>6
<1>8. \A m \in N \cup {n} : Forest!Children(m)' \subseteq N \ {n}
  BY <1>2, <1>3, <1>4
<1>9. \A m \in N : Forest!OneParent(m)' /\ ~Forest!InOwnSubtree(m)'
  BY PlacesAfterStep
<1>10. \A m \in Nodes \ (new \cup {n}) : tree.kids[m]' = tree.kids[m]
  BY <1>7
<1> QED  BY <1>6, <1>7, <1>8, <1>9, <1>10 DEF Forest!Build

(* Giving up children, and building at most two new nodes in their place.  *)
LEMMA FragmentStep ==
    ASSUME DomInv, DomInv', NEW n \in Created, NEW t, t = DropChildren(tree, n),
           \/ tree' = t
           \/ made + 1 \in Nodes /\ tree' = appendChildNode(t, n, made + 1)
           \/ /\ made + 2 \in Nodes
              /\ \/ tree' = appendChildNode(appendChildNode(t, made + 1, made + 2), n, made + 1)
                 \/ tree' = appendChildNode(appendChildNode(t, n, made + 1), n, made + 2)
    PROVE  Forest!Build(n)
<1>1. /\ Created \subseteq Nodes /\ made \in Nat /\ Created = 1..made
      /\ Links(tree) /\ Good(tree, made) /\ tree.parent \in [Nodes -> NodeOrNil]
      /\ Links(tree') /\ NoRing(tree') /\ n \in Nodes /\ Nil \notin Nodes
  BY CreatedAreNodes, NilIsNoNode DEF DomInv, Good, Created
<1>2. /\ Good(t, made) /\ Links(t) /\ t.parent \in [Nodes -> NodeOrNil]
      /\ t.kids \in [Nodes -> Seq(Nodes)]
  BY <1>1, DropGood, LinksProperties DEF Good
<1>3. /\ \A d \in Nodes : t.parent[d] = IF tree.parent[d] = n THEN Nil ELSE tree.parent[d]
      /\ t.kids = [tree.kids EXCEPT ![n] = <<>>]
  BY <1>1, DropLinks
<1>4. /\ \A d \in Nodes : t.parent[d] \in {tree.parent[d], Nil} /\ t.parent[d] # n
      /\ \A m \in Nodes \ {n} : t.kids[m] = tree.kids[m]
  BY <1>1, <1>3
<1>5. \A a \in Nodes : a \notin 1..made =>
        /\ tree.parent[a] = Nil /\ tree.kids[a] = <<>> /\ t.parent[a] = Nil /\ a # n
        /\ \A m \in Nodes \ {a} : a \notin Ancestry(t, m)
        /\ \A d \in Nodes : t.parent[d] # a
  <2> SUFFICES ASSUME NEW a \in Nodes, a \notin 1..made
               PROVE  /\ tree.parent[a] = Nil /\ tree.kids[a] = <<>> /\ t.parent[a] = Nil /\ a # n
                      /\ \A m \in Nodes \ {a} : a \notin Ancestry(t, m)
                      /\ \A d \in Nodes : t.parent[d] # a
    OBVIOUS
  <2>1. /\ tree.parent[a] = Nil /\ tree.kids[a] = <<>> /\ t.parent[a] = Nil /\ a # n
        /\ \A m \in Nodes \ {a} : a \notin Ancestry(t, m)
    BY <1>1, <1>2, FreshNode
  <2>2. \A d \in Nodes : t.parent[d] # a
    BY <1>1, <1>2 DEF Good, Fresh
  <2> QED  BY <2>1, <2>2
<1>6. CASE tree' = t
  <2>1. {} \in SUBSET Nodes
    OBVIOUS
  <2>2. \A d \in Nodes : tree'.parent[d] \in {tree.parent[d], Nil} /\ tree'.parent[d] # n
    BY <1>4, <1>6
  <2>3. \A m \in Nodes \ {n} : tree'.kids[m] = tree.kids[m]
    BY <1>4, <1>6
  <2>4. PICK N \in SUBSET Nodes : N = {}
    OBVIOUS
  <2> QED  BY <1>1, <2>2, <2>3, <2>4, BuildStep
<1>7. ASSUME made + 1 \in Nodes, tree' = appendChildNode(t, n, made + 1)
      PROVE  Forest!Build(n)
  <2>1. PICK a \in Nodes : a = made + 1
    BY <1>7
  <2>2. a \notin 1..made
    BY <1>1, <2>1
  <2>3. /\ tree'.parent = ParentsWith(t, a, n)
        /\ tree'.kids = ListsWith(t, n, Append(t.kids[n], a))
    <3>1. ~WouldCreateCycle(t, n, a)
      BY <1>1, <1>5, <2>2 DEF WouldCreateCycle
    <3>2. tree' = appendChildNode(t, n, a)
      BY <1>7, <2>1
    <3> QED  BY <1>1, <1>2, <3>1, <3>2, AppendKids
  <2>4. PICK N \in SUBSET Nodes : N = {a}
    OBVIOUS
  <2>5. \A d \in N : /\ tree.parent[d] = Nil /\ tree.kids[d] = <<>>
                     /\ tree'.parent[d] \in N \cup {n}
    BY <1>1, <1>2, <1>5, <2>2, <2>3, <2>4 DEF ParentsWith
  <2>6. \A d \in Nodes \ N : /\ tree'.parent[d] \in {tree.parent[d], Nil}
                             /\ tree'.parent[d] \notin N \cup {n}
    BY <1>2, <1>4, <1>5, <2>2, <2>3, <2>4 DEF ParentsWith
  <2>7. \A m \in Nodes \ (N \cup {n}) : tree'.kids[m] = tree.kids[m]
    BY <1>2, <1>4, <2>3 DEF ListsWith
  <2>8. n \notin N
    BY <1>5, <2>2, <2>4
  <2> QED  BY <1>1, <2>5, <2>6, <2>7, <2>8, BuildStep
<1>8. ASSUME NEW a \in Nodes, NEW b \in Nodes, a = made + 1, b = made + 2,
             tree' = appendChildNode(appendChildNode(t, a, b), n, a)
      PROVE  Forest!Build(n)
  <2>1. a \notin 1..made /\ b \notin 1..made /\ a # b /\ a # n /\ b # n
    BY <1>1, <1>5, <1>8
  <2>2. PICK u : u = appendChildNode(t, a, b)
    OBVIOUS
  <2>3. /\ u.parent = ParentsWith(t, b, a)
        /\ u.kids = ListsWith(t, a, Append(t.kids[a], b))
    <3>1. ~WouldCreateCycle(t, a, b)
      BY <1>5, <2>1 DEF WouldCreateCycle
    <3> QED  BY <1>2, <2>2, <3>1, AppendKids
  <2>4. Links(u)
    BY <1>2, <1>5, <2>1, <2>2, AppendLinks DEF appendChildNode
  <2>5. a \notin Ancestry(u, n)
    <3>1. u.parent \in [Nodes -> NodeOrNil]
      BY <2>4, LinksProperties
    <3>2. Upward(u, Nodes \ {a, b})
      BY <1>2, <1>5, <2>1, <2>3, <3>1 DEF Upward, NodeOrNil, ParentsWith
    <3>3. PICK S \in SUBSET Nodes : S = Nodes \ {a, b}
      OBVIOUS
    <3>4. n \in S /\ Upward(u, S) /\ n \in Nodes
      BY <1>1, <2>1, <3>2, <3>3
    <3>5. Ancestry(u, n) \subseteq S
      BY <3>1, <3>4, AncestryProperties
    <3> QED  BY <3>3, <3>5
  <2>6. /\ tree'.parent = ParentsWith(u, a, n)
        /\ tree'.kids = ListsWith(u, n, Append(u.kids[n], a))
    <3>1. ~WouldCreateCycle(u, n, a) /\ tree' = appendChildNode(u, n, a)
      BY <1>8, <2>2, <2>5 DEF WouldCreateCycle
    <3> QED  BY <1>1, <2>4, <3>1, AppendKids
  <2>7. PICK N \in SUBSET Nodes : N = {a, b}
    OBVIOUS
  <2>8. /\ \A d \in Nodes : tree'.parent[d] = IF d = a THEN n ELSE IF d = b THEN a ELSE t.parent[d]
        /\ \A m \in Nodes \ {a, n} : tree'.kids[m] = t.kids[m]
    BY <1>2, <2>3, <2>6 DEF ListsWith, ParentsWith
  <2>9. \A d \in N : /\ tree.parent[d] = Nil /\ tree.kids[d] = <<>>
                     /\ tree'.parent[d] \in N \cup {n}
    BY <1>5, <2>1, <2>7, <2>8
  <2>10. \A d \in Nodes \ N : /\ tree'.parent[d] \in {tree.parent[d], Nil}
                              /\ tree'.parent[d] \notin N \cup {n}
    BY <1>4, <1>5, <2>1, <2>7, <2>8
  <2>11. \A m \in Nodes \ (N \cup {n}) : tree'.kids[m] = tree.kids[m]
    BY <1>4, <2>7, <2>8
  <2> QED  BY <1>1, <2>1, <2>7, <2>9, <2>10, <2>11, BuildStep
<1>9. ASSUME NEW a \in Nodes, NEW b \in Nodes, a = made + 1, b = made + 2,
             tree' = appendChildNode(appendChildNode(t, n, a), n, b)
      PROVE  Forest!Build(n)
  <2>1. a \notin 1..made /\ b \notin 1..made /\ a # b /\ a # n /\ b # n
    BY <1>1, <1>5, <1>9
  <2>2. PICK u : u = appendChildNode(t, n, a)
    OBVIOUS
  <2>3. /\ u.parent = ParentsWith(t, a, n)
        /\ u.kids = ListsWith(t, n, Append(t.kids[n], a))
    <3>1. ~WouldCreateCycle(t, n, a)
      BY <1>1, <1>5, <2>1 DEF WouldCreateCycle
    <3> QED  BY <1>1, <1>2, <2>2, <3>1, AppendKids
  <2>4. Links(u)
    BY <1>1, <1>2, <1>5, <2>1, <2>2, AppendLinks DEF appendChildNode
  <2>5. b \notin Ancestry(u, n)
    <3>1. u.parent \in [Nodes -> NodeOrNil]
      BY <2>4, LinksProperties
    <3>2. Upward(u, Nodes \ {b})
      BY <1>2, <1>5, <2>1, <2>3, <3>1 DEF Upward, NodeOrNil, ParentsWith
    <3>3. Nodes \ {b} \in SUBSET Nodes /\ n \in Nodes \ {b}
      BY <1>1, <2>1
    <3> QED  BY <1>1, <3>1, <3>2, <3>3, AncestryProperties
  <2>6. /\ tree'.parent = ParentsWith(u, b, n)
        /\ tree'.kids = ListsWith(u, n, Append(u.kids[n], b))
    <3>1. ~WouldCreateCycle(u, n, b) /\ tree' = appendChildNode(u, n, b)
      BY <1>9, <2>2, <2>5 DEF WouldCreateCycle
    <3> QED  BY <1>1, <2>4, <3>1, AppendKids
  <2>7. PICK N \in SUBSET Nodes : N = {a, b}
    OBVIOUS
  <2>8. /\ \A d \in Nodes : tree'.parent[d] = IF d = a \/ d = b THEN n ELSE t.parent[d]
        /\ \A m \in Nodes \ {n} : tree'.kids[m] = t.kids[m]
    BY <1>2, <2>3, <2>6 DEF ListsWith, ParentsWith
  <2>9. \A d \in N : /\ tree.parent[d] = Nil /\ tree.kids[d] = <<>>
                     /\ tree'.parent[d] \in N \cup {n}
    BY <1>5, <2>1, <2>7, <2>8
  <2>10. \A d \in Nodes \ N : /\ tree'.parent[d] \in {tree.parent[d], Nil}
                              /\ tree'.parent[d] \notin N \cup {n}
    BY <1>4, <1>5, <2>1, <2>7, <2>8
  <2>11. \A m \in Nodes \ (N \cup {n}) : tree'.kids[m] = tree.kids[m]
    BY <1>4, <2>7, <2>8
  <2> QED  BY <1>1, <2>1, <2>7, <2>9, <2>10, <2>11, BuildStep
<1>10. made + 2 \in Nodes => made + 1 \in Nodes
  BY <1>1, DomAssumption DEF Nodes, DomAssumption
<1> QED  BY <1>6, <1>7, <1>8, <1>9, <1>10

(* Cloning builds a tree below the copy of the node, or changes no list.   *)
LEMMA CloneStep ==
    ASSUME DomInv, DomInv', NEW n \in Created, NEW deep \in BOOLEAN, cloneNode(n, deep)
    PROVE  (\E x \in Nodes : Forest!Build(x)) \/ tree'.kids = tree.kids
<1>1. /\ Created \subseteq Nodes /\ made \in Nat /\ Created = 1..made
      /\ Links(tree) /\ Good(tree, made) /\ NoRing(tree) /\ tree.parent \in [Nodes -> NodeOrNil]
      /\ Links(tree') /\ NoRing(tree') /\ n \in Nodes /\ Nil \notin Nodes
  BY CreatedAreNodes, NilIsNoNode DEF DomInv, Good, Created
<1>2. PICK O : O = IF deep THEN Subtree(tree, n) ELSE {n}
  OBVIOUS
<1>3. PICK o : o = [m \in (made + 1)..(made + Cardinality(O)) |-> SetToSeq(O)[m - made]]
  OBVIOUS
<1>4. /\ made + Cardinality(O) <= NodeBudget
      /\ tree' = WithCopies(tree, n, deep, o)
  BY <1>2, <1>3 DEF cloneNode
<1>5. PICK C : C = (made + 1)..(made + Cardinality(O))
  OBVIOUS
<1>6. CopiesFit(tree, n, deep, o, C)
  <2>1. /\ O = (IF deep THEN Subtree(tree, n) ELSE {n}) /\ made + Cardinality(O) <= NodeBudget
        /\ made \in Nat /\ Good(tree, made) /\ n \in Nodes
    BY <1>1, <1>2, <1>4
  <2>2. CopiesFit(tree, n, deep, [m \in (made + 1)..(made + Cardinality(O)) |-> SetToSeq(O)[m - made]],
                  (made + 1)..(made + Cardinality(O)))
    BY <2>1, ClonesFit
  <2> QED  BY <1>3, <1>5, <2>2
<1>7. CASE ~deep
  <2>1. tree'.kids = [k \in Nodes |-> tree.kids[k]]
    BY <1>4, <1>7 DEF WithCopies
  <2>2. tree.kids \in [Nodes -> Seq(Nodes)]
    BY <1>1, LinksProperties
  <2> QED  BY <2>1, <2>2
<1>8. CASE deep
  <2>1. /\ C \in SUBSET Nodes /\ o \in [C -> Nodes]
        /\ \A j, k \in C : o[j] = o[k] => j = k
        /\ \A k \in C : tree.parent[k] = Nil /\ tree.kids[k] = <<>>
        /\ \A m \in Nodes : (\E k \in C : o[k] = m) <=> m \in Subtree(tree, n)
    BY <1>6, <1>8 DEF CopiesFit
  <2>2. n \in Subtree(tree, n) /\ \A m \in Subtree(tree, n) : m # n => tree.parent[m] \in Subtree(tree, n)
    BY <1>1, SubtreeProperties
  <2>3. PICK x \in C : o[x] = n
    BY <1>1, <2>1, <2>2
  <2>4. \A d \in Nodes \ C : tree'.parent[d] = tree.parent[d] /\ tree'.kids[d] = tree.kids[d]
    BY <1>1, <1>4, <1>6, CopiesLinks
  <2>5. \A d \in Nodes : tree.parent[d] \notin C
    <3>1. \A k \in C : k \notin 1..made /\ k # Nil
      BY <1>1, <1>5, <2>1
    <3> QED  BY <1>1, <3>1 DEF Good, Fresh
  <2>6. ASSUME NEW d \in C
        PROVE  IF d = x THEN tree'.parent[d] = Nil ELSE tree'.parent[d] \in C
    <3>1. DOMAIN o = C
      BY <2>1
    <3>2. tree'.parent[d] = IF o[d] # n
                            THEN (IF tree.parent[o[d]] = Nil THEN Nil
                                  ELSE CHOOSE k \in C : o[k] = tree.parent[o[d]])
                            ELSE tree.parent[d]
      BY <1>4, <1>8, <2>1, <3>1 DEF WithCopies
    <3>3. CASE d = x
      BY <2>1, <2>3, <3>2, <3>3
    <3>4. CASE d # x
      <4>1. o[d] # n /\ o[d] \in Subtree(tree, n)
        BY <2>1, <2>3, <3>4
      <4>2. tree.parent[o[d]] \in Subtree(tree, n) /\ tree.parent[o[d]] \in Nodes
        BY <2>2, <4>1 DEF Subtree
      <4>3. \E k \in C : o[k] = tree.parent[o[d]]
        BY <2>1, <4>2
      <4> QED  BY <1>1, <3>2, <3>4, <4>1, <4>2, <4>3
    <3> QED  BY <3>3, <3>4
  <2>7. PICK N \in SUBSET Nodes : N = C \ {x}
    BY <2>1
  <2>8. \A d \in N : /\ tree.parent[d] = Nil /\ tree.kids[d] = <<>>
                     /\ tree'.parent[d] \in N \cup {x}
    BY <2>1, <2>6, <2>7
  <2>9. \A d \in Nodes \ N : /\ tree'.parent[d] \in {tree.parent[d], Nil}
                             /\ tree'.parent[d] \notin N \cup {x}
    <3> SUFFICES ASSUME NEW d \in Nodes \ N
                 PROVE  /\ tree'.parent[d] \in {tree.parent[d], Nil}
                        /\ tree'.parent[d] \notin N \cup {x}
      OBVIOUS
    <3>1. CASE d = x
      BY <1>1, <2>1, <2>6, <2>7, <3>1
    <3>2. CASE d # x
      BY <2>4, <2>5, <2>7, <3>2
    <3> QED  BY <3>1, <3>2
  <2>10. \A m \in Nodes \ (N \cup {x}) : tree'.kids[m] = tree.kids[m]
    BY <2>4, <2>7
  <2>11. x \in Nodes /\ x \notin N
    BY <2>1, <2>7
  <2>12. Forest!Build(x)
    BY <1>1, <2>8, <2>9, <2>10, <2>11, BuildStep
  <2> QED  BY <2>11, <2>12
<1> QED  BY <1>7, <1>8

(* Each call is a step of the forest, or leaves every list alone.          *)
LEMMA CallsAreMoves == DomInv /\ DomInv' /\ [Next]_vars => [Forest!ForestNext]_(tree.kids)
<1> SUFFICES ASSUME DomInv, DomInv', [Next]_vars
             PROVE  Forest!ForestNext \/ tree'.kids = tree.kids
  OBVIOUS
<1>c. /\ Created \subseteq Nodes /\ Created = 1..made /\ made \in Nat
      /\ Links(tree) /\ Links(tree') /\ NoRing(tree')
  BY CreatedAreNodes DEF DomInv, Good, Created
<1>u. \A c \in Created : /\ Links(LeaveParent(tree, c)) /\ LeaveParent(tree, c).parent[c] = Nil
                         /\ LeaveParent(tree, c).kids = PrunedKids(tree, c)
  BY <1>c, LeaveGood, LeaveKids DEF DomInv, Good
<1>1. CASE createElement
  BY <1>1 DEF createElement
<1>2. ASSUME NEW n \in Created, NEW c \in Created, appendChild(n, c)
      PROVE  Forest!Move(c)
  <2>1. PICK u : u = LeaveParent(tree, c)
    OBVIOUS
  <2>2. tree' = appendChildNode(u, n, c)
    BY <1>2, <2>1 DEF appendChild
  <2> QED  BY <1>c, <1>u, <2>1, <2>2, AppendStep
<1>3. ASSUME NEW n \in Created, NEW c \in Created, removeChild(n, c)
      PROVE  Forest!Move(c) \/ tree'.kids = tree.kids
  <2>1. tree' = removeChildNode(tree, n, c)
    BY <1>3 DEF removeChild
  <2>2. CASE ~Contains(tree.kids[n], c)
    BY <2>1, <2>2 DEF removeChildNode
  <2>3. CASE Contains(tree.kids[n], c)
    <3>1. tree.parent[c] = n /\ n # Nil
      BY <1>c, <2>3, ListedChild, NilIsNoNode
    <3>2. tree' = LeaveParent(tree, c)
      BY <2>1, <3>1 DEF LeaveParent
    <3> QED  BY <1>c, <1>u, <3>2, PruneStep
  <2> QED  BY <2>2, <2>3
<1>4. ASSUME NEW n \in Created, NEW c \in Created, NEW ref \in Created \cup {Nil},
             insertBefore(n, c, ref)
      PROVE  Forest!Move(c)
  <2>1. PICK u : u = LeaveParent(tree, c)
    OBVIOUS
  <2>2. tree' = IF ref = Nil THEN appendChildNode(u, n, c) ELSE LinkBefore(u, n, c, ref)
    BY <1>4, <2>1 DEF insertBefore
  <2>3. CASE ref = Nil
    BY <1>c, <1>u, <2>1, <2>2, <2>3, AppendStep
  <2>4. CASE ref # Nil
    BY <1>c, <1>u, <2>1, <2>2, <2>4, BeforeStep
  <2> QED  BY <2>3, <2>4
<1>5. ASSUME NEW n \in Created, NEW c \in Created, NEW old \in Created, replaceChild(n, c, old)
      PROVE  Forest!Move(c) \/ Forest!Replace(c, old)
  <2>1. PICK u : u = LeaveParent(tree, c)
    OBVIOUS
  <2>2. tree' = LinkInPlace(u, n, c, old)
    BY <1>5, <2>1 DEF replaceChild
  <2> QED  BY <1>c, <1>u, <2>1, <2>2, InPlaceStep
<1>6. CASE CallThrows
  BY <1>6 DEF CallThrows, vars
<1>7. ASSUME NEW n \in Created, setInnerHTML(n)
      PROVE  Forest!Build(n)
  <2>1. PICK t : t = DropChildren(tree, n)
    OBVIOUS
  <2>2. PICK size \in 0..2, nested \in BOOLEAN :
           /\ made + size <= NodeBudget
           /\ tree' = IF size = 0 THEN t
                      ELSE IF size = 1 THEN appendChildNode(t, n, made + 1)
                      ELSE IF nested THEN appendChildNode(appendChildNode(t, made + 1, made + 2), n, made + 1)
                      ELSE appendChildNode(appendChildNode(t, n, made + 1), n, made + 2)
    BY <1>7, <2>1 DEF setInnerHTML
  <2>3. /\ size = 1 => made + 1 \in Nodes
        /\ size = 2 => made + 2 \in Nodes
    BY <1>c, <2>2, DomAssumption DEF Nodes, DomAssumption
  <2>4. size = 0 \/ size = 1 \/ size = 2
    BY <2>2
  <2> QED  BY <2>1, <2>2, <2>3, <2>4, FragmentStep
<1>8. ASSUME NEW n \in Created, setTextContent(n)
      PROVE  Forest!Build(n)
  <2>1. PICK t : t = DropChildren(tree, n)
    OBVIOUS
  <2>2. made + 1 \in Nodes /\ tree' = appendChildNode(t, n, made + 1)
    BY <1>8, <1>c, <2>1, DomAssumption DEF setTextContent, Nodes, DomAssumption
  <2> QED  BY <2>1, <2>2, FragmentStep
<1>9. ASSUME NEW n \in Created, NEW deep \in BOOLEAN, cloneNode(n, deep)
      PROVE  (\E x \in Nodes : Forest!Build(x)) \/ tree'.kids = tree.kids
  BY <1>9, CloneStep
<1>10. CASE UNCHANGED vars
  BY <1>10 DEF vars
<1>11. CASE Next
  <2>1. CASE \E n, c \in Created :
               \/ appendChild(n, c)
               \/ removeChild(n, c)
               \/ \E ref \in Created \cup {Nil} : insertBefore(n, c, ref)
               \/ \E old \in Created : replaceChild(n, c, old)
    <3>1. PICK n \in Created, c \in Created :
               \/ appendChild(n, c)
               \/ removeChild(n, c)
               \/ \E ref \in Created \cup {Nil} : insertBefore(n, c, ref)
               \/ \E old \in Created : replaceChild(n, c, old)
      BY <2>1
    <3>2. \/ Forest!Move(c) \/ tree'.kids = tree.kids
          \/ \E old \in Created : Forest!Replace(c, old)
      BY <1>2, <1>3, <1>4, <1>5, <3>1
    <3> QED  BY <1>c, <3>2 DEF Forest!ForestNext
  <2>2. CASE \E n \in Created :
               \/ setInnerHTML(n)
               \/ setTextContent(n)
               \/ \E deep \in BOOLEAN : cloneNode(n, deep)
    BY <1>7, <1>8, <1>9, <1>c, <2>2 DEF Forest!ForestNext
  <2> QED  BY <1>1, <1>6, <1>11, <2>1, <2>2 DEF Next
<1> QED  BY <1>10, <1>11

(* The pointer surgery of the calls implements moves, replacements and     *)
(* constructions of whole ordered subtrees.                                *)
THEOREM CallsMoveSubtrees == Spec => ImplementsOrderedForest
<1>1. Init => Forest!ForestInit
  <2>1. Init => Links(tree)
    BY InitGood DEF DomInv, Good
  <2> QED  BY <2>1 DEF Links, Typed, Forest!ForestInit
<1>2. Init => DomInv
  BY InitGood
<1>3. DomInv /\ [Next]_vars => DomInv'
  BY CallsAreGood
<1>4. DomInv /\ DomInv' /\ [Next]_vars => [Forest!ForestNext]_(tree.kids)
  BY CallsAreMoves
<1> QED  BY <1>1, <1>2, <1>3, <1>4, PTL DEF Spec, ImplementsOrderedForest, Forest!ForestSpec
===============================================================================
